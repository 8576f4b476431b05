----------------------------- MODULE JobControl -----------------------------
(***************************************************************************)
(* The claim protocol of JobClaims together with the parts of the control  *)
(* plane that write the same rows without its fences: the questions a      *)
(* runner asks (worker_interactions) with their answers and timeouts, the  *)
(* interrupt and cancel buttons of a planning session, the stop button of  *)
(* Discord and the user inputs that are written into the log of a job.     *)
(*                                                                         *)
(* Most of these handlers read a row, wait, and write later by id alone.   *)
(* What a handler still has to do is an element of todo; a restart of the  *)
(* control plane forgets all of it.                                        *)
(***************************************************************************)
EXTENDS JobClaims

CONSTANTS
    Asks,          \* worker_interactions rows
    PlanningJobs,  \* the jobs that belong to a planning session
    LogChannel     \* jobLogs

ASSUME LogChannelAssumption == LogChannel \in Channels
ASSUME PlanningAssumption == PlanningJobs \subseteq Jobs

VARIABLES
    ask,       \* ask[a]: the row of the question
    todo,      \* the steps that handlers have still to take, each for a question
    stopping,  \* the jobs a Discord button has read as active and will stop
    completed  \* completed[j]: completed_at of the job is set

handlerVars == <<ask, todo, stopping>>
controlVars == <<vars, handlerVars, completed>>

SweeperSteps == {"judge", "discard", "fail", "request", "continue"}
Steps == SweeperSteps \cup {"resume", "pause"}

ControlTypeOK ==
    /\ TypeOK
    /\ ask \in [Asks ->
         [job : Jobs \cup {NoJob},
          status : {"none", "pending", "answered", "timed_out", "cancelled"},
          onTimeout : {"fail", "continue"}]]
    /\ todo \subseteq [step : Steps, ask : Asks]
    /\ stopping \subseteq Jobs
    /\ completed \in [Jobs -> BOOLEAN]

ControlInit ==
    /\ Init
    /\ ask = [a \in Asks |-> [job |-> NoJob, status |-> "none", onTimeout |-> "fail"]]
    /\ todo = {}
    /\ stopping = {}
    /\ completed = [j \in Jobs |-> FALSE]

----------------------------------------------------------------------------
(* Helpers                                                                 *)

Todo(step, a) == [step |-> step, ask |-> a]

\* Mutant: a question that is already resolved can be resolved again.
AskedOnce(a) == ask[a].status # "none"

Pending(a) == ask[a].status = "pending"

AsksOf(j) == {a \in Asks : ask[a].job = j}

Resolve(resolved, status) ==
    ask' = [a \in Asks |-> IF a \in resolved THEN [ask[a] EXCEPT !.status = status]
                                             ELSE ask[a]]

\* cancelInteractionsByJobId
CancelAsks(j) == Resolve({a \in AsksOf(j) : Pending(a)}, "cancelled")

Take(step, a) == todo' = todo \ {Todo(step, a)}

TakeAndLeave(step, next, a) == todo' = (todo \ {Todo(step, a)}) \cup {Todo(next, a)}

(* updateJobStatus: by the id of the job, whatever its status, its nonce    *)
(* and its held intent are by now.                                          *)
UpdateJobStatus(j, row) ==
    /\ WriteJob(j, row)
    /\ UNCHANGED <<rcpt, rows, runner>>

OpenAsk(a, j, onTimeout) ==
    /\ ask[a].status = "none"
    /\ ask' = [ask EXCEPT ![a] = [job |-> j, status |-> "pending",
                                  onTimeout |-> onTimeout]]

----------------------------------------------------------------------------
(* The claim protocol, with completed_at                                   *)

(* What completed_at may be after a step of the protocol: set with a        *)
(* successful or cancelled end, cleared when the job returns to the queue.  *)
(* A held failure keeps the completed_at of the report it overrides.        *)
CompletedAfter(j) ==
    CASE job'[j] = job[j] -> {completed[j]}
      [] job'[j].status \in {"completed", "incomplete", "cancelled"} -> {TRUE}
      [] job'[j].status \in {"queued", "paused"} -> {FALSE}
      [] job'[j].status = "failed" /\ job[j].intent = "failed" -> BOOLEAN
      [] OTHER -> {completed[j]}

ProtocolStep ==
    /\ Next
    /\ completed' \in [Jobs -> BOOLEAN]
    /\ \A j \in Jobs : completed'[j] \in CompletedAfter(j)
    /\ UNCHANGED handlerVars

----------------------------------------------------------------------------
(* Questions and answers                                                   *)

(* createFencedJobInteraction: the holder of the job asks, and the job      *)
(* waits.  The nonce is filled in by the client, as for a status report.    *)
Ask(k, a, onTimeout) ==
    /\ \E r \in Claims :
         /\ runner[r].phase = "executing"
         /\ JobOf(r) = JobOf(k) /\ rcpt[r].worker = rcpt[k].worker
    /\ IsCurrent(k)
    /\ job[JobOf(k)].intent = NoIntent
    /\ OpenAsk(a, JobOf(k), onTimeout)
    /\ UpdateJobStatus(JobOf(k), [job[JobOf(k)] EXCEPT !.status = "waiting_for_input"])
    /\ UNCHANGED <<todo, stopping, completed>>

(* respondToInteraction, from any of the four entry points: the first       *)
(* resolution wins.  Resuming the job is a step of its own.                 *)
Answer(a) ==
    /\ Pending(a)
    /\ Resolve({a}, "answered")
    /\ todo' = todo \cup {Todo("resume", a)}
    /\ UNCHANGED <<vars, stopping, completed>>

(* The job of an answered question: running again, or queued without its    *)
(* worker when a planning session finds the worker offline.                 *)
ResumeAnswered(a) ==
    LET j == ask[a].job
    IN  /\ Todo("resume", a) \in todo
        /\ \/ UpdateJobStatus(j, [job[j] EXCEPT !.status = "running"])
           \/ UpdateJobStatus(j, [job[j] EXCEPT !.status = "queued", !.worker = NoWorker])
        /\ Take("resume", a)
        /\ UNCHANGED <<ask, stopping, completed>>

(* planning:interrupt opens a question on the active job of the session ... *)
Interrupt(j, a) ==
    /\ j \in PlanningJobs
    /\ job[j].status \in ActiveStatuses
    /\ OpenAsk(a, j, "continue")
    /\ todo' = todo \cup {Todo("pause", a)}
    /\ UNCHANGED <<vars, stopping, completed>>

\* ... and makes it wait.
PauseInterrupted(a) ==
    LET j == ask[a].job
    IN  /\ Todo("pause", a) \in todo
        /\ UpdateJobStatus(j, [job[j] EXCEPT !.status = "waiting_for_input"])
        /\ Take("pause", a)
        /\ UNCHANGED <<ask, stopping, completed>>

(* planning:cancel, planning:kill and the idle sweep read the active job,   *)
(* then cancel its questions and the job, in either order: by now it may    *)
(* have ended.  Cancelling the job is RequestTerminal.                      *)
CancelSession(j) ==
    /\ j \in PlanningJobs
    /\ CancelAsks(j)
    /\ UNCHANGED <<vars, todo, stopping, completed>>

----------------------------------------------------------------------------
(* The interaction timeout sweep, one question after the other             *)

SweeperIdle == \A t \in todo : t.step \notin SweeperSteps

Expire(expired) ==
    /\ SweeperIdle
    /\ expired # {}
    /\ \A a \in expired : Pending(a)
    /\ Resolve(expired, "timed_out")
    /\ todo' = todo \cup {Todo("judge", a) : a \in expired}
    /\ UNCHANGED <<vars, stopping, completed>>

(* handleExpiredInteraction reads the job and decides on what it read.      *)
JudgeExpired(a) ==
    LET j == ask[a].job
        planningWaits == j \in PlanningJobs /\ job[j].status = "waiting_for_input"
    IN  /\ Todo("judge", a) \in todo
        /\ \A t \in todo : t.step \notin SweeperSteps \ {"judge"}
        /\ CASE completed[j] -> TakeAndLeave("judge", "discard", a)
             [] ~completed[j] /\ ask[a].onTimeout = "fail" ->
                  TakeAndLeave("judge", "fail", a)
             [] ~completed[j] /\ ask[a].onTimeout # "fail" /\ planningWaits ->
                  Take("judge", a)
             [] OTHER -> TakeAndLeave("judge", "continue", a)
        /\ UNCHANGED <<vars, ask, stopping, completed>>

DiscardOrphans(a) ==
    /\ Todo("discard", a) \in todo
    /\ CancelAsks(ask[a].job)
    /\ Take("discard", a)
    /\ UNCHANGED <<vars, stopping, completed>>

FailCancelsAsks(a) ==
    /\ Todo("fail", a) \in todo
    /\ CancelAsks(ask[a].job)
    /\ TakeAndLeave("fail", "request", a)
    /\ UNCHANGED <<vars, stopping, completed>>

(* requestJobTerminalIntent answers null: the job has ended, or it carries  *)
(* a nonce without an open receipt of its worker.                           *)
TerminalRefused(j) ==
    LET k == job[j].claim
    IN  \/ job[j].status \notin ActiveStatuses
        \/ /\ k # NoClaim
           /\ \/ rcpt[k].job # j \/ rcpt[k].worker # job[j].worker
              \/ rcpt[k].state \notin LiveStates
              \/ rcpt[k].state = "ready" /\ job[j].status \notin CurrentStatuses

FailExpired(a) ==
    LET j == ask[a].job
    IN  /\ Todo("request", a) \in todo
        /\ \/ /\ RequestTerminal(j, "failed")
              /\ \E value \in CompletedAfter(j) :
                   completed' = [completed EXCEPT ![j] = value]
           \/ TerminalRefused(j) /\ UNCHANGED <<vars, completed>>
        /\ Take("request", a)
        /\ UNCHANGED <<ask, stopping>>

ContinueExpired(a) ==
    LET j == ask[a].job
    IN  /\ Todo("continue", a) \in todo
        /\ UpdateJobStatus(j, [job[j] EXCEPT !.status = "running"])
        /\ Take("continue", a)
        /\ UNCHANGED <<ask, stopping, completed>>

----------------------------------------------------------------------------
(* Discord, user inputs, restarts                                          *)

DiscordReads(j) ==
    /\ job[j].status \in ActiveStatuses
    /\ stopping' = stopping \cup {j}
    /\ UNCHANGED <<vars, ask, todo, completed>>

\* processControlButton ends the job and leaves its worker and its nonce.
DiscordStops(j) ==
    /\ j \in stopping
    /\ UpdateJobStatus(j, [job[j] EXCEPT !.status = "cancelled"])
    /\ completed' = [completed EXCEPT ![j] = TRUE]
    /\ stopping' = stopping \ {j}
    /\ UNCHANGED <<ask, todo>>

LogRows(j) == {s \in Seqs : rows[j][LogChannel][s] # Empty}

\* MAX(seq) + 1
NextLogSeq(j, s) == s - 1 \in {0} \cup LogRows(j) /\ \A r \in LogRows(j) : r < s

(* createSequentialAgentJobLog: what the user typed, as the next row of the *)
(* log, whoever holds a receipt.                                            *)
PersistUserInput(j) ==
    /\ j \in PlanningJobs
    /\ \E s \in Seqs :
         /\ NextLogSeq(j, s)
         /\ rows' = [rows EXCEPT ![j][LogChannel][s] = Legacy]
    /\ UNCHANGED <<job, rcpt, runner, snap, handlerVars, completed>>

Restart ==
    /\ todo # {} \/ stopping # {}
    /\ todo' = {}
    /\ stopping' = {}
    /\ UNCHANGED <<vars, ask, completed>>

----------------------------------------------------------------------------
AskStep(a) ==
    \/ \E k \in Claims, onTimeout \in {"fail", "continue"} : Ask(k, a, onTimeout)
    \/ Answer(a) \/ ResumeAnswered(a)
    \/ \E j \in Jobs : Interrupt(j, a)
    \/ PauseInterrupted(a)
    \/ JudgeExpired(a) \/ DiscardOrphans(a) \/ FailCancelsAsks(a)
    \/ FailExpired(a) \/ ContinueExpired(a)

ControlNext ==
    \/ ProtocolStep
    \/ \E a \in Asks : AskStep(a)
    \/ \E expired \in SUBSET Asks : Expire(expired)
    \/ \E j \in Jobs :
         CancelSession(j) \/ DiscordReads(j) \/ DiscordStops(j) \/ PersistUserInput(j)
    \/ Restart

ControlSpec == ControlInit /\ [][ControlNext]_controlVars

(* The sweep of jobs that wait although every question they have asked is   *)
(* resolved runs on the same timer as the other sweeps.                     *)
WaitsResolved(j) ==
    /\ job[j].status = "waiting_for_input"
    /\ AsksOf(j) # {}
    /\ \A a \in AsksOf(j) : ~ Pending(a)

StuckSweepStep(step) == step /\ UNCHANGED <<handlerVars, completed>>

FairControlSpec ==
    /\ ControlSpec
    /\ \A j \in Jobs :
         /\ WF_controlVars(StuckSweepStep(WaitsResolved(j) /\ SweepSelect(j)))
         /\ SF_controlVars(StuckSweepStep(WaitsResolved(j) /\ Recover(j)))

----------------------------------------------------------------------------
(* What survives the writes that no receipt fences                         *)

(* The answer and the timeout of one question never both act on the job:    *)
(* whoever still has to act found the question unresolved, and nobody else  *)
(* has resolved it since.                                                   *)
HandlersMatchResolution ==
    \A t \in todo :
        /\ t.step = "resume" => ask[t.ask].status = "answered"
        /\ t.step \in SweeperSteps => ask[t.ask].status = "timed_out"

(* A cancellation or a failure that was accepted for a job a runner holds   *)
(* is never lost and never overruled by another outcome: it stays in the    *)
(* row, through answers, pauses and further claims, until the row ends so.  *)
HeldIntentIsNeverLost ==
    [][\A j \in Jobs : job[j].intent # NoIntent =>
          \/ job'[j].intent = job[j].intent
          \/ job'[j].status = job[j].intent]_job

(* A claim that lost its job never gets it back, whoever rewrites the row   *)
(* afterwards, and its receipt is frozen but for the count of rows: a       *)
(* runner that comes back late can neither reserve more numbers, nor        *)
(* declare another mark, nor hand the job over.                             *)
LostLeaseStaysLost ==
    [][\A k \in Claims : Used(k) /\ job[JobOf(k)].claim # k =>
          /\ job'[JobOf(k)].claim # k
          /\ rcpt'[k] = [rcpt[k] EXCEPT !.inserted = rcpt'[k].inserted]]_<<job, rcpt>>

\* The writes of a job row that look at nothing but the id of the job.
WriteById ==
    \/ \E a \in Asks : ResumeAnswered(a) \/ PauseInterrupted(a) \/ ContinueExpired(a)
    \/ \E j \in Jobs : DiscordStops(j)

(* The four writes by id are alone to blame: no other step, of a runner, a  *)
(* sweep, a question or a request to end the job, touches a job that has    *)
(* ended, or takes a finalizing job elsewhere than to the end that is held  *)
(* for it, whatever the four have left in the rows before.                  *)
OtherStepsKeepOutcomes ==
    [][WriteById \/ \A j \in Jobs :
          /\ job[j].status \in TerminalStatuses => job'[j] = job[j]
          /\ job[j].status = "finalizing" /\ job[j].intent # NoIntent =>
                job'[j].status \in {"finalizing", job[j].intent}]_job

----------------------------------------------------------------------------
(* What does not                                                           *)

(* "Do not flip a job that already finished successfully": the timeout of a *)
(* question never sets a completed job running again.                       *)
SweeperSparesCompletedJobs ==
    [][\A a \in Asks : ContinueExpired(a) => job[ask[a].job].status # "completed"]_job

(* The sweep "recovers jobs stuck in waiting_for_input where all            *)
(* interactions are already in a terminal state".                           *)
StuckWaitingRecovers ==
    \A j \in Jobs : WaitsResolved(j) ~> ~ WaitsResolved(j)
=============================================================================
