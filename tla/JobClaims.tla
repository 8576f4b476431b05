----------------------------- MODULE JobClaims -----------------------------
(***************************************************************************)
(* The durable claim protocol of the agent-job queue: how a worker claims  *)
(* a job, reserves and writes sequence numbers under the claim's receipt,  *)
(* hands the job back or finishes it, and how terminal requests and the    *)
(* stale-job sweeps take it away from a worker.                            *)
(*                                                                         *)
(* Each action is one database transaction, or one step of a runner or of  *)
(* a sweep between two transactions.  A call the code answers with an      *)
(* error changes nothing and is a call the action's guard excludes; so is  *)
(* a repeated call answered "idempotent-replay".  A runner that crashed is *)
(* a runner that takes no more steps; what it had emitted may still reach  *)
(* the database, late, more than once and in any order.                    *)
(*                                                                         *)
(* The deployment has DURABLE_SEQUENCE_RECEIPTS_ENABLED set and runners    *)
(* that support it, so that every claim gets a nonce and a receipt.        *)
(***************************************************************************)
EXTENDS SequenceReservation, FiniteSets

CONSTANTS
    Jobs,        \* agent_jobs rows
    Workers,     \* worker registrations
    Claims,      \* claim nonces; also the keys of the receipts
    Channels,    \* jobLogs, sessionEvents, nativeEvents
    MaxRetries,  \* max_retries of every job, and maxAutoRetries of the runners
    LegacyRows,  \* bound: rows of a run that preceded durable claims
    NoJob, NoWorker, NoClaim, NoRow, NoIntent  \* absent values

ASSUME RetryAssumption == MaxRetries \in Nat
ASSUME LegacyAssumption == LegacyRows \in 0 .. MaxSeq

VARIABLES
    job,     \* job[j]: the agent_jobs row
    rcpt,    \* rcpt[k]: the row of agent_job_claim_sequence_receipts
    rows,    \* rows[j][c][s]: who wrote the row with that sequence number
    runner,  \* runner[k]: the runner that got claim k and what it emitted
    snap     \* snap[j]: the row a sweep selected, and whether its xmin still is
             \* the xmin of the row in the table

vars == <<job, rcpt, rows, runner, snap>>

----------------------------------------------------------------------------
(* Types                                                                   *)

CurrentStatuses == {"running", "finalizing", "waiting_for_input"}
ActiveStatuses == CurrentStatuses \cup {"queued", "paused"}
Intents == {"cancelled", "failed"}
TerminalStatuses == Intents \cup {"completed", "incomplete"}
LiveStates == {"active", "draining", "ready"}
ReceiptStates == LiveStates \cup {"released", "terminal", "crashed"}

Seqs == 1 .. MaxSeq
Legacy == "legacy"  \* the writer of a row that no receipt accounts for
Empty == "empty"
Writers == Claims \cup {Legacy, Empty}

ASSUME AbsentAssumption ==
    /\ NoClaim \notin Claims /\ NoWorker \notin Workers /\ NoJob \notin Jobs
    /\ NoIntent \notin TerminalStatuses
    /\ Claims \cap {Legacy, Empty} = {}

JobRow ==
    [status : ActiveStatuses \cup TerminalStatuses,
     worker : Workers \cup {NoWorker},
     claim : Claims \cup {NoClaim},
     intent : Intents \cup {NoIntent},
     highWater : [Channels -> 0 .. MaxSeq],
     retries : 0 .. MaxRetries,
     availableAt : BOOLEAN]

Receipt ==
    [state : ReceiptStates \cup {"none"},
     job : Jobs \cup {NoJob},
     worker : Workers \cup {NoWorker},
     start : [Channels -> 0 .. MaxSeq],
     end : [Channels -> 0 .. MaxSeq],
     mark : [Channels -> {NoMark} \cup 0 .. MaxSeq],
     inserted : [Channels -> Nat]]

Runner ==
    [phase : {"none", "offered", "executing", "drained", "done", "declined", "gaveUp"},
     sent : [Channels -> 0 .. MaxSeq]]

TypeOK ==
    /\ job \in [Jobs -> JobRow]
    /\ rcpt \in [Claims -> Receipt]
    /\ rows \in [Jobs -> [Channels -> [Seqs -> Writers]]]
    /\ runner \in [Claims -> Runner]
    /\ snap \in [Jobs -> [row : JobRow \cup {NoRow}, fresh : BOOLEAN]]

----------------------------------------------------------------------------
(* State predicates and the writes of a job row                            *)

Used(k) == rcpt[k].state # "none"

JobOf(k) == rcpt[k].job

\* Mutant: the nonce is not compared, only the worker that sends it.
IsCurrentForWorker(k) ==
    /\ Used(k)
    /\ job[JobOf(k)].worker = rcpt[k].worker
    /\ job[JobOf(k)].status \in CurrentStatuses

(* The job is still leased to claim k: the join of receipt and job that     *)
(* lockCurrentReceipt and lockReceiptForPersistence evaluate.               *)
IsCurrent(k) ==
    /\ Used(k)
    /\ job[JobOf(k)].claim = k
    /\ job[JobOf(k)].worker = rcpt[k].worker
    /\ job[JobOf(k)].status \in CurrentStatuses

Authorized(k, c, s) ==
    SequenceAuthorized(rcpt[k].state, rcpt[k].start[c], rcpt[k].end[c],
                       rcpt[k].mark[c], IsCurrent(k), s)

Greatest(a, b) == IF a < b THEN b ELSE a

Channelwise(Op(_, _), f, g) == [c \in Channels |-> Op(f[c], g[c])]

\* Mutant: the nonce survives the release.
UnleasedKeepingNonce(row) == [row EXCEPT !.worker = NoWorker]

Unleased(row) == [row EXCEPT !.worker = NoWorker, !.claim = NoClaim]

\* Mutant: the terminal status a runner reports wins over a held intent.
EndedAsReported(row, status) ==
    [Unleased(row) EXCEPT !.status = status, !.intent = NoIntent]

(* The row with which a job ends: ownership is cleared and a terminal       *)
(* intent that was held is consumed, and decides the status.                *)
Ended(row, status) ==
    [Unleased(row) EXCEPT
        !.status = IF row.intent = NoIntent THEN status ELSE row.intent,
        !.intent = NoIntent]

(* Every write of the row changes its xmin and its updated_at, the fence    *)
(* of a sweep that selected the row before.                                 *)
WriteJob(j, row) ==
    /\ job' = [job EXCEPT ![j] = row]
    /\ snap' = [snap EXCEPT ![j].fresh = FALSE]

SetReceiptState(k, state) == rcpt' = [rcpt EXCEPT ![k].state = state]

SetPhase(k, phase) == runner' = [runner EXCEPT ![k].phase = phase]

----------------------------------------------------------------------------
Init ==
    /\ job = [j \in Jobs |->
                [status |-> "queued", worker |-> NoWorker, claim |-> NoClaim,
                 intent |-> NoIntent, highWater |-> [c \in Channels |-> 0],
                 retries |-> 0, availableAt |-> FALSE]]
    /\ rcpt = [k \in Claims |->
                 [state |-> "none", job |-> NoJob, worker |-> NoWorker,
                  start |-> [c \in Channels |-> 0], end |-> [c \in Channels |-> 0],
                  mark |-> [c \in Channels |-> NoMark],
                  inserted |-> [c \in Channels |-> 0]]]
    /\ \E legacy \in [Jobs -> [Channels -> 0 .. LegacyRows]] :
         rows = [j \in Jobs |-> [c \in Channels |-> [s \in Seqs |->
                   IF s <= legacy[j][c] THEN Legacy ELSE Empty]]]
    /\ runner = [k \in Claims |->
                   [phase |-> "none", sent |-> [c \in Channels |-> 0]]]
    /\ snap = [j \in Jobs |-> [row |-> NoRow, fresh |-> FALSE]]

----------------------------------------------------------------------------
(* Claiming: claimJobs for one row of its batch                            *)

\* Mutant: the ends of earlier receipts are no floor of a new one.
FloorsOfRows(j, c) ==
    {0, job[j].highWater[c]} \cup {s \in Seqs : rows[j][c][s] # Empty}

\* Mutant: the rows that are there are none.
FloorsOfReceipts(j, c) ==
    {0, job[j].highWater[c]}
        \cup {rcpt[k].end[c] : k \in {r \in Claims : Used(r) /\ JobOf(r) = j}}

(* What the base of a new reservation must not fall below: the highest row  *)
(* persisted, the ends of the job's earlier receipts and the mark a release *)
(* fenced into the job.                                                     *)
Floors(j, c) ==
    {0, job[j].highWater[c]}
        \cup {s \in Seqs : rows[j][c][s] # Empty}
        \cup {rcpt[k].end[c] : k \in {r \in Claims : Used(r) /\ JobOf(r) = j}}

(* GREATEST of the floors, with room for one more number: the claim         *)
(* transaction fails when the sequence space is exhausted.                  *)
IsBase(j, base) ==
    \A c \in Channels :
        /\ base[c] \in Floors(j, c)
        /\ \A f \in Floors(j, c) : f <= base[c]
        /\ base[c] < MaxSeq

NewReceipt(j, w, base) ==
    [state |-> "active", job |-> j, worker |-> w,
     start |-> [c \in Channels |-> base[c] + 1],
     end |-> [c \in Channels |-> ReservationEnd(base[c], base[c] + 1)],
     mark |-> [c \in Channels |-> NoMark],
     inserted |-> [c \in Channels |-> 0]]

ClaimJob(j, k, w) ==
    /\ job[j].status = "queued"
    /\ ~ Used(k)
    /\ \E base \in [Channels -> 0 .. MaxSeq] :
         /\ IsBase(j, base)
         /\ rcpt' = [rcpt EXCEPT ![k] = NewReceipt(j, w, base)]
         /\ runner' = [runner EXCEPT ![k] = [phase |-> "offered", sent |-> base]]
    /\ WriteJob(j, [job[j] EXCEPT !.status = "running", !.worker = w,
                                  !.claim = k, !.availableAt = FALSE])
    /\ UNCHANGED rows

StartExecution(k) ==
    /\ runner[k].phase = "offered"
    /\ SetPhase(k, "executing")
    /\ UNCHANGED <<job, rcpt, rows, snap>>

(* The runner finds no slot or no memory for the job and asks for the       *)
(* status "queued" without a sequence high-water mark, which the status     *)
(* route refuses for a fenced job; or it still executes an earlier claim of *)
(* the job and skips this one.  Nothing changes but the runner.             *)
DeclineClaim(k) ==
    /\ runner[k].phase = "offered"
    /\ SetPhase(k, "declined")
    /\ UNCHANGED <<job, rcpt, rows, snap>>

(* The runner ends its run with a status update that no handoff preceded:   *)
(* refused too, and the runner forgets the job.                             *)
LeaveWithoutHandoff(k) ==
    /\ runner[k].phase = "executing"
    /\ SetPhase(k, "gaveUp")
    /\ UNCHANGED <<job, rcpt, rows, snap>>

----------------------------------------------------------------------------
(* The runner writes under its receipt                                     *)

(* ensureClaimSequenceReservation: more numbers for the holder of the job.  *)
EnsureReservation(k, c, required) ==
    /\ runner[k].phase = "executing"
    /\ IsCurrent(k)
    /\ rcpt[k].state = "active"
    /\ required >= rcpt[k].start[c]
    /\ rcpt' = [rcpt EXCEPT ![k].end[c] = ReservationEnd(@, required)]
    /\ UNCHANGED <<job, rows, runner, snap>>

(* The runner publishes one more event, numbered one above the last.  It    *)
(* does not know whether the job is still its own, only that its            *)
(* reservation reaches that far; it has asked for more before if need be.   *)
Emit(k, c) ==
    /\ runner[k].phase = "executing"
    /\ runner[k].sent[c] < rcpt[k].end[c]
    /\ runner' = [runner EXCEPT ![k].sent[c] = @ + 1]
    /\ UNCHANGED <<job, rcpt, rows, snap>>

(* The run is over: the producers are drained and number nothing more.      *)
Drain(k) ==
    /\ runner[k].phase = "executing"
    /\ SetPhase(k, "drained")
    /\ UNCHANGED <<job, rcpt, rows, snap>>

\* Mutant: a row that is delivered again is counted again.
InsertsOrReplays(k, c, s) == rows[JobOf(k)][c][s] \in {Empty, k}

\* onConflictDoNothing: only a row that was not there is returned and counted.
Inserts(k, c, s) == rows[JobOf(k)][c][s] = Empty

(* persistFencedAgentJobLogs, -SessionEvents and -NativeEvents for one row: *)
(* any number the runner has emitted, at any later time.  A number that is  *)
(* taken is skipped, and only an inserted row is counted.                   *)
PersistRow(k, c, s) ==
    /\ Used(k)
    /\ s <= runner[k].sent[c]
    /\ Authorized(k, c, s)
    /\ Inserts(k, c, s)
    /\ rows' = [rows EXCEPT ![JobOf(k)][c][s] = k]
    /\ rcpt' = [rcpt EXCEPT ![k].inserted[c] = @ + 1]
    /\ UNCHANGED <<job, runner, snap>>

\* Mutant: one complete channel is enough.
SomeChannelComplete(k, expected) ==
    \E c \in Channels : rcpt[k].inserted[c] = expected[c]

\* Every channel has as many inserted rows as its producer emitted.
HandoffComplete(k, expected) == rcpt[k].inserted = expected

(* prepareClaimSequenceHandoff: the holder declares what it emitted; the    *)
(* receipt is ready when as many rows were inserted.                        *)
PrepareHandoff(k) ==
    LET emitted == runner[k].sent
        expected == [c \in Channels |->
                       ExpectedInsertedCount(rcpt[k].start[c], emitted[c])]
    IN  /\ runner[k].phase = "drained"
        /\ IsCurrent(k)
        /\ rcpt[k].state \in LiveStates
        /\ \A c \in Channels :
             /\ emitted[c] \in rcpt[k].start[c] - 1 .. rcpt[k].end[c]
             /\ rcpt[k].mark[c] \in {NoMark, emitted[c]}
             /\ rcpt[k].inserted[c] <= expected[c]
        /\ rcpt' = [rcpt EXCEPT
             ![k].state = IF HandoffComplete(k, expected) THEN "ready" ELSE "draining",
             ![k].mark = emitted]
        /\ UNCHANGED <<job, rows, runner, snap>>

----------------------------------------------------------------------------
(* The holder updates its job: updateClaimedJobStatus                      *)

\* Mutant: a report is accepted although an intent is held.
ReportOverIntent(k, status) ==
    /\ \E r \in Claims :
         /\ runner[r].phase \in {"executing", "drained"}
         /\ JobOf(r) = JobOf(k) /\ rcpt[r].worker = rcpt[k].worker
    /\ IsCurrent(k)
    /\ WriteJob(JobOf(k), [job[JobOf(k)] EXCEPT !.status = status])
    /\ UNCHANGED <<rcpt, rows, runner>>

(* A status that neither ends nor releases the job; refused while a         *)
(* terminal intent is held.  The worker's client fills in the nonce of the  *)
(* newest claim the worker has of the job, whichever of its runs reports.   *)
ReportProgress(k, status) ==
    /\ \E r \in Claims :
         /\ runner[r].phase \in {"executing", "drained"}
         /\ JobOf(r) = JobOf(k) /\ rcpt[r].worker = rcpt[k].worker
    /\ IsCurrent(k)
    /\ job[JobOf(k)].intent = NoIntent
    /\ WriteJob(JobOf(k), [job[JobOf(k)] EXCEPT !.status = status])
    /\ UNCHANGED <<rcpt, rows, runner>>

\* executeJob: the limit of its retries is the runner's own; the server takes
\* the count it reports.
MayRetry(j) == job[j].retries < MaxRetries

(* Back to the queue, or paused, with the marks of the ready receipt; a     *)
(* terminal intent that is held ends the job instead.                       *)
Release(k, status, availableAt, retry) ==
    LET j == JobOf(k)
        released == [Unleased(job[j]) EXCEPT
                       !.status = status, !.retries = @ + retry,
                       !.availableAt = availableAt,
                       !.highWater = Channelwise(Greatest, rcpt[k].mark, @)]
    IN  /\ runner[k].phase = "drained"
        /\ rcpt[k].state = "ready"
        /\ rcpt[k].mark = runner[k].sent
        /\ IsCurrent(k)
        /\ retry = 1 => MayRetry(j)
        /\ IF job[j].intent = NoIntent
           THEN WriteJob(j, released) /\ SetReceiptState(k, "released")
           ELSE WriteJob(j, Ended(job[j], status)) /\ SetReceiptState(k, "terminal")
        /\ SetPhase(k, "done")
        /\ UNCHANGED rows

Finish(k, status) ==
    /\ runner[k].phase = "drained"
    /\ rcpt[k].state = "ready"
    /\ IsCurrent(k)
    /\ WriteJob(JobOf(k), Ended(job[JobOf(k)], status))
    /\ SetReceiptState(k, "terminal")
    /\ SetPhase(k, "done")
    /\ UNCHANGED rows

----------------------------------------------------------------------------
(* Terminal requests from outside: requestJobTerminalIntent                *)

(* No claim holds the job: it ends at once.                                 *)
EndUnclaimed(j, status) ==
    /\ job[j].status \in ActiveStatuses
    /\ job[j].claim = NoClaim
    /\ WriteJob(j, Ended(job[j], status))
    /\ UNCHANGED <<rcpt, rows, runner>>

(* The holder is still writing: the request is held until it hands over.    *)
HoldIntent(j, status) ==
    LET k == job[j].claim
    IN  /\ job[j].status \in ActiveStatuses
        /\ k # NoClaim
        /\ rcpt[k].job = j /\ rcpt[k].worker = job[j].worker
        /\ rcpt[k].state \in {"active", "draining"}
        /\ WriteJob(j, [job[j] EXCEPT
             !.status = "finalizing",
             !.intent = IF @ = NoIntent THEN status ELSE @])
        /\ UNCHANGED <<rcpt, rows, runner>>

(* The holder has handed over everything: the job ends.                     *)
EndReady(j, status) ==
    LET k == job[j].claim
    IN  /\ job[j].status \in CurrentStatuses
        /\ k # NoClaim
        /\ rcpt[k].job = j /\ rcpt[k].worker = job[j].worker
        /\ rcpt[k].state = "ready"
        /\ WriteJob(j, Ended(job[j], status))
        /\ SetReceiptState(k, "terminal")
        /\ UNCHANGED <<rows, runner>>

RequestTerminal(j, status) ==
    EndUnclaimed(j, status) \/ HoldIntent(j, status) \/ EndReady(j, status)

----------------------------------------------------------------------------
(* The stale-job sweeps                                                    *)

\* Mutants: the finalizing watchdog is missing; the quota sweep is missing; a
\* sweep selects rows for which it knows no outcome.
SweepableUnlessFinalizing(row) ==
    \/ row.status \in CurrentStatuses \ {"finalizing"}
    \/ row.status = "paused" /\ row.availableAt

SweepableUnlessPaused(row) == row.status \in CurrentStatuses

SweepableActive(row) == row.status \in ActiveStatuses

(* Whether a job is stale (its worker silent or gone, its deadline passed)  *)
(* is left open: any row of the swept statuses may be selected.             *)
Sweepable(row) ==
    \/ row.status \in CurrentStatuses
    \/ row.status = "paused" /\ row.availableAt

SweepSelect(j) ==
    /\ Sweepable(job[j])
    /\ ~ snap[j].fresh
    /\ snap' = [snap EXCEPT ![j] = [row |-> job[j], fresh |-> TRUE]]
    /\ UNCHANGED <<job, rcpt, rows, runner>>

\* Mutant: a job is requeued whatever its retries.
RequeuedWithoutLimit(row) ==
    IF row.status = "running"
    THEN {[Unleased(row) EXCEPT !.status = "queued", !.retries = @ + 1]}
    ELSE {}

\* recoverWorkerBoundJob with a retry left
Requeued(row) ==
    IF row.status = "running" /\ row.retries < MaxRetries
    THEN {[Unleased(row) EXCEPT !.status = "queued", !.retries = @ + 1]}
    ELSE {}

\* failRecoveredJob, the timeout sweep and the stuck-waiting sweep
Failed(row) ==
    IF row.status \in CurrentStatuses
    THEN {[row EXCEPT !.status = "failed", !.claim = NoClaim]}
    ELSE {}

\* resumePausedQuotaJob
Resumed(row) ==
    IF row.status = "paused"
    THEN {[Unleased(row) EXCEPT !.status = "queued", !.availableAt = FALSE]}
    ELSE {}

Recovered(row) ==
    IF row.intent = NoIntent
    THEN Requeued(row) \cup Failed(row) \cup Resumed(row)
    ELSE {Ended(row, row.intent)}

\* Mutant: the write of a sweep does not check the generation it selected.
UnfencedSelection(j) == snap[j].row # NoRow

(* selectedJobFence: the row is still the generation the sweep selected.    *)
SelectedJobFence(j) == snap[j].fresh

(* recoverStaleJobWithReceipt: the decision rests on the selected row; the  *)
(* receipt of its claim is marked crashed in the same transaction.          *)
Recover(j) ==
    LET selected == snap[j].row
        k == selected.claim
    IN  /\ selected # NoRow
        /\ SelectedJobFence(j)
        /\ \/ k = NoClaim /\ UNCHANGED rcpt
           \/ /\ k # NoClaim
              /\ rcpt[k].job = j /\ rcpt[k].worker = selected.worker
              /\ rcpt[k].state \in LiveStates
              /\ SetReceiptState(k, "crashed")
        /\ \E row \in Recovered(selected) : WriteJob(j, row)
        /\ UNCHANGED <<rows, runner>>

----------------------------------------------------------------------------
RunnerStep(k) ==
    \/ StartExecution(k) \/ DeclineClaim(k) \/ LeaveWithoutHandoff(k)
    \/ Drain(k) \/ PrepareHandoff(k)
    \/ \E c \in Channels : Emit(k, c)
    \/ \E c \in Channels, n \in Seqs : EnsureReservation(k, c, n)
    \/ \E c \in Channels, s \in Seqs : PersistRow(k, c, s)
    \/ \E st \in CurrentStatuses : ReportProgress(k, st)
    \/ \E st \in {"queued", "paused"}, at \in BOOLEAN, n \in {0, 1} :
          Release(k, st, at, n)
    \/ \E st \in TerminalStatuses : Finish(k, st)

ControlStep(j) ==
    \/ \E k \in Claims, w \in Workers : ClaimJob(j, k, w)
    \/ \E st \in Intents : RequestTerminal(j, st)
    \/ SweepSelect(j)
    \/ Recover(j)

Next == (\E k \in Claims : RunnerStep(k)) \/ (\E j \in Jobs : ControlStep(j))

Spec == Init /\ [][Next]_vars

(* The sweeps run on a timer of the control plane.  Nothing is assumed of   *)
(* runners, which may crash, nor of users.  A running job meets its 4-hour  *)
(* deadline, a finalizing one its 10 minutes, a quota pause its reset time; *)
(* a job that waits for an answer has no deadline here.  Two endless habits *)
(* are left aside because they put a deadline off for ever: a runner that   *)
(* reports its job as started again and again, and a user who repeats the   *)
(* cancellation of a finalizing job every few minutes.  A sweep acts        *)
(* milliseconds after it selected a row, so one that selects the row again  *)
(* and again does not find it rewritten in between every time: strong       *)
(* fairness of its write.                                                   *)
HasDeadline(j) == job[j].status \in {"running", "finalizing", "paused"}

Fairness ==
    \A j \in Jobs : /\ WF_vars(HasDeadline(j) /\ SweepSelect(j))
                   /\ SF_vars(HasDeadline(j) /\ Recover(j))

FairSpec == Spec /\ Fairness

----------------------------------------------------------------------------
(* Safety                                                                  *)

(* A receipt that is still open belongs to the claim that holds its job: a  *)
(* job never has two producers the database would listen to, and taking the *)
(* job away always closes the receipt of the claim that lost it.            *)
OpenReceiptHoldsJob == \A k \in Claims : rcpt[k].state \in LiveStates => IsCurrent(k)

(* A job that carries a nonce has an open receipt of the same worker to go  *)
(* with it, and a status the fences accept: no path leaves a row that every *)
(* fenced write and every sweep refuses for ever, the row of which          *)
(* requestJobTerminalIntent says that it "fails closed".                    *)
LeasedJobHasOpenReceipt ==
    \A j \in Jobs : job[j].claim # NoClaim =>
        /\ job[j].status \in CurrentStatuses
        /\ rcpt[job[j].claim].job = j
        /\ rcpt[job[j].claim].worker = job[j].worker
        /\ rcpt[job[j].claim].state \in LiveStates

(* A terminal request for a job whose receipt is open "is held as           *)
(* pendingTerminalIntent on a finalizing job" (agent-job-repository.ts):    *)
(* while it is held, the job is finalizing, where the watchdog ends it if   *)
(* its runner never hands over.                                             *)
HeldIntentStaysFinalizing ==
    \A j \in Jobs : job[j].intent # NoIntent => job[j].status = "finalizing"

(* No sequence number of a job is ever reserved by two claims, however      *)
(* claims, extensions, crashes and releases with late rows interleave.      *)
ReservationsDisjoint ==
    \A k, l \in Claims, c \in Channels :
        Used(k) /\ Used(l) /\ k # l /\ JobOf(k) = JobOf(l) =>
            \/ rcpt[k].end[c] < rcpt[l].start[c]
            \/ rcpt[l].end[c] < rcpt[k].start[c]

(* "A claim that locks first leaves a receipt and permanently fences legacy *)
(* input" (claim-sequence-receipt-repository.ts): a number a claim has      *)
(* reserved is free or the claim's own row, so that none of its events is   *)
(* skipped as a number that is taken.                                       *)
ReservedRowsAreOwn ==
    \A k \in Claims, c \in Channels : Used(k) =>
        \A s \in rcpt[k].start[c] .. rcpt[k].end[c] :
            rows[JobOf(k)][c][s] \in {Empty, k}

(* The counter of a receipt, on which the handoff decides, is the number of *)
(* rows its claim wrote, although deliveries repeat and overlap.            *)
CountsAreExact ==
    \A k \in Claims, c \in Channels : Used(k) =>
        rcpt[k].inserted[c] = Cardinality({s \in Seqs : rows[JobOf(k)][c][s] = k})

(* Once the handoff answered ready, and for ever after a release or a       *)
(* terminal update, every event the claim emitted is a row of the job and   *)
(* was written by that claim: nothing is lost and nothing is shadowed.      *)
HandedOverComplete ==
    \A k \in Claims, c \in Channels :
        rcpt[k].state \in {"ready", "released", "terminal"} =>
            /\ rcpt[k].mark[c] = runner[k].sent[c]
            /\ \A s \in rcpt[k].start[c] .. runner[k].sent[c] : rows[JobOf(k)][c][s] = k

(* The fence of a sweep and the receipt never contradict each other: while  *)
(* nobody has written the row it selected, the receipt of the claim in that *)
(* row is open, of this job and this worker, and the sweep has an outcome   *)
(* for the row.  It gives up only because somebody moved the job, and never *)
(* rolls back on "Claim sequence receipt changed during stale recovery".    *)
SweepIsNeverRefused ==
    \A j \in Jobs : snap[j].fresh =>
        LET selected == snap[j].row
            k == selected.claim
        IN  /\ Recovered(selected) # {}
            /\ k # NoClaim => /\ rcpt[k].job = j /\ rcpt[k].worker = selected.worker
                              /\ rcpt[k].state \in LiveStates

----------------------------------------------------------------------------
(* Refinement: the protocol keeps the promise of JobLease                  *)

LeasePhase(row) ==
    IF row.status \in TerminalStatuses THEN "done"
    ELSE IF row.intent # NoIntent THEN "closing"
    ELSE IF row.claim # NoClaim THEN "leased"
    ELSE "free"

LeaseVerdict(row) ==
    IF row.status \in TerminalStatuses THEN row.status ELSE row.intent

Lease == INSTANCE JobLease WITH
    Outcomes <- TerminalStatuses,
    NoOutcome <- NoIntent,
    phase <- [j \in Jobs |-> LeasePhase(job[j])],
    holder <- [j \in Jobs |-> job[j].claim],
    verdict <- [j \in Jobs |-> LeaseVerdict(job[j])],
    spent <- {k \in Claims : Used(k)}

(* One lease at a time, each nonce good for one lease, the first accepted   *)
(* cancellation or failure decides the outcome over whatever the runner or  *)
(* a sweep reports later, and a finished job never changes its outcome.     *)
LeaseSpec == Lease!LeaseSpec

----------------------------------------------------------------------------
(* Liveness                                                                *)

(* A cancellation that was held for the runner takes effect even when the   *)
(* runner never answers: the finalizing watchdog applies it.                *)
HeldIntentIsApplied ==
    \A j \in Jobs, st \in Intents :
        job[j].intent = st ~> job[j].status = st

(* A job paused until its quota resets returns to the queue or ends.        *)
QuotaPauseEnds ==
    \A j \in Jobs :
        job[j].status = "paused" /\ job[j].availableAt ~> job[j].status # "paused"

(* A claimed job the runner "can't fit" goes "back to queue" and waits      *)
(* there for memory (orchestrator.ts), unless somebody asks to end it.      *)
DeclinedJobReturnsToQueue ==
    \A k \in Claims, j \in Jobs :
        runner[k].phase = "declined" /\ JobOf(k) = j /\ job[j].claim = k
            ~> job[j].status = "queued" \/ job[j].intent # NoIntent
=============================================================================
