-------------------------- MODULE JobControlProofs --------------------------
(***************************************************************************)
(* What the claim protocol keeps beside the writers of JobControl, which   *)
(* no receipt fences.  The lease itself does not survive them: a job may   *)
(* end with its nonce, an open receipt may lose its job.  The numbering of *)
(* SequenceProofs does, and so does a held intent.                         *)
(***************************************************************************)
EXTENDS JobControl, SequenceProofs

AskRow ==
    [job : Jobs \cup {NoJob},
     status : {"none", "pending", "answered", "timed_out", "cancelled"},
     onTimeout : {"fail", "continue"}]

\* A question that was asked belongs to a job: its foreign key.
AsksNameJobs == \A a \in Asks : ask[a].status # "none" => ask[a].job \in Jobs

\* A handler has work only for a question that was asked.
TodoIsAsked == \A t \in todo : ask[t.ask].status # "none"

HandlerInv == AsksNameJobs /\ TodoIsAsked /\ HandlersMatchResolution

ControlInv == ControlTypeOK /\ ReceiptsNameJobs /\ HandlerInv

----------------------------------------------------------------------------
(* How a step moves questions and handlers                                 *)

\* A question is opened for a job, resolved once, and then stays.
AskMove ==
    /\ ask' \in [Asks -> AskRow]
    /\ \A a \in Asks :
         /\ ask[a].status = "none" /\ ask'[a].status # "none" => ask'[a].job \in Jobs
         /\ ask[a].status = "pending" =>
              ask'[a].status # "none" /\ ask'[a].job = ask[a].job
         /\ ask[a].status \notin {"none", "pending"} => ask'[a] = ask[a]

\* Work a handler gets is about a question resolved in its favour.
Justified(t) ==
    /\ ask'[t.ask].status # "none"
    /\ t.step = "resume" => ask'[t.ask].status = "answered"
    /\ t.step \in SweeperSteps => ask'[t.ask].status = "timed_out"

TodoMove ==
    /\ todo' \subseteq [step : Steps, ask : Asks]
    /\ \A t \in todo' : t \in todo \/ Justified(t)

HandlerMove ==
    AskMove /\ TodoMove /\ stopping' \subseteq Jobs /\ completed' \in [Jobs -> BOOLEAN]

LEMMA HandlerMoveKeeps ==
    ASSUME ControlInv, HandlerMove
    PROVE  HandlerInv'
<1>1. /\ ask \in [Asks -> AskRow]
      /\ \A t \in todo : t \in [step : Steps, ask : Asks] /\ t.ask \in Asks
  BY DEF ControlInv, ControlTypeOK, AskRow
<1>2. AsksNameJobs'
  BY DEF ControlInv, HandlerInv, AsksNameJobs, HandlerMove, AskMove
<1>3. TodoIsAsked'
  BY <1>1 DEF ControlInv, HandlerInv, TodoIsAsked, HandlerMove, AskMove, TodoMove, Justified
<1>4. HandlersMatchResolution'
  BY <1>1 DEF ControlInv, HandlerInv, HandlersMatchResolution, HandlerMove, AskMove,
              TodoMove, Justified
<1> QED
  BY <1>2, <1>3, <1>4 DEF HandlerInv

LEMMA ResolveMove ==
    ASSUME ControlInv, NEW S \in SUBSET Asks, \A a \in S : Pending(a),
           NEW status \in {"answered", "timed_out", "cancelled"}, Resolve(S, status)
    PROVE  AskMove /\ \A a \in S : ask'[a].status = status
<1>1. ask \in [Asks -> AskRow]
  BY DEF ControlInv, ControlTypeOK, AskRow
<1>2. \A a \in Asks : ask'[a] = IF a \in S THEN [ask[a] EXCEPT !.status = status] ELSE ask[a]
  BY DEF Resolve
<1>3. \A a \in Asks : ask'[a] \in AskRow
  BY <1>1, <1>2 DEF AskRow
<1>4. ask' \in [Asks -> AskRow]
  BY <1>3 DEF Resolve
<1>5. \A a \in S : ask'[a].status = status /\ ask'[a].job = ask[a].job
  BY <1>1, <1>2 DEF AskRow
<1> QED
  BY <1>2, <1>4, <1>5 DEF AskMove, Pending

LEMMA OpenMove ==
    ASSUME ControlInv, NEW a \in Asks, NEW j \in Jobs,
           NEW onTimeout \in {"fail", "continue"}, OpenAsk(a, j, onTimeout)
    PROVE  AskMove /\ ask'[a].status = "pending"
<1>1. ask \in [Asks -> AskRow]
  BY DEF ControlInv, ControlTypeOK, AskRow
<1>2. [job |-> j, status |-> "pending", onTimeout |-> onTimeout] \in AskRow
  BY DEF AskRow
<1> QED
  BY <1>1, <1>2 DEF OpenAsk, AskMove

LEMMA SameAsks ==
    ASSUME ControlInv, UNCHANGED ask
    PROVE  AskMove
BY DEF ControlInv, ControlTypeOK, AskMove, AskRow

LEMMA CancelMove ==
    ASSUME ControlInv, NEW j, CancelAsks(j)
    PROVE  AskMove
<1>1. {a \in AsksOf(j) : Pending(a)} \in SUBSET Asks
  BY DEF AsksOf
<1> QED
  BY <1>1, ResolveMove DEF CancelAsks

\* A handler takes a step, and may leave another one of its kind.
LEMMA TakeMove ==
    ASSUME ControlInv, AskMove, NEW a \in Asks, NEW step \in Steps, Todo(step, a) \in todo,
           \/ Take(step, a)
           \/ /\ step \in SweeperSteps
              /\ \E next \in SweeperSteps : TakeAndLeave(step, next, a)
    PROVE  TodoMove
<1>1. todo \subseteq [step : Steps, ask : Asks] /\ SweeperSteps \subseteq Steps
  BY DEF ControlInv, ControlTypeOK, Steps
<1>2. CASE Take(step, a)
  BY <1>1, <1>2 DEF Take, TodoMove
<1>3. ASSUME step \in SweeperSteps, NEW next \in SweeperSteps, TakeAndLeave(step, next, a)
      PROVE  TodoMove
  <2>1. ask[a].status = "timed_out"
    BY <1>3 DEF ControlInv, HandlerInv, HandlersMatchResolution, Todo
  <2>2. ask'[a].status = "timed_out"
    BY <2>1 DEF AskMove
  <2>3. Justified(Todo(next, a))
    BY <1>3, <2>2 DEF Justified, Todo, SweeperSteps
  <2>4. Todo(next, a) \in [step : Steps, ask : Asks]
    BY <1>1 DEF Todo
  <2> QED
    BY <1>1, <1>3, <2>3, <2>4 DEF TakeAndLeave, TodoMove
<1> QED
  BY <1>2, <1>3

LEMMA SameTodo ==
    ASSUME ControlInv, UNCHANGED todo
    PROVE  TodoMove
BY DEF ControlInv, ControlTypeOK, TodoMove

LEMMA AskedJob ==
    ASSUME ControlInv, NEW a \in Asks, NEW step, Todo(step, a) \in todo
    PROVE  ask[a].job \in Jobs
BY DEF ControlInv, HandlerInv, AsksNameJobs, TodoIsAsked, Todo

\* JudgeExpired leaves one of the next steps of the sweep, or none.
LEMMA JudgeMove ==
    ASSUME NEW a \in Asks, JudgeExpired(a)
    PROVE  /\ Todo("judge", a) \in todo /\ UNCHANGED <<vars, ask, stopping, completed>>
           /\ \/ Take("judge", a)
              \/ \E next \in SweeperSteps : TakeAndLeave("judge", next, a)
<1> DEFINE planningWaits ==
             ask[a].job \in PlanningJobs /\ job[ask[a].job].status = "waiting_for_input"
<1>1. CASE completed[ask[a].job]
  BY <1>1 DEF JudgeExpired, SweeperSteps
<1>2. CASE ~ completed[ask[a].job] /\ ask[a].onTimeout = "fail"
  BY <1>2 DEF JudgeExpired, SweeperSteps
<1>3. CASE ~ completed[ask[a].job] /\ ask[a].onTimeout # "fail" /\ planningWaits
  BY <1>3 DEF JudgeExpired, SweeperSteps
<1>4. CASE ~ completed[ask[a].job] /\ ask[a].onTimeout # "fail" /\ ~ planningWaits
  BY <1>4 DEF JudgeExpired, SweeperSteps
<1> QED
  BY <1>1, <1>2, <1>3, <1>4

LEMMA CompletedIsBoolean ==
    ASSUME ControlInv, NEW j \in Jobs
    PROVE  CompletedAfter(j) \subseteq BOOLEAN
<1>1. completed[j] \in BOOLEAN
  BY DEF ControlInv, ControlTypeOK
<1> QED
  BY <1>1 DEF CompletedAfter

LEMMA StepMovesHandlers ==
    ASSUME ControlInv, [ControlNext]_controlVars
    PROVE  HandlerMove
<1>0. /\ stopping \subseteq Jobs /\ completed \in [Jobs -> BOOLEAN]
      /\ todo \subseteq [step : Steps, ask : Asks]
  BY DEF ControlInv, ControlTypeOK
<1>1. CASE UNCHANGED controlVars \/ ProtocolStep
  BY <1>0, <1>1, SameAsks, SameTodo DEF ProtocolStep, HandlerMove, controlVars, handlerVars
<1>2. ASSUME NEW a \in Asks, NEW k \in Claims, NEW onTimeout \in {"fail", "continue"},
             Ask(k, a, onTimeout)
      PROVE  HandlerMove
  <2>1. JobOf(k) \in Jobs
    BY <1>2 DEF Ask, IsCurrent, ControlInv, ReceiptsNameJobs
  <2> QED
    BY <1>0, <1>2, <2>1, OpenMove, SameTodo DEF Ask, HandlerMove
<1>3. ASSUME NEW a \in Asks, Answer(a)
      PROVE  HandlerMove
  <2>1. AskMove /\ ask'[a].status = "answered"
    BY <1>3, ResolveMove DEF Answer
  <2>2. /\ Justified(Todo("resume", a))
        /\ Todo("resume", a) \in [step : Steps, ask : Asks]
    BY <2>1 DEF Justified, Todo, SweeperSteps, Steps
  <2> QED
    BY <1>0, <1>3, <2>1, <2>2 DEF Answer, HandlerMove, TodoMove
<1>4. ASSUME NEW a \in Asks, ResumeAnswered(a) \/ PauseInterrupted(a) \/ ContinueExpired(a)
      PROVE  HandlerMove
  <2>1. /\ UNCHANGED <<ask, stopping, completed>>
        /\ \E step \in Steps : Todo(step, a) \in todo /\ Take(step, a)
    BY <1>4 DEF ResumeAnswered, PauseInterrupted, ContinueExpired, Steps, SweeperSteps
  <2> QED
    BY <1>0, <2>1, SameAsks, TakeMove DEF HandlerMove
<1>5. ASSUME NEW a \in Asks, NEW j \in Jobs, Interrupt(j, a)
      PROVE  HandlerMove
  <2>1. AskMove /\ ask'[a].status = "pending"
    BY <1>5, OpenMove DEF Interrupt
  <2>2. /\ Justified(Todo("pause", a))
        /\ Todo("pause", a) \in [step : Steps, ask : Asks]
    BY <2>1 DEF Justified, Todo, SweeperSteps, Steps
  <2> QED
    BY <1>0, <1>5, <2>1, <2>2 DEF Interrupt, HandlerMove, TodoMove
<1>6. ASSUME NEW a \in Asks, JudgeExpired(a)
      PROVE  HandlerMove
  <2>1. AskMove
    BY <1>6, JudgeMove, SameAsks
  <2>2. TodoMove
    BY <1>6, <2>1, JudgeMove, TakeMove DEF Steps, SweeperSteps
  <2> QED
    BY <1>0, <1>6, <2>1, <2>2, JudgeMove DEF HandlerMove
<1>7. ASSUME NEW a \in Asks, DiscardOrphans(a) \/ FailCancelsAsks(a)
      PROVE  HandlerMove
  <2>1. AskMove
    BY <1>7, CancelMove DEF DiscardOrphans, FailCancelsAsks
  <2>2. TodoMove
    BY <1>7, <2>1, TakeMove DEF DiscardOrphans, FailCancelsAsks, Steps, SweeperSteps
  <2> QED
    BY <1>0, <1>7, <2>1, <2>2 DEF DiscardOrphans, FailCancelsAsks, HandlerMove
<1>8. ASSUME NEW a \in Asks, FailExpired(a)
      PROVE  HandlerMove
  <2>1. ask[a].job \in Jobs
    BY <1>8, AskedJob DEF FailExpired
  <2>2. completed' \in [Jobs -> BOOLEAN]
    BY <1>0, <1>8, <2>1, CompletedIsBoolean DEF FailExpired
  <2>3. AskMove
    BY <1>8, SameAsks DEF FailExpired
  <2>4. TodoMove
    BY <1>8, <2>3, TakeMove DEF FailExpired, Steps, SweeperSteps
  <2> QED
    BY <1>0, <1>8, <2>2, <2>3, <2>4 DEF FailExpired, HandlerMove
<1>9. ASSUME NEW expired \in SUBSET Asks, Expire(expired)
      PROVE  HandlerMove
  <2>1. AskMove /\ \A a \in expired : ask'[a].status = "timed_out"
    BY <1>9, ResolveMove DEF Expire
  <2>2. \A a \in expired : /\ Justified(Todo("judge", a))
                           /\ Todo("judge", a) \in [step : Steps, ask : Asks]
    BY <2>1 DEF Justified, Todo, SweeperSteps, Steps
  <2> QED
    BY <1>0, <1>9, <2>1, <2>2 DEF Expire, HandlerMove, TodoMove
<1>10. ASSUME NEW j \in Jobs,
              CancelSession(j) \/ DiscordReads(j) \/ DiscordStops(j) \/ PersistUserInput(j)
       PROVE  HandlerMove
  <2>1. UNCHANGED todo /\ (UNCHANGED ask \/ CancelAsks(j))
    BY <1>10 DEF CancelSession, DiscordReads, DiscordStops, PersistUserInput, handlerVars
  <2>2. stopping' \subseteq Jobs /\ completed' \in [Jobs -> BOOLEAN]
    BY <1>0, <1>10 DEF CancelSession, DiscordReads, DiscordStops, PersistUserInput, handlerVars
  <2> QED
    BY <2>1, <2>2, SameAsks, SameTodo, CancelMove DEF HandlerMove
<1>11. CASE Restart
  BY <1>0, <1>11, SameAsks DEF Restart, HandlerMove, TodoMove
<1> QED
  BY <1>1, <1>2, <1>3, <1>4, <1>5, <1>6, <1>7, <1>8, <1>9, <1>10, <1>11
     DEF ControlNext, AskStep

----------------------------------------------------------------------------
(* What the steps do to the rows of the claim protocol                     *)

\* A write by the id of the job, which leaves its nonce and its intent.
Overwrite(j, row) ==
    /\ UpdateJobStatus(j, row)
    /\ row \in JobRow
    /\ row.claim = job[j].claim /\ row.intent = job[j].intent

RowMove ==
    \/ [Next]_vars
    \/ \E j \in Jobs, row \in JobRow : Overwrite(j, row)
    \/ \E j \in Jobs : PersistUserInput(j)

LEMMA StatusOverwrites ==
    ASSUME ControlInv, NEW j \in Jobs, NEW status \in ActiveStatuses \cup TerminalStatuses,
           \/ UpdateJobStatus(j, [job[j] EXCEPT !.status = status])
           \/ UpdateJobStatus(j, [job[j] EXCEPT !.status = status, !.worker = NoWorker])
    PROVE  RowMove
<1>1. job[j] \in JobRow
  BY DEF ControlInv, ControlTypeOK, TypeOK
<1>2. \A row \in {[job[j] EXCEPT !.status = status],
                 [job[j] EXCEPT !.status = status, !.worker = NoWorker]} :
        row \in JobRow /\ row.claim = job[j].claim /\ row.intent = job[j].intent
  BY <1>1 DEF JobRow
<1> QED
  BY <1>2 DEF RowMove, Overwrite

LEMMA StepMovesRows ==
    ASSUME ControlInv, [ControlNext]_controlVars
    PROVE  RowMove
<1>0. {"running", "queued", "waiting_for_input", "cancelled"}
        \subseteq ActiveStatuses \cup TerminalStatuses
  BY DEF ActiveStatuses, CurrentStatuses, TerminalStatuses, Intents
<1>1. CASE UNCHANGED vars \/ Next
  BY <1>1 DEF RowMove
<1>2. ASSUME NEW a \in Asks, NEW k \in Claims, NEW onTimeout, Ask(k, a, onTimeout)
      PROVE  RowMove
  <2>1. JobOf(k) \in Jobs
    BY <1>2 DEF Ask, IsCurrent, ControlInv, ReceiptsNameJobs
  <2> QED
    BY <1>0, <1>2, <2>1, StatusOverwrites DEF Ask
<1>3. ASSUME NEW a \in Asks, ResumeAnswered(a) \/ PauseInterrupted(a) \/ ContinueExpired(a)
      PROVE  RowMove
  <2>1. ask[a].job \in Jobs
    BY <1>3, AskedJob DEF ResumeAnswered, PauseInterrupted, ContinueExpired
  <2> QED
    BY <1>0, <1>3, <2>1, StatusOverwrites
       DEF ResumeAnswered, PauseInterrupted, ContinueExpired
<1>4. ASSUME NEW a \in Asks, FailExpired(a)
      PROVE  RowMove
  <2>1. ask[a].job \in Jobs
    BY <1>4, AskedJob DEF FailExpired
  <2>2. RequestTerminal(ask[a].job, "failed") \/ UNCHANGED vars
    BY <1>4 DEF FailExpired
  <2>3. RequestTerminal(ask[a].job, "failed") => Next
    BY <2>1 DEF Next, ControlStep, Intents
  <2> QED
    BY <1>1, <2>2, <2>3
<1>5. ASSUME NEW j \in Jobs, DiscordStops(j)
      PROVE  RowMove
  BY <1>0, <1>5, StatusOverwrites DEF DiscordStops
<1>6. ASSUME NEW j \in Jobs, PersistUserInput(j)
      PROVE  RowMove
  BY <1>6 DEF RowMove
<1>7. ASSUME NEW a \in Asks,
             \/ Answer(a) \/ JudgeExpired(a) \/ DiscardOrphans(a) \/ FailCancelsAsks(a)
             \/ \E j \in Jobs : Interrupt(j, a)
      PROVE  UNCHANGED vars
  BY <1>7, JudgeMove DEF Answer, DiscardOrphans, FailCancelsAsks, Interrupt
<1>8. ASSUME NEW expired, Expire(expired)
      PROVE  UNCHANGED vars
  BY <1>8 DEF Expire
<1>9. ASSUME NEW j \in Jobs, CancelSession(j) \/ DiscordReads(j)
      PROVE  UNCHANGED vars
  BY <1>9 DEF CancelSession, DiscordReads
<1>10. CASE UNCHANGED controlVars \/ ProtocolStep \/ Restart
  BY <1>1, <1>10 DEF controlVars, ProtocolStep, Restart
<1> QED
  BY <1>1, <1>2, <1>3, <1>4, <1>5, <1>6, <1>7, <1>8, <1>9, <1>10
     DEF ControlNext, AskStep

LEMMA RowMoveTypes ==
    ASSUME TypeInv, RowMove
    PROVE  TypeInv'
<1>1. CASE [Next]_vars
  BY <1>1, StepType
<1>2. ASSUME NEW j \in Jobs, NEW row \in JobRow, Overwrite(j, row)
      PROVE  TypeInv'
  BY <1>2, WriteJobType
     DEF Overwrite, UpdateJobStatus, TypeInv, TypeOK, ReceiptsNameJobs, Used, JobOf
<1>3. ASSUME NEW j \in Jobs, PersistUserInput(j)
      PROVE  TypeInv'
  <2>1. rows' \in [Jobs -> [Channels -> [Seqs -> Writers]]]
    BY <1>3, LogChannelAssumption DEF PersistUserInput, TypeInv, TypeOK, Writers
  <2> QED
    BY <1>3, <2>1 DEF PersistUserInput, TypeInv, TypeOK, ReceiptsNameJobs, Used, JobOf
<1> QED
  BY <1>1, <1>2, <1>3 DEF RowMove

LEMMA StepControl == ControlInv /\ [ControlNext]_controlVars => ControlInv'
<1> SUFFICES ASSUME ControlInv, [ControlNext]_controlVars PROVE ControlInv'
  OBVIOUS
<1>1. HandlerMove
  BY StepMovesHandlers
<1>2. TypeInv'
  BY StepMovesRows, RowMoveTypes DEF ControlInv, ControlTypeOK, TypeInv
<1>3. ControlTypeOK'
  BY <1>1, <1>2 DEF ControlTypeOK, HandlerMove, AskMove, TodoMove, AskRow, TypeInv
<1> QED
  BY <1>1, <1>2, <1>3, HandlerMoveKeeps DEF ControlInv, TypeInv

LEMMA InitControl == ControlInit => ControlInv
<1> SUFFICES ASSUME ControlInit PROVE ControlInv
  OBVIOUS
<1>1. TypeInv
  BY InitType DEF ControlInit
<1>2. ControlTypeOK
  BY <1>1 DEF ControlInit, ControlTypeOK, TypeInv
<1>3. HandlerInv
  BY DEF ControlInit, HandlerInv, AsksNameJobs, TodoIsAsked, HandlersMatchResolution
<1> QED
  BY <1>1, <1>2, <1>3 DEF ControlInv, TypeInv

LEMMA ControlInvariant == ControlSpec => []ControlInv
BY InitControl, StepControl, PTL DEF ControlSpec

(* Beside the unfenced writers, too, every reachable state is well typed:   *)
(* no row leaves its columns and no handler works for a question or a job   *)
(* that does not exist.                                                     *)
THEOREM ControlTypeCorrect == ControlSpec => []ControlTypeOK
<1>1. ControlInv => ControlTypeOK
  BY DEF ControlInv
<1> QED
  BY ControlInvariant, <1>1, PTL

(* A handler that still has to act on a question resolved it itself, and    *)
(* nobody has resolved it since: the answer and the timeout of one question *)
(* never both reach the job, in whatever order the sweep, the four ways to  *)
(* answer, cancellations and restarts interleave.                           *)
THEOREM HandlersMatchResolutions == ControlSpec => []HandlersMatchResolution
<1>1. ControlInv => HandlersMatchResolution
  BY DEF ControlInv, HandlerInv
<1> QED
  BY ControlInvariant, <1>1, PTL

----------------------------------------------------------------------------
(* The numbering survives                                                  *)

LEMMA ForeignRow ==
    ASSUME TypeInv, NEW j \in Jobs, PersistUserInput(j)
    PROVE  /\ UNCHANGED <<job, rcpt, runner, snap>>
           /\ \A i \in Jobs, c \in Channels, s \in Seqs, k \in Claims :
                 rows'[i][c][s] = k <=> rows[i][c][s] = k
<1>1. PICK s \in Seqs :
        NextLogSeq(j, s) /\ rows' = [rows EXCEPT ![j][LogChannel][s] = Legacy]
  BY DEF PersistUserInput
<1>2. rows[j][LogChannel][s] = Empty
  BY <1>1 DEF NextLogSeq, LogRows, Seqs
<1>3. rows \in [Jobs -> [Channels -> [Seqs -> Writers]]]
  BY DEF TypeInv, TypeOK
<1>4. \A i \in Jobs, c \in Channels, t \in Seqs :
        rows'[i][c][t] = IF i = j /\ c = LogChannel /\ t = s THEN Legacy ELSE rows[i][c][t]
  BY <1>1, <1>3, LogChannelAssumption
<1>5. \A k \in Claims : k # Legacy /\ k # Empty
  BY AbsentAssumption
<1> QED
  BY <1>2, <1>4, <1>5 DEF PersistUserInput

LEMMA RowMoveRanges ==
    ASSUME RangeInv, RowMove
    PROVE  RangeInv'
<1>0. TypeInv' /\ job \in [Jobs -> JobRow]
  BY RowMoveTypes DEF RangeInv, TypeInv, TypeOK
<1>1. CASE [Next]_vars
  BY <1>1, StepRange
<1>2. ASSUME NEW j \in Jobs, NEW row \in JobRow, Overwrite(j, row)
      PROVE  RangeInv'
  <2>1. NoNonceGiven
    BY <1>0, <1>2 DEF Overwrite, UpdateJobStatus, WriteJob, NoNonceGiven
  <2> QED
    BY <1>0, <1>2, <2>1, RangesUntouched DEF Overwrite, UpdateJobStatus
<1>3. ASSUME NEW j \in Jobs, PersistUserInput(j)
      PROVE  RangeInv'
  BY <1>0, <1>3, RangesUntouched DEF PersistUserInput, NoNonceGiven
<1> QED
  BY <1>1, <1>2, <1>3 DEF RowMove

LEMMA RowMoveHandoff ==
    ASSUME HandoffInv, RowMove
    PROVE  HandoffInv'
<1>0. RangeInv' /\ TypeInv
  BY RowMoveRanges DEF HandoffInv, RangeInv
<1>1. CASE [Next]_vars
  BY <1>1, StepHandoff
<1>2. ASSUME NEW j \in Jobs, NEW row \in JobRow, Overwrite(j, row)
      PROVE  HandoffInv'
  BY <1>0, <1>2, HandoffUntouched DEF Overwrite, UpdateJobStatus
<1>3. ASSUME NEW j \in Jobs, PersistUserInput(j)
      PROVE  HandoffInv'
  <2>1. /\ UNCHANGED <<job, rcpt, runner, snap>>
        /\ \A i \in Jobs, c \in Channels, s \in Seqs, k \in Claims :
              rows'[i][c][s] = k <=> rows[i][c][s] = k
    BY <1>0, <1>3, ForeignRow
  <2>2. RowsAreOwn'
    BY <2>1 DEF HandoffInv, RowsAreOwn, Used, JobOf
  <2>3. CountsAreExact'
    <3>1. \A k \in Claims, c \in Channels : Used(k) =>
            {s \in Seqs : rows'[JobOf(k)][c][s] = k} = {s \in Seqs : rows[JobOf(k)][c][s] = k}
      BY <1>0, <2>1 DEF TypeInv, ReceiptsNameJobs
    <3> QED
      BY <2>1, <3>1 DEF HandoffInv, CountsAreExact, Used, JobOf
  <2>4. MarkIsLast'
    BY <2>1 DEF HandoffInv, MarkIsLast
  <2>5. HandedOverComplete'
    <3> SUFFICES ASSUME NEW k \in Claims, NEW c \in Channels,
                        rcpt[k].state \in {"ready", "released", "terminal"}
                 PROVE  /\ rcpt[k].mark[c] = runner[k].sent[c]
                        /\ \A s \in rcpt[k].start[c] .. runner[k].sent[c] :
                              rows'[JobOf(k)][c][s] = k
      BY <2>1 DEF HandedOverComplete, JobOf
    <3>1. Used(k) /\ JobOf(k) \in Jobs
      BY <1>0 DEF TypeInv, ReceiptsNameJobs, Used
    <3>2. rcpt[k].start[c] .. runner[k].sent[c] \subseteq Seqs
      <4>1. /\ 1 <= rcpt[k].start[c] /\ rcpt[k].start[c] \in Int
            /\ runner[k].sent[c] \in 0 .. MaxSeq
        BY <1>0, <3>1, MaxSeqAssumption
           DEF HandoffInv, RangeInv, RangesAreRanges, TypeInv, TypeOK, Receipt, Runner
      <4> QED
        BY <4>1, MaxSeqAssumption DEF Seqs
    <3> QED
      BY <2>1, <3>1, <3>2 DEF HandoffInv, HandedOverComplete
  <2> QED
    BY <1>0, <2>2, <2>3, <2>4, <2>5 DEF HandoffInv
<1> QED
  BY <1>1, <1>2, <1>3 DEF RowMove

NumberingInv == ControlInv /\ HandoffInv

LEMMA StepNumbering == NumberingInv /\ [ControlNext]_controlVars => NumberingInv'
BY StepControl, StepMovesRows, RowMoveHandoff DEF NumberingInv

LEMMA NumberingInvariant == ControlSpec => []NumberingInv
<1>1. ControlInit => NumberingInv
  BY InitControl, InitHandoff DEF NumberingInv, ControlInit
<1> QED
  BY <1>1, StepNumbering, PTL DEF ControlSpec

(* The unfenced writes of status, worker and completed_at never make two    *)
(* claims share a number: they leave the nonce, the only permission to      *)
(* extend a range, and a user input takes a number of no receipt.           *)
THEOREM RangesSurviveControl == ControlSpec => []ReservationsDisjoint
<1>1. NumberingInv => ReservationsDisjoint
  BY DEF NumberingInv, HandoffInv, RangeInv
<1> QED
  BY NumberingInvariant, <1>1, PTL

(* The count on which a handoff decides stays the number of rows the claim  *)
(* wrote, although user inputs are written into the same log.               *)
THEOREM CountsSurviveControl == ControlSpec => []CountsAreExact
<1>1. NumberingInv => CountsAreExact
  BY DEF NumberingInv, HandoffInv
<1> QED
  BY NumberingInvariant, <1>1, PTL

(* A user input may take a number that a claim has reserved, and then the   *)
(* claim cannot hand over: but a handoff that does answer ready has lost    *)
(* nothing.                                                                 *)
THEOREM HandoffSurvivesControl == ControlSpec => []HandedOverComplete
<1>1. NumberingInv => HandedOverComplete
  BY DEF NumberingInv, HandoffInv
<1> QED
  BY NumberingInvariant, <1>1, PTL

----------------------------------------------------------------------------
(* A held intent survives                                                  *)

\* The fence of a sweep is sound: an unchanged xmin means an unchanged row.
SnapIsCurrent == \A j \in Jobs : snap[j].fresh => snap[j].row = job[j]

IntentKept ==
    \A j \in Jobs : job[j].intent # NoIntent =>
        \/ job'[j].intent = job[j].intent
        \/ job'[j].status = job[j].intent

LEMMA WriteKeeps ==
    ASSUME TypeInv, SnapIsCurrent, NEW j, NEW row, WriteJob(j, row),
           j \in Jobs /\ job[j].intent # NoIntent =>
             row.intent = job[j].intent \/ row.status = job[j].intent
    PROVE  SnapIsCurrent' /\ IntentKept
<1>1. /\ job \in [Jobs -> JobRow]
      /\ snap \in [Jobs -> [row : JobRow \cup {NoRow}, fresh : BOOLEAN]]
  BY DEF TypeInv, TypeOK
<1> QED
  BY <1>1 DEF WriteJob, SnapIsCurrent, IntentKept

\* An end that is recorded ends the job as it was asked to.
LEMMA EndedKeeps ==
    ASSUME NEW row \in JobRow, NEW status, row.intent # NoIntent
    PROVE  Ended(row, status).status = row.intent
<1>1. Unleased(row) \in JobRow
  BY UnleasedType
<1> QED
  BY <1>1 DEF Ended, JobRow

LEMMA RowMoveKeepsIntent ==
    ASSUME TypeInv, SnapIsCurrent, RowMove
    PROVE  SnapIsCurrent' /\ IntentKept
<1>0. /\ job \in [Jobs -> JobRow]
      /\ snap \in [Jobs -> [row : JobRow \cup {NoRow}, fresh : BOOLEAN]]
  BY DEF TypeInv, TypeOK
<1>1. CASE UNCHANGED <<job, snap>>
  BY <1>1 DEF SnapIsCurrent, IntentKept
<1>2. ASSUME NEW j \in Jobs, NEW row \in JobRow, Overwrite(j, row)
      PROVE  SnapIsCurrent' /\ IntentKept
  BY <1>2, WriteKeeps DEF Overwrite, UpdateJobStatus
<1>3. ASSUME NEW k \in Claims, RunnerStep(k), ~ UNCHANGED <<job, snap>>
      PROVE  SnapIsCurrent' /\ IntentKept
  <2> DEFINE j == JobOf(k)
  <2>1. ASSUME NEW st, ReportProgress(k, st)
        PROVE  SnapIsCurrent' /\ IntentKept
    BY <2>1, WriteKeeps DEF ReportProgress
  <2>2. ASSUME NEW st, NEW at, NEW n, Release(k, st, at, n)
        PROVE  SnapIsCurrent' /\ IntentKept
    <3>1. j \in Jobs /\ job[j] \in JobRow
      BY <1>0, <2>2 DEF Release, IsCurrent, TypeInv, ReceiptsNameJobs
    <3>2. PICK row : WriteJob(j, row) /\ (job[j].intent # NoIntent => row = Ended(job[j], st))
      BY <2>2, Zenon DEF Release
    <3> QED
      BY <3>1, <3>2, WriteKeeps, EndedKeeps
  <2>3. ASSUME NEW st, Finish(k, st)
        PROVE  SnapIsCurrent' /\ IntentKept
    <3>1. j \in Jobs /\ job[j] \in JobRow /\ WriteJob(j, Ended(job[j], st))
      BY <1>0, <2>3 DEF Finish, IsCurrent, TypeInv, ReceiptsNameJobs
    <3> QED
      BY <3>1, WriteKeeps, EndedKeeps
  <2> QED
    BY <1>3, <2>1, <2>2, <2>3, Zenon
       DEF RunnerStep, StartExecution, DeclineClaim, LeaveWithoutHandoff, Drain,
           PrepareHandoff, Emit, EnsureReservation, PersistRow
<1>4. ASSUME NEW j \in Jobs, NEW k \in Claims, NEW w \in Workers, ClaimJob(j, k, w)
      PROVE  SnapIsCurrent' /\ IntentKept
  <2>1. [job[j] EXCEPT !.status = "running", !.worker = w, !.claim = k,
                       !.availableAt = FALSE].intent = job[j].intent
    BY <1>0 DEF JobRow
  <2> QED
    BY <1>4, <2>1, WriteKeeps DEF ClaimJob
<1>5. ASSUME NEW j \in Jobs, NEW st \in Intents, RequestTerminal(j, st)
      PROVE  SnapIsCurrent' /\ IntentKept
  <2>1. job[j] \in JobRow
    BY <1>0
  <2>2. CASE EndUnclaimed(j, st) \/ EndReady(j, st)
    BY <2>1, <2>2, WriteKeeps, EndedKeeps DEF EndUnclaimed, EndReady
  <2>3. CASE HoldIntent(j, st)
    <3>1. job[j].intent # NoIntent =>
            [job[j] EXCEPT !.status = "finalizing",
                           !.intent = IF @ = NoIntent THEN st ELSE @].intent = job[j].intent
      BY <2>1 DEF JobRow
    <3> QED
      BY <2>3, <3>1, WriteKeeps DEF HoldIntent
  <2> QED
    BY <1>5, <2>2, <2>3 DEF RequestTerminal
<1>6. ASSUME NEW j \in Jobs, SweepSelect(j)
      PROVE  SnapIsCurrent' /\ IntentKept
  BY <1>0, <1>6 DEF SweepSelect, SnapIsCurrent, IntentKept
<1>7. ASSUME NEW j \in Jobs, Recover(j)
      PROVE  SnapIsCurrent' /\ IntentKept
  <2>1. snap[j].row = job[j] /\ job[j] \in JobRow
    BY <1>0, <1>7 DEF Recover, SelectedJobFence, SnapIsCurrent
  <2>2. PICK row \in Recovered(job[j]) : WriteJob(j, row)
    BY <1>7, <2>1 DEF Recover
  <2>3. job[j].intent # NoIntent => row.status = job[j].intent
    BY <2>1, <2>2, EndedKeeps DEF Recovered
  <2> QED
    BY <2>2, <2>3, WriteKeeps
<1>8. ASSUME NEW j \in Jobs, PersistUserInput(j)
      PROVE  UNCHANGED <<job, snap>>
  BY <1>8 DEF PersistUserInput
<1> QED
  BY <1>1, <1>2, <1>3, <1>4, <1>5, <1>6, <1>7, <1>8
     DEF RowMove, Next, ControlStep, vars

LEMMA IntentInvariant == ControlSpec => [](ControlInv /\ SnapIsCurrent)
<1>1. ControlInit => SnapIsCurrent
  BY DEF ControlInit, Init, SnapIsCurrent
<1>2. ControlInv /\ SnapIsCurrent /\ [ControlNext]_controlVars =>
        (ControlInv /\ SnapIsCurrent)'
  BY StepControl, StepMovesRows, RowMoveKeepsIntent
     DEF ControlInv, ControlTypeOK, TypeInv
<1> QED
  BY <1>1, <1>2, InitControl, PTL DEF ControlSpec

(* An accepted cancellation or failure that is held for a runner stays in   *)
(* the row until the job ends so, although answers, pauses, timeouts and    *)
(* Discord's stop button overwrite the status and although a later claim    *)
(* may inherit it.                                                          *)
THEOREM HeldIntentsSurvive == ControlSpec => HeldIntentIsNeverLost
<1>1. ControlInv /\ SnapIsCurrent /\ [ControlNext]_controlVars => [IntentKept]_job
  BY StepMovesRows, RowMoveKeepsIntent DEF ControlInv, ControlTypeOK, TypeInv
<1> QED
  BY <1>1, IntentInvariant, PTL DEF ControlSpec, HeldIntentIsNeverLost, IntentKept

----------------------------------------------------------------------------
(* A lost lease stays lost                                                 *)

LostStays(k) ==
    /\ job'[JobOf(k)].claim # k
    /\ rcpt'[k] = [rcpt[k] EXCEPT !.inserted = rcpt'[k].inserted]

AllLostStay == \A k \in Claims : Used(k) /\ job[JobOf(k)].claim # k => LostStays(k)

\* No receipt changes but that of a claim that is new or holds its job.
HolderMoves ==
    \E l \in Claims : /\ Used(l) => job[JobOf(l)].claim = l
                      /\ \A k \in Claims \ {l} : rcpt'[k] = rcpt[k]

ReceiptMove == UNCHANGED rcpt \/ HolderMoves

LEMMA StateMovesHolder ==
    ASSUME TypeInv, NEW l \in Claims, Used(l) => job[JobOf(l)].claim = l,
           NEW state, SetReceiptState(l, state)
    PROVE  HolderMoves
BY DEF SetReceiptState, HolderMoves, TypeInv, TypeOK

LEMMA RowMoveReceipts ==
    ASSUME TypeInv, SnapIsCurrent, RowMove
    PROVE  \/ ReceiptMove
           \/ \E k \in Claims, c \in Channels, s \in Seqs : PersistRow(k, c, s)
<1>0. /\ rcpt \in [Claims -> Receipt] /\ job \in [Jobs -> JobRow]
      /\ snap \in [Jobs -> [row : JobRow \cup {NoRow}, fresh : BOOLEAN]]
  BY DEF TypeInv, TypeOK
<1>1. CASE \/ UNCHANGED vars
           \/ \E j \in Jobs, row \in JobRow : Overwrite(j, row)
           \/ \E j \in Jobs : PersistUserInput(j)
  BY <1>1 DEF ReceiptMove, Overwrite, UpdateJobStatus, PersistUserInput, vars
<1>2. ASSUME NEW k \in Claims, RunnerStep(k),
             ~ \E c \in Channels, s \in Seqs : PersistRow(k, c, s)
      PROVE  ReceiptMove
  <2>1. CASE \E c \in Channels, n \in Seqs : EnsureReservation(k, c, n)
    BY <1>0, <2>1 DEF EnsureReservation, IsCurrent, ReceiptMove, HolderMoves
  <2>2. CASE PrepareHandoff(k)
    BY <1>0, <2>2 DEF PrepareHandoff, IsCurrent, ReceiptMove, HolderMoves
  <2>3. ASSUME NEW st, NEW at, NEW n, Release(k, st, at, n)
        PROVE  ReceiptMove
    <3>1. IsCurrent(k) /\ \E state : SetReceiptState(k, state)
      BY <2>3 DEF Release
    <3> QED
      BY <3>1, StateMovesHolder DEF IsCurrent, ReceiptMove
  <2>4. ASSUME NEW st, Finish(k, st)
        PROVE  ReceiptMove
    BY <2>4, StateMovesHolder DEF Finish, IsCurrent, ReceiptMove
  <2>5. CASE \/ StartExecution(k) \/ DeclineClaim(k) \/ LeaveWithoutHandoff(k)
             \/ Drain(k) \/ (\E c \in Channels : Emit(k, c))
             \/ \E st \in CurrentStatuses : ReportProgress(k, st)
    BY <2>5, Zenon
       DEF StartExecution, DeclineClaim, LeaveWithoutHandoff, Drain, Emit, ReportProgress,
           ReceiptMove
  <2> QED
    BY <1>2, <2>1, <2>2, <2>3, <2>4, <2>5 DEF RunnerStep
<1>3. ASSUME NEW j \in Jobs, NEW k \in Claims, NEW w \in Workers, ClaimJob(j, k, w)
      PROVE  ReceiptMove
  BY <1>0, <1>3 DEF ClaimJob, ReceiptMove, HolderMoves
<1>4. ASSUME NEW j \in Jobs, NEW st \in Intents, RequestTerminal(j, st)
      PROVE  ReceiptMove
  <2>1. CASE EndUnclaimed(j, st) \/ HoldIntent(j, st)
    BY <2>1 DEF EndUnclaimed, HoldIntent, ReceiptMove
  <2>2. CASE EndReady(j, st)
    <3>1. /\ job[j].claim \in Claims /\ JobOf(job[j].claim) = j
          /\ SetReceiptState(job[j].claim, "terminal")
      BY <1>0, <2>2 DEF EndReady, JobOf, JobRow
    <3> QED
      BY <3>1, StateMovesHolder DEF ReceiptMove
  <2> QED
    BY <1>4, <2>1, <2>2 DEF RequestTerminal
<1>5. ASSUME NEW j \in Jobs, Recover(j)
      PROVE  ReceiptMove
  <2>1. snap[j].row = job[j]
    BY <1>5 DEF Recover, SelectedJobFence, SnapIsCurrent
  <2>2. \/ UNCHANGED rcpt
        \/ /\ job[j].claim # NoClaim /\ rcpt[job[j].claim].job = j
           /\ SetReceiptState(job[j].claim, "crashed")
    BY <1>5, <2>1 DEF Recover
  <2>3. CASE /\ job[j].claim # NoClaim /\ rcpt[job[j].claim].job = j
             /\ SetReceiptState(job[j].claim, "crashed")
    <3>1. job[j].claim \in Claims /\ JobOf(job[j].claim) = j
      BY <1>0, <2>3 DEF JobOf, JobRow
    <3> QED
      BY <2>3, <3>1, StateMovesHolder DEF ReceiptMove
  <2> QED
    BY <2>2, <2>3 DEF ReceiptMove
<1>6. ASSUME NEW j \in Jobs, SweepSelect(j)
      PROVE  ReceiptMove
  BY <1>6 DEF SweepSelect, ReceiptMove
<1> QED
  BY <1>1, <1>2, <1>3, <1>4, <1>5, <1>6 DEF RowMove, Next, ControlStep

LEMMA RowMoveNonces ==
    ASSUME TypeInv, RowMove
    PROVE  \/ NoNonceGiven
           \/ \E j \in Jobs, l \in Claims, w \in Workers : ClaimJob(j, l, w)
<1>0. job \in [Jobs -> JobRow]
  BY DEF TypeInv, TypeOK
<1>1. CASE [Next]_vars
  BY <1>1, NonceFromClaim
<1>2. ASSUME NEW j \in Jobs, NEW row \in JobRow, Overwrite(j, row)
      PROVE  NoNonceGiven
  BY <1>0, <1>2 DEF Overwrite, UpdateJobStatus, WriteJob, NoNonceGiven
<1>3. ASSUME NEW j \in Jobs, PersistUserInput(j)
      PROVE  NoNonceGiven
  BY <1>3 DEF PersistUserInput, NoNonceGiven
<1> QED
  BY <1>1, <1>2, <1>3 DEF RowMove

LEMMA RowMoveKeepsLost ==
    ASSUME TypeInv, SnapIsCurrent, RowMove
    PROVE  AllLostStay
<1> SUFFICES ASSUME NEW k \in Claims, Used(k), job[JobOf(k)].claim # k
             PROVE  LostStays(k)
  BY DEF AllLostStay
<1>0. /\ rcpt \in [Claims -> Receipt] /\ job \in [Jobs -> JobRow]
      /\ JobOf(k) \in Jobs /\ k # NoClaim
  BY AbsentAssumption DEF TypeInv, TypeOK, ReceiptsNameJobs
<1>1. job'[JobOf(k)].claim # k
  <2>1. CASE NoNonceGiven
    BY <1>0, <2>1 DEF NoNonceGiven
  <2>2. ASSUME NEW j \in Jobs, NEW l \in Claims, NEW w \in Workers, ClaimJob(j, l, w)
        PROVE  job'[JobOf(k)].claim # k
    <3>1. l # k /\ job'[j].claim = l /\ \A i \in Jobs \ {j} : job'[i] = job[i]
      BY <1>0, <2>2 DEF ClaimJob, WriteJob, JobRow
    <3> QED
      BY <1>0, <3>1
  <2> QED
    BY <2>1, <2>2, RowMoveNonces
<1>2. rcpt'[k] = [rcpt[k] EXCEPT !.inserted = rcpt'[k].inserted]
  <2>1. CASE ReceiptMove
    <3>1. rcpt'[k] = rcpt[k]
      BY <2>1 DEF ReceiptMove, HolderMoves
    <3> QED
      BY <1>0, <3>1 DEF Receipt
  <2>2. ASSUME NEW l \in Claims, NEW c \in Channels, NEW s \in Seqs, PersistRow(l, c, s)
        PROVE  <1>2
    <3> DEFINE counted == [rcpt[l].inserted EXCEPT ![c] = @ + 1]
    <3>1. rcpt' = [rcpt EXCEPT ![l].inserted = counted]
      BY <1>0, <2>2 DEF PersistRow, Receipt
    <3> HIDE DEF counted
    <3> QED
      BY <1>0, <3>1 DEF Receipt
  <2> QED
    BY <2>1, <2>2, RowMoveReceipts
<1> QED
  BY <1>1, <1>2 DEF LostStays

(* The fence that keeps a runner out once its job is taken away is final,   *)
(* for any number of claims, jobs and unfenced writers: no interleaving of  *)
(* answers, sweeps, buttons and further claims makes a lost claim current   *)
(* again or moves its reservation.                                          *)
THEOREM LostLeasesStayLost == ControlSpec => LostLeaseStaysLost
<1>1. ControlInv /\ SnapIsCurrent /\ [ControlNext]_controlVars =>
        [AllLostStay]_<<job, rcpt>>
  BY StepMovesRows, RowMoveKeepsLost DEF ControlInv, ControlTypeOK, TypeInv
<1> QED
  BY <1>1, IntentInvariant, PTL
     DEF ControlSpec, LostLeaseStaysLost, AllLostStay, LostStays

----------------------------------------------------------------------------
(* The outcome of a job and the writers by id                              *)

OutcomeKept(j) ==
    /\ job[j].status \in TerminalStatuses => job'[j] = job[j]
    /\ job[j].status = "finalizing" /\ job[j].intent # NoIntent =>
          job'[j].status \in {"finalizing", job[j].intent}

OutcomesKept == \A j \in Jobs : OutcomeKept(j)

LEMMA WriteKeepsOutcomes ==
    ASSUME TypeInv, NEW j, NEW row, WriteJob(j, row),
           j \in Jobs => job[j].status \in ActiveStatuses,
           j \in Jobs /\ job[j].intent # NoIntent =>
             \/ job[j].status # "finalizing"
             \/ row.status \in {"finalizing", job[j].intent}
    PROVE  OutcomesKept
<1>1. job \in [Jobs -> JobRow]
  BY DEF TypeInv, TypeOK
<1>2. \A i \in Jobs \ {j} : job'[i] = job[i]
  BY <1>1 DEF WriteJob
<1>3. j \in Jobs => job'[j] = row
  BY <1>1 DEF WriteJob
<1>4. j \in Jobs => job[j].status \notin TerminalStatuses
  BY DEF ActiveStatuses, CurrentStatuses, TerminalStatuses, Intents
<1> QED
  BY <1>2, <1>3, <1>4 DEF OutcomesKept, OutcomeKept

LEMMA ActiveTypes ==
    /\ CurrentStatuses \subseteq ActiveStatuses
    /\ "queued" \in ActiveStatuses /\ "paused" \in ActiveStatuses
BY DEF ActiveStatuses

LEMMA RequestKeepsOutcomes ==
    ASSUME TypeInv, NEW j \in Jobs, NEW st \in Intents, RequestTerminal(j, st)
    PROVE  OutcomesKept
<1>1. job[j] \in JobRow
  BY DEF TypeInv, TypeOK
<1>2. CASE EndUnclaimed(j, st) \/ EndReady(j, st)
  BY <1>1, <1>2, ActiveTypes, EndedKeeps, WriteKeepsOutcomes DEF EndUnclaimed, EndReady
<1>3. CASE HoldIntent(j, st)
  <2>1. [job[j] EXCEPT !.status = "finalizing",
                       !.intent = IF @ = NoIntent THEN st ELSE @].status = "finalizing"
    BY <1>1 DEF JobRow
  <2> QED
    BY <1>3, <2>1, WriteKeepsOutcomes DEF HoldIntent
<1> QED
  BY <1>2, <1>3 DEF RequestTerminal

LEMMA RunnerKeepsOutcomes ==
    ASSUME TypeInv, NEW k \in Claims, RunnerStep(k)
    PROVE  OutcomesKept \/ UNCHANGED job
<1> DEFINE j == JobOf(k)
<1>1. ASSUME NEW st, ReportProgress(k, st)
      PROVE  OutcomesKept
  BY <1>1, ActiveTypes, WriteKeepsOutcomes DEF ReportProgress, IsCurrent
<1>2. ASSUME NEW st, NEW at, NEW n, Release(k, st, at, n)
      PROVE  OutcomesKept
  <2>1. j \in Jobs /\ job[j] \in JobRow /\ job[j].status \in ActiveStatuses
    BY <1>2, ActiveTypes DEF Release, IsCurrent, TypeInv, TypeOK, ReceiptsNameJobs
  <2>2. PICK row : WriteJob(j, row) /\ (job[j].intent # NoIntent => row = Ended(job[j], st))
    BY <1>2, Zenon DEF Release
  <2> QED
    BY <2>1, <2>2, EndedKeeps, WriteKeepsOutcomes
<1>3. ASSUME NEW st, Finish(k, st)
      PROVE  OutcomesKept
  <2>1. /\ j \in Jobs /\ job[j] \in JobRow /\ job[j].status \in ActiveStatuses
        /\ WriteJob(j, Ended(job[j], st))
    BY <1>3, ActiveTypes DEF Finish, IsCurrent, TypeInv, TypeOK, ReceiptsNameJobs
  <2> QED
    BY <2>1, EndedKeeps, WriteKeepsOutcomes
<1> QED
  BY <1>1, <1>2, <1>3, Zenon
     DEF RunnerStep, StartExecution, DeclineClaim, LeaveWithoutHandoff, Drain,
         PrepareHandoff, Emit, EnsureReservation, PersistRow

LEMMA NextKeepsOutcomes ==
    ASSUME TypeInv, SnapIsCurrent, SelectionIsSweepable, Next
    PROVE  OutcomesKept \/ UNCHANGED job
<1>1. ASSUME NEW j \in Jobs, NEW k \in Claims, NEW w \in Workers, ClaimJob(j, k, w)
      PROVE  OutcomesKept
  <2>1. job[j].status = "queued"
    BY <1>1 DEF ClaimJob
  <2> QED
    BY <1>1, <2>1, ActiveTypes, WriteKeepsOutcomes DEF ClaimJob
<1>2. ASSUME NEW j \in Jobs, SweepSelect(j)
      PROVE  UNCHANGED job
  BY <1>2 DEF SweepSelect
<1>3. ASSUME NEW j \in Jobs, Recover(j)
      PROVE  OutcomesKept
  <2>1. snap[j].row = job[j] /\ job[j] \in JobRow /\ Sweepable(job[j])
    BY <1>3 DEF Recover, SelectedJobFence, SnapIsCurrent, SelectionIsSweepable, TypeInv, TypeOK
  <2>2. job[j].status \in ActiveStatuses
    BY <2>1, ActiveTypes DEF Sweepable
  <2>3. PICK row \in Recovered(job[j]) : WriteJob(j, row)
    BY <1>3, <2>1 DEF Recover
  <2>4. job[j].intent # NoIntent => row.status = job[j].intent
    BY <2>1, <2>3, EndedKeeps DEF Recovered
  <2> QED
    BY <2>2, <2>3, <2>4, WriteKeepsOutcomes
<1> QED
  BY <1>1, <1>2, <1>3, RunnerKeepsOutcomes, RequestKeepsOutcomes DEF Next, ControlStep

\* A step of JobControl is a step of the protocol, a question, a write by id, or
\* leaves the job rows alone.
LEMMA StepKeepsOutcomes ==
    ASSUME ControlInv, SnapIsCurrent, SelectionIsSweepable, [ControlNext]_controlVars
    PROVE  WriteById \/ OutcomesKept \/ UNCHANGED job
<1>0. TypeInv
  BY DEF ControlInv, ControlTypeOK, TypeInv
<1>1. CASE ProtocolStep
  BY <1>0, <1>1, NextKeepsOutcomes DEF ProtocolStep
<1>2. ASSUME NEW a \in Asks, NEW k \in Claims, NEW onTimeout, Ask(k, a, onTimeout)
      PROVE  OutcomesKept
  BY <1>0, <1>2, ActiveTypes, WriteKeepsOutcomes DEF Ask, UpdateJobStatus, IsCurrent
<1>3. ASSUME NEW a \in Asks, FailExpired(a)
      PROVE  OutcomesKept \/ UNCHANGED job
  <2>1. ask[a].job \in Jobs /\ "failed" \in Intents
    BY <1>3, AskedJob DEF FailExpired, Intents
  <2>2. RequestTerminal(ask[a].job, "failed") \/ UNCHANGED job
    BY <1>3 DEF FailExpired, vars
  <2> QED
    BY <1>0, <2>1, <2>2, RequestKeepsOutcomes
<1>4. ASSUME NEW a \in Asks,
             \/ Answer(a) \/ JudgeExpired(a) \/ DiscardOrphans(a) \/ FailCancelsAsks(a)
             \/ \E j \in Jobs : Interrupt(j, a)
      PROVE  UNCHANGED job
  BY <1>4, JudgeMove DEF Answer, DiscardOrphans, FailCancelsAsks, Interrupt, vars
<1>5. ASSUME NEW expired, Expire(expired)
      PROVE  UNCHANGED job
  BY <1>5 DEF Expire, vars
<1>6. ASSUME NEW j \in Jobs, CancelSession(j) \/ DiscordReads(j) \/ PersistUserInput(j)
      PROVE  UNCHANGED job
  BY <1>6 DEF CancelSession, DiscordReads, PersistUserInput, vars
<1>7. CASE UNCHANGED controlVars \/ Restart
  BY <1>7 DEF controlVars, Restart, vars
<1> QED
  BY <1>1, <1>2, <1>3, <1>4, <1>5, <1>6, <1>7 DEF ControlNext, AskStep, WriteById

LEMMA RowMoveKeepsSelection ==
    ASSUME TypeInv, SelectionIsSweepable, RowMove
    PROVE  SelectionIsSweepable'
<1>0. snap \in [Jobs -> [row : JobRow \cup {NoRow}, fresh : BOOLEAN]]
  BY DEF TypeInv, TypeOK
<1>1. CASE [Next]_vars
  BY <1>1, SelectionStays
<1>2. ASSUME NEW j \in Jobs, NEW row, Overwrite(j, row)
      PROVE  SelectionIsSweepable'
  <2>1. snap' = [snap EXCEPT ![j].fresh = FALSE]
    BY <1>2 DEF Overwrite, UpdateJobStatus, WriteJob
  <2>2. \A i \in Jobs : snap'[i].fresh => snap[i].fresh /\ snap'[i] = snap[i]
    BY <1>0, <2>1
  <2> QED
    BY <2>2 DEF SelectionIsSweepable
<1>3. ASSUME NEW j \in Jobs, PersistUserInput(j)
      PROVE  SelectionIsSweepable'
  BY <1>3 DEF PersistUserInput, SelectionIsSweepable
<1> QED
  BY <1>1, <1>2, <1>3 DEF RowMove

(* Whatever the unfenced writers have done to the rows before, no step but  *)
(* one of theirs reopens a job that has ended or takes a finalizing job     *)
(* elsewhere than to the end held for it: every violation of the kind of    *)
(* completed_flip or intent_override takes a step of these four handlers.   *)
THEOREM OnlyWritesByIdOverride == ControlSpec => OtherStepsKeepOutcomes
<1>1. ControlInit => SelectionIsSweepable
  BY DEF ControlInit, Init, SelectionIsSweepable
<1>2. ControlInv /\ SnapIsCurrent /\ SelectionIsSweepable /\ [ControlNext]_controlVars =>
        SelectionIsSweepable'
  BY StepMovesRows, RowMoveKeepsSelection DEF ControlInv, ControlTypeOK, TypeInv
<1>3. ControlInv /\ SnapIsCurrent /\ SelectionIsSweepable /\ [ControlNext]_controlVars =>
        [WriteById \/ OutcomesKept]_job
  BY StepKeepsOutcomes
<1> QED
  BY <1>1, <1>2, <1>3, IntentInvariant, PTL
     DEF ControlSpec, OtherStepsKeepOutcomes, OutcomesKept, OutcomeKept
=============================================================================
