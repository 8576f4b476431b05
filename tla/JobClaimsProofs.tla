-------------------------- MODULE JobClaimsProofs --------------------------
(***************************************************************************)
(* Theorems about JobClaims, for every value of its constants.             *)
(***************************************************************************)
EXTENDS JobClaims, ReservationProofs

\* A receipt that exists names a job: its foreign key.
ReceiptsNameJobs == \A k \in Claims : Used(k) => JobOf(k) \in Jobs

TypeInv == TypeOK /\ ReceiptsNameJobs

----------------------------------------------------------------------------
(* Types                                                                   *)

\* What the writes of a job row change, one group of fields at a time.
LEMMA VerdictType ==
    ASSUME NEW row \in JobRow, NEW status \in ActiveStatuses \cup TerminalStatuses,
           NEW intent \in Intents \cup {NoIntent}
    PROVE  [row EXCEPT !.status = status, !.intent = intent] \in JobRow
BY DEF JobRow

LEMMA RetryType ==
    ASSUME NEW row \in JobRow, NEW status \in ActiveStatuses \cup TerminalStatuses,
           NEW retries \in 0 .. MaxRetries
    PROVE  [row EXCEPT !.status = status, !.retries = retries] \in JobRow
BY DEF JobRow

LEMMA LostType ==
    ASSUME NEW row \in JobRow, NEW status \in ActiveStatuses \cup TerminalStatuses
    PROVE  [row EXCEPT !.status = status, !.claim = NoClaim] \in JobRow
BY DEF JobRow

LEMMA DueType ==
    ASSUME NEW row \in JobRow, NEW status \in ActiveStatuses \cup TerminalStatuses
    PROVE  [row EXCEPT !.status = status, !.availableAt = FALSE] \in JobRow
BY DEF JobRow

LEMMA UnleasedType ==
    ASSUME NEW row \in JobRow
    PROVE  /\ Unleased(row) \in JobRow
           /\ Unleased(row).retries = row.retries /\ Unleased(row).intent = row.intent
BY DEF Unleased, JobRow

LEMMA EndedType ==
    ASSUME NEW row \in JobRow, NEW status \in ActiveStatuses \cup TerminalStatuses
    PROVE  Ended(row, status) \in JobRow
<1> DEFINE last == IF row.intent = NoIntent THEN status ELSE row.intent
<1>1. Unleased(row) \in JobRow
  BY UnleasedType
<1>2. last \in ActiveStatuses \cup TerminalStatuses
  BY DEF JobRow, TerminalStatuses
<1>3. Ended(row, status) = [Unleased(row) EXCEPT !.status = last, !.intent = NoIntent]
  BY DEF Ended
<1> HIDE DEF last
<1>4. NoIntent \in Intents \cup {NoIntent}
  OBVIOUS
<1>5. [Unleased(row) EXCEPT !.status = last, !.intent = NoIntent] \in JobRow
  BY <1>1, <1>2, <1>4, VerdictType
<1> QED
  BY <1>3, <1>5

LEMMA WriteJobType ==
    ASSUME TypeOK, NEW j \in Jobs, NEW row \in JobRow, WriteJob(j, row)
    PROVE  /\ job' \in [Jobs -> JobRow]
           /\ snap' \in [Jobs -> [row : JobRow \cup {NoRow}, fresh : BOOLEAN]]
<1>1. job' \in [Jobs -> JobRow]
  BY DEF TypeOK, WriteJob
<1>2. snap[j] \in [row : JobRow \cup {NoRow}, fresh : BOOLEAN]
  BY DEF TypeOK
<1>3. [snap[j] EXCEPT !.fresh = FALSE] \in [row : JobRow \cup {NoRow}, fresh : BOOLEAN]
  BY <1>2
<1>4. snap' \in [Jobs -> [row : JobRow \cup {NoRow}, fresh : BOOLEAN]]
  BY <1>3 DEF TypeOK, WriteJob
<1> QED
  BY <1>1, <1>4

LEMMA SetPhaseType ==
    ASSUME TypeOK, NEW k \in Claims,
           NEW phase \in {"executing", "drained", "done", "declined", "gaveUp"},
           SetPhase(k, phase)
    PROVE  runner' \in [Claims -> Runner]
<1>1. runner \in [Claims -> Runner] /\ runner[k] \in Runner
  BY DEF TypeOK
<1>2. [runner[k] EXCEPT !.phase = phase] \in Runner
  BY <1>1 DEF Runner
<1> QED
  BY <1>1, <1>2 DEF SetPhase

LEMMA SetReceiptStateType ==
    ASSUME TypeInv, NEW k \in Claims, Used(k), NEW state \in ReceiptStates,
           SetReceiptState(k, state)
    PROVE  rcpt' \in [Claims -> Receipt] /\ ReceiptsNameJobs'
<1>1. rcpt' \in [Claims -> Receipt]
  <2>1. rcpt[k] \in Receipt /\ state \in ReceiptStates \cup {"none"}
    BY DEF TypeInv, TypeOK
  <2>2. [rcpt[k] EXCEPT !.state = state] \in Receipt
    BY <2>1 DEF Receipt
  <2> QED
    BY <2>2 DEF TypeInv, TypeOK, SetReceiptState
<1>2. ReceiptsNameJobs'
  <2>1. \A l \in Claims : rcpt'[l].job = rcpt[l].job
    BY DEF TypeInv, TypeOK, SetReceiptState, Receipt
  <2>2. \A l \in Claims \ {k} : rcpt'[l] = rcpt[l]
    BY DEF TypeInv, TypeOK, SetReceiptState
  <2> QED
    BY <2>1, <2>2 DEF TypeInv, ReceiptsNameJobs, Used, JobOf
<1> QED
  BY <1>1, <1>2

LEMMA RecoveredType ==
    ASSUME NEW row \in JobRow, NEW new \in Recovered(row)
    PROVE  new \in JobRow
<1>1. CASE row.intent # NoIntent
  BY <1>1, EndedType DEF Recovered, JobRow, TerminalStatuses
<1>2. CASE row.intent = NoIntent /\ new \in Requeued(row)
  <2>1. /\ row.retries < MaxRetries
        /\ new = [Unleased(row) EXCEPT !.status = "queued", !.retries = @ + 1]
    BY <1>2 DEF Requeued
  <2>2. Unleased(row) \in JobRow /\ Unleased(row).retries = row.retries
    BY UnleasedType
  <2>3. Unleased(row).retries + 1 \in 0 .. MaxRetries
    BY <2>1, <2>2, RetryAssumption DEF JobRow
  <2>4. "queued" \in ActiveStatuses
    BY DEF ActiveStatuses
  <2> QED
    BY <2>1, <2>2, <2>3, <2>4, RetryType
<1>3. CASE row.intent = NoIntent /\ new \in Failed(row)
  <2>1. new = [row EXCEPT !.status = "failed", !.claim = NoClaim]
    BY <1>3 DEF Failed
  <2>2. "failed" \in TerminalStatuses
    BY DEF TerminalStatuses, Intents
  <2> QED
    BY <2>1, <2>2, LostType
<1>4. CASE row.intent = NoIntent /\ new \in Resumed(row)
  <2>1. new = [Unleased(row) EXCEPT !.status = "queued", !.availableAt = FALSE]
    BY <1>4 DEF Resumed
  <2>2. Unleased(row) \in JobRow /\ "queued" \in ActiveStatuses
    BY UnleasedType DEF ActiveStatuses
  <2> QED
    BY <2>1, <2>2, DueType
<1> QED
  BY <1>1, <1>2, <1>3, <1>4 DEF Recovered

LEMMA InitType == Init => TypeInv
<1> SUFFICES ASSUME Init PROVE TypeInv
  OBVIOUS
<1>1. job \in [Jobs -> JobRow]
  BY RetryAssumption, MaxSeqAssumption DEF Init, JobRow, ActiveStatuses
<1>2. rcpt \in [Claims -> Receipt]
  BY MaxSeqAssumption DEF Init, Receipt
<1>3. rows \in [Jobs -> [Channels -> [Seqs -> Writers]]]
  BY DEF Init, Writers
<1>4. runner \in [Claims -> Runner]
  BY MaxSeqAssumption DEF Init, Runner
<1>5. snap \in [Jobs -> [row : JobRow \cup {NoRow}, fresh : BOOLEAN]]
  BY DEF Init
<1>6. ReceiptsNameJobs
  BY DEF Init, ReceiptsNameJobs, Used
<1> QED
  BY <1>1, <1>2, <1>3, <1>4, <1>5, <1>6 DEF TypeInv, TypeOK

LEMMA StepType == TypeInv /\ [Next]_vars => TypeInv'
<1> SUFFICES ASSUME TypeInv, [Next]_vars PROVE TypeInv'
  OBVIOUS
<1> USE DEF TypeInv
<1>1. CASE UNCHANGED vars
  BY <1>1 DEF vars, TypeOK, ReceiptsNameJobs, Used, JobOf
<1>2. ASSUME NEW k \in Claims,
             StartExecution(k) \/ DeclineClaim(k) \/ LeaveWithoutHandoff(k) \/ Drain(k)
      PROVE  TypeInv'
  <2>1. runner' \in [Claims -> Runner]
    BY <1>2, SetPhaseType DEF StartExecution, DeclineClaim, LeaveWithoutHandoff, Drain
  <2>2. UNCHANGED <<job, rcpt, rows, snap>>
    BY <1>2 DEF StartExecution, DeclineClaim, LeaveWithoutHandoff, Drain
  <2> QED
    BY <2>1, <2>2 DEF TypeOK, ReceiptsNameJobs, Used, JobOf
<1>3. ASSUME NEW k \in Claims, NEW c \in Channels, NEW n \in Seqs, EnsureReservation(k, c, n)
      PROVE  TypeInv'
  <2>1. rcpt[k].end[c] \in 0 .. MaxSeq /\ n \in 0 .. MaxSeq
    BY MaxSeqAssumption DEF TypeOK, Receipt, Seqs
  <2>2. ReservationEnd(rcpt[k].end[c], n) \in 0 .. MaxSeq
    BY <2>1, ReservationCovers
  <2>3. rcpt' = [rcpt EXCEPT ![k].end[c] = ReservationEnd(rcpt[k].end[c], n)]
    BY <1>3 DEF EnsureReservation, TypeOK, Receipt
  <2>4. [rcpt[k] EXCEPT !.end[c] = ReservationEnd(rcpt[k].end[c], n)] \in Receipt
    <3> DEFINE ends == [rcpt[k].end EXCEPT ![c] = ReservationEnd(rcpt[k].end[c], n)]
    <3>1. rcpt[k] \in Receipt
      BY DEF TypeOK
    <3>2. ends \in [Channels -> 0 .. MaxSeq]
      BY <2>2, <3>1 DEF Receipt
    <3> HIDE DEF ends
    <3>3. [rcpt[k] EXCEPT !.end = ends] \in Receipt
      BY <3>1, <3>2 DEF Receipt
    <3> QED
      BY <3>3 DEF ends
  <2>5. rcpt' \in [Claims -> Receipt]
    BY <2>3, <2>4 DEF TypeOK
  <2>6. ReceiptsNameJobs'
    BY <2>3 DEF TypeOK, Receipt, ReceiptsNameJobs, Used, JobOf
  <2>7. UNCHANGED <<job, rows, runner, snap>>
    BY <1>3 DEF EnsureReservation
  <2> QED
    BY <2>5, <2>6, <2>7 DEF TypeOK
<1>4. ASSUME NEW k \in Claims, NEW c \in Channels, Emit(k, c)
      PROVE  TypeInv'
  <2>1. runner[k].sent[c] + 1 \in 0 .. MaxSeq
    BY <1>4, MaxSeqAssumption DEF Emit, TypeOK, Receipt, Runner
  <2>2. [runner[k] EXCEPT !.sent[c] = @ + 1] \in Runner
    BY <2>1 DEF TypeOK, Runner
  <2>3. runner' \in [Claims -> Runner]
    BY <1>4, <2>2 DEF Emit, TypeOK
  <2> QED
    BY <1>4, <2>3 DEF Emit, TypeOK, ReceiptsNameJobs, Used, JobOf
<1>5. ASSUME NEW k \in Claims, NEW c \in Channels, NEW s \in Seqs, PersistRow(k, c, s)
      PROVE  TypeInv'
  <2>1. rows' \in [Jobs -> [Channels -> [Seqs -> Writers]]]
    BY <1>5 DEF PersistRow, TypeOK, ReceiptsNameJobs, Writers
  <2>2. [rcpt[k] EXCEPT !.inserted[c] = @ + 1] \in Receipt
    <3>1. rcpt[k] \in Receipt
      BY DEF TypeOK
    <3>2. rcpt[k].inserted[c] + 1 \in Nat
      BY <3>1 DEF Receipt
    <3> QED
      BY <3>1, <3>2 DEF Receipt
  <2>3. rcpt' \in [Claims -> Receipt]
    BY <1>5, <2>2 DEF PersistRow, TypeOK
  <2>4. ReceiptsNameJobs'
    BY <1>5 DEF PersistRow, TypeOK, Receipt, ReceiptsNameJobs, Used, JobOf
  <2> QED
    BY <1>5, <2>1, <2>3, <2>4 DEF PersistRow, TypeOK
<1>6. ASSUME NEW k \in Claims, PrepareHandoff(k)
      PROVE  TypeInv'
  <2>1. PICK st \in {"ready", "draining"} :
          rcpt' = [rcpt EXCEPT ![k].state = st, ![k].mark = runner[k].sent]
    BY <1>6 DEF PrepareHandoff
  <2>2. [rcpt[k] EXCEPT !.state = st, !.mark = runner[k].sent] \in Receipt
    <3>1. rcpt[k] \in Receipt /\ runner[k].sent \in [Channels -> 0 .. MaxSeq]
      BY DEF TypeOK, Runner
    <3>2. runner[k].sent \in [Channels -> {NoMark} \cup 0 .. MaxSeq]
      BY <3>1
    <3>3. st \in ReceiptStates
      BY DEF ReceiptStates, LiveStates
    <3> QED
      BY <3>1, <3>2, <3>3 DEF Receipt
  <2>3. rcpt' \in [Claims -> Receipt]
    BY <2>1, <2>2 DEF TypeOK
  <2>4. ReceiptsNameJobs'
    <3>1. rcpt[k].state # "none"
      BY <1>6 DEF PrepareHandoff, IsCurrent, Used
    <3>2. ASSUME NEW l \in Claims
          PROVE  /\ rcpt'[l].job = rcpt[l].job
                 /\ rcpt'[l].state # "none" => rcpt[l].state # "none"
      <4>1. CASE l = k
        BY <2>1, <3>1, <4>1 DEF TypeOK, Receipt
      <4>2. CASE l # k
        <5>1. rcpt'[l] = rcpt[l]
          BY <2>1, <4>2 DEF TypeOK
        <5> QED
          BY <5>1
      <4> QED
        BY <4>1, <4>2
    <3> QED
      BY <3>2 DEF ReceiptsNameJobs, Used, JobOf
  <2> QED
    BY <1>6, <2>3, <2>4 DEF PrepareHandoff, TypeOK
<1>7. ASSUME NEW k \in Claims, NEW st \in CurrentStatuses, ReportProgress(k, st)
      PROVE  TypeInv'
  <2>1. JobOf(k) \in Jobs
    BY <1>7 DEF ReportProgress, IsCurrent, ReceiptsNameJobs
  <2>2. [job[JobOf(k)] EXCEPT !.status = st] \in JobRow
    <3>1. job[JobOf(k)] \in JobRow /\ st \in ActiveStatuses
      BY <2>1 DEF TypeOK, ActiveStatuses
    <3> QED
      BY <3>1 DEF JobRow
  <2>3. UNCHANGED <<rcpt, rows, runner>>
    BY <1>7 DEF ReportProgress
  <2> QED
    BY <1>7, <2>1, <2>2, <2>3, WriteJobType
       DEF ReportProgress, TypeOK, ReceiptsNameJobs, Used, JobOf
<1>8. ASSUME NEW k \in Claims, NEW st \in {"queued", "paused"}, NEW at \in BOOLEAN,
             NEW n \in {0, 1}, Release(k, st, at, n)
      PROVE  TypeInv'
  <2> DEFINE j == JobOf(k)
             highWater == Channelwise(Greatest, rcpt[k].mark, job[j].highWater)
             released == [Unleased(job[j]) EXCEPT
                            !.status = st, !.retries = @ + n,
                            !.availableAt = at, !.highWater = highWater]
  <2>1. j \in Jobs /\ Used(k) /\ job[j] \in JobRow
    BY <1>8 DEF Release, IsCurrent, ReceiptsNameJobs, TypeOK
  <2>2. highWater \in [Channels -> 0 .. MaxSeq]
    BY <2>1, MaxSeqAssumption DEF Channelwise, Greatest, TypeOK, Receipt, JobRow, NoMark
  <2>3. job[j].retries + n \in 0 .. MaxRetries
    BY <1>8, <2>1, RetryAssumption DEF Release, MayRetry, JobRow
  <2>4. /\ Unleased(job[j]) \in JobRow
        /\ Unleased(job[j]).retries = job[j].retries
        /\ Unleased(job[j]).highWater = job[j].highWater
    BY <2>1, UnleasedType DEF Unleased, JobRow
  <2>5. released \in JobRow
    <3> HIDE DEF highWater
    <3> QED BY <2>2, <2>3, <2>4 DEF JobRow, ActiveStatuses
  <2>6. Ended(job[j], st) \in JobRow
    BY <2>1, EndedType DEF ActiveStatuses
  <2>7. /\ WriteJob(j, released) \/ WriteJob(j, Ended(job[j], st))
        /\ SetReceiptState(k, "released") \/ SetReceiptState(k, "terminal")
        /\ SetPhase(k, "done")
        /\ UNCHANGED rows
    <3>1. Unleased(job[j]).highWater = job[j].highWater
      BY <2>4
    <3> QED BY <1>8, <3>1, <2>1, <2>4, Zenon DEF Release
  <2> HIDE DEF j, released, highWater
  <2>8. rcpt' \in [Claims -> Receipt] /\ ReceiptsNameJobs'
    BY <2>1, <2>7, SetReceiptStateType DEF ReceiptStates
  <2>9. runner' \in [Claims -> Runner]
    BY <2>7, SetPhaseType
  <2> QED
    BY <2>1, <2>5, <2>6, <2>7, <2>8, <2>9, WriteJobType DEF TypeOK
<1>9. ASSUME NEW k \in Claims, NEW st \in TerminalStatuses, Finish(k, st)
      PROVE  TypeInv'
  <2>1. JobOf(k) \in Jobs /\ Used(k)
    BY <1>9 DEF Finish, IsCurrent, ReceiptsNameJobs
  <2>2. Ended(job[JobOf(k)], st) \in JobRow
    BY <2>1, EndedType DEF TypeOK
  <2>3. rcpt' \in [Claims -> Receipt] /\ ReceiptsNameJobs'
    BY <1>9, <2>1, SetReceiptStateType DEF Finish, ReceiptStates
  <2>4. runner' \in [Claims -> Runner]
    BY <1>9, SetPhaseType DEF Finish
  <2> QED
    BY <1>9, <2>1, <2>2, <2>3, <2>4, WriteJobType DEF Finish, TypeOK
<1>10. ASSUME NEW j \in Jobs, NEW k \in Claims, NEW w \in Workers, ClaimJob(j, k, w)
       PROVE  TypeInv'
  <2>1. PICK base \in [Channels -> 0 .. MaxSeq] :
          /\ IsBase(j, base)
          /\ rcpt' = [rcpt EXCEPT ![k] = NewReceipt(j, w, base)]
          /\ runner' = [runner EXCEPT ![k] = [phase |-> "offered", sent |-> base]]
    BY <1>10 DEF ClaimJob
  <2>2. \A c \in Channels : base[c] + 1 \in 0 .. MaxSeq
    BY <2>1, MaxSeqAssumption DEF IsBase
  <2>3. \A c \in Channels : ReservationEnd(base[c], base[c] + 1) \in 0 .. MaxSeq
    BY <2>1, <2>2, ReservationCovers
  <2>4. NewReceipt(j, w, base) \in Receipt
    BY <2>2, <2>3 DEF NewReceipt, Receipt, ReceiptStates, LiveStates
  <2>5. rcpt' \in [Claims -> Receipt]
    BY <2>1, <2>4 DEF TypeOK
  <2>6. ReceiptsNameJobs'
    BY <2>1 DEF NewReceipt, TypeOK, Receipt, ReceiptsNameJobs, Used, JobOf
  <2>7. runner' \in [Claims -> Runner]
    BY <2>1 DEF TypeOK, Runner
  <2>8. [job[j] EXCEPT !.status = "running", !.worker = w,
                       !.claim = k, !.availableAt = FALSE] \in JobRow
    <3>1. job[j] \in JobRow /\ "running" \in ActiveStatuses
      BY DEF TypeOK, ActiveStatuses, CurrentStatuses
    <3> QED
      BY <3>1 DEF JobRow
  <2> QED
    BY <1>10, <2>5, <2>6, <2>7, <2>8, WriteJobType DEF ClaimJob, TypeOK
<1>11. ASSUME NEW j \in Jobs, NEW st \in Intents, EndUnclaimed(j, st)
       PROVE  TypeInv'
  <2>1. Ended(job[j], st) \in JobRow
    BY EndedType DEF TypeOK, TerminalStatuses
  <2> QED
    BY <1>11, <2>1, WriteJobType DEF EndUnclaimed, TypeOK, ReceiptsNameJobs, Used, JobOf
<1>12. ASSUME NEW j \in Jobs, NEW st \in Intents, HoldIntent(j, st)
       PROVE  TypeInv'
  <2>1. [job[j] EXCEPT !.status = "finalizing",
                       !.intent = IF @ = NoIntent THEN st ELSE @] \in JobRow
    <3> DEFINE held == IF job[j].intent = NoIntent THEN st ELSE job[j].intent
    <3>1. job[j] \in JobRow
      BY DEF TypeOK
    <3>2. held \in Intents \cup {NoIntent} /\ "finalizing" \in ActiveStatuses
      BY <3>1 DEF JobRow, ActiveStatuses, CurrentStatuses
    <3> QED
      BY <3>1, <3>2, VerdictType
  <2> QED
    BY <1>12, <2>1, WriteJobType DEF HoldIntent, TypeOK, ReceiptsNameJobs, Used, JobOf
<1>13. ASSUME NEW j \in Jobs, NEW st \in Intents, EndReady(j, st)
       PROVE  TypeInv'
  <2> DEFINE k == job[j].claim
  <2>1. k \in Claims /\ Used(k)
    BY <1>13 DEF EndReady, TypeOK, JobRow, Used
  <2>2. rcpt' \in [Claims -> Receipt] /\ ReceiptsNameJobs'
    BY <1>13, <2>1, SetReceiptStateType DEF EndReady, ReceiptStates
  <2>3. Ended(job[j], st) \in JobRow
    BY EndedType DEF TypeOK, TerminalStatuses
  <2> QED
    BY <1>13, <2>2, <2>3, WriteJobType DEF EndReady, TypeOK
<1>14. ASSUME NEW j \in Jobs, SweepSelect(j)
       PROVE  TypeInv'
  BY <1>14 DEF SweepSelect, TypeOK, ReceiptsNameJobs, Used, JobOf
<1>15. ASSUME NEW j \in Jobs, Recover(j)
       PROVE  TypeInv'
  <2> DEFINE selected == snap[j].row
  <2>1. selected \in JobRow
    BY <1>15 DEF Recover, TypeOK
  <2>2. PICK row \in Recovered(selected) : WriteJob(j, row)
    BY <1>15 DEF Recover
  <2>3. row \in JobRow
    BY <2>1, RecoveredType
  <2>4. rcpt' \in [Claims -> Receipt] /\ ReceiptsNameJobs'
    <3>1. CASE UNCHANGED rcpt
      BY <3>1 DEF TypeOK, ReceiptsNameJobs, Used, JobOf
    <3>2. CASE /\ selected.claim # NoClaim
               /\ rcpt[selected.claim].state \in LiveStates
               /\ SetReceiptState(selected.claim, "crashed")
      <4>1. selected.claim \in Claims /\ Used(selected.claim)
        BY <2>1, <3>2 DEF JobRow, Used, LiveStates
      <4> QED
        BY <3>2, <4>1, SetReceiptStateType DEF ReceiptStates
    <3> QED
      BY <1>15, <3>1, <3>2 DEF Recover
  <2> QED
    BY <1>15, <2>2, <2>3, <2>4, WriteJobType DEF Recover, TypeOK
<1> QED
  BY <1>1, <1>2, <1>3, <1>4, <1>5, <1>6, <1>7, <1>8, <1>9, <1>10, <1>11, <1>12,
     <1>13, <1>14, <1>15
     DEF Next, RunnerStep, ControlStep, RequestTerminal

(* Every reachable state is well typed: no reservation and no emitted       *)
(* number leaves the sequence space, and no retry counter passes its limit  *)
(* (for a release that limit is the runner's, and a guard of the model).    *)
THEOREM TypeCorrect == Spec => []TypeOK
<1>1. TypeInv => TypeOK
  BY DEF TypeInv
<1> QED
  BY InitType, StepType, <1>1, PTL DEF Spec

----------------------------------------------------------------------------
(* What a sweep selects                                                    *)

\* A row a sweep has selected, and that nobody wrote since, is still due.
SelectionIsSweepable == \A j \in Jobs : snap[j].fresh => Sweepable(snap[j].row)

\* Every write of a job ends the selections of it; only SweepSelect makes one.
LEMMA StepSelection ==
    ASSUME TypeInv, [Next]_vars
    PROVE  \/ UNCHANGED snap
           \/ \E j \in Jobs : snap' = [snap EXCEPT ![j].fresh = FALSE]
           \/ \E j \in Jobs : SweepSelect(j)
<1>1. \A k \in Claims : Used(k) => JobOf(k) \in Jobs
  BY DEF TypeInv, ReceiptsNameJobs
<1>2. CASE UNCHANGED vars
  BY <1>2 DEF vars
<1>3. ASSUME NEW k \in Claims, RunnerStep(k)
      PROVE  UNCHANGED snap \/ \E j \in Jobs : snap' = [snap EXCEPT ![j].fresh = FALSE]
  <2>1. CASE \/ StartExecution(k) \/ DeclineClaim(k) \/ LeaveWithoutHandoff(k)
             \/ Drain(k) \/ PrepareHandoff(k)
             \/ \E c \in Channels : Emit(k, c)
             \/ \E c \in Channels, n \in Seqs : EnsureReservation(k, c, n)
             \/ \E c \in Channels, s \in Seqs : PersistRow(k, c, s)
    BY <2>1 DEF StartExecution, DeclineClaim, LeaveWithoutHandoff, Drain, PrepareHandoff,
                Emit, EnsureReservation, PersistRow
  <2>2. CASE \/ \E st \in CurrentStatuses : ReportProgress(k, st)
             \/ \E st \in TerminalStatuses : Finish(k, st)
    BY <1>1, <2>2 DEF ReportProgress, Finish, IsCurrent, WriteJob
  <2>3. ASSUME NEW st \in {"queued", "paused"}, NEW at \in BOOLEAN, NEW n \in {0, 1},
               Release(k, st, at, n)
        PROVE  \E j \in Jobs : snap' = [snap EXCEPT ![j].fresh = FALSE]
    BY <1>1, <2>3 DEF Release, IsCurrent, WriteJob
  <2> QED
    BY <1>3, <2>1, <2>2, <2>3 DEF RunnerStep
<1>4. ASSUME NEW j \in Jobs, ControlStep(j)
      PROVE  SweepSelect(j) \/ snap' = [snap EXCEPT ![j].fresh = FALSE]
  <2>1. ASSUME NEW k \in Claims, NEW w \in Workers, ClaimJob(j, k, w)
        PROVE  snap' = [snap EXCEPT ![j].fresh = FALSE]
    BY <2>1 DEF ClaimJob, WriteJob
  <2>2. ASSUME NEW st \in Intents, RequestTerminal(j, st)
        PROVE  snap' = [snap EXCEPT ![j].fresh = FALSE]
    BY <2>2 DEF RequestTerminal, EndUnclaimed, HoldIntent, EndReady, WriteJob
  <2>3. ASSUME Recover(j)
        PROVE  snap' = [snap EXCEPT ![j].fresh = FALSE]
    BY <2>3 DEF Recover, WriteJob
  <2> QED
    BY <1>4, <2>1, <2>2, <2>3 DEF ControlStep
<1> QED
  BY <1>2, <1>3, <1>4 DEF Next

LEMMA SelectionStays ==
    ASSUME TypeInv, SelectionIsSweepable, [Next]_vars
    PROVE  SelectionIsSweepable'
<1>1. \A j \in Jobs : snap[j] \in [row : JobRow \cup {NoRow}, fresh : BOOLEAN]
  BY DEF TypeInv, TypeOK
<1>2. snap \in [Jobs -> [row : JobRow \cup {NoRow}, fresh : BOOLEAN]]
  BY DEF TypeInv, TypeOK
<1>3. CASE UNCHANGED snap
  BY <1>3 DEF SelectionIsSweepable
<1>4. ASSUME NEW i \in Jobs, snap' = [snap EXCEPT ![i].fresh = FALSE]
      PROVE  SelectionIsSweepable'
  <2>1. \A j \in Jobs : snap'[j].fresh => snap[j].fresh /\ snap'[j] = snap[j]
    BY <1>2, <1>4
  <2> QED
    BY <2>1 DEF SelectionIsSweepable
<1>5. ASSUME NEW i \in Jobs, SweepSelect(i)
      PROVE  SelectionIsSweepable'
  <2>1. /\ snap' = [snap EXCEPT ![i] = [row |-> job[i], fresh |-> TRUE]]
        /\ Sweepable(job[i])
    BY <1>5 DEF SweepSelect
  <2>2. /\ snap'[i].row = job[i]
        /\ \A j \in Jobs \ {i} : snap'[j] = snap[j]
    BY <1>2, <2>1
  <2> QED
    BY <2>1, <2>2 DEF SelectionIsSweepable
<1> QED
  BY <1>3, <1>4, <1>5, StepSelection

\* A sweep knows what becomes of every row it selects.
LEMMA SweepableHasOutcome ==
    ASSUME NEW row, Sweepable(row)
    PROVE  Recovered(row) # {}
<1>1. CASE row.intent # NoIntent
  BY <1>1 DEF Recovered
<1>2. CASE row.intent = NoIntent /\ row.status \in CurrentStatuses
  BY <1>2 DEF Recovered, Failed
<1>3. CASE row.intent = NoIntent /\ row.status = "paused"
  BY <1>3 DEF Recovered, Resumed
<1> QED
  BY <1>1, <1>2, <1>3 DEF Sweepable
=============================================================================
