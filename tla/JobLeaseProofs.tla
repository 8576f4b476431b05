--------------------------- MODULE JobLeaseProofs ---------------------------
(***************************************************************************)
(* The lease of a job: its nonce and its open receipt go together, for     *)
(* runners, for those who end the job and for the sweeps.                  *)
(***************************************************************************)
EXTENDS JobClaimsProofs

\* A nonce in a job row is that of an open receipt of the same job and worker.
NonceHasReceipt ==
    \A j \in Jobs : job[j].claim # NoClaim =>
        /\ job[j].status \in CurrentStatuses
        /\ rcpt[job[j].claim].state \in LiveStates
        /\ rcpt[job[j].claim].job = j
        /\ rcpt[job[j].claim].worker = job[j].worker

ReceiptHasNonce ==
    \A k \in Claims : rcpt[k].state \in LiveStates => job[JobOf(k)].claim = k

\* Only a leased job holds an intent, and it is finalizing.
IntentIsLeased ==
    \A j \in Jobs : job[j].intent # NoIntent =>
        job[j].claim # NoClaim /\ job[j].status = "finalizing"

\* The fence of a sweep is sound: an unchanged xmin means an unchanged row.
FreshIsCurrent == \A j \in Jobs : snap[j].fresh => snap[j].row = job[j]

LeaseInv ==
    /\ TypeInv
    /\ NonceHasReceipt
    /\ ReceiptHasNonce
    /\ IntentIsLeased
    /\ FreshIsCurrent

LEMMA InitLease == Init => LeaseInv
<1> SUFFICES ASSUME Init PROVE LeaseInv
  OBVIOUS
<1>1. TypeInv
  BY InitType
<1>2. NonceHasReceipt /\ ReceiptHasNonce /\ IntentIsLeased /\ FreshIsCurrent
  BY DEF Init, NonceHasReceipt, ReceiptHasNonce, IntentIsLeased, FreshIsCurrent, LiveStates
<1> QED
  BY <1>1, <1>2 DEF LeaseInv

(* A step that leaves the job rows and the owners of the receipts alone,    *)
(* and opens or closes no receipt.                                          *)
LEMMA LeaseUntouched ==
    ASSUME LeaseInv, TypeInv', UNCHANGED <<job, snap>>,
           \A k \in Claims : /\ rcpt'[k].job = rcpt[k].job
                             /\ rcpt'[k].worker = rcpt[k].worker
                             /\ rcpt'[k].state \in LiveStates <=> rcpt[k].state \in LiveStates
    PROVE  LeaseInv'
<1> USE DEF LeaseInv
<1>1. NonceHasReceipt'
  <2>1. \A j \in Jobs : job[j].claim \in Claims \cup {NoClaim}
    BY DEF TypeInv, TypeOK, JobRow
  <2> QED
    BY <2>1 DEF NonceHasReceipt
<1>2. ReceiptHasNonce'
  BY DEF ReceiptHasNonce, JobOf
<1>3. IntentIsLeased' /\ FreshIsCurrent'
  BY DEF IntentIsLeased, FreshIsCurrent
<1> QED
  BY <1>1, <1>2, <1>3

(* A job gives its lease up: its nonce is cleared and its receipt closed in *)
(* one transaction.                                                         *)
LEMMA LeaseGivenUp ==
    ASSUME LeaseInv, TypeInv', NEW j \in Jobs, NEW row \in JobRow, WriteJob(j, row),
           row.claim = NoClaim, row.intent = NoIntent,
           \/ job[j].claim = NoClaim /\ UNCHANGED rcpt
           \/ /\ job[j].claim # NoClaim
              /\ \E state \in {"released", "terminal", "crashed"} :
                    SetReceiptState(job[j].claim, state)
    PROVE  LeaseInv'
<1> USE DEF LeaseInv
<1>1. /\ job' = [job EXCEPT ![j] = row]
      /\ snap' = [snap EXCEPT ![j].fresh = FALSE]
  BY DEF WriteJob
<1>2. job \in [Jobs -> JobRow] /\ rcpt \in [Claims -> Receipt]
  BY DEF TypeInv, TypeOK
<1>3. \A k \in Claims : /\ rcpt'[k].job = rcpt[k].job
                        /\ rcpt'[k].worker = rcpt[k].worker
                        /\ rcpt'[k].state \in LiveStates => rcpt[k].state \in LiveStates
                        /\ k # job[j].claim => rcpt'[k] = rcpt[k]
                        /\ k = job[j].claim => rcpt'[k].state \notin LiveStates
  <2>1. CASE UNCHANGED rcpt /\ job[j].claim = NoClaim
    BY <2>1, AbsentAssumption
  <2>2. ASSUME NEW state \in {"released", "terminal", "crashed"}, job[j].claim # NoClaim,
               SetReceiptState(job[j].claim, state)
        PROVE  <1>3
    <3>1. job[j].claim \in Claims
      BY <1>2, <2>2 DEF JobRow
    <3> QED
      BY <1>2, <2>2, <3>1 DEF SetReceiptState, Receipt, LiveStates
  <2> QED
    BY <2>1, <2>2
<1>4. NonceHasReceipt'
  <2> SUFFICES ASSUME NEW i \in Jobs, job'[i].claim # NoClaim
               PROVE  /\ job'[i].status \in CurrentStatuses
                      /\ rcpt'[job'[i].claim].state \in LiveStates
                      /\ rcpt'[job'[i].claim].job = i
                      /\ rcpt'[job'[i].claim].worker = job'[i].worker
    BY DEF NonceHasReceipt
  <2>1. i # j /\ job'[i] = job[i]
    BY <1>1, <1>2
  <2>2. job[i].claim \in Claims
    BY <1>2, <2>1 DEF JobRow
  <2>3. job[i].claim # job[j].claim
    BY <2>1, <2>2 DEF NonceHasReceipt
  <2> QED
    BY <1>3, <2>1, <2>2, <2>3 DEF NonceHasReceipt
<1>5. ReceiptHasNonce'
  <2> SUFFICES ASSUME NEW k \in Claims, rcpt'[k].state \in LiveStates
               PROVE  job'[rcpt'[k].job].claim = k
    BY DEF ReceiptHasNonce, JobOf
  <2>1. /\ k # job[j].claim /\ rcpt'[k].job = rcpt[k].job
        /\ rcpt[k].state \in LiveStates
    BY <1>3
  <2>2. rcpt[k].job \in Jobs
    BY <2>1 DEF TypeInv, ReceiptsNameJobs, Used, JobOf, LiveStates
  <2> QED
    BY <1>1, <1>2, <2>1, <2>2 DEF ReceiptHasNonce, JobOf
<1>6. IntentIsLeased'
  BY <1>1, <1>2 DEF IntentIsLeased
<1>7. FreshIsCurrent'
  BY <1>1, <1>2 DEF FreshIsCurrent, TypeInv, TypeOK
<1> QED
  BY <1>4, <1>5, <1>6, <1>7

(* The holder's job row changes, but not its owner.                         *)
LEMMA LeaseKept ==
    ASSUME LeaseInv, TypeInv', UNCHANGED rcpt,
           NEW j \in Jobs, NEW row \in JobRow, WriteJob(j, row),
           row.claim = job[j].claim, row.worker = job[j].worker,
           row.claim # NoClaim, row.status \in CurrentStatuses,
           row.intent # NoIntent => row.status = "finalizing"
    PROVE  LeaseInv'
<1> USE DEF LeaseInv
<1>1. /\ job' = [job EXCEPT ![j] = row]
      /\ snap' = [snap EXCEPT ![j].fresh = FALSE]
  BY DEF WriteJob
<1>2. job \in [Jobs -> JobRow]
  BY DEF TypeInv, TypeOK
<1>3. \A i \in Jobs : job'[i].claim = job[i].claim /\ job'[i].worker = job[i].worker
  BY <1>1, <1>2
<1>4. NonceHasReceipt'
  BY <1>1, <1>2, <1>3 DEF NonceHasReceipt
<1>5. ReceiptHasNonce'
  BY <1>3 DEF ReceiptHasNonce, TypeInv, ReceiptsNameJobs, Used, JobOf, LiveStates
<1>6. IntentIsLeased'
  BY <1>1, <1>2 DEF IntentIsLeased
<1>7. FreshIsCurrent'
  BY <1>1, <1>2 DEF FreshIsCurrent, TypeInv, TypeOK
<1> QED
  BY <1>4, <1>5, <1>6, <1>7

LEMMA RecoveredRow ==
    ASSUME NEW row \in JobRow, NEW new \in Recovered(row)
    PROVE  new.claim = NoClaim /\ new.intent = NoIntent
<1>1. CASE row.intent # NoIntent
  BY <1>1 DEF Recovered, Ended, Unleased, JobRow
<1>2. CASE row.intent = NoIntent
  BY <1>2 DEF Recovered, Requeued, Failed, Resumed, Unleased, JobRow
<1> QED
  BY <1>1, <1>2

LEMMA EndedRow ==
    ASSUME NEW row \in JobRow, NEW status
    PROVE  Ended(row, status).claim = NoClaim /\ Ended(row, status).intent = NoIntent
BY DEF Ended, Unleased, JobRow

LEMMA StepLease == LeaseInv /\ [Next]_vars => LeaseInv'
<1> SUFFICES ASSUME LeaseInv, [Next]_vars PROVE LeaseInv'
  OBVIOUS
<1>0. TypeInv' /\ job \in [Jobs -> JobRow] /\ rcpt \in [Claims -> Receipt]
  BY StepType DEF LeaseInv, TypeInv, TypeOK
<1>1. CASE UNCHANGED vars
  BY <1>0, <1>1, LeaseUntouched DEF vars
<1>2. ASSUME NEW k \in Claims,
             \/ StartExecution(k) \/ DeclineClaim(k) \/ LeaveWithoutHandoff(k) \/ Drain(k)
             \/ \E c \in Channels : Emit(k, c)
      PROVE  LeaseInv'
  BY <1>0, <1>2, LeaseUntouched
     DEF StartExecution, DeclineClaim, LeaveWithoutHandoff, Drain, Emit
<1>3. ASSUME NEW k \in Claims, NEW c \in Channels, NEW n \in Seqs, EnsureReservation(k, c, n)
      PROVE  LeaseInv'
  BY <1>0, <1>3, LeaseUntouched DEF EnsureReservation, Receipt
<1>4. ASSUME NEW k \in Claims, NEW c \in Channels, NEW s \in Seqs, PersistRow(k, c, s)
      PROVE  LeaseInv'
  BY <1>0, <1>4, LeaseUntouched DEF PersistRow, Receipt
<1>5. ASSUME NEW k \in Claims, PrepareHandoff(k)
      PROVE  LeaseInv'
  <2>1. PICK st \in {"ready", "draining"} :
          rcpt' = [rcpt EXCEPT ![k].state = st, ![k].mark = runner[k].sent]
    BY <1>5 DEF PrepareHandoff
  <2>2. rcpt[k].state \in LiveStates /\ st \in LiveStates
    BY <1>5 DEF PrepareHandoff, LiveStates
  <2>3. \A l \in Claims : /\ rcpt'[l].job = rcpt[l].job
                          /\ rcpt'[l].worker = rcpt[l].worker
                          /\ rcpt'[l].state \in LiveStates <=> rcpt[l].state \in LiveStates
    BY <1>0, <2>1, <2>2 DEF Receipt
  <2> QED
    BY <1>0, <1>5, <2>3, LeaseUntouched DEF PrepareHandoff
<1>6. ASSUME NEW k \in Claims, NEW st \in CurrentStatuses, ReportProgress(k, st)
      PROVE  LeaseInv'
  <2> DEFINE row == [job[JobOf(k)] EXCEPT !.status = st]
  <2>1. /\ IsCurrent(k) /\ WriteJob(JobOf(k), row) /\ UNCHANGED rcpt
        /\ job[JobOf(k)].intent = NoIntent
    BY <1>6 DEF ReportProgress
  <2>2. JobOf(k) \in Jobs /\ job[JobOf(k)].claim = k
    BY <2>1 DEF IsCurrent, LeaseInv, TypeInv, ReceiptsNameJobs
  <2>3. job[JobOf(k)] \in JobRow /\ st \in ActiveStatuses
    BY <1>0, <2>2 DEF ActiveStatuses
  <2>4. /\ row \in JobRow /\ row.claim = k /\ row.worker = job[JobOf(k)].worker
        /\ row.status = st /\ row.intent = NoIntent
    BY <2>1, <2>2, <2>3 DEF JobRow
  <2> QED
    BY <1>0, <2>1, <2>2, <2>4, LeaseKept, AbsentAssumption
<1>7. ASSUME NEW k \in Claims, NEW st \in {"queued", "paused"}, NEW at \in BOOLEAN,
             NEW n \in {0, 1}, Release(k, st, at, n)
      PROVE  LeaseInv'
  <2>1. /\ JobOf(k) \in Jobs /\ job[JobOf(k)].claim = k /\ k # NoClaim
    BY <1>7, AbsentAssumption DEF Release, IsCurrent, LeaseInv, TypeInv, ReceiptsNameJobs
  <2>2. PICK row : WriteJob(JobOf(k), row) /\ row.claim = NoClaim /\ row.intent = NoIntent
    <3>1. CASE job[JobOf(k)].intent = NoIntent
      <4> DEFINE released ==
              [Unleased(job[JobOf(k)]) EXCEPT
                 !.status = st, !.retries = @ + n, !.availableAt = at,
                 !.highWater = Channelwise(Greatest, rcpt[k].mark, @)]
      <4>1. WriteJob(JobOf(k), released)
        BY <1>7, <3>1 DEF Release
      <4>2. released.claim = NoClaim /\ released.intent = NoIntent
        BY <1>0, <2>1, <3>1 DEF Unleased, JobRow
      <4> QED
        BY <4>1, <4>2
    <3>2. CASE job[JobOf(k)].intent # NoIntent
      BY <1>0, <1>7, <2>1, <3>2, EndedRow DEF Release
    <3> QED
      BY <3>1, <3>2
  <2>3. row \in JobRow
    BY <1>0, <2>1, <2>2 DEF WriteJob, TypeInv, TypeOK
  <2>4. \E state \in {"released", "terminal", "crashed"} : SetReceiptState(k, state)
    BY <1>7 DEF Release
  <2> QED
    BY <1>0, <2>1, <2>2, <2>3, <2>4, LeaseGivenUp
<1>8. ASSUME NEW k \in Claims, NEW st \in TerminalStatuses, Finish(k, st)
      PROVE  LeaseInv'
  <2>1. /\ JobOf(k) \in Jobs /\ job[JobOf(k)].claim = k /\ k # NoClaim
    BY <1>8, AbsentAssumption DEF Finish, IsCurrent, LeaseInv, TypeInv, ReceiptsNameJobs
  <2>2. Ended(job[JobOf(k)], st) \in JobRow
    BY <1>0, <2>1, EndedType
  <2> QED
    BY <1>0, <1>8, <2>1, <2>2, EndedRow, LeaseGivenUp DEF Finish
<1>9. ASSUME NEW j \in Jobs, NEW k \in Claims, NEW w \in Workers, ClaimJob(j, k, w)
      PROVE  LeaseInv'
  <2>1. PICK base : rcpt' = [rcpt EXCEPT ![k] = NewReceipt(j, w, base)]
    BY <1>9 DEF ClaimJob
  <2>2. /\ job' = [job EXCEPT ![j] = [job[j] EXCEPT !.status = "running", !.worker = w,
                                                  !.claim = k, !.availableAt = FALSE]]
        /\ snap' = [snap EXCEPT ![j].fresh = FALSE]
        /\ job[j].status = "queued"
        /\ rcpt[k].state = "none"
    BY <1>9 DEF ClaimJob, WriteJob, Used
  <2>3. job[j].claim = NoClaim /\ job[j].intent = NoIntent
    BY <2>2 DEF LeaseInv, NonceHasReceipt, IntentIsLeased, CurrentStatuses
  <2>4. /\ rcpt'[k].state = "active" /\ rcpt'[k].job = j /\ rcpt'[k].worker = w
        /\ \A l \in Claims \ {k} : rcpt'[l] = rcpt[l]
    BY <1>0, <2>1 DEF NewReceipt
  <2>5. /\ job'[j].status = "running" /\ job'[j].claim = k /\ job'[j].worker = w
        /\ job'[j].intent = NoIntent
        /\ \A i \in Jobs \ {j} : job'[i] = job[i]
    BY <1>0, <2>2, <2>3 DEF JobRow
  <2>6. \A i \in Jobs : job[i].claim # k
    BY <2>2, AbsentAssumption DEF LeaseInv, NonceHasReceipt, LiveStates
  <2>7. \A i \in Jobs : job[i].claim \in Claims \cup {NoClaim}
    BY <1>0 DEF JobRow
  <2>8. NonceHasReceipt'
    BY <2>4, <2>5, <2>6, <2>7 DEF LeaseInv, NonceHasReceipt, LiveStates, CurrentStatuses
  <2>9. ReceiptHasNonce'
    <3> SUFFICES ASSUME NEW l \in Claims, rcpt'[l].state \in LiveStates
                 PROVE  job'[rcpt'[l].job].claim = l
      BY DEF ReceiptHasNonce, JobOf
    <3>1. CASE l = k
      BY <2>4, <2>5, <3>1
    <3>2. CASE l # k
      <4>1. rcpt[l].job \in Jobs /\ job[rcpt[l].job].claim = l
        BY <2>4, <3>2
           DEF LeaseInv, ReceiptHasNonce, TypeInv, ReceiptsNameJobs, Used, JobOf, LiveStates
      <4> QED
        BY <2>3, <2>4, <2>5, <3>2, <4>1, AbsentAssumption
    <3> QED
      BY <3>1, <3>2
  <2>10. IntentIsLeased'
    BY <2>5 DEF LeaseInv, IntentIsLeased
  <2>11. FreshIsCurrent'
    BY <1>0, <2>2 DEF LeaseInv, FreshIsCurrent, TypeInv, TypeOK
  <2> QED
    BY <1>0, <2>8, <2>9, <2>10, <2>11 DEF LeaseInv
<1>10. ASSUME NEW j \in Jobs, NEW st \in Intents, EndUnclaimed(j, st)
       PROVE  LeaseInv'
  <2>1. Ended(job[j], st) \in JobRow
    BY <1>0, EndedType DEF TerminalStatuses
  <2> QED
    BY <1>0, <1>10, <2>1, EndedRow, LeaseGivenUp DEF EndUnclaimed
<1>11. ASSUME NEW j \in Jobs, NEW st \in Intents, HoldIntent(j, st)
       PROVE  LeaseInv'
  <2> DEFINE row == [job[j] EXCEPT !.status = "finalizing",
                                   !.intent = IF @ = NoIntent THEN st ELSE @]
  <2>1. WriteJob(j, row) /\ UNCHANGED rcpt /\ job[j].claim # NoClaim
    BY <1>11 DEF HoldIntent
  <2>2. /\ row.claim = job[j].claim /\ row.worker = job[j].worker
        /\ row.status = "finalizing"
    BY <1>0 DEF JobRow
  <2>3. row \in JobRow
    BY <1>0, <2>1 DEF WriteJob, TypeInv, TypeOK
  <2> HIDE DEF row
  <2> QED
    BY <1>0, <2>1, <2>2, <2>3, LeaseKept DEF CurrentStatuses
<1>12. ASSUME NEW j \in Jobs, NEW st \in Intents, EndReady(j, st)
       PROVE  LeaseInv'
  <2>1. Ended(job[j], st) \in JobRow
    BY <1>0, EndedType DEF TerminalStatuses
  <2> QED
    BY <1>0, <1>12, <2>1, EndedRow, LeaseGivenUp DEF EndReady
<1>13. ASSUME NEW j \in Jobs, SweepSelect(j)
       PROVE  LeaseInv'
  <2>1. NonceHasReceipt' /\ ReceiptHasNonce' /\ IntentIsLeased'
    BY <1>13 DEF SweepSelect, LeaseInv, NonceHasReceipt, ReceiptHasNonce, IntentIsLeased, JobOf
  <2>2. FreshIsCurrent'
    BY <1>13 DEF SweepSelect, LeaseInv, FreshIsCurrent, TypeInv, TypeOK
  <2> QED
    BY <1>0, <2>1, <2>2 DEF LeaseInv
<1>14. ASSUME NEW j \in Jobs, Recover(j)
       PROVE  LeaseInv'
  <2>1. snap[j].row = job[j]
    BY <1>14 DEF Recover, SelectedJobFence, LeaseInv, FreshIsCurrent
  <2>2. PICK row \in Recovered(job[j]) : WriteJob(j, row)
    BY <1>14, <2>1 DEF Recover
  <2>3. row \in JobRow /\ row.claim = NoClaim /\ row.intent = NoIntent
    BY <1>0, RecoveredType, RecoveredRow
  <2>4. \/ job[j].claim = NoClaim /\ UNCHANGED rcpt
        \/ job[j].claim # NoClaim /\ SetReceiptState(job[j].claim, "crashed")
    BY <1>14, <2>1 DEF Recover
  <2> QED
    BY <1>0, <2>2, <2>3, <2>4, LeaseGivenUp
<1> QED
  BY <1>1, <1>2, <1>3, <1>4, <1>5, <1>6, <1>7, <1>8, <1>9, <1>10, <1>11, <1>12,
     <1>13, <1>14
     DEF Next, RunnerStep, ControlStep, RequestTerminal

LEMMA LeaseInvariant == Spec => []LeaseInv
BY InitLease, StepLease, PTL DEF Spec

(* A job never has two receipts the database would listen to, and a receipt *)
(* stays open only while its claim holds the job.                           *)
THEOREM OpenReceiptsHoldJobs == Spec => []OpenReceiptHoldsJob
<1>1. ASSUME LeaseInv, NEW k \in Claims, rcpt[k].state \in LiveStates
      PROVE  IsCurrent(k)
  <2>1. Used(k) /\ JobOf(k) \in Jobs
    BY <1>1 DEF LeaseInv, TypeInv, ReceiptsNameJobs, Used, LiveStates
  <2>2. job[JobOf(k)].claim = k /\ k # NoClaim
    BY <1>1, AbsentAssumption DEF LeaseInv, ReceiptHasNonce
  <2>3. /\ job[JobOf(k)].status \in CurrentStatuses
        /\ job[JobOf(k)].worker = rcpt[k].worker
    BY <1>1, <2>1, <2>2 DEF LeaseInv, NonceHasReceipt
  <2> QED
    BY <2>1, <2>2, <2>3 DEF IsCurrent
<1>2. LeaseInv => OpenReceiptHoldsJob
  BY <1>1 DEF OpenReceiptHoldsJob
<1> QED
  BY LeaseInvariant, <1>2, PTL

(* No step of any actor leaves a nonce in a job whose receipt is closed or  *)
(* belongs to another worker.                                               *)
THEOREM NoncesHaveReceipts == Spec => []LeasedJobHasOpenReceipt
<1>1. LeaseInv => LeasedJobHasOpenReceipt
  BY DEF LeaseInv, NonceHasReceipt, LeasedJobHasOpenReceipt
<1> QED
  BY LeaseInvariant, <1>1, PTL

(* The protocol by itself never takes a job out of finalizing while a       *)
(* cancellation or a failure is held for it: only the unfenced writers of   *)
(* JobControl can.                                                          *)
THEOREM HeldIntentsStayFinalizing == Spec => []HeldIntentStaysFinalizing
<1>1. LeaseInv => HeldIntentStaysFinalizing
  BY DEF LeaseInv, IntentIsLeased, HeldIntentStaysFinalizing
<1> QED
  BY LeaseInvariant, <1>1, PTL

----------------------------------------------------------------------------
(* The sweeps                                                              *)

(* While the fence of a sweep holds, nothing else can refuse its write: the *)
(* receipt of the row it selected is open and of the same owner, and there  *)
(* is an outcome for the row.  With the timer of the sweeps, this is why a  *)
(* held intent is applied and a quota pause ends.                           *)
THEOREM SweepsAreNeverRefused == Spec => []SweepIsNeverRefused
<1>1. Init => SelectionIsSweepable
  BY DEF Init, SelectionIsSweepable
<1>2. LeaseInv /\ SelectionIsSweepable /\ [Next]_vars => SelectionIsSweepable'
  BY SelectionStays DEF LeaseInv
<1>3. LeaseInv /\ SelectionIsSweepable => SweepIsNeverRefused
  <2> SUFFICES ASSUME LeaseInv, SelectionIsSweepable, NEW j \in Jobs, snap[j].fresh
               PROVE  /\ Recovered(snap[j].row) # {}
                      /\ snap[j].row.claim # NoClaim =>
                           /\ rcpt[snap[j].row.claim].job = j
                           /\ rcpt[snap[j].row.claim].worker = snap[j].row.worker
                           /\ rcpt[snap[j].row.claim].state \in LiveStates
    BY DEF SweepIsNeverRefused
  <2>1. snap[j].row = job[j]
    BY DEF LeaseInv, FreshIsCurrent
  <2>2. Recovered(snap[j].row) # {}
    BY SweepableHasOutcome DEF SelectionIsSweepable
  <2> QED
    BY <2>1, <2>2 DEF LeaseInv, NonceHasReceipt
<1> QED
  BY LeaseInvariant, <1>1, <1>2, <1>3, PTL DEF Spec
=============================================================================
