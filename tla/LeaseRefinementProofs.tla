----------------------- MODULE LeaseRefinementProofs -----------------------
(***************************************************************************)
(* The claim protocol implements JobLease: every step of a runner, of a    *)
(* user or of a sweep is a step of the lease, or none.                     *)
(***************************************************************************)
EXTENDS JobLeaseProofs

phaseBar == [j \in Jobs |-> LeasePhase(job[j])]
holderBar == [j \in Jobs |-> job[j].claim]
verdictBar == [j \in Jobs |-> LeaseVerdict(job[j])]
spentBar == {k \in Claims : Used(k)}

leaseBar == <<phaseBar, holderBar, verdictBar, spentBar>>

LEMMA StutterIsLease ==
    ASSUME UNCHANGED leaseBar
    PROVE  UNCHANGED Lease!leaseVars
BY DEF leaseBar, phaseBar, holderBar, verdictBar, spentBar, Lease!leaseVars

\* Writing one job changes the lease of that job only.
LEMMA WriteBars ==
    ASSUME LeaseInv, NEW j \in Jobs, NEW row, WriteJob(j, row)
    PROVE  /\ phaseBar' = [phaseBar EXCEPT ![j] = LeasePhase(row)]
           /\ holderBar' = [holderBar EXCEPT ![j] = row.claim]
           /\ verdictBar' = [verdictBar EXCEPT ![j] = LeaseVerdict(row)]
<1>1. job' = [job EXCEPT ![j] = row] /\ job \in [Jobs -> JobRow]
  BY DEF WriteJob, LeaseInv, TypeInv, TypeOK
<1>2. \A i \in Jobs : job'[i] = IF i = j THEN row ELSE job[i]
  BY <1>1
<1> QED
  BY <1>2, Zenon DEF phaseBar, holderBar, verdictBar

\* A receipt that exists never disappears, and only a claim creates one.
LEMMA SpentKept ==
    ASSUME \A k \in Claims : rcpt'[k].state = "none" <=> rcpt[k].state = "none"
    PROVE  spentBar' = spentBar
BY DEF spentBar, Used

LEMMA SetStateKeepsSpent ==
    ASSUME LeaseInv, NEW k \in Claims, Used(k), NEW state \in ReceiptStates,
           SetReceiptState(k, state)
    PROVE  spentBar' = spentBar
<1>1. rcpt \in [Claims -> Receipt]
  BY DEF LeaseInv, TypeInv, TypeOK
<1>2. \A l \in Claims : rcpt'[l].state = "none" <=> rcpt[l].state = "none"
  BY <1>1 DEF SetReceiptState, Used, Receipt, ReceiptStates, LiveStates
<1> QED
  BY <1>2, SpentKept

\* The four steps of the lease, in terms of the mapped state.
LEMMA CloseIsLease ==
    ASSUME NEW j \in Jobs, NEW v \in TerminalStatuses,
           phaseBar[j] # "done", phaseBar[j] = "closing" => v = verdictBar[j],
           phaseBar' = [phaseBar EXCEPT ![j] = "done"],
           holderBar' = [holderBar EXCEPT ![j] = NoClaim],
           verdictBar' = [verdictBar EXCEPT ![j] = v],
           spentBar' = spentBar
    PROVE  Lease!LeaseNext
<1>1. Lease!Close(j, v)
  BY DEF Lease!Close, phaseBar, holderBar, verdictBar, spentBar
<1> QED
  BY <1>1 DEF Lease!LeaseNext

LEMMA YieldIsLease ==
    ASSUME NEW j \in Jobs, phaseBar[j] = "leased",
           phaseBar' = [phaseBar EXCEPT ![j] = "free"],
           holderBar' = [holderBar EXCEPT ![j] = NoClaim],
           verdictBar' = verdictBar, spentBar' = spentBar
    PROVE  Lease!LeaseNext
<1>1. Lease!Yield(j)
  BY DEF Lease!Yield, phaseBar, holderBar, verdictBar, spentBar
<1> QED
  BY <1>1 DEF Lease!LeaseNext

LEMMA DecideIsLease ==
    ASSUME NEW j \in Jobs, NEW v \in Intents, phaseBar[j] = "leased",
           phaseBar' = [phaseBar EXCEPT ![j] = "closing"],
           verdictBar' = [verdictBar EXCEPT ![j] = v],
           holderBar' = holderBar, spentBar' = spentBar
    PROVE  Lease!LeaseNext
<1>1. Lease!Decide(j, v)
  BY DEF Lease!Decide, phaseBar, holderBar, verdictBar, spentBar
<1> QED
  BY <1>1 DEF Lease!LeaseNext

LEMMA AcquireIsLease ==
    ASSUME NEW j \in Jobs, NEW k \in Claims, phaseBar[j] = "free", k \notin spentBar,
           phaseBar' = [phaseBar EXCEPT ![j] = "leased"],
           holderBar' = [holderBar EXCEPT ![j] = k],
           spentBar' = spentBar \cup {k}, verdictBar' = verdictBar
    PROVE  Lease!LeaseNext
<1>1. Lease!Acquire(j, k)
  BY DEF Lease!Acquire, phaseBar, holderBar, verdictBar, spentBar
<1> QED
  BY <1>1 DEF Lease!LeaseNext

----------------------------------------------------------------------------
(* The two ways a job row loses its lease                                  *)

LEMMA EndingIsLease ==
    ASSUME LeaseInv, NEW j \in Jobs, NEW status \in TerminalStatuses \cup ActiveStatuses,
           job[j].status \in ActiveStatuses,
           job[j].intent = NoIntent => status \in TerminalStatuses,
           WriteJob(j, Ended(job[j], status)), spentBar' = spentBar
    PROVE  Lease!LeaseNext
<1> DEFINE v == IF job[j].intent = NoIntent THEN status ELSE job[j].intent
<1>1. job[j] \in JobRow
  BY DEF LeaseInv, TypeInv, TypeOK
<1>2. v \in TerminalStatuses
  BY <1>1 DEF JobRow, TerminalStatuses
<1>3. Ended(job[j], status).status = v /\ Ended(job[j], status).claim = NoClaim
  BY <1>1 DEF Ended, Unleased, JobRow
<1>4. /\ LeasePhase(Ended(job[j], status)) = "done"
      /\ LeaseVerdict(Ended(job[j], status)) = v
  BY <1>2, <1>3 DEF LeasePhase, LeaseVerdict
<1>5. job[j].status \notin TerminalStatuses
  BY DEF ActiveStatuses, CurrentStatuses, TerminalStatuses, Intents
<1>6. phaseBar[j] # "done" /\ (phaseBar[j] = "closing" => v = verdictBar[j])
  BY <1>5 DEF phaseBar, verdictBar, LeasePhase, LeaseVerdict
<1> QED
  BY <1>2, <1>3, <1>4, <1>6, WriteBars, CloseIsLease

LEMMA YieldingIsLease ==
    ASSUME LeaseInv, NEW j \in Jobs, NEW row,
           job[j].status \in ActiveStatuses, job[j].intent = NoIntent,
           row.status \in ActiveStatuses, row.claim = NoClaim, row.intent = NoIntent,
           WriteJob(j, row), spentBar' = spentBar
    PROVE  Lease!LeaseNext \/ UNCHANGED leaseBar
<1>1. job[j].status \notin TerminalStatuses /\ row.status \notin TerminalStatuses
  BY DEF ActiveStatuses, CurrentStatuses, TerminalStatuses, Intents
<1>2. /\ LeasePhase(row) = "free" /\ LeaseVerdict(row) = NoIntent
      /\ LeaseVerdict(job[j]) = NoIntent
      /\ LeasePhase(job[j]) = IF job[j].claim # NoClaim THEN "leased" ELSE "free"
  BY <1>1 DEF LeasePhase, LeaseVerdict
<1>3. /\ phaseBar' = [phaseBar EXCEPT ![j] = "free"]
      /\ holderBar' = [holderBar EXCEPT ![j] = NoClaim]
      /\ verdictBar' = [verdictBar EXCEPT ![j] = NoIntent]
  BY <1>2, WriteBars
<1>4. verdictBar' = verdictBar
  BY <1>2, <1>3 DEF verdictBar
<1>5. CASE job[j].claim # NoClaim
  <2>1. phaseBar[j] = "leased"
    BY <1>2, <1>5 DEF phaseBar
  <2> QED
    BY <1>3, <1>4, <2>1, YieldIsLease
<1>6. CASE job[j].claim = NoClaim
  <2>1. phaseBar[j] = "free" /\ holderBar[j] = NoClaim
    BY <1>2, <1>6 DEF phaseBar, holderBar
  <2>2. phaseBar' = phaseBar /\ holderBar' = holderBar
    BY <1>3, <2>1 DEF phaseBar, holderBar
  <2> QED
    BY <1>4, <2>2 DEF leaseBar
<1> QED
  BY <1>5, <1>6

----------------------------------------------------------------------------
LEMMA InitRefines == Init => Lease!LeaseInit
<1> SUFFICES ASSUME Init PROVE Lease!LeaseInit
  OBVIOUS
<1>1. \A j \in Jobs : LeasePhase(job[j]) = "free" /\ LeaseVerdict(job[j]) = NoIntent
                      /\ job[j].claim = NoClaim
  BY DEF Init, LeasePhase, LeaseVerdict, TerminalStatuses, Intents
<1>2. \A k \in Claims : ~ Used(k)
  BY DEF Init, Used
<1> QED
  BY <1>1, <1>2 DEF Lease!LeaseInit

LEMMA StepRefines == LeaseInv /\ [Next]_vars => Lease!LeaseNext \/ UNCHANGED leaseBar
<1> SUFFICES ASSUME LeaseInv, [Next]_vars PROVE Lease!LeaseNext \/ UNCHANGED leaseBar
  OBVIOUS
<1>0. job \in [Jobs -> JobRow] /\ rcpt \in [Claims -> Receipt]
  BY DEF LeaseInv, TypeInv, TypeOK
<1>1. CASE UNCHANGED <<job, rcpt>>
  BY <1>1 DEF leaseBar, phaseBar, holderBar, verdictBar, spentBar, Used
<1>2. ASSUME NEW k \in Claims, NEW c \in Channels, NEW n \in Seqs,
             EnsureReservation(k, c, n) \/ PersistRow(k, c, n)
      PROVE  UNCHANGED leaseBar
  <2>1. \A l \in Claims : rcpt'[l].state = rcpt[l].state
    <3>1. CASE EnsureReservation(k, c, n)
      <4>1. PICK e : rcpt' = [rcpt EXCEPT ![k].end[c] = e]
        BY <3>1 DEF EnsureReservation
      <4> QED
        BY <1>0, <4>1 DEF Receipt
    <3>2. CASE PersistRow(k, c, n)
      <4>1. PICK i : rcpt' = [rcpt EXCEPT ![k].inserted[c] = i]
        BY <3>2 DEF PersistRow
      <4> QED
        BY <1>0, <4>1 DEF Receipt
    <3> QED
      BY <1>2, <3>1, <3>2
  <2>2. UNCHANGED job
    BY <1>2 DEF EnsureReservation, PersistRow
  <2> QED
    BY <2>1, <2>2, SpentKept DEF leaseBar, phaseBar, holderBar, verdictBar
<1>3. ASSUME NEW k \in Claims, PrepareHandoff(k)
      PROVE  UNCHANGED leaseBar
  <2>1. PICK st \in {"ready", "draining"} :
          rcpt' = [rcpt EXCEPT ![k].state = st, ![k].mark = runner[k].sent]
    BY <1>3 DEF PrepareHandoff
  <2>2. rcpt[k].state # "none"
    BY <1>3 DEF PrepareHandoff, LiveStates
  <2>3. \A l \in Claims : rcpt'[l].state = "none" <=> rcpt[l].state = "none"
    BY <1>0, <2>1, <2>2 DEF Receipt
  <2>4. UNCHANGED job
    BY <1>3 DEF PrepareHandoff
  <2> QED
    BY <2>3, <2>4, SpentKept DEF leaseBar, phaseBar, holderBar, verdictBar
<1>4. ASSUME NEW k \in Claims, NEW st \in CurrentStatuses, ReportProgress(k, st)
      PROVE  UNCHANGED leaseBar
  <2> DEFINE j == JobOf(k)
             row == [job[j] EXCEPT !.status = st]
  <2>1. /\ IsCurrent(k) /\ WriteJob(j, row) /\ UNCHANGED rcpt
        /\ job[j].intent = NoIntent
    BY <1>4 DEF ReportProgress
  <2>2. /\ j \in Jobs /\ job[j].claim = k /\ k # NoClaim
        /\ job[j].status \in CurrentStatuses
    BY <2>1, AbsentAssumption DEF IsCurrent, LeaseInv, TypeInv, ReceiptsNameJobs
  <2>3. row.status = st /\ row.claim = k /\ row.intent = NoIntent
    BY <1>0, <2>1, <2>2 DEF JobRow
  <2>4. st \notin TerminalStatuses /\ job[j].status \notin TerminalStatuses
    BY <2>2 DEF CurrentStatuses, TerminalStatuses, Intents
  <2>5. /\ LeasePhase(row) = LeasePhase(job[j])
        /\ LeaseVerdict(row) = LeaseVerdict(job[j])
        /\ row.claim = job[j].claim
    BY <2>1, <2>2, <2>3, <2>4 DEF LeasePhase, LeaseVerdict
  <2>6. phaseBar' = phaseBar /\ holderBar' = holderBar /\ verdictBar' = verdictBar
    <3>1. /\ phaseBar[j] = LeasePhase(row) /\ holderBar[j] = row.claim
          /\ verdictBar[j] = LeaseVerdict(row)
      BY <2>2, <2>5 DEF phaseBar, holderBar, verdictBar
    <3> HIDE DEF j, row
    <3>2. /\ phaseBar' = [phaseBar EXCEPT ![j] = phaseBar[j]]
          /\ holderBar' = [holderBar EXCEPT ![j] = holderBar[j]]
          /\ verdictBar' = [verdictBar EXCEPT ![j] = verdictBar[j]]
      BY <2>1, <2>2, <3>1, WriteBars
    <3> QED
      BY <3>2 DEF phaseBar, holderBar, verdictBar
  <2>7. spentBar' = spentBar
    BY <2>1, SpentKept
  <2> QED
    BY <2>6, <2>7 DEF leaseBar
<1>5. ASSUME NEW k \in Claims, NEW st \in {"queued", "paused"}, NEW at \in BOOLEAN,
             NEW n \in {0, 1}, Release(k, st, at, n)
      PROVE  Lease!LeaseNext \/ UNCHANGED leaseBar
  <2>1. /\ JobOf(k) \in Jobs /\ Used(k)
        /\ job[JobOf(k)].status \in ActiveStatuses /\ st \in ActiveStatuses
    BY <1>5 DEF Release, IsCurrent, LeaseInv, TypeInv, ReceiptsNameJobs, ActiveStatuses
  <2>2. spentBar' = spentBar
    BY <1>5, <2>1, SetStateKeepsSpent DEF Release, ReceiptStates
  <2>3. CASE job[JobOf(k)].intent # NoIntent
    BY <1>5, <2>1, <2>2, <2>3, EndingIsLease DEF Release
  <2>4. CASE job[JobOf(k)].intent = NoIntent
    <3> DEFINE released ==
              [Unleased(job[JobOf(k)]) EXCEPT
                 !.status = st, !.retries = @ + n, !.availableAt = at,
                 !.highWater = Channelwise(Greatest, rcpt[k].mark, @)]
    <3>1. WriteJob(JobOf(k), released)
      BY <1>5, <2>4 DEF Release
    <3>2. released.status = st /\ released.claim = NoClaim /\ released.intent = NoIntent
      BY <1>0, <2>1, <2>4 DEF Unleased, JobRow
    <3> HIDE DEF released
    <3> QED
      BY <2>1, <2>2, <2>4, <3>1, <3>2, YieldingIsLease
  <2> QED
    BY <2>3, <2>4
<1>6. ASSUME NEW k \in Claims, NEW st \in TerminalStatuses, Finish(k, st)
      PROVE  Lease!LeaseNext
  <2>1. JobOf(k) \in Jobs /\ Used(k) /\ job[JobOf(k)].status \in ActiveStatuses
    BY <1>6 DEF Finish, IsCurrent, LeaseInv, TypeInv, ReceiptsNameJobs, ActiveStatuses
  <2>2. spentBar' = spentBar
    BY <1>6, <2>1, SetStateKeepsSpent DEF Finish, ReceiptStates
  <2> QED
    BY <1>6, <2>1, <2>2, EndingIsLease DEF Finish
<1>7. ASSUME NEW j \in Jobs, NEW k \in Claims, NEW w \in Workers, ClaimJob(j, k, w)
      PROVE  Lease!LeaseNext
  <2> DEFINE row == [job[j] EXCEPT !.status = "running", !.worker = w,
                                   !.claim = k, !.availableAt = FALSE]
  <2>1. PICK base : rcpt' = [rcpt EXCEPT ![k] = NewReceipt(j, w, base)]
    BY <1>7 DEF ClaimJob
  <2>2. WriteJob(j, row) /\ job[j].status = "queued" /\ ~ Used(k)
    BY <1>7 DEF ClaimJob
  <2>3. job[j].claim = NoClaim /\ job[j].intent = NoIntent
    BY <2>2 DEF LeaseInv, NonceHasReceipt, IntentIsLeased, CurrentStatuses
  <2>4. row.status = "running" /\ row.claim = k /\ row.intent = NoIntent
    BY <1>0, <2>3 DEF JobRow
  <2>5. /\ phaseBar[j] = "free" /\ verdictBar[j] = NoIntent
        /\ LeasePhase(row) = "leased" /\ LeaseVerdict(row) = NoIntent
    BY <2>2, <2>3, <2>4, AbsentAssumption
       DEF phaseBar, verdictBar, LeasePhase, LeaseVerdict, TerminalStatuses, Intents
  <2> HIDE DEF row
  <2>6. /\ phaseBar' = [phaseBar EXCEPT ![j] = "leased"]
        /\ holderBar' = [holderBar EXCEPT ![j] = k]
        /\ verdictBar' = [verdictBar EXCEPT ![j] = NoIntent]
    BY <2>2, <2>4, <2>5, WriteBars
  <2>7. verdictBar' = verdictBar
    BY <2>5, <2>6 DEF verdictBar
  <2>8. spentBar' = spentBar \cup {k} /\ k \notin spentBar
    BY <1>0, <2>1, <2>2 DEF spentBar, Used, NewReceipt
  <2> QED
    BY <2>5, <2>6, <2>7, <2>8, AcquireIsLease
<1>8. ASSUME NEW j \in Jobs, NEW st \in Intents, EndUnclaimed(j, st)
      PROVE  Lease!LeaseNext
  <2>1. spentBar' = spentBar
    BY <1>8 DEF EndUnclaimed, spentBar, Used
  <2> QED
    BY <1>8, <2>1, EndingIsLease DEF EndUnclaimed, TerminalStatuses
<1>9. ASSUME NEW j \in Jobs, NEW st \in Intents, HoldIntent(j, st)
      PROVE  Lease!LeaseNext \/ UNCHANGED leaseBar
  <2> DEFINE row == [job[j] EXCEPT !.status = "finalizing",
                                   !.intent = IF @ = NoIntent THEN st ELSE @]
  <2>1. /\ WriteJob(j, row) /\ UNCHANGED rcpt /\ job[j].claim # NoClaim
        /\ job[j].status \in ActiveStatuses
    BY <1>9 DEF HoldIntent
  <2>2. spentBar' = spentBar
    BY <2>1, SpentKept
  <2>3. /\ row.claim = job[j].claim /\ row.status = "finalizing"
        /\ row.intent = IF job[j].intent = NoIntent THEN st ELSE job[j].intent
    BY <1>0 DEF JobRow
  <2>4. row.intent # NoIntent
    BY <2>3, AbsentAssumption DEF TerminalStatuses
  <2>5. /\ "finalizing" \notin TerminalStatuses
        /\ job[j].status \notin TerminalStatuses
    BY <2>1 DEF ActiveStatuses, CurrentStatuses, TerminalStatuses, Intents
  <2>6. /\ LeasePhase(row) = "closing" /\ LeaseVerdict(row) = row.intent
        /\ phaseBar[j] = IF job[j].intent # NoIntent THEN "closing" ELSE "leased"
        /\ verdictBar[j] = job[j].intent /\ holderBar[j] = job[j].claim
    BY <2>1, <2>3, <2>4, <2>5 DEF phaseBar, verdictBar, holderBar, LeasePhase, LeaseVerdict
  <2> HIDE DEF row
  <2>7. /\ phaseBar' = [phaseBar EXCEPT ![j] = "closing"]
        /\ verdictBar' = [verdictBar EXCEPT ![j] = row.intent]
        /\ holderBar' = [holderBar EXCEPT ![j] = holderBar[j]]
    BY <2>1, <2>3, <2>6, WriteBars
  <2>8. holderBar' = holderBar
    BY <2>7 DEF holderBar
  <2>9. CASE job[j].intent = NoIntent
    BY <2>2, <2>3, <2>6, <2>7, <2>8, <2>9, DecideIsLease
  <2>10. CASE job[j].intent # NoIntent
    <3>1. phaseBar[j] = "closing" /\ verdictBar[j] = row.intent
      BY <2>3, <2>6, <2>10 DEF row
    <3>2. phaseBar' = phaseBar
      BY <2>7, <3>1 DEF phaseBar
    <3>3. verdictBar' = verdictBar
      BY <2>7, <3>1 DEF verdictBar
    <3> QED
      BY <2>2, <2>8, <3>2, <3>3 DEF leaseBar
  <2> QED
    BY <2>9, <2>10
<1>10. ASSUME NEW j \in Jobs, NEW st \in Intents, EndReady(j, st)
       PROVE  Lease!LeaseNext
  <2>1. job[j].claim \in Claims /\ Used(job[j].claim) /\ job[j].status \in ActiveStatuses
    BY <1>0, <1>10 DEF EndReady, JobRow, Used, ActiveStatuses
  <2>2. spentBar' = spentBar
    BY <1>10, <2>1, SetStateKeepsSpent DEF EndReady, ReceiptStates
  <2> QED
    BY <1>10, <2>1, <2>2, EndingIsLease DEF EndReady, TerminalStatuses
<1>11. ASSUME NEW j \in Jobs, Recover(j)
       PROVE  Lease!LeaseNext \/ UNCHANGED leaseBar
  <2>1. snap[j].row = job[j] /\ job[j] \in JobRow
    BY <1>0, <1>11 DEF Recover, SelectedJobFence, LeaseInv, FreshIsCurrent
  <2>2. PICK row \in Recovered(job[j]) : WriteJob(j, row)
    BY <1>11, <2>1 DEF Recover
  <2>3. spentBar' = spentBar
    <3>1. CASE UNCHANGED rcpt
      BY <3>1 DEF spentBar, Used
    <3>2. CASE /\ job[j].claim # NoClaim /\ SetReceiptState(job[j].claim, "crashed")
               /\ rcpt[job[j].claim].state \in LiveStates
      <4>1. job[j].claim \in Claims /\ Used(job[j].claim)
        BY <2>1, <3>2 DEF JobRow, Used, LiveStates
      <4> QED
        BY <3>2, <4>1, SetStateKeepsSpent DEF ReceiptStates
    <3> QED
      BY <1>11, <2>1, <3>1, <3>2 DEF Recover
  <2>4. CASE job[j].intent # NoIntent
    <3>1. row = Ended(job[j], job[j].intent) /\ job[j].intent \in TerminalStatuses
      BY <2>1, <2>2, <2>4 DEF Recovered, JobRow, TerminalStatuses
    <3>2. job[j].status \in ActiveStatuses
      BY <2>4 DEF LeaseInv, IntentIsLeased, ActiveStatuses, CurrentStatuses
    <3> QED
      BY <2>2, <2>3, <2>4, <3>1, <3>2, EndingIsLease
  <2>5. CASE job[j].intent = NoIntent /\ row \in Requeued(job[j]) \cup Resumed(job[j])
    <3>1. /\ job[j].status \in {"running", "paused"} /\ row.status = "queued"
          /\ row.claim = NoClaim /\ row.intent = NoIntent
      BY <2>1, <2>2, <2>5, RecoveredRow DEF Requeued, Resumed, Unleased, JobRow
    <3> QED
      BY <2>2, <2>3, <2>5, <3>1, YieldingIsLease DEF ActiveStatuses, CurrentStatuses
  <2>6. CASE job[j].intent = NoIntent /\ row \in Failed(job[j])
    <3>1. /\ job[j].status \in CurrentStatuses
          /\ row.status = "failed" /\ row.claim = NoClaim
      BY <2>1, <2>6 DEF Failed, JobRow
    <3>2. LeasePhase(row) = "done" /\ LeaseVerdict(row) = "failed"
      BY <3>1 DEF LeasePhase, LeaseVerdict, TerminalStatuses, Intents
    <3>3. phaseBar[j] \notin {"done", "closing"}
      BY <2>6, <3>1
         DEF phaseBar, LeasePhase, CurrentStatuses, TerminalStatuses, Intents
    <3> QED
      BY <2>2, <2>3, <3>1, <3>2, <3>3, WriteBars, CloseIsLease DEF TerminalStatuses, Intents
  <2> QED
    BY <2>2, <2>4, <2>5, <2>6 DEF Recovered
<1>12. ASSUME NEW k \in Claims,
              \/ StartExecution(k) \/ DeclineClaim(k) \/ LeaveWithoutHandoff(k) \/ Drain(k)
              \/ \E c \in Channels : Emit(k, c)
       PROVE  UNCHANGED <<job, rcpt>>
  BY <1>12 DEF StartExecution, DeclineClaim, LeaveWithoutHandoff, Drain, Emit
<1>13. ASSUME NEW j \in Jobs, SweepSelect(j)
       PROVE  UNCHANGED <<job, rcpt>>
  BY <1>13 DEF SweepSelect
<1>14. CASE UNCHANGED vars
  BY <1>1, <1>14 DEF vars
<1> QED
  BY <1>1, <1>2, <1>3, <1>4, <1>5, <1>6, <1>7, <1>8, <1>9, <1>10, <1>11, <1>12,
     <1>13, <1>14
     DEF Next, RunnerStep, ControlStep, RequestTerminal

(* At most one claim leases a job, no nonce is leased twice, the first held *)
(* cancellation or failure decides the outcome, and an ended job keeps its  *)
(* outcome: the specification of the lease, for any number of jobs, workers *)
(* and claims and any interleaving of runners, users and sweeps.            *)
THEOREM ClaimsImplementLease == Spec => LeaseSpec
<1>1. LeaseInv /\ [Next]_vars => [Lease!LeaseNext]_(Lease!leaseVars)
  BY StepRefines, StutterIsLease
<1> QED
  BY InitRefines, LeaseInvariant, <1>1, PTL DEF Spec, LeaseSpec, Lease!LeaseSpec
=============================================================================
