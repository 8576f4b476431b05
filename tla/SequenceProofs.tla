--------------------------- MODULE SequenceProofs ---------------------------
(***************************************************************************)
(* The sequence numbers of a job: reservations are disjoint, the counter   *)
(* of a receipt is exact, and a handoff that answered ready lost nothing.  *)
(* None of this rests on the lease: the invariants speak of the nonce in   *)
(* the job row alone, so they hold beside unfenced writers, too.           *)
(***************************************************************************)
EXTENDS JobClaimsProofs, FiniteSetTheorems

----------------------------------------------------------------------------
(* Reservations                                                            *)

Before(l, k) == \A c \in Channels : rcpt[l].end[c] < rcpt[k].start[c]

SameJob(k, l) == Used(k) /\ Used(l) /\ k # l /\ JobOf(k) = JobOf(l)

RangesAreRanges ==
    \A k \in Claims, c \in Channels : Used(k) =>
        1 <= rcpt[k].start[c] /\ rcpt[k].start[c] <= rcpt[k].end[c]

\* The claim that can still extend its range, the one whose nonce the job
\* carries, has the last range of the job.
HolderIsLast ==
    \A k, l \in Claims : job[JobOf(k)].claim = k /\ SameJob(k, l) => Before(l, k)

RangeInv == TypeInv /\ RangesAreRanges /\ HolderIsLast /\ ReservationsDisjoint

LEMMA InitRange == Init => RangeInv
<1> SUFFICES ASSUME Init PROVE RangeInv
  OBVIOUS
<1>1. \A k \in Claims : ~ Used(k)
  BY DEF Init, Used
<1> QED
  BY <1>1, InitType
     DEF RangeInv, RangesAreRanges, HolderIsLast, ReservationsDisjoint, SameJob

\* No job gets a nonce.
NoNonceGiven == \A j \in Jobs : job'[j].claim \in {job[j].claim, NoClaim}

\* Only a claim gives a job a nonce.
LEMMA NonceFromClaim ==
    ASSUME TypeInv, [Next]_vars
    PROVE  \/ \E j \in Jobs, k \in Claims, w \in Workers : ClaimJob(j, k, w)
           \/ NoNonceGiven
<1>1. job \in [Jobs -> JobRow] /\ snap \in [Jobs -> [row : JobRow \cup {NoRow}, fresh : BOOLEAN]]
  BY DEF TypeInv, TypeOK
<1>2. CASE UNCHANGED job
  BY <1>2 DEF NoNonceGiven
<1>3. ASSUME NEW j, NEW row, WriteJob(j, row),
             j \in Jobs => row.claim \in {job[j].claim, NoClaim}
      PROVE  NoNonceGiven
  BY <1>1, <1>3 DEF WriteJob, NoNonceGiven
<1>4. \A row \in JobRow : Unleased(row) \in JobRow /\ Unleased(row).claim = NoClaim
  BY UnleasedType DEF Unleased, JobRow
<1>5. \A row \in JobRow : \A st : Ended(row, st).claim = NoClaim
  BY <1>4 DEF Ended, JobRow
<1>6. ASSUME NEW k \in Claims, RunnerStep(k)
      PROVE  NoNonceGiven
  <2> DEFINE j == JobOf(k)
  <2>1. ASSUME NEW st, ReportProgress(k, st)
        PROVE  NoNonceGiven
    <3>1. /\ j \in Jobs /\ WriteJob(j, [job[j] EXCEPT !.status = st])
          /\ [job[j] EXCEPT !.status = st].claim = job[j].claim
      BY <1>1, <2>1 DEF ReportProgress, IsCurrent, TypeInv, ReceiptsNameJobs, JobRow
    <3> QED
      BY <1>3, <3>1
  <2>2. ASSUME NEW st, NEW at, NEW n, Release(k, st, at, n)
        PROVE  NoNonceGiven
    <3> DEFINE mark == Channelwise(Greatest, rcpt[k].mark, Unleased(job[j]).highWater)
               released == [Unleased(job[j]) EXCEPT
                              !.status = st, !.retries = @ + n,
                              !.availableAt = at, !.highWater = mark]
    <3>1. j \in Jobs /\ job[j] \in JobRow
      BY <1>1, <2>2 DEF Release, IsCurrent, TypeInv, ReceiptsNameJobs
    <3>2. WriteJob(j, released) \/ WriteJob(j, Ended(job[j], st))
      BY <2>2, Zenon DEF Release
    <3> HIDE DEF mark
    <3>3. released.claim = NoClaim
      BY <1>4, <3>1 DEF JobRow
    <3>4. Ended(job[j], st).claim = NoClaim
      BY <1>5, <3>1
    <3> HIDE DEF released, j
    <3> QED
      BY <1>3, <3>2, <3>3, <3>4
  <2>3. ASSUME NEW st, Finish(k, st)
        PROVE  NoNonceGiven
    <3>1. j \in Jobs /\ job[j] \in JobRow /\ WriteJob(j, Ended(job[j], st))
      BY <1>1, <2>3 DEF Finish, IsCurrent, TypeInv, ReceiptsNameJobs
    <3> QED
      BY <1>3, <1>5, <3>1
  <2>4. ASSUME \/ StartExecution(k) \/ DeclineClaim(k) \/ LeaveWithoutHandoff(k)
               \/ Drain(k) \/ PrepareHandoff(k)
               \/ \E c \in Channels : Emit(k, c)
               \/ \E c \in Channels, n \in Seqs :
                     EnsureReservation(k, c, n) \/ PersistRow(k, c, n)
        PROVE  NoNonceGiven
    <3>1. UNCHANGED job
      BY <2>4, Zenon
         DEF StartExecution, DeclineClaim, LeaveWithoutHandoff, Drain, PrepareHandoff,
             Emit, EnsureReservation, PersistRow
    <3> QED
      BY <3>1 DEF NoNonceGiven
  <2> QED
    BY <1>6, <2>1, <2>2, <2>3, <2>4 DEF RunnerStep
<1>7. ASSUME NEW j \in Jobs, NEW st \in Intents, RequestTerminal(j, st)
      PROVE  NoNonceGiven
  <2>1. job[j] \in JobRow
    BY <1>1
  <2>2. [job[j] EXCEPT !.status = "finalizing",
                       !.intent = IF @ = NoIntent THEN st ELSE @].claim = job[j].claim
    BY <2>1 DEF JobRow
  <2>3. Ended(job[j], st).claim = NoClaim
    BY <1>5, <2>1
  <2> QED
    BY <1>3, <1>7, <2>2, <2>3 DEF RequestTerminal, EndUnclaimed, HoldIntent, EndReady
<1>8. ASSUME NEW j \in Jobs, Recover(j)
      PROVE  NoNonceGiven
  <2>1. snap[j].row \in JobRow
    BY <1>1, <1>8 DEF Recover
  <2>2. PICK row \in Recovered(snap[j].row) : WriteJob(j, row)
    BY <1>8 DEF Recover
  <2>3. row.claim = NoClaim
    <3> DEFINE old == snap[j].row
    <3>1. CASE old.intent # NoIntent
      BY <1>5, <2>1, <2>2, <3>1 DEF Recovered
    <3>2. CASE row \in Requeued(old) \/ row \in Resumed(old)
      <4> DEFINE u == Unleased(old)
      <4>1. u \in JobRow /\ u.claim = NoClaim
        BY <1>4, <2>1
      <4>2. \/ row = [u EXCEPT !.status = "queued", !.retries = @ + 1]
            \/ row = [u EXCEPT !.status = "queued", !.availableAt = FALSE]
        BY <3>2 DEF Requeued, Resumed
      <4> HIDE DEF u
      <4> QED
        BY <4>1, <4>2 DEF JobRow
    <3>3. CASE row \in Failed(old)
      BY <2>1, <3>3 DEF Failed, JobRow
    <3> QED
      BY <2>2, <3>1, <3>2, <3>3 DEF Recovered
  <2> QED
    BY <1>3, <2>2, <2>3
<1> QED
  BY <1>2, <1>6, <1>7, <1>8 DEF Next, ControlStep, SweepSelect, vars

LEMMA RangesUntouched ==
    ASSUME RangeInv, TypeInv', NoNonceGiven,
           \A k \in Claims : /\ rcpt'[k].job = rcpt[k].job
                             /\ rcpt'[k].start = rcpt[k].start
                             /\ rcpt'[k].end = rcpt[k].end
                             /\ rcpt'[k].state = "none" <=> rcpt[k].state = "none"
    PROVE  RangeInv'
<1> USE DEF RangeInv
<1>1. RangesAreRanges'
  BY DEF RangesAreRanges, Used
<1>2. HolderIsLast'
  <2>1. \A k \in Claims : Used(k) /\ job'[JobOf(k)].claim = k => job[JobOf(k)].claim = k
    BY AbsentAssumption DEF NoNonceGiven, TypeInv, ReceiptsNameJobs
  <2> QED
    BY <2>1 DEF HolderIsLast, SameJob, Before, Used, JobOf
<1>3. ReservationsDisjoint'
  BY DEF ReservationsDisjoint, Used, JobOf
<1> QED
  BY <1>1, <1>2, <1>3

LEMMA StateKeepsRanges ==
    ASSUME RangeInv, TypeInv', NoNonceGiven, NEW k \in Claims, Used(k),
           NEW state \in {"released", "terminal", "crashed"}, SetReceiptState(k, state)
    PROVE  RangeInv'
<1>1. rcpt \in [Claims -> Receipt]
  BY DEF RangeInv, TypeInv, TypeOK
<1>2. \A l \in Claims : /\ rcpt'[l].job = rcpt[l].job
                        /\ rcpt'[l].start = rcpt[l].start
                        /\ rcpt'[l].end = rcpt[l].end
                        /\ rcpt'[l].state = "none" <=> rcpt[l].state = "none"
  BY <1>1 DEF SetReceiptState, Used, Receipt
<1> QED
  BY <1>2, RangesUntouched

LEMMA EnsureKeepsRanges ==
    ASSUME RangeInv, TypeInv', NEW k \in Claims, NEW c \in Channels, NEW n \in Seqs,
           EnsureReservation(k, c, n)
    PROVE  RangeInv'
<1> DEFINE grown == ReservationEnd(rcpt[k].end[c], n)
<1>1. /\ rcpt \in [Claims -> Receipt] /\ rcpt[k] \in Receipt
      /\ rcpt' \in [Claims -> Receipt]
  BY DEF RangeInv, TypeInv, TypeOK
<1>2. rcpt[k].end[c] <= grown /\ grown \in 0 .. MaxSeq
  <2>1. rcpt[k].end[c] \in 0 .. MaxSeq /\ n \in 0 .. MaxSeq
    BY <1>1, MaxSeqAssumption DEF Receipt, Seqs
  <2> QED
    BY <2>1, ReservationCovers
<1>3. /\ rcpt' = [rcpt EXCEPT ![k].end[c] = grown] /\ Used(k)
      /\ job[JobOf(k)].claim = k /\ UNCHANGED job
  BY DEF EnsureReservation, IsCurrent
<1> HIDE DEF grown
<1>4. /\ \A l \in Claims : /\ rcpt'[l].job = rcpt[l].job
                           /\ rcpt'[l].start = rcpt[l].start
                           /\ rcpt'[l].state = rcpt[l].state
                           /\ l # k => rcpt'[l] = rcpt[l]
      /\ \A d \in Channels : rcpt[k].end[d] <= rcpt'[k].end[d]
  BY <1>1, <1>2, <1>3, MaxSeqAssumption DEF Receipt
<1>5. \A l \in Claims, d \in Channels : /\ rcpt[l].start[d] \in Int /\ rcpt[l].end[d] \in Int
                                        /\ rcpt'[l].end[d] \in Int
  BY <1>1, MaxSeqAssumption DEF Receipt
<1>6. RangesAreRanges'
  BY <1>4, <1>5 DEF RangeInv, RangesAreRanges, Used
<1>7. \A l \in Claims : job[JobOf(l)].claim = l /\ SameJob(l, k) => FALSE
  BY <1>3 DEF SameJob
<1>8. HolderIsLast'
  <2> SUFFICES ASSUME NEW l \in Claims, NEW m \in Claims, job[JobOf(l)].claim = l,
                      SameJob(l, m), NEW d \in Channels
               PROVE  rcpt'[m].end[d] < rcpt[l].start[d]
    BY <1>3, <1>4 DEF HolderIsLast, SameJob, Before, Used, JobOf
  <2>1. m # k
    BY <1>7
  <2> QED
    BY <1>4, <2>1 DEF RangeInv, HolderIsLast, Before
<1>9. ReservationsDisjoint'
  <2> SUFFICES ASSUME NEW l \in Claims, NEW m \in Claims, NEW d \in Channels, SameJob(l, m)
               PROVE  \/ rcpt'[l].end[d] < rcpt[m].start[d]
                      \/ rcpt'[m].end[d] < rcpt[l].start[d]
    BY <1>4 DEF ReservationsDisjoint, SameJob, Used, JobOf
  <2>1. CASE l = k \/ m = k
    <3>1. \A o \in Claims : SameJob(k, o) => rcpt[o].end[d] < rcpt[k].start[d]
      BY <1>3 DEF RangeInv, HolderIsLast, Before
    <3> QED
      BY <1>4, <2>1, <3>1 DEF SameJob
  <2>2. CASE l # k /\ m # k
    BY <1>4, <2>2 DEF RangeInv, ReservationsDisjoint, SameJob
  <2> QED
    BY <2>1, <2>2
<1> QED
  BY <1>6, <1>8, <1>9 DEF RangeInv

LEMMA ClaimKeepsRanges ==
    ASSUME RangeInv, TypeInv', NEW j \in Jobs, NEW k \in Claims, NEW w \in Workers,
           ClaimJob(j, k, w)
    PROVE  RangeInv'
<1>1. PICK base \in [Channels -> 0 .. MaxSeq] :
        IsBase(j, base) /\ rcpt' = [rcpt EXCEPT ![k] = NewReceipt(j, w, base)]
  BY DEF ClaimJob
<1>2. /\ rcpt \in [Claims -> Receipt] /\ ~ Used(k)
      /\ job'[j].claim = k /\ \A i \in Jobs \ {j} : job'[i] = job[i]
  BY DEF ClaimJob, WriteJob, RangeInv, TypeInv, TypeOK, JobRow
<1>3. /\ rcpt'[k].state = "active" /\ rcpt'[k].job = j
      /\ rcpt'[k].start = [c \in Channels |-> base[c] + 1]
      /\ rcpt'[k].end = [c \in Channels |-> ReservationEnd(base[c], base[c] + 1)]
      /\ \A l \in Claims \ {k} : rcpt'[l] = rcpt[l]
  BY <1>1, <1>2 DEF NewReceipt
<1>4. ASSUME NEW c \in Channels
      PROVE  rcpt'[k].start[c] = base[c] + 1 /\ 1 <= base[c] + 1 /\ base[c] + 1 <= rcpt'[k].end[c]
  <2>1. base[c] \in 0 .. MaxSeq /\ base[c] + 1 \in 0 .. MaxSeq
    BY <1>1, MaxSeqAssumption DEF IsBase
  <2>2. base[c] + 1 <= ReservationEnd(base[c], base[c] + 1)
    BY <2>1, ReservationCovers
  <2> QED
    BY <1>3, <2>1, <2>2
<1>5. ASSUME NEW l \in Claims \ {k}, Used(l), JobOf(l) = j, NEW c \in Channels
      PROVE  rcpt'[l].end[c] < rcpt'[k].start[c]
  <2>1. rcpt[l].end[c] \in Floors(j, c)
    BY <1>5 DEF Floors
  <2>2. rcpt[l].end[c] <= base[c]
    BY <1>1, <2>1 DEF IsBase
  <2>3. rcpt[l].end[c] \in Int /\ base[c] \in Int
    BY <1>1, <1>2, MaxSeqAssumption DEF Receipt
  <2> QED
    BY <1>3, <1>4, <2>2, <2>3
<1>6. \A l \in Claims \ {k} : Used(l) /\ job'[JobOf(l)].claim = l =>
        JobOf(l) # j /\ job[JobOf(l)].claim = l
  BY <1>2 DEF RangeInv, TypeInv, ReceiptsNameJobs
<1>7. RangesAreRanges'
  BY <1>3, <1>4 DEF RangeInv, RangesAreRanges, Used
<1>8. HolderIsLast'
  <2> SUFFICES ASSUME NEW l \in Claims, NEW m \in Claims, job'[rcpt'[l].job].claim = l,
                      SameJob(l, m)', NEW c \in Channels
               PROVE  rcpt'[m].end[c] < rcpt'[l].start[c]
    BY DEF HolderIsLast, Before, JobOf
  <2>1. CASE l = k
    BY <1>3, <1>5, <2>1 DEF SameJob, Used, JobOf
  <2>2. CASE l # k /\ m = k
    BY <1>3, <1>6, <2>2 DEF SameJob, Used, JobOf
  <2>3. CASE l # k /\ m # k
    BY <1>3, <1>6, <2>3 DEF RangeInv, HolderIsLast, Before, SameJob, Used, JobOf
  <2> QED
    BY <2>1, <2>2, <2>3
<1>9. ReservationsDisjoint'
  <2> SUFFICES ASSUME NEW l \in Claims, NEW m \in Claims, NEW c \in Channels, SameJob(l, m)'
               PROVE  \/ rcpt'[l].end[c] < rcpt'[m].start[c]
                      \/ rcpt'[m].end[c] < rcpt'[l].start[c]
    BY DEF ReservationsDisjoint, SameJob, Used, JobOf
  <2>1. CASE l = k \/ m = k
    BY <1>3, <1>5, <2>1 DEF SameJob, Used, JobOf
  <2>2. CASE l # k /\ m # k
    BY <1>3, <2>2 DEF RangeInv, ReservationsDisjoint, SameJob, Used, JobOf
  <2> QED
    BY <2>1, <2>2
<1> QED
  BY <1>7, <1>8, <1>9 DEF RangeInv

LEMMA StepRange == RangeInv /\ [Next]_vars => RangeInv'
<1> SUFFICES ASSUME RangeInv, [Next]_vars PROVE RangeInv'
  OBVIOUS
<1>0. TypeInv' /\ rcpt \in [Claims -> Receipt] /\ job \in [Jobs -> JobRow]
  BY StepType DEF RangeInv, TypeInv, TypeOK
<1>1. CASE \E j \in Jobs, k \in Claims, w \in Workers : ClaimJob(j, k, w)
  BY <1>0, <1>1, ClaimKeepsRanges
<1> SUFFICES ASSUME NoNonceGiven PROVE RangeInv'
  BY <1>1, NonceFromClaim DEF RangeInv
<1>2. CASE UNCHANGED rcpt
  BY <1>0, <1>2, RangesUntouched
<1>3. ASSUME NEW k \in Claims, NEW c \in Channels, NEW s \in Seqs, PersistRow(k, c, s)
      PROVE  RangeInv'
  <2>1. \A l \in Claims : /\ rcpt'[l].job = rcpt[l].job /\ rcpt'[l].state = rcpt[l].state
                          /\ rcpt'[l].start = rcpt[l].start /\ rcpt'[l].end = rcpt[l].end
    BY <1>0, <1>3 DEF PersistRow, Receipt
  <2> QED
    BY <1>0, <2>1, RangesUntouched
<1>4. ASSUME NEW k \in Claims, PrepareHandoff(k)
      PROVE  RangeInv'
  <2>1. PICK st \in {"ready", "draining"} :
          rcpt' = [rcpt EXCEPT ![k].state = st, ![k].mark = runner[k].sent]
    BY <1>4 DEF PrepareHandoff
  <2>2. rcpt[k].state \in LiveStates /\ rcpt[k].state # "none" /\ st # "none"
    BY <1>4 DEF PrepareHandoff, LiveStates
  <2>3. \A l \in Claims : /\ rcpt'[l].job = rcpt[l].job
                          /\ rcpt'[l].start = rcpt[l].start /\ rcpt'[l].end = rcpt[l].end
                          /\ rcpt'[l].state = "none" <=> rcpt[l].state = "none"
    BY <1>0, <2>1, <2>2 DEF Receipt
  <2> QED
    BY <1>0, <2>3, RangesUntouched
<1>5. ASSUME NEW k \in Claims,
             \/ \E st \in {"queued", "paused"}, at \in BOOLEAN, n \in {0, 1} :
                   Release(k, st, at, n)
             \/ \E st \in TerminalStatuses : Finish(k, st)
      PROVE  RangeInv'
  BY <1>0, <1>5, StateKeepsRanges DEF Release, Finish, IsCurrent
<1>6. ASSUME NEW j \in Jobs, (\E st \in Intents : EndReady(j, st)) \/ Recover(j)
      PROVE  RangeInv'
  <2>1. CASE UNCHANGED rcpt
    BY <1>2, <2>1
  <2>2. ASSUME NEW k, k # NoClaim, k = job[j].claim \/ (k = snap[j].row.claim /\ Recover(j)),
               rcpt[k].state \in LiveStates,
               SetReceiptState(k, "terminal") \/ SetReceiptState(k, "crashed")
        PROVE  RangeInv'
    <3>1. snap[j].row \in JobRow \/ ~ Recover(j)
      BY DEF Recover, RangeInv, TypeInv, TypeOK
    <3>2. k \in Claims /\ Used(k)
      BY <1>0, <2>2, <3>1 DEF JobRow, Used, LiveStates
    <3> QED
      BY <1>0, <2>2, <3>2, StateKeepsRanges
  <2> QED
    BY <1>6, <2>1, <2>2 DEF EndReady, Recover, LiveStates
<1> QED
  BY <1>0, <1>2, <1>3, <1>4, <1>5, <1>6, <1>1, EnsureKeepsRanges
     DEF Next, RunnerStep, ControlStep, RequestTerminal, StartExecution, DeclineClaim,
         LeaveWithoutHandoff, Drain, Emit, ReportProgress, EndUnclaimed, HoldIntent,
         SweepSelect, vars

LEMMA RangeInvariant == Spec => []RangeInv
BY InitRange, StepRange, PTL DEF Spec

(* No sequence number of a job is reserved by two claims, whatever claims,  *)
(* extensions, crashes and late rows preceded.                              *)
THEOREM ReservationsAreDisjoint == Spec => []ReservationsDisjoint
<1>1. RangeInv => ReservationsDisjoint
  BY DEF RangeInv
<1> QED
  BY RangeInvariant, <1>1, PTL

----------------------------------------------------------------------------
(* Rows, counters and marks                                                *)

Written(k, c) == {s \in Seqs : rows[JobOf(k)][c][s] = k}

\* A row written under a claim is a row of its job, with a number the claim
\* reserved and its runner emitted.
RowsAreOwn ==
    \A k \in Claims, j \in Jobs, c \in Channels, s \in Seqs : rows[j][c][s] = k =>
        /\ Used(k) /\ JobOf(k) = j
        /\ s \in rcpt[k].start[c] .. runner[k].sent[c]

\* A mark is declared after the last event, and no event follows it.
MarkIsLast ==
    \A k \in Claims : rcpt[k].state \in {"draining", "ready", "released", "terminal"} =>
        runner[k].phase \in {"drained", "done"} /\ rcpt[k].mark = runner[k].sent

HandoffInv == RangeInv /\ RowsAreOwn /\ CountsAreExact /\ MarkIsLast /\ HandedOverComplete

LEMMA WrittenFinite ==
    ASSUME NEW k, NEW c
    PROVE  IsFiniteSet(Written(k, c))
<1>1. IsFiniteSet(1 .. MaxSeq)
  BY FS_Interval, MaxSeqAssumption
<1>2. Written(k, c) \in SUBSET (1 .. MaxSeq)
  BY DEF Written, Seqs
<1> QED
  BY <1>1, <1>2, FS_Subset

LEMMA InitHandoff == Init => HandoffInv
<1> SUFFICES ASSUME Init PROVE HandoffInv
  OBVIOUS
<1>1. \A k \in Claims : ~ Used(k) /\ rcpt[k].state = "none"
  BY DEF Init, Used
<1>2. \A j \in Jobs, c \in Channels, s \in Seqs : rows[j][c][s] \notin Claims
  BY AbsentAssumption DEF Init
<1> QED
  BY <1>1, <1>2, InitRange
     DEF HandoffInv, RowsAreOwn, CountsAreExact, MarkIsLast, HandedOverComplete

(* A step that writes no row, emits nothing and declares no mark.           *)
LEMMA HandoffUntouched ==
    ASSUME HandoffInv, RangeInv', UNCHANGED rows,
           \A k \in Claims :
               /\ rcpt'[k].job = rcpt[k].job /\ rcpt'[k].start = rcpt[k].start
               /\ rcpt'[k].inserted = rcpt[k].inserted
               /\ rcpt'[k].state = "none" <=> rcpt[k].state = "none"
               /\ runner'[k].sent = runner[k].sent
               /\ runner'[k].phase = runner[k].phase \/ runner'[k].phase \in {"drained", "done"}
                    \/ runner[k].phase \notin {"drained", "done"}
               /\ \/ rcpt'[k].state = rcpt[k].state /\ rcpt'[k].mark = rcpt[k].mark
                  \/ rcpt'[k].state = "crashed"
                  \/ /\ rcpt[k].state = "ready" /\ rcpt'[k].mark = rcpt[k].mark
                     /\ rcpt'[k].state \in {"released", "terminal"}
    PROVE  HandoffInv'
<1> USE DEF HandoffInv
<1>1. RowsAreOwn'
  BY DEF RowsAreOwn, Used, JobOf
<1>2. CountsAreExact'
  BY DEF CountsAreExact, Used, JobOf
<1>3. MarkIsLast'
  BY DEF MarkIsLast
<1>4. HandedOverComplete'
  BY DEF HandedOverComplete, JobOf
<1> QED
  BY <1>1, <1>2, <1>3, <1>4

LEMMA PersistKeepsHandoff ==
    ASSUME HandoffInv, RangeInv', NEW k \in Claims, NEW c \in Channels, NEW s \in Seqs,
           PersistRow(k, c, s)
    PROVE  HandoffInv'
<1> DEFINE j == JobOf(k)
<1>1. /\ rcpt \in [Claims -> Receipt] /\ j \in Jobs /\ Used(k)
      /\ rows \in [Jobs -> [Channels -> [Seqs -> Writers]]]
      /\ runner \in [Claims -> Runner]
  BY DEF PersistRow, HandoffInv, RangeInv, TypeInv, TypeOK, ReceiptsNameJobs
<1>2. /\ rows[j][c][s] = Empty
      /\ rows' = [rows EXCEPT ![j][c][s] = k]
      /\ rcpt' = [rcpt EXCEPT ![k].inserted[c] = @ + 1]
      /\ UNCHANGED runner
  BY DEF PersistRow, Inserts
<1>3. k # Empty /\ \A l \in Claims : l # Empty
  BY AbsentAssumption
<1>4. \A i \in Jobs, d \in Channels, t \in Seqs :
        rows'[i][d][t] = IF i = j /\ d = c /\ t = s THEN k ELSE rows[i][d][t]
  BY <1>1, <1>2
<1>5. \A l \in Claims : /\ rcpt'[l].job = rcpt[l].job /\ rcpt'[l].start = rcpt[l].start
                        /\ rcpt'[l].state = rcpt[l].state /\ rcpt'[l].mark = rcpt[l].mark
                        /\ \A d \in Channels : rcpt'[l].inserted[d] =
                             IF l = k /\ d = c THEN rcpt[k].inserted[c] + 1 ELSE rcpt[l].inserted[d]
  BY <1>1, <1>2 DEF Receipt
<1>6. s \in rcpt[k].start[c] .. runner[k].sent[c]
  <2>1. s \in rcpt[k].start[c] .. rcpt[k].end[c] /\ s <= runner[k].sent[c]
    BY DEF PersistRow, Authorized, SequenceAuthorized
  <2>2. /\ rcpt[k].start[c] \in Int /\ rcpt[k].end[c] \in Int /\ runner[k].sent[c] \in Int
        /\ s \in Int
    BY <1>1, MaxSeqAssumption DEF Receipt, Runner, Seqs
  <2> QED
    BY <2>1, <2>2
<1>7. RowsAreOwn'
  <2> SUFFICES ASSUME NEW i \in Jobs, NEW d \in Channels, NEW t \in Seqs, NEW l \in Claims,
                      rows'[i][d][t] = l
               PROVE  /\ Used(l)' /\ rcpt[l].job = i
                      /\ t \in rcpt[l].start[d] .. runner[l].sent[d]
    <3>1. \A l \in Claims : rcpt'[l].job = rcpt[l].job /\ rcpt'[l].start = rcpt[l].start
      BY <1>5
    <3>2. UNCHANGED runner
      BY <1>2
    <3> QED
      BY <3>1, <3>2 DEF RowsAreOwn, JobOf
  <2>1. CASE i = j /\ d = c /\ t = s
    <3>1. l = k
      BY <1>4, <2>1
    <3> QED
      BY <1>1, <1>5, <1>6, <2>1, <3>1 DEF Used, JobOf
  <2>2. CASE ~ (i = j /\ d = c /\ t = s)
    <3>1. rows[i][d][t] = l
      BY <1>4, <2>2
    <3> QED
      BY <1>5, <3>1 DEF HandoffInv, RowsAreOwn, Used, JobOf
  <2> QED
    BY <2>1, <2>2
<1>8. CountsAreExact'
  <2> SUFFICES ASSUME NEW l \in Claims, NEW d \in Channels, Used(l)
               PROVE  rcpt'[l].inserted[d] =
                        Cardinality({t \in Seqs : rows'[rcpt[l].job][d][t] = l})
    BY <1>5 DEF CountsAreExact, Used, JobOf
  <2>1. JobOf(l) \in Jobs /\ rcpt[l].inserted[d] = Cardinality(Written(l, d))
    BY DEF HandoffInv, RangeInv, TypeInv, ReceiptsNameJobs, CountsAreExact, Written
  <2>2. CASE l = k /\ d = c
    <3>1. {t \in Seqs : rows'[rcpt[l].job][d][t] = l} = Written(k, c) \cup {s}
      <4>1. \A t \in Seqs : rows'[j][c][t] = k <=> t = s \/ rows[j][c][t] = k
        BY <1>1, <1>4
      <4> QED
        BY <2>2, <4>1 DEF Written, JobOf
    <3>2. s \notin Written(k, c)
      BY <1>2, <1>3 DEF Written
    <3>3. Cardinality(Written(k, c) \cup {s}) = Cardinality(Written(k, c)) + 1
      BY <3>2, WrittenFinite, FS_AddElement
    <3> QED
      BY <1>5, <2>1, <2>2, <3>1, <3>3
  <2>3. CASE ~ (l = k /\ d = c)
    <3>1. \A t \in Seqs : rows'[JobOf(l)][d][t] = l <=> rows[JobOf(l)][d][t] = l
      <4>1. ASSUME NEW t \in Seqs, JobOf(l) = j, d = c, t = s
            PROVE  rows'[JobOf(l)][d][t] # l /\ rows[JobOf(l)][d][t] # l
        <5>1. rows'[JobOf(l)][d][t] = k /\ rows[JobOf(l)][d][t] = Empty
          BY <1>1, <1>2, <1>4, <4>1
        <5> QED
          BY <1>3, <2>3, <4>1, <5>1
      <4>2. ASSUME NEW t \in Seqs, ~ (JobOf(l) = j /\ d = c /\ t = s)
            PROVE  rows'[JobOf(l)][d][t] = rows[JobOf(l)][d][t]
        <5> HIDE DEF j
        <5> QED
          BY <1>4, <2>1, <4>2
      <4> QED
        BY <4>1, <4>2
    <3>2. {t \in Seqs : rows'[rcpt[l].job][d][t] = l} = Written(l, d)
      BY <3>1 DEF Written, JobOf
    <3> QED
      BY <1>5, <2>1, <2>3, <3>2
  <2> QED
    BY <2>2, <2>3
<1>9. MarkIsLast'
  BY <1>2, <1>5 DEF HandoffInv, MarkIsLast
<1>10. HandedOverComplete'
  <2>0. \A l \in Claims : /\ rcpt'[l].state = rcpt[l].state /\ rcpt'[l].mark = rcpt[l].mark
                           /\ rcpt'[l].start = rcpt[l].start /\ rcpt'[l].job = rcpt[l].job
                           /\ runner'[l] = runner[l]
    BY <1>2, <1>5
  <2> SUFFICES ASSUME NEW l \in Claims, NEW d \in Channels,
                      rcpt[l].state \in {"ready", "released", "terminal"}
               PROVE  /\ rcpt[l].mark[d] = runner[l].sent[d]
                      /\ \A t \in rcpt[l].start[d] .. runner[l].sent[d] :
                            rows'[rcpt[l].job][d][t] = l
    BY <2>0 DEF HandedOverComplete, JobOf
  <2>1. rcpt[l].job \in Jobs
    BY DEF HandoffInv, RangeInv, TypeInv, ReceiptsNameJobs, Used, JobOf
  <2>2. /\ rcpt[l].mark[d] = runner[l].sent[d]
        /\ \A t \in rcpt[l].start[d] .. runner[l].sent[d] : rows[rcpt[l].job][d][t] = l
    BY DEF HandoffInv, HandedOverComplete, JobOf
  <2>3. \A t \in rcpt[l].start[d] .. runner[l].sent[d] : t \in Seqs
    <3>1. 1 <= rcpt[l].start[d]
      BY DEF HandoffInv, RangeInv, RangesAreRanges, Used
    <3>2. rcpt[l].start[d] \in Int /\ runner[l].sent[d] \in 0 .. MaxSeq
      BY <1>1, MaxSeqAssumption DEF Receipt, Runner
    <3> QED
      BY <3>1, <3>2, MaxSeqAssumption DEF Seqs
  <2> QED
    BY <1>2, <1>3, <1>4, <2>1, <2>2, <2>3
<1> QED
  BY <1>7, <1>8, <1>9, <1>10 DEF HandoffInv

LEMMA PrepareKeepsHandoff ==
    ASSUME HandoffInv, RangeInv', NEW k \in Claims, PrepareHandoff(k)
    PROVE  HandoffInv'
<1> DEFINE expected == [c \in Channels |->
                          ExpectedInsertedCount(rcpt[k].start[c], runner[k].sent[c])]
           st == IF HandoffComplete(k, expected) THEN "ready" ELSE "draining"
<1>1. /\ rcpt \in [Claims -> Receipt] /\ runner \in [Claims -> Runner]
      /\ rcpt[k] \in Receipt /\ Used(k)
  BY DEF PrepareHandoff, IsCurrent, HandoffInv, RangeInv, TypeInv, TypeOK
<1>2. /\ rcpt' = [rcpt EXCEPT ![k].state = st, ![k].mark = runner[k].sent]
      /\ UNCHANGED <<rows, runner>> /\ runner[k].phase = "drained"
      /\ \A c \in Channels : runner[k].sent[c] \in rcpt[k].start[c] - 1 .. rcpt[k].end[c]
  BY DEF PrepareHandoff
<1>3. st \in {"ready", "draining"} /\ (st = "ready" => HandoffComplete(k, expected))
  OBVIOUS
<1> HIDE DEF st
<1>4. /\ rcpt'[k].state = st /\ rcpt'[k].mark = runner[k].sent
      /\ \A l \in Claims : /\ rcpt'[l].job = rcpt[l].job /\ rcpt'[l].start = rcpt[l].start
                           /\ rcpt'[l].inserted = rcpt[l].inserted
                           /\ l # k => rcpt'[l] = rcpt[l]
  BY <1>1, <1>2 DEF Receipt
<1>5. RowsAreOwn' /\ CountsAreExact'
  <2>1. \A l \in Claims : rcpt'[l].state = "none" <=> rcpt[l].state = "none"
    BY <1>1, <1>3, <1>4 DEF Used
  <2>2. RowsAreOwn /\ CountsAreExact /\ UNCHANGED <<rows, runner>>
    BY <1>2 DEF HandoffInv
  <2>3. \A l \in Claims : /\ rcpt'[l].job = rcpt[l].job /\ rcpt'[l].start = rcpt[l].start
                          /\ rcpt'[l].inserted = rcpt[l].inserted
    BY <1>4
  <2>4. RowsAreOwn'
    BY <2>1, <2>2, <2>3 DEF RowsAreOwn, Used, JobOf
  <2>5. CountsAreExact'
    BY <2>1, <2>2, <2>3 DEF CountsAreExact, Used, JobOf
  <2> QED
    BY <2>4, <2>5
<1>6. MarkIsLast'
  BY <1>2, <1>4 DEF HandoffInv, MarkIsLast
<1>7. ASSUME NEW c \in Channels, st = "ready", NEW t \in rcpt[k].start[c] .. runner[k].sent[c]
      PROVE  rows[JobOf(k)][c][t] = k
  <2> DEFINE a == rcpt[k].start[c]
             b == runner[k].sent[c]
  <2>1. a \in Int /\ b \in Int /\ b >= a - 1
    BY <1>1, <1>2, MaxSeqAssumption DEF Receipt, Runner
  <2>2. rcpt[k].inserted[c] = b - a + 1
    BY <1>3, <1>7, <2>1 DEF HandoffComplete, ExpectedInsertedCount
  <2>3. Cardinality(a .. b) = b - a + 1 /\ IsFiniteSet(a .. b)
    <3> HIDE DEF a, b
    <3>1. IsFiniteSet(a .. b)
          /\ Cardinality(a .. b) = IF a > b THEN 0 ELSE b - a + 1
      BY <2>1, FS_Interval
    <3> QED
      BY <2>1, <3>1
  <2>4. JobOf(k) \in Jobs /\ Cardinality(Written(k, c)) = rcpt[k].inserted[c]
    BY <1>1
       DEF HandoffInv, RangeInv, TypeInv, ReceiptsNameJobs, CountsAreExact, Written
  <2>5. Written(k, c) \in SUBSET (a .. b)
    BY <2>4 DEF Written, HandoffInv, RowsAreOwn
  <2> HIDE DEF a, b
  <2>6. Written(k, c) = a .. b
    BY <2>2, <2>3, <2>4, <2>5, FS_Subset
  <2>7. t \in a .. b
    BY <1>7 DEF a, b
  <2> QED
    BY <2>6, <2>7 DEF Written
<1>8. HandedOverComplete'
  <2> SUFFICES ASSUME NEW l \in Claims, NEW c \in Channels,
                      rcpt'[l].state \in {"ready", "released", "terminal"}
               PROVE  /\ rcpt'[l].mark[c] = runner'[l].sent[c]
                      /\ \A t \in rcpt'[l].start[c] .. runner'[l].sent[c] :
                            rows'[rcpt'[l].job][c][t] = l
    BY DEF HandedOverComplete, JobOf
  <2>1. /\ rcpt'[l].start[c] = rcpt[l].start[c] /\ rcpt'[l].job = rcpt[l].job
        /\ runner'[l].sent[c] = runner[l].sent[c] /\ rows' = rows
    BY <1>2, <1>4
  <2>2. CASE l = k
    <3>1. st = "ready"
      BY <1>3, <1>4, <2>2
    <3>2. \A t \in rcpt[k].start[c] .. runner[k].sent[c] : rows[JobOf(k)][c][t] = k
      BY <1>7, <3>1
    <3>3. rcpt'[k].mark[c] = runner[k].sent[c]
      BY <1>4
    <3> QED
      BY <2>1, <2>2, <3>2, <3>3 DEF JobOf
  <2>3. CASE l # k
    <3>1. rcpt'[l] = rcpt[l]
      BY <1>4, <2>3
    <3>2. /\ rcpt[l].mark[c] = runner[l].sent[c]
          /\ \A t \in rcpt[l].start[c] .. runner[l].sent[c] : rows[rcpt[l].job][c][t] = l
      BY <3>1 DEF HandoffInv, HandedOverComplete, JobOf
    <3> QED
      BY <2>1, <3>1, <3>2
  <2> QED
    BY <2>2, <2>3
<1> QED
  BY <1>5, <1>6, <1>8 DEF HandoffInv

LEMMA ClaimKeepsHandoff ==
    ASSUME HandoffInv, RangeInv', NEW j \in Jobs, NEW k \in Claims, NEW w \in Workers,
           ClaimJob(j, k, w)
    PROVE  HandoffInv'
<1>1. PICK base : /\ rcpt' = [rcpt EXCEPT ![k] = NewReceipt(j, w, base)]
                  /\ runner' = [runner EXCEPT ![k] = [phase |-> "offered", sent |-> base]]
  BY DEF ClaimJob
<1>2. /\ rcpt \in [Claims -> Receipt] /\ runner \in [Claims -> Runner]
      /\ ~ Used(k) /\ UNCHANGED rows
  BY DEF ClaimJob, HandoffInv, RangeInv, TypeInv, TypeOK
<1>3. /\ rcpt'[k].state = "active" /\ rcpt'[k].job = j
      /\ rcpt'[k].inserted = [c \in Channels |-> 0]
      /\ \A l \in Claims \ {k} : rcpt'[l] = rcpt[l] /\ runner'[l] = runner[l]
  BY <1>1, <1>2 DEF NewReceipt
<1>4. \A i \in Jobs, c \in Channels, s \in Seqs : rows[i][c][s] # k
  BY <1>2 DEF HandoffInv, RowsAreOwn
<1>5. RowsAreOwn'
  BY <1>2, <1>3, <1>4 DEF HandoffInv, RowsAreOwn, Used, JobOf
<1>6. CountsAreExact'
  <2>1. ASSUME NEW c \in Channels
        PROVE  {s \in Seqs : rows[j][c][s] = k} = {}
    BY <1>4
  <2>2. \A c \in Channels : rcpt'[k].inserted[c] = Cardinality({s \in Seqs : rows[j][c][s] = k})
    BY <1>3, <2>1, FS_EmptySet
  <2>3. \A l \in Claims \ {k}, c \in Channels : Used(l) =>
          rcpt[l].inserted[c] = Cardinality({s \in Seqs : rows[rcpt[l].job][c][s] = l})
    BY DEF HandoffInv, CountsAreExact, JobOf
  <2> QED
    BY <1>2, <1>3, <2>2, <2>3 DEF CountsAreExact, Used, JobOf
<1>7. MarkIsLast' /\ HandedOverComplete'
  BY <1>2, <1>3 DEF HandoffInv, MarkIsLast, HandedOverComplete, JobOf
<1> QED
  BY <1>5, <1>6, <1>7 DEF HandoffInv

LEMMA StepHandoff == HandoffInv /\ [Next]_vars => HandoffInv'
<1> SUFFICES ASSUME HandoffInv, [Next]_vars PROVE HandoffInv'
  OBVIOUS
<1>0. /\ RangeInv' /\ rcpt \in [Claims -> Receipt] /\ job \in [Jobs -> JobRow]
      /\ runner \in [Claims -> Runner]
  BY StepRange DEF HandoffInv, RangeInv, TypeInv, TypeOK
<1>1. CASE UNCHANGED <<rcpt, rows, runner>>
  BY <1>0, <1>1, HandoffUntouched
<1>2. ASSUME NEW k \in Claims,
             StartExecution(k) \/ DeclineClaim(k) \/ LeaveWithoutHandoff(k) \/ Drain(k)
      PROVE  HandoffInv'
  <2>1. /\ UNCHANGED <<rcpt, rows>> /\ runner[k].phase \notin {"drained", "done"}
        /\ \E ph : runner' = [runner EXCEPT ![k].phase = ph]
    BY <1>2 DEF StartExecution, DeclineClaim, LeaveWithoutHandoff, Drain, SetPhase
  <2>2. \A l \in Claims : /\ runner'[l].sent = runner[l].sent
                          /\ \/ runner'[l].phase = runner[l].phase
                             \/ runner[l].phase \notin {"drained", "done"}
    BY <1>0, <2>1 DEF Runner
  <2> QED
    BY <1>0, <2>1, <2>2, HandoffUntouched
<1>3. ASSUME NEW k \in Claims, NEW c \in Channels, NEW n \in Seqs, EnsureReservation(k, c, n)
      PROVE  HandoffInv'
  <2>1. /\ UNCHANGED <<rows, runner>>
        /\ \A l \in Claims :
             /\ rcpt'[l].job = rcpt[l].job /\ rcpt'[l].start = rcpt[l].start
             /\ rcpt'[l].inserted = rcpt[l].inserted
             /\ rcpt'[l].state = rcpt[l].state /\ rcpt'[l].mark = rcpt[l].mark
    BY <1>0, <1>3 DEF EnsureReservation, Receipt
  <2> QED
    BY <1>0, <2>1, HandoffUntouched
<1>4. ASSUME NEW k \in Claims, NEW c \in Channels, Emit(k, c)
      PROVE  HandoffInv'
  <2>1. /\ UNCHANGED <<rcpt, rows>> /\ runner[k].phase = "executing"
        /\ runner' = [runner EXCEPT ![k].sent[c] = @ + 1]
    BY <1>4 DEF Emit
  <2>2. rcpt[k].state \notin {"draining", "ready", "released", "terminal"}
    BY <2>1 DEF HandoffInv, MarkIsLast
  <2>3. /\ \A l \in Claims \ {k} : runner'[l] = runner[l]
        /\ \A d \in Channels : runner'[k].sent[d] >= runner[k].sent[d]
        /\ \A d \in Channels : runner'[k].sent[d] \in Int /\ runner[k].sent[d] \in Int
    BY <1>0, <2>1, MaxSeqAssumption DEF Runner
  <2>4. RowsAreOwn'
    <3> SUFFICES ASSUME NEW l \in Claims, NEW j \in Jobs, NEW d \in Channels, NEW s \in Seqs,
                        rows[j][d][s] = l
                 PROVE  /\ Used(l) /\ JobOf(l) = j
                        /\ s \in rcpt[l].start[d] .. runner'[l].sent[d]
      BY <2>1 DEF RowsAreOwn, Used, JobOf
    <3>1. /\ Used(l) /\ JobOf(l) = j
          /\ s \in rcpt[l].start[d] .. runner[l].sent[d]
      BY DEF HandoffInv, RowsAreOwn
    <3>2. rcpt[l].start[d] \in Int
      BY <1>0, MaxSeqAssumption DEF Receipt
    <3> QED
      BY <2>3, <3>1, <3>2 DEF Seqs
  <2>5. CountsAreExact'
    BY <2>1 DEF HandoffInv, CountsAreExact, Used, JobOf
  <2>6. MarkIsLast'
    BY <2>1, <2>2, <2>3 DEF HandoffInv, MarkIsLast
  <2>7. HandedOverComplete'
    BY <2>1, <2>2, <2>3 DEF HandoffInv, HandedOverComplete, JobOf
  <2> QED
    BY <1>0, <2>4, <2>5, <2>6, <2>7 DEF HandoffInv
<1>5. ASSUME NEW k \in Claims,
             \/ \E st \in {"queued", "paused"}, at \in BOOLEAN, n \in {0, 1} :
                   Release(k, st, at, n)
             \/ \E st \in TerminalStatuses : Finish(k, st)
      PROVE  HandoffInv'
  <2>1. /\ UNCHANGED rows /\ rcpt[k].state = "ready"
        /\ \E state \in {"released", "terminal"} : SetReceiptState(k, state)
        /\ SetPhase(k, "done")
    BY <1>5 DEF Release, Finish
  <2>2. \A l \in Claims : /\ runner'[l].sent = runner[l].sent
                          /\ runner'[l].phase = runner[l].phase \/ runner'[l].phase = "done"
    BY <1>0, <2>1 DEF SetPhase, Runner
  <2>3. \A l \in Claims :
          /\ rcpt'[l].job = rcpt[l].job /\ rcpt'[l].start = rcpt[l].start
          /\ rcpt'[l].inserted = rcpt[l].inserted /\ rcpt'[l].mark = rcpt[l].mark
          /\ \/ rcpt'[l].state = rcpt[l].state
             \/ rcpt[l].state = "ready" /\ rcpt'[l].state \in {"released", "terminal"}
    BY <1>0, <2>1 DEF SetReceiptState, Receipt
  <2> QED
    BY <1>0, <2>1, <2>2, <2>3, HandoffUntouched
<1>6. ASSUME NEW j \in Jobs, (\E st \in Intents : EndReady(j, st)) \/ Recover(j)
      PROVE  HandoffInv'
  <2>1. UNCHANGED <<rows, runner>>
    BY <1>6 DEF EndReady, Recover
  <2>2. CASE UNCHANGED rcpt
    BY <1>1, <2>1, <2>2
  <2>3. ASSUME NEW k, k # NoClaim, k = job[j].claim \/ (k = snap[j].row.claim /\ Recover(j)),
               \/ rcpt[k].state = "ready" /\ SetReceiptState(k, "terminal")
               \/ rcpt[k].state \in LiveStates /\ SetReceiptState(k, "crashed")
        PROVE  HandoffInv'
    <3>1. snap[j].row \in JobRow \/ ~ Recover(j)
      BY DEF Recover, HandoffInv, RangeInv, TypeInv, TypeOK
    <3>2. k \in Claims
      BY <1>0, <2>3, <3>1 DEF JobRow
    <3>3. PICK state \in {"terminal", "crashed"} :
            /\ rcpt' = [rcpt EXCEPT ![k].state = state]
            /\ rcpt[k].state # "none"
            /\ state = "terminal" => rcpt[k].state = "ready"
      BY <2>3 DEF SetReceiptState, LiveStates
    <3>4. \A l \in Claims :
            /\ rcpt'[l].job = rcpt[l].job /\ rcpt'[l].start = rcpt[l].start
            /\ rcpt'[l].inserted = rcpt[l].inserted /\ rcpt'[l].mark = rcpt[l].mark
            /\ rcpt'[l].state = "none" <=> rcpt[l].state = "none"
            /\ \/ rcpt'[l].state = rcpt[l].state
               \/ rcpt[l].state = "ready" /\ rcpt'[l].state = "terminal"
               \/ rcpt'[l].state = "crashed"
      BY <1>0, <3>2, <3>3 DEF Receipt
    <3> QED
      BY <1>0, <2>1, <3>4, HandoffUntouched
  <2> QED
    BY <1>6, <2>2, <2>3 DEF EndReady, Recover
<1> QED
  BY <1>0, <1>1, <1>2, <1>3, <1>4, <1>5, <1>6,
     PersistKeepsHandoff, PrepareKeepsHandoff, ClaimKeepsHandoff
     DEF Next, RunnerStep, ControlStep, RequestTerminal, ReportProgress, EndUnclaimed,
         HoldIntent, SweepSelect, vars

LEMMA HandoffInvariant == Spec => []HandoffInv
BY InitHandoff, StepHandoff, PTL DEF Spec

(* The count the handoff decides on is the number of rows the claim wrote.  *)
THEOREM ReceiptCountsAreExact == Spec => []CountsAreExact
<1>1. HandoffInv => CountsAreExact
  BY DEF HandoffInv
<1> QED
  BY HandoffInvariant, <1>1, PTL

(* A handoff that answered ready has every event of the claim in the        *)
(* database, under the claim's own numbers, and so it stays.                *)
THEOREM HandoffLosesNothing == Spec => []HandedOverComplete
<1>1. HandoffInv => HandedOverComplete
  BY DEF HandoffInv
<1> QED
  BY HandoffInvariant, <1>1, PTL

----------------------------------------------------------------------------
(* The rows under a reservation                                            *)

\* A row of an earlier run lies below every range of its job, and a row of a
\* claim lies in that claim's range.
LegacyIsBelow ==
    \A k \in Claims, c \in Channels, s \in Seqs :
        Used(k) /\ rows[JobOf(k)][c][s] = Legacy => s < rcpt[k].start[c]

RowsInRange ==
    \A k \in Claims, j \in Jobs, c \in Channels, s \in Seqs : rows[j][c][s] = k =>
        Used(k) /\ JobOf(k) = j /\ s \in rcpt[k].start[c] .. rcpt[k].end[c]

OwnInv == RangeInv /\ LegacyIsBelow /\ RowsInRange

LEMMA InitOwn == Init => OwnInv
<1> SUFFICES ASSUME Init PROVE OwnInv
  OBVIOUS
<1>1. \A k \in Claims : ~ Used(k)
  BY DEF Init, Used
<1>2. \A j \in Jobs, c \in Channels, s \in Seqs : rows[j][c][s] \notin Claims
  BY AbsentAssumption DEF Init
<1> QED
  BY <1>1, <1>2, InitRange DEF OwnInv, LegacyIsBelow, RowsInRange

(* What the step of a job or of a runner does to the receipts: their ranges *)
(* are extended at most, and none comes or goes.                            *)
RangesGrow ==
    \A k \in Claims :
        /\ rcpt'[k].job = rcpt[k].job /\ rcpt'[k].start = rcpt[k].start
        /\ rcpt'[k].state = "none" <=> rcpt[k].state = "none"
        /\ \A c \in Channels : rcpt[k].end[c] <= rcpt'[k].end[c]

LEMMA SetStateGrows ==
    ASSUME TypeInv, NEW k \in Claims, Used(k),
           NEW state \in {"ready", "draining", "released", "terminal", "crashed"},
           NEW mark, rcpt' \in [Claims -> Receipt],
           \/ SetReceiptState(k, state)
           \/ rcpt' = [rcpt EXCEPT ![k].state = state, ![k].mark = mark]
    PROVE  RangesGrow
<1>1. rcpt \in [Claims -> Receipt]
  BY DEF TypeInv, TypeOK
<1>2. \A l \in Claims : /\ rcpt'[l].job = rcpt[l].job
                        /\ rcpt'[l].start = rcpt[l].start
                        /\ rcpt'[l].end = rcpt[l].end
                        /\ rcpt'[l].state = "none" <=> rcpt[l].state = "none"
  <2>1. rcpt[k].state # "none" /\ state # "none"
    BY DEF Used
  <2>2. CASE SetReceiptState(k, state)
    BY <1>1, <2>1, <2>2 DEF SetReceiptState, Receipt
  <2>3. CASE rcpt' = [rcpt EXCEPT ![k].state = state, ![k].mark = mark]
    BY <1>1, <2>1, <2>3 DEF Receipt
  <2> QED
    BY <2>2, <2>3
<1>3. \A l \in Claims, c \in Channels : rcpt[l].end[c] \in Int
  BY <1>1, MaxSeqAssumption DEF Receipt
<1> QED
  BY <1>2, <1>3 DEF RangesGrow

LEMMA EnsureGrows ==
    ASSUME TypeInv, TypeInv', NEW k \in Claims, NEW c \in Channels, NEW n \in Seqs,
           EnsureReservation(k, c, n)
    PROVE  RangesGrow
<1> DEFINE grown == ReservationEnd(rcpt[k].end[c], n)
<1>1. /\ rcpt \in [Claims -> Receipt]
      /\ rcpt' = [rcpt EXCEPT ![k].end[c] = grown]
  BY DEF TypeInv, TypeOK, EnsureReservation
<1>2. rcpt[k].end[c] <= grown
  <2>1. rcpt[k].end[c] \in 0 .. MaxSeq /\ n \in 0 .. MaxSeq
    BY <1>1, MaxSeqAssumption DEF Receipt, Seqs
  <2> QED
    BY <2>1, ReservationCovers
<1> HIDE DEF grown
<1>3. \A l \in Claims, d \in Channels : rcpt[l].end[d] \in Int
  BY <1>1, MaxSeqAssumption DEF Receipt
<1>4. /\ \A l \in Claims : /\ rcpt'[l].job = rcpt[l].job
                           /\ rcpt'[l].start = rcpt[l].start
                           /\ rcpt'[l].state = rcpt[l].state
                           /\ l # k => rcpt'[l] = rcpt[l]
      /\ \A d \in Channels : rcpt[k].end[d] <= rcpt'[k].end[d]
  BY <1>1, <1>2, <1>3 DEF Receipt
<1> QED
  BY <1>3, <1>4 DEF RangesGrow

LEMMA OwnUntouched ==
    ASSUME OwnInv, RangeInv', RangesGrow, UNCHANGED rows
    PROVE  OwnInv'
<1>1. LegacyIsBelow'
  BY DEF OwnInv, LegacyIsBelow, RangesGrow, Used, JobOf
<1>2. RowsInRange'
  <2> SUFFICES ASSUME NEW k \in Claims, NEW j \in Jobs, NEW c \in Channels,
                      NEW s \in Seqs, rows[j][c][s] = k
               PROVE  Used(k)' /\ JobOf(k)' = j
                        /\ s \in rcpt'[k].start[c] .. rcpt'[k].end[c]
    BY DEF RowsInRange
  <2>1. Used(k) /\ JobOf(k) = j /\ s \in rcpt[k].start[c] .. rcpt[k].end[c]
    BY DEF OwnInv, RowsInRange
  <2>2. /\ rcpt[k].start[c] \in Int /\ rcpt[k].end[c] \in Int /\ rcpt'[k].end[c] \in Int
    BY MaxSeqAssumption DEF OwnInv, RangeInv, TypeInv, TypeOK, Receipt
  <2> QED
    BY <2>1, <2>2 DEF RangesGrow, Used, JobOf
<1> QED
  BY <1>1, <1>2 DEF OwnInv

LEMMA PersistKeepsOwn ==
    ASSUME OwnInv, RangeInv', NEW k \in Claims, NEW c \in Channels, NEW s \in Seqs,
           PersistRow(k, c, s)
    PROVE  OwnInv'
<1> DEFINE j == JobOf(k)
<1>1. /\ rcpt \in [Claims -> Receipt]
      /\ rows \in [Jobs -> [Channels -> [Seqs -> Writers]]] /\ j \in Jobs
  BY DEF OwnInv, RangeInv, TypeInv, TypeOK, ReceiptsNameJobs, PersistRow
<1>2. /\ rows' = [rows EXCEPT ![j][c][s] = k] /\ Used(k)
      /\ rcpt' = [rcpt EXCEPT ![k].inserted[c] = @ + 1]
      /\ s \in rcpt[k].start[c] .. rcpt[k].end[c]
  BY DEF PersistRow, Authorized, SequenceAuthorized
<1>3. \A l \in Claims : /\ rcpt'[l].job = rcpt[l].job /\ rcpt'[l].state = rcpt[l].state
                        /\ rcpt'[l].start = rcpt[l].start /\ rcpt'[l].end = rcpt[l].end
  BY <1>1, <1>2 DEF Receipt
<1>4. \A i \in Jobs, d \in Channels, n \in Seqs :
        rows'[i][d][n] = IF i = j /\ d = c /\ n = s THEN k ELSE rows[i][d][n]
  BY <1>1, <1>2
<1>5. k # Legacy
  BY AbsentAssumption
<1>6. LegacyIsBelow'
  <2> SUFFICES ASSUME NEW l \in Claims, NEW d \in Channels, NEW n \in Seqs,
                      Used(l), rows'[JobOf(l)][d][n] = Legacy
               PROVE  n < rcpt[l].start[d]
    BY <1>3 DEF LegacyIsBelow, Used, JobOf
  <2>1. JobOf(l) \in Jobs
    BY DEF OwnInv, RangeInv, TypeInv, ReceiptsNameJobs
  <2>2. rows[JobOf(l)][d][n] = Legacy
    BY <1>4, <1>5, <2>1
  <2> QED
    BY <2>2 DEF OwnInv, LegacyIsBelow
<1>7. RowsInRange'
  <2> SUFFICES ASSUME NEW l \in Claims, NEW i \in Jobs, NEW d \in Channels,
                      NEW n \in Seqs, rows'[i][d][n] = l
               PROVE  Used(l) /\ JobOf(l) = i /\ n \in rcpt[l].start[d] .. rcpt[l].end[d]
    BY <1>3 DEF RowsInRange, Used, JobOf
  <2>1. CASE i = j /\ d = c /\ n = s
    <3>1. l = k
      BY <1>4, <2>1
    <3> QED
      BY <1>2, <2>1, <3>1
  <2>2. CASE ~ (i = j /\ d = c /\ n = s)
    <3>1. rows[i][d][n] = l
      BY <1>4, <2>2
    <3> QED
      BY <3>1 DEF OwnInv, RowsInRange
  <2> QED
    BY <2>1, <2>2
<1> QED
  BY <1>6, <1>7 DEF OwnInv

(* The base of a new range clears every row of the job.                     *)
LEMMA ClaimKeepsOwn ==
    ASSUME OwnInv, RangeInv', NEW j \in Jobs, NEW k \in Claims, NEW w \in Workers,
           ClaimJob(j, k, w)
    PROVE  OwnInv'
<1>1. PICK base \in [Channels -> 0 .. MaxSeq] :
        IsBase(j, base) /\ rcpt' = [rcpt EXCEPT ![k] = NewReceipt(j, w, base)]
  BY DEF ClaimJob
<1>2. /\ rcpt \in [Claims -> Receipt] /\ ~ Used(k) /\ UNCHANGED rows
  BY DEF ClaimJob, OwnInv, RangeInv, TypeInv, TypeOK
<1>3. /\ rcpt'[k].job = j /\ rcpt'[k].start = [c \in Channels |-> base[c] + 1]
      /\ \A l \in Claims \ {k} : rcpt'[l] = rcpt[l]
  BY <1>1, <1>2 DEF NewReceipt
<1>4. LegacyIsBelow'
  <2> SUFFICES ASSUME NEW l \in Claims, NEW c \in Channels, NEW s \in Seqs, Used(l)',
                      rows[rcpt'[l].job][c][s] = Legacy
               PROVE  s < rcpt'[l].start[c]
    BY <1>2 DEF LegacyIsBelow, JobOf
  <2>1. CASE l = k
    <3>1. s \in Floors(j, c)
      BY <1>3, <2>1, AbsentAssumption DEF Floors, Legacy, Empty
    <3>2. s <= base[c]
      BY <1>1, <3>1 DEF IsBase
    <3> QED
      BY <1>1, <1>3, <2>1, <3>2, MaxSeqAssumption DEF Seqs
  <2>2. CASE l # k
    BY <1>3, <2>2 DEF OwnInv, LegacyIsBelow, Used, JobOf
  <2> QED
    BY <2>1, <2>2
<1>5. RowsInRange'
  <2> SUFFICES ASSUME NEW l \in Claims, NEW i \in Jobs, NEW c \in Channels,
                      NEW s \in Seqs, rows[i][c][s] = l
               PROVE  Used(l)' /\ JobOf(l)' = i
                        /\ s \in rcpt'[l].start[c] .. rcpt'[l].end[c]
    BY <1>2 DEF RowsInRange
  <2>1. Used(l) /\ JobOf(l) = i /\ s \in rcpt[l].start[c] .. rcpt[l].end[c]
    BY DEF OwnInv, RowsInRange
  <2>2. l # k
    BY <1>2, <2>1
  <2> QED
    BY <1>3, <2>1, <2>2 DEF Used, JobOf
<1> QED
  BY <1>4, <1>5 DEF OwnInv

LEMMA StepOwn == OwnInv /\ [Next]_vars => OwnInv'
<1> SUFFICES ASSUME OwnInv, [Next]_vars PROVE OwnInv'
  OBVIOUS
<1>0. /\ RangeInv /\ RangeInv' /\ TypeInv /\ TypeInv'
      /\ rcpt \in [Claims -> Receipt] /\ rcpt' \in [Claims -> Receipt]
      /\ job \in [Jobs -> JobRow]
  BY StepRange DEF OwnInv, RangeInv, TypeInv, TypeOK
<1>1. CASE UNCHANGED <<rcpt, rows>>
  <2>1. \A l \in Claims, c \in Channels : rcpt[l].end[c] \in Int
    BY <1>0, MaxSeqAssumption DEF Receipt
  <2>2. RangesGrow
    BY <1>1, <2>1 DEF RangesGrow
  <2> QED
    BY <1>0, <1>1, <2>2, OwnUntouched
<1>2. ASSUME NEW k \in Claims, NEW c \in Channels, NEW n \in Seqs, EnsureReservation(k, c, n)
      PROVE  OwnInv'
  BY <1>0, <1>2, EnsureGrows, OwnUntouched DEF EnsureReservation
<1>3. ASSUME NEW k \in Claims, PrepareHandoff(k)
      PROVE  OwnInv'
  <2>1. PICK st \in {"ready", "draining"} :
          rcpt' = [rcpt EXCEPT ![k].state = st, ![k].mark = runner[k].sent]
    BY <1>3 DEF PrepareHandoff
  <2>2. Used(k) /\ UNCHANGED rows
    BY <1>3 DEF PrepareHandoff, Used, LiveStates
  <2> QED
    BY <1>0, <2>1, <2>2, SetStateGrows, OwnUntouched
<1>4. ASSUME NEW k \in Claims,
             \/ \E st \in {"queued", "paused"}, at \in BOOLEAN, n \in {0, 1} :
                   Release(k, st, at, n)
             \/ \E st \in TerminalStatuses : Finish(k, st)
      PROVE  OwnInv'
  <2>1. /\ UNCHANGED rows /\ Used(k)
        /\ \E state \in {"released", "terminal"} : SetReceiptState(k, state)
    BY <1>4 DEF Release, Finish, IsCurrent
  <2> QED
    BY <1>0, <2>1, SetStateGrows, OwnUntouched
<1>5. ASSUME NEW j \in Jobs, (\E st \in Intents : EndReady(j, st)) \/ Recover(j)
      PROVE  OwnInv'
  <2>1. UNCHANGED rows
    BY <1>5 DEF EndReady, Recover
  <2>2. CASE UNCHANGED rcpt
    BY <1>1, <2>1, <2>2
  <2>3. ASSUME NEW k, k # NoClaim, k = job[j].claim \/ (k = snap[j].row.claim /\ Recover(j)),
               rcpt[k].state \in LiveStates,
               SetReceiptState(k, "terminal") \/ SetReceiptState(k, "crashed")
        PROVE  OwnInv'
    <3>1. snap[j].row \in JobRow \/ ~ Recover(j)
      BY <1>0 DEF Recover, TypeInv, TypeOK
    <3>2. k \in Claims /\ Used(k)
      BY <1>0, <2>3, <3>1 DEF JobRow, Used, LiveStates
    <3> QED
      BY <1>0, <2>1, <2>3, <3>2, SetStateGrows, OwnUntouched
  <2> QED
    BY <1>5, <2>2, <2>3 DEF EndReady, Recover, LiveStates
<1> QED
  BY <1>0, <1>1, <1>2, <1>3, <1>4, <1>5, PersistKeepsOwn, ClaimKeepsOwn
     DEF Next, RunnerStep, ControlStep, RequestTerminal, StartExecution, DeclineClaim,
         LeaveWithoutHandoff, Drain, Emit, ReportProgress, EndUnclaimed, HoldIntent,
         SweepSelect, vars

(* No number a claim has reserved is taken by another writer, so that no    *)
(* event of the claim is skipped as a conflict: the protocol by itself      *)
(* fences the rows that were there before it.                               *)
THEOREM ReservedRowsStayOwn == Spec => []ReservedRowsAreOwn
<1>1. OwnInv => ReservedRowsAreOwn
  <2> SUFFICES ASSUME OwnInv, NEW k \in Claims, NEW c \in Channels, Used(k),
                      NEW s \in rcpt[k].start[c] .. rcpt[k].end[c]
               PROVE  rows[JobOf(k)][c][s] \in {Empty, k}
    BY DEF ReservedRowsAreOwn
  <2>1. /\ rcpt[k].start[c] \in 0 .. MaxSeq /\ rcpt[k].end[c] \in 0 .. MaxSeq
        /\ 1 <= rcpt[k].start[c] /\ JobOf(k) \in Jobs
    BY DEF OwnInv, RangeInv, RangesAreRanges, TypeInv, TypeOK, Receipt,
        ReceiptsNameJobs
  <2>2. s \in Seqs /\ s \in Int
    BY <2>1, MaxSeqAssumption DEF Seqs
  <2>3. rows[JobOf(k)][c][s] \in Writers
    BY <2>1, <2>2 DEF OwnInv, RangeInv, TypeInv, TypeOK
  <2>4. rows[JobOf(k)][c][s] # Legacy
    BY <2>1, <2>2 DEF OwnInv, LegacyIsBelow
  <2>5. ASSUME NEW l \in Claims \ {k} PROVE rows[JobOf(k)][c][s] # l
    <3>1. SUFFICES ASSUME rows[JobOf(k)][c][s] = l PROVE FALSE
      OBVIOUS
    <3>2. Used(l) /\ JobOf(l) = JobOf(k) /\ s \in rcpt[l].start[c] .. rcpt[l].end[c]
      BY <2>1, <2>2, <3>1 DEF OwnInv, RowsInRange
    <3>3. \/ rcpt[k].end[c] < rcpt[l].start[c]
          \/ rcpt[l].end[c] < rcpt[k].start[c]
      BY <2>5, <3>2 DEF OwnInv, RangeInv, ReservationsDisjoint
    <3>4. rcpt[l].start[c] \in Int /\ rcpt[l].end[c] \in Int
      BY MaxSeqAssumption DEF OwnInv, RangeInv, TypeInv, TypeOK, Receipt
    <3> QED
      BY <2>1, <3>2, <3>3, <3>4
  <2> QED
    BY <2>3, <2>4, <2>5 DEF Writers
<1>2. Spec => []OwnInv
  BY InitOwn, StepOwn, PTL DEF Spec
<1> QED
  BY <1>1, <1>2, PTL
=============================================================================
