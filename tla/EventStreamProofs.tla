------------------------- MODULE EventStreamProofs -------------------------
(***************************************************************************)
(* Theorems about EventStream, for every number of entries, processes,     *)
(* faults and deliveries, and every page size.                             *)
(***************************************************************************)
EXTENDS EventStream, FiniteSetTheorems, TLAPS

----------------------------------------------------------------------------
(* Types                                                                   *)

LEMMA InitStreamType == StreamInit => StreamTypeOK
BY StreamAssumption DEF StreamInit, StreamTypeOK, Entries, Groups, NoPass, Stages

\* The steps of runProcess keep the types of what the process remembers.
LEMMA ReaderType ==
    ASSUME StreamTypeOK, NEW c \in Consumers, NEW e \in Entries,
           NEW S \in SUBSET Entries, NEW s \in Stages,
           \/ Finish(c, e) \/ Fail(c, S) \/ Leave(c, e, s) \/ Advance(c, e, s)
    PROVE  /\ mode' \in [Consumers -> {"up", "down", "absent"}]
           /\ queue' \in [Consumers -> SUBSET Entries]
           /\ page' \in [Consumers -> SUBSET Entries]
           /\ stage' \in [Consumers -> [Entries -> Stages]]
           /\ ahead' \in [Consumers -> [Entries -> SUBSET Entries]]
           /\ local' \in [Consumers -> SUBSET Entries]
           /\ failed' \in [Consumers -> SUBSET Entries]
<1> USE DEF StreamTypeOK
<1>1. CASE Finish(c, e)
  BY <1>1 DEF Finish, Goto, Stages
<1>2. CASE Fail(c, S)
  BY <1>2 DEF Fail, Release, Stages
<1>3. CASE Leave(c, e, s)
  BY <1>3 DEF Leave, Release, Goto
<1>4. CASE Advance(c, e, s)
  BY <1>4 DEF Advance, Goto
<1> QED
  BY <1>1, <1>2, <1>3, <1>4

LEMMA FaultType ==
    ASSUME StreamTypeOK, Fault \/ NoFault
    PROVE  faults' \in 0 .. MaxFaults
BY StreamAssumption DEF StreamTypeOK, Fault, NoFault

LEMMA ReadType ==
    ASSUME StreamTypeOK, NEW c \in Consumers, Read(c)
    PROVE  StreamTypeOK'
<1> DEFINE g == GroupOf[c]
           last == IF cursor[g] + BatchSize < published
                   THEN cursor[g] + BatchSize ELSE published
           batch == cursor[g] + 1 .. last
<1>1. g \in Groups /\ cursor[g] \in 0 .. NumEntries /\ published \in 0 .. NumEntries
  BY StreamAssumption DEF StreamTypeOK
<1>2. last \in 0 .. NumEntries /\ batch \in SUBSET Entries
  <2>1. last \in 0 .. NumEntries
    BY <1>1, StreamAssumption
  <2> HIDE DEF last
  <2>2. batch \in SUBSET Entries
    BY <1>1, <2>1, StreamAssumption DEF Entries
  <2> QED
    BY <2>1, <2>2
<1>3. faults' \in 0 .. MaxFaults
  BY FaultType DEF Read
<1>4. cursor' \in [Groups -> 0 .. NumEntries]
  <2>1. cursor' = [cursor EXCEPT ![g] = last]
    BY DEF Read
  <2> QED
    BY <2>1, <1>2 DEF StreamTypeOK
<1>5. pending' \in [Groups -> SUBSET Entries]
  <2>1. pending' = [pending EXCEPT ![g] = @ \cup batch]
    BY DEF Read
  <2> HIDE DEF batch
  <2> QED
    BY <2>1, <1>2 DEF StreamTypeOK
<1>6. deliveries' \in [Groups -> [Entries -> 0 .. MaxDeliveries]]
  <2>1. deliveries' = [deliveries EXCEPT ![g] = [e \in Entries |->
                             IF e \in batch THEN 1 ELSE @[e]]]
    BY DEF Read
  <2>2. 1 \in 0 .. MaxDeliveries
    BY StreamAssumption
  <2>3. deliveries[g] \in [Entries -> 0 .. MaxDeliveries]
    BY <1>1 DEF StreamTypeOK
  <2> HIDE DEF batch
  <2>4. [e \in Entries |-> IF e \in batch THEN 1 ELSE deliveries[g][e]]
            \in [Entries -> 0 .. MaxDeliveries]
    BY <2>2, <2>3
  <2> QED
    BY <2>1, <2>4, <1>1 DEF StreamTypeOK
<1>7. /\ queue' \in [Consumers -> SUBSET Entries]
      /\ local' \in [Consumers -> SUBSET Entries]
  <2>1. \/ /\ queue' = [queue EXCEPT ![c] = batch]
           /\ local' = [local EXCEPT ![c] = @ \cup batch]
        \/ UNCHANGED <<queue, local>>
    BY DEF Read
  <2>2. batch \in SUBSET Entries
    BY <1>2
  <2> HIDE DEF batch
  <2>3. CASE UNCHANGED <<queue, local>>
    BY <2>3 DEF StreamTypeOK
  <2>4. CASE /\ queue' = [queue EXCEPT ![c] = batch]
             /\ local' = [local EXCEPT ![c] = @ \cup batch]
    BY <2>2, <2>4 DEF StreamTypeOK
  <2> QED
    BY <2>1, <2>3, <2>4
<1>8. UNCHANGED <<published, native, trimmed, marked, dead, effectVars,
                       mode, page, stage, ahead, failed, pass>>
  BY DEF Read
<1> QED
  BY <1>3, <1>4, <1>5, <1>6, <1>7, <1>8 DEF StreamTypeOK, effectVars

\* A step that leaves Redis' counters and the cleaner alone and whose other
\* variables have their types.
LEMMA StepType ==
    ASSUME StreamTypeOK, NEW c \in Consumers, NEW e \in Entries,
           NEW S \in SUBSET Entries, NEW s \in Stages,
           \/ Finish(c, e) \/ Fail(c, S) \/ Leave(c, e, s) \/ Advance(c, e, s),
           Fault \/ NoFault,
           UNCHANGED <<published, native, trimmed, cursor, deliveries, pass>>,
           pending' \in [Groups -> SUBSET Entries],
           marked' \in [Groups -> SUBSET Entries],
           dead' \in [Groups -> SUBSET Entries],
           stored' \in SUBSET Entries,
           rendered' \in [Entries -> 0 .. 2],
           shown' \in SUBSET Entries
    PROVE  StreamTypeOK'
<1>1. faults' \in 0 .. MaxFaults
  BY FaultType
<1>2. /\ mode' \in [Consumers -> {"up", "down", "absent"}]
      /\ queue' \in [Consumers -> SUBSET Entries]
      /\ page' \in [Consumers -> SUBSET Entries]
      /\ stage' \in [Consumers -> [Entries -> Stages]]
      /\ ahead' \in [Consumers -> [Entries -> SUBSET Entries]]
      /\ local' \in [Consumers -> SUBSET Entries]
      /\ failed' \in [Consumers -> SUBSET Entries]
  BY ReaderType
<1> QED
  BY <1>1, <1>2 DEF StreamTypeOK

\* How the steps of one entry move the operation on.
LEMMA EntryMoves ==
    ASSUME StreamTypeOK, NEW c \in Consumers, NEW e \in Entries,
           EntryStep(c, e), ~ Check(c, e)
    PROVE  /\ Fault \/ NoFault
           /\ UNCHANGED <<published, native, trimmed, cursor, deliveries, pass>>
           /\ \/ Fail(c, {e}) \/ Finish(c, e)
              \/ \E s \in Stages : Leave(c, e, s) \/ Advance(c, e, s)
<1> USE DEF redisVars, effectVars, Stages
<1>1. CASE PersistCanonical(c, e) \/ PersistCanonicalFails(c, e)
           \/ PersistAnswerUnreadable(c, e)
  BY <1>1 DEF PersistCanonical, PersistCanonicalFails, PersistAnswerUnreadable
<1>2. CASE Render(c, e) \/ PersistSingle(c, e)
  BY <1>2 DEF Render, PersistSingle
<1>3. CASE Show(c, e) \/ Mark(c, e)
  BY <1>3 DEF Show, Mark
<1>4. CASE Ack(c, e) \/ Clear(c, e) \/ Quarantine(c, e)
  BY <1>4 DEF Ack, Clear, Quarantine
<1> QED
  BY <1>1, <1>2, <1>3, <1>4 DEF EntryStep

\* What they do to the variables outside the process.
LEMMA EntryEffects ==
    ASSUME StreamTypeOK, NEW c \in Consumers, NEW e \in Entries,
           EntryStep(c, e), ~ Check(c, e)
    PROVE  /\ \/ pending' = pending
              \/ pending' = [pending EXCEPT ![GroupOf[c]] = @ \ {e}]
           /\ \/ marked' = marked
              \/ marked' = [marked EXCEPT ![GroupOf[c]] = @ \cup {e}]
              \/ marked' = [marked EXCEPT ![GroupOf[c]] = @ \ {e}]
           /\ \/ dead' = dead
              \/ dead' = [dead EXCEPT ![GroupOf[c]] = @ \cup {e}]
           /\ stored' = stored \/ stored' = stored \cup {e}
           /\ shown' = shown \/ shown' = shown \cup {e}
           /\ \/ rendered' = rendered
              \/ rendered' = [rendered EXCEPT ![e] = IF @ < 2 THEN @ + 1 ELSE 2]
<1> USE DEF redisVars, effectVars
<1>1. CASE PersistCanonical(c, e) \/ PersistAnswerUnreadable(c, e)
  BY <1>1 DEF PersistCanonical, PersistAnswerUnreadable
<1>2. CASE PersistCanonicalFails(c, e)
  <2>1. stored' = stored \/ stored' = stored \cup ({e} \ Refused[Web])
    BY <1>2 DEF PersistCanonicalFails
  <2>2. {e} \ Refused[Web] = {e} \/ {e} \ Refused[Web] = {}
    OBVIOUS
  <2>3. UNCHANGED <<pending, marked, dead, shown, rendered>>
    BY <1>2 DEF PersistCanonicalFails
  <2> QED
    BY <2>1, <2>2, <2>3
<1>3. CASE Render(c, e)
  BY <1>3 DEF Render
<1>4. CASE PersistSingle(c, e)
  BY <1>4 DEF PersistSingle
<1>5. CASE Show(c, e)
  BY <1>5 DEF Show
<1>6. CASE Mark(c, e)
  BY <1>6 DEF Mark
<1>7. CASE Ack(c, e)
  BY <1>7 DEF Ack
<1>8. CASE Clear(c, e)
  BY <1>8 DEF Clear
<1>9. CASE Quarantine(c, e)
  BY <1>9 DEF Quarantine
<1> QED
  BY <1>1, <1>2, <1>3, <1>4, <1>5, <1>6, <1>7, <1>8, <1>9 DEF EntryStep

\* A value of a function of sets changes within the range.
LEMMA SetUpdate ==
    ASSUME NEW X, NEW E, NEW f \in [X -> SUBSET E], NEW x \in X, NEW h,
           NEW T \in SUBSET E,
           h = f \/ h = [f EXCEPT ![x] = @ \cup T] \/ h = [f EXCEPT ![x] = @ \ T]
    PROVE  h \in [X -> SUBSET E]
<1>1. CASE h = f
  BY <1>1
<1>2. CASE h = [f EXCEPT ![x] = @ \cup T]
  BY <1>2
<1>3. CASE h = [f EXCEPT ![x] = @ \ T]
  BY <1>3
<1> QED
  BY <1>1, <1>2, <1>3

LEMMA EntryType ==
    ASSUME StreamTypeOK, NEW c \in Consumers, NEW e \in Entries,
           EntryStep(c, e), ~ Check(c, e)
    PROVE  StreamTypeOK'
<1> DEFINE g == GroupOf[c]
<1>1. g \in Groups
  BY StreamAssumption
<1>0. /\ \/ pending' = pending
         \/ pending' = [pending EXCEPT ![g] = @ \ {e}]
      /\ \/ marked' = marked
         \/ marked' = [marked EXCEPT ![g] = @ \cup {e}]
         \/ marked' = [marked EXCEPT ![g] = @ \ {e}]
      /\ \/ dead' = dead
         \/ dead' = [dead EXCEPT ![g] = @ \cup {e}]
      /\ stored' = stored \/ stored' = stored \cup {e}
      /\ shown' = shown \/ shown' = shown \cup {e}
      /\ \/ rendered' = rendered
         \/ rendered' = [rendered EXCEPT ![e] = IF @ < 2 THEN @ + 1 ELSE 2]
  BY EntryEffects
<1>7. /\ "none" \in Stages /\ {e} \in SUBSET Entries
      /\ pending \in [Groups -> SUBSET Entries]
      /\ marked \in [Groups -> SUBSET Entries]
      /\ dead \in [Groups -> SUBSET Entries]
      /\ rendered \in [Entries -> 0 .. 2]
  BY DEF Stages, StreamTypeOK
<1> HIDE DEF g
<1>2. pending' \in [Groups -> SUBSET Entries]
  BY <1>0, <1>1, <1>7, SetUpdate
<1>3. marked' \in [Groups -> SUBSET Entries]
  BY <1>0, <1>1, <1>7, SetUpdate
<1>4. dead' \in [Groups -> SUBSET Entries]
  BY <1>0, <1>1, <1>7, SetUpdate
<1>5. stored' \in SUBSET Entries /\ shown' \in SUBSET Entries
  BY <1>0 DEF StreamTypeOK
<1>6. rendered' \in [Entries -> 0 .. 2]
  <2>1. CASE rendered' = rendered
    BY <1>7, <2>1
  <2>2. CASE rendered' = [rendered EXCEPT ![e] = IF @ < 2 THEN @ + 1 ELSE 2]
    BY <1>7, <2>2
  <2> QED
    BY <1>0, <2>1, <2>2
<1> QED
  BY <1>2, <1>3, <1>4, <1>5, <1>6, <1>7, EntryMoves, StepType

LEMMA CheckType ==
    ASSUME StreamTypeOK, NEW c \in Consumers, NEW e \in Entries, Check(c, e)
    PROVE  StreamTypeOK'
<1> DEFINE g == GroupOf[c]
           next == IF e \in marked[g] THEN "ack" ELSE HandlerStart(g, e)
<1>1. next \in Stages /\ "none" \in Stages /\ {e} \in SUBSET Entries
  BY DEF HandlerStart, Stages
<1>2. faults' \in 0 .. MaxFaults
  BY FaultType DEF Check
<1>3. UNCHANGED <<redisVars, effectVars, pass>>
  BY DEF Check
<1>4. CASE Fail(c, {e})
  <2>1. Fault \/ NoFault
    BY DEF Check
  <2>2. /\ pending' \in [Groups -> SUBSET Entries]
        /\ marked' \in [Groups -> SUBSET Entries]
        /\ dead' \in [Groups -> SUBSET Entries]
        /\ stored' \in SUBSET Entries /\ shown' \in SUBSET Entries
        /\ rendered' \in [Entries -> 0 .. 2]
    BY <1>3 DEF StreamTypeOK, redisVars, effectVars
  <2>3. UNCHANGED <<published, native, trimmed, cursor, deliveries, pass>>
    BY <1>3 DEF redisVars
  <2> QED
    BY <1>1, <1>4, <2>1, <2>2, <2>3, StepType
<1>5. CASE ~ Fail(c, {e})
  <2>1. /\ Goto(c, e, next)
        /\ \/ ahead' = ahead
           \/ ahead' = [ahead EXCEPT ![c][e] = AtTurnstile(c, JobOf[e])]
        /\ UNCHANGED <<mode, queue, page, local, failed>>
    BY <1>5 DEF Check
  <2>2. stage' \in [Consumers -> [Entries -> Stages]]
    <3> HIDE DEF next
    <3> QED
      BY <1>1, <2>1 DEF Goto, StreamTypeOK
  <2>3. ahead' \in [Consumers -> [Entries -> SUBSET Entries]]
    <3>1. AtTurnstile(c, JobOf[e]) \in SUBSET Entries
      BY DEF AtTurnstile
    <3>2. CASE ahead' = ahead
      BY <3>2 DEF StreamTypeOK
    <3>3. CASE ahead' = [ahead EXCEPT ![c][e] = AtTurnstile(c, JobOf[e])]
      BY <3>1, <3>3 DEF StreamTypeOK
    <3> QED
      BY <2>1, <3>2, <3>3
  <2> QED
    BY <1>2, <1>3, <2>1, <2>2, <2>3 DEF StreamTypeOK, redisVars, effectVars
<1> QED
  BY <1>4, <1>5

LEMMA FlushType ==
    ASSUME StreamTypeOK, NEW c \in Consumers, NEW j, Flush(c, j)
    PROVE  StreamTypeOK'
<1> DEFINE S == Collected(c, j)
           accepted == S \cap Refused[Web] = {}
           after == IF accepted THEN "mark"
                    ELSE IF \A d, e \in S : d = e THEN "quarantine" ELSE "single"
<1>1. S \in SUBSET Entries /\ after \in Stages /\ "none" \in Stages
  BY DEF Collected, Stages
<1>2. PICK e \in Entries : e \in S
  BY DEF Flush, Collected
<1>3. stored' \in SUBSET Entries /\ (Fault \/ NoFault)
  <2>1. stored' = stored \/ stored' = stored \cup S
    BY DEF Flush
  <2> QED
    BY <1>1, <2>1 DEF StreamTypeOK, Flush
<1>4. UNCHANGED <<redisVars, rendered, shown, pass>>
  BY DEF Flush
<1>5. CASE Fail(c, S)
  BY <1>1, <1>2, <1>3, <1>4, <1>5, StepType DEF StreamTypeOK, redisVars
<1>6. CASE ~ Fail(c, S)
  <2>1. /\ stage' = [stage EXCEPT ![c] = [d \in Entries |->
                              IF d \in S THEN after ELSE @[d]]]
        /\ UNCHANGED <<mode, queue, page, ahead, local, failed>>
    BY <1>6 DEF Flush
  <2>2. stage' \in [Consumers -> [Entries -> Stages]]
    <3> HIDE DEF after, S
    <3> QED
      BY <1>1, <2>1 DEF StreamTypeOK
  <2>3. faults' \in 0 .. MaxFaults
    BY <1>3, FaultType
  <2> QED
    BY <1>3, <1>4, <2>1, <2>2, <2>3 DEF StreamTypeOK, redisVars
<1> QED
  BY <1>5, <1>6

LEMMA ReclaimType ==
    ASSUME StreamTypeOK, NEW c \in Consumers, NEW e \in Entries, NEW seen,
           Reclaim(c, e, seen)
    PROVE  StreamTypeOK'
<1> DEFINE g == GroupOf[c]
<1>1. g \in Groups
  BY StreamAssumption
<1>2. deliveries' \in [Groups -> [Entries -> 0 .. MaxDeliveries]]
  <2>1. deliveries' = [deliveries EXCEPT ![g][e] =
                             IF @ < MaxDeliveries THEN @ + 1 ELSE @]
    BY DEF Reclaim
  <2>2. deliveries[g][e] \in 0 .. MaxDeliveries /\ MaxDeliveries \in Nat
    BY <1>1, StreamAssumption DEF StreamTypeOK
  <2>3. (IF deliveries[g][e] < MaxDeliveries THEN deliveries[g][e] + 1
         ELSE deliveries[g][e]) \in 0 .. MaxDeliveries
    BY <2>2
  <2> QED
    BY <2>1, <2>3, <1>1 DEF StreamTypeOK
<1>3. stage' \in [Consumers -> [Entries -> Stages]]
  BY DEF Reclaim, Goto, StreamTypeOK, Stages
<1>4. local' \in [Consumers -> SUBSET Entries]
  BY DEF Reclaim, StreamTypeOK
<1> QED
  BY <1>2, <1>3, <1>4 DEF Reclaim, StreamTypeOK, effectVars

LEMMA CleanType ==
    ASSUME StreamTypeOK, NEW c \in Cleaners, CleanStep(c)
    PROVE  StreamTypeOK'
<1> DEFINE P == [todo : SUBSET Groups, frontier : 0 .. NumEntries + 1]
<1>g. LiveGroups \subseteq Groups /\ NoPass \in P
  BY StreamAssumption DEF LiveGroups, NoPass
<1>1. CASE CleanBegin(c)
  <2>1. PICK f \in 0 .. NumEntries + 1 : pass' = [pass EXCEPT ![c] =
          [todo |-> {g \in LiveGroups : pending[g] # {}}, frontier |-> f]]
    BY <1>1 DEF CleanBegin
  <2>2. pass' \in [Cleaners -> P]
    BY <2>1, <1>g DEF StreamTypeOK
  <2> QED
    BY <1>1, <2>2 DEF CleanBegin, StreamTypeOK, redisVars, effectVars, readerVars
<1>2. ASSUME NEW g \in Groups, CleanRead(c, g)
      PROVE  StreamTypeOK'
  <2>1. pass' \in [Cleaners -> P]
    <3>1. CASE pass' = [pass EXCEPT ![c] = NoPass]
      BY <3>1, <1>g DEF StreamTypeOK
    <3>2. CASE pass' # [pass EXCEPT ![c] = NoPass]
      <4>1. PICK f \in 0 .. NumEntries + 1 : pass' =
               [pass EXCEPT ![c] = [todo |-> @.todo \ {g}, frontier |-> f]]
        BY <1>2, <3>2 DEF CleanRead
      <4> QED
        BY <4>1 DEF StreamTypeOK
    <3> QED
      BY <3>1, <3>2
  <2> QED
    BY <1>2, <2>1 DEF CleanRead, StreamTypeOK, redisVars, effectVars, readerVars
<1>3. CASE CleanTrim(c)
  <2>1. pass' \in [Cleaners -> P]
    BY <1>3, <1>g DEF CleanTrim, StreamTypeOK
  <2>2. pass[c].frontier \in 0 .. NumEntries + 1
    BY DEF StreamTypeOK
  <2>3. trimmed' \in 0 .. NumEntries
    BY <1>3, <2>2, StreamAssumption DEF CleanTrim, StreamTypeOK
  <2> QED
    BY <1>3, <2>1, <2>3 DEF CleanTrim, StreamTypeOK, effectVars, readerVars
<1> QED
  BY <1>1, <1>2, <1>3 DEF CleanStep

LEMMA OtherType ==
    ASSUME StreamTypeOK,
           \/ Publish
           \/ \E c \in Consumers : Dispatch(c) \/ Start(c) \/ Crash(c)
           \/ \E g \in Groups, e \in Entries : MarkerExpires(g, e)
    PROVE  StreamTypeOK'
<1>1. CASE Publish
  <2>1. published' \in 0 .. NumEntries /\ published + 1 \in Entries
    BY <1>1, StreamAssumption DEF Publish, StreamTypeOK, Entries
  <2>2. native' \in SUBSET Entries
    BY <1>1, <2>1 DEF Publish, StreamTypeOK
  <2> QED
    BY <1>1, <2>1, <2>2 DEF Publish, StreamTypeOK, effectVars, readerVars
<1>2. ASSUME NEW c \in Consumers, Dispatch(c)
      PROVE  StreamTypeOK'
  <2>1. NextPage(c) \in SUBSET Entries
    BY DEF NextPage, StreamTypeOK
  <2>2. stage' \in [Consumers -> [Entries -> Stages]]
    BY <1>2 DEF Dispatch, StreamTypeOK, Stages
  <2>3. /\ page' \in [Consumers -> SUBSET Entries]
        /\ queue' \in [Consumers -> SUBSET Entries]
    BY <1>2, <2>1 DEF Dispatch, StreamTypeOK
  <2> QED
    BY <1>2, <2>2, <2>3 DEF Dispatch, StreamTypeOK, redisVars, effectVars
<1>3. ASSUME NEW c \in Consumers, Start(c)
      PROVE  StreamTypeOK'
  BY <1>3 DEF Start, StreamTypeOK, redisVars, effectVars
<1>4. ASSUME NEW c \in Consumers, Crash(c)
      PROVE  StreamTypeOK'
  <2>1. faults' \in 0 .. MaxFaults
    BY <1>4, FaultType DEF Crash
  <2>2. stage' \in [Consumers -> [Entries -> Stages]]
    BY <1>4 DEF Crash, GoDown, StreamTypeOK, Stages
  <2>3. ahead' \in [Consumers -> [Entries -> SUBSET Entries]]
    BY <1>4 DEF Crash, GoDown, StreamTypeOK
  <2>4. pass' \in [Cleaners -> [todo : SUBSET Groups, frontier : 0 .. NumEntries + 1]]
    <3>1. NoPass \in [todo : SUBSET Groups, frontier : 0 .. NumEntries + 1]
      BY StreamAssumption DEF NoPass
    <3> QED
      BY <1>4, <3>1 DEF Crash, GoDown, StreamTypeOK
  <2>5. /\ mode' \in [Consumers -> {"up", "down", "absent"}]
        /\ queue' \in [Consumers -> SUBSET Entries]
        /\ page' \in [Consumers -> SUBSET Entries]
        /\ local' \in [Consumers -> SUBSET Entries]
        /\ failed' \in [Consumers -> SUBSET Entries]
    BY <1>4 DEF Crash, GoDown, StreamTypeOK
  <2>6. UNCHANGED <<redisVars, effectVars>>
    BY <1>4 DEF Crash, GoDown
  <2> QED
    BY <2>1, <2>2, <2>3, <2>4, <2>5, <2>6 DEF StreamTypeOK, redisVars, effectVars
<1>5. ASSUME NEW g \in Groups, NEW e \in Entries, MarkerExpires(g, e)
      PROVE  StreamTypeOK'
  <2>1. faults' \in 0 .. MaxFaults
    BY <1>5, FaultType DEF MarkerExpires
  <2>2. marked' \in [Groups -> SUBSET Entries]
    BY <1>5 DEF MarkerExpires, StreamTypeOK
  <2> QED
    BY <1>5, <2>1, <2>2 DEF MarkerExpires, StreamTypeOK, effectVars, readerVars
<1> QED
  BY <1>1, <1>2, <1>3, <1>4, <1>5

\* The steps of a stream, one by one.
LEMMA StreamSteps ==
    ASSUME StreamNext
    PROVE  \/ Publish
           \/ \E c \in Consumers :
                \/ Read(c) \/ Dispatch(c) \/ Start(c) \/ Crash(c)
                \/ \E j \in {JobOf[e] : e \in Entries} : Flush(c, j)
                \/ \E e \in Entries : Check(c, e)
                \/ \E e \in Entries : EntryStep(c, e) /\ ~ Check(c, e)
                \/ \E e \in Entries :
                    \E seen \in 1 .. deliveries[GroupOf[c]][e] : Reclaim(c, e, seen)
           \/ \E c \in Cleaners : CleanStep(c)
           \/ \E g \in Groups, e \in Entries : MarkerExpires(g, e)
BY DEF StreamNext, ReaderStep, EntryStep, Recover

LEMMA StutterType == StreamTypeOK /\ UNCHANGED vars => StreamTypeOK'
BY DEF StreamTypeOK, vars, redisVars, effectVars, readerVars

LEMMA TypeStep ==
    ASSUME StreamTypeOK, [StreamNext]_vars
    PROVE  StreamTypeOK'
BY StreamSteps, StutterType, ReadType, CheckType, EntryType, FlushType,
   ReclaimType, CleanType, OtherType

\* Every variable keeps its type (the constants' assumption is all it needs).
THEOREM StreamTypeCorrect == StreamSpec => []StreamTypeOK
<1>1. StreamTypeOK /\ [StreamNext]_vars => StreamTypeOK'
  BY TypeStep
<1> QED
  BY <1>1, InitStreamType, PTL DEF StreamSpec

(* How a step moves an operation                                           *)

\* From where, and on which condition, runProcess of b moves on with d.
StageMove(b, d) ==
    \/ stage'[b][d] \in {stage[b][d], "none"}
    \/ stage'[b][d] = "check" /\ d \in queue[b] \cup pending[GroupOf[b]]
    \/ /\ At(b, d, "none") /\ stage'[b][d] = "quarantine"
       /\ d \in pending[GroupOf[b]]
       /\ deliveries[GroupOf[b]][d] = MaxDeliveries
    \/ /\ At(b, d, "check")
       /\ stage'[b][d] = IF d \in marked[GroupOf[b]] THEN "ack"
                         ELSE HandlerStart(GroupOf[b], d)
    \/ /\ At(b, d, "turn") /\ HoldsTurn(b, d)
       /\ \/ stage'[b][d] = "quarantine" /\ d \in Refused[Web] \cup stored'
          \/ stage'[b][d] = "mark" /\ d \in stored'
          \/ stage'[b][d] = "render" /\ d \notin stored /\ d \in stored'
    \/ /\ stage[b][d] \in {"collect", "single"}
       /\ \/ stage'[b][d] = "quarantine" /\ d \in Refused[Web]
          \/ stage'[b][d] = "mark" /\ d \in stored'
          \/ stage'[b][d] = "single"
    \/ /\ At(b, d, "show")
       /\ \/ stage'[b][d] = "quarantine" /\ d \in Refused[Discord]
          \/ stage'[b][d] = "mark" /\ d \in shown'
    \/ At(b, d, "render") /\ stage'[b][d] = "mark"
    \/ At(b, d, "mark") /\ stage'[b][d] = "ack" /\ d \in marked'[GroupOf[b]]
    \/ At(b, d, "ack") /\ stage'[b][d] = "clear"

\* The stages of one process after a step of runProcess.
LEMMA StageAfter ==
    ASSUME StreamTypeOK, NEW c \in Consumers, NEW b \in Consumers, NEW d \in Entries
    PROVE  /\ \A e \in Entries, s \in Stages :
                Goto(c, e, s) => stage'[b][d] = IF b = c /\ d = e THEN s ELSE stage[b][d]
           /\ \A e \in Entries : Finish(c, e) =>
                stage'[b][d] = IF b = c /\ d = e THEN "none" ELSE stage[b][d]
           /\ \A S \in SUBSET Entries : Fail(c, S) =>
                stage'[b][d] = IF b = c /\ d \in S THEN "none" ELSE stage[b][d]
<1>1. stage \in [Consumers -> [Entries -> Stages]]
  BY DEF StreamTypeOK
<1>2. ASSUME NEW e \in Entries, NEW s \in Stages, Goto(c, e, s)
      PROVE  stage'[b][d] = IF b = c /\ d = e THEN s ELSE stage[b][d]
  BY <1>1, <1>2 DEF Goto
<1>3. ASSUME NEW e \in Entries, Finish(c, e)
      PROVE  stage'[b][d] = IF b = c /\ d = e THEN "none" ELSE stage[b][d]
  BY <1>1, <1>3 DEF Finish, Goto
<1>4. ASSUME NEW S \in SUBSET Entries, Fail(c, S)
      PROVE  stage'[b][d] = IF b = c /\ d \in S THEN "none" ELSE stage[b][d]
  BY <1>1, <1>4 DEF Fail
<1> QED
  BY <1>2, <1>3, <1>4

LEMMA EntryStageMoves ==
    ASSUME StreamTypeOK, NEW c \in Consumers, NEW e \in Entries, EntryStep(c, e),
           NEW b \in Consumers, NEW d \in Entries
    PROVE  StageMove(b, d)
<1>s. {"none", "check", "turn", "collect", "single", "render", "show",
           "mark", "ack", "clear", "quarantine"} \subseteq Stages
      /\ {e} \in SUBSET Entries
  BY DEF Stages
<1>f. CASE Fail(c, {e}) \/ Finish(c, e)
  BY <1>f, <1>s, StageAfter DEF StageMove
<1>n. ASSUME ~ (Fail(c, {e}) \/ Finish(c, e))
      PROVE  StageMove(b, d)
  <2> DEFINE Moved(s) == stage'[b][d] = IF b = c /\ d = e THEN s ELSE stage[b][d]
  <2>0. \A s \in Stages : Goto(c, e, s) => Moved(s)
    BY StageAfter
  <2> HIDE DEF Moved
  <2>1. CASE Check(c, e)
    <3> DEFINE next == IF e \in marked[GroupOf[c]] THEN "ack"
                       ELSE HandlerStart(GroupOf[c], e)
    <3>1. next \in Stages
      BY <1>s DEF HandlerStart
    <3>2. At(c, e, "check") /\ Goto(c, e, next)
      BY <1>n, <2>1 DEF Check
    <3> QED
      BY <3>1, <3>2, <2>0 DEF StageMove, Moved
  <2>2. CASE PersistCanonical(c, e) \/ PersistAnswerUnreadable(c, e)
    <3>1. /\ At(c, e, "turn") /\ HoldsTurn(c, e)
          /\ \/ Goto(c, e, "quarantine") /\ e \in Refused[Web] \cup stored'
             \/ Goto(c, e, "mark") /\ e \in stored'
             \/ Goto(c, e, "render") /\ e \notin stored /\ e \in stored'
      BY <2>2 DEF PersistCanonical, PersistAnswerUnreadable, Leave, Advance
    <3> QED
      BY <3>1, <1>s, <2>0 DEF StageMove, Moved
  <2>3. CASE PersistCanonicalFails(c, e)
    BY <1>n, <2>3 DEF PersistCanonicalFails
  <2>4. CASE Render(c, e)
    <3>1. At(c, e, "render") /\ Goto(c, e, "mark")
      BY <1>n, <2>4 DEF Render, Leave
    <3> QED
      BY <3>1, <1>s, <2>0 DEF StageMove, Moved
  <2>5. CASE PersistSingle(c, e)
    <3>1. /\ At(c, e, "single")
          /\ \/ Goto(c, e, "quarantine") /\ e \in Refused[Web]
             \/ Goto(c, e, "mark") /\ e \in stored'
      BY <1>n, <2>5 DEF PersistSingle, Advance
    <3> QED
      BY <3>1, <1>s, <2>0 DEF StageMove, Moved, At
  <2>6. CASE Show(c, e)
    <3>1. /\ At(c, e, "show")
          /\ \/ Goto(c, e, "quarantine") /\ e \in Refused[Discord]
             \/ Goto(c, e, "mark") /\ e \in shown'
      BY <1>n, <2>6 DEF Show, Advance
    <3> QED
      BY <3>1, <1>s, <2>0 DEF StageMove, Moved
  <2>7. CASE Mark(c, e)
    <3>1. At(c, e, "mark") /\ Goto(c, e, "ack")
      BY <1>n, <2>7 DEF Mark, Advance
    <3>2. e \in marked'[GroupOf[c]]
      <4>1. marked' = [marked EXCEPT ![GroupOf[c]] = @ \cup {e}]
        BY <1>n, <2>7 DEF Mark
      <4>2. GroupOf[c] \in Groups /\ marked \in [Groups -> SUBSET Entries]
        BY StreamAssumption DEF StreamTypeOK
      <4> QED
        BY <4>1, <4>2
    <3> QED
      BY <3>1, <3>2, <1>s, <2>0 DEF StageMove, Moved
  <2>8. CASE Ack(c, e)
    <3>1. At(c, e, "ack") /\ Goto(c, e, "clear")
      BY <1>n, <2>8 DEF Ack, Advance
    <3> QED
      BY <3>1, <1>s, <2>0 DEF StageMove, Moved
  <2>9. CASE Clear(c, e) \/ Quarantine(c, e)
    BY <1>n, <2>9 DEF Clear, Quarantine
  <2> QED
    BY <2>1, <2>2, <2>3, <2>4, <2>5, <2>6, <2>7, <2>8, <2>9 DEF EntryStep
<1> QED
  BY <1>f, <1>n

LEMMA FlushStageMoves ==
    ASSUME StreamTypeOK, NEW c \in Consumers, NEW j, Flush(c, j),
           NEW b \in Consumers, NEW d \in Entries
    PROVE  StageMove(b, d)
<1> DEFINE S == Collected(c, j)
           accepted == S \cap Refused[Web] = {}
           after == IF accepted THEN "mark"
                    ELSE IF \A x, y \in S : x = y THEN "quarantine" ELSE "single"
<1>1. S \in SUBSET Entries /\ stage \in [Consumers -> [Entries -> Stages]]
  BY DEF Collected, StreamTypeOK
<1>2. CASE Fail(c, S)
  BY <1>1, <1>2, StageAfter DEF StageMove
<1>3. CASE ~ Fail(c, S)
  <2>1. /\ stage' = [stage EXCEPT ![c] = [x \in Entries |->
                              IF x \in S THEN after ELSE @[x]]]
        /\ stored' = IF accepted THEN stored \cup S ELSE stored
    BY <1>3 DEF Flush
  <2>2. CASE ~ (b = c /\ d \in S)
    <3> HIDE DEF after
    <3> QED
      BY <1>1, <2>1, <2>2 DEF StageMove
  <2>3. CASE b = c /\ d \in S
    <3>1. stage'[b][d] = after
      <4> HIDE DEF after
      <4> QED
        BY <1>1, <2>1, <2>3
    <3>2. At(b, d, "collect")
      BY <2>3 DEF Collected
    <3>3. accepted => d \in stored'
      BY <2>1, <2>3
    <3>4. ~ accepted /\ (\A x, y \in S : x = y) => d \in Refused[Web]
      BY <2>3
    <3> QED
      BY <3>1, <3>2, <3>3, <3>4 DEF StageMove, At
  <2> QED
    BY <2>2, <2>3
<1> QED
  BY <1>2, <1>3

\* A step moves an operation as runProcess does.
LEMMA StageMoves ==
    ASSUME StreamTypeOK, [StreamNext]_vars, NEW b \in Consumers, NEW d \in Entries
    PROVE  StageMove(b, d)
<1>t. stage \in [Consumers -> [Entries -> Stages]]
  BY DEF StreamTypeOK
<1>0. CASE UNCHANGED stage
  BY <1>0 DEF StageMove
<1>1. ASSUME NEW c \in Consumers, Dispatch(c)
      PROVE  StageMove(b, d)
  <2>1. stage' = [stage EXCEPT ![c] = [e \in Entries |->
                    IF e \in NextPage(c) THEN "check" ELSE @[e]]]
    BY <1>1 DEF Dispatch
  <2>2. NextPage(c) \subseteq queue[c]
    BY DEF NextPage
  <2> QED
    BY <1>t, <2>1, <2>2 DEF StageMove
<1>2. ASSUME NEW c \in Consumers, Crash(c)
      PROVE  StageMove(b, d)
  <2>1. stage' = [stage EXCEPT ![c] = [e \in Entries |-> "none"]]
    BY <1>2 DEF Crash, GoDown
  <2> QED
    BY <1>t, <2>1 DEF StageMove
<1>3. ASSUME NEW c \in Consumers, NEW e \in Entries,
             NEW seen \in 1 .. deliveries[GroupOf[c]][e], Reclaim(c, e, seen)
      PROVE  StageMove(b, d)
  <2>1. GroupOf[c] \in Groups
    BY StreamAssumption
  <2>2. /\ deliveries[GroupOf[c]][e] \in 0 .. MaxDeliveries
        /\ MaxDeliveries \in Nat
    BY <2>1, StreamAssumption DEF StreamTypeOK
  <2>3. /\ At(c, e, "none") /\ e \in pending[GroupOf[c]]
        /\ Goto(c, e, IF seen >= MaxDeliveries THEN "quarantine" ELSE "check")
    BY <1>3 DEF Reclaim, Reclaimable
  <2>4. seen >= MaxDeliveries => deliveries[GroupOf[c]][e] = MaxDeliveries
    BY <2>2
  <2>5. stage'[b][d] = IF b = c /\ d = e
                       THEN IF seen >= MaxDeliveries THEN "quarantine" ELSE "check"
                       ELSE stage[b][d]
    BY <1>t, <2>3 DEF Goto
  <2> QED
    BY <2>3, <2>4, <2>5 DEF StageMove
<1>4. CASE Publish \/ (\E g \in Groups, e \in Entries : MarkerExpires(g, e))
  BY <1>0, <1>4 DEF Publish, MarkerExpires, readerVars
<1>5. CASE \E c \in Consumers : Read(c) \/ Start(c)
  BY <1>0, <1>5 DEF Read, Start
<1>6. CASE \E c \in Cleaners : CleanStep(c)
  BY <1>0, <1>6 DEF CleanStep, CleanBegin, CleanRead, CleanTrim, readerVars
<1>7. CASE UNCHANGED vars
  BY <1>0, <1>7 DEF vars, readerVars
<1>8. ASSUME NEW c \in Consumers, NEW e \in Entries, EntryStep(c, e)
      PROVE  StageMove(b, d)
  BY <1>8, EntryStageMoves
<1>9. ASSUME NEW c \in Consumers, NEW j, Flush(c, j)
      PROVE  StageMove(b, d)
  BY <1>9, FlushStageMoves
<1>c. ASSUME NEW c \in Consumers, NEW e \in Entries, Check(c, e)
      PROVE  EntryStep(c, e)
  BY <1>c DEF EntryStep
<1> QED
  BY <1>1, <1>2, <1>3, <1>4, <1>5, <1>6, <1>7, <1>8, <1>9, <1>c, StreamSteps

\* What a step does with entry d in the Redis state of group g: on whose
\* operation an entry leaves the pending list, is buried or is marked.
GroupMove(g, d) ==
    /\ d \in pending[g] /\ d \notin pending'[g] =>
        \E c \in Consumers : GroupOf[c] = g /\
            (At(c, d, "ack") \/ (At(c, d, "quarantine") /\ d \in dead'[g]))
    /\ d \notin pending[g] /\ d \in pending'[g] => cursor[g] < d /\ d <= cursor'[g]
    /\ cursor[g] < d /\ d <= cursor'[g] => d \in pending'[g] /\ d <= published
    /\ cursor[g] <= cursor'[g]
    /\ d \in dead[g] => d \in dead'[g]
    /\ d \in dead'[g] /\ d \notin dead[g] =>
        \E c \in Consumers : GroupOf[c] = g /\ At(c, d, "quarantine")
    /\ d \in marked'[g] /\ d \notin marked[g] =>
        \E c \in Consumers : GroupOf[c] = g /\ At(c, d, "mark")
    /\ deliveries[g][d] <= deliveries'[g][d] \/ cursor[g] < d

LEMMA Numbers ==
    ASSUME StreamTypeOK, NEW g \in Groups, NEW d \in Entries
    PROVE  /\ cursor[g] \in Nat /\ published \in Nat /\ d \in Nat
           /\ deliveries[g][d] \in Nat /\ deliveries[g][d] <= MaxDeliveries
           /\ MaxDeliveries \in Nat
<1>1. cursor[g] \in 0 .. NumEntries /\ published \in 0 .. NumEntries
  BY DEF StreamTypeOK
<1>2. deliveries[g][d] \in 0 .. MaxDeliveries
  BY DEF StreamTypeOK
<1>3. d \in 1 .. NumEntries
  BY DEF Entries
<1> QED
  BY <1>1, <1>2, <1>3, StreamAssumption

LEMMA SameGroupMove ==
    ASSUME StreamTypeOK, NEW g \in Groups, NEW d \in Entries,
           UNCHANGED <<cursor, pending, dead, marked, deliveries>>
    PROVE  GroupMove(g, d)
BY Numbers DEF GroupMove

LEMMA EntryGroupMove ==
    ASSUME StreamTypeOK, NEW c \in Consumers, NEW e \in Entries, EntryStep(c, e),
           NEW g \in Groups, NEW d \in Entries
    PROVE  GroupMove(g, d)
<1> DEFINE h == GroupOf[c]
<1>1. h \in Groups
  BY StreamAssumption
<1>t. /\ pending \in [Groups -> SUBSET Entries]
      /\ marked \in [Groups -> SUBSET Entries]
      /\ dead \in [Groups -> SUBSET Entries]
  BY DEF StreamTypeOK
<1>2. CASE \/ Check(c, e) \/ PersistCanonical(c, e) \/ PersistCanonicalFails(c, e)
           \/ PersistAnswerUnreadable(c, e)
  BY <1>2, SameGroupMove
  DEF Check, PersistCanonical, PersistCanonicalFails, PersistAnswerUnreadable, redisVars
<1>3. CASE Render(c, e) \/ PersistSingle(c, e) \/ Show(c, e)
  BY <1>3, SameGroupMove DEF Render, PersistSingle, Show, redisVars
<1>i. /\ cursor[g] <= cursor[g] /\ deliveries[g][d] <= deliveries[g][d]
      /\ ~ (cursor[g] < d /\ d <= cursor[g])
  BY Numbers
<1>4. CASE Mark(c, e)
  <2>1. /\ At(c, e, "mark")
        /\ marked' = marked \/ marked' = [marked EXCEPT ![h] = @ \cup {e}]
        /\ UNCHANGED <<cursor, pending, dead, deliveries>>
    BY <1>4 DEF Mark
  <2>2. d \in marked'[g] /\ d \notin marked[g] => d = e /\ g = h
    BY <1>t, <1>1, <2>1
  <2> QED
    BY <1>i, <2>1, <2>2 DEF GroupMove
<1>5. CASE Ack(c, e)
  <2>1. /\ At(c, e, "ack")
        /\ pending' = pending \/ pending' = [pending EXCEPT ![h] = @ \ {e}]
        /\ UNCHANGED <<cursor, marked, dead, deliveries>>
    BY <1>5 DEF Ack
  <2>2. /\ d \in pending[g] /\ d \notin pending'[g] => d = e /\ g = h
        /\ d \in pending'[g] => d \in pending[g]
    BY <1>t, <1>1, <2>1
  <2> QED
    BY <1>i, <2>1, <2>2 DEF GroupMove
<1>6. CASE Clear(c, e)
  <2>1. /\ marked' = marked \/ marked' = [marked EXCEPT ![h] = @ \ {e}]
        /\ UNCHANGED <<cursor, pending, dead, deliveries>>
    BY <1>6 DEF Clear
  <2>2. d \in marked'[g] => d \in marked[g]
    BY <1>t, <1>1, <2>1
  <2> QED
    BY <1>i, <2>1, <2>2 DEF GroupMove
<1>7. CASE Quarantine(c, e)
  <2>1. /\ At(c, e, "quarantine")
        /\ \/ UNCHANGED <<dead, pending>>
           \/ /\ pending' = [pending EXCEPT ![h] = @ \ {e}]
              /\ dead' = [dead EXCEPT ![h] = @ \cup {e}]
        /\ UNCHANGED <<cursor, marked, deliveries>>
    BY <1>7 DEF Quarantine
  <2>2. /\ d \in pending[g] /\ d \notin pending'[g] => d = e /\ g = h /\ d \in dead'[g]
        /\ d \in pending'[g] => d \in pending[g]
        /\ d \in dead[g] => d \in dead'[g]
        /\ d \in dead'[g] /\ d \notin dead[g] => d = e /\ g = h
    BY <1>t, <1>1, <2>1
  <2> QED
    BY <1>i, <2>1, <2>2 DEF GroupMove
<1> QED
  BY <1>2, <1>3, <1>4, <1>5, <1>6, <1>7 DEF EntryStep

LEMMA ReadGroupMove ==
    ASSUME StreamTypeOK, NEW c \in Consumers, Read(c),
           NEW g \in Groups, NEW d \in Entries
    PROVE  /\ GroupMove(g, d)
           /\ \A b \in Consumers : d \in queue'[b] =>
                d \in queue[b] \/ d <= cursor'[GroupOf[b]]
<1> DEFINE h == GroupOf[c]
           last == IF cursor[h] + BatchSize < published
                   THEN cursor[h] + BatchSize ELSE published
           batch == cursor[h] + 1 .. last
<1>1. /\ h \in Groups /\ cursor[h] \in Nat /\ published \in Nat /\ BatchSize \in Nat
      /\ cursor[g] \in Nat /\ d \in Nat /\ deliveries[g][d] \in Nat
      /\ cursor \in [Groups -> 0 .. NumEntries]
      /\ pending \in [Groups -> SUBSET Entries]
      /\ deliveries \in [Groups -> [Entries -> 0 .. MaxDeliveries]]
      /\ queue \in [Consumers -> SUBSET Entries]
  <2>1. h \in Groups /\ BatchSize \in Nat
    BY StreamAssumption
  <2> QED
    BY <2>1, Numbers DEF StreamTypeOK
<1>2. /\ cursor[h] < published
      /\ cursor' = [cursor EXCEPT ![h] = last]
      /\ pending' = [pending EXCEPT ![h] = @ \cup batch]
      /\ deliveries' = [deliveries EXCEPT ![h] = [e \in Entries |->
                             IF e \in batch THEN 1 ELSE @[e]]]
      /\ queue' = queue \/ queue' = [queue EXCEPT ![c] = batch]
      /\ UNCHANGED <<marked, dead>>
  BY DEF Read
<1>3. last \in Nat /\ cursor[h] <= last /\ last <= published
  BY <1>1, <1>2
<1>4. d \in batch <=> cursor[h] < d /\ d <= last
  BY <1>1, <1>3
<1> HIDE DEF last, batch
<1>5. /\ pending'[g] = IF g = h THEN pending[g] \cup batch ELSE pending[g]
      /\ cursor'[g] = IF g = h THEN last ELSE cursor[g]
  BY <1>1, <1>2
<1>6. deliveries'[g][d] = IF g = h /\ d \in batch THEN 1 ELSE deliveries[g][d]
  BY <1>1, <1>2
<1>7. GroupMove(g, d)
  BY <1>1, <1>2, <1>3, <1>4, <1>5, <1>6 DEF GroupMove
<1>8. ASSUME NEW b \in Consumers, d \in queue'[b], d \notin queue[b]
      PROVE  d <= cursor'[GroupOf[b]]
  <2>1. b = c /\ d \in batch
    BY <1>1, <1>2, <1>8
  <2>2. cursor'[h] = last
    BY <1>1, <1>2
  <2> QED
    BY <2>1, <2>2, <1>4
<1> QED
  BY <1>7, <1>8

LEMMA GroupMoves ==
    ASSUME StreamTypeOK, [StreamNext]_vars, NEW g \in Groups, NEW d \in Entries
    PROVE  GroupMove(g, d)
<1>1. CASE Publish \/ (\E c \in Consumers : Dispatch(c) \/ Start(c) \/ Crash(c))
  BY <1>1, SameGroupMove DEF Publish, Dispatch, Start, Crash, GoDown, redisVars
<1>2. ASSUME NEW h \in Groups, NEW e \in Entries, MarkerExpires(h, e)
      PROVE  GroupMove(g, d)
  <2>1. /\ cursor[g] \in Int /\ d \in Int /\ deliveries[g][d] \in Int
        /\ marked \in [Groups -> SUBSET Entries]
    BY Numbers DEF StreamTypeOK
  <2>2. d \in marked'[g] => d \in marked[g]
    BY <1>2, <2>1 DEF MarkerExpires
  <2> QED
    BY <1>2, <2>1, <2>2 DEF MarkerExpires, GroupMove
<1>3. ASSUME NEW c \in Consumers, NEW e \in Entries, NEW seen, Reclaim(c, e, seen)
      PROVE  GroupMove(g, d)
  <2>1. /\ cursor[g] \in Int /\ d \in Int /\ deliveries[g][d] \in Int
        /\ deliveries \in [Groups -> [Entries -> 0 .. MaxDeliveries]]
        /\ deliveries[GroupOf[c]][e] \in Int /\ MaxDeliveries \in Int
    <3>1. GroupOf[c] \in Groups
      BY StreamAssumption
    <3> QED
      BY <3>1, Numbers DEF StreamTypeOK
  <2>2. deliveries' = [deliveries EXCEPT ![GroupOf[c]][e] =
                             IF @ < MaxDeliveries THEN @ + 1 ELSE @]
    BY <1>3 DEF Reclaim
  <2>3. \/ deliveries'[g][d] = deliveries[g][d]
        \/ deliveries'[g][d] = deliveries[g][d] + 1
    BY <2>1, <2>2
  <2> QED
    BY <1>3, <2>1, <2>3 DEF Reclaim, GroupMove
<1>4. CASE \E c \in Cleaners : CleanStep(c)
  BY <1>4, SameGroupMove DEF CleanStep, CleanBegin, CleanRead, CleanTrim, redisVars
<1>5. CASE UNCHANGED vars
  BY <1>5, SameGroupMove DEF vars, redisVars
<1>6. CASE \E c \in Consumers, j \in {JobOf[e] : e \in Entries} : Flush(c, j)
  BY <1>6, SameGroupMove DEF Flush, redisVars
<1>7. CASE \E c \in Consumers, e \in Entries : EntryStep(c, e)
  BY <1>7, EntryGroupMove
<1>8. CASE \E c \in Consumers : Read(c)
  BY <1>8, ReadGroupMove
<1>c. ASSUME NEW c \in Consumers, NEW e \in Entries, Check(c, e)
      PROVE  EntryStep(c, e)
  BY <1>c DEF EntryStep
<1> QED
  BY <1>1, <1>2, <1>3, <1>4, <1>5, <1>6, <1>7, <1>8, <1>c, StreamSteps

\* What a step does with entry d outside the groups.
EffectMove(d) ==
    /\ stored \subseteq stored' /\ shown \subseteq shown' /\ native \subseteq native'
    /\ published <= published'
    /\ LiveGroups' = LiveGroups
    /\ rendered'[d] # rendered[d] =>
        \E c \in Consumers :
            /\ At(c, d, "render") /\ stage'[c][d] # "render"
            /\ rendered'[d] = IF rendered[d] < 2 THEN rendered[d] + 1 ELSE 2

LEMMA SameEffectMove ==
    ASSUME StreamTypeOK, NEW d \in Entries,
           UNCHANGED <<effectVars, native, published, mode>>
    PROVE  EffectMove(d)
<1>1. published \in Nat
  BY Numbers, StreamAssumption DEF StreamTypeOK
<1> QED
  BY <1>1 DEF EffectMove, effectVars, LiveGroups

LEMMA EntryEffectMove ==
    ASSUME StreamTypeOK, NEW c \in Consumers, NEW e \in Entries, EntryStep(c, e),
           NEW d \in Entries
    PROVE  EffectMove(d)
<1>1. published \in Nat /\ rendered \in [Entries -> 0 .. 2]
      /\ stage \in [Consumers -> [Entries -> Stages]]
  BY StreamAssumption DEF StreamTypeOK
<1>2. CASE Check(c, e) \/ Mark(c, e)
  BY <1>2, SameEffectMove
  DEF Check, Mark, Fail, Advance, redisVars, effectVars
<1>3. CASE Ack(c, e) \/ Clear(c, e) \/ Quarantine(c, e)
  BY <1>3, SameEffectMove
  DEF Ack, Clear, Quarantine, Fail, Advance, Finish, effectVars
<1>4. ASSUME stored \subseteq stored', shown \subseteq shown', rendered' = rendered,
             UNCHANGED <<native, published, mode>>
      PROVE  EffectMove(d)
  BY <1>1, <1>4 DEF EffectMove, LiveGroups
<1>5. CASE PersistCanonical(c, e) \/ PersistAnswerUnreadable(c, e)
  BY <1>4, <1>5 DEF PersistCanonical, PersistAnswerUnreadable, Leave, Advance, redisVars
<1>6. CASE PersistCanonicalFails(c, e)
  BY <1>4, <1>6 DEF PersistCanonicalFails, Fail, redisVars
<1>7. CASE PersistSingle(c, e)
  BY <1>4, <1>7 DEF PersistSingle, Advance, Fail, redisVars
<1>8. CASE Show(c, e)
  BY <1>4, <1>8 DEF Show, Advance, Fail, redisVars
<1>9. CASE Render(c, e)
  <2>1. CASE UNCHANGED rendered
    BY <1>4, <1>9, <2>1 DEF Render, Leave, Fail, redisVars
  <2>2. CASE ~ UNCHANGED rendered
    <3>1. /\ At(c, e, "render")
          /\ rendered' = [rendered EXCEPT ![e] = IF @ < 2 THEN @ + 1 ELSE 2]
          /\ Goto(c, e, "mark") \/ Fail(c, {e})
          /\ UNCHANGED <<native, published, mode, stored, shown>>
      BY <1>9, <2>2 DEF Render, Leave, Fail, redisVars
    <3>2. stage'[c][e] # "render"
      BY <1>1, <3>1 DEF Goto, Fail
    <3> QED
      BY <1>1, <3>1, <3>2 DEF EffectMove, LiveGroups
  <2> QED
    BY <2>1, <2>2
<1> QED
  BY <1>2, <1>3, <1>5, <1>6, <1>7, <1>8, <1>9 DEF EntryStep

LEMMA EffectMoves ==
    ASSUME StreamTypeOK, [StreamNext]_vars, NEW d \in Entries
    PROVE  EffectMove(d)
<1>1. published \in Nat /\ mode \in [Consumers -> {"up", "down", "absent"}]
  BY StreamAssumption DEF StreamTypeOK
<1>2. CASE Publish
  BY <1>1, <1>2 DEF Publish, EffectMove, effectVars, readerVars, LiveGroups
<1>3. ASSUME NEW c \in Consumers, NEW x \in {"up", "down"},
             mode' = [mode EXCEPT ![c] = x], mode[c] # "absent",
             UNCHANGED <<effectVars, native, published>>
      PROVE  EffectMove(d)
  <2>1. \A b \in Consumers : mode'[b] # "absent" <=> mode[b] # "absent"
    BY <1>1, <1>3
  <2>2. LiveGroups' = LiveGroups
    BY <2>1 DEF LiveGroups
  <2> QED
    BY <1>1, <1>3, <2>2 DEF EffectMove, effectVars
<1>4. CASE \E c \in Consumers : Start(c) \/ Crash(c)
  BY <1>3, <1>4 DEF Start, Crash, GoDown, redisVars
<1>5. CASE \E c \in Consumers : Read(c) \/ Dispatch(c)
  BY <1>5, SameEffectMove DEF Read, Dispatch, redisVars
<1>6. CASE \E c \in Consumers, e \in Entries, seen \in Nat : Reclaim(c, e, seen)
  BY <1>6, SameEffectMove DEF Reclaim
<1>7. CASE \E c \in Cleaners : CleanStep(c)
  BY <1>7, SameEffectMove
  DEF CleanStep, CleanBegin, CleanRead, CleanTrim, redisVars, readerVars
<1>8. CASE \E g \in Groups, e \in Entries : MarkerExpires(g, e)
  BY <1>8, SameEffectMove DEF MarkerExpires, readerVars
<1>9. CASE UNCHANGED vars
  BY <1>9, SameEffectMove DEF vars, redisVars, readerVars
<1>10. ASSUME NEW c \in Consumers, NEW j, Flush(c, j)
       PROVE  EffectMove(d)
  <2>1. /\ stored \subseteq stored' /\ UNCHANGED <<shown, rendered, native, published>>
        /\ UNCHANGED mode
    BY <1>10 DEF Flush, Fail, redisVars
  <2> QED
    BY <1>1, <2>1 DEF EffectMove, LiveGroups
<1>11. CASE \E c \in Consumers, e \in Entries : EntryStep(c, e)
  BY <1>11, EntryEffectMove
<1>c. ASSUME NEW c \in Consumers, NEW e \in Entries, Check(c, e)
      PROVE  EntryStep(c, e)
  BY <1>c DEF EntryStep
<1>d. \A c \in Consumers, e \in Entries :
        1 .. deliveries[GroupOf[c]][e] \subseteq Nat
  BY Numbers, StreamAssumption
<1> QED
  BY <1>2, <1>4, <1>5, <1>6, <1>7, <1>8, <1>9, <1>10, <1>11, <1>c, <1>d, StreamSteps

\* A step works in one process.
LEMMA OneProcess ==
    ASSUME StreamTypeOK, [StreamNext]_vars
    PROVE  \/ UNCHANGED stage
           \/ \E c \in Consumers : \A b \in Consumers \ {c} :
                stage'[b] = stage[b]
<1>t. stage \in [Consumers -> [Entries -> Stages]]
  BY DEF StreamTypeOK
<1>1. ASSUME NEW c \in Consumers, NEW F, stage' = [stage EXCEPT ![c] = F]
      PROVE  \A b \in Consumers \ {c} : stage'[b] = stage[b]
  BY <1>t, <1>1
<1>g. ASSUME NEW c \in Consumers, NEW e \in Entries, NEW s, Goto(c, e, s)
      PROVE  \A b \in Consumers \ {c} : stage'[b] = stage[b]
  BY <1>t, <1>g DEF Goto
<1>2. CASE \E c \in Consumers : Read(c) \/ Start(c)
  BY <1>2 DEF Read, Start
<1>3. CASE \E c \in Consumers : Dispatch(c) \/ Crash(c)
  BY <1>1, <1>3 DEF Dispatch, Crash, GoDown
<1>4. ASSUME NEW c \in Consumers, NEW e \in Entries,
             Fail(c, {e}) \/ Finish(c, e)
               \/ \E s \in Stages : Leave(c, e, s) \/ Advance(c, e, s)
      PROVE  \A b \in Consumers \ {c} : stage'[b] = stage[b]
  BY <1>1, <1>g, <1>4 DEF Fail, Finish, Leave, Advance
<1>5. ASSUME NEW c \in Consumers, NEW e \in Entries, EntryStep(c, e)
      PROVE  \A b \in Consumers \ {c} : stage'[b] = stage[b]
  <2>1. CASE Check(c, e)
    BY <2>1, <1>4, <1>g DEF Check
  <2>2. CASE ~ Check(c, e)
    BY <1>4, <1>5, <2>2, EntryMoves
  <2> QED
    BY <2>1, <2>2
<1>6. CASE \E c \in Consumers, j \in {JobOf[e] : e \in Entries} : Flush(c, j)
  BY <1>1, <1>6 DEF Flush, Fail
<1>7. CASE \E c \in Consumers, e \in Entries :
             \E seen \in 1 .. deliveries[GroupOf[c]][e] : Reclaim(c, e, seen)
  BY <1>g, <1>7 DEF Reclaim
<1>8. CASE \E c \in Cleaners : CleanStep(c)
  BY <1>8 DEF CleanStep, CleanBegin, CleanRead, CleanTrim, readerVars
<1>9. CASE Publish \/ UNCHANGED vars \/ \E g \in Groups, e \in Entries : MarkerExpires(g, e)
  BY <1>9 DEF Publish, MarkerExpires, vars, readerVars
<1>c. ASSUME NEW c \in Consumers, NEW e \in Entries, Check(c, e)
      PROVE  EntryStep(c, e)
  BY <1>c DEF EntryStep
<1> QED
  BY <1>2, <1>3, <1>5, <1>6, <1>7, <1>8, <1>9, <1>c, StreamSteps

(* The invariants                                                          *)

\* The handlers of a group are those of its bridge, and what is rendered is
\* in the database.
StageGroup ==
    \A c \in Consumers, e \in Entries :
        /\ stage[c][e] \in {"turn", "collect", "single", "render"} => GroupOf[c] = Web
        /\ At(c, e, "show") => GroupOf[c] = Discord
        /\ At(c, e, "render") => e \in stored

\* An operation that is about to mark or acknowledge, and a marker, mean that
\* the effect has happened.
EffectInv ==
    /\ StageGroup
    /\ \A c \in Consumers, e \in Entries :
        stage[c][e] \in {"mark", "ack"} => Effect(GroupOf[c], e)
    /\ \A g \in Groups : \A e \in marked[g] : Effect(g, e)

LEMMA EffectLasts ==
    ASSUME StreamTypeOK, [StreamNext]_vars, NEW g \in Groups, NEW e \in Entries,
           Effect(g, e)
    PROVE  Effect(g, e)'
BY EffectMoves DEF EffectMove, Effect

LEMMA StageGroupStep ==
    ASSUME StreamTypeOK, StageGroup, [StreamNext]_vars
    PROVE  StageGroup'
<1> SUFFICES ASSUME NEW c \in Consumers, NEW e \in Entries
             PROVE  /\ stage'[c][e] \in {"turn", "collect", "single", "render"}
                        => GroupOf[c] = Web
                    /\ stage'[c][e] = "show" => GroupOf[c] = Discord
                    /\ stage'[c][e] = "render" => e \in stored'
  BY DEF StageGroup, At
<1>1. StageMove(c, e) /\ EffectMove(e) /\ GroupOf[c] \in {Web, Discord}
  BY StageMoves, EffectMoves, StreamAssumption DEF Groups
<1>2. CASE stage'[c][e] = stage[c][e]
  BY <1>1, <1>2 DEF StageGroup, EffectMove, At
<1>3. CASE stage'[c][e] # stage[c][e]
  BY <1>1, <1>3, StreamAssumption DEF StageMove, StageGroup, At, HandlerStart
<1> QED
  BY <1>2, <1>3

LEMMA EffectStep ==
    ASSUME StreamTypeOK, EffectInv, [StreamNext]_vars
    PROVE  EffectInv'
<1>1. StageGroup'
  BY StageGroupStep DEF EffectInv
<1>2. ASSUME NEW c \in Consumers, NEW e \in Entries, stage'[c][e] \in {"mark", "ack"}
      PROVE  Effect(GroupOf[c], e)'
  <2>1. /\ StageMove(c, e) /\ EffectMove(e) /\ GroupOf[c] \in {Web, Discord}
        /\ Web # Discord
    BY StageMoves, EffectMoves, StreamAssumption DEF Groups
  <2>2. CASE Effect(GroupOf[c], e)
    BY <2>2, EffectLasts, StreamAssumption
  <2>3. CASE ~ Effect(GroupOf[c], e)
    <3>1. e \notin marked[GroupOf[c]] /\ stage[c][e] \notin {"mark", "ack"}
      BY <2>3, StreamAssumption DEF EffectInv
    <3>2. StageGroup
      BY DEF EffectInv
    <3>3. stage[c][e] = "render" => Effect(GroupOf[c], e)
      BY <2>1, <3>2 DEF StageGroup, At, Effect
    <3>4. \/ stage[c][e] \in {"turn", "collect", "single"} /\ e \in stored'
          \/ stage[c][e] = "show" /\ e \in shown'
          \/ stage[c][e] = "check" /\ stage'[c][e] = HandlerStart(GroupOf[c], e)
      BY <1>2, <2>1, <2>3, <3>1, <3>3 DEF StageMove, At
    <3>5. CASE stage[c][e] \in {"turn", "collect", "single"} /\ e \in stored'
      BY <2>1, <3>2, <3>5 DEF StageGroup, Effect
    <3>6. CASE stage[c][e] = "show" /\ e \in shown'
      BY <2>1, <3>2, <3>6 DEF StageGroup, Effect, At
    <3>7. CASE stage[c][e] = "check" /\ stage'[c][e] = HandlerStart(GroupOf[c], e)
      BY <1>2, <2>1, <2>3, <3>7 DEF HandlerStart, Effect
    <3> QED
      BY <3>4, <3>5, <3>6, <3>7
  <2> QED
    BY <2>2, <2>3
<1>3. ASSUME NEW g \in Groups, NEW e \in marked'[g]
      PROVE  Effect(g, e)'
  <2>1. e \in Entries /\ (e \in marked[g] \/ \E c \in Consumers :
                            GroupOf[c] = g /\ At(c, e, "mark"))
    <3>1. StreamTypeOK'
      BY TypeStep
    <3>2. e \in Entries
      BY <3>1 DEF StreamTypeOK
    <3> QED
      BY <3>2, GroupMoves DEF GroupMove
  <2>2. Effect(g, e)
    BY <2>1 DEF EffectInv, At
  <2> QED
    BY <2>1, <2>2, EffectLasts
<1> QED
  BY <1>1, <1>2, <1>3 DEF EffectInv

\* An acknowledged entry has had its effect or was buried.
LEMMA AckStep ==
    ASSUME StreamTypeOK, EffectInv, AckFollowsEffect, [StreamNext]_vars
    PROVE  AckFollowsEffect'
<1> SUFFICES ASSUME NEW g \in Groups, NEW e \in Entries, Settled(g, e)'
             PROVE  Effect(g, e)' \/ e \in dead'[g]
  BY DEF AckFollowsEffect
<1>1. GroupMove(g, e)
  BY GroupMoves
<1>2. /\ cursor[g] \in Nat /\ e \in Nat
  BY Numbers
<1>3. CASE Settled(g, e)
  BY <1>1, <1>3, EffectLasts DEF AckFollowsEffect, GroupMove
<1>4. CASE ~ Settled(g, e)
  <2>1. cursor[g] < e => FALSE
    BY <1>1, <1>2 DEF Settled, GroupMove
  <2>2. e \in pending[g] /\ e \notin pending'[g]
    BY <1>2, <1>4, <2>1 DEF Settled
  <2>3. PICK c \in Consumers : GroupOf[c] = g /\
            (At(c, e, "ack") \/ (At(c, e, "quarantine") /\ e \in dead'[g]))
    BY <1>1, <2>2 DEF GroupMove
  <2>4. At(c, e, "ack") => Effect(g, e)
    BY <2>3 DEF EffectInv, At
  <2> QED
    BY <2>3, <2>4, EffectLasts
<1> QED
  BY <1>3, <1>4

\* What a process works on, and what is pending or buried, was delivered.
BoundInv ==
    /\ \A g \in Groups, e \in Entries :
        e \in pending[g] \cup dead[g] => e <= cursor[g]
    /\ \A c \in Consumers, e \in Entries :
        e \in queue[c] \/ ~ At(c, e, "none") => e <= cursor[GroupOf[c]]

LEMMA QueueMoves ==
    ASSUME StreamTypeOK, [StreamNext]_vars, NEW c \in Consumers, NEW e \in Entries,
           e \in queue'[c], e \notin queue[c]
    PROVE  e <= cursor'[GroupOf[c]]
<1>1. CASE \E b \in Consumers : Read(b)
  BY <1>1, ReadGroupMove, StreamAssumption
<1>q. queue \in [Consumers -> SUBSET Entries]
  BY DEF StreamTypeOK
<1>2. ASSUME NEW b \in Consumers, Dispatch(b)
      PROVE  FALSE
  BY <1>q, <1>2 DEF Dispatch
<1>3. ASSUME NEW b \in Consumers, Crash(b)
      PROVE  FALSE
  BY <1>q, <1>3 DEF Crash, GoDown
<1>4. ASSUME UNCHANGED queue
      PROVE  FALSE
  BY <1>4
<1>5. ASSUME NEW b \in Consumers, NEW d \in Entries, EntryStep(b, d)
      PROVE  UNCHANGED queue
  <2>1. CASE Check(b, d)
    BY <2>1 DEF Check, Fail
  <2>2. CASE ~ Check(b, d)
    BY <1>5, <2>2, EntryMoves DEF Fail, Finish, Leave, Advance
  <2> QED
    BY <2>1, <2>2
<1>6. CASE \E b \in Consumers, j \in {JobOf[d] : d \in Entries} : Flush(b, j)
  BY <1>4, <1>6 DEF Flush, Fail
<1>7. CASE \E b \in Consumers, d \in Entries :
             \E seen \in 1 .. deliveries[GroupOf[b]][d] : Reclaim(b, d, seen)
  BY <1>4, <1>7 DEF Reclaim
<1>8. CASE \E b \in Cleaners : CleanStep(b)
  BY <1>4, <1>8 DEF CleanStep, CleanBegin, CleanRead, CleanTrim, readerVars
<1>9. CASE \/ Publish \/ UNCHANGED vars \/ \E b \in Consumers : Start(b)
           \/ \E g \in Groups, d \in Entries : MarkerExpires(g, d)
  BY <1>4, <1>9 DEF Publish, Start, MarkerExpires, vars, readerVars
<1>c. ASSUME NEW b \in Consumers, NEW d \in Entries, Check(b, d)
      PROVE  EntryStep(b, d)
  BY <1>c DEF EntryStep
<1> QED
  BY <1>1, <1>2, <1>3, <1>4, <1>5, <1>6, <1>7, <1>8, <1>9, <1>c, StreamSteps

LEMMA BoundStep ==
    ASSUME StreamTypeOK, BoundInv, [StreamNext]_vars
    PROVE  BoundInv'
<1>t. StreamTypeOK'
  BY TypeStep
<1>1. ASSUME NEW g \in Groups, NEW e \in Entries, e \in pending'[g] \cup dead'[g]
      PROVE  e <= cursor'[g]
  <2>1. GroupMove(g, e) /\ cursor[g] \in Nat /\ cursor'[g] \in Nat /\ e \in Nat
    BY <1>t, GroupMoves, Numbers DEF StreamTypeOK
  <2>2. e <= cursor[g] => e <= cursor'[g]
    BY <2>1 DEF GroupMove
  <2>3. CASE e \in dead'[g]
    <3>1. e \in dead[g] \/ \E c \in Consumers : GroupOf[c] = g /\ At(c, e, "quarantine")
      BY <2>1, <2>3 DEF GroupMove
    <3> QED
      BY <2>2, <3>1 DEF BoundInv, At
  <2>4. CASE e \in pending'[g]
    <3>1. CASE e \in pending[g]
      BY <2>2, <3>1 DEF BoundInv
    <3>2. CASE e \notin pending[g]
      BY <2>1, <2>4, <3>2 DEF GroupMove
    <3> QED
      BY <3>1, <3>2
  <2> QED
    BY <1>1, <2>3, <2>4
<1>2. ASSUME NEW c \in Consumers, NEW e \in Entries,
             e \in queue'[c] \/ stage'[c][e] # "none"
      PROVE  e <= cursor'[GroupOf[c]]
  <2> DEFINE g == GroupOf[c]
  <2>g. g \in Groups
    BY StreamAssumption
  <2>1. GroupMove(g, e) /\ cursor[g] \in Nat /\ cursor'[g] \in Nat /\ e \in Nat
    BY <1>t, <2>g, GroupMoves, Numbers DEF StreamTypeOK
  <2>2. e <= cursor[g] => e <= cursor'[g]
    BY <2>1 DEF GroupMove
  <2>3. CASE e \in queue'[c]
    BY <2>2, <2>3, QueueMoves DEF BoundInv
  <2>4. CASE stage'[c][e] # "none"
    <3>1. e \in queue[c] \/ e \in pending[g] \/ ~ At(c, e, "none")
      BY <2>4, StageMoves DEF StageMove, At
    <3> QED
      BY <2>g, <2>2, <3>1 DEF BoundInv
  <2> QED
    BY <1>2, <2>3, <2>4
<1> QED
  BY <1>1, <1>2 DEF BoundInv, At

\* An operation that quarantines an entry has a reason.
EarnedInv ==
    /\ BoundInv /\ StageGroup
    /\ \A c \in Consumers, e \in Entries :
        At(c, e, "quarantine") =>
            \/ e \in Refused[GroupOf[c]]
            \/ deliveries[GroupOf[c]][e] = MaxDeliveries
            \/ GroupOf[c] = Web /\ e \in stored

LEMMA DeliveriesStayExhausted ==
    ASSUME StreamTypeOK, BoundInv, [StreamNext]_vars,
           NEW g \in Groups, NEW e \in Entries, e <= cursor[g],
           deliveries[g][e] = MaxDeliveries
    PROVE  deliveries'[g][e] = MaxDeliveries
<1>1. StreamTypeOK'
  BY TypeStep
<1>2. deliveries'[g][e] \in 0 .. MaxDeliveries
  BY <1>1 DEF StreamTypeOK
<1>3. GroupMove(g, e) /\ cursor[g] \in Nat /\ e \in Nat /\ MaxDeliveries \in Nat
  BY GroupMoves, Numbers
<1> QED
  BY <1>2, <1>3 DEF GroupMove

LEMMA EarnedStep ==
    ASSUME StreamTypeOK, EarnedInv, [StreamNext]_vars
    PROVE  EarnedInv'
<1>1. BoundInv' /\ StageGroup'
  BY BoundStep, StageGroupStep DEF EarnedInv
<1>2. ASSUME NEW c \in Consumers, NEW e \in Entries, stage'[c][e] = "quarantine"
      PROVE  \/ e \in Refused[GroupOf[c]]
             \/ deliveries'[GroupOf[c]][e] = MaxDeliveries
             \/ GroupOf[c] = Web /\ e \in stored'
  <2> DEFINE g == GroupOf[c]
  <2>1. g \in Groups /\ stored \subseteq stored'
    BY StreamAssumption, EffectMoves DEF EffectMove
  <2>2. BoundInv /\ StageGroup
    BY DEF EarnedInv
  <2>3. CASE At(c, e, "quarantine")
    <3>1. e <= cursor[g]
      BY <2>2, <2>3 DEF BoundInv, At
    <3> QED
      BY <2>1, <2>2, <2>3, <3>1, DeliveriesStayExhausted DEF EarnedInv
  <2>4. CASE ~ At(c, e, "quarantine")
    <3>1. StageMove(c, e) /\ g \in {Web, Discord}
      BY StageMoves, <2>1 DEF Groups
    <3>2. \/ /\ stage[c][e] \in {"turn", "collect", "single"}
             /\ e \in Refused[Web] \cup stored'
          \/ stage[c][e] = "show" /\ e \in Refused[Discord]
          \/ e \in pending[g] /\ deliveries[g][e] = MaxDeliveries
      BY <1>2, <2>4, <3>1 DEF StageMove, At, HandlerStart
    <3>3. CASE /\ stage[c][e] \in {"turn", "collect", "single"}
               /\ e \in Refused[Web] \cup stored'
      BY <2>2, <3>3 DEF StageGroup
    <3>4. CASE stage[c][e] = "show" /\ e \in Refused[Discord]
      BY <2>2, <3>4 DEF StageGroup, At
    <3>5. CASE e \in pending[g] /\ deliveries[g][e] = MaxDeliveries
      <4>1. e <= cursor[g]
        BY <2>1, <2>2, <3>5 DEF BoundInv
      <4> QED
        BY <2>1, <2>2, <3>5, <4>1, DeliveriesStayExhausted
    <3> QED
      BY <3>2, <3>3, <3>4, <3>5
  <2> QED
    BY <2>3, <2>4
<1> QED
  BY <1>1, <1>2 DEF EarnedInv, At

LEMMA LossStep ==
    ASSUME StreamTypeOK, EarnedInv, LossIsEarned, [StreamNext]_vars
    PROVE  LossIsEarned'
<1> SUFFICES ASSUME NEW g \in Groups, NEW e \in dead'[g]
             PROVE  \/ e \in Refused[g]
                    \/ deliveries'[g][e] = MaxDeliveries
                    \/ g = Web /\ e \in stored'
  BY DEF LossIsEarned
<1>1. e \in Entries
  BY TypeStep DEF StreamTypeOK
<1>2. e \in dead[g] \/ \E c \in Consumers : GroupOf[c] = g /\ At(c, e, "quarantine")
  BY <1>1, GroupMoves DEF GroupMove
<1>3. /\ e <= cursor[g] /\ BoundInv
      /\ \/ e \in Refused[g]
         \/ deliveries[g][e] = MaxDeliveries
         \/ g = Web /\ e \in stored
  BY <1>1, <1>2 DEF EarnedInv, BoundInv, LossIsEarned, At
<1>4. stored \subseteq stored'
  BY <1>1, EffectMoves DEF EffectMove
<1> QED
  BY <1>1, <1>3, <1>4, DeliveriesStayExhausted

\* An entry is rendered by the process whose request inserted its row.
RenderInv ==
    /\ StageGroup
    /\ \A e \in Entries :
        /\ rendered[e] <= 1
        /\ rendered[e] = 1 => e \in stored
        /\ \A c \in Consumers : At(c, e, "render") =>
            /\ rendered[e] = 0
            /\ \A d \in Consumers : At(d, e, "render") => d = c

LEMMA RenderStep ==
    ASSUME StreamTypeOK, RenderInv, [StreamNext]_vars
    PROVE  RenderInv'
<1>1. StageGroup'
  BY StageGroupStep DEF RenderInv
<1> SUFFICES ASSUME NEW e \in Entries
             PROVE  /\ rendered'[e] <= 1
                    /\ rendered'[e] = 1 => e \in stored'
                    /\ \A c \in Consumers : stage'[c][e] = "render" =>
                        /\ rendered'[e] = 0
                        /\ \A d \in Consumers : stage'[d][e] = "render" => d = c
  BY <1>1 DEF RenderInv, At
<1>2. EffectMove(e) /\ \A c \in Consumers : StageMove(c, e)
  BY StageMoves, EffectMoves
<1>3. rendered[e] \in {0, 1} /\ (rendered[e] = 1 => e \in stored)
      /\ \A c \in Consumers : At(c, e, "render") => e \in stored
  BY DEF RenderInv, StageGroup, StreamTypeOK
<1>4. rendered'[e] <= 1 /\ (rendered'[e] = 1 => e \in stored')
  BY <1>2, <1>3 DEF EffectMove, RenderInv
<1>5. ASSUME NEW c \in Consumers, stage'[c][e] = "render"
      PROVE  /\ rendered'[e] = 0
             /\ \A d \in Consumers : stage'[d][e] = "render" => d = c
  <2>1. At(c, e, "render") \/ e \notin stored
    BY <1>2, <1>5 DEF StageMove, At, HandlerStart
  <2>2. rendered[e] = 0
    BY <1>3, <2>1 DEF RenderInv
  <2>3. rendered'[e] = 0
    <3>1. CASE At(c, e, "render")
      <4>1. \A d \in Consumers : At(d, e, "render") => d = c
        BY <3>1 DEF RenderInv
      <4> QED
        BY <1>2, <1>5, <2>2, <4>1 DEF EffectMove
    <3>2. CASE e \notin stored
      BY <1>2, <1>3, <2>2, <3>2 DEF EffectMove
    <3> QED
      BY <2>1, <3>1, <3>2
  <2>4. ASSUME NEW d \in Consumers, stage'[d][e] = "render", d # c
        PROVE  FALSE
    <3>1. At(d, e, "render") \/ e \notin stored
      BY <1>2, <2>4 DEF StageMove, At, HandlerStart
    <3>2. ~ At(c, e, "render") /\ ~ At(d, e, "render")
      <4>1. ~ (At(c, e, "render") /\ At(d, e, "render"))
        BY <2>4 DEF RenderInv
      <4> QED
        BY <1>3, <2>1, <3>1, <4>1
    <3>3. stage'[c] # stage[c] /\ stage'[d] # stage[d]
      BY <1>5, <2>4, <3>2 DEF At
    <3> QED
      BY <2>4, <3>3, OneProcess
  <2> QED
    BY <2>3, <2>4
<1> QED
  BY <1>4, <1>5

\* What a cleaner's pass found done stays done, so what it trims is.
CleanInv ==
    /\ BoundInv
    /\ \A c \in Cleaners : \A g \in LiveGroups \ pass[c].todo : \A e \in Entries :
        e < pass[c].frontier => Settled(g, e)
    /\ TrimmedIsSettled

LEMMA SettledLasts ==
    ASSUME StreamTypeOK, BoundInv, [StreamNext]_vars,
           NEW g \in Groups, NEW e \in Entries, Settled(g, e)
    PROVE  Settled(g, e)'
<1>1. StreamTypeOK'
  BY TypeStep
<1>2. cursor'[g] \in Nat
  BY <1>1, StreamAssumption DEF StreamTypeOK
<1>3. GroupMove(g, e) /\ cursor[g] \in Nat /\ e \in Nat
  BY GroupMoves, Numbers
<1> QED
  BY <1>2, <1>3 DEF GroupMove, Settled

\* How a step changes a cleaner's pass.
LEMMA PassMoves ==
    ASSUME StreamTypeOK, [StreamNext]_vars, NEW c \in Cleaners
    PROVE  \/ pass'[c] = pass[c] \/ pass'[c] = NoPass
           \/ CleanBegin(c) \/ \E g \in Groups : CleanRead(c, g)
<1>t. pass \in [Cleaners -> [todo : SUBSET Groups, frontier : 0 .. NumEntries + 1]]
  BY DEF StreamTypeOK
<1>1. CASE UNCHANGED pass
  BY <1>1
<1>2. ASSUME NEW b \in Cleaners, CleanStep(b)
      PROVE  \/ pass'[c] = pass[c] \/ pass'[c] = NoPass
             \/ CleanBegin(c) \/ \E g \in Groups : CleanRead(c, g)
  <2>1. CASE b = c
    <3>1. CASE CleanTrim(c)
      BY <1>t, <3>1 DEF CleanTrim
    <3> QED
      BY <1>2, <2>1, <3>1 DEF CleanStep
  <2>2. CASE b # c
    <3>1. CASE CleanBegin(b)
      <4>1. PICK v : pass' = [pass EXCEPT ![b] = v]
        BY <3>1 DEF CleanBegin
      <4> QED
        BY <1>t, <2>2, <4>1
    <3>2. ASSUME NEW g \in Groups, CleanRead(b, g)
          PROVE  pass'[c] = pass[c]
      <4>1. PICK v : pass' = [pass EXCEPT ![b] = v]
        BY <3>2 DEF CleanRead
      <4> QED
        BY <1>t, <2>2, <4>1
    <3>3. CASE CleanTrim(b)
      BY <1>t, <2>2, <3>3 DEF CleanTrim
    <3> QED
      BY <1>2, <3>1, <3>2, <3>3 DEF CleanStep
  <2> QED
    BY <2>1, <2>2
<1>3. CASE \E b \in Consumers : Crash(b)
  BY <1>t, <1>3 DEF Crash, GoDown
<1>4. CASE \E b \in Consumers, e \in Entries : EntryStep(b, e)
  <2>1. PICK b \in Consumers, e \in Entries : EntryStep(b, e)
    BY <1>4
  <2>2. CASE Check(b, e)
    BY <2>2 DEF Check
  <2>3. CASE ~ Check(b, e)
    BY <2>1, <2>3, EntryMoves
  <2> QED
    BY <2>2, <2>3
<1>5. CASE \E b \in Consumers : Read(b) \/ Dispatch(b) \/ Start(b)
  BY <1>5 DEF Read, Dispatch, Start
<1>6. CASE \E b \in Consumers, j \in {JobOf[e] : e \in Entries} : Flush(b, j)
  BY <1>6 DEF Flush
<1>7. CASE \E b \in Consumers, d \in Entries :
             \E seen \in 1 .. deliveries[GroupOf[b]][d] : Reclaim(b, d, seen)
  BY <1>7 DEF Reclaim
<1>8. CASE Publish \/ UNCHANGED vars \/ \E g \in Groups, d \in Entries : MarkerExpires(g, d)
  BY <1>8 DEF Publish, MarkerExpires, vars
<1>c. ASSUME NEW b \in Consumers, NEW d \in Entries, Check(b, d)
      PROVE  EntryStep(b, d)
  BY <1>c DEF EntryStep
<1> QED
  BY <1>2, <1>3, <1>4, <1>5, <1>6, <1>7, <1>8, <1>c, StreamSteps

\* Only a cleaner trims.
LEMMA TrimMoves ==
    ASSUME StreamTypeOK, [StreamNext]_vars
    PROVE  trimmed' = trimmed \/ \E c \in Cleaners : CleanTrim(c)
<1>1. CASE \E c \in Cleaners : CleanStep(c)
  BY <1>1 DEF CleanStep, CleanBegin, CleanRead, redisVars
<1>2. CASE \E b \in Consumers : Read(b) \/ Dispatch(b) \/ Start(b) \/ Crash(b)
  BY <1>2 DEF Read, Dispatch, Start, Crash, GoDown, redisVars
<1>3. CASE \E b \in Consumers, e \in Entries : EntryStep(b, e)
  <2>1. PICK b \in Consumers, e \in Entries : EntryStep(b, e)
    BY <1>3
  <2>2. CASE Check(b, e)
    BY <2>2 DEF Check, redisVars
  <2>3. CASE ~ Check(b, e)
    BY <2>1, <2>3, EntryMoves
  <2> QED
    BY <2>2, <2>3
<1>4. CASE \E b \in Consumers, j \in {JobOf[e] : e \in Entries} : Flush(b, j)
  BY <1>4 DEF Flush, redisVars
<1>5. CASE \E b \in Consumers, d \in Entries :
             \E seen \in 1 .. deliveries[GroupOf[b]][d] : Reclaim(b, d, seen)
  BY <1>5 DEF Reclaim
<1>6. CASE Publish \/ UNCHANGED vars \/ \E g \in Groups, d \in Entries : MarkerExpires(g, d)
  BY <1>6 DEF Publish, MarkerExpires, vars, redisVars
<1>c. ASSUME NEW b \in Consumers, NEW d \in Entries, Check(b, d)
      PROVE  EntryStep(b, d)
  BY <1>c DEF EntryStep
<1> QED
  BY <1>1, <1>2, <1>3, <1>4, <1>5, <1>6, <1>c, StreamSteps

LEMMA CleanStepSafe ==
    ASSUME StreamTypeOK, CleanInv, [StreamNext]_vars
    PROVE  CleanInv'
<1>b. BoundInv /\ BoundInv'
  BY BoundStep DEF CleanInv
<1>l. ASSUME NEW e \in Entries, NEW g \in LiveGroups'
      PROVE  g \in LiveGroups /\ g \in Groups
  BY EffectMoves, StreamAssumption DEF EffectMove, LiveGroups
<1>1. ASSUME NEW c \in Cleaners, NEW g \in LiveGroups', g \notin pass'[c].todo,
             NEW e \in Entries, e < pass'[c].frontier
      PROVE  Settled(g, e)
  <2>0. /\ g \in LiveGroups /\ g \in Groups /\ e \in Nat /\ e > 0
        /\ cursor[g] \in Nat
    BY <1>l, Numbers DEF Entries
  <2>1. CASE pass'[c] = pass[c]
    BY <1>1, <2>0, <2>1 DEF CleanInv
  <2>2. CASE pass'[c] = NoPass
    BY <1>1, <2>0, <2>2 DEF NoPass
  <2>t. pass \in [Cleaners -> [todo : SUBSET Groups, frontier : 0 .. NumEntries + 1]]
    BY DEF StreamTypeOK
  <2>3. CASE CleanBegin(c)
    <3>1. PICK f \in 0 .. NumEntries + 1 :
            /\ pass' = [pass EXCEPT ![c] =
                  [todo |-> {h \in LiveGroups : pending[h] # {}}, frontier |-> f]]
            /\ \A h \in LiveGroups : pending[h] = {} => f <= cursor[h]
      BY <2>3 DEF CleanBegin, IsLeast
    <3>2. pending[g] = {} /\ e < f
      BY <1>1, <2>0, <2>t, <3>1
    <3> QED
      BY <2>0, <3>1, <3>2 DEF Settled
  <2>4. ASSUME NEW h \in Groups, CleanRead(c, h), pass'[c] # NoPass
        PROVE  Settled(g, e)
    <3>1. PICK f \in 0 .. NumEntries + 1 :
            /\ IsLeast(f, {pass[c].frontier} \cup pending[h])
            /\ pass' = [pass EXCEPT ![c] = [todo |-> @.todo \ {h}, frontier |-> f]]
      BY <2>4, <2>t DEF CleanRead
    <3>2. /\ pass'[c].todo = pass[c].todo \ {h} /\ pass'[c].frontier = f
          /\ f <= pass[c].frontier /\ \A x \in pending[h] : f <= x
          /\ pass[c].frontier \in 0 .. NumEntries + 1
      BY <2>t, <3>1 DEF IsLeast
    <3>3. CASE g # h
      <4>1. e < pass[c].frontier
        BY <1>1, <2>0, <3>2, StreamAssumption
      <4> QED
        BY <1>1, <2>0, <3>2, <3>3, <4>1 DEF CleanInv
    <3>4. CASE g = h
      <4>1. PICK x \in pending[h] : TRUE
        BY <2>4, <2>t DEF CleanRead
      <4>2. x \in Entries /\ x \in Nat /\ x <= cursor[g]
        BY <1>b, <2>0, <3>4, <4>1, Numbers DEF StreamTypeOK, BoundInv
      <4>3. e < x /\ e \notin pending[g]
        BY <1>1, <2>0, <3>2, <3>4, <4>1, <4>2
      <4> QED
        BY <2>0, <4>2, <4>3 DEF Settled
    <3> QED
      BY <3>3, <3>4
  <2> QED
    BY <2>1, <2>2, <2>3, <2>4, PassMoves
<1>2. ASSUME NEW e \in 1 .. trimmed', NEW g \in LiveGroups'
      PROVE  Settled(g, e) /\ e \in Entries
  <2>1. trimmed' \in 0 .. NumEntries /\ trimmed \in 0 .. NumEntries
    BY TypeStep DEF StreamTypeOK
  <2>2. e \in Entries
    BY <2>1, StreamAssumption DEF Entries
  <2>3. CASE e \in 1 .. trimmed
    BY <1>l, <2>2, <2>3 DEF CleanInv, TrimmedIsSettled
  <2>4. CASE e \notin 1 .. trimmed
    <3>1. PICK c \in Cleaners : CleanTrim(c)
      BY <2>4, TrimMoves
    <3>2. pass[c].todo = {} /\ e < pass[c].frontier
      <4>1. pass[c].frontier \in 0 .. NumEntries + 1
        BY DEF StreamTypeOK
      <4> QED
        BY <2>1, <2>4, <3>1, <4>1, StreamAssumption DEF CleanTrim
    <3> QED
      BY <1>l, <2>2, <3>2 DEF CleanInv
  <2> QED
    BY <2>2, <2>3, <2>4
<1>3. ASSUME NEW g \in LiveGroups', NEW e \in Entries, Settled(g, e)
      PROVE  Settled(g, e)'
  BY <1>b, <1>l, <1>3, SettledLasts
<1> QED
  BY <1>b, <1>1, <1>2, <1>3 DEF CleanInv, TrimmedIsSettled
\* What a step does to the page and the turns of process c, apart from the
\* dispatch of a new page.
TurnMove(c, d, e) ==
    /\ e \in page'[c] => e \in page[c] /\ (stage'[c][e] = "none" => At(c, e, "none"))
    /\ stage'[c][e] = "check" => stage[c][e] \in {"check", "none"}
    /\ ~ At(c, e, "check") => ahead'[c][e] \subseteq ahead[c][e]
    /\ d \in ahead[c][e] =>
        \/ d \in ahead'[c][e] \/ At(c, e, "check")
        \/ stage'[c][d] \notin {"turn", "render"}
    /\ At(c, e, "check") /\ stage'[c][e] = "turn" =>
        /\ d \in AtTurnstile(c, JobOf[e]) => d \in ahead'[c][e]
        /\ d \in page[c] /\ e \in page[c] /\ d < e => ~ At(c, d, "check")

LEMMA SameTurnMove ==
    ASSUME NEW c, NEW d, NEW e,
           page'[c] = page[c], stage'[c] = stage[c], ahead'[c] = ahead[c]
    PROVE  TurnMove(c, d, e)
BY DEF TurnMove, At

LEMMA EntryTurnMove ==
    ASSUME StreamTypeOK, NEW b \in Consumers, NEW x \in Entries, EntryStep(b, x),
           NEW c \in Consumers, NEW d \in Entries, NEW e \in Entries
    PROVE  TurnMove(c, d, e)
<1>t. /\ stage \in [Consumers -> [Entries -> Stages]]
      /\ page \in [Consumers -> SUBSET Entries]
      /\ ahead \in [Consumers -> [Entries -> SUBSET Entries]]
  BY DEF StreamTypeOK
<1>1. ASSUME NEW s \in Stages \ {"none", "check"}, ~ At(b, x, "check"),
             Leave(b, x, s), s \notin {"turn", "render"}
      PROVE  TurnMove(c, d, e)
  BY <1>t, <1>1 DEF Leave, Goto, Release, TurnMove, At
<1>2. ASSUME NEW s \in Stages \ {"none", "check", "turn"}, Advance(b, x, s)
      PROVE  TurnMove(c, d, e)
  BY <1>t, <1>2 DEF Advance, Goto, TurnMove, At
<1>3. ASSUME Fail(b, {x})
      PROVE  TurnMove(c, d, e)
  BY <1>t, <1>3 DEF Fail, Release, TurnMove, At
<1>4. ASSUME Finish(b, x)
      PROVE  TurnMove(c, d, e)
  BY <1>t, <1>4 DEF Finish, Goto, TurnMove, At
<1> USE DEF Stages
<1>5. CASE PersistCanonical(b, x) \/ PersistAnswerUnreadable(b, x)
  BY <1>1, <1>2, <1>5 DEF PersistCanonical, PersistAnswerUnreadable, At
<1>6. CASE PersistCanonicalFails(b, x) \/ Clear(b, x) \/ Quarantine(b, x)
  BY <1>3, <1>4, <1>6 DEF PersistCanonicalFails, Clear, Quarantine
<1>7. CASE Render(b, x)
  BY <1>1, <1>3, <1>7 DEF Render, At
<1>8. CASE PersistSingle(b, x) \/ Show(b, x)
  BY <1>2, <1>3, <1>8 DEF PersistSingle, Show
<1>9. CASE Mark(b, x) \/ Ack(b, x)
  BY <1>2, <1>3, <1>9 DEF Mark, Ack
<1>10. CASE Check(b, x)
  <2>1. CASE Fail(b, {x})
    BY <2>1, <1>3
  <2>2. CASE ~ Fail(b, {x})
    <3> DEFINE next == IF x \in marked[GroupOf[b]] THEN "ack"
                       ELSE HandlerStart(GroupOf[b], x)
    <3>1. /\ next \in Stages /\ next \notin {"none", "check"}
      BY DEF HandlerStart
    <3>2. /\ At(b, x, "check")
          /\ x \in page[b] => \A y \in page[b] : y < x => ~ At(b, y, "check")
          /\ Goto(b, x, next)
          /\ ahead' = IF next = "turn"
                      THEN [ahead EXCEPT ![b][x] = AtTurnstile(b, JobOf[x])]
                      ELSE ahead
          /\ page' = page
      BY <1>10, <2>2 DEF Check
    <3> HIDE DEF next
    <3>3. stage'[c][e] = IF c = b /\ e = x THEN next ELSE stage[c][e]
      BY <1>t, <3>2 DEF Goto
    <3>4. CASE next # "turn"
      BY <1>t, <3>1, <3>2, <3>3, <3>4 DEF TurnMove, At
    <3>5. CASE next = "turn"
      <4>1. ahead'[c][e] = IF c = b /\ e = x THEN AtTurnstile(b, JobOf[x])
                           ELSE ahead[c][e]
        BY <1>t, <3>2, <3>5
      <4>2. CASE c = b /\ e = x
        BY <3>1, <3>2, <3>3, <3>5, <4>1, <4>2 DEF TurnMove, At
      <4>3. CASE ~ (c = b /\ e = x)
        BY <3>2, <3>3, <4>1, <4>3 DEF TurnMove, At
      <4> QED
        BY <4>2, <4>3
    <3> QED
      BY <3>4, <3>5
  <2> QED
    BY <2>1, <2>2
<1> QED
  BY <1>5, <1>6, <1>7, <1>8, <1>9, <1>10 DEF EntryStep

LEMMA TurnMoves ==
    ASSUME StreamTypeOK, [StreamNext]_vars,
           NEW c \in Consumers, NEW d \in Entries, NEW e \in Entries
    PROVE  TurnMove(c, d, e) \/ Dispatch(c)
<1>t. /\ stage \in [Consumers -> [Entries -> Stages]]
      /\ page \in [Consumers -> SUBSET Entries]
      /\ ahead \in [Consumers -> [Entries -> SUBSET Entries]]
  BY DEF StreamTypeOK
<1>0. ASSUME UNCHANGED <<page, stage, ahead>>
      PROVE  TurnMove(c, d, e)
  BY <1>0, SameTurnMove
<1>1. ASSUME NEW b \in Consumers, Dispatch(b)
      PROVE  TurnMove(c, d, e) \/ Dispatch(c)
  BY <1>t, <1>1, SameTurnMove DEF Dispatch
<1>2. ASSUME NEW b \in Consumers, Crash(b)
      PROVE  TurnMove(c, d, e)
  <2>1. CASE b = c
    BY <1>t, <1>2, <2>1 DEF Crash, GoDown, TurnMove
  <2>2. CASE b # c
    BY <1>t, <1>2, <2>2, SameTurnMove DEF Crash, GoDown
  <2> QED
    BY <2>1, <2>2
<1>3. ASSUME NEW b \in Consumers, NEW x \in Entries, NEW seen, Reclaim(b, x, seen)
      PROVE  TurnMove(c, d, e)
  <2>1. /\ At(b, x, "none") /\ UNCHANGED <<page, ahead>>
        /\ Goto(b, x, IF seen >= MaxDeliveries THEN "quarantine" ELSE "check")
    BY <1>3 DEF Reclaim, Reclaimable
  <2>2. \A y \in Entries :
            stage'[c][y] = IF c = b /\ y = x
                           THEN IF seen >= MaxDeliveries THEN "quarantine" ELSE "check"
                           ELSE stage[c][y]
    BY <1>t, <2>1 DEF Goto
  <2> QED
    BY <2>1, <2>2 DEF TurnMove, At
<1>4. ASSUME NEW b \in Consumers, NEW j, Flush(b, j)
      PROVE  TurnMove(c, d, e)
  <2> DEFINE S == Collected(b, j)
  <2>1. S \subseteq Entries /\ \A y \in S : At(b, y, "collect")
    BY DEF Collected
  <2>2. CASE Fail(b, S)
    BY <1>t, <2>1, <2>2 DEF Fail, Release, TurnMove, At
  <2>3. CASE ~ Fail(b, S)
    <3>1. PICK s \in {"mark", "quarantine", "single"} :
            /\ stage' = [stage EXCEPT ![b] = [y \in Entries |->
                              IF y \in S THEN s ELSE @[y]]]
            /\ UNCHANGED <<page, ahead>>
      BY <1>4, <2>3 DEF Flush
    <3>2. \A y \in Entries :
            stage'[c][y] = IF c = b /\ y \in S THEN s ELSE stage[c][y]
      BY <1>t, <3>1
    <3> QED
      BY <2>1, <3>1, <3>2 DEF TurnMove, At
  <2> QED
    BY <2>2, <2>3
<1>5. CASE \E b \in Consumers, x \in Entries : EntryStep(b, x)
  BY <1>5, EntryTurnMove
<1>6. CASE \E b \in Cleaners : CleanStep(b)
  BY <1>0, <1>6 DEF CleanStep, CleanBegin, CleanRead, CleanTrim, readerVars
<1>7. CASE \/ Publish \/ UNCHANGED vars \/ (\E b \in Consumers : Read(b) \/ Start(b))
           \/ \E g \in Groups, x \in Entries : MarkerExpires(g, x)
  BY <1>0, <1>7 DEF Publish, Read, Start, MarkerExpires, vars, readerVars
<1>c. ASSUME NEW b \in Consumers, NEW x \in Entries, Check(b, x)
      PROVE  EntryStep(b, x)
  BY <1>c DEF EntryStep
<1> QED
  BY <1>1, <1>2, <1>3, <1>4, <1>5, <1>6, <1>7, <1>c, StreamSteps

\* Among the entries of a page that belong to one job, one that has joined
\* the turnstile waits for every earlier one that is there, and none comes
\* later.
TurnInv ==
    \A c \in Consumers :
        /\ \A e \in Entries : At(c, e, "render") => HoldsTurn(c, e)
        /\ \A d, e \in Entries :
            /\ e \in page[c] => ~ At(c, e, "none")
            /\ (/\ d \in page[c] /\ e \in page[c] /\ d < e /\ JobOf[d] = JobOf[e]
                /\ stage[c][e] \in {"turn", "render"}) =>
                    /\ ~ At(c, d, "check")
                    /\ stage[c][d] \in {"turn", "render"} => d \in ahead[c][e]

LEMMA TurnStep ==
    ASSUME StreamTypeOK, TurnInv, [StreamNext]_vars
    PROVE  TurnInv'
<1> SUFFICES ASSUME NEW c \in Consumers, NEW d \in Entries, NEW e \in Entries
             PROVE  /\ stage'[c][e] = "render" => ahead'[c][e] = {}
                    /\ e \in page'[c] => stage'[c][e] # "none"
                    /\ (/\ d \in page'[c] /\ e \in page'[c] /\ d < e
                        /\ JobOf[d] = JobOf[e]
                        /\ stage'[c][e] \in {"turn", "render"}) =>
                            /\ stage'[c][d] # "check"
                            /\ stage'[c][d] \in {"turn", "render"} => d \in ahead'[c][e]
  BY DEF TurnInv, At, HoldsTurn
<1>1. CASE Dispatch(c)
  <2>1. /\ page'[c] = NextPage(c) /\ ahead' = ahead
        /\ \A x \in Entries :
            stage'[c][x] = IF x \in NextPage(c) THEN "check" ELSE stage[c][x]
    BY <1>1 DEF Dispatch, StreamTypeOK
  <2> QED
    BY <2>1 DEF TurnInv, At, HoldsTurn
<1>2. CASE ~ Dispatch(c)
  <2>1. TurnMove(c, d, e) /\ TurnMove(c, e, d)
    BY <1>2, TurnMoves
  <2>2. StageMove(c, d) /\ StageMove(c, e)
    BY StageMoves
  <2>3. /\ stage'[c][d] \in {"turn", "render"} => stage[c][d] \in {"turn", "render", "check"}
        /\ stage'[c][e] \in {"turn", "render"} => stage[c][e] \in {"turn", "render", "check"}
        /\ stage'[c][e] \in {"turn", "render"} /\ At(c, e, "check") => stage'[c][e] = "turn"
    BY <2>2 DEF StageMove, At, HandlerStart
  <2>4. stage'[c][e] = "render" => ahead'[c][e] = {}
    <3>1. stage'[c][e] = "render" =>
            At(c, e, "render") \/ (At(c, e, "turn") /\ HoldsTurn(c, e))
      BY <2>2 DEF StageMove, At, HandlerStart
    <3> QED
      BY <2>1, <3>1 DEF TurnMove, TurnInv, At, HoldsTurn
  <2>5. e \in page'[c] => stage'[c][e] # "none"
    BY <2>1 DEF TurnMove, TurnInv
  <2>6. ASSUME d \in page'[c], e \in page'[c], d < e, JobOf[d] = JobOf[e],
               stage'[c][e] \in {"turn", "render"}
        PROVE  /\ stage'[c][d] # "check"
               /\ stage'[c][d] \in {"turn", "render"} => d \in ahead'[c][e]
    <3>1. d \in page[c] /\ e \in page[c]
      BY <2>1, <2>6 DEF TurnMove
    <3>2. stage[c][d] # "check"
      BY <2>1, <2>3, <2>6, <3>1 DEF TurnMove, TurnInv, At
    <3>3. stage'[c][d] # "check"
      BY <2>1, <3>1, <3>2 DEF TurnMove, TurnInv, At
    <3>4. ASSUME stage'[c][d] \in {"turn", "render"}
          PROVE  d \in ahead'[c][e]
      <4>1. stage[c][d] \in {"turn", "render"}
        BY <2>3, <3>2, <3>4
      <4>2. CASE At(c, e, "check")
        <5>1. d \in AtTurnstile(c, JobOf[e])
          BY <2>6, <4>1 DEF AtTurnstile
        <5> QED
          BY <2>1, <2>3, <2>6, <4>2, <5>1 DEF TurnMove
      <4>3. CASE ~ At(c, e, "check")
        <5>1. d \in ahead[c][e]
          BY <2>3, <2>6, <3>1, <4>1, <4>3 DEF TurnInv, At
        <5> QED
          BY <2>1, <3>4, <4>3, <5>1 DEF TurnMove
      <4> QED
        BY <4>2, <4>3
    <3> QED
      BY <3>3, <3>4
  <2> QED
    BY <2>4, <2>5, <2>6
<1> QED
  BY <1>1, <1>2
-----------------------------------------------------------------------------
(* The theorems                                                            *)

LEMMA InitInvariants ==
    StreamInit => /\ EffectInv /\ AckFollowsEffect /\ EarnedInv
                  /\ LossIsEarned /\ RenderInv /\ CleanInv
<1> SUFFICES ASSUME StreamInit
             PROVE  /\ EffectInv /\ AckFollowsEffect /\ EarnedInv
                    /\ LossIsEarned /\ RenderInv /\ CleanInv
  OBVIOUS
<1>1. /\ \A g \in Groups : cursor[g] = 0 /\ pending[g] = {} /\ dead[g] = {}
                             /\ marked[g] = {}
      /\ \A c \in Consumers, e \in Entries : stage[c][e] = "none" /\ queue[c] = {}
      /\ \A e \in Entries : rendered[e] = 0 /\ e \in Nat /\ e > 0
      /\ \A c \in Cleaners : pass[c].frontier = 0
      /\ trimmed = 0
  BY DEF StreamInit, NoPass, Entries
<1>2. StageGroup /\ EffectInv
  BY <1>1 DEF StageGroup, EffectInv, At
<1>3. AckFollowsEffect /\ LossIsEarned
  BY <1>1 DEF AckFollowsEffect, LossIsEarned, Settled
<1>4. BoundInv /\ EarnedInv
  BY <1>1, <1>2 DEF BoundInv, EarnedInv, At
<1>5. RenderInv
  BY <1>1, <1>2 DEF RenderInv, At
<1>6. CleanInv
  BY <1>1, <1>4 DEF CleanInv, TrimmedIsSettled
<1> QED
  BY <1>2, <1>3, <1>4, <1>5, <1>6

\* An entry leaves a pending list only after its effect or as a dead letter
\* (runProcess: handle, mark, XACK; moveToDlq: one script).
THEOREM AckFollowsEffectCorrect == StreamSpec => []AckFollowsEffect
<1>1. StreamTypeOK /\ EffectInv /\ AckFollowsEffect /\ [StreamNext]_vars
        => EffectInv' /\ AckFollowsEffect'
  BY EffectStep, AckStep
<1> QED
  BY <1>1, InitInvariants, StreamTypeCorrect, PTL DEF StreamSpec

\* An event is published live at most once, by the process whose request
\* inserted its row.
THEOREM RenderedAtMostOnceCorrect == StreamSpec => []RenderedAtMostOnce
<1>1. StreamTypeOK /\ RenderInv /\ [StreamNext]_vars => RenderInv'
  BY RenderStep
<1>2. RenderInv => RenderedAtMostOnce
  BY DEF RenderInv, RenderedAtMostOnce
<1> QED
  BY <1>1, <1>2, InitInvariants, StreamTypeCorrect, PTL DEF StreamSpec

\* The cleaner trims nothing a group still works on, although the groups move
\* between its reads.
THEOREM TrimmedIsSettledCorrect == StreamSpec => []TrimmedIsSettled
<1>1. StreamTypeOK /\ CleanInv /\ [StreamNext]_vars => CleanInv'
  BY CleanStepSafe
<1>2. CleanInv => TrimmedIsSettled
  BY DEF CleanInv
<1> QED
  BY <1>1, <1>2, InitInvariants, StreamTypeCorrect, PTL DEF StreamSpec

\* A dead letter was refused itself, ran out of deliveries, or has its row:
\* no event is lost for another that shared its request (the collector's
\* isolation of a refused batch) or for an answer that could not be read.
THEOREM LossIsEarnedCorrect == StreamSpec => []LossIsEarned
<1>1. StreamTypeOK /\ EarnedInv /\ LossIsEarned /\ [StreamNext]_vars
        => EarnedInv' /\ LossIsEarned'
  BY EarnedStep, LossStep
<1> QED
  BY <1>1, InitInvariants, StreamTypeCorrect, PTL DEF StreamSpec

\* Canonical events of one job dispatched together are rendered in order.
THEOREM RenderInPageOrderCorrect == StreamSpec => []RenderInPageOrder
<1>1. StreamInit => TurnInv
  BY DEF StreamInit, TurnInv, At
<1>2. StreamTypeOK /\ TurnInv /\ [StreamNext]_vars => TurnInv'
  BY TurnStep
<1>3. StreamTypeOK /\ TurnInv => RenderInPageOrder
  <2> SUFFICES ASSUME StreamTypeOK, TurnInv, NEW c \in Consumers,
                      NEW d \in page[c], NEW e \in page[c],
                      d < e, JobOf[d] = JobOf[e], At(c, e, "render")
               PROVE  stage[c][d] \notin {"check", "turn", "render"}
    BY DEF RenderInPageOrder
  <2>1. d \in Entries /\ e \in Entries
    BY DEF StreamTypeOK
  <2>2. ahead[c][e] = {}
    BY <2>1 DEF TurnInv, HoldsTurn
  <2> QED
    BY <2>1, <2>2 DEF TurnInv, At
<1> QED
  BY <1>1, <1>2, <1>3, StreamTypeCorrect, PTL DEF StreamSpec
-----------------------------------------------------------------------------
(* The stream, its readers and its cleaner implement EventDelivery: every  *)
(* step of a process is a step of the promise, or none.                    *)

effectBar == [g \in Groups |-> {e \in Entries : Effect(g, e)}]
settledBar == [g \in Groups |-> {e \in Entries : Settled(g, e)}]

\* What a reader has received was published.
PublishedInv ==
    \A g \in Groups, e \in Entries : e <= cursor[g] => e <= published

DeliveryInv ==
    /\ StreamTypeOK /\ PublishedInv /\ BoundInv /\ EffectInv /\ RenderInv /\ CleanInv

LEMMA PublishedStep ==
    ASSUME StreamTypeOK, PublishedInv, [StreamNext]_vars
    PROVE  PublishedInv'
<1> SUFFICES ASSUME NEW g \in Groups, NEW e \in Entries, e <= cursor'[g]
             PROVE  e <= published'
  BY DEF PublishedInv
<1>1. published' \in Nat
  BY TypeStep, StreamAssumption DEF StreamTypeOK
<1>2. /\ GroupMove(g, e) /\ EffectMove(e)
      /\ cursor[g] \in Nat /\ e \in Nat /\ published \in Nat
  BY GroupMoves, EffectMoves, Numbers
<1>3. CASE e <= cursor[g]
  BY <1>1, <1>2, <1>3 DEF PublishedInv, EffectMove
<1>4. CASE cursor[g] < e
  BY <1>1, <1>2, <1>4 DEF GroupMove, EffectMove
<1> QED
  BY <1>2, <1>3, <1>4

LEMMA DeliveryInvariant == StreamSpec => []DeliveryInv
<1>1. StreamInit => DeliveryInv
  <2>1. StreamInit => PublishedInv
    BY DEF StreamInit, PublishedInv
  <2> QED
    BY <2>1, InitStreamType, InitInvariants DEF DeliveryInv, CleanInv
<1>2. DeliveryInv /\ [StreamNext]_vars => DeliveryInv'
  BY TypeStep, PublishedStep, BoundStep, EffectStep, RenderStep, CleanStepSafe
  DEF DeliveryInv
<1> QED
  BY <1>1, <1>2, PTL DEF StreamSpec

LEMMA InitDelivers == StreamInit => Promise!DeliveryInit
<1> SUFFICES ASSUME StreamInit
             PROVE  Promise!DeliveryInit
  OBVIOUS
<1>1. effectBar = [g \in Groups |-> {}]
  BY DEF effectBar, Effect, StreamInit
<1>2. settledBar = [g \in Groups |-> {}]
  <2>1. \A e \in Entries : ~ (e <= 0)
    BY StreamAssumption DEF Entries
  <2> QED
    BY <2>1 DEF settledBar, Settled, StreamInit
<1>3. LiveGroups \subseteq Groups
  BY StreamAssumption DEF LiveGroups
<1> QED
  BY <1>1, <1>2, <1>3 DEF Promise!DeliveryInit, effectBar, settledBar, StreamInit

\* A step that concerns none of what the promise is about.
LEMMA Unconcerned ==
    ASSUME UNCHANGED <<published, native, trimmed, cursor, pending, dead, stored,
                       rendered, shown>>,
           LiveGroups' = LiveGroups
    PROVE  UNCHANGED Promise!deliveryVars
<1>1. effectBar' = effectBar /\ settledBar' = settledBar
  BY DEF effectBar, settledBar, Effect, Settled
<1> QED
  BY <1>1 DEF Promise!deliveryVars, effectBar, settledBar

\* The modes of the processes may change while every group stays.
LEMMA SameGroups ==
    ASSUME StreamTypeOK, [StreamNext]_vars, NEW e \in Entries
    PROVE  LiveGroups' = LiveGroups
BY EffectMoves DEF EffectMove

LEMMA PublishDelivers ==
    ASSUME DeliveryInv, Publish
    PROVE  Promise!Send
<1>1. /\ published \in 0 .. NumEntries /\ published < NumEntries
      /\ published' = published + 1
      /\ \/ native' = native
         \/ native' = native \cup {published + 1}
      /\ UNCHANGED <<trimmed, cursor, pending, dead, stored, rendered, shown, mode>>
  BY DEF Publish, DeliveryInv, StreamTypeOK, effectVars, readerVars
<1>2. published + 1 \in Entries
  BY <1>1, StreamAssumption DEF Entries
<1>3. settledBar' = settledBar /\ LiveGroups' = LiveGroups
  BY <1>1 DEF settledBar, Settled, LiveGroups
<1>4. \E R \in SUBSET (Groups \ {Web}) :
        effectBar' = [r \in Groups |->
            IF r \in R THEN effectBar[r] \cup {published + 1} ELSE effectBar[r]]
  <2> DEFINE After(R) == [r \in Groups |->
            IF r \in R THEN effectBar[r] \cup {published + 1} ELSE effectBar[r]]
  <2>1. CASE native' = native
    <3>1. effectBar' = effectBar
      BY <1>1, <2>1 DEF effectBar, Effect
    <3>2. effectBar = [r \in Groups |-> effectBar[r]]
      BY DEF effectBar
    <3>3. effectBar' = After({})
      BY <3>1, <3>2, SMT
    <3>4. {} \in SUBSET (Groups \ {Web})
      OBVIOUS
    <3> QED
      BY <3>3, <3>4
  <2>2. CASE native' = native \cup {published + 1}
    <3>1. {Discord} \in SUBSET (Groups \ {Web})
      BY StreamAssumption DEF Groups
    <3>2. \A g \in Groups : effectBar'[g] =
            IF g \in {Discord} THEN effectBar[g] \cup {published + 1} ELSE effectBar[g]
      BY <1>1, <1>2, <2>2, StreamAssumption DEF effectBar, Effect, Groups
    <3>3. effectBar' = After({Discord})
      BY <3>2 DEF effectBar
    <3> QED
      BY <3>1, <3>3
  <2> QED
    BY <1>1, <2>1, <2>2
<1> QED
  BY <1>1, <1>2, <1>3, <1>4 DEF Promise!Send, effectBar, settledBar

\* An effect on some entries, and nothing else.
LEMMA EffectDelivers ==
    ASSUME DeliveryInv, stored \subseteq stored', shown \subseteq shown',
           stored' \in SUBSET Entries, shown' \in SUBSET Entries,
           UNCHANGED stored \/ UNCHANGED shown,
           UNCHANGED <<published, native, trimmed, cursor, pending, dead, rendered, mode>>
    PROVE  [Promise!DeliveryNext]_(Promise!deliveryVars)
<1>1. settledBar' = settledBar /\ LiveGroups' = LiveGroups
  BY DEF settledBar, Settled, LiveGroups
<1>2. Web \in Groups /\ Discord \in Groups /\ Web # Discord
  BY StreamAssumption DEF Groups
<1>3. CASE UNCHANGED shown
  <2>1. effectBar' = [effectBar EXCEPT ![Web] = @ \cup stored']
    <3>1. \A g \in Groups : effectBar'[g] =
            IF g = Web THEN effectBar[g] \cup stored' ELSE effectBar[g]
      BY <1>2, <1>3 DEF effectBar, Effect, Groups
    <3> QED
      BY <1>2, <3>1 DEF effectBar
  <2>2. Promise!Perform(Web)
    BY <1>1, <2>1 DEF Promise!Perform, effectBar, settledBar
  <2> QED
    BY <1>2, <2>2 DEF Promise!DeliveryNext
<1>4. CASE UNCHANGED stored
  <2>1. effectBar' = [effectBar EXCEPT ![Discord] = @ \cup shown']
    <3>1. \A g \in Groups : effectBar'[g] =
            IF g = Discord THEN effectBar[g] \cup shown' ELSE effectBar[g]
      BY <1>2, <1>4 DEF effectBar, Effect, Groups
    <3> QED
      BY <1>2, <3>1 DEF effectBar
  <2>2. Promise!Perform(Discord)
    BY <1>1, <2>1 DEF Promise!Perform, effectBar, settledBar
  <2> QED
    BY <1>2, <2>2 DEF Promise!DeliveryNext
<1> QED
  BY <1>3, <1>4

LEMMA RenderDelivers ==
    ASSUME DeliveryInv, NEW c \in Consumers, NEW e \in Entries, Render(c, e),
           ~ UNCHANGED rendered
    PROVE  Promise!GoLive(e)
<1>1. /\ At(c, e, "render")
      /\ rendered' = [rendered EXCEPT ![e] = IF @ < 2 THEN @ + 1 ELSE 2]
      /\ UNCHANGED <<published, native, trimmed, cursor, pending, dead, stored, shown, mode>>
  BY DEF Render, Leave, Fail, redisVars
<1>2. rendered[e] = 0 /\ e \in stored /\ rendered \in [Entries -> 0 .. 2]
  BY <1>1 DEF DeliveryInv, RenderInv, StageGroup, StreamTypeOK
<1>3. rendered' = [rendered EXCEPT ![e] = 1]
  BY <1>1, <1>2
<1>4. effectBar' = effectBar /\ settledBar' = settledBar /\ LiveGroups' = LiveGroups
  BY <1>1 DEF effectBar, settledBar, Effect, Settled, LiveGroups
<1>5. e \in effectBar[Web]
  BY <1>2 DEF effectBar, Effect, Groups
<1> QED
  BY <1>1, <1>2, <1>3, <1>4, <1>5 DEF Promise!GoLive, effectBar, settledBar

\* An entry leaves the pending list of its group.
LEMMA SettledBar ==
    ASSUME DeliveryInv, NEW h \in Groups, NEW e \in Entries, e <= cursor[h],
           pending' = [pending EXCEPT ![h] = @ \ {e}], UNCHANGED cursor
    PROVE  settledBar' = [settledBar EXCEPT ![h] = @ \cup {e}]
<1>1. pending \in [Groups -> SUBSET Entries]
  BY DEF DeliveryInv, StreamTypeOK
<1>2. \A g \in Groups : settledBar'[g] =
        IF g = h THEN settledBar[g] \cup {e} ELSE settledBar[g]
  BY <1>1 DEF settledBar, Settled
<1> QED
  BY <1>2 DEF settledBar

LEMMA AckDelivers ==
    ASSUME DeliveryInv, NEW c \in Consumers, NEW e \in Entries, Ack(c, e),
           ~ UNCHANGED pending
    PROVE  Promise!Settle(GroupOf[c], e) /\ GroupOf[c] \in Groups
<1> DEFINE h == GroupOf[c]
<1>1. /\ At(c, e, "ack") /\ h \in Groups
      /\ pending' = [pending EXCEPT ![h] = @ \ {e}]
      /\ UNCHANGED <<published, native, trimmed, cursor, dead, stored, shown, rendered,
                     mode>>
  BY StreamAssumption DEF Ack, Advance, Fail, effectVars
<1>2. e <= cursor[h] /\ e <= published /\ Effect(h, e)
  BY <1>1 DEF DeliveryInv, BoundInv, PublishedInv, EffectInv, At
<1>3. settledBar' = [settledBar EXCEPT ![h] = @ \cup {e}]
  BY <1>1, <1>2, SettledBar
<1>4. effectBar' = effectBar /\ LiveGroups' = LiveGroups /\ e \in effectBar[h]
  BY <1>1, <1>2 DEF effectBar, Effect, LiveGroups
<1> QED
  BY <1>1, <1>2, <1>3, <1>4 DEF Promise!Settle, effectBar, settledBar

LEMMA QuarantineDelivers ==
    ASSUME DeliveryInv, NEW c \in Consumers, NEW e \in Entries, Quarantine(c, e),
           ~ UNCHANGED <<pending, dead>>
    PROVE  Promise!Bury(GroupOf[c], e) /\ GroupOf[c] \in Groups
<1> DEFINE h == GroupOf[c]
<1>1. /\ At(c, e, "quarantine") /\ h \in Groups
      /\ pending' = [pending EXCEPT ![h] = @ \ {e}]
      /\ dead' = [dead EXCEPT ![h] = @ \cup {e}]
      /\ UNCHANGED <<published, native, trimmed, cursor, stored, shown, rendered, mode>>
  BY StreamAssumption DEF Quarantine, Finish, Fail, effectVars
<1>2. e <= cursor[h] /\ e <= published
  BY <1>1 DEF DeliveryInv, BoundInv, PublishedInv, At
<1>3. settledBar' = [settledBar EXCEPT ![h] = @ \cup {e}]
  BY <1>1, <1>2, SettledBar
<1>4. effectBar' = effectBar /\ LiveGroups' = LiveGroups
  BY <1>1 DEF effectBar, Effect, LiveGroups
<1> QED
  BY <1>1, <1>2, <1>3, <1>4 DEF Promise!Bury, effectBar, settledBar

LEMMA TrimDelivers ==
    ASSUME DeliveryInv, NEW c \in Cleaners, CleanTrim(c), ~ UNCHANGED trimmed
    PROVE  Promise!Drop
<1>1. /\ trimmed' = pass[c].frontier - 1 /\ trimmed' > trimmed /\ pass[c].todo = {}
      /\ UNCHANGED <<published, native, cursor, pending, dead, stored, shown, rendered,
                     mode>>
  BY DEF CleanTrim, effectVars, readerVars
<1>2. pass[c].frontier \in 0 .. NumEntries + 1 /\ trimmed \in 0 .. NumEntries
  BY DEF DeliveryInv, StreamTypeOK
<1>3. trimmed' \in Nat
  BY <1>1, <1>2, StreamAssumption
<1>4. ASSUME NEW g \in LiveGroups, NEW e \in 1 .. trimmed'
      PROVE  e \in settledBar[g]
  <2>1. e \in Entries /\ e < pass[c].frontier
    BY <1>1, <1>2, StreamAssumption DEF Entries
  <2>2. Settled(g, e) /\ g \in Groups
    BY <1>1, <2>1, StreamAssumption DEF DeliveryInv, CleanInv, LiveGroups
  <2> QED
    BY <2>1, <2>2 DEF settledBar
<1>5. effectBar' = effectBar /\ settledBar' = settledBar /\ LiveGroups' = LiveGroups
  BY <1>1 DEF effectBar, settledBar, Effect, Settled, LiveGroups
<1> QED
  BY <1>1, <1>3, <1>4, <1>5 DEF Promise!Drop, effectBar, settledBar

LEMMA ReadDelivers ==
    ASSUME DeliveryInv, NEW c \in Consumers, Read(c)
    PROVE  UNCHANGED Promise!deliveryVars
<1>1. ASSUME NEW g \in Groups, NEW e \in Entries
      PROVE  Settled(g, e)' <=> Settled(g, e)
  <2>1. StreamTypeOK /\ BoundInv /\ StreamTypeOK'
    BY ReadType DEF DeliveryInv
  <2>2. /\ GroupMove(g, e) /\ cursor[g] \in Nat /\ e \in Nat /\ cursor'[g] \in Nat
    BY <2>1, ReadGroupMove, Numbers, StreamAssumption DEF StreamTypeOK
  <2>3. e \in pending[g] => e \in pending'[g]
    <3>1. \E batch : pending' = [pending EXCEPT ![GroupOf[c]] = @ \cup batch]
      BY DEF Read
    <3> QED
      BY <2>1, <3>1 DEF StreamTypeOK
  <2> QED
    BY <2>2, <2>3 DEF GroupMove, Settled
<1>2. settledBar' = settledBar
  BY <1>1 DEF settledBar
<1>3. UNCHANGED <<published, native, trimmed, dead, stored, rendered, shown, mode>>
  BY DEF Read, effectVars
<1>4. effectBar' = effectBar /\ LiveGroups' = LiveGroups
  BY <1>3 DEF effectBar, Effect, LiveGroups
<1> QED
  BY <1>2, <1>3, <1>4 DEF Promise!deliveryVars, effectBar, settledBar

LEMMA EntryDelivers ==
    ASSUME DeliveryInv, NEW c \in Consumers, NEW e \in Entries, EntryStep(c, e)
    PROVE  [Promise!DeliveryNext]_(Promise!deliveryVars)
<1>t. StreamTypeOK /\ stored \in SUBSET Entries /\ shown \in SUBSET Entries
  BY DEF DeliveryInv, StreamTypeOK
<1>0. ASSUME UNCHANGED <<published, native, trimmed, cursor, pending, dead, stored,
                         rendered, shown, mode>>
      PROVE  UNCHANGED Promise!deliveryVars
  BY <1>0, Unconcerned DEF LiveGroups
<1>1. CASE \/ PersistCanonical(c, e) \/ PersistCanonicalFails(c, e)
           \/ PersistAnswerUnreadable(c, e) \/ PersistSingle(c, e) \/ Show(c, e)
  <2>1. /\ stored \subseteq stored' /\ shown \subseteq shown'
        /\ stored' \in SUBSET Entries /\ shown' \in SUBSET Entries
        /\ UNCHANGED stored \/ UNCHANGED shown
        /\ UNCHANGED <<published, native, trimmed, cursor, pending, dead, rendered, mode>>
    BY <1>t, <1>1 DEF PersistCanonical, PersistCanonicalFails,
       PersistAnswerUnreadable, PersistSingle, Show, Leave, Advance, Fail, redisVars
  <2> QED
    BY <2>1, EffectDelivers
<1>2. CASE Check(c, e) \/ Mark(c, e) \/ Clear(c, e)
  BY <1>0, <1>2 DEF Check, Mark, Clear, Advance, Fail, Finish, redisVars, effectVars
<1>3. CASE Render(c, e)
  <2>1. CASE UNCHANGED rendered
    BY <1>0, <1>3, <2>1 DEF Render, Leave, Fail, redisVars
  <2>2. CASE ~ UNCHANGED rendered
    BY <1>3, <2>2, RenderDelivers DEF Promise!DeliveryNext
  <2> QED
    BY <2>1, <2>2
<1>4. CASE Ack(c, e)
  <2>1. CASE UNCHANGED pending
    BY <1>0, <1>4, <2>1 DEF Ack, Advance, Fail, effectVars
  <2>2. CASE ~ UNCHANGED pending
    BY <1>4, <2>2, AckDelivers DEF Promise!DeliveryNext
  <2> QED
    BY <2>1, <2>2
<1>5. CASE Quarantine(c, e)
  <2>1. CASE UNCHANGED <<pending, dead>>
    BY <1>0, <1>5, <2>1 DEF Quarantine, Finish, Fail, effectVars
  <2>2. CASE ~ UNCHANGED <<pending, dead>>
    BY <1>5, <2>2, QuarantineDelivers DEF Promise!DeliveryNext
  <2> QED
    BY <2>1, <2>2
<1> QED
  BY <1>1, <1>2, <1>3, <1>4, <1>5 DEF EntryStep

LEMMA StepDelivers ==
    ASSUME DeliveryInv, [StreamNext]_vars
    PROVE  [Promise!DeliveryNext]_(Promise!deliveryVars)
<1>t. StreamTypeOK
  BY DEF DeliveryInv
<1>0. ASSUME UNCHANGED <<published, native, trimmed, cursor, pending, dead, stored,
                         rendered, shown, mode>>
      PROVE  UNCHANGED Promise!deliveryVars
  BY <1>0, Unconcerned DEF LiveGroups
<1>1. CASE Publish
  BY <1>1, PublishDelivers DEF Promise!DeliveryNext
<1>2. CASE \E c \in Consumers : Read(c)
  BY <1>2, ReadDelivers
<1>3. CASE \E c \in Consumers : Dispatch(c)
  BY <1>0, <1>3 DEF Dispatch, redisVars, effectVars
<1>4. ASSUME NEW c \in Consumers, NEW x \in {"up", "down"}, mode[c] # "absent",
             mode' = [mode EXCEPT ![c] = x], UNCHANGED <<redisVars, effectVars>>
      PROVE  UNCHANGED Promise!deliveryVars
  <2>1. \A b \in Consumers : mode'[b] # "absent" <=> mode[b] # "absent"
    BY <1>t, <1>4 DEF StreamTypeOK
  <2>2. LiveGroups' = LiveGroups
    BY <2>1 DEF LiveGroups
  <2> QED
    BY <1>4, <2>2, Unconcerned DEF redisVars, effectVars
<1>5. CASE \E c \in Consumers : Start(c) \/ Crash(c)
  BY <1>4, <1>5 DEF Start, Crash, GoDown
<1>6. ASSUME NEW c \in Consumers, NEW j, Flush(c, j)
      PROVE  [Promise!DeliveryNext]_(Promise!deliveryVars)
  <2>1. Collected(c, j) \subseteq Entries /\ stored \subseteq Entries /\ shown \subseteq Entries
    BY <1>t DEF Collected, StreamTypeOK
  <2>2. /\ stored' = stored \/ stored' = stored \cup Collected(c, j)
        /\ UNCHANGED <<published, native, trimmed, cursor, pending, dead, rendered, shown,
                       mode>>
    BY <1>6 DEF Flush, Fail, redisVars
  <2> QED
    BY <2>1, <2>2, EffectDelivers
<1>7. CASE \E c \in Consumers, e \in Entries : EntryStep(c, e)
  BY <1>7, EntryDelivers
<1>8. CASE \E c \in Consumers, e \in Entries :
             \E seen \in 1 .. deliveries[GroupOf[c]][e] : Reclaim(c, e, seen)
  BY <1>0, <1>8 DEF Reclaim, effectVars
<1>9. ASSUME NEW c \in Cleaners, CleanStep(c)
      PROVE  [Promise!DeliveryNext]_(Promise!deliveryVars)
  <2>1. CASE CleanTrim(c) /\ ~ UNCHANGED trimmed
    BY <2>1, TrimDelivers DEF Promise!DeliveryNext
  <2>2. CASE CleanTrim(c) /\ UNCHANGED trimmed
    BY <1>0, <2>2 DEF CleanTrim, effectVars, readerVars
  <2>3. CASE CleanBegin(c) \/ \E g \in Groups : CleanRead(c, g)
    BY <1>0, <2>3 DEF CleanBegin, CleanRead, redisVars, effectVars, readerVars
  <2> QED
    BY <1>9, <2>1, <2>2, <2>3 DEF CleanStep
<1>10. CASE \E g \in Groups, e \in Entries : MarkerExpires(g, e)
  BY <1>0, <1>10 DEF MarkerExpires, effectVars, readerVars
<1>11. CASE UNCHANGED vars
  BY <1>0, <1>11 DEF vars, redisVars, effectVars, readerVars
<1>c. ASSUME NEW c \in Consumers, NEW e \in Entries, Check(c, e)
      PROVE  EntryStep(c, e)
  BY <1>c DEF EntryStep
<1> QED
  BY <1>1, <1>2, <1>3, <1>5, <1>6, <1>7, <1>8, <1>9, <1>10, <1>11, <1>c, StreamSteps

\* For any number of events and processes, any losses, crashes and restarts:
\* an event is settled only after its effect or as a dead letter, is
\* published live at most once and only when persisted, and is trimmed only
\* when every group is done with it.
THEOREM StreamDelivers == StreamSpec => DeliverySpec
<1>1. DeliveryInv /\ [StreamNext]_vars
        => [Promise!DeliveryNext]_(Promise!deliveryVars)
  BY StepDelivers
<1> QED
  BY InitDelivers, DeliveryInvariant, <1>1, PTL
  DEF StreamSpec, DeliverySpec, Promise!DeliverySpec
-----------------------------------------------------------------------------
(* What a process has in hand                                              *)

\* What the reader of c has noted about entry e: an entry that waits to be
\* dispatched is not worked on, one that was read and is neither queued nor
\* worked on has failed.
Noted(c, e) ==
    /\ e \in queue[c] => At(c, e, "none") /\ e \in local[c] /\ e \notin failed[c]
    /\ e \in failed[c] => e <= cursor[GroupOf[c]]
    /\ e \in local[c] => e \in queue[c] \/ e \in failed[c] \/ ~ At(c, e, "none")

BookInv == BoundInv /\ \A c \in Consumers, e \in Entries : Noted(c, e)

\* The notes of c about e after a step are those before it, in one of the
\* seven ways a reader keeps them.
SameNotes(c, e) ==
    /\ e \in queue'[c] <=> e \in queue[c]
    /\ e \in local'[c] <=> e \in local[c]
    /\ e \in failed'[c] <=> e \in failed[c]

NoteMove(c, e) ==
    \/ SameNotes(c, e) /\ (At(c, e, "none")' <=> At(c, e, "none"))
    \/ e \notin queue'[c] /\ e \notin local'[c] /\ e \notin failed'[c]   \* forgotten
    \/ /\ e > cursor[GroupOf[c]] /\ e \in queue'[c] /\ e \in local'[c]   \* received
       /\ e \in failed'[c] <=> e \in failed[c]
       /\ stage'[c][e] = stage[c][e]
    \/ /\ e \in queue[c] /\ e \notin queue'[c]                           \* dispatched
       /\ e \in failed'[c] <=> e \in failed[c]
       /\ ~ At(c, e, "none")'
    \/ /\ At(c, e, "none") /\ ~ At(c, e, "none")'                        \* reclaimed
       /\ e \in local[c] => e \in failed[c]
       /\ e \in queue'[c] <=> e \in queue[c]
       /\ e \in failed'[c] <=> e \in failed[c]
    \/ /\ ~ At(c, e, "none") /\ e \in failed'[c]                         \* failed
       /\ e \in queue'[c] <=> e \in queue[c]
    \/ /\ ~ At(c, e, "none") /\ e \notin local'[c] /\ e \notin failed'[c] \* finished
       /\ e \in queue'[c] <=> e \in queue[c]

LEMMA EntryNoteMove ==
    ASSUME StreamTypeOK, NEW b \in Consumers, NEW x \in Entries, EntryStep(b, x),
           NEW c \in Consumers, NEW e \in Entries
    PROVE  NoteMove(c, e)
<1>t. /\ stage \in [Consumers -> [Entries -> Stages]]
      /\ local \in [Consumers -> SUBSET Entries]
      /\ failed \in [Consumers -> SUBSET Entries]
  BY DEF StreamTypeOK
<1>1. ~ At(b, x, "none")
  BY <1>t DEF EntryStep, Check, PersistCanonical, PersistCanonicalFails,
              PersistAnswerUnreadable, Render, PersistSingle, Show, Mark, Ack, Clear, Quarantine, At
<1>2. CASE Fail(b, {x})
  BY <1>t, <1>1, <1>2 DEF Fail, NoteMove, SameNotes, At
<1>3. CASE Finish(b, x)
  BY <1>t, <1>1, <1>3 DEF Finish, Goto, NoteMove, SameNotes, At
<1>4. ASSUME NEW s \in Stages \ {"none"}, Goto(b, x, s), UNCHANGED <<queue, local, failed>>
      PROVE  NoteMove(c, e)
  BY <1>t, <1>1, <1>4 DEF Goto, NoteMove, SameNotes, At
<1>5. CASE Check(b, x)
  <2> DEFINE next == IF x \in marked[GroupOf[b]] THEN "ack"
                     ELSE HandlerStart(GroupOf[b], x)
  <2>1. next \in Stages \ {"none"}
    BY DEF HandlerStart, Stages
  <2>2. \/ Fail(b, {x})
        \/ Goto(b, x, next) /\ UNCHANGED <<queue, local, failed>>
    BY <1>5 DEF Check
  <2> QED
    BY <1>2, <1>4, <2>1, <2>2
<1>6. CASE ~ Check(b, x)
  <2>1. \/ Fail(b, {x}) \/ Finish(b, x)
        \/ \E s \in Stages \ {"none"} : Leave(b, x, s) \/ Advance(b, x, s)
    BY <1>6 DEF EntryStep, PersistCanonical, PersistCanonicalFails,
                PersistAnswerUnreadable, Render, PersistSingle, Show, Mark, Ack, Clear, Quarantine, Stages
  <2> QED
    BY <1>2, <1>3, <1>4, <2>1 DEF Leave, Advance
<1> QED
  BY <1>5, <1>6

LEMMA NoteMoves ==
    ASSUME StreamTypeOK, BookInv, [StreamNext]_vars,
           NEW c \in Consumers, NEW e \in Entries
    PROVE  NoteMove(c, e)
<1>t. /\ stage \in [Consumers -> [Entries -> Stages]]
      /\ queue \in [Consumers -> SUBSET Entries]
      /\ local \in [Consumers -> SUBSET Entries]
      /\ failed \in [Consumers -> SUBSET Entries]
  BY DEF StreamTypeOK
<1>0. CASE UNCHANGED <<queue, stage, local, failed>>
  BY <1>0 DEF NoteMove, SameNotes, At
<1>1. ASSUME NEW b \in Consumers, Crash(b)
      PROVE  NoteMove(c, e)
  BY <1>t, <1>1 DEF Crash, GoDown, NoteMove, SameNotes, At
<1>2. ASSUME NEW b \in Consumers, NEW x \in Entries, NEW seen, Reclaim(b, x, seen)
      PROVE  NoteMove(c, e)
  <2> DEFINE s == IF seen >= MaxDeliveries THEN "quarantine" ELSE "check"
  <2>1. /\ At(b, x, "none") /\ UNCHANGED <<queue, failed>>
        /\ x \in local[b] => x \in failed[b]
        /\ stage' = [stage EXCEPT ![b][x] = s] /\ s # "none"
        /\ local' \in {local, [local EXCEPT ![b] = @ \cup {x}]}
    BY <1>2 DEF Reclaim, Reclaimable, Goto
  <2> HIDE DEF s
  <2> QED
    BY <1>t, <2>1 DEF NoteMove, SameNotes, At
<1>3. ASSUME NEW b \in Consumers, NEW j, Flush(b, j)
      PROVE  NoteMove(c, e)
  <2> DEFINE S == Collected(b, j)
  <2>1. S \in SUBSET Entries /\ \A y \in S : At(b, y, "collect")
    BY DEF Collected
  <2>2. CASE Fail(b, S)
    BY <1>t, <2>1, <2>2 DEF Fail, NoteMove, SameNotes, At
  <2>3. CASE ~ Fail(b, S)
    <3>1. PICK s \in {"mark", "quarantine", "single"} :
            /\ stage' = [stage EXCEPT ![b] = [y \in Entries |->
                              IF y \in S THEN s ELSE @[y]]]
            /\ UNCHANGED <<queue, local, failed>>
      BY <1>3, <2>3 DEF Flush
    <3> QED
      BY <1>t, <2>1, <3>1 DEF NoteMove, SameNotes, At
  <2> QED
    BY <2>2, <2>3
<1>4. ASSUME NEW b \in Consumers, Dispatch(b)
      PROVE  NoteMove(c, e)
  <2>1. NextPage(b) \subseteq queue[b]
    BY DEF NextPage
  <2>2. /\ queue' = [queue EXCEPT ![b] = @ \ NextPage(b)]
        /\ stage' = [stage EXCEPT ![b] = [y \in Entries |->
                        IF y \in NextPage(b) THEN "check" ELSE @[y]]]
        /\ UNCHANGED <<local, failed>>
    BY <1>4 DEF Dispatch
  <2> QED
    BY <1>t, <2>1, <2>2 DEF NoteMove, SameNotes, At
<1>5. ASSUME NEW b \in Consumers, Read(b)
      PROVE  NoteMove(c, e)
  <2> DEFINE g == GroupOf[b]
             last == IF cursor[g] + BatchSize < published
                     THEN cursor[g] + BatchSize ELSE published
             batch == cursor[g] + 1 .. last
  <2>1. /\ queue[b] = {} /\ UNCHANGED <<stage, failed>>
        /\ \/ /\ queue' = [queue EXCEPT ![b] = batch]
              /\ local' = [local EXCEPT ![b] = @ \cup batch]
           \/ UNCHANGED <<queue, local>>
    BY <1>5 DEF Read
  <2>2. \A y \in batch : y > cursor[g]
    <3>1. cursor[g] \in Nat
      BY StreamAssumption DEF StreamTypeOK
    <3> QED
      BY <3>1
  <2> HIDE DEF batch
  <2> QED
    BY <1>t, <2>1, <2>2 DEF NoteMove, SameNotes, At
<1>6. ASSUME NEW b \in Consumers, NEW x \in Entries, EntryStep(b, x)
      PROVE  NoteMove(c, e)
  BY <1>6, EntryNoteMove
<1>7. CASE \E b \in Cleaners : CleanStep(b)
  BY <1>0, <1>7 DEF CleanStep, CleanBegin, CleanRead, CleanTrim, readerVars
<1>8. CASE \/ Publish \/ UNCHANGED vars \/ (\E b \in Consumers : Start(b))
           \/ \E g \in Groups, x \in Entries : MarkerExpires(g, x)
  BY <1>0, <1>8 DEF Publish, Start, MarkerExpires, vars, readerVars
<1>c. ASSUME NEW b \in Consumers, NEW x \in Entries, Check(b, x)
      PROVE  EntryStep(b, x)
  BY <1>c DEF EntryStep
<1> QED
  BY <1>1, <1>2, <1>3, <1>4, <1>5, <1>6, <1>7, <1>8, <1>c, StreamSteps

LEMMA BookStep ==
    ASSUME StreamTypeOK, BookInv, [StreamNext]_vars
    PROVE  BookInv'
<1>t. StreamTypeOK'
  BY TypeStep
<1>1. ASSUME NEW c \in Consumers, NEW e \in Entries
      PROVE  Noted(c, e)'
  <2> DEFINE g == GroupOf[c]
  <2>1. NoteMove(c, e) /\ Noted(c, e)
    BY NoteMoves DEF BookInv
  <2>2. g \in Groups /\ e \in Nat /\ cursor[g] \in Nat /\ cursor'[g] \in Nat
    BY <1>t, Numbers, StreamAssumption DEF StreamTypeOK
  <2>3. cursor[g] <= cursor'[g]
    BY <2>2, GroupMoves DEF GroupMove
  <2>4. e > cursor[g] => At(c, e, "none") /\ e \notin failed[c]
    BY <2>1, <2>2 DEF BookInv, BoundInv, Noted
  <2>5. ~ At(c, e, "none") => e <= cursor[g]
    BY DEF BookInv, BoundInv
  <2>6. (e \in failed[c] \/ ~ At(c, e, "none")) => e <= cursor'[g]
    BY <2>1, <2>2, <2>3, <2>5 DEF Noted
  <2>7. e \in failed'[c] => e <= cursor'[g]
    BY <2>1, <2>6 DEF NoteMove, SameNotes
  <2>8. e \in queue'[c] => At(c, e, "none")' /\ e \in local'[c] /\ e \notin failed'[c]
    BY <2>1, <2>4 DEF NoteMove, SameNotes, Noted, At
  <2>9. e \in local'[c] => e \in queue'[c] \/ e \in failed'[c] \/ ~ At(c, e, "none")'
    BY <2>1, <2>4 DEF NoteMove, SameNotes, Noted, At
  <2> QED
    BY <2>7, <2>8, <2>9 DEF Noted
<1> QED
  BY <1>1, BoundStep DEF BookInv
-----------------------------------------------------------------------------
(* The turnstile is open for somebody                                      *)

InTurn(c, d) == stage[c][d] \in {"turn", "render"}

\* What a step does to those that wait at the turnstile of process c: all is
\* forgotten, one entry joins behind those that are there, or a set S passes
\* or fails and everybody else keeps the place it has.
Forgotten(c) == \A e \in Entries : ahead'[c][e] = {}

Joins(c, x) ==
    /\ At(c, x, "check") /\ stage'[c][x] = "turn"
    /\ ahead'[c][x] = AtTurnstile(c, JobOf[x])
    /\ \A e \in Entries \ {x} :
        stage'[c][e] = stage[c][e] /\ ahead'[c][e] = ahead[c][e]

Released(c, S) ==
    \A e \in Entries :
        /\ ahead'[c][e] = ahead[c][e] \ S
        /\ InTurn(c, e) /\ e \notin S => InTurn(c, e)'
        /\ At(c, e, "turn") /\ ~ HoldsTurn(c, e) => stage'[c][e] = "turn"

WaitMove(c) ==
    \/ Forgotten(c)
    \/ \E x \in Entries : Joins(c, x)
    \/ \E S \in SUBSET Entries : Released(c, S)

LEMMA NobodyReleased ==
    ASSUME NEW c, ahead'[c] = ahead[c],
           \A e \in Entries : /\ InTurn(c, e) => InTurn(c, e)'
                              /\ At(c, e, "turn") /\ ~ HoldsTurn(c, e) =>
                                    stage'[c][e] = "turn"
    PROVE  WaitMove(c)
<1>1. Released(c, {})
  BY DEF Released
<1> QED
  BY <1>1 DEF WaitMove

\* A process whose operations a step leaves alone.
LEMMA NobodyMoves ==
    ASSUME NEW c, stage'[c] = stage[c], ahead'[c] = ahead[c]
    PROVE  WaitMove(c)
BY NobodyReleased DEF InTurn, At

LEMMA FailReleases ==
    ASSUME StreamTypeOK, NEW b \in Consumers, NEW c \in Consumers,
           NEW S \in SUBSET Entries, Fail(b, S),
           \A e \in S : At(b, e, "turn") => HoldsTurn(b, e)
    PROVE  WaitMove(c)
<1>t. /\ stage \in [Consumers -> [Entries -> Stages]]
      /\ ahead \in [Consumers -> [Entries -> SUBSET Entries]]
  BY DEF StreamTypeOK
<1>1. CASE b # c
  BY <1>t, <1>1, NobodyMoves DEF Fail, Release
<1>2. CASE b = c
  <2>1. Released(c, S)
    BY <1>t, <1>2 DEF Fail, Release, Released, InTurn, At
  <2> QED
    BY <2>1 DEF WaitMove
<1> QED
  BY <1>1, <1>2

LEMMA EntryWaitMove ==
    ASSUME StreamTypeOK, NEW b \in Consumers, NEW x \in Entries, EntryStep(b, x),
           NEW c \in Consumers
    PROVE  WaitMove(c)
<1>t. /\ stage \in [Consumers -> [Entries -> Stages]]
      /\ ahead \in [Consumers -> [Entries -> SUBSET Entries]]
      /\ {x} \in SUBSET Entries
  BY DEF StreamTypeOK
<1>0. CASE stage'[c] = stage[c] /\ ahead'[c] = ahead[c]
  BY <1>0, NobodyMoves
<1>1. ASSUME NEW s, Leave(b, x, s), InTurn(b, x) => HoldsTurn(b, x) \/ At(b, x, "render")
      PROVE  WaitMove(c)
  <2>1. CASE b # c
    BY <1>t, <1>0, <1>1, <2>1 DEF Leave, Goto, Release
  <2>2. CASE b = c
    <3>1. Released(c, {x})
      BY <1>t, <1>1, <2>2 DEF Leave, Goto, Release, Released, InTurn, At
    <3> QED
      BY <1>t, <3>1 DEF WaitMove
  <2> QED
    BY <2>1, <2>2
<1>2. ASSUME NEW s, Advance(b, x, s),
             InTurn(b, x) => s = "render" /\ HoldsTurn(b, x)
      PROVE  WaitMove(c)
  <2>1. CASE b # c
    BY <1>t, <1>0, <1>2, <2>1 DEF Advance, Goto
  <2>2. CASE b = c
    <3>1. \A e \in Entries : /\ InTurn(c, e) => InTurn(c, e)'
                             /\ At(c, e, "turn") /\ ~ HoldsTurn(c, e) =>
                                   stage'[c][e] = "turn"
      BY <1>t, <1>2, <2>2 DEF Advance, Goto, InTurn, At
    <3> QED
      BY <1>2, <3>1, NobodyReleased DEF Advance
  <2> QED
    BY <2>1, <2>2
<1>3. ASSUME Fail(b, {x}), At(b, x, "turn") => HoldsTurn(b, x)
      PROVE  WaitMove(c)
  BY <1>t, <1>3, FailReleases
<1>4. ASSUME Finish(b, x), ~ InTurn(b, x)
      PROVE  WaitMove(c)
  <2>1. CASE b # c
    BY <1>t, <1>0, <1>4, <2>1 DEF Finish, Goto
  <2>2. CASE b = c
    <3>1. \A e \in Entries : /\ InTurn(c, e) => InTurn(c, e)'
                             /\ At(c, e, "turn") /\ ~ HoldsTurn(c, e) =>
                                   stage'[c][e] = "turn"
      BY <1>t, <1>4, <2>2 DEF Finish, Goto, InTurn, At
    <3> QED
      BY <1>4, <3>1, NobodyReleased DEF Finish
  <2> QED
    BY <2>1, <2>2
<1>5. CASE PersistCanonical(b, x) \/ PersistAnswerUnreadable(b, x)
  BY <1>1, <1>2, <1>5 DEF PersistCanonical, PersistAnswerUnreadable
<1>6. CASE PersistCanonicalFails(b, x)
  BY <1>3, <1>6 DEF PersistCanonicalFails
<1>7. CASE Render(b, x)
  <2>1. At(b, x, "render")
    BY <1>7 DEF Render
  <2>2. Leave(b, x, "mark") \/ Fail(b, {x})
    BY <1>7 DEF Render
  <2> QED
    BY <1>1, <1>3, <2>1, <2>2 DEF At
<1>8. CASE PersistSingle(b, x) \/ Show(b, x) \/ Mark(b, x) \/ Ack(b, x)
  <2>1. stage[b][x] \in {"single", "show", "mark", "ack"}
    BY <1>8 DEF PersistSingle, Show, Mark, Ack, At
  <2>2. Fail(b, {x}) \/ \E s : Advance(b, x, s)
    BY <1>8 DEF PersistSingle, Show, Mark, Ack
  <2> QED
    BY <1>2, <1>3, <2>1, <2>2 DEF InTurn, At
<1>9. CASE Clear(b, x) \/ Quarantine(b, x)
  <2>1. stage[b][x] \in {"clear", "quarantine"}
    BY <1>9 DEF Clear, Quarantine, At
  <2>2. Finish(b, x) \/ Fail(b, {x})
    BY <1>9 DEF Clear, Quarantine
  <2> QED
    BY <1>3, <1>4, <2>1, <2>2 DEF InTurn, At
<1>10. CASE Check(b, x)
  <2>1. At(b, x, "check")
    BY <1>10 DEF Check
  <2>2. CASE Fail(b, {x})
    BY <1>3, <2>1, <2>2 DEF At
  <2>3. CASE ~ Fail(b, {x})
    <3> DEFINE next == IF x \in marked[GroupOf[b]] THEN "ack"
                       ELSE HandlerStart(GroupOf[b], x)
    <3>1. /\ Goto(b, x, next)
          /\ ahead' = IF next = "turn"
                      THEN [ahead EXCEPT ![b][x] = AtTurnstile(b, JobOf[x])]
                      ELSE ahead
      BY <1>10, <2>3 DEF Check
    <3> HIDE DEF next
    <3>2. \A e \in Entries :
            /\ stage'[c][e] = IF c = b /\ e = x THEN next ELSE stage[c][e]
            /\ next = "turn" => ahead'[c][e] = IF c = b /\ e = x
                                               THEN AtTurnstile(b, JobOf[x])
                                               ELSE ahead[c][e]
      BY <1>t, <3>1 DEF Goto
    <3>3. CASE b = c /\ next = "turn"
      <4>1. Joins(c, x)
        BY <2>1, <3>2, <3>3 DEF Joins
      <4> QED
        BY <4>1 DEF WaitMove
    <3>4. CASE b = c /\ next # "turn"
      <4>1. ahead'[c] = ahead[c]
        BY <3>1, <3>4
      <4>2. \A e \in Entries : stage'[c][e] = stage[c][e] \/ At(c, e, "check")
        BY <2>1, <3>2, <3>4
      <4> QED
        BY <4>1, <4>2, NobodyReleased DEF InTurn, At
    <3>5. CASE b # c
      BY <1>t, <1>0, <3>1, <3>5 DEF Goto
    <3> QED
      BY <3>3, <3>4, <3>5
  <2> QED
    BY <2>2, <2>3
<1> QED
  BY <1>5, <1>6, <1>7, <1>8, <1>9, <1>10 DEF EntryStep

LEMMA WaitMoves ==
    ASSUME StreamTypeOK, BookInv, [StreamNext]_vars, NEW c \in Consumers
    PROVE  WaitMove(c)
<1>t. /\ stage \in [Consumers -> [Entries -> Stages]]
      /\ ahead \in [Consumers -> [Entries -> SUBSET Entries]]
  BY DEF StreamTypeOK
<1>0. CASE stage'[c] = stage[c] /\ ahead'[c] = ahead[c]
  BY <1>0, NobodyMoves
<1>1. ASSUME NEW b \in Consumers, Crash(b)
      PROVE  WaitMove(c)
  BY <1>t, <1>0, <1>1 DEF Crash, GoDown, WaitMove, Forgotten
<1>2. ASSUME NEW b \in Consumers, NEW x \in Entries, NEW seen, Reclaim(b, x, seen)
      PROVE  WaitMove(c)
  <2>1. /\ At(b, x, "none") /\ UNCHANGED ahead
        /\ Goto(b, x, IF seen >= MaxDeliveries THEN "quarantine" ELSE "check")
    BY <1>2 DEF Reclaim, Reclaimable
  <2>2. \A y \in Entries : stage'[c][y] = stage[c][y] \/ At(c, y, "none")
    BY <1>t, <2>1 DEF Goto
  <2> QED
    BY <2>1, <2>2, NobodyReleased DEF InTurn, At
<1>3. ASSUME NEW b \in Consumers, NEW j, Flush(b, j)
      PROVE  WaitMove(c)
  <2> DEFINE S == Collected(b, j)
  <2>1. S \in SUBSET Entries /\ \A y \in S : At(b, y, "collect")
    BY DEF Collected
  <2>2. CASE Fail(b, S)
    BY <2>1, <2>2, FailReleases DEF At
  <2>3. CASE ~ Fail(b, S)
    <3>1. PICK s \in {"mark", "quarantine", "single"} :
            /\ stage' = [stage EXCEPT ![b] = [y \in Entries |->
                              IF y \in S THEN s ELSE @[y]]]
            /\ UNCHANGED ahead
      BY <1>3, <2>3 DEF Flush
    <3>2. \A y \in Entries : stage'[c][y] = stage[c][y] \/ At(c, y, "collect")
      BY <1>t, <2>1, <3>1
    <3> QED
      BY <3>1, <3>2, NobodyReleased DEF InTurn, At
  <2> QED
    BY <2>2, <2>3
<1>4. ASSUME NEW b \in Consumers, Dispatch(b)
      PROVE  WaitMove(c)
  <2>1. /\ UNCHANGED ahead
        /\ \A y \in Entries : stage'[c][y] = IF b = c /\ y \in NextPage(b)
                                             THEN "check" ELSE stage[c][y]
    BY <1>t, <1>4 DEF Dispatch
  <2>2. \A y \in NextPage(b) : At(b, y, "none")
    BY DEF NextPage, BookInv, Noted, StreamTypeOK
  <2> QED
    BY <2>1, <2>2, NobodyReleased DEF InTurn, At
<1>5. ASSUME NEW b \in Consumers, NEW x \in Entries, EntryStep(b, x)
      PROVE  WaitMove(c)
  BY <1>5, EntryWaitMove
<1>6. CASE \E b \in Cleaners : CleanStep(b)
  BY <1>0, <1>6 DEF CleanStep, CleanBegin, CleanRead, CleanTrim, readerVars
<1>7. CASE \/ Publish \/ UNCHANGED vars \/ (\E b \in Consumers : Read(b) \/ Start(b))
           \/ \E g \in Groups, x \in Entries : MarkerExpires(g, x)
  BY <1>0, <1>7 DEF Publish, Read, Start, MarkerExpires, vars, readerVars
<1>c. ASSUME NEW b \in Consumers, NEW x \in Entries, Check(b, x)
      PROVE  EntryStep(b, x)
  BY <1>c DEF EntryStep
<1> QED
  BY <1>1, <1>2, <1>3, <1>4, <1>5, <1>6, <1>7, <1>c, StreamSteps

\* Who is before e at the turnstile is there, belongs to the job of e, and
\* has before it only others that are before e.
WaitInv ==
    \A c \in Consumers, e \in Entries : \A d \in ahead[c][e] :
        /\ At(c, e, "turn") /\ InTurn(c, d) /\ JobOf[d] = JobOf[e]
        /\ d \notin ahead[c][d] /\ ahead[c][d] \subseteq ahead[c][e]

LEMMA WaitStep ==
    ASSUME StreamTypeOK, BookInv, WaitInv, [StreamNext]_vars
    PROVE  WaitInv'
<1>t. /\ StreamTypeOK'
      /\ ahead \in [Consumers -> [Entries -> SUBSET Entries]]
      /\ ahead' \in [Consumers -> [Entries -> SUBSET Entries]]
  BY TypeStep DEF StreamTypeOK
<1> SUFFICES ASSUME NEW c \in Consumers, NEW e \in Entries, NEW d \in ahead'[c][e]
             PROVE  /\ stage'[c][e] = "turn" /\ InTurn(c, d)' /\ JobOf[d] = JobOf[e]
                    /\ d \notin ahead'[c][d] /\ ahead'[c][d] \subseteq ahead'[c][e]
  BY DEF WaitInv, At
<1>d. d \in Entries
  BY <1>t
<1>1. CASE Forgotten(c)
  BY <1>1 DEF Forgotten
<1>2. ASSUME NEW x \in Entries, Joins(c, x)
      PROVE  /\ stage'[c][e] = "turn" /\ InTurn(c, d)' /\ JobOf[d] = JobOf[e]
             /\ d \notin ahead'[c][d] /\ ahead'[c][d] \subseteq ahead'[c][e]
  <2>1. ~ InTurn(c, x)
    BY <1>2 DEF Joins, InTurn, At
  <2>2. CASE e = x
    <3>1. d \in AtTurnstile(c, JobOf[x])
      BY <1>2, <2>2 DEF Joins
    <3>2. d # x /\ JobOf[d] = JobOf[x] /\ InTurn(c, d)
      BY <2>1, <3>1 DEF AtTurnstile, InTurn
    <3>3. ahead'[c][d] = ahead[c][d] /\ stage'[c][d] = stage[c][d]
      BY <1>2, <1>d, <3>2 DEF Joins
    <3>4. \A y \in ahead[c][d] : y \in AtTurnstile(c, JobOf[x]) /\ y # d
      BY <1>t, <1>d, <3>2 DEF WaitInv, AtTurnstile, InTurn
    <3> QED
      BY <1>2, <2>2, <3>2, <3>3, <3>4 DEF Joins, InTurn
  <2>3. CASE e # x
    <3>1. ahead'[c][e] = ahead[c][e] /\ stage'[c][e] = stage[c][e] /\ d \in ahead[c][e]
      BY <1>2, <2>3 DEF Joins
    <3>2. d # x
      BY <2>1, <3>1 DEF WaitInv
    <3>3. ahead'[c][d] = ahead[c][d] /\ stage'[c][d] = stage[c][d]
      BY <1>2, <1>d, <3>2 DEF Joins
    <3> QED
      BY <3>1, <3>3 DEF WaitInv, InTurn, At
  <2> QED
    BY <2>2, <2>3
<1>3. ASSUME NEW S \in SUBSET Entries, Released(c, S)
      PROVE  /\ stage'[c][e] = "turn" /\ InTurn(c, d)' /\ JobOf[d] = JobOf[e]
             /\ d \notin ahead'[c][d] /\ ahead'[c][d] \subseteq ahead'[c][e]
  <2>1. /\ ahead'[c][e] = ahead[c][e] \ S /\ ahead'[c][d] = ahead[c][d] \ S
        /\ d \in ahead[c][e] /\ d \notin S
    BY <1>3, <1>d DEF Released
  <2>2. /\ At(c, e, "turn") /\ InTurn(c, d) /\ JobOf[d] = JobOf[e]
        /\ d \notin ahead[c][d] /\ ahead[c][d] \subseteq ahead[c][e]
    BY <2>1 DEF WaitInv
  <2>3. stage'[c][e] = "turn" /\ InTurn(c, d)'
    BY <1>3, <1>d, <2>1, <2>2 DEF Released, HoldsTurn
  <2> QED
    BY <2>1, <2>2, <2>3
<1> QED
  BY <1>1, <1>2, <1>3, WaitMoves DEF WaitMove

\* Of those that wait, one with the fewest before it has none before it.
LEMMA FirstHoldsTurn ==
    ASSUME StreamTypeOK, WaitInv
    PROVE  SomebodyHoldsTurn
<1> SUFFICES ASSUME NEW c \in Consumers, NEW e \in Entries, At(c, e, "turn")
             PROVE  \E d \in AtTurnstile(c, JobOf[e]) : HoldsTurn(c, d)
  BY DEF SomebodyHoldsTurn
<1> DEFINE There == AtTurnstile(c, JobOf[e])
           Before == {ahead[c][d] : d \in There}
<1>1. ahead \in [Consumers -> [Entries -> SUBSET Entries]] /\ There \subseteq Entries
  BY DEF StreamTypeOK, AtTurnstile
<1>2. IsFiniteSet(Entries)
  BY FS_Interval, StreamAssumption DEF Entries
<1>3. IsWellFoundedOn(StrictSubsetOrdering(Entries), FiniteSubsetsOf(Entries))
  BY <1>2, FS_StrictSubsetOrderingWellFounded
<1>4. e \in There /\ Before \subseteq FiniteSubsetsOf(Entries) /\ Before # {}
  BY <1>1, <1>2, FS_Subset DEF AtTurnstile, At, FiniteSubsetsOf
<1>5. PICK B \in Before :
        \A A \in Before : ~ (<<A, B>> \in StrictSubsetOrdering(Entries))
  <2> HIDE DEF Before
  <2> QED
    BY <1>3, <1>4, WFMin
<1>6. PICK d \in There : B = ahead[c][d]
  BY <1>5
<1>7. ASSUME NEW y \in ahead[c][d]
      PROVE  FALSE
  <2>1. /\ y \in Entries /\ y \in There /\ y \notin ahead[c][y]
        /\ ahead[c][y] \subseteq ahead[c][d]
    BY <1>1, <1>6, <1>7 DEF WaitInv, AtTurnstile, InTurn
  <2>2. ahead[c][y] \in Before /\ ahead[c][y] # ahead[c][d]
    BY <1>7, <2>1
  <2>3. <<ahead[c][y], B>> \in StrictSubsetOrdering(Entries)
    BY <1>1, <1>6, <2>1, <2>2 DEF StrictSubsetOrdering
  <2> QED
    BY <1>5, <2>2, <2>3
<1> QED
  BY <1>6, <1>7 DEF HoldsTurn

LEMMA BookInvariant == StreamSpec => [](BookInv /\ WaitInv)
<1>1. StreamInit => BookInv /\ WaitInv
  <2> SUFFICES ASSUME StreamInit PROVE BookInv /\ WaitInv
    OBVIOUS
  <2>1. BoundInv
    BY InitInvariants DEF EarnedInv
  <2>2. \A c \in Consumers, e \in Entries :
          queue[c] = {} /\ local[c] = {} /\ failed[c] = {} /\ ahead[c][e] = {}
    BY DEF StreamInit
  <2> QED
    BY <2>1, <2>2 DEF BookInv, Noted, WaitInv
<1>2. StreamTypeOK /\ BookInv /\ WaitInv /\ [StreamNext]_vars => BookInv' /\ WaitInv'
  BY BookStep, WaitStep
<1> QED
  BY <1>1, <1>2, StreamTypeCorrect, PTL DEF StreamSpec

\* While entries of a job wait at the turnstile of a process, one of them has
\* its turn: no order of arrivals, failures and recoveries makes them wait for
\* each other or for an entry that is gone (the finally of handleMessage).
THEOREM SomebodyHoldsTurnCorrect == StreamSpec => []SomebodyHoldsTurn
BY BookInvariant, StreamTypeCorrect, FirstHoldsTurn, PTL

\* What is pending and not in the hands of a process is open to its recovery:
\* the note that an entry was read locally never outlives its processing
\* without a recorded failure.
THEOREM IdleIsReclaimableCorrect == StreamSpec => []IdleIsReclaimable
<1>1. StreamTypeOK /\ BookInv => IdleIsReclaimable
  <2> SUFFICES ASSUME StreamTypeOK, BookInv, NEW c \in Consumers,
                      NEW e \in pending[GroupOf[c]], At(c, e, "none"), e \notin queue[c]
               PROVE  Reclaimable(c, e)
    BY DEF IdleIsReclaimable
  <2>1. e \in Entries
    BY StreamAssumption DEF StreamTypeOK
  <2> QED
    BY <2>1 DEF BookInv, Noted, Reclaimable
<1> QED
  BY <1>1, BookInvariant, StreamTypeCorrect, PTL
=============================================================================
