----------------------- MODULE ScheduledAgentsProofs -----------------------
(***************************************************************************)
(* Theorems about ScheduledAgents, for every number of occurrences, every  *)
(* set of replicas and payloads, and every number of attempts and faults.  *)
(***************************************************************************)
EXTENDS ScheduledAgents, TLAPS

\* A dispatch under way is about an occurrence.
KeysAreRuns == \A r \in Replicas : stage[r] # "idle" => key[r] \in Runs
TypeInv == ScheduledTypeOK /\ KeysAreRuns

\* An unexpired lease is on a delivery under way, and a delivery exists with
\* its envelope.
LeaseInv ==
    \A k \in Runs :
        /\ holder[k] # None => delivery[k] = "delivering"
        /\ envelope[k] = None => delivery[k] = "none"

\* The terminal sweep works on jobs that have ended.
ReviewInv == \A r \in Replicas : review[r] # None => job[review[r].run] \in Ended

\* An ok came from a receiver that took the envelope.
AnswerInv ==
    \A r \in Replicas :
        posted[r] # None /\ posted[r].answer = "ok" => posted[r].run \in accepted

----------------------------------------------------------------------------
(* Types                                                                   *)

LEMMA TypeInit == ScheduledInit => TypeInv
<1> SUFFICES ASSUME ScheduledInit PROVE TypeInv
  OBVIOUS
<1>1. scenario \in [runs : 0 .. NumRuns, schedule : Schedules,
                    lastRun : {0, Never}, required : BOOLEAN,
                    up : SUBSET Replicas]
  BY ScheduleAssumption DEF ScheduledInit
<1>2. NumRuns \in Nat /\ MaxFaults \in Nat /\ MaxAttempts \in Nat
  BY OutputAssumption
<1>3. OutcomeTypeOK
  BY <1>2 DEF ScheduledInit, OutcomeInit, OutcomeTypeOK
<1>4. lastRun \in 0 .. NumRuns \cup {Never} /\ clock \in 0 .. NumRuns
  BY <1>1, <1>2 DEF ScheduledInit
<1>5. /\ enabled \in BOOLEAN /\ key \in [Replicas -> 0 .. NumRuns]
      /\ stage \in [Replicas -> Stages] /\ scenario \in Scenarios
      /\ KeysAreRuns
  BY <1>2 DEF ScheduledInit, Stages, KeysAreRuns
<1> QED
  BY <1>3, <1>4, <1>5 DEF TypeInv, ScheduledTypeOK

\* What is due is an occurrence of the configuration.
LEMMA DueKeyIsRun ==
    ASSUME TypeInv, DueKey # 0
    PROVE  DueKey \in Runs
<1>1. /\ NumRuns \in Nat /\ clock \in 0 .. NumRuns
      /\ lastRun \in 0 .. NumRuns \cup {Never} /\ Never \notin 0 .. NumRuns
  BY OutputAssumption, ScheduleAssumption DEF TypeInv, ScheduledTypeOK
<1> QED
  BY <1>1 DEF DueKey, Runs

LEMMA FaultType ==
    ASSUME TypeInv, Fault \/ UNCHANGED faults
    PROVE  faults' \in 0 .. MaxFaults
BY OutputAssumption DEF TypeInv, ScheduledTypeOK, OutcomeTypeOK, Fault

LEMMA GotoType ==
    ASSUME TypeInv, NEW r \in Replicas, NEW s \in Stages, Goto(r, s),
           UNCHANGED key, s # "idle" => key[r] \in Runs
    PROVE  /\ stage' \in [Replicas -> Stages]
           /\ key' \in [Replicas -> 0 .. NumRuns] /\ KeysAreRuns'
BY DEF TypeInv, ScheduledTypeOK, KeysAreRuns, Goto

LEMMA DispatchType ==
    ASSUME TypeInv, NEW r \in Replicas,
           DispatchStep(r) \/ DispatchFails(r) \/ Crash(r)
    PROVE  TypeInv'
<1> USE DEF Stages
<1>t. NumRuns \in Nat
  BY OutputAssumption
<1>1. CASE Tick(r)
  <2>1. DueKey \in Runs /\ DueKey \in 0 .. NumRuns
    BY <1>1, <1>t, DueKeyIsRun DEF Tick, Runs
  <2>2. /\ key' \in [Replicas -> 0 .. NumRuns] /\ stage' \in [Replicas -> Stages]
        /\ KeysAreRuns'
    BY <1>1, <2>1 DEF Tick, Goto, TypeInv, ScheduledTypeOK, KeysAreRuns
  <2> QED
    BY <1>1, <2>2 DEF Tick, TypeInv, ScheduledTypeOK, OutcomeTypeOK, outcomeVars,
        rowVars, outputVars, deliveryVars, postVars, configVars
<1>2. CASE Consume(r)
  <2>1. /\ stage' \in [Replicas -> Stages]
        /\ key' \in [Replicas -> 0 .. NumRuns] /\ KeysAreRuns'
    BY <1>2 DEF Consume, Goto, TypeInv, ScheduledTypeOK, KeysAreRuns
  <2> QED
    BY <1>2, <2>1 DEF Consume, TypeInv, ScheduledTypeOK, OutcomeTypeOK,
        outcomeVars, rowVars, outputVars, deliveryVars, postVars
<1>3. CASE Reserve(r)
  <2>1. /\ stage' \in [Replicas -> Stages]
        /\ key' \in [Replicas -> 0 .. NumRuns] /\ KeysAreRuns'
    BY <1>3 DEF Reserve, Goto, TypeInv, ScheduledTypeOK, KeysAreRuns
  <2>2. run' \in [Runs -> {"none", "pending"} \cup Ended]
    BY <1>3 DEF Reserve, TypeInv, ScheduledTypeOK, OutcomeTypeOK
  <2> QED
    BY <1>3, <2>1, <2>2 DEF Reserve, TypeInv, ScheduledTypeOK, OutcomeTypeOK,
        outputVars, deliveryVars, postVars, configVars
<1>4. CASE Lookup(r)
  <2>1. /\ stage' \in [Replicas -> Stages]
        /\ key' \in [Replicas -> 0 .. NumRuns] /\ KeysAreRuns'
    BY <1>4 DEF Lookup, Goto, TypeInv, ScheduledTypeOK, KeysAreRuns
  <2> QED
    BY <1>4, <2>1 DEF Lookup, TypeInv, ScheduledTypeOK, OutcomeTypeOK,
        outcomeVars, rowVars, outputVars, deliveryVars, postVars, configVars
<1>5. CASE CreateJob(r)
  <2>1. /\ stage' \in [Replicas -> Stages]
        /\ key' \in [Replicas -> 0 .. NumRuns] /\ KeysAreRuns'
    BY <1>5 DEF CreateJob, Goto, TypeInv, ScheduledTypeOK, KeysAreRuns
  <2>2. job' \in [Runs -> {"none", "active"} \cup Ended]
    BY <1>5 DEF CreateJob, TypeInv, ScheduledTypeOK, OutcomeTypeOK
  <2> QED
    BY <1>5, <2>1, <2>2 DEF CreateJob, TypeInv, ScheduledTypeOK, OutcomeTypeOK,
        outputVars, deliveryVars, postVars, configVars
<1>6. CASE Link(r)
  <2>1. /\ stage' \in [Replicas -> Stages]
        /\ key' \in [Replicas -> 0 .. NumRuns] /\ KeysAreRuns'
    BY <1>6 DEF Link, Goto, TypeInv, ScheduledTypeOK, KeysAreRuns
  <2>2. linked' \in SUBSET Runs
    BY <1>6 DEF Link, TypeInv, ScheduledTypeOK, OutcomeTypeOK, KeysAreRuns
  <2> QED
    BY <1>6, <2>1, <2>2 DEF Link, TypeInv, ScheduledTypeOK, OutcomeTypeOK,
        outputVars, deliveryVars, postVars, configVars
<1>7. CASE RecordLastRun(r)
  <2>1. /\ stage' \in [Replicas -> Stages]
        /\ key' \in [Replicas -> 0 .. NumRuns] /\ KeysAreRuns'
    BY <1>7, GotoType DEF RecordLastRun
  <2> QED
    BY <1>7, <2>1 DEF RecordLastRun, TypeInv, ScheduledTypeOK, OutcomeTypeOK,
        outcomeVars, rowVars, outputVars, deliveryVars, postVars
<1>8. CASE DispatchFails(r)
  <2>1. /\ stage' \in [Replicas -> Stages]
        /\ key' \in [Replicas -> 0 .. NumRuns] /\ KeysAreRuns'
    BY <1>8, GotoType DEF DispatchFails
  <2>2. faults' \in 0 .. MaxFaults
    BY <1>8, FaultType DEF DispatchFails
  <2> QED
    BY <1>8, <2>1, <2>2 DEF DispatchFails, TypeInv, ScheduledTypeOK,
        OutcomeTypeOK, rowVars, outputVars, deliveryVars, postVars, configVars
<1>9. CASE Crash(r)
  <2>1. /\ stage' \in [Replicas -> Stages]
        /\ key' \in [Replicas -> 0 .. NumRuns] /\ KeysAreRuns'
    BY <1>9, GotoType DEF Crash
  <2>2. faults' \in 0 .. MaxFaults
    BY <1>9, FaultType DEF Crash
  <2>3. /\ review' \in [Replicas -> Reviews \cup {None}]
        /\ batch' \in [Replicas -> SUBSET Runs]
        /\ posted' \in [Replicas -> Posts \cup {None}]
    BY <1>9 DEF Crash, LoseSweeps, TypeInv, ScheduledTypeOK, OutcomeTypeOK
  <2> QED
    BY <1>9, <2>1, <2>2, <2>3 DEF Crash, LoseSweeps, TypeInv, ScheduledTypeOK,
        OutcomeTypeOK, rowVars, outputVars, deliveryVars, configVars
<1> QED
  BY <1>1, <1>2, <1>3, <1>4, <1>5, <1>6, <1>7, <1>8, <1>9 DEF DispatchStep

\* The dispatcher's variables are not touched by a step of the outputs.
LEMMA DispatchVarsType ==
    ASSUME TypeInv, UNCHANGED <<configVars, clock, dispatchVars>>
    PROVE  /\ scenario' \in Scenarios /\ clock' \in 0 .. NumRuns
           /\ lastRun' \in 0 .. NumRuns \cup {Never} /\ enabled' \in BOOLEAN
           /\ stage' \in [Replicas -> Stages] /\ key' \in [Replicas -> 0 .. NumRuns]
           /\ KeysAreRuns'
BY DEF TypeInv, ScheduledTypeOK, KeysAreRuns, configVars, dispatchVars

LEMMA InsertType ==
    ASSUME TypeInv, NEW k \in Runs, NEW v \in Payloads \cup {TerminalError},
           Insert(k, v)
    PROVE  /\ envelope' \in [Runs -> Payloads \cup {None, TerminalError}]
           /\ delivery' \in [Runs -> {"none", "pending", "delivering", "retry_wait"}
                                       \cup Settled]
BY DEF TypeInv, ScheduledTypeOK, OutcomeTypeOK, Insert

LEMMA SubmitType ==
    ASSUME TypeInv, NEW k \in Runs, NEW p \in Payloads,
           AuthorizeSubmit(k, p) \/ Submit(k, p)
    PROVE  OutcomeTypeOK'
<1>1. CASE AuthorizeSubmit(k, p)
  BY <1>1 DEF AuthorizeSubmit, TypeInv, ScheduledTypeOK, OutcomeTypeOK, rowVars,
      deliveryVars, postVars
<1>2. CASE Submit(k, p)
  <2>1. /\ envelope' \in [Runs -> Payloads \cup {None, TerminalError}]
        /\ delivery' \in [Runs -> {"none", "pending", "delivering", "retry_wait"}
                                    \cup Settled]
    <3>1. CASE Insert(k, p)
      BY <3>1, InsertType
    <3>2. CASE UNCHANGED <<envelope, delivery>>
      BY <3>2 DEF TypeInv, ScheduledTypeOK, OutcomeTypeOK
    <3> QED
      BY <1>2, <3>1, <3>2 DEF Submit
  <2> QED
    BY <1>2, <2>1 DEF Submit, TypeInv, ScheduledTypeOK, OutcomeTypeOK, rowVars,
        postVars
<1> QED
  BY <1>1, <1>2

LEMMA JobEndsType ==
    ASSUME TypeInv, NEW k \in Runs, JobEnds(k)
    PROVE  OutcomeTypeOK'
<1>1. job' \in [Runs -> {"none", "active"} \cup Ended]
  BY DEF JobEnds, TypeInv, ScheduledTypeOK, OutcomeTypeOK
<1> QED
  BY <1>1 DEF JobEnds, TypeInv, ScheduledTypeOK, OutcomeTypeOK, outputVars,
      deliveryVars, postVars

LEMMA LeaseExpiresType ==
    ASSUME TypeInv, NEW k \in Runs, LeaseExpires(k)
    PROVE  OutcomeTypeOK'
<1>1. faults' \in 0 .. MaxFaults
  BY FaultType DEF LeaseExpires, NoFault
<1>2. holder' \in [Runs -> Replicas \cup {None}]
  BY DEF LeaseExpires, TypeInv, ScheduledTypeOK, OutcomeTypeOK
<1> QED
  BY <1>1, <1>2 DEF LeaseExpires, TypeInv, ScheduledTypeOK, OutcomeTypeOK,
      rowVars, outputVars, postVars

\* The outcome of a run whose job has ended.
LEMMA OutcomeIsEnd ==
    ASSUME NEW k \in Runs, job[k] \in Ended
    PROVE  Outcome(k) \in {"pending"} \cup Ended
BY DEF Outcome, Ended

LEMMA SweepType ==
    ASSUME TypeInv, ReviewInv, NEW r \in Replicas, SweepStep(r) \/ ReviewFails(r)
    PROVE  OutcomeTypeOK'
<1>1. ASSUME NEW k \in Runs, Finalize(r, k) PROVE OutcomeTypeOK'
  <2>1. review' \in [Replicas -> Reviews \cup {None}]
    BY <1>1 DEF Finalize, Reviews, TypeInv, ScheduledTypeOK, OutcomeTypeOK
  <2> QED
    BY <1>1, <2>1 DEF Finalize, TypeInv, ScheduledTypeOK, OutcomeTypeOK, rowVars,
        outputVars, deliveryVars, postVars
<1>2. CASE WriteTerminalError(r)
  <2>1. review[r] \in Reviews /\ review[r].run \in Runs
    BY <1>2 DEF WriteTerminalError, Reviews, TypeInv, ScheduledTypeOK, OutcomeTypeOK
  <2>2. review' \in [Replicas -> Reviews \cup {None}]
    BY <1>2, <2>1 DEF WriteTerminalError, Reviews, TypeInv, ScheduledTypeOK,
        OutcomeTypeOK
  <2>3. /\ envelope' \in [Runs -> Payloads \cup {None, TerminalError}]
        /\ delivery' \in [Runs -> {"none", "pending", "delivering", "retry_wait"}
                                    \cup Settled]
    <3>1. CASE Insert(review[r].run, TerminalError)
      BY <3>1, <2>1, InsertType
    <3>2. CASE UNCHANGED <<envelope, delivery>>
      BY <3>2 DEF TypeInv, ScheduledTypeOK, OutcomeTypeOK
    <3> QED
      BY <1>2, <3>1, <3>2 DEF WriteTerminalError
  <2> QED
    BY <1>2, <2>2, <2>3 DEF WriteTerminalError, TypeInv, ScheduledTypeOK,
        OutcomeTypeOK, rowVars, postVars
<1>3. CASE ProjectRun(r)
  <2> DEFINE k == review[r].run
  <2>1. k \in Runs /\ job[k] \in Ended
    BY <1>3 DEF ProjectRun, Reviews, TypeInv, ScheduledTypeOK, OutcomeTypeOK,
        ReviewInv
  <2>2. Outcome(k) \in {"pending"} \cup Ended
    BY <2>1, OutcomeIsEnd
  <2>3. run' \in [Runs -> {"none", "pending"} \cup Ended] /\ linked' \in SUBSET Runs
    BY <1>3, <2>1, <2>2 DEF ProjectRun, TypeInv, ScheduledTypeOK, OutcomeTypeOK
  <2>4. review' \in [Replicas -> Reviews \cup {None}]
    BY <1>3 DEF ProjectRun, TypeInv, ScheduledTypeOK, OutcomeTypeOK
  <2> QED
    BY <1>3, <2>3, <2>4 DEF ProjectRun, TypeInv, ScheduledTypeOK, OutcomeTypeOK,
        outputVars, deliveryVars, postVars
<1>4. CASE ReviewFails(r)
  <2>1. faults' \in 0 .. MaxFaults
    BY <1>4, FaultType DEF ReviewFails
  <2>2. review' \in [Replicas -> Reviews \cup {None}]
    BY <1>4 DEF ReviewFails, TypeInv, ScheduledTypeOK, OutcomeTypeOK
  <2> QED
    BY <1>4, <2>1, <2>2 DEF ReviewFails, TypeInv, ScheduledTypeOK, OutcomeTypeOK,
        rowVars, outputVars, deliveryVars, postVars
<1> QED
  BY <1>1, <1>2, <1>3, <1>4 DEF SweepStep

LEMMA DispositionType ==
    ASSUME NEW k, NEW answer
    PROVE  Disposition(k, answer) \in {"retry_wait"} \cup Settled
BY DEF Disposition, Settled

LEMMA DeliveryType ==
    ASSUME TypeInv, NEW r \in Replicas,
           \/ \E S \in SUBSET Claimable : ClaimDeliveries(r, S)
           \/ PostStep(r)
           \/ RecordFails(r)
    PROVE  OutcomeTypeOK'
<1>1. ASSUME NEW S \in SUBSET Claimable, ClaimDeliveries(r, S)
      PROVE  OutcomeTypeOK'
  <2>1. S \subseteq Runs
    BY DEF Claimable
  <2>2. batch' \in [Replicas -> SUBSET Runs]
    BY <1>1, <2>1 DEF ClaimDeliveries, TypeInv, ScheduledTypeOK, OutcomeTypeOK
  <2>3. attempts' \in [Runs -> 0 .. MaxAttempts]
    BY <1>1, OutputAssumption DEF ClaimDeliveries, TypeInv, ScheduledTypeOK,
        OutcomeTypeOK
  <2>4. /\ delivery' \in [Runs -> {"none", "pending", "delivering", "retry_wait"}
                                    \cup Settled]
        /\ holder' \in [Runs -> Replicas \cup {None}]
    BY <1>1 DEF ClaimDeliveries, TypeInv, ScheduledTypeOK, OutcomeTypeOK
  <2> QED
    BY <1>1, <2>2, <2>3, <2>4 DEF ClaimDeliveries, TypeInv, ScheduledTypeOK,
        OutcomeTypeOK, rowVars, outputVars
<1>2. ASSUME NEW k \in Runs, Post(r, k) PROVE OutcomeTypeOK'
  <2>1. PICK answer \in Answers :
          /\ posted' = [posted EXCEPT ![r] = [run |-> k, answer |-> answer]]
          /\ accepted' \in CASE answer = "ok" -> {accepted \cup {k}}
                             [] answer = "transient" -> {accepted, accepted \cup {k}}
                             [] answer = "permanent" -> {accepted}
    BY <1>2 DEF Post
  <2>2. accepted' \in {accepted, accepted \cup {k}}
    BY <2>1 DEF Answers
  <2>3. accepted' \in SUBSET Runs
    BY <2>2 DEF TypeInv, ScheduledTypeOK, OutcomeTypeOK
  <2>4. posted' \in [Replicas -> Posts \cup {None}]
    BY <2>1 DEF Posts, TypeInv, ScheduledTypeOK, OutcomeTypeOK
  <2>5. batch' \in [Replicas -> SUBSET Runs]
    BY <1>2 DEF Post, TypeInv, ScheduledTypeOK, OutcomeTypeOK
  <2> QED
    BY <1>2, <2>3, <2>4, <2>5 DEF Post, TypeInv, ScheduledTypeOK, OutcomeTypeOK,
        rowVars, outputVars
<1>3. CASE Record(r)
  <2> DEFINE k == posted[r].run
  <2>1. Disposition(k, posted[r].answer) \in {"retry_wait"} \cup Settled
    BY DispositionType
  <2>2. delivery' \in [Runs -> {"none", "pending", "delivering", "retry_wait"}
                                 \cup Settled]
    BY <1>3, <2>1 DEF Record, TypeInv, ScheduledTypeOK, OutcomeTypeOK
  <2>3. /\ holder' \in [Runs -> Replicas \cup {None}]
        /\ posted' \in [Replicas -> Posts \cup {None}]
    BY <1>3 DEF Record, TypeInv, ScheduledTypeOK, OutcomeTypeOK
  <2> QED
    BY <1>3, <2>2, <2>3 DEF Record, TypeInv, ScheduledTypeOK, OutcomeTypeOK,
        rowVars, outputVars
<1>4. CASE RecordFails(r)
  <2>1. posted[r] \in Posts
    BY <1>4 DEF RecordFails, TypeInv, ScheduledTypeOK, OutcomeTypeOK
  <2>2. posted' \in [Replicas -> Posts \cup {None}]
    BY <1>4, <2>1 DEF RecordFails, Posts, Answers, TypeInv, ScheduledTypeOK,
        OutcomeTypeOK
  <2>3. batch' \in [Replicas -> SUBSET Runs]
    BY <1>4 DEF RecordFails, TypeInv, ScheduledTypeOK, OutcomeTypeOK
  <2>4. faults' \in 0 .. MaxFaults
    BY <1>4, FaultType DEF RecordFails
  <2> QED
    BY <1>4, <2>2, <2>3, <2>4 DEF RecordFails, TypeInv, ScheduledTypeOK,
        OutcomeTypeOK, rowVars, outputVars, deliveryVars
<1> QED
  BY <1>1, <1>2, <1>3, <1>4 DEF PostStep

\* Which steps change a job.
LEMMA JobKept ==
    ASSUME ScheduledNext
    PROVE  \/ UNCHANGED job
           \/ \E k \in Runs : JobEnds(k)
           \/ \E r \in Replicas : CreateJob(r)
BY DEF ScheduledNext, TimePasses, DispatchStep, DispatchFails, Crash, LoseSweeps,
    Tick, Consume, Reserve, Lookup, Link, RecordLastRun, OutcomeNext,
    AuthorizeSubmit, Submit, LeaseExpires, SweepStep, Finalize,
    WriteTerminalError, ProjectRun, ReviewFails, ClaimDeliveries, PostStep, Post,
    Record, RecordFails, outcomeVars, rowVars

\* What a sweep turns to.
LEMMA ReviewKept ==
    ASSUME TypeInv, ReviewInv, ScheduledNext, NEW r \in Replicas,
           review'[r] # None, review'[r] # review[r]
    PROVE  review'[r].run \in Runs /\ job[review'[r].run] \in Ended
<1>1. \/ \E k \in Runs : Finalize(r, k)
      \/ WriteTerminalError(r)
  <2>1. \/ UNCHANGED review
        \/ \E q \in Replicas :
              \/ \E k \in Runs : Finalize(q, k)
              \/ WriteTerminalError(q)
              \/ review' = [review EXCEPT ![q] = None]
    BY DEF ScheduledNext, TimePasses, DispatchStep, DispatchFails, Crash,
        LoseSweeps, Tick, Consume, Reserve, Lookup, CreateJob, Link,
        RecordLastRun, OutcomeNext, AuthorizeSubmit, Submit, JobEnds,
        LeaseExpires, SweepStep, ProjectRun, ReviewFails, ClaimDeliveries,
        PostStep, Post, Record, RecordFails, outcomeVars
  <2>2. PICK q \in Replicas :
              \/ \E k \in Runs : Finalize(q, k)
              \/ WriteTerminalError(q)
              \/ review' = [review EXCEPT ![q] = None]
    BY <2>1
  <2>3. \E f : review' = [review EXCEPT ![q] = f]
    BY <2>2 DEF Finalize, WriteTerminalError
  <2>4. q = r
    BY <2>3 DEF TypeInv, ScheduledTypeOK, OutcomeTypeOK
  <2>5. review' # [review EXCEPT ![r] = None]
    BY DEF TypeInv, ScheduledTypeOK, OutcomeTypeOK
  <2> QED
    BY <2>2, <2>4, <2>5
<1>2. ASSUME NEW k \in Runs, Finalize(r, k)
      PROVE  review'[r].run \in Runs /\ job[review'[r].run] \in Ended
  <2>1. job[k] \in Ended
    BY <1>2 DEF Finalize, OutputCandidates, RunCandidates
  <2>2. review'[r].run = k
    BY <1>2 DEF Finalize, TypeInv, ScheduledTypeOK, OutcomeTypeOK
  <2> QED
    BY <2>1, <2>2
<1>3. ASSUME WriteTerminalError(r)
      PROVE  review'[r].run \in Runs /\ job[review'[r].run] \in Ended
  <2>1. review[r] \in Reviews /\ job[review[r].run] \in Ended
    BY <1>3 DEF WriteTerminalError, TypeInv, ScheduledTypeOK, OutcomeTypeOK,
        ReviewInv
  <2>2. review' = [review EXCEPT ![r].step = "project"]
    BY <1>3 DEF WriteTerminalError, TypeInv, ScheduledTypeOK, OutcomeTypeOK
  <2>3. review'[r].run = review[r].run
    BY <2>1, <2>2 DEF Reviews, TypeInv, ScheduledTypeOK, OutcomeTypeOK
  <2> QED
    BY <2>1, <2>3 DEF Reviews
<1> QED
  BY <1>1, <1>2, <1>3

\* The job of a finalizer stays ended.
LEMMA ReviewStep ==
    ASSUME TypeInv, ReviewInv, ScheduledNext
    PROVE  ReviewInv'
<1>1. \A k \in Runs : job[k] \in Ended => job'[k] \in Ended
  <2>1. CASE UNCHANGED job
    BY <2>1
  <2>2. ASSUME NEW k \in Runs, JobEnds(k)
        PROVE  \A j \in Runs : job[j] \in Ended => job'[j] \in Ended
    BY <2>2 DEF JobEnds, TypeInv, ScheduledTypeOK, OutcomeTypeOK, Ended
  <2>3. ASSUME NEW r \in Replicas, CreateJob(r)
        PROVE  \A j \in Runs : job[j] \in Ended => job'[j] \in Ended
    BY <2>3 DEF CreateJob, TypeInv, ScheduledTypeOK, OutcomeTypeOK, Ended
  <2> QED
    BY <2>1, <2>2, <2>3, JobKept
<1>2. ASSUME NEW r \in Replicas, review'[r] # None
      PROVE  job'[review'[r].run] \in Ended
  <2>1. CASE review'[r] = review[r]
    BY <1>1, <1>2, <2>1 DEF ReviewInv, TypeInv, ScheduledTypeOK, OutcomeTypeOK,
        Reviews
  <2>2. CASE review'[r] # review[r]
    BY <1>1, <1>2, <2>2, ReviewKept
  <2> QED
    BY <2>1, <2>2
<1> QED
  BY <1>2 DEF ReviewInv

LEMMA TypeStep ==
    ASSUME TypeInv, ReviewInv, [ScheduledNext]_vars
    PROVE  TypeInv'
<1>1. CASE UNCHANGED vars
  BY <1>1 DEF vars, outcomeVars, rowVars, outputVars, deliveryVars, postVars,
      configVars, dispatchVars, TypeInv, ScheduledTypeOK, OutcomeTypeOK,
      KeysAreRuns
<1>2. CASE TimePasses
  <2>1. scenario \in [runs : 0 .. NumRuns, schedule : Schedules,
                      lastRun : {0, Never}, required : BOOLEAN,
                      up : SUBSET Replicas]
    BY ScheduleAssumption DEF TypeInv, ScheduledTypeOK
  <2>2. clock' \in 0 .. NumRuns
    BY <1>2, <2>1, OutputAssumption DEF TimePasses, TypeInv, ScheduledTypeOK
  <2> QED
    BY <1>2, <2>2 DEF TimePasses, outcomeVars, rowVars, outputVars, deliveryVars,
        postVars, configVars, dispatchVars, TypeInv, ScheduledTypeOK,
        OutcomeTypeOK, KeysAreRuns
<1>3. ASSUME NEW r \in Replicas, DispatchStep(r) \/ DispatchFails(r) \/ Crash(r)
      PROVE  TypeInv'
  BY <1>3, DispatchType
<1>4. CASE OutcomeNext /\ UNCHANGED <<configVars, clock, dispatchVars>>
  <2>1. OutcomeTypeOK'
    BY <1>4, SubmitType, JobEndsType, LeaseExpiresType, SweepType, DeliveryType
       DEF OutcomeNext
  <2> QED
    BY <1>4, <2>1, DispatchVarsType DEF TypeInv, ScheduledTypeOK
<1> QED
  BY <1>1, <1>2, <1>3, <1>4 DEF ScheduledNext

LEMMA BaseInvariant == ScheduledSpec => [](TypeInv /\ ReviewInv)
<1>1. ScheduledInit => TypeInv /\ ReviewInv
  BY TypeInit DEF ScheduledInit, OutcomeInit, ReviewInv
<1>2. TypeInv /\ ReviewInv /\ [ScheduledNext]_vars => (TypeInv /\ ReviewInv)'
  <2>1. CASE UNCHANGED vars
    BY <2>1, TypeStep DEF ReviewInv, vars, outcomeVars, rowVars
  <2> QED
    BY <2>1, TypeStep, ReviewStep
<1> QED
  BY <1>1, <1>2, PTL DEF ScheduledSpec

\* Every variable keeps its type: the outcome of a run is never the status of
\* a job under way, though ProjectRun copies one.
THEOREM ScheduledTypeCorrect == ScheduledSpec => []ScheduledTypeOK
BY BaseInvariant, PTL DEF TypeInv

----------------------------------------------------------------------------
(* The envelope and the outcome of a run                                   *)

\* Which steps change an envelope.
LEMMA EnvelopeKept ==
    ASSUME ScheduledNext
    PROVE  \/ UNCHANGED envelope
           \/ \E k \in Runs, p \in Payloads :
                 envelope[k] = None /\ Insert(k, p)
           \/ \E r \in Replicas :
                 /\ WriteTerminalError(r)
                 /\ envelope[review[r].run] = None
                 /\ Insert(review[r].run, TerminalError)
<1>1. ASSUME NEW k \in Runs, NEW p \in Payloads, Submit(k, p)
      PROVE  UNCHANGED envelope \/ (envelope[k] = None /\ Insert(k, p))
  BY <1>1 DEF Submit
<1>2. ASSUME NEW r \in Replicas, WriteTerminalError(r)
      PROVE  \/ UNCHANGED envelope
             \/ /\ envelope[review[r].run] = None
                /\ Insert(review[r].run, TerminalError)
  BY <1>2 DEF WriteTerminalError
<1> QED
  BY <1>1, <1>2 DEF ScheduledNext, TimePasses, DispatchStep, DispatchFails, Crash,
      LoseSweeps, Tick, Consume, Reserve, Lookup, CreateJob, Link, RecordLastRun,
      OutcomeNext, AuthorizeSubmit, JobEnds, LeaseExpires, SweepStep, Finalize,
      ProjectRun, ReviewFails, ClaimDeliveries, PostStep, Post, Record,
      RecordFails, outcomeVars, outputVars

LEMMA EnvelopeStays ==
    ASSUME TypeInv, ScheduledNext, NEW k \in Runs, envelope[k] # None
    PROVE  envelope'[k] = envelope[k]
<1>1. ASSUME NEW j, NEW v, envelope[j] = None, Insert(j, v)
      PROVE  envelope'[k] = envelope[k]
  BY <1>1 DEF Insert, TypeInv, ScheduledTypeOK, OutcomeTypeOK
<1> QED
  BY <1>1, EnvelopeKept

\* Which steps change a run: a reservation, or the projection of its job.
LEMMA RunKept ==
    ASSUME ScheduledNext
    PROVE  \/ UNCHANGED run
           \/ \E r \in Replicas :
                 /\ stage[r] = "reserve" /\ run[key[r]] = "none"
                 /\ run' = [run EXCEPT ![key[r]] = "pending"]
                 /\ UNCHANGED <<job, required, envelope>>
           \/ \E r \in Replicas :
                 /\ review[r] # None /\ run[review[r].run] = "pending"
                 /\ run' = [run EXCEPT ![review[r].run] = Outcome(review[r].run)]
                 /\ UNCHANGED <<job, required, envelope>>
<1>1. ASSUME NEW r \in Replicas, Reserve(r)
      PROVE  \/ UNCHANGED run
             \/ /\ stage[r] = "reserve" /\ run[key[r]] = "none"
                /\ run' = [run EXCEPT ![key[r]] = "pending"]
                /\ UNCHANGED <<job, required, envelope>>
  BY <1>1 DEF Reserve, outputVars
<1>2. ASSUME NEW r \in Replicas, ProjectRun(r)
      PROVE  \/ UNCHANGED run
             \/ /\ review[r] # None /\ run[review[r].run] = "pending"
                /\ run' = [run EXCEPT ![review[r].run] = Outcome(review[r].run)]
                /\ UNCHANGED <<job, required, envelope>>
  BY <1>2 DEF ProjectRun, outputVars
<1> QED
  BY <1>1, <1>2 DEF ScheduledNext, TimePasses, DispatchStep, DispatchFails, Crash,
      LoseSweeps, Tick, Consume, Lookup, CreateJob, Link, RecordLastRun,
      OutcomeNext, AuthorizeSubmit, Submit, JobEnds, LeaseExpires, SweepStep,
      Finalize, WriteTerminalError, ReviewFails, ClaimDeliveries, PostStep, Post,
      Record, RecordFails, outcomeVars, rowVars

LEMMA EndedRunStays ==
    ASSUME TypeInv, ScheduledNext, NEW k \in Runs, run[k] \in Ended
    PROVE  run'[k] = run[k]
<1>1. run[k] # "none" /\ run[k] # "pending"
  BY DEF Ended
<1>2. ASSUME NEW j, NEW v, run[j] # run[k], run' = [run EXCEPT ![j] = v]
      PROVE  run'[k] = run[k]
  BY <1>2 DEF TypeInv, ScheduledTypeOK, OutcomeTypeOK
<1> QED
  BY <1>1, <1>2, RunKept

\* "Exactly one downstream envelope": neither a late submission nor another
\* finalizer replaces the envelope of a job, and the outcome that was projected
\* on a run is not projected again.
THEOREM EnvelopeIsFinalCorrect == ScheduledSpec => EnvelopeIsFinal
<1>1. ASSUME TypeInv, [ScheduledNext]_vars
      PROVE  [\A k \in Runs :
                /\ envelope[k] # None => envelope'[k] = envelope[k]
                /\ run[k] \in Ended => run'[k] = run[k]]_outcomeVars
  <2>1. CASE UNCHANGED vars
    BY <2>1 DEF vars
  <2>2. CASE ScheduledNext
    BY <1>1, <2>2, EnvelopeStays, EndedRunStays
  <2> QED
    BY <1>1, <2>1, <2>2
<1> QED
  BY <1>1, BaseInvariant, PTL DEF ScheduledSpec, EnvelopeIsFinal

\* What the outcome of one run says of its job and its envelope.
RunAgrees(k) ==
    /\ run[k] = "completed" =>
          job[k] = "completed" /\ (required => envelope[k] \in Payloads)
    /\ run[k] = "failed" =>
          \/ job[k] = "failed"
          \/ job[k] = "completed" /\ envelope[k] = TerminalError
    /\ run[k] = "cancelled" => job[k] = "cancelled"

LEMMA EndedJobStays ==
    ASSUME TypeInv, ScheduledNext, NEW k \in Runs, job[k] \in Ended
    PROVE  job'[k] = job[k]
<1>1. ASSUME NEW j \in Runs, JobEnds(j) PROVE job'[k] = job[k]
  BY <1>1 DEF JobEnds, TypeInv, ScheduledTypeOK, OutcomeTypeOK, Ended
<1>2. ASSUME NEW r \in Replicas, CreateJob(r) PROVE job'[k] = job[k]
  BY <1>2 DEF CreateJob, TypeInv, ScheduledTypeOK, OutcomeTypeOK, Ended
<1> QED
  BY <1>1, <1>2, JobKept

LEMMA RequiredStays == ScheduledNext => UNCHANGED required
BY DEF ScheduledNext, TimePasses, DispatchStep, DispatchFails, Crash, LoseSweeps,
    Tick, Consume, Reserve, Lookup, CreateJob, Link, RecordLastRun, OutcomeNext,
    AuthorizeSubmit, Submit, JobEnds, LeaseExpires, SweepStep, Finalize,
    WriteTerminalError, ProjectRun, ReviewFails, ClaimDeliveries, PostStep, Post,
    Record, RecordFails, outcomeVars, rowVars

\* A projection agrees with what it was made from.
LEMMA OutcomeAgrees ==
    ASSUME TypeInv, NEW k \in Runs, job[k] \in Ended, run'[k] = Outcome(k),
           UNCHANGED <<job, required, envelope>>
    PROVE  RunAgrees(k)'
<1>1. envelope[k] \in Payloads \cup {None, TerminalError}
  BY DEF TypeInv, ScheduledTypeOK, OutcomeTypeOK
<1> QED
  BY <1>1 DEF Outcome, RunAgrees, Ended

LEMMA AgreementStep ==
    ASSUME TypeInv, ReviewInv, ScheduledNext, NEW k \in Runs, RunAgrees(k)
    PROVE  RunAgrees(k)'
<1>1. CASE run'[k] = run[k] /\ run[k] \in Ended
  <2>1. job[k] \in Ended
    BY <1>1 DEF RunAgrees, Ended
  <2>2. job'[k] = job[k] /\ required' = required
    BY <2>1, EndedJobStays, RequiredStays
  <2>3. envelope[k] # None => envelope'[k] = envelope[k]
    BY EnvelopeStays
  <2>4. None \notin Payloads /\ None # TerminalError
    BY OutputAssumption
  <2> QED
    BY <1>1, <2>2, <2>3, <2>4 DEF RunAgrees
<1>2. CASE run'[k] \notin Ended
  BY <1>2 DEF RunAgrees, Ended
<1>3. CASE run'[k] # run[k] /\ run'[k] \in Ended
  <2>1. PICK r \in Replicas :
              /\ review[r] # None /\ run[review[r].run] = "pending"
              /\ run' = [run EXCEPT ![review[r].run] = Outcome(review[r].run)]
              /\ UNCHANGED <<job, required, envelope>>
    <3>1. ASSUME NEW j, run' = [run EXCEPT ![j] = "pending"]
          PROVE  FALSE
      BY <1>3, <3>1 DEF TypeInv, ScheduledTypeOK, OutcomeTypeOK, Ended
    <3> QED
      BY <1>3, <3>1, RunKept
  <2>2. review[r].run = k
    BY <1>3, <2>1 DEF TypeInv, ScheduledTypeOK, OutcomeTypeOK
  <2>3. run'[k] = Outcome(k) /\ job[k] \in Ended
    BY <2>1, <2>2 DEF ReviewInv, TypeInv, ScheduledTypeOK, OutcomeTypeOK
  <2> QED
    BY <2>1, <2>3, OutcomeAgrees
<1> QED
  BY <1>1, <1>2, <1>3

\* The outcome of a run agrees with its job and what was submitted, in whatever
\* order the submission, the end of the job and the sweeps came.
THEOREM RunMatchesJobCorrect == ScheduledSpec => []RunMatchesJob
<1>1. RunMatchesJob <=> \A k \in Runs : RunAgrees(k)
  BY DEF RunMatchesJob, RunAgrees
<1>2. ScheduledInit => RunMatchesJob
  BY DEF ScheduledInit, OutcomeInit, RunMatchesJob
<1>3. TypeInv /\ ReviewInv /\ RunMatchesJob /\ [ScheduledNext]_vars
        => RunMatchesJob'
  <2>1. CASE UNCHANGED vars
    BY <2>1 DEF RunMatchesJob, vars, outcomeVars, rowVars, outputVars
  <2>2. ASSUME TypeInv, ReviewInv, RunMatchesJob, ScheduledNext
        PROVE  RunMatchesJob'
    <3>1. \A k \in Runs : RunAgrees(k)'
      BY <2>2, <1>1, AgreementStep
    <3> QED
      BY <3>1 DEF RunMatchesJob, RunAgrees
  <2> QED
    BY <2>1, <2>2
<1> QED
  BY <1>2, <1>3, BaseInvariant, PTL DEF ScheduledSpec

----------------------------------------------------------------------------
(* The delivery of the envelope                                            *)

\* Which steps change a delivery or its lease.
LEMMA DeliveryKept ==
    ASSUME TypeInv, ScheduledNext
    PROVE  \/ UNCHANGED <<envelope, delivery, holder>>
           \/ \E k \in Runs, v \in Payloads \cup {TerminalError} :
                 envelope[k] = None /\ Insert(k, v) /\ UNCHANGED holder
           \/ \E r \in Replicas, S \in SUBSET Claimable : ClaimDeliveries(r, S)
           \/ \E r \in Replicas : Record(r)
           \/ \E k \in Runs : LeaseExpires(k)
<1> DEFINE Kept ==
             \/ UNCHANGED <<envelope, delivery, holder>>
             \/ \E k \in Runs, v \in Payloads \cup {TerminalError} :
                   envelope[k] = None /\ Insert(k, v) /\ UNCHANGED holder
<1>1. ASSUME NEW k \in Runs, NEW p \in Payloads, Submit(k, p)
      PROVE  Kept
  BY <1>1 DEF Submit
<1>2. ASSUME NEW r \in Replicas, WriteTerminalError(r)
      PROVE  Kept
  <2>1. review[r].run \in Runs
    BY <1>2 DEF WriteTerminalError, Reviews, TypeInv, ScheduledTypeOK, OutcomeTypeOK
  <2> QED
    BY <1>2, <2>1 DEF WriteTerminalError
<1>3. ASSUME \/ TimePasses
             \/ \E r \in Replicas : DispatchStep(r) \/ DispatchFails(r) \/ Crash(r)
      PROVE  UNCHANGED <<envelope, delivery, holder>>
  BY <1>3 DEF TimePasses, DispatchStep, DispatchFails, Crash, LoseSweeps, Tick, Consume,
      Reserve, Lookup, CreateJob, Link, RecordLastRun, outcomeVars, outputVars, deliveryVars
<1>4. ASSUME NEW k \in Runs, JobEnds(k) \/ \E p \in Payloads : AuthorizeSubmit(k, p)
      PROVE  UNCHANGED <<envelope, delivery, holder>>
  BY <1>4 DEF JobEnds, AuthorizeSubmit, outputVars, deliveryVars
<1>5. ASSUME NEW r \in Replicas,
             \/ \E k \in Runs : Finalize(r, k) \/ Post(r, k)
             \/ ProjectRun(r) \/ ReviewFails(r) \/ RecordFails(r)
      PROVE  UNCHANGED <<envelope, delivery, holder>>
  BY <1>5 DEF Finalize, Post, ProjectRun, ReviewFails, RecordFails, outputVars, deliveryVars
<1> QED
  BY <1>1, <1>2, <1>3, <1>4, <1>5 DEF ScheduledNext, OutcomeNext, SweepStep, PostStep

LEMMA LeaseStep ==
    ASSUME TypeInv, LeaseInv, [ScheduledNext]_vars
    PROVE  LeaseInv'
<1>n. None \notin Replicas
  BY OutputAssumption
<1>1. CASE UNCHANGED <<envelope, delivery, holder>>
  BY <1>1 DEF LeaseInv
<1>2. ASSUME NEW k \in Runs, NEW v \in Payloads \cup {TerminalError},
             envelope[k] = None, Insert(k, v), UNCHANGED holder
      PROVE  LeaseInv'
  <2>1. holder[k] = None /\ v # None
    BY <1>2, OutputAssumption DEF LeaseInv
  <2>2. /\ envelope' = [envelope EXCEPT ![k] = v]
        /\ delivery' = [delivery EXCEPT ![k] = "pending"]
    BY <1>2 DEF Insert
  <2> QED
    BY <1>2, <2>1, <2>2 DEF LeaseInv, TypeInv, ScheduledTypeOK, OutcomeTypeOK
<1>3. ASSUME NEW r \in Replicas, NEW S \in SUBSET Claimable, ClaimDeliveries(r, S)
      PROVE  LeaseInv'
  <2>1. \A k \in S : k \in Runs /\ delivery[k] # "none"
    BY DEF Claimable
  <2> QED
    BY <1>3, <2>1 DEF ClaimDeliveries, LeaseInv, outputVars
<1>4. ASSUME NEW r \in Replicas, Record(r) PROVE LeaseInv'
  <2> DEFINE k == posted[r].run
  <2>1. CASE holder[k] = r
    <3>1. /\ delivery' = [delivery EXCEPT ![k] = Disposition(k, posted[r].answer)]
          /\ holder' = [holder EXCEPT ![k] = None] /\ UNCHANGED envelope
      BY <1>4, <2>1 DEF Record, outputVars
    <3>2. k \in Runs
      BY <1>4 DEF Record, Posts, TypeInv, ScheduledTypeOK, OutcomeTypeOK
    <3>3. envelope[k] # None
      BY <1>n, <2>1, <3>2 DEF LeaseInv
    <3> QED
      BY <3>1, <3>2, <3>3 DEF LeaseInv, TypeInv, ScheduledTypeOK, OutcomeTypeOK
  <2>2. CASE holder[k] # r
    BY <1>4, <2>2, <1>1 DEF Record, outputVars
  <2> QED
    BY <2>1, <2>2
<1>5. ASSUME NEW k \in Runs, LeaseExpires(k) PROVE LeaseInv'
  BY <1>5 DEF LeaseExpires, LeaseInv, outputVars, TypeInv, ScheduledTypeOK,
      OutcomeTypeOK
<1> QED
  <2>1. CASE UNCHANGED vars
    BY <2>1, <1>1 DEF vars, outcomeVars, outputVars, deliveryVars
  <2> QED
    BY <2>1, <1>1, <1>2, <1>3, <1>4, <1>5, DeliveryKept

LEMMA LeaseInvariant == ScheduledSpec => []LeaseInv
<1>1. ScheduledInit => LeaseInv
  BY DEF ScheduledInit, OutcomeInit, LeaseInv
<1>2. TypeInv /\ LeaseInv /\ [ScheduledNext]_vars => LeaseInv'
  BY LeaseStep
<1> QED
  BY <1>1, <1>2, BaseInvariant, PTL DEF ScheduledSpec

LEMMA SettledStays ==
    ASSUME TypeInv, LeaseInv, ScheduledNext, NEW k \in Runs,
           delivery[k] \in Settled
    PROVE  delivery'[k] = delivery[k]
<1>s. delivery[k] \notin {"none", "pending", "retry_wait", "delivering"}
  BY DEF Settled
<1>1. ASSUME NEW j \in Runs, NEW v, envelope[j] = None, Insert(j, v)
      PROVE  delivery'[k] = delivery[k]
  <2>1. j # k
    BY <1>1, <1>s DEF LeaseInv
  <2> QED
    BY <1>1, <2>1 DEF Insert, TypeInv, ScheduledTypeOK, OutcomeTypeOK
<1>2. ASSUME NEW r \in Replicas, NEW S \in SUBSET Claimable, ClaimDeliveries(r, S)
      PROVE  delivery'[k] = delivery[k]
  BY <1>2, <1>s DEF ClaimDeliveries, Claimable
<1>3. ASSUME NEW r \in Replicas, Record(r) PROVE delivery'[k] = delivery[k]
  <2>1. CASE holder[posted[r].run] = r
    <3>1. posted[r].run # k
      BY <1>s, <2>1, OutputAssumption DEF LeaseInv
    <3> QED
      BY <1>3, <2>1, <3>1 DEF Record, TypeInv, ScheduledTypeOK, OutcomeTypeOK
  <2> QED
    BY <1>3, <2>1 DEF Record
<1>4. ASSUME NEW j \in Runs, LeaseExpires(j) PROVE delivery'[k] = delivery[k]
  BY <1>4 DEF LeaseExpires
<1> QED
  BY <1>1, <1>2, <1>3, <1>4, DeliveryKept

\* A delivery that is settled is neither claimed again nor rewritten by a sweep
\* whose lease has passed.
THEOREM SettledDeliveryStaysCorrect == ScheduledSpec => SettledDeliveryStays
<1>1. ASSUME TypeInv, LeaseInv, [ScheduledNext]_vars
      PROVE  [\A k \in Runs :
                delivery[k] \in Settled => delivery'[k] = delivery[k]]_outcomeVars
  <2>1. CASE UNCHANGED vars
    BY <2>1 DEF vars
  <2> QED
    BY <1>1, <2>1, SettledStays
<1> QED
  BY <1>1, BaseInvariant, LeaseInvariant, PTL DEF ScheduledSpec,
      SettledDeliveryStays

\* Only a POST adds to what the receivers took.
LEMMA AcceptedStays ==
    ASSUME ScheduledNext
    PROVE  accepted \subseteq accepted'
<1>1. ASSUME NEW r \in Replicas, NEW k \in Runs, Post(r, k)
      PROVE  accepted \subseteq accepted'
  BY <1>1 DEF Post, Answers
<1> QED
  BY <1>1 DEF ScheduledNext, TimePasses, DispatchStep, DispatchFails, Crash,
      LoseSweeps, Tick, Consume, Reserve, Lookup, CreateJob, Link, RecordLastRun,
      OutcomeNext, AuthorizeSubmit, Submit, JobEnds, LeaseExpires, SweepStep,
      Finalize, WriteTerminalError, ProjectRun, ReviewFails, ClaimDeliveries,
      PostStep, Record, RecordFails, outcomeVars, deliveryVars

\* Which steps change the answer a replica has to record.
LEMMA PostedKept ==
    ASSUME ScheduledNext
    PROVE  \/ UNCHANGED posted
           \/ \E r \in Replicas :
                 \/ \E k \in Runs : Post(r, k)
                 \/ posted' = [posted EXCEPT ![r] = None]
                 \/ /\ posted[r] # None
                    /\ posted' = [posted EXCEPT ![r].answer = "transient"]
BY DEF ScheduledNext, TimePasses, DispatchStep, DispatchFails, Crash,
    LoseSweeps, Tick, Consume, Reserve, Lookup, CreateJob, Link, RecordLastRun,
    OutcomeNext, AuthorizeSubmit, Submit, JobEnds, LeaseExpires, SweepStep,
    Finalize, WriteTerminalError, ProjectRun, ReviewFails, ClaimDeliveries,
    PostStep, Record, RecordFails, outcomeVars, postVars

LEMMA AnswerStep ==
    ASSUME TypeInv, AnswerInv, ScheduledNext
    PROVE  AnswerInv'
<1> SUFFICES ASSUME NEW r \in Replicas, posted'[r] # None,
                    posted'[r].answer = "ok"
             PROVE  posted'[r].run \in accepted'
  BY DEF AnswerInv
<1>1. CASE posted'[r] = posted[r]
  BY <1>1, AcceptedStays DEF AnswerInv
<1>2. CASE posted'[r] # posted[r]
  <2>1. PICK q \in Replicas :
              \/ \E k \in Runs : Post(q, k)
              \/ posted' = [posted EXCEPT ![q] = None]
              \/ /\ posted[q] # None
                 /\ posted' = [posted EXCEPT ![q].answer = "transient"]
    BY <1>2, PostedKept
  <2>2. ASSUME NEW k \in Runs, Post(q, k)
        PROVE  posted'[r].run \in accepted'
    <3>1. PICK answer \in Answers :
            /\ posted' = [posted EXCEPT ![q] = [run |-> k, answer |-> answer]]
            /\ accepted' \in CASE answer = "ok" -> {accepted \cup {k}}
                               [] answer = "transient" -> {accepted, accepted \cup {k}}
                               [] answer = "permanent" -> {accepted}
      BY <2>2 DEF Post
    <3>2. q = r /\ posted'[r] = [run |-> k, answer |-> answer]
      BY <1>2, <3>1 DEF TypeInv, ScheduledTypeOK, OutcomeTypeOK
    <3>3. answer = "ok"
      BY <3>2
    <3>4. accepted' = accepted \cup {k}
      BY <3>1, <3>3
    <3> QED
      BY <3>2, <3>4
  <2>3. CASE posted' = [posted EXCEPT ![q] = None]
    BY <1>2, <2>3 DEF TypeInv, ScheduledTypeOK, OutcomeTypeOK
  <2>4. CASE /\ posted[q] # None
             /\ posted' = [posted EXCEPT ![q].answer = "transient"]
    <3>1. q = r
      BY <1>2, <2>4 DEF TypeInv, ScheduledTypeOK, OutcomeTypeOK
    <3>2. posted[r] \in Posts
      BY <2>4, <3>1 DEF TypeInv, ScheduledTypeOK, OutcomeTypeOK
    <3>3. posted'[r].answer = "transient"
      BY <2>4, <3>1, <3>2 DEF Posts, TypeInv, ScheduledTypeOK, OutcomeTypeOK
    <3> QED
      BY <3>3
  <2> QED
    BY <2>1, <2>2, <2>3, <2>4
<1> QED
  BY <1>1, <1>2

LEMMA AnswerInvariant == ScheduledSpec => []AnswerInv
<1>1. ScheduledInit => AnswerInv
  BY DEF ScheduledInit, OutcomeInit, AnswerInv
<1>2. TypeInv /\ AnswerInv /\ [ScheduledNext]_vars => AnswerInv'
  <2>1. CASE UNCHANGED vars
    BY <2>1 DEF AnswerInv, vars, outcomeVars, postVars, deliveryVars
  <2> QED
    BY <2>1, AnswerStep
<1> QED
  BY <1>1, <1>2, BaseInvariant, PTL DEF ScheduledSpec

\* Which deliveries become delivered: the one whose ok is recorded.
LEMMA BecomesDelivered ==
    ASSUME TypeInv, AnswerInv, ScheduledNext, NEW k \in Runs,
           delivery'[k] = "delivered", delivery[k] # "delivered"
    PROVE  k \in accepted'
<1>1. ASSUME NEW j \in Runs, NEW v, Insert(j, v) PROVE FALSE
  BY <1>1 DEF Insert, TypeInv, ScheduledTypeOK, OutcomeTypeOK
<1>2. ASSUME NEW r \in Replicas, NEW S \in SUBSET Claimable, ClaimDeliveries(r, S)
      PROVE  FALSE
  BY <1>2 DEF ClaimDeliveries
<1>3. ASSUME NEW j \in Runs, LeaseExpires(j) PROVE FALSE
  BY <1>3 DEF LeaseExpires
<1>4. ASSUME NEW r \in Replicas, Record(r) PROVE k \in accepted'
  <2>1. delivery' = [delivery EXCEPT ![posted[r].run] =
                       Disposition(posted[r].run, posted[r].answer)]
    BY <1>4 DEF Record
  <2>2. /\ posted[r].run = k
        /\ Disposition(k, posted[r].answer) = "delivered"
    BY <2>1 DEF TypeInv, ScheduledTypeOK, OutcomeTypeOK
  <2>3. posted[r].answer = "ok"
    BY <2>2 DEF Disposition
  <2>4. k \in accepted
    BY <1>4, <2>2, <2>3 DEF Record, AnswerInv
  <2> QED
    BY <2>4, AcceptedStays
<1> QED
  BY <1>1, <1>2, <1>3, <1>4, DeliveryKept

\* A delivery is recorded as delivered only if its receiver took the envelope,
\* also when the lease changed hands between the POST and the record.
THEOREM DeliveredWasAcceptedCorrect == ScheduledSpec => []DeliveredWasAccepted
<1>1. ScheduledInit => DeliveredWasAccepted
  BY DEF ScheduledInit, OutcomeInit, DeliveredWasAccepted
<1>2. TypeInv /\ AnswerInv /\ DeliveredWasAccepted /\ [ScheduledNext]_vars
        => DeliveredWasAccepted'
  <2>1. CASE UNCHANGED vars
    BY <2>1 DEF DeliveredWasAccepted, vars, outcomeVars, deliveryVars
  <2>2. ASSUME TypeInv, AnswerInv, DeliveredWasAccepted, ScheduledNext,
               NEW k \in Runs, delivery'[k] = "delivered"
        PROVE  k \in accepted'
    <3>1. CASE delivery[k] = "delivered"
      BY <2>2, <3>1, AcceptedStays DEF DeliveredWasAccepted
    <3>2. CASE delivery[k] # "delivered"
      BY <2>2, <3>2, BecomesDelivered
    <3> QED
      BY <3>1, <3>2
  <2> QED
    BY <2>1, <2>2 DEF DeliveredWasAccepted
<1> QED
  BY <1>1, <1>2, BaseInvariant, AnswerInvariant, PTL DEF ScheduledSpec

----------------------------------------------------------------------------
(* The refinement of RunPromise                                            *)

\* The run is reserved before its job is created, and only a job submits.
RowInv ==
    /\ \A k \in Runs : job[k] # "none" => run[k] # "none"
    /\ \A r \in Replicas : stage[r] \in {"lookup", "create"} => run[key[r]] # "none"
    /\ \A q \in requests : job[q[1]] # "none"

\* A terminal error is written for a required output only.
PolicyInv ==
    \A r \in Replicas : review[r] # None /\ review[r].step = "write" => required

\* What is claimed, posted or taken is an envelope.
SentInv ==
    /\ \A r \in Replicas : \A k \in batch[r] : envelope[k] # None
    /\ \A r \in Replicas : posted[r] # None => envelope[posted[r].run] # None
    /\ \A k \in accepted : envelope[k] # None

\* A run that is reserved, and a job that is there, do not go away.
LEMMA RowsStay ==
    ASSUME TypeInv, ReviewInv, ScheduledNext, NEW k \in Runs
    PROVE  /\ run[k] # "none" => run'[k] # "none"
           /\ job[k] # "none" => job'[k] # "none"
<1>1. run[k] # "none" => run'[k] # "none"
  <2>1. ASSUME NEW r \in Replicas, review[r] # None
        PROVE  Outcome(review[r].run) # "none"
    <3>1. review[r].run \in Runs /\ job[review[r].run] \in Ended
      BY <2>1 DEF ReviewInv, Reviews, TypeInv, ScheduledTypeOK, OutcomeTypeOK
    <3> QED
      BY <3>1, OutcomeIsEnd DEF Ended
  <2>2. ASSUME NEW j, NEW v, v # "none", run' = [run EXCEPT ![j] = v]
        PROVE  run[k] # "none" => run'[k] # "none"
    BY <2>2 DEF TypeInv, ScheduledTypeOK, OutcomeTypeOK
  <2> QED
    BY <2>1, <2>2, RunKept
<1>2. job[k] # "none" => job'[k] # "none"
  <2>1. ASSUME NEW j \in Runs, JobEnds(j)
        PROVE  job[k] # "none" => job'[k] # "none"
    BY <2>1 DEF JobEnds, TypeInv, ScheduledTypeOK, OutcomeTypeOK, Ended
  <2>2. ASSUME NEW r \in Replicas, CreateJob(r)
        PROVE  job[k] # "none" => job'[k] # "none"
    BY <2>2 DEF CreateJob, TypeInv, ScheduledTypeOK, OutcomeTypeOK
  <2> QED
    BY <2>1, <2>2, JobKept
<1> QED
  BY <1>1, <1>2

\* Which steps take a dispatch to the creation of the job.
LEMMA StageKept ==
    ASSUME TypeInv, ScheduledNext, NEW r \in Replicas,
           stage'[r] \in {"lookup", "create"}
    PROVE  /\ key'[r] = key[r]
           /\ \/ stage[r] \in {"lookup", "create"}
              \/ Reserve(r)
<1>1. CASE UNCHANGED dispatchVars
  BY <1>1 DEF dispatchVars
<1>2. ASSUME NEW q \in Replicas, NEW s, Goto(q, s), UNCHANGED key,
             s \notin {"lookup", "create"}
      PROVE  key'[r] = key[r] /\ stage[r] \in {"lookup", "create"}
  BY <1>2 DEF Goto, TypeInv, ScheduledTypeOK
<1>3. ASSUME NEW q \in Replicas, Tick(q)
      PROVE  key'[r] = key[r] /\ stage[r] \in {"lookup", "create"}
  BY <1>3 DEF Tick, Goto, TypeInv, ScheduledTypeOK
<1>4. ASSUME NEW q \in Replicas,
             Consume(q) \/ Link(q) \/ RecordLastRun(q) \/ DispatchFails(q)
               \/ Crash(q)
      PROVE  key'[r] = key[r] /\ stage[r] \in {"lookup", "create"}
  BY <1>2, <1>4 DEF Consume, Link, RecordLastRun, DispatchFails, Crash
<1>5. ASSUME NEW q \in Replicas, Lookup(q) \/ CreateJob(q) \/ Reserve(q)
      PROVE  /\ key'[r] = key[r]
             /\ stage[r] \in {"lookup", "create"} \/ Reserve(r)
  <2>1. CASE q = r
    BY <1>5, <2>1 DEF Lookup, CreateJob, Reserve
  <2>2. CASE q # r
    BY <1>5, <2>2 DEF Lookup, CreateJob, Reserve, Goto, TypeInv, ScheduledTypeOK
  <2> QED
    BY <2>1, <2>2
<1> QED
  BY <1>1, <1>3, <1>4, <1>5 DEF ScheduledNext, TimePasses, DispatchStep

LEMMA RequestsKept ==
    ASSUME ScheduledNext
    PROVE  \/ requests' \subseteq requests
           \/ \E k \in Runs, p \in Payloads : AuthorizeSubmit(k, p)
BY DEF ScheduledNext, TimePasses, DispatchStep, DispatchFails, Crash, LoseSweeps,
    Tick, Consume, Reserve, Lookup, CreateJob, Link, RecordLastRun, OutcomeNext,
    Submit, JobEnds, LeaseExpires, SweepStep, Finalize, WriteTerminalError,
    ProjectRun, ReviewFails, ClaimDeliveries, PostStep, Post, Record,
    RecordFails, outcomeVars, outputVars

LEMMA RowStep ==
    ASSUME TypeInv, ReviewInv, RowInv, ScheduledNext
    PROVE  RowInv'
<1>1. ASSUME NEW k \in Runs, job'[k] # "none" PROVE run'[k] # "none"
  <2>1. CASE job[k] # "none"
    BY <2>1, RowsStay DEF RowInv
  <2>2. CASE job[k] = "none"
    <3>1. ~ \E j \in Runs : JobEnds(j)
      BY <1>1, <2>2 DEF JobEnds, TypeInv, ScheduledTypeOK, OutcomeTypeOK
    <3>2. PICK r \in Replicas : CreateJob(r)
      BY <1>1, <2>2, <3>1, JobKept
    <3>3. key[r] = k /\ stage[r] = "create"
      BY <1>1, <2>2, <3>2 DEF CreateJob, TypeInv, ScheduledTypeOK, OutcomeTypeOK
    <3> QED
      BY <3>3, RowsStay DEF RowInv
  <2> QED
    BY <2>1, <2>2
<1>2. ASSUME NEW r \in Replicas, stage'[r] \in {"lookup", "create"}
      PROVE  run'[key'[r]] # "none"
  <2>1. key'[r] = key[r]
    BY <1>2, StageKept
  <2>2. CASE stage[r] \in {"lookup", "create"}
    <3>1. key[r] \in Runs /\ run[key[r]] # "none"
      BY <2>2 DEF RowInv, TypeInv, KeysAreRuns
    <3> QED
      BY <2>1, <3>1, RowsStay
  <2>3. CASE Reserve(r)
    <3>1. key[r] \in Runs
      BY <2>3 DEF Reserve, TypeInv, KeysAreRuns
    <3> QED
      BY <2>1, <2>3, <3>1 DEF Reserve, TypeInv, ScheduledTypeOK, OutcomeTypeOK
  <2> QED
    BY <1>2, <2>2, <2>3, StageKept
<1>3. ASSUME NEW q \in requests' PROVE job'[q[1]] # "none"
  <2>1. CASE q \in requests
    <3>1. q[1] \in Runs
      BY <2>1 DEF TypeInv, ScheduledTypeOK, OutcomeTypeOK
    <3> QED
      BY <2>1, <3>1, RowsStay DEF RowInv
  <2>2. CASE q \notin requests
    <3>1. PICK k \in Runs, p \in Payloads : AuthorizeSubmit(k, p)
      BY <1>3, <2>2, RequestsKept
    <3>2. q = <<k, p>> /\ job[k] = "active"
      BY <1>3, <2>2, <3>1 DEF AuthorizeSubmit
    <3> QED
      BY <3>2, RowsStay
  <2> QED
    BY <2>1, <2>2
<1> QED
  BY <1>1, <1>2, <1>3 DEF RowInv

\* Which steps turn a sweep to the writing of a terminal error.
LEMMA PolicyStep ==
    ASSUME TypeInv, PolicyInv, ScheduledNext
    PROVE  PolicyInv'
<1> SUFFICES ASSUME NEW r \in Replicas, review'[r] # None,
                    review'[r].step = "write"
             PROVE  required'
  BY DEF PolicyInv
<1>1. required' = required
  BY RequiredStays
<1>2. CASE review'[r] = review[r]
  BY <1>1, <1>2 DEF PolicyInv
<1>3. CASE review'[r] # review[r]
  <2>1. PICK q \in Replicas :
              \/ \E k \in Runs : Finalize(q, k)
              \/ WriteTerminalError(q)
              \/ review' = [review EXCEPT ![q] = None]
    BY <1>3 DEF ScheduledNext, TimePasses, DispatchStep, DispatchFails, Crash,
        LoseSweeps, Tick, Consume, Reserve, Lookup, CreateJob, Link,
        RecordLastRun, OutcomeNext, AuthorizeSubmit, Submit, JobEnds,
        LeaseExpires, SweepStep, ProjectRun, ReviewFails, ClaimDeliveries,
        PostStep, Post, Record, RecordFails, outcomeVars
  <2>2. ASSUME NEW k \in Runs, Finalize(q, k) PROVE required
    BY <1>3, <2>2 DEF Finalize, TypeInv, ScheduledTypeOK, OutcomeTypeOK
  <2>3. ASSUME WriteTerminalError(q) PROVE FALSE
    <3>1. \/ review' = [review EXCEPT ![q].step = "project"]
          \/ review' = [review EXCEPT ![q] = None]
      BY <2>3 DEF WriteTerminalError
    <3>2. q = r
      BY <1>3, <3>1 DEF TypeInv, ScheduledTypeOK, OutcomeTypeOK
    <3>3. review[r] \in Reviews
      BY <2>3, <3>2 DEF WriteTerminalError, TypeInv, ScheduledTypeOK, OutcomeTypeOK
    <3> QED
      BY <3>1, <3>2, <3>3 DEF Reviews, TypeInv, ScheduledTypeOK, OutcomeTypeOK
  <2>4. ASSUME review' = [review EXCEPT ![q] = None] PROVE FALSE
    BY <1>3, <2>4 DEF TypeInv, ScheduledTypeOK, OutcomeTypeOK
  <2> QED
    BY <1>1, <2>1, <2>2, <2>3, <2>4
<1> QED
  BY <1>2, <1>3

\* Which steps change what a replica has to post.
LEMMA BatchKept ==
    ASSUME TypeInv, ScheduledNext, NEW r \in Replicas
    PROVE  \/ batch'[r] \subseteq batch[r]
           \/ batch'[r] \subseteq Claimable
<1>1. ASSUME NEW q \in Replicas, NEW k \in Runs, Post(q, k)
      PROVE  batch'[r] \subseteq batch[r]
  BY <1>1 DEF Post, TypeInv, ScheduledTypeOK, OutcomeTypeOK
<1>2. ASSUME NEW q \in Replicas, NEW S \in SUBSET Claimable, ClaimDeliveries(q, S)
      PROVE  batch'[r] \subseteq batch[r] \/ batch'[r] \subseteq Claimable
  BY <1>2 DEF ClaimDeliveries, TypeInv, ScheduledTypeOK, OutcomeTypeOK
<1>3. ASSUME NEW q \in Replicas, batch' = [batch EXCEPT ![q] = {}]
      PROVE  batch'[r] \subseteq batch[r]
  BY <1>3 DEF TypeInv, ScheduledTypeOK, OutcomeTypeOK
<1>4. CASE UNCHANGED batch
  BY <1>4
<1> QED
  BY <1>1, <1>2, <1>3, <1>4 DEF ScheduledNext, TimePasses, DispatchStep,
      DispatchFails, Crash, LoseSweeps, Tick, Consume, Reserve, Lookup, CreateJob,
      Link, RecordLastRun, OutcomeNext, AuthorizeSubmit, Submit, JobEnds,
      LeaseExpires, SweepStep, Finalize, WriteTerminalError, ProjectRun,
      ReviewFails, PostStep, Record, RecordFails, outcomeVars, postVars

\* Which answers there are to record, and of which envelopes.
LEMMA PostedIsOld ==
    ASSUME TypeInv, ScheduledNext, NEW r \in Replicas, posted'[r] # None
    PROVE  \/ posted[r] # None /\ posted'[r].run = posted[r].run
           \/ posted'[r].run \in batch[r]
<1>1. CASE posted'[r] = posted[r]
  BY <1>1
<1>2. CASE posted'[r] # posted[r]
  <2>1. PICK q \in Replicas :
              \/ \E k \in Runs : Post(q, k)
              \/ posted' = [posted EXCEPT ![q] = None]
              \/ /\ posted[q] # None
                 /\ posted' = [posted EXCEPT ![q].answer = "transient"]
    BY <1>2, PostedKept
  <2>2. ASSUME NEW k \in Runs, Post(q, k)
        PROVE  posted'[r].run \in batch[r]
    <3>1. PICK answer \in Answers :
            posted' = [posted EXCEPT ![q] = [run |-> k, answer |-> answer]]
      BY <2>2 DEF Post
    <3>2. q = r /\ posted'[r] = [run |-> k, answer |-> answer]
      BY <1>2, <3>1 DEF TypeInv, ScheduledTypeOK, OutcomeTypeOK
    <3> QED
      BY <2>2, <3>2 DEF Post
  <2>3. ASSUME posted' = [posted EXCEPT ![q] = None] PROVE FALSE
    BY <1>2, <2>3 DEF TypeInv, ScheduledTypeOK, OutcomeTypeOK
  <2>4. ASSUME posted[q] # None,
               posted' = [posted EXCEPT ![q].answer = "transient"]
        PROVE  posted[r] # None /\ posted'[r].run = posted[r].run
    <3>1. q = r
      BY <1>2, <2>4 DEF TypeInv, ScheduledTypeOK, OutcomeTypeOK
    <3>2. posted[r] \in Posts
      BY <2>4, <3>1 DEF TypeInv, ScheduledTypeOK, OutcomeTypeOK
    <3> QED
      BY <2>4, <3>1, <3>2 DEF Posts, TypeInv, ScheduledTypeOK, OutcomeTypeOK
  <2> QED
    BY <2>1, <2>2, <2>3, <2>4
<1> QED
  BY <1>1, <1>2

\* Which steps change what the receivers took.
LEMMA AcceptedKept ==
    ASSUME ScheduledNext
    PROVE  \/ UNCHANGED accepted
           \/ \E r \in Replicas, k \in Runs :
                 k \in batch[r] /\ accepted' = accepted \cup {k}
<1>1. ASSUME NEW r \in Replicas, NEW k \in Runs, Post(r, k)
      PROVE  k \in batch[r] /\ accepted' \in {accepted, accepted \cup {k}}
  BY <1>1 DEF Post, Answers
<1> QED
  BY <1>1 DEF ScheduledNext, TimePasses, DispatchStep, DispatchFails, Crash,
      LoseSweeps, Tick, Consume, Reserve, Lookup, CreateJob, Link, RecordLastRun,
      OutcomeNext, AuthorizeSubmit, Submit, JobEnds, LeaseExpires, SweepStep,
      Finalize, WriteTerminalError, ProjectRun, ReviewFails, ClaimDeliveries,
      PostStep, Record, RecordFails, outcomeVars, deliveryVars

LEMMA SentStep ==
    ASSUME TypeInv, LeaseInv, SentInv, ScheduledNext
    PROVE  SentInv'
<1>1. ASSUME NEW k \in Runs, envelope[k] # None PROVE envelope'[k] # None
  BY <1>1, EnvelopeStays
<1>2. ASSUME NEW k \in Claimable PROVE k \in Runs /\ envelope[k] # None
  BY <1>2 DEF Claimable, LeaseInv
<1>3. ASSUME NEW r \in Replicas, NEW k \in batch'[r] PROVE envelope'[k] # None
  <2>1. CASE k \in batch[r]
    BY <1>1, <2>1 DEF SentInv, TypeInv, ScheduledTypeOK, OutcomeTypeOK
  <2>2. CASE k \in Claimable
    BY <1>1, <1>2, <2>2
  <2> QED
    BY <1>3, <2>1, <2>2, BatchKept
<1>4. ASSUME NEW r \in Replicas, posted'[r] # None
      PROVE  envelope'[posted'[r].run] # None
  <2>1. CASE posted[r] # None /\ posted'[r].run = posted[r].run
    BY <1>1, <2>1 DEF SentInv, Posts, TypeInv, ScheduledTypeOK, OutcomeTypeOK
  <2>2. CASE posted'[r].run \in batch[r]
    BY <1>1, <2>2 DEF SentInv, TypeInv, ScheduledTypeOK, OutcomeTypeOK
  <2> QED
    BY <1>4, <2>1, <2>2, PostedIsOld
<1>5. ASSUME NEW k \in accepted' PROVE envelope'[k] # None
  BY <1>1, AcceptedKept DEF SentInv, TypeInv, ScheduledTypeOK, OutcomeTypeOK
<1> QED
  BY <1>3, <1>4, <1>5 DEF SentInv

PromiseInv == RowInv /\ PolicyInv /\ SentInv

LEMMA PromiseInvariant == ScheduledSpec => []PromiseInv
<1>1. ScheduledInit => PromiseInv
  <2> SUFFICES ASSUME ScheduledInit PROVE PromiseInv
    OBVIOUS
  <2>1. RowInv
    BY DEF ScheduledInit, OutcomeInit, RowInv
  <2>2. PolicyInv /\ SentInv
    BY DEF ScheduledInit, OutcomeInit, PolicyInv, SentInv
  <2> QED
    BY <2>1, <2>2 DEF PromiseInv
<1>2. TypeInv /\ ReviewInv /\ LeaseInv /\ PromiseInv /\ [ScheduledNext]_vars
        => PromiseInv'
  <2>1. CASE UNCHANGED vars
    BY <2>1 DEF PromiseInv, RowInv, PolicyInv, SentInv, vars, outcomeVars, rowVars,
        outputVars, deliveryVars, postVars, dispatchVars
  <2> QED
    BY <2>1, RowStep, PolicyStep, SentStep DEF PromiseInv
<1> QED
  BY <1>1, <1>2, BaseInvariant, LeaseInvariant, PTL DEF ScheduledSpec

\* Success takes the answer that is awaited, in the code's words and in those
\* of the promise.
LEMMA OutcomeIsVerdict ==
    ASSUME TypeInv, NEW k \in Runs, job[k] \in Ended, Outcome(k) # "pending"
    PROVE  /\ Outcome(k) = Promise!Verdict(k) /\ Outcome(k) \in Ended
           /\ (workOf[k] = "completed" /\ required) => envelope[k] # None
<1>1. workOf[k] = job[k] /\ job[k] # "none"
  BY DEF workOf, Ended
<1>2. Outcome(k) \in Ended
  BY OutcomeIsEnd
<1>3. Outcome(k) = Promise!Verdict(k)
  BY <1>1 DEF Outcome, Promise!Verdict
<1>4. (workOf[k] = "completed" /\ required) => envelope[k] # None
  BY <1>1, OutputAssumption DEF Outcome
<1> QED
  BY <1>2, <1>3, <1>4

\* A reader sees nothing.
LEMMA WorkKept ==
    ASSUME \A k \in Runs : job'[k] = job[k],
           \A k \in Runs : (run'[k] = "none") <=> (run[k] = "none")
    PROVE  workOf' = workOf
BY DEF workOf

LEMMA VerdictKept ==
    ASSUME UNCHANGED run
    PROVE  verdictOf' = verdictOf
BY DEF verdictOf

LEMMA FateKept ==
    ASSUME \A k \in Runs : delivery'[k] # delivery[k]
                             => {delivery[k], delivery'[k]} \cap Settled = {}
    PROVE  fateOf' = fateOf
BY DEF fateOf

PromiseStep == Promise!PromiseNext \/ UNCHANGED Promise!promiseVars

LEMMA RowsUnseen ==
    ASSUME UNCHANGED <<rowVars, envelope, accepted, delivery>>
    PROVE  PromiseStep
<1>1. workOf' = workOf
  BY WorkKept DEF rowVars
<1>2. verdictOf' = verdictOf /\ fateOf' = fateOf
  BY VerdictKept, FateKept DEF rowVars
<1> QED
  BY <1>1, <1>2 DEF rowVars, PromiseStep, Promise!promiseVars

\* The dispatch books an occurrence and begins the work on it.
LEMMA DispatchKeepsPromise ==
    ASSUME TypeInv, RowInv, NEW r \in Replicas,
           DispatchStep(r) \/ DispatchFails(r) \/ Crash(r)
    PROVE  PromiseStep
<1>1. CASE Reserve(r) /\ run[key[r]] = "none"
  <2> DEFINE k == key[r]
  <2>1. k \in Runs /\ job[k] = "none"
    BY <1>1 DEF Reserve, RowInv, TypeInv, KeysAreRuns, ScheduledTypeOK,
        OutcomeTypeOK
  <2>2. /\ run' = [run EXCEPT ![k] = "pending"]
        /\ UNCHANGED <<job, required, envelope, accepted, delivery>>
    BY <1>1 DEF Reserve, outputVars, deliveryVars
  <2>3. workOf[k] = "none" /\ workOf' = [workOf EXCEPT ![k] = "reserved"]
    BY <1>1, <2>1, <2>2 DEF workOf, TypeInv, ScheduledTypeOK, OutcomeTypeOK
  <2>4. verdictOf' = verdictOf
    BY <1>1, <2>1, <2>2 DEF verdictOf, Ended, TypeInv, ScheduledTypeOK,
        OutcomeTypeOK
  <2>5. fateOf' = fateOf
    BY <2>2, FateKept
  <2>6. Promise!Book(k)
    BY <2>2, <2>3, <2>4, <2>5 DEF Promise!Book, Promise!Advance
  <2> QED
    BY <2>1, <2>6 DEF PromiseStep, Promise!PromiseNext
<1>2. CASE CreateJob(r) /\ job[key[r]] = "none"
  <2> DEFINE k == key[r]
  <2>1. k \in Runs /\ run[k] # "none"
    BY <1>2 DEF CreateJob, RowInv, TypeInv, KeysAreRuns
  <2>2. /\ job' = [job EXCEPT ![k] = "active"]
        /\ UNCHANGED <<run, required, envelope, accepted, delivery>>
    BY <1>2 DEF CreateJob, outputVars, deliveryVars
  <2>3. workOf[k] = "reserved" /\ workOf' = [workOf EXCEPT ![k] = "active"]
    BY <1>2, <2>1, <2>2 DEF workOf, TypeInv, ScheduledTypeOK, OutcomeTypeOK
  <2>4. verdictOf' = verdictOf /\ fateOf' = fateOf
    BY <2>2, VerdictKept, FateKept
  <2>5. Promise!Begin(k)
    BY <2>2, <2>3, <2>4 DEF Promise!Begin, Promise!Advance
  <2> QED
    BY <2>1, <2>5 DEF PromiseStep, Promise!PromiseNext
<1>3. CASE UNCHANGED <<job, run, required, envelope, accepted, delivery>>
  <2>1. /\ workOf' = workOf /\ verdictOf' = verdictOf /\ fateOf' = fateOf
    BY <1>3, WorkKept, VerdictKept, FateKept
  <2> QED
    BY <1>3, <2>1 DEF PromiseStep, Promise!promiseVars
<1> QED
  BY <1>1, <1>2, <1>3 DEF DispatchStep, DispatchFails, Crash, LoseSweeps, Tick,
      Consume, Reserve, Lookup, CreateJob, Link, RecordLastRun, outcomeVars,
      rowVars, outputVars, deliveryVars

LEMMA EndKeepsPromise ==
    ASSUME TypeInv, NEW k \in Runs, JobEnds(k)
    PROVE  PromiseStep
<1>1. PICK how \in Ended : job' = [job EXCEPT ![k] = how]
  BY DEF JobEnds
<1>2. UNCHANGED <<run, required, envelope, accepted, delivery>> /\ job[k] = "active"
  BY DEF JobEnds, outputVars, deliveryVars
<1>3. workOf[k] = "active" /\ workOf' = [workOf EXCEPT ![k] = how]
  BY <1>1, <1>2 DEF workOf, Ended, TypeInv, ScheduledTypeOK, OutcomeTypeOK
<1>4. verdictOf' = verdictOf /\ fateOf' = fateOf
  BY <1>2, VerdictKept, FateKept
<1>5. Promise!End(k)
  BY <1>2, <1>3, <1>4 DEF Promise!End, Promise!Advance, Promise!Over, Ended
<1> QED
  BY <1>5 DEF PromiseStep, Promise!PromiseNext

\* The first envelope is the answer: of a job that has begun, or a failure
\* where the policy asks for an output of a job that has ended.
LEMMA InsertKeepsPromise ==
    ASSUME TypeInv, LeaseInv, NEW k \in Runs, NEW v, Insert(k, v),
           envelope[k] = None, UNCHANGED <<rowVars, accepted>>,
           \/ v \in Payloads /\ job[k] # "none"
           \/ v = TerminalError /\ required /\ job[k] \in Ended
    PROVE  PromiseStep
<1>1. /\ envelope' = [envelope EXCEPT ![k] = v]
      /\ delivery' = [delivery EXCEPT ![k] = "pending"]
      /\ UNCHANGED <<job, run, required, accepted>>
  BY DEF Insert, rowVars
<1>2. delivery[k] = "none"
  BY DEF LeaseInv
<1>3. fateOf' = fateOf
  BY <1>1, <1>2 DEF fateOf, Settled, TypeInv, ScheduledTypeOK, OutcomeTypeOK
<1>4. workOf' = workOf /\ verdictOf' = verdictOf
  BY <1>1, WorkKept, VerdictKept
<1>5. workOf[k] = job[k] /\ workOf[k] \in {"active"} \cup Ended
  BY DEF workOf, Ended, TypeInv, ScheduledTypeOK, OutcomeTypeOK
<1>6. Promise!Reply(k)
  BY <1>1, <1>3, <1>4, <1>5 DEF Promise!Reply, Promise!Over, Ended
<1> QED
  BY <1>6 DEF PromiseStep, Promise!PromiseNext

LEMMA SubmitKeepsPromise ==
    ASSUME TypeInv, RowInv, LeaseInv, NEW k \in Runs, NEW p \in Payloads,
           AuthorizeSubmit(k, p) \/ Submit(k, p)
    PROVE  PromiseStep
<1>1. CASE AuthorizeSubmit(k, p)
  BY <1>1, RowsUnseen DEF AuthorizeSubmit, deliveryVars
<1>2. CASE Submit(k, p) /\ envelope[k] = None
  <2>1. job[k] # "none"
    BY <1>2 DEF Submit, RowInv
  <2> QED
    BY <1>2, <2>1, InsertKeepsPromise DEF Submit
<1>3. CASE Submit(k, p) /\ envelope[k] # None
  BY <1>3, RowsUnseen DEF Submit
<1> QED
  BY <1>1, <1>2, <1>3

LEMMA SweepKeepsPromise ==
    ASSUME TypeInv, ReviewInv, LeaseInv, PolicyInv, NEW r \in Replicas,
           SweepStep(r) \/ ReviewFails(r)
    PROVE  PromiseStep
<1> DEFINE k == review[r].run
<1>1. ASSUME NEW j \in Runs, Finalize(r, j) PROVE PromiseStep
  BY <1>1, RowsUnseen DEF Finalize, outputVars, deliveryVars
<1>2. CASE ReviewFails(r)
  BY <1>2, RowsUnseen DEF ReviewFails, outputVars, deliveryVars
<1>3. CASE WriteTerminalError(r) /\ envelope[k] = None
  <2>1. k \in Runs /\ job[k] \in Ended /\ required
    BY <1>3 DEF WriteTerminalError, ReviewInv, PolicyInv, Reviews, TypeInv,
        ScheduledTypeOK, OutcomeTypeOK
  <2>2. Insert(k, TerminalError) /\ UNCHANGED <<rowVars, accepted>>
    BY <1>3, OutputAssumption DEF WriteTerminalError
  <2> QED
    BY <1>3, <2>1, <2>2, InsertKeepsPromise
<1>4. CASE WriteTerminalError(r) /\ envelope[k] # None
  BY <1>4, RowsUnseen DEF WriteTerminalError
<1>5. CASE ProjectRun(r)
  <2>1. k \in Runs /\ job[k] \in Ended
    BY <1>5 DEF ProjectRun, ReviewInv, Reviews, TypeInv, ScheduledTypeOK,
        OutcomeTypeOK
  <2>2. UNCHANGED <<job, required, envelope, accepted, delivery>>
    BY <1>5 DEF ProjectRun, outputVars, deliveryVars
  <2>3. fateOf' = fateOf
    BY <2>2, FateKept
  <2>4. CASE run[k] # "pending" \/ Outcome(k) = "pending"
    <3>1. run' = run
      BY <1>5, <2>1, <2>4 DEF ProjectRun, TypeInv, ScheduledTypeOK, OutcomeTypeOK
    <3>2. workOf' = workOf /\ verdictOf' = verdictOf
      BY <2>2, <3>1, WorkKept, VerdictKept
    <3> QED
      BY <2>2, <2>3, <3>2 DEF PromiseStep, Promise!promiseVars
  <2>5. CASE run[k] = "pending" /\ Outcome(k) # "pending"
    <3>1. run' = [run EXCEPT ![k] = Outcome(k)]
      BY <1>5, <2>5 DEF ProjectRun
    <3>2. /\ Outcome(k) = Promise!Verdict(k) /\ Outcome(k) \in Ended
          /\ (workOf[k] = "completed" /\ required) => envelope[k] # None
      BY <2>1, <2>5, OutcomeIsVerdict
    <3>3. workOf' = workOf /\ workOf[k] \in Ended
      BY <2>1, <2>2, <2>5, <3>1, <3>2 DEF workOf, Ended, TypeInv,
          ScheduledTypeOK, OutcomeTypeOK
    <3>4. verdictOf[k] = "open"
      BY <2>1, <2>5 DEF verdictOf, Ended
    <3>5. verdictOf' = [verdictOf EXCEPT ![k] = Promise!Verdict(k)]
      BY <2>1, <3>1, <3>2 DEF verdictOf, TypeInv, ScheduledTypeOK, OutcomeTypeOK
    <3>6. Promise!Conclude(k)
      BY <2>2, <2>3, <3>2, <3>3, <3>4, <3>5 DEF Promise!Conclude, Promise!Over,
          Ended
    <3> QED
      BY <2>1, <3>6 DEF PromiseStep, Promise!PromiseNext
  <2> QED
    BY <2>4, <2>5
<1> QED
  BY <1>1, <1>2, <1>3, <1>4, <1>5 DEF SweepStep

\* A claim and the end of a lease do not show; a POST may be taken, and what
\* the owner of the lease records is the fate of the answer.
LEMMA DeliveryKeepsPromise ==
    ASSUME TypeInv, LeaseInv, AnswerInv, SentInv, NEW r \in Replicas,
           \/ \E S \in SUBSET Claimable : ClaimDeliveries(r, S)
           \/ PostStep(r)
           \/ RecordFails(r)
    PROVE  PromiseStep
<1>1. ASSUME NEW S \in SUBSET Claimable, ClaimDeliveries(r, S)
      PROVE  PromiseStep
  <2>1. UNCHANGED <<required, job, run, envelope, accepted>>
    BY <1>1 DEF ClaimDeliveries, rowVars, outputVars
  <2>2. fateOf' = fateOf
    BY <1>1 DEF ClaimDeliveries, Claimable, fateOf, Settled
  <2>3. workOf' = workOf /\ verdictOf' = verdictOf
    BY <2>1, WorkKept, VerdictKept
  <2> QED
    BY <2>1, <2>2, <2>3 DEF PromiseStep, Promise!promiseVars
<1>2. ASSUME NEW k \in Runs, Post(r, k) PROVE PromiseStep
  <2>1. UNCHANGED <<rowVars, envelope, delivery>> /\ envelope[k] # None
    BY <1>2 DEF Post, outputVars, SentInv
  <2>2. accepted' \in {accepted, accepted \cup {k}}
    BY <1>2 DEF Post, Answers
  <2>3. CASE accepted' = accepted
    BY <2>1, <2>3, RowsUnseen
  <2>4. CASE accepted' = accepted \cup {k}
    <3>1. workOf' = workOf /\ verdictOf' = verdictOf /\ fateOf' = fateOf
      BY <2>1, WorkKept, VerdictKept, FateKept DEF rowVars
    <3>2. Promise!Take(k)
      BY <2>1, <2>4, <3>1 DEF Promise!Take, rowVars
    <3> QED
      BY <3>2 DEF PromiseStep, Promise!PromiseNext
  <2> QED
    BY <2>2, <2>3, <2>4
<1>3. CASE Record(r)
  <2> DEFINE k == posted[r].run
  <2> DEFINE d == Disposition(k, posted[r].answer)
  <2>1. k \in Runs /\ envelope[k] # None
    BY <1>3 DEF Record, SentInv, Posts, TypeInv, ScheduledTypeOK, OutcomeTypeOK
  <2>2. UNCHANGED <<rowVars, job, run, required, envelope, accepted>>
    BY <1>3 DEF Record, rowVars, outputVars
  <2>3. workOf' = workOf /\ verdictOf' = verdictOf
    BY <2>2, WorkKept, VerdictKept
  <2>4. CASE holder[k] # r
    BY <1>3, <2>2, <2>4, RowsUnseen DEF Record
  <2>5. CASE holder[k] = r
    <3>1. delivery[k] = "delivering" /\ delivery' = [delivery EXCEPT ![k] = d]
      BY <1>3, <2>1, <2>5, OutputAssumption DEF Record, LeaseInv
    <3>2. d \in {"retry_wait"} \cup Settled
      BY DispositionType
    <3>3. CASE d = "retry_wait"
      <4>1. fateOf' = fateOf
        BY <2>1, <3>1, <3>3 DEF fateOf, Settled, TypeInv, ScheduledTypeOK,
            OutcomeTypeOK
      <4> QED
        BY <2>2, <2>3, <4>1 DEF PromiseStep, Promise!promiseVars
    <3>4. CASE d \in Settled
      <4>1. fateOf[k] = "open" /\ fateOf' = [fateOf EXCEPT ![k] = d]
        BY <2>1, <3>1, <3>4 DEF fateOf, Settled, TypeInv, ScheduledTypeOK,
            OutcomeTypeOK
      <4>2. d = "delivered" => posted[r].answer = "ok"
        BY DEF Disposition
      <4>3. d = "delivered" => k \in accepted
        BY <1>3, <4>2 DEF Record, AnswerInv
      <4>4. Promise!Settle(k)
        BY <2>1, <2>2, <2>3, <3>4, <4>1, <4>3 DEF Promise!Settle, Settled
      <4> QED
        BY <2>1, <4>4 DEF PromiseStep, Promise!PromiseNext
    <3> QED
      BY <3>2, <3>3, <3>4
  <2> QED
    BY <2>4, <2>5
<1>4. CASE RecordFails(r)
  BY <1>4, RowsUnseen DEF RecordFails, outputVars, deliveryVars
<1> QED
  BY <1>1, <1>2, <1>3, <1>4 DEF PostStep

\* The initial states map to initial states, and every step of the dispatch,
\* of the job, of the agent and of the sweeps to one of the promise or to none:
\* the replicas, their crashes and their leases do not show.
THEOREM ScheduledAgentsKeepPromise == ScheduledSpec => PromiseSpec
<1>1. ScheduledInit => Promise!PromiseInit
  <2> SUFFICES ASSUME ScheduledInit PROVE Promise!PromiseInit
    OBVIOUS
  <2>1. /\ workOf = [k \in Runs |-> "none"]
        /\ verdictOf = [k \in Runs |-> "open"]
        /\ fateOf = [k \in Runs |-> "open"]
    BY DEF ScheduledInit, OutcomeInit, workOf, verdictOf, fateOf, Ended, Settled
  <2> QED
    BY <2>1 DEF ScheduledInit, OutcomeInit, Promise!PromiseInit
<1>2. TypeInv /\ ReviewInv /\ LeaseInv /\ AnswerInv /\ PromiseInv
        /\ [ScheduledNext]_vars
        => [Promise!PromiseNext]_(Promise!promiseVars)
  <2> SUFFICES ASSUME TypeInv, ReviewInv, LeaseInv, AnswerInv, PromiseInv,
                      [ScheduledNext]_vars
               PROVE  PromiseStep
    BY DEF PromiseStep
  <2>1. RowInv /\ PolicyInv /\ SentInv
    BY DEF PromiseInv
  <2>2. CASE TimePasses \/ UNCHANGED vars
    BY <2>2, RowsUnseen DEF TimePasses, vars, outcomeVars, outputVars,
        deliveryVars
  <2>3. ASSUME NEW r \in Replicas, DispatchStep(r) \/ DispatchFails(r) \/ Crash(r)
        PROVE  PromiseStep
    BY <2>1, <2>3, DispatchKeepsPromise
  <2>4. ASSUME NEW k \in Runs, LeaseExpires(k) PROVE PromiseStep
    BY <2>4, RowsUnseen DEF LeaseExpires, outputVars
  <2>5. CASE OutcomeNext
    BY <2>1, <2>4, <2>5, SubmitKeepsPromise, EndKeepsPromise, SweepKeepsPromise,
       DeliveryKeepsPromise DEF OutcomeNext
  <2> QED
    BY <2>2, <2>3, <2>5 DEF ScheduledNext
<1> QED
  BY <1>1, <1>2, BaseInvariant, LeaseInvariant, AnswerInvariant, PromiseInvariant,
     PTL DEF ScheduledSpec, PromiseSpec, Promise!PromiseSpec

----------------------------------------------------------------------------
(* The dispatch of an occurrence                                           *)

\* An occurrence is dispatched after it has passed; it is recorded when it has
\* a job.
RecordInv ==
    /\ \A r \in Replicas : stage[r] # "idle" => key[r] <= clock
    /\ \A r \in Replicas : stage[r] \in {"link", "record"} => job[key[r]] # "none"
    /\ lastRun # scenario.lastRun =>
          lastRun \in Nat /\ \E k \in Runs : k <= lastRun /\ job[k] # "none"

DispatchInv == OnceIsDispatchedOnce /\ RecordInv

\* A step of the outputs, or of time, leaves the dispatches alone.
LEMMA DispatchUntouched ==
    ASSUME TypeInv, ReviewInv, DispatchInv, ScheduledNext,
           UNCHANGED <<configVars, dispatchVars>>,
           clock' = clock \/ clock' = clock + 1
    PROVE  DispatchInv'
<1>1. OnceIsDispatchedOnce'
  BY DEF DispatchInv, OnceIsDispatchedOnce, Dispatches, configVars, dispatchVars
<1>2. \A k \in Runs : job[k] # "none" => job'[k] # "none"
  BY RowsStay
<1>3. \A r \in Replicas : key[r] \in Nat /\ clock \in Nat
  BY OutputAssumption DEF TypeInv, ScheduledTypeOK
<1>4. \A r \in Replicas : stage'[r] # "idle" => key'[r] <= clock'
  BY <1>3 DEF DispatchInv, RecordInv, dispatchVars
<1>5. \A r \in Replicas : stage'[r] \in {"link", "record"} => job'[key'[r]] # "none"
  BY <1>2 DEF DispatchInv, RecordInv, dispatchVars, TypeInv, KeysAreRuns
<1>6. RecordInv'
  BY <1>2, <1>4, <1>5 DEF DispatchInv, RecordInv, configVars
<1> QED
  BY <1>1, <1>6 DEF DispatchInv

\* A dispatch that moves on to another stage, or ends.
LEMMA StageMoves ==
    ASSUME TypeInv, ReviewInv, DispatchInv, ScheduledNext, NEW r \in Replicas,
           NEW s \in Stages, Goto(r, s), UNCHANGED <<configVars, clock, key>>,
           s # "idle" => stage[r] # "idle",
           s \notin {"idle", "consume"} => Dispatches(r),
           s \in {"link", "record"} => job'[key[r]] # "none"
    PROVE  DispatchInv'
<1>1. /\ stage'[r] = s
      /\ \A q \in Replicas \ {r} : stage'[q] = stage[q]
  BY DEF Goto, TypeInv, ScheduledTypeOK
<1>2. \A k \in Runs : job[k] # "none" => job'[k] # "none"
  BY RowsStay
<1>3. \A q \in Replicas : Dispatches(q)' => Dispatches(q)
  BY <1>1 DEF Dispatches
<1>4. OnceIsDispatchedOnce'
  BY <1>3 DEF DispatchInv, OnceIsDispatchedOnce, configVars
<1>5. \A q \in Replicas : stage'[q] # "idle" => key'[q] <= clock'
  BY <1>1 DEF DispatchInv, RecordInv
<1>6. \A q \in Replicas : stage'[q] \in {"link", "record"} => job'[key'[q]] # "none"
  BY <1>1, <1>2 DEF DispatchInv, RecordInv, TypeInv, KeysAreRuns
<1>7. RecordInv'
  BY <1>2, <1>5, <1>6 DEF DispatchInv, RecordInv, configVars
<1> QED
  BY <1>4, <1>7 DEF DispatchInv

\* What is due has passed.
LEMMA DueHasPassed ==
    ASSUME TypeInv, DueKey # 0
    PROVE  DueKey <= clock
<1>1. /\ NumRuns \in Nat /\ clock \in 0 .. NumRuns
      /\ lastRun \in 0 .. NumRuns \cup {Never} /\ Never \notin 0 .. NumRuns
  BY OutputAssumption, ScheduleAssumption DEF TypeInv, ScheduledTypeOK
<1> QED
  BY <1>1 DEF DueKey

LEMMA DispatchStepKeeps ==
    ASSUME TypeInv, ReviewInv, DispatchInv, ScheduledNext, NEW r \in Replicas,
           DispatchStep(r) \/ DispatchFails(r) \/ Crash(r)
    PROVE  DispatchInv'
<1> USE DEF Stages
<1>0. \A k \in Runs : job[k] # "none" => job'[k] # "none"
  BY RowsStay
<1>1. CASE Tick(r)
  <2>1. DueKey <= clock
    BY <1>1, DueHasPassed DEF Tick
  <2>2. /\ stage'[r] = (IF scenario.schedule = "once" THEN "consume" ELSE "reserve")
        /\ key'[r] = DueKey /\ UNCHANGED <<job, configVars, clock>>
        /\ \A q \in Replicas \ {r} : stage'[q] = stage[q] /\ key'[q] = key[q]
    BY <1>1 DEF Tick, Goto, TypeInv, ScheduledTypeOK, outcomeVars, rowVars
  <2>3. OnceIsDispatchedOnce'
    BY <2>2 DEF DispatchInv, OnceIsDispatchedOnce, Dispatches, configVars
  <2>4. RecordInv'
    <3>1. \A q \in Replicas : stage'[q] # "idle" => key'[q] <= clock'
      BY <2>1, <2>2 DEF DispatchInv, RecordInv
    <3>2. \A q \in Replicas : stage'[q] \in {"link", "record"} => job'[key'[q]] # "none"
      BY <2>2 DEF DispatchInv, RecordInv
    <3> QED
      BY <2>2, <3>1, <3>2 DEF DispatchInv, RecordInv, configVars
  <2> QED
    BY <2>3, <2>4 DEF DispatchInv
<1>2. CASE Consume(r)
  <2>1. /\ stage[r] = "consume" /\ enabled' = FALSE
        /\ stage'[r] = (IF enabled THEN "reserve" ELSE "idle")
        /\ UNCHANGED <<job, scenario, lastRun, clock, key>>
        /\ \A q \in Replicas \ {r} : stage'[q] = stage[q]
    BY <1>2 DEF Consume, Goto, TypeInv, ScheduledTypeOK, outcomeVars, rowVars
  <2>2. OnceIsDispatchedOnce'
    BY <2>1 DEF DispatchInv, OnceIsDispatchedOnce, Dispatches
  <2>3. RecordInv'
    BY <2>1 DEF DispatchInv, RecordInv
  <2> QED
    BY <2>2, <2>3 DEF DispatchInv
<1>3. CASE Reserve(r)
  BY <1>3, StageMoves DEF Reserve, Dispatches
<1>4. CASE Lookup(r)
  BY <1>4, StageMoves DEF Lookup, Dispatches
<1>5. CASE CreateJob(r)
  <2>1. key[r] \in Runs
    BY <1>5 DEF CreateJob, TypeInv, KeysAreRuns
  <2>2. job'[key[r]] # "none"
    BY <1>5, <2>1 DEF CreateJob, TypeInv, ScheduledTypeOK, OutcomeTypeOK
  <2> QED
    BY <1>5, <2>2, StageMoves DEF CreateJob, Dispatches
<1>6. CASE Link(r)
  <2>1. stage[r] = "link" => job'[key[r]] # "none"
    BY <1>0 DEF DispatchInv, RecordInv, TypeInv, KeysAreRuns
  <2> QED
    BY <1>6, <2>1, StageMoves DEF Link, Dispatches
<1>7. CASE RecordLastRun(r)
  <2>1. /\ stage[r] = "record" /\ lastRun' = clock /\ stage'[r] = "idle"
        /\ enabled' = (enabled /\ scenario.schedule # "once")
        /\ UNCHANGED <<job, scenario, clock, key>>
        /\ \A q \in Replicas \ {r} : stage'[q] = stage[q]
    BY <1>7 DEF RecordLastRun, Goto, TypeInv, ScheduledTypeOK, outcomeVars, rowVars
  <2>2. OnceIsDispatchedOnce'
    BY <2>1 DEF DispatchInv, OnceIsDispatchedOnce, Dispatches
  <2>3. key[r] \in Runs /\ key[r] <= clock /\ job[key[r]] # "none" /\ clock \in Nat
    BY <2>1, OutputAssumption DEF DispatchInv, RecordInv, TypeInv, KeysAreRuns,
        ScheduledTypeOK
  <2>4. RecordInv'
    BY <2>1, <2>3 DEF DispatchInv, RecordInv
  <2> QED
    BY <2>2, <2>4 DEF DispatchInv
<1>8. CASE DispatchFails(r) \/ Crash(r)
  BY <1>8, StageMoves DEF DispatchFails, Crash
<1> QED
  BY <1>1, <1>2, <1>3, <1>4, <1>5, <1>6, <1>7, <1>8 DEF DispatchStep

LEMMA DispatchInvariant == ScheduledSpec => []DispatchInv
<1>1. ScheduledInit => DispatchInv
  BY DEF ScheduledInit, OutcomeInit, DispatchInv, OnceIsDispatchedOnce, Dispatches,
      RecordInv
<1>2. TypeInv /\ ReviewInv /\ DispatchInv /\ [ScheduledNext]_vars => DispatchInv'
  <2> SUFFICES ASSUME TypeInv, ReviewInv, DispatchInv, [ScheduledNext]_vars
               PROVE  DispatchInv'
    OBVIOUS
  <2>1. CASE UNCHANGED vars
    BY <2>1 DEF DispatchInv, OnceIsDispatchedOnce, Dispatches, RecordInv, vars,
        outcomeVars, rowVars, configVars, dispatchVars
  <2>2. CASE ScheduledNext /\ TimePasses
    BY <2>2, DispatchUntouched DEF TimePasses
  <2>3. CASE ScheduledNext /\ OutcomeNext /\ UNCHANGED <<configVars, clock, dispatchVars>>
    BY <2>3, DispatchUntouched
  <2>4. ASSUME NEW r \in Replicas, DispatchStep(r) \/ DispatchFails(r) \/ Crash(r)
        PROVE  DispatchInv'
    <3>1. ScheduledNext
      BY <2>4 DEF ScheduledNext
    <3> QED
      BY <2>4, <3>1, DispatchStepKeeps
  <2> QED
    BY <2>1, <2>2, <2>3, <2>4 DEF ScheduledNext
<1> QED
  BY <1>1, <1>2, BaseInvariant, PTL DEF ScheduledSpec

\* "At-most-once": whoever wins the update that disables a one-shot
\* configuration dispatches it, and nobody does so again.
THEOREM OnceIsDispatchedOnceCorrect == ScheduledSpec => []OnceIsDispatchedOnce
BY DispatchInvariant, PTL DEF DispatchInv

\* Wherever a crash or an error cuts a dispatch off, lastRunAt says that an
\* agent ran only if an occurrence up to then has a job.
THEOREM RecordedRunsHaveJobsCorrect == ScheduledSpec => []RecordedRunsHaveJobs
<1>1. DispatchInv => RecordedRunsHaveJobs
  BY OutputAssumption DEF DispatchInv, RecordInv, RecordedRunsHaveJobs, Runs
<1> QED
  BY <1>1, DispatchInvariant, PTL

----------------------------------------------------------------------------
(* Nothing unfinished is out of the sweeps' sight                          *)

\* What EndedRunsConclude waits for.
Concluded(k) == run[k] \in Ended /\ (required => delivery[k] \in Settled)

\* A run whose job ended and that is not concluded is a candidate of the
\* terminal sweep, or its delivery can be claimed, or will be when a lease ends.
UnfinishedIsFound ==
    \A k \in Runs : job[k] \in Ended /\ ~ Concluded(k) =>
        \/ k \in OutputCandidates \cup RunCandidates
        \/ k \in Claimable
        \/ delivery[k] = "delivering" /\ holder[k] # None

\* An envelope is inserted with its delivery, and a delivery does not go away.
EnvelopeIsQueued == \A k \in Runs : envelope[k] # None => delivery[k] # "none"

LEMMA QueuedStep ==
    ASSUME TypeInv, EnvelopeIsQueued, [ScheduledNext]_vars
    PROVE  EnvelopeIsQueued'
<1>0. /\ delivery \in [Runs -> {"none", "pending", "delivering", "retry_wait"}
                                  \cup Settled]
      /\ envelope \in [Runs -> Payloads \cup {None, TerminalError}]
  BY DEF TypeInv, ScheduledTypeOK, OutcomeTypeOK
<1>1. CASE UNCHANGED vars \/ UNCHANGED <<envelope, delivery, holder>>
  BY <1>1 DEF EnvelopeIsQueued, vars, outcomeVars, outputVars, deliveryVars
<1>2. ASSUME NEW j \in Runs, NEW v, Insert(j, v)
      PROVE  EnvelopeIsQueued'
  <2>1. \A k \in Runs \ {j} : delivery'[k] = delivery[k] /\ envelope'[k] = envelope[k]
    BY <1>0, <1>2 DEF Insert
  <2>2. delivery'[j] = "pending"
    BY <1>0, <1>2 DEF Insert
  <2> QED
    BY <2>1, <2>2 DEF EnvelopeIsQueued
<1>3. ASSUME NEW r \in Replicas, NEW S, ClaimDeliveries(r, S)
      PROVE  EnvelopeIsQueued'
  <2>1. \A k \in Runs : delivery'[k] \in {delivery[k], "delivering"}
    BY <1>3 DEF ClaimDeliveries
  <2>2. UNCHANGED envelope
    BY <1>3 DEF ClaimDeliveries, outputVars
  <2> QED
    BY <2>1, <2>2 DEF EnvelopeIsQueued
<1>4. ASSUME NEW r \in Replicas, Record(r)
      PROVE  EnvelopeIsQueued'
  <2> DEFINE last == Disposition(posted[r].run, posted[r].answer)
  <2>1. last # "none"
    BY DEF Disposition
  <2>2. delivery' = delivery \/ delivery' = [delivery EXCEPT ![posted[r].run] = last]
    BY <1>4 DEF Record
  <2>3. \A k \in Runs : delivery'[k] \in {delivery[k], last}
    BY <1>0, <2>2
  <2>4. UNCHANGED envelope
    BY <1>4 DEF Record, outputVars
  <2> HIDE DEF last
  <2> QED
    BY <2>1, <2>3, <2>4 DEF EnvelopeIsQueued
<1>5. ASSUME NEW k \in Runs, LeaseExpires(k)
      PROVE  EnvelopeIsQueued'
  BY <1>5 DEF LeaseExpires, EnvelopeIsQueued, outputVars
<1> QED
  BY <1>1, <1>2, <1>3, <1>4, <1>5, DeliveryKept

(* The safety half of EndedRunsConclude: whatever a crash, a lost lease or  *)
(* a late submission has left behind, the selections of the terminal sweep  *)
(* and of the delivery sweep together cover every run that still has to be  *)
(* concluded.                                                               *)
THEOREM UnfinishedRunsAreFound == ScheduledSpec => []UnfinishedIsFound
<1>1. TypeInv /\ EnvelopeIsQueued /\ PromiseInv => UnfinishedIsFound
  <2> SUFFICES ASSUME TypeInv, EnvelopeIsQueued, RowInv,
                      NEW k \in Runs, job[k] \in Ended, ~ Concluded(k)
               PROVE  \/ k \in OutputCandidates \cup RunCandidates
                      \/ k \in Claimable
                      \/ delivery[k] = "delivering" /\ holder[k] # None
    BY DEF UnfinishedIsFound, PromiseInv
  <2>1. /\ run[k] \in {"none", "pending"} \cup Ended
        /\ delivery[k] \in {"none", "pending", "delivering", "retry_wait"} \cup Settled
    BY DEF TypeInv, ScheduledTypeOK, OutcomeTypeOK
  <2>2. CASE run[k] \notin Ended
    <3>1. job[k] # "none"
      BY DEF Ended
    <3>2. run[k] = "pending"
      BY <2>1, <2>2, <3>1 DEF RowInv
    <3> QED
      BY <3>2 DEF RunCandidates
  <2>3. CASE run[k] \in Ended /\ envelope[k] = None
    BY <2>3 DEF Concluded, OutputCandidates
  <2>4. CASE run[k] \in Ended /\ envelope[k] # None
    <3>1. delivery[k] \in {"pending", "delivering", "retry_wait"}
      BY <2>1, <2>4 DEF Concluded, EnvelopeIsQueued
    <3> QED
      BY <3>1 DEF Claimable
  <2> QED
    BY <2>2, <2>3, <2>4
<1>2. ScheduledInit => EnvelopeIsQueued
  BY DEF ScheduledInit, OutcomeInit, EnvelopeIsQueued
<1> QED
  BY <1>1, <1>2, QueuedStep, BaseInvariant, PromiseInvariant, PTL DEF ScheduledSpec
=============================================================================
