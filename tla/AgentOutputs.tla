---------------------------- MODULE AgentOutputs ----------------------------
(***************************************************************************)
(* What becomes of a scheduled run once its job exists: the agent submits  *)
(* a structured output, the job ends, the terminal sweep writes the        *)
(* missing envelope and projects the job on the run, and the delivery      *)
(* sweep posts the envelope to its receiver under a lease.                 *)
(*                                                                         *)
(* A run and its job share one id (the dispatcher pins it), so both are    *)
(* indexed by the run.  The sweeps of every replica of the API run beside  *)
(* each other.  Time is abstracted: a backoff may have passed at any step. *)
(***************************************************************************)
EXTENDS Naturals

CONSTANTS
    NumRuns,
    Payloads,     \* the outputs an agent may submit
    Replicas,     \* the API processes
    None,
    MaxAttempts,  \* maxAttempts of the delivery sweep
    MaxFaults     \* bound: errors, lease losses and crashes explored

Runs == 1 .. NumRuns
TerminalError == "terminal_error"

ASSUME OutputAssumption ==
    /\ NumRuns \in Nat /\ MaxFaults \in Nat /\ MaxAttempts \in Nat \ {0}
    /\ TerminalError \notin Payloads /\ None \notin Payloads
    /\ None # TerminalError /\ None \notin Replicas /\ None \notin Runs

VARIABLES
    up,        \* the replicas that are deployed
    job,       \* job[k]: none, active, or how it ended
    run,       \* run[k]: none, pending, or its outcome
    linked,    \* runs whose agent_job_id is set
    required,  \* outputPolicy.required, pinned in the configuration of the jobs
    envelope,  \* envelope[k]: the submission row: a payload or a terminal error
    requests,  \* authorized submissions that have not reached the insert
    delivery,  \* delivery[k]: status of the delivery row
    attempts,  \* attempts[k], up to MaxAttempts
    holder,    \* holder[k]: who has an unexpired lease on the delivery
    accepted,  \* runs whose envelope the receiver took
    review,    \* review[r]: the job the sweep is at, and the step
    batch,     \* batch[r]: deliveries r claimed and has not posted
    posted,    \* posted[r]: the delivery whose answer r has to record
    faults

rowVars == <<job, run, linked, required>>
outputVars == <<envelope, requests>>
deliveryVars == <<delivery, attempts, holder, accepted>>
postVars == <<batch, posted>>
outcomeVars == <<up, rowVars, outputVars, deliveryVars, review, postVars, faults>>

Ended == {"completed", "failed", "cancelled"}  \* failed stands for incomplete, too
Settled == {"delivered", "dead_letter"}
Answers == {"ok", "transient", "permanent"}

Reviews == [run : Runs, step : {"write", "project"}]
Posts == [run : Runs, answer : Answers]

OutcomeTypeOK ==
    /\ up \in SUBSET Replicas
    /\ job \in [Runs -> {"none", "active"} \cup Ended]
    /\ run \in [Runs -> {"none", "pending"} \cup Ended]
    /\ linked \in SUBSET Runs
    /\ required \in BOOLEAN
    /\ envelope \in [Runs -> Payloads \cup {None, TerminalError}]
    /\ requests \in SUBSET (Runs \X Payloads)
    /\ delivery \in [Runs -> {"none", "pending", "delivering", "retry_wait"}
                                \cup Settled]
    /\ attempts \in [Runs -> 0 .. MaxAttempts]
    /\ holder \in [Runs -> Replicas \cup {None}]
    /\ accepted \in SUBSET Runs
    /\ review \in [Replicas -> Reviews \cup {None}]
    /\ batch \in [Replicas -> SUBSET Runs]
    /\ posted \in [Replicas -> Posts \cup {None}]
    /\ faults \in 0 .. MaxFaults

OutcomeInit ==
    /\ up \in SUBSET Replicas
    /\ job = [k \in Runs |-> "none"] /\ run = [k \in Runs |-> "none"]
    /\ linked = {} /\ required \in BOOLEAN
    /\ envelope = [k \in Runs |-> None] /\ requests = {}
    /\ delivery = [k \in Runs |-> "none"]
    /\ attempts = [k \in Runs |-> 0]
    /\ holder = [k \in Runs |-> None] /\ accepted = {}
    /\ review = [r \in Replicas |-> None]
    /\ batch = [r \in Replicas |-> {}] /\ posted = [r \in Replicas |-> None]
    /\ faults = 0

Fault == faults < MaxFaults /\ faults' = faults + 1
NoFault == UNCHANGED faults
-----------------------------------------------------------------------------
(* The agent and its job. *)

\* The row of the first envelope of a job, with its delivery.
Insert(k, v) ==
    /\ envelope' = [envelope EXCEPT ![k] = v]
    /\ delivery' = [delivery EXCEPT ![k] = "pending"]

\* submit reads the job, its run and its sink, and checks them ...
AuthorizeSubmit(k, p) ==
    /\ job[k] = "active" /\ k \in linked
    /\ requests' = requests \cup {<<k, p>>}
    /\ UNCHANGED <<up, rowVars, envelope, deliveryVars, review, postVars, faults>>

\* ... and later inserts, whatever became of the job: a second submission is
\* a replay or a conflict.
Submit(k, p) ==
    /\ <<k, p>> \in requests
    /\ requests' = requests \ {<<k, p>>}
    /\ IF envelope[k] = None THEN Insert(k, p)
                             ELSE UNCHANGED <<envelope, delivery>>
    /\ UNCHANGED <<up, rowVars, attempts, holder, accepted, review, postVars,
                   faults>>

\* The job ends (the claim protocol decides how).
JobEnds(k) ==
    /\ job[k] = "active"
    /\ \E how \in Ended : job' = [job EXCEPT ![k] = how]
    /\ UNCHANGED <<up, run, linked, required, outputVars, deliveryVars, review,
                   postVars, faults>>
-----------------------------------------------------------------------------
(* The terminal sweep of replica r. *)

OutputCandidates == {k \in Runs : job[k] \in Ended /\ required /\ envelope[k] = None}
RunCandidates == {k \in Runs : job[k] \in Ended /\ run[k] = "pending"}

\* Mutant: an output the policy does not ask for counts as missing.
FinalizeWithoutPolicy(r, k) ==
    LET missing == k \in linked /\ envelope[k] = None
    IN  /\ r \in up /\ review[r] = None
        /\ k \in OutputCandidates \cup RunCandidates
        /\ review' = [review EXCEPT ![r] =
              [run |-> k, step |-> IF missing THEN "write" ELSE "project"]]
        /\ UNCHANGED <<up, rowVars, outputVars, deliveryVars, postVars, faults>>

\* The sweep takes the candidates one after the other (one that is none any
\* more by then changes nothing).  The finalizer reads its context, which an
\* unlinked run does not have.
Finalize(r, k) ==
    LET missing == k \in linked /\ required /\ envelope[k] = None
    IN  /\ r \in up /\ review[r] = None
        /\ k \in OutputCandidates \cup RunCandidates
        /\ review' = [review EXCEPT ![r] =
              [run |-> k, step |-> IF missing THEN "write" ELSE "project"]]
        /\ UNCHANGED <<up, rowVars, outputVars, deliveryVars, postVars, faults>>

\* Mutant: a terminal error takes the place of what was submitted meanwhile.
OverwriteEnvelope(r) ==
    /\ review[r] # None /\ review[r].step = "write"
    /\ Insert(review[r].run, TerminalError)
    /\ review' = [review EXCEPT ![r].step = "project"]
    /\ UNCHANGED <<up, rowVars, requests, attempts, holder, accepted,
                   postVars, faults>>

\* createTerminalFailure: a submission that was faster is a conflict, which
\* ends the work on this job until the next sweep.
WriteTerminalError(r) ==
    /\ review[r] # None /\ review[r].step = "write"
    /\ LET k == review[r].run
       IN  \/ /\ envelope[k] = None
              /\ Insert(k, TerminalError)
              /\ review' = [review EXCEPT ![r].step = "project"]
           \/ /\ envelope[k] = TerminalError
              /\ review' = [review EXCEPT ![r].step = "project"]
              /\ UNCHANGED <<envelope, delivery>>
           \/ /\ envelope[k] \in Payloads
              /\ review' = [review EXCEPT ![r] = None]
              /\ UNCHANGED <<envelope, delivery>>
    /\ UNCHANGED <<up, rowVars, requests, attempts, holder, accepted,
                   postVars, faults>>

\* Mutant: a completed job completes its run, output or not.
OutcomeOfJobOnly(k) == job[k]

\* resolveTerminalRunOutcome; pending: a required output is awaited.
Outcome(k) ==
    IF job[k] # "completed" THEN job[k]
    ELSE IF envelope[k] = TerminalError THEN "failed"
    ELSE IF required /\ envelope[k] = None THEN "pending"
    ELSE "completed"

\* Mutant: the projection needs the link and does not repair it.
ProjectLinkedRun(r) ==
    /\ review[r] # None /\ review[r].step = "project"
    /\ review' = [review EXCEPT ![r] = None]
    /\ LET k == review[r].run
       IN  IF run[k] = "pending" /\ k \in linked
           THEN run' = [run EXCEPT ![k] = Outcome(k)]
           ELSE UNCHANGED run
    /\ UNCHANGED <<up, job, linked, required, outputVars, deliveryVars,
                   postVars, faults>>

\* reconcileTerminalRunForJob: the transaction repairs a missing link and
\* projects the job.  What it decides on does not change any more.
ProjectRun(r) ==
    /\ review[r] # None /\ review[r].step = "project"
    /\ review' = [review EXCEPT ![r] = None]
    /\ LET k == review[r].run
       IN  IF run[k] = "pending"
           THEN /\ linked' = linked \cup {k}
                /\ run' = [run EXCEPT ![k] = Outcome(k)]
           ELSE UNCHANGED <<linked, run>>
    /\ UNCHANGED <<up, job, required, outputVars, deliveryVars, postVars,
                   faults>>

\* An error ends the work on one job, not the sweep.
ReviewFails(r) ==
    /\ review[r] # None /\ Fault
    /\ review' = [review EXCEPT ![r] = None]
    /\ UNCHANGED <<up, rowVars, outputVars, deliveryVars, postVars>>
-----------------------------------------------------------------------------
(* The delivery sweep of replica r. *)

Claimable ==
    {k \in Runs : \/ delivery[k] \in {"pending", "retry_wait"}
                  \/ delivery[k] = "delivering" /\ holder[k] = None}

\* claimDeliveries: some deliveries whose backoff has passed.
ClaimDeliveries(r, S) ==
    /\ r \in up /\ batch[r] = {} /\ posted[r] = None /\ S # {}
    /\ delivery' = [k \in Runs |-> IF k \in S THEN "delivering" ELSE delivery[k]]
    /\ attempts' = [k \in Runs |-> IF k \in S /\ attempts[k] < MaxAttempts
                                   THEN attempts[k] + 1 ELSE attempts[k]]
    /\ holder' = [k \in Runs |-> IF k \in S THEN r ELSE holder[k]]
    /\ batch' = [batch EXCEPT ![r] = S]
    /\ UNCHANGED <<up, rowVars, outputVars, accepted, review, posted, faults>>

\* The POST.  Only an ok says that the receiver took the envelope; after a
\* transient answer or a network error it may have.
Post(r, k) ==
    /\ k \in batch[r] /\ posted[r] = None
    /\ batch' = [batch EXCEPT ![r] = @ \ {k}]
    /\ \E answer \in Answers :
        /\ posted' = [posted EXCEPT ![r] = [run |-> k, answer |-> answer]]
        /\ accepted' \in CASE answer = "ok" -> {accepted \cup {k}}
                           [] answer = "transient" -> {accepted, accepted \cup {k}}
                           [] answer = "permanent" -> {accepted}
    /\ UNCHANGED <<up, rowVars, outputVars, delivery, attempts, holder, review,
                   faults>>

\* Mutant: the status of the response is not looked at.
DispositionUnlessPermanent(k, answer) ==
    IF answer = "permanent" THEN "dead_letter" ELSE "delivered"

Disposition(k, answer) ==
    CASE answer = "ok" -> "delivered"
      [] answer = "transient" /\ attempts[k] < MaxAttempts -> "retry_wait"
      [] OTHER -> "dead_letter"

\* Mutant: an update without state version, owner and expiry.
RecordUnfenced(r) ==
    /\ posted[r] # None
    /\ LET k == posted[r].run
       IN  delivery' = [delivery EXCEPT ![k] = Disposition(k, posted[r].answer)]
    /\ holder' = [holder EXCEPT ![posted[r].run] = None]
    /\ posted' = [posted EXCEPT ![r] = None]
    /\ UNCHANGED <<up, rowVars, outputVars, attempts, accepted, review, batch,
                   faults>>

\* completeDelivery and failDelivery: nothing, if the lease is lost.
Record(r) ==
    /\ posted[r] # None
    /\ LET k == posted[r].run
       IN  IF holder[k] = r
           THEN /\ delivery' = [delivery EXCEPT ![k] =
                                  Disposition(k, posted[r].answer)]
                /\ holder' = [holder EXCEPT ![k] = None]
           ELSE UNCHANGED <<delivery, holder>>
    /\ posted' = [posted EXCEPT ![r] = None]
    /\ UNCHANGED <<up, rowVars, outputVars, attempts, accepted, review, batch,
                   faults>>

\* The update throws.  The catch tries it again as a network error, whatever
\* the answer was; when that throws, the sweep is over and leaves the rest of
\* its batch to the leases.
RecordFails(r) ==
    /\ posted[r] # None /\ Fault
    /\ \/ /\ posted' = [posted EXCEPT ![r].answer = "transient"]
          /\ UNCHANGED batch
       \/ /\ posted[r].answer # "ok"
          /\ posted' = [posted EXCEPT ![r] = None]
          /\ batch' = [batch EXCEPT ![r] = {}]
    /\ UNCHANGED <<up, rowVars, outputVars, deliveryVars, review>>

\* r still works on the delivery.
WorksOn(r, k) == k \in batch[r] \/ (posted[r] # None /\ posted[r].run = k)

\* The lease ends: of a worker that is late, or of one that is gone.
LeaseExpires(k) ==
    /\ holder[k] # None
    /\ IF WorksOn(holder[k], k) THEN Fault ELSE NoFault
    /\ holder' = [holder EXCEPT ![k] = None]
    /\ UNCHANGED <<up, rowVars, outputVars, delivery, attempts, accepted, review,
                   postVars>>
-----------------------------------------------------------------------------
SweepStep(r) ==
    \/ \E k \in Runs : Finalize(r, k)
    \/ WriteTerminalError(r) \/ ProjectRun(r)

PostStep(r) ==
    (\E k \in Runs : Post(r, k)) \/ Record(r)

\* A replica loses its sweeps and starts again.
LoseSweeps(r) ==
    /\ review' = [review EXCEPT ![r] = None]
    /\ batch' = [batch EXCEPT ![r] = {}] /\ posted' = [posted EXCEPT ![r] = None]
    /\ UNCHANGED <<up, rowVars, outputVars, deliveryVars>>

OutcomeNext ==
    \/ \E k \in Runs :
        \/ \E p \in Payloads : AuthorizeSubmit(k, p) \/ Submit(k, p)
        \/ JobEnds(k) \/ LeaseExpires(k)
    \/ \E r \in Replicas :
        \/ SweepStep(r) \/ ReviewFails(r)
        \/ \E S \in SUBSET Claimable : ClaimDeliveries(r, S)
        \/ PostStep(r) \/ RecordFails(r)

\* The timers of every replica keep firing, and a lease ends.  Each step
\* changes the variable that indexes its fairness.
OutcomeFairness ==
    /\ \A r \in Replicas :
        /\ WF_review(SweepStep(r))
        /\ WF_batch(ClaimDeliveries(r, Claimable))
        /\ WF_posted(PostStep(r))
    /\ \A k \in Runs : WF_holder(LeaseExpires(k))
-----------------------------------------------------------------------------
(* Properties. *)

\* The outcome of a run agrees with its job and with what was submitted,
\* though a submission may land after the job ended and beside the finalizer.
RunMatchesJob ==
    \A k \in Runs :
        /\ run[k] = "completed" =>
              job[k] = "completed" /\ (required => envelope[k] \in Payloads)
        /\ run[k] = "failed" =>
              \/ job[k] = "failed"
              \/ job[k] = "completed" /\ envelope[k] = TerminalError
        /\ run[k] = "cancelled" => job[k] = "cancelled"

\* "Exactly one downstream envelope": whoever wins the race between a late
\* submission and the finalizers, the envelope never changes, nor does the
\* outcome of a run.
EnvelopeIsFinal ==
    [][\A k \in Runs :
        /\ envelope[k] # None => envelope'[k] = envelope[k]
        /\ run[k] \in Ended => run'[k] = run[k]]_outcomeVars

\* A sweep whose lease passed cannot undo what another one recorded.
SettledDeliveryStays ==
    [][\A k \in Runs : delivery[k] \in Settled => delivery'[k] = delivery[k]]_outcomeVars

\* A delivery is recorded as delivered only if the receiver took it.
DeliveredWasAccepted == \A k \in Runs : delivery[k] = "delivered" => k \in accepted

\* A run whose job has ended is concluded, and the envelope of a required
\* output reaches its receiver or the dead letters.
EndedRunsConclude ==
    \A k \in Runs :
        job[k] \in Ended
            ~> run[k] \in Ended /\ (required => delivery[k] \in Settled)
=============================================================================
