------------------------------ MODULE JobLease ------------------------------
(***************************************************************************)
(* What the claim protocol promises about an agent job: a job is leased to *)
(* one claim at a time, a claim leases one job once and never comes back,  *)
(* a terminal request accepted while the job is leased decides how the job *)
(* ends, and a job that is done stays done with its outcome.               *)
(***************************************************************************)
CONSTANTS
    Jobs, Claims, NoClaim,
    Outcomes,  \* the terminal statuses
    Intents,   \* the terminal statuses that can be requested from outside
    NoOutcome

VARIABLES
    phase,    \* phase[j]: free, leased, closing (a verdict waits) or done
    holder,   \* holder[j]: the claim the job is leased to
    verdict,  \* verdict[j]: the outcome that was decided
    spent     \* the claims that have held a lease

leaseVars == <<phase, holder, verdict, spent>>

LeaseTypeOK ==
    /\ phase \in [Jobs -> {"free", "leased", "closing", "done"}]
    /\ holder \in [Jobs -> Claims \cup {NoClaim}]
    /\ verdict \in [Jobs -> Outcomes \cup {NoOutcome}]
    /\ spent \subseteq Claims

LeaseInit ==
    /\ phase = [j \in Jobs |-> "free"]
    /\ holder = [j \in Jobs |-> NoClaim]
    /\ verdict = [j \in Jobs |-> NoOutcome]
    /\ spent = {}

Acquire(j, k) ==
    /\ phase[j] = "free"
    /\ k \notin spent
    /\ phase' = [phase EXCEPT ![j] = "leased"]
    /\ holder' = [holder EXCEPT ![j] = k]
    /\ spent' = spent \cup {k}
    /\ UNCHANGED verdict

\* The lease ends and the job may be leased again.
Yield(j) ==
    /\ phase[j] = "leased"
    /\ phase' = [phase EXCEPT ![j] = "free"]
    /\ holder' = [holder EXCEPT ![j] = NoClaim]
    /\ UNCHANGED <<verdict, spent>>

\* A terminal request is accepted while the lease is in use.
Decide(j, v) ==
    /\ phase[j] = "leased"
    /\ phase' = [phase EXCEPT ![j] = "closing"]
    /\ verdict' = [verdict EXCEPT ![j] = v]
    /\ UNCHANGED <<holder, spent>>

\* The job ends: as decided, if something was decided.
Close(j, v) ==
    /\ phase[j] # "done"
    /\ phase[j] = "closing" => v = verdict[j]
    /\ phase' = [phase EXCEPT ![j] = "done"]
    /\ holder' = [holder EXCEPT ![j] = NoClaim]
    /\ verdict' = [verdict EXCEPT ![j] = v]
    /\ UNCHANGED spent

LeaseNext ==
    \E j \in Jobs :
        \/ \E k \in Claims : Acquire(j, k)
        \/ Yield(j)
        \/ \E v \in Intents : Decide(j, v)
        \/ \E v \in Outcomes : Close(j, v)

LeaseSpec == LeaseInit /\ [][LeaseNext]_leaseVars
=============================================================================
