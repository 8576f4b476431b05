-------------------------- MODULE ScheduledAgents --------------------------
(***************************************************************************)
(* The dispatcher of scheduled agents beside the life of the runs it       *)
(* starts (AgentOutputs).  Every replica looks at the enabled              *)
(* configurations on a timer.  For an occurrence that is due it reserves a *)
(* run under the occurrence's key, creates the job under the id of the     *)
(* run, links the two and records lastRunAt: four statements that a crash  *)
(* or another replica may separate.                                        *)
(*                                                                         *)
(* One configuration is modelled.  Its occurrences are numbered, 1 being   *)
(* the latest one at the time of the first tick, and a run is indexed by   *)
(* its key: the number of the occurrence.                                  *)
(***************************************************************************)
EXTENDS AgentOutputs

CONSTANTS
    Never,     \* lastRunAt of an agent that has not run
    Scenarios  \* [runs, schedule, lastRun, required, up]: Init chooses one

Schedules == {"cron", "once"}
Stages == {"idle", "consume", "reserve", "lookup", "create", "link", "relink",
           "record"}

ASSUME ScheduleAssumption ==
    /\ Never \notin 0 .. NumRuns
    /\ Scenarios \subseteq [runs : 0 .. NumRuns, schedule : Schedules,
                            lastRun : {0, Never}, required : BOOLEAN,
                            up : SUBSET Replicas]
    /\ \A s \in Scenarios : s.schedule = "once" => s.runs <= 1

VARIABLES
    scenario,  \* what was chosen; it does not change
    clock,     \* the occurrences that have passed
    lastRun,   \* last_run_at: the occurrences passed at that time, or Never
    enabled,   \* the configuration is enabled
    stage,     \* stage[r]: the next statement of r's dispatch
    key        \* key[r]: the occurrence it dispatches, anything while r is idle

configVars == <<scenario, lastRun, enabled>>
dispatchVars == <<stage, key>>
vars == <<outcomeVars, configVars, clock, dispatchVars>>

ScheduledTypeOK ==
    /\ OutcomeTypeOK
    /\ scenario \in Scenarios
    /\ clock \in 0 .. NumRuns
    /\ lastRun \in 0 .. NumRuns \cup {Never}
    /\ enabled \in BOOLEAN
    /\ stage \in [Replicas -> Stages]
    /\ key \in [Replicas -> 0 .. NumRuns]

ScheduledInit ==
    /\ OutcomeInit
    /\ scenario \in Scenarios
    /\ up = scenario.up /\ required = scenario.required
    /\ clock = 0 /\ enabled = TRUE
    /\ lastRun = scenario.lastRun
    /\ stage = [r \in Replicas |-> "idle"]
    /\ key = [r \in Replicas |-> NumRuns]

\* An occurrence passes.  A one-shot configuration has one.
TimePasses ==
    /\ clock < scenario.runs
    /\ clock' = clock + 1
    /\ UNCHANGED <<outcomeVars, configVars, dispatchVars>>

\* Mutant: the next occurrence is due before it has passed.
NextKey == IF lastRun = Never THEN clock ELSE lastRun + 1

\* resolveScheduledDispatchDueKey: the occurrence after lastRunAt, or of an
\* agent that never ran the latest one; 0 if there is none.
DueKey ==
    IF scenario.schedule = "once" \/ lastRun = Never THEN clock
    ELSE IF lastRun < clock THEN lastRun + 1 ELSE 0

Goto(r, s) == stage' = [stage EXCEPT ![r] = s]

\* dispatchOneConfig: the configuration as it was read.
Tick(r) ==
    /\ r \in up /\ stage[r] = "idle"
    /\ enabled /\ DueKey # 0
    /\ key' = [key EXCEPT ![r] = DueKey]
    /\ Goto(r, IF scenario.schedule = "once" THEN "consume" ELSE "reserve")
    /\ UNCHANGED <<outcomeVars, configVars, clock>>

\* Mutant: the update does not ask whether the configuration is enabled.
ConsumeUnchecked(r) ==
    /\ stage[r] = "consume"
    /\ Goto(r, "reserve")
    /\ enabled' = FALSE
    /\ UNCHANGED <<outcomeVars, scenario, lastRun, clock, key>>

\* consumeOnceScheduleOccurrence: one replica wins a one-shot occurrence.
Consume(r) ==
    /\ stage[r] = "consume"
    /\ Goto(r, IF enabled THEN "reserve" ELSE "idle")
    /\ enabled' = FALSE
    /\ UNCHANGED <<outcomeVars, scenario, lastRun, clock, key>>

\* reserveScheduledAgentRun.
Reserve(r) ==
    LET k == key[r]
    IN  /\ stage[r] = "reserve"
        /\ IF run[k] = "none"
           THEN run' = [run EXCEPT ![k] = "pending"] /\ Goto(r, "create")
           ELSE UNCHANGED run /\ Goto(r, "lookup")
        /\ UNCHANGED <<up, job, linked, required, outputVars, deliveryVars,
                       review, postVars, faults, configVars, clock, key>>

\* A reservation that was there: is its job, too?
Lookup(r) ==
    /\ stage[r] = "lookup"
    /\ Goto(r, IF job[key[r]] = "none" THEN "create" ELSE "relink")
    /\ UNCHANGED <<outcomeVars, configVars, clock, key>>

\* createJob under the id of the run; a job that is there is taken instead.
CreateJob(r) ==
    LET k == key[r]
    IN  /\ stage[r] = "create"
        /\ IF job[k] = "none"
           THEN job' = [job EXCEPT ![k] = "active"] /\ Goto(r, "link")
           ELSE UNCHANGED job /\ Goto(r, "relink")
        /\ UNCHANGED <<up, run, linked, required, outputVars, deliveryVars,
                       review, postVars, faults, configVars, clock, key>>

\* linkScheduledAgentRunToJob.  A replay is over with that.
Link(r) ==
    /\ stage[r] \in {"link", "relink"}
    /\ linked' = linked \cup {key[r]}
    /\ Goto(r, IF stage[r] = "link" THEN "record" ELSE "idle")
    /\ UNCHANGED <<up, job, run, required, outputVars, deliveryVars, review,
                   postVars, faults, configVars, clock, key>>

\* updateScheduledAgentConfigLastRunAt: the present time, and the end of a
\* one-shot configuration.
RecordLastRun(r) ==
    /\ stage[r] = "record"
    /\ lastRun' = clock
    /\ enabled' = (enabled /\ scenario.schedule # "once")
    /\ Goto(r, "idle")
    /\ UNCHANGED <<outcomeVars, scenario, clock, key>>

\* Mutant: lastRunAt is recorded whatever became of the dispatch.
DispatchFailsRecording(r) ==
    /\ stage[r] # "idle" /\ Fault
    /\ Goto(r, IF stage[r] = "consume" THEN "idle" ELSE "record")
    /\ UNCHANGED <<up, rowVars, outputVars, deliveryVars, review, postVars,
                   configVars, clock, key>>

\* A statement of the dispatch throws; the next tick starts anew.
DispatchFails(r) ==
    /\ stage[r] # "idle" /\ Fault
    /\ Goto(r, "idle")
    /\ UNCHANGED <<up, rowVars, outputVars, deliveryVars, review, postVars,
                   configVars, clock, key>>

\* A replica crashes and is started again.
Crash(r) ==
    /\ r \in up /\ Fault
    /\ LoseSweeps(r) /\ Goto(r, "idle")
    /\ UNCHANGED <<configVars, clock, key>>

DispatchStep(r) ==
    Tick(r) \/ Consume(r) \/ Reserve(r) \/ Lookup(r) \/ CreateJob(r) \/ Link(r)
    \/ RecordLastRun(r)

ScheduledNext ==
    \/ TimePasses
    \/ \E r \in Replicas : DispatchStep(r) \/ DispatchFails(r) \/ Crash(r)
    \/ OutcomeNext /\ UNCHANGED <<configVars, clock, dispatchVars>>

ScheduledSpec == ScheduledInit /\ [][ScheduledNext]_vars

\* The timers of the sweeps keep running; a dispatch may stop at any statement.
FairOutcomeSpec == ScheduledSpec /\ OutcomeFairness

\* The dispatchers keep running, too.
FairScheduledSpec ==
    /\ FairOutcomeSpec
    /\ \A r \in Replicas : WF_stage(DispatchStep(r))

\* "At-most-once": of the replicas that saw a one-shot configuration due, one
\* dispatches it, and none after a crash or an error has ended that dispatch.
Dispatches(r) == stage[r] \notin {"idle", "consume"}

OnceIsDispatchedOnce ==
    scenario.schedule = "once" =>
        \A r \in Replicas : Dispatches(r) =>
            ~ enabled /\ \A q \in Replicas : Dispatches(q) => q = r

\* An occurrence that a crash has lost does not look like one that ran: lastRunAt
\* moves only for an occurrence that has a job.
RecordedRunsHaveJobs ==
    lastRun # scenario.lastRun => \E k \in 1 .. lastRun : job[k] # "none"

\* Not so: "every dispatch path funnels through" the update of lastRunAt.  The
\* occurrence of a cron agent whose job exists is recorded sooner or later.
CronDispatchIsRecorded ==
    \A k \in Runs :
        (scenario.schedule = "cron" /\ job[k] # "none")
            ~> (lastRun # Never /\ lastRun >= k)
-----------------------------------------------------------------------------
(* The dispatch and the sweeps implement RunPromise.                       *)

\* An occurrence is reserved by its run and worked on by its job.
workOf ==
    [k \in Runs |-> IF job[k] # "none" THEN job[k]
                    ELSE IF run[k] # "none" THEN "reserved" ELSE "none"]

verdictOf == [k \in Runs |-> IF run[k] \in Ended THEN run[k] ELSE "open"]
fateOf == [k \in Runs |-> IF delivery[k] \in Settled THEN delivery[k] ELSE "open"]

Promise == INSTANCE RunPromise WITH
    Occurrences <- Runs, Outputs <- Payloads,
    Failure <- TerminalError, Absent <- None,
    awaited <- required, work <- workOf, answer <- envelope,
    verdict <- verdictOf, taken <- accepted, fate <- fateOf

\* Crashes, replayed ticks, late submissions and lost leases do not show: of
\* every occurrence a reader sees one reservation, one job, one answer, one
\* verdict that agrees with them and one fate of the answer.
PromiseSpec == Promise!PromiseSpec
=============================================================================
