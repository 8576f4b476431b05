# A TLA+ model of the Almirant agent-job control plane

Almirant runs coding agents. A control plane (`backend/api` over PostgreSQL)
keeps a queue of agent jobs; runner processes (`services/runner`) claim jobs,
run an agent for each, stream what it does back and report how it ended. Users
answer questions, interrupt, cancel and prompt from the web, from Discord and
over the API; a handful of timers recover what crashed or stalled.

The modules in this directory model three parts where those actors meet: one
`agent_jobs` row with the receipt of the claim that holds it and the numbered
rows written under it; the event stream that carries what an agent does to the
bridges; and the scheduled agents, from the tick that starts a run to the
delivery of its output. TLC checks small instances; TLAPS proves the safety of
each part for every value of its constants.

## The system

| Part | State it keeps | Operations | What is hard |
|---|---|---|---|
| Agent job queue (`agent-job-repository.ts`) | `agent_jobs`: status, worker, nonce and held intent in `config`, retries, `available_at`, `completed_at` | claim, status report, release, end, cancel or fail on request, unfenced `updateJobStatus` | several writers of one row, some fenced by the nonce and some not |
| Claim receipts (`claim-sequence-receipt-repository.ts`) | `agent_job_claim_sequence_receipts`: state, reserved ranges, emitted-through marks, inserted counts of three channels | reserve, extend, persist rows, hand off | late, repeated, reordered batches; the int32 limit |
| Job logs, session events, native events | rows numbered per job and channel | fenced insert; legacy insert; user input | two writers of one number |
| Stale-job recovery (`stale-job-recovery.ts`) | none; a selected row between select and write | sweeps of lost workers, deadlines, finalizing, stuck waits, quota pauses | decides on a stale row; must act when nobody else does |
| Worker API (`workers.routes.ts`) | none | HTTP calls of runners | checks on a row read before the write |
| Runner (`orchestrator.ts`, `job-executor.ts`, `job-event-logger.ts`, `worker-client.ts`) | active jobs, buffers, the nonce of each job | claim, number, flush, drain, hand over, report | crashes at any point; learns late that its job was taken |
| Questions (`worker-interaction-repository.ts`) | `worker_interactions`: status, timeout action | ask, answer, expire, cancel | answer and timeout race; the job is resumed in a later step |
| Interaction timeout sweeper | the questions it has expired and not yet handled | discard, fail, resume, keep waiting | reads the job, writes later by id |
| Planning sessions (`ws-message-router.ts`, idle sweeper) | session rows | prompt, answer, interrupt, cancel, kill, close | unfenced writes of a leased job |
| Discord (`interactions.routes.ts`) | none | stop, shutdown, answer | unfenced writes of a leased job |
| Receipt residue reconciler | none | fails queued jobs with old receipts while the receipts switch is off | compare and set over many rows |
| Event streams (`stream-consumer`) | a Redis stream, its consumer groups with their pending lists, processed markers, a dead-letter stream; in each process the entries it has read | append, read, acknowledge, claim, quarantine, trim | redelivery, crash between effect and acknowledgement, two processes with one entry |
| Bridges (`web-bridge`, `discord-bridge`, `bridge-core`) | rows behind the API, live publications, the turnstile of each job | persist, then publish; render in Discord | a lost or unreadable reply after a commit, a request refused for one of its events, order within a job |
| Wave orchestrator (`worker`, `backend/packages/worker`) | dependency graph of work items | ready set, waves | cycles, partial failures |
| Scheduled agents (`scheduled-agent-dispatcher.ts`, `execute-scheduled-agent-config.ts`) | a configuration with `lastRunAt`, `scheduled_agent_runs` | tick, consume, reserve, create the job, link, record | four statements without a transaction, on every replica |
| Agent outputs (`agent-output-*.ts`, `scheduled-agent-terminal-*.ts`) | submissions, deliveries with leases | submit, finalize, project the job on its run, claim, post, record | a late submission, lease expiry, an answer after the lease |
| Plan review, effort estimation, archives | single rows | admit, sweep | little state of their own |
| Updater | one job | run, poll | concurrent requests |
| Everything else (projects, documents, notes, ideas, feedback, accounts, billing, storage, notifications, frontend, CLI, widgets) | single rows | CRUD, rendering, provider calls | little that tests and constraints do not reach |

What makes each modelled part correct:

- the queue: a job is leased to one claim at a time, a nonce is good for one
  lease, the first accepted terminal request decides the outcome, a finished
  job keeps it, the sweeps spend no retry beyond the limit;
- the receipts: an open receipt always belongs to the claim that holds the
  job, a leased job always has one, no number is reserved twice, a reserved
  number is free or the claim's own row, a claim that lost its job stays out, a
  handed-over claim has lost nothing;
- recovery: a sweep never undoes a newer generation of the row, and what was
  held or paused ends even if no runner comes back;
- questions: one resolution per question, one actor acts on it;
- the streams: an event is acknowledged after its effect or as a dead letter,
  shown live once and in the order of its job, trimmed when every group is done
  with it, and never stranded: neither behind a turnstile that nobody can pass
  nor in the pending list of a process that believes it is working on it;
- scheduled agents: a one-shot agent is dispatched at most once, an occurrence
  is recorded only if it has a job, the outcome of a run agrees with its job
  and its output, an output has one envelope, a settled delivery stays settled,
  and every run whose job ended is concluded.

`PROJECT.json` lists every hazard at the line where it bites, with the property
that covers it or the reason there is none.

## The modules

| Module | What it is |
|---|---|
| `SequenceReservation` | Arithmetic of reservations, authorization of one number, expected row count: the pure functions of the receipt repository. |
| `JobClaims` | The claim protocol: one action per transaction or per step of a runner or a sweep. |
| `JobLease` | The abstract specification: what the queue promises about a job. `JobClaims` refines it. |
| `JobControl` | `JobClaims` beside the handlers that write the same rows without its fences. Extends `JobClaims` and composes `Next` with theirs. |
| `EventStream` | The stream, its readers and cleaners, and the durable handlers of both bridges. |
| `EventDelivery` | The abstract specification: what the stream promises. `EventStream` refines it. |
| `AgentOutputs` | What becomes of a scheduled run once its job exists: submission, terminal sweep, delivery sweep. |
| `ScheduledAgents` | `AgentOutputs` beside the dispatcher that starts the runs. Extends it and composes `OutcomeNext` with the dispatcher's steps. |
| `RunPromise` | The abstract specification: what scheduled agents promise to those who read their runs. `ScheduledAgents` refines it. |
| `MCJobClaims`, `MCJobControl`, `MCEventStream`, `MCScheduledAgents` | Symmetry sets and the constants that are not plain values; the `.cfg` files give the rest. |
| `ReservationProofs`, `JobClaimsProofs`, `JobLeaseProofs`, `LeaseRefinementProofs`, `SequenceProofs`, `JobControlProofs`, `EventStreamProofs`, `ScheduledAgentsProofs` | Theorems and their proofs. |

### State and code

`job[j]` is the `agent_jobs` row: `claim` is `config.claimAttemptId`, `intent`
is `config.pendingTerminalIntent.status`, `highWater` is
`config.sequenceHighWater`, and `availableAt` only says whether the column is
set. `rcpt[k]` is the receipt whose nonce is `k`. Nonces are never reused
(`gen_random_uuid`), so they index the receipts. `rows[j][c][s]` is the writer
of row `s` of channel `c`, which stands for the unique index on job and number.
`runner[k]` is the execution the claim started: its phase and the last number
it published per channel. `snap[j]` is the row a sweep selected, with one bit
that says whether `xmin` and `updated_at` are unchanged since, which is what
`selectedJobFence` compares. A claim that crashes takes no more runner steps,
but `PersistRow` may still deliver what it had emitted.

An action's guard collects the checks of its route and its transaction. Calls
the code answers with an error, and calls it answers `idempotent-replay`, change
nothing and have no action. The server stores whatever retry count a release
reports; the limit there (`MayRetry`) is the runner's `maxAutoRetries`.
`MaxRetries` stands for that and for the row's `max_retries`, which the sweeps
check. `WriteJob` refreshes the fence on every write.

In `JobControl`, `ask[a]` is a `worker_interactions` row; `todo` and `stopping`
are what a handler has still to do after an `await` (an answer whose job is not
yet resumed, an interrupt whose job does not yet wait, an expired question not
yet judged, cancelled or continued, a stop button that has read its job).
`Restart` forgets all of them. `completed[j]` is `completed_at`.
`UpdateJobStatus` is the unconditional `updateJobStatus`: it writes the status
by id and leaves the nonce, the held intent and the receipt as they are.

In `EventStream` entries are numbered in stream order, and there is one stream
with a group for each bridge. `cursor[g]`, `pending[g]` and `deliveries[g]` are
what Redis keeps of a group; `marked[g]` are the processed markers. Of a process
`c`, `queue[c]` is the rest of the batch it read, `page[c]` what its main loop
waits for, `local[c]` is `locallyReadEntries`, `failed[c]` the retry tracker, and
`stage[c][e]` says where `runProcess` is with an entry: each `await` ends a
stage. `ahead[c][e]` are the entries whose promise the turnstile chained before
that of `e`. An error or a lost reply is a disjunct of the step it befalls: the
step's effect may or may not have happened. An insert whose answer comes but has
no readable count is `PersistAnswerUnreadable`: it is committed, and its event
goes to the dead letters without having been shown live, because the error is
not retryable (`persistence.ts:205-213`, `stream-reader.ts:199-207`).
`LossIsEarned` says that this costs no more than the publication. `Crash` loses everything a process
has in memory; a graceful stop, which drains first, does less harm and has no
action. `pass[c]` is a cleaner's pass, which asks Redis about each group in a
statement of its own.

In `AgentOutputs` and `ScheduledAgents` a run and its job share an id (the
dispatcher pins it), and the run of a scheduled occurrence is unique by its due
key, so `run[k]`, `job[k]` and `envelope[k]` belong to occurrence `k`.
`linked` is `agent_job_id`; `delivery[k]` with `attempts[k]` and `holder[k]` is
the delivery row and its lease. `review[r]` and `posted[r]` are where a sweep of
replica `r` stands between two awaits; `stage[r]` is the next statement of its
dispatch. `failed` stands for `incomplete`, too, and how a job ends is left to
the claim protocol.

`ScheduledAgents` implements `RunPromise` under the mapping at its end: the work
on an occurrence is reserved by its run and begun by its job, its verdict is
given when the run takes a terminal status, and the fate of its answer is
settled when the delivery is. A sweep that works on a run, a lease, an attempt
and the four statements of the dispatcher do not exist at that level: they
stutter. A late submission may still become the answer of a run that was
concluded without one (it failed, was cancelled or owed none), but never
replaces an answer.

## What the runs check

| Run | Instance | What it shows |
|---|---|---|
| `claims` | 1 job, 2 workers, 3 claims, 1 channel, numbers 1..3 in blocks of 1, 1 retry, up to 1 legacy row | `TypeOK`, `OpenReceiptHoldsJob`, `LeasedJobHasOpenReceipt`, `HeldIntentStaysFinalizing`, `ReservationsDisjoint`, `ReservedRowsAreOwn`, `CountsAreExact`, `HandedOverComplete`, `SweepIsNeverRefused`, and `LeaseSpec`, the refinement of `JobLease` |
| `claims_channels` | 2 claims, 2 channels, blocks of 2 cut off at 3 | `HandedOverComplete` when channels differ and the last block is short |
| `claims_liveness` | 1 worker, 2 claims, numbers 1..2 | `HeldIntentIsApplied`, `QuotaPauseEnds` under `FairSpec` |
| `control` | a planning job, 1 worker, 2 claims, 1 question, numbers 1..2, no retry | the numbering invariants, `HandlersMatchResolution`, `HeldIntentIsNeverLost` and `LostLeaseStaysLost` survive the unfenced writers; `OtherStepsKeepOutcomes` says which of them to blame for what does not |
| `declined` | 1 claim | violation of `DeclinedJobReturnsToQueue` |
| `user_input` | as `control` | violation of `ReservedRowsAreOwn` |
| `completed_flip` | as `control`, not a planning job | violation of `SweeperSparesCompletedJobs` |
| `intent_override` | as `control` | violation of `HeldIntentStaysFinalizing` |
| `stuck_waiting` | 1 claim, 2 questions, under `FairControlSpec` | violation of `StuckWaitingRecovers` |
| `streams` | 2 entries of one job, 2 web bridges or 1 web and 1 Discord bridge, batches of 3, pages of 2 (web) and 1 (Discord), 2 deliveries, 1 fault, both entries canonical or both native, entry 1 refused | `StreamTypeOK`, `AckFollowsEffect`, `RenderedAtMostOnce`, `TrimmedIsSettled`, `RenderInPageOrder`, `LossIsEarned`, `SomebodyHoldsTurn`, `IdleIsReclaimable`; `DeliverySpec`, the refinement of `EventDelivery`; `EntriesSettle` under `FairStreamSpec` |
| `scheduled` | 1 occurrence: one-shot on 2 replicas or cron on 1, with a required output; cron on 2 replicas or one-shot on 1, without one; 2 delivery attempts, 1 fault | `ScheduledTypeOK`, `OnceIsDispatchedOnce`, `RecordedRunsHaveJobs`, `RunMatchesJob`, `DeliveredWasAccepted`, `EnvelopeIsFinal`, `SettledDeliveryStays`; `PromiseSpec`, the refinement of `RunPromise`; `EndedRunsConclude` under `FairOutcomeSpec` |
| `cron_stuck` | 2 cron occurrences on 1 replica, 1 fault | violation of `CronDispatchIsRecorded` under `FairScheduledSpec` |

### Bounds

`MaxSeq` stands for 2147483647 and `Block` for 4096; the instances let a claim
run into the end of the space, a block be cut short and an extension cross a
block. Three claims are a first run, a retry and one more holder while rows of
both earlier ones are still under way. Jobs share nothing but the worker's
nonce map, which is per job, so one job is enough for the properties, all of
which speak of one job; the proofs cover any number. `LegacyRows` bounds the
rows of a run that preceded the receipts. Exhaustion of claims stops an
instance, so deadlock is not checked; a finished job stops too.

`control` compares states through `View`, which drops a selected row that was
written since. No step reads such a row: its sweep is refused by
`selectedJobFence`, and the next sweep selects anew. States that differ in
nothing else have the same future, and no property of the run but the type
invariant (which `ControlTypeCorrect` proves) looks at the row. The liveness runs use neither view nor symmetry.

In `streams` two entries are the least for the order within a job, for a request
that carries a refused event beside a good one, and for a frontier between two
entries; two processes of one group are the least for one entry in two hands,
and a web with a Discord bridge for two groups that move apart. One fault is an
error, a lost reply, an expired marker or a crash anywhere, and recovery may
claim an entry at any time, also one that another process is working on, so a
single fault meets every overlap. A read takes the whole stream, so larger
batches say nothing new; counting of deliveries stops at the limit. Entry 1 is
always refused: only entry 2 is rendered here, and the proof covers the rest.
`NativeSets` bounds the mix of the two channels: all entries of one kind,
because the turnstile orders canonical entries only and the collector takes
native ones only. The proofs cover every mix. The instance has 400 thousand
states.

In `scheduled` one occurrence is enough for the race of two replicas (a cron
occurrence reserves one run for both, a one-shot one is consumed by one of
them), and an output that is not required is the case in which no terminal error
is written. Two attempts are enough for a retry and a dead letter; the expiry of
a lease costs a fault only while its holder still works on the delivery.
`cron_stuck` has a second occurrence, which the agent never reaches. The
instance of `scheduled` has 466 thousand states.

### Fairness

`FairSpec` assumes only the sweeps, which run on an interval of the control
plane: weakly fair selection of a row that has a deadline, strongly fair writing
of what was selected, since a row that is rewritten between select and write
every single time would need a writer synchronised with the timer. A running
job has its four-hour deadline, a finalizing one its ten minutes, a quota pause
its reset time; a job that waits for a user has none here. Runners and users are
not fair. Two endless habits that postpone a deadline (reporting `running`
again and again, cancelling again and again) are left aside and listed as
hazards. `FairControlSpec` assumes the same of the sweep of resolved waits.

`FairStreamSpec` assumes of the `Steady` processes, one of each group, that
their loop and their handlers go on, that they are started again after a crash,
and that their recovery pass, which the main loop repeats, comes back to entries
that are left. The first of these says more than the code enforces: the API
client's `fetch` has no time limit (`persistence.ts:263`), so it rests on the
API answering or the connection breaking, and a request that hangs stalls its
process. The second web bridge of `streams` is not steady: it may hang or stop
for ever in the middle of an entry, and the first one settles what it leaves.
Runners and cleaners are not fair. `FairOutcomeSpec` assumes that the timers of
every replica's sweeps keep firing (`startSweep`), that the delivery sweep
claims what is claimable, and that leases end; agents, the ends of jobs and the
dispatchers are not fair: a dispatch may stop at any statement, and the run of a
job that ended is concluded all the same. `FairScheduledSpec` adds the
dispatcher's interval, so that `cron_stuck` is not the fault of a dispatcher
that stopped.

The fairness of both is indexed by the variables that every step of the action
changes (`stage[c]`, `review`, `batch`), which asks for the same as the tuple of
all variables and costs TLC less.

## What the violations show

They are disagreements between the code and its own comments; `PROJECT.json`
quotes both.

- `declined`: a runner that cannot fit a claimed job asks for `queued` without
  high-water marks. The route refuses that for a fenced job (400), the error is
  logged, and the job stays leased until a sweep takes it.
- `user_input`: a user's input takes `MAX(seq) + 1` of the log without the
  claim's lock. Without that writer `ReservedRowsAreOwn` holds (`claims`, and
  the theorem `ReservedRowsStayOwn`). With a claim open that number is reserved:
  the runner's row is skipped, and its handoff can never become ready.
  `HandedOverComplete` still holds in `control`: the failure is safe, it costs
  the job its release.
- `completed_flip`: the interaction sweeper checks `completedAt` on a row it
  read, and resumes the job later by id. `OtherStepsKeepOutcomes` shows that
  this, the resumption after an answer, the pause of an interrupt and Discord's
  stop button are the only steps that touch a job that has ended.
- `intent_override`: interrupts and answers take a job out of `finalizing`
  while a cancellation is held for it, and with it out of the watchdog's
  sight. The protocol by itself does not (`claims`, and the theorem
  `HeldIntentsStayFinalizing`). `HeldIntentIsNeverLost` shows that the request
  itself survives.
- `stuck_waiting`: an answer that finds the worker offline clears the worker
  and leaves the nonce; an interrupt that was under way then makes the job
  wait. Sweep and cancellation look for a receipt of worker null and refuse.
  The protocol by itself never brings a sweep into that place (`claims`, and the
  theorem `SweepsAreNeverRefused`).
- `cron_stuck`: a replica dies after it created the job of a cron occurrence
  and before it recorded `lastRunAt`. Every later tick computes the due key from
  the old `lastRunAt`, finds the job, repairs the link and returns before the
  record, so the agent dispatches nothing any more until it is edited. An agent
  that has never run is spared: its key is the latest occurrence.

## What is proved

For every set of jobs, workers, claims and channels, finite or infinite, and every
`MaxSeq`, `Block`, `MaxRetries` and `LegacyRows` that satisfy the named
assumptions (positive numbers, distinct absent values); for every set of questions
and planning jobs (`LogChannelAssumption`, `PlanningAssumption`); for every number of
entries, set of processes, group assignment, page concurrency and set of refused
entries (`StreamAssumption`); and for every set of replicas, occurrences and
payloads (`OutputAssumption`, `ScheduleAssumption`):

| Theorem | Module | Argument |
|---|---|---|
| `ReservationCovers` | `ReservationProofs` | whole blocks cover what is missing (`BlocksCover`), and the cut at `MaxSeq` is above anything that can be asked for |
| `ReservationIsTight`, `ReservationsCommute` | `ReservationProofs` | `BlocksFor` is the least number of blocks that covers (`BlocksAreFewest`), so an end is less than a block beyond what was asked for; of two requests the farther one decides, so their order and their repetition do not matter |
| `TypeCorrect` | `JobClaimsProofs` | `TypeInv`: `TypeOK` and that a used receipt names a job |
| `OpenReceiptsHoldJobs`, `NoncesHaveReceipts`, `HeldIntentsStayFinalizing` | `JobLeaseProofs` | `LeaseInv`: nonce and open receipt go together in both directions (`NonceHasReceipt`, `ReceiptHasNonce`), and an intent is only held on a leased, finalizing job (`IntentIsLeased`). None of the three is inductive alone: a sweep acts on a selected row, and only the fence (fresh means the row is still that one) connects the two |
| `SweepsAreNeverRefused` | `JobLeaseProofs` | with `LeaseInv`, that a selected row nobody wrote since is still one the sweeps select (`SelectionIsSweepable`); every such row has an outcome (`SweepableHasOutcome`) |
| `ClaimsImplementLease` | `LeaseRefinementProofs` | each action is a step of `JobLease` or a stutter, given `LeaseInv` |
| `ReservationsAreDisjoint` | `SequenceProofs` | `RangeInv`: ranges are ranges, and that of the claim whose nonce the job row carries is the last of its job, so extending it meets nobody. It speaks of the nonce alone, not of the lease, so it also holds in `JobControl` |
| `ReceiptCountsAreExact`, `HandoffLosesNothing` | `SequenceProofs` | `HandoffInv`: rows in a claim's range are its own or absent, the count is their number, and as many rows as an interval has numbers fill the interval |
| `ReservedRowsStayOwn` | `SequenceProofs` | `OwnInv`: rows of the runs before the receipts lie below every range of their job, because a base clears the rows that are there (`LegacyIsBelow`), and a claim's rows lie in its range (`RowsInRange`); with the ranges disjoint, a row in a range is its claim's |
| `ControlTypeCorrect`, `HandlersMatchResolutions` | `JobControlProofs` | `ControlInv`: a handler works only for a question that was asked, so for a job (`AsksNameJobs`, `TodoIsAsked`); a question is opened once and resolved once (`AskMove`), and a handler gets work only from the resolution that made it (`TodoMove`) |
| `RangesSurviveControl`, `CountsSurviveControl`, `HandoffSurvivesControl` | `JobControlProofs` | a step of `JobControl` is, for the rows of the protocol, a step of `JobClaims`, an overwrite that leaves nonce and intent, or a user input on a number no row has (`RowMove`); `HandoffInv` survives each of the three. `LeaseInv` does not |
| `HeldIntentsSurvive` | `JobControlProofs` | the same three kinds of step keep an intent or end the job with it; for a sweep that takes `SnapIsCurrent`, because it decides on the row it selected |
| `LostLeasesStayLost` | `JobControlProofs` | again the three kinds of step: an overwrite gives nobody a nonce, a claim is made with a nonce no receipt has had, and whoever extends, marks or hands over a receipt holds its job |
| `OnlyWritesByIdOverride` | `JobControlProofs` | every fenced step checks, in its own statement, that the row it writes has not ended; a sweep does not, but it writes only the row it selected (`SnapIsCurrent`), which had not (`SelectionIsSweepable`). Both survive the writes by id, which refresh the fence, too |
| `StreamTypeCorrect` | `EventStreamProofs` | inductive as it stands |
| `AckFollowsEffectCorrect` | `EventStreamProofs` | every stage after the effect, and every marker, implies the effect; an entry leaves the pending list only from such a stage or with its dead letter |
| `RenderedAtMostOnceCorrect` | `EventStreamProofs` | an entry at stage `render` is stored and not yet rendered, and is at that stage in one process only: only the insert that found no row leads there |
| `RenderInPageOrderCorrect` | `EventStreamProofs` | checks of a page go in order, and the entries before one at the turnstile are in its `ahead` set until their handler is over |
| `SomebodyHoldsTurnCorrect` | `EventStreamProofs` | `WaitInv`: those before an entry at the turnstile are there, of the same job, and have before them only others that are before it, so `ahead` shrinks strictly from one to the next and the entry with the smallest such set has nobody before it |
| `IdleIsReclaimableCorrect` | `EventStreamProofs` | `BookInv`: what a process has noted of an entry agrees with where the entry is (`Noted`): an entry it has read and is done with without success is in its retry tracker |
| `TrimmedIsSettledCorrect` | `EventStreamProofs` | a frontier in the making lies below every unsettled entry of the groups already asked, and what is settled stays so |
| `LossIsEarnedCorrect` | `EventStreamProofs` | `EarnedInv`: an entry at stage `quarantine` was refused, had used up its deliveries, or is stored, and each of the three lasts |
| `StreamDelivers` | `EventStreamProofs` | each action is a step of `EventDelivery` or a stutter, given the invariants above |
| `ScheduledTypeCorrect` | `ScheduledAgentsProofs` | a run takes over the status of its job, so typing needs `ReviewInv`: a sweep is only at a job that has ended |
| `EnvelopeIsFinalCorrect`, `RunMatchesJobCorrect` | `ScheduledAgentsProofs` | `ReviewInv`: what the projection decides on does not change any more |
| `SettledDeliveryStaysCorrect` | `ScheduledAgentsProofs` | `LeaseInv`: a lease is only held on a delivery under way, by a replica |
| `DeliveredWasAcceptedCorrect` | `ScheduledAgentsProofs` | `AnswerInv`: an ok that waits to be recorded means acceptance |
| `OnceIsDispatchedOnceCorrect` | `ScheduledAgentsProofs` | inductive with the types: only the statement that finds the schedule enabled, and disables it, lets a replica go on |
| `RecordedRunsHaveJobsCorrect` | `ScheduledAgentsProofs` | `RecordInv`: whoever links or records has a job under its key, and a key lies not after the clock, so that the recorded time covers the occurrence |
| `UnfinishedRunsAreFound` | `ScheduledAgentsProofs` | a job has its run (`RowInv`) and an envelope its delivery (`EnvelopeIsQueued`), so what is missing of a conclusion is in one of the selections of the two sweeps |
| `ScheduledAgentsKeepPromise` | `ScheduledAgentsProofs` | each action is a step of `RunPromise` or a stutter, given `PromiseInv`: a job has its run and a submission its job (`RowInv`), a terminal error is written only where an output is required (`PolicyInv`), and what is claimed, posted or accepted is an envelope (`SentInv`) |

Each safety proof is `Init => Inv`, `Inv /\ [Next]_vars => Inv'` with one step
per action, and the temporal conclusion. The same invariants were checked by TLC
before they were proved.

Only model-checked: the liveness properties `HeldIntentIsApplied`,
`QuotaPauseEnds`, `EntriesSettle` and `EndedRunsConclude` (fairness and `ENABLED`
are beyond the prover), and the violations. Every invariant and every action
property of a passing run has a theorem, and so have the three refinements.
Four theorems are the safety half of a liveness property, for every number of
actors; that the step is taken is what fairness adds. `SomebodyHoldsTurnCorrect`
and `IdleIsReclaimableCorrect` say that the step `EntriesSettle` waits for is
there to be taken. `SweepsAreNeverRefused` says that the write of a sweep, on
which `HeldIntentIsApplied` and `QuotaPauseEnds` rest, is refused only when
somebody else moved the job. `UnfinishedRunsAreFound` says that no crash leaves
a run of `EndedRunsConclude` outside what the sweeps select.

## What is not modelled

- The deployment with `DURABLE_SEQUENCE_RECEIPTS_ENABLED=false`, and so the
  receipt-free claim and the residue reconciler, which runs only there.
- The claim as a batch: worker slots, workspace limits, estimate gates and the
  order of the queue. A job is claimed whenever it is queued.
- When a job counts as stale. Any row of a swept status may be selected, which
  covers every schedule and clock.
- The race of a legacy insert with the snapshot of the claim statement.
- Result, duration, cost, model and session columns; broadcasts; the cascade to
  bug-fix attempts; work items and planning-session rows.
- The runner's buffers and retries; the parts in the table above that name no
  module.
- Of the streams: events of the legacy formats, with their coalescers and the
  web bridge's sequence guard, which only drops what regresses and persists
  nothing; several streams and time limits; Discord's threads and buttons;
  health reports.
- Of the scheduled agents: time windows, the built-in modes that pick work
  items, manual and webhook triggers (each has a random key of its own), the
  quota gate, pauses and edits of a configuration. A reservation whose job was
  never created, because the replica died, stays pending when nothing repeats
  it: the code calls a one-shot schedule at-most-once
  (`scheduled-agent-config-repository.ts:308-315`).
- Of the outputs: validation of payloads, the rendering of requests, their
  secrets, edits of a sink while runs are under way, retention.

## Plan

1. `LegacyFence`: the receipt-free writers against the claim statement, with
   its snapshot and its row lock as two steps, and the residue reconciler as
   the way back when the switch is turned off. Aim: no legacy row inside a
   reserved range.
2. `RunnerHandoff`: the event logger's buffer, flush, renewal and freeze, and
   `drainAndReleaseJob` with its aborts, composed with the receipt. Aim: the
   logger is a correct client of `JobClaims` (its step is an `Emit`,
   `EnsureReservation` or `PersistRow`, or a stutter).
3. `ClaimCapacity`: `claimJobs` as a batch under the worker's lock, workspace
   limits, resumption of waiting jobs, prewarm conversion.
4. `DependencyGraph`: waves and cycle detection against a reference definition
   over all small graphs.
