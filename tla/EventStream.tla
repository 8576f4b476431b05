---------------------------- MODULE EventStream ----------------------------
(***************************************************************************)
(* The agent-output stream and the two bridges that consume it.  Runners   *)
(* append events to a Redis stream; the web bridge persists each durable   *)
(* event through the API and then publishes it live, the Discord bridge    *)
(* renders it.  Both use the stream reader of packages/stream-consumer:    *)
(* the pending list of the consumer group is its retry ledger, recovery    *)
(* claims what was left behind, an event that cannot succeed goes to a     *)
(* dead-letter stream, and a cleaner trims what every group is done with.  *)
(*                                                                         *)
(* Entries are numbered in stream order.  Time is abstracted: an idle      *)
(* threshold or a backoff may have passed at any step.                     *)
(***************************************************************************)
EXTENDS Integers, FiniteSets

CONSTANTS
    NumEntries,
    JobOf,         \* JobOf[e]: the job (and claim) of entry e
    Web, Discord,  \* the two consumer groups
    Consumers,     \* the processes
    GroupOf,       \* GroupOf[c]: the group process c reads for
    Deployments,   \* the sets of processes that may be deployed together
    Cleaners,      \* the processes whose hourly cleaner is explored
    Steady,        \* the processes that fairness keeps running
    NativeSets,    \* bound: the sets of native entries explored
    Refused,       \* Refused[g]: entries whose API request is refused for good
    BatchSize,     \* COUNT of a read
    PageConcurrency, \* PageConcurrency[g]: handlers dispatched at once
    MaxDeliveries, \* maxRetries of the reader
    MaxFaults      \* bound: errors, lost replies and crashes explored

Entries == 1 .. NumEntries
Groups == {Web, Discord}

\* No cleaning under way; also a pass whose frontier is 0-0, which trims nothing.
NoPass == [todo |-> {}, frontier |-> 0]

ASSUME StreamAssumption ==
    /\ NumEntries \in Nat /\ BatchSize \in Nat \ {0}
    /\ MaxDeliveries \in Nat \ {0} /\ MaxFaults \in Nat
    /\ JobOf \in [Entries -> Nat]
    /\ Web # Discord /\ Cleaners \subseteq Consumers
    /\ Steady \subseteq Consumers /\ NativeSets \subseteq SUBSET Entries
    /\ GroupOf \in [Consumers -> Groups]
    /\ Deployments \subseteq SUBSET Consumers
    /\ Refused \in [Groups -> SUBSET Entries]
    /\ PageConcurrency \in [Groups -> Nat \ {0}]

VARIABLES
    \* Redis
    published,   \* entries 1 .. published are in the stream ...
    native,      \* those of the native channel; the others are canonical
    trimmed,     \* ... except 1 .. trimmed
    cursor,      \* cursor[g]: last-delivered-id of the group
    pending,     \* pending[g]: the group's pending entries list
    deliveries,  \* deliveries[g][e]: delivery count, up to MaxDeliveries
    marked,      \* marked[g]: the processed markers
    dead,        \* dead[g]: entries of the dead-letter stream
    \* effects outside Redis streams
    stored,      \* rows in the database
    rendered,    \* rendered[e]: live publications by the web bridge, up to 2
    shown,       \* entries rendered in Discord
    \* the processes
    mode,        \* mode[c]: up, down, or absent (never deployed)
    queue,       \* queue[c]: read, not yet dispatched
    page,        \* page[c]: dispatched by the main loop, not yet settled
    stage,       \* stage[c][e]: where runProcess is with e
    ahead,       \* ahead[c][e]: the entries whose turn at the turnstile is
                 \* before that of e
    local,       \* local[c]: locallyReadEntries
    failed,      \* failed[c]: entries with a recorded failure
    pass,        \* pass[c]: the cleaner's pass
    faults       \* faults explored so far

redisVars == <<published, native, trimmed, cursor, pending, deliveries, marked,
               dead>>
effectVars == <<stored, rendered, shown>>
readerVars == <<mode, queue, page, stage, ahead, local, failed>>
vars == <<redisVars, effectVars, readerVars, pass, faults>>

Stages == {"none", "check", "turn", "collect", "single", "render", "show",
           "mark", "ack", "clear", "quarantine"}

StreamTypeOK ==
    /\ published \in 0 .. NumEntries /\ native \in SUBSET Entries
    /\ trimmed \in 0 .. NumEntries
    /\ cursor \in [Groups -> 0 .. NumEntries]
    /\ pending \in [Groups -> SUBSET Entries]
    /\ deliveries \in [Groups -> [Entries -> 0 .. MaxDeliveries]]
    /\ marked \in [Groups -> SUBSET Entries]
    /\ dead \in [Groups -> SUBSET Entries]
    /\ stored \in SUBSET Entries
    /\ rendered \in [Entries -> 0 .. 2]
    /\ shown \in SUBSET Entries
    /\ mode \in [Consumers -> {"up", "down", "absent"}]
    /\ queue \in [Consumers -> SUBSET Entries]
    /\ page \in [Consumers -> SUBSET Entries]
    /\ stage \in [Consumers -> [Entries -> Stages]]
    /\ ahead \in [Consumers -> [Entries -> SUBSET Entries]]
    /\ local \in [Consumers -> SUBSET Entries]
    /\ failed \in [Consumers -> SUBSET Entries]
    /\ pass \in [Cleaners ->
                 [todo : SUBSET Groups, frontier : 0 .. NumEntries + 1]]
    /\ faults \in 0 .. MaxFaults

StreamInit ==
    /\ published = 0 /\ native = {} /\ trimmed = 0
    /\ cursor = [g \in Groups |-> 0]
    /\ pending = [g \in Groups |-> {}]
    /\ deliveries = [g \in Groups |-> [e \in Entries |-> 0]]
    /\ marked = [g \in Groups |-> {}]
    /\ dead = [g \in Groups |-> {}]
    /\ stored = {} /\ shown = {}
    /\ rendered = [e \in Entries |-> 0]
    /\ \E D \in Deployments :
        mode = [c \in Consumers |-> IF c \in D THEN "up" ELSE "absent"]
    /\ queue = [c \in Consumers |-> {}]
    /\ page = [c \in Consumers |-> {}]
    /\ stage = [c \in Consumers |-> [e \in Entries |-> "none"]]
    /\ ahead = [c \in Consumers |-> [e \in Entries |-> {}]]
    /\ local = [c \in Consumers |-> {}]
    /\ failed = [c \in Consumers |-> {}]
    /\ pass = [c \in Cleaners |-> NoPass]
    /\ faults = 0

\* A group exists in Redis once one of its processes ran.
LiveGroups == {GroupOf[c] : c \in {b \in Consumers : mode[b] # "absent"}}

\* An entry a group has no more work with.
Settled(g, e) == e <= cursor[g] /\ e \notin pending[g]

\* One more fault of the budget.
Fault == faults < MaxFaults /\ faults' = faults + 1
NoFault == UNCHANGED faults
-----------------------------------------------------------------------------
(* runProcess: how an operation on one entry moves on and ends. *)

At(c, e, s) == stage[c][e] = s
Goto(c, e, s) == stage' = [stage EXCEPT ![c][e] = s]

\* The operation is over, with success or with the entry quarantined.
Finish(c, e) ==
    /\ Goto(c, e, "none")
    /\ page' = [page EXCEPT ![c] = @ \ {e}]
    /\ local' = [local EXCEPT ![c] = @ \ {e}]
    /\ failed' = [failed EXCEPT ![c] = @ \ {e}]
    /\ UNCHANGED <<mode, queue, ahead>>

\* The handler's finally lets those behind S pass the turnstile.
Release(c, S) ==
    ahead' = [ahead EXCEPT ![c] = [e \in Entries |-> @[e] \ S]]

\* Mutants: a failed handler keeps its turn; the failure is not recorded.
FailKeepingTurn(c, S) ==
    /\ stage' = [stage EXCEPT ![c] = [e \in Entries |->
                    IF e \in S THEN "none" ELSE @[e]]]
    /\ page' = [page EXCEPT ![c] = @ \ S]
    /\ failed' = [failed EXCEPT ![c] = @ \cup S]
    /\ UNCHANGED <<mode, queue, ahead, local>>

FailUnrecorded(c, S) ==
    /\ stage' = [stage EXCEPT ![c] = [e \in Entries |->
                    IF e \in S THEN "none" ELSE @[e]]]
    /\ page' = [page EXCEPT ![c] = @ \ S]
    /\ Release(c, S)
    /\ UNCHANGED <<mode, queue, local, failed>>

\* recordFailure: the entries stay pending for recovery.
Fail(c, S) ==
    /\ stage' = [stage EXCEPT ![c] = [e \in Entries |->
                    IF e \in S THEN "none" ELSE @[e]]]
    /\ page' = [page EXCEPT ![c] = @ \ S]
    /\ failed' = [failed EXCEPT ![c] = @ \cup S]
    /\ Release(c, S)
    /\ UNCHANGED <<mode, queue, local>>

\* The handler is over, the operation goes on.
Leave(c, e, s) ==
    /\ Goto(c, e, s)
    /\ Release(c, {e})
    /\ UNCHANGED <<mode, queue, page, local, failed>>

\* The operation moves on inside the handler.
Advance(c, e, s) ==
    /\ Goto(c, e, s)
    /\ UNCHANGED <<mode, queue, page, ahead, local, failed>>
-----------------------------------------------------------------------------
(* The main loop. *)

\* XADD by a runner.  Publishing never trims.
Publish ==
    /\ published < NumEntries
    /\ published' = published + 1
    /\ native' \in {native, native \cup {published + 1}}
    /\ \E N \in NativeSets : native' = N \cap 1 .. published'
    /\ UNCHANGED <<trimmed, cursor, pending, deliveries, marked, dead,
                   effectVars, readerVars, pass, faults>>

\* Mutant: every read is taken for a full batch.
ReadFullBatch(c) ==
    LET g == GroupOf[c]
        last == cursor[g] + BatchSize
        batch == cursor[g] + 1 .. last
    IN  /\ mode[c] = "up" /\ queue[c] = {} /\ page[c] = {}
        /\ cursor[g] < published
        /\ cursor' = [cursor EXCEPT ![g] = last]
        /\ pending' = [pending EXCEPT ![g] = @ \cup batch]
        /\ queue' = [queue EXCEPT ![c] = batch]
        /\ local' = [local EXCEPT ![c] = @ \cup batch]
        /\ UNCHANGED <<published, native, trimmed, deliveries, marked, dead,
                       effectVars, mode, page, stage, ahead, failed, pass,
                       faults>>

\* XREADGROUP: the whole batch becomes pending.  A lost reply leaves it to
\* recovery.
Read(c) ==
    LET g == GroupOf[c]
        last == IF cursor[g] + BatchSize < published
                THEN cursor[g] + BatchSize ELSE published
        batch == cursor[g] + 1 .. last
    IN  /\ mode[c] = "up" /\ queue[c] = {} /\ page[c] = {}
        /\ cursor[g] < published
        /\ cursor' = [cursor EXCEPT ![g] = last]
        /\ pending' = [pending EXCEPT ![g] = @ \cup batch]
        /\ deliveries' = [deliveries EXCEPT ![g] = [e \in Entries |->
                             IF e \in batch THEN 1 ELSE @[e]]]
        /\ \/ /\ queue' = [queue EXCEPT ![c] = batch]
              /\ local' = [local EXCEPT ![c] = @ \cup batch]
              /\ NoFault
           \/ Fault /\ UNCHANGED <<queue, local>>
        /\ UNCHANGED <<published, native, trimmed, marked, dead, effectVars,
                       mode, page, stage, ahead, failed, pass>>

\* The first PageConcurrency entries of what is left of the batch.
NextPage(c) ==
    {e \in queue[c] :
        Cardinality({d \in queue[c] : d < e}) < PageConcurrency[GroupOf[c]]}

\* Dispatch a page; the next one waits for all of it.
Dispatch(c) ==
    /\ mode[c] = "up" /\ page[c] = {} /\ queue[c] # {}
    /\ page' = [page EXCEPT ![c] = NextPage(c)]
    /\ queue' = [queue EXCEPT ![c] = @ \ NextPage(c)]
    /\ stage' = [stage EXCEPT ![c] = [e \in Entries |->
                    IF e \in NextPage(c) THEN "check" ELSE @[e]]]
    /\ UNCHANGED <<redisVars, effectVars, mode, ahead, local, failed, pass,
                   faults>>

\* Where the handler of the group starts with an entry.
HandlerStart(g, e) ==
    IF g = Web THEN (IF e \in native THEN "collect" ELSE "turn")
               ELSE (IF e \in native THEN "mark" ELSE "show")

\* The holder of a job's turn and those that wait for it.
AtTurnstile(c, j) ==
    {e \in Entries : JobOf[e] = j /\ stage[c][e] \in {"turn", "render"}}

\* isProcessed.  The replies of one connection come in dispatch order; a
\* canonical entry of the web bridge joins the turnstile.
Check(c, e) ==
    LET g == GroupOf[c]
        next == IF e \in marked[g] THEN "ack" ELSE HandlerStart(g, e)
    IN  /\ At(c, e, "check")
        /\ e \in page[c] => \A d \in page[c] : d < e => ~At(c, d, "check")
        /\ \/ /\ Goto(c, e, next)
              /\ ahead' = IF next = "turn"
                          THEN [ahead EXCEPT ![c][e] = AtTurnstile(c, JobOf[e])]
                          ELSE ahead
              /\ UNCHANGED <<mode, queue, page, local, failed>>
              /\ NoFault
           \/ Fault /\ Fail(c, {e})
        /\ UNCHANGED <<redisVars, effectVars, pass>>
-----------------------------------------------------------------------------
(* The web bridge's handler. *)

\* Mutant: no turnstile.
NoTurnstile(c, e) == TRUE

HoldsTurn(c, e) == ahead[c][e] = {}

\* Mutant: a row that was there already is rendered, too.
RenderWhateverInserted(c, e) ==
    /\ At(c, e, "turn") /\ HoldsTurn(c, e)
    /\ e \notin Refused[Web]
    /\ stored' = stored \cup {e}
    /\ Advance(c, e, "render") /\ NoFault
    /\ UNCHANGED <<redisVars, rendered, shown, pass>>

\* persistCanonicalEvent: one awaited insert.  It is rendered only if this
\* request inserted the row; a request repeated after a lost reply finds its
\* own row.  A refusal is not retryable.
PersistCanonical(c, e) ==
    /\ At(c, e, "turn") /\ HoldsTurn(c, e)
    /\ IF e \in Refused[Web]
       THEN Leave(c, e, "quarantine") /\ NoFault /\ UNCHANGED stored
       ELSE \/ /\ stored' = stored \cup {e}
               /\ IF e \in stored THEN Leave(c, e, "mark")
                                  ELSE Advance(c, e, "render")
               /\ NoFault
            \/ /\ Fault
               /\ stored' = stored \cup {e}
               /\ Leave(c, e, "mark")
    /\ UNCHANGED <<redisVars, rendered, shown, pass>>

\* Mutant: the error is logged and the entry acknowledged.
PersistErrorSwallowed(c, e) ==
    /\ At(c, e, "turn") /\ HoldsTurn(c, e)
    /\ Fault
    /\ Leave(c, e, "mark")
    /\ UNCHANGED <<redisVars, stored, rendered, shown, pass>>

\* The API committed the event, but its answer has no readable insert count:
\* an error that is not retryable.  The event is quarantined, unrendered.
PersistAnswerUnreadable(c, e) ==
    /\ At(c, e, "turn") /\ HoldsTurn(c, e)
    /\ e \notin Refused[Web] /\ Fault
    /\ stored' = stored \cup {e}
    /\ Leave(c, e, "quarantine")
    /\ UNCHANGED <<redisVars, rendered, shown, pass>>

\* The request fails for now, before or after the API committed it.
PersistCanonicalFails(c, e) ==
    /\ At(c, e, "turn") /\ HoldsTurn(c, e)
    /\ Fault
    /\ stored' \in {stored, stored \cup ({e} \ Refused[Web])}
    /\ Fail(c, {e})
    /\ UNCHANGED <<redisVars, rendered, shown, pass>>

\* routeCanonical: the live publication.  Also one that failed may have
\* reached the subscribers.
Render(c, e) ==
    LET publishedLive == [rendered EXCEPT ![e] = IF @ < 2 THEN @ + 1 ELSE 2]
    IN  /\ At(c, e, "render")
        /\ \/ rendered' = publishedLive /\ Leave(c, e, "mark") /\ NoFault
           \/ Fault /\ rendered' \in {rendered, publishedLive} /\ Fail(c, {e})
        /\ UNCHANGED <<redisVars, stored, shown, pass>>

\* The native events of one claim that wait for the next request.
Collected(c, j) == {e \in Entries : At(c, e, "collect") /\ JobOf[e] = j}

\* Mutant: a refused request condemns all its events.
FlushWithoutIsolation(c, j) ==
    LET S == Collected(c, j)
        after == IF S \cap Refused[Web] = {} THEN "mark" ELSE "quarantine"
    IN  /\ S # {}
        /\ stored' = IF after = "mark" THEN stored \cup S ELSE stored
        /\ stage' = [stage EXCEPT ![c] = [e \in Entries |->
                        IF e \in S THEN after ELSE @[e]]]
        /\ UNCHANGED <<redisVars, rendered, shown, mode, queue, page, ahead,
                       local, failed, pass, faults>>

\* The durable native collector: one request for all of them, accepted or
\* refused as a whole.  A refusal is isolated: each event is sent alone.
Flush(c, j) ==
    LET S == Collected(c, j)
        accepted == S \cap Refused[Web] = {}
        after == IF accepted THEN "mark"
                 ELSE IF \A d, e \in S : d = e THEN "quarantine" ELSE "single"
    IN  /\ S # {}
        /\ \/ /\ stored' = IF accepted THEN stored \cup S ELSE stored
              /\ stage' = [stage EXCEPT ![c] = [e \in Entries |->
                              IF e \in S THEN after ELSE @[e]]]
              /\ UNCHANGED <<mode, queue, page, ahead, local, failed>>
              /\ NoFault
           \/ /\ Fault
              /\ stored' \in {stored, IF accepted THEN stored \cup S ELSE stored}
              /\ Fail(c, S)
        /\ UNCHANGED <<redisVars, rendered, shown, pass>>

\* One event of a refused request, on its own.
PersistSingle(c, e) ==
    /\ At(c, e, "single")
    /\ IF e \in Refused[Web]
       THEN Advance(c, e, "quarantine") /\ NoFault /\ UNCHANGED stored
       ELSE \/ /\ stored' = stored \cup {e}
               /\ Advance(c, e, "mark")
               /\ NoFault
            \/ /\ Fault
               /\ stored' \in {stored, stored \cup {e}}
               /\ Fail(c, {e})
    /\ UNCHANGED <<redisVars, rendered, shown, pass>>
-----------------------------------------------------------------------------
(* The Discord bridge's handler. *)

\* Rendering and the job's status request run side by side; the first error
\* ends the handler and does not stop the other.
Show(c, e) ==
    /\ At(c, e, "show")
    /\ IF e \in Refused[Discord]
       THEN /\ shown' \in {shown, shown \cup {e}}
            /\ Advance(c, e, "quarantine")
            /\ NoFault
       ELSE \/ /\ shown' = shown \cup {e}
               /\ Advance(c, e, "mark")
               /\ NoFault
            \/ /\ Fault
               /\ shown' \in {shown, shown \cup {e}}
               /\ Fail(c, {e})
    /\ UNCHANGED <<redisVars, stored, rendered, pass>>
-----------------------------------------------------------------------------
(* The reader's acknowledgement, quarantine and recovery. *)

\* markProcessed.
Mark(c, e) ==
    LET g == GroupOf[c]
        set == [marked EXCEPT ![g] = @ \cup {e}]
    IN  /\ At(c, e, "mark")
        /\ \/ marked' = set /\ Advance(c, e, "ack") /\ NoFault
           \/ Fault /\ marked' \in {marked, set} /\ Fail(c, {e})
        /\ UNCHANGED <<published, native, trimmed, cursor, pending, deliveries, dead,
                       effectVars, pass>>

\* XACK.
Ack(c, e) ==
    LET g == GroupOf[c]
        acked == [pending EXCEPT ![g] = @ \ {e}]
    IN  /\ At(c, e, "ack")
        /\ \/ pending' = acked /\ Advance(c, e, "clear") /\ NoFault
           \/ Fault /\ pending' \in {pending, acked} /\ Fail(c, {e})
        /\ UNCHANGED <<published, native, trimmed, cursor, deliveries, marked, dead,
                       effectVars, pass>>

\* clearProcessed, best effort, then the bookkeeping of a success.
Clear(c, e) ==
    LET g == GroupOf[c]
    IN  /\ At(c, e, "clear")
        /\ \/ marked' = [marked EXCEPT ![g] = @ \ {e}] /\ NoFault
           \/ Fault /\ UNCHANGED marked
        /\ Finish(c, e)
        /\ UNCHANGED <<published, native, trimmed, cursor, pending, deliveries, dead,
                       effectVars, pass>>

\* Mutant: acknowledged, then the dead letter is lost.
QuarantineAcksOnly(c, e) ==
    /\ At(c, e, "quarantine")
    /\ pending' = [pending EXCEPT ![GroupOf[c]] = @ \ {e}]
    /\ Finish(c, e) /\ NoFault
    /\ UNCHANGED <<published, native, trimmed, cursor, deliveries, marked,
                   dead, effectVars, pass>>

\* moveToDlq: one Lua script writes the dead letter and acknowledges.
Quarantine(c, e) ==
    LET g == GroupOf[c]
        buried == [dead EXCEPT ![g] = @ \cup {e}]
        acked == [pending EXCEPT ![g] = @ \ {e}]
    IN  /\ At(c, e, "quarantine")
        /\ \/ dead' = buried /\ pending' = acked /\ Finish(c, e) /\ NoFault
           \/ /\ Fault
              /\ \/ dead' = buried /\ pending' = acked
                 \/ UNCHANGED <<dead, pending>>
              /\ Fail(c, {e})
        /\ UNCHANGED <<published, native, trimmed, cursor, deliveries, marked,
                       effectVars, pass>>

\* Mutant: what this process read is never recovered by it.
ReclaimableUnlessLocal(c, e) ==
    /\ e \in pending[GroupOf[c]]
    /\ At(c, e, "none")
    /\ e \notin local[c]

\* What recover leaves alone: an entry being worked on, and one that was
\* read by this process and waits its turn.
Reclaimable(c, e) ==
    /\ e \in pending[GroupOf[c]]
    /\ At(c, e, "none")
    /\ e \in local[c] => e \in failed[c]

\* recover: claim a pending entry, which counts as a delivery, and process it
\* or, when its deliveries are exhausted, quarantine it.  The delivery count
\* was read when the pass began, so it may be an earlier one.
Reclaim(c, e, seen) ==
    LET g == GroupOf[c]
        exhausted == seen >= MaxDeliveries
    IN  /\ mode[c] = "up" /\ Reclaimable(c, e)
        /\ deliveries' = [deliveries EXCEPT ![g][e] =
                             IF @ < MaxDeliveries THEN @ + 1 ELSE @]
        /\ Goto(c, e, IF exhausted THEN "quarantine" ELSE "check")
        /\ local' = IF exhausted THEN local
                    ELSE [local EXCEPT ![c] = @ \cup {e}]
        /\ UNCHANGED <<published, native, trimmed, cursor, pending, marked, dead,
                       effectVars, mode, queue, page, ahead, failed, pass,
                       faults>>

Recover(c, e) == \E seen \in 1 .. deliveries[GroupOf[c]][e] : Reclaim(c, e, seen)
RecoverNow(c, e) == Reclaim(c, e, deliveries[GroupOf[c]][e])
-----------------------------------------------------------------------------
(* The cleaner. *)

IsLeast(f, S) == f \in S /\ \A x \in S : f <= x

\* XINFO GROUPS: an idle group is done up to its last delivery; a group with
\* pending entries is asked next.
CleanBegin(c) ==
    LET busy == {g \in LiveGroups : pending[g] # {}}
        done == {cursor[g] : g \in LiveGroups \ busy} \cup {NumEntries + 1}
    IN  /\ mode[c] = "up" /\ pass[c] = NoPass
        /\ \E f \in 0 .. NumEntries + 1 :
            /\ IsLeast(f, done)
            /\ pass' = [pass EXCEPT ![c] = [todo |-> busy, frontier |-> f]]
        /\ UNCHANGED <<redisVars, effectVars, readerVars, faults>>

\* XPENDING of one group: its oldest pending entry, or give up.
CleanRead(c, g) ==
    /\ mode[c] = "up" /\ g \in pass[c].todo
    /\ \/ pending[g] = {} /\ pass' = [pass EXCEPT ![c] = NoPass]
       \/ /\ pending[g] # {}
          /\ \E f \in 0 .. NumEntries + 1 :
              /\ IsLeast(f, {pass[c].frontier} \cup pending[g])
              /\ pass' = [pass EXCEPT ![c] =
                            [todo |-> @.todo \ {g}, frontier |-> f]]
    /\ UNCHANGED <<redisVars, effectVars, readerVars, faults>>

\* Mutant: the frontier itself is trimmed.
CleanTrimInclusive(c) ==
    /\ mode[c] = "up" /\ pass[c].todo = {} /\ pass[c].frontier > 0
    /\ trimmed' = IF pass[c].frontier > trimmed
                  THEN pass[c].frontier ELSE trimmed
    /\ pass' = [pass EXCEPT ![c] = NoPass]
    /\ UNCHANGED <<published, native, cursor, pending, deliveries, marked, dead,
                   effectVars, readerVars, faults>>

\* XTRIM MINID: everything before the frontier goes.
CleanTrim(c) ==
    /\ mode[c] = "up" /\ pass[c].todo = {} /\ pass[c].frontier > 0
    /\ trimmed' = IF pass[c].frontier - 1 > trimmed
                  THEN pass[c].frontier - 1 ELSE trimmed
    /\ pass' = [pass EXCEPT ![c] = NoPass]
    /\ UNCHANGED <<published, native, cursor, pending, deliveries, marked, dead,
                   effectVars, readerVars, faults>>
-----------------------------------------------------------------------------
(* Faults of the processes and of Redis keys. *)

\* The process is gone, and what it kept in memory.
GoDown(c) ==
    /\ mode' = [mode EXCEPT ![c] = "down"]
    /\ queue' = [queue EXCEPT ![c] = {}]
    /\ page' = [page EXCEPT ![c] = {}]
    /\ stage' = [stage EXCEPT ![c] = [e \in Entries |-> "none"]]
    /\ ahead' = [ahead EXCEPT ![c] = [e \in Entries |-> {}]]
    /\ local' = [local EXCEPT ![c] = {}]
    /\ failed' = [failed EXCEPT ![c] = {}]
    /\ pass' = IF c \in Cleaners THEN [pass EXCEPT ![c] = NoPass] ELSE pass
    /\ UNCHANGED <<redisVars, effectVars>>

Crash(c) == mode[c] = "up" /\ Fault /\ GoDown(c)

Start(c) ==
    /\ mode[c] = "down"
    /\ mode' = [mode EXCEPT ![c] = "up"]
    /\ UNCHANGED <<redisVars, effectVars, queue, page, stage, ahead, local,
                   failed, pass, faults>>

\* The marker's time to live passed.
MarkerExpires(g, e) ==
    /\ e \in marked[g] /\ Fault
    /\ marked' = [marked EXCEPT ![g] = @ \ {e}]
    /\ UNCHANGED <<published, native, trimmed, cursor, pending, deliveries, dead,
                   effectVars, readerVars, pass>>
-----------------------------------------------------------------------------
EntryStep(c, e) ==
    \/ Check(c, e) \/ PersistCanonical(c, e) \/ PersistCanonicalFails(c, e)
    \/ PersistAnswerUnreadable(c, e)
    \/ Render(c, e) \/ PersistSingle(c, e) \/ Show(c, e)
    \/ Mark(c, e) \/ Ack(c, e) \/ Clear(c, e) \/ Quarantine(c, e)

ReaderStep(c) ==
    \/ Read(c) \/ Dispatch(c)
    \/ \E j \in {JobOf[e] : e \in Entries} : Flush(c, j)
    \/ \E e \in Entries : EntryStep(c, e)
    \/ Start(c)

CleanStep(c) ==
    CleanBegin(c) \/ (\E g \in Groups : CleanRead(c, g)) \/ CleanTrim(c)

StreamNext ==
    \/ Publish
    \/ \E c \in Consumers :
        ReaderStep(c) \/ (\E e \in Entries : Recover(c, e)) \/ Crash(c)
    \/ \E c \in Cleaners : CleanStep(c)
    \/ \E g \in Groups, e \in Entries : MarkerExpires(g, e)

StreamSpec == StreamInit /\ [][StreamNext]_vars

\* A steady process keeps running its loop and its recovery timer, and is
\* restarted; any other may stop for ever, in the middle of an entry or down.
\* Each step of c changes one of the variables that index its fairness.
FairStreamSpec ==
    /\ StreamSpec
    /\ \A c \in Steady :
        /\ WF_<<cursor, mode[c], queue[c], stage[c]>>(ReaderStep(c))
        /\ WF_<<stage[c]>>(\E e \in Entries : RecoverNow(c, e))
-----------------------------------------------------------------------------
(* Properties. *)

\* What the handler of a group is for has happened to the entry.
Effect(g, e) ==
    IF g = Web THEN e \in stored ELSE e \in native \/ e \in shown

\* "ACK follows persistence": an entry that left a group's pending list was
\* persisted (rendered, for Discord) or is in the dead-letter stream, whatever
\* reply was lost and whichever process died.
AckFollowsEffect ==
    \A g \in Groups, e \in Entries :
        Settled(g, e) => Effect(g, e) \/ e \in dead[g]

\* A redelivered durable event is not published to the user again: not after
\* a lost reply, a crash, or two processes working on one entry.
RenderedAtMostOnce == \A e \in Entries : rendered[e] <= 1

\* The cleaner trims only entries that are safe for every group, although it
\* reads the groups one after the other while they move.
TrimmedIsSettled ==
    \A e \in 1 .. trimmed, g \in LiveGroups : Settled(g, e)

\* The canonical events of one job that were dispatched together are rendered
\* in stream order, whatever the page concurrency.
RenderInPageOrder ==
    \A c \in Consumers : \A d, e \in page[c] \ native :
        (d < e /\ JobOf[d] = JobOf[e] /\ At(c, e, "render"))
            => stage[c][d] \notin {"check", "turn", "render"}

\* The turnstile never closes on everybody: while canonical events of a job
\* wait for their turn in a process, one of them has it, also after a handler
\* failed or an entry came back through recovery in the middle of the queue.
SomebodyHoldsTurn ==
    \A c \in Consumers, e \in Entries :
        At(c, e, "turn") => \E d \in AtTurnstile(c, JobOf[e]) : HoldsTurn(c, d)

\* A process never locks itself out of an entry: what is pending in its group
\* and neither queued nor worked on by it, it may recover, although recovery
\* passes over what the process has read and is still to process.
IdleIsReclaimable ==
    \A c \in Consumers : \A e \in pending[GroupOf[c]] :
        At(c, e, "none") /\ e \notin queue[c] => Reclaimable(c, e)

\* An event is lost for its own sake only: a dead letter was refused itself or
\* ran out of deliveries, not because it shared a request with a refused one.
\* The one other way into the dead-letter stream, an answer of the API that
\* cannot be read, costs the event its live publication, never its row.
LossIsEarned ==
    \A g \in Groups : \A e \in dead[g] :
        \/ e \in Refused[g]
        \/ deliveries[g][e] = MaxDeliveries
        \/ g = Web /\ e \in stored

\* No entry is stranded: again and again every live group is done with every
\* published entry, whatever was lost, refused or interrupted before.
EntriesSettle ==
    []<>(\A g \in LiveGroups, e \in 1 .. published : Settled(g, e))

\* The stream implements the delivery it promises.
Promise == INSTANCE EventDelivery WITH
    Events <- Entries, Readers <- Groups, Persisting <- Web,
    sent <- published,
    effect <- [g \in Groups |-> {e \in Entries : Effect(g, e)}],
    buried <- dead,
    settled <- [g \in Groups |-> {e \in Entries : Settled(g, e)}],
    live <- rendered, gone <- trimmed, present <- LiveGroups
DeliverySpec == Promise!DeliverySpec
=============================================================================
