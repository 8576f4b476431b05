--------------------------- MODULE EventDelivery ---------------------------
(***************************************************************************)
(* What the event stream promises to the groups that read it: an event is  *)
(* settled for a group only after the group's effect on it or as a dead    *)
(* letter, it is published live at most once and only when persisted, and  *)
(* it leaves the stream only when every group is done with it.             *)
(***************************************************************************)
EXTENDS Naturals

CONSTANTS
    Events, Readers,
    Persisting  \* the reader whose effect is the database row

VARIABLES
    sent,     \* the number of events sent
    effect,   \* effect[r]: the events reader r has had its effect on
    buried,   \* buried[r]: its dead letters
    settled,  \* settled[r]: the events it is done with
    live,     \* live[e]: times published live
    gone,     \* events 1 .. gone left the stream
    present   \* the readers that exist

deliveryVars == <<sent, effect, buried, settled, live, gone, present>>

DeliveryInit ==
    /\ sent = 0 /\ gone = 0
    /\ effect = [r \in Readers |-> {}]
    /\ buried = [r \in Readers |-> {}]
    /\ settled = [r \in Readers |-> {}]
    /\ live = [e \in Events |-> 0]
    /\ present \subseteq Readers

\* Some readers, never the persisting one, have nothing to do with an event.
Send ==
    /\ sent + 1 \in Events
    /\ sent' = sent + 1
    /\ \E R \in SUBSET (Readers \ {Persisting}) :
        effect' = [r \in Readers |->
                     IF r \in R THEN effect[r] \cup {sent + 1} ELSE effect[r]]
    /\ UNCHANGED <<buried, settled, live, gone, present>>

\* The effect on some events: it may repeat, and come after they are settled.
Perform(r) ==
    /\ \E S \in SUBSET Events :
        effect' = [effect EXCEPT ![r] = @ \cup S]
    /\ UNCHANGED <<sent, buried, settled, live, gone, present>>

GoLive(e) ==
    /\ live[e] = 0 /\ e \in effect[Persisting]
    /\ live' = [live EXCEPT ![e] = 1]
    /\ UNCHANGED <<sent, effect, buried, settled, gone, present>>

Settle(r, e) ==
    /\ e <= sent /\ e \in effect[r]
    /\ settled' = [settled EXCEPT ![r] = @ \cup {e}]
    /\ UNCHANGED <<sent, effect, buried, live, gone, present>>

Bury(r, e) ==
    /\ e <= sent
    /\ buried' = [buried EXCEPT ![r] = @ \cup {e}]
    /\ settled' = [settled EXCEPT ![r] = @ \cup {e}]
    /\ UNCHANGED <<sent, effect, live, gone, present>>

Drop ==
    /\ gone' \in Nat /\ gone' > gone
    /\ \A r \in present : 1 .. gone' \subseteq settled[r]
    /\ UNCHANGED <<sent, effect, buried, settled, live, present>>

DeliveryNext ==
    \/ Send \/ Drop
    \/ \E r \in Readers : Perform(r)
    \/ \E e \in Events : GoLive(e)
    \/ \E r \in Readers, e \in Events : Settle(r, e) \/ Bury(r, e)

DeliverySpec == DeliveryInit /\ [][DeliveryNext]_deliveryVars
=============================================================================
