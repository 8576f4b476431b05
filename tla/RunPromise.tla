----------------------------- MODULE RunPromise -----------------------------
(***************************************************************************)
(* What scheduled agents promise to those who read their runs: the work of *)
(* an occurrence is reserved, begun and ended once; it gets one answer, an *)
(* output or, where an output is awaited and the work is over, a failure;  *)
(* its verdict is given once and agrees with both; and what became of the  *)
(* answer at its receiver is settled once, as delivered only if the        *)
(* receiver took it.                                                       *)
(***************************************************************************)
CONSTANTS
    Occurrences,
    Outputs,  \* what an agent may answer
    Failure,  \* the answer given in its place
    Absent

VARIABLES
    awaited,  \* every occurrence owes an answer
    work,     \* work[k]: how far the work on it is
    answer,   \* answer[k]: an output, Failure or Absent
    verdict,  \* verdict[k]: what its readers are told
    taken,    \* the answers their receiver took
    fate      \* fate[k]: what became of the answer

promiseVars == <<awaited, work, answer, verdict, taken, fate>>

Over == {"completed", "failed", "cancelled"}

PromiseInit ==
    /\ awaited \in BOOLEAN
    /\ work = [k \in Occurrences |-> "none"]
    /\ answer = [k \in Occurrences |-> Absent]
    /\ verdict = [k \in Occurrences |-> "open"]
    /\ taken = {}
    /\ fate = [k \in Occurrences |-> "open"]

\* The work moves on.
Advance(k, from, to) ==
    /\ work[k] = from
    /\ work' = [work EXCEPT ![k] = to]
    /\ UNCHANGED <<awaited, answer, verdict, taken, fate>>

Book(k) == Advance(k, "none", "reserved")
Begin(k) == Advance(k, "reserved", "active")
End(k) == \E how \in Over : Advance(k, "active", how)

\* The first answer stands, also one that comes after the end of the work.
Reply(k) ==
    /\ answer[k] = Absent
    /\ \/ /\ work[k] \in {"active"} \cup Over
          /\ \E o \in Outputs : answer' = [answer EXCEPT ![k] = o]
       \/ /\ awaited /\ work[k] \in Over
          /\ answer' = [answer EXCEPT ![k] = Failure]
    /\ UNCHANGED <<awaited, work, verdict, taken, fate>>

\* Success takes the answer that is awaited.
Verdict(k) ==
    IF work[k] = "completed" /\ answer[k] = Failure THEN "failed" ELSE work[k]

Conclude(k) ==
    /\ verdict[k] = "open" /\ work[k] \in Over
    /\ (work[k] = "completed" /\ awaited) => answer[k] # Absent
    /\ verdict' = [verdict EXCEPT ![k] = Verdict(k)]
    /\ UNCHANGED <<awaited, work, answer, taken, fate>>

Take(k) ==
    /\ answer[k] # Absent
    /\ taken' = taken \cup {k}
    /\ UNCHANGED <<awaited, work, answer, verdict, fate>>

Settle(k) ==
    /\ fate[k] = "open" /\ answer[k] # Absent
    /\ \/ fate' = [fate EXCEPT ![k] = "dead_letter"]
       \/ k \in taken /\ fate' = [fate EXCEPT ![k] = "delivered"]
    /\ UNCHANGED <<awaited, work, answer, verdict, taken>>

PromiseNext ==
    \E k \in Occurrences :
        \/ Book(k) \/ Begin(k) \/ End(k) \/ Reply(k) \/ Conclude(k)
        \/ Take(k) \/ Settle(k)

PromiseSpec == PromiseInit /\ [][PromiseNext]_promiseVars
=============================================================================
