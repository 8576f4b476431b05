------------------------ MODULE SequenceReservation ------------------------
(***************************************************************************)
(* The arithmetic of a claim's durable sequence reservations and the rule  *)
(* that authorizes one sequence number under a receipt: the pure functions *)
(* of claim-sequence-receipt-repository.ts.  A reservation is a range      *)
(* start..end of one channel; it grows by whole blocks and never past the  *)
(* largest value of the int column the sequence numbers are stored in.     *)
(***************************************************************************)
EXTENDS Integers

CONSTANTS
    MaxSeq,  \* MAX_DURABLE_SEQUENCE, 2147483647 in the code
    Block    \* SEQUENCE_RESERVATION_BLOCK_SIZE, 4096 in the code

ASSUME MaxSeqAssumption == MaxSeq \in Nat \ {0}
ASSUME BlockAssumption == Block \in Nat \ {0}

\* A receipt that has no producer high-water mark yet (a null column).
NoMark == -1

BlocksFor(missing) == (missing + Block - 1) \div Block

(* The end of a reservation that ends at currentEnd once it has to cover    *)
(* requiredThrough.                                                         *)
ReservationEnd(currentEnd, requiredThrough) ==
    IF requiredThrough <= currentEnd
    THEN currentEnd
    ELSE LET grown == currentEnd + BlocksFor(requiredThrough - currentEnd) * Block
         IN  IF grown < MaxSeq THEN grown ELSE MaxSeq

(* Whether sequence may be persisted under a receipt in the given state,    *)
(* with the range first..last and the mark its producer has declared.       *)
SequenceAuthorized(state, first, last, mark, isCurrent, sequence) ==
    /\ sequence \in first .. last
    /\ \/ state = "active" /\ isCurrent
       \/ state = "crashed"
       \/ /\ mark # NoMark /\ sequence <= mark
          /\ \/ state \in {"draining", "ready"} /\ isCurrent
             \/ state \in {"released", "terminal"}

\* Mutant: the last number emitted is not expected.
ExpectedCountOffByOne(first, mark) == mark - first

(* How many rows a producer that emitted first..mark must have persisted.   *)
ExpectedInsertedCount(first, mark) == mark - first + 1
=============================================================================
