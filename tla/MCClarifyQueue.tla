--------------------------- MODULE MCClarifyQueue ---------------------------
(* Instances of the clarify queue for TLC. *)
EXTENDS ClarifyQueue

CONSTANTS c1, c2, c3, p1

\* A turn with two questions, and another turn of the session with one.
TwoAndOne == [c \in {c1, c2, c3} |-> IF c = c2 THEN c1 ELSE None]
=============================================================================
