-------------------------- MODULE MCSharedIrqLine --------------------------
(* Instances of SharedIrqLine, with an int of 4 bits and a word of 8. *)
EXTENDS SharedIrqLine

CONSTANT t1 \* the notification thread

(* Every source an int has a bit for, the sign among them, and one too many. *)
IntSources == [t \in {t1} |-> {0, 1, 2, 3, 8}]
=============================================================================
