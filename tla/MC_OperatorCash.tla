--------------------------- MODULE MC_OperatorCash ---------------------------
(* A small instance of OperatorCash.                                       *)
EXTENDS OperatorCash

CONSTANTS r1, r2

(* No two operators share a lock.                                          *)
OwnKey == [o \in Operators |-> o]
=============================================================================
