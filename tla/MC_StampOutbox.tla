--------------------------- MODULE MC_StampOutbox ---------------------------
(* StampOutbox on a small instance: two persons, so that the events of one *)
(* may push those of the other out of the page and of the queue.           *)
EXTENDS StampOutbox, TLC
CONSTANTS p1, p2
MCPersons == {p1, p2}
MCFace == <<p1, p1, p2>>
=============================================================================
