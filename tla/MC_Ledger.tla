------------------------------ MODULE MC_Ledger ------------------------------
(* Small instances of Ledger.                                              *)
EXTENDS Ledger, TLC

CONSTANTS r1, r2, d1, d2, o1, o2, p1

(* Stamp 1 is of the first driver, stamp 2 of the second.                  *)
OddsAndEvens == [s \in Stamps |-> IF s = 1 THEN d1 ELSE d2]
FirstDriver == [s \in Stamps |-> d1]
OneEach   == [s \in Stamps |-> 1]
UnitPrice == [p \in Products |-> 1]
TwoLeft   == [p \in Products |-> 2]

(* Bound: cash, goods and adjustments share no table; a history is        *)
(* followed further only while it has touched one of the three.            *)
OneTrade ==
    LET paidIn   == deposited > 0
        sold     == stock # InitialStock
        adjusted == \E d \in Drivers : sum[d]["MANUAL_ADJUSTMENT"] # 0
    IN Cardinality({t \in {<<"cash", paidIn>>, <<"goods", sold>>, <<"adjust", adjusted>>} : t[2]}) <= 1

Symmetric == Permutations(Requests) \cup Permutations(Operators)
=============================================================================
