----------------------------- MODULE CashFloat -----------------------------
(***************************************************************************)
(* What the cash float promises: each operator has a sum of money, every   *)
(* operation changes it in one indivisible step that never takes more than *)
(* is there, and only money that comes in or goes out changes the whole:   *)
(* a handover neither loses nor makes any.                                 *)
(***************************************************************************)
EXTENDS Integers

CONSTANTS Operators, Amounts
VARIABLES float,     \* the sum of money each operator has
          paidIn,    \* all that was ever deposited
          paidOut    \* all that was ever handed to drivers

vars == <<float, paidIn, paidOut>>

Init ==
    /\ float = [o \in Operators |-> 0]
    /\ paidIn = 0
    /\ paidOut = 0

Deposit(o, a) ==
    /\ a > 0
    /\ float' = [float EXCEPT ![o] = @ + a]
    /\ paidIn' = paidIn + a
    /\ UNCHANGED paidOut

PayOut(o, a) ==
    /\ a > 0
    /\ float[o] >= a
    /\ float' = [float EXCEPT ![o] = @ - a]
    /\ paidOut' = paidOut + a
    /\ UNCHANGED paidIn

(* The whole balance changes hands.                                        *)
HandOver(from, to) ==
    /\ from # to
    /\ float[from] > 0
    /\ float' = [float EXCEPT ![from] = 0, ![to] = @ + float[from]]
    /\ UNCHANGED <<paidIn, paidOut>>

Next ==
    \E o \in Operators :
       \/ \E a \in Amounts : Deposit(o, a) \/ PayOut(o, a)
       \/ \E p \in Operators : HandOver(o, p)

Spec == Init /\ [][Next]_vars
=============================================================================
