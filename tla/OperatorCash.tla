---------------------------- MODULE OperatorCash ----------------------------
(***************************************************************************)
(* The cash float of the staff: backend/src/operator-cash.                 *)
(*                                                                         *)
(* Every operator owns a list of signed entries; the balance is always the *)
(* SUM over that list, never a stored number.  Three operations add        *)
(* entries: deposit, endShift and debitForDriverCashOut (called by the     *)
(* ledger inside its own database transaction).  Each one runs in a        *)
(* READ COMMITTED transaction whose statements interleave with those of    *)
(* other requests; pg_advisory_xact_lock on the operator is all that keeps *)
(* the balance that was checked current until the entry is committed.      *)
(*                                                                         *)
(* The committed entries of an operator are abstracted to their sum        *)
(* (cash), the uncommitted ones of a transaction to its wrote function.    *)
(***************************************************************************)
EXTENDS Integers

CONSTANTS Operators,     \* staff accounts, numbered in the order sort() gives their ids
          Requests,      \* HTTP requests that may be in flight at once
          Keys,          \* advisory lock keys
          KeyOf,         \* hashtext('opcash:' + id), per operator
          Amounts,       \* sums typed by the staff
          MaxDeposited,  \* bound: cash ever paid in, so that runs are finite
          NoRequest      \* holder of a free lock

ASSUME OperatorsAssumption == Operators \subseteq Nat
ASSUME KeysAssumption == KeyOf \in [Operators -> Keys]
ASSUME AmountsAssumption == Amounts \subseteq Nat
ASSUME BoundAssumption == MaxDeposited \in Nat
ASSUME NoRequestAssumption == NoRequest \notin Requests

VARIABLES cash,       \* committed balance of each operator
          active,     \* User.isActive
          holder,     \* who holds each advisory lock
          step,       \* the next statement of each request
          job,        \* what the request was asked to do
          seen,       \* the balance the request read
          wrote,      \* its uncommitted entries, summed per operator
          deposited,  \* history: cash paid in by committed deposits
          paidOut     \* history: cash handed to drivers

vars == <<cash, active, holder, step, job, seen, wrote, deposited, paidOut>>

-----------------------------------------------------------------------------
Kinds == {"deposit", "cashOut", "endShift"}
Steps == {"idle", "lock", "lockSecond", "peer", "read", "insert", "insertIn",
          "recheck", "commit"}
Jobs  == [kind : Kinds, op : Operators, peer : Operators, amount : Amounts]
NoJob == [kind |-> "none"]

NothingWritten == [o \in Operators |-> 0]

TypeOK ==
    /\ cash \in [Operators -> Int]
    /\ active \in [Operators -> BOOLEAN]
    /\ holder \in [Keys -> Requests \cup {NoRequest}]
    /\ step \in [Requests -> Steps]
    /\ job \in [Requests -> Jobs \cup {NoJob}]
    /\ \A r \in Requests : step[r] # "idle" => job[r] \in Jobs
    /\ seen \in [Requests -> Int]
    /\ wrote \in [Requests -> [Operators -> Int]]
    /\ deposited \in Nat
    /\ paidOut \in Int

(* Mutant: endShift locks its caller first, whoever it hands over to.      *)
LockOrder_CallerFirst(j) == <<j.op, j.peer>>

(* endShift locks both parties in sorted order; the others lock one operator. *)
LockOrder(j) == IF j.kind = "endShift" /\ j.peer < j.op THEN <<j.peer, j.op>> ELSE <<j.op, j.peer>>

FirstLock(j)  == KeyOf[LockOrder(j)[1]]
SecondLock(j) == KeyOf[LockOrder(j)[2]]

(* What getBalance returns inside a transaction: committed rows and its own. *)
Balance(r, o) == cash[o] + wrote[r][o]

Init ==
    /\ cash = [o \in Operators |-> 0]
    /\ active = [o \in Operators |-> TRUE]
    /\ holder = [k \in Keys |-> NoRequest]
    /\ step = [r \in Requests |-> "idle"]
    /\ job = [r \in Requests |-> NoJob]
    /\ seen = [r \in Requests |-> 0]
    /\ wrote = [r \in Requests |-> NothingWritten]
    /\ deposited = 0
    /\ paidOut = 0

-----------------------------------------------------------------------------
(* A request passes the checks made before its transaction and opens it.   *)
Begin(r, j) ==
    /\ step[r] = "idle"
    /\ step' = [step EXCEPT ![r] = "lock"]
    /\ job' = [job EXCEPT ![r] = j]
    /\ UNCHANGED <<cash, active, holder, seen, wrote, deposited, paidOut>>

BeginDeposit(r, o, a) ==
    /\ a > 0
    /\ deposited + a <= MaxDeposited
    /\ Begin(r, [kind |-> "deposit", op |-> o, peer |-> o, amount |-> a])

BeginCashOut(r, o, a) ==
    /\ a > 0
    /\ Begin(r, [kind |-> "cashOut", op |-> o, peer |-> o, amount |-> a])

BeginEndShift(r, from, to, confirm) ==
    /\ from # to
    /\ confirm > 0
    /\ Begin(r, [kind |-> "endShift", op |-> from, peer |-> to, amount |-> confirm])

-----------------------------------------------------------------------------
Goto(r, s) == step' = [step EXCEPT ![r] = s]

(* Mutant: the lock is asked for outside the transaction and lost at once. *)
Acquire_NotHeld(r, k) ==
    /\ holder[k] \in {NoRequest, r}
    /\ UNCHANGED <<cash, active, holder, job, seen, wrote, deposited, paidOut>>

(* A session may take a lock it already holds (two ids, one hash).         *)
Acquire(r, k) ==
    /\ holder[k] \in {NoRequest, r}
    /\ holder' = [holder EXCEPT ![k] = r]
    /\ UNCHANGED <<cash, active, job, seen, wrote, deposited, paidOut>>

Lock(r) ==
    /\ step[r] = "lock"
    /\ Acquire(r, FirstLock(job[r]))
    /\ Goto(r, CASE job[r].kind = "deposit"  -> "insert"
                 [] job[r].kind = "cashOut"  -> "read"
                 [] job[r].kind = "endShift" -> "lockSecond")

(* Mutant: endShift locks its caller only when the caller sorts first.     *)
LockSecond_Skipped(r) ==
    /\ step[r] = "lockSecond"
    /\ Goto(r, "peer")
    /\ UNCHANGED <<cash, active, holder, job, seen, wrote, deposited, paidOut>>

LockSecond(r) ==
    /\ step[r] = "lockSecond"
    /\ Acquire(r, SecondLock(job[r]))
    /\ Goto(r, "peer")

(* endShift: the recipient must be an active operator.                     *)
CheckPeer(r) ==
    /\ step[r] = "peer"
    /\ active[job[r].peer]
    /\ Goto(r, "read")
    /\ UNCHANGED <<cash, active, holder, job, seen, wrote, deposited, paidOut>>

(* Mutant: a cash-out is not compared with the balance.                    *)
Sufficient_NotCovered(j, balance) ==
    \/ j.kind = "cashOut"
    \/ j.kind = "endShift" /\ balance > 0 /\ balance = j.amount

(* Mutant: the confirmed sum is not compared with the balance.             *)
Sufficient_NotConfirmed(j, balance) ==
    \/ j.kind = "cashOut" /\ balance >= j.amount
    \/ j.kind = "endShift" /\ balance > 0

(* The balance a request reads allows it to go on: a cash-out must be      *)
(* covered, a handover must be confirmed with the exact, positive balance. *)
Sufficient(j, balance) ==
    \/ j.kind = "cashOut" /\ balance >= j.amount
    \/ j.kind = "endShift" /\ balance > 0 /\ balance = j.amount

ReadBalance(r) ==
    /\ step[r] = "read"
    /\ Sufficient(job[r], Balance(r, job[r].op))
    /\ seen' = [seen EXCEPT ![r] = Balance(r, job[r].op)]
    /\ Goto(r, "insert")
    /\ UNCHANGED <<cash, active, holder, job, wrote, deposited, paidOut>>

(* The amount of the entry inserted for the operator of the request.       *)
EntryOf(r) == CASE job[r].kind = "deposit"  -> job[r].amount
                [] job[r].kind = "cashOut"  -> -job[r].amount
                [] job[r].kind = "endShift" -> -seen[r]

AddEntry(r, o, a) == wrote' = [wrote EXCEPT ![r][o] = @ + a]

Insert(r) ==
    /\ step[r] = "insert"
    /\ AddEntry(r, job[r].op, EntryOf(r))
    /\ Goto(r, IF job[r].kind = "endShift" THEN "insertIn" ELSE "commit")
    /\ UNCHANGED <<cash, active, holder, job, seen, deposited, paidOut>>

(* endShift: the paired SHIFT_TRANSFER_IN entry of the recipient.          *)
InsertIn(r) ==
    /\ step[r] = "insertIn"
    /\ AddEntry(r, job[r].peer, seen[r])
    /\ Goto(r, "recheck")
    /\ UNCHANGED <<cash, active, holder, job, seen, deposited, paidOut>>

(* endShift: the sender must end at zero.                                  *)
Recheck(r) ==
    /\ step[r] = "recheck"
    /\ Balance(r, job[r].op) = 0
    /\ Goto(r, "commit")
    /\ UNCHANGED <<cash, active, holder, job, seen, wrote, deposited, paidOut>>

-----------------------------------------------------------------------------
(* Mutant: session-level locks, kept when the transaction ends.            *)
End_LocksKept(r) ==
    /\ step' = [step EXCEPT ![r] = "idle"]
    /\ wrote' = [wrote EXCEPT ![r] = NothingWritten]
    /\ seen' = [seen EXCEPT ![r] = 0]
    /\ job' = [job EXCEPT ![r] = NoJob]
    /\ UNCHANGED <<active, holder>>

(* The end of a transaction drops its locks, whether it commits or not.    *)
End(r) ==
    /\ step' = [step EXCEPT ![r] = "idle"]
    /\ wrote' = [wrote EXCEPT ![r] = NothingWritten]
    /\ seen' = [seen EXCEPT ![r] = 0]
    /\ holder' = [k \in Keys |-> IF holder[k] = r THEN NoRequest ELSE holder[k]]
    /\ job' = [job EXCEPT ![r] = NoJob]
    /\ UNCHANGED active

Commit(r) ==
    /\ step[r] = "commit"
    /\ cash' = [o \in Operators |-> cash[o] + wrote[r][o]]
    /\ deposited' = IF job[r].kind = "deposit" THEN deposited + job[r].amount ELSE deposited
    /\ paidOut' = IF job[r].kind = "cashOut" THEN paidOut + job[r].amount ELSE paidOut
    /\ End(r)

(* A check inside the transaction throws, and the transaction rolls back.  *)
Refuse(r) ==
    /\ \/ step[r] = "peer" /\ ~active[job[r].peer]
       \/ step[r] = "read" /\ ~Sufficient(job[r], Balance(r, job[r].op))
       \/ step[r] = "recheck" /\ Balance(r, job[r].op) # 0
    /\ End(r)
    /\ UNCHANGED <<cash, deposited, paidOut>>

(* The interactive transaction times out, or the connection or the server  *)
(* is lost, at any statement: the database rolls back.                     *)
Expire(r) ==
    /\ step[r] # "idle"
    /\ End(r)
    /\ UNCHANGED <<cash, deposited, paidOut>>

(* UsersService.setActive takes no lock.                                   *)
SetActive(o, isActive) ==
    /\ active' = [active EXCEPT ![o] = isActive]
    /\ UNCHANGED <<cash, holder, step, job, seen, wrote, deposited, paidOut>>

-----------------------------------------------------------------------------
(* The statements a request executes on its own once it has begun.         *)
Proceed(r) ==
    \/ Lock(r) \/ LockSecond(r) \/ CheckPeer(r) \/ ReadBalance(r)
    \/ Insert(r) \/ InsertIn(r) \/ Recheck(r) \/ Commit(r) \/ Refuse(r)

Next ==
    \/ \E r \in Requests, o \in Operators, a \in Amounts :
          \/ BeginDeposit(r, o, a)
          \/ BeginCashOut(r, o, a)
          \/ \E to \in Operators : BeginEndShift(r, o, to, a)
    \/ \E r \in Requests : Proceed(r) \/ Expire(r)
    \/ \E o \in Operators, b \in BOOLEAN : SetActive(o, b)

Spec == Init /\ [][Next]_vars

(* A statement is executed unless the request waits for a lock; the lock   *)
(* queue of the database serves a waiting session in turn.                 *)
Fairness == \A r \in Requests : WF_vars(Proceed(r)) /\ SF_vars(Lock(r) \/ LockSecond(r))
FairSpec == Spec /\ Fairness

-----------------------------------------------------------------------------
(* The balance an operator is told never goes below zero: two cash-outs    *)
(* checked against the same balance would both pass (debitForDriverCashOut *)
(* checks, then inserts).                                                  *)
NonNegative == \A o \in Operators : cash[o] >= 0

(* From the moment a request has checked the balance until it commits, the *)
(* balance it checked is the committed one, though other requests commit   *)
(* in between and endShift credits operators who are not its caller.       *)
PastRead(r) ==
    /\ step[r] \in {"insert", "insertIn", "recheck", "commit"}
    /\ job[r].kind \in {"cashOut", "endShift"}

CheckedBalanceIsCurrent ==
    \A r \in Requests : PastRead(r) => seen[r] = cash[job[r].op]

(* What an operator is shown can be relied on: both.                       *)
BooksSound == NonNegative /\ CheckedBalanceIsCurrent

(* A committed handover empties the sender, moves exactly the sum the      *)
(* sender confirmed on the screen, and credits the recipient with all of   *)
(* it, whatever was committed since the sender looked.                     *)
HandedOver(r) ==
    /\ cash[job[r].op] = job[r].amount
    /\ cash'[job[r].op] = 0
    /\ cash'[job[r].peer] = cash[job[r].peer] + job[r].amount

HandoverAsConfirmed ==
    [][\A r \in Requests : Commit(r) /\ job[r].kind = "endShift" => HandedOver(r)]_vars

(* A request whose transaction is open ends: it is never starved of a lock *)
(* by the requests that keep coming.                                       *)
RequestsEnd == \A r \in Requests : step[r] # "idle" ~> step[r] = "idle"

(* Seen from outside, a committed request is one atomic step of the cash   *)
(* float, and no entry is lost or invented: the drawers grow by what is    *)
(* deposited, shrink by what is paid out, and a handover changes neither.  *)
Float == INSTANCE CashFloat WITH float <- cash, paidIn <- deposited, paidOut <- paidOut
ImplementsCashFloat == Float!Spec
=============================================================================
