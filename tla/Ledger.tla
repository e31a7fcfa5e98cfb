------------------------------- MODULE Ledger -------------------------------
(***************************************************************************)
(* The drivers' ledger: backend/src/ledger/ledger.service.ts.              *)
(*                                                                         *)
(* Transactions are only ever inserted; a driver's balance is the SUM over *)
(* his rows, kept here per row type (sum).  A redeemed pechat keeps its    *)
(* STAMP row, marked redeemed, and a STAMP_REDEMPTION row with the         *)
(* opposite amount is inserted.  Advances and redemptions paid in cash     *)
(* debit the operator's cash in the same database transaction.             *)
(*                                                                         *)
(* Requests interleave statement by statement under READ COMMITTED: a read *)
(* sees what is committed, an UPDATE waits for the row locks of other      *)
(* transactions and then looks at the row again.  Statements that touch    *)
(* nothing shared (INSERT of a row, audit) belong to a neighbouring step.  *)
(* The other users of the operators' cash are represented by the atomic    *)
(* steps of CashFloat, which OperatorCash implements.                      *)
(***************************************************************************)
EXTENDS Integers, Sequences, FiniteSets, Functions

CONSTANTS Drivers, Operators, Products,
          Stamps,         \* STAMP rows, numbered in the order of createdAt
          Owner,          \* the driver of each stamp
          Worth,          \* the amount of each stamp
          Price,          \* Product.unitPrice
          InitialStock,   \* Product.stockQty at creation
          Requests,       \* HTTP requests that may be in flight at once
          Operations,     \* the endpoints that are called
          Amounts,        \* sums, counts and quantities typed by the staff
          Deletable,      \* bound: drivers that may be deleted
          MaxDeposited,   \* bound: cash ever paid in
          MaxAdjusted,    \* bound: net manual adjustment of a driver
          NoRequest       \* holder of a free lock

ASSUME StampsAssumption == Stamps \subseteq Nat /\ Owner \in [Stamps -> Drivers]
ASSUME WorthAssumption == Worth \in [Stamps -> Nat \ {0}]
ASSUME ProductsAssumption == Price \in [Products -> Nat] /\ InitialStock \in [Products -> Nat]
ASSUME AmountsAssumption == Amounts \subseteq Nat \ {0}
ASSUME BoundsAssumption == Deletable \subseteq Drivers /\ MaxDeposited \in Nat /\ MaxAdjusted \in Nat
ASSUME FiniteAssumption == IsFiniteSet(Drivers) /\ IsFiniteSet(Products) /\ IsFiniteSet(Stamps)
ASSUME NoRequestAssumption == NoRequest \notin Requests

VARIABLES status,       \* Driver.status
          deleted,      \* drivers with deletedAt set
          sum,          \* committed rows of each driver, summed per type
          issued,       \* the STAMP rows there are
          redeemed,     \* those with redeemedAt set
          redemptions,  \* the STAMP_REDEMPTION rows, in commit order
          stock,        \* Product.stockQty
          sellable,     \* Product.isActive
          cash,         \* the operators' cash float
          deposited,    \* history: cash paid in
          locks,        \* who holds each row or advisory lock
          step,         \* the next statement of each request
          job,          \* what each request was asked to do
          picked,       \* stamps it has read
          visited,      \* those of them its UPDATE has reached
          marked,       \* those it has marked, not yet committed
          todo,         \* resetAllDriversStamps: drivers still to do
          failed,       \* resetAllDriversStamps: failedDrivers
          owed          \* history: stamps outstanding when the reset began

tables  == <<status, deleted, sum, issued, redeemed, redemptions, stock, sellable, cash, deposited>>
private == <<job, picked, visited, marked, todo, failed, owed>>
vars    == <<tables, locks, step, private>>

-----------------------------------------------------------------------------
NoDrawer == "none"
AllOperations == {"advance", "goods", "adjust", "redeem", "redeemAll", "reset"}
Types == {"STAMP", "CASH_ADVANCE", "GOODS_EXCHANGE", "MANUAL_ADJUSTMENT", "STAMP_REDEMPTION"}
Steps == {"idle", "count", "check", "product", "decrement", "pick", "mark", "cashLock",
          "cashRead", "commit", "next"}

StampRow(s)   == <<"stamp", s>>
ProductRow(p) == <<"product", p>>
CashLock(o)   == <<"opcash", o>>
Lockable == {StampRow(s) : s \in Stamps} \cup {ProductRow(p) : p \in Products}
              \cup {CashLock(o) : o \in Operators}

(* amount is a sum of money, a quantity or a number of stamps; op is whose *)
(* cash the request pays out of, if it pays.                               *)
Drawers(k, how) ==
    IF k = "advance" \/ (k \in {"redeem", "redeemAll"} /\ how = "CASH")
    THEN Operators ELSE {NoDrawer}

Jobs == [kind : AllOperations, driver : Drivers, op : Operators \cup {NoDrawer}, product : Products,
         amount : Int, pay : {"CASH", "OTHER"}]
NoJob == [kind |-> "none"]

Outstanding(d) == {s \in issued \ redeemed : Owner[s] = d}
WorthOf(S) == SumFunctionOnSet(Worth, S)

(* Mutant: ORDER BY createdAt DESC.                                        *)
Oldest_Youngest(S, n) == {s \in S : Cardinality({t \in S : t > s}) < n}

(* The n smallest numbers of S: ORDER BY createdAt ASC, LIMIT n.           *)
Oldest(S, n) == {s \in S : Cardinality({t \in S : t < s}) < n}

TypeOK ==
    /\ status \in [Drivers -> {"ACTIVE", "PENDING", "BLOCKED"}] /\ deleted \subseteq Drivers
    /\ sum \in [Drivers -> [Types -> Int]]
    /\ issued \subseteq Stamps /\ redeemed \subseteq issued
    /\ redemptions \in Seq([driver : Drivers, pay : {"CASH", "OTHER"}, stamps : SUBSET Stamps])
    /\ stock \in [Products -> Nat]
    /\ sellable \in [Products -> BOOLEAN]
    /\ cash \in [Operators -> Nat] /\ deposited \in Nat
    /\ locks \in [Lockable -> Requests \cup {NoRequest}]
    /\ step \in [Requests -> Steps]
    /\ job \in [Requests -> Jobs \cup {NoJob}]
    /\ picked \in [Requests -> SUBSET Stamps] /\ visited \in [Requests -> SUBSET Stamps]
    /\ marked \in [Requests -> SUBSET Stamps]
    /\ todo \in [Requests -> SUBSET Drivers] /\ failed \in [Requests -> SUBSET Drivers]
    /\ owed \in [Requests -> SUBSET Stamps]

Init ==
    /\ status = [d \in Drivers |-> "ACTIVE"] /\ deleted = {}
    /\ sum = [d \in Drivers |-> [t \in Types |-> 0]]
    /\ issued = {} /\ redeemed = {} /\ redemptions = <<>>
    /\ stock = InitialStock
    /\ sellable = [p \in Products |-> TRUE]
    /\ cash = [o \in Operators |-> 0] /\ deposited = 0
    /\ locks = [l \in Lockable |-> NoRequest]
    /\ step = [r \in Requests |-> "idle"]
    /\ job = [r \in Requests |-> NoJob]
    /\ picked = [r \in Requests |-> {}] /\ visited = [r \in Requests |-> {}]
    /\ marked = [r \in Requests |-> {}]
    /\ todo = [r \in Requests |-> {}] /\ failed = [r \in Requests |-> {}]
    /\ owed = [r \in Requests |-> {}]

-----------------------------------------------------------------------------
(* A request arrives.                                                      *)
Begin(r, j, first) ==
    /\ step[r] = "idle"
    /\ step' = [step EXCEPT ![r] = first]
    /\ job' = [job EXCEPT ![r] = j]
    /\ UNCHANGED <<tables, locks, picked, visited, marked>>

BeginOne(r, j) ==
    /\ j.kind \in {"advance", "goods", "redeem"}
    /\ j.amount > 0
    /\ j.kind # "redeem" => j.pay = "CASH"
    /\ Begin(r, j, "check")
    /\ UNCHANGED <<todo, failed, owed>>

(* manualAdjustment: any sum but zero, in either direction.                *)
BeginAdjust(r, j) ==
    /\ j.kind = "adjust" /\ j.pay = "CASH"
    /\ sum[j.driver]["MANUAL_ADJUSTMENT"] + j.amount \in -MaxAdjusted .. MaxAdjusted
    /\ Begin(r, j, "check")
    /\ UNCHANGED <<todo, failed, owed>>

BeginRedeemAll(r, j) ==
    /\ j.kind = "redeemAll" /\ j.amount = 1
    /\ Begin(r, j, "count")
    /\ UNCHANGED <<todo, failed, owed>>

(* resetAllDriversStamps reads the list of the drivers that are not        *)
(* deleted, then loops over it; a deleted driver's pechats stay as they    *)
(* are.                                                                    *)
Resettable == Drivers \ deleted

BeginReset(r, j) ==
    /\ j.kind = "reset" /\ j.amount = 1 /\ j.pay = "OTHER"
    /\ j.driver = CHOOSE d \in Drivers : TRUE     \* replaced by NextDriver
    /\ Begin(r, j, "next")
    /\ todo' = [todo EXCEPT ![r] = Resettable]
    /\ owed' = [owed EXCEPT ![r] = {s \in issued \ redeemed : Owner[s] \notin deleted}]
    /\ UNCHANGED failed

-----------------------------------------------------------------------------
Goto(r, s) == step' = [step EXCEPT ![r] = s]
Free(l) == locks[l] = NoRequest

(* The end of a database transaction: its locks and its view are dropped.  *)
Close(r) ==
    /\ locks' = [l \in Lockable |-> IF locks[l] = r THEN NoRequest ELSE locks[l]]
    /\ picked' = [picked EXCEPT ![r] = {}]
    /\ visited' = [visited EXCEPT ![r] = {}]
    /\ marked' = [marked EXCEPT ![r] = {}]

(* The request is answered; a reset goes on with its next driver.          *)
Answer(r) ==
    IF job[r].kind = "reset"
    THEN Goto(r, "next") /\ UNCHANGED job
    ELSE Goto(r, "idle") /\ job' = [job EXCEPT ![r] = NoJob]

(* Mutant: the loop's catch does not record the driver.                    *)
Fail_Swallowed(r) ==
    /\ Close(r)
    /\ Answer(r)
    /\ UNCHANGED <<tables, todo, failed, owed>>

(* An exception: what was written is rolled back.  A reset catches it and  *)
(* adds the driver to failedDrivers.                                       *)
Fail(r) ==
    /\ Close(r)
    /\ Answer(r)
    /\ failed' = IF job[r].kind = "reset" THEN [failed EXCEPT ![r] = @ \cup {job[r].driver}] ELSE failed
    /\ UNCHANGED <<tables, todo, owed>>

(* redeemAllStamps counts the stamps before redeemStamps opens its         *)
(* transaction; none to redeem is a success without effect.                *)
CountStamps(r) ==
    /\ step[r] = "count"
    /\ LET n == Cardinality(Outstanding(job[r].driver)) IN
         IF n = 0
         THEN Answer(r)
         ELSE job' = [job EXCEPT ![r].amount = n] /\ Goto(r, "check")
    /\ UNCHANGED <<tables, locks, picked, visited, marked, todo, failed, owed>>

(* The driver is read, and refused when blocked, before the transaction.   *)
Refused(j, s) == j.kind # "adjust" /\ s = "BLOCKED"

FirstStatement(j) ==
    CASE j.kind = "advance" -> "cashLock"
      [] j.kind = "goods"   -> "product"
      [] j.kind = "adjust"  -> "commit"
      [] OTHER              -> "pick"

CheckDriver(r) ==
    /\ step[r] = "check"
    /\ ~ Refused(job[r], status[job[r].driver])
    /\ Goto(r, FirstStatement(job[r]))
    /\ UNCHANGED <<tables, locks, private>>

-----------------------------------------------------------------------------
(* exchangeGoods: read the product, then decrement its stock if enough is  *)
(* left; the UPDATE waits for the row and looks at it again.               *)
ReadProduct(r) ==
    /\ step[r] = "product"
    /\ sellable[job[r].product]
    /\ Goto(r, "decrement")
    /\ UNCHANGED <<tables, locks, private>>

(* Mutant: the stock is decremented without a condition.                   *)
InStock_Unchecked(j) == TRUE

InStock(j) == stock[j.product] >= j.amount

DecrementStock(r) ==
    /\ step[r] = "decrement"
    /\ Free(ProductRow(job[r].product))
    /\ InStock(job[r])
    /\ locks' = [locks EXCEPT ![ProductRow(job[r].product)] = r]
    /\ Goto(r, "commit")
    /\ UNCHANGED <<tables, private>>

(* redeemStamps: read the oldest stamps not redeemed ...                   *)
PickStamps(r) ==
    /\ step[r] = "pick"
    /\ Cardinality(Outstanding(job[r].driver)) >= job[r].amount
    /\ picked' = [picked EXCEPT ![r] = Oldest(Outstanding(job[r].driver), job[r].amount)]
    /\ Goto(r, "mark")
    /\ UNCHANGED <<tables, locks, job, visited, marked, todo, failed, owed>>

(* ... and mark them.  The UPDATE visits the rows in order, waits for each *)
(* that another transaction has locked, and skips those that were redeemed *)
(* meanwhile.                                                              *)
Unvisited(r) == picked[r] \ visited[r]

(* Mutant: the UPDATE looks at the ids only, not at redeemedAt again.      *)
Redeemable_NotRechecked(s) == TRUE

Redeemable(s) == s \notin redeemed

(* Mutant: the UPDATE reaches the rows in no particular order.             *)
MarkStamp_AnyOrder(r) ==
    /\ step[r] = "mark"
    /\ \E s \in Unvisited(r) :
         /\ Free(StampRow(s))
         /\ visited' = [visited EXCEPT ![r] = @ \cup {s}]
         /\ IF Redeemable(s)
            THEN /\ locks' = [locks EXCEPT ![StampRow(s)] = r]
                 /\ marked' = [marked EXCEPT ![r] = @ \cup {s}]
            ELSE UNCHANGED <<locks, marked>>
    /\ UNCHANGED <<tables, step, job, picked, todo, failed, owed>>

MarkStamp(r) ==
    /\ step[r] = "mark"
    /\ \E s \in Oldest(Unvisited(r), 1) :
         /\ Free(StampRow(s))
         /\ visited' = [visited EXCEPT ![r] = @ \cup {s}]
         /\ IF Redeemable(s)
            THEN /\ locks' = [locks EXCEPT ![StampRow(s)] = r]
                 /\ marked' = [marked EXCEPT ![r] = @ \cup {s}]
            ELSE UNCHANGED <<locks, marked>>
    /\ UNCHANGED <<tables, step, job, picked, todo, failed, owed>>

(* Money the operator's cash owes the driver for this request.             *)
Due(r) == IF job[r].kind = "advance" THEN job[r].amount ELSE WorthOf(picked[r])

(* Mutant: the number of marked rows is not compared.                      *)
AllMarked_Ignored(r) == TRUE

AllMarked(r) == Cardinality(marked[r]) = Cardinality(picked[r])

CompareMarked(r) ==
    /\ step[r] = "mark" /\ Unvisited(r) = {}
    /\ AllMarked(r)
    /\ Goto(r, IF job[r].pay = "CASH" THEN "cashLock" ELSE "commit")
    /\ UNCHANGED <<tables, locks, private>>

(* Mutant: the operator's cash is not locked.                              *)
LockCash_NotHeld(r) ==
    /\ step[r] = "cashLock"
    /\ Goto(r, "cashRead")
    /\ UNCHANGED <<tables, locks, private>>

(* debitForDriverCashOut, inside the transaction of the ledger row.        *)
LockCash(r) ==
    /\ step[r] = "cashLock"
    /\ Free(CashLock(job[r].op))
    /\ locks' = [locks EXCEPT ![CashLock(job[r].op)] = r]
    /\ Goto(r, "cashRead")
    /\ UNCHANGED <<tables, private>>

Covered(r) == cash[job[r].op] >= Due(r)

ReadCash(r) ==
    /\ step[r] = "cashRead"
    /\ Covered(r)
    /\ Goto(r, "commit")
    /\ UNCHANGED <<tables, locks, private>>

-----------------------------------------------------------------------------
(* Mutant: the debit of a cash redemption is forgotten.                    *)
Paid_AdvancesOnly(r) == job[r].kind = "advance"

Paid(r) == job[r].kind = "advance" \/ (job[r].kind \notin {"goods", "adjust"} /\ job[r].pay = "CASH")

(* The row a request inserts: its type and its signed amount.              *)
RowType(j) == CASE j.kind = "advance" -> "CASH_ADVANCE"
                [] j.kind = "goods"   -> "GOODS_EXCHANGE"
                [] j.kind = "adjust"  -> "MANUAL_ADJUSTMENT"
                [] OTHER              -> "STAMP_REDEMPTION"

RowAmount(r) == CASE job[r].kind = "advance" -> -job[r].amount
                  [] job[r].kind = "goods"   -> -(Price[job[r].product] * job[r].amount)
                  [] job[r].kind = "adjust"  -> job[r].amount
                  [] OTHER                   -> -WorthOf(picked[r])

(* The commit publishes the row, the marks, the stock and the debit.       *)
Commit(r) ==
    LET j == job[r] IN
    /\ step[r] = "commit"
    /\ sum' = [sum EXCEPT ![j.driver][RowType(j)] = @ + RowAmount(r)]
    /\ redeemed' = redeemed \cup marked[r]
    /\ redemptions' = IF RowType(j) = "STAMP_REDEMPTION"
                      THEN Append(redemptions, [driver |-> j.driver, pay |-> j.pay, stamps |-> picked[r]])
                      ELSE redemptions
    /\ stock' = IF j.kind = "goods" THEN [stock EXCEPT ![j.product] = @ - j.amount] ELSE stock
    /\ cash' = IF Paid(r) THEN [cash EXCEPT ![j.op] = @ - Due(r)] ELSE cash
    /\ Close(r)
    /\ Answer(r)
    /\ UNCHANGED <<status, deleted, issued, sellable, deposited, todo, failed, owed>>

(* A check inside or before the transaction throws.                        *)
Refuse(r) ==
    /\ \/ step[r] = "check" /\ Refused(job[r], status[job[r].driver])
       \/ step[r] = "product" /\ ~ sellable[job[r].product]
       \/ step[r] = "decrement" /\ Free(ProductRow(job[r].product)) /\ ~ InStock(job[r])
       \/ step[r] = "pick" /\ Cardinality(Outstanding(job[r].driver)) < job[r].amount
       \/ step[r] = "mark" /\ Unvisited(r) = {} /\ ~ AllMarked(r)
       \/ step[r] = "cashRead" /\ ~ Covered(r)
    /\ Fail(r)

(* A statement fails, or the transaction times out.                        *)
Expire(r) ==
    /\ step[r] \notin {"idle", "next"}
    /\ Fail(r)

(* The process ends: nobody answers, a reset stops where it was.           *)
Forget(r) ==
    /\ step' = [step EXCEPT ![r] = "idle"]
    /\ job' = [job EXCEPT ![r] = NoJob]
    /\ todo' = [todo EXCEPT ![r] = {}]
    /\ failed' = [failed EXCEPT ![r] = {}]
    /\ owed' = [owed EXCEPT ![r] = {}]

Crash(r) ==
    /\ step[r] # "idle"
    /\ Close(r)
    /\ Forget(r)
    /\ UNCHANGED tables

-----------------------------------------------------------------------------
(* Mutant: the loop does not move on.                                      *)
NextDriver_Again(r) ==
    /\ step[r] = "next" /\ todo[r] # {}
    /\ job' = [job EXCEPT ![r].driver = CHOOSE d \in todo[r] : TRUE]
    /\ Goto(r, "count")
    /\ UNCHANGED <<tables, locks, todo, picked, visited, marked, failed, owed>>

(* The loop of resetAllDriversStamps.                                      *)
NextDriver(r) ==
    /\ step[r] = "next" /\ todo[r] # {}
    /\ \E d \in todo[r] :
         /\ job' = [job EXCEPT ![r].driver = d]
         /\ todo' = [todo EXCEPT ![r] = @ \ {d}]
    /\ Goto(r, "count")
    /\ UNCHANGED <<tables, locks, picked, visited, marked, failed, owed>>

LoopDone(r) == step[r] = "next" /\ todo[r] = {}

Report(r) ==
    /\ LoopDone(r)
    /\ Forget(r)
    /\ UNCHANGED <<tables, locks, picked, visited, marked>>

-----------------------------------------------------------------------------
(* Recognition inserts STAMP rows, one at a time per driver; it read the   *)
(* driver's status earlier, so the row may come after a block.             *)
IssueStamp(s) ==
    /\ s \notin issued
    /\ \A t \in Stamps : Owner[t] = Owner[s] /\ t < s => t \in issued
    /\ issued' = issued \cup {s}
    /\ sum' = [sum EXCEPT ![Owner[s]]["STAMP"] = @ + Worth[s]]
    /\ UNCHANGED <<status, deleted, redeemed, redemptions, stock, sellable, cash, deposited, locks, step, private>>

SetStatus(d, s) ==
    /\ "setStatus" \in Operations
    /\ d \notin deleted
    /\ status' = [status EXCEPT ![d] = s]
    /\ UNCHANGED <<deleted, sum, issued, redeemed, redemptions, stock, sellable, cash, deposited, locks, step, private>>

(* The ledger of a deleted driver is kept, his unredeemed pechats too, and *)
(* requests that name him are refused as for a blocked one.                *)
SoftDelete(d) ==
    /\ d \in Deletable \ deleted
    /\ status' = [status EXCEPT ![d] = "BLOCKED"]
    /\ deleted' = deleted \cup {d}
    /\ UNCHANGED <<sum, issued, redeemed, redemptions, stock, sellable, cash, deposited, locks, step, private>>

SetProductActive(p, b) ==
    /\ "setActive" \in Operations
    /\ sellable' = [sellable EXCEPT ![p] = b]
    /\ UNCHANGED <<status, deleted, sum, issued, redeemed, redemptions, stock, cash, deposited, locks, step, private>>

(* The other requests on the cash float: OperatorCash shows that each is   *)
(* one atomic step of CashFloat, taken under the operator's lock.          *)
DepositCash(o, a) ==
    /\ Free(CashLock(o))
    /\ a > 0 /\ deposited + a <= MaxDeposited
    /\ deposited' = deposited + a
    /\ cash' = [cash EXCEPT ![o] = @ + a]
    /\ UNCHANGED <<status, deleted, sum, issued, redeemed, redemptions, stock, sellable, locks, step, private>>

HandOverCash(from, to) ==
    /\ Free(CashLock(from)) /\ Free(CashLock(to))
    /\ from # to /\ cash[from] > 0
    /\ cash' = [cash EXCEPT ![from] = 0, ![to] = @ + cash[from]]
    /\ UNCHANGED <<status, deleted, sum, issued, redeemed, redemptions, stock, sellable, deposited, locks, step, private>>

-----------------------------------------------------------------------------
Proceed(r) ==
    \/ CountStamps(r) \/ CheckDriver(r) \/ ReadProduct(r) \/ DecrementStock(r)
    \/ PickStamps(r) \/ MarkStamp(r) \/ CompareMarked(r) \/ LockCash(r) \/ ReadCash(r)
    \/ Commit(r) \/ Refuse(r) \/ NextDriver(r) \/ Report(r)

Environment ==
    \/ \E s \in Stamps : IssueStamp(s)
    \/ \E d \in Drivers, s \in {"ACTIVE", "BLOCKED"} : SetStatus(d, s)
    \/ \E d \in Deletable : SoftDelete(d)
    \/ \E p \in Products, b \in BOOLEAN : SetProductActive(p, b)
    \/ \E o \in Operators, a \in Amounts : DepositCash(o, a)
    \/ \E o, q \in Operators : HandOverCash(o, q)

Arrive(r) ==
    \E k \in Operations \cap AllOperations, pay \in {"CASH", "OTHER"} :
    \E d \in Drivers, o \in Drawers(k, pay), p \in Products, a \in Amounts :
       LET j == [kind |-> k, driver |-> d, op |-> o, product |-> p, amount |-> a, pay |-> pay] IN
       \/ BeginOne(r, j) \/ BeginRedeemAll(r, j) \/ BeginReset(r, j)
       \/ BeginAdjust(r, j) \/ BeginAdjust(r, [j EXCEPT !.amount = -a])

Next ==
    \/ Environment
    \/ \E r \in Requests : Arrive(r) \/ Proceed(r) \/ Expire(r) \/ Crash(r)

Spec == Init /\ [][Next]_vars

(* Row and advisory locks are granted in turn.                             *)
Waits(r) == DecrementStock(r) \/ MarkStamp(r) \/ LockCash(r)
Fairness == \A r \in Requests : WF_vars(Proceed(r)) /\ SF_vars(Waits(r))
FairSpec == Spec /\ Fairness

-----------------------------------------------------------------------------
(* No pechat is redeemed twice and none is marked without a redemption     *)
(* row: the marks are exactly the stamps of the STAMP_REDEMPTION rows,     *)
(* which share none, although two requests may have read the same stamps.  *)
RedeemedOnce ==
    /\ redeemed = UNION {redemptions[i].stamps : i \in DOMAIN redemptions}
    /\ \A i, k \in DOMAIN redemptions :
          i # k => redemptions[i].stamps \cap redemptions[k].stamps = {}

(* A redemption takes the oldest pechats first: no redeemed stamp is       *)
(* younger than an unredeemed one of the same driver.                      *)
OldestFirst ==
    \A s \in redeemed, t \in issued : Owner[s] = Owner[t] /\ t < s => t \in redeemed

(* The rows and the marks tell the same story: what the STAMP and the      *)
(* STAMP_REDEMPTION rows of a driver sum to is what his unredeemed pechats *)
(* are worth.                                                              *)
PointsMatchStamps ==
    \A d \in Drivers :
        sum[d]["STAMP"] + sum[d]["STAMP_REDEMPTION"] = WorthOf(Outstanding(d))

(* Goods leave the stock exactly as the ledger charges them, and never     *)
(* more than there are.                                                    *)
GoodsTrail ==
    /\ \A p \in Products : stock[p] >= 0
    /\ SumFunction([p \in Products |-> Price[p] * (InitialStock[p] - stock[p])])
          = - SumFunction([d \in Drivers |-> sum[d]["GOODS_EXCHANGE"]])

(* Rows, marks and stock tell one story.                                   *)
BooksAgree == PointsMatchStamps /\ GoodsTrail

(* A reset that reports accounts for every pechat that was outstanding     *)
(* when it began: it is redeemed, or its driver is among failedDrivers,    *)
(* also when he is deleted while the loop runs.  Those of a driver deleted *)
(* before are neither: the list leaves him out.                            *)
ResetCovers ==
    \A r \in Requests : LoopDone(r) =>
        \A s \in owed[r] : s \in redeemed \/ Owner[s] \in failed[r]

(* Requests never wait for each other in a circle: rows are locked before  *)
(* the operator's cash, and stamps in one order.                           *)
Wanted(r) ==
    CASE step[r] = "decrement" -> {ProductRow(job[r].product)}
      [] step[r] = "cashLock"  -> {CashLock(job[r].op)}
      [] step[r] = "mark"      -> {StampRow(s) : s \in Oldest(Unvisited(r), 1)}
      [] OTHER                 -> {}

WaitsFor(r, q) == q # r /\ \E l \in Wanted(r) : locks[l] = q

NoWaitCycle ==
    \A S \in (SUBSET Requests) \ {{}} : ~ \A r \in S : \E q \in S : WaitsFor(r, q)

(* Every request that arrived is answered, unless the process ends.        *)
RequestsEnd == \A r \in Requests : step[r] # "idle" ~> step[r] = "idle"

(* The ledger's own debits are steps of the same cash float, of sums of    *)
(* their own (what one or more pechats are worth), and every sum its rows  *)
(* say was handed to a driver, as an advance or for pechats, left a drawer *)
(* in the very step that wrote the row.                                    *)
SumsPaid == Amounts \cup {WorthOf(S) : S \in (SUBSET Stamps) \ {{}}}

CashRedeemed ==
    SumFunction([i \in DOMAIN redemptions |->
                    IF redemptions[i].pay = "CASH" THEN WorthOf(redemptions[i].stamps) ELSE 0])
CashAdvanced == - SumFunction([d \in Drivers |-> sum[d]["CASH_ADVANCE"]])

Float == INSTANCE CashFloat WITH float <- cash, Amounts <- SumsPaid,
                                 paidIn <- deposited, paidOut <- CashRedeemed + CashAdvanced
ImplementsCashFloat == Float!Spec
=============================================================================
