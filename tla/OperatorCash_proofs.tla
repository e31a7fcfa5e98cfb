------------------------- MODULE OperatorCash_proofs -------------------------
(***************************************************************************)
(* The cash float never goes below zero, and every committed request is    *)
(* one step of CashFloat, for any operators, requests, lock keys and       *)
(* amounts: whatever hashtext returns, collisions included.                *)
(*                                                                         *)
(* NonNegative is not inductive: it needs that a request past its balance  *)
(* check holds the lock of every operator it writes (LocksHeld), so that   *)
(* no other request writes there and the balance it read stays current     *)
(* (CheckedBalanceIsCurrent), and that its entries are the ones its step   *)
(* says (EntriesMatchStep).                                                *)
(***************************************************************************)
EXTENDS OperatorCash, TLAPS

(* A request past its lock statements holds the locks it asked for.        *)
LocksHeld ==
    \A r \in Requests : step[r] # "idle" =>
        /\ step[r] # "lock" => holder[FirstLock(job[r])] = r
        /\ step[r] \notin {"lock", "lockSecond"} /\ job[r].kind = "endShift"
              => holder[SecondLock(job[r])] = r

(* The job of an open request is one its first checks let through, and its *)
(* statements are those of its kind.                                       *)
JobsSound ==
    \A r \in Requests : step[r] # "idle" =>
        /\ job[r].amount > 0
        /\ job[r].kind = "endShift" => job[r].op # job[r].peer
        /\ step[r] \in {"lockSecond", "peer", "insertIn", "recheck"} => job[r].kind = "endShift"
        /\ step[r] = "read" => job[r].kind # "deposit"
        /\ PastRead(r) => Sufficient(job[r], seen[r])

(* The uncommitted entries of a request are those its step has reached.    *)
HasOwnEntry(r)  == step[r] \in {"insertIn", "recheck", "commit"}
HasPeerEntry(r) == step[r] \in {"recheck", "commit"} /\ job[r].kind = "endShift"

EntriesMatchStep ==
    \A r \in Requests, o \in Operators :
        wrote[r][o] = IF HasOwnEntry(r) /\ o = job[r].op THEN EntryOf(r)
                      ELSE IF HasPeerEntry(r) /\ o = job[r].peer THEN seen[r]
                      ELSE 0

IInv ==
    /\ TypeOK
    /\ LocksHeld
    /\ JobsSound
    /\ EntriesMatchStep
    /\ CheckedBalanceIsCurrent
    /\ NonNegative

-----------------------------------------------------------------------------
(* The parts of the job of an open request, and the sums it has written.   *)
LEMMA OpenRequest ==
    ASSUME TypeOK, NEW r \in Requests, step[r] # "idle"
    PROVE  /\ job[r] \in Jobs
           /\ job[r].kind \in Kinds
           /\ job[r].op \in Operators
           /\ job[r].peer \in Operators
           /\ job[r].amount \in Nat
    BY AmountsAssumption DEF TypeOK, Jobs

LEMMA Sums ==
    ASSUME TypeOK, NEW r \in Requests, NEW o \in Operators
    PROVE  /\ cash[o] \in Int
           /\ seen[r] \in Int
           /\ wrote[r] \in [Operators -> Int]
           /\ wrote[r][o] \in Int
           /\ Balance(r, o) \in Int
<1>1. cash[o] \in Int /\ seen[r] \in Int /\ wrote[r] \in [Operators -> Int]
    BY DEF TypeOK
<1>2. wrote[r][o] \in Int
    BY <1>1
<1>. QED
    BY <1>1, <1>2 DEF Balance

(* Adding an entry changes one sum of one request.                         *)
LEMMA EntryAdded ==
    ASSUME wrote \in [Requests -> [Operators -> Int]],
           NEW r \in Requests, NEW o \in Operators, NEW a \in Int, AddEntry(r, o, a)
    PROVE  /\ wrote' \in [Requests -> [Operators -> Int]]
           /\ wrote'[r][o] = wrote[r][o] + a
           /\ \A q \in Requests, p \in Operators :
                 q # r \/ p # o => wrote'[q][p] = wrote[q][p]
<1>1. wrote[r] \in [Operators -> Int] /\ wrote[r][o] \in Int
    OBVIOUS
<1>2. [wrote[r] EXCEPT ![o] = wrote[r][o] + a] \in [Operators -> Int]
    BY <1>1
<1>3. wrote' = [wrote EXCEPT ![r] = [wrote[r] EXCEPT ![o] = wrote[r][o] + a]]
    BY DEF AddEntry
<1>4. wrote' \in [Requests -> [Operators -> Int]]
    BY <1>2, <1>3
<1>5. wrote'[r] = [wrote[r] EXCEPT ![o] = wrote[r][o] + a]
    BY <1>3
<1>6. \A q \in Requests : q # r => wrote'[q] = wrote[q]
    BY <1>3
<1>. QED
    BY <1>1, <1>4, <1>5, <1>6

(* TypeOK is inductive: every statement keeps the variables in their types.*)
LEMMA TypeInductive == TypeOK /\ [Next]_vars => TypeOK'
<1> SUFFICES ASSUME TypeOK, [Next]_vars PROVE TypeOK'
    OBVIOUS
<1> USE OperatorsAssumption, KeysAssumption, AmountsAssumption, BoundAssumption
<1>1. ASSUME NEW r \in Requests, NEW j \in Jobs, Begin(r, j)
      PROVE  TypeOK'
    BY <1>1 DEF Begin, TypeOK, Steps
<1>2. ASSUME NEW r \in Requests, NEW o \in Operators, NEW a \in Amounts, NEW p \in Operators,
             BeginDeposit(r, o, a) \/ BeginCashOut(r, o, a) \/ BeginEndShift(r, o, p, a)
      PROVE  TypeOK'
    BY <1>1, <1>2 DEF BeginDeposit, BeginCashOut, BeginEndShift, Jobs, Kinds
<1>3. ASSUME NEW r \in Requests, Lock(r) PROVE TypeOK'
    <2>1. step[r] # "idle" /\ job[r] \in Jobs /\ FirstLock(job[r]) \in Keys
        BY <1>3 DEF Lock, FirstLock, LockOrder, TypeOK, Jobs
    <2>2. \E s \in {"insert", "read", "lockSecond"} : step' = [step EXCEPT ![r] = s]
        BY <1>3, OpenRequest, <2>1 DEF Lock, Goto, Kinds
    <2>. QED
        BY <1>3, <2>1, <2>2 DEF Lock, Acquire, TypeOK, Steps
<1>4. ASSUME NEW r \in Requests, LockSecond(r) PROVE TypeOK'
    <2>1. step[r] # "idle" /\ SecondLock(job[r]) \in Keys
        BY <1>4, OpenRequest DEF LockSecond, SecondLock, LockOrder
    <2>. QED
        BY <1>4, <2>1 DEF LockSecond, Acquire, Goto, TypeOK, Steps
<1>5. ASSUME NEW r \in Requests, CheckPeer(r) \/ Recheck(r) PROVE TypeOK'
    BY <1>5 DEF CheckPeer, Recheck, Goto, TypeOK, Steps
<1>6. ASSUME NEW r \in Requests, ReadBalance(r) PROVE TypeOK'
    <2>1. Balance(r, job[r].op) \in Int
        BY <1>6, OpenRequest, Sums DEF ReadBalance
    <2>. QED
        BY <1>6, <2>1 DEF ReadBalance, Goto, TypeOK, Steps
<1>7. ASSUME NEW r \in Requests, Insert(r) PROVE TypeOK'
    <2>1. step[r] # "idle" /\ job[r].op \in Operators
        BY <1>7, OpenRequest DEF Insert
    <2>2. EntryOf(r) \in Int
        BY <2>1, OpenRequest, Sums DEF EntryOf, Kinds
    <2>3. wrote' \in [Requests -> [Operators -> Int]]
        BY <1>7, <2>1, <2>2, EntryAdded DEF Insert, TypeOK
    <2>. QED
        BY <1>7, <2>1, <2>3 DEF Insert, Goto, TypeOK, Steps
<1>8. ASSUME NEW r \in Requests, InsertIn(r) PROVE TypeOK'
    <2>1. job[r].peer \in Operators /\ seen[r] \in Int
        BY <1>8, OpenRequest DEF InsertIn, TypeOK
    <2>2. wrote' \in [Requests -> [Operators -> Int]]
        BY <1>8, <2>1, EntryAdded DEF InsertIn, TypeOK
    <2>. QED
        BY <1>8, <2>2 DEF InsertIn, Goto, TypeOK, Steps
<1>9. ASSUME NEW r \in Requests, End(r) PROVE /\ active' \in [Operators -> BOOLEAN]
                                              /\ holder' \in [Keys -> Requests \cup {NoRequest}]
                                              /\ step' \in [Requests -> Steps]
                                              /\ job' \in [Requests -> Jobs \cup {NoJob}]
                                              /\ \A q \in Requests : step'[q] # "idle" => job'[q] \in Jobs
                                              /\ seen' \in [Requests -> Int]
                                              /\ wrote' \in [Requests -> [Operators -> Int]]
    BY <1>9 DEF End, NothingWritten, TypeOK, Steps
<1>10. ASSUME NEW r \in Requests, Commit(r) PROVE TypeOK'
    <2>1. job[r].amount \in Nat
        BY <1>10, OpenRequest DEF Commit
    <2>2. cash' \in [Operators -> Int] /\ deposited' \in Nat /\ paidOut' \in Int
        BY <1>10, <2>1, Sums DEF Commit, TypeOK
    <2>. QED
        BY <1>9, <1>10, <2>2 DEF Commit, TypeOK
<1>11. ASSUME NEW r \in Requests, Refuse(r) \/ Expire(r) PROVE TypeOK'
    <2>1. End(r) /\ UNCHANGED <<cash, deposited, paidOut>>
        BY <1>11 DEF Refuse, Expire
    <2>. QED
        BY <1>9, <2>1 DEF TypeOK
<1>12. ASSUME NEW o \in Operators, NEW b \in BOOLEAN, SetActive(o, b) PROVE TypeOK'
    BY <1>12 DEF SetActive, TypeOK
<1>13. CASE UNCHANGED vars
    BY <1>13 DEF vars, TypeOK
<1>. QED
    BY <1>2, <1>3, <1>4, <1>5, <1>6, <1>7, <1>8, <1>10, <1>11, <1>12, <1>13
       DEF Next, Proceed

(* Every statement, timeout and failure keeps the variables in their types. *)
THEOREM TypeCorrect == Spec => []TypeOK
<1>1. Init => TypeOK
    BY BoundAssumption DEF Init, TypeOK, Steps, NothingWritten
<1>. QED
    BY <1>1, TypeInductive, PTL DEF Spec

-----------------------------------------------------------------------------
(* What a request holds and writes.                                        *)
Locked(r) == step[r] \notin {"idle", "lock", "lockSecond"}

LEMMA LockedOperators ==
    ASSUME TypeOK, LocksHeld, NEW r \in Requests, Locked(r)
    PROVE  /\ holder[KeyOf[job[r].op]] = r
           /\ job[r].kind = "endShift" => holder[KeyOf[job[r].peer]] = r
<1>1. /\ holder[FirstLock(job[r])] = r
      /\ job[r].kind = "endShift" => holder[SecondLock(job[r])] = r
    BY DEF LocksHeld, Locked
<1>. QED
    BY <1>1 DEF FirstLock, SecondLock, LockOrder

LEMMA WritesUnderLock ==
    ASSUME TypeOK, LocksHeld, EntriesMatchStep,
           NEW r \in Requests, NEW o \in Operators, wrote[r][o] # 0
    PROVE  holder[KeyOf[o]] = r
<1>1. (HasOwnEntry(r) /\ o = job[r].op) \/ (HasPeerEntry(r) /\ o = job[r].peer)
    BY DEF EntriesMatchStep, HasOwnEntry, HasPeerEntry, EntryOf
<1>2. Locked(r) /\ (o = job[r].op \/ (job[r].kind = "endShift" /\ o = job[r].peer))
    BY <1>1 DEF HasOwnEntry, HasPeerEntry, Locked
<1>. QED
    BY <1>2, LockedOperators

-----------------------------------------------------------------------------
LEMMA LocksInductive == TypeOK /\ LocksHeld /\ JobsSound /\ [Next]_vars => LocksHeld'
<1> SUFFICES ASSUME TypeOK, LocksHeld, JobsSound, [Next]_vars,
                    NEW q \in Requests, step'[q] # "idle"
             PROVE  /\ step'[q] # "lock" => holder'[FirstLock(job'[q])] = q
                    /\ step'[q] \notin {"lock", "lockSecond"} /\ job'[q].kind = "endShift"
                          => holder'[SecondLock(job'[q])] = q
    BY DEF LocksHeld, FirstLock, SecondLock
<1> DEFINE Goal == /\ step'[q] # "lock" => holder'[FirstLock(job'[q])] = q
                   /\ step'[q] \notin {"lock", "lockSecond"} /\ job'[q].kind = "endShift"
                         => holder'[SecondLock(job'[q])] = q
<1> USE KeysAssumption, NoRequestAssumption
<1>1. ASSUME NEW r \in Requests, NEW j, Begin(r, j) PROVE Goal
    <2>1. q = r => step'[q] = "lock"
        BY <1>1 DEF Begin, TypeOK
    <2>2. q # r => step'[q] = step[q] /\ job'[q] = job[q]
        BY <1>1 DEF Begin, TypeOK
    <2>3. holder' = holder
        BY <1>1 DEF Begin
    <2>. QED
        BY <2>1, <2>2, <2>3 DEF LocksHeld
<1>2. ASSUME NEW r \in Requests, Lock(r) PROVE Goal
    <2>1. job[r] \in Jobs /\ step[q] # "idle" /\ job' = job /\ FirstLock(job[r]) \in Keys
        BY <1>2, OpenRequest DEF Lock, Acquire, Goto, TypeOK, FirstLock, LockOrder
    <2>2. holder'[FirstLock(job[r])] = r
        BY <1>2, <2>1 DEF Lock, Acquire, TypeOK
    <2>3. \A k \in Keys : holder[k] = q => holder'[k] = q
        BY <1>2, <2>1 DEF Lock, Acquire, TypeOK
    <2>4. q = r => step'[q] \in {"insert", "read", "lockSecond"} /\ (step'[q] = "lockSecond" <=> job[q].kind = "endShift")
        BY <1>2, <2>1, OpenRequest DEF Lock, Goto, TypeOK, Kinds
    <2>5. q # r => step'[q] = step[q]
        BY <1>2 DEF Lock, Goto, TypeOK
    <2>6. FirstLock(job[q]) \in Keys /\ SecondLock(job[q]) \in Keys
        BY <2>1, OpenRequest DEF FirstLock, SecondLock, LockOrder
    <2>. QED
        BY <2>1, <2>2, <2>3, <2>4, <2>5, <2>6 DEF LocksHeld
<1>3. ASSUME NEW r \in Requests, LockSecond(r) PROVE Goal
    <2>1. step[q] # "idle" /\ job' = job /\ SecondLock(job[r]) \in Keys
        BY <1>3, OpenRequest DEF LockSecond, Acquire, Goto, TypeOK, SecondLock, LockOrder
    <2>2. holder'[SecondLock(job[r])] = r
        BY <1>3, <2>1 DEF LockSecond, Acquire, TypeOK
    <2>3. \A k \in Keys : holder[k] = q => holder'[k] = q
        BY <1>3, <2>1 DEF LockSecond, Acquire, TypeOK
    <2>4. q = r => step'[q] = "peer" /\ step[q] = "lockSecond"
        BY <1>3 DEF LockSecond, Goto, TypeOK
    <2>5. q # r => step'[q] = step[q]
        BY <1>3 DEF LockSecond, Goto, TypeOK
    <2>6. FirstLock(job[q]) \in Keys /\ SecondLock(job[q]) \in Keys
        BY <2>1, OpenRequest DEF FirstLock, SecondLock, LockOrder
    <2>. QED
        BY <2>1, <2>2, <2>3, <2>4, <2>5, <2>6 DEF LocksHeld
<1>4. ASSUME NEW r \in Requests,
             CheckPeer(r) \/ ReadBalance(r) \/ Insert(r) \/ InsertIn(r) \/ Recheck(r)
      PROVE  Goal
    <2>1. /\ job' = job /\ holder' = holder
          /\ step[r] \in {"peer", "read", "insert", "insertIn", "recheck"}
          /\ q # r => step'[q] = step[q]
        BY <1>4 DEF CheckPeer, ReadBalance, Insert, InsertIn, Recheck, Goto, TypeOK
    <2>. QED
        BY <2>1 DEF LocksHeld
<1>5. ASSUME NEW r \in Requests, End(r) PROVE Goal
    <2>1. q # r /\ step'[q] = step[q] /\ job'[q] = job[q] /\ step[q] # "idle"
        BY <1>5 DEF End, TypeOK
    <2>2. \A k \in Keys : holder[k] = q => holder'[k] = q
        BY <1>5, <2>1 DEF End
    <2>3. FirstLock(job[q]) \in Keys /\ SecondLock(job[q]) \in Keys
        BY <2>1, OpenRequest DEF FirstLock, SecondLock, LockOrder
    <2>. QED
        BY <2>1, <2>2, <2>3 DEF LocksHeld
<1>6. ASSUME UNCHANGED <<holder, step, job>> PROVE Goal
    BY <1>6 DEF LocksHeld
<1>. QED
    BY <1>1, <1>2, <1>3, <1>4, <1>5, <1>6
       DEF Next, Proceed, BeginDeposit, BeginCashOut, BeginEndShift, Commit, Refuse, Expire,
           SetActive, vars

LEMMA JobsInductive == TypeOK /\ JobsSound /\ [Next]_vars => JobsSound'
<1> DEFINE Sound(s, j, b) ==
        /\ j.amount > 0
        /\ j.kind = "endShift" => j.op # j.peer
        /\ s \in {"lockSecond", "peer", "insertIn", "recheck"} => j.kind = "endShift"
        /\ s = "read" => j.kind # "deposit"
        /\ s \in {"insert", "insertIn", "recheck", "commit"} /\ j.kind \in {"cashOut", "endShift"}
              => Sufficient(j, b)
<1>1. /\ JobsSound <=> \A r \in Requests : step[r] # "idle" => Sound(step[r], job[r], seen[r])
      /\ JobsSound' <=> \A r \in Requests : step'[r] # "idle" => Sound(step'[r], job'[r], seen'[r])
    BY DEF JobsSound, PastRead, Sufficient
<1> SUFFICES ASSUME TypeOK, JobsSound, [Next]_vars, NEW q \in Requests, step'[q] # "idle"
             PROVE  Sound(step'[q], job'[q], seen'[q])
    BY <1>1
<1> DEFINE Goal == Sound(step'[q], job'[q], seen'[q])
<1>2. step[q] # "idle" => Sound(step[q], job[q], seen[q])
    BY <1>1
<1> HIDE DEF Sound
<1>3. ASSUME NEW r \in Requests, NEW j, Begin(r, j), j.amount > 0, j.kind = "endShift" => j.op # j.peer
      PROVE  Goal
    <2>1. q = r => step'[q] = "lock" /\ job'[q] = j
        BY <1>3 DEF Begin, TypeOK
    <2>2. q # r => step'[q] = step[q] /\ job'[q] = job[q] /\ seen'[q] = seen[q]
        BY <1>3 DEF Begin, TypeOK
    <2>. QED
        BY <1>2, <1>3, <2>1, <2>2 DEF Sound
<1>4. ASSUME NEW r \in Requests, NEW o \in Operators, NEW a \in Amounts, NEW p \in Operators,
             BeginDeposit(r, o, a) \/ BeginCashOut(r, o, a) \/ BeginEndShift(r, o, p, a)
      PROVE  Goal
    BY <1>3, <1>4 DEF BeginDeposit, BeginCashOut, BeginEndShift
<1>5. ASSUME NEW r \in Requests,
             Lock(r) \/ LockSecond(r) \/ CheckPeer(r) \/ Insert(r) \/ InsertIn(r) \/ Recheck(r)
      PROVE  Goal
    <2>1. job' = job /\ seen' = seen /\ step[q] # "idle" /\ (q # r => step'[q] = step[q])
        BY <1>5 DEF Lock, LockSecond, CheckPeer, Insert, InsertIn, Recheck, Acquire, Goto, TypeOK
    <2>2. CASE q # r
        BY <1>2, <2>1, <2>2
    <2>3. CASE q = r
        <3>1. Sound(step[r], job[r], seen[r]) /\ job[r].kind \in Kinds
            BY <1>2, <2>1, <2>3, OpenRequest
        <3>2. Sound(step'[r], job[r], seen[r])
            BY <1>5, <3>1 DEF Sound, Kinds, Lock, LockSecond, CheckPeer, Insert, InsertIn, Recheck, Goto, TypeOK
        <3>. QED
            BY <2>1, <2>3, <3>2
    <2>. QED
        BY <2>2, <2>3
<1>6. ASSUME NEW r \in Requests, ReadBalance(r) PROVE Goal
    <2>1. q # r => step'[q] = step[q] /\ job'[q] = job[q] /\ seen'[q] = seen[q]
        BY <1>6 DEF ReadBalance, Goto, TypeOK
    <2>2. q = r => step'[q] = "insert" /\ job'[q] = job[q] /\ Sufficient(job[q], seen'[q]) /\ step[q] = "read"
        BY <1>6 DEF ReadBalance, Goto, TypeOK
    <2>. QED
        BY <1>2, <2>1, <2>2 DEF Sound
<1>7. ASSUME NEW r \in Requests, End(r) PROVE Goal
    BY <1>2, <1>7 DEF End, TypeOK
<1>8. ASSUME UNCHANGED <<step, job, seen>> PROVE Goal
    BY <1>2, <1>8
<1>. QED
    BY <1>4, <1>5, <1>6, <1>7, <1>8 DEF Next, Proceed, Commit, Refuse, Expire, SetActive, vars

LEMMA EntriesInductive ==
    TypeOK /\ JobsSound /\ EntriesMatchStep /\ [Next]_vars => EntriesMatchStep'
<1> DEFINE Expected(s, j, b, o) ==
        IF s \in {"insertIn", "recheck", "commit"} /\ o = j.op
        THEN CASE j.kind = "deposit"  -> j.amount
               [] j.kind = "cashOut"  -> -j.amount
               [] j.kind = "endShift" -> -b
        ELSE IF s \in {"recheck", "commit"} /\ j.kind = "endShift" /\ o = j.peer THEN b ELSE 0
<1>1. /\ EntriesMatchStep <=>
              \A q \in Requests, o \in Operators : wrote[q][o] = Expected(step[q], job[q], seen[q], o)
      /\ EntriesMatchStep' <=>
              \A q \in Requests, o \in Operators : wrote'[q][o] = Expected(step'[q], job'[q], seen'[q], o)
    BY DEF EntriesMatchStep, HasOwnEntry, HasPeerEntry, EntryOf
<1> SUFFICES ASSUME TypeOK, JobsSound, EntriesMatchStep, [Next]_vars,
                    NEW q \in Requests, NEW o \in Operators
             PROVE  wrote'[q][o] = Expected(step'[q], job'[q], seen'[q], o)
    BY <1>1
<1> DEFINE Goal == wrote'[q][o] = Expected(step'[q], job'[q], seen'[q], o)
<1>2. wrote[q][o] = Expected(step[q], job[q], seen[q], o)
    BY <1>1
<1>3. ASSUME step'[q] = step[q], job'[q] = job[q], seen'[q] = seen[q], wrote'[q] = wrote[q]
      PROVE  Goal
    BY <1>2, <1>3
<1>4. ASSUME step[q] \notin {"insertIn", "recheck", "commit"},
             step'[q] \notin {"insertIn", "recheck", "commit"}, wrote'[q] = wrote[q]
      PROVE  Goal
    BY <1>2, <1>4
<1> HIDE DEF Expected
<1>5. ASSUME NEW r \in Requests, NEW j, Begin(r, j) PROVE Goal
    BY <1>3, <1>4, <1>5 DEF Begin, TypeOK
<1>6. ASSUME NEW r \in Requests, Lock(r) PROVE Goal
    <2>1. q # r => step'[q] = step[q]
        BY <1>6 DEF Lock, Goto, TypeOK
    <2>2. step[r] = "lock" /\ step'[r] \in {"insert", "read", "lockSecond"}
        BY <1>6, OpenRequest DEF Lock, Goto, TypeOK, Kinds
    <2>3. UNCHANGED <<job, seen, wrote>>
        BY <1>6 DEF Lock, Acquire
    <2>. QED
        BY <1>3, <1>4, <2>1, <2>2, <2>3
<1>7. ASSUME NEW r \in Requests, LockSecond(r) \/ CheckPeer(r) \/ ReadBalance(r) PROVE Goal
    BY <1>3, <1>4, <1>7 DEF LockSecond, CheckPeer, ReadBalance, Acquire, Goto, TypeOK
<1>8. ASSUME NEW r \in Requests, Insert(r) PROVE Goal
    <2>1. /\ job[r].kind \in Kinds /\ job[r].op \in Operators /\ EntryOf(r) \in Int
          /\ step[r] = "insert" /\ UNCHANGED <<job, seen>>
        BY <1>8, OpenRequest, Sums DEF Insert, EntryOf, Kinds
    <2>2. /\ wrote'[r][job[r].op] = wrote[r][job[r].op] + EntryOf(r)
          /\ \A s \in Requests, p \in Operators : s # r \/ p # job[r].op => wrote'[s][p] = wrote[s][p]
        BY <1>8, <2>1, EntryAdded DEF Insert, TypeOK
    <2>3. step' = [step EXCEPT ![r] = IF job[r].kind = "endShift" THEN "insertIn" ELSE "commit"]
        BY <1>8 DEF Insert, Goto
    <2>4. CASE q # r
        BY <1>2, <2>1, <2>2, <2>3, <2>4 DEF TypeOK
    <2>5. CASE q = r
        <3>1. wrote[r][o] = 0
            BY <1>2, <2>1, <2>5 DEF Expected
        <3>2. wrote'[r][o] = IF o = job[r].op THEN EntryOf(r) ELSE 0
            BY <2>1, <2>2, <3>1
        <3>3. step'[r] \in {"insertIn", "commit"} /\ (job[r].kind = "endShift" => step'[r] = "insertIn")
            BY <2>3 DEF TypeOK
        <3>. QED
            BY <2>1, <2>5, <3>2, <3>3 DEF Expected, EntryOf, Kinds
    <2>. QED
        BY <2>4, <2>5
<1>9. ASSUME NEW r \in Requests, InsertIn(r) PROVE Goal
    <2>1. /\ job[r].peer \in Operators /\ seen[r] \in Int
          /\ step[r] = "insertIn" /\ job[r].kind = "endShift" /\ job[r].op # job[r].peer
          /\ UNCHANGED <<job, seen>>
        BY <1>9, OpenRequest DEF InsertIn, JobsSound, TypeOK
    <2>2. /\ wrote'[r][job[r].peer] = wrote[r][job[r].peer] + seen[r]
          /\ \A s \in Requests, p \in Operators : s # r \/ p # job[r].peer => wrote'[s][p] = wrote[s][p]
        BY <1>9, <2>1, EntryAdded DEF InsertIn, TypeOK
    <2>3. step' = [step EXCEPT ![r] = "recheck"]
        BY <1>9 DEF InsertIn, Goto
    <2>4. CASE q # r
        BY <1>2, <2>1, <2>2, <2>3, <2>4 DEF TypeOK
    <2>5. CASE q = r
        <3>1. wrote[r][o] = IF o = job[r].op THEN -seen[r] ELSE 0
            BY <1>2, <2>1, <2>5 DEF Expected
        <3>2. wrote'[r][o] = IF o = job[r].op THEN -seen[r] ELSE IF o = job[r].peer THEN seen[r] ELSE 0
            BY <2>1, <2>2, <3>1
        <3>3. step'[r] = "recheck"
            BY <2>3 DEF TypeOK
        <3>. QED
            BY <2>1, <2>5, <3>2, <3>3 DEF Expected
    <2>. QED
        BY <2>4, <2>5
<1>10. ASSUME NEW r \in Requests, Recheck(r) PROVE Goal
    <2>1. /\ step[r] = "recheck" /\ job[r].kind = "endShift" /\ UNCHANGED <<job, seen, wrote>>
          /\ step' = [step EXCEPT ![r] = "commit"]
        BY <1>10 DEF Recheck, Goto, JobsSound
    <2>. QED
        BY <1>2, <2>1 DEF Expected, TypeOK
<1>11. ASSUME NEW r \in Requests, End(r) PROVE Goal
    <2>1. q # r => UNCHANGED <<step[q], job[q], seen[q], wrote[q]>>
        BY <1>11 DEF End, TypeOK
    <2>2. q = r => step'[q] = "idle" /\ wrote'[q] = NothingWritten
        BY <1>11 DEF End, TypeOK
    <2>3. q = r => Expected(step'[q], job'[q], seen'[q], o) = 0
        BY <2>2 DEF Expected
    <2>. QED
        BY <1>3, <2>1, <2>2, <2>3 DEF NothingWritten
<1>12. ASSUME UNCHANGED <<step, job, seen, wrote>> PROVE Goal
    BY <1>3, <1>12
<1>. QED
    BY <1>5, <1>6, <1>7, <1>8, <1>9, <1>10, <1>11, <1>12
       DEF Next, Proceed, BeginDeposit, BeginCashOut, BeginEndShift, Commit, Refuse, Expire,
           SetActive, vars

LEMMA CheckedInductive ==
    TypeOK /\ LocksHeld /\ JobsSound /\ EntriesMatchStep /\ CheckedBalanceIsCurrent /\ [Next]_vars
        => CheckedBalanceIsCurrent'
<1> SUFFICES ASSUME TypeOK, LocksHeld, JobsSound, EntriesMatchStep, CheckedBalanceIsCurrent,
                    [Next]_vars, NEW q \in Requests, PastRead(q)'
             PROVE  seen'[q] = cash'[job'[q].op]
    BY DEF CheckedBalanceIsCurrent, PastRead
<1> DEFINE Goal == seen'[q] = cash'[job'[q].op]
<1>1. PastRead(q) => seen[q] = cash[job[q].op]
    BY DEF CheckedBalanceIsCurrent
<1>2. ASSUME UNCHANGED <<cash, job[q], seen[q]>>, PastRead(q) PROVE Goal
    BY <1>1, <1>2
<1>3. ASSUME NEW r \in Requests, NEW j, Begin(r, j) PROVE Goal
    BY <1>2, <1>3 DEF Begin, PastRead, TypeOK
<1>4. ASSUME NEW r \in Requests, Lock(r) PROVE Goal
    <2>1. q # r => step'[q] = step[q]
        BY <1>4 DEF Lock, Goto, TypeOK
    <2>2. q = r => ~ PastRead(q)'
        BY <1>4, OpenRequest DEF Lock, Acquire, Goto, PastRead, TypeOK, Kinds
    <2>. QED
        BY <1>2, <1>4, <2>1, <2>2 DEF Lock, Acquire, PastRead
<1>5. ASSUME NEW r \in Requests,
             LockSecond(r) \/ CheckPeer(r) \/ Insert(r) \/ InsertIn(r) \/ Recheck(r)
      PROVE  Goal
    BY <1>2, <1>5 DEF LockSecond, CheckPeer, Insert, InsertIn, Recheck, Acquire, Goto, PastRead, TypeOK
<1>6. ASSUME NEW r \in Requests, ReadBalance(r) PROVE Goal
    <2>1. CASE q # r
        BY <1>2, <1>6, <2>1 DEF ReadBalance, Goto, PastRead, TypeOK
    <2>2. CASE q = r
        <3>1. job[r].op \in Operators /\ ~HasOwnEntry(r) /\ ~HasPeerEntry(r)
            BY <1>6, OpenRequest DEF ReadBalance, HasOwnEntry, HasPeerEntry
        <3>2. wrote[r][job[r].op] = 0
            BY <3>1 DEF EntriesMatchStep
        <3>3. Balance(r, job[r].op) = cash[job[r].op]
            BY <3>1, <3>2, Sums DEF Balance
        <3>. QED
            BY <1>6, <2>2, <3>3 DEF ReadBalance, TypeOK
    <2>. QED
        BY <2>1, <2>2
<1>7. ASSUME NEW r \in Requests, Commit(r) PROVE Goal
    <2>1. q # r /\ PastRead(q) /\ UNCHANGED <<job[q], seen[q]>>
        BY <1>7 DEF Commit, End, PastRead, TypeOK
    <2>2. job[q].op \in Operators /\ Locked(q)
        BY <2>1, OpenRequest DEF PastRead, Locked
    <2>3. holder[KeyOf[job[q].op]] = q
        BY <2>2, LockedOperators
    <2>4. wrote[r][job[q].op] = 0
        BY <2>1, <2>2, <2>3, WritesUnderLock
    <2>5. cash'[job[q].op] = cash[job[q].op]
        BY <1>7, <2>2, <2>4, Sums DEF Commit
    <2>. QED
        BY <1>1, <2>1, <2>5
<1>8. ASSUME NEW r \in Requests, End(r), UNCHANGED cash PROVE Goal
    <2>1. q # r /\ PastRead(q) /\ UNCHANGED <<job[q], seen[q]>>
        BY <1>8 DEF End, PastRead, TypeOK
    <2>. QED
        BY <1>2, <1>8, <2>1
<1>9. ASSUME UNCHANGED <<cash, step, job, seen>> PROVE Goal
    BY <1>2, <1>9 DEF PastRead
<1>. QED
    BY <1>3, <1>4, <1>5, <1>6, <1>7, <1>8, <1>9
       DEF Next, Proceed, BeginDeposit, BeginCashOut, BeginEndShift, Refuse, Expire, SetActive, vars

(* What a committing request has done to the balances.                     *)
LEMMA CommittedEntries ==
    ASSUME IInv, NEW r \in Requests, Commit(r)
    PROVE  LET j == job[r] IN
           /\ j \in Jobs /\ j.amount > 0 /\ j.op \in Operators /\ j.peer \in Operators
           /\ \A o \in Operators : cash[o] \in Int
           /\ j.kind = "deposit" =>
                 /\ cash' = [cash EXCEPT ![j.op] = @ + j.amount]
                 /\ deposited' = deposited + j.amount /\ paidOut' = paidOut
           /\ j.kind = "cashOut" =>
                 /\ cash[j.op] >= j.amount /\ cash' = [cash EXCEPT ![j.op] = @ - j.amount]
                 /\ deposited' = deposited /\ paidOut' = paidOut + j.amount
           /\ j.kind = "endShift" =>
                 /\ j.op # j.peer /\ cash[j.op] > 0 /\ cash[j.op] = j.amount
                 /\ cash' = [cash EXCEPT ![j.op] = 0, ![j.peer] = @ + cash[j.op]]
                 /\ UNCHANGED <<deposited, paidOut>>
<1> DEFINE j == job[r]
<1>1. /\ step[r] = "commit" /\ j \in Jobs /\ j.kind \in Kinds /\ j.op \in Operators
      /\ j.peer \in Operators /\ j.amount \in Nat /\ j.amount > 0
      /\ cash \in [Operators -> Int] /\ seen[r] \in Int
    BY OpenRequest DEF Commit, IInv, TypeOK, JobsSound
<1>2. cash' = [o \in Operators |-> cash[o] + wrote[r][o]]
    BY DEF Commit
<1>3. \A o \in Operators :
         /\ o = j.op => wrote[r][o] = EntryOf(r)
         /\ o # j.op /\ o = j.peer /\ j.kind = "endShift" => wrote[r][o] = seen[r]
         /\ o # j.op /\ (o # j.peer \/ j.kind # "endShift") => wrote[r][o] = 0
    BY <1>1 DEF IInv, EntriesMatchStep, HasOwnEntry, HasPeerEntry
<1>4. j.kind # "deposit" => seen[r] = cash[j.op] /\ Sufficient(j, seen[r])
    BY <1>1 DEF IInv, CheckedBalanceIsCurrent, JobsSound, PastRead, Kinds
<1>5. j.kind = "endShift" => j.op # j.peer
    BY <1>1 DEF IInv, JobsSound
<1>9. /\ deposited' = IF j.kind = "deposit" THEN deposited + j.amount ELSE deposited
      /\ paidOut' = IF j.kind = "cashOut" THEN paidOut + j.amount ELSE paidOut
    BY DEF Commit
<1>10. j.amount \in Int /\ j.op \in Operators /\ \A o \in Operators : cash[o] \in Int
    BY <1>1
<1> HIDE DEF j
<1>6. CASE j.kind = "deposit"
    <2>1. \A o \in Operators : /\ o = j.op => cash[o] + wrote[r][o] = cash[o] + j.amount
                               /\ o # j.op => cash[o] + wrote[r][o] = cash[o]
        <3>1. EntryOf(r) = j.amount
            BY <1>6 DEF EntryOf, j
        <3>2. TAKE o \in Operators
        <3>3. cash[o] \in Int /\ cash[j.op] \in Int /\ j.amount \in Int
            BY <1>10
        <3>. QED
            BY <1>3, <1>6, <3>1, <3>3
    <2>2. cash' = [cash EXCEPT ![j.op] = @ + j.amount]
        BY <1>1, <1>2, <2>1
    <2>. QED
        BY <1>1, <1>6, <1>9, <2>2 DEF j
<1>7. CASE j.kind = "cashOut"
    <2>1. cash[j.op] >= j.amount
        BY <1>4, <1>7 DEF Sufficient
    <2>2. \A o \in Operators : /\ o = j.op => cash[o] + wrote[r][o] = cash[o] - j.amount
                               /\ o # j.op => cash[o] + wrote[r][o] = cash[o]
        <3>1. EntryOf(r) = -j.amount
            BY <1>7 DEF EntryOf, j
        <3>2. TAKE o \in Operators
        <3>3. cash[o] \in Int /\ cash[j.op] \in Int /\ j.amount \in Int
            BY <1>10
        <3>. QED
            BY <1>3, <1>7, <3>1, <3>3
    <2>3. cash' = [cash EXCEPT ![j.op] = @ - j.amount]
        BY <1>1, <1>2, <2>2
    <2>. QED
        BY <1>1, <1>7, <1>9, <2>1, <2>3 DEF j
<1>8. CASE j.kind = "endShift"
    <2>1. cash[j.op] > 0 /\ cash[j.op] = j.amount /\ seen[r] = cash[j.op]
        BY <1>4, <1>8 DEF Sufficient
    <2>2. \A o \in Operators : /\ o = j.op => cash[o] + wrote[r][o] = 0
                               /\ o = j.peer => cash[o] + wrote[r][o] = cash[o] + cash[j.op]
                               /\ o # j.op /\ o # j.peer => cash[o] + wrote[r][o] = cash[o]
        <3>1. EntryOf(r) = -cash[j.op]
            BY <1>8, <2>1 DEF EntryOf, j
        <3>2. TAKE o \in Operators
        <3>3. cash[o] \in Int /\ cash[j.op] \in Int /\ j.amount \in Int
            BY <1>10
        <3>. QED
            BY <1>3, <1>5, <1>8, <2>1, <3>1, <3>3
    <2>3. cash' = [cash EXCEPT ![j.op] = 0, ![j.peer] = @ + cash[j.op]]
        BY <1>1, <1>2, <1>5, <1>8, <2>2
    <2>. QED
        BY <1>1, <1>5, <1>8, <1>9, <2>1, <2>3 DEF j
<1>. QED
    BY <1>1, <1>6, <1>7, <1>8 DEF Kinds, j

LEMMA NonNegativeInductive == IInv /\ [Next]_vars => NonNegative'
<1> SUFFICES ASSUME IInv, [Next]_vars PROVE NonNegative'
    OBVIOUS
<1>1. ASSUME UNCHANGED cash PROVE NonNegative'
    BY <1>1 DEF IInv, NonNegative
<1>2. ASSUME NEW r \in Requests, Commit(r) PROVE NonNegative'
    <2>1. job[r].kind \in Kinds /\ job[r].amount \in Nat
        BY <1>2, CommittedEntries, AmountsAssumption DEF Jobs
    <2>2. \A o \in Operators : cash[o] >= 0 /\ cash[o] \in Int
        BY DEF IInv, NonNegative, TypeOK
    <2>3. cash \in [Operators -> Int]
        BY DEF IInv, TypeOK
    <2>. QED
        BY <1>2, <2>1, <2>2, <2>3, CommittedEntries DEF NonNegative, Kinds
<1>. QED
    BY <1>1, <1>2
       DEF Next, Proceed, BeginDeposit, BeginCashOut, BeginEndShift, Begin, Lock, LockSecond,
           Acquire, CheckPeer, ReadBalance, Insert, InsertIn, Recheck, Refuse, Expire, SetActive, vars

-----------------------------------------------------------------------------
(* The inductive invariant holds in every reachable state.                 *)
THEOREM Invariance == Spec => []IInv
<1>1. Init => IInv
    BY BoundAssumption
       DEF Init, IInv, TypeOK, Steps, NothingWritten, LocksHeld, JobsSound, EntriesMatchStep,
           HasOwnEntry, HasPeerEntry, CheckedBalanceIsCurrent, PastRead, NonNegative
<1>2. IInv /\ [Next]_vars => IInv'
    <2> SUFFICES ASSUME IInv, [Next]_vars PROVE IInv'
        OBVIOUS
    <2>1. TypeOK' /\ LocksHeld' /\ JobsSound' /\ EntriesMatchStep'
        BY TypeInductive, LocksInductive, JobsInductive, EntriesInductive DEF IInv
    <2>2. CheckedBalanceIsCurrent' /\ NonNegative'
        BY CheckedInductive, NonNegativeInductive DEF IInv
    <2>. QED
        BY <2>1, <2>2 DEF IInv
<1>. QED
    BY <1>1, <1>2, PTL DEF Spec

(* No operator's balance goes below zero, and the balance a request has    *)
(* checked is current until its transaction ends, whatever interleaves.    *)
THEOREM BooksAlwaysSound == Spec => []BooksSound
<1>1. IInv => BooksSound
    BY DEF IInv, BooksSound
<1>. QED
    BY <1>1, Invariance, PTL

-----------------------------------------------------------------------------
(* Every handover that commits moved the whole balance, and exactly the    *)
(* sum the sender confirmed.                                               *)
THEOREM HandoverConfirmed == Spec => HandoverAsConfirmed
<1>1. IInv /\ [Next]_vars =>
        [\A r \in Requests : Commit(r) /\ job[r].kind = "endShift" => HandedOver(r)]_vars
    <2> SUFFICES ASSUME IInv, NEW r \in Requests, Commit(r), job[r].kind = "endShift"
                 PROVE  HandedOver(r)
        OBVIOUS
    <2>1. cash \in [Operators -> Int]
        BY DEF IInv, TypeOK
    <2>. QED
        BY <2>1, CommittedEntries DEF HandedOver
<1>. QED
    BY <1>1, Invariance, PTL DEF Spec, HandoverAsConfirmed

(* Seen through the balances alone, the requests behave as the atomic      *)
(* operations of CashFloat.                                                *)
THEOREM Refinement == Spec => ImplementsCashFloat
<1>1. Init => Float!Init
    BY DEF Init, Float!Init
<1>2. IInv /\ [Next]_vars => [Float!Next]_Float!vars
    <2> SUFFICES ASSUME IInv, [Next]_vars PROVE [Float!Next]_Float!vars
        OBVIOUS
    <2>1. ASSUME NEW r \in Requests, Commit(r) PROVE Float!Next
        <3> DEFINE j == job[r]
        <3>1. j.kind \in Kinds /\ j.op \in Operators /\ j.peer \in Operators /\ j.amount \in Amounts
            BY <2>1, CommittedEntries DEF Jobs
        <3>2. CASE j.kind = "deposit"
            BY <2>1, <3>1, <3>2, CommittedEntries DEF Float!Next, Float!Deposit, Kinds
        <3>3. CASE j.kind = "cashOut"
            BY <2>1, <3>1, <3>3, CommittedEntries DEF Float!Next, Float!PayOut
        <3>4. CASE j.kind = "endShift"
            BY <2>1, <3>1, <3>4, CommittedEntries DEF Float!Next, Float!HandOver
        <3>. QED
            BY <3>1, <3>2, <3>3, <3>4 DEF Kinds
    <2>2. ASSUME UNCHANGED <<cash, deposited, paidOut>> PROVE [Float!Next]_Float!vars
        BY <2>2 DEF Float!vars
    <2>. QED
        BY <2>1, <2>2
           DEF Next, Proceed, BeginDeposit, BeginCashOut, BeginEndShift, Begin, Lock, LockSecond,
               Acquire, CheckPeer, ReadBalance, Insert, InsertIn, Recheck, Refuse, Expire, SetActive,
               vars
<1>. QED
    BY <1>1, <1>2, Invariance, PTL DEF Spec, ImplementsCashFloat, Float!Spec
=============================================================================
