------------------------- MODULE Recognition_proofs -------------------------
(***************************************************************************)
(* Proofs about Recognition, for any drivers, terminals, requests and      *)
(* windows: its types, the least distance between two stamps of a driver,  *)
(* that an event is stamped once, and that a stamp goes to who has looked. *)
(***************************************************************************)
EXTENDS Recognition, SequenceTheorems, TLAPS

(* A request that is under way carries a report, and from the end of the   *)
(* search on it has a driver unless it is about to log that it has none.   *)
WellFormed ==
    \A r \in Requests :
        /\ step[r] # "idle" => job[r] \in Jobs
        /\ step[r] \in {"activate", "lock", "guard", "stamp", "commit"} => found[r] \in Drivers

Typed == TypeOK /\ WellFormed

(* A request in its transaction holds its driver's lock, and once it has   *)
(* passed the guard no stamp of that driver is within it.                  *)
HoldsLock ==
    \A r \in Requests : step[r] \in {"guard", "stamp", "commit"} => locks[found[r]] = r

LowerEnd(r) == IF step[r] = "commit" THEN stampedAt[r] ELSE now

PastGuard ==
    \A r \in Requests : step[r] \in {"stamp", "commit"} =>
        \A i \in DOMAIN stamps : stamps[i].driver = found[r] => stamps[i].at + Guard < LowerEnd(r)

IInv == Typed /\ HoldsLock /\ PastGuard /\ MinGap

-----------------------------------------------------------------------------
(* The guard is a natural number.                                          *)
LEMMA GuardNat == Guard \in Nat
  BY GuardAssumption DEF Guard

(* A search by Person ID only finds drivers.                               *)
LEMMA MappedDrivers ==
    ASSUME NEW v, NEW id PROVE Mapped(v, id) \subseteq Drivers
  BY DEF Mapped, LinkedOn

(* A report has a terminal and a Person ID.                                *)
LEMMA ReportTyped ==
    ASSUME NEW r \in Requests, job[r] \in Jobs
    PROVE  Device(r) \in Devices /\ PersonId(r) \in PersonIds /\ job[r].glance \in Glances
             /\ job[r].path \in Paths
  BY GlancesAssumption DEF Jobs, Device, PersonId

(* Leaving keeps the types of what it resets.                              *)
LEMMA LeaveTyped ==
    ASSUME Typed, NEW r \in Requests, Leave(r)
    PROVE  /\ step' \in [Requests -> Steps]
           /\ job' \in [Requests -> Jobs \cup {NoJob}]
           /\ found' \in [Requests -> Drivers \cup {Nobody}]
           /\ foundStatus' \in [Requests -> Statuses]
           /\ stampedAt' \in [Requests -> Times]
           /\ searched' \in [Requests -> Times]
           /\ locks' \in [Drivers -> Requests \cup {NoRequest}]
           /\ WellFormed'
<1>1. 0 \in Times
  BY TimesAssumption DEF Times
<1>2. QED
  BY <1>1 DEF Typed, TypeOK, WellFormed, Leave, Goto, Steps, Statuses

(* An answer also only removes from the outbox.                            *)
LEMMA AnswerTyped ==
    ASSUME Typed, NEW r \in Requests, Answer(r)
    PROVE  Leave(r) /\ outbox' \subseteq Glances
  BY DEF Typed, TypeOK, Answer

(* The end of the search names a driver and his status.                    *)
LEMMA FoundTyped ==
    ASSUME Typed, NEW r \in Requests, step[r] # "idle", NEW d \in Drivers, NEW s \in Statuses,
           Found(r, d, s), job' = job
    PROVE  /\ step' \in [Requests -> Steps]
           /\ found' \in [Requests -> Drivers \cup {Nobody}]
           /\ foundStatus' \in [Requests -> Statuses]
           /\ WellFormed'
  BY DEF Typed, TypeOK, WellFormed, Found, Goto, Steps

(* A row of the log has its type.                                          *)
LEMMA EntryTyped ==
    ASSUME Typed, NEW r \in Requests, step[r] # "idle", NEW s \in {"UNMATCHED", "IGNORED_COOLDOWN", "ERROR"}
    PROVE  Entry(r, found[r], s) \in LoggedEntries
<1>1. job[r] \in Jobs
  BY DEF Typed, WellFormed
<1>2. QED
  BY <1>1, ReportTyped DEF Typed, TypeOK, Entry, LoggedEntries

-----------------------------------------------------------------------------
(* A request goes on to its next statement and keeps all it has.           *)
LEMMA GotoTyped ==
    ASSUME Typed, NEW r \in Requests, step[r] # "idle", NEW s \in Steps,
           s \in {"activate", "lock", "guard", "stamp", "commit"} => found[r] \in Drivers,
           Goto(r, s), job' = job, found' = found
    PROVE  step' \in [Requests -> Steps] /\ WellFormed'
  BY DEF Typed, TypeOK, WellFormed, Goto

(* The typing invariant holds initially.                                   *)
LEMMA TypedInit == Init => Typed
<1> SUFFICES ASSUME Init PROVE Typed
  OBVIOUS
<1>1. 0 \in Times
  BY TimesAssumption DEF Times
<1>2. 0 \in 0 .. MaxFaults /\ 0 \in 0 .. MaxWebhooks
  BY TimesAssumption
<1>3. stamps \in Seq(StampEntries)
  BY DEF Init
<1>4. TypeOK
  BY <1>1, <1>2, <1>3, RegistryAssumption DEF Init, TypeOK, Statuses, Steps
<1>5. WellFormed
  BY DEF Init, WellFormed
<1>6. QED
  BY <1>4, <1>5 DEF Typed

-----------------------------------------------------------------------------
(* Every step keeps the types, action by action.                           *)
LEMMA ClockTyped == Typed /\ Tick => Typed'
<1> SUFFICES ASSUME Typed, Tick PROVE Typed'
  OBVIOUS
<1>1. now' \in Times
  BY TimesAssumption DEF Typed, TypeOK, Tick, Times
<1>2. QED
  BY <1>1 DEF Typed, TypeOK, WellFormed, Tick, registry, events, private, counters, history

LEMMA LookTyped == ASSUME Typed, NEW g \in Glances, Look(g) \/ Recede(g) PROVE Typed'
  BY DEF Typed, TypeOK, WellFormed, Look, Recede, registry, events, private, counters, history

LEMMA ArriveTyped ==
    ASSUME Typed, NEW r \in Requests, NEW g \in Glances, NEW path \in Paths,
           NEW first \in {"dedupe", "resolve"}, Arrive(r, g, path, first),
           webhooks' \in 0 .. MaxWebhooks
    PROVE  Typed'
<1>1. [glance |-> g, path |-> path] \in Jobs
  BY DEF Jobs
<1>2. QED
  BY <1>1 DEF Typed, TypeOK, WellFormed, Arrive, registry, events, history, Steps

LEMMA ReportTypedStep ==
    ASSUME Typed, NEW r \in Requests, NEW g \in Glances, Webhook(r, g) \/ AgentPost(r, g)
    PROVE  Typed'
<1>1. CASE Webhook(r, g)
  <2>1. webhooks' \in 0 .. MaxWebhooks
    BY <1>1, TimesAssumption DEF Typed, TypeOK, Webhook
  <2>2. QED
    BY <1>1, <2>1, ArriveTyped DEF Webhook, Paths
<1>2. CASE AgentPost(r, g)
  <2>1. webhooks' \in 0 .. MaxWebhooks
    BY <1>2 DEF Typed, TypeOK, AgentPost
  <2>2. QED
    BY <1>2, <2>1, ArriveTyped DEF AgentPost, Paths
<1>3. QED
  BY <1>1, <1>2

(* A registration that gets a Person ID keeps its types, and so does one   *)
(* that starts anew or is deleted.                                         *)
LEMMA LinkedTyped ==
    ASSUME Typed, NEW d \in Drivers, NEW v \in Devices, NEW id \in PersonIds, Linked(d, v, id)
    PROVE  /\ faceId' \in [Drivers -> [Devices -> PersonIds \cup {NoId}]]
           /\ armed' \in [Drivers -> [Devices -> {Never} \cup 0 .. MaxTime + Window]]
           /\ deleted' \subseteq Drivers
           /\ forgotten' \subseteq Glances /\ late' \subseteq Glances /\ borrowed' \subseteq Glances
           /\ crossed' \subseteq Devices \X PersonIds
  BY DEF Typed, TypeOK, Linked

LEMMA AnewTyped ==
    ASSUME Typed, NEW d \in Drivers, NEW v \in Devices, StartPairing(d, v) \/ Queue(d, v)
    PROVE  Typed'
<1>1. /\ faceId' = [faceId EXCEPT ![d][v] = NoId]
      /\ \E t \in {Never, now + Window} : armed' = [armed EXCEPT ![d][v] = t]
  BY DEF StartPairing, Queue
<1>2. faceId' \in [Drivers -> [Devices -> PersonIds \cup {NoId}]]
  BY <1>1 DEF Typed, TypeOK
<1>3. armed' \in [Drivers -> [Devices -> {Never} \cup 0 .. MaxTime + Window]]
  <2>1. PICK t \in {Never, now + Window} : armed' = [armed EXCEPT ![d][v] = t]
    BY <1>1
  <2>2. t \in {Never} \cup 0 .. MaxTime + Window
    BY TimesAssumption DEF Typed, TypeOK, Times
  <2>3. QED
    BY <2>1, <2>2 DEF Typed, TypeOK
<1>4. QED
  BY <1>2, <1>3 DEF Typed, TypeOK, WellFormed, StartPairing, Queue, events, private, counters, history

LEMMA DeleteTyped ==
    ASSUME Typed, NEW D, NEW V, Delete(D, V),
           status' \in [Drivers -> Statuses], deleted' \subseteq Drivers
    PROVE  Typed'
<1>1. armed' \in [Drivers -> [Devices -> {Never} \cup 0 .. MaxTime + Window]]
  BY DEF Typed, TypeOK, Delete
<1>2. faceId' \in [Drivers -> [Devices -> PersonIds \cup {NoId}]]
  BY DEF Typed, TypeOK, Delete
<1>3. found' \in [Requests -> Drivers \cup {Nobody}]
  BY DEF Typed, TypeOK, Delete
<1>4. ASSUME NEW r \in Requests, step[r] \notin {"taken", "link"} PROVE found'[r] = found[r]
  BY <1>4 DEF Delete
<1>5. WellFormed'
  BY <1>4 DEF Typed, WellFormed, Delete
<1>6. QED
  BY <1>1, <1>2, <1>3, <1>5 DEF Typed, TypeOK, Delete, events, counters, history

LEMMA StaffTyped == Typed /\ Staff => Typed'
<1> SUFFICES ASSUME Typed, Staff PROVE Typed'
  OBVIOUS
<1>1. CASE \E d \in Drivers, s \in {"ACTIVE", "BLOCKED"} : SetStatus(d, s)
  BY <1>1 DEF Typed, TypeOK, WellFormed, SetStatus, Statuses, events, private, counters, history
<1>2. ASSUME NEW d \in Drivers, NEW v \in Devices, NEW id \in PersonIds, Map(d, v, id) \/ Ack(d, v)
      PROVE  Typed'
  <2>1. PICK x \in PersonIds : Linked(d, v, x)
    BY <1>2, OwnIdsAssumption DEF Map, Ack
  <2>2. status' \in [Drivers -> Statuses]
    BY <1>2 DEF Typed, TypeOK, Map, Ack, Activated, Statuses
  <2>3. WellFormed' /\ UNCHANGED <<now, events, seenAt, outbox, locks, step, private, counters>>
    BY <1>2 DEF Typed, WellFormed, Map, Ack, private
  <2>4. QED
    BY <2>1, <2>2, <2>3, LinkedTyped DEF Typed, TypeOK, events, private, counters
<1>3. ASSUME NEW d \in Drivers, NEW v \in Devices, Ack(d, v) PROVE Typed'
  BY <1>2, <1>3, OwnIdsAssumption
<1>4. ASSUME NEW d \in Drivers, NEW v \in Devices, Unlink(d, v) PROVE Typed'
  BY <1>4, DeleteTyped DEF Typed, TypeOK, Unlink
<1>5. ASSUME NEW d \in Drivers, SoftDelete(d) PROVE Typed'
  <2>1. status' \in [Drivers -> Statuses] /\ deleted' \subseteq Drivers
    BY <1>5 DEF Typed, TypeOK, SoftDelete, Statuses
  <2>2. QED
    BY <1>5, <2>1, DeleteTyped DEF SoftDelete
<1>6. QED
  BY <1>1, <1>2, <1>3, <1>4, <1>5, AnewTyped DEF Staff

-----------------------------------------------------------------------------
LEMMA SearchTyped ==
    ASSUME Typed, NEW r \in Requests,
           Resolve(r) \/ ReadPending(r) \/ CheckTaken(r) \/ Link(r) \/ Activate(r) \/ Fallback(r)
    PROVE  Typed'
<1>0. step[r] # "idle"
  BY DEF Resolve, ReadPending, CheckTaken, Link, Activate, Fallback
<1> DEFINE v == Device(r)
           id == PersonId(r)
<1>j. job[r] \in Jobs
  BY <1>0 DEF Typed, WellFormed
<1>r. v \in Devices /\ id \in PersonIds
  BY <1>j, ReportTyped
<1>h. Borrow(r) => /\ forgotten' \subseteq Glances /\ late' \subseteq Glances
                   /\ borrowed' \subseteq Glances /\ crossed' \subseteq Devices \X PersonIds
  BY <1>j, ReportTyped DEF Typed, TypeOK, Borrow
<1> HIDE DEF v, id
<1>1. CASE Resolve(r)
  <2>1. CASE Mapped(v, id) # {}
    <3>1. Borrow(r) /\ \E d \in Mapped(v, id) : Found(r, d, status[d])
      BY <1>1, <2>1 DEF Resolve, v, id
    <3>2. PICK d \in Drivers : Found(r, d, status[d])
      BY <3>1, MappedDrivers
    <3>3. status[d] \in Statuses
      BY DEF Typed, TypeOK
    <3>4. /\ step' \in [Requests -> Steps] /\ found' \in [Requests -> Drivers \cup {Nobody}]
          /\ foundStatus' \in [Requests -> Statuses] /\ WellFormed'
      BY <1>0, <1>1, <3>2, <3>3, FoundTyped DEF Resolve
    <3>5. QED
      BY <1>1, <1>h, <3>1, <3>4 DEF Typed, TypeOK, Resolve, registry, events, counters
  <2>2. CASE Mapped(v, id) = {}
    <3>1. Goto(r, "pending") /\ UNCHANGED <<found, foundStatus, job, history>>
      BY <1>1, <2>2 DEF Resolve, v, id
    <3>2. step' \in [Requests -> Steps] /\ WellFormed'
      BY <1>0, <3>1, GotoTyped DEF Steps
    <3>3. QED
      BY <1>1, <3>1, <3>2 DEF Typed, TypeOK, Resolve, registry, events, counters, history
  <2>3. QED
    BY <2>1, <2>2
<1>2. CASE ReadPending(r)
  <2>1. CASE Claimable(v) = {}
    <3>1. Goto(r, "fallback") /\ UNCHANGED <<found, foundStatus, job>>
      BY <1>2, <2>1 DEF ReadPending, v
    <3>2. QED
      BY <1>0, <1>2, <3>1, GotoTyped DEF Typed, TypeOK, ReadPending, Steps, registry, events, counters, history
  <2>2. CASE Claimable(v) # {}
    <3>1. PICK d \in Claimable(v) :
             /\ found' = [found EXCEPT ![r] = d]
             /\ foundStatus' = [foundStatus EXCEPT ![r] = status[d]]
             /\ Goto(r, "taken")
      BY <1>2, <2>2 DEF ReadPending, v
    <3>2. d \in Drivers
      BY DEF Claimable
    <3>3. QED
      BY <1>0, <1>2, <3>1, <3>2
         DEF Typed, TypeOK, WellFormed, ReadPending, Goto, Steps, registry, events, counters, history
  <2>3. QED
    BY <2>1, <2>2
<1>3. CASE CheckTaken(r)
  <2>1. Goto(r, IF Taken(r) THEN "fallback" ELSE "link") /\ job' = job /\ found' = found
    BY <1>3 DEF CheckTaken, private
  <2>2. PICK s \in {"fallback", "link"} : Goto(r, s)
    BY <2>1
  <2>3. s \in Steps
    BY DEF Steps
  <2>4. step' \in [Requests -> Steps] /\ WellFormed'
    BY <1>0, <2>1, <2>2, <2>3, GotoTyped
  <2>5. QED
    BY <1>3, <2>4 DEF Typed, TypeOK, CheckTaken, registry, events, private, counters, history
<1>4. CASE Link(r)
  <2>1. found[r] \in Drivers
    BY <1>4 DEF Typed, TypeOK, Link
  <2>2. Linked(found[r], v, id)
    BY <1>4 DEF Link, v, id
  <2>3. /\ faceId' \in [Drivers -> [Devices -> PersonIds \cup {NoId}]]
        /\ armed' \in [Drivers -> [Devices -> {Never} \cup 0 .. MaxTime + Window]]
        /\ deleted' \subseteq Drivers
        /\ forgotten' \subseteq Glances /\ late' \subseteq Glances /\ borrowed' \subseteq Glances
        /\ crossed' \subseteq Devices \X PersonIds
    BY <1>r, <2>1, <2>2, LinkedTyped
  <2>4. CASE foundStatus[r] = "PENDING"
    <3>1. Goto(r, "activate") /\ UNCHANGED <<found, foundStatus, job>>
      BY <1>4, <2>4 DEF Link
    <3>2. step' \in [Requests -> Steps] /\ WellFormed'
      BY <1>0, <2>1, <3>1, GotoTyped DEF Steps
    <3>3. QED
      BY <1>4, <2>3, <3>1, <3>2 DEF Typed, TypeOK, Link, events, counters
  <2>5. CASE foundStatus[r] # "PENDING"
    <3>1. Found(r, found[r], foundStatus[r]) /\ job' = job
      BY <1>4, <2>5 DEF Link
    <3>2. foundStatus[r] \in Statuses
      BY DEF Typed, TypeOK
    <3>3. QED
      BY <1>0, <1>4, <2>1, <2>3, <3>1, <3>2, FoundTyped DEF Typed, TypeOK, Link, events, counters
  <2>6. QED
    BY <2>4, <2>5
<1>5. CASE Activate(r)
  <2>1. found[r] \in Drivers
    BY <1>5 DEF Typed, WellFormed, Activate
  <2>2. status' \in [Drivers -> Statuses] /\ "ACTIVE" \in Statuses
    BY <1>5 DEF Typed, TypeOK, Activate, Statuses
  <2>3. Found(r, found[r], "ACTIVE") /\ job' = job
    BY <1>5 DEF Activate
  <2>4. QED
    BY <1>0, <1>5, <2>1, <2>2, <2>3, FoundTyped DEF Typed, TypeOK, Activate, events, counters, history
<1>6. CASE Fallback(r)
  <2>1. /\ \/ \E d \in Drivers : Found(r, d, status[d])
           \/ NotFound(r)
        /\ Borrow(r) \/ UNCHANGED history
    BY <1>6 DEF Fallback, Rows
  <2>2. /\ forgotten' \subseteq Glances /\ late' \subseteq Glances
        /\ borrowed' \subseteq Glances /\ crossed' \subseteq Devices \X PersonIds
    BY <1>h, <2>1 DEF Typed, TypeOK, history
  <2>3. CASE \E d \in Drivers : Found(r, d, status[d])
    <3>1. PICK d \in Drivers : Found(r, d, status[d])
      BY <2>3
    <3>2. status[d] \in Statuses
      BY DEF Typed, TypeOK
    <3>3. /\ step' \in [Requests -> Steps] /\ found' \in [Requests -> Drivers \cup {Nobody}]
          /\ foundStatus' \in [Requests -> Statuses] /\ WellFormed'
      BY <1>0, <1>6, <3>1, <3>2, FoundTyped DEF Fallback
    <3>4. QED
      BY <1>6, <2>2, <3>3 DEF Typed, TypeOK, Fallback, registry, events, counters
  <2>4. CASE NotFound(r)
    BY <1>0, <1>6, <2>2, <2>4
       DEF Typed, TypeOK, WellFormed, Fallback, NotFound, Goto, Steps, registry, events, counters
  <2>5. QED
    BY <2>1, <2>3, <2>4
<1>7. QED
  BY <1>1, <1>2, <1>3, <1>4, <1>5, <1>6

-----------------------------------------------------------------------------
(* The ends of a request that write to the log, or nothing.                *)
LEMMA EndTyped ==
    ASSUME Typed, NEW r \in Requests,
           \/ DropDuplicate(r) \/ LogUnmatched(r) \/ Ignore(r) \/ LogError(r)
           \/ LinkFails(r) \/ Abort(r)
    PROVE  Typed'
<1>0. step[r] # "idle"
  BY DEF DropDuplicate, LogUnmatched, Ignore, LogError, LinkFails, Abort
<1>1. CASE DropDuplicate(r)
  BY <1>1, AnswerTyped, LeaveTyped DEF Typed, TypeOK, DropDuplicate, registry, events, counters, history
<1>2. CASE LogUnmatched(r) \/ Ignore(r)
  <2>1. PICK s \in {"UNMATCHED", "IGNORED_COOLDOWN"} : logged' = logged \cup {Entry(r, found[r], s)}
    BY <1>2 DEF LogUnmatched, Ignore
  <2>2. logged' \subseteq LoggedEntries
    BY <1>0, <2>1, EntryTyped DEF Typed, TypeOK
  <2>3. QED
    BY <1>2, <2>2, AnswerTyped, LeaveTyped DEF Typed, TypeOK, LogUnmatched, Ignore, registry, counters, history
<1>3. CASE LogError(r)
  <2>1. logged' \subseteq LoggedEntries
    BY <1>0, <1>3, EntryTyped DEF Typed, TypeOK, LogError
  <2>2. QED
    BY <1>3, <2>1, LeaveTyped DEF Typed, TypeOK, LogError, registry, counters, history
<1>4. CASE LinkFails(r)
  BY <1>4, LeaveTyped DEF Typed, TypeOK, LinkFails, registry, events, counters, history
<1>5. CASE Abort(r)
  <2>1. faults' \in 0 .. MaxFaults
    BY <1>5, TimesAssumption DEF Typed, TypeOK, Abort
  <2>2. QED
    BY <1>5, <2>1, LeaveTyped DEF Typed, TypeOK, Abort, registry, events, history
<1>6. QED
  BY <1>1, <1>2, <1>3, <1>4, <1>5

LEMMA TransactionTyped ==
    ASSUME Typed, NEW r \in Requests,
           \/ NoDuplicate(r) \/ LockDriver(r) \/ PassGuard(r) \/ InsertStamp(r)
           \/ Commit(r) \/ Rollback(r)
    PROVE  Typed'
<1>0. step[r] # "idle"
  BY DEF NoDuplicate, LockDriver, PassGuard, InsertStamp, Commit, Rollback
<1>1. CASE NoDuplicate(r)
  BY <1>0, <1>1, GotoTyped DEF Typed, TypeOK, NoDuplicate, Steps, registry, events, counters, history
<1>2. CASE LockDriver(r)
  <2>1. found[r] \in Drivers
    BY <1>2 DEF Typed, WellFormed, LockDriver
  <2>2. QED
    BY <1>0, <1>2, <2>1, GotoTyped DEF Typed, TypeOK, LockDriver, Steps, registry, events, private, counters, history
<1>3. CASE PassGuard(r)
  <2>1. found[r] \in Drivers /\ late' \subseteq Glances
    BY <1>3, ReportTyped DEF Typed, TypeOK, WellFormed, PassGuard
  <2>2. QED
    BY <1>0, <1>3, <2>1, GotoTyped DEF Typed, TypeOK, PassGuard, Steps, registry, events, private, counters
<1>4. CASE InsertStamp(r)
  <2>1. found[r] \in Drivers
    BY <1>4 DEF Typed, WellFormed, InsertStamp
  <2>2. QED
    BY <1>0, <1>4, <2>1, GotoTyped DEF Typed, TypeOK, InsertStamp, Steps, registry, events, counters, history
<1>5. CASE Commit(r)
  <2>1. found[r] \in Drivers /\ job[r] \in Jobs
    BY <1>5 DEF Typed, WellFormed, Commit
  <2>2. StampOf(r) \in StampEntries
    BY <2>1, ReportTyped DEF Typed, TypeOK, StampOf, StampEntries
  <2>3. stamps' \in Seq(StampEntries)
    BY <1>5, <2>2 DEF Typed, TypeOK, Commit
  <2>4. QED
    BY <1>5, <2>3, AnswerTyped, LeaveTyped DEF Typed, TypeOK, Commit, registry, counters, history
<1>6. CASE Rollback(r)
  <2>1. faults' \in 0 .. MaxFaults /\ webhooks' = webhooks
    BY <1>6, TimesAssumption DEF Typed, TypeOK, Rollback
  <2>2. locks' \in [Drivers -> Requests \cup {NoRequest}]
    BY <1>6 DEF Typed, TypeOK, Rollback
  <2>3. step' \in [Requests -> Steps] /\ WellFormed'
    BY <1>0, <1>6, GotoTyped DEF Rollback, Steps, private
  <2>4. QED
    BY <1>6, <2>1, <2>2, <2>3 DEF Typed, TypeOK, Rollback, registry, events, private, history
<1>7. QED
  BY <1>1, <1>2, <1>3, <1>4, <1>5, <1>6

LEMMA TypedStep == Typed /\ [Next]_vars => Typed'
<1> SUFFICES ASSUME Typed, [Next]_vars PROVE Typed'
  OBVIOUS
<1>1. ASSUME NEW r \in Requests, Proceed(r) \/ Rollback(r) \/ Abort(r) PROVE Typed'
  BY <1>1, SearchTyped, EndTyped, TransactionTyped DEF Proceed
<1>2. ASSUME NEW r \in Requests, NEW g \in Glances, Webhook(r, g) \/ AgentPost(r, g) PROVE Typed'
  BY <1>2, ReportTypedStep
<1>3. CASE UNCHANGED vars
  BY <1>3 DEF Typed, TypeOK, WellFormed, vars, registry, events, private, counters, history
<1>4. QED
  BY <1>1, <1>2, <1>3, ClockTyped, StaffTyped, LookTyped DEF Next

(* Every statement of every request keeps the variables in their types,    *)
(* whatever fails and whatever the staff do meanwhile.                     *)
THEOREM TypeCorrect == Spec => []TypeOK
<1>1. Spec => []Typed
  BY TypedInit, TypedStep, PTL DEF Spec
<1>2. Typed => TypeOK
  BY DEF Typed
<1>3. QED
  BY <1>1, <1>2, PTL

-----------------------------------------------------------------------------
(* The instant of a stamp is a number.                                     *)
LEMMA StampTyped ==
    ASSUME Typed, NEW i \in DOMAIN stamps
    PROVE  stamps[i].at \in Int
<1>1. stamps \in Seq(StampEntries)
  BY DEF Typed, TypeOK
<1>2. i \in 1 .. Len(stamps)
  BY <1>1
<1>3. stamps[i] \in StampEntries
  BY <1>1, <1>2, ElementOfSeq
<1>4. QED
  BY <1>3 DEF StampEntries, Times

(* A request's step leaves the other requests and their locks alone.       *)
Only(r) ==
    /\ now' = now
    /\ \A q \in Requests : q # r =>
          step'[q] = step[q] /\ found'[q] = found[q] /\ stampedAt'[q] = stampedAt[q]
    /\ \A d \in Drivers : locks[d] \in Requests \ {r} => locks'[d] = locks[d]

InTransaction == {"guard", "stamp", "commit"}

(* An answer or any other end of a request is such a step.                 *)
LEMMA LeaveOnly ==
    ASSUME Typed, NEW r \in Requests, Leave(r), now' = now
    PROVE  Only(r) /\ step'[r] = "idle"
  BY DEF Typed, TypeOK, Leave, Goto, Only

(* What is not the commit of a stamp, nor a step in the transaction.       *)
Outside(r) ==
    \/ DropDuplicate(r) \/ NoDuplicate(r) \/ Resolve(r) \/ ReadPending(r) \/ CheckTaken(r)
    \/ Link(r) \/ LinkFails(r) \/ Activate(r) \/ Fallback(r) \/ LogUnmatched(r)
    \/ Ignore(r) \/ LogError(r) \/ Rollback(r) \/ Abort(r)
    \/ \E g \in Glances : Webhook(r, g) \/ AgentPost(r, g)

LEMMA OutsideOnly ==
    ASSUME Typed, NEW r \in Requests, Outside(r)
    PROVE  Only(r) /\ stamps' = stamps /\ step'[r] \notin InTransaction
<1>1. CASE DropDuplicate(r) \/ LogUnmatched(r) \/ Ignore(r)
  BY <1>1, LeaveOnly DEF DropDuplicate, LogUnmatched, Ignore, Answer, events, InTransaction
<1>2. CASE LinkFails(r) \/ LogError(r) \/ Abort(r)
  BY <1>2, LeaveOnly DEF LinkFails, LogError, Abort, events, InTransaction
<1>3. CASE NoDuplicate(r) \/ CheckTaken(r)
  BY <1>3 DEF Typed, TypeOK, NoDuplicate, CheckTaken, Goto, Only, events, private, InTransaction
<1>4. CASE Rollback(r)
  BY <1>4 DEF Typed, TypeOK, Rollback, Goto, Only, events, private, InTransaction
<1>5. CASE Resolve(r)
  BY <1>5 DEF Typed, TypeOK, Resolve, Found, Goto, Only, events, InTransaction
<1>6. CASE ReadPending(r)
  BY <1>6 DEF Typed, TypeOK, ReadPending, Goto, Only, events, InTransaction
<1>7. CASE Link(r)
  BY <1>7 DEF Typed, TypeOK, Link, Found, Goto, Only, events, InTransaction
<1>8. CASE Activate(r)
  BY <1>8 DEF Typed, TypeOK, Activate, Found, Goto, Only, events, InTransaction
<1>9. CASE Fallback(r)
  BY <1>9 DEF Typed, TypeOK, Fallback, Found, NotFound, Goto, Only, events, InTransaction
<1>10. CASE \E g \in Glances : Webhook(r, g) \/ AgentPost(r, g)
  BY <1>10 DEF Typed, TypeOK, Webhook, AgentPost, Arrive, Only, events, InTransaction
<1>11. QED
  BY <1>1, <1>2, <1>3, <1>4, <1>5, <1>6, <1>7, <1>8, <1>9, <1>10 DEF Outside

(* The other requests keep what the invariant says of them.                *)
LEMMA OthersKeep ==
    ASSUME Typed, HoldsLock, PastGuard, NEW r \in Requests, Only(r), NEW q \in Requests, q # r
    PROVE  /\ step'[q] \in InTransaction => locks'[found'[q]] = q
           /\ stamps' = stamps => (step'[q] \in {"stamp", "commit"} =>
                \A i \in DOMAIN stamps' : stamps'[i].driver = found'[q] => stamps'[i].at + Guard < LowerEnd(q)')
<1>1. step[q] \in InTransaction => found[q] \in Drivers /\ locks[found[q]] = q
  BY DEF Typed, WellFormed, HoldsLock, InTransaction
<1>2. step'[q] = step[q] /\ found'[q] = found[q] /\ LowerEnd(q)' = LowerEnd(q)
  BY DEF Only, LowerEnd
<1>3. step'[q] \in InTransaction => locks'[found'[q]] = q
  BY <1>1, <1>2 DEF Only
<1>4. QED
  BY <1>2, <1>3 DEF PastGuard

(* What the staff and the agent do to the registry moves no request; one   *)
(* that has read a registration may lose it.                               *)
LEMMA StaffOnly ==
    ASSUME Typed, Staff
    PROVE  /\ UNCHANGED <<now, stamps, logged, locks, step, job, stampedAt, searched, forgotten, late, borrowed>>
           /\ \A q \in Requests : step[q] \notin {"taken", "link"} => found'[q] = found[q]
<1>1. ASSUME NEW D, NEW V, Delete(D, V)
      PROVE  /\ UNCHANGED <<now, stamps, logged, locks, step, job, stampedAt, searched, forgotten, late, borrowed>>
             /\ \A q \in Requests : step[q] \notin {"taken", "link"} => found'[q] = found[q]
  BY <1>1 DEF Delete, events, history
<1>2. ASSUME NEW d \in Drivers, NEW v \in Devices,
             StartPairing(d, v) \/ Queue(d, v)
      PROVE  UNCHANGED <<now, events, locks, step, private, history>>
  BY <1>2 DEF StartPairing, Queue
<1>3. ASSUME NEW d \in Drivers, NEW v \in Devices, (\E id \in PersonIds : Map(d, v, id)) \/ Ack(d, v)
      PROVE  UNCHANGED <<now, events, locks, step, private, forgotten, late, borrowed>>
  BY <1>3 DEF Map, Ack, Linked
<1>4. CASE \E d \in Drivers, s \in {"ACTIVE", "BLOCKED"} : SetStatus(d, s)
  BY <1>4 DEF SetStatus, events, private, history
<1>5. CASE \E d \in Drivers, v \in Devices : StartPairing(d, v) \/ Queue(d, v)
  BY <1>2, <1>5 DEF events, private, history
<1>6. CASE \E d \in Drivers, v \in Devices : Ack(d, v) \/ \E id \in PersonIds : Map(d, v, id)
  BY <1>3, <1>6 DEF events, private
<1>7. CASE \E d \in Drivers : SoftDelete(d) \/ \E v \in Devices : Unlink(d, v)
  BY <1>1, <1>7 DEF SoftDelete, Unlink
<1>8. QED
  BY <1>4, <1>5, <1>6, <1>7 DEF Staff

(* Steps outside the transaction, and the world's.                         *)
LEMMA OutsideKeeps ==
    ASSUME IInv, NEW r \in Requests, Outside(r)
    PROVE  HoldsLock' /\ PastGuard' /\ MinGap'
<1>1. Only(r) /\ stamps' = stamps /\ step'[r] \notin InTransaction
  BY OutsideOnly DEF IInv
<1>2. MinGap'
  BY <1>1 DEF IInv, MinGap
<1>3. QED
  BY <1>1, <1>2, OthersKeep DEF IInv, HoldsLock, PastGuard, InTransaction

(* A step of the world: time, an event, an event out of reach, the staff.  *)
World == Tick \/ Staff \/ (\E g \in Glances : Look(g) \/ Recede(g)) \/ UNCHANGED vars

LEMMA WorldOnly ==
    ASSUME Typed, World
    PROVE  /\ UNCHANGED <<stamps, locks, step, job, stampedAt, searched, late, borrowed>>
           /\ forgotten \subseteq forgotten'
           /\ now' = now \/ Tick
           /\ \A q \in Requests : step[q] \notin {"taken", "link"} => found'[q] = found[q]
<1>1. CASE Staff
  BY <1>1, StaffOnly
<1>2. CASE Tick \/ (\E g \in Glances : Look(g) \/ Recede(g)) \/ UNCHANGED vars
  BY <1>2 DEF Tick, Look, Recede, vars, events, private, history
<1>3. QED
  BY <1>1, <1>2 DEF World

LEMMA WorldKeeps ==
    ASSUME IInv, World
    PROVE  HoldsLock' /\ PastGuard' /\ MinGap'
<1>1. /\ UNCHANGED <<stamps, locks, step, stampedAt>>
      /\ now' = now \/ now' = now + 1
      /\ \A q \in Requests : step[q] \in InTransaction => found'[q] = found[q]
  BY WorldOnly DEF IInv, Tick, InTransaction
<1>2. now \in Int /\ now' \in Int /\ now <= now'
  BY <1>1 DEF IInv, Typed, TypeOK, Times
<1>3. HoldsLock'
  BY <1>1 DEF IInv, HoldsLock, InTransaction
<1>4. ASSUME NEW q \in Requests, step[q] \in {"stamp", "commit"},
             NEW i \in DOMAIN stamps, stamps[i].driver = found[q]
      PROVE  stamps[i].at + Guard < LowerEnd(q)'
  <2>1. stamps[i].at + Guard < LowerEnd(q)
    BY <1>4 DEF IInv, PastGuard
  <2>2. stamps[i].at \in Int
    BY StampTyped DEF IInv
  <2>3. stampedAt[q] \in Int
    BY DEF IInv, Typed, TypeOK, Times
  <2>4. QED
    BY <1>1, <1>2, <2>1, <2>2, <2>3, GuardNat DEF LowerEnd
<1>5. PastGuard'
  BY <1>1, <1>4 DEF PastGuard, InTransaction
<1>6. MinGap'
  BY <1>1 DEF IInv, MinGap
<1>7. QED
  BY <1>3, <1>5, <1>6

(* The statements of the transaction.                                      *)
LEMMA TransactionKeeps ==
    ASSUME IInv, NEW r \in Requests, LockDriver(r) \/ PassGuard(r) \/ InsertStamp(r)
    PROVE  HoldsLock' /\ PastGuard' /\ MinGap'
<1>0. stamps' = stamps /\ now \in Int /\ now' = now
  BY DEF IInv, Typed, TypeOK, Times, LockDriver, PassGuard, InsertStamp, events
<1>1. MinGap'
  BY <1>0 DEF IInv, MinGap
<1>2. ASSUME NEW i \in DOMAIN stamps PROVE stamps[i].at \in Int
  BY StampTyped DEF IInv
<1>3. CASE LockDriver(r)
  <2>1. Only(r) /\ step'[r] = "guard" /\ found'[r] = found[r]
    BY <1>3, NothingAssumption DEF IInv, Typed, TypeOK, WellFormed, LockDriver, Goto, Only, private
  <2>2. locks'[found[r]] = r
    BY <1>3 DEF IInv, Typed, TypeOK, WellFormed, LockDriver
  <2>3. QED
    BY <1>0, <1>1, <2>1, <2>2, OthersKeep DEF IInv, HoldsLock, PastGuard, InTransaction
<1>4. CASE PassGuard(r)
  <2>1. Only(r) /\ step'[r] = "stamp" /\ found'[r] = found[r] /\ locks' = locks
    BY <1>4 DEF IInv, Typed, TypeOK, PassGuard, Goto, Only, private
  <2>2. locks[found[r]] = r
    BY <1>4 DEF IInv, HoldsLock, PassGuard
  <2>3. ASSUME NEW i \in DOMAIN stamps, stamps[i].driver = found[r]
        PROVE  stamps[i].at + Guard < now
    <3>1. ~ (stamps[i].at >= now - Guard)
      BY <1>4, <2>3 DEF PassGuard, Guarded, StampedRecently, Recent
    <3>2. QED
      BY <1>0, <1>2, <3>1, GuardNat
  <2>4. LowerEnd(r)' = now
    BY <1>0, <2>1 DEF LowerEnd
  <2>5. QED
    BY <1>0, <1>1, <2>1, <2>2, <2>3, <2>4, OthersKeep DEF IInv, HoldsLock, PastGuard, InTransaction
<1>5. CASE InsertStamp(r)
  <2>1. Only(r) /\ step'[r] = "commit" /\ found'[r] = found[r] /\ locks' = locks /\ stampedAt'[r] = now
    BY <1>5 DEF IInv, Typed, TypeOK, InsertStamp, Goto, Only
  <2>2. locks[found[r]] = r
    BY <1>5 DEF IInv, HoldsLock, InsertStamp
  <2>3. LowerEnd(r) = now /\ LowerEnd(r)' = now /\ step[r] = "stamp"
    BY <1>5, <2>1 DEF LowerEnd, InsertStamp
  <2>4. QED
    BY <1>0, <1>1, <2>1, <2>2, <2>3, OthersKeep DEF IInv, HoldsLock, PastGuard, InTransaction
<1>6. QED
  BY <1>3, <1>4, <1>5

(* The commit appends a stamp that is past the guard of all others of the  *)
(* driver; no other request has this driver's lock.                        *)
LEMMA CommitKeeps ==
    ASSUME IInv, NEW r \in Requests, Commit(r)
    PROVE  HoldsLock' /\ PastGuard' /\ MinGap'
<1> DEFINE n == Len(stamps) + 1
<1>1. found[r] \in Drivers /\ locks[found[r]] = r /\ step[r] = "commit"
  BY DEF IInv, Typed, WellFormed, HoldsLock, Commit
<1>2. Only(r) /\ step'[r] = "idle"
  BY LeaveOnly DEF IInv, Commit, Answer
<1>3. /\ DOMAIN stamps' = DOMAIN stamps \cup {n}
      /\ DOMAIN stamps = 1 .. Len(stamps) /\ Len(stamps) \in Nat
      /\ \A i \in DOMAIN stamps : stamps'[i] = stamps[i]
      /\ stamps'[n] = StampOf(r)
  BY DEF IInv, Typed, TypeOK, Commit
<1>4. stamps'[n].driver = found[r] /\ stamps'[n].at = stampedAt[r]
  BY <1>3 DEF StampOf
<1>5. ASSUME NEW i \in DOMAIN stamps, stamps[i].driver = found[r]
      PROVE  stamps[i].at + Guard < stampedAt[r]
  BY <1>1, <1>5 DEF IInv, PastGuard, LowerEnd
<1>6. MinGap'
  <2>1. SUFFICES ASSUME NEW i \in DOMAIN stamps', NEW k \in DOMAIN stamps', i < k,
                        stamps'[i].driver = stamps'[k].driver
                 PROVE  stamps'[k].at > stamps'[i].at + Guard
    BY DEF MinGap
  <2>2. i \in DOMAIN stamps
    BY <1>3, <2>1
  <2>3. CASE k \in DOMAIN stamps
    BY <1>3, <2>1, <2>2, <2>3 DEF IInv, MinGap
  <2>4. CASE k = n
    <3>1. stamps[i].at \in Int /\ stampedAt[r] \in Int
      BY <2>2, StampTyped DEF IInv, Typed, TypeOK, Times
    <3>2. QED
      BY <1>3, <1>4, <1>5, <2>1, <2>2, <2>4, <3>1, GuardNat
  <2>5. QED
    BY <1>3, <2>3, <2>4
<1>7. ASSUME NEW q \in Requests, q # r, step'[q] \in {"stamp", "commit"},
             NEW i \in DOMAIN stamps', stamps'[i].driver = found'[q]
      PROVE  stamps'[i].at + Guard < LowerEnd(q)'
  <2>1. step[q] = step'[q] /\ found'[q] = found[q] /\ LowerEnd(q)' = LowerEnd(q)
    BY <1>2, <1>7 DEF Only, LowerEnd
  <2>2. locks[found[q]] = q
    BY <1>7, <2>1 DEF IInv, HoldsLock
  <2>3. found[q] # found[r]
    BY <1>1, <1>7, <2>2
  <2>4. i \in DOMAIN stamps
    BY <1>3, <1>4, <1>7, <2>1, <2>3
  <2>5. QED
    BY <1>3, <1>7, <2>1, <2>4 DEF IInv, PastGuard
<1>8. PastGuard'
  BY <1>2, <1>7 DEF PastGuard
<1>9. HoldsLock'
  BY <1>2, OthersKeep DEF IInv, HoldsLock, InTransaction
<1>10. QED
  BY <1>6, <1>8, <1>9

-----------------------------------------------------------------------------
(* The invariant is inductive.                                             *)
LEMMA InvariantInit == Init => IInv
<1>1. Init => HoldsLock /\ PastGuard /\ MinGap
  BY DEF Init, HoldsLock, PastGuard, MinGap
<1>2. QED
  BY <1>1, TypedInit DEF IInv

LEMMA InvariantStep == IInv /\ [Next]_vars => IInv'
<1> SUFFICES ASSUME IInv, [Next]_vars PROVE IInv'
  OBVIOUS
<1>1. Typed'
  BY TypedStep DEF IInv
<1>2. ASSUME NEW r \in Requests, NEW g \in Glances, Webhook(r, g) \/ AgentPost(r, g)
      PROVE  HoldsLock' /\ PastGuard' /\ MinGap'
  BY <1>2, OutsideKeeps DEF Outside
<1>3. ASSUME NEW r \in Requests, Proceed(r) \/ Rollback(r) \/ Abort(r)
      PROVE  HoldsLock' /\ PastGuard' /\ MinGap'
  <2>1. Outside(r) \/ LockDriver(r) \/ PassGuard(r) \/ InsertStamp(r) \/ Commit(r)
    BY <1>3 DEF Proceed, Outside
  <2>2. QED
    BY <2>1, OutsideKeeps, TransactionKeeps, CommitKeeps
<1>4. CASE World
  BY <1>1, <1>4, WorldKeeps DEF IInv
<1>5. QED
  BY <1>1, <1>2, <1>3, <1>4 DEF IInv, Next, World

(* Two stamps of a driver are always more than the guard apart, however    *)
(* many terminals, paths, retries and failures there are: the guard of     *)
(* ingestFaceMatch under the driver's advisory lock is enough, although    *)
(* the driver was resolved, and the duplicate looked for, without it.      *)
THEOREM StampsApart == Spec => []MinGap
<1>1. Spec => []IInv
  BY InvariantInit, InvariantStep, PTL DEF Spec
<1>2. IInv => MinGap
  BY DEF IInv
<1>3. QED
  BY <1>1, <1>2, PTL

-----------------------------------------------------------------------------
(* An event of the agent is stamped once                                   *)

(* A search lies in the past, and a row that waits for its commit is no    *)
(* older than its transaction may be.                                      *)
Timely ==
    \A r \in Requests :
        /\ searched[r] <= now
        /\ step[r] = "commit" => stampedAt[r] <= now /\ now <= stampedAt[r] + Life

(* The search for the dedupe key is behind it.                             *)
Looked == Steps \ {"idle", "dedupe"}

(* A stamp of the event at hand, which the search has not seen although it *)
(* was in its reach, was committed since.                                  *)
Overlapped ==
    \A r \in Requests :
        step[r] \in Looked /\ job[r].path = "agent" /\ job[r].glance \notin forgotten =>
            \A i \in DOMAIN stamps :
                stamps[i].path = "agent" /\ stamps[i].glance = job[r].glance =>
                    searched[r] <= stamps[i].at + Life

(* Such a stamp was still in the guard's window, unless this request came  *)
(* to the guard late; under the lock no other is made for its driver.      *)
FirstOfDriver ==
    \A r \in Requests :
        step[r] \in {"stamp", "commit"} /\ job[r].path = "agent" /\ job[r].glance \notin forgotten \cup late =>
            \A i \in DOMAIN stamps :
                stamps[i].path = "agent" /\ stamps[i].glance = job[r].glance => stamps[i].driver # found[r]

(* An event of the agent is stamped once for each driver it is taken for.  *)
StampedOncePerDriver ==
    \A i, k \in DOMAIN stamps :
        /\ stamps[i].path = "agent" /\ stamps[k].path = "agent"
        /\ stamps[i].glance = stamps[k].glance /\ stamps[i].driver = stamps[k].driver
        /\ stamps[i].glance \notin forgotten \cup late
        => i = k

DedupeInv == Timely /\ Overlapped /\ FirstOfDriver

(* How a request's step changes what DedupeInv speaks of: it goes on or    *)
(* ends, without a new stamp and without forgetting what it reports.       *)
GoesOn(r) ==
    /\ Only(r) /\ UNCHANGED <<stamps, forgotten>> /\ late \subseteq late'
    /\ \A q \in Requests \ {r} : job'[q] = job[q] /\ searched'[q] = searched[q]
    /\ searched'[r] \in {0, searched[r], now}
    /\ step'[r] = "commit" => stampedAt'[r] = now
    /\ step'[r] \in Looked =>
          /\ job'[r] = job[r]
          /\ (step[r] \in Looked /\ searched'[r] = searched[r]) \/ Overlooked(job[r].glance)
    /\ step'[r] \in {"stamp", "commit"} =>
          /\ step[r] \in {"guard", "stamp"} /\ found'[r] = found[r]
          /\ step[r] = "guard" => ~ Guarded(r) /\ (TooLate(r) => job[r].glance \in late')

(* The times that DedupeInv compares are numbers.                          *)
LEMMA InstantsTyped ==
    ASSUME Typed
    PROVE  /\ now \in Nat /\ Life \in Nat /\ Guard \in Nat
           /\ \A q \in Requests : searched[q] \in Int /\ stampedAt[q] \in Int
           /\ \A i \in DOMAIN stamps : stamps[i].at \in Int
<1>1. \A i \in DOMAIN stamps : stamps[i].at \in Int
  BY StampTyped
<1>2. QED
  BY <1>1, GuardNat, TimesAssumption DEF Typed, TypeOK, Times

LEMMA LeaveGoesOn ==
    ASSUME Typed, NEW r \in Requests, Leave(r), UNCHANGED <<now, stamps, forgotten, late>>
    PROVE  GoesOn(r)
<1>1. Only(r) /\ step'[r] = "idle"
  BY LeaveOnly
<1>2. QED
  BY <1>1 DEF Typed, TypeOK, Leave, GoesOn, Looked

(* A statement that leaves the request its report.                         *)
LEMMA KeepGoesOn ==
    ASSUME Typed, NEW r \in Requests, Only(r), UNCHANGED <<stamps, job, searched, forgotten, late>>,
           step[r] \in Looked, step'[r] \notin {"stamp", "commit"}
    PROVE  GoesOn(r)
  BY DEF GoesOn

LEMMA ArriveGoesOn ==
    ASSUME Typed, NEW r \in Requests, NEW g \in Glances, AgentPost(r, g)
    PROVE  GoesOn(r)
<1>1. Arrive(r, g, "agent", "dedupe")
  BY DEF AgentPost
<1>2. Only(r) /\ step'[r] = "dedupe" /\ UNCHANGED <<stamps, searched, forgotten, late>>
  BY <1>1 DEF Typed, TypeOK, Arrive, Only, events, history
<1>3. \A q \in Requests \ {r} : job'[q] = job[q]
  BY <1>1 DEF Typed, TypeOK, Arrive
<1>4. QED
  BY <1>2, <1>3 DEF GoesOn, Looked

LEMMA StatementGoesOn ==
    ASSUME Typed, NEW r \in Requests,
           \/ Outside(r) /\ ~ \E g \in Glances : Webhook(r, g)
           \/ LockDriver(r) \/ PassGuard(r) \/ InsertStamp(r)
    PROVE  GoesOn(r)
<1>1. CASE DropDuplicate(r) \/ LogUnmatched(r) \/ Ignore(r)
  BY <1>1, LeaveGoesOn DEF DropDuplicate, LogUnmatched, Ignore, Answer, events, history
<1>2. CASE LinkFails(r) \/ LogError(r) \/ Abort(r)
  BY <1>2, LeaveGoesOn DEF LinkFails, LogError, Abort, events, history
<1>3. CASE NoDuplicate(r)
  <2>1. Only(r) /\ step'[r] = "resolve"
    BY <1>3, OutsideOnly DEF Outside, Typed, TypeOK, NoDuplicate, Goto
  <2>2. searched'[r] = now /\ \A q \in Requests \ {r} : searched'[q] = searched[q]
    BY <1>3 DEF NoDuplicate, Typed, TypeOK
  <2>3. QED
    BY <1>3, <2>1, <2>2 DEF NoDuplicate, GoesOn, events, history
<1>4. CASE \/ Resolve(r) \/ ReadPending(r) \/ CheckTaken(r) \/ Link(r) \/ Activate(r) \/ Fallback(r)
           \/ Rollback(r)
  <2>1. Only(r) /\ stamps' = stamps /\ step'[r] \notin InTransaction
    BY <1>4, OutsideOnly DEF Outside
  <2>2. step[r] \in Looked /\ UNCHANGED <<job, searched>>
    BY <1>4 DEF Resolve, ReadPending, CheckTaken, Link, Activate, Fallback, Rollback, private, Looked, Steps
  <2>3. UNCHANGED <<forgotten, late>>
    BY <1>4 DEF Resolve, ReadPending, CheckTaken, Link, Linked, Activate, Fallback, Borrow, Rollback, history
  <2>4. QED
    BY <2>1, <2>2, <2>3, KeepGoesOn DEF InTransaction
<1>5. CASE LockDriver(r)
  <2>1. Only(r) /\ step'[r] = "guard"
    BY <1>5, NothingAssumption DEF Typed, TypeOK, WellFormed, LockDriver, Goto, Only, private
  <2>2. QED
    BY <1>5, <2>1, KeepGoesOn DEF LockDriver, events, private, history, Looked, Steps
<1>6. CASE PassGuard(r)
  <2>1. Only(r) /\ step'[r] = "stamp"
    BY <1>6 DEF Typed, TypeOK, PassGuard, Goto, Only, private
  <2>2. step[r] = "guard" /\ ~ Guarded(r) /\ UNCHANGED <<stamps, job, searched, found, forgotten>>
    BY <1>6 DEF PassGuard, events, private
  <2>3. late \subseteq late' /\ (TooLate(r) => job[r].glance \in late')
    BY <1>6 DEF PassGuard
  <2>4. QED
    BY <2>1, <2>2, <2>3 DEF GoesOn, Looked, Steps
<1>7. CASE InsertStamp(r)
  <2>1. Only(r) /\ step'[r] = "commit" /\ stampedAt'[r] = now
    BY <1>7 DEF Typed, TypeOK, InsertStamp, Goto, Only
  <2>2. QED
    BY <1>7, <2>1 DEF InsertStamp, events, history, GoesOn, Looked, Steps
<1>8. QED
  BY <1>1, <1>2, <1>3, <1>4, <1>5, <1>6, <1>7, ArriveGoesOn DEF Outside

(* The dedupe key was overlooked, or the event is out of the search's      *)
(* reach: no stamp of it is in the log.                                    *)
LEMMA OverlookedNew ==
    ASSUME NEW g, Overlooked(g), g \notin forgotten, NEW i \in DOMAIN stamps,
           stamps[i].path = "agent"
    PROVE  stamps[i].glance # g
  BY DEF Overlooked, Logged

(* At the guard, a stamp of the event since the search is still recent.    *)
LEMMA GuardSees ==
    ASSUME Typed, Overlapped, NEW r \in Requests, step[r] = "guard", ~ Guarded(r), ~ TooLate(r),
           job[r].path = "agent", job[r].glance \notin forgotten,
           NEW i \in DOMAIN stamps, stamps[i].path = "agent", stamps[i].glance = job[r].glance
    PROVE  stamps[i].driver # found[r]
<1>1. searched[r] <= stamps[i].at + Life
  BY DEF Overlapped, Looked, Steps
<1>2. now <= searched[r] + Guard - Life
  BY InstantsTyped DEF TooLate
<1>3. Recent(i)
  BY <1>1, <1>2, InstantsTyped DEF Recent
<1>4. QED
  BY <1>3 DEF Guarded, StampedRecently

LEMMA GoesOnKeepsDedupe ==
    ASSUME Typed, DedupeInv, NEW r \in Requests, GoesOn(r)
    PROVE  DedupeInv'
<1>1. ASSUME NEW q \in Requests, q # r
      PROVE  /\ step'[q] = step[q] /\ job'[q] = job[q] /\ searched'[q] = searched[q]
             /\ stampedAt'[q] = stampedAt[q] /\ found'[q] = found[q]
  BY <1>1 DEF GoesOn, Only
<1>2. /\ now' = now /\ UNCHANGED <<stamps, forgotten>> /\ late \subseteq late'
  BY DEF GoesOn, Only
<1>3. Timely'
  <2>1. /\ searched'[r] <= now
        /\ step'[r] = "commit" => stampedAt'[r] <= now /\ now <= stampedAt'[r] + Life
    BY InstantsTyped DEF DedupeInv, Timely, GoesOn
  <2>2. QED
    BY <1>1, <1>2, <2>1 DEF DedupeInv, Timely
<1>4. Overlapped'
  <2>1. SUFFICES ASSUME NEW q \in Requests, step'[q] \in Looked, job'[q].path = "agent",
                        job'[q].glance \notin forgotten,
                        NEW i \in DOMAIN stamps, stamps[i].path = "agent",
                        stamps[i].glance = job'[q].glance
                 PROVE  searched'[q] <= stamps[i].at + Life
    BY <1>2 DEF Overlapped
  <2>2. CASE q # r
    BY <1>1, <2>1, <2>2 DEF DedupeInv, Overlapped
  <2>3. CASE q = r
    <3>1. job'[r] = job[r]
      BY <2>1, <2>3 DEF GoesOn
    <3>2. ~ Overlooked(job[r].glance)
      BY <2>1, <2>3, <3>1, OverlookedNew
    <3>3. step[r] \in Looked /\ searched'[r] = searched[r]
      BY <2>1, <2>3, <3>2 DEF GoesOn
    <3>4. QED
      BY <2>1, <2>3, <3>1, <3>3 DEF DedupeInv, Overlapped
  <2>4. QED
    BY <2>2, <2>3
<1>5. FirstOfDriver'
  <2>1. SUFFICES ASSUME NEW q \in Requests, step'[q] \in {"stamp", "commit"}, job'[q].path = "agent",
                        job'[q].glance \notin forgotten \cup late',
                        NEW i \in DOMAIN stamps, stamps[i].path = "agent",
                        stamps[i].glance = job'[q].glance
                 PROVE  stamps[i].driver # found'[q]
    BY <1>2 DEF FirstOfDriver
  <2>2. job'[q].glance \notin forgotten \cup late
    BY <1>2, <2>1
  <2>3. CASE q # r
    BY <1>1, <2>1, <2>2, <2>3 DEF DedupeInv, FirstOfDriver
  <2>4. CASE q = r
    <3>1. job'[r] = job[r] /\ found'[r] = found[r] /\ step[r] \in {"guard", "stamp"}
      BY <2>1, <2>4 DEF GoesOn, Looked, Steps
    <3>2. CASE step[r] = "stamp"
      BY <2>1, <2>2, <2>4, <3>1, <3>2 DEF DedupeInv, FirstOfDriver
    <3>3. CASE step[r] = "guard"
      <4>1. ~ Guarded(r) /\ ~ TooLate(r)
        BY <2>1, <2>4, <3>1, <3>3 DEF GoesOn
      <4>2. QED
        BY <2>1, <2>4, <3>1, <3>3, <4>1, GuardSees DEF DedupeInv
    <3>4. QED
      BY <3>1, <3>2, <3>3
  <2>5. QED
    BY <2>3, <2>4
<1>6. QED
  BY <1>3, <1>4, <1>5 DEF DedupeInv

(* The clock moves, events fall out of reach, the staff work.              *)
LEMMA WorldKeepsDedupe ==
    ASSUME Typed, DedupeInv, World
    PROVE  DedupeInv'
<1>1. /\ UNCHANGED <<stamps, step, job, stampedAt, searched, late>> /\ forgotten \subseteq forgotten'
      /\ now' = now \/ Tick
  BY WorldOnly
<1>2. ASSUME NEW q \in Requests, step[q] \in {"stamp", "commit"} PROVE found'[q] = found[q]
  BY <1>2, WorldOnly
<1>3. Timely'
  <2>1. CASE now' = now
    BY <1>1, <2>1 DEF DedupeInv, Timely
  <2>2. CASE Tick
    BY <1>1, <2>2, InstantsTyped DEF DedupeInv, Timely, Tick
  <2>3. QED
    BY <1>1, <2>1, <2>2
<1>4. Overlapped'
  BY <1>1 DEF DedupeInv, Overlapped
<1>5. FirstOfDriver'
  BY <1>1, <1>2 DEF DedupeInv, FirstOfDriver
<1>6. QED
  BY <1>3, <1>4, <1>5 DEF DedupeInv

(* A webhook has no dedupe key.                                            *)
LEMMA WebhookKeepsDedupe ==
    ASSUME Typed, DedupeInv, NEW r \in Requests, NEW g \in Glances, Webhook(r, g)
    PROVE  DedupeInv'
<1>1. Arrive(r, g, "webhook", "resolve")
  BY DEF Webhook
<1>2. /\ UNCHANGED <<now, stampedAt, stamps, searched, found, forgotten, late>>
      /\ step'[r] = "resolve" /\ job'[r].path = "webhook"
      /\ \A q \in Requests : q # r => step'[q] = step[q] /\ job'[q] = job[q]
  BY <1>1 DEF Arrive, Typed, TypeOK, events, history
<1>3. QED
  BY <1>2 DEF DedupeInv, Timely, Overlapped, FirstOfDriver

(* A commit: whoever is still under way has searched before it, and two    *)
(* requests of one driver are not both past the lock.                      *)
LEMMA CommitKeepsDedupe ==
    ASSUME IInv, DedupeInv, NEW r \in Requests, Commit(r)
    PROVE  DedupeInv'
<1> DEFINE n == Len(stamps) + 1
<1>0. Typed
  BY DEF IInv
<1>1. /\ DOMAIN stamps' = DOMAIN stamps \cup {n}
      /\ \A i \in DOMAIN stamps : stamps'[i] = stamps[i]
      /\ stamps'[n].driver = found[r] /\ stamps'[n].at = stampedAt[r]
      /\ step[r] = "commit"
  BY DEF IInv, Typed, TypeOK, Commit, StampOf
<1>2. /\ now' = now /\ step'[r] = "idle" /\ UNCHANGED <<forgotten, late>> /\ searched'[r] = 0
      /\ \A q \in Requests : q # r =>
            /\ step'[q] = step[q] /\ job'[q] = job[q] /\ searched'[q] = searched[q]
            /\ stampedAt'[q] = stampedAt[q] /\ found'[q] = found[q]
  BY DEF IInv, Typed, TypeOK, Commit, Answer, Leave, Goto, history
<1>3. Timely'
  BY <1>0, <1>2, InstantsTyped DEF DedupeInv, Timely
<1>4. Overlapped'
  <2>1. SUFFICES ASSUME NEW q \in Requests, step'[q] \in Looked, job'[q].path = "agent",
                        job'[q].glance \notin forgotten,
                        NEW i \in DOMAIN stamps', stamps'[i].path = "agent",
                        stamps'[i].glance = job'[q].glance
                 PROVE  searched'[q] <= stamps'[i].at + Life
    BY <1>2 DEF Overlapped
  <2>2. q # r
    BY <1>2, <2>1 DEF Looked
  <2>3. CASE i \in DOMAIN stamps
    BY <1>1, <1>2, <2>1, <2>2, <2>3 DEF DedupeInv, Overlapped
  <2>4. CASE i = n
    <3>1. searched[q] <= now /\ now <= stampedAt[r] + Life
      BY <1>1 DEF DedupeInv, Timely
    <3>2. QED
      BY <1>0, <1>1, <1>2, <2>2, <2>4, <3>1, InstantsTyped
  <2>5. QED
    BY <1>1, <2>3, <2>4
<1>5. FirstOfDriver'
  <2>1. SUFFICES ASSUME NEW q \in Requests, step'[q] \in {"stamp", "commit"}, job'[q].path = "agent",
                        job'[q].glance \notin forgotten \cup late,
                        NEW i \in DOMAIN stamps', stamps'[i].path = "agent",
                        stamps'[i].glance = job'[q].glance
                 PROVE  stamps'[i].driver # found'[q]
    BY <1>2 DEF FirstOfDriver
  <2>2. q # r
    BY <1>2, <2>1
  <2>3. CASE i \in DOMAIN stamps
    BY <1>1, <1>2, <2>1, <2>2, <2>3 DEF DedupeInv, FirstOfDriver
  <2>4. CASE i = n
    <3>1. locks[found[r]] = r /\ locks[found[q]] = q
      BY <1>1, <1>2, <2>1, <2>2 DEF IInv, HoldsLock
    <3>2. QED
      BY <1>1, <1>2, <2>2, <2>4, <3>1
  <2>5. QED
    BY <1>1, <2>3, <2>4
<1>6. QED
  BY <1>3, <1>4, <1>5 DEF DedupeInv

LEMMA DedupeStep == IInv /\ DedupeInv /\ [Next]_vars => DedupeInv'
<1> SUFFICES ASSUME IInv, DedupeInv, [Next]_vars PROVE DedupeInv'
  OBVIOUS
<1>0. Typed
  BY DEF IInv
<1>1. ASSUME NEW r \in Requests, Proceed(r) \/ Rollback(r) \/ Abort(r)
      PROVE  DedupeInv'
  <2>1. CASE Commit(r)
    BY <2>1, CommitKeepsDedupe
  <2>2. CASE ~ Commit(r)
    <3>1. \/ DropDuplicate(r) \/ NoDuplicate(r) \/ Resolve(r) \/ ReadPending(r) \/ CheckTaken(r)
          \/ Link(r) \/ LinkFails(r) \/ Activate(r) \/ Fallback(r) \/ LogUnmatched(r)
          \/ Ignore(r) \/ LogError(r) \/ Rollback(r) \/ Abort(r)
          \/ LockDriver(r) \/ PassGuard(r) \/ InsertStamp(r)
      BY <1>1, <2>2 DEF Proceed
    <3>2. step[r] # "idle"
      BY <3>1 DEF DropDuplicate, NoDuplicate, Resolve, ReadPending, CheckTaken, Link, LinkFails, Activate,
                  Fallback, LogUnmatched, Ignore, LogError, Rollback, Abort, LockDriver, PassGuard, InsertStamp
    <3>3. ~ \E g \in Glances : Webhook(r, g)
      BY <3>2 DEF Webhook, Arrive
    <3>4. GoesOn(r)
      BY <1>0, <3>1, <3>3, StatementGoesOn DEF Outside
    <3>5. QED
      BY <1>0, <3>4, GoesOnKeepsDedupe
  <2>3. QED
    BY <2>1, <2>2
<1>2. ASSUME NEW r \in Requests, NEW g \in Glances, Webhook(r, g) \/ AgentPost(r, g)
      PROVE  DedupeInv'
  BY <1>0, <1>2, WebhookKeepsDedupe, ArriveGoesOn, GoesOnKeepsDedupe
<1>3. CASE World
  BY <1>0, <1>3, WorldKeepsDedupe
<1>4. QED
  BY <1>1, <1>2, <1>3 DEF Next, World

(* Only a commit adds a stamp.                                             *)
LEMMA StampsChange ==
    ASSUME Typed, [Next]_vars
    PROVE  UNCHANGED stamps \/ \E r \in Requests : Commit(r)
<1>1. ASSUME NEW r \in Requests, Proceed(r) \/ Rollback(r) \/ Abort(r)
      PROVE  UNCHANGED stamps \/ Commit(r)
  BY <1>1 DEF Proceed, DropDuplicate, NoDuplicate, Resolve, ReadPending, CheckTaken, Link, LinkFails,
              Activate, Fallback, LogUnmatched, LockDriver, Ignore, PassGuard, InsertStamp, LogError,
              Rollback, Abort, events
<1>2. ASSUME NEW r \in Requests, NEW g \in Glances, Webhook(r, g) \/ AgentPost(r, g)
      PROVE  UNCHANGED stamps
  BY <1>2 DEF Webhook, AgentPost, Arrive, events
<1>3. QED
  BY <1>1, <1>2, WorldOnly DEF Next, World

(* The histories only grow.                                                *)
LEMMA HistoryGrows ==
    ASSUME Typed, [Next]_vars
    PROVE  /\ forgotten \subseteq forgotten' /\ late \subseteq late'
           /\ crossed \subseteq crossed' /\ borrowed \subseteq borrowed'
<1>1. ASSUME NEW r \in Requests, Proceed(r) \/ Rollback(r) \/ Abort(r)
      PROVE  /\ forgotten \subseteq forgotten' /\ late \subseteq late'
             /\ crossed \subseteq crossed' /\ borrowed \subseteq borrowed'
  <2>1. CASE \/ DropDuplicate(r) \/ NoDuplicate(r) \/ ReadPending(r) \/ CheckTaken(r) \/ LinkFails(r)
             \/ Activate(r) \/ LogUnmatched(r) \/ LockDriver(r) \/ Ignore(r) \/ InsertStamp(r)
             \/ Commit(r) \/ LogError(r) \/ Rollback(r) \/ Abort(r)
    BY <2>1 DEF DropDuplicate, NoDuplicate, ReadPending, CheckTaken, LinkFails, Activate, LogUnmatched,
                LockDriver, Ignore, InsertStamp, Commit, LogError, Rollback, Abort, history
  <2>2. CASE Resolve(r) \/ Fallback(r)
    BY <2>2 DEF Resolve, Fallback, Borrow, history
  <2>3. CASE Link(r)
    BY <2>3 DEF Link, Linked
  <2>4. CASE PassGuard(r)
    BY <2>4 DEF PassGuard
  <2>5. QED
    BY <1>1, <2>1, <2>2, <2>3, <2>4 DEF Proceed
<1>2. ASSUME NEW r \in Requests, NEW g \in Glances, Webhook(r, g) \/ AgentPost(r, g)
      PROVE  UNCHANGED history
  BY <1>2 DEF Webhook, AgentPost, Arrive
<1>3. CASE World
  <2>1. UNCHANGED <<late, borrowed>> /\ forgotten \subseteq forgotten'
    BY <1>3, WorldOnly
  <2>2. CASE Staff
    BY <2>1, <2>2 DEF Staff, SetStatus, StartPairing, Queue, Map, Ack, Linked, Unlink, SoftDelete, Delete, history
  <2>3. CASE ~ Staff
    BY <1>3, <2>1, <2>3 DEF World, Tick, Look, Recede, vars, history
  <2>4. QED
    BY <2>2, <2>3
<1>4. QED
  BY <1>1, <1>2, <1>3 DEF Next, World, history

(* The commit of a second stamp for the same event and driver: the first   *)
(* was in the log already when the search looked, or in the guard's window *)
(* when the guard did.                                                     *)
LEMMA OncePerDriverStep ==
    ASSUME IInv, DedupeInv, StampedOncePerDriver, [Next]_vars
    PROVE  StampedOncePerDriver'
<1>0. Typed /\ forgotten \cup late \subseteq forgotten' \cup late'
  BY HistoryGrows DEF IInv
<1>1. CASE UNCHANGED stamps
  BY <1>0, <1>1 DEF StampedOncePerDriver
<1>2. ASSUME NEW r \in Requests, Commit(r)
      PROVE  StampedOncePerDriver'
  <2> DEFINE n == Len(stamps) + 1
  <2>1. /\ DOMAIN stamps' = DOMAIN stamps \cup {n}
        /\ \A i \in DOMAIN stamps : stamps'[i] = stamps[i]
        /\ stamps'[n] = StampOf(r)
        /\ step[r] = "commit"
    BY <1>2 DEF IInv, Typed, TypeOK, Commit
  <2>2. ASSUME NEW i \in DOMAIN stamps, job[r].path = "agent", stamps[i].path = "agent",
               stamps[i].glance = job[r].glance, stamps[i].driver = found[r]
        PROVE  job[r].glance \in forgotten \cup late
    BY <2>1, <2>2 DEF DedupeInv, FirstOfDriver
  <2>3. QED
    BY <1>0, <2>1, <2>2 DEF StampOf, StampedOncePerDriver
<1>3. QED
  BY <1>0, <1>1, <1>2, StampsChange

(* An event that the agent posts again and again, that several requests    *)
(* carry at once, and whose driver the staff link, unlink, pair, map and   *)
(* block meanwhile, is stamped at most once for a driver, unless its first *)
(* event was out of the search's reach, or one of its posts came to the    *)
(* guard after the other's stamp had left the guard's window: the search   *)
(* for the dedupe key need not be repeated under the lock.                 *)
THEOREM StampedOncePerDriverHolds == Spec => []StampedOncePerDriver
<1>1. Init => IInv /\ DedupeInv /\ StampedOncePerDriver
  <2>1. Init => DedupeInv /\ StampedOncePerDriver
    BY DEF Init, DedupeInv, Timely, Overlapped, FirstOfDriver, Looked, StampedOncePerDriver
  <2>2. QED
    BY <2>1, InvariantInit
<1>2. IInv /\ DedupeInv /\ StampedOncePerDriver /\ [Next]_vars => (IInv /\ DedupeInv /\ StampedOncePerDriver)'
  BY InvariantStep, DedupeStep, OncePerDriverStep
<1>3. QED
  BY <1>1, <1>2, PTL DEF Spec
-----------------------------------------------------------------------------
(* The stamp goes to who looked                                            *)

(* A Person ID that the registry has, or that a driver has for his own id, *)
(* and that is the face of someone else on that terminal, is recorded as   *)
(* crossed: whoever linked it.                                             *)
RegistrySound ==
    \A d \in Drivers, v \in Devices, id \in PersonIds :
        (faceId[d][v] = id \/ id = d) /\ Crosses(d, v, id) => <<v, id>> \in crossed

(* The driver a request goes on with is the one who looked, or the request *)
(* was misled on the way to him.                                           *)
Settled == {"activate", "lock", "guard", "stamp", "commit"}
OfLooker ==
    \A r \in Requests :
        step[r] \in Settled => found[r] = Face[job[r].glance] \/ Misled(job[r].glance)

LookerInv == RegistrySound /\ OfLooker /\ RightDriver

(* A driver with this Person ID on the terminal has looked, or another's   *)
(* face was crossed with his.                                              *)
LEMMA LinkedLooks ==
    ASSUME Typed, RegistrySound, NEW g \in Glances, NEW d \in Drivers,
           d \in LinkedOn(Gate[g], Reported[g]) \/ d = Reported[g]
    PROVE  d = Face[g] \/ <<Gate[g], Reported[g]>> \in crossed
  BY GlancesAssumption DEF LinkedOn, RegistrySound, Crosses

(* Steps that link nobody keep what is crossed.                            *)
LEMMA UnlinkedKeeps ==
    ASSUME Typed, RegistrySound, crossed \subseteq crossed',
           \A d \in Drivers, v \in Devices : faceId'[d][v] \in {faceId[d][v], NoId}
    PROVE  RegistrySound'
  BY NothingAssumption DEF RegistrySound, Crosses

(* Linking records what it crosses.                                        *)
LEMMA LinkedKeeps ==
    ASSUME Typed, RegistrySound, NEW d \in Drivers, NEW v \in Devices, NEW id \in PersonIds,
           Linked(d, v, id)
    PROVE  RegistrySound' /\ (Crosses(d, v, id) => <<v, id>> \in crossed')
<1>1. crossed \subseteq crossed' /\ (Crosses(d, v, id) => <<v, id>> \in crossed')
  BY DEF Linked
<1>2. ASSUME NEW e \in Drivers, NEW u \in Devices
      PROVE  faceId'[e][u] = IF e = d /\ u = v THEN id ELSE faceId[e][u]
  BY DEF Linked, Typed, TypeOK
<1>3. RegistrySound'
  BY <1>1, <1>2 DEF RegistrySound, Crosses
<1>4. QED
  BY <1>1, <1>3

LEMMA RegistryStep == Typed /\ RegistrySound /\ [Next]_vars => RegistrySound'
<1> SUFFICES ASSUME Typed, RegistrySound, [Next]_vars PROVE RegistrySound'
  OBVIOUS
<1>0. crossed \subseteq crossed'
  BY HistoryGrows
<1>1. ASSUME NEW r \in Requests, Link(r) PROVE RegistrySound'
  <2>1. job[r] \in Jobs /\ found[r] \in Drivers
    BY <1>1 DEF Typed, TypeOK, WellFormed, Link
  <2>2. Device(r) \in Devices /\ PersonId(r) \in PersonIds
    BY <2>1, ReportTyped
  <2>3. QED
    BY <1>1, <2>1, <2>2, LinkedKeeps DEF Link
<1>2. ASSUME NEW r \in Requests, Proceed(r) \/ Rollback(r) \/ Abort(r), ~ Link(r)
      PROVE  UNCHANGED faceId
  BY <1>2 DEF Proceed, DropDuplicate, NoDuplicate, Resolve, ReadPending, CheckTaken, LinkFails, Activate,
              Fallback, LogUnmatched, LockDriver, Ignore, PassGuard, InsertStamp, Commit, LogError,
              Rollback, Abort, registry
<1>3. ASSUME NEW r \in Requests, NEW g \in Glances, Webhook(r, g) \/ AgentPost(r, g)
      PROVE  UNCHANGED faceId
  BY <1>3 DEF Webhook, AgentPost, Arrive, registry
<1>4. CASE Tick \/ (\E g \in Glances : Look(g) \/ Recede(g)) \/ UNCHANGED vars
  BY <1>0, <1>4, UnlinkedKeeps DEF Tick, Look, Recede, vars, registry
<1>5. ASSUME NEW d \in Drivers, NEW v \in Devices, Ack(d, v) \/ \E id \in PersonIds : Map(d, v, id)
      PROVE  RegistrySound'
  BY <1>5, LinkedKeeps, OwnIdsAssumption DEF Map, Ack
<1>6. ASSUME NEW d \in Drivers, NEW v \in Devices,
             \/ StartPairing(d, v) \/ Queue(d, v) \/ Unlink(d, v) \/ SoftDelete(d)
             \/ \E s \in {"ACTIVE", "BLOCKED"} : SetStatus(d, s)
      PROVE  RegistrySound'
  <2>1. CASE StartPairing(d, v) \/ Queue(d, v)
    <3>1. faceId' = [faceId EXCEPT ![d][v] = NoId]
      BY <2>1 DEF StartPairing, Queue
    <3>2. \A e \in Drivers, u \in Devices : faceId'[e][u] \in {faceId[e][u], NoId}
      BY <3>1 DEF Typed, TypeOK
    <3>3. QED
      BY <1>0, <3>2, UnlinkedKeeps
  <2>2. CASE Unlink(d, v) \/ SoftDelete(d)
    BY <1>0, <2>2, UnlinkedKeeps DEF Unlink, SoftDelete, Delete
  <2>3. CASE \E s \in {"ACTIVE", "BLOCKED"} : SetStatus(d, s)
    BY <1>0, <2>3, UnlinkedKeeps DEF SetStatus
  <2>4. QED
    BY <1>6, <2>1, <2>2, <2>3
<1>7. ASSUME NEW d \in Drivers, SoftDelete(d) PROVE RegistrySound'
  BY <1>0, <1>7, UnlinkedKeeps DEF SoftDelete, Delete
<1>8. ASSUME NEW d \in Drivers, NEW s \in {"ACTIVE", "BLOCKED"}, SetStatus(d, s) PROVE RegistrySound'
  BY <1>0, <1>8, UnlinkedKeeps DEF SetStatus
<1>9. CASE Staff
  BY <1>5, <1>6, <1>7, <1>8, <1>9 DEF Staff
<1>10. QED
  BY <1>0, <1>1, <1>2, <1>3, <1>4, <1>9, UnlinkedKeeps DEF Next

-----------------------------------------------------------------------------
(* Misled, when the step is done; who was misled stays so.                 *)
MisledThen(g) == <<Gate[g], Reported[g]>> \in crossed' \/ g \in borrowed'

LEMMA MisledStays ==
    ASSUME Typed, [Next]_vars, NEW g, Misled(g)
    PROVE  MisledThen(g)
  BY HistoryGrows DEF Misled, MisledThen

(* A request goes on with the driver it has, or with one it has found by a *)
(* registration, or by his own id.                                         *)
Kept(r) == step[r] \in Settled /\ found'[r] = found[r]

Named(r) == found'[r] = Face[job[r].glance] \/ MisledThen(job[r].glance)

LEMMA ResolveNames ==
    ASSUME Typed, RegistrySound, NEW r \in Requests, Resolve(r) \/ Fallback(r), step'[r] \in Settled
    PROVE  Named(r)
<1> DEFINE g == job[r].glance
<1>1. g \in Glances /\ step[r] # "idle"
  BY ReportTyped DEF Typed, WellFormed, Resolve, Fallback
<1>2. ASSUME NEW d \in Drivers, NEW s, Found(r, d, s) PROVE found'[r] = d
  BY <1>2 DEF Found, Typed, TypeOK
<1>3. ASSUME NEW d \in LinkedOn(Gate[g], Reported[g]), found'[r] = d, crossed \subseteq crossed' PROVE Named(r)
  BY <1>1, <1>3, LinkedLooks DEF LinkedOn, Named, MisledThen
<1>4. ASSUME LinkedOn(Gate[g], Reported[g]) = {}, Borrow(r) PROVE Named(r)
  BY <1>4 DEF Borrow, Device, PersonId, Named, MisledThen
<1>5. Borrow(r) => crossed' = crossed
  BY DEF Borrow
<1>6. CASE Resolve(r)
  <2>1. CASE Mapped(Device(r), PersonId(r)) = {}
    BY <1>6, <2>1 DEF Resolve, Goto, Typed, TypeOK, Settled
  <2>2. CASE Mapped(Device(r), PersonId(r)) # {}
    <3>1. Borrow(r) /\ \E d \in Mapped(Device(r), PersonId(r)) : Found(r, d, status[d])
      BY <1>6, <2>2 DEF Resolve
    <3>2. PICK d \in Mapped(Device(r), PersonId(r)) : Found(r, d, status[d])
      BY <3>1
    <3>3. d \in Drivers /\ found'[r] = d
      BY <1>2, <3>2, MappedDrivers
    <3>4. CASE LinkedOn(Gate[g], Reported[g]) = {}
      BY <1>4, <3>1, <3>4
    <3>5. CASE LinkedOn(Gate[g], Reported[g]) # {}
      <4>1. d \in LinkedOn(Gate[g], Reported[g])
        BY <3>2, <3>5 DEF Mapped, Device, PersonId
      <4>2. QED
        BY <1>3, <1>5, <3>1, <3>3, <4>1
    <3>6. QED
      BY <3>4, <3>5
  <2>3. QED
    BY <2>1, <2>2
<1>7. CASE Fallback(r)
  <2>1. CASE \E dv \in Drivers \X Devices : Rows(PersonId(r)) = {dv}
    <3>1. Borrow(r) /\ \E dv \in Rows(PersonId(r)) : Found(r, dv[1], status[dv[1]])
      BY <1>7, <2>1 DEF Fallback
    <3>2. PICK dv \in Drivers \X Devices : Rows(PersonId(r)) = {dv}
      BY <2>1
    <3>3. found'[r] = dv[1]
      BY <1>2, <3>1, <3>2
    <3>4. CASE LinkedOn(Gate[g], Reported[g]) = {}
      BY <1>4, <3>1, <3>4
    <3>5. CASE LinkedOn(Gate[g], Reported[g]) # {}
      <4>1. PICK d \in LinkedOn(Gate[g], Reported[g]) : TRUE
        BY <3>5
      <4>2. <<d, Gate[g]>> \in Rows(PersonId(r))
        BY <1>1, <4>1, GlancesAssumption DEF LinkedOn, Rows, PersonId
      <4>3. d = dv[1]
        BY <3>2, <4>2
      <4>4. QED
        BY <1>3, <1>5, <3>1, <3>3, <4>1, <4>3
    <3>6. QED
      BY <3>4, <3>5
  <2>2. CASE ~ \E dv \in Drivers \X Devices : Rows(PersonId(r)) = {dv}
    <3>1. UNCHANGED crossed
      BY <1>7, <2>2 DEF Fallback, history
    <3>2. CASE PersonId(r) \in Drivers
      <4>1. Found(r, PersonId(r), status[PersonId(r)])
        BY <1>7, <2>2, <3>2 DEF Fallback
      <4>2. found'[r] = Reported[g] /\ Reported[g] \in Drivers
        BY <1>2, <3>2, <4>1 DEF PersonId
      <4>3. QED
        BY <1>1, <3>1, <4>2, LinkedLooks DEF Named, MisledThen
    <3>3. CASE PersonId(r) \notin Drivers
      BY <1>7, <2>2, <3>3 DEF Fallback, NotFound, Goto, Typed, TypeOK, Settled
    <3>4. QED
      BY <3>2, <3>3
  <2>3. QED
    BY <2>1, <2>2
<1>8. QED
  BY <1>6, <1>7

(* Whoever claims a pairing becomes the owner of the Person ID: if he has  *)
(* not looked, it is crossed with him.                                     *)
LEMMA LinkNames ==
    ASSUME Typed, RegistrySound, NEW r \in Requests, Link(r)
    PROVE  Named(r)
<1>1. job[r] \in Jobs /\ found[r] \in Drivers
  BY DEF Typed, TypeOK, WellFormed, Link
<1>2. Device(r) \in Devices /\ PersonId(r) \in PersonIds /\ job[r].glance \in Glances
  BY <1>1, ReportTyped
<1>3. found'[r] = found[r]
  BY <1>1 DEF Link, Found, Typed, TypeOK
<1>4. Crosses(found[r], Device(r), PersonId(r)) => <<Device(r), PersonId(r)>> \in crossed'
  BY <1>1, <1>2, LinkedKeeps DEF Link
<1>5. found[r] # Face[job[r].glance] => Crosses(found[r], Device(r), PersonId(r))
  BY <1>2 DEF Crosses, Device, PersonId
<1>6. QED
  BY <1>3, <1>4, <1>5 DEF Named, MisledThen, Device, PersonId

(* A request's step: it keeps its driver, names one, or is not settled.    *)
LEMMA SettledNames ==
    ASSUME Typed, RegistrySound, NEW r \in Requests, Proceed(r) \/ Rollback(r) \/ Abort(r),
           step'[r] \in Settled
    PROVE  job'[r] = job[r] /\ (Kept(r) \/ Named(r))
<1>1. CASE DropDuplicate(r) \/ LogUnmatched(r) \/ Ignore(r) \/ Commit(r) \/ LinkFails(r) \/ LogError(r) \/ Abort(r)
  <2>1. Leave(r)
    BY <1>1 DEF DropDuplicate, LogUnmatched, Ignore, Commit, LinkFails, LogError, Abort, Answer
  <2>2. QED
    BY <2>1 DEF Leave, Goto, Typed, TypeOK, Settled
<1>2. CASE NoDuplicate(r) \/ ReadPending(r) \/ CheckTaken(r) \/ Rollback(r)
  BY <1>2 DEF NoDuplicate, ReadPending, CheckTaken, Rollback, Goto, Typed, TypeOK, Settled
<1>3. CASE Resolve(r) \/ Fallback(r)
  BY <1>3, ResolveNames DEF Resolve, Fallback
<1>4. CASE Link(r)
  BY <1>4, LinkNames DEF Link
<1>5. CASE Activate(r)
  BY <1>5 DEF Activate, Found, Typed, TypeOK, Kept, Settled
<1>6. CASE LockDriver(r) \/ PassGuard(r) \/ InsertStamp(r)
  BY <1>6 DEF LockDriver, PassGuard, InsertStamp, private, Kept, Settled
<1>7. QED
  BY <1>1, <1>2, <1>3, <1>4, <1>5, <1>6 DEF Proceed

(* A request leaves the others' drivers and reports alone.                 *)
LEMMA OthersStay ==
    ASSUME Typed, NEW r \in Requests, Proceed(r) \/ Rollback(r) \/ Abort(r), NEW q \in Requests, q # r
    PROVE  step'[q] = step[q] /\ found'[q] = found[q] /\ job'[q] = job[q]
<1>1. CASE Commit(r)
  BY <1>1 DEF Typed, TypeOK, Commit, Answer, Leave, Goto
<1>2. CASE ~ Commit(r)
  <2>1. \/ Outside(r) \/ LockDriver(r) \/ PassGuard(r) \/ InsertStamp(r)
    BY <1>2 DEF Proceed, Outside
  <2>2. step[r] # "idle"
    BY DEF Proceed, DropDuplicate, NoDuplicate, Resolve, ReadPending, CheckTaken, Link, LinkFails, Activate,
           Fallback, LogUnmatched, Ignore, LogError, Rollback, Abort, LockDriver, PassGuard, InsertStamp, Commit
  <2>3. ~ \E g \in Glances : Webhook(r, g)
    BY <2>2 DEF Webhook, Arrive
  <2>4. GoesOn(r)
    BY <2>1, <2>3, StatementGoesOn
  <2>5. QED
    BY <2>4 DEF GoesOn, Only
<1>3. QED
  BY <1>1, <1>2

LEMMA OfLookerStep == Typed /\ LookerInv /\ [Next]_vars => OfLooker'
<1> SUFFICES ASSUME Typed, LookerInv, [Next]_vars, NEW q \in Requests, step'[q] \in Settled
             PROVE  found'[q] = Face[job'[q].glance] \/ MisledThen(job'[q].glance)
  BY DEF OfLooker, Misled, MisledThen
<1>1. ASSUME step[q] \in Settled, found'[q] = found[q], job'[q] = job[q]
      PROVE  found'[q] = Face[job'[q].glance] \/ MisledThen(job'[q].glance)
  BY <1>1, MisledStays DEF LookerInv, OfLooker
<1>2. ASSUME NEW r \in Requests, Proceed(r) \/ Rollback(r) \/ Abort(r)
      PROVE  found'[q] = Face[job'[q].glance] \/ MisledThen(job'[q].glance)
  <2>1. CASE q = r
    BY <1>1, <1>2, <2>1, SettledNames DEF LookerInv, Kept, Named
  <2>2. CASE q # r
    BY <1>1, <1>2, <2>2, OthersStay
  <2>3. QED
    BY <2>1, <2>2
<1>3. ASSUME NEW r \in Requests, NEW g \in Glances, Webhook(r, g) \/ AgentPost(r, g)
      PROVE  found'[q] = Face[job'[q].glance] \/ MisledThen(job'[q].glance)
  <2>1. PICK path \in Paths, first \in {"dedupe", "resolve"} : Arrive(r, g, path, first)
    BY <1>3 DEF Webhook, AgentPost, Paths
  <2>2. q # r /\ step'[q] = step[q] /\ job'[q] = job[q] /\ found'[q] = found[q]
    BY <2>1 DEF Arrive, Typed, TypeOK, Settled
  <2>3. QED
    BY <1>1, <2>2
<1>4. CASE World
  <2>1. step[q] \in Settled /\ job'[q] = job[q]
    BY <1>4, WorldOnly
  <2>2. found'[q] = found[q]
    BY <1>4, <2>1, WorldOnly DEF Settled
  <2>3. QED
    BY <1>1, <2>1, <2>2
<1>5. QED
  BY <1>2, <1>3, <1>4 DEF Next, World

(* A new stamp is for the driver its request had.                          *)
LEMMA StampsKeepLooker ==
    ASSUME Typed, LookerInv, [Next]_vars
    PROVE  RightDriver'
<1>1. CASE UNCHANGED stamps
  BY <1>1, MisledStays DEF LookerInv, RightDriver, Misled, MisledThen
<1>2. ASSUME NEW r \in Requests, Commit(r) PROVE RightDriver'
  <2>1. /\ DOMAIN stamps' = DOMAIN stamps \cup {Len(stamps) + 1}
        /\ \A i \in DOMAIN stamps : stamps'[i] = stamps[i]
        /\ stamps'[Len(stamps) + 1] = StampOf(r)
    BY <1>2 DEF Typed, TypeOK, Commit
  <2>2. found[r] = Face[job[r].glance] \/ Misled(job[r].glance)
    BY <1>2 DEF Commit, LookerInv, OfLooker, Settled
  <2>3. UNCHANGED history
    BY <1>2 DEF Commit
  <2>4. QED
    BY <2>1, <2>2, <2>3 DEF LookerInv, RightDriver, StampOf, Misled, history
<1>3. QED
  BY <1>1, <1>2, StampsChange

(* A stamp goes to the driver who looked, whatever is linked, unlinked,    *)
(* paired, mapped, acknowledged, deleted, retried and whatever fails       *)
(* between the glance and the stamp, and however long that takes, but for  *)
(* two ways to be misled: the Person ID of his face on that terminal was   *)
(* once linked to, or is the own id of, someone else, or no driver had it  *)
(* on that terminal and the registrations of another one were asked.       *)
(* Unlinking, deleting and losing a race with a pairing are not among      *)
(* them: what a request has found stays right although its row goes.       *)
THEOREM RightDriverHolds == Spec => []RightDriver
<1>1. Init => Typed /\ LookerInv
  <2>1. Init => RegistrySound
    BY NothingAssumption DEF Init, RegistrySound
  <2>2. Init => OfLooker /\ RightDriver
    BY DEF Init, OfLooker, Settled, RightDriver
  <2>3. QED
    BY <2>1, <2>2, TypedInit DEF LookerInv
<1>2. Typed /\ LookerInv /\ [Next]_vars => (Typed /\ LookerInv)'
  BY TypedStep, RegistryStep, OfLookerStep, StampsKeepLooker DEF LookerInv
<1>3. LookerInv => RightDriver
  BY DEF LookerInv
<1>4. QED
  BY <1>1, <1>2, <1>3, PTL DEF Spec

(* Then an event of the agent is stamped once, and not once for each       *)
(* driver it is taken for, unless it was misled.                           *)
THEOREM StampedOncePerKeyHolds == Spec => []StampedOncePerKey
<1>1. RightDriver /\ StampedOncePerDriver => StampedOncePerKey
  BY DEF RightDriver, StampedOncePerDriver, StampedOncePerKey
<1>2. QED
  BY <1>1, StampedOncePerDriverHolds, RightDriverHolds, PTL
=============================================================================
