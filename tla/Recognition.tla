---------------------------- MODULE Recognition ----------------------------
(***************************************************************************)
(* How a glance at a Face-ID terminal becomes a pechat (stamp):            *)
(* backend/src/webhooks/recognition.service.ts.                            *)
(*                                                                         *)
(* A glance reaches the server by two paths that do not know of each       *)
(* other: the terminal's webhook, and the relay agent, which keeps the     *)
(* event in its outbox and posts it, with a dedupe key, until a post is    *)
(* answered.  Each report is a request of several statements: look for     *)
(* the key, find the driver (or let a driver who is being paired claim     *)
(* the unknown face), and, in a transaction under the driver's advisory    *)
(* lock, refuse a second stamp within the guard or insert it.              *)
(*                                                                         *)
(* A STAMP row and the PROCESSED event of the same commit are one entry    *)
(* of stamps; the other recognition events are entries of logged.          *)
(*                                                                         *)
(* The last four variables are history: no action's guard reads them but   *)
(* that of the search, which may miss what is forgotten.                   *)
(***************************************************************************)
EXTENDS Integers, Sequences, FiniteSets

CONSTANTS Drivers, Devices, PersonIds, Glances, Requests,
          Gate,           \* the terminal of each glance
          Face,           \* the driver whose face it is
          Reported,       \* the Person ID the terminal reports
          NameOf,         \* Device.name, which may be another device's id
          InitialStatus,  \* Driver.status
          InitialFaceId,  \* DriverDeviceRegistration.hikvisionFaceId
          Burst,          \* RECOGNITION_BURST_GUARD_MS
          Cooldown,       \* RECOGNITION_COOLDOWN_MINUTES, 0 when off
          Window,         \* PAIRING_WINDOW_MS
          Grace,          \* how late a claim may come
          Life,           \* from the insertion of a row to its commit: the transaction's timeout
          Operations,     \* what else happens: operations of the staff and the agent, traffic
          MaxTime,        \* bound: the clock
          MaxFaults,      \* bound: failures
          MaxWebhooks,    \* bound: webhook calls
          Nobody, NoId, NoRequest

ASSUME GlancesAssumption ==
    /\ Gate \in [Glances -> Devices] /\ Face \in [Glances -> Drivers]
    /\ Reported \in [Glances -> PersonIds]
ASSUME RegistryAssumption ==
    /\ InitialStatus \in [Drivers -> {"ACTIVE", "PENDING", "BLOCKED"}]
    /\ InitialFaceId \in [Drivers -> [Devices -> PersonIds \cup {NoId}]]
ASSUME GuardAssumption == Burst \in Nat \ {0} /\ Cooldown \in Nat
ASSUME TimesAssumption ==
    /\ Window \in Nat /\ Grace \in Nat /\ MaxTime \in Nat
    /\ MaxFaults \in Nat /\ MaxWebhooks \in Nat
    /\ Life \in Nat
ASSUME NothingAssumption ==
    Nobody \notin Drivers /\ NoRequest \notin Requests /\ NoId \notin PersonIds
ASSUME OwnIdsAssumption == Drivers \subseteq PersonIds

VARIABLES now,       \* the server's clock
          status,    \* Driver.status
          faceId,    \* hikvisionFaceId of each driver on each device
          armed,     \* pairingExpiresAt of the same row
          deleted,   \* drivers with deletedAt set
          stamps,    \* STAMP rows with their PROCESSED events
          logged,    \* the other recognition events
          seenAt,    \* when the terminal saw each glance
          outbox,    \* glances the relay agent still has to deliver
          locks,     \* pg_advisory_xact_lock(hashtext(driver.id))
          step,      \* the next statement of each request
          job,       \* the report it carries
          found,     \* the driver it has found
          foundStatus, \* and the status it read with him
          stampedAt, \* createdAt of the row it has inserted
          searched,  \* when it looked for its dedupe key
          faults,    \* failures so far
          webhooks,  \* webhook calls so far
          forgotten, \* glances with an event out of the search's reach
          late,      \* glances of requests that came to the guard late
          crossed,   \* Person IDs that were linked to someone else's driver
          borrowed   \* glances looked up in another terminal's registrations

registry == <<status, faceId, armed, deleted>>
events   == <<stamps, logged>>
private  == <<job, found, foundStatus, stampedAt, searched>>
counters == <<faults, webhooks>>
history  == <<forgotten, late, crossed, borrowed>>
vars == <<now, registry, events, seenAt, outbox, locks, step, private, counters, history>>

-----------------------------------------------------------------------------
Never == -1
Times == 0..MaxTime
Statuses == {"ACTIVE", "PENDING", "BLOCKED"}
Paths == {"webhook", "agent"}
Steps == {"idle", "dedupe", "resolve", "pending", "taken", "link", "activate", "fallback",
          "unmatched", "lock", "guard", "stamp", "commit", "error"}

(* The wider of the two windows.                                           *)
Guard == IF Cooldown > Burst THEN Cooldown ELSE Burst

Jobs == [glance : Glances, path : Paths]
NoJob == [path |-> "none"]
StampEntries == [glance : Glances, path : Paths, driver : Drivers, at : Times]
LoggedEntries == [status : {"UNMATCHED", "IGNORED_COOLDOWN", "ERROR"}, glance : Glances, path : Paths,
                  driver : Drivers \cup {Nobody}]

TypeOK ==
    /\ now \in Times
    /\ status \in [Drivers -> Statuses]
    /\ faceId \in [Drivers -> [Devices -> PersonIds \cup {NoId}]]
    /\ armed \in [Drivers -> [Devices -> {Never} \cup 0 .. MaxTime + Window]]
    /\ deleted \subseteq Drivers
    /\ stamps \in Seq(StampEntries)
    /\ logged \subseteq LoggedEntries
    /\ seenAt \in [Glances -> {Never} \cup Times]
    /\ outbox \subseteq Glances
    /\ locks \in [Drivers -> Requests \cup {NoRequest}]
    /\ step \in [Requests -> Steps]
    /\ job \in [Requests -> Jobs \cup {NoJob}]
    /\ found \in [Requests -> Drivers \cup {Nobody}]
    /\ foundStatus \in [Requests -> Statuses]
    /\ stampedAt \in [Requests -> Times]
    /\ searched \in [Requests -> Times]
    /\ faults \in 0 .. MaxFaults /\ webhooks \in 0 .. MaxWebhooks
    /\ forgotten \subseteq Glances /\ late \subseteq Glances /\ borrowed \subseteq Glances
    /\ crossed \subseteq Devices \X PersonIds

(* On terminal v this Person ID is (also) the face of someone else than d. *)
Crosses(d, v, id) == \E g \in Glances : Gate[g] = v /\ Reported[g] = id /\ Face[g] # d

(* What the registry, and the drivers' own ids, have wrong from the start  *)
(* counts as crossed.                                                      *)
Init ==
    /\ now = 0
    /\ status = InitialStatus
    /\ faceId = InitialFaceId
    /\ armed = [d \in Drivers |-> [v \in Devices |-> Never]] /\ deleted = {}
    /\ stamps = <<>> /\ logged = {}
    /\ seenAt = [g \in Glances |-> Never]
    /\ outbox = {}
    /\ locks = [d \in Drivers |-> NoRequest]
    /\ step = [r \in Requests |-> "idle"]
    /\ job = [r \in Requests |-> NoJob]
    /\ found = [r \in Requests |-> Nobody]
    /\ foundStatus = [r \in Requests |-> "PENDING"]
    /\ stampedAt = [r \in Requests |-> 0]
    /\ searched = [r \in Requests |-> 0]
    /\ faults = 0 /\ webhooks = 0
    /\ forgotten = {} /\ late = {} /\ borrowed = {}
    /\ crossed = {vi \in Devices \X PersonIds : \E d \in Drivers :
                     Crosses(d, vi[1], vi[2]) /\ vi[2] \in {d, InitialFaceId[d][vi[1]]}}

-----------------------------------------------------------------------------
(* The outside world.  A request may take any time, but for the timeout of *)
(* its transaction.                                                        *)
Tick ==
    /\ now < MaxTime
    /\ \A r \in Requests : step[r] = "commit" => now < stampedAt[r] + Life
    /\ now' = now + 1
    /\ UNCHANGED <<registry, events, seenAt, outbox, locks, step, private, counters, history>>

Look(g) ==
    /\ seenAt[g] = Never
    /\ seenAt' = [seenAt EXCEPT ![g] = now]
    /\ outbox' = outbox \cup {g}
    /\ UNCHANGED <<now, registry, events, locks, step, private, counters, history>>

Arrive(r, g, path, first) ==
    /\ step[r] = "idle"
    /\ step' = [step EXCEPT ![r] = first]
    /\ job' = [job EXCEPT ![r] = [glance |-> g, path |-> path]]
    /\ UNCHANGED <<now, registry, events, seenAt, outbox, locks, found, foundStatus, stampedAt, searched,
                   faults, history>>

Webhook(r, g) ==
    /\ seenAt[g] # Never
    /\ webhooks < MaxWebhooks /\ webhooks' = webhooks + 1
    /\ Arrive(r, g, "webhook", "resolve")

(* The agent may post again before an earlier post is answered, when it    *)
(* no longer waits for the answer.                                         *)
AgentPost(r, g) == g \in outbox /\ Arrive(r, g, "agent", "dedupe") /\ UNCHANGED webhooks

-----------------------------------------------------------------------------
Device(r)   == Gate[job[r].glance]
PersonId(r) == Reported[job[r].glance]

Goto(r, s) == step' = [step EXCEPT ![r] = s]

(* A request ends and its locks are released.                              *)
Leave(r) ==
    /\ Goto(r, "idle")
    /\ job' = [job EXCEPT ![r] = NoJob]
    /\ found' = [found EXCEPT ![r] = Nobody]
    /\ foundStatus' = [foundStatus EXCEPT ![r] = "PENDING"]
    /\ stampedAt' = [stampedAt EXCEPT ![r] = 0]
    /\ searched' = [searched EXCEPT ![r] = 0]
    /\ locks' = [d \in Drivers |-> IF locks[d] = r THEN NoRequest ELSE locks[d]]

(* The answer may be lost on the way; when it arrives, the agent drops the *)
(* event from its outbox.                                                  *)
Answer(r) ==
    /\ Leave(r)
    /\ outbox' \in {outbox, IF job[r].path = "agent" THEN outbox \ {job[r].glance} ELSE outbox}

Entry(r, d, s) == [status |-> s, glance |-> job[r].glance, path |-> job[r].path, driver |-> d]

-----------------------------------------------------------------------------
(* Mutant: only events that gave no stamp are compared.                    *)
Logged_NotStamped(g) == \E e \in logged : e.glance = g /\ e.path = "agent"

(* An event with the dedupe key of the glance, the terminal's serial       *)
(* number, is in the log of the device.                                    *)
Logged(g) ==
    \/ \E e \in logged : e.glance = g /\ e.path = "agent"
    \/ \E i \in DOMAIN stamps : stamps[i].glance = g /\ stamps[i].path = "agent"

(* The search sees the 400 newest events of the device, of the last seven  *)
(* days: older ones, and those that other traffic pushes out, are missed,  *)
(* unless a newer event with the key is within reach.                      *)
Recede(g) ==
    /\ "traffic" \in Operations
    /\ Logged(g)
    /\ forgotten' = forgotten \cup {g}
    /\ UNCHANGED <<now, registry, events, seenAt, outbox, locks, step, private, counters, late, crossed, borrowed>>

Overlooked(g) == ~ Logged(g) \/ g \in forgotten

DropDuplicate(r) ==
    /\ step[r] = "dedupe" /\ Logged(job[r].glance)
    /\ Answer(r)
    /\ UNCHANGED <<now, registry, events, seenAt, counters, history>>

NoDuplicate(r) ==
    /\ step[r] = "dedupe" /\ Overlooked(job[r].glance)
    /\ searched' = [searched EXCEPT ![r] = now]
    /\ Goto(r, "resolve")
    /\ UNCHANGED <<now, registry, events, seenAt, outbox, locks, job, found, foundStatus, stampedAt,
                   counters, history>>

-----------------------------------------------------------------------------
(* resolveDriverByEmployeeNo, which ends in Found or NotFound.  Only an    *)
(* active driver goes on to the transaction.                               *)
Found(r, d, s) ==
    /\ found' = [found EXCEPT ![r] = d]
    /\ foundStatus' = [foundStatus EXCEPT ![r] = s]
    /\ Goto(r, IF s = "ACTIVE" THEN "lock" ELSE "unmatched")

NotFound(r) ==
    /\ found' = [found EXCEPT ![r] = Nobody]
    /\ Goto(r, "unmatched")
    /\ UNCHANGED foundStatus

LinkedOn(v, id) == {d \in Drivers : faceId[d][v] = id}

(* Mutant: Person IDs are compared on every device at once.                *)
Mapped_AnyDevice(v, id) == UNION {LinkedOn(u, id) : u \in Devices}

(* The drivers with this Person ID on this device, else those on a device  *)
(* that has this device's id for a name.                                   *)
Mapped(v, id) ==
    LET byName == UNION {LinkedOn(u, id) : u \in {w \in Devices : NameOf[w] = v}} IN
    IF LinkedOn(v, id) # {} THEN LinkedOn(v, id) ELSE byName

Borrow(r) ==
    /\ borrowed' = IF LinkedOn(Device(r), PersonId(r)) = {} THEN borrowed \cup {job[r].glance} ELSE borrowed
    /\ UNCHANGED <<forgotten, late, crossed>>

Resolve(r) ==
    /\ step[r] = "resolve"
    /\ IF Mapped(Device(r), PersonId(r)) # {}
       THEN Borrow(r) /\ \E d \in Mapped(Device(r), PersonId(r)) : Found(r, d, status[d])
       ELSE Goto(r, "pending") /\ UNCHANGED <<found, foundStatus, history>>
    /\ UNCHANGED <<now, registry, events, seenAt, outbox, locks, job, stampedAt, searched, counters>>

(* claimPendingPairing: a driver armed on this device, or until recently.  *)
Claimable(v) == {d \in Drivers : faceId[d][v] = NoId /\ armed[d][v] # Never /\ armed[d][v] > now - Grace}

ReadPending(r) ==
    /\ step[r] = "pending"
    /\ IF Claimable(Device(r)) = {}
       THEN Goto(r, "fallback") /\ UNCHANGED <<found, foundStatus>>
       ELSE \E d \in Claimable(Device(r)) :
              /\ found' = [found EXCEPT ![r] = d]
              /\ foundStatus' = [foundStatus EXCEPT ![r] = status[d]]
              /\ Goto(r, "taken")
    /\ UNCHANGED <<now, registry, events, seenAt, outbox, locks, job, stampedAt, searched, counters, history>>

(* Another driver has this Person ID on this device.                       *)
Taken(r) == LinkedOn(Device(r), PersonId(r)) \ {found[r]} # {}

CheckTaken(r) ==
    /\ step[r] = "taken"
    /\ Goto(r, IF Taken(r) THEN "fallback" ELSE "link")
    /\ UNCHANGED <<now, registry, events, seenAt, outbox, locks, private, counters, history>>

(* A registration gets a Person ID, whoever writes it.                     *)
Linked(d, v, id) ==
    /\ faceId' = [faceId EXCEPT ![d][v] = id]
    /\ armed' = [armed EXCEPT ![d][v] = Never]
    /\ crossed' = IF Crosses(d, v, id) THEN crossed \cup {<<v, id>>} ELSE crossed
    /\ UNCHANGED <<deleted, forgotten, late, borrowed>>

Link(r) ==
    /\ step[r] = "link" /\ found[r] # Nobody
    /\ Linked(found[r], Device(r), PersonId(r))
    /\ IF foundStatus[r] = "PENDING"
       THEN Goto(r, "activate") /\ UNCHANGED <<found, foundStatus>>
       ELSE Found(r, found[r], foundStatus[r])
    /\ UNCHANGED <<now, status, events, seenAt, outbox, locks, job, stampedAt, searched, counters>>

Activate(r) ==
    /\ step[r] = "activate"
    /\ status' = [status EXCEPT ![found[r]] = "ACTIVE"]
    /\ Found(r, found[r], "ACTIVE")
    /\ UNCHANGED <<now, faceId, armed, deleted, events, seenAt, outbox, locks, job, stampedAt, searched,
                   counters, history>>

(* The only registration with this Person ID anywhere, else the driver     *)
(* whose own id it is.                                                     *)
Rows(id) == {dv \in Drivers \X Devices : faceId[dv[1]][dv[2]] = id}

Fallback(r) ==
    /\ step[r] = "fallback"
    /\ IF \E dv \in Drivers \X Devices : Rows(PersonId(r)) = {dv}
       THEN Borrow(r) /\ \E dv \in Rows(PersonId(r)) : Found(r, dv[1], status[dv[1]])
       ELSE /\ IF PersonId(r) \in Drivers
               THEN Found(r, PersonId(r), status[PersonId(r)])
               ELSE NotFound(r)
            /\ UNCHANGED history
    /\ UNCHANGED <<now, registry, events, seenAt, outbox, locks, job, stampedAt, searched, counters>>

LogUnmatched(r) ==
    /\ step[r] = "unmatched"
    /\ logged' = logged \cup {Entry(r, found[r], "UNMATCHED")}
    /\ Answer(r)
    /\ UNCHANGED <<now, registry, stamps, seenAt, counters, history>>

-----------------------------------------------------------------------------
(* The transaction.                                                        *)
LockDriver(r) ==
    /\ step[r] = "lock" /\ locks[found[r]] = NoRequest
    /\ locks' = [locks EXCEPT ![found[r]] = r]
    /\ Goto(r, "guard")
    /\ UNCHANGED <<now, registry, events, seenAt, outbox, private, counters, history>>

(* A STAMP of this driver, or a PROCESSED event of this Person ID, since   *)
(* the guard began.                                                        *)
Recent(i) == stamps[i].at >= now - Guard

(* Mutant: each terminal has a guard of its own.                           *)
StampedRecently_SameGate(r) ==
    \E i \in DOMAIN stamps :
        stamps[i].driver = found[r] /\ Gate[stamps[i].glance] = Device(r) /\ Recent(i)

StampedRecently(r) ==
    \E i \in DOMAIN stamps : stamps[i].driver = found[r] /\ Recent(i)

PersonRecently(r) ==
    \E i \in DOMAIN stamps : Reported[stamps[i].glance] = PersonId(r) /\ Recent(i)

Guarded(r) == StampedRecently(r) \/ PersonRecently(r)

Ignore(r) ==
    /\ step[r] = "guard" /\ Guarded(r)
    /\ logged' = logged \cup {Entry(r, found[r], "IGNORED_COOLDOWN")}
    /\ Answer(r)
    /\ UNCHANGED <<now, registry, stamps, seenAt, counters, history>>

(* So long after the search that a stamp of the same key, committed since, *)
(* may be older than the guard.                                            *)
TooLate(r) == now > searched[r] + Guard - Life

PassGuard(r) ==
    /\ step[r] = "guard" /\ ~ Guarded(r)
    /\ Goto(r, "stamp")
    /\ late' = IF TooLate(r) THEN late \cup {job[r].glance} ELSE late
    /\ UNCHANGED <<now, registry, events, seenAt, outbox, locks, private, counters, forgotten, crossed, borrowed>>

InsertStamp(r) ==
    /\ step[r] = "stamp"
    /\ stampedAt' = [stampedAt EXCEPT ![r] = now]
    /\ Goto(r, "commit")
    /\ UNCHANGED <<now, registry, events, seenAt, outbox, locks, job, found, foundStatus, searched, counters, history>>

StampOf(r) == [glance |-> job[r].glance, path |-> job[r].path, driver |-> found[r], at |-> stampedAt[r]]

Commit(r) ==
    /\ step[r] = "commit"
    /\ stamps' = Append(stamps, StampOf(r))
    /\ Answer(r)
    /\ UNCHANGED <<now, registry, logged, seenAt, counters, history>>

-----------------------------------------------------------------------------
(* A statement of the transaction fails: rolled back, and caught.          *)
Rollback(r) ==
    /\ step[r] \in {"lock", "guard", "stamp", "commit"}
    /\ faults < MaxFaults /\ faults' = faults + 1 /\ UNCHANGED webhooks
    /\ locks' = [d \in Drivers |-> IF locks[d] = r THEN NoRequest ELSE locks[d]]
    /\ Goto(r, "error")
    /\ UNCHANGED <<now, registry, events, seenAt, outbox, private, history>>

(* Mutant: the exception is caught and forgotten.                          *)
LogError_Swallowed(r) ==
    /\ step[r] = "error"
    /\ Answer(r)
    /\ UNCHANGED <<now, registry, events, seenAt, counters, history>>

(* The ERROR event is inserted and the exception is thrown on, so that the *)
(* agent keeps the event in its outbox.                                    *)
LogError(r) ==
    /\ step[r] = "error"
    /\ logged' = logged \cup {Entry(r, found[r], "ERROR")}
    /\ Leave(r)
    /\ UNCHANGED <<now, registry, stamps, seenAt, outbox, counters, history>>

(* Any other statement fails, or the process ends.                         *)
Abort(r) ==
    /\ step[r] # "idle"
    /\ faults < MaxFaults /\ faults' = faults + 1 /\ UNCHANGED webhooks
    /\ Leave(r)
    /\ UNCHANGED <<now, registry, events, seenAt, outbox, history>>

(* The registration that was read as pending has been deleted.             *)
LinkFails(r) ==
    /\ step[r] = "link" /\ found[r] = Nobody
    /\ Leave(r)
    /\ UNCHANGED <<now, registry, events, seenAt, outbox, counters, history>>

-----------------------------------------------------------------------------
(* What the staff and the agent do to the registry meanwhile, each in one  *)
(* step (Enrollment has the statements).                                   *)
SetStatus(d, s) ==
    /\ "setStatus" \in Operations
    /\ d \notin deleted
    /\ status' = [status EXCEPT ![d] = s]
    /\ UNCHANGED <<now, faceId, armed, deleted, events, seenAt, outbox, locks, step, private, counters, history>>

(* startDevicePairing, unless another driver is being paired on the device.*)
Busy(d, v) == \E e \in Drivers \ {d} : faceId[e][v] = NoId /\ armed[e][v] > now

StartPairing(d, v) ==
    /\ "pair" \in Operations
    /\ ~ Busy(d, v)
    /\ faceId' = [faceId EXCEPT ![d][v] = NoId]
    /\ armed' = [armed EXCEPT ![d][v] = now + Window]
    /\ UNCHANGED <<now, status, deleted, events, seenAt, outbox, locks, step, private, counters, history>>

(* enrollOnDevices queues a photo: the registration starts anew.           *)
Queue(d, v) ==
    /\ "queue" \in Operations
    /\ faceId' = [faceId EXCEPT ![d][v] = NoId]
    /\ armed' = [armed EXCEPT ![d][v] = Never]
    /\ UNCHANGED <<now, status, deleted, events, seenAt, outbox, locks, step, private, counters, history>>

Activated(d) == status' = [status EXCEPT ![d] = IF @ = "PENDING" THEN "ACTIVE" ELSE @]

(* setManualFaceMapping, unless another driver has the Person ID there.    *)
Map(d, v, id) ==
    /\ "map" \in Operations
    /\ LinkedOn(v, id) \ {d} = {}
    /\ Linked(d, v, id)
    /\ Activated(d)
    /\ UNCHANGED <<now, events, seenAt, outbox, locks, step, private, counters>>

(* The agent, or a direct push, has written the photo to the terminal, as  *)
(* a person with the driver's own id.                                      *)
Ack(d, v) ==
    /\ "ack" \in Operations
    /\ Linked(d, v, d)
    /\ Activated(d)
    /\ UNCHANGED <<now, events, seenAt, outbox, locks, step, private, counters>>

(* Registrations are deleted under a claim that has read one of them.      *)
Delete(D, V) ==
    /\ faceId' = [d \in Drivers |-> [v \in Devices |-> IF d \in D /\ v \in V THEN NoId ELSE faceId[d][v]]]
    /\ armed' = [d \in Drivers |-> [v \in Devices |-> IF d \in D /\ v \in V THEN Never ELSE armed[d][v]]]
    /\ found' = [r \in Requests |->
                    IF step[r] \in {"taken", "link"} /\ Device(r) \in V /\ found[r] \in D
                    THEN Nobody ELSE found[r]]
    /\ UNCHANGED <<now, events, seenAt, outbox, locks, step, job, foundStatus, stampedAt, searched,
                   counters, history>>

(* cancelDevicePairing, unlinkDevice, and resetEnrollmentBacklog for each  *)
(* photo that still waits.                                                 *)
Unlink(d, v) ==
    /\ "unlink" \in Operations
    /\ Delete({d}, {v})
    /\ UNCHANGED <<status, deleted>>

(* softDelete, and resetEnrollmentBacklog for each driver it removes.      *)
SoftDelete(d) ==
    /\ "softDelete" \in Operations
    /\ d \notin deleted
    /\ Delete({d}, Devices)
    /\ status' = [status EXCEPT ![d] = "BLOCKED"]
    /\ deleted' = deleted \cup {d}

-----------------------------------------------------------------------------
Proceed(r) ==
    \/ DropDuplicate(r) \/ NoDuplicate(r)
    \/ Resolve(r) \/ ReadPending(r) \/ CheckTaken(r) \/ Link(r) \/ LinkFails(r)
    \/ Activate(r) \/ Fallback(r) \/ LogUnmatched(r)
    \/ LockDriver(r) \/ Ignore(r) \/ PassGuard(r) \/ InsertStamp(r) \/ Commit(r)
    \/ LogError(r)

Staff ==
    \E d \in Drivers :
       \/ \E s \in {"ACTIVE", "BLOCKED"} : SetStatus(d, s)
       \/ \E v \in Devices :
             \/ StartPairing(d, v) \/ Queue(d, v) \/ Ack(d, v) \/ Unlink(d, v)
             \/ \E id \in PersonIds : Map(d, v, id)
       \/ SoftDelete(d)

Next ==
    \/ Tick \/ Staff
    \/ \E g \in Glances : Look(g) \/ Recede(g)
    \/ \E r \in Requests :
          \/ \E g \in Glances : Webhook(r, g) \/ AgentPost(r, g)
          \/ Proceed(r) \/ Rollback(r) \/ Abort(r)

Spec == Init /\ [][Next]_vars

(* The server runs its requests, advisory locks are granted in turn, and   *)
(* the agent goes on posting what it has.                                  *)
Fairness ==
    /\ \A r \in Requests : WF_vars(Proceed(r)) /\ SF_vars(LockDriver(r))
    /\ \A g \in Glances : SF_vars(\E r \in Requests : AgentPost(r, g))
FairSpec == Spec /\ Fairness

-----------------------------------------------------------------------------
(* However many terminals, paths and retries report a driver, two stamps   *)
(* of his are always more than the guard apart.                            *)
MinGap ==
    \A i, k \in DOMAIN stamps :
        i < k /\ stamps[i].driver = stamps[k].driver => stamps[k].at > stamps[i].at + Guard

(* A stamp goes to the driver who looked, whatever is linked, cleared and  *)
(* paired while he is looked up, unless the Person ID of his face on this  *)
(* terminal was once linked to someone else (another face claimed the      *)
(* pairing, or the staff typed it for the wrong driver), or he was looked  *)
(* up in another terminal's registrations, where the same number is        *)
(* another face.                                                           *)
Misled(g) == <<Gate[g], Reported[g]>> \in crossed \/ g \in borrowed

RightDriver ==
    \A i \in DOMAIN stamps :
        stamps[i].driver = Face[stamps[i].glance] \/ Misled(stamps[i].glance)

(* An event of the terminal that the agent posts again and again is        *)
(* stamped at most once, while the search reaches its first event, unless  *)
(* one of the posts was so slow that it came to the guard when the other's *)
(* stamp had left the guard's window, or the two were given to different   *)
(* drivers.                                                                *)
StampedOncePerKey ==
    \A i, k \in DOMAIN stamps :
        /\ stamps[i].path = "agent" /\ stamps[k].path = "agent"
        /\ stamps[i].glance = stamps[k].glance
        /\ stamps[i].glance \notin forgotten \cup late
        /\ ~ Misled(stamps[i].glance)
        => i = k

(* What the agent holds ends up in the log, as a stamp or otherwise,       *)
(* unless the staff delete for ever the registrations it is to claim.      *)
StaffSettle == <>[][\A d \in Drivers, v \in Devices : ~ Unlink(d, v)]_vars

Delivered == StaffSettle => \A g \in Glances : g \in outbox ~> Logged(g)

(* The agent's README promises that no pechat is lost: what it has handed  *)
(* over was stamped, or refused, but never just failed.                    *)
HandedOver(g) == seenAt[g] # Never /\ g \notin outbox

NoneLost ==
    \A g \in Glances : HandedOver(g) =>
        \/ \E i \in DOMAIN stamps : stamps[i].glance = g
        \/ \E e \in logged : e.glance = g /\ e.status # "ERROR"
=============================================================================
