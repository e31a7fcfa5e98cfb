---------------------------- MODULE Enrollment ----------------------------
(***************************************************************************)
(* Drivers and their registrations on the terminals, statement by          *)
(* statement: drivers.service.ts, the agent's side of the queue in         *)
(* agent.service.ts, the agent keys of devices.service.ts, the claim of a  *)
(* pairing in recognition.service.ts and the login code of auth.service.ts.*)
(*                                                                         *)
(* None of these operations locks anything: each reads a row, checks, and  *)
(* writes in a later statement, so that a write may rest on something      *)
(* that is no longer so.  A registration is one row per driver and         *)
(* device; it waits for the agent (no face, no window), for a look at the  *)
(* terminal (no face, a window: "Ulash"), or has a Person ID.              *)
(***************************************************************************)
EXTENDS Integers, FiniteSets

CONSTANTS Drivers, Devices, Phones, Requests,
          Numbers,     \* Person IDs that terminals give on their own
          Direct,      \* devices the server can call itself
          Window,      \* PAIRING_WINDOW_MS
          Grace,       \* how late a claim may come
          Operations,  \* the operations that occur
          MaxTime,     \* bound: the clock
          MaxCalls,    \* bound: requests in all
          MaxPhoto,    \* bound: photos of a driver that are stored
          NoFace, NoRow, Nothing, Freed

ASSUME EnrollmentAssumption ==
    /\ Direct \subseteq Devices
    /\ Window \in Nat /\ Grace \in Nat
    /\ MaxTime \in Nat /\ MaxCalls \in Nat /\ MaxPhoto \in Nat \ {0}
    /\ NoFace \notin Numbers \cup Drivers /\ Numbers \cap Drivers = {}
    /\ Freed \notin Phones

VARIABLES now,       \* the server's clock
          drivers,   \* the table of drivers
          regs,      \* driver_device_registrations, by driver and device
          rows,      \* the id of the next registration
          keyed,     \* devices with an agentKeyHash
          hand,      \* the job each device's relay agent has in hand
          terminal,  \* which photo of a driver each terminal has, 0 if none
          request,   \* the requests the server works on
          calls,     \* how many there were
          met,       \* history: devices where two checked writes overlapped
          caught,    \* history: drivers deleted during another request
          overtaken  \* history: where another job answers for what was queued, or
                     \* the agent wrote the stored photo in place of another

history == <<met, caught, overtaken>>
vars == <<now, drivers, regs, rows, keyed, hand, terminal, request, calls, history>>

-----------------------------------------------------------------------------
Null == -1  \* pairingExpiresAt of a row that does not wait for a look
Statuses == {"PENDING", "ACTIVE", "BLOCKED"}
PersonIds == Numbers \cup Drivers

(* The stored photos of a driver are numbered; one that is uploaded with   *)
(* the request to enrol him is stored nowhere.                             *)
Uploaded == MaxPhoto + 1
Photos == 0 .. Uploaded

DriverRows == [status : Statuses, deleted : BOOLEAN, phone : Phones \cup {Freed},
               photo : 0 .. MaxPhoto, used : BOOLEAN]
Registrations == [id : Nat, sync : {"PENDING", "SYNCED", "FAILED"}, face : PersonIds \cup {NoFace},
                  until : {Null} \cup 0 .. MaxTime + Window, asked : Photos]
Steps == {"driver", "insert", "conflict", "busy", "phone", "registration", "pending",
          "look", "write", "code", "activate", "ifPending", "photo", "agents", "enrollee",
          "devices", "enroll", "push", "remove"}
Idle == [op |-> "none"]
Jobs == [driver : Drivers, id : Nat, outcome : {"taken", "ok", "failed"}]

(* What stands for an empty place is no row, no job and no driver.         *)
ASSUME EmptyAssumption ==
    /\ NoRow \notin Registrations
    /\ Nothing \notin Drivers \cup DriverRows \cup Jobs

Exists(d) == drivers[d] # Nothing
Row(d, v) == regs[d][v]
HasRow(d, v) == Row(d, v) # NoRow
At(r, s) == request[r] # Idle /\ request[r].at = s
Op(r) == request[r].op
Driver(r) == request[r].driver
Device(r) == request[r].device
Value(r) == request[r].value

(* The row a request has read is still there.                              *)
Same(r, d, v) == HasRow(d, v) /\ Row(d, v).id = request[r].row

NewRow == [id |-> rows, sync |-> "PENDING", face |-> NoFace, until |-> Null, asked |-> 0]
Upsert(d, v, row) ==
    /\ regs' = [regs EXCEPT ![d][v] = [row EXCEPT !.id = IF HasRow(d, v) THEN Row(d, v).id ELSE rows]]
    /\ rows' = IF HasRow(d, v) THEN rows ELSE rows + 1

Goto(r, s) == request' = [request EXCEPT ![r].at = s]
Finish(r) == request' = [request EXCEPT ![r] = Idle]
Refuse(r) == Finish(r) /\ UNCHANGED <<drivers, regs, rows, terminal>>
Alone == UNCHANGED <<now, keyed, hand, calls>>
Fresh(phone, photo) ==
    [status |-> "PENDING", deleted |-> FALSE, phone |-> phone, photo |-> photo, used |-> FALSE]

Init ==
    /\ now = 0
    /\ \E known \in SUBSET Drivers :
       \E phone \in [known -> Phones] :
          /\ \A d, e \in known : phone[d] = phone[e] => d = e
          /\ drivers = [d \in Drivers |-> IF d \in known THEN Fresh(phone[d], 1) ELSE Nothing]
    /\ regs = [d \in Drivers |-> [v \in Devices |-> NoRow]]
    /\ rows = 1
    /\ keyed \in SUBSET Devices
    /\ hand = [v \in Devices |-> Nothing]
    /\ terminal = [d \in Drivers |-> [v \in Devices |-> 0]]
    /\ request = [r \in Requests |-> Idle]
    /\ calls = 0
    /\ met = {} /\ caught = {} /\ overtaken = {}

-----------------------------------------------------------------------------
(* A request comes in.  What it is about depends on the operation; a       *)
(* report of the recognition service names a device and a Person ID.       *)
First == [create |-> "insert", update |-> "driver", updatePhoto |-> "driver",
          enroll |-> "driver", requeueEnrollment |-> "driver", setManualFaceMapping |-> "driver",
          startDevicePairing |-> "driver", cancelDevicePairing |-> "registration",
          unlinkDevice |-> "registration", setStatus |-> "driver", softDelete |-> "driver",
          resetEnrollmentBacklog |-> "look", claimPendingPairing |-> "pending",
          verifyDriverOtp |-> "driver"]

ASSUME OperationsAssumption == Operations \subseteq DOMAIN First

Values(op) ==
    CASE op \in {"create", "update"} -> Phones
      [] op = "setManualFaceMapping" -> Numbers
      [] op = "claimPendingPairing" -> PersonIds
      [] op = "setStatus" -> {"ACTIVE", "BLOCKED"}
      [] OTHER -> {Nothing}

Subjects(op) == IF op \in {"resetEnrollmentBacklog", "claimPendingPairing"} THEN {Nothing} ELSE Drivers

Call(op, at, d, v, x) ==
    [op |-> op, at |-> at, driver |-> d, device |-> v, value |-> x, read |-> "PENDING",
     row |-> 0, seen |-> {}, todo |-> {}, photo |-> IF op = "enroll" THEN Uploaded ELSE 0, synced |-> FALSE]

Arrive(r) ==
    /\ request[r] = Idle /\ calls < MaxCalls
    /\ \E op \in Operations, v \in Devices : \E d \in Subjects(op), x \in Values(op) :
          request' = [request EXCEPT ![r] = Call(op, First[op], d, v, x)]
    /\ calls' = calls + 1
    /\ UNCHANGED <<now, drivers, regs, rows, keyed, hand, terminal, history>>

(* Only windows are compared with the clock: without one it may stand.     *)
Tick ==
    /\ now < MaxTime /\ now' = now + 1
    /\ \E d \in Drivers, v \in Devices : HasRow(d, v) /\ Row(d, v).until # Null
    /\ UNCHANGED <<drivers, regs, rows, keyed, hand, terminal, request, calls, history>>

(* A transaction or a recognition event of an active driver.               *)
Use(d) ==
    /\ Exists(d) /\ drivers[d].status = "ACTIVE" /\ ~ drivers[d].used
    /\ drivers' = [drivers EXCEPT ![d].used = TRUE]
    /\ UNCHANGED <<now, regs, rows, keyed, hand, terminal, request, calls, history>>

-----------------------------------------------------------------------------
(* Mutant: a photo is accepted of a deleted driver too.                    *)
Strict_ExceptPhoto == {"update", "setStatus", "softDelete", "verifyDriverOtp"}

(* The driver is read first; some operations refuse one who is deleted,    *)
(* and a login code is of no use to one who is blocked.                    *)
Strict == {"update", "updatePhoto", "setStatus", "softDelete", "verifyDriverOtp"}

Refused(op, row) == (row.deleted /\ op \in Strict) \/ (row.status = "BLOCKED" /\ op = "verifyDriverOtp")

AfterDriver(op) ==
    CASE op = "update" -> "phone"
      [] op = "requeueEnrollment" -> "photo"
      [] op = "setManualFaceMapping" -> "conflict"
      [] op = "startDevicePairing" -> "busy"
      [] op = "softDelete" -> "remove"
      [] op = "enroll" -> "devices"
      [] op = "verifyDriverOtp" -> "code"
      [] op \in {"updatePhoto", "setStatus"} -> "write"

(* softDelete reads the registrations with the driver.                     *)
Faces(d) == {v \in Devices : HasRow(d, v) /\ Row(d, v).face # NoFace}

ReadDriver(r) ==
    /\ At(r, "driver")
    /\ LET d == Driver(r)
       IN IF ~ Exists(d) \/ Refused(Op(r), drivers[d])
          THEN Finish(r)
          ELSE request' = [request EXCEPT ![r].at = AfterDriver(Op(r)), ![r].read = drivers[d].status,
                                          ![r].seen = IF Op(r) = "softDelete" THEN Faces(d) ELSE {}]
    /\ Alone /\ UNCHANGED <<drivers, regs, rows, terminal, history>>

PhoneTaken(d, p) == \E e \in Drivers \ {d} : Exists(e) /\ drivers[e].phone = p

CheckPhone(r) ==
    /\ At(r, "phone")
    /\ IF PhoneTaken(Driver(r), Value(r)) THEN Finish(r) ELSE Goto(r, "write")
    /\ Alone /\ UNCHANGED <<drivers, regs, rows, terminal, history>>

(* Another request on this device is between its check and its write.      *)
Checked(v, r) ==
    \E q \in Requests \ {r} :
        /\ At(q, "write") /\ Device(q) = v
        /\ Op(q) \in {"startDevicePairing", "setManualFaceMapping", "claimPendingPairing"}
Meet(r) == met' = IF Checked(Device(r), r) THEN met \cup {Device(r)} ELSE met

(* Mutant: only pairings in progress are compared.                         *)
Taken_Waiting(d, v, x) == \E e \in Drivers \ {d} : HasRow(e, v) /\ Row(e, v).face = x /\ Row(e, v).until # Null

(* Another driver has this Person ID on this device.                       *)
Taken(d, v, x) == \E e \in Drivers \ {d} : HasRow(e, v) /\ Row(e, v).face = x

CheckConflict(r) ==
    /\ At(r, "conflict")
    /\ IF Taken(Driver(r), Device(r), Value(r)) THEN Finish(r) ELSE Goto(r, "write")
    /\ Meet(r)
    /\ Alone /\ UNCHANGED <<drivers, regs, rows, terminal, caught, overtaken>>

(* Another driver is being paired on this device.                          *)
Armed(d, v) == HasRow(d, v) /\ Row(d, v).face = NoFace /\ Row(d, v).until > now

(* Mutant: the driver is compared with himself.                            *)
Busy_Self(d, v) == Armed(d, v)

Busy(d, v) == \E e \in Drivers \ {d} : Armed(e, v)

CheckBusy(r) ==
    /\ At(r, "busy")
    /\ IF Busy(Driver(r), Device(r)) THEN Finish(r) ELSE Goto(r, "write")
    /\ Meet(r)
    /\ Alone /\ UNCHANGED <<drivers, regs, rows, terminal, caught, overtaken>>

(* A registration is found by driver and device and deleted by its id; one *)
(* that has a Person ID is not a pairing that could be cancelled.          *)
ReadRegistration(r) ==
    /\ At(r, "registration") /\ Op(r) # "ack"
    /\ LET d == Driver(r)  v == Device(r)
       IN IF ~ HasRow(d, v) \/ (Op(r) = "cancelDevicePairing" /\ Row(d, v).face # NoFace)
          THEN Finish(r)
          ELSE request' = [request EXCEPT ![r].at = "write", ![r].row = Row(d, v).id]
    /\ Alone /\ UNCHANGED <<drivers, regs, rows, terminal, history>>

DeleteRegistration(r) ==
    /\ At(r, "write") /\ Op(r) \in {"cancelDevicePairing", "unlinkDevice"}
    /\ regs' = IF Same(r, Driver(r), Device(r)) THEN [regs EXCEPT ![Driver(r)][Device(r)] = NoRow] ELSE regs
    /\ Finish(r)
    /\ Alone /\ UNCHANGED <<drivers, rows, terminal, history>>

-----------------------------------------------------------------------------
(* The writes of the operations on one driver.                             *)
WriteDriver(r) ==
    /\ At(r, "write")
    /\ LET d == Driver(r)
       IN drivers' =
            CASE Op(r) = "setStatus" -> [drivers EXCEPT ![d].status = Value(r)]
              [] Op(r) = "updatePhoto" /\ drivers[d].photo < MaxPhoto -> [drivers EXCEPT ![d].photo = @ + 1]
              [] Op(r) = "update" /\ ~ PhoneTaken(d, Value(r)) -> [drivers EXCEPT ![d].phone = Value(r)]
              [] OTHER -> drivers
    /\ Op(r) \in {"setStatus", "updatePhoto", "update"}
    /\ Finish(r)
    /\ Alone /\ UNCHANGED <<regs, rows, terminal, history>>

WriteMapping(r) ==
    /\ At(r, "write") /\ Op(r) = "setManualFaceMapping"
    /\ Upsert(Driver(r), Device(r), [NewRow EXCEPT !.sync = "SYNCED", !.face = Value(r)])
    /\ IF request[r].read = "PENDING" THEN Goto(r, "activate") ELSE Finish(r)
    /\ Alone /\ UNCHANGED <<drivers, terminal, history>>

WritePairing(r) ==
    /\ At(r, "write") /\ Op(r) = "startDevicePairing"
    /\ Upsert(Driver(r), Device(r), [NewRow EXCEPT !.until = now + Window])
    /\ Finish(r)
    /\ Alone /\ UNCHANGED <<drivers, terminal, history>>

Activate(r) ==
    /\ At(r, "activate")
    /\ drivers' = [drivers EXCEPT ![Driver(r)].status = "ACTIVE"]
    /\ Finish(r)
    /\ Alone /\ UNCHANGED <<regs, rows, terminal, history>>

(* The login code opens the account of a driver who was read as PENDING.   *)
CheckCode(r) ==
    /\ At(r, "code")
    /\ \/ Finish(r)
       \/ request[r].read = "PENDING" /\ Goto(r, "activate")
    /\ Alone /\ UNCHANGED <<drivers, regs, rows, terminal, history>>

(* Before a driver is deleted the server removes his face where it can, of *)
(* the registrations it read with him.                                     *)
RemoveFaces(r) ==
    /\ At(r, "remove")
    /\ \E gone \in SUBSET (Direct \cap request[r].seen) :
          /\ terminal' = [terminal EXCEPT ![Driver(r)] = [v \in Devices |-> IF v \in gone THEN 0 ELSE @[v]]]
          /\ overtaken' = overtaken \cup ({Driver(r)} \X gone)
    /\ Goto(r, "write")
    /\ Alone /\ UNCHANGED <<drivers, regs, rows, met, caught>>

(* The transaction that deletes drivers: no registration, no photo, no     *)
(* phone remains.  Whoever is in the middle of a request does not notice.  *)
Gone(row) == [row EXCEPT !.status = "BLOCKED", !.deleted = TRUE, !.phone = Freed, !.photo = 0]
Delete(r, gone) ==
    /\ drivers' = [d \in Drivers |-> IF d \in gone THEN Gone(drivers[d]) ELSE drivers[d]]
    /\ caught' = caught \cup {d \in gone : \E q \in Requests \ {r} : request[q] # Idle /\ Driver(q) = d}

SoftDelete(r) ==
    /\ At(r, "write") /\ Op(r) = "softDelete"
    /\ Delete(r, {Driver(r)})
    /\ regs' = [regs EXCEPT ![Driver(r)] = [v \in Devices |-> NoRow]]
    /\ Finish(r)
    /\ Alone /\ UNCHANGED <<rows, terminal, met, overtaken>>

(* resetEnrollmentBacklog looks for drivers nobody has used ...            *)
Waiting ==
    {d \in Drivers : /\ Exists(d) /\ ~ drivers[d].deleted /\ ~ drivers[d].used
                     /\ \A v \in Devices : HasRow(d, v) => Row(d, v).face = NoFace /\ Row(d, v).until <= now}

Look(r) ==
    /\ At(r, "look")
    /\ request' = [request EXCEPT ![r].at = "write", ![r].seen = Waiting]
    /\ Alone /\ UNCHANGED <<drivers, regs, rows, terminal, history>>

(* ... and, in a transaction, deletes those it has seen and every row that *)
(* is, or has been, a job of an agent.                                     *)
IsJob(row) == row # NoRow /\ row.face = NoFace /\ row.until = Null /\ row.sync \in {"PENDING", "FAILED"}

ResetBacklog(r) ==
    /\ At(r, "write") /\ Op(r) = "resetEnrollmentBacklog"
    /\ Delete(r, request[r].seen)
    /\ regs' = [d \in Drivers |-> [v \in Devices |->
                   IF d \in request[r].seen \/ IsJob(regs[d][v]) THEN NoRow ELSE regs[d][v]]]
    /\ Finish(r)
    /\ Alone /\ UNCHANGED <<rows, terminal, met, overtaken>>

-----------------------------------------------------------------------------
(* create: the unique phone decides, the photo's URL follows, and the face *)
(* is queued on the chosen devices, or on all that have an agent by then.  *)
Insert(r) ==
    /\ At(r, "insert")
    /\ \E photo \in {0, 1}, chosen \in SUBSET Devices :
          LET d == Driver(r)
          IN IF Exists(d) \/ PhoneTaken(d, Value(r)) \/ (photo = 0 /\ chosen # {})
             THEN Refuse(r)
             ELSE /\ drivers' = [drivers EXCEPT ![d] = Fresh(Value(r), photo)]
                  /\ IF photo = 0 THEN Finish(r)
                     ELSE request' = [request EXCEPT ![r].at = IF chosen = {} THEN "agents" ELSE "enrollee",
                                                     ![r].todo = chosen, ![r].photo = photo]
                  /\ UNCHANGED <<regs, rows, terminal>>
    /\ Alone /\ UNCHANGED history

ReadAgents(r) ==
    /\ At(r, "agents")
    /\ IF keyed = {} THEN Finish(r) ELSE request' = [request EXCEPT ![r].at = "enrollee", ![r].todo = keyed]
    /\ Alone /\ UNCHANGED <<drivers, regs, rows, terminal, history>>

ReadPhoto(r) ==
    /\ At(r, "photo")
    /\ LET photo == drivers[Driver(r)].photo
       IN IF photo = 0 THEN Finish(r) ELSE request' = [request EXCEPT ![r].at = "enrollee", ![r].photo = photo]
    /\ Alone /\ UNCHANGED <<drivers, regs, rows, terminal, history>>

(* enrollOnDevices reads the driver, again or for the first time, and then *)
(* the devices with their keys.                                            *)
ReadEnrollee(r) ==
    /\ At(r, "enrollee")
    /\ request' = [request EXCEPT ![r].at = "devices", ![r].read = drivers[Driver(r)].status]
    /\ Alone /\ UNCHANGED <<drivers, regs, rows, terminal, history>>

ReadDevices(r) ==
    /\ At(r, "devices")
    /\ \E chosen \in IF Op(r) = "create" THEN {request[r].todo} ELSE (SUBSET Devices) \ {{}} :
          request' = [request EXCEPT ![r].at = "enroll", ![r].todo = chosen, ![r].seen = keyed]
    /\ Alone /\ UNCHANGED <<drivers, regs, rows, terminal, history>>

(* Each device's row starts anew, also under the hands of an agent who has *)
(* it for a job, of a report that is about to claim it, or of an earlier   *)
(* push; with an agent key that is all.                                    *)
HeldByOthers(d, v) ==
    /\ HasRow(d, v)
    /\ \/ hand[v] # Nothing /\ hand[v].id = Row(d, v).id
       \/ \E q \in Requests : /\ request[q] # Idle /\ Device(q) = v /\ request[q].row = Row(d, v).id
                             /\ (Op(q) \in {"ack", "claimPendingPairing"} \/ At(q, "push"))

(* Mutant: only the date of the request is written.                        *)
Clean_KeepsStatus(d, v, photo) ==
    IF HasRow(d, v) THEN [Row(d, v) EXCEPT !.asked = photo] ELSE [NewRow EXCEPT !.asked = photo]

Clean(d, v, photo) == [NewRow EXCEPT !.asked = photo]

Enroll(r) ==
    /\ At(r, "enroll")
    /\ \E v \in request[r].todo :
          LET d == Driver(r)
          IN /\ Upsert(d, v, Clean(d, v, request[r].photo))
             /\ overtaken' = IF HeldByOthers(d, v) THEN overtaken \cup {<<d, v>>} ELSE overtaken \ {<<d, v>>}
             /\ request' = [request EXCEPT ![r].todo = @ \ {v},
                              ![r].at = IF v \in request[r].seen THEN "enroll" ELSE "push",
                              ![r].device = v, ![r].row = IF HasRow(d, v) THEN Row(d, v).id ELSE rows]
    /\ Alone /\ UNCHANGED <<drivers, terminal, met, caught>>

(* Otherwise the server pushes the face itself where it can, also when the  *)
(* row is gone by then.                                                    *)
Push(r) ==
    /\ At(r, "push")
    /\ LET d == Driver(r)  v == Device(r)  there == Same(r, d, v)
       IN \/ /\ v \in Direct
             /\ terminal' = [terminal EXCEPT ![d][v] = request[r].photo]
             /\ overtaken' = IF there THEN overtaken ELSE overtaken \cup {<<d, v>>}
             /\ regs' = IF there THEN [regs EXCEPT ![d][v].sync = "SYNCED", ![d][v].face = d] ELSE regs
             /\ IF there THEN request' = [request EXCEPT ![r].at = "enroll", ![r].synced = TRUE] ELSE Finish(r)
          \/ /\ regs' = IF there THEN [regs EXCEPT ![d][v].sync = "FAILED"] ELSE regs
             /\ IF there THEN Goto(r, "enroll") ELSE Finish(r)
             /\ UNCHANGED <<terminal, overtaken>>
    /\ Alone /\ UNCHANGED <<drivers, rows, met, caught>>

Enrolled(r) ==
    /\ At(r, "enroll") /\ request[r].todo = {}
    /\ IF request[r].synced /\ request[r].read = "PENDING" THEN Goto(r, "activate") ELSE Finish(r)
    /\ Alone /\ UNCHANGED <<drivers, regs, rows, terminal, history>>

-----------------------------------------------------------------------------
(* The agent of a device asks for its jobs, writes the face of one, and    *)
(* reports the outcome under the row's id.                                 *)
Pending(v) ==
    {d \in Drivers : /\ IsJob(Row(d, v)) /\ Row(d, v).sync = "PENDING"
                     /\ ~ drivers[d].deleted /\ drivers[d].status # "BLOCKED"}

TakeJob(v) ==
    /\ v \in keyed /\ hand[v] = Nothing
    /\ \E d \in Pending(v) : hand' = [hand EXCEPT ![v] = [driver |-> d, id |-> Row(d, v).id, outcome |-> "taken"]]
    /\ UNCHANGED <<now, drivers, regs, rows, keyed, terminal, request, calls, history>>

(* The photo it writes is the one that is stored.                          *)
WriteFace(v) ==
    /\ hand[v] # Nothing /\ hand[v].outcome = "taken"
    /\ LET d == hand[v].driver
       IN \/ /\ drivers[d].photo > 0
             /\ terminal' = [terminal EXCEPT ![d][v] = drivers[d].photo]
             /\ hand' = [hand EXCEPT ![v].outcome = "ok"]
             /\ overtaken' = IF HasRow(d, v) /\ Row(d, v).asked = Uploaded
                             THEN overtaken \cup {<<d, v>>} ELSE overtaken
          \/ hand' = [hand EXCEPT ![v].outcome = "failed"] /\ UNCHANGED <<terminal, overtaken>>
    /\ UNCHANGED <<now, drivers, regs, rows, keyed, request, calls, met, caught>>

Report(v, r) ==
    /\ hand[v] # Nothing /\ hand[v].outcome # "taken" /\ request[r] = Idle /\ v \in keyed
    /\ request' = [request EXCEPT ![r] =
                     [Call("ack", "registration", hand[v].driver, v, hand[v].outcome) EXCEPT !.row = hand[v].id]]
    /\ hand' = [hand EXCEPT ![v] = Nothing]
    /\ UNCHANGED <<now, drivers, regs, rows, keyed, terminal, calls, history>>

FindAcked(r) ==
    /\ At(r, "registration") /\ Op(r) = "ack"
    /\ IF Same(r, Driver(r), Device(r)) THEN Goto(r, "write") ELSE Finish(r)
    /\ Alone /\ UNCHANGED <<drivers, regs, rows, terminal, history>>

WriteAck(r) ==
    /\ At(r, "write") /\ Op(r) = "ack"
    /\ LET d == Driver(r)  v == Device(r)
       IN IF ~ Same(r, d, v) THEN Refuse(r)
          ELSE /\ IF Value(r) = "ok"
                  THEN /\ regs' = [regs EXCEPT ![d][v].sync = "SYNCED", ![d][v].face = d, ![d][v].until = Null]
                       /\ Goto(r, "ifPending")
                  ELSE regs' = [regs EXCEPT ![d][v].sync = "FAILED"] /\ Finish(r)
               /\ UNCHANGED <<drivers, rows, terminal>>
    /\ Alone /\ UNCHANGED history

(* Mutant: the status is not looked at.                                    *)
ActivateIfPending_Always(r) ==
    /\ At(r, "ifPending")
    /\ drivers' = [drivers EXCEPT ![Driver(r)].status = "ACTIVE"]
    /\ Finish(r)
    /\ Alone /\ UNCHANGED <<regs, rows, terminal, history>>

(* One conditional statement: a driver blocked meanwhile stays blocked.    *)
ActivateIfPending(r) ==
    /\ At(r, "ifPending")
    /\ drivers' = IF drivers[Driver(r)].status = "PENDING"
                  THEN [drivers EXCEPT ![Driver(r)].status = "ACTIVE"] ELSE drivers
    /\ Finish(r)
    /\ Alone /\ UNCHANGED <<regs, rows, terminal, history>>

-----------------------------------------------------------------------------
(* claimPendingPairing: an unknown Person ID goes to the driver who waits  *)
(* for a look at this device, or did until recently.                       *)
ReadPending(r) ==
    /\ At(r, "pending")
    /\ LET v == Device(r)
           waits == {d \in Drivers : /\ HasRow(d, v) /\ Row(d, v).face = NoFace
                                     /\ Row(d, v).until # Null /\ Row(d, v).until > now - Grace}
       IN IF waits = {} THEN Finish(r)
          ELSE \E d \in waits :
                 request' = [request EXCEPT ![r].at = "conflict", ![r].driver = d,
                                            ![r].read = drivers[d].status, ![r].row = Row(d, v).id]
    /\ Alone /\ UNCHANGED <<drivers, regs, rows, terminal, history>>

WriteClaim(r) ==
    /\ At(r, "write") /\ Op(r) = "claimPendingPairing"
    /\ LET d == Driver(r)  v == Device(r)
       IN IF ~ Same(r, d, v) THEN Refuse(r)
          ELSE /\ regs' = [regs EXCEPT ![d][v].sync = "SYNCED", ![d][v].face = Value(r), ![d][v].until = Null]
               /\ IF request[r].read = "PENDING" THEN Goto(r, "activate") ELSE Finish(r)
               /\ UNCHANGED <<drivers, rows, terminal>>
    /\ Alone /\ UNCHANGED history

(* An agent key is issued, in place of the last one, or revoked.           *)
SetKey(v) ==
    /\ calls < MaxCalls
    /\ keyed' = IF v \in keyed THEN keyed \ {v} ELSE keyed \cup {v}
    /\ calls' = calls + 1
    /\ UNCHANGED <<now, drivers, regs, rows, hand, terminal, request, history>>

Serve(r) ==
    \/ Arrive(r) \/ ReadDriver(r) \/ CheckPhone(r) \/ CheckConflict(r) \/ CheckBusy(r)
    \/ ReadRegistration(r) \/ DeleteRegistration(r) \/ WriteDriver(r) \/ WriteMapping(r)
    \/ WritePairing(r) \/ Activate(r) \/ RemoveFaces(r) \/ SoftDelete(r) \/ Look(r) \/ ResetBacklog(r)
    \/ CheckCode(r) \/ Insert(r) \/ ReadAgents(r) \/ ReadPhoto(r) \/ ReadEnrollee(r) \/ ReadDevices(r) \/ Enroll(r) \/ Push(r) \/ Enrolled(r)
    \/ FindAcked(r) \/ WriteAck(r) \/ ActivateIfPending(r) \/ ReadPending(r) \/ WriteClaim(r)

Next ==
    \/ Tick
    \/ \E d \in Drivers : Use(d)
    \/ \E r \in Requests : Serve(r)
    \/ \E v \in Devices : TakeJob(v) \/ WriteFace(v) \/ SetKey(v) \/ \E r \in Requests : Report(v, r)

Spec == Init /\ [][Next]_vars

-----------------------------------------------------------------------------
(* The tables keep their shape: a row belongs to a driver, its id is given *)
(* once, and a job in hand names a row that was there.                     *)
TypeOK ==
    /\ now \in 0 .. MaxTime
    /\ drivers \in [Drivers -> DriverRows \cup {Nothing}]
    /\ \A d \in Drivers, v \in Devices :
          HasRow(d, v) => Row(d, v) \in Registrations /\ Row(d, v).id < rows /\ Exists(d)
    /\ \A d, e \in Drivers, v, w \in Devices :
          HasRow(d, v) /\ HasRow(e, w) /\ Row(d, v).id = Row(e, w).id => <<d, v>> = <<e, w>>
    /\ terminal \in [Drivers -> [Devices -> Photos]]
    /\ \A v \in Devices : hand[v] # Nothing => hand[v] \in Jobs /\ hand[v].id < rows
    /\ \A r \in Requests : request[r] # Idle => request[r].at \in Steps /\ request[r].row <= rows

(* "Ulash" arms one driver on a device at a time, so that the next unknown *)
(* face can only be his - unless two pairings were checked before either   *)
(* was written, which nothing prevents.                                    *)
OnePairing == \A v \in Devices \ met : \A d, e \in Drivers : Armed(d, v) /\ Armed(e, v) => d = e

(* A Person ID that a terminal gave out belongs to one driver there, with  *)
(* the same exception: the conflict check and the write of a mapping or a  *)
(* claim are two statements.                                               *)
LinkedOnce ==
    \A v \in Devices \ met : \A d, e \in Drivers :
        HasRow(d, v) /\ HasRow(e, v) /\ Row(d, v).face = Row(e, v).face /\ Row(d, v).face \in Numbers => d = e

(* Of a deleted driver no photo and no phone is kept and he stays blocked, *)
(* whatever is asked about him afterwards - unless a request about him was *)
(* already past its check when he was deleted.                             *)
GoneIsGone ==
    \A d \in Drivers \ caught :
        Exists(d) /\ drivers[d].deleted =>
            drivers[d].status = "BLOCKED" /\ drivers[d].photo = 0 /\ drivers[d].phone = Freed

(* A block is lifted by setStatus, or by a mapping, a claim, a push or a   *)
(* login code whose request read the driver as PENDING before he was       *)
(* blocked; an acknowledgement of the agent, however late, never lifts it. *)
BlockHolds ==
    [][\A d \in Drivers :
          /\ Exists(d) /\ drivers[d].status = "BLOCKED" /\ drivers'[d].status # "BLOCKED"
          => \E r \in Requests :
                /\ request[r] # Idle /\ Driver(r) = d /\ request'[r] = Idle
                /\ Op(r) = "setStatus" \/ (Op(r) # "ack" /\ request[r].read = "PENDING")]_vars

(* A registration listed as SYNCED has the photo on the terminal that was  *)
(* queued, or a newer stored one - unless it was queued again while a job, *)
(* a push or a claim of its earlier life was under way, which then answers *)
(* for it or comes after it, or the photo queued is stored nowhere and the *)
(* agent wrote the stored one, or the driver was deleted under somebody's  *)
(* hands.                                                                  *)
Current(photo, asked) == asked = 0 \/ photo = asked \/ photo \in asked .. MaxPhoto

SyncedIsCurrent ==
    \A d \in Drivers \ caught, v \in Devices :
        HasRow(d, v) /\ Row(d, v).sync = "SYNCED" /\ <<d, v>> \notin overtaken =>
            Current(terminal[d][v], Row(d, v).asked)
=============================================================================
