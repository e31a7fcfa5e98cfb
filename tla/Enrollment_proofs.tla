------------------------- MODULE Enrollment_proofs -------------------------
(***************************************************************************)
(* What holds of drivers and registrations for any number of drivers,      *)
(* devices and requests: the types, and the five properties that the runs  *)
(* check on a small instance.                                              *)
(***************************************************************************)
EXTENDS Enrollment, TLAPS

Kinds == DOMAIN First \cup {"ack"}
Contents(op) == IF op = "ack" THEN {"ok", "failed"} ELSE Values(op)
AllContents == Phones \cup PersonIds \cup Statuses \cup {"ok", "failed", Nothing}
Asked == [op : Kinds, at : Steps, driver : Drivers \cup {Nothing}, device : Devices,
          value : AllContents, read : Statuses, row : Nat, seen : SUBSET (Drivers \cup Devices),
          todo : SUBSET Devices, photo : Photos, synced : BOOLEAN]

-----------------------------------------------------------------------------
Typed ==
    /\ now \in 0 .. MaxTime
    /\ rows \in Nat \ {0}
    /\ drivers \in [Drivers -> DriverRows \cup {Nothing}]
    /\ regs \in [Drivers -> [Devices -> Registrations \cup {NoRow}]]
    /\ keyed \subseteq Devices
    /\ hand \in [Devices -> Jobs \cup {Nothing}]
    /\ terminal \in [Drivers -> [Devices -> Photos]]
    /\ request \in [Requests -> Asked \cup {Idle}]

(* A row has a driver and an id of its own, given out before; a job in     *)
(* hand is of a driver.                                                    *)
RowsOwned == \A d \in Drivers, v \in Devices : HasRow(d, v) => Row(d, v).id \in 1 .. rows - 1 /\ Exists(d)
IdsDiffer ==
    \A d, e \in Drivers, v, w \in Devices :
        HasRow(d, v) /\ HasRow(e, w) /\ Row(d, v).id = Row(e, w).id => d = e /\ v = w
HandKnown == \A v \in Devices : hand[v] # Nothing => hand[v].id < rows /\ Exists(hand[v].driver)

(* A request is where its kind can be ...                                  *)
Uploads == {"create", "requeueEnrollment", "enroll"}
Places(op, at, read) ==
    /\ at = "driver" => op \in {"update", "updatePhoto", "requeueEnrollment", "enroll", "setManualFaceMapping",
                                "startDevicePairing", "setStatus", "softDelete", "verifyDriverOtp"}
    /\ at = "code" => op = "verifyDriverOtp"
    /\ at = "insert" => op = "create"
    /\ at = "conflict" => op \in {"setManualFaceMapping", "claimPendingPairing"}
    /\ at = "busy" => op = "startDevicePairing"
    /\ at = "phone" => op = "update"
    /\ at = "registration" => op \in {"cancelDevicePairing", "unlinkDevice", "ack"}
    /\ at = "pending" => op = "claimPendingPairing"
    /\ at = "look" => op = "resetEnrollmentBacklog"
    /\ at = "write" => op \notin Uploads
    /\ at = "activate" => /\ op \in Uploads \cup {"setManualFaceMapping", "claimPendingPairing", "verifyDriverOtp"}
                          /\ read = "PENDING"
    /\ at = "ifPending" => op = "ack"
    /\ at = "photo" => op = "requeueEnrollment"
    /\ at = "agents" => op = "create"
    /\ at = "enrollee" => op \in Uploads
    /\ at \in {"devices", "enroll", "push"} => op \in Uploads
    /\ at = "remove" => op = "softDelete"

(* ... and is about what exists, once it has found it.                     *)
Early == {"driver", "insert", "registration", "pending", "look"}
OnCourse(q) ==
    request[q] # Idle =>
        /\ Places(request[q].op, request[q].at, request[q].read)
        /\ request[q].value \in Contents(request[q].op)
        /\ request[q].row < rows
        /\ request[q].op = "enroll" => request[q].photo = Uploaded
        /\ request[q].op = "resetEnrollmentBacklog" => \A d \in Drivers : d \in request[q].seen => Exists(d)
        /\ request[q].op # "resetEnrollmentBacklog" /\ request[q].at # "pending" => request[q].driver \in Drivers
        /\ request[q].op # "resetEnrollmentBacklog" /\ request[q].at \notin Early => Exists(request[q].driver)

TypeInv == Typed /\ RowsOwned /\ IdsDiffer /\ HandKnown /\ \A q \in Requests : OnCourse(q)

-----------------------------------------------------------------------------
(* Who is about to write a Person ID or a window is the only one on this   *)
(* device, and what he has checked is still so.                            *)
Linking == {"startDevicePairing", "setManualFaceMapping", "claimPendingPairing"}
Linker(q, v) == request[q] # Idle /\ request[q].at = "write" /\ request[q].op \in Linking /\ request[q].device = v
OneLinker == \A v \in Devices \ met : \A q, r \in Requests : Linker(q, v) /\ Linker(r, v) => q = r
PairingChecked ==
    \A v \in Devices \ met, q \in Requests, e \in Drivers :
        Linker(q, v) /\ request[q].op = "startDevicePairing" /\ Armed(e, v) => e = request[q].driver
LinkChecked ==
    \A v \in Devices \ met, q \in Requests, e \in Drivers :
        Linker(q, v) /\ request[q].op # "startDevicePairing" /\ request[q].value \in Numbers
        /\ HasRow(e, v) /\ Row(e, v).face = request[q].value => e = request[q].driver
LinkInv == OnePairing /\ LinkedOnce /\ OneLinker /\ PairingChecked /\ LinkChecked

-----------------------------------------------------------------------------
(* A request that refused deleted drivers, or read its driver as PENDING,  *)
(* knows him as not deleted.                                               *)
Unaware == {"resetEnrollmentBacklog", "cancelDevicePairing", "unlinkDevice", "ack"}
NotDeleted(q) ==
    \A d \in Drivers \ caught :
        /\ request[q] # Idle /\ request[q].at \notin Early /\ request[q].op \notin Unaware
        /\ request[q].op \in Strict \/ request[q].read = "PENDING"
        /\ request[q].driver = d
        => ~ drivers[d].deleted
GoneInv == GoneIsGone /\ \A q \in Requests : NotDeleted(q)

-----------------------------------------------------------------------------
(* The photo a row or a request speaks of is one that the driver has had,  *)
(* if it is a stored one.                                                  *)
AskedExists ==
    \A d \in Drivers \ caught, v \in Devices :
        HasRow(d, v) /\ Row(d, v).asked # Uploaded => Row(d, v).asked <= drivers[d].photo
Carrying == {"agents", "enrollee", "devices", "enroll", "push"}
CarriedExists(q) ==
    \A d \in Drivers \ caught :
        request[q] # Idle /\ request[q].at \in Carrying /\ request[q].driver = d /\ request[q].photo # Uploaded =>
            request[q].photo <= drivers[d].photo

(* Who may yet answer for a row, if it is not overtaken, has written the   *)
(* photo that was asked for or a newer one, or none was asked for.         *)
Sound(d, v) == d \notin caught /\ HasRow(d, v) /\ <<d, v>> \notin overtaken
HandCurrent ==
    \A d \in Drivers, v \in Devices :
        Sound(d, v) /\ hand[v] # Nothing /\ hand[v].driver = d /\ hand[v].id = Row(d, v).id /\ hand[v].outcome = "ok" =>
            Current(terminal[d][v], Row(d, v).asked)
Answers(q, d, v) ==
    request[q] # Idle /\ request[q].driver = d /\ request[q].device = v /\ request[q].row = Row(d, v).id
AnswerCurrent(q) ==
    \A d \in Drivers, v \in Devices :
        Sound(d, v) /\ Answers(q, d, v) =>
            /\ request[q].op = "ack" /\ request[q].value = "ok" => Current(terminal[d][v], Row(d, v).asked)
            /\ request[q].op = "claimPendingPairing" => Row(d, v).asked = 0
            /\ request[q].at = "push" => Current(request[q].photo, Row(d, v).asked)
WindowCurrent ==
    \A d \in Drivers, v \in Devices : HasRow(d, v) /\ Row(d, v).until # Null => Row(d, v).asked = 0
PhotoInv ==
    /\ AskedExists /\ SyncedIsCurrent /\ HandCurrent /\ WindowCurrent
    /\ \A q \in Requests : CarriedExists(q) /\ AnswerCurrent(q)

IInv == TypeInv /\ LinkInv /\ GoneInv /\ PhotoInv

-----------------------------------------------------------------------------
(* What a step does to the requests: one is over, or goes on as said, and  *)
(* the others stay as they are.                                            *)
OthersStay(r) == \A q \in Requests : q # r => request'[q] = request[q]
Ends(r) == request'[r] = Idle
Becomes(r, op, at, driver, device, value, read, row, seen, photo) ==
    /\ request'[r] \in Asked /\ request'[r] # Idle
    /\ request'[r].op = op /\ request'[r].at = at /\ request'[r].driver = driver
    /\ request'[r].device = device /\ request'[r].value = value /\ request'[r].read = read
    /\ request'[r].row = row /\ request'[r].seen = seen /\ request'[r].photo = photo

(* The drivers' table where nobody is deleted: a driver stays, a photo     *)
(* never gets older, and who is new is not deleted.                        *)
DriversGrow ==
    \A d \in Drivers :
        /\ Exists(d) => /\ Exists(d)' /\ drivers'[d].deleted = drivers[d].deleted
                        /\ drivers'[d].photo >= drivers[d].photo
        /\ Exists(d)' /\ ~ Exists(d) => ~ drivers'[d].deleted
DriversStay == \A d \in Drivers : Exists(d) => Exists(d)'
DeletedStay == \A d \in Drivers \ caught : Exists(d) /\ drivers[d].deleted => drivers'[d] = drivers[d]
PhotosGrow ==
    \A d \in Drivers \ caught' :
        /\ Exists(d)
        /\ \/ \E v \in Devices : HasRow(d, v)'
           \/ \E q \in Requests : request'[q] # Idle /\ request'[q].driver = d
        => Exists(d)' /\ drivers'[d].photo >= drivers[d].photo

(* A step that adds no row, no window and no photo asked for; one that     *)
(* links nobody and arms nobody.                                           *)
SameRow(d, v) ==
    /\ HasRow(d, v) /\ regs'[d][v].id = Row(d, v).id /\ regs'[d][v].asked = Row(d, v).asked
    /\ regs'[d][v].until # Null => Row(d, v).until # Null
RowsKept == \A d \in Drivers, v \in Devices : HasRow(d, v)' => SameRow(d, v)
PhotosKept == \A d \in Drivers, v \in Devices : HasRow(d, v)' => SameRow(d, v) \/ regs'[d][v].asked = 0
LinksKept ==
    \A d \in Drivers, v \in Devices :
        HasRow(d, v)' =>
            /\ Armed(d, v)' => Armed(d, v)
            /\ regs'[d][v].face \in Numbers => HasRow(d, v) /\ Row(d, v).face = regs'[d][v].face

(* What is said of a row and of a job is said of the photo on the terminal. *)
OnTerminal(d, v) == Current(terminal'[d][v], regs'[d][v].asked)
SyncKept ==
    \A d \in Drivers \ caught', v \in Devices :
        HasRow(d, v)' /\ regs'[d][v].sync = "SYNCED" /\ <<d, v>> \notin overtaken' =>
            (HasRow(d, v) /\ Row(d, v).sync = "SYNCED") \/ OnTerminal(d, v)
TerminalKept ==
    \A d \in Drivers \ caught', v \in Devices :
        HasRow(d, v)' /\ <<d, v>> \notin overtaken' =>
            /\ <<d, v>> \notin overtaken
            /\ terminal'[d][v] = terminal[d][v] \/ OnTerminal(d, v)
HandKept ==
    \A v \in Devices :
        \/ hand'[v] = hand[v] \/ hand'[v] = Nothing
        \/ \E d \in Drivers : /\ hand'[v].driver = d /\ hand'[v].id < rows' /\ Exists(d)'
                              /\ /\ hand'[v].outcome = "ok" /\ HasRow(d, v)' /\ d \notin caught'
                                 /\ <<d, v>> \notin overtaken'
                                 => OnTerminal(d, v)

-----------------------------------------------------------------------------
LEMMA IdleNotAsked == Idle \notin Asked
  BY DEF Idle, Asked, Kinds, First

(* The stored photos, and the one that is not.                             *)
LEMMA PhotoNumbers ==
  /\ MaxPhoto \in Nat \ {0} /\ Photos \subseteq Nat /\ 0 .. MaxPhoto \subseteq Photos
  /\ Uploaded \in Photos /\ Uploaded \notin 0 .. MaxPhoto
  BY EnrollmentAssumption DEF Photos, Uploaded

LEMMA NoneAsked == \A t : Current(t, 0)
  BY DEF Current

(* One request replaced by another.                                        *)
LEMMA Replaced ==
  ASSUME Typed, NEW r \in Requests, NEW n \in Asked \cup {Idle}, request' = [request EXCEPT ![r] = n]
  PROVE  /\ request' \in [Requests -> Asked \cup {Idle}]
         /\ request'[r] = n
         /\ OthersStay(r)
  BY DEF Typed, OthersStay

LEMMA Finishes ==
  ASSUME Typed, NEW r \in Requests, Finish(r)
  PROVE  request' \in [Requests -> Asked \cup {Idle}] /\ Ends(r) /\ OthersStay(r)
  BY Replaced DEF Finish, Ends

LEMMA Goes ==
  ASSUME Typed, NEW r \in Requests, NEW n \in Asked, request' = [request EXCEPT ![r] = n]
  PROVE  /\ request' \in [Requests -> Asked \cup {Idle}]
         /\ Becomes(r, n.op, n.at, n.driver, n.device, n.value, n.read, n.row, n.seen, n.photo)
         /\ OthersStay(r)
<1>1. request' \in [Requests -> Asked \cup {Idle}] /\ request'[r] = n /\ OthersStay(r)
  BY Replaced
<1>2. request'[r] # Idle
  BY <1>1, IdleNotAsked
<1> QED
  BY <1>1, <1>2 DEF Becomes

LEMMA GoesTo ==
  ASSUME Typed, NEW r \in Requests, request[r] # Idle, NEW s \in Steps, Goto(r, s)
  PROVE  /\ request' \in [Requests -> Asked \cup {Idle}]
         /\ Becomes(r, request[r].op, s, request[r].driver, request[r].device, request[r].value, request[r].read,
                    request[r].row, request[r].seen, request[r].photo)
         /\ OthersStay(r)
<1> DEFINE n == [request[r] EXCEPT !.at = s]
<1>1. request[r] \in Asked
  BY DEF Typed
<1>2. /\ n \in Asked
      /\ n.op = request[r].op /\ n.at = s /\ n.driver = request[r].driver /\ n.device = request[r].device
      /\ n.value = request[r].value /\ n.read = request[r].read /\ n.row = request[r].row
      /\ n.seen = request[r].seen /\ n.photo = request[r].photo
  BY <1>1 DEF Asked
<1>3. request' = [request EXCEPT ![r] = n]
  BY DEF Goto
<1> HIDE DEF n
<1>4. /\ request' \in [Requests -> Asked \cup {Idle}]
      /\ Becomes(r, n.op, n.at, n.driver, n.device, n.value, n.read, n.row, n.seen, n.photo)
      /\ OthersStay(r)
  BY <1>2, <1>3, Goes
<1> QED
  BY <1>2, <1>4

-----------------------------------------------------------------------------
(* The parts of the invariant, kept by the steps that add nothing to what  *)
(* the part is about.                                                      *)
LEMMA TablesKept ==
  ASSUME TypeInv, Typed', RowsKept, DriversStay, HandKept, rows' = rows
  PROVE  RowsOwned' /\ IdsDiffer' /\ HandKnown'
<1> USE DEF TypeInv
<1>1. RowsOwned'
  BY DEF RowsKept, SameRow, DriversStay, RowsOwned, HasRow, Row
<1>2. IdsDiffer'
  BY DEF RowsKept, SameRow, IdsDiffer, HasRow, Row
<1>3. HandKnown'
  BY DEF DriversStay, HandKept, HandKnown, Typed, Jobs, Exists
<1> QED
  BY <1>1, <1>2, <1>3

LEMMA CourseKept ==
  ASSUME TypeInv, Typed', rows' >= rows, DriversStay,
         \A q \in Requests : request'[q] = request[q] \/ OnCourse(q)'
  PROVE  \A q \in Requests : OnCourse(q)'
<1> TAKE q \in Requests
<1> SUFFICES ASSUME request'[q] = request[q], request[q] # Idle
             PROVE  OnCourse(q)'
  BY DEF OnCourse
<1>1. OnCourse(q) /\ request[q].row \in Nat /\ rows \in Nat /\ rows' \in Nat
  BY DEF TypeInv, Typed, Asked
<1> QED
  BY <1>1 DEF OnCourse, DriversStay, Early

LEMMA LinkKept ==
  ASSUME LinkInv, met \subseteq met', LinksKept,
         \A q \in Requests : request'[q] = request[q] \/ \A v \in Devices : ~ Linker(q, v)'
  PROVE  LinkInv'
<1> USE DEF LinkInv
<1>1. OnePairing'
  BY DEF OnePairing, LinksKept, Armed, HasRow, Row
<1>2. LinkedOnce'
  BY DEF LinkedOnce, LinksKept, HasRow, Row
<1>3. OneLinker'
  BY DEF OneLinker, Linker
<1>4. PairingChecked'
  BY DEF PairingChecked, Linker, LinksKept, Armed, HasRow, Row
<1>5. LinkChecked'
  BY DEF LinkChecked, Linker, LinksKept, HasRow, Row
<1> QED
  BY <1>1, <1>2, <1>3, <1>4, <1>5

LEMMA GoneKept ==
  ASSUME GoneInv, TypeInv, caught' = caught, DriversGrow, DeletedStay,
         \A q \in Requests : request'[q] = request[q] \/ NotDeleted(q)'
  PROVE  GoneInv'
<1>1. GoneIsGone'
  BY DEF GoneInv, GoneIsGone, DriversGrow, DeletedStay, Exists
<1>2. ASSUME NEW q \in Requests, request'[q] = request[q]
      PROVE  NotDeleted(q)'
  <2>1. SUFFICES ASSUME NEW d \in Drivers \ caught, request[q] # Idle, request[q].at \notin Early,
                        request[q].op \notin Unaware, request[q].op \in Strict \/ request[q].read = "PENDING",
                        request[q].driver = d
                 PROVE  ~ drivers'[d].deleted
    BY <1>2 DEF NotDeleted
  <2>2. Exists(d)
    BY <2>1 DEF TypeInv, OnCourse, Unaware
  <2> QED
    BY <2>1, <2>2 DEF GoneInv, NotDeleted, DriversGrow
<1> QED
  BY <1>1, <1>2 DEF GoneInv

LEMMA PhotoKept ==
  ASSUME TypeInv, PhotoInv, TypeInv', PhotosKept, SyncKept, TerminalKept, HandKept, PhotosGrow,
         caught \subseteq caught',
         \A q \in Requests : request'[q] = request[q] \/ (CarriedExists(q) /\ AnswerCurrent(q))'
  PROVE  PhotoInv'
<1> USE DEF PhotoInv
<1>1. ASSUME NEW d \in Drivers, NEW v \in Devices, HasRow(d, v)'
      PROVE  /\ SameRow(d, v) \/ regs'[d][v].asked = 0
             /\ regs'[d][v].asked \in Nat /\ terminal'[d][v] \in Nat /\ Exists(d)' /\ drivers'[d].photo \in Nat
  <2>1. regs'[d][v] \in Registrations /\ terminal'[d][v] \in Photos /\ Exists(d)'
    BY <1>1 DEF TypeInv, Typed, RowsOwned, HasRow, Row
  <2>2. drivers'[d] \in DriverRows
    BY <2>1 DEF TypeInv, Typed, Exists
  <2>3. regs'[d][v].asked \in Photos /\ drivers'[d].photo \in 0 .. MaxPhoto
    BY <2>1, <2>2 DEF Registrations, DriverRows
  <2> QED
    BY <1>1, <2>1, <2>3, PhotoNumbers DEF PhotosKept
<1>2. AskedExists'
  <2>1. SUFFICES ASSUME NEW d \in Drivers \ caught', NEW v \in Devices, HasRow(d, v)', SameRow(d, v),
                        regs'[d][v].asked # Uploaded
                 PROVE  regs'[d][v].asked <= drivers'[d].photo
    BY <1>1 DEF AskedExists, Row
  <2>2. regs'[d][v].asked = Row(d, v).asked /\ Row(d, v).asked <= drivers[d].photo /\ HasRow(d, v)
    BY <2>1 DEF AskedExists, SameRow
  <2>3. Exists(d)
    BY <2>2 DEF TypeInv, RowsOwned
  <2>4. drivers'[d].photo >= drivers[d].photo
    BY <2>1, <2>3 DEF PhotosGrow
  <2>5. drivers[d].photo \in Nat
    BY <2>3, EnrollmentAssumption DEF TypeInv, Typed, Exists, DriverRows
  <2> QED
    BY <1>1, <2>1, <2>2, <2>4, <2>5
<1>3. SyncedIsCurrent'
  <2>1. SUFFICES ASSUME NEW d \in Drivers \ caught', NEW v \in Devices, HasRow(d, v)',
                        regs'[d][v].sync = "SYNCED", <<d, v>> \notin overtaken', regs'[d][v].asked # 0
                 PROVE  OnTerminal(d, v)
    BY <1>1, NoneAsked DEF SyncedIsCurrent, OnTerminal, Row
  <2>2. SameRow(d, v) /\ <<d, v>> \notin overtaken
    BY <1>1, <2>1 DEF TerminalKept
  <2> QED
    BY <2>1, <2>2 DEF SyncKept, TerminalKept, SyncedIsCurrent, SameRow, OnTerminal
<1>4. HandCurrent'
  <2>1. SUFFICES ASSUME NEW d \in Drivers \ caught', NEW v \in Devices, HasRow(d, v)', <<d, v>> \notin overtaken',
                        hand'[v] # Nothing, hand'[v].driver = d, hand'[v].id = regs'[d][v].id, hand'[v].outcome = "ok",
                        regs'[d][v].asked # 0
                 PROVE  OnTerminal(d, v)
    BY <1>1, NoneAsked DEF HandCurrent, Sound, OnTerminal, Row
  <2>2. SameRow(d, v) /\ <<d, v>> \notin overtaken
    BY <1>1, <2>1 DEF TerminalKept
  <2>3. CASE hand'[v] = hand[v]
    BY <2>1, <2>2, <2>3 DEF TerminalKept, HandCurrent, Sound, SameRow, OnTerminal
  <2>4. CASE hand'[v] # hand[v]
    BY <2>1, <2>4 DEF HandKept, HasRow, Row, OnTerminal
  <2> QED
    BY <2>3, <2>4
<1>5. WindowCurrent'
  BY <1>1 DEF WindowCurrent, SameRow, Row
<1>6. ASSUME NEW q \in Requests, request'[q] = request[q]
      PROVE  CarriedExists(q)'
  <2>1. SUFFICES ASSUME NEW d \in Drivers \ caught', request[q] # Idle,
                        request[q].at \in Carrying, request[q].driver = d, request[q].photo # Uploaded
                 PROVE  request[q].photo <= drivers'[d].photo
    BY <1>6 DEF CarriedExists, Carrying
  <2>2. request[q].photo <= drivers[d].photo /\ Exists(d)
    BY <2>1 DEF CarriedExists, Carrying, TypeInv, OnCourse, Places, Uploads, Early
  <2>3. Exists(d)' /\ drivers'[d].photo >= drivers[d].photo
    BY <1>6, <2>1, <2>2 DEF PhotosGrow
  <2>4. drivers[d].photo \in Nat /\ drivers'[d].photo \in Nat /\ request[q].photo \in Nat
    BY <2>1, <2>2, <2>3, PhotoNumbers DEF TypeInv, Typed, DriverRows, Exists, Asked
  <2> QED
    BY <2>2, <2>3, <2>4
<1>7. ASSUME NEW q \in Requests, request'[q] = request[q]
      PROVE  AnswerCurrent(q)'
  <2>1. SUFFICES ASSUME NEW d \in Drivers, NEW v \in Devices, Sound(d, v)', Answers(q, d, v)'
                 PROVE  /\ request[q].op = "ack" /\ request[q].value = "ok" => OnTerminal(d, v)
                        /\ request[q].op = "claimPendingPairing" => regs'[d][v].asked = 0
                        /\ request[q].at = "push" => Current(request[q].photo, regs'[d][v].asked)
    BY <1>7 DEF AnswerCurrent, OnTerminal, Row
  <2>2. HasRow(d, v)' /\ d \in Drivers \ caught' /\ d \notin caught /\ <<d, v>> \notin overtaken'
    BY <2>1 DEF Sound
  <2>3. CASE regs'[d][v].asked = 0
    <3>1. request[q].photo \in Nat
      BY <1>7, <2>1, EnrollmentAssumption DEF Answers, TypeInv, Typed, Asked, Photos, Uploaded
    <3> QED
      BY <1>1, <2>2, <2>3, <3>1, NoneAsked DEF OnTerminal
  <2>4. CASE SameRow(d, v)
    <3>1. <<d, v>> \notin overtaken /\ (terminal'[d][v] = terminal[d][v] \/ OnTerminal(d, v))
      BY <2>2 DEF TerminalKept
    <3>2. Sound(d, v) /\ Answers(q, d, v) /\ regs'[d][v].asked = Row(d, v).asked
      BY <1>7, <2>1, <2>2, <2>4, <3>1 DEF Sound, Answers, SameRow, Row
    <3> QED
      BY <3>1, <3>2 DEF AnswerCurrent, OnTerminal
  <2> QED
    BY <1>1, <2>2, <2>3, <2>4
<1> QED
  BY <1>2, <1>3, <1>4, <1>5, <1>6, <1>7

(* All of the invariant that speaks of a single request.                   *)
RequestSound(q) == OnCourse(q) /\ NotDeleted(q) /\ CarriedExists(q) /\ AnswerCurrent(q)
NoLinker(q) == \A v \in Devices : ~ Linker(q, v)

LEMMA EndsSound ==
  ASSUME NEW r \in Requests, Ends(r)
  PROVE  RequestSound(r)' /\ NoLinker(r)'
  BY DEF Ends, RequestSound, OnCourse, NotDeleted, CarriedExists, Carrying, AnswerCurrent, Answers, NoLinker, Linker

LEMMA Kept ==
  ASSUME IInv, Typed', RowsKept, SyncKept, TerminalKept, HandKept, DriversGrow, DeletedStay,
         rows' = rows, caught' = caught,
         \A q \in Requests : request'[q] = request[q] \/ RequestSound(q)'
  PROVE  TypeInv' /\ GoneInv' /\ PhotoInv'
<1>1. TypeInv /\ GoneInv /\ PhotoInv
  BY DEF IInv
<1>2. DriversStay /\ PhotosGrow /\ PhotosKept
  BY DEF DriversGrow, DriversStay, PhotosGrow, RowsKept, PhotosKept
<1>3. RowsOwned' /\ IdsDiffer' /\ HandKnown'
  BY <1>1, <1>2, TablesKept
<1>4. rows' >= rows
  BY <1>1 DEF TypeInv, Typed
<1>5. \A q \in Requests : OnCourse(q)'
  BY <1>1, <1>2, <1>4, CourseKept DEF RequestSound
<1>6. TypeInv'
  BY <1>3, <1>5 DEF TypeInv
<1>7. GoneInv'
  BY <1>1, GoneKept DEF RequestSound
<1>8. PhotoInv'
  BY <1>1, <1>2, <1>6, PhotoKept DEF RequestSound
<1> QED
  BY <1>6, <1>7, <1>8

LEMMA RowsUnchanged ==
  ASSUME Typed, now' \in Nat, now' >= now, regs' = regs
  PROVE  RowsKept /\ LinksKept /\ SyncKept
<1>1. ASSUME NEW d \in Drivers, NEW v \in Devices, HasRow(d, v)
      PROVE  Row(d, v).until \in Int /\ now \in Int
  BY <1>1, EnrollmentAssumption DEF Photos, Uploaded, Typed, Registrations, HasRow, Row, Null
<1>2. ASSUME NEW d \in Drivers, NEW v \in Devices, Armed(d, v)'
      PROVE  Armed(d, v)
  BY <1>1, <1>2 DEF Armed, HasRow, Row
<1> QED
  BY <1>2 DEF RowsKept, SameRow, LinksKept, SyncKept, HasRow, Row

LEMMA TerminalUnchanged ==
  ASSUME terminal' = terminal, hand' = hand, overtaken' = overtaken
  PROVE  TerminalKept /\ HandKept
  BY DEF TerminalKept, HandKept

LEMMA DriversUnchanged ==
  ASSUME Typed, drivers' = drivers
  PROVE  DriversGrow /\ DeletedStay
<1>1. ASSUME NEW d \in Drivers, Exists(d)
      PROVE  drivers[d].photo \in Nat
  BY <1>1, EnrollmentAssumption DEF Photos, Uploaded, Typed, DriverRows, Exists
<1> QED
  BY <1>1 DEF DriversGrow, DeletedStay, Exists

(* A step that only reads: one request learns something, or ends.          *)
LEMMA Reads ==
  ASSUME IInv, NEW r \in Requests, request' \in [Requests -> Asked \cup {Idle}], OthersStay(r),
         UNCHANGED <<now, drivers, regs, rows, keyed, hand, terminal, caught, overtaken>>,
         Ends(r) \/ RequestSound(r)'
  PROVE  TypeInv' /\ GoneInv' /\ PhotoInv' /\ LinksKept
<1>1. Typed'
  BY DEF IInv, TypeInv, Typed
<1>2. Typed /\ now' \in Nat /\ now' >= now
  BY EnrollmentAssumption DEF IInv, TypeInv, Typed
<1>3. RowsKept /\ LinksKept /\ SyncKept /\ TerminalKept /\ HandKept /\ DriversGrow /\ DeletedStay
  BY <1>2, RowsUnchanged, TerminalUnchanged, DriversUnchanged
<1>4. \A q \in Requests : request'[q] = request[q] \/ RequestSound(q)'
  BY EndsSound DEF OthersStay
<1> QED
  BY <1>1, <1>3, <1>4, Kept

LEMMA ReadsUnlinked ==
  ASSUME IInv, NEW r \in Requests, request' \in [Requests -> Asked \cup {Idle}], OthersStay(r),
         UNCHANGED <<now, drivers, regs, rows, keyed, hand, terminal, caught, overtaken>>,
         met \subseteq met', Ends(r) \/ (RequestSound(r)' /\ NoLinker(r)')
  PROVE  IInv'
<1>1. TypeInv' /\ GoneInv' /\ PhotoInv' /\ LinksKept
  BY Reads
<1>2. \A q \in Requests : request'[q] = request[q] \/ \A v \in Devices : ~ Linker(q, v)'
  BY EndsSound DEF OthersStay, NoLinker
<1>3. LinkInv'
  BY <1>1, <1>2, LinkKept DEF IInv
<1> QED
  BY <1>1, <1>3 DEF IInv

-----------------------------------------------------------------------------
LEMMA ArriveKeeps == ASSUME IInv, NEW r \in Requests, Arrive(r) PROVE IInv'
<1>1. PICK op \in Operations, v \in Devices : \E d \in Subjects(op), x \in Values(op) :
          request' = [request EXCEPT ![r] = Call(op, First[op], d, v, x)]
  BY DEF Arrive
<1>2. PICK d \in Subjects(op), x \in Values(op) :
          request' = [request EXCEPT ![r] = Call(op, First[op], d, v, x)]
  BY <1>1
<1> DEFINE n == Call(op, First[op], d, v, x)
<1>3. op \in DOMAIN First /\ op # "ack"
  BY OperationsAssumption DEF First
<1>4. /\ n \in Asked /\ n.op = op /\ n.at = First[op] /\ n.driver = d /\ n.value = x /\ n.row = 0 /\ n.seen = {}
      /\ op = "enroll" => n.photo = Uploaded
  <2>1. First[op] \in Steps
    BY <1>3 DEF First, Steps
  <2>2. d \in Drivers \cup {Nothing}
    BY DEF Subjects
  <2>3. x \in AllContents
    <3>1. CASE op \in {"create", "update", "setManualFaceMapping", "claimPendingPairing", "setStatus"}
      BY <3>1 DEF Values, AllContents, Statuses, PersonIds
    <3>2. CASE op \notin {"create", "update", "setManualFaceMapping", "claimPendingPairing", "setStatus"}
      BY <3>2 DEF Values, AllContents
    <3> QED
      BY <3>1, <3>2
  <2> QED
    BY <1>3, <2>1, <2>2, <2>3, EnrollmentAssumption DEF Call, Photos, Uploaded, Asked, Kinds, Statuses
<1>5. request' = [request EXCEPT ![r] = n]
  BY <1>2
<1> HIDE DEF n
<1>6. Typed /\ rows \in Nat \ {0}
  BY DEF IInv, TypeInv, Typed
<1>7. request' \in [Requests -> Asked \cup {Idle}] /\ request'[r] = n /\ OthersStay(r)
  BY <1>4, <1>5, <1>6, Replaced
<1>8. UNCHANGED <<now, drivers, regs, rows, keyed, hand, terminal, met, caught, overtaken>>
  BY DEF Arrive, history
<1>9. First[op] \in Early /\ First[op] \notin {"push", "write"}
  BY <1>3 DEF First, Early
<1>10. OnCourse(r)'
  <2>1. Places(op, First[op], n.read)
    BY <1>3 DEF First, Places, Uploads
  <2>2. op # "resetEnrollmentBacklog" /\ First[op] # "pending" => d \in Drivers
    BY <1>3 DEF First, Subjects
  <2> QED
    BY <1>3, <1>4, <1>6, <1>7, <1>8, <1>9, <2>1, <2>2 DEF OnCourse, Contents, Subjects
<1>11. NotDeleted(r)' /\ CarriedExists(r)' /\ NoLinker(r)'
  BY <1>4, <1>7, <1>9 DEF NotDeleted, CarriedExists, Carrying, NoLinker, Linker, Early
<1>12. AnswerCurrent(r)'
  <2>1. op = "claimPendingPairing" => d \notin Drivers
    BY EmptyAssumption DEF Subjects
  <2> QED
    BY <1>3, <1>4, <1>7, <1>9, <2>1 DEF AnswerCurrent, Answers
<1> QED
  BY <1>7, <1>8, <1>10, <1>11, <1>12, ReadsUnlinked DEF RequestSound

LEMMA ReadDriverKeeps == ASSUME IInv, NEW r \in Requests, ReadDriver(r) PROVE IInv'
<1> DEFINE d == request[r].driver
           s == AfterDriver(request[r].op)
           faces == IF request[r].op = "softDelete" THEN Faces(d) ELSE {}
           n == [request[r] EXCEPT !.at = s, !.read = drivers[d].status, !.seen = faces]
<1>1. Typed /\ request[r] # Idle /\ request[r].at = "driver" /\ request[r] \in Asked /\ OnCourse(r)
  BY DEF ReadDriver, At, IInv, TypeInv, Typed
<1>2. UNCHANGED <<now, drivers, regs, rows, keyed, hand, terminal, met, caught, overtaken>>
  BY DEF ReadDriver, Alone, history
<1>3. CASE Finish(r)
  BY <1>1, <1>2, <1>3, Finishes, ReadsUnlinked
<1>4. CASE ~ Finish(r)
  <2>1. request' = [request EXCEPT ![r] = n] /\ Exists(d) /\ ~ (request[r].op \in Strict /\ drivers[d].deleted)
    BY <1>4 DEF ReadDriver, Op, Driver, Refused
  <2>2. request[r].op \in {"update", "updatePhoto", "requeueEnrollment", "enroll", "setManualFaceMapping",
                           "startDevicePairing", "setStatus", "softDelete", "verifyDriverOtp"} /\ d \in Drivers
    BY <1>1 DEF OnCourse, Places
  <2>3. s \in Steps /\ s \in {"phone", "photo", "conflict", "busy", "remove", "write", "devices", "code"}
    BY <2>2 DEF AfterDriver, Steps
  <2>4. drivers[d].status \in Statuses /\ faces \in SUBSET (Drivers \cup Devices)
    BY <1>1, <2>1, <2>2 DEF Typed, Exists, DriverRows, Faces
  <2>5. /\ n \in Asked
        /\ n.op = request[r].op /\ n.at = s /\ n.driver = d /\ n.device = request[r].device
        /\ n.value = request[r].value /\ n.read = drivers[d].status /\ n.row = request[r].row
        /\ n.seen = faces /\ n.photo = request[r].photo
    BY <1>1, <2>3, <2>4 DEF Asked
  <2> HIDE DEF n
  <2>6. request' \in [Requests -> Asked \cup {Idle}] /\ request'[r] = n /\ OthersStay(r) /\ n # Idle
    BY <1>1, <2>1, <2>5, Replaced, IdleNotAsked
  <2>7. OnCourse(r)'
    <3>1. Places(request[r].op, s, drivers[d].status)
      BY <2>2 DEF AfterDriver, Places, Uploads
    <3> QED
      BY <1>1, <1>2, <2>1, <2>2, <2>5, <2>6, <3>1 DEF OnCourse, Exists
  <2>8. NotDeleted(r)'
    <3>1. d \notin caught /\ drivers[d].deleted => drivers[d].status # "PENDING"
      BY <2>1, <2>2 DEF IInv, GoneInv, GoneIsGone
    <3> QED
      BY <1>2, <2>1, <2>5, <2>6, <3>1 DEF NotDeleted
  <2>9. CarriedExists(r)' /\ AnswerCurrent(r)'
    <3>1. s \in Carrying => request[r].op = "enroll" /\ request[r].photo = Uploaded
      BY <1>1, <2>2 DEF AfterDriver, Carrying, OnCourse
    <3>2. CarriedExists(r)'
      BY <2>5, <2>6, <3>1 DEF CarriedExists
    <3> QED
      BY <2>2, <2>3, <2>5, <2>6, <3>2 DEF AnswerCurrent, Answers
  <2>10. NoLinker(r)'
    <3>1. s = "write" => request[r].op \notin Linking
      BY <2>2 DEF AfterDriver, Linking
    <3> QED
      BY <2>5, <2>6, <3>1 DEF NoLinker, Linker
  <2> HIDE DEF d, s
  <2> QED
    BY <1>2, <2>6, <2>7, <2>8, <2>9, <2>10, ReadsUnlinked DEF RequestSound
<1> QED
  BY <1>3, <1>4

(* A request that only moves on.                                           *)
LEMMA CheckPhoneKeeps == ASSUME IInv, NEW r \in Requests, CheckPhone(r) PROVE IInv'
<1>1. Typed /\ request[r] # Idle /\ request[r].at = "phone" /\ OnCourse(r) /\ NotDeleted(r)
  BY DEF CheckPhone, At, IInv, TypeInv, GoneInv
<1>2. UNCHANGED <<now, drivers, regs, rows, keyed, hand, terminal, met, caught, overtaken>>
  BY DEF CheckPhone, Alone, history
<1>3. CASE Finish(r)
  BY <1>1, <1>2, <1>3, Finishes, ReadsUnlinked
<1>4. CASE Goto(r, "write")
  <2>1. /\ request' \in [Requests -> Asked \cup {Idle}]
        /\ Becomes(r, request[r].op, "write", request[r].driver, request[r].device, request[r].value, request[r].read,
                   request[r].row, request[r].seen, request[r].photo)
        /\ OthersStay(r)
    BY <1>1, <1>4, GoesTo DEF Steps
  <2>2. request[r].op = "update"
    BY <1>1 DEF OnCourse, Places
  <2>3. OnCourse(r)' /\ NotDeleted(r)' /\ CarriedExists(r)' /\ AnswerCurrent(r)' /\ NoLinker(r)'
    BY <1>1, <1>2, <2>1, <2>2 DEF OnCourse, Places, Uploads, Early, Exists, Becomes, NotDeleted, CarriedExists, Carrying,
       AnswerCurrent, Answers, NoLinker, Linker, Linking, Contents, Values
  <2> QED
    BY <1>2, <2>1, <2>3, ReadsUnlinked DEF RequestSound
<1> QED
  BY <1>3, <1>4 DEF CheckPhone

LEMMA ReadRegistrationKeeps == ASSUME IInv, NEW r \in Requests, ReadRegistration(r) PROVE IInv'
<1> DEFINE d == request[r].driver
           v == request[r].device
           n == [request[r] EXCEPT !.at = "write", !.row = Row(d, v).id]
<1>1. /\ Typed /\ request[r] # Idle /\ request[r].at = "registration" /\ request[r] \in Asked /\ OnCourse(r)
      /\ RowsOwned /\ request[r].op \in {"cancelDevicePairing", "unlinkDevice"} /\ d \in Drivers /\ v \in Devices
  <2>1. Typed /\ request[r] # Idle /\ request[r].at = "registration" /\ request[r] \in Asked /\ OnCourse(r) /\ RowsOwned
    BY DEF ReadRegistration, At, IInv, TypeInv, Typed
  <2> QED
    BY <2>1 DEF ReadRegistration, Op, OnCourse, Places, Asked
<1>2. UNCHANGED <<now, drivers, regs, rows, keyed, hand, terminal, met, caught, overtaken>>
  BY DEF ReadRegistration, Alone, history
<1>3. CASE Finish(r)
  BY <1>1, <1>2, <1>3, Finishes, ReadsUnlinked
<1>4. CASE ~ Finish(r)
  <2>1. request' = [request EXCEPT ![r] = n] /\ HasRow(d, v)
    BY <1>4 DEF ReadRegistration, Driver, Device
  <2>2. Row(d, v).id \in Nat /\ Row(d, v).id < rows /\ Exists(d)
    BY <1>1, <2>1 DEF RowsOwned, Typed
  <2>3. /\ n \in Asked
        /\ n.op = request[r].op /\ n.at = "write" /\ n.driver = d /\ n.value = request[r].value
        /\ n.row = Row(d, v).id /\ n.seen = request[r].seen
    BY <1>1, <2>2 DEF Asked, Steps
  <2> HIDE DEF n
  <2>4. request' \in [Requests -> Asked \cup {Idle}] /\ request'[r] = n /\ OthersStay(r)
    BY <1>1, <2>1, <2>3, Replaced
  <2>5. OnCourse(r)' /\ NotDeleted(r)' /\ CarriedExists(r)' /\ AnswerCurrent(r)' /\ NoLinker(r)'
    BY <1>1, <1>2, <2>2, <2>3, <2>4 DEF OnCourse, Places, Uploads, Exists, NotDeleted, Unaware, CarriedExists, Carrying,
       AnswerCurrent, Answers, NoLinker, Linker, Linking
  <2> QED
    BY <1>2, <2>4, <2>5, ReadsUnlinked DEF RequestSound
<1> QED
  BY <1>3, <1>4

LEMMA LookKeeps == ASSUME IInv, NEW r \in Requests, Look(r) PROVE IInv'
<1> DEFINE n == [request[r] EXCEPT !.at = "write", !.seen = Waiting]
<1>1. Typed /\ request[r] # Idle /\ request[r].at = "look" /\ request[r] \in Asked /\ OnCourse(r)
  BY DEF Look, At, IInv, TypeInv, Typed
<1>2. UNCHANGED <<now, drivers, regs, rows, keyed, hand, terminal, met, caught, overtaken>>
  BY DEF Look, Alone, history
<1>3. Waiting \subseteq Drivers /\ \A d \in Waiting : Exists(d)
  BY DEF Waiting
<1>4. /\ n \in Asked
      /\ n.op = request[r].op /\ n.at = "write" /\ n.value = request[r].value /\ n.row = request[r].row /\ n.seen = Waiting
  BY <1>1, <1>3 DEF Asked, Steps
<1>5. request' = [request EXCEPT ![r] = n]
  BY DEF Look
<1> HIDE DEF n
<1>6. request' \in [Requests -> Asked \cup {Idle}] /\ request'[r] = n /\ OthersStay(r)
  BY <1>1, <1>4, <1>5, Replaced
<1>7. request[r].op = "resetEnrollmentBacklog"
  BY <1>1 DEF OnCourse, Places
<1>8. OnCourse(r)' /\ NotDeleted(r)' /\ CarriedExists(r)' /\ AnswerCurrent(r)' /\ NoLinker(r)'
  BY <1>1, <1>2, <1>3, <1>4, <1>6, <1>7 DEF OnCourse, Places, Uploads, Exists, NotDeleted, Unaware, CarriedExists, Carrying,
     AnswerCurrent, Answers, NoLinker, Linker, Linking
<1> QED
  BY <1>2, <1>6, <1>8, ReadsUnlinked DEF RequestSound

LEMMA ReadPhotoKeeps == ASSUME IInv, NEW r \in Requests, ReadPhoto(r) PROVE IInv'
<1> DEFINE d == request[r].driver
<1>1. /\ Typed /\ request[r] # Idle /\ request[r].at = "photo" /\ request[r] \in Asked /\ OnCourse(r) /\ NotDeleted(r)
      /\ request[r].op = "requeueEnrollment" /\ d \in Drivers /\ Exists(d)
  <2>1. Typed /\ request[r] # Idle /\ request[r].at = "photo" /\ request[r] \in Asked /\ OnCourse(r) /\ NotDeleted(r)
    BY DEF ReadPhoto, At, IInv, TypeInv, Typed, GoneInv
  <2> QED
    BY <2>1 DEF OnCourse, Places, Early
<1>2. UNCHANGED <<now, drivers, regs, rows, keyed, hand, terminal, met, caught, overtaken>>
  BY DEF ReadPhoto, Alone, history
<1>3. CASE Finish(r)
  BY <1>1, <1>2, <1>3, Finishes, ReadsUnlinked
<1>4. CASE ~ Finish(r)
  <2>1. request' = [request EXCEPT ![r].at = "enrollee", ![r].photo = drivers[d].photo]
    BY <1>4 DEF ReadPhoto, Driver
  <2> DEFINE n == [request[r] EXCEPT !.at = "enrollee", !.photo = drivers[d].photo]
  <2>2. drivers[d].photo \in 0 .. MaxPhoto /\ drivers[d].photo \in Photos
    BY <1>1, PhotoNumbers DEF Typed, Exists, DriverRows
  <2>3. /\ n \in Asked
        /\ n.op = request[r].op /\ n.at = "enrollee" /\ n.driver = d /\ n.value = request[r].value
        /\ n.read = request[r].read /\ n.row = request[r].row /\ n.seen = request[r].seen /\ n.photo = drivers[d].photo
    BY <1>1, <2>2 DEF Asked, Steps
  <2>4. request' = [request EXCEPT ![r] = n]
    BY <2>1
  <2> HIDE DEF n
  <2>5. request' \in [Requests -> Asked \cup {Idle}] /\ request'[r] = n /\ OthersStay(r)
    BY <1>1, <2>3, <2>4, Replaced
  <2>6. OnCourse(r)' /\ NotDeleted(r)' /\ NoLinker(r)' /\ AnswerCurrent(r)'
    BY <1>1, <1>2, <2>3, <2>5 DEF OnCourse, Places, Uploads, Exists, Early, NotDeleted, NoLinker, Linker, AnswerCurrent, Answers
  <2>7. CarriedExists(r)'
    <3>1. drivers[d].photo <= drivers[d].photo
      BY <2>2, EnrollmentAssumption
    <3> QED
      BY <1>2, <2>3, <2>5, <3>1 DEF CarriedExists, Carrying
  <2> QED
    BY <1>2, <2>5, <2>6, <2>7, ReadsUnlinked DEF RequestSound
<1> QED
  BY <1>3, <1>4

(* What a status read now says of a driver: PENDING is not deleted.        *)
LEMMA PendingNotDeleted ==
  ASSUME IInv, NEW d \in Drivers \ caught, Exists(d), drivers[d].status = "PENDING"
  PROVE  ~ drivers[d].deleted
  BY DEF IInv, GoneInv, GoneIsGone

LEMMA ReadAgentsKeeps == ASSUME IInv, NEW r \in Requests, ReadAgents(r) PROVE IInv'
<1> DEFINE n == [request[r] EXCEPT !.at = "enrollee", !.todo = keyed]
<1>1. /\ Typed /\ request[r] # Idle /\ request[r].at = "agents" /\ request[r] \in Asked
      /\ OnCourse(r) /\ NotDeleted(r) /\ CarriedExists(r)
  BY DEF ReadAgents, At, IInv, TypeInv, Typed, GoneInv, PhotoInv
<1>2. UNCHANGED <<now, drivers, regs, rows, keyed, hand, terminal, met, caught, overtaken>>
  BY DEF ReadAgents, Alone, history
<1>3. request[r].op = "create" /\ keyed \subseteq Devices
  BY <1>1 DEF OnCourse, Places, Typed
<1>4. CASE Finish(r)
  BY <1>1, <1>2, <1>4, Finishes, ReadsUnlinked
<1>5. CASE ~ Finish(r)
  <2>1. /\ n \in Asked
        /\ n.op = request[r].op /\ n.at = "enrollee" /\ n.driver = request[r].driver /\ n.value = request[r].value
        /\ n.read = request[r].read /\ n.row = request[r].row /\ n.photo = request[r].photo
    BY <1>1, <1>3 DEF Asked, Steps
  <2>2. request' = [request EXCEPT ![r] = n]
    BY <1>5 DEF ReadAgents
  <2> HIDE DEF n
  <2>3. request' \in [Requests -> Asked \cup {Idle}] /\ request'[r] = n /\ OthersStay(r)
    BY <1>1, <2>1, <2>2, Replaced
  <2>4. OnCourse(r)' /\ NotDeleted(r)' /\ CarriedExists(r)' /\ AnswerCurrent(r)' /\ NoLinker(r)'
    BY <1>1, <1>2, <1>3, <2>1, <2>3 DEF OnCourse, Places, Uploads, Early, Exists, NotDeleted, CarriedExists, Carrying,
       AnswerCurrent, Answers, NoLinker, Linker
  <2> QED
    BY <1>2, <2>3, <2>4, ReadsUnlinked DEF RequestSound
<1> QED
  BY <1>4, <1>5

LEMMA ReadEnrolleeKeeps == ASSUME IInv, NEW r \in Requests, ReadEnrollee(r) PROVE IInv'
<1> DEFINE d == request[r].driver
           n == [request[r] EXCEPT !.at = "devices", !.read = drivers[d].status]
<1>1. /\ Typed /\ request[r] # Idle /\ request[r].at = "enrollee" /\ request[r] \in Asked /\ OnCourse(r) /\ CarriedExists(r)
      /\ request[r].op \in Uploads /\ d \in Drivers /\ Exists(d)
  <2>1. Typed /\ request[r] # Idle /\ request[r].at = "enrollee" /\ request[r] \in Asked /\ OnCourse(r) /\ CarriedExists(r)
    BY DEF ReadEnrollee, At, IInv, TypeInv, Typed, PhotoInv
  <2> QED
    BY <2>1 DEF OnCourse, Places, Early, Uploads
<1>2. UNCHANGED <<now, drivers, regs, rows, keyed, hand, terminal, met, caught, overtaken>>
  BY DEF ReadEnrollee, Alone, history
<1>3. drivers[d].status \in Statuses
  BY <1>1 DEF Typed, Exists, DriverRows
<1>4. /\ n \in Asked
      /\ n.op = request[r].op /\ n.at = "devices" /\ n.driver = d /\ n.value = request[r].value
      /\ n.read = drivers[d].status /\ n.row = request[r].row /\ n.photo = request[r].photo
  BY <1>1, <1>3 DEF Asked, Steps
<1>5. request' = [request EXCEPT ![r] = n]
  BY DEF ReadEnrollee, Driver
<1> HIDE DEF n
<1>6. request' \in [Requests -> Asked \cup {Idle}] /\ request'[r] = n /\ OthersStay(r)
  BY <1>1, <1>4, <1>5, Replaced
<1>7. OnCourse(r)' /\ CarriedExists(r)' /\ AnswerCurrent(r)' /\ NoLinker(r)'
  BY <1>1, <1>2, <1>4, <1>6 DEF OnCourse, Places, Uploads, Exists, CarriedExists, Carrying,
     AnswerCurrent, Answers, NoLinker, Linker
<1>8. NotDeleted(r)'
  <2>1. request[r].op \notin Strict
    BY <1>1 DEF Uploads, Strict
  <2> QED
    BY <1>1, <1>2, <1>4, <1>6, <2>1, PendingNotDeleted DEF NotDeleted
<1> QED
  BY <1>2, <1>6, <1>7, <1>8, ReadsUnlinked DEF RequestSound

LEMMA ReadDevicesKeeps == ASSUME IInv, NEW r \in Requests, ReadDevices(r) PROVE IInv'
<1>1. /\ Typed /\ request[r] # Idle /\ request[r].at = "devices" /\ request[r] \in Asked
      /\ OnCourse(r) /\ NotDeleted(r) /\ CarriedExists(r) /\ request[r].op \in Uploads
  <2>1. /\ Typed /\ request[r] # Idle /\ request[r].at = "devices" /\ request[r] \in Asked
        /\ OnCourse(r) /\ NotDeleted(r) /\ CarriedExists(r)
    BY DEF ReadDevices, At, IInv, TypeInv, Typed, GoneInv, PhotoInv
  <2> QED
    BY <2>1 DEF OnCourse, Places
<1>2. UNCHANGED <<now, drivers, regs, rows, keyed, hand, terminal, met, caught, overtaken>>
  BY DEF ReadDevices, Alone, history
<1>3. PICK chosen \in SUBSET Devices :
         request' = [request EXCEPT ![r].at = "enroll", ![r].todo = chosen, ![r].seen = keyed]
  BY <1>1 DEF ReadDevices, Asked
<1> DEFINE n == [request[r] EXCEPT !.at = "enroll", !.todo = chosen, !.seen = keyed]
<1>4. /\ n \in Asked
      /\ n.op = request[r].op /\ n.at = "enroll" /\ n.driver = request[r].driver /\ n.value = request[r].value
      /\ n.read = request[r].read /\ n.row = request[r].row /\ n.photo = request[r].photo
  BY <1>1 DEF Asked, Steps, Typed
<1>5. request' = [request EXCEPT ![r] = n]
  BY <1>3
<1> HIDE DEF n
<1>6. request' \in [Requests -> Asked \cup {Idle}] /\ request'[r] = n /\ OthersStay(r)
  BY <1>1, <1>4, <1>5, Replaced
<1>7. OnCourse(r)' /\ NotDeleted(r)' /\ CarriedExists(r)' /\ AnswerCurrent(r)' /\ NoLinker(r)'
  BY <1>1, <1>2, <1>4, <1>6 DEF OnCourse, Places, Uploads, Early, Exists, NotDeleted, CarriedExists, Carrying,
     AnswerCurrent, Answers, NoLinker, Linker
<1> QED
  BY <1>2, <1>6, <1>7, ReadsUnlinked DEF RequestSound

LEMMA CheckCodeKeeps == ASSUME IInv, NEW r \in Requests, CheckCode(r) PROVE IInv'
<1>1. Typed /\ request[r] # Idle /\ request[r].at = "code" /\ OnCourse(r) /\ NotDeleted(r)
  BY DEF CheckCode, At, IInv, TypeInv, GoneInv
<1>2. UNCHANGED <<now, drivers, regs, rows, keyed, hand, terminal, met, caught, overtaken>>
  BY DEF CheckCode, Alone, history
<1>3. CASE Finish(r)
  BY <1>1, <1>2, <1>3, Finishes, ReadsUnlinked
<1>4. CASE request[r].read = "PENDING" /\ Goto(r, "activate")
  <2>1. /\ request' \in [Requests -> Asked \cup {Idle}]
        /\ Becomes(r, request[r].op, "activate", request[r].driver, request[r].device, request[r].value, request[r].read,
                   request[r].row, request[r].seen, request[r].photo)
        /\ OthersStay(r)
    BY <1>1, <1>4, GoesTo DEF Steps
  <2>2. request[r].op = "verifyDriverOtp"
    BY <1>1 DEF OnCourse, Places
  <2>3. OnCourse(r)' /\ NotDeleted(r)' /\ CarriedExists(r)' /\ AnswerCurrent(r)' /\ NoLinker(r)'
    BY <1>1, <1>2, <1>4, <2>1, <2>2 DEF OnCourse, Places, Uploads, Early, Exists, Becomes, NotDeleted, CarriedExists, Carrying,
       AnswerCurrent, Answers, NoLinker, Linker
  <2> QED
    BY <1>2, <2>1, <2>3, ReadsUnlinked DEF RequestSound
<1> QED
  BY <1>3, <1>4 DEF CheckCode

LEMMA EnrolledKeeps == ASSUME IInv, NEW r \in Requests, Enrolled(r) PROVE IInv'
<1>1. Typed /\ request[r] # Idle /\ request[r].at = "enroll" /\ OnCourse(r) /\ NotDeleted(r)
  BY DEF Enrolled, At, IInv, TypeInv, GoneInv
<1>2. UNCHANGED <<now, drivers, regs, rows, keyed, hand, terminal, met, caught, overtaken>>
  BY DEF Enrolled, Alone, history
<1>3. CASE Finish(r)
  BY <1>1, <1>2, <1>3, Finishes, ReadsUnlinked
<1>4. CASE ~ Finish(r)
  <2>1. Goto(r, "activate") /\ request[r].read = "PENDING"
    BY <1>4 DEF Enrolled
  <2>2. /\ request' \in [Requests -> Asked \cup {Idle}]
        /\ Becomes(r, request[r].op, "activate", request[r].driver, request[r].device, request[r].value, request[r].read,
                   request[r].row, request[r].seen, request[r].photo)
        /\ OthersStay(r)
    BY <1>1, <2>1, GoesTo DEF Steps
  <2>3. request[r].op \in Uploads
    BY <1>1 DEF OnCourse, Places
  <2>4. OnCourse(r)' /\ NotDeleted(r)' /\ CarriedExists(r)' /\ AnswerCurrent(r)' /\ NoLinker(r)'
    BY <1>1, <1>2, <2>1, <2>2, <2>3 DEF OnCourse, Places, Uploads, Early, Exists, Becomes, NotDeleted, CarriedExists, Carrying,
       AnswerCurrent, Answers, NoLinker, Linker
  <2> QED
    BY <1>2, <2>2, <2>4, ReadsUnlinked DEF RequestSound
<1> QED
  BY <1>3, <1>4

LEMMA FindAckedKeeps == ASSUME IInv, NEW r \in Requests, FindAcked(r) PROVE IInv'
<1>1. /\ Typed /\ request[r] # Idle /\ request[r].at = "registration" /\ request[r].op = "ack"
      /\ OnCourse(r) /\ AnswerCurrent(r) /\ RowsOwned /\ request[r] \in Asked
  BY DEF FindAcked, At, Op, IInv, TypeInv, Typed, PhotoInv
<1>2. UNCHANGED <<now, drivers, regs, rows, keyed, hand, terminal, met, caught, overtaken>>
  BY DEF FindAcked, Alone, history
<1>3. CASE Finish(r)
  BY <1>1, <1>2, <1>3, Finishes, ReadsUnlinked
<1>4. CASE ~ Finish(r)
  <2>1. Goto(r, "write") /\ HasRow(request[r].driver, request[r].device)
    BY <1>4 DEF FindAcked, Same, Driver, Device
  <2>2. /\ request' \in [Requests -> Asked \cup {Idle}]
        /\ Becomes(r, request[r].op, "write", request[r].driver, request[r].device, request[r].value, request[r].read,
                   request[r].row, request[r].seen, request[r].photo)
        /\ OthersStay(r)
    BY <1>1, <2>1, GoesTo DEF Steps
  <2>3. request[r].driver \in Drivers /\ request[r].device \in Devices
    BY <1>1 DEF OnCourse, Asked
  <2>4. Exists(request[r].driver)
    BY <1>1, <2>1, <2>3 DEF RowsOwned
  <2>5. OnCourse(r)' /\ NotDeleted(r)' /\ CarriedExists(r)' /\ NoLinker(r)'
    BY <1>1, <1>2, <2>2, <2>3, <2>4 DEF OnCourse, Places, Uploads, Exists, Becomes, NotDeleted, Unaware, CarriedExists, Carrying,
       NoLinker, Linker, Linking
  <2>6. AnswerCurrent(r)'
    BY <1>1, <1>2, <2>2 DEF AnswerCurrent, Answers, Becomes, Sound, HasRow, Row
  <2> QED
    BY <1>2, <2>2, <2>5, <2>6, ReadsUnlinked DEF RequestSound
<1> QED
  BY <1>3, <1>4

LEMMA ReadPendingKeeps == ASSUME IInv, NEW r \in Requests, ReadPending(r) PROVE IInv'
<1> DEFINE v == request[r].device
<1>1. /\ Typed /\ request[r] # Idle /\ request[r].at = "pending" /\ request[r] \in Asked /\ OnCourse(r)
      /\ request[r].op = "claimPendingPairing" /\ v \in Devices /\ RowsOwned /\ WindowCurrent
  <2>1. /\ Typed /\ request[r] # Idle /\ request[r].at = "pending" /\ request[r] \in Asked /\ OnCourse(r)
        /\ RowsOwned /\ WindowCurrent
    BY DEF ReadPending, At, IInv, TypeInv, Typed, PhotoInv
  <2> QED
    BY <2>1 DEF OnCourse, Places, Asked
<1>2. UNCHANGED <<now, drivers, regs, rows, keyed, hand, terminal, met, caught, overtaken>>
  BY DEF ReadPending, Alone, history
<1>3. CASE Finish(r)
  BY <1>1, <1>2, <1>3, Finishes, ReadsUnlinked
<1>4. CASE ~ Finish(r)
  <2>1. PICK d \in Drivers :
           /\ HasRow(d, v) /\ Row(d, v).until # Null
           /\ request' = [request EXCEPT ![r].at = "conflict", ![r].driver = d,
                                         ![r].read = drivers[d].status, ![r].row = Row(d, v).id]
    BY <1>4 DEF ReadPending, Device
  <2> DEFINE n == [request[r] EXCEPT !.at = "conflict", !.driver = d, !.read = drivers[d].status, !.row = Row(d, v).id]
  <2>2. Row(d, v).id \in Nat /\ Row(d, v).id < rows /\ Exists(d) /\ drivers[d].status \in Statuses
    BY <1>1, <2>1 DEF RowsOwned, Typed, Exists, DriverRows
  <2>3. /\ n \in Asked
        /\ n.op = request[r].op /\ n.at = "conflict" /\ n.driver = d /\ n.device = v /\ n.value = request[r].value
        /\ n.read = drivers[d].status /\ n.row = Row(d, v).id /\ n.seen = request[r].seen
    BY <1>1, <2>2 DEF Asked, Steps
  <2>4. request' = [request EXCEPT ![r] = n]
    BY <2>1
  <2> HIDE DEF n
  <2>5. request' \in [Requests -> Asked \cup {Idle}] /\ request'[r] = n /\ OthersStay(r)
    BY <1>1, <2>3, <2>4, Replaced
  <2>6. OnCourse(r)' /\ CarriedExists(r)' /\ NoLinker(r)'
    BY <1>1, <1>2, <2>2, <2>3, <2>5 DEF OnCourse, Places, Uploads, Exists, CarriedExists, Carrying, NoLinker, Linker
  <2>7. NotDeleted(r)'
    <3>1. request[r].op \notin Strict
      BY <1>1 DEF Strict
    <3> QED
      BY <1>2, <2>2, <2>3, <2>5, <3>1, PendingNotDeleted DEF NotDeleted
  <2>8. AnswerCurrent(r)'
    BY <1>1, <1>2, <2>1, <2>3, <2>5 DEF AnswerCurrent, Answers, WindowCurrent, HasRow, Row
  <2> QED
    BY <1>2, <2>5, <2>6, <2>7, <2>8, ReadsUnlinked DEF RequestSound
<1> QED
  BY <1>3, <1>4

(* The checks before a link: nobody else is between check and write, or    *)
(* the device is among those where two have met.                           *)
LEMMA NobodyElse ==
  ASSUME NEW r \in Requests, NEW v \in Devices, Meet(r), OthersStay(r), request[r].device = v
  PROVE  /\ met \subseteq met'
         /\ v \notin met' => \A q \in Requests : q # r => ~ Linker(q, v)'
  BY DEF Meet, Checked, At, Op, Device, OthersStay, Linker, Linking

LEMMA ChecksKeep ==
  ASSUME IInv, NEW r \in Requests, request[r] # Idle, Meet(r), Goto(r, "write"),
         UNCHANGED <<now, drivers, regs, rows, keyed, hand, terminal, caught, overtaken>>,
         \/ request[r].at = "conflict" /\ ~ Taken(request[r].driver, request[r].device, request[r].value)
         \/ request[r].at = "busy" /\ ~ Busy(request[r].driver, request[r].device)
  PROVE  IInv'
<1>1. /\ Typed /\ OnCourse(r) /\ NotDeleted(r) /\ AnswerCurrent(r) /\ LinkInv /\ request[r] \in Asked
  BY DEF IInv, TypeInv, Typed, GoneInv, PhotoInv
<1> PICK v \in Devices : v = request[r].device
  BY <1>1 DEF Asked
<1>2. /\ request' \in [Requests -> Asked \cup {Idle}]
      /\ Becomes(r, request[r].op, "write", request[r].driver, request[r].device, request[r].value, request[r].read,
                 request[r].row, request[r].seen, request[r].photo)
      /\ OthersStay(r)
  BY <1>1, GoesTo DEF Steps
<1>3. OnCourse(r)' /\ NotDeleted(r)' /\ CarriedExists(r)' /\ AnswerCurrent(r)'
  BY <1>1, <1>2 DEF OnCourse, Places, Uploads, Early, Exists, Becomes, NotDeleted, CarriedExists, Carrying, AnswerCurrent, Answers,
     Sound, HasRow, Row
<1>4. TypeInv' /\ GoneInv' /\ PhotoInv'
  BY <1>2, <1>3, Reads DEF RequestSound
<1>5. /\ met \subseteq met'
      /\ v \notin met' => \A q \in Requests : q # r => ~ Linker(q, v)'
  BY <1>1, <1>2, NobodyElse
<1>6. LinkInv'
  <2>1. OnePairing'
    BY <1>1, <1>5 DEF LinkInv, OnePairing, Armed, HasRow, Row
  <2>2. LinkedOnce'
    BY <1>1, <1>5 DEF LinkInv, LinkedOnce, HasRow, Row
  <2>3. OneLinker'
    <3>1. ASSUME NEW w \in Devices, w \notin met', NEW q \in Requests, NEW p \in Requests, Linker(q, w)', Linker(p, w)'
          PROVE  q = p
      <4>1. CASE w = v
        BY <1>5, <3>1, <4>1
      <4>2. CASE w # v
        <5>1. ~ Linker(r, w)'
          BY <1>2, <4>2 DEF Linker, Becomes
        <5>2. q # r /\ p # r /\ Linker(q, w) /\ Linker(p, w) /\ w \notin met
          BY <1>2, <1>5, <3>1, <5>1 DEF Linker, OthersStay
        <5> QED
          BY <1>1, <5>2 DEF LinkInv, OneLinker
      <4> QED
        BY <4>1, <4>2
    <3> QED
      BY <3>1 DEF OneLinker
  <2>4. PairingChecked'
    <3>1. ASSUME NEW w \in Devices, w \notin met', NEW q \in Requests, NEW e \in Drivers,
                 Linker(q, w)', request'[q].op = "startDevicePairing", Armed(e, w)'
          PROVE  e = request'[q].driver
      <4>1. Armed(e, w) /\ w \notin met
        BY <1>5, <3>1 DEF Armed, HasRow, Row
      <4>2. CASE q = r
        <5>1. w = v /\ request[r].op = "startDevicePairing" /\ request'[r].driver = request[r].driver
          BY <1>2, <3>1, <4>2 DEF Linker, Becomes
        <5>2. ~ Busy(request[r].driver, v)
          BY <1>1, <5>1 DEF OnCourse, Places
        <5> QED
          BY <4>1, <4>2, <5>1, <5>2 DEF Busy
      <4>3. CASE q # r
        BY <1>1, <1>2, <3>1, <4>1, <4>3 DEF LinkInv, PairingChecked, Linker, OthersStay
      <4> QED
        BY <4>2, <4>3
    <3> QED
      BY <3>1 DEF PairingChecked
  <2>5. LinkChecked'
    <3>1. ASSUME NEW w \in Devices, w \notin met', NEW q \in Requests, NEW e \in Drivers,
                 Linker(q, w)', request'[q].op # "startDevicePairing", request'[q].value \in Numbers,
                 HasRow(e, w)', regs'[e][w].face = request'[q].value
          PROVE  e = request'[q].driver
      <4>1. HasRow(e, w) /\ Row(e, w).face = request'[q].value /\ w \notin met
        BY <1>5, <3>1 DEF HasRow, Row
      <4>2. CASE q = r
        <5>1. /\ w = v /\ request[r].op # "startDevicePairing" /\ request'[r].driver = request[r].driver
              /\ request'[r].value = request[r].value
          BY <1>2, <3>1, <4>2 DEF Linker, Becomes
        <5>2. ~ Taken(request[r].driver, v, request[r].value)
          BY <1>1, <5>1 DEF OnCourse, Places
        <5> QED
          BY <4>1, <4>2, <5>1, <5>2 DEF Taken
      <4>3. CASE q # r
        <5>1. request[q] = request'[q] /\ Linker(q, w)
          BY <1>2, <3>1, <4>3 DEF OthersStay, Linker
        <5> QED
          BY <1>1, <3>1, <4>1, <5>1 DEF LinkInv, LinkChecked
      <4> QED
        BY <4>2, <4>3
    <3> QED
      BY <3>1 DEF LinkChecked, Row
  <2> QED
    BY <2>1, <2>2, <2>3, <2>4, <2>5 DEF LinkInv
<1> QED
  BY <1>4, <1>6 DEF IInv

LEMMA CheckConflictKeeps == ASSUME IInv, NEW r \in Requests, CheckConflict(r) PROVE IInv'
<1>1. Typed /\ request[r] # Idle /\ request[r].at = "conflict" /\ Meet(r)
  BY DEF CheckConflict, At, IInv, TypeInv
<1>2. UNCHANGED <<now, drivers, regs, rows, keyed, hand, terminal, caught, overtaken>> /\ met \subseteq met'
  BY DEF CheckConflict, Alone, Meet
<1>3. CASE Finish(r)
  BY <1>1, <1>2, <1>3, Finishes, ReadsUnlinked
<1>4. CASE ~ Finish(r)
  BY <1>1, <1>2, <1>4, ChecksKeep DEF CheckConflict, Driver, Device, Value
<1> QED
  BY <1>3, <1>4

LEMMA CheckBusyKeeps == ASSUME IInv, NEW r \in Requests, CheckBusy(r) PROVE IInv'
<1>1. Typed /\ request[r] # Idle /\ request[r].at = "busy" /\ Meet(r)
  BY DEF CheckBusy, At, IInv, TypeInv
<1>2. UNCHANGED <<now, drivers, regs, rows, keyed, hand, terminal, caught, overtaken>> /\ met \subseteq met'
  BY DEF CheckBusy, Alone, Meet
<1>3. CASE Finish(r)
  BY <1>1, <1>2, <1>3, Finishes, ReadsUnlinked
<1>4. CASE ~ Finish(r)
  BY <1>1, <1>2, <1>4, ChecksKeep DEF CheckBusy, Driver, Device
<1> QED
  BY <1>3, <1>4

-----------------------------------------------------------------------------
(* The writes to the drivers' table: nobody becomes deleted or gets an     *)
(* older photo by them, and of a deleted driver nothing is written.        *)
LEMMA WritesDriver ==
  ASSUME IInv, NEW d \in Drivers, drivers' \in [Drivers -> DriverRows \cup {Nothing}],
         drivers'[d] \in DriverRows, \A e \in Drivers : e # d => drivers'[e] = drivers[e],
         Exists(d) => /\ drivers'[d].deleted = drivers[d].deleted /\ drivers'[d].photo >= drivers[d].photo
                      /\ drivers[d].deleted => d \in caught,
         ~ Exists(d) => ~ drivers'[d].deleted,
         UNCHANGED <<now, regs, rows, keyed, hand, terminal, met, caught, overtaken>>,
         request' \in [Requests -> Asked \cup {Idle}],
         \A q \in Requests : request'[q] = request[q] \/ (RequestSound(q)' /\ NoLinker(q)')
  PROVE  IInv'
<1>1. Typed /\ Typed'
  BY DEF IInv, TypeInv, Typed
<1>2. RowsKept /\ LinksKept /\ SyncKept /\ TerminalKept /\ HandKept
  <2>1. now' \in Nat /\ now' >= now
    BY <1>1, EnrollmentAssumption DEF Photos, Uploaded, Typed
  <2> QED
    BY <1>1, <2>1, RowsUnchanged, TerminalUnchanged
<1>3. DriversGrow
  <2>1. \A e \in Drivers : Exists(e) => drivers[e].photo \in Nat
    BY <1>1, EnrollmentAssumption DEF Photos, Uploaded, Typed, Exists, DriverRows
  <2>2. drivers'[d] # Nothing
    BY EmptyAssumption
  <2> QED
    BY <2>1, <2>2 DEF DriversGrow, Exists
<1>4. DeletedStay
  BY DEF DeletedStay
<1>5. TypeInv' /\ GoneInv' /\ PhotoInv'
  BY <1>1, <1>2, <1>3, <1>4, Kept
<1>6. LinkInv'
  BY <1>2, LinkKept DEF IInv, NoLinker
<1> QED
  BY <1>5, <1>6 DEF IInv

(* The same, as the last statement of a request.                           *)
LEMMA EndsWithDriver ==
  ASSUME IInv, NEW r \in Requests, Finish(r), NEW d \in Drivers, drivers' \in [Drivers -> DriverRows \cup {Nothing}],
         drivers'[d] \in DriverRows, \A e \in Drivers : e # d => drivers'[e] = drivers[e], Exists(d),
         drivers'[d].deleted = drivers[d].deleted, drivers'[d].photo >= drivers[d].photo,
         drivers[d].deleted => d \in caught,
         UNCHANGED <<now, regs, rows, keyed, hand, terminal, met, caught, overtaken>>
  PROVE  IInv'
<1>1. request' \in [Requests -> Asked \cup {Idle}] /\ Ends(r) /\ OthersStay(r)
  BY Finishes DEF IInv, TypeInv
<1>2. \A q \in Requests : request'[q] = request[q] \/ (RequestSound(q)' /\ NoLinker(q)')
  BY <1>1, EndsSound DEF OthersStay
<1> QED
  BY <1>1, <1>2, WritesDriver

LEMMA UseKeeps == ASSUME IInv, NEW d \in Drivers, Use(d) PROVE IInv'
<1> DEFINE n == [drivers[d] EXCEPT !.used = TRUE]
<1>1. Exists(d) /\ Typed /\ drivers[d].status = "ACTIVE" /\ drivers[d] \in DriverRows
  BY DEF Use, Exists, IInv, TypeInv, Typed
<1>2. n \in DriverRows /\ n.deleted = drivers[d].deleted /\ n.photo = drivers[d].photo
  BY <1>1 DEF DriverRows
<1>3. drivers' = [drivers EXCEPT ![d] = n]
  BY DEF Use
<1> HIDE DEF n
<1>4. /\ drivers' \in [Drivers -> DriverRows \cup {Nothing}] /\ drivers'[d] = n
      /\ \A e \in Drivers : e # d => drivers'[e] = drivers[e]
  BY <1>1, <1>2, <1>3 DEF Typed
<1>5. drivers[d].photo >= drivers[d].photo
  BY <1>1, EnrollmentAssumption DEF DriverRows
<1>6. drivers[d].deleted => d \in caught
  BY <1>1 DEF IInv, GoneInv, GoneIsGone
<1>7. UNCHANGED <<now, regs, rows, keyed, hand, terminal, met, caught, overtaken, request>>
  BY DEF Use, history
<1> QED
  BY <1>1, <1>2, <1>4, <1>5, <1>6, <1>7, WritesDriver DEF Typed

LEMMA WriteDriverKeeps == ASSUME IInv, NEW r \in Requests, WriteDriver(r) PROVE IInv'
<1>1. /\ Typed /\ request[r] # Idle /\ request[r].at = "write" /\ OnCourse(r) /\ NotDeleted(r)
      /\ request[r].op \in {"setStatus", "updatePhoto", "update"} /\ Finish(r)
  BY DEF WriteDriver, At, Op, IInv, TypeInv, GoneInv
<1>2. UNCHANGED <<now, regs, rows, keyed, hand, terminal, met, caught, overtaken>>
  BY DEF WriteDriver, Alone, history
<1> PICK d \in Drivers : d = request[r].driver
  BY <1>1 DEF OnCourse, Places
<1>3. Exists(d) /\ drivers[d] \in DriverRows /\ request[r].value \in Contents(request[r].op)
  BY <1>1 DEF OnCourse, Early, Typed, Exists
<1>4. drivers[d].deleted => d \in caught
  BY <1>1 DEF NotDeleted, Early, Unaware, Strict
<1> DEFINE s == [drivers[d] EXCEPT !.status = request[r].value]
           p == [drivers[d] EXCEPT !.photo = drivers[d].photo + 1]
           u == [drivers[d] EXCEPT !.phone = request[r].value]
<1>5. drivers[d].photo \in Nat /\ MaxPhoto \in Nat
  BY <1>3, EnrollmentAssumption DEF DriverRows
<1>6. PICK n \in DriverRows : n.deleted = drivers[d].deleted /\ n.photo >= drivers[d].photo
                              /\ drivers' = [drivers EXCEPT ![d] = n]
  <2>1. CASE request[r].op = "setStatus"
    <3>1. request[r].value \in Statuses
      BY <1>3, <2>1 DEF Contents, Values, Statuses
    <3>2. s \in DriverRows /\ s.deleted = drivers[d].deleted /\ s.photo = drivers[d].photo
      BY <1>3, <3>1 DEF DriverRows
    <3>3. drivers' = [drivers EXCEPT ![d] = s]
      BY <2>1 DEF WriteDriver, Op, Driver, Value
    <3> HIDE DEF s
    <3>4. s.photo >= drivers[d].photo
      BY <1>5, <3>2
    <3>5. s \in DriverRows
      BY <3>2
    <3> USE <3>5
    <3> WITNESS s \in DriverRows
    <3> QED
      BY <3>2, <3>3, <3>4
  <2>2. CASE request[r].op = "updatePhoto" /\ drivers[d].photo < MaxPhoto
    <3>1. p \in DriverRows /\ p.deleted = drivers[d].deleted /\ p.photo = drivers[d].photo + 1
      BY <1>3, <1>5, <2>2 DEF DriverRows
    <3>2. drivers' = [drivers EXCEPT ![d] = p]
      BY <2>2 DEF WriteDriver, Op, Driver, Value
    <3> HIDE DEF p
    <3>4. p.photo >= drivers[d].photo
      BY <1>5, <3>1
    <3>5. p \in DriverRows
      BY <3>1
    <3> USE <3>5
    <3> WITNESS p \in DriverRows
    <3> QED
      BY <3>1, <3>2, <3>4
  <2>3. CASE request[r].op = "update" /\ ~ PhoneTaken(d, request[r].value)
    <3>1. request[r].value \in Phones
      BY <1>3, <2>3 DEF Contents, Values
    <3>2. u \in DriverRows /\ u.deleted = drivers[d].deleted /\ u.photo = drivers[d].photo
      BY <1>3, <3>1 DEF DriverRows
    <3>3. drivers' = [drivers EXCEPT ![d] = u]
      BY <2>3 DEF WriteDriver, Op, Driver, Value
    <3> HIDE DEF u
    <3>4. u.photo >= drivers[d].photo
      BY <1>5, <3>2
    <3>5. u \in DriverRows
      BY <3>2
    <3> USE <3>5
    <3> WITNESS u \in DriverRows
    <3> QED
      BY <3>2, <3>3, <3>4
  <2>4. CASE \/ request[r].op = "updatePhoto" /\ ~ drivers[d].photo < MaxPhoto
             \/ request[r].op = "update" /\ PhoneTaken(d, request[r].value)
    <3>1. drivers' = drivers
      BY <2>4 DEF WriteDriver, Op, Driver, Value
    <3>2. drivers = [drivers EXCEPT ![d] = drivers[d]]
      BY <1>1 DEF Typed
    <3> QED
      BY <1>3, <1>5, <3>1, <3>2
  <2> QED
    BY <1>1, <2>1, <2>2, <2>3, <2>4
<1>7. /\ drivers' \in [Drivers -> DriverRows \cup {Nothing}] /\ drivers'[d] = n
      /\ \A e \in Drivers : e # d => drivers'[e] = drivers[e]
  BY <1>1, <1>6 DEF Typed
<1> QED
  BY <1>1, <1>2, <1>3, <1>4, <1>6, <1>7, EndsWithDriver

LEMMA ActivateKeeps == ASSUME IInv, NEW r \in Requests, Activate(r) PROVE IInv'
<1>1. /\ Typed /\ request[r] # Idle /\ request[r].at = "activate" /\ OnCourse(r) /\ NotDeleted(r) /\ Finish(r)
  BY DEF Activate, At, IInv, TypeInv, GoneInv
<1>2. UNCHANGED <<now, regs, rows, keyed, hand, terminal, met, caught, overtaken>>
  BY DEF Activate, Alone, history
<1>3. /\ request[r].op \in Uploads \cup {"setManualFaceMapping", "claimPendingPairing", "verifyDriverOtp"}
      /\ request[r].read = "PENDING"
  BY <1>1 DEF OnCourse, Places
<1> PICK d \in Drivers : d = request[r].driver
  BY <1>1, <1>3 DEF OnCourse, Uploads
<1>4. Exists(d) /\ drivers[d] \in DriverRows
  BY <1>1, <1>3 DEF OnCourse, Early, Uploads, Typed, Exists
<1>5. drivers[d].deleted => d \in caught
  BY <1>1, <1>3 DEF NotDeleted, Early, Unaware, Uploads
<1> DEFINE n == [drivers[d] EXCEPT !.status = "ACTIVE"]
<1>6. n \in DriverRows /\ n.deleted = drivers[d].deleted /\ n.photo = drivers[d].photo /\ n.photo >= drivers[d].photo
  BY <1>4, EnrollmentAssumption DEF DriverRows, Statuses
<1>7. drivers' = [drivers EXCEPT ![d] = n]
  BY DEF Activate, Driver
<1> HIDE DEF n
<1>8. /\ drivers' \in [Drivers -> DriverRows \cup {Nothing}] /\ drivers'[d] = n
      /\ \A e \in Drivers : e # d => drivers'[e] = drivers[e]
  BY <1>1, <1>6, <1>7 DEF Typed
<1> QED
  BY <1>1, <1>2, <1>4, <1>5, <1>6, <1>8, EndsWithDriver

LEMMA ActivateIfPendingKeeps == ASSUME IInv, NEW r \in Requests, ActivateIfPending(r) PROVE IInv'
<1>1. /\ Typed /\ request[r] # Idle /\ request[r].at = "ifPending" /\ OnCourse(r) /\ Finish(r)
  BY DEF ActivateIfPending, At, IInv, TypeInv
<1>2. UNCHANGED <<now, regs, rows, keyed, hand, terminal, met, caught, overtaken>>
  BY DEF ActivateIfPending, Alone, history
<1>3. request[r].op = "ack"
  BY <1>1 DEF OnCourse, Places
<1> PICK d \in Drivers : d = request[r].driver
  BY <1>1, <1>3 DEF OnCourse
<1>4. Exists(d) /\ drivers[d] \in DriverRows
  BY <1>1, <1>3 DEF OnCourse, Early, Typed, Exists
<1>5. CASE drivers[d].status # "PENDING"
  <2>1. drivers' = drivers
    BY <1>5 DEF ActivateIfPending, Driver
  <2> QED
    BY <1>1, <1>2, <2>1, Finishes, ReadsUnlinked
<1>6. CASE drivers[d].status = "PENDING"
  <2>1. drivers[d].deleted => d \in caught
    BY <1>4, <1>6, PendingNotDeleted
  <2> DEFINE n == [drivers[d] EXCEPT !.status = "ACTIVE"]
  <2>2. n \in DriverRows /\ n.deleted = drivers[d].deleted /\ n.photo = drivers[d].photo /\ n.photo >= drivers[d].photo
    BY <1>4, EnrollmentAssumption DEF DriverRows, Statuses
  <2>3. drivers' = [drivers EXCEPT ![d] = n]
    BY <1>6 DEF ActivateIfPending, Driver
  <2> HIDE DEF n
  <2>4. /\ drivers' \in [Drivers -> DriverRows \cup {Nothing}] /\ drivers'[d] = n
        /\ \A e \in Drivers : e # d => drivers'[e] = drivers[e]
    BY <1>1, <2>2, <2>3 DEF Typed
  <2> QED
    BY <1>1, <1>2, <1>4, <2>1, <2>2, <2>4, EndsWithDriver
<1> QED
  BY <1>5, <1>6

LEMMA InsertKeeps == ASSUME IInv, NEW r \in Requests, Insert(r) PROVE IInv'
<1>1. /\ Typed /\ request[r] # Idle /\ request[r].at = "insert" /\ OnCourse(r) /\ request[r] \in Asked
  BY DEF Insert, At, IInv, TypeInv, Typed
<1>2. UNCHANGED <<now, keyed, hand, met, caught, overtaken>>
  BY DEF Insert, Alone, history
<1>3. request[r].op = "create"
  BY <1>1 DEF OnCourse, Places
<1> PICK d \in Drivers : d = request[r].driver
  BY <1>1, <1>3 DEF OnCourse
<1>4. CASE Refuse(r)
  BY <1>1, <1>2, <1>4, Finishes, ReadsUnlinked DEF Refuse
<1>5. CASE ~ Refuse(r)
  <2>1. PICK photo \in {0, 1}, chosen \in SUBSET Devices :
           /\ ~ Exists(d) /\ drivers' = [drivers EXCEPT ![d] = Fresh(request[r].value, photo)]
           /\ IF photo = 0 THEN Finish(r)
              ELSE request' = [request EXCEPT ![r].at = IF chosen = {} THEN "agents" ELSE "enrollee",
                                              ![r].todo = chosen, ![r].photo = photo]
           /\ UNCHANGED <<regs, rows, terminal>>
    BY <1>5 DEF Insert, Driver, Value
  <2> DEFINE f == Fresh(request[r].value, photo)
  <2>2. request[r].value \in Phones /\ photo \in 0 .. MaxPhoto /\ photo \in Photos
    BY <1>1, <1>3, PhotoNumbers DEF OnCourse, Contents, Values
  <2>3. f \in DriverRows /\ f.deleted = FALSE /\ f.photo = photo
    BY <2>2 DEF Fresh, DriverRows, Statuses
  <2>4. drivers' = [drivers EXCEPT ![d] = f]
    BY <2>1
  <2> HIDE DEF f
  <2>5. /\ drivers' \in [Drivers -> DriverRows \cup {Nothing}] /\ drivers'[d] = f /\ f # Nothing
        /\ \A e \in Drivers : e # d => drivers'[e] = drivers[e]
    BY <1>1, <2>3, <2>4, EmptyAssumption DEF Typed
  <2>6. CASE Finish(r)
    <3>1. request' \in [Requests -> Asked \cup {Idle}] /\ Ends(r) /\ OthersStay(r)
      BY <1>1, <2>6, Finishes
    <3>2. \A q \in Requests : request'[q] = request[q] \/ (RequestSound(q)' /\ NoLinker(q)')
      BY <3>1, EndsSound DEF OthersStay
    <3> QED
      BY <1>2, <2>1, <2>3, <2>5, <3>1, <3>2, WritesDriver
  <2>7. CASE ~ Finish(r)
    <3> DEFINE at == IF chosen = {} THEN "agents" ELSE "enrollee"
               n == [request[r] EXCEPT !.at = at, !.todo = chosen, !.photo = photo]
    <3>1. /\ n \in Asked
          /\ n.op = "create" /\ n.at \in {"agents", "enrollee"} /\ n.driver = d /\ n.value = request[r].value
          /\ n.read = request[r].read /\ n.row = request[r].row /\ n.seen = request[r].seen /\ n.photo = photo
      BY <1>1, <1>3, <2>2 DEF Asked, Steps
    <3>2. request' = [request EXCEPT ![r] = n]
      BY <2>1, <2>7
    <3> HIDE DEF n
    <3>3. request' \in [Requests -> Asked \cup {Idle}] /\ request'[r] = n /\ OthersStay(r)
      BY <1>1, <3>1, <3>2, Replaced
    <3>4. OnCourse(r)' /\ NotDeleted(r)' /\ AnswerCurrent(r)' /\ NoLinker(r)'
      BY <1>1, <1>2, <1>3, <2>1, <2>3, <2>5, <3>1, <3>3 DEF OnCourse, Places, Uploads, Exists, NotDeleted,
         AnswerCurrent, Answers, NoLinker, Linker
    <3>5. CarriedExists(r)'
      <4>1. photo <= photo
        OBVIOUS
      <4> QED
        BY <2>3, <2>5, <3>1, <3>3, <4>1 DEF CarriedExists, Carrying
    <3>6. \A q \in Requests : request'[q] = request[q] \/ (RequestSound(q)' /\ NoLinker(q)')
      BY <3>3, <3>4, <3>5 DEF OthersStay, RequestSound
    <3> QED
      BY <1>2, <2>1, <2>3, <2>5, <3>3, <3>6, WritesDriver
  <2> QED
    BY <2>6, <2>7
<1> QED
  BY <1>4, <1>5

-----------------------------------------------------------------------------
(* The steps of the clock, of the staff's keys and of the agents.          *)
LEMMA KeptUnlinked ==
  ASSUME IInv, Typed', RowsKept, LinksKept, SyncKept, TerminalKept, HandKept, DriversGrow, DeletedStay,
         rows' = rows, caught' = caught, met \subseteq met',
         \A q \in Requests : request'[q] = request[q] \/ (RequestSound(q)' /\ NoLinker(q)')
  PROVE  IInv'
<1>1. TypeInv' /\ GoneInv' /\ PhotoInv'
  BY Kept
<1>2. LinkInv'
  BY LinkKept DEF IInv, NoLinker
<1> QED
  BY <1>1, <1>2 DEF IInv

LEMMA TickKeeps == ASSUME IInv, Tick PROVE IInv'
<1>1. Typed /\ UNCHANGED <<drivers, regs, rows, keyed, hand, terminal, request, met, caught, overtaken>>
  BY DEF Tick, history, IInv, TypeInv
<1>2. now' \in 0 .. MaxTime /\ now' \in Nat /\ now' >= now
  BY <1>1, EnrollmentAssumption DEF Tick, Typed
<1>3. Typed'
  BY <1>1, <1>2 DEF Typed
<1>4. RowsKept /\ LinksKept /\ SyncKept /\ TerminalKept /\ HandKept /\ DriversGrow /\ DeletedStay
  BY <1>1, <1>2, RowsUnchanged, TerminalUnchanged, DriversUnchanged
<1> QED
  BY <1>1, <1>3, <1>4, KeptUnlinked

LEMMA SetKeyKeeps == ASSUME IInv, NEW v \in Devices, SetKey(v) PROVE IInv'
<1>1. Typed /\ UNCHANGED <<now, drivers, regs, rows, hand, terminal, request, met, caught, overtaken>>
  BY DEF SetKey, history, IInv, TypeInv
<1>2. now' \in Nat /\ now' >= now
  BY <1>1, EnrollmentAssumption DEF Photos, Uploaded, Typed
<1>3. Typed'
  BY <1>1 DEF Typed, SetKey
<1>4. RowsKept /\ LinksKept /\ SyncKept /\ TerminalKept /\ HandKept /\ DriversGrow /\ DeletedStay
  BY <1>1, <1>2, RowsUnchanged, TerminalUnchanged, DriversUnchanged
<1> QED
  BY <1>1, <1>3, <1>4, KeptUnlinked

LEMMA TakeJobKeeps == ASSUME IInv, NEW v \in Devices, TakeJob(v) PROVE IInv'
<1>1. /\ Typed /\ RowsOwned
      /\ UNCHANGED <<now, drivers, regs, rows, keyed, terminal, request, met, caught, overtaken>>
  BY DEF TakeJob, history, IInv, TypeInv
<1>2. now' \in Nat /\ now' >= now
  BY <1>1, EnrollmentAssumption DEF Photos, Uploaded, Typed
<1>3. PICK d \in Pending(v) : hand' = [hand EXCEPT ![v] = [driver |-> d, id |-> Row(d, v).id, outcome |-> "taken"]]
  BY DEF TakeJob
<1> DEFINE j == [driver |-> d, id |-> Row(d, v).id, outcome |-> "taken"]
<1>4. d \in Drivers /\ HasRow(d, v)
  BY DEF Pending, IsJob, HasRow
<1>5. Row(d, v).id \in Nat /\ Row(d, v).id < rows /\ Exists(d)
  BY <1>1, <1>4 DEF RowsOwned, Typed
<1>6. j \in Jobs /\ j.driver = d /\ j.id = Row(d, v).id /\ j.outcome = "taken"
  BY <1>4, <1>5 DEF Jobs
<1>7. hand' = [hand EXCEPT ![v] = j]
  BY <1>3
<1> HIDE DEF j
<1>8. hand' \in [Devices -> Jobs \cup {Nothing}] /\ hand'[v] = j /\ \A w \in Devices : w # v => hand'[w] = hand[w]
  BY <1>1, <1>6, <1>7 DEF Typed
<1>9. Typed'
  BY <1>1, <1>8 DEF Typed
<1>10. HandKept
  <2>1. Exists(d)'
    BY <1>1, <1>5 DEF Exists
  <2> QED
    BY <1>1, <1>4, <1>5, <1>6, <1>8, <2>1 DEF HandKept
<1>11. RowsKept /\ LinksKept /\ SyncKept /\ TerminalKept /\ DriversGrow /\ DeletedStay
  BY <1>1, <1>2, RowsUnchanged, DriversUnchanged DEF TerminalKept
<1> QED
  BY <1>1, <1>9, <1>10, <1>11, KeptUnlinked

LEMMA WriteFaceKeeps == ASSUME IInv, NEW v \in Devices, WriteFace(v) PROVE IInv'
<1>1. /\ Typed /\ RowsOwned /\ HandKnown /\ AskedExists /\ hand[v] # Nothing
      /\ UNCHANGED <<now, drivers, regs, rows, keyed, request, met, caught>>
  BY DEF WriteFace, IInv, TypeInv, PhotoInv
<1>2. now' \in Nat /\ now' >= now
  BY <1>1, EnrollmentAssumption DEF Photos, Uploaded, Typed
<1> PICK d \in Drivers : d = hand[v].driver
  BY <1>1 DEF Typed, Jobs
<1>3. hand[v] \in Jobs /\ Exists(d) /\ hand[v].id < rows /\ drivers[d] \in DriverRows
  BY <1>1 DEF HandKnown, Typed, Exists
<1>4. PICK o \in {"ok", "failed"} :
        /\ hand' = [hand EXCEPT ![v].outcome = o]
        /\ \/ /\ o = "ok" /\ terminal' = [terminal EXCEPT ![d][v] = drivers[d].photo]
              /\ overtaken' = IF HasRow(d, v) /\ Row(d, v).asked = Uploaded THEN overtaken \cup {<<d, v>>} ELSE overtaken
           \/ o = "failed" /\ terminal' = terminal /\ overtaken' = overtaken
  BY DEF WriteFace
<1> DEFINE j == [hand[v] EXCEPT !.outcome = o]
<1>5. j \in Jobs /\ j.driver = d /\ j.id = hand[v].id /\ j.outcome = o
  BY <1>3 DEF Jobs
<1>6. hand' = [hand EXCEPT ![v] = j]
  BY <1>4
<1> HIDE DEF j
<1>7. hand' \in [Devices -> Jobs \cup {Nothing}] /\ hand'[v] = j /\ \A w \in Devices : w # v => hand'[w] = hand[w]
  BY <1>1, <1>5, <1>6 DEF Typed
<1>8. /\ terminal' \in [Drivers -> [Devices -> Photos]]
      /\ \A e \in Drivers, w \in Devices : <<e, w>> # <<d, v>> => terminal'[e][w] = terminal[e][w]
      /\ terminal'[d][v] = terminal[d][v] \/ terminal'[d][v] = drivers[d].photo
      /\ o = "ok" => terminal'[d][v] = drivers[d].photo
  <2>1. CASE o = "failed"
    BY <1>1, <1>4, <2>1 DEF Typed
  <2>2. CASE o = "ok"
    <3>1. drivers[d].photo \in Photos
      BY <1>3, PhotoNumbers DEF DriverRows
    <3>2. terminal' = [terminal EXCEPT ![d] = [terminal[d] EXCEPT ![v] = drivers[d].photo]]
      BY <1>4, <2>2
    <3> QED
      BY <1>1, <2>2, <3>1, <3>2 DEF Typed
  <2> QED
    BY <2>1, <2>2
<1>9. /\ overtaken \subseteq overtaken'
      /\ d \notin caught /\ HasRow(d, v) /\ o = "ok" /\ <<d, v>> \notin overtaken' => OnTerminal(d, v)
  <2>1. SUFFICES ASSUME d \notin caught, HasRow(d, v), o = "ok", <<d, v>> \notin overtaken'
                 PROVE  OnTerminal(d, v)
    BY <1>4
  <2>2. Row(d, v).asked \in Nat /\ drivers[d].photo \in 0 .. MaxPhoto
    <3>1. Row(d, v) \in Registrations
      BY <1>1, <2>1 DEF Typed, HasRow, Row
    <3>2. Row(d, v).asked \in Photos /\ drivers[d].photo \in 0 .. MaxPhoto
      BY <1>3, <3>1 DEF Registrations, DriverRows
    <3> QED
      BY <3>2, PhotoNumbers
  <2>3. Row(d, v).asked # Uploaded
    BY <1>4, <2>1
  <2>4. Row(d, v).asked <= drivers[d].photo
    BY <1>1, <2>1, <2>3 DEF AskedExists
  <2>5. Current(drivers[d].photo, Row(d, v).asked)
    BY <2>2, <2>4, PhotoNumbers DEF Current
  <2> QED
    BY <1>1, <1>8, <2>1, <2>5 DEF OnTerminal, Row
<1>10. Typed'
  BY <1>1, <1>7, <1>8 DEF Typed
<1>11. HandKept
  <2>1. Exists(d)' /\ HasRow(d, v)' = HasRow(d, v)
    BY <1>1, <1>3 DEF Exists, HasRow, Row
  <2> QED
    BY <1>1, <1>3, <1>5, <1>7, <1>8, <1>9, <2>1 DEF HandKept
<1>12. TerminalKept
  <2>1. ASSUME NEW e \in Drivers, NEW w \in Devices
        PROVE  terminal'[e][w] = terminal[e][w] \/ (e = d /\ w = v /\ o = "ok")
    BY <1>4, <1>8
  <2> QED
    BY <1>1, <1>9, <2>1 DEF TerminalKept, HasRow, Row
<1>13. RowsKept /\ LinksKept /\ SyncKept /\ DriversGrow /\ DeletedStay
  BY <1>1, <1>2, RowsUnchanged, DriversUnchanged
<1> QED
  BY <1>1, <1>10, <1>11, <1>12, <1>13, KeptUnlinked

LEMMA ReportKeeps == ASSUME IInv, NEW v \in Devices, NEW r \in Requests, Report(v, r) PROVE IInv'
<1>1. /\ Typed /\ HandKnown /\ HandCurrent /\ hand[v] # Nothing /\ hand[v].outcome # "taken"
      /\ UNCHANGED <<now, drivers, regs, rows, keyed, terminal, met, caught, overtaken>>
  BY DEF Report, history, IInv, TypeInv, PhotoInv
<1>2. now' \in Nat /\ now' >= now
  BY <1>1, EnrollmentAssumption DEF Photos, Uploaded, Typed
<1> PICK d \in Drivers : d = hand[v].driver
  BY <1>1 DEF Typed, Jobs
<1>3. hand[v] \in Jobs /\ hand[v].id < rows /\ hand[v].outcome \in {"ok", "failed"}
  BY <1>1 DEF HandKnown, Typed, Jobs
<1> DEFINE c == Call("ack", "registration", d, v, hand[v].outcome)
           n == [c EXCEPT !.row = hand[v].id]
<1>4. /\ n \in Asked
      /\ n.op = "ack" /\ n.at = "registration" /\ n.driver = d /\ n.device = v /\ n.value = hand[v].outcome
      /\ n.row = hand[v].id
  <2>1. /\ c \in Asked
        /\ c.op = "ack" /\ c.at = "registration" /\ c.driver = d /\ c.device = v /\ c.value = hand[v].outcome
    BY <1>3, EnrollmentAssumption DEF Call, Photos, Uploaded, Asked, Kinds, Steps, AllContents, Statuses
  <2>2. hand[v].id \in Nat
    BY <1>3 DEF Jobs
  <2> HIDE DEF c
  <2> QED
    BY <2>1, <2>2 DEF Asked
<1>5. request' = [request EXCEPT ![r] = n]
  BY DEF Report
<1> HIDE DEF n
<1>6. request' \in [Requests -> Asked \cup {Idle}] /\ request'[r] = n /\ OthersStay(r)
  BY <1>1, <1>4, <1>5, Replaced
<1>7. /\ hand' \in [Devices -> Jobs \cup {Nothing}] /\ HandKept
  <2>1. hand' = [hand EXCEPT ![v] = Nothing]
    BY DEF Report
  <2> QED
    BY <1>1, <2>1 DEF Typed, HandKept
<1>8. Typed'
  BY <1>1, <1>6, <1>7 DEF Typed
<1>9. RowsKept /\ LinksKept /\ SyncKept /\ TerminalKept /\ DriversGrow /\ DeletedStay
  BY <1>1, <1>2, RowsUnchanged, DriversUnchanged DEF TerminalKept
<1>10. OnCourse(r)' /\ NotDeleted(r)' /\ CarriedExists(r)' /\ NoLinker(r)'
  BY <1>1, <1>3, <1>4, <1>6 DEF OnCourse, Places, Uploads, Early, Contents, NotDeleted, CarriedExists, Carrying, NoLinker, Linker
<1>11. AnswerCurrent(r)'
  <2>1. SUFFICES ASSUME NEW e \in Drivers, NEW w \in Devices, Sound(e, w)', Answers(r, e, w)', n.value = "ok"
                 PROVE  Current(terminal[e][w], Row(e, w).asked)
    BY <1>1, <1>4, <1>6 DEF AnswerCurrent, Row
  <2>2. e = d /\ w = v /\ hand[v].id = Row(d, v).id /\ Sound(d, v)
    BY <1>1, <1>4, <1>6, <2>1 DEF Answers, Sound, HasRow, Row
  <2> QED
    BY <1>1, <1>4, <2>1, <2>2 DEF HandCurrent
<1>12. \A q \in Requests : request'[q] = request[q] \/ (RequestSound(q)' /\ NoLinker(q)')
  BY <1>6, <1>10, <1>11 DEF OthersStay, RequestSound
<1> QED
  BY <1>1, <1>7, <1>8, <1>9, <1>12, KeptUnlinked

-----------------------------------------------------------------------------
(* One row of the registrations is replaced, or removed.                   *)
OtherRowsStay(d, v) == \A e \in Drivers, w \in Devices : e # d \/ w # v => regs'[e][w] = regs[e][w]

LEMMA OneRow ==
  ASSUME Typed, NEW d \in Drivers, NEW v \in Devices, NEW row \in Registrations \cup {NoRow},
         regs' = [regs EXCEPT ![d][v] = row]
  PROVE  /\ regs' \in [Drivers -> [Devices -> Registrations \cup {NoRow}]]
         /\ regs'[d][v] = row
         /\ OtherRowsStay(d, v)
<1>1. regs' = [regs EXCEPT ![d] = [regs[d] EXCEPT ![v] = row]]
  OBVIOUS
<1> QED
  BY <1>1 DEF Typed, OtherRowsStay

LEMMA RemovesRow ==
  ASSUME Typed, NEW d \in Drivers, NEW v \in Devices, regs'[d][v] = NoRow, OtherRowsStay(d, v), now' = now
  PROVE  RowsKept /\ LinksKept /\ SyncKept
  BY DEF OtherRowsStay, RowsKept, SameRow, LinksKept, SyncKept, Armed, HasRow, Row

LEMMA ChangesRow ==
  ASSUME Typed, NEW d \in Drivers, NEW v \in Devices, HasRow(d, v), OtherRowsStay(d, v), now' = now,
         regs'[d][v].id = Row(d, v).id, regs'[d][v].asked = Row(d, v).asked,
         regs'[d][v].until \in {Row(d, v).until, Null}
  PROVE  /\ RowsKept
         /\ regs'[d][v].face = Row(d, v).face \/ regs'[d][v].face \in Drivers => LinksKept
         /\ \/ regs'[d][v].sync # "SYNCED" \/ d \in caught' \/ <<d, v>> \in overtaken' \/ OnTerminal(d, v)
            => SyncKept
<1>1. RowsKept
  BY DEF OtherRowsStay, RowsKept, SameRow, HasRow, Row
<1>2. ASSUME regs'[d][v].face = Row(d, v).face \/ regs'[d][v].face \in Drivers
      PROVE  LinksKept
  <2>1. now \in Nat
    BY EnrollmentAssumption DEF Photos, Uploaded, Typed
  <2>2. Armed(d, v)' => Armed(d, v)
    BY <1>2, <2>1, EnrollmentAssumption DEF Armed, HasRow, Row, Null
  <2>3. regs'[d][v].face \in Numbers => Row(d, v).face = regs'[d][v].face
    BY <1>2, EnrollmentAssumption
  <2> QED
    BY <2>2, <2>3 DEF LinksKept, OtherRowsStay, Armed, HasRow, Row
<1>3. ASSUME regs'[d][v].sync # "SYNCED" \/ d \in caught' \/ <<d, v>> \in overtaken' \/ OnTerminal(d, v)
      PROVE  SyncKept
  BY <1>3 DEF SyncKept, OtherRowsStay, HasRow, Row
<1> QED
  BY <1>1, <1>2, <1>3

LEMMA DeleteRegistrationKeeps == ASSUME IInv, NEW r \in Requests, DeleteRegistration(r) PROVE IInv'
<1>1. /\ Typed /\ request[r] # Idle /\ request[r] \in Asked /\ OnCourse(r)
      /\ request[r].op \in {"cancelDevicePairing", "unlinkDevice"} /\ request[r].at = "write" /\ Finish(r)
      /\ UNCHANGED <<now, keyed, hand, drivers, rows, terminal, met, caught, overtaken>>
  BY DEF DeleteRegistration, At, Op, Alone, history, IInv, TypeInv, Typed
<1> PICK d \in Drivers : d = request[r].driver
  BY <1>1 DEF OnCourse
<1> PICK v \in Devices : v = request[r].device
  BY <1>1 DEF Asked
<1>2. request' \in [Requests -> Asked \cup {Idle}] /\ Ends(r) /\ OthersStay(r)
  BY <1>1, Finishes
<1>3. /\ regs' \in [Drivers -> [Devices -> Registrations \cup {NoRow}]]
      /\ RowsKept /\ LinksKept /\ SyncKept
  <2>1. CASE regs' = regs
    <3>1. now' \in Nat /\ now' >= now
      BY <1>1, EnrollmentAssumption DEF Photos, Uploaded, Typed
    <3> QED
      BY <1>1, <2>1, <3>1, RowsUnchanged DEF Typed
  <2>2. CASE regs' = [regs EXCEPT ![d][v] = NoRow]
    <3>1. /\ regs' \in [Drivers -> [Devices -> Registrations \cup {NoRow}]] /\ regs'[d][v] = NoRow
          /\ OtherRowsStay(d, v)
      BY <1>1, <2>2 DEF Typed, OtherRowsStay
    <3> QED
      BY <1>1, <3>1, RemovesRow
  <2> QED
    BY <2>1, <2>2 DEF DeleteRegistration, Driver, Device
<1>4. Typed'
  BY <1>1, <1>2, <1>3 DEF Typed
<1>5. TerminalKept /\ HandKept /\ DriversGrow /\ DeletedStay
  BY <1>1, TerminalUnchanged, DriversUnchanged
<1>6. \A q \in Requests : request'[q] = request[q] \/ (RequestSound(q)' /\ NoLinker(q)')
  BY <1>2, EndsSound DEF OthersStay
<1> QED
  BY <1>1, <1>3, <1>4, <1>5, <1>6, KeptUnlinked

LEMMA WriteAckKeeps == ASSUME IInv, NEW r \in Requests, WriteAck(r) PROVE IInv'
<1>1. /\ Typed /\ request[r] # Idle /\ request[r] \in Asked /\ OnCourse(r) /\ AnswerCurrent(r)
      /\ request[r].op = "ack" /\ request[r].at = "write"
      /\ UNCHANGED <<now, keyed, hand, drivers, rows, terminal, met, caught, overtaken>>
  BY DEF WriteAck, Refuse, At, Op, Alone, history, IInv, TypeInv, Typed, PhotoInv
<1> PICK d \in Drivers : d = request[r].driver
  BY <1>1 DEF OnCourse
<1> PICK v \in Devices : v = request[r].device
  BY <1>1 DEF Asked
<1>2. CASE Refuse(r)
  BY <1>1, <1>2, Finishes, ReadsUnlinked DEF Refuse
<1>3. CASE ~ Refuse(r)
  <2> DEFINE s == [regs[d][v] EXCEPT !.sync = "SYNCED", !.face = d, !.until = Null]
             f == [regs[d][v] EXCEPT !.sync = "FAILED"]
  <2>1. HasRow(d, v) /\ request[r].row = Row(d, v).id /\ regs[d][v] \in Registrations
    <3>1. Same(r, d, v)
      BY <1>3 DEF WriteAck, Driver, Device
    <3> QED
      BY <1>1, <3>1 DEF Same, HasRow, Row, Typed
  <2>2. TerminalKept /\ HandKept /\ DriversGrow /\ DeletedStay
    BY <1>1, TerminalUnchanged, DriversUnchanged
  <2>3. CASE request[r].value = "ok"
    <3>1. regs' = [regs EXCEPT ![d][v] = s] /\ Goto(r, "ifPending")
      <4>1. /\ regs' = [regs EXCEPT ![d][v].sync = "SYNCED", ![d][v].face = d, ![d][v].until = Null]
            /\ Goto(r, "ifPending")
        BY <1>3, <2>3 DEF WriteAck, Driver, Device, Value
      <4> QED
        BY <1>1, <4>1 DEF Typed
    <3>2. s \in Registrations /\ s.id = Row(d, v).id /\ s.asked = Row(d, v).asked /\ s.until = Null /\ s.face = d
      BY <2>1 DEF Registrations, PersonIds, Row
    <3> HIDE DEF s
    <3>3. /\ regs' \in [Drivers -> [Devices -> Registrations \cup {NoRow}]] /\ regs'[d][v] = s
          /\ OtherRowsStay(d, v)
      BY <1>1, <3>1, <3>2, OneRow
    <3>4. d \in caught \/ <<d, v>> \in overtaken \/ OnTerminal(d, v)
      BY <1>1, <2>1, <2>3, <3>2, <3>3 DEF AnswerCurrent, Answers, Sound, OnTerminal
    <3>5. RowsKept /\ LinksKept /\ SyncKept
      BY <1>1, <2>1, <3>2, <3>3, <3>4, ChangesRow
    <3>6. /\ request' \in [Requests -> Asked \cup {Idle}]
          /\ Becomes(r, request[r].op, "ifPending", request[r].driver, request[r].device, request[r].value, request[r].read,
                     request[r].row, request[r].seen, request[r].photo)
          /\ OthersStay(r)
      BY <1>1, <3>1, GoesTo DEF Steps
    <3>7. Typed'
      BY <1>1, <3>3, <3>6 DEF Typed
    <3>8. OnCourse(r)' /\ NotDeleted(r)' /\ CarriedExists(r)' /\ NoLinker(r)'
      BY <1>1, <3>6 DEF OnCourse, Places, Uploads, Early, Exists, Becomes, NotDeleted, Unaware, CarriedExists, Carrying,
         NoLinker, Linker
    <3>9. AnswerCurrent(r)'
      <4>1. Answers(r, d, v)' => Answers(r, d, v)
        BY <1>1, <2>1 DEF Answers
      <4>2. \A e \in Drivers, w \in Devices : Answers(r, e, w)' => e = d /\ w = v
        BY <3>6 DEF Answers, Becomes
      <4>3. Sound(d, v)' => OnTerminal(d, v)
        BY <1>1, <3>4 DEF Sound
      <4> QED
        BY <1>1, <3>6, <4>2, <4>3 DEF AnswerCurrent, Becomes, OnTerminal, Row
    <3>10. \A q \in Requests : request'[q] = request[q] \/ (RequestSound(q)' /\ NoLinker(q)')
      BY <3>6, <3>8, <3>9 DEF OthersStay, RequestSound
    <3> QED
      BY <1>1, <2>2, <3>5, <3>7, <3>10, KeptUnlinked
  <2>4. CASE request[r].value # "ok"
    <3>1. regs' = [regs EXCEPT ![d][v] = f] /\ Finish(r)
      BY <1>3, <2>4 DEF WriteAck, Driver, Device, Value
    <3>2. /\ f \in Registrations /\ f.id = Row(d, v).id /\ f.asked = Row(d, v).asked /\ f.until = Row(d, v).until
          /\ f.face = Row(d, v).face /\ f.sync = "FAILED"
      BY <2>1 DEF Registrations, Row
    <3> HIDE DEF f
    <3>3. /\ regs' \in [Drivers -> [Devices -> Registrations \cup {NoRow}]] /\ regs'[d][v] = f
          /\ OtherRowsStay(d, v)
      BY <1>1, <3>1, <3>2, OneRow
    <3>4. RowsKept /\ LinksKept /\ SyncKept
      BY <1>1, <2>1, <3>2, <3>3, ChangesRow
    <3>5. request' \in [Requests -> Asked \cup {Idle}] /\ Ends(r) /\ OthersStay(r)
      BY <1>1, <3>1, Finishes
    <3>6. Typed'
      BY <1>1, <3>3, <3>5 DEF Typed
    <3>7. \A q \in Requests : request'[q] = request[q] \/ (RequestSound(q)' /\ NoLinker(q)')
      BY <3>5, EndsSound DEF OthersStay
    <3> QED
      BY <1>1, <2>2, <3>4, <3>6, <3>7, KeptUnlinked
  <2> QED
    BY <2>3, <2>4
<1> QED
  BY <1>2, <1>3

LEMMA RemoveFacesKeeps == ASSUME IInv, NEW r \in Requests, RemoveFaces(r) PROVE IInv'
<1>1. /\ Typed /\ request[r] # Idle /\ request[r] \in Asked /\ OnCourse(r) /\ NotDeleted(r) /\ request[r].at = "remove"
      /\ UNCHANGED <<now, keyed, hand, drivers, regs, rows, met, caught>> /\ Goto(r, "write")
  BY DEF RemoveFaces, At, Alone, IInv, TypeInv, Typed, GoneInv
<1>2. request[r].op = "softDelete"
  BY <1>1 DEF OnCourse, Places
<1> PICK d \in Drivers : d = request[r].driver
  BY <1>1, <1>2 DEF OnCourse
<1>3. PICK gone \in SUBSET Direct :
        /\ terminal' = [terminal EXCEPT ![d] = [v \in Devices |-> IF v \in gone THEN 0 ELSE terminal[d][v]]]
        /\ overtaken' = overtaken \cup ({d} \X gone)
  BY DEF RemoveFaces, Driver
<1>4. terminal' \in [Drivers -> [Devices -> Photos]]
  BY <1>1, <1>3, EnrollmentAssumption DEF Photos, Uploaded, Typed
<1>5. TerminalKept
  <2>1. ASSUME NEW e \in Drivers, NEW v \in Devices, <<e, v>> \notin overtaken'
        PROVE  <<e, v>> \notin overtaken /\ terminal'[e][v] = terminal[e][v]
    <3>1. CASE e # d
      BY <1>1, <1>3, <2>1, <3>1 DEF Typed
    <3>2. CASE e = d
      <4>1. v \notin gone
        BY <1>3, <2>1, <3>2
      <4> QED
        BY <1>1, <1>3, <2>1, <3>2, <4>1 DEF Typed
    <3> QED
      BY <3>1, <3>2
  <2> QED
    BY <2>1 DEF TerminalKept
<1>6. HandKept /\ DriversGrow /\ DeletedStay
  BY <1>1, DriversUnchanged DEF HandKept
<1>7. RowsKept /\ LinksKept /\ SyncKept
  <2>1. now' \in Nat /\ now' >= now
    BY <1>1, EnrollmentAssumption DEF Photos, Uploaded, Typed
  <2> QED
    BY <1>1, <2>1, RowsUnchanged
<1>8. /\ request' \in [Requests -> Asked \cup {Idle}]
      /\ Becomes(r, request[r].op, "write", request[r].driver, request[r].device, request[r].value, request[r].read,
                 request[r].row, request[r].seen, request[r].photo)
      /\ OthersStay(r)
  BY <1>1, GoesTo DEF Steps
<1>9. Typed'
  BY <1>1, <1>4, <1>8 DEF Typed
<1>10. OnCourse(r)' /\ NotDeleted(r)' /\ CarriedExists(r)' /\ NoLinker(r)' /\ AnswerCurrent(r)'
  BY <1>1, <1>2, <1>8 DEF OnCourse, Places, Uploads, Early, Exists, Becomes, NotDeleted, CarriedExists, Carrying,
     NoLinker, Linker, Linking, AnswerCurrent, Answers
<1>11. \A q \in Requests : request'[q] = request[q] \/ (RequestSound(q)' /\ NoLinker(q)')
  BY <1>8, <1>10 DEF OthersStay, RequestSound
<1> QED
  BY <1>1, <1>5, <1>6, <1>7, <1>9, <1>11, KeptUnlinked

(* The write of one who has checked: nobody else is about to link this     *)
(* device, so what he found is still so.                                   *)
LEMMA LinkWritten ==
  ASSUME LinkInv, NEW r \in Requests, NEW d \in Drivers, NEW v \in Devices, Linker(r, v), request[r].driver = d,
         OtherRowsStay(d, v), HasRow(d, v)', met' = met, now' = now, OthersStay(r), NoLinker(r)',
         Armed(d, v)' => request[r].op = "startDevicePairing",
         regs'[d][v].face \in Numbers => request[r].op # "startDevicePairing" /\ regs'[d][v].face = request[r].value
  PROVE  LinkInv'
<1>1. ASSUME NEW w \in Devices, NEW q \in Requests, Linker(q, w)'
      PROVE  q # r /\ request'[q] = request[q] /\ Linker(q, w) /\ (w \notin met => w # v)
  <2>1. q # r
    BY <1>1 DEF NoLinker
  <2>2. request'[q] = request[q] /\ Linker(q, w)
    BY <1>1, <2>1 DEF OthersStay, Linker
  <2> QED
    BY <2>1, <2>2 DEF LinkInv, OneLinker
<1>2. ASSUME NEW e \in Drivers, NEW w \in Devices, e # d \/ w # v
      PROVE  regs'[e][w] = regs[e][w] /\ HasRow(e, w)' = HasRow(e, w) /\ Armed(e, w)' = Armed(e, w)
  BY <1>2 DEF OtherRowsStay, HasRow, Row, Armed
<1>3. OnePairing'
  <2>1. SUFFICES ASSUME NEW w \in Devices, w \notin met, NEW e \in Drivers, NEW f \in Drivers,
                        Armed(e, w)', Armed(f, w)', e # f
                 PROVE  FALSE
    BY DEF OnePairing
  <2>2. CASE w = v /\ (e = d \/ f = d)
    BY <1>2, <2>1, <2>2 DEF LinkInv, PairingChecked
  <2>3. CASE ~ (w = v /\ (e = d \/ f = d))
    BY <1>2, <2>1, <2>3 DEF LinkInv, OnePairing
  <2> QED
    BY <2>2, <2>3
<1>4. LinkedOnce'
  <2>1. SUFFICES ASSUME NEW w \in Devices, w \notin met, NEW e \in Drivers, NEW f \in Drivers,
                        HasRow(e, w)', HasRow(f, w)', regs'[e][w].face = regs'[f][w].face, regs'[e][w].face \in Numbers,
                        e # f
                 PROVE  FALSE
    BY DEF LinkedOnce, Row
  <2>2. CASE w = v /\ (e = d \/ f = d)
    BY <1>2, <2>1, <2>2 DEF LinkInv, LinkChecked, Row
  <2>3. CASE ~ (w = v /\ (e = d \/ f = d))
    BY <1>2, <2>1, <2>3 DEF LinkInv, LinkedOnce, Row
  <2> QED
    BY <2>2, <2>3
<1>5. OneLinker'
  BY <1>1 DEF LinkInv, OneLinker
<1>6. PairingChecked'
  BY <1>1, <1>2 DEF LinkInv, PairingChecked
<1>7. LinkChecked'
  <2>1. SUFFICES ASSUME NEW w \in Devices, w \notin met, NEW q \in Requests, NEW e \in Drivers, Linker(q, w)',
                        request[q].op # "startDevicePairing", request[q].value \in Numbers,
                        HasRow(e, w)', regs'[e][w].face = request[q].value
                 PROVE  e = request[q].driver
    BY <1>1 DEF LinkChecked, Row
  <2>2. Linker(q, w) /\ w # v
    BY <1>1, <2>1
  <2>3. HasRow(e, w) /\ Row(e, w).face = request[q].value
    BY <1>2, <2>1, <2>2 DEF Row
  <2> QED
    BY <2>1, <2>2, <2>3 DEF LinkInv, LinkChecked
<1> QED
  BY <1>3, <1>4, <1>5, <1>6, <1>7 DEF LinkInv

(* After a link its driver is made ACTIVE, if he was read as PENDING.      *)
GoesOn(r) == Becomes(r, request[r].op, "activate", request[r].driver, request[r].device, request[r].value,
                     request[r].read, request[r].row, request[r].seen, request[r].photo)

LEMMA AfterLink ==
  ASSUME Typed, NEW r \in Requests, request[r] # Idle,
         IF request[r].read = "PENDING" THEN Goto(r, "activate") ELSE Finish(r)
  PROVE  /\ request' \in [Requests -> Asked \cup {Idle}] /\ OthersStay(r)
         /\ Ends(r) \/ (GoesOn(r) /\ request[r].read = "PENDING")
<1>1. CASE Goto(r, "activate") /\ request[r].read = "PENDING"
  BY <1>1, GoesTo DEF Steps, GoesOn
<1>2. CASE Finish(r)
  BY <1>2, Finishes
<1> QED
  BY <1>1, <1>2

LEMMA WriteClaimKeeps == ASSUME IInv, NEW r \in Requests, WriteClaim(r) PROVE IInv'
<1>1. /\ Typed /\ request[r] # Idle /\ request[r] \in Asked /\ OnCourse(r) /\ AnswerCurrent(r) /\ NotDeleted(r)
      /\ LinkInv /\ request[r].op = "claimPendingPairing" /\ request[r].at = "write"
      /\ UNCHANGED <<now, keyed, hand, drivers, rows, terminal, met, caught, overtaken>>
  BY DEF WriteClaim, Refuse, At, Op, Alone, history, IInv, TypeInv, Typed, PhotoInv, GoneInv
<1> PICK d \in Drivers : d = request[r].driver
  BY <1>1 DEF OnCourse
<1> PICK v \in Devices : v = request[r].device
  BY <1>1 DEF Asked
<1>2. CASE Refuse(r)
  BY <1>1, <1>2, Finishes, ReadsUnlinked DEF Refuse
<1>3. CASE ~ Refuse(r)
  <2> DEFINE s == [regs[d][v] EXCEPT !.sync = "SYNCED", !.face = request[r].value, !.until = Null]
  <2>1. HasRow(d, v) /\ request[r].row = Row(d, v).id /\ regs[d][v] \in Registrations
    <3>1. Same(r, d, v)
      BY <1>3 DEF WriteClaim, Driver, Device
    <3> QED
      BY <1>1, <3>1 DEF Same, HasRow, Row, Typed
  <2>2. TerminalKept /\ HandKept /\ DriversGrow /\ DeletedStay
    BY <1>1, TerminalUnchanged, DriversUnchanged
  <2>3. regs' = [regs EXCEPT ![d][v] = s]
    <3>1. regs' = [regs EXCEPT ![d][v].sync = "SYNCED", ![d][v].face = request[r].value, ![d][v].until = Null]
      BY <1>3 DEF WriteClaim, Driver, Device, Value
    <3> QED
      BY <1>1, <3>1 DEF Typed
  <2>4. request[r].value \in PersonIds
    BY <1>1 DEF OnCourse, Contents, Values
  <2>5. s \in Registrations /\ s.id = Row(d, v).id /\ s.asked = Row(d, v).asked /\ s.until = Null /\ s.face = request[r].value
    BY <2>1, <2>4 DEF Registrations, Row
  <2> HIDE DEF s
  <2>6. /\ regs' \in [Drivers -> [Devices -> Registrations \cup {NoRow}]] /\ regs'[d][v] = s
        /\ OtherRowsStay(d, v)
    <3>1. s \in Registrations \cup {NoRow}
      BY <2>5
    <3>2. regs' = [regs EXCEPT ![d] = [regs[d] EXCEPT ![v] = s]]
      BY <2>3
    <3> QED
      BY <1>1, <3>1, <3>2 DEF Typed, OtherRowsStay
  <2>7. d \in caught \/ <<d, v>> \in overtaken \/ s.asked = 0
    BY <1>1, <2>1, <2>5 DEF AnswerCurrent, Answers, Sound
  <2>8. s.asked = 0 => OnTerminal(d, v)
    BY <1>1, <2>6, EnrollmentAssumption DEF OnTerminal, Current, Photos, Uploaded, Typed
  <2>9. RowsKept /\ SyncKept
    BY <1>1, <2>1, <2>5, <2>6, <2>7, <2>8, ChangesRow
  <2>10. /\ request' \in [Requests -> Asked \cup {Idle}] /\ OthersStay(r)
         /\ Ends(r) \/ (GoesOn(r) /\ request[r].read = "PENDING")
    <3>1. IF request[r].read = "PENDING" THEN Goto(r, "activate") ELSE Finish(r)
      BY <1>3 DEF WriteClaim
    <3> QED
      BY <1>1, <3>1, AfterLink
  <2>12. Typed'
    BY <1>1, <2>6, <2>10 DEF Typed
  <2>14. RequestSound(r)' /\ NoLinker(r)'
    <3>1. CASE Ends(r)
      BY <3>1, EndsSound
    <3>2. CASE GoesOn(r) /\ request[r].read = "PENDING"
      <4>1. OnCourse(r)' /\ NotDeleted(r)' /\ CarriedExists(r)' /\ NoLinker(r)'
        BY <1>1, <3>2 DEF OnCourse, Places, Uploads, Early, Exists, Becomes, GoesOn, NotDeleted, CarriedExists, Carrying,
           NoLinker, Linker
      <4>2. AnswerCurrent(r)'
        <5>1. \A e \in Drivers, w \in Devices : Answers(r, e, w)' => e = d /\ w = v
          BY <3>2 DEF Answers, Becomes, GoesOn
        <5>2. Sound(d, v)' => regs'[d][v].asked = 0
          BY <1>1, <2>5, <2>6, <2>7 DEF Sound
        <5> QED
          BY <1>1, <3>2, <5>1, <5>2 DEF AnswerCurrent, Becomes, GoesOn, Row
      <4> QED
        BY <4>1, <4>2 DEF RequestSound
    <3> QED
      BY <2>10, <3>1, <3>2
  <2>15. TypeInv' /\ GoneInv' /\ PhotoInv'
    BY <1>1, <2>2, <2>9, <2>10, <2>12, <2>14, Kept DEF OthersStay
  <2>16. LinkInv'
    <3>1. Linker(r, v)
      BY <1>1 DEF Linker, Linking
    <3>2. HasRow(d, v)' /\ ~ Armed(d, v)'
      BY <2>4, <2>5, <2>6, EnrollmentAssumption, EmptyAssumption DEF HasRow, Row, Armed, PersonIds
    <3> QED
      BY <1>1, <2>5, <2>6, <2>10, <2>14, <3>1, <3>2, LinkWritten
  <2> QED
    BY <2>15, <2>16 DEF IInv
<1> QED
  BY <1>2, <1>3

-----------------------------------------------------------------------------
(* A row is written anew: it keeps its id, or gets the next one.           *)
Upserted(d, v) ==
    /\ regs' \in [Drivers -> [Devices -> Registrations \cup {NoRow}]]
    /\ HasRow(d, v)' /\ OtherRowsStay(d, v)
    /\ regs'[d][v].id = (IF HasRow(d, v) THEN Row(d, v).id ELSE rows)
    /\ rows' = (IF HasRow(d, v) THEN rows ELSE rows + 1)

LEMMA Upserts ==
  ASSUME Typed, NEW d \in Drivers, NEW v \in Devices, NEW row \in Registrations, Upsert(d, v, row)
  PROVE  /\ Upserted(d, v)
         /\ regs'[d][v].sync = row.sync /\ regs'[d][v].face = row.face
         /\ regs'[d][v].until = row.until /\ regs'[d][v].asked = row.asked
<1> DEFINE i == IF HasRow(d, v) THEN Row(d, v).id ELSE rows
           s == [row EXCEPT !.id = i]
<1>1. i \in Nat
  BY DEF Typed, HasRow, Row, Registrations
<1>2. regs' = [regs EXCEPT ![d][v] = s] /\ rows' = IF HasRow(d, v) THEN rows ELSE rows + 1
  BY DEF Upsert
<1> HIDE DEF i
<1>3. /\ s \in Registrations /\ s.id = i /\ s.sync = row.sync /\ s.face = row.face
      /\ s.until = row.until /\ s.asked = row.asked
  BY <1>1 DEF Registrations
<1> HIDE DEF s
<1>4. regs' = [regs EXCEPT ![d] = [regs[d] EXCEPT ![v] = s]]
  BY <1>2
<1>5. /\ regs' \in [Drivers -> [Devices -> Registrations \cup {NoRow}]] /\ regs'[d][v] = s
      /\ OtherRowsStay(d, v)
  BY <1>3, <1>4 DEF Typed, OtherRowsStay
<1>6. HasRow(d, v)'
  BY <1>3, <1>5, EmptyAssumption DEF HasRow, Row
<1> USE DEF i
<1> QED
  BY <1>2, <1>3, <1>5, <1>6 DEF Upserted

LEMMA UpsertTables ==
  ASSUME TypeInv, Typed', NEW d \in Drivers, NEW v \in Devices, Upserted(d, v), Exists(d),
         drivers' = drivers, hand' = hand
  PROVE  RowsOwned' /\ IdsDiffer' /\ HandKnown' /\ rows' >= rows
<1>1. RowsOwned /\ IdsDiffer /\ HandKnown /\ rows \in Nat \ {0} /\ rows' \in Nat
  BY DEF TypeInv, Typed
<1>2. rows' >= rows /\ rows' \in {rows, rows + 1} /\ (~ HasRow(d, v) => rows' = rows + 1)
  BY <1>1 DEF Upserted
<1>3. ASSUME NEW e \in Drivers, NEW w \in Devices, e # d \/ w # v
      PROVE  regs'[e][w] = regs[e][w] /\ HasRow(e, w)' = HasRow(e, w)
  BY <1>3 DEF Upserted, OtherRowsStay, HasRow, Row
<1>4. ASSUME NEW e \in Drivers, NEW w \in Devices, HasRow(e, w)
      PROVE  Row(e, w).id \in 1 .. rows - 1 /\ Row(e, w).id \in Nat /\ Row(e, w).id # rows
  BY <1>1, <1>4 DEF RowsOwned
<1>5. RowsOwned'
  <2>1. ASSUME NEW e \in Drivers, NEW w \in Devices, HasRow(e, w)'
        PROVE  regs'[e][w].id \in 1 .. rows' - 1 /\ Exists(e)
    <3>1. CASE e = d /\ w = v
      BY <1>1, <1>2, <1>4, <3>1 DEF Upserted
    <3>2. CASE e # d \/ w # v
      BY <1>1, <1>2, <1>3, <1>4, <2>1, <3>2 DEF RowsOwned, Row
    <3> QED
      BY <3>1, <3>2
  <2> QED
    BY <2>1 DEF RowsOwned, Row, Exists
<1>6. IdsDiffer'
  <2>1. SUFFICES ASSUME NEW e \in Drivers, NEW f \in Drivers, NEW w \in Devices, NEW x \in Devices,
                        HasRow(e, w)', HasRow(f, x)', regs'[e][w].id = regs'[f][x].id
                 PROVE  e = f /\ w = x
    BY DEF IdsDiffer, Row
  <2>2. CASE (e = d /\ w = v) /\ (f # d \/ x # v)
    BY <1>1, <1>3, <1>4, <2>1, <2>2 DEF Upserted, IdsDiffer, Row
  <2>3. CASE (f = d /\ x = v) /\ (e # d \/ w # v)
    BY <1>1, <1>3, <1>4, <2>1, <2>3 DEF Upserted, IdsDiffer, Row
  <2>4. CASE (e # d \/ w # v) /\ (f # d \/ x # v)
    BY <1>1, <1>3, <2>1, <2>4 DEF IdsDiffer, Row
  <2> QED
    BY <2>2, <2>3, <2>4
<1>7. HandKnown'
  <2>1. ASSUME NEW w \in Devices, hand[w] # Nothing
        PROVE  hand[w].id < rows' /\ Exists(hand[w].driver)
    <3>1. hand[w].id \in Nat /\ hand[w].id < rows /\ Exists(hand[w].driver)
      BY <1>1, <2>1 DEF HandKnown, TypeInv, Typed, Jobs
    <3> QED
      BY <1>1, <1>2, <3>1
  <2> QED
    BY <2>1 DEF HandKnown, Exists
<1> QED
  BY <1>2, <1>5, <1>6, <1>7

(* A row for which no photo is asked disturbs no answer about photos.      *)
LEMMA UpsertUnasked ==
  ASSUME IInv, NEW r \in Requests, NEW d \in Drivers, NEW v \in Devices, Upserted(d, v), Exists(d),
         regs'[d][v].asked = 0,
         UNCHANGED <<now, drivers, keyed, hand, terminal, met, caught, overtaken>>,
         request' \in [Requests -> Asked \cup {Idle}], OthersStay(r), Ends(r) \/ RequestSound(r)'
  PROVE  TypeInv' /\ GoneInv' /\ PhotoInv'
<1>1. TypeInv /\ GoneInv /\ PhotoInv /\ Typed
  BY DEF IInv, TypeInv
<1>2. rows' \in Nat \ {0}
  BY <1>1 DEF Upserted, Typed
<1>3. Typed'
  BY <1>1, <1>2 DEF Typed, Upserted
<1>4. RowsOwned' /\ IdsDiffer' /\ HandKnown' /\ rows' >= rows
  BY <1>1, <1>3, UpsertTables
<1>5. TerminalKept /\ HandKept /\ DriversGrow /\ DeletedStay
  BY <1>1, TerminalUnchanged, DriversUnchanged
<1>6. DriversStay /\ PhotosGrow
  BY <1>5 DEF DriversGrow, DriversStay, PhotosGrow
<1>7. PhotosKept
  BY DEF PhotosKept, SameRow, Upserted, OtherRowsStay, HasRow, Row
<1>8. SyncKept
  <2>1. OnTerminal(d, v)
    BY <1>1, EnrollmentAssumption DEF OnTerminal, Current, Photos, Uploaded, Typed
  <2> QED
    BY <2>1 DEF SyncKept, Upserted, OtherRowsStay, HasRow, Row
<1>9. \A q \in Requests : request'[q] = request[q] \/ RequestSound(q)'
  BY EndsSound DEF OthersStay
<1>10. \A q \in Requests : OnCourse(q)'
  BY <1>1, <1>3, <1>4, <1>6, <1>9, CourseKept DEF RequestSound
<1>11. TypeInv'
  BY <1>3, <1>4, <1>10 DEF TypeInv
<1>12. GoneInv'
  BY <1>1, <1>5, <1>9, GoneKept DEF RequestSound
<1>13. PhotoInv'
  BY <1>1, <1>5, <1>6, <1>7, <1>8, <1>9, <1>11, PhotoKept DEF RequestSound
<1> QED
  BY <1>11, <1>12, <1>13

LEMMA WriteMappingKeeps == ASSUME IInv, NEW r \in Requests, WriteMapping(r) PROVE IInv'
<1>1. /\ Typed /\ request[r] # Idle /\ request[r] \in Asked /\ OnCourse(r) /\ NotDeleted(r) /\ LinkInv
      /\ request[r].op = "setManualFaceMapping" /\ request[r].at = "write"
      /\ UNCHANGED <<now, keyed, hand, drivers, terminal, met, caught, overtaken>>
  BY DEF WriteMapping, At, Op, Alone, history, IInv, TypeInv, Typed, GoneInv
<1> PICK d \in Drivers : d = request[r].driver
  BY <1>1 DEF OnCourse
<1> PICK v \in Devices : v = request[r].device
  BY <1>1 DEF Asked
<1> PICK x \in Numbers : x = request[r].value
  BY <1>1 DEF OnCourse, Contents, Values
<1>2. Exists(d)
  BY <1>1 DEF OnCourse, Early
<1> DEFINE s == [NewRow EXCEPT !.sync = "SYNCED", !.face = x]
<1>3. s \in Registrations /\ s.face = x /\ s.until = Null /\ s.asked = 0
  <2>1. rows \in Nat /\ 0 \in Photos
    BY <1>1, PhotoNumbers DEF Typed
  <2> QED
    BY <2>1 DEF NewRow, Registrations, PersonIds
<1>4. Upsert(d, v, s)
  BY DEF WriteMapping, Driver, Device, Value
<1> HIDE DEF s
<1>5. Upserted(d, v) /\ regs'[d][v].face = x /\ regs'[d][v].until = Null /\ regs'[d][v].asked = 0
  BY <1>1, <1>3, <1>4, Upserts
<1>6. /\ request' \in [Requests -> Asked \cup {Idle}] /\ OthersStay(r)
      /\ Ends(r) \/ (GoesOn(r) /\ request[r].read = "PENDING")
  <2>1. IF request[r].read = "PENDING" THEN Goto(r, "activate") ELSE Finish(r)
    BY DEF WriteMapping
  <2> QED
    BY <1>1, <2>1, AfterLink
<1>7. RequestSound(r)' /\ NoLinker(r)'
  <2>1. CASE Ends(r)
    BY <2>1, EndsSound
  <2>2. CASE GoesOn(r) /\ request[r].read = "PENDING"
    <3>1. request[r].row < rows'
      <4>1. request[r].row \in Nat /\ request[r].row < rows /\ rows \in Nat
        BY <1>1 DEF Asked, OnCourse, Typed
      <4> QED
        BY <1>5, <4>1 DEF Upserted
    <3>2. OnCourse(r)'
      BY <1>1, <1>2, <2>2, <3>1 DEF OnCourse, Places, Uploads, Early, Exists, Becomes, GoesOn
    <3>3. NotDeleted(r)' /\ CarriedExists(r)' /\ AnswerCurrent(r)' /\ NoLinker(r)'
      BY <1>1, <2>2 DEF Early, Becomes, GoesOn, NotDeleted, CarriedExists, Carrying, AnswerCurrent, Answers, NoLinker, Linker
    <3> QED
      BY <3>2, <3>3 DEF RequestSound
  <2> QED
    BY <1>6, <2>1, <2>2
<1>8. TypeInv' /\ GoneInv' /\ PhotoInv'
  BY <1>1, <1>2, <1>5, <1>6, <1>7, UpsertUnasked
<1>9. LinkInv'
  <2>1. Linker(r, v)
    BY <1>1 DEF Linker, Linking
  <2>2. ~ Armed(d, v)'
    BY <1>5, EnrollmentAssumption DEF Armed, Row
  <2> QED
    BY <1>1, <1>5, <1>6, <1>7, <2>1, <2>2, LinkWritten DEF Upserted
<1> QED
  BY <1>8, <1>9 DEF IInv

LEMMA WritePairingKeeps == ASSUME IInv, NEW r \in Requests, WritePairing(r) PROVE IInv'
<1>1. /\ Typed /\ request[r] # Idle /\ request[r] \in Asked /\ OnCourse(r) /\ LinkInv
      /\ request[r].op = "startDevicePairing" /\ request[r].at = "write" /\ Finish(r)
      /\ UNCHANGED <<now, keyed, hand, drivers, terminal, met, caught, overtaken>>
  BY DEF WritePairing, At, Op, Alone, history, IInv, TypeInv, Typed
<1> PICK d \in Drivers : d = request[r].driver
  BY <1>1 DEF OnCourse
<1> PICK v \in Devices : v = request[r].device
  BY <1>1 DEF Asked
<1>2. Exists(d)
  BY <1>1 DEF OnCourse, Early
<1> DEFINE s == [NewRow EXCEPT !.until = now + Window]
<1>3. s \in Registrations /\ s.face = NoFace /\ s.asked = 0
  BY <1>1, EnrollmentAssumption DEF NewRow, Photos, Uploaded, Registrations, Typed
<1>4. Upsert(d, v, s)
  BY DEF WritePairing, Driver, Device
<1> HIDE DEF s
<1>5. Upserted(d, v) /\ regs'[d][v].face = NoFace /\ regs'[d][v].asked = 0
  BY <1>1, <1>3, <1>4, Upserts
<1>6. request' \in [Requests -> Asked \cup {Idle}] /\ Ends(r) /\ OthersStay(r)
  BY <1>1, Finishes
<1>7. TypeInv' /\ GoneInv' /\ PhotoInv'
  BY <1>1, <1>2, <1>5, <1>6, UpsertUnasked
<1>8. LinkInv'
  <2>1. Linker(r, v)
    BY <1>1 DEF Linker, Linking
  <2>2. regs'[d][v].face \notin Numbers
    BY <1>5, EnrollmentAssumption
  <2> QED
    BY <1>1, <1>5, <1>6, <2>1, <2>2, EndsSound, LinkWritten DEF Upserted
<1> QED
  BY <1>7, <1>8 DEF IInv

-----------------------------------------------------------------------------
(* The push of the server: what it writes is the photo that was asked for, *)
(* or a newer one.                                                         *)
LEMMA PushKeeps == ASSUME IInv, NEW r \in Requests, Push(r) PROVE IInv'
<1>1. /\ Typed /\ request[r] # Idle /\ request[r] \in Asked /\ OnCourse(r) /\ AnswerCurrent(r) /\ CarriedExists(r)
      /\ NotDeleted(r) /\ request[r].at = "push"
      /\ UNCHANGED <<now, keyed, hand, drivers, rows, met, caught>>
  BY DEF Push, At, Alone, IInv, TypeInv, Typed, PhotoInv, GoneInv
<1>2. request[r].op \in Uploads /\ request[r].op \notin {"resetEnrollmentBacklog", "ack", "claimPendingPairing"}
  BY <1>1 DEF OnCourse, Places, Uploads
<1> PICK d \in Drivers : d = request[r].driver
  BY <1>1, <1>2 DEF OnCourse
<1> PICK v \in Devices : v = request[r].device
  BY <1>1 DEF Asked
<1>3. DriversGrow /\ DeletedStay /\ HandKept /\ now' \in Nat /\ now' >= now
  BY <1>1, DriversUnchanged, EnrollmentAssumption DEF HandKept, Typed
<1>4. CASE Same(r, d, v)
  <2> DEFINE s == [regs[d][v] EXCEPT !.sync = "SYNCED", !.face = d]
             f == [regs[d][v] EXCEPT !.sync = "FAILED"]
             n == [request[r] EXCEPT !.at = "enroll", !.synced = TRUE]
             g == [request[r] EXCEPT !.at = "enroll"]
  <2>1. HasRow(d, v) /\ request[r].row = Row(d, v).id /\ regs[d][v] \in Registrations
    BY <1>1, <1>4 DEF Same, HasRow, Row, Typed
  <2>2. PICK row \in Registrations :
          /\ row.id = Row(d, v).id /\ row.asked = Row(d, v).asked /\ row.until = Row(d, v).until
          /\ regs' = [regs EXCEPT ![d] = [regs[d] EXCEPT ![v] = row]]
          /\ \/ /\ row.face = d /\ overtaken' = overtaken
                /\ terminal' = [terminal EXCEPT ![d][v] = request[r].photo]
                /\ request' = [request EXCEPT ![r] = n]
             \/ /\ row.face = Row(d, v).face /\ row.sync # "SYNCED"
                /\ UNCHANGED <<terminal, overtaken>>
                /\ request' = [request EXCEPT ![r] = g]
    <3>1. \/ /\ regs' = [regs EXCEPT ![d][v].sync = "SYNCED", ![d][v].face = d] /\ overtaken' = overtaken
             /\ terminal' = [terminal EXCEPT ![d][v] = request[r].photo] /\ request' = [request EXCEPT ![r] = n]
          \/ /\ regs' = [regs EXCEPT ![d][v].sync = "FAILED"] /\ UNCHANGED <<terminal, overtaken>>
             /\ request' = [request EXCEPT ![r] = g]
      BY <1>4 DEF Push, Driver, Device, Goto
    <3> HIDE DEF n, g
    <3>2. CASE regs' = [regs EXCEPT ![d][v].sync = "SYNCED", ![d][v].face = d] /\ overtaken' = overtaken
               /\ terminal' = [terminal EXCEPT ![d][v] = request[r].photo] /\ request' = [request EXCEPT ![r] = n]
      <4>1. regs' = [regs EXCEPT ![d] = [regs[d] EXCEPT ![v] = s]]
        BY <1>1, <3>2 DEF Typed
      <4>2. s \in Registrations /\ s.id = Row(d, v).id /\ s.asked = Row(d, v).asked /\ s.until = Row(d, v).until
            /\ s.face = d
        BY <2>1 DEF Registrations, PersonIds, Row
      <4> HIDE DEF s
      <4>3. s \in Registrations
        BY <4>2
      <4> USE <4>3
      <4> WITNESS s \in Registrations
      <4> QED
        BY <3>2, <4>1, <4>2
    <3>3. CASE regs' = [regs EXCEPT ![d][v].sync = "FAILED"] /\ UNCHANGED <<terminal, overtaken>>
               /\ request' = [request EXCEPT ![r] = g]
      <4>1. regs' = [regs EXCEPT ![d] = [regs[d] EXCEPT ![v] = f]]
        BY <1>1, <3>3 DEF Typed
      <4>2. f \in Registrations /\ f.id = Row(d, v).id /\ f.asked = Row(d, v).asked /\ f.until = Row(d, v).until
            /\ f.face = Row(d, v).face /\ f.sync = "FAILED"
        BY <2>1 DEF Registrations, Row
      <4> HIDE DEF f
      <4>3. f \in Registrations
        BY <4>2
      <4> USE <4>3
      <4> WITNESS f \in Registrations
      <4> QED
        BY <3>3, <4>1, <4>2
    <3> QED
      BY <3>1, <3>2, <3>3
  <2>3. /\ regs' \in [Drivers -> [Devices -> Registrations \cup {NoRow}]] /\ regs'[d][v] = row
        /\ OtherRowsStay(d, v)
    BY <1>1, <2>2 DEF Typed, OtherRowsStay
  <2>4. /\ n \in Asked /\ n.op = request[r].op /\ n.at = "enroll" /\ n.driver = d /\ n.value = request[r].value
        /\ n.read = request[r].read /\ n.row = request[r].row /\ n.seen = request[r].seen /\ n.photo = request[r].photo
        /\ g \in Asked /\ g.op = request[r].op /\ g.at = "enroll" /\ g.driver = d /\ g.value = request[r].value
        /\ g.read = request[r].read /\ g.row = request[r].row /\ g.seen = request[r].seen /\ g.photo = request[r].photo
    BY <1>1 DEF Asked, Steps
  <2> HIDE DEF n, g
  <2>5. PICK m \in Asked : /\ m.op = request[r].op /\ m.at = "enroll" /\ m.driver = d /\ m.value = request[r].value
                           /\ m.read = request[r].read /\ m.row = request[r].row /\ m.seen = request[r].seen
                           /\ m.photo = request[r].photo /\ request' = [request EXCEPT ![r] = m]
    BY <2>2, <2>4
  <2>6. request' \in [Requests -> Asked \cup {Idle}] /\ request'[r] = m /\ OthersStay(r)
    BY <1>1, <2>5, Replaced
  <2>7. /\ terminal' \in [Drivers -> [Devices -> Photos]]
        /\ \A e \in Drivers, w \in Devices : e # d \/ w # v => terminal'[e][w] = terminal[e][w]
        /\ (terminal'[d][v] = terminal[d][v] /\ row.sync # "SYNCED") \/ terminal'[d][v] = request[r].photo
    <3>1. CASE terminal' = terminal
      BY <1>1, <2>2, <3>1 DEF Typed
    <3>2. CASE terminal' = [terminal EXCEPT ![d][v] = request[r].photo]
      <4>1. terminal' = [terminal EXCEPT ![d] = [terminal[d] EXCEPT ![v] = request[r].photo]]
        BY <3>2
      <4>2. request[r].photo \in Photos
        BY <1>1 DEF Asked
      <4> QED
        BY <1>1, <4>1, <4>2 DEF Typed
    <3> QED
      BY <2>2, <3>1, <3>2
  <2>8. \/ d \in caught \/ <<d, v>> \in overtaken \/ OnTerminal(d, v)
        \/ terminal'[d][v] = terminal[d][v] /\ row.sync # "SYNCED"
    <3>1. ASSUME d \notin caught, <<d, v>> \notin overtaken, terminal'[d][v] = request[r].photo
          PROVE  OnTerminal(d, v)
      <4>1. Current(request[r].photo, Row(d, v).asked)
        BY <1>1, <2>1, <3>1 DEF AnswerCurrent, Answers, Sound
      <4> QED
        BY <2>2, <2>3, <3>1, <4>1 DEF OnTerminal
    <3> QED
      BY <2>7, <3>1
  <2>9. TerminalKept
    BY <1>1, <2>2, <2>7, <2>8 DEF TerminalKept
  <2>10. RowsKept /\ LinksKept /\ SyncKept
    <3>1. row.face = Row(d, v).face \/ row.face \in Drivers
      BY <2>2
    <3> QED
      BY <1>1, <2>1, <2>2, <2>3, <2>8, <3>1, ChangesRow
  <2>11. Typed'
    BY <1>1, <2>3, <2>6, <2>7 DEF Typed
  <2>12. OnCourse(r)' /\ NotDeleted(r)' /\ CarriedExists(r)' /\ NoLinker(r)' /\ AnswerCurrent(r)'
    BY <1>1, <1>2, <2>5, <2>6 DEF OnCourse, Places, Uploads, Early, Exists, NotDeleted, CarriedExists, Carrying,
       NoLinker, Linker, AnswerCurrent, Answers
  <2>13. \A q \in Requests : request'[q] = request[q] \/ (RequestSound(q)' /\ NoLinker(q)')
    BY <2>6, <2>12 DEF OthersStay, RequestSound
  <2> QED
    BY <1>1, <1>3, <2>9, <2>10, <2>11, <2>13, KeptUnlinked
<1>5. CASE ~ Same(r, d, v)
  <2>1. /\ Finish(r) /\ regs' = regs
        /\ \/ /\ terminal' = [terminal EXCEPT ![d][v] = request[r].photo] /\ overtaken' = overtaken \cup {<<d, v>>}
           \/ UNCHANGED <<terminal, overtaken>>
    BY <1>5 DEF Push, Driver, Device
  <2>2. request' \in [Requests -> Asked \cup {Idle}] /\ Ends(r) /\ OthersStay(r)
    BY <1>1, <2>1, Finishes
  <2>3. RowsKept /\ LinksKept /\ SyncKept
    BY <1>1, <1>3, <2>1, RowsUnchanged
  <2>4. terminal' \in [Drivers -> [Devices -> Photos]] /\ TerminalKept
    <3>1. CASE UNCHANGED <<terminal, overtaken>>
      BY <1>1, <3>1 DEF Typed, TerminalKept
    <3>2. CASE /\ terminal' = [terminal EXCEPT ![d][v] = request[r].photo] /\ overtaken' = overtaken \cup {<<d, v>>}
      <4>1. terminal' = [terminal EXCEPT ![d] = [terminal[d] EXCEPT ![v] = request[r].photo]]
        BY <3>2
      <4>2. request[r].photo \in Photos
        BY <1>1 DEF Asked
      <4>3. /\ terminal' \in [Drivers -> [Devices -> Photos]]
            /\ \A e \in Drivers, w \in Devices : e # d \/ w # v => terminal'[e][w] = terminal[e][w]
        BY <1>1, <4>1, <4>2 DEF Typed
      <4> QED
        BY <3>2, <4>3 DEF TerminalKept
    <3> QED
      BY <2>1, <3>1, <3>2
  <2>5. Typed'
    BY <1>1, <2>1, <2>2, <2>4 DEF Typed
  <2>6. \A q \in Requests : request'[q] = request[q] \/ (RequestSound(q)' /\ NoLinker(q)')
    BY <2>2, EndsSound DEF OthersStay
  <2> QED
    BY <1>1, <1>3, <2>3, <2>4, <2>5, <2>6, KeptUnlinked
<1> QED
  BY <1>4, <1>5

-----------------------------------------------------------------------------
(* A face is queued: the row has a new life, and who may still answer for  *)
(* the old one is noted.                                                   *)
LEMMA EnrollKeeps == ASSUME IInv, NEW r \in Requests, Enroll(r) PROVE IInv'
<1>1. /\ TypeInv /\ Typed /\ request[r] # Idle /\ request[r] \in Asked /\ OnCourse(r) /\ CarriedExists(r)
      /\ NotDeleted(r) /\ GoneInv /\ LinkInv /\ PhotoInv /\ request[r].at = "enroll"
      /\ UNCHANGED <<now, keyed, hand, drivers, terminal, met, caught>>
  BY DEF Enroll, At, Alone, IInv, TypeInv, Typed, PhotoInv, GoneInv
<1>2. request[r].op \in Uploads
  BY <1>1 DEF OnCourse, Places
<1> PICK d \in Drivers : d = request[r].driver
  BY <1>1, <1>2 DEF OnCourse, Uploads
<1> PICK p \in Photos : p = request[r].photo
  BY <1>1 DEF Asked
<1>3. Exists(d)
  BY <1>1, <1>2 DEF OnCourse, Early, Uploads
<1>4. PICK v \in Devices :
        /\ Upsert(d, v, Clean(d, v, p))
        /\ overtaken' = IF HeldByOthers(d, v) THEN overtaken \cup {<<d, v>>} ELSE overtaken \ {<<d, v>>}
        /\ request' = [request EXCEPT ![r].todo = request[r].todo \ {v},
                         ![r].at = IF v \in request[r].seen THEN "enroll" ELSE "push",
                         ![r].device = v, ![r].row = IF HasRow(d, v) THEN Row(d, v).id ELSE rows]
  <2>1. request[r].todo \subseteq Devices
    BY <1>1 DEF Asked
  <2> QED
    BY <2>1 DEF Enroll, Driver
<1> DEFINE s == Clean(d, v, p)
           i == IF HasRow(d, v) THEN Row(d, v).id ELSE rows
           a == IF v \in request[r].seen THEN "enroll" ELSE "push"
           n == [request[r] EXCEPT !.todo = request[r].todo \ {v}, !.at = a, !.device = v, !.row = i]
<1>5. s \in Registrations /\ s.sync = "PENDING" /\ s.face = NoFace /\ s.until = Null /\ s.asked = p
  <2>1. rows \in Nat
    BY <1>1 DEF Typed
  <2> QED
    BY <2>1 DEF Clean, NewRow, Registrations
<1>6. Upsert(d, v, s)
  BY <1>4
<1> HIDE DEF s
<1>7. /\ Upserted(d, v) /\ regs'[d][v].sync = "PENDING" /\ regs'[d][v].face = NoFace
      /\ regs'[d][v].until = Null /\ regs'[d][v].asked = p
  BY <1>1, <1>5, <1>6, Upserts
<1>8. request' = [request EXCEPT ![r] = n]
  BY <1>4
<1>9. i \in Nat /\ a \in {"enroll", "push"} /\ a \in Steps
  BY <1>1 DEF Typed, HasRow, Row, Registrations, Steps
<1>10. i = regs'[d][v].id
  BY <1>7 DEF Upserted
<1> HIDE DEF a, i
<1>11. /\ n \in Asked /\ n.op = request[r].op /\ n.at = a /\ n.driver = d /\ n.device = v
       /\ n.value = request[r].value /\ n.read = request[r].read /\ n.row = i /\ n.seen = request[r].seen
       /\ n.photo = p
  BY <1>1, <1>9 DEF Asked
<1> HIDE DEF n
<1>12. request' \in [Requests -> Asked \cup {Idle}] /\ request'[r] = n /\ OthersStay(r)
  BY <1>1, <1>8, <1>11, Replaced
<1>13. rows' \in Nat \ {0}
  BY <1>1, <1>7 DEF Upserted, Typed
<1>14. Typed'
  BY <1>1, <1>7, <1>12, <1>13 DEF Typed, Upserted
<1>15. RowsOwned' /\ IdsDiffer' /\ HandKnown' /\ rows' >= rows
  BY <1>1, <1>3, <1>7, <1>14, UpsertTables
<1>16. DriversStay /\ DriversGrow /\ DeletedStay
  BY <1>1, DriversUnchanged DEF DriversStay, DriversGrow
<1>17. OnCourse(r)'
  <2>1. n.row < rows'
    <3>1. regs'[d][v].id \in 1 .. rows' - 1
      BY <1>7, <1>15 DEF RowsOwned, Row, Upserted
    <3> QED
      BY <1>10, <1>11, <1>13, <3>1
  <2>2. Places(n.op, n.at, n.read)
    BY <1>2, <1>9, <1>11 DEF Places
  <2> QED
    BY <1>1, <1>2, <1>3, <1>11, <1>12, <2>1, <2>2 DEF OnCourse, Exists, Uploads
<1>18. \A q \in Requests : OnCourse(q)'
  BY <1>1, <1>12, <1>14, <1>15, <1>16, <1>17, CourseKept DEF OthersStay
<1>19. TypeInv'
  BY <1>14, <1>15, <1>18 DEF TypeInv
<1>20. LinkInv'
  <2>1. LinksKept
    <3>1. ~ Armed(d, v)'
      <4>1. Null \notin Nat /\ now \in Nat
        BY <1>1, EnrollmentAssumption DEF Null, Typed
      <4> QED
        BY <1>1, <1>7, <4>1, EnrollmentAssumption DEF Armed, Row, Null
    <3>2. regs'[d][v].face \notin Numbers
      BY <1>7, EnrollmentAssumption
    <3> QED
      BY <1>1, <1>7, <3>1, <3>2 DEF LinksKept, Upserted, OtherRowsStay, Armed, HasRow, Row
  <2>2. NoLinker(r)'
    BY <1>9, <1>11, <1>12 DEF NoLinker, Linker
  <2> QED
    BY <1>1, <1>12, <2>1, <2>2, LinkKept DEF NoLinker, OthersStay
<1>21. GoneInv'
  <2>1. NotDeleted(r)'
    BY <1>1, <1>2, <1>11, <1>12 DEF NotDeleted, Early, Uploads, Strict, Unaware
  <2> QED
    BY <1>1, <1>12, <1>16, <2>1, GoneKept DEF OthersStay
<1>22. ASSUME NEW e \in Drivers, NEW w \in Devices, e # d \/ w # v
       PROVE  /\ regs'[e][w] = regs[e][w] /\ HasRow(e, w)' = HasRow(e, w)
              /\ <<e, w>> \in overtaken' <=> <<e, w>> \in overtaken
  BY <1>4, <1>7, <1>22 DEF Upserted, OtherRowsStay, HasRow, Row
<1>23. <<d, v>> \notin overtaken' => ~ HeldByOthers(d, v)
  BY <1>4
<1>24. AskedExists'
  <2>1. d \notin caught /\ p # Uploaded => p <= drivers[d].photo
    BY <1>1 DEF CarriedExists, Carrying
  <2>2. SUFFICES ASSUME NEW e \in Drivers \ caught, NEW w \in Devices, HasRow(e, w)', regs'[e][w].asked # Uploaded
                 PROVE  regs'[e][w].asked <= drivers[e].photo
    BY <1>1 DEF AskedExists, Row
  <2>3. CASE e = d /\ w = v
    BY <1>7, <2>1, <2>2, <2>3
  <2>4. CASE e # d \/ w # v
    BY <1>1, <1>22, <2>2, <2>4 DEF PhotoInv, AskedExists, Row
  <2> QED
    BY <2>3, <2>4
<1>25. SyncedIsCurrent'
  <2>1. SUFFICES ASSUME NEW e \in Drivers \ caught, NEW w \in Devices, HasRow(e, w)', regs'[e][w].sync = "SYNCED",
                        <<e, w>> \notin overtaken'
                 PROVE  Current(terminal[e][w], regs'[e][w].asked)
    BY <1>1 DEF SyncedIsCurrent, Row
  <2>2. e # d \/ w # v
    BY <1>7, <2>1
  <2> QED
    BY <1>1, <1>22, <2>1, <2>2 DEF PhotoInv, SyncedIsCurrent, Row
<1>26. HandCurrent'
  <2>1. SUFFICES ASSUME NEW e \in Drivers \ caught, NEW w \in Devices, HasRow(e, w)', <<e, w>> \notin overtaken',
                        hand[w] # Nothing, hand[w].driver = e, hand[w].id = regs'[e][w].id, hand[w].outcome = "ok"
                 PROVE  Current(terminal[e][w], regs'[e][w].asked)
    BY <1>1 DEF HandCurrent, Sound, Row
  <2>2. CASE e = d /\ w = v
    <3>1. hand[v].id < rows /\ hand[v].id \in Nat /\ rows \in Nat
      BY <1>1, <2>1, <2>2 DEF TypeInv, HandKnown, Typed, Jobs
    <3>2. HasRow(d, v) /\ hand[v].id = Row(d, v).id
      BY <1>7, <2>1, <2>2, <3>1 DEF Upserted
    <3> QED
      BY <1>23, <2>1, <2>2, <3>2 DEF HeldByOthers
  <2>3. CASE e # d \/ w # v
    BY <1>1, <1>22, <2>1, <2>3 DEF PhotoInv, HandCurrent, Sound, Row
  <2> QED
    BY <2>2, <2>3
<1>27. WindowCurrent'
  <2>1. SUFFICES ASSUME NEW e \in Drivers, NEW w \in Devices, HasRow(e, w)', regs'[e][w].until # Null
                 PROVE  regs'[e][w].asked = 0
    BY DEF WindowCurrent, Row
  <2>2. e # d \/ w # v
    BY <1>7, <2>1
  <2>3. regs'[e][w] = regs[e][w] /\ HasRow(e, w)
    BY <1>22, <2>1, <2>2
  <2>4. WindowCurrent
    BY <1>1 DEF PhotoInv
  <2> QED
    BY <2>1, <2>3, <2>4 DEF WindowCurrent, Row
<1>28. ASSUME NEW q \in Requests
       PROVE  CarriedExists(q)'
  <2>1. CASE q = r
    BY <1>1, <1>11, <1>12, <2>1 DEF CarriedExists, Carrying
  <2>2. CASE q # r
    BY <1>1, <1>12, <2>2 DEF PhotoInv, CarriedExists, Carrying, OthersStay
  <2> QED
    BY <2>1, <2>2
<1>29. AnswerCurrent(r)'
  <2>1. \A e \in Drivers, w \in Devices : Answers(r, e, w)' => e = d /\ w = v
    BY <1>11, <1>12 DEF Answers
  <2>2. n.op \notin {"ack", "claimPendingPairing"} /\ Current(p, p)
    BY <1>2, <1>11 DEF Uploads, Current
  <2> QED
    BY <1>7, <1>11, <1>12, <2>1, <2>2 DEF AnswerCurrent, Row
<1>30. ASSUME NEW q \in Requests, q # r
       PROVE  AnswerCurrent(q)'
  <2>1. request'[q] = request[q]
    BY <1>12, <1>30 DEF OthersStay
  <2>2. SUFFICES ASSUME NEW e \in Drivers \ caught, NEW w \in Devices, HasRow(e, w)', <<e, w>> \notin overtaken',
                        request[q] # Idle, request[q].driver = e, request[q].device = w,
                        request[q].row = regs'[e][w].id
                 PROVE  /\ request[q].op = "ack" /\ request[q].value = "ok" => Current(terminal[e][w], regs'[e][w].asked)
                        /\ request[q].op = "claimPendingPairing" => regs'[e][w].asked = 0
                        /\ request[q].at = "push" => Current(request[q].photo, regs'[e][w].asked)
    BY <1>1, <2>1 DEF AnswerCurrent, Answers, Sound, Row
  <2>3. CASE e = d /\ w = v
    <3>1. request[q].row < rows /\ request[q].row \in Nat /\ rows \in Nat
      BY <1>1, <2>2 DEF TypeInv, OnCourse, Typed, Asked
    <3>2. HasRow(d, v) /\ request[q].row = Row(d, v).id
      BY <1>7, <2>2, <2>3, <3>1 DEF Upserted
    <3> QED
      BY <1>23, <2>2, <2>3, <3>2 DEF HeldByOthers, At, Op, Device
  <2>4. CASE e # d \/ w # v
    BY <1>1, <1>22, <2>2, <2>4 DEF PhotoInv, AnswerCurrent, Answers, Sound, Row
  <2> QED
    BY <2>3, <2>4
<1>31. PhotoInv'
  BY <1>24, <1>25, <1>26, <1>27, <1>28, <1>29, <1>30 DEF PhotoInv
<1> QED
  BY <1>19, <1>20, <1>21, <1>31 DEF IInv

-----------------------------------------------------------------------------
(* Drivers are deleted, with their registrations: who is in the middle of  *)
(* a request about one of them is noted.                                   *)
LEMMA DeletesDrivers ==
  ASSUME IInv, NEW r \in Requests, Finish(r), NEW gone \in SUBSET Drivers, \A d \in gone : Exists(d),
         drivers' = [d \in Drivers |-> IF d \in gone THEN Gone(drivers[d]) ELSE drivers[d]],
         caught \subseteq caught',
         \A d \in gone, q \in Requests : q # r /\ request[q] # Idle /\ request[q].driver = d => d \in caught',
         regs' \in [Drivers -> [Devices -> Registrations \cup {NoRow}]],
         \A d \in Drivers, v \in Devices : regs'[d][v] \in {NoRow, regs[d][v]} /\ (d \in gone => regs'[d][v] = NoRow),
         UNCHANGED <<now, keyed, hand, rows, terminal, met, overtaken>>
  PROVE  IInv'
<1>1. TypeInv /\ GoneInv /\ PhotoInv /\ LinkInv /\ Typed
  BY DEF IInv, TypeInv
<1>2. request' \in [Requests -> Asked \cup {Idle}] /\ Ends(r) /\ OthersStay(r)
  BY <1>1, Finishes
<1>3. ASSUME NEW d \in gone
      PROVE  /\ drivers'[d] \in DriverRows /\ drivers'[d].deleted /\ drivers'[d].status = "BLOCKED"
             /\ drivers'[d].phone = Freed /\ drivers'[d].photo = 0
  <2>1. drivers[d] \in DriverRows /\ drivers'[d] = Gone(drivers[d])
    BY <1>1 DEF Typed, Exists
  <2> PICK x \in DriverRows : x = drivers[d]
    BY <2>1
  <2>2. 0 \in 0 .. MaxPhoto
    BY EnrollmentAssumption
  <2>3. /\ Gone(x) \in DriverRows /\ Gone(x).deleted = TRUE /\ Gone(x).status = "BLOCKED"
        /\ Gone(x).phone = Freed /\ Gone(x).photo = 0
    BY <2>2 DEF Gone, DriverRows, Statuses
  <2> QED
    BY <2>1, <2>3
<1>4. ASSUME NEW d \in Drivers, d \notin gone
      PROVE  drivers'[d] = drivers[d]
  BY <1>4
<1>5. drivers' \in [Drivers -> DriverRows \cup {Nothing}]
  BY <1>1, <1>3, <1>4 DEF Typed
<1>6. Typed'
  BY <1>1, <1>2, <1>5 DEF Typed
<1>7. RowsKept /\ LinksKept /\ SyncKept
  BY DEF RowsKept, SameRow, LinksKept, SyncKept, Armed, HasRow, Row
<1>8. TerminalKept /\ HandKept
  BY TerminalUnchanged
<1>9. DriversStay
  BY <1>3, <1>4, EmptyAssumption DEF DriversStay, Exists
<1>10. PhotosGrow
  <2>1. SUFFICES ASSUME NEW d \in Drivers \ caught', Exists(d),
                        \/ \E v \in Devices : HasRow(d, v)'
                        \/ \E q \in Requests : request'[q] # Idle /\ request'[q].driver = d
                 PROVE  Exists(d)' /\ drivers'[d].photo >= drivers[d].photo
    BY DEF PhotosGrow
  <2>2. d \notin gone
    <3>1. CASE \E v \in Devices : HasRow(d, v)'
      BY <3>1 DEF HasRow, Row
    <3>2. CASE \E q \in Requests : request'[q] # Idle /\ request'[q].driver = d
      BY <1>2, <2>1, <3>2 DEF Ends, OthersStay
    <3> QED
      BY <2>1, <3>1, <3>2
  <2>3. drivers[d].photo \in Nat
    BY <1>1, <2>1, EnrollmentAssumption DEF Photos, Uploaded, Typed, Exists, DriverRows
  <2> QED
    BY <1>4, <2>1, <2>2, <2>3 DEF Exists
<1>11. \A q \in Requests : request'[q] = request[q] \/ (RequestSound(q)' /\ NoLinker(q)')
  BY <1>2, EndsSound DEF OthersStay
<1>12. TypeInv'
  <2>1. RowsOwned' /\ IdsDiffer' /\ HandKnown'
    BY <1>1, <1>6, <1>7, <1>8, <1>9, TablesKept
  <2>2. rows' >= rows
    BY <1>1 DEF Typed
  <2>3. \A q \in Requests : OnCourse(q)'
    BY <1>1, <1>6, <1>9, <1>11, <2>2, CourseKept DEF RequestSound
  <2> QED
    BY <1>6, <2>1, <2>3 DEF TypeInv
<1>13. LinkInv'
  BY <1>1, <1>7, <1>11, LinkKept DEF NoLinker
<1>14. GoneInv'
  <2>1. GoneIsGone'
    <3>1. SUFFICES ASSUME NEW d \in Drivers \ caught', Exists(d)', drivers'[d].deleted
                   PROVE  drivers'[d].status = "BLOCKED" /\ drivers'[d].photo = 0 /\ drivers'[d].phone = Freed
      BY DEF GoneIsGone
    <3>2. CASE d \in gone
      BY <1>3, <3>2
    <3>3. CASE d \notin gone
      BY <1>1, <1>4, <3>1, <3>3 DEF GoneInv, GoneIsGone, Exists
    <3> QED
      BY <3>2, <3>3
  <2>2. ASSUME NEW q \in Requests
        PROVE  NotDeleted(q)'
    <3>1. CASE q = r
      BY <1>2, <3>1, EndsSound DEF RequestSound
    <3>2. CASE q # r
      <4>1. request'[q] = request[q]
        BY <1>2, <3>2 DEF OthersStay
      <4>2. SUFFICES ASSUME NEW d \in Drivers \ caught', request[q] # Idle, request[q].at \notin Early,
                            request[q].op \notin Unaware, request[q].op \in Strict \/ request[q].read = "PENDING",
                            request[q].driver = d
                     PROVE  ~ drivers'[d].deleted
        BY <4>1 DEF NotDeleted
      <4>3. d \notin gone /\ d \notin caught
        BY <3>2, <4>2
      <4> QED
        BY <1>1, <1>4, <4>2, <4>3 DEF GoneInv, NotDeleted
    <3> QED
      BY <3>1, <3>2
  <2> QED
    BY <2>1, <2>2 DEF GoneInv
<1>15. PhotoInv'
  <2>1. PhotosKept
    BY <1>7 DEF RowsKept, PhotosKept
  <2> QED
    BY <1>1, <1>7, <1>8, <1>10, <1>11, <1>12, <2>1, PhotoKept DEF RequestSound
<1> QED
  BY <1>12, <1>13, <1>14, <1>15 DEF IInv

LEMMA SoftDeleteKeeps == ASSUME IInv, NEW r \in Requests, SoftDelete(r) PROVE IInv'
<1>1. /\ Typed /\ request[r] # Idle /\ request[r].at = "write" /\ request[r].op = "softDelete" /\ OnCourse(r)
      /\ Finish(r) /\ UNCHANGED <<now, keyed, hand, rows, terminal, met, overtaken>>
  BY DEF SoftDelete, At, Op, Alone, IInv, TypeInv
<1> PICK d \in Drivers : d = request[r].driver
  BY <1>1 DEF OnCourse
<1> PICK gone \in SUBSET Drivers : gone = {d}
  OBVIOUS
<1>2. \A e \in gone : Exists(e)
  BY <1>1 DEF OnCourse, Early
<1>3. drivers' = [e \in Drivers |-> IF e \in gone THEN Gone(drivers[e]) ELSE drivers[e]]
  BY DEF SoftDelete, Delete, Driver
<1>4. /\ caught \subseteq caught'
      /\ \A e \in gone, q \in Requests : q # r /\ request[q] # Idle /\ request[q].driver = e => e \in caught'
  BY DEF SoftDelete, Delete, Driver
<1>5. /\ regs' \in [Drivers -> [Devices -> Registrations \cup {NoRow}]]
      /\ \A e \in Drivers, v \in Devices : regs'[e][v] \in {NoRow, regs[e][v]} /\ (e \in gone => regs'[e][v] = NoRow)
  <2>1. regs' = [regs EXCEPT ![d] = [v \in Devices |-> NoRow]]
    BY DEF SoftDelete, Driver
  <2> QED
    BY <1>1, <2>1 DEF Typed
<1> QED
  BY <1>1, <1>2, <1>3, <1>4, <1>5, DeletesDrivers

LEMMA ResetBacklogKeeps == ASSUME IInv, NEW r \in Requests, ResetBacklog(r) PROVE IInv'
<1>1. /\ Typed /\ request[r] # Idle /\ request[r].op = "resetEnrollmentBacklog" /\ OnCourse(r)
      /\ Finish(r) /\ UNCHANGED <<now, keyed, hand, rows, terminal, met, overtaken>>
  BY DEF ResetBacklog, At, Op, Alone, IInv, TypeInv
<1> PICK gone \in SUBSET Drivers : gone = {d \in Drivers : d \in request[r].seen}
  OBVIOUS
<1>2. \A d \in gone : Exists(d)
  BY <1>1 DEF OnCourse
<1>3. drivers' = [d \in Drivers |-> IF d \in gone THEN Gone(drivers[d]) ELSE drivers[d]]
  BY DEF ResetBacklog, Delete
<1>4. /\ caught \subseteq caught'
      /\ \A d \in gone, q \in Requests : q # r /\ request[q] # Idle /\ request[q].driver = d => d \in caught'
  BY DEF ResetBacklog, Delete, Driver
<1>5. /\ regs' \in [Drivers -> [Devices -> Registrations \cup {NoRow}]]
      /\ \A d \in Drivers, v \in Devices : regs'[d][v] \in {NoRow, regs[d][v]} /\ (d \in gone => regs'[d][v] = NoRow)
  BY <1>1 DEF ResetBacklog, Typed
<1> QED
  BY <1>1, <1>2, <1>3, <1>4, <1>5, DeletesDrivers

-----------------------------------------------------------------------------
(* Before the first request there is no row, no job and nobody deleted.    *)
THEOREM InitInv == Init => IInv
<1> SUFFICES ASSUME Init PROVE IInv
  OBVIOUS
<1> PICK known \in SUBSET Drivers : \E phone \in [known -> Phones] :
        drivers = [d \in Drivers |-> IF d \in known THEN Fresh(phone[d], 1) ELSE Nothing]
  BY DEF Init
<1>1. PICK phone \in [known -> Phones] :
        drivers = [d \in Drivers |-> IF d \in known THEN Fresh(phone[d], 1) ELSE Nothing]
  OBVIOUS
<1>2. ASSUME NEW d \in known
      PROVE  Fresh(phone[d], 1) \in DriverRows /\ ~ Fresh(phone[d], 1).deleted
  BY EnrollmentAssumption DEF Fresh, DriverRows, Statuses
<1>3. \A d \in Drivers : Exists(d) => ~ drivers[d].deleted
  BY <1>1, <1>2 DEF Exists
<1>4. /\ \A d \in Drivers, v \in Devices : ~ HasRow(d, v)
      /\ \A v \in Devices : hand[v] = Nothing
      /\ \A q \in Requests : request[q] = Idle
  BY DEF Init, HasRow, Row
<1>5. Typed
  <2>1. drivers \in [Drivers -> DriverRows \cup {Nothing}]
    BY <1>1, <1>2
  <2> QED
    BY <2>1, EnrollmentAssumption DEF Init, Typed, Photos, Uploaded
<1>6. TypeInv
  BY <1>4, <1>5 DEF TypeInv, RowsOwned, IdsDiffer, HandKnown, OnCourse
<1>7. LinkInv
  BY <1>4 DEF LinkInv, OnePairing, LinkedOnce, OneLinker, PairingChecked, LinkChecked, Linker, Armed
<1>8. GoneInv
  BY <1>3, <1>4 DEF GoneInv, GoneIsGone, NotDeleted
<1>9. PhotoInv
  BY <1>4 DEF PhotoInv, AskedExists, SyncedIsCurrent, HandCurrent, WindowCurrent, CarriedExists, Carrying, AnswerCurrent, Sound
<1> QED
  BY <1>6, <1>7, <1>8, <1>9 DEF IInv

LEMMA StutterKeeps == ASSUME IInv, UNCHANGED vars PROVE IInv'
<1>1. UNCHANGED <<now, drivers, regs, rows, keyed, hand, terminal, request, met, caught, overtaken>> /\ Typed
  BY DEF vars, history, IInv, TypeInv
<1>2. now' \in Nat /\ now' >= now
  BY <1>1, EnrollmentAssumption DEF Photos, Uploaded, Typed
<1>3. RowsKept /\ LinksKept /\ SyncKept /\ TerminalKept /\ HandKept /\ DriversGrow /\ DeletedStay
  BY <1>1, <1>2, RowsUnchanged, TerminalUnchanged, DriversUnchanged
<1>4. Typed'
  BY <1>1 DEF Typed
<1> QED
  BY <1>1, <1>3, <1>4, KeptUnlinked

LEMMA ServeKeeps == ASSUME IInv, NEW r \in Requests, Serve(r) PROVE IInv'
BY CheckCodeKeeps, ReadAgentsKeeps, ReadEnrolleeKeeps, ArriveKeeps, ReadDriverKeeps, CheckPhoneKeeps,
   CheckConflictKeeps, CheckBusyKeeps, ReadRegistrationKeeps, DeleteRegistrationKeeps, WriteDriverKeeps, WriteMappingKeeps, WritePairingKeeps, ActivateKeeps, RemoveFacesKeeps,
   SoftDeleteKeeps, LookKeeps, ResetBacklogKeeps, InsertKeeps, ReadPhotoKeeps, ReadDevicesKeeps, EnrollKeeps,
   PushKeeps, EnrolledKeeps, FindAckedKeeps, WriteAckKeeps, ActivateIfPendingKeeps, ReadPendingKeeps, WriteClaimKeeps
   DEF Serve

(* Every step of the clock, of a request, of an agent and of the staff's   *)
(* keys keeps the invariant.                                               *)
THEOREM Inductive == IInv /\ [Next]_vars => IInv'
<1> SUFFICES ASSUME IInv, [Next]_vars PROVE IInv'
  OBVIOUS
<1>1. CASE Tick
  BY <1>1, TickKeeps
<1>2. ASSUME NEW d \in Drivers, Use(d) PROVE IInv'
  BY <1>2, UseKeeps
<1>3. ASSUME NEW r \in Requests, Serve(r) PROVE IInv'
  BY <1>3, ServeKeeps
<1>4. ASSUME NEW v \in Devices, TakeJob(v) \/ WriteFace(v) \/ SetKey(v) PROVE IInv'
  BY <1>4, TakeJobKeeps, WriteFaceKeeps, SetKeyKeeps
<1>5. ASSUME NEW v \in Devices, NEW r \in Requests, Report(v, r) PROVE IInv'
  BY <1>5, ReportKeeps
<1>6. CASE UNCHANGED vars
  BY <1>6, StutterKeeps
<1> QED
  BY <1>1, <1>2, <1>3, <1>4, <1>5, <1>6 DEF Next

(* So it holds in every state.                                             *)
THEOREM Invariance == Spec => []IInv
BY InitInv, Inductive, PTL DEF Spec

-----------------------------------------------------------------------------
(* The tables keep their shape: a row belongs to a driver, its id is given *)
(* once, and a job in hand names a row that was there.                     *)
THEOREM TypeCorrect == Spec => []TypeOK
<1>1. IInv => TypeOK
  <2> SUFFICES ASSUME IInv PROVE TypeOK
    OBVIOUS
  <2>1. Typed /\ RowsOwned /\ IdsDiffer /\ HandKnown /\ \A q \in Requests : OnCourse(q)
    BY DEF IInv, TypeInv
  <2>2. \A d \in Drivers, v \in Devices :
           HasRow(d, v) => Row(d, v) \in Registrations /\ Row(d, v).id < rows /\ Exists(d)
    BY <2>1 DEF Typed, RowsOwned, HasRow, Row
  <2>3. \A v \in Devices : hand[v] # Nothing => hand[v] \in Jobs /\ hand[v].id < rows
    BY <2>1 DEF Typed, HandKnown
  <2>4. \A r \in Requests : request[r] # Idle => request[r].at \in Steps /\ request[r].row <= rows
    <3>1. SUFFICES ASSUME NEW r \in Requests, request[r] # Idle
                   PROVE  request[r].at \in Steps /\ request[r].row <= rows
      OBVIOUS
    <3>2. request[r] \in Asked /\ request[r].row < rows /\ rows \in Nat
      BY <2>1, <3>1 DEF Typed, OnCourse
    <3> QED
      BY <3>2 DEF Asked
  <2>5. \A d, e \in Drivers, v, w \in Devices :
           HasRow(d, v) /\ HasRow(e, w) /\ Row(d, v).id = Row(e, w).id => <<d, v>> = <<e, w>>
    BY <2>1 DEF IdsDiffer
  <2> QED
    BY <2>1, <2>2, <2>3, <2>4, <2>5 DEF TypeOK, Typed
<1> QED
  BY <1>1, Invariance, PTL

(* One driver is armed on a device at a time, unless two pairings met      *)
(* between check and write.                                                *)
THEOREM OnePairingHolds == Spec => []OnePairing
<1>1. IInv => OnePairing
  BY DEF IInv, LinkInv
<1> QED
  BY <1>1, Invariance, PTL

(* A Person ID of a terminal belongs to one driver there, with the same    *)
(* exception.                                                              *)
THEOREM LinkedOnceHolds == Spec => []LinkedOnce
<1>1. IInv => LinkedOnce
  BY DEF IInv, LinkInv
<1> QED
  BY <1>1, Invariance, PTL

(* Of a deleted driver nothing is kept and he stays blocked, unless a      *)
(* request about him was past its check when he was deleted.               *)
THEOREM GoneIsGoneHolds == Spec => []GoneIsGone
<1>1. IInv => GoneIsGone
  BY DEF IInv, GoneInv
<1> QED
  BY <1>1, Invariance, PTL

(* What is listed as SYNCED is on the terminal, or a newer stored photo    *)
(* is, unless an earlier life of the row was still being answered for, or  *)
(* the photo queued was stored nowhere and the agent wrote the stored one. *)
THEOREM SyncedIsCurrentHolds == Spec => []SyncedIsCurrent
<1>1. IInv => SyncedIsCurrent
  BY DEF IInv, PhotoInv
<1> QED
  BY <1>1, Invariance, PTL

-----------------------------------------------------------------------------
(* Who lifts a block: setStatus, or what read its driver as PENDING.       *)
Lifts(r, d) ==
    /\ request[r] # Idle /\ Driver(r) = d /\ request'[r] = Idle
    /\ Op(r) = "setStatus" \/ (Op(r) # "ack" /\ request[r].read = "PENDING")

LEMMA OnlyTheseLift ==
  ASSUME IInv, Next, NEW d \in Drivers, Exists(d), drivers[d].status = "BLOCKED", drivers'[d].status # "BLOCKED"
  PROVE  \E r \in Requests : Lifts(r, d)
<1>1. Typed /\ drivers[d] \in DriverRows /\ drivers' # drivers
  BY DEF IInv, TypeInv, Typed, Exists
<1>2. ASSUME NEW e \in Drivers, Use(e) PROVE FALSE
  BY <1>1, <1>2 DEF Use, Typed, DriverRows
<1>3. ASSUME NEW r \in Requests, Serve(r) PROVE Lifts(r, d)
  <2>1. Finish(r) => request'[r] = Idle
    BY <1>1 DEF Finish, Typed
  <2>2. OnCourse(r)
    BY DEF IInv, TypeInv
  <2>3. CASE WriteDriver(r)
    BY <1>1, <2>1, <2>3 DEF WriteDriver, At, Lifts, Typed, DriverRows
  <2>4. CASE Activate(r)
    BY <1>1, <2>1, <2>2, <2>4 DEF Activate, At, Lifts, Typed, DriverRows, OnCourse, Places, Uploads, Driver, Op
  <2>5. CASE ActivateIfPending(r)
    BY <1>1, <2>5 DEF ActivateIfPending, Typed, DriverRows
  <2>6. CASE Insert(r)
    BY <1>1, <2>6 DEF Insert, Refuse, Typed, Exists
  <2>7. CASE SoftDelete(r)
    BY <1>1, <2>7 DEF SoftDelete, Delete, Gone, DriverRows
  <2>8. CASE ResetBacklog(r)
    BY <1>1, <2>8 DEF ResetBacklog, Delete, Gone, DriverRows
  <2> QED
    BY <1>1, <1>3, <2>3, <2>4, <2>5, <2>6, <2>7, <2>8 DEF Serve, Arrive, ReadDriver, CheckPhone, CheckConflict, CheckBusy,
       ReadRegistration, DeleteRegistration, WriteMapping, WritePairing, RemoveFaces, Look, ReadPhoto, ReadDevices,
       CheckCode, ReadAgents, ReadEnrollee,
       Enroll, Push, Enrolled, FindAcked, WriteAck, ReadPending, WriteClaim, Refuse
<1>4. ASSUME NEW v \in Devices, TakeJob(v) \/ WriteFace(v) \/ SetKey(v) \/ \E r \in Requests : Report(v, r) PROVE FALSE
  BY <1>1, <1>4 DEF TakeJob, WriteFace, SetKey, Report
<1>5. ~ Tick
  BY <1>1 DEF Tick
<1> QED
  BY <1>2, <1>3, <1>4, <1>5 DEF Next

(* A block is lifted by setStatus, or by a link, a push or a login code    *)
(* whose request read the driver as PENDING before it; never by an         *)
(* acknowledgement of the agent.                                           *)
THEOREM BlockHoldsAlways == Spec => BlockHolds
<1> DEFINE Lifted ==
      \A d \in Drivers :
          /\ Exists(d) /\ drivers[d].status = "BLOCKED" /\ drivers'[d].status # "BLOCKED"
          => \E r \in Requests :
                /\ request[r] # Idle /\ Driver(r) = d /\ request'[r] = Idle
                /\ Op(r) = "setStatus" \/ (Op(r) # "ack" /\ request[r].read = "PENDING")
<1>1. IInv /\ [Next]_vars => [Lifted]_vars
  BY OnlyTheseLift DEF Lifts
<1>2. Spec => [][Lifted]_vars
  BY <1>1, Invariance, PTL DEF Spec
<1> QED
  BY <1>2 DEF BlockHolds
=============================================================================
