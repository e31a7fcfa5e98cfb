---------------------------- MODULE Console_proofs ----------------------------
(***************************************************************************)
(* Proofs about Console for any rows, choices, calls, clicks, changes made *)
(* elsewhere and calls given up: no button stays disabled, the choice      *)
(* shown is the choice made, a form adds once, and a quiet page is fresh.  *)
(* What the records of the pages say is looked up once, in the first part; *)
(* the rest uses no more of it than these facts.                           *)
(***************************************************************************)
EXTENDS Console, FiniteSetTheorems, SequenceTheorems, WellFoundedInduction, TLAPS

USE ConsoleAssumption

-----------------------------------------------------------------------------
(* The records of the pages                                                *)
Writes == {"sets", "links", "adds", "shuts", "hands"}
Afters == {"patch", "part", "load", "remove", "local", "leave", "both", "nothing"}
TheRow == CHOOSE r \in Rows : TRUE

(* What adds or hands over is a form; a button that waits loads, an error  *)
(* loads only where the button waits; of two calls the page takes the      *)
(* answer by showing the row or by loading.                                *)
SoundOp(op) ==
    /\ op.name # None /\ op.write \in Writes /\ op.calls \in {1, 2} /\ op.then \in Afters
    /\ op.waits \in BOOLEAN /\ op.retries \in BOOLEAN
    /\ op.write \in {"adds", "hands"} => op.flag = "form"
    /\ op.then = "part" => op.write = "sets"
    /\ op.waits => op.then \in {"load", "both"}
    /\ op.retries => op.waits
    /\ op.calls = 2 => op.then \in {"patch", "load", "both"}
    /\ op.calls = 2 /\ op.then = "patch" => op.name = "AddSlides"
    /\ op.then = "leave" => op.name \in {"DeleteDriver", "CreateDriver", "Register"}

(* A page that polls or offers a choice is not left; where slides are      *)
(* added, nothing is removed from the list.                                *)
SoundPage(p) ==
    /\ p.rows \in {Rows, {TheRow}} /\ p.polls \in BOOLEAN /\ p.chooses \in BOOLEAN
    /\ \A op \in p.ops : SoundOp(op)
    /\ p.polls => \A op \in p.ops : op.name = "SetFlag"
    /\ p.chooses => p.ops = {}
    /\ \A op, other \in p.ops : op.name = "AddSlides" => other.then # "remove"

LEMMA EveryPageSound == \A p \in Pages : SoundPage(p)
<1>1. SoundPage(Users)
      <2>1. SoundOp(ToggleActive) /\ SoundOp(CreateOperator)
            BY DEF SoundOp, Writes, Afters, None, Op, Waiting, ToggleActive, CreateOperator
      <2>2. /\ Users.ops = {ToggleActive, CreateOperator}
            /\ Users.rows \in {Rows, {TheRow}} /\ Users.polls = FALSE /\ Users.chooses = FALSE
            BY DEF Users, Page, TheRow
      <2>3. ToggleActive.name # "AddSlides" /\ CreateOperator.name # "AddSlides"
            BY DEF Op, Waiting, ToggleActive, CreateOperator
      <2> QED BY <2>1, <2>2, <2>3 DEF SoundPage
<1>2. SoundPage(Visits)
      <2>1. SoundOp(SetFlag)
            BY DEF SoundOp, Writes, Afters, None, Op, Waiting, SetFlag
      <2>2. /\ Visits.ops = {SetFlag}
            /\ Visits.rows \in {Rows, {TheRow}} /\ Visits.polls = TRUE /\ Visits.chooses = FALSE
            BY DEF Visits, Page, TheRow
      <2>3. SetFlag.name = "SetFlag"
            BY DEF Op, Waiting, SetFlag
      <2> QED BY <2>1, <2>2, <2>3 DEF SoundPage
<1>3. SoundPage(Flagged)
      <2>1. SoundOp(ClearFlag)
            BY DEF SoundOp, Writes, Afters, None, Op, Waiting, ClearFlag
      <2>2. /\ Flagged.ops = {ClearFlag}
            /\ Flagged.rows \in {Rows, {TheRow}} /\ Flagged.polls = FALSE /\ Flagged.chooses = FALSE
            BY DEF Flagged, Page, TheRow
      <2>3. ClearFlag.name # "AddSlides"
            BY DEF Op, Waiting, ClearFlag
      <2> QED BY <2>1, <2>2, <2>3 DEF SoundPage
<1>4. SoundPage(Feedback)
      <2>1. SoundOp(SetStatus)
            BY DEF SoundOp, Writes, Afters, None, Op, Waiting, SetStatus
      <2>2. /\ Feedback.ops = {SetStatus}
            /\ Feedback.rows \in {Rows, {TheRow}} /\ Feedback.polls = FALSE /\ Feedback.chooses = FALSE
            BY DEF Feedback, Page, TheRow
      <2>3. SetStatus.name # "AddSlides"
            BY DEF Op, Waiting, SetStatus
      <2> QED BY <2>1, <2>2, <2>3 DEF SoundPage
<1>5. SoundPage(Products)
      <2>1. SoundOp(CreateProduct) /\ SoundOp(DeactivateProduct)
            BY DEF SoundOp, Writes, Afters, None, Op, Waiting, CreateProduct, DeactivateProduct
      <2>2. /\ Products.ops = {CreateProduct, DeactivateProduct}
            /\ Products.rows \in {Rows, {TheRow}} /\ Products.polls = FALSE /\ Products.chooses = FALSE
            BY DEF Products, Page, TheRow
      <2>3. CreateProduct.name # "AddSlides" /\ DeactivateProduct.name # "AddSlides"
            BY DEF Op, Waiting, CreateProduct, DeactivateProduct
      <2> QED BY <2>1, <2>2, <2>3 DEF SoundPage
<1>6. SoundPage(Devices)
      <2>1. /\ SoundOp(Ping) /\ SoundOp(DeleteDevice) /\ SoundOp(SaveDevice)
            /\ SoundOp(EditDevice) /\ SoundOp(AgentKey) /\ SoundOp(AgentUpdateCard)
            BY DEF SoundOp, Writes, Afters, None, Op, Waiting, Ping, DeleteDevice, SaveDevice, EditDevice,
                   AgentKey, AgentUpdateCard
      <2>2. /\ Devices.ops = {Ping, DeleteDevice, SaveDevice, EditDevice, AgentKey, AgentUpdateCard}
            /\ Devices.rows \in {Rows, {TheRow}} /\ Devices.polls = FALSE /\ Devices.chooses = FALSE
            BY DEF Devices, Page, TheRow
      <2>3. /\ Ping.name # "AddSlides" /\ DeleteDevice.name # "AddSlides"
            /\ SaveDevice.name # "AddSlides" /\ EditDevice.name # "AddSlides"
            /\ AgentKey.name # "AddSlides" /\ AgentUpdateCard.name # "AddSlides"
            BY DEF Op, Waiting, Ping, DeleteDevice, SaveDevice, EditDevice, AgentKey, AgentUpdateCard
      <2> QED BY <2>1, <2>2, <2>3 DEF SoundPage
<1>7. SoundPage(Ads)
      <2>1. /\ SoundOp(CreateAd) /\ SoundOp(DeactivateAd) /\ SoundOp(ReplaceImage)
            /\ SoundOp(AddSlides)
            BY DEF SoundOp, Writes, Afters, None, Op, Waiting, CreateAd, DeactivateAd, ReplaceImage, AddSlides
      <2>2. /\ Ads.ops = {CreateAd, DeactivateAd, ReplaceImage, AddSlides}
            /\ Ads.rows \in {Rows, {TheRow}} /\ Ads.polls = FALSE /\ Ads.chooses = FALSE
            BY DEF Ads, Page, TheRow
      <2>3. /\ CreateAd.then # "remove" /\ DeactivateAd.then # "remove"
            /\ ReplaceImage.then # "remove" /\ AddSlides.then # "remove"
            BY DEF Op, Waiting, CreateAd, DeactivateAd, ReplaceImage, AddSlides
      <2> QED BY <2>1, <2>2, <2>3 DEF SoundPage
<1>8. SoundPage(Driver)
      <2>1. /\ SoundOp(ToggleBlocked) /\ SoundOp(DeleteDriver) /\ SoundOp(EditDriver)
            /\ SoundOp(SetTelegram) /\ SoundOp(UpdatePhoto) /\ SoundOp(SaveMapping)
            /\ SoundOp(Unlink)
            BY DEF SoundOp, Writes, Afters, None, Op, Waiting, ToggleBlocked, DeleteDriver, EditDriver,
                   SetTelegram, UpdatePhoto, SaveMapping, Unlink
      <2>2. /\ Driver.ops = {ToggleBlocked, DeleteDriver, EditDriver, SetTelegram,
                         UpdatePhoto, SaveMapping, Unlink}
            /\ Driver.rows \in {Rows, {TheRow}} /\ Driver.polls = FALSE /\ Driver.chooses = FALSE
            BY DEF Driver, Single, Page, TheRow
      <2>3. /\ ToggleBlocked.name # "AddSlides" /\ DeleteDriver.name # "AddSlides"
            /\ EditDriver.name # "AddSlides" /\ SetTelegram.name # "AddSlides"
            /\ UpdatePhoto.name # "AddSlides" /\ SaveMapping.name # "AddSlides"
            /\ Unlink.name # "AddSlides"
            BY DEF Op, Waiting, ToggleBlocked, DeleteDriver, EditDriver, SetTelegram, UpdatePhoto, SaveMapping, Unlink
      <2> QED BY <2>1, <2>2, <2>3 DEF SoundPage
<1>9. SoundPage(Wallet)
      <2>1. /\ SoundOp(CashAdvance) /\ SoundOp(GoodsExchange) /\ SoundOp(RedeemStamps)
            /\ SoundOp(ManualAdjustment)
            BY DEF SoundOp, Writes, Afters, None, Op, Waiting, CashAdvance, GoodsExchange, RedeemStamps,
                   ManualAdjustment
      <2>2. /\ Wallet.ops = {CashAdvance, GoodsExchange, RedeemStamps, ManualAdjustment}
            /\ Wallet.rows \in {Rows, {TheRow}} /\ Wallet.polls = FALSE /\ Wallet.chooses = FALSE
            BY DEF Wallet, Single, Page, TheRow
      <2>3. /\ CashAdvance.name # "AddSlides" /\ GoodsExchange.name # "AddSlides"
            /\ RedeemStamps.name # "AddSlides" /\ ManualAdjustment.name # "AddSlides"
            BY DEF Op, Waiting, CashAdvance, GoodsExchange, RedeemStamps, ManualAdjustment
      <2> QED BY <2>1, <2>2, <2>3 DEF SoundPage
<1>10. SoundPage(Drivers)
      <2>1. SoundOp(ResetAllStamps) /\ SoundOp(NewOperator)
            BY DEF SoundOp, Writes, Afters, None, Op, Waiting, ResetAllStamps, NewOperator
      <2>2. /\ Drivers.ops = {ResetAllStamps, NewOperator}
            /\ Drivers.rows \in {Rows, {TheRow}} /\ Drivers.polls = FALSE /\ Drivers.chooses = FALSE
            BY DEF Drivers, Page, TheRow
      <2>3. ResetAllStamps.name # "AddSlides" /\ NewOperator.name # "AddSlides"
            BY DEF Op, Waiting, ResetAllStamps, NewOperator
      <2> QED BY <2>1, <2>2, <2>3 DEF SoundPage
<1>11. SoundPage(Till)
      <2>1. SoundOp(Deposit) /\ SoundOp(EndShift)
            BY DEF SoundOp, Writes, Afters, None, Op, Waiting, Deposit, EndShift
      <2>2. /\ Till.ops = {Deposit, EndShift}
            /\ Till.rows \in {Rows, {TheRow}} /\ Till.polls = FALSE /\ Till.chooses = FALSE
            BY DEF Till, Single, Page, TheRow
      <2>3. Deposit.name # "AddSlides" /\ EndShift.name # "AddSlides"
            BY DEF Op, Waiting, Deposit, EndShift
      <2> QED BY <2>1, <2>2, <2>3 DEF SoundPage
<1>12. SoundPage(DriverHome)
      <2>1. SoundOp(SaveTelegram) /\ SoundOp(SendFeedback)
            BY DEF SoundOp, Writes, Afters, None, Op, Waiting, SaveTelegram, SendFeedback
      <2>2. /\ DriverHome.ops = {SaveTelegram, SendFeedback}
            /\ DriverHome.rows \in {Rows, {TheRow}} /\ DriverHome.polls = FALSE /\ DriverHome.chooses = FALSE
            BY DEF DriverHome, Single, Page, TheRow
      <2>3. SaveTelegram.name # "AddSlides" /\ SendFeedback.name # "AddSlides"
            BY DEF Op, Waiting, SaveTelegram, SendFeedback
      <2> QED BY <2>1, <2>2, <2>3 DEF SoundPage
<1>13. SoundPage(NewDriver)
      <2>1. SoundOp(CreateDriver)
            BY DEF SoundOp, Writes, Afters, None, Op, Waiting, CreateDriver
      <2>2. /\ NewDriver.ops = {CreateDriver}
            /\ NewDriver.rows \in {Rows, {TheRow}} /\ NewDriver.polls = FALSE /\ NewDriver.chooses = FALSE
            BY DEF NewDriver, Single, Page, TheRow
      <2>3. CreateDriver.name # "AddSlides"
            BY DEF Op, Waiting, CreateDriver
      <2> QED BY <2>1, <2>2, <2>3 DEF SoundPage
<1>14. SoundPage(Royxat)
      <2>1. SoundOp(Register)
            BY DEF SoundOp, Writes, Afters, None, Op, Waiting, Register
      <2>2. /\ Royxat.ops = {Register}
            /\ Royxat.rows \in {Rows, {TheRow}} /\ Royxat.polls = FALSE /\ Royxat.chooses = FALSE
            BY DEF Royxat, Single, Page, TheRow
      <2>3. Register.name # "AddSlides"
            BY DEF Op, Waiting, Register
      <2> QED BY <2>1, <2>2, <2>3 DEF SoundPage
<1>15. SoundPage(Analytics)
      BY DEF SoundPage, Analytics, Page
<1> QED BY <1>1, <1>2, <1>3, <1>4, <1>5, <1>6, <1>7, <1>8, <1>9, <1>10, <1>11, <1>12, <1>13, <1>14, <1>15 DEF Pages

-----------------------------------------------------------------------------
(* What is known of the page that is open, whichever it is                 *)

(* An operation looked up by its name is the one of that name.             *)
LEMMA OpFound ==
    ASSUME NEW op \in Ops
    PROVE  op.name \in DOMAIN OpOf /\ OpOf[op.name] \in Ops /\ OpOf[op.name].name = op.name
<1>1. op.name \in {o.name : o \in Ops}
      OBVIOUS
<1>2. DOMAIN OpOf = {o.name : o \in Ops} /\ OpOf[op.name] = CHOOSE o \in Ops : o.name = op.name
      BY <1>1 DEF OpOf
<1>3. (CHOOSE o \in Ops : o.name = op.name) \in Ops /\ (CHOOSE o \in Ops : o.name = op.name).name = op.name
      OBVIOUS
<1> QED BY <1>1, <1>2, <1>3

LEMMA PageFound ==
    ASSUME NEW n \in DOMAIN PageOf
    PROVE  PageOf[n] \in Pages
<1>1. DOMAIN PageOf = {p.name : p \in Pages} /\ PageOf[n] = CHOOSE p \in Pages : p.name = n
      BY DEF PageOf
<1>2. PICK p \in Pages : p.name = n
      BY <1>1
<1>3. (CHOOSE o \in Pages : o.name = n) \in Pages
      BY <1>2
<1> QED BY <1>1, <1>3

LEMMA OpsSound == \A op \in Ops : SoundOp(op)
BY EveryPageSound DEF Ops, SoundPage

LEMMA HereSound ==
    ASSUME page \in DOMAIN PageOf
    PROVE  /\ Here.rows \in {Rows, {TheRow}} /\ TheRow \in Here.rows /\ Here.rows # {}
           /\ Here.polls \in BOOLEAN /\ Here.chooses \in BOOLEAN
           /\ \A op \in HereOps : op # None /\ SoundOp(OpOf[op])
           /\ \A op \in HereOps : OpOf[op].then = "leave" => ~ Here.polls /\ ~ Here.chooses
           /\ Here.chooses => HereOps = {}
           /\ \A op \in HereOps : OpOf[op].calls = 2 /\ OpOf[op].then = "patch" =>
                  \A other \in Here.ops : other.then # "remove"
<1>1. Here \in Pages /\ SoundPage(Here)
      BY PageFound, EveryPageSound DEF Here
<1>2. TheRow \in Rows
      BY DEF TheRow, ConsoleAssumption
<1>3. \A op \in HereOps : \E o \in Here.ops : o.name = op /\ o \in Ops
      BY <1>1 DEF HereOps, Ops
<1>4. \A op \in HereOps : OpOf[op] \in Ops /\ OpOf[op].name = op
      BY <1>3, OpFound
<1>5. \A op \in HereOps : op # None /\ SoundOp(OpOf[op])
      BY <1>4, OpsSound DEF SoundOp
<1>6. ASSUME NEW op \in HereOps, OpOf[op].then = "leave"
      PROVE  ~ Here.polls /\ ~ Here.chooses
      <2>1. op \in {"DeleteDriver", "CreateDriver", "Register"}
            BY <1>4, <1>5, <1>6 DEF SoundOp
      <2> QED BY <1>1, <1>3, <2>1 DEF SoundPage
<1>7. Here.chooses => HereOps = {}
      BY <1>1 DEF SoundPage, HereOps
<1>8. ASSUME NEW op \in HereOps, OpOf[op].calls = 2, OpOf[op].then = "patch"
      PROVE  \A other \in Here.ops : other.then # "remove"
      <2>1. op = "AddSlides"
            BY <1>4, <1>5, <1>8 DEF SoundOp
      <2> QED BY <1>1, <1>3, <2>1 DEF SoundPage
<1> QED BY <1>1, <1>2, <1>5, <1>6, <1>7, <1>8 DEF SoundPage

LEMMA SamePage ==
    ASSUME page' = page
    PROVE  Here' = Here /\ HereOps' = HereOps
BY DEF Here, HereOps

-----------------------------------------------------------------------------
(* The state that the page keeps                                           *)
ByRow(op) == OpOf[op].flag = "row"
IsForm(op) == OpOf[op].flag = "form"
Loading(c) == c.at \in {"asked", "ok"} /\ c.load
Writing(c) == c.at \in {"asked", "ok", "refused", "orphan"} /\ ~ c.load
Live(c) == c.at \in {"asked", "ok", "refused"}

LoadCalls == [at : {"asked", "ok"}, op : HereOps \cup {None}, row : Here.rows \cup {None}, load : {TRUE},
              key : Keys \cup {None}, seen : Nat]
WriteCalls == [at : {"asked", "ok", "refused", "orphan"}, op : HereOps, row : Here.rows, load : {FALSE},
               key : Keys \cup {None}, seen : Nat, nth : Nat, form : Nat, saw : SUBSET Nat]
Slots == {Idle} \cup LoadCalls \cup WriteCalls
Entries == [row : Here.rows, write : Writes, op : HereOps \cup {None}, form : Nat, nth : Nat]

TypeOK ==
    /\ page \in DOMAIN PageOf /\ gone \in BOOLEAN /\ failed \in BOOLEAN
    /\ key \in Keys /\ keyOf \in Keys \cup {None} /\ lost \in Nat /\ clicks \in Nat
    /\ log \in Seq(Entries)
    /\ shown \in [Here.rows -> SUBSET Nat]
    /\ form \in [HereOps -> Nat]
    /\ busy \in [HereOps -> SUBSET Here.rows]
    /\ call \in [1 .. Calls -> Slots]

LEMMA SameTypes ==
    ASSUME page' = page
    PROVE  LoadCalls' = LoadCalls /\ WriteCalls' = WriteCalls /\ Slots' = Slots /\ Entries' = Entries
BY SamePage DEF LoadCalls, WriteCalls, Slots, Entries

LEMMA SlotKinds ==
    ASSUME NEW c \in Slots
    PROVE  /\ c = Idle <=> c.at = "idle"
           /\ c \in LoadCalls <=> Loading(c)
           /\ c \in WriteCalls <=> Writing(c)
           /\ c = Idle \/ Loading(c) \/ Writing(c)
           /\ Live(c) => c # Idle
           /\ ~ (Loading(c) /\ Writing(c))
           /\ c.at = "refused" => Writing(c)
           /\ c.at = "orphan" => Writing(c)
           /\ c.at = "asked" \/ c.at = "ok" => Loading(c) \/ Writing(c)
<1>1. CASE c = Idle
      <2>1. c.at = "idle"
            BY <1>1 DEF Idle
      <2> QED BY <1>1, <2>1 DEF LoadCalls, WriteCalls, Loading, Writing, Live
<1>2. CASE c \in LoadCalls
      <2>1. c.at \in {"asked", "ok"} /\ c.load = TRUE
            BY <1>2 DEF LoadCalls
      <2>2. c # Idle /\ c \notin WriteCalls
            <3>1. Idle.at = "idle"
                  BY DEF Idle
            <3>2. c \in WriteCalls => c.load = FALSE
                  BY DEF WriteCalls
            <3> QED BY <2>1, <3>1, <3>2
      <2> QED BY <1>2, <2>1, <2>2 DEF Loading, Writing, Live
<1>3. CASE c \in WriteCalls
      <2>1. c.at \in {"asked", "ok", "refused", "orphan"} /\ c.load = FALSE
            BY <1>3 DEF WriteCalls
      <2>2. c # Idle /\ c \notin LoadCalls
            <3>1. Idle.at = "idle"
                  BY DEF Idle
            <3>2. c \in LoadCalls => c.load = TRUE
                  BY DEF LoadCalls
            <3> QED BY <2>1, <3>1, <3>2
      <2> QED BY <1>3, <2>1, <2>2 DEF Loading, Writing, Live
<1> QED BY <1>1, <1>2, <1>3 DEF Slots

(* What is in the fields of a call, and how they change as it proceeds.    *)
LEMMA LoadFields ==
    ASSUME NEW op \in HereOps \cup {None}, NEW r \in Here.rows \cup {None}, NEW k \in Keys \cup {None}
    PROVE  /\ Load(op, r, k) \in LoadCalls
           /\ Load(op, r, k).at = "asked" /\ Load(op, r, k).op = op /\ Load(op, r, k).row = r
           /\ Load(op, r, k).key = k
BY DEF Load, LoadCalls

LEMMA KeyCleared ==
    ASSUME NEW c \in LoadCalls, NEW d, d = [c EXCEPT !.key = None]
    PROVE  /\ d \in LoadCalls /\ d.key = None
           /\ d.at = c.at /\ d.op = c.op /\ d.row = c.row /\ d.seen = c.seen
BY DEF LoadCalls

Same(c, d) == /\ d.op = c.op /\ d.row = c.row /\ d.load = FALSE /\ d.key = c.key /\ d.form = c.form /\ d.saw = c.saw

LEMMA WriteFields ==
    ASSUME TypeOK, NEW op \in HereOps, NEW r \in Here.rows
    PROVE  /\ Write(op, r) \in WriteCalls
           /\ Write(op, r).at = "asked" /\ Write(op, r).op = op /\ Write(op, r).row = r
           /\ Write(op, r).key = key
BY DEF Write, WriteCalls, TypeOK

LEMMA WriteForm ==
    ASSUME TypeOK, NEW op \in HereOps, NEW r \in Here.rows
    PROVE  /\ Write(op, r).nth = 1 /\ Write(op, r).form = form[op]
           /\ Write(op, r).saw = IF OpOf[op].write = "hands" THEN shown[r] ELSE {}
BY DEF Write

LEMMA WriteMoved ==
    ASSUME NEW c \in WriteCalls, NEW w \in {"refused", "orphan"}, NEW d, d = [c EXCEPT !.at = w]
    PROVE  d \in WriteCalls /\ d.at = w /\ d.seen = c.seen /\ Same(c, d) /\ d.nth = c.nth
BY DEF WriteCalls, Same

LEMMA WriteNext ==
    ASSUME NEW c \in WriteCalls, NEW d, d = [c EXCEPT !.at = "asked", !.nth = c.nth + 1]
    PROVE  d \in WriteCalls /\ d.at = "asked" /\ Same(c, d) /\ d.nth = c.nth + 1
<1> DEFINE e == [c EXCEPT !.at = "asked"]
<1>1. e \in WriteCalls /\ e.at = "asked" /\ Same(c, e)
      BY DEF WriteCalls, Same
<1>2. c.nth + 1 \in Nat
      BY DEF WriteCalls
<1>3. d = [e EXCEPT !.nth = c.nth + 1]
      OBVIOUS
<1> HIDE DEF e
<1>4. d \in WriteCalls /\ d.at = e.at /\ Same(e, d) /\ d.nth = c.nth + 1
      BY <1>1, <1>2, <1>3 DEF WriteCalls, Same
<1> QED BY <1>1, <1>4 DEF Same

(* The first call that is free.                                            *)
LEMMA LeastMember ==
    ASSUME NEW S \in SUBSET Nat, S # {}
    PROVE  \E n \in S : \A m \in S : n <= m
<1> DEFINE Below == {1..n : n \in S}
<1>1. Below \subseteq FiniteSubsetsOf(Nat) /\ Below # {}
      <2>1. ASSUME NEW n \in S PROVE 1..n \in FiniteSubsetsOf(Nat)
            <3>1. n \in Int /\ 1..n \in SUBSET Nat
                  OBVIOUS
            <3> QED BY <3>1, FS_Interval DEF FiniteSubsetsOf
      <2> QED BY <2>1
<1>2. PICK b \in Below : \A d \in Below : <<d, b>> \notin StrictSubsetOrdering(Nat)
      BY <1>1, FS_StrictSubsetOrderingWellFounded, WFMin
<1>3. PICK n \in S : b = 1..n
      OBVIOUS
<1>4. ASSUME NEW m \in S, m < n PROVE FALSE
      <2>1. m \in Nat /\ n \in Nat
            OBVIOUS
      <2>2. 1..m \subseteq 1..n /\ n \in 1..n /\ n \notin 1..m
            BY <1>4, <2>1
      <2>3. 1..m \in SUBSET Nat /\ b \in SUBSET Nat /\ 1..m \subseteq b /\ 1..m # b
            BY <1>3, <2>2
      <2> QED BY <1>2, <2>3 DEF StrictSubsetOrdering
<1> QED BY <1>4

LEMMA FreshFree ==
    ASSUME TypeOK, Free # {}
    PROVE  Fresh \in 1 .. Calls /\ call[Fresh] = Idle
<1>1. Free \in SUBSET Nat
      BY DEF Free
<1>2. \E q \in Free : \A p \in Free : q <= p
      BY <1>1, LeastMember
<1> QED BY <1>2 DEF Fresh, Free

-----------------------------------------------------------------------------
(* What each action does to the calls and to the log                       *)
Others(q) == \A p \in 1 .. Calls : p # q => call'[p] = call[p]

LEMMA CallTyped ==
    ASSUME TypeOK, NEW q \in 1 .. Calls
    PROVE  /\ call[q] \in Slots
           /\ Loading(call[q]) => call[q] \in LoadCalls
           /\ Writing(call[q]) => call[q] \in WriteCalls
<1>1. call[q] \in Slots
      BY DEF TypeOK
<1> QED BY <1>1, SlotKinds

LEMMA OneCall ==
    ASSUME TypeOK, NEW q \in 1 .. Calls, NEW d \in Slots, call' = [call EXCEPT ![q] = d]
    PROVE  call' \in [1 .. Calls -> Slots] /\ call'[q] = d /\ Others(q)
BY DEF TypeOK, Others

LEMMA Appended ==
    ASSUME TypeOK, NEW e \in Entries, log' = Append(log, e)
    PROVE  /\ log' \in Seq(Entries) /\ Len(log) \in Nat /\ Len(log') = Len(log) + 1
           /\ DOMAIN log = 1 .. Len(log) /\ DOMAIN log' = 1 .. (Len(log) + 1)
           /\ log'[Len(log) + 1] = e /\ \A i \in 1 .. Len(log) : log'[i] = log[i]
           /\ \A i \in 1 .. Len(log) : log[i] \in Entries
<1>1. log \in Seq(Entries)
      BY DEF TypeOK
<1> QED BY <1>1

LEMMA Logs ==
    ASSUME TypeOK
    PROVE  Len(log) \in Nat /\ DOMAIN log = 1 .. Len(log) /\ \A i \in 1 .. Len(log) : log[i] \in Entries
<1>1. log \in Seq(Entries)
      BY DEF TypeOK
<1> QED BY <1>1

LEMMA SeenBefore ==
    ASSUME TypeOK, NEW e \in Entries, log' = Append(log, e), NEW r, NEW n \in 0 .. Len(log)
    PROVE  Seen(r, n)' = Seen(r, n)
<1>1. \A i \in 1 .. n : log'[i] = log[i]
      BY Appended
<1> QED BY <1>1 DEF Seen

LEMMA PollEffect ==
    ASSUME TypeOK, Poll
    PROVE  /\ Fresh \in 1 .. Calls /\ call[Fresh] = Idle /\ Others(Fresh)
           /\ call' \in [1 .. Calls -> Slots] /\ call'[Fresh] = Reload(key)
           /\ Reload(key) \in LoadCalls
<1>1. Fresh \in 1 .. Calls /\ call[Fresh] = Idle
      BY FreshFree DEF Poll
<1>2. Reload(key) \in LoadCalls
      BY LoadFields DEF TypeOK, Reload
<1>3. Reload(key) \in Slots
      BY <1>2 DEF Slots
<1>4. call' = [call EXCEPT ![Fresh] = Reload(key)]
      BY DEF Poll
<1> QED BY <1>1, <1>2, <1>3, <1>4, OneCall

(* Only a page that writes nothing offers a choice.                        *)
LEMMA ChooseEffect ==
    ASSUME TypeOK, NEW k \in Keys, Choose(k)
    PROVE  /\ Fresh \in 1 .. Calls /\ call[Fresh] = Idle /\ HereOps = {}
           /\ call' \in [1 .. Calls -> Slots] /\ call'[Fresh] = Reload(k) /\ Reload(k) \in LoadCalls
           /\ \A p \in 1 .. Calls : ~ Writing(call[p])
           /\ \A p \in 1 .. Calls : ~ Writing(call'[p])
           /\ \A p \in 1 .. Calls : p # Fresh =>
                  \/ call[p] = Idle /\ call'[p] = Idle
                  \/ /\ call[p] \in LoadCalls /\ call'[p] \in LoadCalls /\ call'[p].key = None
                     /\ call'[p].at = call[p].at /\ call'[p].seen = call[p].seen
<1>1. Fresh \in 1 .. Calls /\ call[Fresh] = Idle
      BY FreshFree DEF Choose
<1>2. HereOps = {}
      BY HereSound DEF TypeOK, Choose
<1>3. Reload(k) \in LoadCalls
      BY LoadFields DEF Reload
<1>4. DOMAIN call = 1 .. Calls /\ call' = [q \in 1 .. Calls |-> IF q = Fresh THEN Reload(k) ELSE Cleaned(call[q])]
      BY DEF Choose, TypeOK
<1>5. WriteCalls = {}
      BY <1>2 DEF WriteCalls
<1>6. ASSUME NEW p \in 1 .. Calls, p # Fresh
      PROVE  \/ call[p] = Idle /\ call'[p] = Idle
             \/ /\ call[p] \in LoadCalls /\ call'[p] \in LoadCalls /\ call'[p].key = None
                /\ call'[p].at = call[p].at /\ call'[p].seen = call[p].seen
      <2>1. call[p] = Idle \/ call[p] \in LoadCalls
            BY <1>5, CallTyped DEF Slots
      <2>2. call'[p] = Cleaned(call[p])
            BY <1>4, <1>6
      <2>3. CASE call[p] = Idle
            BY <2>2, <2>3 DEF Cleaned
      <2>4. CASE call[p] # Idle
            <3>1. call'[p] = [call[p] EXCEPT !.key = None]
                  BY <2>2, <2>4 DEF Cleaned
            <3> QED BY <2>1, <2>4, <3>1, KeyCleared
      <2> QED BY <2>3, <2>4
<1>7. \A p \in 1 .. Calls : call'[p] \in Slots
      BY <1>3, <1>4, <1>6 DEF Slots
<1>8. \A p \in 1 .. Calls : ~ Writing(call[p]) /\ ~ Writing(call'[p])
      BY <1>5, <1>7, CallTyped, SlotKinds
<1> QED BY <1>1, <1>2, <1>3, <1>4, <1>6, <1>7, <1>8

LEMMA SendEffect ==
    ASSUME TypeOK, NEW op \in HereOps, NEW r \in Targets(op), Send(op, r)
    PROVE  /\ r \in Here.rows /\ (IsForm(op) => r = TheRow)
           /\ Fresh \in 1 .. Calls /\ call[Fresh] = Idle /\ Others(Fresh)
           /\ call' \in [1 .. Calls -> Slots] /\ call'[Fresh] = Write(op, r)
           /\ Write(op, r) \in WriteCalls
<1>1. r \in Here.rows /\ (IsForm(op) => r = TheRow)
      BY HereSound DEF Targets, TheRow, TypeOK, IsForm
<1>2. Fresh \in 1 .. Calls /\ call[Fresh] = Idle
      BY FreshFree DEF Send
<1>3. Write(op, r) \in WriteCalls
      BY <1>1, WriteFields
<1>4. Write(op, r) \in Slots /\ call' = [call EXCEPT ![Fresh] = Write(op, r)]
      BY <1>3 DEF Slots, Send
<1> QED BY <1>1, <1>2, <1>3, <1>4, OneCall

Strange(r, w) == [row |-> r, write |-> w, op |-> None, form |-> 0, nth |-> 0]
LEMMA ForeignEffect ==
    ASSUME TypeOK, NEW r \in Here.rows, NEW w \in Kinds, Foreign(r, w)
    PROVE  /\ Strange(r, w) \in Entries /\ log' = Append(log, Strange(r, w))
           /\ w # "hands" /\ missed' = missed \cup {Len(log) + 1}
<1>1. w \in Writes /\ w # "hands"
      <2>1. CASE w = "sets"
            BY <2>1 DEF Writes
      <2>2. CASE \E op \in Here.ops : w = op.write /\ w # "hands"
            <3>1. Here.ops \subseteq Ops
                  BY PageFound DEF TypeOK, Here, Ops
            <3> QED BY <2>2, <3>1, OpsSound DEF SoundOp
      <2> QED BY <2>1, <2>2 DEF Kinds
<1>2. Strange(r, w) \in Entries /\ log' = Append(log, Strange(r, w))
      BY <1>1 DEF Strange, Entries, Foreign, Change
<1>3. Len(log') = Len(log) + 1
      BY <1>2, Appended
<1> QED BY <1>1, <1>2, <1>3 DEF Foreign

LEMMA ServeLoadEffect ==
    ASSUME TypeOK, NEW q \in 1 .. Calls, ServeLoad(q)
    PROVE  /\ call[q] \in LoadCalls /\ call[q].at = "asked" /\ Others(q)
           /\ call' \in [1 .. Calls -> Slots]
           /\ call'[q] \in LoadCalls /\ call'[q].at = "ok" /\ call'[q].seen = Len(log)
           /\ call'[q].op = call[q].op /\ call'[q].row = call[q].row /\ call'[q].key = call[q].key
<1> DEFINE d == [call[q] EXCEPT !.at = "ok", !.seen = Len(log)]
<1>1. call[q] \in LoadCalls /\ call[q].at = "asked"
      BY CallTyped DEF ServeLoad, Loading
<1>2. call' = [call EXCEPT ![q] = d]
      BY DEF ServeLoad, TypeOK
<1>3. d = [call[q] EXCEPT !.at = "ok", !.seen = Len(log)]
      OBVIOUS
<1> HIDE DEF d
<1>4. /\ d \in LoadCalls /\ d.at = "ok" /\ d.seen = Len(log)
      /\ d.op = call[q].op /\ d.row = call[q].row /\ d.key = call[q].key
      BY <1>1, <1>3, Logs DEF LoadCalls
<1>5. d \in Slots
      BY <1>4 DEF Slots
<1> QED BY <1>1, <1>2, <1>4, <1>5, OneCall

(* What the server notes of a call that it carries out.                    *)
Entry(c) == [row |-> c.row, write |-> OpOf[c.op].write, op |-> c.op, form |-> c.form, nth |-> c.nth]
LEMMA EntryTyped ==
    ASSUME TypeOK, NEW c \in WriteCalls
    PROVE  Entry(c) \in Entries
<1>1. c.op \in HereOps /\ c.row \in Here.rows /\ c.form \in Nat /\ c.nth \in Nat /\ c.saw \in SUBSET Nat
      BY DEF WriteCalls
<1>2. OpOf[c.op].write \in Writes
      BY <1>1, HereSound DEF TypeOK, SoundOp
<1> QED BY <1>1, <1>2 DEF Entry, Entries

LEMMA ServeWriteEffect ==
    ASSUME TypeOK, NEW q \in 1 .. Calls, ServeWrite(q)
    PROVE  /\ call[q] \in WriteCalls /\ call[q].at \in {"asked", "orphan"} /\ Others(q)
           /\ Entry(call[q]) \in Entries /\ log' = Append(log, Entry(call[q]))
           /\ call' \in [1 .. Calls -> Slots]
           /\ call[q].at = "orphan" => call'[q] = Idle /\ missed' = missed \cup {Len(log) + 1}
           /\ call[q].at = "asked" =>
                  /\ call'[q] \in WriteCalls /\ call'[q].at = "ok" /\ call'[q].seen = Len(log) + 1
                  /\ Same(call[q], call'[q]) /\ call'[q].nth = call[q].nth /\ missed' = missed
<1> DEFINE d == [call[q] EXCEPT !.at = "ok", !.seen = Len(log) + 1]
<1>1. call[q] \in WriteCalls /\ call[q].at \in {"asked", "orphan"}
      BY CallTyped DEF ServeWrite, Writing
<1>2. Entry(call[q]) \in Entries /\ log' = Append(log, Entry(call[q]))
      BY <1>1, EntryTyped DEF ServeWrite, Entry
<1>3. Len(log') = Len(log) + 1 /\ Len(log) + 1 \in Nat
      BY <1>2, Appended
<1>4. /\ d \in WriteCalls /\ d.at = "ok" /\ d.seen = Len(log) + 1
      /\ Same(call[q], d) /\ d.nth = call[q].nth
      <2>1. d = [call[q] EXCEPT !.at = "ok", !.seen = Len(log) + 1]
            OBVIOUS
      <2> HIDE DEF d
      <2> QED BY <1>1, <1>3, <2>1, Logs DEF WriteCalls, Same
<1>5. d \in Slots /\ Idle \in Slots
      BY <1>4 DEF Slots
<1>6. CASE call[q].at = "orphan"
      <2>1. call' = [call EXCEPT ![q] = Idle] /\ missed' = missed \cup {Len(log) + 1}
            BY <1>3, <1>6 DEF ServeWrite
      <2> QED BY <1>1, <1>2, <1>5, <1>6, <2>1, OneCall
<1>7. CASE call[q].at = "asked"
      <2>1. call' = [call EXCEPT ![q] = d] /\ missed' = missed
            BY <1>3, <1>7 DEF ServeWrite
      <2> HIDE DEF d
      <2> QED BY <1>1, <1>2, <1>4, <1>5, <1>7, <2>1, OneCall
<1> QED BY <1>1, <1>6, <1>7

LEMMA RefuseEffect ==
    ASSUME TypeOK, NEW q \in 1 .. Calls, Refuse(q)
    PROVE  /\ call[q] \in WriteCalls /\ call[q].at \in {"asked", "orphan"} /\ Others(q)
           /\ call' \in [1 .. Calls -> Slots]
           /\ call[q].at = "orphan" => call'[q] = Idle
           /\ call[q].at = "asked" =>
                  /\ call'[q] \in WriteCalls /\ call'[q].at = "refused"
                  /\ Same(call[q], call'[q]) /\ call'[q].nth = call[q].nth
<1> DEFINE d == [call[q] EXCEPT !.at = "refused"]
<1>1. call[q] \in WriteCalls /\ call[q].at \in {"asked", "orphan"}
      BY CallTyped DEF Refuse, Writing
<1>2. d \in WriteCalls /\ d.at = "refused" /\ Same(call[q], d) /\ d.nth = call[q].nth
      BY <1>1, WriteMoved
<1>3. d \in Slots /\ Idle \in Slots
      BY <1>2 DEF Slots
<1>4. CASE call[q].at = "orphan"
      <2>1. call' = [call EXCEPT ![q] = Idle]
            BY <1>4 DEF Refuse
      <2> QED BY <1>1, <1>3, <1>4, <2>1, OneCall
<1>5. CASE call[q].at = "asked"
      <2>1. call' = [call EXCEPT ![q] = d]
            BY <1>5 DEF Refuse
      <2> HIDE DEF d
      <2> QED BY <1>1, <1>2, <1>3, <1>5, <2>1, OneCall
<1> QED BY <1>1, <1>4, <1>5

LEMMA TakeLoadEffect ==
    ASSUME TypeOK, NEW q \in 1 .. Calls, TakeLoad(q)
    PROVE  /\ call[q] \in LoadCalls /\ call[q].at = "ok" /\ Others(q)
           /\ call' \in [1 .. Calls -> Slots] /\ call'[q] = Idle
<1>1. call[q] \in LoadCalls /\ call[q].at = "ok"
      BY CallTyped DEF TakeLoad, Loading
<1>2. Idle \in Slots /\ call' = [call EXCEPT ![q] = Idle]
      BY DEF Slots, TakeLoad
<1> QED BY <1>1, <1>2, OneCall

LEMMA NextCallEffect ==
    ASSUME TypeOK, NEW q \in 1 .. Calls, NextCall(q)
    PROVE  /\ call[q] \in WriteCalls /\ call[q].at = "ok" /\ Others(q)
           /\ call[q].nth < OpOf[call[q].op].calls
           /\ call' \in [1 .. Calls -> Slots]
           /\ call'[q] \in WriteCalls /\ call'[q].at = "asked"
           /\ Same(call[q], call'[q]) /\ call'[q].nth = call[q].nth + 1
<1> DEFINE d == [call[q] EXCEPT !.at = "asked", !.nth = call[q].nth + 1]
<1>1. call[q] \in WriteCalls /\ call[q].at = "ok"
      BY CallTyped DEF NextCall, Writing
<1>2. d \in WriteCalls /\ d.at = "asked" /\ Same(call[q], d) /\ d.nth = call[q].nth + 1
      BY <1>1, WriteNext
<1>3. call' = [call EXCEPT ![q] = d]
      BY <1>1 DEF NextCall, TypeOK, WriteCalls
<1>4. d \in Slots
      BY <1>2 DEF Slots
<1>5. call[q].nth < OpOf[call[q].op].calls
      BY DEF NextCall
<1> HIDE DEF d
<1> QED BY <1>1, <1>2, <1>3, <1>4, <1>5, OneCall

(* The load that follows a write, or none.                                 *)
LEMMA AfterFields ==
    ASSUME TypeOK, NEW c \in WriteCalls
    PROVE  /\ After(c) \in {Idle} \cup LoadCalls
           /\ OpOf[c.op].then \in {"load", "both"} <=> After(c) \in LoadCalls
           /\ After(c) \in LoadCalls =>
                 /\ After(c).at = "asked" /\ After(c).row = c.row /\ After(c).key = c.key
                 /\ After(c).op = IF OpOf[c.op].waits THEN c.op ELSE None
<1>1. c.op \in HereOps /\ c.row \in Here.rows /\ c.key \in Keys \cup {None}
      BY DEF WriteCalls
<1>2. CASE OpOf[c.op].then \in {"load", "both"}
      <2> DEFINE o == IF OpOf[c.op].waits THEN c.op ELSE None
      <2>1. After(c) = Load(o, c.row, c.key) /\ o \in HereOps \cup {None}
            BY <1>1, <1>2 DEF After
      <2> HIDE DEF o
      <2>2. c.row \in Here.rows \cup {None}
            BY <1>1
      <2>3. /\ Load(o, c.row, c.key) \in LoadCalls /\ Load(o, c.row, c.key).at = "asked"
            /\ Load(o, c.row, c.key).row = c.row /\ Load(o, c.row, c.key).key = c.key
            /\ Load(o, c.row, c.key).op = o
            BY <1>1, <2>1, <2>2, LoadFields
      <2> QED BY <1>2, <2>1, <2>3 DEF o
<1>3. CASE OpOf[c.op].then \notin {"load", "both"}
      <2>1. After(c) = Idle /\ Idle \notin LoadCalls
            BY <1>3 DEF After, Idle, LoadCalls
      <2> QED BY <1>3, <2>1
<1> QED BY <1>2, <1>3

LEMMA AnsweredFields ==
    ASSUME TypeOK, NEW c \in WriteCalls
    PROVE  /\ ~ OpOf[c.op].retries => Answered(c) = Idle
           /\ OpOf[c.op].retries =>
                 /\ Answered(c) \in LoadCalls /\ Answered(c).at = "asked"
                 /\ Answered(c).row = c.row /\ Answered(c).key = c.key /\ Answered(c).op = c.op
<1>1. c.op \in HereOps \cup {None} /\ c.row \in Here.rows \cup {None} /\ c.key \in Keys \cup {None}
      BY DEF WriteCalls
<1> DEFINE d == Load(c.op, c.row, c.key)
<1>2. d \in LoadCalls /\ d.at = "asked" /\ d.row = c.row /\ d.key = c.key /\ d.op = c.op
      BY <1>1, LoadFields
<1>3. Answered(c) = IF OpOf[c.op].retries THEN d ELSE Idle
      BY DEF Answered
<1> HIDE DEF d
<1> QED BY <1>2, <1>3

LEMMA LeftFields ==
    ASSUME NEW c \in Slots
    PROVE  /\ Left(c) \in {Idle} \cup WriteCalls
           /\ Left(c) \in WriteCalls =>
                 /\ c \in WriteCalls /\ Left(c).at = "orphan" /\ Same(c, Left(c)) /\ Left(c).nth = c.nth
<1>1. CASE c.at \in {"asked", "orphan"} /\ ~ c.load
      <2>1. c \in WriteCalls /\ Left(c) = [c EXCEPT !.at = "orphan"]
            BY <1>1, SlotKinds DEF Left, Writing
      <2> QED BY <2>1, WriteMoved
<1>2. CASE ~ (c.at \in {"asked", "orphan"} /\ ~ c.load)
      <2>1. Left(c) = Idle /\ Idle \notin WriteCalls
            BY <1>2 DEF Left, Idle, WriteCalls
      <2> QED BY <2>1
<1> QED BY <1>1, <1>2

LEMMA TakeWriteEffect ==
    ASSUME TypeOK, NEW q \in 1 .. Calls, TakeWrite(q)
    PROVE  /\ call[q] \in WriteCalls /\ call[q].at = "ok"
           /\ gone' <=> OpOf[call[q].op].then = "leave"
           /\ gone' \in BOOLEAN
           /\ call' \in [1 .. Calls -> Slots]
           /\ gone' => \A p \in 1 .. Calls : call'[p] = Left(call[p])
           /\ ~ gone' => call'[q] = After(call[q]) /\ Others(q)
<1>1. call[q] \in WriteCalls /\ call[q].at = "ok"
      BY CallTyped DEF TakeWrite, Writing
<1>2. gone' = (OpOf[call[q].op].then = "leave")
      BY DEF TakeWrite
<1>3. CASE gone'
      <2>1. call' = [p \in 1 .. Calls |-> Left(call[p])]
            BY <1>3 DEF TakeWrite, TypeOK
      <2>2. \A p \in 1 .. Calls : Left(call[p]) \in Slots
            BY CallTyped, LeftFields DEF Slots
      <2> QED BY <1>1, <1>2, <1>3, <2>1, <2>2
<1>4. CASE ~ gone'
      <2>1. call' = [call EXCEPT ![q] = After(call[q])]
            BY <1>4 DEF TakeWrite
      <2>2. After(call[q]) \in Slots
            BY <1>1, AfterFields DEF Slots
      <2> QED BY <1>1, <1>2, <1>4, <2>1, <2>2, OneCall
<1> QED BY <1>2, <1>3, <1>4

LEMMA TakeRefusedEffect ==
    ASSUME TypeOK, NEW q \in 1 .. Calls, TakeRefused(q)
    PROVE  /\ call[q] \in WriteCalls /\ call[q].at = "refused" /\ Others(q)
           /\ call' \in [1 .. Calls -> Slots] /\ call'[q] = Answered(call[q])
<1>1. call[q] \in WriteCalls /\ call[q].at = "refused"
      BY CallTyped, SlotKinds DEF TakeRefused
<1>2. Answered(call[q]) \in Slots
      BY <1>1, AnsweredFields DEF Slots
<1>3. call' = [call EXCEPT ![q] = Answered(call[q])]
      BY DEF TakeRefused
<1> QED BY <1>1, <1>2, <1>3, OneCall

LEMMA LoseLoadEffect ==
    ASSUME TypeOK, NEW q \in 1 .. Calls, Lose(q), call[q].load
    PROVE  /\ call[q] \in LoadCalls /\ Others(q)
           /\ call' \in [1 .. Calls -> Slots] /\ call'[q] = Idle
<1>1. call[q] \in LoadCalls
      BY CallTyped DEF Lose, Loading
<1>2. Idle \in Slots /\ call' = [call EXCEPT ![q] = Idle]
      BY DEF Slots, Lose
<1> QED BY <1>1, <1>2, OneCall

(* A call that is given up leaves one that nobody waits for, unless its    *)
(* answer was there; where an error loads the page, a load is asked for.   *)
LEMMA LoseWriteEffect ==
    ASSUME TypeOK, NEW q \in 1 .. Calls, Lose(q), ~ call[q].load
    PROVE  /\ call[q] \in WriteCalls /\ call[q].at \in {"asked", "ok"}
           /\ call' \in [1 .. Calls -> Slots]
           /\ call[q].at = "ok" => call'[q] = Answered(call[q]) /\ Others(q)
           /\ call[q].at = "asked" =>
                 /\ call'[q] \in WriteCalls /\ call'[q].at = "orphan"
                 /\ Same(call[q], call'[q]) /\ call'[q].nth = call[q].nth
                 /\ \/ ~ OpOf[call[q].op].retries /\ Others(q)
                    \/ /\ OpOf[call[q].op].retries
                       /\ Fresh \in 1 .. Calls /\ call[Fresh] = Idle /\ Fresh # q
                       /\ call'[Fresh] = Answered(call[q])
                       /\ \A p \in 1 .. Calls : p # q /\ p # Fresh => call'[p] = call[p]
<1> DEFINE c == call[q]  d == [call[q] EXCEPT !.at = "orphan"]
<1>1. call[q] \in WriteCalls /\ call[q].at \in {"asked", "ok"}
      BY CallTyped DEF Lose, Writing
<1>2. Answered(c) \in Slots
      BY <1>1, AnsweredFields DEF Slots
<1>3. /\ d \in WriteCalls /\ d \in Slots /\ d.at = "orphan" /\ Same(c, d) /\ d.nth = c.nth
      BY <1>1, WriteMoved DEF Slots
<1>4. CASE c.at = "ok"
      <2>1. call' = [call EXCEPT ![q] = Answered(c)]
            BY <1>4 DEF Lose
      <2> QED BY <1>1, <1>2, <1>4, <2>1, OneCall
<1>5. CASE c.at = "asked" /\ ~ OpOf[c.op].retries
      <2>1. call' = [call EXCEPT ![q] = d]
            BY <1>5 DEF Lose, TypeOK
      <2> HIDE DEF d
      <2>2. call' \in [1 .. Calls -> Slots] /\ call'[q] = d /\ Others(q)
            BY <1>3, <2>1, OneCall
      <2> QED BY <1>1, <1>3, <1>5, <2>2
<1>6. CASE c.at = "asked" /\ OpOf[c.op].retries
      <2>1. Free # {} /\ call' = [call EXCEPT ![q] = d, ![Fresh] = Answered(c)]
            BY <1>6 DEF Lose, TypeOK
      <2>2. Fresh \in 1 .. Calls /\ call[Fresh] = Idle
            BY <2>1, FreshFree
      <2>3. Fresh # q
            BY <1>6, <2>2 DEF Idle
      <2> HIDE DEF d, c
      <2>4. /\ call' \in [1 .. Calls -> Slots] /\ call'[q] = d /\ call'[Fresh] = Answered(c)
            /\ \A p \in 1 .. Calls : p # q /\ p # Fresh => call'[p] = call[p]
            BY <1>2, <1>3, <2>1, <2>2, <2>3 DEF TypeOK
      <2> QED BY <1>1, <1>3, <1>6, <2>2, <2>3, <2>4 DEF c
<1> QED BY <1>1, <1>4, <1>5, <1>6

-----------------------------------------------------------------------------
(* The types                                                               *)
LEMMA TypedAgain ==
    ASSUME TypeOK, page' = page,
           gone' \in BOOLEAN, failed' \in BOOLEAN, key' \in Keys, keyOf' \in Keys \cup {None},
           lost' \in Nat, clicks' \in Nat, log' \in Seq(Entries), shown' \in [Here.rows -> SUBSET Nat],
           form' \in [HereOps -> Nat], busy' \in [HereOps -> SUBSET Here.rows],
           call' \in [1 .. Calls -> Slots]
    PROVE  TypeOK'
<1>1. page' \in DOMAIN PageOf
      BY DEF TypeOK
<1> QED BY <1>1, SamePage, SameTypes DEF TypeOK

LEMMA SeenTyped == \A r : \A n \in Nat : Seen(r, n) \in SUBSET Nat
BY DEF Seen

LEMMA ReleaseTyped ==
    ASSUME TypeOK, NEW c, c.op \in HereOps \cup {None}, Release(c)
    PROVE  busy' \in [HereOps -> SUBSET Here.rows]
<1>1. CASE c.op = None
      BY <1>1 DEF Release, TypeOK
<1>2. CASE c.op \in HereOps /\ c.op # None
      <2>1. Released(c.op, c.row) \in SUBSET Here.rows
            BY <1>2 DEF Released, TypeOK
      <2> QED BY <1>2, <2>1 DEF Release, TypeOK
<1> QED BY <1>1, <1>2

LEMMA ShowTyped ==
    ASSUME TypeOK, NEW n \in Nat, NEW R, Show(n, R)
    PROVE  shown' \in [Here.rows -> SUBSET Nat]
BY SeenTyped DEF Show, TypeOK

LEMMA ShowPartTyped ==
    ASSUME TypeOK, NEW n \in Nat, NEW r \in Here.rows, ShowPart(n, r)
    PROVE  shown' \in [Here.rows -> SUBSET Nat]
<1> DEFINE S == {i \in Seen(r, n) : log[i].write # "links"}
<1>1. S \in SUBSET Nat
      BY SeenTyped
<1>2. shown' = [shown EXCEPT ![r] = S]
      BY DEF ShowPart
<1> HIDE DEF S
<1> QED BY <1>1, <1>2 DEF TypeOK

LEMMA ErrorTyped ==
    ASSUME TypeOK, NEW q \in 1 .. Calls, call[q] \in WriteCalls, NEW u, Error(q, u)
    PROVE  busy' \in [HereOps -> SUBSET Here.rows]
<1>1. call[q].op \in HereOps
      BY DEF WriteCalls
<1>2. busy' = busy \/ Release(call[q])
      BY DEF Error, Freed
<1> QED BY <1>1, <1>2, ReleaseTyped DEF TypeOK

LEMMA InitTyped ==
    ASSUME Init
    PROVE  TypeOK
<1>1. page \in DOMAIN PageOf /\ key \in Keys
      BY DEF Init, ConsoleAssumption
<1>2. Reload(key) \in Slots /\ Idle \in Slots
      BY <1>1, LoadFields DEF Reload, Slots
<1>3. call \in [1 .. Calls -> Slots]
      BY <1>2 DEF Init
<1>4. log \in Seq(Entries)
      BY DEF Init
<1> QED BY <1>1, <1>3, <1>4 DEF Init, TypeOK

LEMMA UserTyped ==
    ASSUME TypeOK, Poll \/ (\E k \in Keys : Choose(k)) \/ (\E op \in HereOps : \E r \in Targets(op) : Send(op, r))
                        \/ (\E r \in Here.rows, w \in Kinds : Foreign(r, w))
    PROVE  TypeOK'
<1>1. CASE Poll
      <2>1. call' \in [1 .. Calls -> Slots]
            BY <1>1, PollEffect
      <2> QED BY <1>1, <2>1, TypedAgain DEF Poll, user, history, TypeOK
<1>2. ASSUME NEW k \in Keys, Choose(k) PROVE TypeOK'
      <2>1. call' \in [1 .. Calls -> Slots]
            BY <1>2, ChooseEffect
      <2>2. key' \in Keys /\ clicks' \in Nat
            BY <1>2 DEF Choose, TypeOK
      <2>3. failed' \in BOOLEAN
            BY <1>2 DEF Choose
      <2> QED BY <1>2, <2>1, <2>2, <2>3, TypedAgain DEF Choose, TypeOK
<1>3. ASSUME NEW op \in HereOps, NEW r \in Targets(op), Send(op, r) PROVE TypeOK'
      <2>1. r \in Here.rows /\ call' \in [1 .. Calls -> Slots]
            BY <1>3, SendEffect
      <2>2. Flag(op, r) \in SUBSET Here.rows
            BY <2>1 DEF Flag, TypeOK
      <2>3. busy' \in [HereOps -> SUBSET Here.rows] /\ clicks' \in Nat
            BY <1>3, <2>2 DEF Send, TypeOK
      <2> QED BY <1>3, <2>1, <2>3, TypedAgain DEF Send, history, TypeOK
<1>4. ASSUME NEW r \in Here.rows, NEW w \in Kinds, Foreign(r, w) PROVE TypeOK'
      <2>1. log' \in Seq(Entries)
            BY <1>4, ForeignEffect, Appended
      <2> QED BY <1>4, <2>1, TypedAgain DEF Foreign, user, TypeOK
<1> QED BY <1>1, <1>2, <1>3, <1>4

LEMMA ServerTyped ==
    ASSUME TypeOK, NEW q \in 1 .. Calls, ServeLoad(q) \/ ServeWrite(q) \/ Refuse(q)
    PROVE  TypeOK'
<1>1. CASE ServeLoad(q)
      <2>1. call' \in [1 .. Calls -> Slots]
            BY <1>1, ServeLoadEffect
      <2> QED BY <1>1, <2>1, TypedAgain DEF ServeLoad, user, history, TypeOK
<1>2. CASE ServeWrite(q)
      <2>1. call' \in [1 .. Calls -> Slots] /\ log' \in Seq(Entries)
            BY <1>2, ServeWriteEffect, Appended
      <2> QED BY <1>2, <2>1, TypedAgain DEF ServeWrite, user, TypeOK
<1>3. CASE Refuse(q)
      <2>1. call' \in [1 .. Calls -> Slots]
            BY <1>3, RefuseEffect
      <2> QED BY <1>3, <2>1, TypedAgain DEF Refuse, user, history, TypeOK
<1> QED BY <1>1, <1>2, <1>3

LEMMA PageTyped ==
    ASSUME TypeOK, NEW q \in 1 .. Calls, TakeLoad(q) \/ NextCall(q) \/ TakeWrite(q) \/ TakeRefused(q) \/ Lose(q)
    PROVE  TypeOK'
<1>1. CASE TakeLoad(q)
      <2>1. call[q] \in LoadCalls /\ call' \in [1 .. Calls -> Slots]
            BY <1>1, TakeLoadEffect
      <2>2. call[q].key \in Keys \cup {None} /\ call[q].seen \in Nat /\ call[q].op \in HereOps \cup {None}
            BY <2>1 DEF LoadCalls
      <2>3. keyOf' \in Keys \cup {None} /\ failed' \in BOOLEAN
            BY <1>1, <2>2 DEF TakeLoad, TypeOK
      <2>4. shown' \in [Here.rows -> SUBSET Nat]
            BY <1>1, <2>2, ShowTyped DEF TakeLoad, TypeOK
      <2>5. busy' \in [HereOps -> SUBSET Here.rows]
            BY <1>1, <2>2, ReleaseTyped DEF TakeLoad
      <2> QED BY <1>1, <2>1, <2>3, <2>4, <2>5, TypedAgain DEF TakeLoad, user, TypeOK
<1>2. CASE NextCall(q)
      <2>1. call' \in [1 .. Calls -> Slots]
            BY <1>2, NextCallEffect
      <2> QED BY <1>2, <2>1, TypedAgain DEF NextCall, user, history, TypeOK
<1>3. CASE TakeWrite(q)
      <2>1. call[q] \in WriteCalls /\ call' \in [1 .. Calls -> Slots] /\ gone' \in BOOLEAN
            BY <1>3, TakeWriteEffect
      <2>2. call[q].op \in HereOps /\ call[q].row \in Here.rows /\ call[q].seen \in Nat
            BY <2>1 DEF WriteCalls
      <2>3. \/ Show(call[q].seen, {call[q].row}) \/ ShowPart(call[q].seen, call[q].row)
            \/ shown' = [shown EXCEPT ![call[q].row] = @ \cup {call[q].seen}]
            \/ shown' = shown
            BY <1>3 DEF TakeWrite
      <2>4. shown' \in [Here.rows -> SUBSET Nat]
            <3>1. CASE Show(call[q].seen, {call[q].row})
                  BY <2>2, <3>1, ShowTyped
            <3>2. CASE shown' = [shown EXCEPT ![call[q].row] = @ \cup {call[q].seen}]
                  BY <2>2, <3>2 DEF TypeOK
            <3>3. CASE shown' = shown
                  BY <3>3 DEF TypeOK
            <3>4. CASE ShowPart(call[q].seen, call[q].row)
                  BY <2>2, <3>4, ShowPartTyped
            <3> QED BY <2>3, <3>1, <3>2, <3>3, <3>4
      <2>5. busy' = busy \/ Release(call[q])
            BY <1>3 DEF TakeWrite
      <2>6. busy' \in [HereOps -> SUBSET Here.rows]
            BY <2>2, <2>5, ReleaseTyped DEF TypeOK
      <2>7. form' \in [HereOps -> Nat]
            BY <1>3, <2>2 DEF TakeWrite, TypeOK
      <2> QED BY <1>3, <2>1, <2>4, <2>6, <2>7, TypedAgain DEF TakeWrite, TypeOK
<1>4. CASE TakeRefused(q)
      <2>1. call[q] \in WriteCalls /\ call' \in [1 .. Calls -> Slots]
            BY <1>4, TakeRefusedEffect
      <2>2. busy' \in [HereOps -> SUBSET Here.rows]
            BY <1>4, <2>1, ErrorTyped DEF TakeRefused
      <2> QED BY <1>4, <2>1, <2>2, TypedAgain DEF TakeRefused, user, TypeOK
<1>5. CASE Lose(q)
      <2>1. lost' \in Nat /\ UNCHANGED <<user, gone, log, shown, keyOf>>
            BY <1>5 DEF Lose, TypeOK
      <2>2. CASE call[q].load
            <3>1. call[q] \in LoadCalls /\ call' \in [1 .. Calls -> Slots]
                  BY <1>5, <2>2, LoseLoadEffect
            <3>2. call[q].op \in HereOps \cup {None}
                  BY <3>1 DEF LoadCalls
            <3>3. busy' \in [HereOps -> SUBSET Here.rows] /\ failed' \in BOOLEAN
                  BY <1>5, <2>2, <3>2, ReleaseTyped DEF Lose, TypeOK
            <3> QED BY <2>1, <3>1, <3>3, TypedAgain DEF user, TypeOK
      <2>3. CASE ~ call[q].load
            <3>1. call[q] \in WriteCalls /\ call' \in [1 .. Calls -> Slots]
                  BY <1>5, <2>3, LoseWriteEffect
            <3>2. Error(q, TRUE) /\ failed' = failed
                  BY <1>5, <2>3 DEF Lose
            <3>3. busy' \in [HereOps -> SUBSET Here.rows]
                  BY <3>1, <3>2, ErrorTyped
            <3> QED BY <2>1, <3>1, <3>2, <3>3, TypedAgain DEF user, TypeOK
      <2> QED BY <2>2, <2>3
<1> QED BY <1>1, <1>2, <1>3, <1>4, <1>5

LEMMA StepTyped == TypeOK /\ [Next]_vars => TypeOK'
<1>1. ASSUME TypeOK, Next PROVE TypeOK'
      BY <1>1, UserTyped, ServerTyped, PageTyped DEF Next, Proceed
<1>2. ASSUME TypeOK, UNCHANGED vars PROVE TypeOK'
      BY <1>2, TypedAgain DEF vars, user, history, TypeOK
<1> QED BY <1>1, <1>2

(* The state of a page, its calls and what the server noted stay what the  *)
(* code takes them to be, whichever page it is.                            *)
THEOREM PagesTyped == Spec => []TypeOK
<1> QED BY InitTyped, StepTyped, PTL DEF Spec

-----------------------------------------------------------------------------
(* Buttons: whoever set a flag has a call that will release it             *)

(* A page that was left has no call that it waits for, and makes none.     *)
Gone == gone => ~ Here.polls /\ ~ Here.chooses /\ \A q \in 1 .. Calls : ~ Live(call[q])

(* Each row that an operation's flag holds has a live call of that         *)
(* operation, of that row where the flag holds several.                    *)
Held ==
    ~ gone => \A op \in HereOps : \A r \in busy[op] :
                  \E q \in 1 .. Calls : /\ Live(call[q]) /\ call[q].op = op
                                        /\ ByRow(op) => call[q].row = r

(* A call stands for another: it is live, of the same button.              *)
Stands(c, d) == Live(d) /\ d.op = c.op /\ d.row = c.row

LEMMA IdleNotLive == ~ Live(Idle)
BY DEF Live, Idle

LEMMA LiveKinds ==
    ASSUME NEW c
    PROVE  /\ c \in LoadCalls => Live(c)
           /\ c \in WriteCalls /\ c.at # "orphan" => Live(c)
           /\ c.at \in {"asked", "ok", "refused"} => Live(c)
           /\ c.at = "orphan" => ~ Live(c)
BY DEF LoadCalls, WriteCalls, Live

LEMMA GoneKept ==
    ASSUME TypeOK, Gone, page' = page, gone' = gone,
           \A p \in 1 .. Calls : Live(call'[p]) => \E o \in 1 .. Calls : Live(call[o])
    PROVE  Gone'
BY SamePage DEF Gone, Live

LEMMA HeldKept ==
    ASSUME TypeOK, Held, page' = page, gone' = gone, busy' = busy,
           \A p \in 1 .. Calls : Live(call[p]) => \E o \in 1 .. Calls : Stands(call[p], call'[o])
    PROVE  Held'
<1> SUFFICES ASSUME ~ gone, NEW op \in HereOps, NEW r \in busy[op]
             PROVE  \E q \in 1 .. Calls : /\ Live(call'[q]) /\ call'[q].op = op
                                          /\ ByRow(op) => call'[q].row = r
    BY SamePage DEF Held, Live, ByRow
<1>1. PICK p \in 1 .. Calls : Live(call[p]) /\ call[p].op = op /\ (ByRow(op) => call[p].row = r)
      BY DEF Held
<1>2. PICK o \in 1 .. Calls : Stands(call[p], call'[o])
      BY <1>1
<1> QED BY <1>1, <1>2 DEF Stands

(* What a call held is released; what others hold is not touched.          *)
LEMMA HeldReleased ==
    ASSUME TypeOK, Held, page' = page, gone' = gone, NEW q \in 1 .. Calls, Release(call[q]),
           call[q].op \in HereOps \cup {None},
           \A p \in 1 .. Calls : p # q /\ Live(call[p]) => Stands(call[p], call'[p])
    PROVE  Held'
<1> SUFFICES ASSUME ~ gone, NEW op \in HereOps, NEW r \in busy'[op]
             PROVE  \E p \in 1 .. Calls : /\ Live(call'[p]) /\ call'[p].op = op
                                          /\ ByRow(op) => call'[p].row = r
    BY SamePage DEF Held, Live, ByRow
<1>1. op # None
      BY HereSound DEF TypeOK
<1>2. r \in busy[op] /\ (op = call[q].op => ByRow(op) /\ r # call[q].row)
      <2>1. CASE op # call[q].op
            BY <2>1 DEF Release, TypeOK
      <2>2. CASE op = call[q].op
            <3>1. busy'[op] = Released(op, call[q].row)
                  BY <1>1, <2>2 DEF Release, TypeOK
            <3> QED BY <2>2, <3>1 DEF Released, ByRow
      <2> QED BY <2>1, <2>2
<1>3. PICK p \in 1 .. Calls : Live(call[p]) /\ call[p].op = op /\ (ByRow(op) => call[p].row = r)
      BY <1>2 DEF Held
<1>4. p # q
      BY <1>2, <1>3
<1> QED BY <1>3, <1>4 DEF Stands


LEMMA InitHeld ==
    ASSUME Init
    PROVE  Gone /\ Held
BY DEF Init, Gone, Held

LEMMA UserHeld ==
    ASSUME TypeOK, Gone, Held,
           Poll \/ (\E k \in Keys : Choose(k)) \/ (\E op \in HereOps : \E r \in Targets(op) : Send(op, r))
                \/ (\E r \in Here.rows, w \in Kinds : Foreign(r, w))
    PROVE  Gone' /\ Held'
<1>1. CASE Poll
      <2>1. page' = page /\ gone' = gone /\ busy' = busy /\ ~ gone
            BY <1>1 DEF Poll, Due, Gone, user
      <2>2. \A p \in 1 .. Calls : Live(call[p]) => Stands(call[p], call'[p])
            BY <1>1, PollEffect, IdleNotLive DEF Stands, Others
      <2> QED BY <2>1, <2>2, HeldKept DEF Gone
<1>2. ASSUME NEW k \in Keys, Choose(k) PROVE Gone' /\ Held'
      <2>1. page' = page /\ gone' = gone /\ ~ gone
            BY <1>2 DEF Choose, Gone
      <2>2. HereOps = {} /\ HereOps' = HereOps
            BY <1>2, <2>1, ChooseEffect, SamePage
      <2> QED BY <2>1, <2>2 DEF Gone, Held
<1>3. ASSUME NEW op \in HereOps, NEW r \in Targets(op), Send(op, r) PROVE Gone' /\ Held'
      <2>1. page' = page /\ gone' = gone /\ ~ gone /\ busy' = [busy EXCEPT ![op] = Flag(op, r)]
            BY <1>3 DEF Send, Offered
      <2>2. \A p \in 1 .. Calls : Live(call[p]) => Stands(call[p], call'[p])
            BY <1>3, SendEffect, IdleNotLive DEF Stands, Others
      <2>3. Fresh \in 1 .. Calls /\ Live(call'[Fresh]) /\ call'[Fresh].op = op /\ call'[Fresh].row = r
            <3>1. r \in Here.rows /\ Fresh \in 1 .. Calls /\ call'[Fresh] = Write(op, r)
                  BY <1>3, SendEffect
            <3>2. Write(op, r).at = "asked" /\ Write(op, r).op = op /\ Write(op, r).row = r
                  BY <3>1, WriteFields
            <3> QED BY <3>1, <3>2, LiveKinds
      <2>4. ASSUME NEW o \in HereOps, NEW t \in busy'[o]
            PROVE  \E q \in 1 .. Calls : /\ Live(call'[q]) /\ call'[q].op = o
                                         /\ ByRow(o) => call'[q].row = t
            <3>1. CASE t \in busy[o]
                  <4>1. PICK q \in 1 .. Calls : Live(call[q]) /\ call[q].op = o /\ (ByRow(o) => call[q].row = t)
                        BY <2>1, <3>1 DEF Held
                  <4> QED BY <2>2, <4>1 DEF Stands
            <3>2. CASE t \notin busy[o]
                  <4>1. o = op /\ t \in Flag(op, r)
                        BY <2>1, <2>4, <3>2 DEF TypeOK
                  <4>2. t = r
                        BY <3>2, <4>1 DEF Flag
                  <4> QED BY <2>3, <4>1, <4>2
            <3> QED BY <3>1, <3>2
      <2> QED BY <2>1, <2>4, SamePage DEF Gone, Held, Live, ByRow
<1>4. ASSUME NEW r \in Here.rows, NEW w \in Kinds, Foreign(r, w) PROVE Gone' /\ Held'
      <2>1. page' = page /\ gone' = gone /\ busy' = busy /\ call' = call
            BY <1>4 DEF Foreign, user
      <2> QED BY <2>1, GoneKept, HeldKept DEF Stands
<1> QED BY <1>1, <1>2, <1>3, <1>4

LEMMA ServerHeld ==
    ASSUME TypeOK, Gone, Held, NEW q \in 1 .. Calls, ServeLoad(q) \/ ServeWrite(q) \/ Refuse(q) \/ NextCall(q)
    PROVE  Gone' /\ Held'
<1>1. page' = page /\ gone' = gone /\ busy' = busy
      BY DEF ServeLoad, ServeWrite, Refuse, NextCall, user
<1>2. Others(q)
      BY ServeLoadEffect, ServeWriteEffect, RefuseEffect, NextCallEffect
<1>3. /\ Live(call[q]) => Stands(call[q], call'[q])
      /\ Live(call'[q]) => Live(call[q])
      <2>1. CASE ServeLoad(q)
            BY <2>1, ServeLoadEffect, LiveKinds DEF Stands
      <2>2. CASE ServeWrite(q)
            BY <2>2, ServeWriteEffect, LiveKinds, IdleNotLive DEF Stands, Same
      <2>3. CASE Refuse(q)
            BY <2>3, RefuseEffect, LiveKinds, IdleNotLive DEF Stands, Same
      <2>4. CASE NextCall(q)
            BY <2>4, NextCallEffect, LiveKinds DEF Stands, Same
      <2> QED BY <2>1, <2>2, <2>3, <2>4
<1>4. \A p \in 1 .. Calls : /\ Live(call[p]) => Stands(call[p], call'[p])
                            /\ Live(call'[p]) => Live(call[p])
      BY <1>2, <1>3 DEF Others, Stands
<1> QED BY <1>1, <1>4, GoneKept, HeldKept

LEMMA TakenHeld ==
    ASSUME TypeOK, Gone, Held, NEW q \in 1 .. Calls, TakeLoad(q) \/ TakeWrite(q)
    PROVE  Gone' /\ Held'
<1>1. CASE TakeLoad(q)
      <2>1. page' = page /\ gone' = gone /\ Release(call[q])
            BY <1>1 DEF TakeLoad, user
      <2>2. call[q] \in LoadCalls /\ call[q].at = "ok" /\ Others(q) /\ call'[q] = Idle
            BY <1>1, TakeLoadEffect
      <2>3. call[q].op \in HereOps \cup {None}
            BY <2>2 DEF LoadCalls
      <2>4. \A p \in 1 .. Calls : /\ p # q /\ Live(call[p]) => Stands(call[p], call'[p])
                                  /\ Live(call'[p]) => Live(call[p])
            BY <2>2, IdleNotLive DEF Stands, Others
      <2> QED BY <2>1, <2>3, <2>4, GoneKept, HeldReleased
<1>2. CASE TakeWrite(q)
      <2> DEFINE c == call[q]
      <2>1. page' = page
            BY <1>2 DEF TakeWrite
      <2>2. /\ c \in WriteCalls /\ c.at = "ok" /\ gone' \in BOOLEAN
            /\ gone' => OpOf[c.op].then = "leave" /\ \A p \in 1 .. Calls : call'[p] = Left(call[p])
            /\ ~ gone' => call'[q] = After(c) /\ Others(q)
            BY <1>2, TakeWriteEffect
      <2>3. c.op \in HereOps /\ SoundOp(OpOf[c.op]) /\ Live(c)
            BY <2>2, HereSound, LiveKinds DEF TypeOK, WriteCalls
      <2>4. gone = FALSE
            BY <2>3 DEF Gone, TypeOK
      <2>5. CASE gone'
            <3>1. ~ Here.polls /\ ~ Here.chooses
                  BY <2>2, <2>3, <2>5, HereSound DEF TypeOK
            <3>2. \A p \in 1 .. Calls : ~ Live(call'[p])
                  BY <2>2, <2>5, CallTyped, LeftFields, LiveKinds, IdleNotLive
            <3> QED BY <2>1, <2>5, <3>1, <3>2, SamePage DEF Gone, Held, Live
      <2>6. CASE ~ gone' /\ OpOf[c.op].waits
            <3>1. busy' = busy
                  BY <1>2, <2>6 DEF TakeWrite
            <3>2. Stands(c, After(c))
                  BY <2>2, <2>3, <2>6, AfterFields, LiveKinds DEF SoundOp, Stands
            <3>3. \A p \in 1 .. Calls : Live(call[p]) => Stands(call[p], call'[p])
                  BY <2>2, <2>6, <3>2 DEF Others, Stands
            <3>4. gone' = gone
                  BY <2>2, <2>4, <2>6
            <3> QED BY <2>1, <2>6, <3>1, <3>3, <3>4, HeldKept DEF Gone
      <2>7. CASE ~ gone' /\ ~ OpOf[c.op].waits
            <3>1. Release(c)
                  BY <1>2, <2>7 DEF TakeWrite
            <3>2. \A p \in 1 .. Calls : p # q /\ Live(call[p]) => Stands(call[p], call'[p])
                  BY <2>2, <2>7 DEF Others, Stands
            <3>3. gone' = gone
                  BY <2>2, <2>4, <2>7
            <3> QED BY <2>1, <2>3, <2>7, <3>1, <3>2, <3>3, HeldReleased DEF Gone
      <2> QED BY <2>5, <2>6, <2>7
<1> QED BY <1>1, <1>2

LEMMA FailedHeld ==
    ASSUME TypeOK, Gone, Held, NEW q \in 1 .. Calls, TakeRefused(q) \/ Lose(q)
    PROVE  Gone' /\ Held'
<1> DEFINE c == call[q]
<1>1. page' = page /\ gone' = gone
      BY DEF TakeRefused, Lose, user
<1>2. Live(c)
      BY DEF TakeRefused, Lose, Live
<1>3. gone' = FALSE /\ Gone'
      BY <1>1, <1>2 DEF Gone, TypeOK
<1>4. CASE c.load
      <2>1. Lose(q)
            BY <1>4, TakeRefusedEffect DEF WriteCalls
      <2>2. Release(c)
            BY <1>4, <2>1 DEF Lose
      <2>3. c.op \in HereOps \cup {None} /\ Others(q)
            BY <1>4, <2>1, LoseLoadEffect DEF LoadCalls
      <2>4. \A p \in 1 .. Calls : p # q /\ Live(call[p]) => Stands(call[p], call'[p])
            BY <2>3 DEF Others, Stands
      <2> QED BY <1>1, <1>3, <2>2, <2>3, <2>4, HeldReleased
<1>5. CASE ~ c.load
      <2>1. c \in WriteCalls
            BY <1>5, TakeRefusedEffect, LoseWriteEffect
      <2>2. c.op \in HereOps
            BY <2>1 DEF WriteCalls
      <2>3. \E u \in BOOLEAN : Error(q, u)
            BY <1>5 DEF TakeRefused, Lose
      <2>4. CASE OpOf[c.op].retries
            <3>1. busy' = busy
                  BY <2>3, <2>4 DEF Error
            <3>2. Stands(c, Answered(c))
                  BY <2>1, <2>4, AnsweredFields, LiveKinds DEF Stands
            <3>3. CASE call'[q] = Answered(c) /\ Others(q)
                  <4>1. \A p \in 1 .. Calls : Live(call[p]) => Stands(call[p], call'[p])
                        BY <3>2, <3>3 DEF Others, Stands
                  <4> QED BY <1>1, <1>3, <3>1, <4>1, HeldKept
            <3>4. CASE /\ Fresh \in 1 .. Calls /\ call[Fresh] = Idle /\ call'[Fresh] = Answered(c)
                       /\ \A p \in 1 .. Calls : p # q /\ p # Fresh => call'[p] = call[p]
                  <4>1. \A p \in 1 .. Calls : Live(call[p]) => \E o \in 1 .. Calls : Stands(call[p], call'[o])
                        <5> SUFFICES ASSUME NEW p \in 1 .. Calls, Live(call[p])
                                     PROVE  \E o \in 1 .. Calls : Stands(call[p], call'[o])
                            OBVIOUS
                        <5>1. CASE p = q
                              BY <3>2, <3>4, <5>1
                        <5>2. CASE p # q
                              <6>1. p # Fresh
                                    BY <3>4, IdleNotLive
                              <6> QED BY <3>4, <5>2, <6>1 DEF Stands
                        <5> QED BY <5>1, <5>2
                  <4> QED BY <1>1, <1>3, <3>1, <4>1, HeldKept
            <3> QED BY <1>5, <2>4, <3>3, <3>4, TakeRefusedEffect, LoseWriteEffect
      <2>5. CASE ~ OpOf[c.op].retries
            <3>1. Release(c)
                  BY <2>3, <2>5 DEF Error, Freed
            <3>2. Others(q)
                  BY <1>5, <2>5, TakeRefusedEffect, LoseWriteEffect
            <3>3. \A p \in 1 .. Calls : p # q /\ Live(call[p]) => Stands(call[p], call'[p])
                  BY <3>2 DEF Others, Stands
            <3> QED BY <1>1, <1>3, <2>2, <3>1, <3>3, HeldReleased
      <2> QED BY <2>4, <2>5
<1> QED BY <1>3, <1>4, <1>5

LEMMA StepHeld == TypeOK /\ Gone /\ Held /\ [Next]_vars => Gone' /\ Held'
<1>1. ASSUME TypeOK, Gone, Held, Next PROVE Gone' /\ Held'
      BY <1>1, UserHeld, ServerHeld, TakenHeld, FailedHeld DEF Next, Proceed
<1>2. ASSUME TypeOK, Gone, Held, UNCHANGED vars PROVE Gone' /\ Held'
      <2>1. page' = page /\ gone' = gone /\ busy' = busy /\ call' = call
            BY <1>2 DEF vars, user
      <2> QED BY <1>2, <2>1, GoneKept, HeldKept DEF Stands
<1> QED BY <1>1, <1>2

LEMMA HeldReturns == TypeOK /\ Held => ButtonsReturn
<1> SUFFICES ASSUME TypeOK, Held, \A q \in 1 .. Calls : ~ Live(call[q]), ~ gone, NEW op \in HereOps
             PROVE  busy[op] = {}
    BY DEF ButtonsReturn, TypeOK, Live
<1> QED BY DEF Held

(* When no call is open, however the last ones ended - with an answer,     *)
(* refused, given up by the browser, in the middle of a form that makes    *)
(* two calls - every button of every page is enabled again.                *)
THEOREM ButtonsAlwaysReturn == Spec => []ButtonsReturn
<1>1. Init => TypeOK /\ Gone /\ Held
      BY InitTyped, InitHeld
<1>2. TypeOK /\ Gone /\ Held /\ [Next]_vars => (TypeOK /\ Gone /\ Held)'
      BY StepTyped, StepHeld
<1> QED BY <1>1, <1>2, HeldReturns, PTL DEF Spec

-----------------------------------------------------------------------------
(* The choice: whichever answer comes last, it is that of the choice made  *)

(* A call belongs to the choice, or its answer will be ignored.            *)
KeyKnown ==
    \A q \in 1 .. Calls : call[q] # Idle => call[q].key = key \/ (Here.chooses /\ call[q].key = None)

(* What is shown belongs to the choice, or the load of the choice is on    *)
(* its way.                                                                *)
KeyComes ==
    ~ gone /\ ~ failed => \/ keyOf \in {None, key}
                          \/ \E q \in 1 .. Calls : Loading(call[q]) /\ call[q].key = key

LEMMA KeyReal == ASSUME TypeOK PROVE key # None
BY DEF TypeOK, ConsoleAssumption, None

LEMMA LoadingKinds ==
    ASSUME NEW c
    PROVE  /\ c \in LoadCalls => Loading(c) /\ ~ Writing(c) /\ c # Idle
           /\ c \in WriteCalls => Writing(c) /\ ~ Loading(c) /\ c # Idle
           /\ c = Idle => ~ Loading(c) /\ ~ Writing(c) /\ ~ Live(c)
<1>1. c \in LoadCalls => c \in Slots
      BY DEF Slots
<1>2. c \in WriteCalls => c \in Slots
      BY DEF Slots
<1>3. c = Idle => ~ Loading(c) /\ ~ Writing(c) /\ ~ Live(c)
      BY DEF Idle, Loading, Writing, Live
<1> QED BY <1>1, <1>2, <1>3, SlotKinds

LEMMA KeysKept ==
    ASSUME TypeOK, KeyKnown, page' = page, key' = key,
           \A p \in 1 .. Calls : \/ call'[p] = Idle \/ call'[p].key = key
                                 \/ \E o \in 1 .. Calls : call[o] # Idle /\ call'[p].key = call[o].key
    PROVE  KeyKnown'
<1>1. Idle' = Idle
      BY DEF Idle
<1> QED BY <1>1, SamePage DEF KeyKnown

LEMMA ComesKept ==
    ASSUME TypeOK, KeyComes, key' = key, keyOf' = keyOf, gone' = gone, failed' = failed,
           \A p \in 1 .. Calls : Loading(call[p]) => Loading(call'[p]) /\ call'[p].key = call[p].key
    PROVE  KeyComes'
BY DEF KeyComes, Loading

LEMMA InitKeys ==
    ASSUME Init
    PROVE  KeyKnown /\ KeyComes
<1>1. TypeOK
      BY InitTyped
<1>2. Reload(key).key = key
      BY DEF Reload, Load
<1> QED BY <1>2 DEF Init, KeyKnown, KeyComes

LEMMA UserKeys ==
    ASSUME TypeOK, KeyKnown, KeyComes,
           Poll \/ (\E k \in Keys : Choose(k)) \/ (\E op \in HereOps : \E r \in Targets(op) : Send(op, r))
                \/ (\E r \in Here.rows, w \in Kinds : Foreign(r, w))
    PROVE  KeyKnown' /\ KeyComes'
<1>1. CASE Poll
      <2>1. page' = page /\ key' = key /\ keyOf' = keyOf /\ gone' = gone /\ failed' = failed
            BY <1>1 DEF Poll, user, history
      <2>2. /\ Fresh \in 1 .. Calls /\ call[Fresh] = Idle /\ Others(Fresh)
            /\ call'[Fresh] = Reload(key)
            BY <1>1, PollEffect
      <2>3. call'[Fresh].key = key
            BY <2>2 DEF Reload, Load
      <2>4. \A p \in 1 .. Calls : p # Fresh => call'[p] = call[p]
            BY <2>2 DEF Others
      <2>5. KeyKnown'
            BY <2>1, <2>3, <2>4, KeysKept
      <2>6. KeyComes'
            BY <2>1, <2>2, <2>4, LoadingKinds, ComesKept
      <2> QED BY <2>5, <2>6
<1>2. ASSUME NEW k \in Keys, Choose(k) PROVE KeyKnown' /\ KeyComes'
      <2>1. page' = page /\ key' = k /\ Here.chooses
            BY <1>2 DEF Choose
      <2>2. /\ Fresh \in 1 .. Calls /\ call'[Fresh] = Reload(k) /\ Reload(k) \in LoadCalls
            /\ \A p \in 1 .. Calls : p # Fresh => call'[p] = Idle \/ call'[p].key = None
            BY <1>2, ChooseEffect
      <2>3. call'[Fresh].key = k /\ Loading(call'[Fresh])
            BY <2>2, LoadingKinds DEF Reload, Load
      <2>4. KeyKnown'
            BY <2>1, <2>2, <2>3, SamePage DEF KeyKnown, Idle
      <2>5. KeyComes'
            BY <2>1, <2>2, <2>3 DEF KeyComes, Loading
      <2> QED BY <2>4, <2>5
<1>3. ASSUME NEW op \in HereOps, NEW r \in Targets(op), Send(op, r) PROVE KeyKnown' /\ KeyComes'
      <2>1. page' = page /\ key' = key /\ keyOf' = keyOf /\ gone' = gone /\ failed' = failed
            BY <1>3 DEF Send, history
      <2>2. /\ r \in Here.rows /\ Fresh \in 1 .. Calls /\ call[Fresh] = Idle /\ Others(Fresh)
            /\ call'[Fresh] = Write(op, r)
            BY <1>3, SendEffect
      <2>3. call'[Fresh].key = key
            BY <2>2 DEF Write
      <2>4. \A p \in 1 .. Calls : p # Fresh => call'[p] = call[p]
            BY <2>2 DEF Others
      <2>5. KeyKnown'
            BY <2>1, <2>3, <2>4, KeysKept
      <2>6. KeyComes'
            BY <2>1, <2>2, <2>4, LoadingKinds, ComesKept
      <2> QED BY <2>5, <2>6
<1>4. ASSUME NEW r \in Here.rows, NEW w \in Kinds, Foreign(r, w) PROVE KeyKnown' /\ KeyComes'
      <2>1. /\ page' = page /\ key' = key /\ keyOf' = keyOf /\ gone' = gone /\ failed' = failed
            /\ call' = call
            BY <1>4 DEF Foreign, user
      <2> QED BY <2>1, KeysKept, ComesKept
<1> QED BY <1>1, <1>2, <1>3, <1>4

LEMMA ServerKeys ==
    ASSUME TypeOK, KeyKnown, KeyComes, NEW q \in 1 .. Calls,
           ServeLoad(q) \/ ServeWrite(q) \/ Refuse(q) \/ NextCall(q)
    PROVE  KeyKnown' /\ KeyComes'
<1>1. page' = page /\ key' = key /\ keyOf' = keyOf /\ gone' = gone /\ failed' = failed
      BY DEF ServeLoad, ServeWrite, Refuse, NextCall, user, history
<1>2. Others(q)
      BY ServeLoadEffect, ServeWriteEffect, RefuseEffect, NextCallEffect
<1>3. call[q] # Idle /\ (call'[q] = Idle \/ call'[q].key = call[q].key)
      <2>1. CASE ServeLoad(q)
            BY <2>1, ServeLoadEffect, LoadingKinds
      <2>2. CASE ServeWrite(q)
            BY <2>2, ServeWriteEffect, LoadingKinds DEF Same
      <2>3. CASE Refuse(q)
            BY <2>3, RefuseEffect, LoadingKinds DEF Same
      <2>4. CASE NextCall(q)
            BY <2>4, NextCallEffect, LoadingKinds DEF Same
      <2> QED BY <2>1, <2>2, <2>3, <2>4
<1>4. Loading(call[q]) => Loading(call'[q]) /\ call'[q].key = call[q].key
      BY ServeLoadEffect, ServeWriteEffect, RefuseEffect, NextCallEffect, LoadingKinds
<1>5. KeyKnown'
      BY <1>1, <1>2, <1>3, KeysKept DEF Others
<1>6. KeyComes'
      BY <1>1, <1>2, <1>4, ComesKept DEF Others
<1> QED BY <1>5, <1>6

LEMMA TakenKeys ==
    ASSUME TypeOK, Gone, KeyKnown, KeyComes, NEW q \in 1 .. Calls, TakeLoad(q) \/ TakeWrite(q)
    PROVE  KeyKnown' /\ KeyComes'
<1>1. CASE TakeLoad(q)
      <2>1. page' = page /\ key' = key /\ gone' = gone
            BY <1>1 DEF TakeLoad, user
      <2>2. call[q] \in LoadCalls /\ call[q].at = "ok" /\ Others(q) /\ call'[q] = Idle
            BY <1>1, TakeLoadEffect
      <2>3. KeyKnown'
            BY <2>1, <2>2, KeysKept DEF Others
      <2>4. CASE call[q].key = None
            <3>1. keyOf' = keyOf /\ failed' = failed
                  BY <1>1, <2>4 DEF TakeLoad
            <3>2. \A p \in 1 .. Calls : Loading(call[p]) /\ call[p].key = key => call'[p] = call[p]
                  BY <2>2, <2>4, KeyReal DEF Others
            <3> QED BY <2>1, <2>3, <3>1, <3>2 DEF KeyComes, Loading
      <2>5. CASE call[q].key # None
            <3>1. keyOf' = call[q].key
                  BY <1>1, <2>5 DEF TakeLoad
            <3>2. call[q].key = key
                  BY <2>2, <2>5, LoadingKinds DEF KeyKnown
            <3> QED BY <2>1, <2>3, <3>1, <3>2 DEF KeyComes
      <2> QED BY <2>4, <2>5
<1>2. CASE TakeWrite(q)
      <2>1. page' = page /\ key' = key /\ keyOf' = keyOf /\ failed' = failed
            BY <1>2 DEF TakeWrite
      <2>2. /\ call[q] \in WriteCalls
            /\ gone' => \A p \in 1 .. Calls : call'[p] = Left(call[p])
            /\ ~ gone' => call'[q] = After(call[q]) /\ Others(q)
            BY <1>2, TakeWriteEffect
      <2>3. CASE gone'
            <3>1. \A p \in 1 .. Calls : call'[p] = Idle \/ (call[p] # Idle /\ call'[p].key = call[p].key)
                  BY <2>2, <2>3, CallTyped, LeftFields, LoadingKinds DEF Same
            <3> QED BY <2>1, <2>3, <3>1, KeysKept DEF KeyComes
      <2>4. CASE ~ gone'
            <3>1. call[q] # Idle /\ (call'[q] = Idle \/ call'[q].key = call[q].key)
                  BY <2>2, <2>4, AfterFields, LoadingKinds
            <3>2. KeyKnown'
                  BY <2>1, <2>2, <2>4, <3>1, KeysKept DEF Others
            <3>3. \A p \in 1 .. Calls : Loading(call[p]) => call'[p] = call[p]
                  BY <2>2, <2>4, LoadingKinds DEF Others
            <3>4. call[q].at = "ok" /\ ~ gone
                  BY <1>2 DEF TakeWrite, Gone, Live
            <3> QED BY <2>1, <3>2, <3>3, <3>4 DEF KeyComes, Loading
      <2> QED BY <2>3, <2>4
<1> QED BY <1>1, <1>2

LEMMA FailedKeys ==
    ASSUME TypeOK, KeyKnown, KeyComes, NEW q \in 1 .. Calls, TakeRefused(q) \/ Lose(q)
    PROVE  KeyKnown' /\ KeyComes'
<1> DEFINE c == call[q]
<1>1. page' = page /\ key' = key /\ keyOf' = keyOf /\ gone' = gone
      BY DEF TakeRefused, Lose, user
<1>2. CASE c.load
      <2>1. Lose(q)
            BY <1>2, TakeRefusedEffect DEF WriteCalls
      <2>2. c \in LoadCalls /\ Others(q) /\ call'[q] = Idle
            BY <1>2, <2>1, LoseLoadEffect
      <2>3. failed' = (failed \/ c.key = key)
            BY <1>2, <2>1 DEF Lose
      <2>4. KeyKnown'
            BY <1>1, <2>2, KeysKept DEF Others
      <2> QED BY <1>1, <2>2, <2>3, <2>4 DEF KeyComes, Others, Loading
<1>3. CASE ~ c.load
      <2>1. c \in WriteCalls
            BY <1>3, TakeRefusedEffect, LoseWriteEffect
      <2>2. failed' = failed
            BY <1>3 DEF TakeRefused, Lose
      <2>3. \A p \in 1 .. Calls : \/ call'[p] = call[p]
                                  \/ /\ ~ Loading(call[p])
                                     /\ call'[p] = Idle \/ call'[p].key = c.key
            <3>1. Answered(c) = Idle \/ Answered(c).key = c.key
                  BY <2>1, AnsweredFields
            <3>2. ~ Loading(c) /\ ~ Loading(Idle)
                  BY <2>1, LoadingKinds
            <3>3. CASE call'[q] = Answered(c) /\ Others(q)
                  BY <3>1, <3>2, <3>3 DEF Others
            <3>4. CASE Lose(q) /\ c.at = "asked"
                  <4>1. call'[q].key = c.key
                        BY <1>3, <3>4, LoseWriteEffect DEF Same
                  <4>2. \/ Others(q)
                        \/ /\ call[Fresh] = Idle /\ call'[Fresh] = Answered(c)
                           /\ \A p \in 1 .. Calls : p # q /\ p # Fresh => call'[p] = call[p]
                        BY <1>3, <3>4, LoseWriteEffect
                  <4> QED BY <3>1, <3>2, <4>1, <4>2 DEF Others
            <3> QED BY <1>3, <3>3, <3>4, TakeRefusedEffect, LoseWriteEffect
      <2>4. KeyKnown'
            BY <1>1, <2>1, <2>3, LoadingKinds, KeysKept
      <2>5. KeyComes'
            BY <1>1, <2>2, <2>3, ComesKept
      <2> QED BY <2>4, <2>5
<1> QED BY <1>2, <1>3

LEMMA StepKeys == TypeOK /\ Gone /\ KeyKnown /\ KeyComes /\ [Next]_vars => KeyKnown' /\ KeyComes'
<1>1. ASSUME TypeOK, Gone, KeyKnown, KeyComes, Next PROVE KeyKnown' /\ KeyComes'
      BY <1>1, UserKeys, ServerKeys, TakenKeys, FailedKeys DEF Next, Proceed
<1>2. ASSUME TypeOK, KeyKnown, KeyComes, UNCHANGED vars PROVE KeyKnown' /\ KeyComes'
      <2>1. /\ page' = page /\ key' = key /\ keyOf' = keyOf /\ gone' = gone /\ failed' = failed
            /\ call' = call
            BY <1>2 DEF vars, user, history
      <2> QED BY <1>2, <2>1, KeysKept, ComesKept
<1> QED BY <1>1, <1>2

LEMMA KeyShown == TypeOK /\ KeyComes => ChosenShown
BY LoadingKinds DEF ChosenShown, Quiet, KeyComes, TypeOK

(* A page on which something is chosen shows, when nothing is under way,   *)
(* what belongs to the choice, however the answers to the choices made     *)
(* before overtook each other, unless the load of the choice failed.       *)
THEOREM ChosenIsShown == Spec => []ChosenShown
<1>1. Init => TypeOK /\ Gone /\ Held /\ KeyKnown /\ KeyComes
      BY InitTyped, InitHeld, InitKeys
<1>2. /\ TypeOK /\ Gone /\ Held /\ KeyKnown /\ KeyComes /\ [Next]_vars
      => (TypeOK /\ Gone /\ Held /\ KeyKnown /\ KeyComes)'
      BY StepTyped, StepHeld, StepKeys
<1> QED BY <1>1, <1>2, KeyShown, PTL DEF Spec

-----------------------------------------------------------------------------
(* Forms: one call at a time, for what the form holds now                  *)

(* A form has at most one live call, and its button is disabled meanwhile. *)
Alone ==
    ~ gone => \A q \in 1 .. Calls :
                  Live(call[q]) /\ call[q].op # None /\ IsForm(call[q].op) =>
                      /\ busy[call[q].op] # {}
                      /\ \A p \in 1 .. Calls : Live(call[p]) /\ call[p].op = call[q].op => p = q

LEMMA AloneKept ==
    ASSUME TypeOK, Alone, gone' = gone, busy' = busy,
           \A p \in 1 .. Calls : Live(call'[p]) => call'[p].op = None \/ Stands(call'[p], call[p])
    PROVE  Alone'
<1> SUFFICES ASSUME ~ gone, NEW q \in 1 .. Calls, Live(call'[q]), call'[q].op # None, IsForm(call'[q].op)
             PROVE  /\ busy[call'[q].op] # {}
                    /\ \A p \in 1 .. Calls : Live(call'[p]) /\ call'[p].op = call'[q].op => p = q
    BY DEF Alone, Live, IsForm, None
<1>1. \A p \in 1 .. Calls : Live(call'[p]) /\ call'[p].op # None => Live(call[p]) /\ call[p].op = call'[p].op
      BY DEF Stands
<1>2. Live(call[q]) /\ call[q].op = call'[q].op
      BY <1>1
<1> QED BY <1>1, <1>2 DEF Alone

LEMMA AloneReleased ==
    ASSUME TypeOK, Alone, gone' = gone, NEW q \in 1 .. Calls, Release(call[q]), Live(call[q]),
           call[q].op \in HereOps \cup {None}, Live(call'[q]) => call'[q].op = None,
           Others(q)
    PROVE  Alone'
<1> SUFFICES ASSUME ~ gone, NEW p \in 1 .. Calls, Live(call'[p]), call'[p].op # None, IsForm(call'[p].op)
             PROVE  /\ busy'[call'[p].op] # {}
                    /\ \A o \in 1 .. Calls : Live(call'[o]) /\ call'[o].op = call'[p].op => o = p
    BY DEF Alone, Live, IsForm, None
<1>1. \A o \in 1 .. Calls : Live(call'[o]) /\ call'[o].op # None => o # q /\ call'[o] = call[o]
      BY DEF Others
<1>2. p # q /\ call'[p] = call[p]
      BY <1>1
<1>3. call[p].op # call[q].op /\ busy[call[p].op] # {}
      BY <1>2 DEF Alone
<1>4. busy'[call[p].op] = busy[call[p].op]
      BY <1>3 DEF Release, TypeOK
<1> QED BY <1>1, <1>2, <1>3, <1>4 DEF Alone

LEMMA UserAlone ==
    ASSUME TypeOK, Gone, Alone,
           Poll \/ (\E k \in Keys : Choose(k)) \/ (\E op \in HereOps : \E r \in Targets(op) : Send(op, r))
                \/ (\E r \in Here.rows, w \in Kinds : Foreign(r, w))
    PROVE  Alone'
<1>1. CASE Poll
      <2>1. gone' = gone /\ busy' = busy
            BY <1>1 DEF Poll
      <2>2. /\ Fresh \in 1 .. Calls /\ Others(Fresh) /\ call'[Fresh] = Reload(key)
            BY <1>1, PollEffect
      <2>3. call'[Fresh].op = None
            BY <2>2 DEF Reload, Load
      <2> QED BY <2>1, <2>2, <2>3, AloneKept DEF Others, Stands
<1>2. ASSUME NEW k \in Keys, Choose(k) PROVE Alone'
      <2>1. call' \in [1 .. Calls -> Slots] /\ HereOps = {} /\ page' = page
            BY <1>2, ChooseEffect DEF Choose
      <2>2. ASSUME NEW p \in 1 .. Calls, Live(call'[p]) PROVE call'[p].op = None
            <3>1. call'[p] \in LoadCalls
                  BY <2>1, <2>2, LoadingKinds DEF Slots, WriteCalls
            <3> QED BY <2>1, <3>1 DEF LoadCalls
      <2> QED BY <2>2 DEF Alone, Live, None
<1>3. ASSUME NEW op \in HereOps, NEW r \in Targets(op), Send(op, r) PROVE Alone'
      <2>1. gone' = gone /\ ~ gone /\ busy' = [busy EXCEPT ![op] = Flag(op, r)] /\ Enabled(op, r)
            BY <1>3 DEF Send, Offered
      <2>2. /\ r \in Here.rows /\ Fresh \in 1 .. Calls /\ call[Fresh] = Idle
            /\ call'[Fresh] = Write(op, r)
            /\ \A p \in 1 .. Calls : p # Fresh => call'[p] = call[p]
            BY <1>3, SendEffect DEF Others
      <2>3. call'[Fresh].op = op
            BY <2>2, WriteFields
      <2>4. op # None
            BY HereSound DEF TypeOK
      <2>5. ASSUME IsForm(op)
            PROVE  /\ \A p \in 1 .. Calls : p # Fresh /\ Live(call'[p]) => call'[p].op # op
                   /\ busy'[op] # {}
            <3>1. busy[op] = {}
                  BY <2>1, <2>5 DEF Enabled, IsForm
            <3>2. \A p \in 1 .. Calls : Live(call[p]) => call[p].op # op
                  BY <2>1, <2>4, <2>5, <3>1 DEF Alone
            <3>3. busy'[op] = {r}
                  BY <2>1, <2>5 DEF Flag, IsForm, TypeOK
            <3> QED BY <2>2, <3>2, <3>3
      <2>6. ASSUME NEW q \in 1 .. Calls, Live(call'[q]), call'[q].op # None, IsForm(call'[q].op)
            PROVE  /\ busy'[call'[q].op] # {}
                   /\ \A p \in 1 .. Calls : Live(call'[p]) /\ call'[p].op = call'[q].op => p = q
            <3>1. CASE call'[q].op = op
                  BY <2>5, <2>6, <3>1
            <3>2. CASE call'[q].op # op
                  <4>1. q # Fresh /\ call'[q] = call[q] /\ busy'[call[q].op] = busy[call[q].op]
                        BY <2>1, <2>2, <2>3, <3>2 DEF TypeOK
                  <4> QED BY <2>1, <2>2, <2>3, <2>6, <3>2, <4>1 DEF Alone
            <3> QED BY <3>1, <3>2
      <2> QED BY <2>6 DEF Alone, Live, IsForm, None
<1>4. ASSUME NEW r \in Here.rows, NEW w \in Kinds, Foreign(r, w) PROVE Alone'
      BY <1>4, AloneKept DEF Foreign, Stands
<1> QED BY <1>1, <1>2, <1>3, <1>4

LEMMA ServerAlone ==
    ASSUME TypeOK, Alone, NEW q \in 1 .. Calls, ServeLoad(q) \/ ServeWrite(q) \/ Refuse(q) \/ NextCall(q)
    PROVE  Alone'
<1>1. gone' = gone /\ busy' = busy
      BY DEF ServeLoad, ServeWrite, Refuse, NextCall
<1>2. Others(q)
      BY ServeLoadEffect, ServeWriteEffect, RefuseEffect, NextCallEffect
<1>3. Live(call'[q]) => Stands(call'[q], call[q])
      <2>1. CASE ServeLoad(q)
            BY <2>1, ServeLoadEffect, LiveKinds DEF Stands
      <2>2. CASE ServeWrite(q)
            BY <2>2, ServeWriteEffect, LiveKinds, IdleNotLive DEF Stands, Same
      <2>3. CASE Refuse(q)
            BY <2>3, RefuseEffect, LiveKinds, IdleNotLive DEF Stands, Same
      <2>4. CASE NextCall(q)
            BY <2>4, NextCallEffect, LiveKinds DEF Stands, Same
      <2> QED BY <2>1, <2>2, <2>3, <2>4
<1>4. \A p \in 1 .. Calls : Live(call'[p]) => Stands(call'[p], call[p])
      BY <1>2, <1>3 DEF Others, Stands
<1> QED BY <1>1, <1>4, AloneKept

LEMMA TakenAlone ==
    ASSUME TypeOK, Gone, Alone, NEW q \in 1 .. Calls, TakeLoad(q) \/ TakeWrite(q)
    PROVE  Alone'
<1>1. CASE TakeLoad(q)
      <2>1. gone' = gone /\ Release(call[q])
            BY <1>1 DEF TakeLoad
      <2>2. call[q] \in LoadCalls /\ Others(q) /\ ~ Live(call'[q])
            BY <1>1, TakeLoadEffect, IdleNotLive
      <2> QED BY <2>1, <2>2, AloneReleased, LiveKinds DEF LoadCalls
<1>2. CASE TakeWrite(q)
      <2> DEFINE c == call[q]
      <2>1. /\ c \in WriteCalls /\ c.at = "ok" /\ gone' \in BOOLEAN
            /\ ~ gone' => call'[q] = After(c) /\ Others(q)
            BY <1>2, TakeWriteEffect
      <2>2. c.op \in HereOps /\ Live(c)
            BY <2>1, LiveKinds DEF WriteCalls
      <2>3. gone = FALSE
            BY <2>2 DEF Gone, TypeOK
      <2>4. After(c) = Idle \/ (After(c).row = c.row /\ After(c).op = IF OpOf[c.op].waits THEN c.op ELSE None)
            BY <2>1, AfterFields
      <2>5. CASE ~ gone' /\ OpOf[c.op].waits
            <3>1. busy' = busy /\ gone' = gone
                  BY <1>2, <2>1, <2>3, <2>5 DEF TakeWrite
            <3>2. \A p \in 1 .. Calls : Live(call'[p]) => Stands(call'[p], call[p])
                  BY <2>1, <2>2, <2>4, <2>5, IdleNotLive DEF Others, Stands
            <3> QED BY <3>1, <3>2, AloneKept
      <2>6. CASE ~ gone' /\ ~ OpOf[c.op].waits
            <3>1. Release(c) /\ gone' = gone
                  BY <1>2, <2>1, <2>3, <2>6 DEF TakeWrite
            <3>2. Live(call'[q]) => call'[q].op = None
                  BY <2>1, <2>4, <2>6, IdleNotLive
            <3> QED BY <2>1, <2>2, <2>6, <3>1, <3>2, AloneReleased
      <2> QED BY <2>5, <2>6 DEF Alone
<1> QED BY <1>1, <1>2

LEMMA FailedAlone ==
    ASSUME TypeOK, Gone, Alone, NEW q \in 1 .. Calls, TakeRefused(q) \/ Lose(q)
    PROVE  Alone'
<1> DEFINE c == call[q]
<1>1. gone' = gone
      BY DEF TakeRefused, Lose
<1>2. Live(c) /\ ~ gone
      BY DEF TakeRefused, Lose, Live, Gone
<1>3. CASE c.load
      <2>1. Lose(q)
            BY <1>3, TakeRefusedEffect DEF WriteCalls
      <2>2. Release(c)
            BY <1>3, <2>1 DEF Lose
      <2>3. c.op \in HereOps \cup {None} /\ Others(q) /\ ~ Live(call'[q])
            BY <1>3, <2>1, LoseLoadEffect, IdleNotLive DEF LoadCalls
      <2> QED BY <1>1, <1>2, <2>2, <2>3, AloneReleased
<1>4. CASE ~ c.load
      <2>1. c \in WriteCalls
            BY <1>4, TakeRefusedEffect, LoseWriteEffect
      <2>2. c.op \in HereOps
            BY <2>1 DEF WriteCalls
      <2>3. \E u \in BOOLEAN : Error(q, u)
            BY <1>4 DEF TakeRefused, Lose
      <2>4. CASE OpOf[c.op].retries
            <3>1. busy' = busy
                  BY <2>3, <2>4 DEF Error
            <3>2. Answered(c).op = c.op /\ Answered(c).row = c.row
                  BY <2>1, <2>4, AnsweredFields
            <3>3. CASE call'[q] = Answered(c) /\ Others(q)
                  <4>1. \A p \in 1 .. Calls : Live(call'[p]) => Stands(call'[p], call[p])
                        BY <1>2, <3>2, <3>3 DEF Others, Stands
                  <4> QED BY <1>1, <3>1, <4>1, AloneKept
            <3>4. CASE /\ Fresh \in 1 .. Calls /\ call'[Fresh] = Answered(c) /\ ~ Live(call'[q]) /\ Fresh # q
                       /\ \A p \in 1 .. Calls : p # q /\ p # Fresh => call'[p] = call[p]
                  <4> SUFFICES ASSUME NEW p \in 1 .. Calls, Live(call'[p]), call'[p].op # None, IsForm(call'[p].op)
                               PROVE  /\ busy[call'[p].op] # {}
                                      /\ \A o \in 1 .. Calls : Live(call'[o]) /\ call'[o].op = call'[p].op => o = p
                      BY <1>1, <3>1 DEF Alone, Live, IsForm, None
                  <4>1. \A o \in 1 .. Calls : o # Fresh /\ Live(call'[o]) => o # q /\ call'[o] = call[o]
                        BY <3>4
                  <4>2. CASE p = Fresh
                        BY <1>2, <3>2, <3>4, <4>1, <4>2 DEF Alone
                  <4>3. CASE p # Fresh
                        <5>1. p # q /\ call'[p] = call[p]
                              BY <4>1, <4>3
                        <5>2. call[p].op # c.op /\ busy[call[p].op] # {}
                              BY <1>2, <5>1 DEF Alone
                        <5> QED BY <1>2, <3>2, <3>4, <4>1, <5>1, <5>2 DEF Alone
                  <4> QED BY <4>2, <4>3
            <3>5. ~ (Lose(q) /\ c.at = "asked") => call'[q] = Answered(c) /\ Others(q)
                  BY <1>4, TakeRefusedEffect, LoseWriteEffect
            <3>6. Lose(q) /\ c.at = "asked" =>
                     /\ Fresh \in 1 .. Calls /\ call'[Fresh] = Answered(c) /\ ~ Live(call'[q]) /\ Fresh # q
                     /\ \A p \in 1 .. Calls : p # q /\ p # Fresh => call'[p] = call[p]
                  BY <1>4, <2>4, LoseWriteEffect, LiveKinds
            <3> QED BY <3>3, <3>4, <3>5, <3>6
      <2>5. CASE ~ OpOf[c.op].retries
            <3>1. Release(c)
                  BY <2>3, <2>5 DEF Error, Freed
            <3>2. Others(q) /\ ~ Live(call'[q])
                  <4>1. Answered(c) = Idle
                        BY <2>1, <2>5, AnsweredFields
                  <4> QED BY <1>4, <2>5, <4>1, TakeRefusedEffect, LoseWriteEffect, IdleNotLive, LiveKinds
            <3> QED BY <1>1, <1>2, <2>2, <3>1, <3>2, AloneReleased
      <2> QED BY <2>4, <2>5
<1> QED BY <1>3, <1>4

LEMMA StepAlone == TypeOK /\ Gone /\ Alone /\ [Next]_vars => Alone'
<1>1. ASSUME TypeOK, Gone, Alone, Next PROVE Alone'
      BY <1>1, UserAlone, ServerAlone, TakenAlone, FailedAlone DEF Next, Proceed
<1>2. ASSUME TypeOK, Alone, UNCHANGED vars PROVE Alone'
      BY <1>2, AloneKept DEF vars, Stands
<1> QED BY <1>1, <1>2

LEMMA InitAlone ==
    ASSUME Init
    PROVE  Alone
<1>1. \A q \in 1 .. Calls : Live(call[q]) => call[q].op = None
      BY IdleNotLive DEF Init, Reload, Load
<1> QED BY <1>1 DEF Alone

(* What a call is about: one of the calls its button makes, its own row,   *)
(* and, as long as it is live, what the form holds now.                    *)
Drafts ==
    \A q \in 1 .. Calls : Writing(call[q]) =>
        /\ call[q].nth \in 1 .. OpOf[call[q].op].calls
        /\ call[q].form <= form[call[q].op]
        /\ IsForm(call[q].op) => /\ call[q].row = TheRow
                                 /\ Live(call[q]) => call[q].form = form[call[q].op]

(* A write goes on being the same write.                                   *)
Continues(c, d) == Writing(c) /\ Same(c, d) /\ (Live(d) => Live(c))

LEMMA DraftsKept ==
    ASSUME TypeOK, Drafts, form' = form,
           \A p \in 1 .. Calls : Writing(call'[p]) => Continues(call[p], call'[p]) /\ call'[p].nth = call[p].nth
    PROVE  Drafts'
<1> SUFFICES ASSUME NEW q \in 1 .. Calls, Writing(call'[q])
             PROVE  /\ call'[q].nth \in 1 .. OpOf[call'[q].op].calls
                    /\ call'[q].form <= form[call'[q].op]
                    /\ IsForm(call'[q].op) => /\ call'[q].row = TheRow
                                              /\ Live(call'[q]) => call'[q].form = form[call'[q].op]
    BY DEF Drafts, Writing, Live, IsForm, TheRow
<1> QED BY DEF Drafts, Continues, Same

LEMMA SameCall ==
    ASSUME TypeOK, NEW q \in 1 .. Calls, Writing(call[q])
    PROVE  Continues(call[q], call[q])
<1>1. call[q] \in WriteCalls
      BY CallTyped
<1> QED BY <1>1 DEF Continues, Same, WriteCalls

LEMMA FailedWrites ==
    ASSUME TypeOK, NEW q \in 1 .. Calls, TakeRefused(q) \/ Lose(q)
    PROVE  /\ \A p \in 1 .. Calls : Writing(call'[p]) /\ p # q => call'[p] = call[p]
           /\ \A p \in 1 .. Calls : Writing(call[p]) /\ p # q => call'[p] = call[p]
           /\ Writing(call'[q]) => /\ Writing(call[q]) /\ Same(call[q], call'[q])
                                   /\ call'[q].nth = call[q].nth /\ call'[q].at = "orphan"
                                   /\ call[q].at = "asked" /\ Lose(q)
<1> DEFINE c == call[q]
<1>1. CASE c.load
      <2>1. Lose(q)
            BY <1>1, TakeRefusedEffect DEF WriteCalls
      <2> QED BY <1>1, <2>1, LoseLoadEffect, LoadingKinds DEF Others
<1>2. CASE ~ c.load
      <2>1. c \in WriteCalls
            BY <1>2, TakeRefusedEffect, LoseWriteEffect
      <2>2. ~ Writing(Answered(c))
            BY <2>1, AnsweredFields, LoadingKinds
      <2>3. CASE call'[q] = Answered(c) /\ Others(q)
            BY <2>2, <2>3 DEF Others
      <2>4. CASE Lose(q) /\ c.at = "asked"
            <3>1. /\ call'[q] \in WriteCalls /\ call'[q].at = "orphan"
                  /\ Same(c, call'[q]) /\ call'[q].nth = c.nth
                  BY <1>2, <2>4, LoseWriteEffect
            <3>2. \/ Others(q)
                  \/ /\ call[Fresh] = Idle /\ call'[Fresh] = Answered(c)
                     /\ \A p \in 1 .. Calls : p # q /\ p # Fresh => call'[p] = call[p]
                  BY <1>2, <2>4, LoseWriteEffect
            <3>3. \A p \in 1 .. Calls : (Writing(call'[p]) \/ Writing(call[p])) /\ p # q => call'[p] = call[p]
                  BY <2>2, <3>2, LoadingKinds DEF Others
            <3> QED BY <2>1, <2>4, <3>1, <3>3, LoadingKinds
      <2> QED BY <1>2, <2>3, <2>4, TakeRefusedEffect, LoseWriteEffect
<1> QED BY <1>1, <1>2

(* Actions that leave the writes alone.                                    *)
WritesStay ==
    /\ page' = page /\ gone' = gone /\ form' = form /\ torn' = torn
    /\ \A p \in 1 .. Calls : Writing(call[p]) \/ Writing(call'[p]) => call'[p] = call[p]

LEMMA ReadsOnly ==
    ASSUME TypeOK, \/ Poll \/ (\E k \in Keys : Choose(k)) \/ (\E r \in Here.rows, w \in Kinds : Foreign(r, w))
                   \/ (\E q \in 1 .. Calls : ServeLoad(q) \/ TakeLoad(q)) \/ UNCHANGED vars
    PROVE  WritesStay
<1>1. CASE Poll
      BY <1>1, PollEffect, LoadingKinds DEF WritesStay, Poll, user, history, Others
<1>2. ASSUME NEW k \in Keys, Choose(k) PROVE WritesStay
      BY <1>2, ChooseEffect DEF WritesStay, Choose
<1>3. ASSUME NEW r \in Here.rows, NEW w \in Kinds, Foreign(r, w) PROVE WritesStay
      BY <1>3 DEF WritesStay, Foreign, user
<1>4. ASSUME NEW q \in 1 .. Calls, ServeLoad(q) PROVE WritesStay
      BY <1>4, ServeLoadEffect, LoadingKinds DEF WritesStay, ServeLoad, user, history, Others
<1>5. ASSUME NEW q \in 1 .. Calls, TakeLoad(q) PROVE WritesStay
      BY <1>5, TakeLoadEffect, LoadingKinds DEF WritesStay, TakeLoad, user, Others
<1>6. CASE UNCHANGED vars
      BY <1>6 DEF WritesStay, vars, user, history
<1> QED BY <1>1, <1>2, <1>3, <1>4, <1>5, <1>6

LEMMA DraftsStayed ==
    ASSUME TypeOK, Drafts, WritesStay
    PROVE  Drafts'
BY DraftsKept, SameCall DEF WritesStay, Writing

LEMMA DraftSent ==
    ASSUME TypeOK, Drafts, NEW op \in HereOps, NEW r \in Targets(op), Send(op, r)
    PROVE  Drafts'
<1>1. form' = form
      BY DEF Send
<1>2. /\ r \in Here.rows /\ (IsForm(op) => r = TheRow) /\ Fresh \in 1 .. Calls
      /\ call'[Fresh] = Write(op, r) /\ \A p \in 1 .. Calls : p # Fresh => call'[p] = call[p]
      BY SendEffect DEF Others
<1>3. call'[Fresh].op = op /\ call'[Fresh].row = r /\ call'[Fresh].nth = 1 /\ call'[Fresh].form = form[op]
      BY <1>2, WriteFields, WriteForm
<1>4. 1 \in 1 .. OpOf[op].calls /\ form[op] \in Nat
      BY HereSound DEF TypeOK, SoundOp
<1>5. ASSUME NEW q \in 1 .. Calls, Writing(call'[q])
      PROVE  /\ call'[q].nth \in 1 .. OpOf[call'[q].op].calls
             /\ call'[q].form <= form[call'[q].op]
             /\ IsForm(call'[q].op) => /\ call'[q].row = TheRow
                                       /\ Live(call'[q]) => call'[q].form = form[call'[q].op]
      <2>1. CASE q = Fresh
            BY <1>2, <1>3, <1>4, <2>1
      <2>2. CASE q # Fresh
            <3>1. call'[q] = call[q]
                  BY <1>2, <2>2
            <3>2. Writing(call[q])
                  BY <1>5, <3>1
            <3> QED BY <3>1, <3>2 DEF Drafts
      <2> QED BY <2>1, <2>2
<1> QED BY <1>1, <1>5 DEF Drafts, Writing, Live, IsForm, TheRow

LEMMA DraftServed ==
    ASSUME TypeOK, Drafts, NEW q \in 1 .. Calls, ServeWrite(q) \/ Refuse(q)
    PROVE  Drafts'
<1>1. form' = form /\ Others(q)
      BY ServeWriteEffect, RefuseEffect DEF ServeWrite, Refuse, user
<1>2. Writing(call'[q]) => Continues(call[q], call'[q]) /\ call'[q].nth = call[q].nth
      <2>1. call[q] \in WriteCalls
            BY ServeWriteEffect, RefuseEffect
      <2>2. CASE call[q].at = "orphan"
            BY <2>2, ServeWriteEffect, RefuseEffect, LoadingKinds
      <2>3. CASE call[q].at # "orphan"
            BY <2>1, <2>3, ServeWriteEffect, RefuseEffect, LoadingKinds, LiveKinds DEF Continues
      <2> QED BY <2>2, <2>3
<1>3. \A p \in 1 .. Calls : Writing(call'[p]) => Continues(call[p], call'[p]) /\ call'[p].nth = call[p].nth
      BY <1>1, <1>2, SameCall DEF Others
<1> QED BY <1>1, <1>3, DraftsKept

LEMMA DraftNext ==
    ASSUME TypeOK, Drafts, NEW q \in 1 .. Calls, NextCall(q)
    PROVE  Drafts'
<1>1. form' = form
      BY DEF NextCall, user
<1>2. /\ call[q] \in WriteCalls /\ call[q].at = "ok" /\ call[q].nth < OpOf[call[q].op].calls
      /\ Same(call[q], call'[q]) /\ call'[q].nth = call[q].nth + 1
      /\ \A p \in 1 .. Calls : p # q => call'[p] = call[p]
      BY NextCallEffect DEF Others
<1>3. Writing(call[q]) /\ Live(call[q]) /\ call[q].op \in HereOps
      BY <1>2, LoadingKinds, LiveKinds DEF WriteCalls
<1>4. OpOf[call[q].op].calls \in {1, 2}
      BY <1>3, HereSound DEF TypeOK, SoundOp
<1>5. /\ call'[q].nth \in 1 .. OpOf[call'[q].op].calls
      /\ call'[q].form <= form[call'[q].op]
      /\ IsForm(call'[q].op) => /\ call'[q].row = TheRow
                                /\ Live(call'[q]) => call'[q].form = form[call'[q].op]
      BY <1>2, <1>3, <1>4 DEF Drafts, Same
<1>6. ASSUME NEW p \in 1 .. Calls, Writing(call'[p])
      PROVE  /\ call'[p].nth \in 1 .. OpOf[call'[p].op].calls
             /\ call'[p].form <= form[call'[p].op]
             /\ IsForm(call'[p].op) => /\ call'[p].row = TheRow
                                       /\ Live(call'[p]) => call'[p].form = form[call'[p].op]
      <2>1. CASE p = q
            BY <1>5, <2>1
      <2>2. CASE p # q
            <3>1. call'[p] = call[p]
                  BY <1>2, <2>2
            <3>2. Writing(call[p])
                  BY <1>6, <3>1
            <3> QED BY <3>1, <3>2 DEF Drafts
      <2> QED BY <2>1, <2>2
<1> QED BY <1>1, <1>6 DEF Drafts, Writing, Live, IsForm, TheRow

(* A form is emptied when its call succeeds: no other call of it is live.  *)
LEMMA FormEmptied ==
    ASSUME TypeOK, NEW q \in 1 .. Calls, TakeWrite(q)
    PROVE  /\ \A op \in HereOps : form'[op] = IF op = call[q].op /\ IsForm(op) THEN form[op] + 1 ELSE form[op]
           /\ \A op \in HereOps : form[op] \in Nat /\ form'[op] \in Nat /\ form[op] <= form'[op]
<1>1. call[q].op \in HereOps
      BY TakeWriteEffect DEF WriteCalls
<1>2. form' = IF IsForm(call[q].op) THEN [form EXCEPT ![call[q].op] = @ + 1] ELSE form
      BY DEF TakeWrite, IsForm
<1> QED BY <1>1, <1>2 DEF TypeOK

LEMMA LeftWrites ==
    ASSUME TypeOK, NEW q \in 1 .. Calls, TakeWrite(q)
    PROVE  /\ call[q] \in WriteCalls /\ call[q].at = "ok"
           /\ \A p \in 1 .. Calls : Writing(call'[p]) =>
                 /\ p # q
                 /\ Writing(call[p]) /\ Same(call[p], call'[p]) /\ call'[p].nth = call[p].nth
                 /\ \/ ~ gone' /\ call'[p] = call[p]
                    \/ gone' /\ call'[p].at = "orphan" /\ call[p].at \in {"asked", "orphan"}
<1>1. /\ call[q] \in WriteCalls /\ call[q].at = "ok"
      /\ gone' => \A p \in 1 .. Calls : call'[p] = Left(call[p])
      /\ ~ gone' => call'[q] = After(call[q]) /\ Others(q)
      BY TakeWriteEffect
<1>2. CASE gone'
      <2> SUFFICES ASSUME NEW p \in 1 .. Calls, Writing(call'[p])
                   PROVE  /\ p # q
                          /\ Writing(call[p]) /\ Same(call[p], call'[p]) /\ call'[p].nth = call[p].nth
                          /\ call'[p].at = "orphan" /\ call[p].at \in {"asked", "orphan"}
          BY <1>1, <1>2
      <2>1. call'[p] = Left(call[p]) /\ call'[p] # Idle
            BY <1>1, <1>2, LoadingKinds
      <2>2. call[p].at \in {"asked", "orphan"}
            BY <2>1 DEF Left
      <2>3. call'[p] \in WriteCalls
            BY <2>1, CallTyped, LeftFields
      <2> QED BY <1>1, <2>1, <2>2, <2>3, CallTyped, LeftFields, LoadingKinds
<1>3. CASE ~ gone'
      <2> SUFFICES ASSUME NEW p \in 1 .. Calls, Writing(call'[p])
                   PROVE  /\ p # q /\ Writing(call[p]) /\ Same(call[p], call'[p])
                          /\ call'[p].nth = call[p].nth /\ call'[p] = call[p]
          BY <1>1, <1>3
      <2>1. p # q
            BY <1>1, <1>3, AfterFields, LoadingKinds
      <2>2. call'[p] = call[p]
            BY <1>1, <1>3, <2>1 DEF Others
      <2> QED BY <2>1, <2>2, SameCall DEF Continues
<1> QED BY <1>1, <1>2, <1>3

LEMMA DraftTaken ==
    ASSUME TypeOK, Gone, Alone, Drafts, NEW q \in 1 .. Calls, TakeWrite(q)
    PROVE  Drafts'
<1>1. Live(call[q]) /\ ~ gone /\ call[q].op # None
      BY LeftWrites, HereSound, LiveKinds DEF Gone, TypeOK, WriteCalls
<1>2. ASSUME NEW p \in 1 .. Calls, Writing(call'[p])
      PROVE  /\ call'[p].nth \in 1 .. OpOf[call'[p].op].calls
             /\ call'[p].form <= form'[call'[p].op]
             /\ IsForm(call'[p].op) => /\ call'[p].row = TheRow
                                       /\ Live(call'[p]) => call'[p].form = form'[call'[p].op]
      <2>1. /\ p # q /\ Writing(call[p]) /\ Same(call[p], call'[p]) /\ call'[p].nth = call[p].nth
            /\ Live(call'[p]) => Live(call[p])
            BY <1>2, LeftWrites, LiveKinds
      <2>2. call[p].op \in HereOps /\ call[p].form \in Nat
            BY <2>1, CallTyped DEF WriteCalls
      <2>3. form[call[p].op] \in Nat /\ form'[call[p].op] \in Nat /\ form[call[p].op] <= form'[call[p].op]
            BY <2>2, FormEmptied
      <2>4. IsForm(call[p].op) /\ Live(call[p]) => form'[call[p].op] = form[call[p].op]
            <3>1. IsForm(call[p].op) /\ Live(call[p]) => call[p].op # call[q].op
                  BY <1>1, <2>1 DEF Alone
            <3> QED BY <2>2, <3>1, FormEmptied
      <2> QED BY <2>1, <2>2, <2>3, <2>4 DEF Drafts, Same
<1> QED BY <1>2 DEF Drafts, Writing, Live, IsForm, TheRow

LEMMA DraftFailed ==
    ASSUME TypeOK, Drafts, NEW q \in 1 .. Calls, TakeRefused(q) \/ Lose(q)
    PROVE  Drafts'
<1>1. form' = form
      BY DEF TakeRefused, Lose, user
<1>2. \A p \in 1 .. Calls : Writing(call'[p]) => Continues(call[p], call'[p]) /\ call'[p].nth = call[p].nth
      BY FailedWrites, SameCall, LiveKinds DEF Continues
<1> QED BY <1>1, <1>2, DraftsKept

LEMMA StepDrafts == TypeOK /\ Gone /\ Alone /\ Drafts /\ [Next]_vars => Drafts'
<1> SUFFICES ASSUME TypeOK, Gone, Alone, Drafts, [Next]_vars PROVE Drafts'
    OBVIOUS
<1>1. CASE Next
      BY <1>1, ReadsOnly, DraftsStayed, DraftSent, DraftServed, DraftNext, DraftTaken, DraftFailed DEF Next, Proceed
<1>2. CASE UNCHANGED vars
      BY <1>2, ReadsOnly, DraftsStayed
<1> QED BY <1>1, <1>2

LEMMA InitDrafts ==
    ASSUME Init
    PROVE  Drafts
<1>1. \A q \in 1 .. Calls : ~ Writing(call[q])
      BY DEF Init, Reload, Load, Writing, Idle
<1> QED BY <1>1 DEF Drafts

-----------------------------------------------------------------------------
(* What the server noted                                                   *)

(* A change made here is that of one of the forms filled in so far; nobody *)
(* else hands over what was counted here.                                  *)
Noted ==
    \A i \in 1 .. Len(log) :
        IF log[i].op = None THEN log[i].write # "hands"
        ELSE /\ log[i].write = OpOf[log[i].op].write /\ log[i].nth >= 1
             /\ log[i].form <= form[log[i].op]

(* When the till is handed over there is money in it.                      *)
Counted ==
    \A i \in 1 .. Len(log) :
        log[i].write = "hands" => log[i].row = TheRow /\ Cash(Seen(TheRow, i - 1)) > 0

LEMMA FormsGrow ==
    ASSUME TypeOK, [Next]_vars
    PROVE  \A op \in HereOps : form[op] \in Nat /\ form'[op] \in Nat /\ form[op] <= form'[op]
<1>1. (\E q \in 1 .. Calls : TakeWrite(q)) \/ form' = form
      BY DEF Next, Proceed, vars, user, Poll, Choose, Send, Foreign, ServeLoad, ServeWrite, Refuse, TakeLoad,
             NextCall, TakeRefused, Lose
<1> QED BY <1>1, FormEmptied DEF TypeOK

LEMMA LogSteps ==
    ASSUME TypeOK, [Next]_vars
    PROVE  \/ log' = log
           \/ \E e \in Entries : e.op = None /\ e.write # "hands" /\ log' = Append(log, e)
           \/ \E q \in 1 .. Calls : ServeWrite(q)
<1>1. ASSUME NEW r \in Here.rows, NEW w \in Kinds, Foreign(r, w)
      PROVE  \E e \in Entries : e.op = None /\ e.write # "hands" /\ log' = Append(log, e)
      <2>1. Strange(r, w).op = None /\ Strange(r, w).write = w
            BY DEF Strange
      <2> QED BY <1>1, <2>1, ForeignEffect
<1>2. \/ log' = log \/ (\E q \in 1 .. Calls : ServeWrite(q))
      \/ \E r \in Here.rows, w \in Kinds : Foreign(r, w)
      BY DEF Next, Proceed, vars, Poll, Choose, Send, ServeLoad, Refuse, TakeLoad, NextCall,
             TakeWrite, TakeRefused, Lose
<1> QED BY <1>1, <1>2

LEMMA ServedEntry ==
    ASSUME TypeOK, Drafts, NEW q \in 1 .. Calls, ServeWrite(q)
    PROVE  LET e == Entry(call[q])
           IN /\ e \in Entries /\ log' = Append(log, e)
              /\ e.op \in HereOps /\ e.op = call[q].op /\ e.form = call[q].form /\ e.nth = call[q].nth
              /\ e.row = call[q].row
              /\ e.write = OpOf[e.op].write /\ e.nth >= 1 /\ e.form <= form[e.op]
              /\ e.write = "hands" => e.row = TheRow /\ Cash(Seen(TheRow, Len(log))) > 0
<1> DEFINE e == Entry(call[q])
<1>1. call[q] \in WriteCalls /\ e \in Entries /\ log' = Append(log, e)
      BY ServeWriteEffect
<1>2. /\ e.op = call[q].op /\ e.form = call[q].form /\ e.nth = call[q].nth /\ e.row = call[q].row
      /\ e.write = OpOf[call[q].op].write
      BY DEF Entry
<1>3. call[q].op \in HereOps /\ Writing(call[q])
      BY <1>1, LoadingKinds DEF WriteCalls
<1>4. call[q].nth >= 1 /\ call[q].form <= form[call[q].op]
      BY <1>3 DEF Drafts
<1>5. ASSUME OpOf[call[q].op].write = "hands"
      PROVE  call[q].row = TheRow /\ Cash(Seen(TheRow, Len(log))) > 0
      <2>1. IsForm(call[q].op)
            BY <1>3, <1>5, HereSound DEF TypeOK, SoundOp, IsForm
      <2>2. Cash(Seen(call[q].row, Len(log))) > 0
            BY <1>5 DEF ServeWrite, Accepted
      <2> QED BY <1>3, <2>1, <2>2 DEF Drafts
<1> HIDE DEF e
<1>6. e.op \in HereOps /\ e.write = OpOf[e.op].write /\ e.nth >= 1 /\ e.form <= form[e.op]
      BY <1>2, <1>3, <1>4
<1>7. e.write = "hands" => e.row = TheRow /\ Cash(Seen(TheRow, Len(log))) > 0
      BY <1>2, <1>5
<1> QED BY <1>1, <1>2, <1>6, <1>7 DEF e

LEMMA NotedAppended ==
    ASSUME TypeOK, Noted, NEW e \in Entries, log' = Append(log, e),
           \A op \in HereOps : form[op] \in Nat /\ form'[op] \in Nat /\ form[op] <= form'[op],
           IF e.op = None THEN e.write # "hands"
           ELSE e.write = OpOf[e.op].write /\ e.nth >= 1 /\ e.form <= form[e.op]
    PROVE  Noted'
<1> SUFFICES ASSUME NEW i \in 1 .. (Len(log) + 1)
             PROVE  IF log'[i].op = None THEN log'[i].write # "hands"
                    ELSE /\ log'[i].write = OpOf[log'[i].op].write /\ log'[i].nth >= 1
                         /\ log'[i].form <= form'[log'[i].op]
    BY Appended DEF Noted, None
<1>1. CASE i = Len(log) + 1
      <2>1. log'[i] = e
            BY <1>1, Appended
      <2>2. e.op \in HereOps \cup {None} /\ e.form \in Nat
            BY DEF Entries
      <2> QED BY <2>1, <2>2
<1>2. CASE i # Len(log) + 1
      <2>1. i \in 1 .. Len(log) /\ log'[i] = log[i] /\ log[i] \in Entries
            BY <1>2, Appended
      <2>2. log[i].op \in HereOps \cup {None} /\ log[i].form \in Nat
            BY <2>1 DEF Entries
      <2> QED BY <2>1, <2>2 DEF Noted
<1> QED BY <1>1, <1>2

LEMMA StepNoted == TypeOK /\ Drafts /\ Noted /\ [Next]_vars => Noted'
<1> SUFFICES ASSUME TypeOK, Drafts, Noted, [Next]_vars PROVE Noted'
    OBVIOUS
<1>1. \A op \in HereOps : form[op] \in Nat /\ form'[op] \in Nat /\ form[op] <= form'[op]
      BY FormsGrow
<1>2. CASE log' = log
      <2> SUFFICES ASSUME NEW i \in 1 .. Len(log), log[i].op # None
                   PROVE  log[i].form <= form'[log[i].op]
          BY <1>2 DEF Noted, None
      <2>1. log[i].op \in HereOps /\ log[i].form \in Nat
            BY Logs DEF Entries
      <2> QED BY <1>1, <2>1 DEF Noted
<1>3. CASE \E e \in Entries : e.op = None /\ e.write # "hands" /\ log' = Append(log, e)
      BY <1>1, <1>3, NotedAppended
<1>4. ASSUME NEW q \in 1 .. Calls, ServeWrite(q) PROVE Noted'
      <2> DEFINE e == Entry(call[q])
      <2>1. /\ e \in Entries /\ log' = Append(log, e) /\ e.op \in HereOps
            /\ e.write = OpOf[e.op].write /\ e.nth >= 1 /\ e.form <= form[e.op]
            BY <1>4, ServedEntry
      <2>2. e.op # None
            BY <2>1, HereSound DEF TypeOK
      <2> HIDE DEF e
      <2> QED BY <1>1, <2>1, <2>2, NotedAppended
<1> QED BY <1>2, <1>3, <1>4, LogSteps

LEMMA CountedAppended ==
    ASSUME TypeOK, Counted, NEW e \in Entries, log' = Append(log, e),
           e.write = "hands" => e.row = TheRow /\ Cash(Seen(TheRow, Len(log))) > 0
    PROVE  Counted'
<1> SUFFICES ASSUME NEW i \in 1 .. (Len(log) + 1), log'[i].write = "hands"
             PROVE  log'[i].row = TheRow /\ Cash(Seen(TheRow, i - 1))' > 0
    BY Appended DEF Counted, TheRow
<1>1. Cash(Seen(TheRow, i - 1))' = Cash(Seen(TheRow, i - 1))
      <2>1. i - 1 \in 0 .. Len(log)
            BY Logs
      <2>2. Seen(TheRow, i - 1)' = Seen(TheRow, i - 1)
            BY <2>1, SeenBefore
      <2> DEFINE S == Seen(TheRow, i - 1)
                 H == {k \in S : log[k].write = "hands"}
                 T == {k \in S : \A h \in H : h < k}
                 A == {k \in T : log[k].write = "adds"}
                 P == {k \in T : log[k].write = "sets"}
      <2>3. S' = S /\ \A k \in S : log'[k] = log[k]
            BY <2>1, <2>2, Appended DEF Seen
      <2>4. Cash(S) = (IF H = {} THEN 1 ELSE 0) + Cardinality(A) - Cardinality(P)
            BY DEF Cash
      <2>5. Cash(S)' = (IF H' = {} THEN 1 ELSE 0) + Cardinality(A') - Cardinality(P')
            BY DEF Cash
      <2> HIDE DEF S
      <2>6. H' = H
            BY <2>3
      <2>7. T' = T
            BY <2>3, <2>6
      <2>8. A' = A /\ P' = P
            BY <2>3, <2>7
      <2> HIDE DEF H, A, P
      <2>9. Cash(S)' = Cash(S)
            BY <2>4, <2>5, <2>6, <2>8
      <2> QED BY <2>9 DEF S
<1>2. CASE i = Len(log) + 1
      <2>1. log'[i] = e /\ i - 1 = Len(log)
            BY <1>2, Appended
      <2> QED BY <1>1, <2>1
<1>3. CASE i # Len(log) + 1
      <2>1. i \in 1 .. Len(log) /\ log'[i] = log[i]
            BY <1>3, Appended
      <2> QED BY <1>1, <2>1 DEF Counted
<1> QED BY <1>2, <1>3

LEMMA StepCounted == TypeOK /\ Drafts /\ Counted /\ [Next]_vars => Counted'
<1> SUFFICES ASSUME TypeOK, Drafts, Counted, [Next]_vars PROVE Counted'
    OBVIOUS
<1>1. CASE log' = log
      BY <1>1 DEF Counted, Cash, Seen, TheRow
<1>2. CASE \E e \in Entries : e.op = None /\ e.write # "hands" /\ log' = Append(log, e)
      BY <1>2, CountedAppended
<1>3. ASSUME NEW q \in 1 .. Calls, ServeWrite(q) PROVE Counted'
      <2> DEFINE e == Entry(call[q])
      <2>1. /\ e \in Entries /\ log' = Append(log, e)
            /\ e.write = "hands" => e.row = TheRow /\ Cash(Seen(TheRow, Len(log))) > 0
            BY <1>3, ServedEntry
      <2> HIDE DEF e
      <2> QED BY <2>1, CountedAppended
<1> QED BY <1>1, <1>2, <1>3, LogSteps

(* A till that was handed over and not filled again is empty.              *)
LEMMA Refilled ==
    ASSUME TypeOK, Counted, NEW i \in 1 .. Len(log), NEW j \in 1 .. Len(log), i < j,
           log[i].write = "hands", log[j].write = "hands"
    PROVE  \E k \in i + 1 .. j - 1 : log[k].row = log[i].row /\ log[k].write = "adds"
<1> DEFINE S == Seen(TheRow, j - 1)
           H == {k \in S : log[k].write = "hands"}
           T == {k \in S : \A h \in H : h < k}
           A == {k \in T : log[k].write = "adds"}
           P == {k \in T : log[k].write = "sets"}
<1>1. /\ i \in Nat /\ j \in Nat /\ i \in 1 .. j - 1
      /\ log[i].row = TheRow /\ Cash(S) > 0
      BY Logs DEF Counted
<1>2. i \in H
      BY <1>1 DEF Seen
<1>3. Cash(S) = (IF H = {} THEN 1 ELSE 0) + Cardinality(A) - Cardinality(P)
      BY DEF Cash
<1>4. IsFiniteSet(A) /\ IsFiniteSet(P)
      <2>1. IsFiniteSet(1 .. j - 1)
            <3>1. 1 \in Int /\ j - 1 \in Int
                  BY <1>1
            <3> QED BY <3>1, FS_Interval
      <2>2. A \subseteq 1 .. j - 1 /\ P \subseteq 1 .. j - 1
            BY DEF Seen
      <2> QED BY <2>1, <2>2, FS_Subset
<1>5. Cardinality(A) \in Nat /\ Cardinality(P) \in Nat
      BY <1>4, FS_CardinalityType
<1>6. Cardinality(A) > 0
      <2> HIDE DEF A, P, H, S
      <2> QED BY <1>1, <1>2, <1>3, <1>5
<1>7. A # {}
      <2> SUFFICES ASSUME A = {} PROVE FALSE
          OBVIOUS
      <2>1. Cardinality(A) = 0
            BY FS_EmptySet
      <2> HIDE DEF A
      <2> QED BY <1>6, <2>1
<1>8. PICK k \in A : TRUE
      BY <1>7
<1>9. k \in 1 .. j - 1 /\ log[k].row = TheRow /\ log[k].write = "adds" /\ i < k
      BY <1>2, <1>8 DEF Seen
<1> QED BY <1>1, <1>9

-----------------------------------------------------------------------------
(* A form adds once, or hands over once                                    *)
Adds(e) == e.op # None /\ OpOf[e.op].write \in {"adds", "hands"}
Fellows(c, d) == c.op = d.op /\ c.form = d.form
Broken(e) == <<e.op, e.form>> \in torn

(* Of a form that is not broken the server noted each call once, it noted  *)
(* none that has yet to be carried out; one write is under way at a time,  *)
(* as long as the form is not emptied, and only leaving the page drops it. *)
NotedOnce ==
    \A i, j \in 1 .. Len(log) :
        i < j /\ Adds(log[i]) /\ Fellows(log[i], log[j]) /\ log[i].nth = log[j].nth => Broken(log[i])
NotedBefore ==
    \A i \in 1 .. Len(log), q \in 1 .. Calls :
        Adds(log[i]) /\ ~ Broken(log[i]) /\ Writing(call[q]) /\ Fellows(log[i], call[q]) =>
            log[i].nth < call[q].nth \/ (log[i].nth = call[q].nth /\ call[q].at = "ok")
OneWrite ==
    \A p, q \in 1 .. Calls :
        Writing(call[p]) /\ Writing(call[q]) /\ Fellows(call[p], call[q]) /\ Adds(call[p]) /\ ~ Broken(call[p]) =>
            p = q
StillOpen ==
    ~ gone => \A i \in 1 .. Len(log) :
                  Adds(log[i]) /\ ~ Broken(log[i]) /\ log[i].form = form[log[i].op] =>
                      \E q \in 1 .. Calls : Writing(call[q]) /\ Live(call[q]) /\ Fellows(log[i], call[q])
Dropped ==
    \A q \in 1 .. Calls : Writing(call[q]) /\ Adds(call[q]) /\ ~ Broken(call[q]) /\ call[q].at = "orphan" => gone
AddsOnce == NotedOnce /\ NotedBefore /\ OneWrite /\ StillOpen /\ Dropped

(* A write comes nearer to its end and is not dropped.                     *)
Advances(c, d) ==
    /\ Writing(c) /\ Fellows(c, d) /\ (d.at = "orphan" => c.at = "orphan")
    /\ c.nth < d.nth \/ (c.nth = d.nth /\ (c.at = "ok" => d.at = "ok"))

LEMMA OnceKept ==
    ASSUME TypeOK, AddsOnce, form' = form, gone' = gone, torn' = torn,
           call' \in [1 .. Calls -> Slots],
           \A i \in 1 .. Len(log') : log'[i].op # None => i \in 1 .. Len(log) /\ log'[i] = log[i],
           \A p \in 1 .. Calls : Writing(call'[p]) => Advances(call[p], call'[p]),
           \A p \in 1 .. Calls : Writing(call[p]) /\ Live(call[p]) =>
                                     Writing(call'[p]) /\ Live(call'[p]) /\ Fellows(call[p], call'[p])
    PROVE  AddsOnce'
<1>1. \A p \in 1 .. Calls : Writing(call[p]) => call[p].nth \in Nat
      BY CallTyped DEF WriteCalls
<1>2. \A p \in 1 .. Calls : Writing(call'[p]) => call'[p].nth \in Nat
      BY SlotKinds DEF WriteCalls
<1>3. \A i \in 1 .. Len(log) : log[i].nth \in Nat
      BY Logs DEF Entries
<1>4. NotedOnce'
      <2> SUFFICES ASSUME NEW i \in 1 .. Len(log'), NEW j \in 1 .. Len(log'), i < j, Adds(log'[i]),
                          Fellows(log'[i], log'[j]), log'[i].nth = log'[j].nth
                   PROVE  <<log'[i].op, log'[i].form>> \in torn
          BY DEF NotedOnce, Adds, Fellows, Broken, None
      <2>1. log'[i].op # None /\ log'[j].op # None
            BY DEF Adds, Fellows
      <2> QED BY <2>1 DEF AddsOnce, NotedOnce, Broken
<1>5. NotedBefore'
      <2> SUFFICES ASSUME NEW i \in 1 .. Len(log'), NEW q \in 1 .. Calls, Adds(log'[i]),
                          <<log'[i].op, log'[i].form>> \notin torn, Writing(call'[q]), Fellows(log'[i], call'[q])
                   PROVE  log'[i].nth < call'[q].nth \/ (log'[i].nth = call'[q].nth /\ call'[q].at = "ok")
          BY DEF NotedBefore, Adds, Fellows, Broken, None, Writing
      <2>1. i \in 1 .. Len(log) /\ log'[i] = log[i]
            BY DEF Adds
      <2>2. Advances(call[q], call'[q]) /\ Fellows(log[i], call[q])
            BY <2>1 DEF Advances, Fellows
      <2>3. log[i].nth < call[q].nth \/ (log[i].nth = call[q].nth /\ call[q].at = "ok")
            BY <2>1, <2>2 DEF AddsOnce, NotedBefore, Advances, Broken
      <2>4. log[i].nth \in Nat /\ call[q].nth \in Nat /\ call'[q].nth \in Nat
            BY <1>1, <1>2, <1>3, <2>1, <2>2 DEF Advances
      <2> QED BY <2>1, <2>2, <2>3, <2>4 DEF Advances
<1>6. OneWrite'
      <2> SUFFICES ASSUME NEW p \in 1 .. Calls, NEW q \in 1 .. Calls, Writing(call'[p]), Writing(call'[q]),
                          Fellows(call'[p], call'[q]), Adds(call'[p]), <<call'[p].op, call'[p].form>> \notin torn
                   PROVE  p = q
          BY DEF OneWrite, Adds, Fellows, Broken, None, Writing
      <2>1. Advances(call[p], call'[p]) /\ Advances(call[q], call'[q])
            OBVIOUS
      <2>2. Writing(call[p]) /\ Writing(call[q]) /\ Fellows(call[p], call[q]) /\ Adds(call[p]) /\ ~ Broken(call[p])
            BY <2>1 DEF Advances, Fellows, Adds, Broken
      <2> QED BY <2>2 DEF AddsOnce, OneWrite
<1>7. StillOpen'
      <2> SUFFICES ASSUME ~ gone, NEW i \in 1 .. Len(log'), Adds(log'[i]),
                          <<log'[i].op, log'[i].form>> \notin torn, log'[i].form = form[log'[i].op]
                   PROVE  \E q \in 1 .. Calls : Writing(call'[q]) /\ Live(call'[q]) /\ Fellows(log'[i], call'[q])
          BY DEF StillOpen, Adds, Fellows, Broken, None, Writing, Live
      <2>1. i \in 1 .. Len(log) /\ log'[i] = log[i]
            BY DEF Adds
      <2>2. PICK q \in 1 .. Calls : Writing(call[q]) /\ Live(call[q]) /\ Fellows(log[i], call[q])
            BY <2>1 DEF AddsOnce, StillOpen, Broken
      <2> QED BY <2>1, <2>2 DEF Fellows
<1>8. Dropped'
      <2> SUFFICES ASSUME NEW q \in 1 .. Calls, Writing(call'[q]), Adds(call'[q]),
                          <<call'[q].op, call'[q].form>> \notin torn, call'[q].at = "orphan"
                   PROVE  gone
          BY DEF Dropped, Adds, Broken, None, Writing
      <2>1. Writing(call[q]) /\ Fellows(call[q], call'[q]) /\ call[q].at = "orphan"
            BY DEF Advances
      <2>2. Adds(call[q]) /\ ~ Broken(call[q])
            BY <2>1 DEF Adds, Broken, Fellows
      <2> QED BY <2>1, <2>2 DEF AddsOnce, Dropped
<1> QED BY <1>4, <1>5, <1>6, <1>7, <1>8 DEF AddsOnce

LEMMA OnceStayed ==
    ASSUME TypeOK, AddsOnce, WritesStay, call' \in [1 .. Calls -> Slots],
           \A i \in 1 .. Len(log') : log'[i].op # None => i \in 1 .. Len(log) /\ log'[i] = log[i]
    PROVE  AddsOnce'
<1>1. \A p \in 1 .. Calls : Writing(call'[p]) => Advances(call[p], call'[p])
      BY DEF WritesStay, Advances, Fellows, Writing
<1>2. \A p \in 1 .. Calls : Writing(call[p]) /\ Live(call[p]) =>
                                Writing(call'[p]) /\ Live(call'[p]) /\ Fellows(call[p], call'[p])
      BY DEF WritesStay, Fellows, Writing, Live
<1> QED BY <1>1, <1>2, OnceKept DEF WritesStay

(* A form is sent when its button is enabled: it has no call then.         *)
LEMMA OnceSent ==
    ASSUME TypeOK, Gone, Alone, AddsOnce, NEW op \in HereOps, NEW r \in Targets(op), Send(op, r)
    PROVE  AddsOnce'
<1>1. form' = form /\ gone' = gone /\ ~ gone /\ torn' = torn /\ log' = log /\ Enabled(op, r)
      BY DEF Send, Offered, history
<1>2. /\ r \in Here.rows /\ Fresh \in 1 .. Calls /\ ~ Writing(call[Fresh])
      /\ call'[Fresh] = Write(op, r)
      /\ \A p \in 1 .. Calls : p # Fresh => call'[p] = call[p]
      BY SendEffect, LoadingKinds DEF Others
<1>3. /\ call'[Fresh].op = op /\ call'[Fresh].form = form[op] /\ call'[Fresh].at = "asked"
      /\ Writing(call'[Fresh]) /\ Live(call'[Fresh])
      BY <1>2, WriteFields, WriteForm, LoadingKinds, LiveKinds
<1>4. op # None
      BY HereSound DEF TypeOK
<1>5. ASSUME OpOf[op].write \in {"adds", "hands"}
      PROVE  \A q \in 1 .. Calls : Live(call[q]) => call[q].op # op
      <2>1. IsForm(op)
            BY <1>5, HereSound DEF TypeOK, SoundOp, IsForm
      <2>2. busy[op] = {}
            BY <1>1, <2>1 DEF Enabled, IsForm
      <2> QED BY <1>1, <1>4, <2>1, <2>2 DEF Alone
<1>6. ASSUME OpOf[op].write \in {"adds", "hands"}, <<op, form[op]>> \notin torn
      PROVE  /\ \A q \in 1 .. Calls : Writing(call[q]) => ~ (call[q].op = op /\ call[q].form = form[op])
             /\ \A i \in 1 .. Len(log) : ~ (log[i].op = op /\ log[i].form = form[op])
      <2>1. ASSUME NEW q \in 1 .. Calls, Writing(call[q]), call[q].op = op, call[q].form = form[op]
            PROVE  FALSE
            <3>1. call[q].at = "orphan"
                  BY <1>5, <1>6, <2>1 DEF Writing, Live
            <3> QED BY <1>1, <1>4, <1>6, <2>1, <3>1 DEF AddsOnce, Dropped, Adds, Broken
      <2>2. ASSUME NEW i \in 1 .. Len(log), log[i].op = op, log[i].form = form[op]
            PROVE  FALSE
            <3>1. Adds(log[i]) /\ ~ Broken(log[i])
                  BY <1>4, <1>6, <2>2 DEF Adds, Broken
            <3>2. \E q \in 1 .. Calls : Writing(call[q]) /\ Live(call[q]) /\ Fellows(log[i], call[q])
                  BY <1>1, <2>2, <3>1 DEF AddsOnce, StillOpen
            <3> QED BY <1>5, <1>6, <2>2, <3>2 DEF Fellows
      <2> QED BY <2>1, <2>2
<1>7. NotedOnce'
      BY <1>1 DEF AddsOnce, NotedOnce, Adds, Fellows, Broken
<1>8. NotedBefore'
      <2> SUFFICES ASSUME NEW i \in 1 .. Len(log), NEW q \in 1 .. Calls, Adds(log[i]),
                          <<log[i].op, log[i].form>> \notin torn, Writing(call'[q]), Fellows(log[i], call'[q])
                   PROVE  log[i].nth < call'[q].nth \/ (log[i].nth = call'[q].nth /\ call'[q].at = "ok")
          BY <1>1 DEF NotedBefore, Adds, Fellows, Broken, Writing
      <2>1. q # Fresh
            BY <1>3, <1>6 DEF Fellows, Adds
      <2> QED BY <1>2, <2>1 DEF AddsOnce, NotedBefore, Broken
<1>9. OneWrite'
      <2> SUFFICES ASSUME NEW p \in 1 .. Calls, NEW q \in 1 .. Calls, Writing(call'[p]), Writing(call'[q]),
                          Fellows(call'[p], call'[q]), Adds(call'[p]), <<call'[p].op, call'[p].form>> \notin torn
                   PROVE  p = q
          BY <1>1 DEF OneWrite, Adds, Fellows, Broken, Writing
      <2>1. CASE p # Fresh /\ q # Fresh
            BY <1>2, <2>1 DEF AddsOnce, OneWrite, Broken
      <2>2. CASE p = Fresh /\ q # Fresh
            BY <1>2, <1>3, <1>6, <2>2 DEF Fellows, Adds
      <2>3. CASE p # Fresh /\ q = Fresh
            BY <1>2, <1>3, <1>6, <2>3 DEF Fellows, Adds
      <2> QED BY <2>1, <2>2, <2>3
<1>10. StillOpen'
      <2> SUFFICES ASSUME NEW i \in 1 .. Len(log), Adds(log[i]),
                          <<log[i].op, log[i].form>> \notin torn, log[i].form = form[log[i].op]
                   PROVE  \E q \in 1 .. Calls : Writing(call'[q]) /\ Live(call'[q]) /\ Fellows(log[i], call'[q])
          BY <1>1 DEF StillOpen, Adds, Fellows, Broken, Writing, Live
      <2>1. PICK q \in 1 .. Calls : Writing(call[q]) /\ Live(call[q]) /\ Fellows(log[i], call[q])
            BY <1>1 DEF AddsOnce, StillOpen, Broken
      <2> QED BY <1>2, <2>1
<1>11. Dropped'
      <2> SUFFICES ASSUME NEW q \in 1 .. Calls, Writing(call'[q]), Adds(call'[q]),
                          <<call'[q].op, call'[q].form>> \notin torn, call'[q].at = "orphan"
                   PROVE  gone
          BY <1>1 DEF Dropped, Adds, Broken, Writing
      <2> QED BY <1>2, <1>3 DEF AddsOnce, Dropped, Broken
<1> QED BY <1>7, <1>8, <1>9, <1>10, <1>11 DEF AddsOnce

LEMMA OnceMoved ==
    ASSUME TypeOK, AddsOnce, NEW q \in 1 .. Calls, Refuse(q) \/ NextCall(q)
    PROVE  AddsOnce'
<1>1. form' = form /\ gone' = gone /\ torn' = torn /\ log' = log
      BY DEF Refuse, NextCall, user, history
<1>2. call' \in [1 .. Calls -> Slots] /\ Others(q) /\ call[q] \in WriteCalls /\ Writing(call[q])
      BY RefuseEffect, NextCallEffect, LoadingKinds
<1>3. call[q].nth \in Nat
      BY <1>2 DEF WriteCalls
<1>4. Writing(call'[q]) => Advances(call[q], call'[q])
      <2>1. CASE Refuse(q)
            BY <1>2, <1>3, <2>1, RefuseEffect, LoadingKinds DEF Advances, Fellows, Same
      <2>2. CASE NextCall(q)
            <3>1. call'[q].at = "asked" /\ Same(call[q], call'[q]) /\ call'[q].nth = call[q].nth + 1
                  BY <2>2, NextCallEffect
            <3>2. call[q].nth < call'[q].nth
                  BY <1>3, <3>1
            <3> QED BY <1>2, <3>1, <3>2 DEF Advances, Fellows, Same
      <2> QED BY <2>1, <2>2
<1>5. Live(call[q]) => Writing(call'[q]) /\ Live(call'[q]) /\ Fellows(call[q], call'[q])
      <2>1. CASE Refuse(q)
            BY <1>2, <2>1, RefuseEffect, LoadingKinds, LiveKinds DEF Fellows, Same
      <2>2. CASE NextCall(q)
            BY <1>2, <2>2, NextCallEffect, LoadingKinds, LiveKinds DEF Fellows, Same
      <2> QED BY <2>1, <2>2
<1>6. \A p \in 1 .. Calls : Writing(call'[p]) => Advances(call[p], call'[p])
      <2> SUFFICES ASSUME NEW p \in 1 .. Calls, Writing(call'[p]), p # q PROVE Advances(call[p], call'[p])
          BY <1>4
      <2> QED BY <1>2 DEF Others, Advances, Fellows
<1>7. \A p \in 1 .. Calls : Writing(call[p]) /\ Live(call[p]) =>
                                Writing(call'[p]) /\ Live(call'[p]) /\ Fellows(call[p], call'[p])
      BY <1>2, <1>5 DEF Others, Fellows
<1>8. \A i \in 1 .. Len(log') : log'[i].op # None => i \in 1 .. Len(log) /\ log'[i] = log[i]
      BY <1>1
<1> QED BY <1>1, <1>2, <1>6, <1>7, <1>8, OnceKept

(* The server carries out a write that it has not noted so far.            *)
LEMMA OnceServed ==
    ASSUME TypeOK, Drafts, AddsOnce, NEW q \in 1 .. Calls, ServeWrite(q)
    PROVE  AddsOnce'
<1> DEFINE e == Entry(call[q])  n == Len(log) + 1
<1>1. form' = form /\ gone' = gone /\ torn' = torn
      BY DEF ServeWrite, user
<1>2. /\ call[q] \in WriteCalls /\ Writing(call[q]) /\ call[q].at \in {"asked", "orphan"}
      /\ \A p \in 1 .. Calls : p # q => call'[p] = call[p]
      BY ServeWriteEffect, LoadingKinds DEF Others
<1>3. /\ call[q].at = "orphan" => ~ Writing(call'[q])
      /\ call[q].at = "asked" => /\ Writing(call'[q]) /\ Live(call'[q]) /\ call'[q].at = "ok"
                                 /\ Fellows(call[q], call'[q]) /\ call'[q].nth = call[q].nth
      BY ServeWriteEffect, LoadingKinds, LiveKinds DEF Fellows, Same
<1>4. /\ e \in Entries /\ log' = Append(log, e) /\ e.op # None /\ e.op = call[q].op
      /\ e.form = call[q].form /\ e.nth = call[q].nth
      BY ServedEntry, HereSound DEF TypeOK
<1> HIDE DEF e
<1>5. /\ Len(log) \in Nat /\ Len(log') = n /\ log'[n] = e
      /\ \A i \in 1 .. Len(log) : log'[i] = log[i] /\ log[i].nth \in Nat
      BY <1>4, Appended DEF Entries
<1>6. \A i \in 1 .. n : i = n \/ (i \in 1 .. Len(log) /\ log'[i] = log[i])
      BY <1>5
<1>7. call[q].nth \in Nat
      BY <1>2 DEF WriteCalls
<1>8. ASSUME NEW i \in 1 .. Len(log), Adds(log[i]), ~ Broken(log[i]), Fellows(log[i], call[q])
      PROVE  log[i].nth < call[q].nth
      BY <1>2, <1>8 DEF AddsOnce, NotedBefore
<1>9. ASSUME NEW p \in 1 .. Calls, p # q, Writing(call[p]), Fellows(call[q], call[p]), Adds(call[q]),
             ~ Broken(call[q])
      PROVE  FALSE
      BY <1>2, <1>9 DEF AddsOnce, OneWrite
<1> HIDE DEF n
<1>10. NotedOnce'
      <2> SUFFICES ASSUME NEW i \in 1 .. n, NEW j \in 1 .. n, i < j, Adds(log'[i]),
                          Fellows(log'[i], log'[j]), log'[i].nth = log'[j].nth,
                          <<log'[i].op, log'[i].form>> \notin torn
                   PROVE  FALSE
          BY <1>1, <1>5 DEF NotedOnce, Adds, Fellows, Broken, None
      <2>1. i \in 1 .. Len(log) /\ log'[i] = log[i]
            BY <1>5, <1>6 DEF n
      <2>2. CASE j = n
            <3>1. Fellows(log[i], call[q]) /\ log[i].nth = call[q].nth /\ ~ Broken(log[i]) /\ Adds(log[i])
                  BY <1>4, <1>5, <2>1, <2>2 DEF Fellows, Broken
            <3> QED BY <1>5, <1>7, <1>8, <2>1, <3>1
      <2>3. CASE j # n
            BY <1>6, <2>1, <2>3 DEF AddsOnce, NotedOnce, Broken
      <2> QED BY <2>2, <2>3
<1>11. NotedBefore'
      <2> SUFFICES ASSUME NEW i \in 1 .. n, NEW p \in 1 .. Calls, Adds(log'[i]),
                          <<log'[i].op, log'[i].form>> \notin torn, Writing(call'[p]), Fellows(log'[i], call'[p])
                   PROVE  log'[i].nth < call'[p].nth \/ (log'[i].nth = call'[p].nth /\ call'[p].at = "ok")
          BY <1>1, <1>5 DEF NotedBefore, Adds, Fellows, Broken, None, Writing
      <2>1. CASE p = q
            <3>1. call'[q].at = "ok" /\ Fellows(call[q], call'[q]) /\ call'[q].nth = call[q].nth
                  BY <1>2, <1>3, <2>1
            <3>2. CASE i = n
                  BY <1>4, <1>5, <2>1, <3>1, <3>2
            <3>3. CASE i # n
                  <4>1. i \in 1 .. Len(log) /\ log'[i] = log[i]
                        BY <1>6, <3>3
                  <4>2. Adds(log[i]) /\ ~ Broken(log[i]) /\ Fellows(log[i], call[q])
                        BY <2>1, <3>1, <4>1 DEF Broken, Fellows
                  <4> QED BY <1>8, <2>1, <3>1, <4>1, <4>2
            <3> QED BY <3>2, <3>3
      <2>2. CASE p # q
            <3>1. call'[p] = call[p] /\ Writing(call[p])
                  BY <1>2, <2>2
            <3>2. CASE i = n
                  <4>1. Fellows(call[q], call[p]) /\ Adds(call[q]) /\ ~ Broken(call[q])
                        BY <1>4, <1>5, <3>1, <3>2 DEF Fellows, Adds, Broken
                  <4> QED BY <1>9, <2>2, <3>1, <4>1
            <3>3. CASE i # n
                  BY <1>6, <3>1, <3>3 DEF AddsOnce, NotedBefore, Broken
            <3> QED BY <3>2, <3>3
      <2> QED BY <2>1, <2>2
<1>12. OneWrite'
      <2> SUFFICES ASSUME NEW o \in 1 .. Calls, NEW p \in 1 .. Calls, Writing(call'[o]), Writing(call'[p]),
                          Fellows(call'[o], call'[p]), Adds(call'[o]), <<call'[o].op, call'[o].form>> \notin torn
                   PROVE  o = p
          BY <1>1 DEF OneWrite, Adds, Fellows, Broken, Writing
      <2>1. /\ Writing(call[o]) /\ call[o].op = call'[o].op /\ call[o].form = call'[o].form
            /\ Writing(call[p]) /\ call[p].op = call'[p].op /\ call[p].form = call'[p].form
            BY <1>2, <1>3 DEF Fellows
      <2>2. Fellows(call[o], call[p]) /\ Adds(call[o]) /\ ~ Broken(call[o])
            BY <2>1 DEF Fellows, Adds, Broken
      <2> QED BY <2>1, <2>2 DEF AddsOnce, OneWrite
<1>13. StillOpen'
      <2> SUFFICES ASSUME ~ gone, NEW i \in 1 .. n, Adds(log'[i]),
                          <<log'[i].op, log'[i].form>> \notin torn, log'[i].form = form[log'[i].op]
                   PROVE  \E p \in 1 .. Calls : Writing(call'[p]) /\ Live(call'[p]) /\ Fellows(log'[i], call'[p])
          BY <1>1, <1>5 DEF StillOpen, Adds, Fellows, Broken, None, Writing, Live
      <2>1. CASE i = n
            <3>1. call[q].at # "orphan"
                  BY <1>2, <1>4, <1>5, <2>1 DEF AddsOnce, Dropped, Adds, Broken
            <3>2. Writing(call'[q]) /\ Live(call'[q]) /\ Fellows(call[q], call'[q])
                  BY <1>2, <1>3, <3>1
            <3>3. Fellows(log'[i], call'[q])
                  BY <1>4, <1>5, <2>1, <3>2 DEF Fellows
            <3> QED BY <3>2, <3>3
      <2>2. CASE i # n
            <3>1. i \in 1 .. Len(log) /\ log'[i] = log[i]
                  BY <1>6, <2>2
            <3>2. PICK p \in 1 .. Calls : Writing(call[p]) /\ Live(call[p]) /\ Fellows(log[i], call[p])
                  BY <3>1 DEF AddsOnce, StillOpen, Broken
            <3>3. p = q => call[q].at = "asked"
                  BY <1>2, <3>2 DEF Live
            <3> QED BY <1>2, <1>3, <3>1, <3>2, <3>3 DEF Fellows
      <2> QED BY <2>1, <2>2
<1>14. Dropped'
      <2> SUFFICES ASSUME NEW p \in 1 .. Calls, Writing(call'[p]), Adds(call'[p]),
                          <<call'[p].op, call'[p].form>> \notin torn, call'[p].at = "orphan"
                   PROVE  gone
          BY <1>1 DEF Dropped, Adds, Broken, Writing
      <2>1. p # q
            BY <1>2, <1>3
      <2> QED BY <1>2, <2>1 DEF AddsOnce, Dropped, Broken
<1> QED BY <1>10, <1>11, <1>12, <1>13, <1>14 DEF AddsOnce

(* A form that succeeded is emptied: what the server noted of it is of a   *)
(* form filled in before.                                                  *)
LEMMA OnceTaken ==
    ASSUME TypeOK, Gone, Noted, AddsOnce, NEW q \in 1 .. Calls, TakeWrite(q)
    PROVE  AddsOnce'
<1>1. torn' = torn /\ log' = log
      BY DEF TakeWrite
<1>2. \A p \in 1 .. Calls : Writing(call'[p]) =>
          /\ p # q /\ Writing(call[p]) /\ Fellows(call[p], call'[p]) /\ call'[p].nth = call[p].nth
          /\ \/ ~ gone' /\ call'[p] = call[p]
             \/ gone' /\ call'[p].at = "orphan" /\ call[p].at \in {"asked", "orphan"}
      BY LeftWrites DEF Fellows, Same
<1>3. /\ call[q] \in WriteCalls /\ Live(call[q]) /\ ~ gone /\ ~ Loading(call[q])
      /\ ~ gone' => Others(q)
      BY LeftWrites, LiveKinds, LoadingKinds, TakeWriteEffect DEF Gone
<1>4. NotedOnce'
      BY <1>1 DEF AddsOnce, NotedOnce, Adds, Fellows, Broken
<1>5. NotedBefore'
      <2> SUFFICES ASSUME NEW i \in 1 .. Len(log), NEW p \in 1 .. Calls, Adds(log[i]),
                          <<log[i].op, log[i].form>> \notin torn, Writing(call'[p]), Fellows(log[i], call'[p])
                   PROVE  log[i].nth < call'[p].nth \/ (log[i].nth = call'[p].nth /\ call'[p].at = "ok")
          BY <1>1 DEF NotedBefore, Adds, Fellows, Broken, Writing
      <2>1. Writing(call[p]) /\ Fellows(log[i], call[p]) /\ call'[p].nth = call[p].nth
            BY <1>2 DEF Fellows
      <2>2. log[i].nth < call[p].nth \/ (log[i].nth = call[p].nth /\ call[p].at = "ok")
            BY <2>1 DEF AddsOnce, NotedBefore, Broken
      <2> QED BY <1>2, <2>1, <2>2
<1>6. OneWrite'
      <2> SUFFICES ASSUME NEW o \in 1 .. Calls, NEW p \in 1 .. Calls, Writing(call'[o]), Writing(call'[p]),
                          Fellows(call'[o], call'[p]), Adds(call'[o]), <<call'[o].op, call'[o].form>> \notin torn
                   PROVE  o = p
          BY <1>1 DEF OneWrite, Adds, Fellows, Broken, Writing
      <2>1. /\ Writing(call[o]) /\ Writing(call[p]) /\ Fellows(call[o], call[p]) /\ Adds(call[o])
            /\ ~ Broken(call[o])
            BY <1>2 DEF Fellows, Adds, Broken
      <2> QED BY <2>1 DEF AddsOnce, OneWrite
<1>7. StillOpen'
      <2> SUFFICES ASSUME ~ gone', NEW i \in 1 .. Len(log), Adds(log[i]),
                          <<log[i].op, log[i].form>> \notin torn, log[i].form = form'[log[i].op]
                   PROVE  \E p \in 1 .. Calls : Writing(call'[p]) /\ Live(call'[p]) /\ Fellows(log[i], call'[p])
          BY <1>1 DEF StillOpen, Adds, Fellows, Broken, Writing, Live
      <2>1. log[i].op \in HereOps /\ log[i].form \in Nat /\ log[i].form <= form[log[i].op]
            BY Logs DEF Adds, Entries, Noted
      <2>2. form[log[i].op] \in Nat
            BY <2>1, FormEmptied
      <2>3. log[i].op # call[q].op /\ log[i].form = form[log[i].op]
            <3>1. SoundOp(OpOf[log[i].op])
                  BY <2>1, HereSound DEF TypeOK
            <3>2. IsForm(log[i].op)
                  BY <3>1 DEF SoundOp, IsForm, Adds
            <3>3. log[i].op # call[q].op
                  BY <2>1, <2>2, <3>2, FormEmptied
            <3> QED BY <2>1, <3>3, FormEmptied
      <2>4. PICK p \in 1 .. Calls : Writing(call[p]) /\ Live(call[p]) /\ Fellows(log[i], call[p])
            BY <1>3, <2>3 DEF AddsOnce, StillOpen, Broken
      <2>5. p # q
            BY <2>3, <2>4 DEF Fellows
      <2> QED BY <1>3, <2>4, <2>5 DEF Others
<1>8. Dropped'
      <2> SUFFICES ASSUME NEW p \in 1 .. Calls, Writing(call'[p]), Adds(call'[p]),
                          <<call'[p].op, call'[p].form>> \notin torn, call'[p].at = "orphan"
                   PROVE  gone'
          BY <1>1 DEF Dropped, Adds, Broken, Writing
      <2> QED BY <1>2, <1>3 DEF AddsOnce, Dropped, Broken
<1> QED BY <1>4, <1>5, <1>6, <1>7, <1>8 DEF AddsOnce

(* A refused write was not noted, unless a call before it was: then the    *)
(* form is broken, as it is when a call was given up.                      *)
LEMMA OnceFailed ==
    ASSUME TypeOK, Gone, Drafts, Noted, AddsOnce, NEW q \in 1 .. Calls, TakeRefused(q) \/ Lose(q)
    PROVE  AddsOnce'
<1> DEFINE c == call[q]
<1>1. form' = form /\ log' = log /\ gone' = gone
      BY DEF TakeRefused, Lose, user
<1>2. torn \subseteq torn'
      BY DEF TakeRefused, Lose, Error
<1>3. /\ \A p \in 1 .. Calls : Writing(call'[p]) /\ p # q => call'[p] = call[p]
      /\ \A p \in 1 .. Calls : Writing(call[p]) /\ p # q => call'[p] = call[p]
      /\ Writing(call'[q]) => /\ Writing(c) /\ Fellows(c, call'[q]) /\ call'[q].nth = c.nth
                              /\ Lose(q) /\ c.at = "asked"
      BY FailedWrites DEF Fellows, Same
<1>4. ASSUME Writing(c)
      PROVE  IF TakeRefused(q) /\ c.at = "refused" /\ c.nth <= 1 THEN TRUE ELSE <<c.op, c.form>> \in torn'
      <2>1. CASE Lose(q)
            <3>1. Error(q, TRUE)
                  BY <1>4, <2>1 DEF Lose, Writing
            <3> QED BY <2>1, <3>1 DEF Error, Lose
      <2>2. CASE TakeRefused(q)
            <3>1. c.nth \in Nat /\ Error(q, FALSE) /\ c.at = "refused"
                  BY <1>4, <2>2, CallTyped DEF TakeRefused, WriteCalls
            <3> QED BY <2>2, <3>1 DEF Error
      <2> QED BY <2>1, <2>2
<1>5. \A p \in 1 .. Calls : Writing(call'[p]) => /\ Writing(call[p]) /\ Fellows(call[p], call'[p])
                                                 /\ call'[p].nth = call[p].nth
      BY <1>3 DEF Fellows
<1>6. \A p \in 1 .. Calls : Writing(call'[p]) /\ <<call'[p].op, call'[p].form>> \notin torn' => p # q
      <2> SUFFICES ASSUME Writing(call'[q]) PROVE <<call'[q].op, call'[q].form>> \in torn'
          OBVIOUS
      <2>1. Writing(c) /\ Fellows(c, call'[q]) /\ c.at = "asked"
            BY <1>3
      <2> QED BY <1>4, <2>1 DEF Fellows
<1>7. NotedOnce'
      BY <1>1, <1>2 DEF AddsOnce, NotedOnce, Adds, Fellows, Broken
<1>8. NotedBefore'
      <2> SUFFICES ASSUME NEW i \in 1 .. Len(log), NEW p \in 1 .. Calls, Adds(log[i]),
                          <<log[i].op, log[i].form>> \notin torn', Writing(call'[p]), Fellows(log[i], call'[p])
                   PROVE  log[i].nth < call'[p].nth \/ (log[i].nth = call'[p].nth /\ call'[p].at = "ok")
          BY <1>1 DEF NotedBefore, Adds, Fellows, Broken, Writing
      <2>1. p # q
            BY <1>6 DEF Fellows
      <2> QED BY <1>2, <1>3, <2>1 DEF AddsOnce, NotedBefore, Broken
<1>9. OneWrite'
      <2> SUFFICES ASSUME NEW o \in 1 .. Calls, NEW p \in 1 .. Calls, Writing(call'[o]), Writing(call'[p]),
                          Fellows(call'[o], call'[p]), Adds(call'[o]), <<call'[o].op, call'[o].form>> \notin torn'
                   PROVE  o = p
          BY <1>1 DEF OneWrite, Adds, Fellows, Broken, Writing
      <2>1. /\ Writing(call[o]) /\ Writing(call[p]) /\ Fellows(call[o], call[p]) /\ Adds(call[o])
            /\ ~ Broken(call[o])
            BY <1>2, <1>5 DEF Fellows, Adds, Broken
      <2> QED BY <2>1 DEF AddsOnce, OneWrite
<1>10. StillOpen'
      <2> SUFFICES ASSUME ~ gone, NEW i \in 1 .. Len(log), Adds(log[i]),
                          <<log[i].op, log[i].form>> \notin torn', log[i].form = form[log[i].op]
                   PROVE  \E p \in 1 .. Calls : Writing(call'[p]) /\ Live(call'[p]) /\ Fellows(log[i], call'[p])
          BY <1>1 DEF StillOpen, Adds, Fellows, Broken, Writing, Live
      <2>1. ~ Broken(log[i])
            BY <1>2 DEF Broken
      <2>2. PICK p \in 1 .. Calls : Writing(call[p]) /\ Live(call[p]) /\ Fellows(log[i], call[p])
            BY <2>1 DEF AddsOnce, StillOpen
      <2>3. CASE p # q
            BY <1>3, <2>2, <2>3
      <2>4. CASE p = q
            <3>1. <<c.op, c.form>> \notin torn'
                  BY <2>2, <2>4 DEF Fellows
            <3>2. c.at = "refused" /\ c.nth <= 1
                  BY <1>4, <2>2, <2>4, <3>1
            <3>3. log[i].nth < c.nth
                  BY <2>1, <2>2, <2>4, <3>2 DEF AddsOnce, NotedBefore
            <3>4. log[i].nth \in Nat /\ c.nth \in Nat /\ log[i].nth >= 1
                  <4>1. log[i].nth \in Nat
                        BY Logs DEF Entries
                  <4>2. c.nth \in Nat
                        BY <2>2, <2>4, CallTyped DEF WriteCalls
                  <4>3. log[i].nth >= 1
                        BY DEF Noted, Adds
                  <4> QED BY <4>1, <4>2, <4>3
            <3> QED BY <3>2, <3>3, <3>4
      <2> QED BY <2>3, <2>4
<1>11. Dropped'
      <2> SUFFICES ASSUME NEW p \in 1 .. Calls, Writing(call'[p]), Adds(call'[p]),
                          <<call'[p].op, call'[p].form>> \notin torn', call'[p].at = "orphan"
                   PROVE  gone
          BY <1>1 DEF Dropped, Adds, Broken, Writing
      <2>1. p # q
            BY <1>6
      <2> QED BY <1>2, <1>3, <2>1 DEF AddsOnce, Dropped, Broken
<1> QED BY <1>7, <1>8, <1>9, <1>10, <1>11 DEF AddsOnce

LEMMA StepOnce == TypeOK /\ Gone /\ Alone /\ Drafts /\ Noted /\ AddsOnce /\ [Next]_vars => AddsOnce'
<1> SUFFICES ASSUME TypeOK, Gone, Alone, Drafts, Noted, AddsOnce, [Next]_vars PROVE AddsOnce'
    OBVIOUS
<1>1. call' \in [1 .. Calls -> Slots]
      <2>1. page' = page
            BY DEF Next, Proceed, vars, user, Poll, Choose, Send, Foreign, ServeLoad, ServeWrite, Refuse, TakeLoad,
                   NextCall, TakeWrite, TakeRefused, Lose
      <2> QED BY <2>1, StepTyped, SameTypes DEF TypeOK
<1>2. ASSUME \/ Poll \/ (\E k \in Keys : Choose(k)) \/ (\E q \in 1 .. Calls : ServeLoad(q) \/ TakeLoad(q))
             \/ UNCHANGED vars
      PROVE  AddsOnce'
      <2>1. log' = log
            BY <1>2 DEF Poll, Choose, ServeLoad, TakeLoad, vars
      <2>2. WritesStay
            BY <1>2, ReadsOnly
      <2> QED BY <1>1, <2>1, <2>2, OnceStayed
<1>3. ASSUME NEW r \in Here.rows, NEW w \in Kinds, Foreign(r, w) PROVE AddsOnce'
      <2> DEFINE e == Strange(r, w)
      <2>1. e \in Entries /\ log' = Append(log, e) /\ e.op = None
            BY <1>3, ForeignEffect DEF Strange
      <2> HIDE DEF e
      <2>2. \A i \in 1 .. Len(log') : log'[i].op # None => i \in 1 .. Len(log) /\ log'[i] = log[i]
            BY <2>1, Appended
      <2>3. WritesStay
            BY <1>3, ReadsOnly
      <2> QED BY <1>1, <2>2, <2>3, OnceStayed
<1>4. CASE Next
      BY <1>2, <1>3, <1>4, OnceSent, OnceServed, OnceMoved, OnceTaken, OnceFailed DEF Next, Proceed
<1> QED BY <1>2, <1>4

LEMMA InitOnce ==
    ASSUME Init
    PROVE  Noted /\ Counted /\ AddsOnce
<1>1. log = << >> /\ \A q \in 1 .. Calls : ~ Writing(call[q])
      BY DEF Init, Reload, Load, Writing, Idle
<1> QED BY <1>1 DEF Noted, Counted, AddsOnce, NotedOnce, NotedBefore, OneWrite, StillOpen, Dropped

LEMMA OnceHolds == TypeOK /\ Noted /\ Counted /\ AddsOnce => Once
<1> SUFFICES ASSUME TypeOK, Noted, Counted, AddsOnce, NEW i \in 1 .. Len(log), NEW j \in 1 .. Len(log),
                    i < j, Fellows(log[i], log[j]), log[i].nth = log[j].nth
             PROVE  /\ log[i].write \in {"adds", "hands"} =>
                           log[i].op = None \/ <<log[i].op, log[i].form>> \in torn
                    /\ log[i].write = "hands" =>
                           \E k \in i + 1 .. j - 1 : log[k].row = log[i].row /\ log[k].write = "adds"
    BY Logs DEF Once, Fellows
<1>1. log[i].write \in {"adds", "hands"} => log[i].op = None \/ <<log[i].op, log[i].form>> \in torn
      BY DEF AddsOnce, NotedOnce, Adds, Broken, Noted
<1>2. log[i].write = "hands" => log[j].write = "hands"
      BY DEF Noted, Fellows
<1>3. log[i].write = "hands" =>
          \E k \in i + 1 .. j - 1 : log[k].row = log[i].row /\ log[k].write = "adds"
      BY <1>2, Refilled
<1> QED BY <1>1, <1>3

(* A form that adds something - money, stamps, a person, a device - adds   *)
(* it once for each time it is filled in, however the calls of the page    *)
(* interleave, unless one of them was given up or a later call of the form *)
(* failed; a till counted once is handed over again only if, besides, it   *)
(* was filled in between.                                                  *)
THEOREM FormsAddOnce == Spec => []Once
<1> DEFINE FormInv == TypeOK /\ Gone /\ Held /\ Alone /\ Drafts /\ Noted /\ Counted /\ AddsOnce
<1>1. Init => FormInv
      BY InitTyped, InitHeld, InitAlone, InitDrafts, InitOnce
<1>2. FormInv /\ [Next]_vars => FormInv'
      BY StepTyped, StepHeld, StepAlone, StepDrafts, StepNoted, StepCounted, StepOnce
<1>3. FormInv => Once
      BY OnceHolds
<1> QED BY <1>1, <1>2, <1>3, PTL DEF Spec

-----------------------------------------------------------------------------
(* A quiet page is fresh                                                   *)

(* An answer tells which change it is about.                               *)
Answers ==
    \A q \in 1 .. Calls : Writing(call[q]) /\ call[q].at = "ok" =>
        /\ call[q].seen \in 1 .. Len(log) /\ Fellows(log[call[q].seen], call[q])
        /\ log[call[q].seen].row = call[q].row /\ log[call[q].seen].nth = call[q].nth

(* A call that will bring a change to the page: a load that sees it, the   *)
(* write that made it, or a later call of the form that made it.           *)
Brings(c, i) ==
    \/ Loading(c) /\ c.key # None /\ (c.at = "ok" => i <= c.seen)
    \/ /\ Writing(c) /\ Live(c) /\ c.row = log[i].row
       /\ \/ c.at = "ok" /\ i = c.seen
          \/ Fellows(log[i], c) /\ log[i].nth < c.nth /\ (c.at = "ok" => i <= c.seen)

(* Every change is shown, missed, or on its way.                           *)
Accounted ==
    ~ gone => \A i \in 1 .. Len(log) :
                  \/ i \in shown[log[i].row] \/ i \in missed
                  \/ \E q \in 1 .. Calls : Brings(call[q], i)

LEMMA AnswersKept ==
    ASSUME TypeOK, Answers, log' = log,
           \A p \in 1 .. Calls : Writing(call'[p]) /\ call'[p].at = "ok" => call'[p] = call[p]
    PROVE  Answers'
BY DEF Answers, Writing, Fellows

LEMMA AnswersServed ==
    ASSUME TypeOK, Drafts, Answers, NEW q \in 1 .. Calls, ServeWrite(q)
    PROVE  Answers'
<1> DEFINE e == Entry(call[q])
<1>1. /\ e \in Entries /\ log' = Append(log, e) /\ e.op = call[q].op
      /\ e.form = call[q].form /\ e.nth = call[q].nth /\ e.row = call[q].row
      BY ServedEntry
<1> HIDE DEF e
<1>2. /\ Len(log) \in Nat /\ Len(log') = Len(log) + 1 /\ log'[Len(log) + 1] = e
      /\ \A i \in 1 .. Len(log) : log'[i] = log[i]
      BY <1>1, Appended
<1>3. \A p \in 1 .. Calls : p # q => call'[p] = call[p]
      BY ServeWriteEffect DEF Others
<1>4. Writing(call'[q]) => /\ call'[q].seen = Len(log) + 1 /\ Fellows(e, call'[q])
                           /\ call'[q].row = e.row /\ call'[q].nth = e.nth
      BY <1>1, ServeWriteEffect, LoadingKinds DEF Same, Fellows
<1> SUFFICES ASSUME NEW p \in 1 .. Calls, Writing(call'[p]), call'[p].at = "ok"
             PROVE  /\ call'[p].seen \in 1 .. Len(log') /\ Fellows(log'[call'[p].seen], call'[p])
                    /\ log'[call'[p].seen].row = call'[p].row /\ log'[call'[p].seen].nth = call'[p].nth
    BY DEF Answers, Writing, Fellows
<1>5. CASE p = q
      BY <1>2, <1>4, <1>5
<1>6. CASE p # q
      <2>1. call'[p] = call[p] /\ Writing(call[p])
            BY <1>3, <1>6
      <2> QED BY <1>2, <2>1 DEF Answers
<1> QED BY <1>5, <1>6

LEMMA StepAnswers == TypeOK /\ Drafts /\ Answers /\ [Next]_vars => Answers'
<1> SUFFICES ASSUME TypeOK, Drafts, Answers, [Next]_vars PROVE Answers'
    OBVIOUS
<1>1. ASSUME \/ Poll \/ (\E k \in Keys : Choose(k)) \/ (\E q \in 1 .. Calls : ServeLoad(q) \/ TakeLoad(q))
             \/ UNCHANGED vars
      PROVE  Answers'
      <2>1. log' = log /\ WritesStay
            BY <1>1, ReadsOnly DEF Poll, Choose, ServeLoad, TakeLoad, vars
      <2> QED BY <2>1, AnswersKept DEF WritesStay
<1>2. ASSUME NEW r \in Here.rows, NEW w \in Kinds, Foreign(r, w) PROVE Answers'
      <2>1. call' = call
            BY <1>2 DEF Foreign
      <2>2. /\ Len(log) \in Nat /\ Len(log') = Len(log) + 1
            /\ \A i \in 1 .. Len(log) : log'[i] = log[i]
            BY <1>2, ForeignEffect, Appended
      <2> QED BY <2>1, <2>2 DEF Answers, Fellows
<1>3. ASSUME NEW op \in HereOps, NEW r \in Targets(op), Send(op, r) PROVE Answers'
      <2>1. /\ Fresh \in 1 .. Calls /\ call'[Fresh].at = "asked"
            /\ \A p \in 1 .. Calls : p # Fresh => call'[p] = call[p]
            BY <1>3, SendEffect, WriteFields DEF Others
      <2> QED BY <1>3, <2>1, AnswersKept DEF Send
<1>4. ASSUME NEW q \in 1 .. Calls, Refuse(q) \/ NextCall(q) PROVE Answers'
      <2>1. log' = log
            BY <1>4 DEF Refuse, NextCall
      <2>2. Others(q) /\ ~ (Writing(call'[q]) /\ call'[q].at = "ok")
            BY <1>4, RefuseEffect, NextCallEffect, LoadingKinds
      <2> QED BY <2>1, <2>2, AnswersKept DEF Others
<1>5. ASSUME NEW q \in 1 .. Calls, TakeWrite(q) PROVE Answers'
      <2>1. log' = log
            BY <1>5 DEF TakeWrite
      <2> QED BY <1>5, <2>1, LeftWrites, AnswersKept
<1>6. ASSUME NEW q \in 1 .. Calls, TakeRefused(q) \/ Lose(q) PROVE Answers'
      <2>1. log' = log
            BY <1>6 DEF TakeRefused, Lose
      <2> QED BY <1>6, <2>1, FailedWrites, AnswersKept
<1>7. CASE Next
      BY <1>1, <1>2, <1>3, <1>4, <1>5, <1>6, <1>7, AnswersServed DEF Next, Proceed
<1> QED BY <1>1, <1>7

LEMMA AccountedKept ==
    ASSUME TypeOK, Accounted, gone' = gone, log' = log, shown' = shown, missed \subseteq missed',
           \A i \in 1 .. Len(log), p \in 1 .. Calls :
               Brings(call[p], i) => i \in missed' \/ \E o \in 1 .. Calls : Brings(call'[o], i)
    PROVE  Accounted'
<1> SUFFICES ASSUME ~ gone, NEW i \in 1 .. Len(log)
             PROVE  \/ i \in shown[log[i].row] \/ i \in missed'
                    \/ \E q \in 1 .. Calls : Brings(call'[q], i)
    BY DEF Accounted, Brings, Loading, Writing, Live, Fellows, None
<1> QED BY DEF Accounted

LEMMA AskedBrings ==
    ASSUME NEW c \in LoadCalls, c.at = "asked", c.key # None, NEW i
    PROVE  Brings(c, i)
BY LoadingKinds DEF Brings

(* A page with buttons offers no choice: what it loads belongs to it.      *)
LEMMA WriteKey ==
    ASSUME TypeOK, KeyKnown, NEW q \in 1 .. Calls, Writing(call[q])
    PROVE  call[q].key = key /\ key # None
<1>1. call[q].op \in HereOps /\ call[q] # Idle
      BY CallTyped, LoadingKinds DEF WriteCalls
<1> QED BY <1>1, HereSound, KeyReal DEF TypeOK, KeyKnown

LEMMA UserAccounted ==
    ASSUME TypeOK, Gone, Accounted,
           Poll \/ (\E k \in Keys : Choose(k)) \/ (\E op \in HereOps : \E r \in Targets(op) : Send(op, r))
                \/ (\E r \in Here.rows, w \in Kinds : Foreign(r, w))
    PROVE  Accounted'
<1>1. ASSUME Poll \/ (\E op \in HereOps : \E r \in Targets(op) : Send(op, r)) PROVE Accounted'
      <2>1. gone' = gone /\ log' = log /\ shown' = shown /\ missed' = missed
            BY <1>1 DEF Poll, Send, history
      <2>2. /\ Fresh \in 1 .. Calls /\ call[Fresh] = Idle
            /\ \A p \in 1 .. Calls : p # Fresh => call'[p] = call[p]
            BY <1>1, PollEffect, SendEffect DEF Others
      <2>3. \A i \in 1 .. Len(log) : ~ Brings(call[Fresh], i)
            BY <2>2, LoadingKinds DEF Brings
      <2>4. \A i \in 1 .. Len(log), p \in 1 .. Calls : Brings(call[p], i) => Brings(call'[p], i)
            BY <2>2, <2>3
      <2> QED BY <2>1, <2>4, AccountedKept
<1>2. ASSUME NEW k \in Keys, Choose(k) PROVE Accounted'
      <2>1. gone' = gone /\ log' = log /\ shown' = shown /\ missed' = missed
            BY <1>2 DEF Choose
      <2>2. Fresh \in 1 .. Calls /\ call'[Fresh] = Reload(k) /\ Reload(k) \in LoadCalls
            BY <1>2, ChooseEffect
      <2>3. Reload(k).at = "asked" /\ Reload(k).key = k /\ k # None
            BY DEF Reload, Load, ConsoleAssumption, None
      <2>4. \A i \in 1 .. Len(log) : Brings(call'[Fresh], i)
            BY <2>2, <2>3, AskedBrings
      <2> QED BY <2>1, <2>2, <2>4, AccountedKept
<1>3. ASSUME NEW r \in Here.rows, NEW w \in Kinds, Foreign(r, w) PROVE Accounted'
      <2>1. gone' = gone /\ shown' = shown /\ call' = call /\ missed' = missed \cup {Len(log) + 1}
            BY <1>3, ForeignEffect DEF Foreign
      <2>2. /\ Len(log) \in Nat /\ Len(log') = Len(log) + 1
            /\ \A i \in 1 .. Len(log) : log'[i] = log[i]
            BY <1>3, ForeignEffect, Appended
      <2> SUFFICES ASSUME ~ gone, NEW i \in 1 .. (Len(log) + 1)
                   PROVE  \/ i \in shown[log'[i].row] \/ i \in missed'
                          \/ \E q \in 1 .. Calls : Brings(call[q], i)'
          BY <2>1, <2>2 DEF Accounted
      <2>3. CASE i = Len(log) + 1
            BY <2>1, <2>3
      <2>4. CASE i # Len(log) + 1
            <3>1. i \in 1 .. Len(log) /\ log'[i] = log[i]
                  BY <2>2, <2>4
            <3>2. \A q \in 1 .. Calls : Brings(call[q], i) => Brings(call[q], i)'
                  BY <2>1, <3>1 DEF Brings, Loading, Writing, Live, Fellows, None
            <3> QED BY <2>1, <3>1, <3>2 DEF Accounted
      <2> QED BY <2>3, <2>4
<1> QED BY <1>1, <1>2, <1>3

LEMMA ServerAccounted ==
    ASSUME TypeOK, Answers, Accounted, NEW q \in 1 .. Calls, ServeLoad(q) \/ Refuse(q) \/ NextCall(q)
    PROVE  Accounted'
<1>1. gone' = gone /\ log' = log /\ shown' = shown /\ missed' = missed
      BY DEF ServeLoad, Refuse, NextCall, history
<1>2. Others(q)
      BY ServeLoadEffect, RefuseEffect, NextCallEffect
<1>3. ASSUME NEW i \in 1 .. Len(log), Brings(call[q], i) PROVE Brings(call'[q], i)
      <2>1. CASE ServeLoad(q)
            <3>1. i <= Len(log)
                  BY Logs
            <3> QED BY <1>3, <2>1, <3>1, ServeLoadEffect, LoadingKinds DEF Brings
      <2>2. CASE Refuse(q)
            <3>1. call[q].at # "orphan"
                  BY <1>3, <2>2, RefuseEffect, LoadingKinds, LiveKinds DEF Brings
            <3>2. /\ Writing(call'[q]) /\ Live(call'[q]) /\ call'[q].at = "refused"
                  /\ Same(call[q], call'[q]) /\ call'[q].nth = call[q].nth /\ call[q].at = "asked"
                  BY <2>2, <3>1, RefuseEffect, LoadingKinds, LiveKinds
            <3>3. Fellows(log[i], call[q]) /\ log[i].nth < call[q].nth /\ call[q].row = log[i].row
                  BY <1>3, <2>2, <3>2, RefuseEffect, LoadingKinds DEF Brings
            <3> QED BY <3>2, <3>3 DEF Brings, Fellows, Same
      <2>3. CASE NextCall(q)
            <3>1. /\ call[q] \in WriteCalls /\ Writing(call[q]) /\ ~ Loading(call[q]) /\ call[q].at = "ok"
                  /\ Writing(call'[q]) /\ Live(call'[q]) /\ call'[q].at = "asked"
                  /\ Same(call[q], call'[q]) /\ call'[q].nth = call[q].nth + 1
                  BY <2>3, NextCallEffect, LoadingKinds, LiveKinds
            <3>2. call[q].nth \in Nat /\ log[i].nth \in Nat
                  BY <3>1, Logs DEF WriteCalls, Entries
            <3>3. Fellows(log[i], call[q]) /\ log[i].nth <= call[q].nth /\ call[q].row = log[i].row
                  BY <1>3, <3>1, <3>2 DEF Brings, Answers
            <3>4. log[i].nth < call'[q].nth
                  BY <3>1, <3>2, <3>3
            <3> QED BY <3>1, <3>3, <3>4 DEF Brings, Fellows, Same
      <2> QED BY <2>1, <2>2, <2>3
<1>4. \A i \in 1 .. Len(log), p \in 1 .. Calls : Brings(call[p], i) => Brings(call'[p], i)
      BY <1>2, <1>3 DEF Others
<1> QED BY <1>1, <1>4, AccountedKept

LEMMA ServedAccounted ==
    ASSUME TypeOK, Drafts, Accounted, NEW q \in 1 .. Calls, ServeWrite(q)
    PROVE  Accounted'
<1> DEFINE e == Entry(call[q])
<1>1. gone' = gone /\ shown' = shown /\ missed \subseteq missed'
      BY ServeWriteEffect DEF ServeWrite
<1>2. /\ e \in Entries /\ log' = Append(log, e) /\ e.row = call[q].row
      BY ServedEntry
<1> HIDE DEF e
<1>3. /\ Len(log) \in Nat /\ Len(log') = Len(log) + 1 /\ log'[Len(log) + 1] = e
      /\ \A i \in 1 .. Len(log) : log'[i] = log[i]
      BY <1>2, Appended
<1>4. /\ call[q] \in WriteCalls /\ Writing(call[q]) /\ ~ Loading(call[q]) /\ call[q].at \in {"asked", "orphan"}
      /\ \A p \in 1 .. Calls : p # q => call'[p] = call[p]
      /\ call[q].at = "orphan" => missed' = missed \cup {Len(log) + 1}
      /\ call[q].at = "asked" =>
            /\ Writing(call'[q]) /\ Live(call'[q]) /\ call'[q].at = "ok" /\ call'[q].seen = Len(log) + 1
            /\ Same(call[q], call'[q]) /\ call'[q].nth = call[q].nth
      BY ServeWriteEffect, LoadingKinds, LiveKinds DEF Others
<1> SUFFICES ASSUME ~ gone, NEW i \in 1 .. (Len(log) + 1)
             PROVE  \/ i \in shown[log'[i].row] \/ i \in missed'
                    \/ \E p \in 1 .. Calls : Brings(call[p], i)'
    BY <1>1, <1>3 DEF Accounted
<1>5. CASE i = Len(log) + 1
      <2>1. CASE call[q].at = "orphan"
            BY <1>4, <1>5, <2>1
      <2>2. CASE call[q].at = "asked"
            <3>1. call'[q].row = log'[i].row
                  BY <1>2, <1>3, <1>4, <1>5, <2>2 DEF Same
            <3>2. Brings(call[q], i)'
                  BY <1>4, <1>5, <2>2, <3>1 DEF Brings, Writing, Live
            <3> QED BY <3>2
      <2> QED BY <1>4, <2>1, <2>2
<1>6. CASE i # Len(log) + 1
      <2>1. i \in 1 .. Len(log) /\ log'[i] = log[i] /\ i <= Len(log) + 1
            BY <1>3, <1>6
      <2>2. ASSUME NEW p \in 1 .. Calls, Brings(call[p], i) PROVE Brings(call[p], i)'
            <3>1. CASE p # q
                  <4>1. call'[p] = call[p]
                        BY <1>4, <3>1
                  <4> QED BY <2>1, <2>2, <4>1 DEF Brings, Loading, Writing, Live, Fellows, None
            <3>2. CASE p = q
                  <4>1. call[q].at = "asked"
                        BY <1>4, <2>2, <3>2 DEF Brings, Live
                  <4>2. Fellows(log[i], call[q]) /\ log[i].nth < call[q].nth /\ call[q].row = log[i].row
                        BY <1>4, <2>2, <3>2, <4>1 DEF Brings
                  <4>3. /\ Fellows(log'[i], call'[q]) /\ log'[i].nth < call'[q].nth /\ call'[q].row = log'[i].row
                        /\ i <= call'[q].seen
                        BY <1>4, <2>1, <4>1, <4>2 DEF Fellows, Same
                  <4> QED BY <1>4, <3>2, <4>1, <4>3 DEF Brings, Writing, Live, Fellows
            <3> QED BY <3>1, <3>2
      <2> QED BY <1>1, <2>1, <2>2 DEF Accounted
<1> QED BY <1>5, <1>6

LEMMA LoadAccounted ==
    ASSUME TypeOK, Accounted, NEW q \in 1 .. Calls, TakeLoad(q)
    PROVE  Accounted'
<1>1. gone' = gone /\ log' = log
      BY DEF TakeLoad
<1>2. /\ call[q] \in LoadCalls /\ Loading(call[q]) /\ ~ Writing(call[q]) /\ call[q].at = "ok"
      /\ \A p \in 1 .. Calls : p # q => call'[p] = call[p]
      BY TakeLoadEffect, LoadingKinds DEF Others
<1>3. CASE call[q].key = None
      <2>1. shown' = shown /\ missed' = missed
            BY <1>3 DEF TakeLoad
      <2>2. \A i \in 1 .. Len(log) : ~ Brings(call[q], i)
            BY <1>2, <1>3 DEF Brings
      <2>3. \A i \in 1 .. Len(log), p \in 1 .. Calls : Brings(call[p], i) => Brings(call'[p], i)
            BY <1>2, <2>2
      <2> QED BY <1>1, <2>1, <2>3, AccountedKept
<1>4. CASE call[q].key # None
      <2>1. /\ shown' = [r \in Here.rows |-> IF r \in Here.rows THEN Seen(r, call[q].seen) ELSE shown[r]]
            /\ missed' = missed \cup UNION {shown[r] \ Seen(r, call[q].seen) : r \in Here.rows}
            BY <1>4 DEF TakeLoad, Show
      <2> SUFFICES ASSUME ~ gone, NEW i \in 1 .. Len(log)
                   PROVE  \/ i \in shown'[log[i].row] \/ i \in missed'
                          \/ \E p \in 1 .. Calls : Brings(call'[p], i)
          BY <1>1 DEF Accounted, Brings, Loading, Writing, Live, Fellows, None
      <2>2. log[i].row \in Here.rows /\ call[q].seen \in Nat
            BY <1>2, Logs DEF Entries, LoadCalls
      <2>3. shown'[log[i].row] = Seen(log[i].row, call[q].seen)
            BY <2>1, <2>2
      <2>4. CASE i \in shown[log[i].row]
            BY <2>1, <2>2, <2>3, <2>4
      <2>5. CASE i \in missed
            BY <2>1, <2>5
      <2>6. ASSUME NEW p \in 1 .. Calls, Brings(call[p], i)
            PROVE  i \in shown'[log[i].row] \/ Brings(call'[p], i)
            <3>1. CASE p = q
                  <4>1. i <= call[q].seen
                        BY <1>2, <2>6, <3>1 DEF Brings
                  <4>2. i \in Seen(log[i].row, call[q].seen)
                        BY <2>2, <4>1, Logs DEF Seen
                  <4> QED BY <2>3, <4>2
            <3>2. CASE p # q
                  BY <1>2, <2>6, <3>2
            <3> QED BY <3>1, <3>2
      <2> QED BY <2>4, <2>5, <2>6 DEF Accounted
<1> QED BY <1>3, <1>4

(* The answer to a write is shown, comes with the load that follows, or is *)
(* missed; an operation with a second call shows its row or loads.         *)
LEMMA TakenAccounted ==
    ASSUME TypeOK, Drafts, Noted, KeyKnown, Answers, Accounted, Gone, NEW q \in 1 .. Calls, TakeWrite(q)
    PROVE  Accounted'
<1> DEFINE c == call[q]  then == OpOf[call[q].op].then
<1>1. /\ c \in WriteCalls /\ Writing(c) /\ ~ Loading(c) /\ c.at = "ok" /\ ~ gone
      /\ ~ gone' => call'[q] = After(c) /\ \A p \in 1 .. Calls : p # q => call'[p] = call[p]
      /\ gone' <=> then = "leave"
      BY TakeWriteEffect, LoadingKinds, LiveKinds DEF Others, Gone
<1>2. log' = log
      BY DEF TakeWrite
<1>3. /\ c.op \in HereOps /\ c.row \in Here.rows /\ c.seen \in Nat /\ c.nth \in Nat
      /\ SoundOp(OpOf[c.op]) /\ c.nth \in 1 .. OpOf[c.op].calls
      BY <1>1, HereSound DEF WriteCalls, TypeOK, Drafts
<1>4. CASE
          \/ then \in {"patch", "both"} /\ ~ Removed(c.row) /\ Show(c.seen, {c.row})
          \/ then = "part" /\ ShowPart(c.seen, c.row)
          \/ then \in {"local", "remove"} /\ shown' = [shown EXCEPT ![c.row] = @ \cup {c.seen}] /\ missed' = missed
          \/ then = "load" /\ shown' = shown /\ missed' = missed
          \/ /\ then \notin {"load", "local", "remove", "part"} /\ (then \in {"patch", "both"} => Removed(c.row))
             /\ shown' = shown /\ missed' = missed \cup {c.seen}
      <2> SUFFICES ASSUME ~ gone', NEW i \in 1 .. Len(log)
                   PROVE  \/ i \in shown'[log[i].row] \/ i \in missed'
                          \/ \E p \in 1 .. Calls : Brings(call'[p], i)
          BY <1>2 DEF Accounted, Brings, Loading, Writing, Live, Fellows, None
      <2>1. log[i].row \in Here.rows
            BY Logs DEF Entries
      <2>2. CASE then \in {"load", "both"}
            <3>1. After(c) \in LoadCalls /\ After(c).at = "asked" /\ After(c).key # None
                  BY <1>1, <2>2, AfterFields, WriteKey
            <3> QED BY <1>1, <3>1, AskedBrings
      <2>3. CASE then \notin {"load", "both"}
            <3>1. CASE i \in shown[log[i].row] \/ i \in missed
                  <4>1. CASE Show(c.seen, {c.row})
                        <5>1. /\ shown' = [r \in Here.rows |-> IF r \in {c.row} THEN Seen(r, c.seen) ELSE shown[r]]
                              /\ missed' = missed \cup UNION {shown[r] \ Seen(r, c.seen) : r \in {c.row}}
                              BY <4>1 DEF Show
                        <5>2. missed' = missed \cup (shown[c.row] \ Seen(c.row, c.seen))
                              BY <5>1
                        <5>3. shown'[log[i].row] = IF log[i].row = c.row THEN Seen(c.row, c.seen)
                                                   ELSE shown[log[i].row]
                              BY <2>1, <5>1
                        <5> QED BY <3>1, <5>2, <5>3
                  <4>2. CASE shown' = [shown EXCEPT ![c.row] = @ \cup {c.seen}] /\ missed' = missed
                        BY <1>3, <2>1, <3>1, <4>2 DEF TypeOK
                  <4>3. CASE shown' = shown /\ missed \subseteq missed'
                        BY <3>1, <4>3
                  <4>4. CASE ShowPart(c.seen, c.row)
                        <5>1. shown' = [shown EXCEPT ![c.row] = {k \in Seen(c.row, c.seen) : log[k].write # "links"}]
                              BY <4>4 DEF ShowPart
                        <5>2. log[i].row # c.row => shown'[log[i].row] = shown[log[i].row]
                              BY <1>3, <2>1, <5>1 DEF TypeOK
                        <5>3. missed' = missed \cup (shown[c.row] \ shown'[c.row])
                              BY <4>4 DEF ShowPart
                        <5> QED BY <3>1, <5>2, <5>3
                  <4> QED BY <1>4, <4>1, <4>2, <4>3, <4>4
            <3>2. ASSUME NEW p \in 1 .. Calls, p # q, Brings(call[p], i) PROVE Brings(call'[p], i)
                  BY <1>1, <3>2
            <3>3. ASSUME Brings(c, i) PROVE i \in shown'[log[i].row] \/ i \in missed'
                  <4>1. /\ c.row = log[i].row
                        /\ i = c.seen \/ (Fellows(log[i], c) /\ log[i].nth < c.nth /\ i <= c.seen)
                        BY <1>1, <3>3 DEF Brings
                  <4>2. Fellows(log[i], c) /\ log[i].nth < c.nth => OpOf[c.op].calls = 2
                        <5> SUFFICES ASSUME Fellows(log[i], c), log[i].nth < c.nth PROVE OpOf[c.op].calls = 2
                            OBVIOUS
                        <5>1. log[i].op # None
                              BY <1>3, HereSound DEF Fellows, TypeOK
                        <5>2. log[i].nth >= 1
                              BY <5>1 DEF Noted
                        <5>3. log[i].nth \in Nat /\ OpOf[c.op].calls \in {1, 2}
                              BY <1>3, Logs DEF Entries, SoundOp
                        <5> QED BY <1>3, <5>2, <5>3
                  <4>3. i <= c.seen
                        BY <1>3, <4>1
                  <4>4. CASE then = "patch" /\ Show(c.seen, {c.row})
                        <5>1. shown'[log[i].row] = Seen(c.row, c.seen)
                              BY <2>1, <4>1, <4>4 DEF Show
                        <5>2. i \in Seen(c.row, c.seen)
                              BY <1>3, <4>1, <4>3, Logs DEF Seen
                        <5> QED BY <5>1, <5>2
                  <4>5. CASE then # "patch"
                        <5>1. OpOf[c.op].calls # 2
                              BY <1>3, <2>3, <4>5 DEF SoundOp
                        <5>2. i = c.seen
                              BY <4>1, <4>2, <5>1
                        <5>3. CASE shown' = [shown EXCEPT ![c.row] = @ \cup {c.seen}]
                              BY <1>3, <4>1, <5>2, <5>3 DEF TypeOK
                        <5>4. CASE then = "part" /\ ShowPart(c.seen, c.row)
                              <6>1. shown'[c.row] = {k \in Seen(c.row, c.seen) : log[k].write # "links"}
                                    BY <1>3, <5>4 DEF ShowPart, TypeOK
                              <6>2. c.seen \in 1 .. Len(log) /\ log[i].op = c.op
                                    BY <1>1, <5>2 DEF Answers, Fellows
                              <6>3. log[i].op # None
                                    BY <1>3, <6>2, HereSound DEF TypeOK
                              <6>4. log[i].write # "links"
                                    BY <1>3, <5>4, <6>2, <6>3 DEF Noted, SoundOp
                              <6> QED BY <1>3, <4>1, <5>2, <6>1, <6>2, <6>4 DEF Seen
                        <5> QED BY <1>4, <2>3, <4>5, <5>2, <5>3, <5>4
                  <4>6. CASE then = "patch" /\ Removed(c.row) /\ missed' = missed \cup {c.seen}
                        <5>1. OpOf[c.op].calls # 2
                              BY <1>3, <4>6, HereSound DEF TypeOK, Removed
                        <5> QED BY <4>1, <4>2, <4>6, <5>1
                  <4> QED BY <1>4, <4>4, <4>5, <4>6
            <3> QED BY <1>1, <3>1, <3>2, <3>3 DEF Accounted
      <2> QED BY <2>2, <2>3
<1> QED BY <1>4 DEF TakeWrite

(* What an error leaves unsaid is missed: the calls of the form before the *)
(* one that failed, and what the server did when the answer got lost.      *)
LEMMA FailedAccounted ==
    ASSUME TypeOK, Noted, KeyKnown, Accounted, NEW q \in 1 .. Calls, TakeRefused(q) \/ Lose(q)
    PROVE  Accounted'
<1> DEFINE c == call[q]
<1>1. gone' = gone /\ log' = log /\ shown' = shown
      BY DEF TakeRefused, Lose
<1>2. CASE c.load
      <2>1. Lose(q)
            BY <1>2, TakeRefusedEffect DEF WriteCalls
      <2>2. missed' = missed \cup DOMAIN log
            BY <1>2, <2>1 DEF Lose
      <2>3. \A i \in 1 .. Len(log) : i \in missed'
            BY <2>2, Logs
      <2> QED BY <1>1, <2>2, <2>3, AccountedKept
<1>3. CASE ~ c.load
      <2>1. c \in WriteCalls /\ Writing(c) /\ ~ Loading(c)
            BY <1>3, TakeRefusedEffect, LoseWriteEffect, LoadingKinds
      <2>2. missed \subseteq missed'
            BY <1>3 DEF TakeRefused, Lose, Error
      <2>3. ASSUME NEW i \in 1 .. Len(log), Brings(c, i) PROVE i \in missed'
            <3>1. \/ c.at = "ok" /\ i = c.seen
                  \/ Fellows(log[i], c) /\ log[i].nth < c.nth
                  BY <2>1, <2>3 DEF Brings
            <3>2. CASE c.at = "ok" /\ i = c.seen
                  <4>1. Error(q, TRUE)
                        BY <1>3, <3>2 DEF TakeRefused, Lose
                  <4> QED BY <3>2, <4>1 DEF Error
            <3>3. CASE Fellows(log[i], c) /\ log[i].nth < c.nth
                  <4>1. log[i].op # None
                        BY <2>1, <3>3, HereSound DEF TypeOK, WriteCalls, Fellows
                  <4>2. log[i].nth >= 1 /\ log[i].nth \in Nat /\ c.nth \in Nat
                        BY <2>1, <4>1, Logs DEF Noted, Entries, WriteCalls
                  <4>3. c.nth > 1
                        BY <3>3, <4>2
                  <4>4. \E u \in BOOLEAN : Error(q, u)
                        BY <1>3 DEF TakeRefused, Lose
                  <4>5. {j \in DOMAIN log : /\ log[j].op = c.op /\ log[j].form = c.form /\ log[j].nth < c.nth}
                        \subseteq missed'
                        BY <4>3, <4>4 DEF Error
                  <4> QED BY <3>3, <4>5, Logs DEF Fellows
            <3> QED BY <3>1, <3>2, <3>3
      <2>4. \A p \in 1 .. Calls : p # q => call'[p] = call[p] \/ call[p] = Idle
            BY <1>3, TakeRefusedEffect, LoseWriteEffect DEF Others
      <2>5. \A i \in 1 .. Len(log), p \in 1 .. Calls :
                Brings(call[p], i) => i \in missed' \/ \E o \in 1 .. Calls : Brings(call'[o], i)
            BY <2>3, <2>4, LoadingKinds DEF Brings
      <2> QED BY <1>1, <2>2, <2>5, AccountedKept
<1> QED BY <1>2, <1>3

LEMMA StepAccounted ==
    TypeOK /\ Gone /\ Drafts /\ Noted /\ KeyKnown /\ Answers /\ Accounted /\ [Next]_vars => Accounted'
<1> SUFFICES ASSUME TypeOK, Gone, Drafts, Noted, KeyKnown, Answers, Accounted, [Next]_vars PROVE Accounted'
    OBVIOUS
<1>1. CASE Next
      BY <1>1, UserAccounted, ServerAccounted, ServedAccounted, LoadAccounted, TakenAccounted, FailedAccounted
         DEF Next, Proceed
<1>2. CASE UNCHANGED vars
      BY <1>2, AccountedKept DEF vars, history
<1> QED BY <1>1, <1>2

LEMMA InitAccounted ==
    ASSUME Init
    PROVE  Answers /\ Accounted
<1>1. log = << >> /\ \A q \in 1 .. Calls : ~ Writing(call[q])
      BY DEF Init, Reload, Load, Writing, Idle
<1> QED BY <1>1 DEF Answers, Accounted

LEMMA FreshHolds == TypeOK /\ Accounted => QuietIsFresh
<1> SUFFICES ASSUME TypeOK, Accounted, Quiet, NEW r \in Here.rows, NEW i \in Seen(r, Len(log)), i \notin shown[r]
             PROVE  i \in missed
    BY DEF QuietIsFresh
<1>1. i \in 1 .. Len(log) /\ log[i].row = r
      BY Logs DEF Seen
<1>2. \A q \in 1 .. Calls : ~ Brings(call[q], i)
      BY LoadingKinds DEF Quiet, Brings, TypeOK
<1> QED BY <1>1, <1>2 DEF Accounted, Quiet

(* When nothing is under way a page shows every row as the server has it,  *)
(* but for changes made elsewhere since its last load, changes whose       *)
(* answer got lost, answers that an older one overtook, and the devices    *)
(* that the answer to a saved Telegram name leaves out - whichever page,   *)
(* whatever was clicked, in whatever order the answers came.               *)
THEOREM QuietPagesFresh == Spec => []QuietIsFresh
<1> DEFINE PageInv == /\ TypeOK /\ Gone /\ Held /\ Alone /\ Drafts /\ Noted
                      /\ KeyKnown /\ KeyComes /\ Answers /\ Accounted
<1>1. Init => PageInv
      BY InitTyped, InitHeld, InitAlone, InitDrafts, InitOnce, InitKeys, InitAccounted
<1>2. PageInv /\ [Next]_vars => PageInv'
      BY StepTyped, StepHeld, StepAlone, StepDrafts, StepNoted, StepKeys, StepAnswers, StepAccounted
<1>3. PageInv => QuietIsFresh
      BY FreshHolds
<1> QED BY <1>1, <1>2, <1>3, PTL DEF Spec

=============================================================================
