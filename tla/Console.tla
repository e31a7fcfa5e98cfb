------------------------------- MODULE Console -------------------------------
(***************************************************************************)
(* The pages of the web front end: what a page shows is what its loads and *)
(* the answers to its writes have left there, in the order in which the    *)
(* answers happen to arrive.  A page is a record of what its code does;    *)
(* the rows are the things it lists, and their content is the set of       *)
(* changes they went through.  A call may be given up by the browser after *)
(* the server has received it.                                             *)
(***************************************************************************)
EXTENDS Integers, Sequences, FiniteSets

CONSTANTS Rows,       \* what a page lists
          Keys,       \* what a page with a choice may be set to
          Calls,      \* calls that may be open at a time
          MaxClicks,  \* bound: what the user does, in all
          MaxForeign, \* bound: changes made elsewhere
          MaxLost     \* bound: calls the browser gives up on

ASSUME ConsoleAssumption ==
    /\ MaxClicks \in Nat /\ MaxForeign \in Nat /\ MaxLost \in Nat
    /\ Calls \in Nat \ {0} /\ Rows # {} /\ Keys # {} /\ "none" \notin Keys

-----------------------------------------------------------------------------
(* An operation of a page: which flag disables its button, what the server *)
(* does with it, in how many calls, what the page does with the answer,    *)
(* whether the button waits for the load that follows, and whether the     *)
(* page also loads after an error.                                         *)
Op(name, flag, write, calls, then) ==
    [name |-> name, flag |-> flag, write |-> write, calls |-> calls, then |-> then,
     waits |-> FALSE, retries |-> FALSE]
Waiting(op) == [op EXCEPT !.waits = TRUE]

(* A page shows a list, or a single thing; it may poll or offer a choice.  *)
Page(name, ops) == [name |-> name, ops |-> ops, rows |-> Rows, polls |-> FALSE, chooses |-> FALSE]
Single(name, ops) == [Page(name, ops) EXCEPT !.rows = {CHOOSE r \in Rows : TRUE}]

ToggleActive == Op("ToggleActive", "slot", "sets", 1, "patch")
CreateOperator == Op("CreateOperator", "form", "adds", 1, "load")
Users == Page("Users", {ToggleActive, CreateOperator})

SetFlag == Op("SetFlag", "row", "sets", 1, "patch")
Visits == [Page("Visits", {SetFlag}) EXCEPT !.polls = TRUE]

ClearFlag == Op("ClearFlag", "row", "shuts", 1, "remove")
Flagged == Page("Flagged", {ClearFlag})

SetStatus == Op("SetStatus", "none", "sets", 1, "patch")
Feedback == Page("Feedback", {SetStatus})

CreateProduct == Op("CreateProduct", "form", "adds", 1, "load")
DeactivateProduct == Op("DeactivateProduct", "slot", "shuts", 1, "remove")
Products == Page("Products", {CreateProduct, DeactivateProduct})

Ping == Op("Ping", "slot", "sets", 1, "patch")
DeleteDevice == Op("DeleteDevice", "slot", "shuts", 1, "remove")
SaveDevice == Op("SaveDevice", "form", "adds", 1, "load")
EditDevice == Op("EditDevice", "row", "sets", 1, "load")
AgentKey == Op("AgentKey", "row", "sets", 1, "load")

(* The card of the agent has one flag for its buttons.  A download changes *)
(* nothing on the server and ends, for the page, like a refused call.      *)
AgentUpdateCard == Op("AgentUpdateCard", "form", "sets", 1, "nothing")
Devices == Page("Devices", {Ping, DeleteDevice, SaveDevice, EditDevice, AgentKey, AgentUpdateCard})

CreateAd == Op("CreateAd", "form", "adds", 2, "load")
DeactivateAd == Op("DeactivateAd", "slot", "shuts", 1, "local")
ReplaceImage == Op("ReplaceImage", "none", "sets", 1, "patch")
AddSlides == Op("AddSlides", "none", "sets", 2, "patch")
Ads == Page("Ads", {CreateAd, DeactivateAd, ReplaceImage, AddSlides})

ToggleBlocked == Op("ToggleBlocked", "form", "sets", 1, "local")
DeleteDriver == Op("DeleteDriver", "form", "shuts", 1, "leave")
EditDriver == Waiting(Op("EditDriver", "form", "sets", 2, "both"))
SetTelegram == Op("SetTelegram", "form", "sets", 1, "part")
UpdatePhoto == Op("UpdatePhoto", "form", "sets", 1, "patch")
SaveMapping == Waiting(Op("SaveMapping", "form", "links", 1, "load"))
Unlink == Waiting(Op("Unlink", "slot", "links", 1, "load"))
Driver == Single("Driver", {ToggleBlocked, DeleteDriver, EditDriver, SetTelegram, UpdatePhoto, SaveMapping, Unlink})

CashAdvance == Op("CashAdvance", "form", "adds", 1, "load")
GoodsExchange == Op("GoodsExchange", "form", "adds", 1, "load")
RedeemStamps == Op("RedeemStamps", "form", "adds", 1, "load")
ManualAdjustment == Op("ManualAdjustment", "form", "adds", 1, "load")
Wallet == Single("Wallet", {CashAdvance, GoodsExchange, RedeemStamps, ManualAdjustment})

ResetAllStamps == Op("ResetAllStamps", "form", "sets", 1, "load")
NewOperator == Op("NewOperator", "form", "adds", 1, "nothing")
Drivers == Page("Drivers", {ResetAllStamps, NewOperator})

Deposit == Waiting(Op("Deposit", "form", "adds", 1, "load"))
EndShift == [Waiting(Op("EndShift", "form", "hands", 1, "load")) EXCEPT !.retries = TRUE]
Till == Single("Till", {Deposit, EndShift})

SaveTelegram == Op("SaveTelegram", "form", "sets", 1, "patch")
SendFeedback == Op("SendFeedback", "form", "adds", 1, "nothing")
DriverHome == Single("DriverHome", {SaveTelegram, SendFeedback})

CreateDriver == Op("CreateDriver", "form", "adds", 1, "leave")
NewDriver == Single("NewDriver", {CreateDriver})

Register == Op("Register", "form", "adds", 1, "leave")
Royxat == Single("Royxat", {Register})

Analytics == [Page("Analytics", {}) EXCEPT !.chooses = TRUE]

Pages == {Users, Visits, Flagged, Feedback, Products, Devices, Ads, Driver, Wallet, Drivers, Till, DriverHome,
          NewDriver, Royxat, Analytics}

Ops == UNION {p.ops : p \in Pages}
PageOf == [n \in {p.name : p \in Pages} |-> CHOOSE p \in Pages : p.name = n]
OpOf == [n \in {op.name : op \in Ops} |-> CHOOSE op \in Ops : op.name = n]

-----------------------------------------------------------------------------
VARIABLES page,    \* the page that is open
          gone,    \* whether it was left
          log,     \* the changes that the server made
          shown,   \* the changes that each row shows
          key,     \* the choice that the user made
          keyOf,   \* the choice the data on the page belong to, "none" before the first load
          call,    \* open calls
          busy,    \* the rows for which each operation's flag is set
          form,    \* how often each form was filled in
          clicks,  \* what the user did so far
          lost,    \* calls the browser gave up on
          missed,  \* history: changes whose answer the page did not get, or got and lost again
          torn,    \* history: forms that were carried out in part, or nobody knows
          failed   \* history: the load of what is chosen failed

user == <<page, key, form, clicks>>
history == <<missed, torn, failed>>
vars == <<user, gone, log, shown, keyOf, call, busy, lost, history>>

Here == PageOf[page]
HereOps == {op.name : op \in Here.ops}
Idle == [at |-> "idle"]
None == "none"
Free == {q \in 1 .. Calls : call[q] = Idle}
Fresh == CHOOSE q \in Free : \A p \in Free : q <= p

(* The changes of a row among the first n, and whether it is still there.  *)
Seen(r, n) == {i \in 1 .. n : log[i].row = r}
Open(S) ==
    LET T == {i \in S : log[i].write \notin {"sets", "links"}}
    IN T = {} \/ \E i \in T : log[i].write = "adds" /\ \A j \in T : j <= i

(* What is in a till after the changes S: one amount to begin with and one *)
(* for each deposit, less one for each payment, since it was handed over.  *)
Cash(S) ==
    LET H == {i \in S : log[i].write = "hands"}
        T == {i \in S : \A j \in H : j < i}
    IN (IF H = {} THEN 1 ELSE 0) + Cardinality({i \in T : log[i].write = "adds"})
           - Cardinality({i \in T : log[i].write = "sets"})
Removed(r) == ~ Open(shown[r]) /\ \E op \in Here.ops : op.then = "remove"

Load(op, r, k) == [at |-> "asked", op |-> op, row |-> r, load |-> TRUE, key |-> k, seen |-> 0]
Write(op, r) == [at |-> "asked", op |-> op, row |-> r, load |-> FALSE, key |-> key, seen |-> 0,
                 nth |-> 1, form |-> form[op],
                 saw |-> IF OpOf[op].write = "hands" THEN shown[r] ELSE {}]
Reload(k) == Load(None, None, k)

Init ==
    /\ page \in DOMAIN PageOf /\ key = CHOOSE k \in Keys : TRUE
    /\ form = [op \in HereOps |-> 0] /\ clicks = 0
    /\ gone = FALSE /\ log = <<>>
    /\ shown = [r \in Here.rows |-> {}] /\ keyOf = None
    /\ call = [q \in 1 .. Calls |-> IF q = 1 /\ page # "Royxat" THEN Reload(key) ELSE Idle]
    /\ busy = [op \in HereOps |-> {}]
    /\ lost = 0
    /\ missed = {} /\ torn = {} /\ failed = FALSE

-----------------------------------------------------------------------------
(* Mutant: the page polls until it has shown something.                    *)
Due_First == Here.polls /\ keyOf = None

(* The user and the clock.                                                 *)
Due == Here.polls

Poll ==
    /\ Due /\ Free # {}
    /\ call' = [call EXCEPT ![Fresh] = Reload(key)]
    /\ UNCHANGED <<user, gone, log, shown, keyOf, busy, lost, history>>

(* Mutant: the effect of the former choice is not cleaned up.              *)
Cleaned_Not(c) == c

(* The effect of the former choice is cleaned up: its answer is ignored.   *)
Cleaned(c) == IF c = Idle THEN Idle ELSE [c EXCEPT !.key = None]

Choose(k) ==
    /\ Here.chooses /\ k # key /\ clicks < MaxClicks /\ Free # {}
    /\ key' = k /\ clicks' = clicks + 1 /\ failed' = FALSE
    /\ call' = [q \in DOMAIN call |-> IF q = Fresh THEN Reload(k) ELSE Cleaned(call[q])]
    /\ UNCHANGED <<page, form, gone, log, shown, keyOf, busy, lost, missed, torn>>

(* Mutant: no button is disabled while its call is under way.              *)
Enabled_Always(op, r) == TRUE

(* A button is disabled by the flag of its form, of its row, or by a flag  *)
(* that holds one row, the last one.                                       *)
Enabled(op, r) == IF OpOf[op].flag = "form" THEN busy[op] = {} ELSE r \notin busy[op]

Offered(op, r) ==
    /\ ~ gone /\ Enabled(op, r)
    /\ OpOf[op].flag = "form" \/ (keyOf # None /\ ~ Removed(r))
    /\ OpOf[op].write = "shuts" => Open(shown[r])
    /\ OpOf[op].write = "hands" => keyOf # None /\ Cash(shown[r]) > 0

(* A form has its own thing in mind, a button belongs to a row.            *)
Targets(op) == IF OpOf[op].flag = "form" THEN {CHOOSE r \in Rows : TRUE} ELSE Here.rows

Flag(op, r) ==
    CASE OpOf[op].flag = "none" -> {}
      [] OpOf[op].flag = "row" -> busy[op] \cup {r}
      [] OTHER -> {r}

Send(op, r) ==
    /\ clicks < MaxClicks /\ clicks' = clicks + 1
    /\ Offered(op, r) /\ Free # {}
    /\ busy' = [busy EXCEPT ![op] = Flag(op, r)]
    /\ call' = [call EXCEPT ![Fresh] = Write(op, r)]
    /\ UNCHANGED <<page, key, form, gone, log, shown, keyOf, lost, history>>

(* Somebody else, on another page; nobody pays out of an empty till.       *)
Change(r, w) == log' = Append(log, [row |-> r, write |-> w, op |-> None, form |-> 0, nth |-> 0])
Kinds == {"sets"} \cup ({op.write : op \in Here.ops} \ {"hands"})
Foreign(r, w) ==
    /\ Cardinality({i \in DOMAIN log : log[i].op = None}) < MaxForeign
    /\ w = "sets" /\ (\E op \in Here.ops : op.write = "hands") => Cash(Seen(r, Len(log))) > 0
    /\ Change(r, w)
    /\ missed' = missed \cup {Len(log')}
    /\ UNCHANGED <<user, gone, shown, keyOf, call, busy, lost, torn, failed>>

-----------------------------------------------------------------------------
(* The server.  The till is handed over only if there is money in it, and  *)
(* as much as was confirmed: the sums are compared, not what they came of. *)
ServeLoad(q) ==
    /\ call[q].at = "asked" /\ call[q].load
    /\ call' = [call EXCEPT ![q].at = "ok", ![q].seen = Len(log)]
    /\ UNCHANGED <<user, gone, log, shown, keyOf, busy, lost, history>>

(* Mutant: the confirmed sum is not compared.                              *)
Accepted_Unchecked(c) == TRUE

Accepted(c) ==
    OpOf[c.op].write = "hands" =>
        LET balance == Cash(Seen(c.row, Len(log))) IN balance > 0 /\ Cash(c.saw) = balance

ServeWrite(q) ==
    /\ call[q].at \in {"asked", "orphan"} /\ ~ call[q].load
    /\ Accepted(call[q])
    /\ LET c == call[q]
       IN log' = Append(log, [row |-> c.row, write |-> OpOf[c.op].write, op |-> c.op, form |-> c.form,
                              nth |-> c.nth])
    /\ call' = [call EXCEPT ![q] = IF @.at = "orphan" THEN Idle
                                   ELSE [@ EXCEPT !.at = "ok", !.seen = Len(log')]]
    /\ missed' = IF call[q].at = "orphan" THEN missed \cup {Len(log')} ELSE missed
    /\ UNCHANGED <<user, gone, shown, keyOf, busy, lost, torn, failed>>

Refuse(q) ==
    /\ call[q].at \in {"asked", "orphan"} /\ ~ call[q].load
    /\ call' = [call EXCEPT ![q] = IF @.at = "orphan" THEN Idle ELSE [@ EXCEPT !.at = "refused"]]
    /\ UNCHANGED <<user, gone, log, shown, keyOf, busy, lost, history>>

-----------------------------------------------------------------------------
(* The page takes the answers.  A load shows what the server had then.     *)
Released(op, r) == IF OpOf[op].flag = "row" THEN busy[op] \ {r} ELSE {}
Release(c) == busy' = IF c.op = None THEN busy ELSE [busy EXCEPT ![c.op] = Released(c.op, c.row)]
Show(n, R) ==
    /\ shown' = [r \in Here.rows |-> IF r \in R THEN Seen(r, n) ELSE shown[r]]
    /\ missed' = missed \cup UNION {shown[r] \ Seen(r, n) : r \in R}

(* The driver comes without his devices, and the page shows none until it  *)
(* loads again.                                                            *)
ShowPart(n, r) ==
    /\ shown' = [shown EXCEPT ![r] = {i \in Seen(r, n) : log[i].write # "links"}]
    /\ missed' = missed \cup (shown[r] \ shown'[r])

TakeLoad(q) ==
    /\ call[q].at = "ok" /\ call[q].load
    /\ IF call[q].key = None
       THEN UNCHANGED <<shown, missed, keyOf, failed>>
       ELSE /\ Show(call[q].seen, Here.rows)
            /\ keyOf' = call[q].key
            /\ failed' = FALSE
    /\ Release(call[q])
    /\ call' = [call EXCEPT ![q] = Idle]
    /\ UNCHANGED <<user, gone, log, lost, torn>>

(* The call that follows, if the form has one more to make.                *)
NextCall(q) ==
    /\ call[q].at = "ok" /\ ~ call[q].load /\ call[q].nth < OpOf[call[q].op].calls
    /\ call' = [call EXCEPT ![q].at = "asked", ![q].nth = @ + 1]
    /\ UNCHANGED <<user, gone, log, shown, keyOf, busy, lost, history>>

(* Mutant: only a button that waits for it reloads the page.               *)
After_Waited(c) == IF OpOf[c.op].waits THEN Load(c.op, c.row, c.key) ELSE Idle

After(c) ==
    IF OpOf[c.op].then \in {"load", "both"}
    THEN Load(IF OpOf[c.op].waits THEN c.op ELSE None, c.row, c.key)
    ELSE Idle

Left(c) == IF c.at \in {"asked", "orphan"} /\ ~ c.load THEN [c EXCEPT !.at = "orphan"] ELSE Idle

TakeWrite(q) ==
    /\ call[q].at = "ok" /\ ~ call[q].load
    /\ LET c == call[q]
       IN /\ CASE OpOf[c.op].then \in {"patch", "both"} /\ ~ Removed(c.row) -> Show(c.seen, {c.row})
              [] OpOf[c.op].then = "part" -> ShowPart(c.seen, c.row)
              [] OpOf[c.op].then \in {"local", "remove"} ->
                    shown' = [shown EXCEPT ![c.row] = @ \cup {c.seen}] /\ missed' = missed
              [] OpOf[c.op].then = "load" -> UNCHANGED <<shown, missed>>
              [] OTHER -> shown' = shown /\ missed' = missed \cup {c.seen}
          /\ IF OpOf[c.op].waits THEN busy' = busy ELSE Release(c)
          /\ form' = IF OpOf[c.op].flag = "form" THEN [form EXCEPT ![c.op] = @ + 1] ELSE form
          /\ gone' = (OpOf[c.op].then = "leave")
          /\ call' = IF gone' THEN [p \in DOMAIN call |-> Left(call[p])] ELSE [call EXCEPT ![q] = After(c)]
    /\ UNCHANGED <<page, key, clicks, log, keyOf, lost, torn, failed>>

(* Mutant: the flag of the button is left set after an error.              *)
Freed_Not(c) == busy' = busy

(* An error is shown and the form stays open with what was filled in.      *)
Freed(c) == Release(c)

Error(q, unknown) ==
    LET c == call[q]  cut == c.nth > 1
    IN /\ torn' = IF unknown \/ cut THEN torn \cup {<<c.op, c.form>>} ELSE torn
       /\ missed' = missed \cup {i \in DOMAIN log : /\ cut /\ log[i].op = c.op
                                                    /\ log[i].form = c.form /\ log[i].nth < c.nth}
                            \cup (IF unknown /\ c.at = "ok" THEN {c.seen} ELSE {})
       /\ IF OpOf[c.op].retries THEN busy' = busy ELSE Freed(c)

Answered(c) == IF OpOf[c.op].retries THEN Load(c.op, c.row, c.key) ELSE Idle

TakeRefused(q) ==
    /\ call[q].at = "refused"
    /\ Error(q, FALSE)
    /\ call' = [call EXCEPT ![q] = Answered(call[q])]
    /\ UNCHANGED <<user, gone, log, shown, keyOf, lost, failed>>

(* The browser gives up on a call; the server may still carry it out.      *)
Lose(q) ==
    /\ call[q].at \in {"asked", "ok"} /\ lost < MaxLost /\ lost' = lost + 1
    /\ IF call[q].load
       THEN /\ failed' = (failed \/ call[q].key = key)
            /\ missed' = missed \cup DOMAIN log
            /\ Release(call[q])
            /\ call' = [call EXCEPT ![q] = Idle]
            /\ UNCHANGED torn
       ELSE /\ Error(q, TRUE)
            /\ IF call[q].at = "ok" THEN call' = [call EXCEPT ![q] = Answered(call[q])]
               ELSE IF ~ OpOf[call[q].op].retries THEN call' = [call EXCEPT ![q].at = "orphan"]
               ELSE Free # {} /\ call' = [call EXCEPT ![q].at = "orphan", ![Fresh] = Answered(call[q])]
            /\ UNCHANGED failed
    /\ UNCHANGED <<user, gone, log, shown, keyOf>>

-----------------------------------------------------------------------------
Proceed(q) ==
    \/ ServeLoad(q) \/ ServeWrite(q) \/ Refuse(q)
    \/ TakeLoad(q) \/ NextCall(q) \/ TakeWrite(q) \/ TakeRefused(q) \/ Lose(q)

Next ==
    \/ Poll
    \/ \E k \in Keys : Choose(k)
    \/ \E op \in HereOps : \E r \in Targets(op) : Send(op, r)
    \/ \E r \in Here.rows, w \in Kinds : Foreign(r, w)
    \/ \E q \in 1 .. Calls : Proceed(q)

Spec == Init /\ [][Next]_vars

(* The clock of a page that polls runs, the server works on its calls, and *)
(* the page takes each answer or gives up on the call.                     *)
FairSpec == Spec /\ WF_vars(Poll) /\ \A q \in 1 .. Calls : WF_vars(Proceed(q))

-----------------------------------------------------------------------------
Quiet == ~ gone /\ keyOf # None /\ \A q \in DOMAIN call : call[q] = Idle

(* A form that adds something - money, stamps, a person, a device - adds   *)
(* it once for each time it is filled in, unless an answer got lost or a   *)
(* later call of the same form failed and the user sent it again.  A till  *)
(* that was counted and confirmed at the end of a shift is handed over     *)
(* again only if, besides, it was filled in between: the call given up is  *)
(* then accepted for money that nobody counted for it.                     *)
Once ==
    \A i, j \in DOMAIN log :
        i < j /\ log[i].op = log[j].op /\ log[i].form = log[j].form /\ log[i].nth = log[j].nth =>
            /\ log[i].write \in {"adds", "hands"} => log[i].op = None \/ <<log[i].op, log[i].form>> \in torn
            /\ log[i].write = "hands" => \E k \in i + 1 .. j - 1 : log[k].row = log[i].row /\ log[k].write = "adds"

(* When nothing is under way the page shows each row as the server has it, *)
(* but for changes made elsewhere since the last load, changes whose       *)
(* answer got lost, answers that an older one overwrote, and the devices   *)
(* of a driver that the answer to a saved Telegram name left out.          *)
QuietIsFresh == Quiet => \A r \in Here.rows : Seen(r, Len(log)) \ shown[r] \subseteq missed

(* What is shown belongs to what is chosen, whichever answer came last,    *)
(* unless the load of the choice failed.                                   *)
ChosenShown == Quiet /\ ~ failed => keyOf = key

(* A page that polls ends up with what the server has, whatever was lost,  *)
(* overwritten or changed elsewhere.                                       *)
PollRecovers == Here.polls => <>[](\A r \in Here.rows : shown[r] = Seen(r, Len(log)))

(* No button stays disabled: when no call is open, however the last ones   *)
(* ended, every flag of the page has been released.                        *)
ButtonsReturn ==
    (\A q \in DOMAIN call : call[q].at \in {"idle", "orphan"}) =>
        \A op \in HereOps : gone \/ busy[op] = {}
=============================================================================
