------------------------------ MODULE InAppAds ------------------------------
(***************************************************************************)
(* Advertisements in the driver's app: ads.service.ts, which reads and     *)
(* writes in separate statements, and the two components that ask it       *)
(* (driver-ad-popup.tsx, driver-ad-slideshow-banner.tsx).  An ad is known  *)
(* by its place in the order of creation.  Texts, links and pictures are   *)
(* left out, and so is the hash of ad and driver: any bucket may result.   *)
(***************************************************************************)
EXTENDS Integers, Sequences, FiniteSets, FiniteSetsExt

Keep == -1 \* a field that an update leaves out
Kinds == {"POPUP", "SLIDESHOW"}

CONSTANTS Drivers, Windows, Requests,
          NewAds,    \* the bodies of the create requests; percent 100 stands for null, too
          Edits,     \* the bodies of the update requests; Keep where a field is left out
          Buckets,   \* what the hash may come to, below 100
          Take,      \* how many of the newest ads are looked at, 60 in the code
          MaxAds,    \* bound: ads in all
          MaxSlides, \* bound: slides of an ad
          MaxTime,   \* bound: the clock
          MaxClicks, \* bound: what the staff does, in all
          MaxLost    \* bound: calls that fail, pages left before they are done

ASSUME AdsAssumption ==
    /\ Take \in Nat \ {0} /\ Buckets \subseteq 0 .. 99
    /\ NewAds \subseteq [kind : Kinds, from : Nat, to : Nat, percent : 0 .. 100]
    /\ Edits \subseteq [from : Nat \cup {Keep}, to : Nat \cup {Keep}, percent : (0 .. 100) \cup {Keep},
                        active : {0, 1, Keep}]
    /\ {MaxAds, MaxSlides, MaxTime, MaxClicks, MaxLost} \subseteq Nat

VARIABLES now,
          ads,       \* the ads in the order of their creation
          bucket,    \* audienceBucket of each ad and driver
          request,   \* staff requests between their read and their write
          dismissed, \* the recorded pairs of an ad and a driver
          page,      \* the app in each window of each driver
          calls,     \* dismissals on their way
          clicks, lost,
          seen       \* history: pairs of an ad and a driver who was shown it

staff == <<ads, request, clicks>>
driver == <<dismissed, page, calls, lost, seen>>
vars == <<now, bucket, staff, driver>>

-----------------------------------------------------------------------------
Idle == [at |-> "idle"]
Known == 1 .. Len(ads)
Pages == Drivers \X Windows
Given(field, old) == IF field = Keep THEN old ELSE field

Init ==
    /\ now = 0 /\ ads = <<>> /\ bucket = <<>>
    /\ request = [r \in Requests |-> Idle] /\ clicks = 0
    /\ dismissed = {} /\ calls = {} /\ lost = 0 /\ seen = {}
    /\ page = [p \in Pages |-> Idle]

Tick ==
    /\ now < MaxTime /\ now' = now + 1
    /\ UNCHANGED <<bucket, staff, driver>>

-----------------------------------------------------------------------------
(* The staff.                                                              *)
Click == clicks < MaxClicks /\ clicks' = clicks + 1

Create(new, hash) ==
    /\ Click /\ Len(ads) < MaxAds
    /\ new.from < new.to
    /\ ads' = Append(ads, [kind |-> new.kind, from |-> new.from, to |-> new.to, percent |-> new.percent,
                           active |-> TRUE, slides |-> <<>>])
    /\ bucket' = Append(bucket, hash)
    /\ UNCHANGED <<now, request, driver>>

(* Mutant: the gaps are left, though the check filled them.                *)
Filled_Not(edit, ad) == edit

(* update() fills the gaps of the window from what it reads ...            *)
Filled(edit, ad) == [edit EXCEPT !.from = Given(@, ad.from), !.to = Given(@, ad.to)]

Update(r, i, edit) ==
    /\ Click /\ request[r] = Idle
    /\ Given(edit.from, ads[i].from) < Given(edit.to, ads[i].to)
    /\ request' = [request EXCEPT ![r] = [at |-> "update", ad |-> i, edit |-> Filled(edit, ads[i])]]
    /\ UNCHANGED <<now, bucket, ads, driver>>

(* Mutant: the ad runs unless the request says otherwise.                  *)
Updated_Running(ad, edit) ==
    [ad EXCEPT !.from = Given(edit.from, @), !.to = Given(edit.to, @),
               !.percent = Given(edit.percent, @), !.active = edit.active # 0]

(* ... and writes the whole of it, but of the rest only what it was given. *)
Updated(ad, edit) ==
    [ad EXCEPT !.from = Given(edit.from, @), !.to = Given(edit.to, @), !.percent = Given(edit.percent, @),
               !.active = IF edit.active = Keep THEN @ ELSE edit.active = 1]

WriteUpdate(r) ==
    /\ request[r].at = "update"
    /\ ads' = [ads EXCEPT ![request[r].ad] = Updated(@, request[r].edit)]
    /\ request' = [request EXCEPT ![r] = Idle]
    /\ UNCHANGED <<now, bucket, clicks, driver>>

Deactivate(i) ==
    /\ Click
    /\ ads' = [ads EXCEPT ![i].active = FALSE]
    /\ UNCHANGED <<now, bucket, request, driver>>

(* Mutant: the place of the last slide itself.                             *)
NextOrder_Last(slides) == Max({slides[s].order : s \in DOMAIN slides} \cup {0})

(* addSlide() takes the place after the last slide it reads, and creates   *)
(* the slide afterwards; "saw" is history.                                 *)
NextOrder(slides) == Max({slides[s].order : s \in DOMAIN slides} \cup {-1}) + 1

AddSlide(r, i) ==
    /\ Click /\ request[r] = Idle
    /\ ads[i].kind = "SLIDESHOW" /\ Len(ads[i].slides) < MaxSlides
    /\ request' = [request EXCEPT ![r] =
         [at |-> "slide", ad |-> i, order |-> NextOrder(ads[i].slides), saw |-> Len(ads[i].slides)]]
    /\ UNCHANGED <<now, bucket, ads, driver>>

WriteSlide(r) ==
    /\ request[r].at = "slide"
    /\ ads' = [ads EXCEPT ![request[r].ad].slides =
         Append(@, [order |-> request[r].order, saw |-> request[r].saw])]
    /\ request' = [request EXCEPT ![r] = Idle]
    /\ UNCHANGED <<now, bucket, clicks, driver>>

-----------------------------------------------------------------------------
(* The driver's app asks: popup and banner each ask on their own, one page *)
(* stands for either and takes both answers.  getActiveForDriver() reads   *)
(* the newest of the ads that run, keeps those whose audience the driver   *)
(* belongs to ...                                                          *)
Running(i) == ads[i].active /\ ads[i].from <= now /\ now < ads[i].to
Candidates == {i \in Known : Running(i) /\ Cardinality({j \in Known : j > i /\ Running(j)}) < Take}
InAudience(i, d) == ads[i].percent >= 100 \/ bucket[i][d] < ads[i].percent
Newest(S) == Max(S \cup {0})
Goto(p, fields) == page' = [page EXCEPT ![p] = fields]

Open(p) ==
    /\ page[p] = Idle
    /\ Goto(p, [at |-> "asked", knew |-> {i \in Known : <<i, p[1]>> \in dismissed}])
    /\ UNCHANGED <<now, bucket, staff, dismissed, calls, lost, seen>>

ReadAds(p) ==
    /\ page[p].at = "asked"
    /\ LET found == {i \in Candidates : InAudience(i, p[1])}
       IN  Goto(p, [at |-> "read", knew |-> page[p].knew,
                    popups |-> {i \in found : ads[i].kind = "POPUP"},
                    banner |-> Newest({i \in found : ads[i].kind = "SLIDESHOW" /\ Len(ads[i].slides) >= 2})])
    /\ UNCHANGED <<now, bucket, staff, dismissed, calls, lost, seen>>

(* Mutant: only the newest popup is looked at.                             *)
Fresh_Newest(S, d) == {i \in S : i = Newest(S) /\ <<i, d>> \notin dismissed}

(* Mutant: dismissals do not count.                                        *)
Fresh_Any(S, d) == S

(* ... and of the popups the newest that the driver has not dismissed, as  *)
(* a second statement tells.                                               *)
Fresh(S, d) == {i \in S : <<i, d>> \notin dismissed}

ReadDismissals(p) ==
    /\ page[p].at = "read"
    /\ Goto(p, [at |-> "answer", knew |-> page[p].knew,
                popup |-> Newest(Fresh(page[p].popups, p[1])), banner |-> page[p].banner])
    /\ UNCHANGED <<now, bucket, staff, dismissed, calls, lost, seen>>

Show(p) ==
    /\ page[p].at = "answer"
    /\ Goto(p, [page[p] EXCEPT !.at = "open"])
    /\ seen' = seen \cup ({page[p].popup, page[p].banner} \ {0}) \X {p[1]}
    /\ UNCHANGED <<now, bucket, staff, dismissed, calls, lost>>

(* The X closes the popup here and now and tells the server, heard or not. *)
Dismiss(p) ==
    /\ page[p].at = "open" /\ page[p].popup # 0
    /\ calls' = calls \cup {<<page[p].popup, p[1]>>}
    /\ Goto(p, [page[p] EXCEPT !.popup = 0])
    /\ UNCHANGED <<now, bucket, staff, dismissed, lost, seen>>

Record(c) ==
    /\ c \in calls /\ calls' = calls \ {c}
    /\ dismissed' = dismissed \cup {c}
    /\ UNCHANGED <<now, bucket, staff, page, lost, seen>>

Lose == lost < MaxLost /\ lost' = lost + 1

LoseDismissal(c) ==
    /\ Lose /\ c \in calls /\ calls' = calls \ {c}
    /\ UNCHANGED <<now, bucket, staff, dismissed, page, seen>>

(* A failed question shows nothing, and says nothing.                      *)
Fail(p) ==
    /\ Lose /\ page[p].at \in {"asked", "read", "answer"}
    /\ Goto(p, [at |-> "open", knew |-> page[p].knew, popup |-> 0, banner |-> 0])
    /\ UNCHANGED <<now, bucket, staff, dismissed, calls, seen>>

(* The driver goes: with nothing to close, or before; an answer that comes *)
(* after that is dropped ("cancelled").                                    *)
Done(p) == page[p].at = "open" /\ page[p].popup = 0

Leave(p) ==
    /\ Done(p) /\ Goto(p, Idle)
    /\ UNCHANGED <<now, bucket, staff, dismissed, calls, lost, seen>>

LeaveEarly(p) ==
    /\ Lose /\ page[p] # Idle /\ ~Done(p) /\ Goto(p, Idle)
    /\ UNCHANGED <<now, bucket, staff, dismissed, calls, seen>>

-----------------------------------------------------------------------------
Staff ==
    \/ \E new \in NewAds, hash \in [Drivers -> Buckets] : Create(new, hash)
    \/ \E r \in Requests, i \in Known :
         \/ \E edit \in Edits : Update(r, i, edit)
         \/ AddSlide(r, i)
    \/ \E i \in Known : Deactivate(i)
    \/ \E r \in Requests : WriteUpdate(r) \/ WriteSlide(r)

Driver ==
    \/ \E p \in Pages : \/ Open(p) \/ ReadAds(p) \/ ReadDismissals(p) \/ Show(p) \/ Dismiss(p)
                        \/ Fail(p) \/ Leave(p) \/ LeaveEarly(p)
    \/ \E c \in calls : Record(c) \/ LoseDismissal(c)

Next == Tick \/ Staff \/ Driver

Spec == Init /\ [][Next]_vars

(* A driver keeps opening the app and closing what it shows; the browser   *)
(* and the server finish what they began, unless it gets lost.  Neither    *)
(* the staff nor the clock needs to move.                                  *)
Fairness ==
    /\ \A p \in Pages : /\ WF_vars(Open(p)) /\ WF_vars(ReadAds(p)) /\ WF_vars(ReadDismissals(p))
                        /\ WF_vars(Show(p)) /\ WF_vars(Dismiss(p)) /\ WF_vars(Leave(p))
    /\ \A c \in (1 .. MaxAds) \X Drivers : WF_vars(Record(c))

FairSpec == Spec /\ Fairness

-----------------------------------------------------------------------------
(* Every ad begins before it ends, although update() checks the window     *)
(* against a row that another update may have changed before it writes.    *)
WindowSound == \A i \in Known : ads[i].from < ads[i].to

(* A slide comes after each slide that was there when its upload looked;   *)
(* only uploads that overlap may share a place or change places.           *)
SlidesInOrder ==
    \A i \in Known : \A s, t \in DOMAIN ads[i].slides :
        s <= ads[i].slides[t].saw => ads[i].slides[s].order < ads[i].slides[t].order

(* An app opened after a dismissal was recorded does not show that popup,  *)
(* whatever else changes while it asks.                                    *)
DismissedStays == \A p \in Pages : page[p].at = "open" => page[p].popup \notin page[p].knew

(* An ad that was taken off comes back only by a request that says so, not *)
(* by an edit of something else that had read it while it ran.             *)
StaysOff ==
    [][\A i \in Known : ~ads[i].active /\ ads'[i].active =>
          \E r \in Requests : /\ request[r].at = "update" /\ request[r].ad = i
                              /\ request[r].edit.active = 1 /\ request'[r] = Idle]_vars

(* What a driver is entitled to see: a popup that is among the newest that *)
(* run and addressed to them, and the newest such slideshow of two slides. *)
Complete(i) == ads[i].kind = "SLIDESHOW" /\ Len(ads[i].slides) >= 2
Due(i, d) ==
    /\ i \in Candidates /\ InAudience(i, d)
    /\ \/ ads[i].kind = "POPUP"
       \/ Complete(i) /\ \A j \in Candidates : j > i => ~(Complete(j) /\ InAudience(j, d))

(* Every driver sees what is due sooner or later, unless it ceases to be:  *)
(* dismissed popups make room for the older ones.                          *)
EachSeen == \A i \in 1 .. MaxAds, d \in Drivers : Due(i, d) ~> (<<i, d>> \in seen \/ ~Due(i, d))
=============================================================================
