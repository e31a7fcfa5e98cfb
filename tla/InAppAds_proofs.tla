-------------------------- MODULE InAppAds_proofs ---------------------------
(***************************************************************************)
(* Proofs about InAppAds for any drivers, windows, requests and bodies of  *)
(* requests, and without its bounds being used: sound windows, the order   *)
(* of slides, dismissals that stay, and ads that stay off.                 *)
(***************************************************************************)
EXTENDS InAppAds, WellFoundedInduction, FiniteSetTheorems, SequenceTheorems, TLAPS

-----------------------------------------------------------------------------
(* A set of integers with a bound has a largest member: of the intervals   *)
(* from a member to the bound one contains no other.                       *)
LEMMA LargestMember ==
    ASSUME NEW n \in Int, NEW S \in SUBSET Int, S # {}, \A x \in S : x <= n
    PROVE  Max(S) \in S /\ \A y \in S : Max(S) >= y
<1> DEFINE T == {x .. n : x \in S}
<1>1. T \subseteq FiniteSubsetsOf(Int) /\ T # {}
      <2>1. ASSUME NEW x \in S PROVE x .. n \in FiniteSubsetsOf(Int)
            <3>1. x \in Int /\ x .. n \subseteq Int
                  OBVIOUS
            <3> QED BY <3>1, FS_Interval DEF FiniteSubsetsOf
      <2> QED BY <2>1
<1>2. PICK m \in T : \A y \in T : <<y, m>> \notin StrictSubsetOrdering(Int)
      BY <1>1, FS_StrictSubsetOrderingWellFounded, WFMin
<1>3. PICK x \in S : m = x .. n
      OBVIOUS
<1>4. ASSUME NEW y \in S PROVE x >= y
      <2> SUFFICES ASSUME y > x PROVE FALSE
          BY <1>3, <1>4
      <2>1. x \in Int /\ y \in Int /\ x <= n
            OBVIOUS
      <2>2. y .. n \subseteq x .. n /\ x \in x .. n /\ x \notin y .. n
            BY <2>1
      <2>3. y .. n \in SUBSET Int /\ m \in SUBSET Int /\ y .. n \subseteq m /\ y .. n # m
            BY <1>3, <2>2
      <2> QED BY <1>2, <2>3 DEF StrictSubsetOrdering
<1>5. \E z \in S : \A y \in S : z >= y
      BY <1>4
<1> QED BY <1>5 DEF Max

(* The newest of a set of ads is one of them, or none.                     *)
LEMMA NewestMember ==
    ASSUME NEW n \in Nat, NEW S \in SUBSET (1 .. n)
    PROVE  Newest(S) \in Nat /\ (Newest(S) \in S \/ Newest(S) = 0)
<1> DEFINE U == S \cup {0}
<1>1. U \in SUBSET Int /\ U # {} /\ \A x \in U : x <= n
      OBVIOUS
<1>2. Newest(S) = Max(U)
      BY DEF Newest
<1> HIDE DEF U
<1>3. Max(U) \in U
      BY <1>1, LargestMember
<1>4. \A m \in U : m \in Nat /\ (m \in S \/ m = 0)
      BY DEF U
<1> QED BY <1>2, <1>3, <1>4

-----------------------------------------------------------------------------
(* The types that the proofs need.                                         *)
Slides == [order : Nat, saw : Nat]
AdRecords == [kind : Kinds, from : Nat, to : Nat, percent : Nat, active : BOOLEAN, slides : Seq(Slides)]
EditRecords == [from : Nat, to : Nat, percent : Nat \cup {Keep}, active : {0, 1, Keep}]
Updates == [at : {"update"}, ad : Nat, edit : EditRecords]
Uploads == [at : {"slide"}, ad : Nat, order : Nat, saw : Nat]
Indices == Nat \ {0}
Asked == [at : {"asked"}, knew : SUBSET Indices]
Read == [at : {"read"}, knew : SUBSET Indices, popups : SUBSET Indices, banner : Nat]
Answers == [at : {"answer", "open"}, knew : SUBSET Indices, popup : Nat, banner : Nat]

AdsTyped == ads \in Seq(AdRecords)
RequestsTyped == request \in [Requests -> {Idle} \cup Updates \cup Uploads]
PagesTyped == page \in [Pages -> {Idle} \cup Asked \cup Read \cup Answers]

(* A window that is about to be written is sound.                          *)
UpdatesSound ==
    \A r \in Requests : request[r] \in Updates =>
        request[r].ad \in Known /\ request[r].edit.from < request[r].edit.to

(* A slide that is about to be written comes after those its upload saw.   *)
UploadSound(q) ==
    /\ q.ad \in Known
    /\ q.saw <= Len(ads[q.ad].slides) /\ q.order <= Len(ads[q.ad].slides)
    /\ \A s \in 1 .. q.saw : ads[q.ad].slides[s].order < q.order
UploadsSound == \A r \in Requests : request[r] \in Uploads => UploadSound(request[r])

(* The places of the slides are below their number.                        *)
OrdersBounded ==
    \A i \in Known : \A s \in DOMAIN ads[i].slides :
        /\ ads[i].slides[s].order < Len(ads[i].slides)
        /\ ads[i].slides[s].saw <= Len(ads[i].slides)

StaffInv ==
    /\ AdsTyped /\ RequestsTyped /\ UpdatesSound /\ UploadsSound
    /\ WindowSound /\ OrdersBounded /\ SlidesInOrder

(* What a page knew when it asked is recorded; what it was told to open is *)
(* none of that.                                                           *)
KnewRecorded ==
    \A p \in Pages : page[p] \in Asked \cup Read => \A i \in page[p].knew : <<i, p[1]>> \in dismissed
FoundExist == \A p \in Pages : page[p] \in Read => page[p].popups \subseteq Known
AnswersFresh == \A p \in Pages : page[p] \in Answers => page[p].popup \notin page[p].knew

PageInv == PagesTyped /\ KnewRecorded /\ FoundExist /\ AnswersFresh

IInv == StaffInv /\ PageInv

-----------------------------------------------------------------------------
(* What the staff's helpers yield.                                         *)

(* The window of a request is filled with numbers.                         *)
LEMMA FilledTyped ==
    ASSUME NEW edit \in Edits, NEW ad \in AdRecords
    PROVE  /\ Filled(edit, ad) \in EditRecords
           /\ Filled(edit, ad).from = Given(edit.from, ad.from)
           /\ Filled(edit, ad).to = Given(edit.to, ad.to)
<1>1. edit \in [from : Nat \cup {Keep}, to : Nat \cup {Keep}, percent : (0 .. 100) \cup {Keep},
                active : {0, 1, Keep}]
      BY AdsAssumption
<1>a. edit \in [from : Nat \cup {Keep}, to : Nat \cup {Keep}, percent : Nat \cup {Keep}, active : {0, 1, Keep}]
      BY <1>1
<1>2. ad.from \in Nat /\ ad.to \in Nat
      BY DEF AdRecords
<1>3. Given(edit.from, ad.from) \in Nat /\ Given(edit.to, ad.to) \in Nat
      BY <1>a, <1>2 DEF Given
<1> QED BY <1>a, <1>3 DEF Filled, EditRecords

(* An update writes the whole window and no slides.                        *)
LEMMA UpdatedTyped ==
    ASSUME NEW ad \in AdRecords, NEW edit \in EditRecords
    PROVE  /\ Updated(ad, edit) \in AdRecords
           /\ Updated(ad, edit).from = edit.from /\ Updated(ad, edit).to = edit.to
           /\ Updated(ad, edit).slides = ad.slides
<1>1. /\ edit.from \in Nat /\ edit.to \in Nat /\ edit.from # Keep /\ edit.to # Keep
      /\ edit.percent \in Nat \cup {Keep}
      BY DEF EditRecords, Keep
<1>2. /\ Given(edit.from, ad.from) = edit.from /\ Given(edit.to, ad.to) = edit.to
      /\ Given(edit.percent, ad.percent) \in Nat
      BY <1>1 DEF Given, AdRecords
<1>3. (IF edit.active = Keep THEN ad.active ELSE edit.active = 1) \in BOOLEAN
      BY DEF AdRecords
<1> QED BY <1>1, <1>2, <1>3 DEF Updated, AdRecords

(* The next place is after all others, and at most one past the number.    *)
LEMMA NextOrderLast ==
    ASSUME NEW slides \in Seq(Slides),
           \A s \in DOMAIN slides : slides[s].order < Len(slides)
    PROVE  /\ NextOrder(slides) \in 0 .. Len(slides)
           /\ \A s \in DOMAIN slides : slides[s].order < NextOrder(slides)
<1> DEFINE U == {slides[s].order : s \in DOMAIN slides} \cup {-1}
<1>0. /\ Len(slides) \in Nat /\ DOMAIN slides = 1 .. Len(slides)
      /\ \A s \in DOMAIN slides : slides[s] \in Slides
      OBVIOUS
<1>1. \A s \in DOMAIN slides : slides[s].order \in Nat /\ slides[s].order \in U
      BY <1>0 DEF Slides
<1>2. U \in SUBSET Int /\ U # {} /\ -1 \in U /\ \A x \in U : x <= Len(slides) - 1
      BY <1>0, <1>1
<1>3. NextOrder(slides) = Max(U) + 1
      BY DEF NextOrder
<1> DEFINE n == Len(slides) - 1
<1>4. Max(U) \in U /\ \A y \in U : Max(U) >= y
      <2>1. n \in Int /\ \A x \in U : x <= n
            BY <1>0, <1>2
      <2> HIDE DEF U, n
      <2> QED BY <1>2, <2>1, LargestMember
<1> HIDE DEF U
<1>5. Max(U) \in Int /\ Max(U) >= -1 /\ Max(U) <= Len(slides) - 1
      BY <1>0, <1>2, <1>4
<1> QED BY <1>0, <1>1, <1>3, <1>4, <1>5

-----------------------------------------------------------------------------
(* The staff's part of the invariant.                                      *)

LEMMA StaffInit == Init => StaffInv
<1> SUFFICES ASSUME Init PROVE StaffInv
    OBVIOUS
<1>1. ads = <<>> /\ Len(ads) = 0 /\ Known = {} /\ ads \in Seq(AdRecords)
      BY DEF Init, Known
<1>2. /\ request \in [Requests -> {Idle} \cup Updates \cup Uploads]
      /\ \A r \in Requests : request[r] = Idle /\ Idle \notin Updates /\ Idle \notin Uploads
      BY DEF Init, Idle, Updates, Uploads
<1> QED BY <1>1, <1>2 DEF StaffInv, AdsTyped, RequestsTyped, UpdatesSound, UploadsSound, WindowSound,
                          OrdersBounded, SlidesInOrder

(* A step that touches neither the ads nor the requests.                   *)
LEMMA StaffUnchanged ==
    ASSUME StaffInv, UNCHANGED <<ads, request>>
    PROVE  StaffInv'
BY DEF StaffInv, AdsTyped, RequestsTyped, UpdatesSound, UploadsSound, UploadSound, WindowSound,
       OrdersBounded, SlidesInOrder, Known

(* A step that changes one ad, but not the number and places of its        *)
(* slides, and leaves a sound window, while a request ends or none does.   *)
LEMMA AdChanged ==
    ASSUME StaffInv, NEW i \in Known, NEW ad \in AdRecords,
           ad.from < ad.to, ad.slides = ads[i].slides,
           ads' = [ads EXCEPT ![i] = ad],
           \A r \in Requests : request'[r] \in {Idle, request[r]},
           request' \in [Requests -> {Idle} \cup Updates \cup Uploads]
    PROVE  StaffInv'
<1>1. /\ ads' \in Seq(AdRecords) /\ Len(ads') = Len(ads) /\ ads'[i] = ad
      /\ \A j \in Known : j # i => ads'[j] = ads[j]
      BY DEF StaffInv, AdsTyped, Known
<1>2. Known' = Known /\ \A j \in Known : ads'[j].slides = ads[j].slides
      BY <1>1 DEF Known
<1>3. \A r \in Requests : request'[r] \in Updates \cup Uploads => request'[r] = request[r]
      BY DEF Idle, Updates, Uploads
<1>4. UpdatesSound' /\ UploadsSound'
      BY <1>2, <1>3 DEF StaffInv, UpdatesSound, UploadsSound, UploadSound
<1>5. WindowSound'
      BY <1>1, <1>2 DEF StaffInv, WindowSound
<1>6. OrdersBounded' /\ SlidesInOrder'
      BY <1>2 DEF StaffInv, OrdersBounded, SlidesInOrder
<1> QED BY <1>1, <1>4, <1>5, <1>6 DEF StaffInv, AdsTyped, RequestsTyped

(* A request begins: the ads stay, and what it holds is sound.             *)
LEMMA RequestBegins ==
    ASSUME StaffInv, ads' = ads, NEW r \in Requests, NEW q \in Updates \cup Uploads,
           request' = [request EXCEPT ![r] = q],
           q \in Updates => q.ad \in Known /\ q.edit.from < q.edit.to,
           q \in Uploads => UploadSound(q)
    PROVE  StaffInv'
<1>1. /\ RequestsTyped' /\ request'[r] = q
      /\ \A o \in Requests : o # r => request'[o] = request[o]
      BY DEF StaffInv, RequestsTyped
<1>2. Known' = Known
      BY DEF Known
<1>3. UpdatesSound' /\ UploadsSound'
      BY <1>1, <1>2 DEF StaffInv, UpdatesSound, UploadsSound, UploadSound
<1> QED BY <1>1, <1>2, <1>3 DEF StaffInv, AdsTyped, WindowSound, OrdersBounded, SlidesInOrder

(* An ad whose row is typed, by its place.                                 *)
LEMMA AdTyped ==
    ASSUME StaffInv, NEW i \in Known
    PROVE  /\ ads[i] \in AdRecords /\ ads[i].from < ads[i].to
           /\ ads[i].slides \in Seq(Slides)
<1>1. ads[i] \in AdRecords
      BY DEF StaffInv, AdsTyped, Known
<1> QED BY <1>1 DEF StaffInv, WindowSound, AdRecords

LEMMA CreateStep ==
    ASSUME StaffInv, NEW new \in NewAds, NEW hash, Create(new, hash)
    PROVE  StaffInv'
<1> DEFINE ad == [kind |-> new.kind, from |-> new.from, to |-> new.to, percent |-> new.percent,
                  active |-> TRUE, slides |-> <<>>]
<1>1. ad \in AdRecords /\ ad.from < ad.to /\ ad.slides = <<>>
      <2>1. /\ new \in [kind : Kinds, from : Nat, to : Nat, percent : 0 .. 100] /\ 0 .. 100 \subseteq Nat
            BY AdsAssumption
      <2>2. <<>> \in Seq(Slides)
            OBVIOUS
      <2> QED BY <2>1, <2>2 DEF AdRecords, Create
<1> HIDE DEF ad
<1>2. ads' = Append(ads, ad) /\ request' = request
      BY DEF Create, ad
<1>3. /\ ads' \in Seq(AdRecords) /\ Len(ads') = Len(ads) + 1 /\ Len(ads) \in Nat
      /\ ads'[Len(ads) + 1] = ad /\ \A i \in Known : ads'[i] = ads[i]
      BY <1>1, <1>2 DEF StaffInv, AdsTyped, Known
<1>4. Known \subseteq Known' /\ \A i \in Known' : i \in Known \/ ads'[i] = ad
      BY <1>3 DEF Known
<1>5. UpdatesSound' /\ UploadsSound'
      BY <1>2, <1>3, <1>4 DEF StaffInv, UpdatesSound, UploadsSound, UploadSound
<1>6. WindowSound'
      BY <1>1, <1>3, <1>4 DEF StaffInv, WindowSound
<1>7. OrdersBounded' /\ SlidesInOrder'
      <2>1. DOMAIN ad.slides = {}
            BY <1>1
      <2> QED BY <2>1, <1>3, <1>4 DEF StaffInv, OrdersBounded, SlidesInOrder
<1> QED BY <1>2, <1>3, <1>5, <1>6, <1>7 DEF StaffInv, AdsTyped, RequestsTyped

LEMMA UpdateStep ==
    ASSUME StaffInv, NEW r \in Requests, NEW i \in Known, NEW edit \in Edits, Update(r, i, edit)
    PROVE  StaffInv'
<1> DEFINE q == [at |-> "update", ad |-> i, edit |-> Filled(edit, ads[i])]
<1>1. Filled(edit, ads[i]) \in EditRecords /\ q.edit.from < q.edit.to
      BY AdTyped, FilledTyped DEF Update
<1>2. q \in Updates /\ q \notin Uploads /\ q.ad \in Known
      BY <1>1 DEF Updates, Uploads, Known
<1>3. ads' = ads /\ request' = [request EXCEPT ![r] = q]
      BY DEF Update
<1> HIDE DEF q
<1> QED BY <1>1, <1>2, <1>3, RequestBegins

LEMMA AddSlideStep ==
    ASSUME StaffInv, NEW r \in Requests, NEW i \in Known, AddSlide(r, i)
    PROVE  StaffInv'
<1> DEFINE q == [at |-> "slide", ad |-> i, order |-> NextOrder(ads[i].slides), saw |-> Len(ads[i].slides)]
<1>1. /\ ads[i].slides \in Seq(Slides)
      /\ \A s \in DOMAIN ads[i].slides : ads[i].slides[s].order < Len(ads[i].slides)
      BY AdTyped DEF StaffInv, OrdersBounded
<1>2. /\ NextOrder(ads[i].slides) \in 0 .. Len(ads[i].slides)
      /\ \A s \in DOMAIN ads[i].slides : ads[i].slides[s].order < NextOrder(ads[i].slides)
      BY <1>1, NextOrderLast
<1>3. Len(ads[i].slides) \in Nat /\ DOMAIN ads[i].slides = 1 .. Len(ads[i].slides)
      BY <1>1
<1>4. q \in Uploads /\ q \notin Updates /\ UploadSound(q)
      BY <1>2, <1>3 DEF Updates, Uploads, UploadSound, Known
<1>5. ads' = ads /\ request' = [request EXCEPT ![r] = q]
      BY DEF AddSlide
<1> HIDE DEF q
<1> QED BY <1>4, <1>5, RequestBegins

LEMMA WriteUpdateStep ==
    ASSUME StaffInv, NEW r \in Requests, WriteUpdate(r)
    PROVE  StaffInv'
<1> DEFINE i == request[r].ad
           ad == Updated(ads[i], request[r].edit)
<1>1. request[r] \in Updates
      BY DEF StaffInv, RequestsTyped, WriteUpdate, Idle, Uploads
<1>2. i \in Known /\ request[r].edit \in EditRecords /\ request[r].edit.from < request[r].edit.to
      BY <1>1 DEF StaffInv, UpdatesSound, Updates
<1>3. ad \in AdRecords /\ ad.from < ad.to /\ ad.slides = ads[i].slides
      BY <1>2, AdTyped, UpdatedTyped
<1>4. ads' = [ads EXCEPT ![i] = ad]
      BY DEF WriteUpdate
<1>5. /\ request' = [request EXCEPT ![r] = Idle]
      /\ request' \in [Requests -> {Idle} \cup Updates \cup Uploads]
      /\ \A o \in Requests : request'[o] \in {Idle, request[o]}
      BY DEF WriteUpdate, StaffInv, RequestsTyped
<1> HIDE DEF i, ad
<1> QED BY <1>2, <1>3, <1>4, <1>5, AdChanged

LEMMA DeactivateStep ==
    ASSUME StaffInv, NEW i \in Known, Deactivate(i)
    PROVE  StaffInv'
<1> DEFINE ad == [ads[i] EXCEPT !.active = FALSE]
<1>1. ad \in AdRecords /\ ad.from < ad.to /\ ad.slides = ads[i].slides
      BY AdTyped DEF AdRecords
<1>2. ads' = [ads EXCEPT ![i] = ad] /\ request' = request
      BY DEF Deactivate
<1> HIDE DEF ad
<1>3. request' \in [Requests -> {Idle} \cup Updates \cup Uploads]
      BY <1>2 DEF StaffInv, RequestsTyped
<1> QED BY <1>1, <1>2, <1>3, AdChanged

(* What a sequence is after something was appended.                        *)
LEMMA AppendedTyped ==
    ASSUME NEW T, NEW old \in Seq(T), NEW x \in T
    PROVE  /\ Append(old, x) \in Seq(T) /\ Len(Append(old, x)) = Len(old) + 1 /\ Len(old) \in Nat
           /\ DOMAIN Append(old, x) = 1 .. Len(old) + 1 /\ DOMAIN old = 1 .. Len(old)
           /\ Append(old, x)[Len(old) + 1] = x
           /\ \A s \in DOMAIN old : Append(old, x)[s] = old[s] /\ old[s] \in T
<1>1. Len(old) \in Nat /\ DOMAIN old = 1 .. Len(old) /\ \A s \in DOMAIN old : old[s] \in T
      OBVIOUS
<1>2. /\ Append(old, x) \in Seq(T) /\ Len(Append(old, x)) = Len(old) + 1
      /\ \A s \in 1 .. Len(old) : Append(old, x)[s] = old[s]
      /\ Append(old, x)[Len(old) + 1] = x
      BY AppendProperties
<1>3. DOMAIN Append(old, x) = 1 .. Len(old) + 1
      BY <1>2
<1> QED BY <1>1, <1>2, <1>3

LEMMA WriteSlideStep ==
    ASSUME StaffInv, NEW r \in Requests, WriteSlide(r)
    PROVE  StaffInv'
<1> DEFINE i == request[r].ad
           old == ads[i].slides
           slide == [order |-> request[r].order, saw |-> request[r].saw]
           new == Append(old, slide)
<1>1. request[r] \in Uploads /\ UploadSound(request[r]) /\ slide \in Slides
      <2>1. request[r] \in Uploads
            BY DEF StaffInv, RequestsTyped, WriteSlide, Idle, Updates
      <2> QED BY <2>1 DEF StaffInv, UploadsSound, Uploads, Slides
<1>2. /\ i \in Known /\ ads[i] \in AdRecords /\ old \in Seq(Slides)
      /\ slide.saw <= Len(old) /\ slide.order <= Len(old) /\ slide.saw \in Nat /\ slide.order \in Nat
      /\ \A s \in 1 .. slide.saw : old[s].order < slide.order
      BY <1>1, AdTyped DEF UploadSound, Slides
<1> HIDE DEF slide
<1>3. /\ new \in Seq(Slides) /\ Len(new) = Len(old) + 1 /\ Len(old) \in Nat
      /\ DOMAIN new = 1 .. Len(new) /\ DOMAIN old = 1 .. Len(old)
      /\ new[Len(new)] = slide /\ \A s \in DOMAIN old : new[s] = old[s] /\ old[s] \in Slides
      <2> HIDE DEF old
      <2> QED BY <1>1, <1>2, AppendedTyped
<1>4. /\ ads' \in Seq(AdRecords) /\ Len(ads') = Len(ads) /\ ads'[i] = [ads[i] EXCEPT !.slides = new]
      /\ \A j \in Known : j # i => ads'[j] = ads[j]
      <2>1. ads' = [ads EXCEPT ![i] = [ads[i] EXCEPT !.slides = new]]
            BY <1>2 DEF WriteSlide, slide
      <2>2. [ads[i] EXCEPT !.slides = new] \in AdRecords
            BY <1>2, <1>3 DEF AdRecords
      <2> HIDE DEF new
      <2> QED BY <1>2, <2>1, <2>2 DEF StaffInv, AdsTyped, Known
<1>5. /\ Known' = Known /\ ads'[i].slides = new /\ ads'[i].from = ads[i].from /\ ads'[i].to = ads[i].to
      /\ \A j \in Known : j # i => ads'[j].slides = ads[j].slides
      BY <1>2, <1>4 DEF Known, AdRecords
<1>6. /\ request' = [request EXCEPT ![r] = Idle] /\ RequestsTyped'
      /\ \A o \in Requests : request'[o] \in Updates \cup Uploads => request'[o] = request[o]
      BY DEF WriteSlide, StaffInv, RequestsTyped, Idle, Updates, Uploads
<1> HIDE DEF i, old, new
<1>7. UpdatesSound'
      BY <1>5, <1>6 DEF StaffInv, UpdatesSound
<1>8. UploadsSound'
      <2> SUFFICES ASSUME NEW o \in Requests, request'[o] \in Uploads PROVE UploadSound(request[o])'
          BY DEF UploadsSound
      <2>1. request'[o] = request[o] /\ request[o] \in Uploads /\ UploadSound(request[o])
            BY <1>6 DEF StaffInv, UploadsSound
      <2>2. CASE request[o].ad = i
            <3>1. /\ request[o].saw <= Len(old) /\ request[o].order <= Len(old) /\ request[o].saw \in Nat
                  /\ request[o].order \in Nat /\ \A s \in 1 .. request[o].saw : old[s].order < request[o].order
                  BY <2>1, <2>2 DEF UploadSound, Uploads, old
            <3>2. \A s \in 1 .. request[o].saw : new[s] = old[s]
                  BY <1>3, <3>1
            <3>3. request[o].saw <= Len(new) /\ request[o].order <= Len(new)
                  BY <1>3, <3>1
            <3> QED BY <1>2, <1>5, <2>1, <2>2, <3>1, <3>2, <3>3 DEF UploadSound
      <2>3. CASE request[o].ad # i
            BY <1>5, <2>1, <2>3 DEF UploadSound
      <2> QED BY <2>2, <2>3
<1>9. WindowSound'
      BY <1>4, <1>5 DEF StaffInv, WindowSound
<1>10. OrdersBounded'
      <2>1. \A s \in DOMAIN new : new[s].order < Len(new) /\ new[s].saw <= Len(new)
            <3>1. \A s \in DOMAIN old : old[s].order < Len(old) /\ old[s].saw <= Len(old)
                  BY <1>2 DEF StaffInv, OrdersBounded, old
            <3>2. ASSUME NEW s \in DOMAIN new PROVE new[s].order < Len(new) /\ new[s].saw <= Len(new)
                  <4>1. CASE s = Len(new)
                        BY <1>2, <1>3, <4>1
                  <4>2. CASE s # Len(new)
                        <5>1. s \in DOMAIN old
                              BY <1>3, <4>2
                        <5>2. old[s].order \in Nat /\ old[s].saw \in Nat
                              BY <1>3, <5>1 DEF Slides
                        <5> QED BY <1>3, <3>1, <5>1, <5>2
                  <4> QED BY <4>1, <4>2
            <3> QED BY <3>2
      <2> QED BY <1>5, <2>1 DEF StaffInv, OrdersBounded
<1>11. SlidesInOrder'
      <2>1. \A s, t \in DOMAIN new : s <= new[t].saw => new[s].order < new[t].order
            <3>1. \A s, t \in DOMAIN old : s <= old[t].saw => old[s].order < old[t].order
                  BY <1>2 DEF StaffInv, SlidesInOrder, old
            <3>2. \A t \in DOMAIN old : old[t].saw <= Len(old) /\ old[t].saw \in Nat
                  BY <1>2, <1>3 DEF StaffInv, OrdersBounded, old, Slides
            <3>3. ASSUME NEW s \in DOMAIN new, NEW t \in DOMAIN new, s <= new[t].saw
                  PROVE  new[s].order < new[t].order
                  <4>1. CASE t = Len(new)
                        BY <1>2, <1>3, <3>3, <4>1
                  <4>2. CASE t # Len(new)
                        <5>1. t \in DOMAIN old /\ s \in DOMAIN old
                              BY <1>3, <3>2, <3>3, <4>2
                        <5> QED BY <1>3, <3>1, <3>3, <5>1
                  <4> QED BY <4>1, <4>2
            <3> QED BY <3>3
      <2> QED BY <1>5, <2>1 DEF StaffInv, SlidesInOrder
<1> QED BY <1>4, <1>6, <1>7, <1>8, <1>9, <1>10, <1>11 DEF StaffInv, AdsTyped

(* Every step keeps the staff's part.                                      *)
LEMMA StaffStep == StaffInv /\ [Next]_vars => StaffInv'
<1> SUFFICES ASSUME StaffInv, [Next]_vars PROVE StaffInv'
    OBVIOUS
<1>1. CASE Staff
      <2>1. ASSUME NEW new \in NewAds, NEW hash, Create(new, hash) PROVE StaffInv'
            BY <2>1, CreateStep
      <2>2. ASSUME NEW r \in Requests, NEW i \in Known, NEW edit \in Edits, Update(r, i, edit) PROVE StaffInv'
            BY <2>2, UpdateStep
      <2>3. ASSUME NEW r \in Requests, NEW i \in Known, AddSlide(r, i) PROVE StaffInv'
            BY <2>3, AddSlideStep
      <2>4. ASSUME NEW i \in Known, Deactivate(i) PROVE StaffInv'
            BY <2>4, DeactivateStep
      <2>5. ASSUME NEW r \in Requests, WriteUpdate(r) \/ WriteSlide(r) PROVE StaffInv'
            BY <2>5, WriteUpdateStep, WriteSlideStep
      <2> QED BY <1>1, <2>1, <2>2, <2>3, <2>4, <2>5 DEF Staff
<1>2. CASE Tick \/ Driver \/ UNCHANGED vars
      <2>1. UNCHANGED <<ads, request>>
            BY <1>2 DEF Tick, Driver, Open, ReadAds, ReadDismissals, Show, Dismiss, Fail, Leave, LeaveEarly,
                        Record, LoseDismissal, vars, staff
      <2> QED BY <2>1, StaffUnchanged
<1> QED BY <1>1, <1>2 DEF Next

-----------------------------------------------------------------------------
(* The pages' part of the invariant.                                       *)

LEMMA PageInit == Init => PageInv
<1> SUFFICES ASSUME Init PROVE PageInv
    OBVIOUS
<1>1. /\ page \in [Pages -> {Idle} \cup Asked \cup Read \cup Answers]
      /\ \A p \in Pages : page[p] = Idle
      BY DEF Init
<1>2. Idle \notin Asked /\ Idle \notin Read /\ Idle \notin Answers
      BY DEF Idle, Asked, Read, Answers
<1> QED BY <1>1, <1>2 DEF PageInv, PagesTyped, KnewRecorded, FoundExist, AnswersFresh

(* Ads are never deleted.                                                  *)
LEMMA AdsStay == StaffInv /\ [Next]_vars => Known \subseteq Known'
<1> SUFFICES ASSUME StaffInv, [Next]_vars PROVE Known \subseteq Known'
    OBVIOUS
<1>1. ads \in Seq(AdRecords) /\ Len(ads) \in Nat
      BY DEF StaffInv, AdsTyped
<1>2. ASSUME NEW new, NEW hash, Create(new, hash) PROVE Len(ads') >= Len(ads)
      <2>1. PICK x : ads' = Append(ads, x)
            BY <1>2 DEF Create
      <2>2. Len(Append(ads, x)) = Len(ads) + 1
            BY <1>1
      <2> QED BY <1>1, <2>1, <2>2
<1>3. ASSUME NEW i, NEW x, ads' = [ads EXCEPT ![i] = x] PROVE Len(ads') >= Len(ads)
      BY <1>1, <1>3
<1>4. ASSUME NEW r \in Requests, WriteUpdate(r) \/ WriteSlide(r) PROVE Len(ads') >= Len(ads)
      <2>1. CASE WriteUpdate(r)
            BY <1>3, <2>1 DEF WriteUpdate
      <2>2. CASE WriteSlide(r)
            BY <1>3, <2>2 DEF WriteSlide
      <2> QED BY <1>4, <2>1, <2>2
<1>5. ASSUME NEW i \in Known, Deactivate(i) PROVE Len(ads') >= Len(ads)
      BY <1>3, <1>5 DEF Deactivate
<1>6. ASSUME UNCHANGED ads PROVE Len(ads') >= Len(ads)
      BY <1>1, <1>6
<1>7. \/ \E new \in NewAds, hash \in [Drivers -> Buckets] : Create(new, hash)
      \/ \E r \in Requests : WriteUpdate(r) \/ WriteSlide(r)
      \/ \E i \in Known : Deactivate(i)
      \/ UNCHANGED ads
      BY DEF Next, Tick, Staff, Driver, Update, AddSlide, Open, ReadAds, ReadDismissals, Show, Dismiss, Fail,
             Leave, LeaveEarly, Record, LoseDismissal, vars, staff
<1>8. Len(ads') >= Len(ads)
      BY <1>2, <1>4, <1>5, <1>6, <1>7
<1> QED BY <1>1, <1>8 DEF Known

(* A step that changes at most one page.                                   *)
LEMMA PageChanged ==
    ASSUME PageInv, NEW p \in Pages, NEW x \in {Idle} \cup Asked \cup Read \cup Answers,
           page' = [page EXCEPT ![p] = x], dismissed \subseteq dismissed', Known \subseteq Known',
           x \in Asked \cup Read => \A i \in x.knew : <<i, p[1]>> \in dismissed',
           x \in Read => x.popups \subseteq Known',
           x \in Answers => x.popup \notin x.knew
    PROVE  PageInv'
<1>1. /\ PagesTyped' /\ page'[p] = x
      /\ \A o \in Pages : o # p => page'[o] = page[o]
      BY DEF PageInv, PagesTyped
<1>2. KnewRecorded'
      BY <1>1 DEF PageInv, KnewRecorded
<1>3. FoundExist'
      BY <1>1 DEF PageInv, FoundExist
<1>4. AnswersFresh'
      BY <1>1 DEF PageInv, AnswersFresh
<1> QED BY <1>1, <1>2, <1>3, <1>4 DEF PageInv

LEMMA PageUnchanged ==
    ASSUME PageInv, page' = page, dismissed \subseteq dismissed', Known \subseteq Known'
    PROVE  PageInv'
BY DEF PageInv, PagesTyped, KnewRecorded, FoundExist, AnswersFresh

(* The three kinds of records of a page are told apart by "at".            *)
LEMMA PageKinds ==
    ASSUME PageInv, NEW p \in Pages
    PROVE  /\ page[p].at = "asked" => page[p] \in Asked
           /\ page[p].at = "read" => page[p] \in Read
           /\ page[p].at \in {"answer", "open"} => page[p] \in Answers
BY DEF PageInv, PagesTyped, Idle, Asked, Read, Answers

(* Every step keeps the pages' part.                                       *)
LEMMA PageStep == StaffInv /\ PageInv /\ [Next]_vars => PageInv'
<1> SUFFICES ASSUME StaffInv, PageInv, [Next]_vars PROVE PageInv'
    OBVIOUS
<1> USE DEF Goto
<1>0. Known \subseteq Known' /\ dismissed \subseteq dismissed'
      <2>1. dismissed \subseteq dismissed'
            BY DEF Next, Tick, Staff, Driver, Create, Update, WriteUpdate, Deactivate, AddSlide, WriteSlide,
                   Open, ReadAds, ReadDismissals, Show, Dismiss, Fail, Leave, LeaveEarly, Record,
                   LoseDismissal, vars, driver
      <2> QED BY <2>1, AdsStay
<1>1. ASSUME NEW p \in Pages, Open(p) PROVE PageInv'
      <2> DEFINE x == [at |-> "asked", knew |-> {i \in Known : <<i, p[1]>> \in dismissed}]
      <2>1. x \in Asked /\ x \notin Read \cup Answers
            BY DEF Asked, Read, Answers, Indices, Known
      <2>2. page' = [page EXCEPT ![p] = x] /\ \A i \in x.knew : <<i, p[1]>> \in dismissed'
            BY <1>0, <1>1 DEF Open
      <2> HIDE DEF x
      <2> QED BY <1>0, <2>1, <2>2, PageChanged
<1>2. ASSUME NEW p \in Pages, ReadAds(p) PROVE PageInv'
      <2>1. PICK found : /\ found = {i \in Candidates : InAudience(i, p[1])}
                         /\ page' = [page EXCEPT ![p] = [at |-> "read", knew |-> page[p].knew,
                               popups |-> {i \in found : ads[i].kind = "POPUP"},
                               banner |-> Newest({i \in found : ads[i].kind = "SLIDESHOW"
                                                               /\ Len(ads[i].slides) >= 2})]]
            BY <1>2 DEF ReadAds
      <2> DEFINE popups == {i \in found : ads[i].kind = "POPUP"}
                 shows == {i \in found : ads[i].kind = "SLIDESHOW" /\ Len(ads[i].slides) >= 2}
                 x == [at |-> "read", knew |-> page[p].knew, popups |-> popups, banner |-> Newest(shows)]
      <2>2. popups \subseteq Known /\ shows \subseteq Known /\ Known \subseteq Indices
            BY <2>1 DEF Candidates, Known, Indices
      <2>3. Newest(shows) \in Nat
            <3>1. Len(ads) \in Nat
                  BY DEF StaffInv, AdsTyped
            <3> HIDE DEF shows
            <3> QED BY <2>2, <3>1, NewestMember DEF Known
      <2>4. page[p] \in Asked
            BY <1>2, PageKinds DEF ReadAds
      <2>5. x \in Read /\ x \notin Answers
            BY <2>2, <2>3, <2>4 DEF Asked, Read, Answers
      <2>6. \A i \in x.knew : <<i, p[1]>> \in dismissed'
            BY <1>0, <2>4 DEF PageInv, KnewRecorded
      <2>7. page' = [page EXCEPT ![p] = x] /\ x.popups \subseteq Known'
            BY <1>0, <2>1, <2>2
      <2> HIDE DEF x
      <2> QED BY <1>0, <2>5, <2>6, <2>7, PageChanged
<1>3. ASSUME NEW p \in Pages, ReadDismissals(p) PROVE PageInv'
      <2> DEFINE fresh == Fresh(page[p].popups, p[1])
                 x == [at |-> "answer", knew |-> page[p].knew, popup |-> Newest(fresh), banner |-> page[p].banner]
      <2>1. page[p] \in Read
            BY <1>3, PageKinds DEF ReadDismissals
      <2>2. /\ page[p].knew \subseteq Indices /\ \A i \in page[p].knew : <<i, p[1]>> \in dismissed
            /\ fresh \subseteq Known /\ \A i \in fresh : <<i, p[1]>> \notin dismissed
            BY <2>1 DEF Read, PageInv, KnewRecorded, FoundExist, Fresh
      <2>3. Newest(fresh) \in Nat /\ (Newest(fresh) \in fresh \/ Newest(fresh) = 0)
            <3>1. Len(ads) \in Nat
                  BY DEF StaffInv, AdsTyped
            <3> HIDE DEF fresh
            <3> QED BY <2>2, <3>1, NewestMember DEF Known
      <2>4. Newest(fresh) \in Nat /\ Newest(fresh) \notin page[p].knew
            <3>1. 0 \notin page[p].knew
                  BY <2>2 DEF Indices
            <3>2. fresh \cap page[p].knew = {}
                  BY <2>2
            <3> HIDE DEF fresh
            <3> QED BY <2>3, <3>1, <3>2
      <2>5. x \in Answers /\ x \notin Asked \cup Read /\ x.popup \notin x.knew
            BY <2>1, <2>4 DEF Asked, Read, Answers
      <2>6. page' = [page EXCEPT ![p] = x]
            BY <1>3 DEF ReadDismissals
      <2> HIDE DEF x
      <2> QED BY <1>0, <2>5, <2>6, PageChanged
<1>4. ASSUME NEW p \in Pages, Show(p) \/ Dismiss(p) PROVE PageInv'
      <2>1. page[p] \in Answers /\ page[p].popup \notin page[p].knew
            BY <1>4, PageKinds DEF Show, Dismiss, PageInv, AnswersFresh
      <2>2. CASE Show(p)
            <3> DEFINE x == [page[p] EXCEPT !.at = "open"]
            <3>1. x \in Answers /\ x \notin Asked \cup Read /\ x.popup \notin x.knew
                  BY <2>1 DEF Asked, Read, Answers
            <3>2. page' = [page EXCEPT ![p] = x]
                  BY <2>2 DEF Show
            <3> HIDE DEF x
            <3> QED BY <1>0, <3>1, <3>2, PageChanged
      <2>3. CASE Dismiss(p)
            <3> DEFINE x == [page[p] EXCEPT !.popup = 0]
            <3>1. x \in Answers /\ x \notin Asked \cup Read /\ x.popup \notin x.knew
                  BY <2>1 DEF Asked, Read, Answers, Indices
            <3>2. page' = [page EXCEPT ![p] = x]
                  BY <2>3 DEF Dismiss
            <3> HIDE DEF x
            <3> QED BY <1>0, <3>1, <3>2, PageChanged
      <2> QED BY <1>4, <2>2, <2>3
<1>5. ASSUME NEW p \in Pages, Fail(p) PROVE PageInv'
      <2> DEFINE x == [at |-> "open", knew |-> page[p].knew, popup |-> 0, banner |-> 0]
      <2>1. page[p].knew \subseteq Indices
            BY <1>5, PageKinds DEF Fail, Asked, Read, Answers
      <2>2. x \in Answers /\ x \notin Asked \cup Read /\ x.popup \notin x.knew
            BY <2>1 DEF Asked, Read, Answers, Indices
      <2>3. page' = [page EXCEPT ![p] = x]
            BY <1>5 DEF Fail
      <2> HIDE DEF x
      <2> QED BY <1>0, <2>2, <2>3, PageChanged
<1>6. ASSUME NEW p \in Pages, Leave(p) \/ LeaveEarly(p) PROVE PageInv'
      <2>1. page' = [page EXCEPT ![p] = Idle]
            BY <1>6 DEF Leave, LeaveEarly
      <2>2. Idle \notin Asked /\ Idle \notin Read /\ Idle \notin Answers
            BY DEF Idle, Asked, Read, Answers
      <2> QED BY <1>0, <2>1, <2>2, PageChanged
<1>7. CASE page' = page
      BY <1>0, <1>7, PageUnchanged
<1>8. \/ \E p \in Pages : \/ Open(p) \/ ReadAds(p) \/ ReadDismissals(p) \/ Show(p) \/ Dismiss(p)
                          \/ Fail(p) \/ Leave(p) \/ LeaveEarly(p)
      \/ page' = page
      BY DEF Next, Tick, Staff, Driver, Create, Update, WriteUpdate, Deactivate, AddSlide, WriteSlide,
             Record, LoseDismissal, vars, driver
<1> QED BY <1>1, <1>2, <1>3, <1>4, <1>5, <1>6, <1>7, <1>8

-----------------------------------------------------------------------------
(* The invariant holds of every reachable state.                           *)
LEMMA Inductive == Spec => []IInv
<1>1. Init => IInv
      BY StaffInit, PageInit DEF IInv
<1>2. IInv /\ [Next]_vars => IInv'
      BY StaffStep, PageStep DEF IInv
<1> QED BY <1>1, <1>2, PTL DEF Spec

(* Every ad begins before it ends, whatever updates overlap.               *)
THEOREM WindowAlwaysSound == Spec => []WindowSound
<1>1. IInv => WindowSound
      BY DEF IInv, StaffInv
<1> QED BY <1>1, Inductive, PTL

(* A slide keeps its place after those its upload saw.                     *)
THEOREM SlidesKeepOrder == Spec => []SlidesInOrder
<1>1. IInv => SlidesInOrder
      BY DEF IInv, StaffInv
<1> QED BY <1>1, Inductive, PTL

(* An app opened after a recorded dismissal does not show that popup.      *)
THEOREM DismissalsStay == Spec => []DismissedStays
<1>1. IInv => DismissedStays
      <2> SUFFICES ASSUME IInv, NEW p \in Pages, page[p].at = "open"
                   PROVE  page[p].popup \notin page[p].knew
          BY DEF DismissedStays
      <2> QED BY PageKinds DEF IInv, PageInv, AnswersFresh
<1> QED BY <1>1, Inductive, PTL

(* What was taken off comes back only on request.                          *)
THEOREM OffStaysOff == Spec => StaysOff
<1> DEFINE Back(i) == \E r \in Requests : /\ request[r].at = "update" /\ request[r].ad = i
                                          /\ request[r].edit.active = 1 /\ request'[r] = Idle
<1>1. ASSUME IInv, Next PROVE \A i \in Known : ~ads[i].active /\ ads'[i].active => Back(i)
      <2> SUFFICES ASSUME NEW i \in Known, ~ads[i].active, ads'[i].active PROVE Back(i)
          OBVIOUS
      <2>1. /\ ads \in Seq(AdRecords) /\ DOMAIN ads = Known /\ ads[i] \in AdRecords
            /\ request \in [Requests -> {Idle} \cup Updates \cup Uploads]
            BY <1>1 DEF IInv, StaffInv, AdsTyped, RequestsTyped, Known
      <2>2. ASSUME NEW new, NEW hash, Create(new, hash) PROVE FALSE
            <3>1. PICK x : ads' = Append(ads, x)
                  BY <2>2 DEF Create
            <3>2. Append(ads, x)[i] = ads[i]
                  BY <2>1 DEF Known
            <3> QED BY <3>1, <3>2
      <2>3. ASSUME NEW r \in Requests, WriteUpdate(r) PROVE Back(i)
            <3>1. request[r] \in Updates /\ request'[r] = Idle
                  BY <2>1, <2>3 DEF WriteUpdate, Idle, Uploads
            <3>2. CASE request[r].ad = i
                  <4>1. ads'[i] = Updated(ads[i], request[r].edit)
                        BY <2>1, <2>3, <3>2 DEF WriteUpdate
                  <4>2. Updated(ads[i], request[r].edit).active
                          = IF request[r].edit.active = Keep THEN ads[i].active ELSE request[r].edit.active = 1
                        BY <2>1 DEF Updated, AdRecords
                  <4> QED BY <2>3, <3>1, <3>2, <4>1, <4>2 DEF WriteUpdate
            <3>3. CASE request[r].ad # i
                  BY <2>1, <2>3, <3>3 DEF WriteUpdate
            <3> QED BY <3>2, <3>3
      <2>4. ASSUME NEW r \in Requests, WriteSlide(r) PROVE FALSE
            <3>1. ads'[i].active = ads[i].active
                  BY <2>1, <2>4 DEF WriteSlide, AdRecords
            <3> QED BY <3>1
      <2>5. ASSUME NEW j \in Known, Deactivate(j) PROVE FALSE
            <3>1. ads'[i].active = ads[i].active \/ ~ads'[i].active
                  BY <2>1, <2>5 DEF Deactivate, AdRecords
            <3> QED BY <3>1
      <2>6. \/ \E new \in NewAds, hash \in [Drivers -> Buckets] : Create(new, hash)
            \/ \E r \in Requests : WriteUpdate(r) \/ WriteSlide(r)
            \/ \E j \in Known : Deactivate(j)
            \/ UNCHANGED ads
            BY <1>1 DEF Next, Tick, Staff, Driver, Update, AddSlide, Open, ReadAds, ReadDismissals, Show,
                        Dismiss, Fail, Leave, LeaveEarly, Record, LoseDismissal, staff
      <2> QED BY <2>2, <2>3, <2>4, <2>5, <2>6
<1>2. IInv /\ [Next]_vars => [\A i \in Known : ~ads[i].active /\ ads'[i].active => Back(i)]_vars
      BY <1>1
<1> QED BY <1>2, Inductive, PTL DEF Spec, StaysOff
=============================================================================
