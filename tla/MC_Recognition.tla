---------------------------- MODULE MC_Recognition ----------------------------
(* Small instances of Recognition.                                         *)
EXTENDS Recognition, TLC

CONSTANTS r1, r2, d1, d2, v1, v2, g1, g2, g3, id7, id8

(* Three glances: the first driver at each terminal, the second at the     *)
(* second terminal, where the Person ID is the one the first driver has at *)
(* the first: terminals number their faces on their own.                   *)
GateOf == [g \in Glances |-> IF g = g1 THEN v1 ELSE v2]
FaceOf == [g \in Glances |-> IF g = g2 THEN d2 ELSE d1]
LocalIds == [g \in Glances |-> IF g = g3 THEN id8 ELSE id7]
BothLinked ==
    [d \in Drivers |-> [v \in Devices |->
        CASE d = d1 /\ v = v1 -> id7
          [] d = d1 /\ v = v2 -> id8
          [] d = d2 /\ v = v2 -> id7
          [] OTHER -> NoId]]

(* Drivers whose faces were uploaded by the platform: no local numbers.    *)
OwnIds == FaceOf

(* One terminal, a face it has numbered itself, and nobody linked to it.   *)
OneGate == [g \in Glances |-> v1]
OneFace == [g \in Glances |-> d1]
OneId   == [g \in Glances |-> id7]
NoLinks == [d \in Drivers |-> [v \in Devices |-> NoId]]

AllActive  == [d \in Drivers |-> "ACTIVE"]
AllPending == [d \in Drivers |-> "PENDING"]
NamedByIds == [v \in Devices |-> v]

(* Bound: a history is followed further only while one registration at    *)
(* most differs from what it was, and while one at most of these has       *)
(* happened: a webhook call, a failure, an event out of reach, a change of *)
(* the registry.                                                           *)
Changed == {dv \in Drivers \X Devices :
              faceId[dv[1]][dv[2]] # InitialFaceId[dv[1]][dv[2]] \/ armed[dv[1]][dv[2]] # Never}
OneDisturbance ==
    /\ Cardinality(Changed) <= 1
    /\ Cardinality({t \in {<<"webhook", webhooks > 0>>, <<"fault", faults > 0>>, <<"traffic", forgotten # {}>>,
                            <<"registry", Changed # {} \/ deleted # {} \/ crossed # {}>>} : t[2]}) <= 1

SymmetricRequests == Permutations(Requests)
=============================================================================
