--------------------------- MODULE MC_Enrollment ---------------------------
EXTENDS Enrollment, TLC
CONSTANTS d1, d2, v1, n1, p1, p2, r1, r2

Symmetry == Permutations({d1, d2}) \cup Permutations({p1, p2}) \cup Permutations({r1, r2})

AllOperations == DOMAIN First

(* Bound: requests about different drivers are under way together only if  *)
(* one reads what the other writes: phone numbers, the windows and Person  *)
(* IDs of the device, or, for a reset of the backlog and a report that has *)
(* not found its driver yet, everything.  Other pairs do not meet.         *)
SharePhones == {"create", "update"}
ShareDevice == {"startDevicePairing", "setManualFaceMapping", "claimPendingPairing"}

Related(q, r) ==
    \/ Driver(q) = Driver(r) \/ Nothing \in {Driver(q), Driver(r)}
    \/ {Op(q), Op(r)} \subseteq SharePhones \/ {Op(q), Op(r)} \subseteq ShareDevice

OnlyRelated == \A q, r \in Requests : request[q] # Idle /\ request[r] # Idle => Related(q, r)

(* Bound: whether a driver has been used is read by a reset of the backlog *)
(* only, and so he is first used while there is one.                       *)
UsedForReset ==
    (\E d \in Drivers : Exists(d) /\ drivers'[d].used # drivers[d].used) =>
        \E r \in Requests : request[r] # Idle /\ Op(r) = "resetEnrollmentBacklog"
=============================================================================
