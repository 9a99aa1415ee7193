-------------------------- MODULE MCDashboardStores ---------------------------
(* DashboardStores for TLC: the handlers, and the devices, are alike.              *)
EXTENDS DashboardStores

Alike == Permutations(Handlers) \cup Permutations(Devices)

\* EmergencyOrder.cfg: no event is lost and the file is left alone.
NothingIsLost ==
    /\ active' # active => Due' # Due
    /\ appended' # appended \/ \A w \in Due : writer'[w].at # "idle"
SpecNothingLost == Init /\ [][Next /\ NothingIsLost]_vars
===============================================================================
