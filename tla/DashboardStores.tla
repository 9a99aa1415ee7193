--------------------------- MODULE DashboardStores ---------------------------
(* The stores that the handlers of the web server keep: the favorites, the Emergency  *)
(* Mode and its events in the log.                                                    *)
EXTENDS EmergencyMode, Favorites

vars == <<emergencyVars, favoritesVars>>

Init == EmergencyInit /\ FavoritesInit
Next ==
    \/ EmergencyNext /\ UNCHANGED favoritesVars
    \/ FavoritesNext /\ UNCHANGED emergencyVars
Spec == Init /\ [][Next]_vars
===============================================================================
