------------------------------ MODULE MCIncidents ------------------------------
(* Small sets of readings for Incidents. *)
EXTENDS Incidents

Healthy == [diagnosis |-> "healthy", domain |-> "none"]
Cool == [m \in Metrics |-> "normal"]
Good == [service |-> "online", query |-> TRUE, node |-> TRUE, connectivity |-> Healthy, metrics |-> Cool]
Down == [Good EXCEPT !.service = "offline", !.query = FALSE, !.node = FALSE]
Unclear == [Good EXCEPT !.service = "unknown", !.node = FALSE,
                        !.connectivity = [diagnosis |-> "transient", domain |-> "network"]]
Isolated == [Good EXCEPT !.connectivity = [diagnosis |-> "failed", domain |-> "network"],
                         !.metrics = [Cool EXCEPT !["disk"] = "critical"]]

MCSeen == {Good, Down, Unclear, Isolated}
Outage == {Good, Down}
Disk == {Good, Isolated}

\* A history in which a resolved incident is reopened: an outage logged twice, because the
\* first monitor ends before it saves and the second finds the same change; two ends that
\* only inference knows, because system.json was lost; and then a log without its oldest
\* events, from which the second OFFLINE event of the first outage takes the end of the next.
History == <<"online", "offline", "offline", "online", "offline", "online", "offline", "offline", "offline">>
Reopening ==
    \/ Collect /\ loop'.state.asterisk = History[clock']
    \/ Emit /\ UNCHANGED faults
    \/ Save
    \/ Build /\ UNCHANGED faults
    \/ Crash /\ clock = 2 /\ loop.pc = "log" /\ loop.pending = << >>
    \/ LoseState /\ clock \in {3, 5} /\ loop.pc = "idle"
    \/ Trim /\ clock >= 6 /\ loop.pc = "idle"
ReopeningSpec == Init /\ [][Reopening]_vars
===============================================================================
