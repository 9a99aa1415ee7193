----------------------------- MODULE ConnectHistory ----------------------------
(* The event log that Node Behavior reads: the web server logs a connection it has   *)
(* verified, the monitor's poll logs what changed since the last one, each on its    *)
(* own time.                                                                         *)
EXTENDS NodeBehavior

CONSTANTS
    MaxClock,  \* bound of the model
    MaxLog     \* bound of the model: the events logged

VARIABLES
    clock,
    linked,    \* the nodes linked, in App_Rpt
    known,     \* the links of allstar_state.json
    control,   \* the node a connect command was sent for, and (history) whether the
               \* log shows its connection already
    log        \* events.log

vars == <<clock, linked, known, control, log>>

NoControl == [node |-> "none", shown |-> FALSE]

Init ==
    /\ clock = 0 /\ linked = {} /\ known = {} /\ control = NoControl
    /\ log = << >>

Logged(event, n, shown) == [event |-> event, node |-> n, at |-> clock, shown |-> shown]

\* perform_locked sends the command.
Ask(n) ==
    /\ control = NoControl /\ n \notin linked
    /\ control' = [node |-> n, shown |-> FALSE]
    /\ UNCHANGED <<clock, linked, known, log>>

\* It sees the link, and the handler logs the control.
Verified ==
    /\ control.node \in linked /\ Len(log) < MaxLog
    /\ log' = Append(log, Logged("CONTROL.NODE.CONNECT", control.node, control.shown))
    /\ control' = NoControl
    /\ UNCHANGED <<clock, linked, known>>

\* The deadline passes first: nothing is logged.
Unverified ==
    /\ control # NoControl /\ control.node \notin linked /\ control' = NoControl
    /\ UNCHANGED <<clock, linked, known, log>>

Join == control.node \in Peers /\ linked' = linked \cup {control.node}
        /\ UNCHANGED <<clock, known, control, log>>
Leave(n) == n \in linked /\ linked' = linked \ {n} /\ UNCHANGED <<clock, known, control, log>>

\* check_changes, of one node.
Poll(n) ==
    /\ n \in linked <=> n \notin known
    /\ Len(log) < MaxLog
    /\ known' = IF n \in linked THEN known \cup {n} ELSE known \ {n}
    /\ log' = Append(log, Logged(IF n \in linked THEN "NODE.CONNECTED" ELSE "NODE.DISCONNECTED", n, FALSE))
    /\ control' = IF control.node = n /\ n \in linked THEN [control EXCEPT !.shown = TRUE] ELSE control
    /\ UNCHANGED <<clock, linked>>

Tick ==
    /\ \E seconds \in 1..(Settle + 1) : clock + seconds <= MaxClock /\ clock' = clock + seconds
    /\ UNCHANGED <<linked, known, control, log>>

Next ==
    \/ \E n \in Peers : Ask(n) \/ Leave(n) \/ Poll(n)
    \/ Verified \/ Unverified \/ Join \/ Tick

Spec == Init /\ [][Next]_vars

-------------------------------------------------------------------------------
\* A node that was observed to connect after its command was sent, and before the control
\* was even logged, is not counted as one that failed to connect: docs/NODE_BEHAVIOR.md,
\* lines 27 to 29.  Node Behavior may read the log at any time.
VerifiedIsNotFailed ==
    \A f \in Findings(log, clock) : f.code = "repeated_link_failures" =>
        \E i \in DOMAIN log : Attempt(log[i], f.node) /\ ~log[i].shown
===============================================================================
