------------------------------ MODULE NodeBehavior -----------------------------
(* node_behavior.py, what it finds in the event log: repeated connection attempts,  *)
(* failed ones, churn and frequent controls.  Its findings about RF and automation,  *)
(* which read no links, are left out, and the texts.                                *)
EXTENDS Integers, Sequences, FiniteSets

CONSTANTS
    Peers,         \* the remote nodes
    EventWindow,   \* EVENT_WINDOW
    Settle,        \* LINK_SETTLE_SECONDS
    Notice,        \* the count of each finding that makes it a notice
    Warning        \* the greater count that makes it a warning

Codes == {"repeated_connection_attempts", "repeated_link_failures", "connection_churn", "frequent_controls"}

\* An event of the log: its name, its node and when it was logged.
Count(events, Test(_)) == Len(SelectSeq(events, Test))
Recent(events, now) == SelectSeq(events, LAMBDA e : now - e.at <= EventWindow)

Attempt(e, n) == e.event = "CONTROL.NODE.CONNECT" /\ e.node = n
Established(a, events) ==
    \E i \in DOMAIN events :
        events[i].event = "NODE.CONNECTED" /\ events[i].node = a.node /\ events[i].at \in a.at..(a.at + Settle)
Unconfirmed(a, events, now) == now - a.at >= Settle /\ ~Established(a, events)

\* _level
Level(code, count) ==
    CASE count >= Warning[code] -> "warning"
      [] count \in Notice[code]..(Warning[code] - 1) -> "notice"
      [] OTHER -> "none"

\* analyze: each finding with its level; those about a node name it.
Findings(events, now) ==
    LET recent == Recent(events, now)
        finding(code, n, Test(_)) ==
            [code |-> code, node |-> n, level |-> Level(code, Count(recent, Test))]
    IN  {f \in {finding("repeated_connection_attempts", n, LAMBDA e : Attempt(e, n)) : n \in Peers}
           \cup {finding("repeated_link_failures", n,
                     LAMBDA e : Attempt(e, n) /\ Unconfirmed(e, recent, now)) : n \in Peers}
           \cup {finding("connection_churn", "any",
                     LAMBDA e : e.event \in {"NODE.CONNECTED", "NODE.DISCONNECTED"}),
                 finding("frequent_controls", "any", LAMBDA e : e.event = "CONTROL.NODE.CONNECT")}
         : f.level # "none"}

Assessment(findings) ==
    CASE \E f \in findings : f.level = "warning" -> "warning"
      [] findings # {} /\ \A f \in findings : f.level = "notice" -> "notice"
      [] OTHER -> "normal"
===============================================================================
