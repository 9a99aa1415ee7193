---------------------------- MODULE IncidentRecords ----------------------------
(* The pure part of intelligence.py: the incidents made of the event log, their    *)
(* reconciliation with a newer normal observation, the severity and whether the    *)
(* operator is asked to act.  incident.py groups the same log a second time.       *)
(* An incident's end is 0 while it is unresolved; its duration, the summary and    *)
(* the limit of twenty shown are left out, and sets stand for the sorted lists.    *)
EXTENDS HealthEvaluation

CONSTANT Day   \* the window of 24 hours, in the unit of the stamps

ASSUME DayAssumption == Day \in Nat

Is(e, kind, of, is) == e.kind = kind /\ e.of = of /\ e.is = is

\* What begins an incident of a component, and what ends it.
Opens(e, c) ==
    IF c \in Outages THEN Is(e, "value", c, "offline")
    ELSE \E level \in {"warning", "critical"} : Is(e, "health", c, level)

\* Mutant: an outage ends with the component's health alone.
ClosesByHealth(e, c) == Is(e, "health", c, "normal")
Closes(e, c) == Is(e, "value", c, "online") \/ Is(e, "health", c, "normal")

\* A closing has a place in the log, at that of an event or before it, and a time.
Closing(i, at) == [place |-> i, at |-> at]
Ended(closings, i, j) == \E x \in closings : i < x.place /\ x.place <= j

\* An event that opens what is open begins nothing; an incident lasts until it is ended.
Begins(openings, closings) == {i \in openings : \A j \in openings : j < i => Ended(closings, j, i)}
During(log, closings, i) == {j \in i..Len(log) : ~Ended(closings, i, j)}
EndOf(closings, i) ==
    LET later == {x.at : x \in {y \in closings : i < y.place}}
    IN  IF later = {} THEN 0 ELSE Min(later)

\* What RECOVERY.ASTERISK events at the given positions say: tried, and the last outcome.
Told(log, kind, of, is) == {i \in DOMAIN log : Is(log[i], kind, of, is)}
RecoveryFields(log, span, words) ==
    LET outcomes == span \cap UNION {Told(log, "recovery", "asterisk", w) : w \in words}
    IN  [attempted |-> span \cap Told(log, "recovery", "asterisk", "attempt") # {},
         outcome |-> IF outcomes = {} THEN "none" ELSE log[Max(outcomes)].is]
NoRecovery == [attempted |-> FALSE, outcome |-> "none"]

\* The incident of the component that begins at position i.
Incident(log, c, closings, i, words) ==
    LET span == During(log, closings, i)
    IN  [component |-> c, start |-> log[i].at, end |-> EndOf(closings, i), inferred |-> FALSE,
         highest |-> IF c \in Outages \/ span \cap Told(log, "health", c, "critical") # {}
                     THEN "critical" ELSE "warning",
         recovery |-> IF c = "asterisk" THEN RecoveryFields(log, span, words) ELSE NoRecovery]

Openings(log, c) == {i \in DOMAIN log : Opens(log[i], c)}
Unresolved(records) == {r \in records : r.end = 0}
Keyed(r) == <<r.component, r.start>>

-------------------------------------------------------------------------------
(* What was inferred before is found in the preceding intelligence.json, under    *)
(* the component and the start of the incident.                                    *)

\* Mutant: the inferred boundaries are not put back among the events.
RestoreNothing(log, inferred, c) == {}

\* restore_inferred_resolutions: a normal transition at the inferred time for each
\* outage whose OFFLINE event is still there.  That time has fractions of a second
\* and the stamps have none, so it comes after the events of its own second.
Restored(log, inferred, c) ==
    LET place(time) == Min({i \in DOMAIN log : log[i].at > time} \cup {Len(log) + 1})
    IN  {Closing(place(r.end), r.end) :
            r \in {p \in inferred : p.component = c /\ c \in Outages
                                    /\ \E i \in Openings(log, c) : log[i].at = p.start}}

\* build_incident_records, of a log in the order of its stamps and what is put back.
Closings(log, inferred, c) ==
    {Closing(i, log[i].at) : i \in {j \in DOMAIN log : Closes(log[j], c)}} \cup Restored(log, inferred, c)
RecordsOf(log, inferred, c) ==
    LET closings == Closings(log, inferred, c)
    IN  {Incident(log, c, closings, i, {"success", "failed"}) : i \in Begins(Openings(log, c), closings)}
Records(log, inferred) == UNION {RecordsOf(log, inferred, c) : c \in Components}

IsNormal(state, c) ==
    IF c \in Outages THEN state[c] = "online" ELSE state.health[c] = "normal"

\* Mutant: what was inferred before is not looked up again.
ReconciledAfresh(records, state, inferred) ==
    {IF r.end = 0 /\ IsNormal(state, r.component) /\ state.at >= r.start
     THEN [r EXCEPT !.end = state.at, !.inferred = TRUE] ELSE r : r \in records}

\* reconcile_incidents
Reconciled(records, state, inferred) ==
    LET prior(r) == {p \in inferred : Keyed(p) = Keyed(r)}
        replayed(r) == IF prior(r) = {} THEN r
                       ELSE [r EXCEPT !.end = (CHOOSE p \in prior(r) : TRUE).end, !.inferred = TRUE]
        normal(r) == r.end = 0 /\ IsNormal(state, r.component) /\ state.at >= r.start
    IN  {IF normal(r) THEN [r EXCEPT !.end = state.at, !.inferred = TRUE] ELSE r
            : r \in {replayed(r) : r \in records}}

\* The part of build_intelligence that makes the list.
Incidents(log, state, inferred) == Reconciled(Records(log, inferred), state, inferred)
Inferred(records) == {r \in records : r.inferred}

-------------------------------------------------------------------------------
(* The statistics: recent_incident_stats and recent_activity_stats. *)
\* Mutant: the event of exactly 24 hours ago is left out.
RecentOffByOne(log, now) == SubSeq(log, Cardinality({i \in DOMAIN log : log[i].at + Day <= now}) + 1, Len(log))

\* The log is in the order of its stamps.
Recent(log, now) == SubSeq(log, Cardinality({i \in DOMAIN log : log[i].at + Day < now}) + 1, Len(log))
RecoveryFailures(log, now) == Cardinality(Told(Recent(log, now), "recovery", "asterisk", "failed"))

\* recent_activity_stats counts incidents in the events of the window alone.
RecentIncidents(log, now) == Records(Recent(log, now), {})

-------------------------------------------------------------------------------
(* build_asterisk_incidents of incident.py: from OFFLINE to ONLINE alone.          *)
AsteriskIncidents(log) ==
    LET closings == {Closing(i, log[i].at) : i \in Told(log, "value", "asterisk", "online")}
    IN  {Incident(log, "asterisk", closings, i, {"success", "failed", "cancelled"})
            : i \in Begins(Openings(log, "asterisk"), closings)}

-------------------------------------------------------------------------------
(* The severity and the advice of build_intelligence.  A mood is what other parts *)
(* put into the state: the automation's mode, Maintenance Mode, and the behaviour  *)
(* assessment (a warning may be stale).  The health loop always passes a state.    *)
Moods == [mode : {"active", "recovering", "attention"}, maintenance : BOOLEAN,
          behaviour : {"normal", "warning", "stale"}]
Advice == [level : {"normal", "warning", "critical"}, attention : BOOLEAN]

\* From the health and the unresolved incidents.
Severity(state, open) ==
    IF state.status = "fault" \/ \E r \in open : r.highest = "critical" THEN "critical"
    ELSE IF state.status = "degraded" \/ open # {} THEN "warning" ELSE "normal"

\* Then the automation, the behaviour and the connectivity in turn; a stale warning of the
\* behaviour asks for nothing, but keeps a recovering connectivity from easing the level.
Assessed(state, open, mood) ==
    LET base == Severity(state, open)
        byMode == CASE mood.mode = "attention" ->
                           [level |-> IF state.asterisk = "offline" THEN "critical" ELSE "warning",
                            attention |-> TRUE]
                    [] mood.mode = "recovering" -> [level |-> "warning", attention |-> FALSE]
                    [] OTHER -> [level |-> base, attention |-> base # "normal"]
        byBehaviour == IF mood.behaviour # "warning" THEN byMode
                       ELSE [level |-> IF byMode.level = "normal" THEN "warning" ELSE byMode.level,
                             attention |-> TRUE]
    IN  IF state.link.diagnosis = "recovering" /\ state.asterisk = "online" /\ mood.behaviour = "normal"
        THEN [level |-> "warning", attention |-> FALSE] ELSE byBehaviour

\* build_recommendation: whether it asks the operator to act.
Recommends(advice, failures, open) ==
    open # {} \/ failures > 0 \/ advice.level = "critical"
    \/ (advice.level = "warning" /\ advice.attention)

\* Mutant: Maintenance Mode silences the recommendation.
ActionSilenced(log, state, open, mood) ==
    ~mood.maintenance
    /\ Recommends(Assessed(state, open, mood), RecoveryFailures(log, state.at), open)

\* The recommendation finally published: connectivity, automation and behaviour
\* override it, the later the stronger.
Action(log, state, open, mood) ==
    LET advice == Assessed(state, open, mood)
        failures == IF state.asterisk = "offline" THEN RecoveryFailures(log, state.at) ELSE 0
        byLink == CASE state.link.diagnosis \in {"transient", "recovering"} -> FALSE
                    [] state.link.diagnosis = "failed" -> TRUE
                    [] OTHER -> Recommends(advice, failures, open)
        byMode == CASE mood.mode = "recovering" -> FALSE
                    [] mood.mode = "attention" -> TRUE
                    [] mood.mode = "active" /\ mood.maintenance -> advice.attention
                    [] OTHER -> byLink
    IN  byMode \/ (mood.behaviour = "warning" /\ mood.mode = "active" /\ state.link.diagnosis # "failed")
===============================================================================
