------------------------------- MODULE Incidents -------------------------------
(* The health loop as the writer of the event log and of intelligence.json: it     *)
(* compares its observation with system.json, logs the changes one by one, saves,  *)
(* and makes the incidents of the log.  The recovery worker logs beside it.  An    *)
(* event, a file or the process may be lost at any step.                           *)
EXTENDS IncidentRecords

CONSTANTS
    Seen,        \* the readings the probes may return
    MaxAttempts, \* bound of the model: the attempts of the recovery worker in the log
    MaxClock,    \* bound of the model: health cycles, each in a second of its own
    MaxFaults    \* bound of the model

ASSUME IncidentsAssumption ==
    Seen \subseteq Readings /\ MaxAttempts \in Nat /\ MaxClock \in Nat /\ MaxFaults \in Nat

VARIABLES
    clock,
    log,       \* the event log with its backups
    system,    \* system.json
    intel,     \* intelligence.json: incidents, inferred_resolutions, when and from how much log
    loop,      \* the health loop: where it is, its state, the events it has yet to log
    attempt,   \* when the worker logged its ATTEMPT, or 0
    open,      \* history: outages logged and neither closed in the log nor seen normal by a build
    credited,  \* history: the Asterisk incidents a SUCCESS was logged for, and when
    faults

vars == <<clock, log, system, intel, loop, attempt, open, credited, faults>>

NoIntelligence == [records |-> {}, inferred |-> {}, at |-> 0]
Idle == [pc |-> "idle", state |-> NoState, pending |-> << >>]

IncidentTypes ==
    [component : Components, start : 1..MaxClock, highest : {"warning", "critical"}, end : 0..MaxClock,
     inferred : BOOLEAN, recovery : [attempted : BOOLEAN, outcome : {"none", "success", "failed"}]]
Loggable == [kind : {"system", "health", "value", "recovery"}, at : 1..MaxClock,
             of : Components \cup {"node"},
             is : {"normal", "warning", "critical", "unknown", "healthy", "degraded", "fault", "online",
                   "offline", "attempt", "success", "failed", "cancelled"}]

TypeOK ==
    /\ clock \in 0..MaxClock /\ attempt \in 0..MaxClock /\ faults \in 0..MaxFaults
    /\ log \in Seq(Loggable) /\ loop.pending \in Seq(Loggable)
    /\ system \in States(1..MaxClock) \cup {NoState}
    /\ loop.pc \in {"idle", "log", "build"} /\ loop.state \in States(1..MaxClock) \cup {NoState}
    /\ intel.records \subseteq IncidentTypes /\ intel.inferred \subseteq intel.records
    /\ intel.at \in 0..MaxClock
    /\ open \subseteq (Outages \X (1..MaxClock)) /\ credited \subseteq (1..MaxClock) \X (1..MaxClock)

Init ==
    /\ clock = 0 /\ log = << >> /\ system = NoState /\ intel = NoIntelligence
    /\ loop = Idle /\ attempt = 0 /\ open = {} /\ credited = {} /\ faults = 0

Fault == faults < MaxFaults /\ faults' = faults + 1

\* What an event says of the open outages.
Noted(e) ==
    {o \in open : ~Closes(e, o[1])}
        \cup {<<c, e.at>> : c \in {d \in Outages : Opens(e, d) /\ \A o \in open : o[1] # d}}

-------------------------------------------------------------------------------
\* load_previous_state, build_state, and what log_state_changes has to say.
Collect ==
    /\ loop.pc = "idle" /\ clock < MaxClock
    /\ clock' = clock + 1
    /\ \E r \in Seen :
         LET state == State(r, clock')
         IN  loop' = [pc |-> "log", state |-> state, pending |-> Changes(system, state)]
    /\ UNCHANGED <<log, system, intel, attempt, open, credited, faults>>

\* emit: an event that cannot be written is gone, and nobody is told.
Emit ==
    /\ loop.pc = "log" /\ loop.pending # << >>
    /\ loop' = [loop EXCEPT !.pending = Tail(@)]
    /\ \/ log' = Append(log, Head(loop.pending)) /\ open' = Noted(Head(loop.pending)) /\ UNCHANGED faults
       \/ Fault /\ UNCHANGED <<log, open>>
    /\ UNCHANGED <<clock, system, intel, attempt, credited>>

Save ==
    /\ loop.pc = "log" /\ loop.pending = << >>
    /\ system' = loop.state
    /\ loop' = [loop EXCEPT !.pc = "build"]
    /\ UNCHANGED <<clock, log, intel, attempt, open, credited, faults>>

\* build_intelligence.  A log that cannot be read is an empty one.
Build ==
    /\ loop.pc = "build"
    /\ \/ /\ LET records == Incidents(log, loop.state, intel.inferred)
             IN  intel' = [records |-> records, inferred |-> Inferred(records), at |-> clock]
          /\ open' = {o \in open : ~IsNormal(loop.state, o[1])}
          /\ UNCHANGED faults
       \/ Fault /\ intel' = NoIntelligence /\ UNCHANGED open
    /\ loop' = Idle
    /\ UNCHANGED <<clock, log, system, attempt, credited>>

-------------------------------------------------------------------------------
(* The recovery worker, as far as it is seen in the log: an attempt on a published *)
(* outage, its failure, and its success, which takes a newer healthy observation.   *)
(* The model lets it log before or after the lines of a cycle, not among them.      *)
Record(word) == log' = Append(log, Event("recovery", "asterisk", word, clock))
Tries == {i \in DOMAIN log : log[i].is \in {"attempt", "cancelled"}}
MayTry == loop.pc # "log" /\ attempt = 0 /\ Cardinality(Tries) < MaxAttempts /\ system # NoState /\ system.asterisk = "offline"

Attempt ==
    /\ MayTry
    /\ attempt' = clock /\ Record("attempt")
    /\ UNCHANGED <<clock, system, intel, loop, open, credited, faults>>

Cancel ==
    /\ MayTry
    /\ Record("cancelled")
    /\ UNCHANGED <<clock, system, intel, loop, attempt, open, credited, faults>>

\* The success belongs to the last Asterisk incident begun before its attempt.
Succeed ==
    /\ attempt # 0 /\ loop.pc # "log" /\ system # NoState /\ system.at > attempt /\ system.asterisk = "online"
    /\ attempt' = 0 /\ Record("success")
    /\ LET starts == {r.start : r \in {s \in Records(log, {}) : s.component = "asterisk" /\ s.start <= attempt}}
       IN  credited' = IF starts = {} THEN credited ELSE credited \cup {<<Max(starts), clock>>}
    /\ UNCHANGED <<clock, system, intel, loop, open, faults>>

Fail ==
    /\ attempt # 0 /\ loop.pc # "log" /\ attempt' = 0 /\ Record("failed")
    /\ UNCHANGED <<clock, system, intel, loop, open, credited, faults>>

-------------------------------------------------------------------------------
(* Faults *)

\* The monitor ends and is started again; its threads are gone, the files remain.
Crash ==
    /\ Fault /\ loop.pc # "idle"
    /\ loop' = Idle /\ attempt' = 0
    /\ UNCHANGED <<clock, log, system, intel, open, credited>>

LoseState ==
    /\ Fault /\ system # NoState /\ system' = NoState
    /\ UNCHANGED <<clock, log, intel, loop, attempt, open, credited>>

\* intelligence.json lost, or of no use because the clock's offset from UTC, which
\* every stamp of the log is read with, has changed.
LoseIntelligence ==
    /\ Fault /\ intel' = NoIntelligence
    /\ UNCHANGED <<clock, log, system, loop, attempt, open, credited>>

\* The oldest event leaves with the oldest backup.
Trim ==
    /\ Fault /\ log # << >>
    /\ log' = Tail(log)
    /\ open' = {o \in open : \E i \in DOMAIN log' : Opens(log'[i], o[1]) /\ log'[i].at >= o[2]}
    /\ UNCHANGED <<clock, system, intel, loop, attempt, credited>>

Next ==
    \/ Collect \/ Emit \/ Save \/ Build
    \/ Attempt \/ Cancel \/ Succeed \/ Fail
    \/ Crash \/ LoseState \/ LoseIntelligence \/ Trim

Spec == Init /\ [][Next]_vars

-------------------------------------------------------------------------------
(* Properties *)

\* The list in intelligence.json is that of the present cycle.
Current == loop.pc = "idle" /\ intel.at # 0 /\ intel.at = clock

\* An outage whose OFFLINE event is in the log, that no closing event has ended and
\* no build has seen normal, is listed as one unresolved incident, whatever else was
\* lost (restore_inferred_resolutions keeps a later outage apart from the inferred end
\* of an earlier one).  And none stays unresolved for a component observed as normal,
\* although its closing event may be missing (intelligence.py:1656).
UnresolvedIsCurrent ==
    Current =>
        /\ \A o \in open :
             Cardinality({r \in Unresolved(intel.records) : r.component = o[1]}) = 1
        /\ system # NoState =>
             \A r \in Unresolved(intel.records) : ~IsNormal(system, r.component)

\* An incident once listed as resolved is never listed as unresolved again, while
\* intelligence.json is kept.
ResolvedStaysResolved ==
    [][\A r \in intel.records, s \in intel'.records :
         r.end # 0 /\ Keyed(r) = Keyed(s) => s.end # 0]_vars

\* The two engines read the same log alike: each Asterisk incident of intelligence.py
\* lies within one of incident.py, which knows fewer closing events.
EnginesAgree ==
    Current => \A r \in {s \in Records(log, {}) : s.component = "asterisk"} :
        \E s \in AsteriskIncidents(log) :
            s.start <= r.start /\ (s.end = 0 \/ (r.end # 0 /\ r.end <= s.end))

\* The count of the last 24 hours is made from a log that begins in the middle, and
\* still has every incident that began in the window.
RecentAreCounted ==
    Current => \A r \in Records(log, {}) :
        r.start + Day >= clock => \E s \in RecentIncidents(log, clock) : Keyed(s) = Keyed(r)

\* Whatever the automation, the connectivity and the behaviour override: nothing is
\* called normal beside an unresolved incident or an unhealthy status, and when
\* attention is required the operator is asked to act, except while a connectivity
\* failure awaits confirmation or automation is recovering Asterisk.
AdviceIsSound ==
    Current /\ system # NoState => \A mood \in Moods :
        LET unresolved == Unresolved(intel.records)
            advice == Assessed(system, unresolved, mood)
        IN  /\ advice.level = "normal" => system.status = "healthy" /\ unresolved = {}
            /\ advice.attention /\ mood.mode # "recovering"
                  /\ system.link.diagnosis \notin {"transient", "recovering"}
               => Action(log, system, unresolved, mood)

\* incident.py:28 "Recovery attempts and their outcomes are associated with the active
\* incident": an incident whose recovery was logged as a success says so.
RecoveryIsCredited ==
    Current => \A r \in intel.records : \A c \in credited :
        r.component = "asterisk" /\ r.start = c[1] /\ c[2] < intel.at
            => r.recovery.outcome = "success"

\* intelligence.py:1159 "If the log ends while the component is still abnormal, retain
\* it as an unresolved incident."
AbnormalIsListed ==
    Current /\ system # NoState => \A c \in Thresholds :
        LET said == {i \in DOMAIN log : log[i].kind = "health" /\ log[i].of = c}
        IN  said # {} /\ system.health[c] \in {"warning", "critical"}
                /\ log[Max(said)].is = system.health[c]
            => \E r \in Unresolved(intel.records) : r.component = c
===============================================================================
