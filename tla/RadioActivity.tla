----------------------------- MODULE RadioActivity -----------------------------
(* The pure part of one AllStar poll: what rpt_link_status.py and                  *)
(* radio_activity.py make of the answers of App_Rpt, and the record they publish   *)
(* after the one before it.  Names, metadata and the texts are left out.           *)
EXTENDS Integers, FiniteSets, Sequences, Functions, TLC

CONSTANTS
    Nodes,   \* the other nodes
    Self,    \* NODE
    Stale    \* STALE_SECONDS: the longest gap between two observations of one transmission

ASSUME RadioAssumption == Stale \in Nat /\ Self \notin Nodes

(* An answer: the receiver, the transmitter, the links of RPT_ALINKS (mode T and R  *)
(* are connections, C is one being made) and the states "rpt lstats" shows.         *)
Links == UNION {[S -> [mode : {"T", "R", "C"}, keyed : BOOLEAN]] : S \in SUBSET Nodes}
Transports == UNION {[S -> {"ESTABLISHED", "CONNECTING"}] : S \in SUBSET Nodes}
Answers == [rx : BOOLEAN, tx : BOOLEAN, links : Links, states : Transports]

Pending == [mode |-> "C", keyed |-> FALSE]
NoSample == [links |-> << >>]
Sampled(s) == s # NoSample

\* reconcile: the two answers must fit; a link without an established transport is
\* pending, whatever RPT_ALINKS says.
Reconciled(a) ==
    LET transportOnly == DOMAIN a.states \ DOMAIN a.links
    IN  IF DOMAIN a.links \subseteq DOMAIN a.states /\ \A n \in transportOnly : a.states[n] = "CONNECTING"
        THEN [rx |-> a.rx, tx |-> a.tx,
              links |-> [n \in DOMAIN a.states |->
                  IF n \in DOMAIN a.links /\ a.states[n] = "ESTABLISHED" THEN a.links[n] ELSE Pending]]
        ELSE NoSample

\* get_links
Connected(s) == {n \in DOMAIN s.links : s.links[n].mode \in {"T", "R"}}
Keyed(s) == {n \in DOMAIN s.links : s.links[n].keyed /\ s.links[n].mode # "C"}

-------------------------------------------------------------------------------
(* classify, reduced to _identity: the status and the nodes it is about, whose      *)
(* order is taken to be that of App_Rpt and stable.                                 *)
Identity(s) ==
    CASE ~Sampled(s) -> <<"unavailable", {}>>
      [] Sampled(s) /\ s.rx -> <<"local_rx", {}>>
      [] Sampled(s) /\ ~s.rx /\ Keyed(s) # {} ->
             <<IF Cardinality(Keyed(s)) = 1 THEN "remote_tx" ELSE "ambiguous", Keyed(s)>>
      [] Sampled(s) /\ ~s.rx /\ Keyed(s) = {} -> <<IF s.tx THEN "node_tx" ELSE "idle", {}>>

\* tx_origin, reduced to _origin_identity.
Origin(s) ==
    CASE ~Sampled(s) -> <<"unknown", {}>>
      [] Sampled(s) /\ s.rx ->
             IF Keyed(s) = {} THEN <<"local_rf", {Self}>> ELSE <<"ambiguous", {Self} \cup Keyed(s)>>
      [] Sampled(s) /\ ~s.rx /\ Keyed(s) # {} ->
             <<IF Cardinality(Keyed(s)) = 1 THEN "remote_link" ELSE "ambiguous", Keyed(s)>>
      [] Sampled(s) /\ ~s.rx /\ Keyed(s) = {} -> <<IF s.tx THEN "internal_or_unknown" ELSE "none", {}>>

Busy(id) == id[1] \notin {"idle", "unavailable", "none"}
Active(origin) == origin[1] \notin {"unknown", "none"}
Announced(id) == id[1] \in {"local_rx", "remote_tx", "ambiguous"}

\* radio_activity.json; 0 is a timer that does not run, and at = 0 a missing file.
Observation(s, at) == [at |-> at, id |-> Identity(s), origin |-> Origin(s)]
NoRecord == [at |-> 0, id |-> <<"none", {}>>, origin |-> <<"none", {}>>, started |-> 0, originStarted |-> 0]

\* Mutant: any earlier observation continues the present one.
ContinuousAlways(previous, now) == previous.at # 0

\* A collector gap must not turn two separate observations into one.
Continuous(previous, now) == previous.at # 0 /\ now - previous.at \in 0..Stale

\* update: the record to publish.
Updated(previous, s, now) ==
    LET seen == Observation(s, now)
        continues == Continuous(previous, now)
        runs == previous.originStarted # 0 /\ previous.originStarted <= now
    IN  [at |-> seen.at, id |-> seen.id, origin |-> seen.origin,
         started |-> IF ~Busy(seen.id) THEN 0
                     ELSE IF continues /\ seen.id = previous.id THEN previous.started ELSE now,
         originStarted |-> IF ~Active(seen.origin) THEN 0
                           ELSE IF continues /\ seen.origin = previous.origin /\ runs
                                THEN previous.originStarted ELSE now]

\* Mutant: losing the telemetry ends nothing in the log.
TransitionIfHeard(previous, s, now) ==
    Sampled(s) /\ (previous.id # Identity(s) \/ ~Continuous(previous, now))

\* The condition under which END (or INTERRUPTED) and START are logged.
Transition(previous, s, now) ==
    previous.id # Identity(s) \/ ~Continuous(previous, now)
===============================================================================
