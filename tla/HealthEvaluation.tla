--------------------------- MODULE HealthEvaluation ---------------------------
(* The pure part of health.py: what one cycle makes of the readings of its probes *)
(* (the record later saved as system.json) and the events it logs when that        *)
(* differs from the record before.  Texts, metrics without a threshold and SkyWarn *)
(* are left out.                                                                   *)
EXTENDS Naturals, Sequences, SequencesExt

(* A reading: the Asterisk service, whether its CLI answers a query and the       *)
(* configured node is observable, the connectivity record, and the three metrics  *)
(* placed against their thresholds (unknown: could not be read).                  *)
Metrics == {"cpu", "memory", "disk"}
Diagnoses == {"healthy", "transient", "failed", "recovering", "unavailable"}
Connectivity == [diagnosis : Diagnoses, domain : {"none", "network", "services", "other"}]
Readings == [service : {"online", "offline", "unknown"}, query : BOOLEAN, node : BOOLEAN,
             connectivity : Connectivity, metrics : [Metrics -> {"normal", "warning", "critical", "unknown"}]]

Components == {"asterisk", "internet", "cpu", "memory", "disk",
               "asterisk_observation", "asterisk_query", "app_rpt"}
Outages == {"asterisk", "internet"}
Thresholds == Components \ Outages

\* legacy_internet_state, of a record whose Internet probe is ok unless it says otherwise.
Internet(link) ==
    CASE link.diagnosis \in {"failed", "recovering"} /\ link.domain = "network" -> "offline"
      [] link.diagnosis = "unavailable" -> "unknown"
      [] OTHER -> "online"

\* evaluate_health, component by component.
AsteriskHealth(r) ==
    [asterisk |-> CASE r.service = "offline" -> "critical"
                    [] r.service = "online" -> "normal"
                    [] OTHER -> "unknown",
     asterisk_observation |-> IF r.service = "unknown" THEN "warning" ELSE "normal",
     asterisk_query |-> CASE r.query -> "normal"
                          [] ~r.query /\ r.service = "online" -> "warning"
                          [] OTHER -> "unknown",
     app_rpt |-> CASE r.node -> "normal" [] ~r.node /\ r.query -> "warning" [] OTHER -> "unknown"]

InternetHealth(link) ==
    CASE Internet(link) = "offline" -> "critical"
      [] Internet(link) = "unknown" -> "unknown"
      [] link.diagnosis = "failed" /\ link.domain = "services" -> "warning"
      [] OTHER -> "normal"

Health(r) ==
    [c \in Components |->
        CASE c \in Metrics -> r.metrics[c]
          [] c = "internet" -> InternetHealth(r.connectivity)
          [] OTHER -> AsteriskHealth(r)[c]]

Overall(health) ==
    LET states == {health[c] : c \in Components}
    IN  CASE "critical" \in states -> "fault"
          [] states \cap {"warning", "unknown"} # {} /\ "critical" \notin states -> "degraded"
          [] OTHER -> "healthy"

\* build_state, at a time.
State(r, at) ==
    [at |-> at, health |-> Health(r), status |-> Overall(Health(r)),
     asterisk |-> r.service, internet |-> Internet(r.connectivity), link |-> r.connectivity]
States(times) ==
    [at : times, health : [Components -> {"normal", "warning", "critical", "unknown"}],
     status : {"healthy", "degraded", "fault"}, asterisk : {"online", "offline", "unknown"},
     internet : {"online", "offline", "unknown"}, link : Connectivity]
NoState == [at |-> 0]

-------------------------------------------------------------------------------
(* An event of the log: SYSTEM.x, HEALTH.component.x, ASTERISK.x or INTERNET.x     *)
(* (kind "value") and RECOVERY.ASTERISK.x, with the second it was stamped in.      *)
Event(kind, of, is, at) == [kind |-> kind, of |-> of, is |-> is, at |-> at]

StatusChanges(old, new) ==
    IF old.status = new.status THEN << >> ELSE << Event("system", "node", new.status, new.at) >>

HealthChange(old, new, c) ==
    IF old.health[c] = new.health[c] THEN << >> ELSE << Event("health", c, new.health[c], new.at) >>
ValueChange(old, new, c) ==
    IF old[c] = new[c] THEN << >> ELSE << Event("value", c, new[c], new.at) >>

\* In the order in which the code compares the components.
HealthChanges(old, new) ==
    HealthChange(old, new, "asterisk") \o HealthChange(old, new, "internet")
        \o HealthChange(old, new, "cpu") \o HealthChange(old, new, "memory")
        \o HealthChange(old, new, "disk") \o HealthChange(old, new, "asterisk_observation")
        \o HealthChange(old, new, "asterisk_query") \o HealthChange(old, new, "app_rpt")
ValueChanges(old, new) == ValueChange(old, new, "asterisk") \o ValueChange(old, new, "internet")

\* log_state_changes: without a previous state nothing is logged.
Changes(old, new) ==
    IF old = NoState THEN << >>
    ELSE StatusChanges(old, new) \o HealthChanges(old, new) \o ValueChanges(old, new)
===============================================================================
