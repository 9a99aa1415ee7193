------------------------ MODULE ConnectivityDiagnosis -------------------------
(* The pure part of connectivity.py: what run_checks may find, the failure       *)
(* domain and the diagnostic layers made of it, the record that update publishes  *)
(* after the previous one, and the online/offline field derived from it.          *)
EXTENDS Integers, Sequences

CONSTANTS FailureThreshold, RecoveryThreshold  \* FAILURE_THRESHOLD, RECOVERY_THRESHOLD

ASSUME ThresholdAssumption ==
    /\ FailureThreshold \in Nat /\ FailureThreshold >= 2
    /\ RecoveryThreshold \in Nat \ {0}

-------------------------------------------------------------------------------
(* The nine probes of run_checks, in the order of its calls.  A value is ok, fail *)
(* or unknown: True, False or None.  allstar is the registration; remote_links    *)
(* fails when App_Rpt shows a link that is still connecting.                      *)
ProbeOrder == <<"interface", "gateway", "dns", "internet", "allstar_services",
                "asterisk", "allstar", "iax", "remote_links">>
Probes == {ProbeOrder[i] : i \in DOMAIN ProbeOrder}
Values == {"ok", "fail", "unknown"}

\* A probe is made only if these ones before it are ok.
Requires == [
    interface |-> {}, gateway |-> {"interface"},
    dns |-> {"gateway"}, internet |-> {"gateway"},
    allstar_services |-> {"dns", "internet"},
    asterisk |-> {}, allstar |-> {"asterisk"}, iax |-> {"asterisk"},
    remote_links |-> {"asterisk", "iax"}]

\* A TCP connection is made or not; only a command can fail to tell.
Answers == [p \in Probes |->
    IF p \in {"internet", "allstar_services"} THEN {"ok", "fail"} ELSE Values]

Outcomes(checks, probe) ==
    IF \A required \in Requires[probe] : checks[required] = "ok"
    THEN Answers[probe] ELSE {"unknown"}

Returnable(checks) ==
    DOMAIN checks = Probes /\ \A p \in Probes : checks[p] \in Outcomes(checks, p)

-------------------------------------------------------------------------------
(* failure_domain *)

\* Its tests, in their order: the probe, and the domain that its failure names.
LocalTests == << <<"interface", "local_network">>, <<"gateway", "gateway">> >>
InternetTest == << <<"internet", "external_internet">> >>
DnsTest == << <<"dns", "dns">> >>
ServiceTests == <<
    <<"allstar_services", "allstar_services">>, <<"asterisk", "asterisk">>,
    <<"allstar", "allstar_registration">>, <<"iax", "iax">>,
    <<"remote_links", "remote_link">> >>

\* Mutant: DNS is looked at before the direct-IP Internet probe.
TestsDnsFirst == LocalTests \o DnsTest \o InternetTest \o ServiceTests

Tests == LocalTests \o InternetTest \o DnsTest \o ServiceTests

FailureDomains == {Tests[i][2] : i \in DOMAIN Tests}
Domains == FailureDomains \cup {"healthy", "unavailable"}
NetworkDomains == {"local_network", "gateway", "external_internet"}

\* Without these there is no diagnosis.  As a mutant: the network alone.
NeededNetwork == {"interface", "gateway", "dns", "internet"}
Needed == NeededNetwork \cup {"allstar_services", "allstar", "asterisk", "iax"}

FailureDomain(checks) ==
    LET failed == {i \in DOMAIN Tests : checks[Tests[i][1]] = "fail"}
        first == CHOOSE i \in failed : \A j \in failed : i <= j
    IN IF failed # {} THEN Tests[first][2]
       ELSE IF \E p \in Needed : checks[p] = "unknown" THEN "unavailable"
       ELSE "healthy"

-------------------------------------------------------------------------------
(* diagnostic_layers *)
Blocked == "blocked_by_upstream"

Layer(checks, probe, upstream) ==
    IF \A p \in upstream : checks[p] = "ok" THEN checks[probe] ELSE Blocked

LocalNetwork == {"interface", "gateway"}
Internet == LocalNetwork \cup {"dns", "internet"}

\* A registration that is seen needs no explanation by what lies upstream.
RegistrationLayer(checks) ==
    Layer(checks, "allstar", {"asterisk"} \cup
        IF checks.allstar = "ok" THEN {} ELSE Internet \cup {"allstar_services"})

\* Keyed by the probe that the layer reports.
Layers(checks) == [
    interface |-> checks.interface,
    gateway |-> Layer(checks, "gateway", {"interface"}),
    dns |-> Layer(checks, "dns", LocalNetwork),
    internet |-> Layer(checks, "internet", LocalNetwork),
    allstar_services |-> Layer(checks, "allstar_services", Internet),
    asterisk |-> checks.asterisk,
    allstar |-> RegistrationLayer(checks),
    iax |-> Layer(checks, "iax", {"asterisk"}),
    remote_links |-> Layer(checks, "remote_links", {"asterisk", "iax"})]

-------------------------------------------------------------------------------
(* update: the published record, as far as anyone decides by it.  The counters    *)
(* are only ever compared with the thresholds, and are counted up to them.        *)
Diagnoses == {"none", "healthy", "recovering", "unavailable", "transient", "failure"}

PublishedRecord == [
    domain : Domains \cup {"none"}, diagnosis : Diagnoses, sustained : BOOLEAN,
    failures : 0..FailureThreshold, successes : 0..RecoveryThreshold,
    recovering_from : Domains \cup {"none"}, internet : Values]

\* load_state of a missing or unreadable file.
NothingPublished == [
    domain |-> "none", diagnosis |-> "none", sustained |-> FALSE,
    failures |-> 0, successes |-> 0, recovering_from |-> "none", internet |-> "unknown"]

\* Mutant: failures of different domains add up.
CountedAnyFailure(previous, domain, count, limit) ==
    IF (previous.domain = "healthy") = (domain = "healthy") /\ count < limit
    THEN count + 1 ELSE IF count < limit THEN 1 ELSE limit

\* Mutant: the domain is compared with the diagnosis published before.
CountedByDiagnosis(previous, domain, count, limit) ==
    IF previous.diagnosis = domain /\ count < limit THEN count + 1 ELSE 1

\* One more of the same, or the first.
Counted(previous, domain, count, limit) ==
    IF previous.domain # domain THEN 1 ELSE IF count < limit THEN count + 1 ELSE limit

Failures(previous, domain) ==
    IF domain = "healthy" THEN 0
    ELSE Counted(previous, domain, previous.failures, FailureThreshold)

Successes(previous, domain) ==
    IF domain = "healthy"
    THEN Counted(previous, domain, previous.successes, RecoveryThreshold)
    ELSE 0

Sustained(previous, domain) ==
    domain \in FailureDomains /\ Failures(previous, domain) >= FailureThreshold

Recovering(previous, domain) ==
    /\ domain = "healthy"
    /\ previous.sustained \/ previous.diagnosis = "recovering"
    /\ Successes(previous, domain) < RecoveryThreshold

Diagnosis(previous, domain) ==
    CASE Recovering(previous, domain) -> "recovering"
      [] domain \in {"healthy", "unavailable"} /\ ~Recovering(previous, domain) -> domain
      [] domain \in FailureDomains ->
             IF Sustained(previous, domain) THEN "failure" ELSE "transient"

Updated(previous, checks) ==
    LET domain == FailureDomain(checks) IN [
    domain |-> domain,
    diagnosis |-> Diagnosis(previous, domain),
    sustained |-> Sustained(previous, domain),
    failures |-> Failures(previous, domain),
    successes |-> Successes(previous, domain),
    recovering_from |->
        IF Recovering(previous, domain) THEN previous.domain ELSE "none",
    internet |-> checks.internet]

\* diagnosis carries the domain's name when it says failure.
SameDiagnosis(a, b) ==
    a.diagnosis = b.diagnosis /\ (a.diagnosis = "failure" => a.domain = b.domain)

\* Mutant: only an escalation, or its end, is announced.
AnnouncesEscalation(previous, next) == previous.sustained # next.sustained

\* A change of the diagnosis is an event, if there was one before.
Announces(previous, next) ==
    previous.diagnosis # "none" /\ ~SameDiagnosis(previous, next)

\* Mutant: a failure of the network is offline at once.
OfflineAtOnce(state) == state.domain \in NetworkDomains

\* The status that update publishes is "offline".
Offline(state) == state.sustained /\ state.domain \in NetworkDomains

\* legacy_internet_state.
LegacyInternet(state) ==
    CASE Offline(state) -> "offline"
      [] ~Offline(state) /\ state.diagnosis = "transient" -> "online"
      [] state.diagnosis = "recovering" ->
             IF state.recovering_from \in NetworkDomains THEN "offline" ELSE "online"
      [] OTHER -> IF state.internet = "ok" THEN "online" ELSE "unknown"
===============================================================================
