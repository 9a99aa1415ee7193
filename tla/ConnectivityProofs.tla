-------------------------- MODULE ConnectivityProofs --------------------------
(* What connectivity.json may claim, for every value of the thresholds and every  *)
(* set of observations: a confirmed failure was observed often enough, what the    *)
(* record says of the Internet follows from what was confirmed, and a failure      *)
(* domain is a cause.                                                              *)
EXTENDS Connectivity, ConnectivityChecks, TLAPS

Returned == {checks \in [Probes -> Values] : Returnable(checks)}
Runs == [pc : Steps, checks : Returned, next : PublishedRecord]

\* The record agrees with itself: what update makes of any previous record.
Coherent(state) ==
    /\ state \in PublishedRecord
    /\ state.failures = 0 <=> state.domain \in {"healthy", "none"}
    /\ state.successes = 0 <=> state.domain # "healthy"
    /\ state.sustained => state.domain \in FailureDomains /\ state.failures = FailureThreshold
    /\ state.diagnosis = "none" <=> state.domain = "none"
    /\ state.diagnosis = "recovering" => state.domain = "healthy"
    /\ state.domain \in {"dns", "allstar_services"} => state.internet = "ok"

Made(state) == Coherent(state) /\ state.domain # "none"

Prepared(u) == updater[u].pc \in {"emit", "save"}

TInv ==
    /\ updater \in [Updaters -> Runs]
    /\ Coherent(file) /\ \A u \in Updaters : Prepared(u) => Made(updater[u].next)
    /\ logged \in [diagnosis : Diagnoses, domain : Domains \cup {"none"}]
    /\ refused \in [diagnosis : Diagnoses, domain : Domains \cup {"none"}]
    /\ recent \in Histories
    /\ escalated \in FailureDomains \cup {"none"}
    /\ faults \in 0..MaxFaults

\* What a record counts, the history shows.
Shown(state, history) ==
    /\ Lately(state.failures, {state.domain}, history)
    /\ Lately(state.successes, {"healthy"}, history)

\* A failure confirmed, or being recovered from, is the one escalated.
Names(state, domain) ==
    /\ state.sustained => domain = state.domain
    /\ state.diagnosis = "recovering" /\ state.recovering_from \in FailureDomains
         => domain = state.recovering_from

\* The only process that updates the file, after it has loaded the last record:
\* what it made of it the history shows, with it at the head, and what it is about
\* to replace differs only by what has been logged, or refused by the log.
Justified(next) ==
    /\ Shown(next, <<next.domain>> \o recent)
    /\ next.diagnosis = "recovering" /\ next.recovering_from \in FailureDomains =>
         /\ escalated = next.recovering_from
         /\ RecoveryThreshold > 1 /\ recent # <<>> /\ recent[1] = next.recovering_from

Announced(next) ==
    \/ file.diagnosis = "none" \/ SameDiagnosis(file, next)
    \/ SameDiagnosis(logged, next) \/ SameDiagnosis(refused, next)

EInv ==
    /\ Shown(file, recent) /\ Names(file, escalated)
    /\ Prepared(Loop) => Justified(updater[Loop].next)
    /\ updater[Loop].pc = "save" => Announced(updater[Loop].next)

-------------------------------------------------------------------------------
(* The tests of failure_domain. *)

LEMMA TestsAre ==
    /\ DOMAIN Tests = 1..9
    /\ Tests[1] = <<"interface", "local_network">> /\ Tests[2] = <<"gateway", "gateway">>
    /\ Tests[3] = <<"internet", "external_internet">> /\ Tests[4] = <<"dns", "dns">>
    /\ Tests[5] = <<"allstar_services", "allstar_services">>
    /\ Tests[6] = <<"asterisk", "asterisk">> /\ Tests[7] = <<"allstar", "allstar_registration">>
    /\ Tests[8] = <<"iax", "iax">> /\ Tests[9] = <<"remote_links", "remote_link">>
BY DEF Tests, LocalTests, InternetTest, DnsTest, ServiceTests

LEMMA DomainsAre ==
    FailureDomains = {"local_network", "gateway", "external_internet", "dns",
                      "allstar_services", "asterisk", "allstar_registration", "iax",
                      "remote_link"}
<1>1. FailureDomains = {Tests[i][2] : i \in 1..9}
  BY TestsAre DEF FailureDomains
<1>. QED
  BY <1>1, TestsAre

LEMMA ProbesAre ==
    Probes = {"interface", "gateway", "dns", "internet", "allstar_services", "asterisk",
              "allstar", "iax", "remote_links"}
<1>1. DOMAIN ProbeOrder = 1..9
  BY DEF ProbeOrder
<1>2. Probes = {ProbeOrder[i] : i \in 1..9}
  BY <1>1 DEF Probes
<1>. QED
  BY <1>2 DEF ProbeOrder

\* A name that is not looked up, and a service that is not reached, were tried over
\* an Internet that answers.
LEMMA DomainFacts ==
    ASSUME NEW checks \in Returned
    PROVE  /\ FailureDomain(checks) \in Domains
           /\ FailureDomain(checks) \in {"dns", "allstar_services"} => checks.internet = "ok"
<1>. DEFINE failed == {i \in DOMAIN Tests : checks[Tests[i][1]] = "fail"}
            first == CHOOSE i \in failed : \A j \in failed : i <= j
<1>1. CASE failed = {}
  BY <1>1 DEF FailureDomain, Domains, FailureDomains
<1>2. CASE failed # {}
  <2>1. failed \subseteq 1..9
    BY TestsAre
  <2>2. \E i \in failed : \A j \in failed : i <= j
    BY <1>2, <2>1
  <2>3. first \in failed /\ \A j \in failed : first <= j
    BY <2>2
  <2>4. FailureDomain(checks) = Tests[first][2]
    BY <1>2 DEF FailureDomain
  <2>. HIDE DEF first
  <2>5. checks[Tests[first][1]] = "fail" /\ (checks[Tests[3][1]] = "fail" => first <= 3)
    <3>1. checks[Tests[first][1]] = "fail"
      BY <2>3
    <3>2. 3 \in DOMAIN Tests
      BY TestsAre
    <3>3. checks[Tests[3][1]] = "fail" => 3 \in failed
      BY <3>2
    <3>. HIDE DEF failed
    <3>. QED
      BY <2>3, <3>1, <3>3
  <2>6. first \in DOMAIN Tests /\ first \in 1..9
    BY <2>1, <2>3
  <2>. HIDE DEF failed
  <2>7. Tests[first][2] \in FailureDomains
    BY <2>6 DEF FailureDomains
  <2>8. ASSUME Tests[first][2] \in {"dns", "allstar_services"} PROVE checks.internet = "ok"
    <3>1. first \in {4, 5}
      BY <2>6, <2>8, TestsAre
    <3>2. checks.internet # "fail"
      BY <2>5, <3>1, TestsAre
    <3>3. CASE first = 5
      <4>1. checks["allstar_services"] = "fail"
        BY <2>5, <3>3, TestsAre
      <4>2. checks["allstar_services"] \in Outcomes(checks, "allstar_services")
        BY ProbesAre DEF Returned, Returnable
      <4>. QED
        BY <4>1, <4>2 DEF Outcomes, Requires
    <3>4. CASE first = 4
      <4>1. checks["dns"] = "fail"
        BY <2>5, <3>4, TestsAre
      <4>2. /\ checks["dns"] \in Outcomes(checks, "dns")
            /\ checks["internet"] \in Outcomes(checks, "internet")
        BY ProbesAre DEF Returned, Returnable
      <4>3. checks["gateway"] = "ok"
        BY <4>1, <4>2, ProbesAre DEF Outcomes, Requires
      <4>4. checks["internet"] \in {"ok", "fail"}
        BY <4>2, <4>3, ProbesAre DEF Outcomes, Requires, Answers
      <4>. QED
        BY <3>2, <4>4
    <3>. QED
      BY <3>1, <3>3, <3>4
  <2>. QED
    BY <2>4, <2>7, <2>8 DEF Domains
<1>. QED
  BY <1>1, <1>2

-------------------------------------------------------------------------------
(* What update makes of the previous record. *)

\* The counter stays within its limit and counts the same domain on.
LEMMA CountedType ==
    ASSUME NEW previous, NEW domain, NEW limit \in Nat \ {0}, NEW count \in 0..limit
    PROVE  Counted(previous, domain, count, limit) \in 1..limit
BY DEF Counted

LEMMA UpdatedMade ==
    ASSUME NEW previous, Coherent(previous), NEW checks \in Returned
    PROVE  Made(Updated(previous, checks))
<1>. DEFINE domain == FailureDomain(checks)
            next == Updated(previous, checks)
<1>1. domain \in Domains /\ (domain \in {"dns", "allstar_services"} => checks.internet = "ok")
  BY DomainFacts
<1>2. /\ previous.failures \in 0..FailureThreshold /\ previous.successes \in 0..RecoveryThreshold
      /\ previous.domain \in Domains \cup {"none"}
  BY DEF Coherent, PublishedRecord
<1>3. checks.internet \in Values
  BY ProbesAre DEF Returned
<1>. HIDE DEF domain
<1>4. /\ Failures(previous, domain) \in 0..FailureThreshold
      /\ Failures(previous, domain) = 0 <=> domain = "healthy"
  BY <1>2, CountedType, ThresholdAssumption DEF Failures
<1>5. /\ Successes(previous, domain) \in 0..RecoveryThreshold
      /\ Successes(previous, domain) = 0 <=> domain # "healthy"
  BY <1>2, CountedType, ThresholdAssumption DEF Successes
<1>6. /\ Sustained(previous, domain) \in BOOLEAN /\ Recovering(previous, domain) \in BOOLEAN
      /\ Recovering(previous, domain) => domain = "healthy"
      /\ Sustained(previous, domain) =>
           domain \in FailureDomains /\ Failures(previous, domain) = FailureThreshold
  BY <1>4, ThresholdAssumption DEF Sustained, Recovering
<1>7. /\ Diagnosis(previous, domain) \in Diagnoses \ {"none"}
      /\ Diagnosis(previous, domain) = "recovering" => domain = "healthy"
  <2>1. CASE domain \in {"healthy", "unavailable"}
    BY <2>1, <1>6, DomainsAre DEF Diagnosis, Diagnoses
  <2>2. CASE domain \in FailureDomains
    BY <2>2, <1>6, DomainsAre DEF Diagnosis, Diagnoses
  <2>. QED
    BY <1>1, <2>1, <2>2 DEF Domains
<1>8. next = [domain |-> domain, diagnosis |-> Diagnosis(previous, domain),
              sustained |-> Sustained(previous, domain),
              failures |-> Failures(previous, domain),
              successes |-> Successes(previous, domain),
              recovering_from |->
                  IF Recovering(previous, domain) THEN previous.domain ELSE "none",
              internet |-> checks.internet]
  BY DEF Updated, domain
<1>. HIDE DEF next
<1>9. domain # "none"
  BY <1>1, DomainsAre DEF Domains
<1>10. next \in PublishedRecord
  BY <1>1, <1>2, <1>3, <1>4, <1>5, <1>6, <1>7, <1>8 DEF PublishedRecord
<1>11. next.failures = 0 <=> next.domain \in {"healthy", "none"}
  BY <1>4, <1>8, <1>9
<1>12. next.successes = 0 <=> next.domain # "healthy"
  BY <1>5, <1>8
<1>13. next.sustained => next.domain \in FailureDomains /\ next.failures = FailureThreshold
  BY <1>6, <1>8
<1>14. /\ next.diagnosis = "none" <=> next.domain = "none"
       /\ next.diagnosis = "recovering" => next.domain = "healthy"
       /\ next.domain \in {"dns", "allstar_services"} => next.internet = "ok"
  BY <1>1, <1>7, <1>8, <1>9
<1>. QED
  BY <1>8, <1>9, <1>10, <1>11, <1>12, <1>13, <1>14 DEF Made, Coherent, next

\* One more of what the history shows.
LEMMA OneMore ==
    ASSUME NEW domain \in Domains, NEW history \in Seq(Domains), NEW n \in Nat,
           Lately(n, {domain}, history)
    PROVE  Lately(n + 1, {domain}, <<domain>> \o history)
<1>. DEFINE all == <<domain>> \o history
<1>1. Len(all) = Len(history) + 1 /\ all[1] = domain
  OBVIOUS
<1>2. ASSUME NEW i \in 1..n + 1 PROVE all[i] \in {domain}
  <2>1. CASE i = 1
    BY <1>1, <2>1
  <2>2. CASE i # 1
    <3>1. i - 1 \in 1..n /\ all[i] = history[i - 1]
      BY <2>2 DEF Lately
    <3>. QED
      BY <3>1 DEF Lately
  <2>. QED
    BY <2>1, <2>2
<1>. QED
  BY <1>1, <1>2 DEF Lately

LEMMA Fewer ==
    ASSUME NEW domains, NEW history \in Seq(Domains), NEW n \in Nat, NEW m \in 0..n,
           Lately(n, domains, history)
    PROVE  Lately(m, domains, history)
BY DEF Lately

\* What counts on from a previous count is shown, if that one was.
LEMMA CountedShown ==
    ASSUME NEW previous, NEW domain \in Domains, NEW history \in Seq(Domains),
           NEW limit \in Nat \ {0}, NEW count \in 0..limit,
           previous.domain = domain => Lately(count, {domain}, history)
    PROVE  Lately(Counted(previous, domain, count, limit), {domain}, <<domain>> \o history)
<1>1. Lately(0, {domain}, history)
  BY DEF Lately
<1>2. Lately(1, {domain}, <<domain>> \o history)
  <2>1. Lately(0 + 1, {domain}, <<domain>> \o history)
    BY <1>1, OneMore
  <2>. QED
    BY <2>1
<1>3. CASE previous.domain # domain
  BY <1>2, <1>3 DEF Counted
<1>4. CASE previous.domain = domain
  <2>1. Lately(count + 1, {domain}, <<domain>> \o history)
    BY <1>4, OneMore
  <2>2. Counted(previous, domain, count, limit) \in 0..count + 1
    BY <1>4 DEF Counted
  <2>3. <<domain>> \o history \in Seq(Domains) /\ count + 1 \in Nat
    OBVIOUS
  <2>. QED
    BY <2>1, <2>2, <2>3, Fewer
<1>. QED
  BY <1>3, <1>4

LEMMA UpdatedShown ==
    ASSUME NEW previous, Coherent(previous), NEW checks \in Returned,
           NEW history \in Seq(Domains), Shown(previous, history)
    PROVE  Shown(Updated(previous, checks), <<Updated(previous, checks).domain>> \o history)
<1>. DEFINE domain == FailureDomain(checks)
            next == Updated(previous, checks)
<1>1. domain \in Domains
  BY DomainFacts
<1>2. next.domain = domain /\ next.failures = Failures(previous, domain)
      /\ next.successes = Successes(previous, domain)
  BY DEF Updated
<1>3. /\ previous.failures \in 0..FailureThreshold /\ previous.successes \in 0..RecoveryThreshold
      /\ Lately(previous.failures, {previous.domain}, history)
      /\ Lately(previous.successes, {"healthy"}, history)
  BY DEF Coherent, PublishedRecord, Shown
<1>. HIDE DEF domain, next
<1>. DEFINE all == <<domain>> \o history
<1>4. Lately(0, {domain}, all) /\ Lately(0, {"healthy"}, all)
  BY <1>1 DEF Lately
<1>5. Lately(next.failures, {domain}, all)
  <2>1. CASE domain = "healthy"
    BY <1>2, <1>4, <2>1 DEF Failures
  <2>2. CASE domain # "healthy"
    <3>1. previous.domain = domain => Lately(previous.failures, {domain}, history)
      BY <1>3
    <3>2. FailureThreshold \in Nat \ {0}
      BY ThresholdAssumption
    <3>3. Lately(Counted(previous, domain, previous.failures, FailureThreshold), {domain}, all)
      BY <1>1, <1>3, <3>1, <3>2, CountedShown
    <3>. QED
      BY <1>2, <2>2, <3>3 DEF Failures
  <2>. QED
    BY <2>1, <2>2
<1>6. Lately(next.successes, {"healthy"}, all)
  <2>1. CASE domain = "healthy"
    BY <1>1, <1>2, <1>3, <2>1, CountedShown, ThresholdAssumption DEF Successes
  <2>2. CASE domain # "healthy"
    BY <1>2, <1>4, <2>2 DEF Successes
  <2>. QED
    BY <2>1, <2>2
<1>. QED
  BY <1>2, <1>5, <1>6 DEF Shown, next

\* Recovery is under way from the failure escalated, and was observed once.
LEMMA UpdatedRecovers ==
    ASSUME NEW previous, Coherent(previous), NEW checks \in Returned,
           NEW history \in Seq(Domains), Shown(previous, history),
           NEW domain, Names(previous, domain),
           Updated(previous, checks).diagnosis = "recovering",
           Updated(previous, checks).recovering_from \in FailureDomains
    PROVE  /\ domain = Updated(previous, checks).recovering_from
           /\ RecoveryThreshold > 1 /\ history # <<>>
           /\ history[1] = Updated(previous, checks).recovering_from
<1>. DEFINE next == Updated(previous, checks)
            found == FailureDomain(checks)
<1>1. Recovering(previous, found) /\ next.recovering_from = previous.domain
  BY DomainsAre DEF Updated
<1>2. previous.domain \in FailureDomains /\ previous.domain # "healthy"
  BY <1>1, DomainsAre
<1>3. previous.sustained
  BY <1>1, <1>2 DEF Recovering, Coherent
<1>4. domain = previous.domain
  BY <1>3 DEF Names
<1>5. found = "healthy" /\ Successes(previous, found) = 1 /\ 1 < RecoveryThreshold
  BY <1>1, <1>2 DEF Recovering, Successes, Counted
<1>6. Lately(FailureThreshold, {previous.domain}, history)
  BY <1>3 DEF Coherent, Shown
<1>7. history # <<>> /\ history[1] = previous.domain
  BY <1>6, ThresholdAssumption DEF Lately
<1>. QED
  BY <1>1, <1>4, <1>5, <1>7, ThresholdAssumption

-------------------------------------------------------------------------------
(* Types and coherence, whoever updates. *)

LEMMA RememberedIs == /\ Remembered \in Nat /\ FailureThreshold \in 0..Remembered
                      /\ RecoveryThreshold \in 0..Remembered
BY ThresholdAssumption DEF Remembered

Kept(all) == SubSeq(all, 1, IF Len(all) < Remembered THEN Len(all) ELSE Remembered)

LEMMA KeptType == ASSUME NEW all \in Seq(Domains) PROVE Kept(all) \in Histories
<1>. DEFINE n == IF Len(all) < Remembered THEN Len(all) ELSE Remembered
<1>1. n \in 0..Remembered /\ n \in 0..Len(all)
  BY RememberedIs
<1>2. Kept(all) = SubSeq(all, 1, n)
  BY DEF Kept
<1>. HIDE DEF n
<1>3. SubSeq(all, 1, n) \in [1..n -> Domains]
  <2>1. SubSeq(all, 1, n) = [i \in 1..n |-> all[i]]
    BY <1>1
  <2>2. \A i \in 1..n : all[i] \in Domains
    BY <1>1
  <2>. QED
    BY <2>1, <2>2
<1>. QED
  BY <1>1, <1>2, <1>3 DEF Histories

LEMMA KeptShows ==
    ASSUME NEW all \in Seq(Domains), NEW n \in 0..Remembered, NEW domains
    PROVE  Lately(n, domains, all) <=> Lately(n, domains, Kept(all))
<1>. DEFINE m == IF Len(all) < Remembered THEN Len(all) ELSE Remembered
<1>1. m \in 0..Remembered /\ m \in 0..Len(all) /\ (n <= Len(all) <=> n <= m)
  BY RememberedIs
<1>2. Kept(all) = SubSeq(all, 1, m)
  BY DEF Kept
<1>. HIDE DEF m
<1>3. Len(SubSeq(all, 1, m)) = m /\ \A i \in 1..m : SubSeq(all, 1, m)[i] = all[i]
  BY <1>1
<1>. QED
  BY <1>1, <1>2, <1>3, RememberedIs DEF Lately

LEMMA HistoriesAre == Histories \subseteq Seq(Domains)
<1>1. ASSUME NEW n \in 0..Remembered, NEW h \in [1..n -> Domains] PROVE h \in Seq(Domains)
  BY RememberedIs
<1>. QED
  BY <1>1 DEF Histories

LEMMA NothingCoherent == Coherent(NothingPublished) /\ Waiting \in Runs
<1>1. NothingPublished \in PublishedRecord
  BY ThresholdAssumption DEF NothingPublished, PublishedRecord, Diagnoses, Values
<1>2. Coherent(NothingPublished)
  BY <1>1, DomainsAre DEF Coherent, NothingPublished
<1>3. AllOk \in Returned
  BY ProbesAre DEF AllOk, Returned, Returnable, Outcomes, Requires, Answers, Values
<1>. QED
  BY <1>1, <1>2, <1>3 DEF Waiting, Runs, Steps

LEMMA ObservableAre == Observable \subseteq Returned
<1>1. ASSUME NEW checks \in Observable PROVE checks \in Returned
  <2>1. checks \in [Probes -> Values] /\ Returnable(checks)
    BY ConnectivityAssumption
  <2>. QED
    BY <2>1 DEF Returned
<1>. QED
  BY <1>1

LEMMA TypeInit == ASSUME Init PROVE TInv
<1>1. recent \in Histories
  <2>1. <<>> \in [1..0 -> Domains] /\ 0 \in 0..Remembered
    BY RememberedIs
  <2>. QED
    BY <2>1 DEF Init, Histories
<1>2. updater \in [Updaters -> Runs] /\ \A u \in Updaters : ~Prepared(u)
  BY NothingCoherent DEF Init, Prepared, Waiting
<1>3. {logged, refused} \subseteq [diagnosis : Diagnoses, domain : Domains \cup {"none"}]
  BY DEF Init, Event, NothingPublished, Diagnoses
<1>. QED
  BY <1>1, <1>2, <1>3, NothingCoherent, ConnectivityAssumption DEF Init, TInv

\* One run moves on; what it prepares is coherent.
LEMMA RunMoves ==
    ASSUME TInv, NEW u \in Updaters, NEW record \in Runs, Goes(u, record),
           record.pc \in {"emit", "save"} => Made(record.next)
    PROVE  /\ updater' \in [Updaters -> Runs]
           /\ \A v \in Updaters : Prepared(v)' => Made(updater[v].next)'
           /\ updater'[u] = record /\ \A v \in Updaters \ {u} : updater'[v] = updater[v]
<1>1. /\ updater' \in [Updaters -> Runs] /\ updater'[u] = record
      /\ \A v \in Updaters \ {u} : updater'[v] = updater[v]
  BY DEF TInv, Goes
<1>2. ASSUME NEW v \in Updaters, Prepared(v)' PROVE Made(updater[v].next)'
  <2>1. CASE v = u
    BY <1>1, <1>2, <2>1 DEF Prepared, Made, Coherent
  <2>2. CASE v # u
    BY <1>1, <1>2, <2>2 DEF Prepared, Made, Coherent, TInv
  <2>. QED
    BY <2>1, <2>2
<1>. QED
  BY <1>1, <1>2

LEMMA NothingTyped ==
    Event(NothingPublished) \in [diagnosis : Diagnoses, domain : Domains \cup {"none"}]
BY DEF Event, NothingPublished, Diagnoses

\* Where a run goes, and what it then holds.
LEMMA TypeStep == ASSUME TInv, [Next]_vars PROVE TInv'
<1>. USE DEF TInv
<1>1. ASSUME NEW u \in Updaters, Probe(u) PROVE TInv'
  <2>1. PICK checks \in Observable :
           Goes(u, [Waiting EXCEPT !.pc = "load", !.checks = checks])
    BY <1>1 DEF Probe
  <2>. DEFINE record == [Waiting EXCEPT !.pc = "load", !.checks = checks]
  <2>2. record \in Runs /\ record.pc = "load"
    BY <2>1, NothingCoherent, ObservableAre DEF Runs, Steps
  <2>. HIDE DEF record
  <2>3. /\ updater' \in [Updaters -> Runs]
        /\ \A v \in Updaters : Prepared(v)' => Made(updater[v].next)'
    BY <2>1, <2>2, RunMoves DEF record
  <2>. QED
    BY <1>1, <2>3 DEF Probe, Coherent
<1>2. ASSUME NEW u \in Updaters, Load(u) PROVE TInv'
  <2>. DEFINE next == Updated(file, updater[u].checks)
              record == [Waiting EXCEPT !.next = next,
                            !.pc = IF Announces(file, next) THEN "emit" ELSE "save"]
  <2>1. updater[u].checks \in Returned
    BY DEF Runs
  <2>2. Made(next)
    BY <2>1, UpdatedMade
  <2>3. Goes(u, record)
    BY <1>2 DEF Load
  <2>. HIDE DEF next
  <2>4. record \in Runs /\ record.next = next
    BY <2>2, NothingCoherent DEF Runs, Steps, Made, Coherent
  <2>. HIDE DEF record
  <2>5. /\ updater' \in [Updaters -> Runs]
        /\ \A v \in Updaters : Prepared(v)' => Made(updater[v].next)'
    BY <2>2, <2>3, <2>4, RunMoves
  <2>. QED
    BY <1>2, <2>5 DEF Load, Coherent
<1>3. ASSUME NEW u \in Updaters, Emit(u) PROVE TInv'
  <2>. DEFINE record == [updater[u] EXCEPT !.pc = "save"]
  <2>1. record \in Runs /\ record.next = updater[u].next
    BY DEF Runs, Steps
  <2>2. Made(updater[u].next)
    BY <1>3 DEF Emit, Prepared
  <2>3. Goes(u, record)
    BY <1>3 DEF Emit
  <2>. HIDE DEF record
  <2>4. /\ updater' \in [Updaters -> Runs]
        /\ \A v \in Updaters : Prepared(v)' => Made(updater[v].next)'
    BY <2>1, <2>2, <2>3, RunMoves
  <2>5. logged' \in [diagnosis : Diagnoses, domain : Domains \cup {"none"}]
    BY <1>3, <2>2 DEF Emit, Event, Made, Coherent, PublishedRecord
  <2>. QED
    BY <1>3, <2>4, <2>5 DEF Emit, Coherent
<1>8. ASSUME NEW u \in Updaters, EmitLost(u) PROVE TInv'
  <2>. DEFINE record == [updater[u] EXCEPT !.pc = "save"]
  <2>1. record \in Runs /\ record.next = updater[u].next
    BY DEF Runs, Steps
  <2>2. Made(updater[u].next)
    BY <1>8 DEF EmitLost, Prepared
  <2>3. Goes(u, record)
    BY <1>8 DEF EmitLost
  <2>. HIDE DEF record
  <2>4. /\ updater' \in [Updaters -> Runs]
        /\ \A v \in Updaters : Prepared(v)' => Made(updater[v].next)'
    BY <2>1, <2>2, <2>3, RunMoves
  <2>5. refused' \in [diagnosis : Diagnoses, domain : Domains \cup {"none"}]
    BY <1>8, <2>2 DEF EmitLost, Event, Made, Coherent, PublishedRecord
  <2>6. faults' \in 0..MaxFaults
    BY <1>8, ConnectivityAssumption DEF EmitLost, Fault
  <2>. QED
    BY <1>8, <2>4, <2>5, <2>6 DEF EmitLost, Coherent
<1>4. ASSUME NEW u \in Updaters, Save(u) PROVE TInv'
  <2>. DEFINE next == updater[u].next
              history == Kept(<<next.domain>> \o recent)
  <2>1. Coherent(next) /\ next.domain # "none"
    BY <1>4 DEF Save, Prepared, Made
  <2>2. /\ file' = next /\ recent' = history /\ escalated' = Escalation(next, history)
        /\ Goes(u, Waiting) /\ refused' = Event(NothingPublished)
        /\ UNCHANGED <<logged, faults>>
    BY <1>4 DEF Save, Kept, Ends
  <2>. HIDE DEF next
  <2>3. next.domain \in Domains
    BY <2>1 DEF Coherent, PublishedRecord
  <2>4. <<next.domain>> \o recent \in Seq(Domains)
    BY <2>3, HistoriesAre
  <2>5. recent' \in Histories
    BY <2>2, <2>4, KeptType
  <2>6. escalated' \in FailureDomains \cup {"none"}
    BY <2>1, <2>2 DEF Escalation, Coherent
  <2>7. /\ updater' \in [Updaters -> Runs]
        /\ \A v \in Updaters : Prepared(v)' => Made(updater[v].next)'
    BY <2>2, NothingCoherent, RunMoves DEF Waiting
  <2>. QED
    BY <2>1, <2>2, <2>5, <2>6, <2>7, NothingTyped DEF Coherent
<1>5. ASSUME NEW u \in Updaters, Fails(u) PROVE TInv'
  <2>1. /\ updater' \in [Updaters -> Runs]
        /\ \A v \in Updaters : Prepared(v)' => Made(updater[v].next)'
    BY <1>5, NothingCoherent, RunMoves DEF Fails, Ends, Waiting
  <2>2. faults' \in 0..MaxFaults
    BY <1>5, ConnectivityAssumption DEF Fails, Fault
  <2>. QED
    BY <1>5, <2>1, <2>2, NothingTyped DEF Fails, Ends, Coherent
<1>6. CASE Lost
  <2>1. faults' \in 0..MaxFaults
    BY <1>6, ConnectivityAssumption DEF Lost, Fault
  <2>. QED
    BY <1>6, <2>1, NothingCoherent DEF Lost, Coherent, Made, Prepared
<1>7. CASE UNCHANGED vars
  BY <1>7 DEF vars, Coherent, Made, Prepared
<1>. QED
  BY <1>1, <1>2, <1>3, <1>4, <1>5, <1>6, <1>7, <1>8 DEF Next, Update

-------------------------------------------------------------------------------
(* What the history shows, when the loop alone updates. *)

LEMMA EvidenceInit == ASSUME Init PROVE EInv
<1>1. ~Prepared(Loop) /\ updater[Loop].pc # "save"
  BY ConnectivityAssumption DEF Init, Waiting, Prepared
<1>2. Shown(NothingPublished, <<>>)
  BY DEF Shown, Lately, NothingPublished
<1>3. Names(NothingPublished, "none")
  BY DEF Names, NothingPublished
<1>. QED
  BY <1>1, <1>2, <1>3 DEF Init, EInv

\* The failure named is the one escalated, also after the record is published.
LEMMA SavedNames ==
    ASSUME NEW next, Made(next), NEW history \in Seq(Domains), Justified(next),
           history = Kept(<<next.domain>> \o recent), recent \in Seq(Domains)
    PROVE  Names(next, Escalation(next, history))
<1>1. ASSUME next.sustained PROVE Escalation(next, history) = next.domain
  BY <1>1 DEF Escalation
<1>2. ASSUME next.diagnosis = "recovering", next.recovering_from \in FailureDomains
      PROVE  Escalation(next, history) = next.recovering_from
  <2>1. next.domain = "healthy" /\ ~next.sustained
    BY <1>2, DomainsAre DEF Made, Coherent
  <2>2. /\ escalated = next.recovering_from /\ RecoveryThreshold > 1 /\ recent # <<>>
        /\ recent[1] # "healthy"
    BY <1>2, DomainsAre DEF Justified
  <2>. DEFINE all == <<next.domain>> \o recent
  <2>3. all \in Seq(Domains) /\ all[2] # "healthy"
    BY <2>1, <2>2 DEF Domains
  <2>4. ~Lately(RecoveryThreshold, {"healthy"}, all)
    BY <2>2, <2>3, ThresholdAssumption DEF Lately
  <2>5. ~Lately(RecoveryThreshold, {"healthy"}, history)
    BY <2>3, <2>4, KeptShows, RememberedIs
  <2>. QED
    BY <2>1, <2>2, <2>5 DEF Escalation
<1>. QED
  BY <1>1, <1>2 DEF Names

LEMMA SavedShows ==
    ASSUME NEW next, Made(next), Justified(next), recent \in Seq(Domains)
    PROVE  Shown(next, Kept(<<next.domain>> \o recent))
<1>. DEFINE all == <<next.domain>> \o recent
<1>1. next.failures \in 0..FailureThreshold /\ next.successes \in 0..RecoveryThreshold
  BY DEF Made, Coherent, PublishedRecord
<1>2. next.failures \in 0..Remembered /\ next.successes \in 0..Remembered
  BY <1>1, RememberedIs
<1>3. next.domain \in Domains
  BY DEF Made, Coherent, PublishedRecord
<1>4. all \in Seq(Domains)
  BY <1>3
<1>5. Lately(next.failures, {next.domain}, all) /\ Lately(next.successes, {"healthy"}, all)
  BY DEF Justified, Shown
<1>. HIDE DEF all
<1>6. /\ Lately(next.failures, {next.domain}, Kept(all))
      /\ Lately(next.successes, {"healthy"}, Kept(all))
  BY <1>2, <1>4, <1>5, KeptShows
<1>. QED
  BY <1>6 DEF Shown, all

LEMMA EvidenceStep ==
    ASSUME Updaters = {Loop}, TInv, EInv, [Next]_vars
    PROVE  /\ EInv'
           /\ Transition => SameDiagnosis(logged, file') \/ SameDiagnosis(refused, file')
<1>0. /\ updater \in [Updaters -> Runs] /\ recent \in Seq(Domains) /\ Loop \in Updaters
      /\ SameDiagnosis(file, file)
  BY HistoriesAre DEF TInv, SameDiagnosis
<1>. USE DEF Transition
<1>1. CASE Probe(Loop)
  <2>1. updater'[Loop].pc = "load"
    BY <1>0, <1>1 DEF Probe, Goes, Waiting
  <2>. QED
    BY <1>0, <1>1, <2>1 DEF Probe, EInv, Prepared
<1>2. CASE Load(Loop)
  <2>. DEFINE next == Updated(file, updater[Loop].checks)
  <2>1. updater[Loop].checks \in Returned
    BY <1>0 DEF Runs
  <2>2. /\ updater'[Loop].next = next
        /\ updater'[Loop].pc = IF Announces(file, next) THEN "emit" ELSE "save"
    BY <1>0, <1>2 DEF Load, Goes, Waiting
  <2>3. Shown(next, <<next.domain>> \o recent)
    BY <1>0, <2>1, UpdatedShown DEF TInv, EInv
  <2>4. next.diagnosis = "recovering" /\ next.recovering_from \in FailureDomains =>
          /\ escalated = next.recovering_from
          /\ RecoveryThreshold > 1 /\ recent # <<>> /\ recent[1] = next.recovering_from
    BY <1>0, <2>1, UpdatedRecovers DEF TInv, EInv
  <2>. HIDE DEF next
  <2>5. Justified(updater[Loop].next)'
    BY <1>2, <2>2, <2>3, <2>4 DEF Load, Justified
  <2>6. (updater[Loop].pc = "save" => Announced(updater[Loop].next))'
    BY <1>2, <2>2 DEF Load, Announced, Announces
  <2>. QED
    BY <1>0, <1>2, <2>5, <2>6 DEF Load, EInv
<1>3. CASE Emit(Loop)
  <2>1. updater'[Loop].next = updater[Loop].next
    BY <1>0, <1>3 DEF Emit, Goes, Runs
  <2>2. SameDiagnosis(logged', updater[Loop].next)
    BY <1>3 DEF Emit, Event, SameDiagnosis
  <2>3. Justified(updater[Loop].next)'
    BY <1>3, <2>1 DEF Emit, EInv, Prepared, Justified
  <2>4. Announced(updater[Loop].next)'
    BY <2>1, <2>2 DEF Announced
  <2>. QED
    BY <1>0, <1>3, <2>3, <2>4 DEF Emit, EInv
<1>8. CASE EmitLost(Loop)
  <2>1. updater'[Loop].next = updater[Loop].next
    BY <1>0, <1>8 DEF EmitLost, Goes, Runs
  <2>2. SameDiagnosis(refused', updater[Loop].next)
    BY <1>8 DEF EmitLost, Event, SameDiagnosis
  <2>3. Justified(updater[Loop].next)'
    BY <1>8, <2>1 DEF EmitLost, EInv, Prepared, Justified
  <2>4. Announced(updater[Loop].next)'
    BY <2>1, <2>2 DEF Announced
  <2>. QED
    BY <1>0, <1>8, <2>3, <2>4 DEF EmitLost, EInv
<1>4. CASE Save(Loop)
  <2>. DEFINE next == updater[Loop].next
              history == Kept(<<next.domain>> \o recent)
  <2>1. /\ file' = next /\ recent' = history /\ escalated' = Escalation(next, history)
        /\ Goes(Loop, Waiting) /\ UNCHANGED <<logged, faults>>
    BY <1>4 DEF Save, Kept, Ends
  <2>2. Made(next) /\ Justified(next) /\ Announced(next)
    BY <1>0, <1>4 DEF Save, TInv, EInv, Prepared
  <2>. HIDE DEF next
  <2>3. history \in Seq(Domains)
    <3>1. next.domain \in Domains
      BY <2>2 DEF Made, Coherent, PublishedRecord
    <3>2. <<next.domain>> \o recent \in Seq(Domains)
      BY <1>0, <3>1
    <3>. QED
      BY <3>2, KeptType, HistoriesAre
  <2>4. Shown(file, recent)'
    BY <1>0, <2>1, <2>2, SavedShows DEF Shown
  <2>. HIDE DEF history
  <2>5. Names(next, Escalation(next, history))
    BY <1>0, <2>2, <2>3, SavedNames DEF history
  <2>6. updater'[Loop].pc = "idle"
    BY <1>0, <2>1 DEF Goes, Waiting
  <2>. QED
    BY <2>1, <2>2, <2>4, <2>5, <2>6 DEF EInv, Prepared, Names, Announced
<1>5. CASE Fails(Loop)
  <2>1. updater'[Loop].pc = "idle"
    BY <1>0, <1>5 DEF Fails, Ends, Goes, Waiting
  <2>. QED
    BY <1>0, <1>5, <2>1 DEF Fails, Ends, EInv, Prepared
<1>6. CASE Lost
  <2>1. Shown(NothingPublished, recent) /\ Names(NothingPublished, escalated)
    BY <1>0 DEF Shown, Lately, Names, NothingPublished
  <2>2. file'.diagnosis = "none"
    BY <1>6 DEF Lost, NothingPublished
  <2>. QED
    BY <1>6, <2>1, <2>2 DEF Lost, EInv, Prepared, Justified, Announced
<1>7. CASE UNCHANGED vars
  BY <1>0, <1>7 DEF vars, EInv, Prepared, Justified, Announced
<1>. QED
  BY <1>1, <1>2, <1>3, <1>4, <1>5, <1>6, <1>7, <1>8 DEF Next, Update

-------------------------------------------------------------------------------
(* The theorems. *)

THEOREM Typing == Spec => []TInv
<1>1. Init => TInv
  BY TypeInit
<1>2. TInv /\ [Next]_vars => TInv'
  BY TypeStep
<1>. QED
  BY <1>1, <1>2, PTL DEF Spec

\* TypeOK: whoever updates, and whatever is lost, the counters of the record agree
\* with its domain, so load_state finds what update left.
THEOREM TypesHold == Spec => []TypeOK
<1>1. ASSUME TInv PROVE TypeOK
  <2>1. file \in PublishedRecord /\ logged \in [diagnosis : Diagnoses, domain : Domains \cup {"none"}]
    BY <1>1 DEF TInv, Coherent
  <2>2. \A u \in Updaters : /\ updater[u].pc \in Steps /\ Returnable(updater[u].checks)
                             /\ updater[u].next \in PublishedRecord
    BY <1>1 DEF TInv, Runs, Returned
  <2>3. /\ file.failures = 0 <=> file.domain \in {"healthy", "none"}
        /\ file.successes = 0 <=> file.domain # "healthy"
    BY <1>1 DEF TInv, Coherent
  <2>. QED
    BY <1>1, <2>1, <2>2, <2>3 DEF TInv, TypeOK
<1>. QED
  BY <1>1, Typing, PTL

\* legacy_internet_state leaves the Internet online when a name is not resolved or
\* AllStarLink is not reached, with any number of updates under way at once.
THEOREM ServiceFailures == Spec => []ServiceFailureLeavesInternet
<1>1. ASSUME TInv PROVE ServiceFailureLeavesInternet
  <2>1. ASSUME file.domain \in {"dns", "allstar_services"} PROVE LegacyInternet(file) = "online"
    <3>1. file.internet = "ok" /\ file.diagnosis # "recovering" /\ ~Offline(file)
      BY <1>1, <2>1 DEF TInv, Coherent, Offline, NetworkDomains
    <3>. QED
      BY <3>1 DEF LegacyInternet
  <2>. QED
    BY <2>1 DEF ServiceFailureLeavesInternet
<1>. QED
  BY <1>1, Typing, PTL

\* update escalates a failure only on FAILURE_THRESHOLD observations of its domain,
\* published one after the other, whatever crashes or is lost in between.
THEOREM Escalations == ASSUME Updaters = {Loop} PROVE Spec => []EscalationIsConfirmed
<1>1. Init => TInv /\ EInv
  BY TypeInit, EvidenceInit
<1>2. TInv /\ EInv /\ [Next]_vars => TInv' /\ EInv'
  BY TypeStep, EvidenceStep
<1>3. TInv /\ EInv => EscalationIsConfirmed
  BY DEF TInv, EInv, Coherent, Shown, EscalationIsConfirmed
<1>. QED
  BY <1>1, <1>2, <1>3, PTL DEF Spec

\* legacy_internet_state says offline only while a failure of the network itself is
\* confirmed, or being recovered from.
THEOREM OfflineNeedsOutage == ASSUME Updaters = {Loop} PROVE Spec => []OfflineIsConfirmed
<1>1. Init => TInv /\ EInv
  BY TypeInit, EvidenceInit
<1>2. TInv /\ EInv /\ [Next]_vars => TInv' /\ EInv'
  BY TypeStep, EvidenceStep
<1>3. ASSUME TInv, EInv PROVE OfflineIsConfirmed
  <2>1. NetworkDomains \subseteq FailureDomains
    BY DomainsAre DEF NetworkDomains
  <2>2. ASSUME LegacyInternet(file) = "offline" PROVE escalated \in NetworkDomains
    <3>1. \/ Offline(file)
          \/ file.diagnosis = "recovering" /\ file.recovering_from \in NetworkDomains
      BY <2>2 DEF LegacyInternet
    <3>. QED
      BY <1>3, <2>1, <3>1 DEF EInv, Names, Offline
  <2>. QED
    BY <2>2 DEF OfflineIsConfirmed
<1>. QED
  BY <1>1, <1>2, <1>3, PTL DEF Spec

\* update hands every change of the diagnosis to the log before it publishes it, so a
\* crash between the two repeats an event and loses none; what remains silent is what
\* the log itself refused.
THEOREM TransitionsAreTold == ASSUME Updaters = {Loop} PROVE Spec => TransitionsAreAnnounced
<1>1. Init => TInv /\ EInv
  BY TypeInit, EvidenceInit
<1>2. TInv /\ EInv /\ [Next]_vars => TInv' /\ EInv'
  BY TypeStep, EvidenceStep
<1>3. TInv /\ EInv /\ [Next]_vars =>
        [Transition => SameDiagnosis(logged, file') \/ SameDiagnosis(refused, file')]_vars
  BY EvidenceStep
<1>. QED
  BY <1>1, <1>2, <1>3, PTL DEF Spec, TransitionsAreAnnounced

-------------------------------------------------------------------------------
(* The probes of run_checks, and what failure_domain and diagnostic_layers say of them. *)

LEMMA OrderIs ==
    /\ DOMAIN ProbeOrder = 1..9 /\ Len(ProbeOrder) = 9
    /\ ProbeOrder[1] = "interface" /\ ProbeOrder[2] = "gateway" /\ ProbeOrder[3] = "dns"
    /\ ProbeOrder[4] = "internet" /\ ProbeOrder[5] = "allstar_services"
    /\ ProbeOrder[6] = "asterisk" /\ ProbeOrder[7] = "allstar" /\ ProbeOrder[8] = "iax"
    /\ ProbeOrder[9] = "remote_links"
BY DEF ProbeOrder

\* What a probe requires is probed before it.
LEMMA RequiredEarlier ==
    ASSUME NEW i \in 1..9, NEW j \in 1..9, i <= j
    PROVE  /\ ProbeOrder[j] \notin Requires[ProbeOrder[i]]
           /\ i # j => ProbeOrder[i] # ProbeOrder[j]
           /\ ProbeOrder[i] \in Probes /\ Requires[ProbeOrder[i]] \subseteq Probes
BY OrderIs, ProbesAre DEF Requires

LEMMA AnswersAre == ASSUME NEW c, NEW p \in Probes PROVE Outcomes(c, p) \subseteq Values
BY ProbesAre DEF Outcomes, Answers, Values

\* The values of the probes made were possible when they were made, and still are.
ProbingInv ==
    /\ probed \in 0..9 /\ values \in [Probes -> Values]
    /\ \A i \in 1..9 : IF i <= probed THEN values[ProbeOrder[i]] \in Outcomes(values, ProbeOrder[i])
                                    ELSE values[ProbeOrder[i]] = "unknown"

LEMMA ProbingStep == ProbingInv /\ [ChecksNext]_checksVars => ProbingInv'
<1>. SUFFICES ASSUME ProbingInv, [ChecksNext]_checksVars PROVE ProbingInv'
  OBVIOUS
<1>1. CASE NextProbe
  <2>1. PICK k \in 1..9, p \in Probes : probed = k - 1 /\ probed' = k /\ p = ProbeOrder[k]
    <3>1. probed # 9 /\ probed' = probed + 1
      BY <1>1, OrderIs DEF NextProbe, Take, Complete
    <3>2. probed + 1 \in 1..9 /\ probed = (probed + 1) - 1
      BY <3>1 DEF ProbingInv
    <3>3. ProbeOrder[probed + 1] \in Probes
      BY <3>2, RequiredEarlier
    <3>. QED
      BY <3>1, <3>2, <3>3
  <2>2. PICK value \in Outcomes(values, p) : values' = [values EXCEPT ![p] = value]
    <3>1. probed + 1 = k
      BY <2>1
    <3>. QED
      BY <1>1, <2>1, <3>1 DEF NextProbe, Take
  <2>3. values' \in [Probes -> Values] /\ values'[p] = value
    BY <2>2, AnswersAre DEF ProbingInv
  <2>4. ASSUME NEW i \in 1..9, i <= k PROVE Outcomes(values', ProbeOrder[i]) = Outcomes(values, ProbeOrder[i])
    <3>1. p \notin Requires[ProbeOrder[i]] /\ Requires[ProbeOrder[i]] \subseteq Probes
      BY <2>1, <2>4, RequiredEarlier
    <3>2. \A q \in Requires[ProbeOrder[i]] : values'[q] = values[q]
      BY <2>2, <3>1 DEF ProbingInv
    <3>. QED
      BY <3>2 DEF Outcomes
  <2>5. ASSUME NEW i \in 1..9
        PROVE  IF i <= k THEN values'[ProbeOrder[i]] \in Outcomes(values', ProbeOrder[i])
                         ELSE values'[ProbeOrder[i]] = "unknown"
    <3>1. CASE i = k
      BY <2>1, <2>3, <2>4, <3>1
    <3>2. CASE i < k
      <4>1. ProbeOrder[i] # p /\ i <= probed /\ i <= k
        BY <2>1, <3>2, RequiredEarlier
      <4>2. values'[ProbeOrder[i]] = values[ProbeOrder[i]]
        BY <2>2, <4>1, RequiredEarlier DEF ProbingInv
      <4>. QED
        BY <2>4, <4>1, <4>2 DEF ProbingInv
    <3>3. CASE k < i
      <4>1. ProbeOrder[i] # p /\ ~(i <= probed) /\ ~(i <= k)
        <5>1. k <= i /\ k # i
          BY <3>3
        <5>. QED
          BY <2>1, <3>3, <5>1, RequiredEarlier
      <4>2. values'[ProbeOrder[i]] = values[ProbeOrder[i]]
        BY <2>2, <4>1, RequiredEarlier DEF ProbingInv
      <4>. QED
        BY <4>1, <4>2 DEF ProbingInv
    <3>. QED
      BY <3>1, <3>2, <3>3
  <2>. QED
    BY <2>1, <2>3, <2>5 DEF ProbingInv
<1>2. CASE Again
  <2>1. values' = [p \in Probes |-> "unknown"] /\ probed' = 0
    BY <1>2 DEF Again
  <2>. QED
    BY <2>1, RequiredEarlier DEF ProbingInv, Values
<1>3. CASE UNCHANGED checksVars
  BY <1>3 DEF ProbingInv, Outcomes, checksVars
<1>. QED
  BY <1>1, <1>2, <1>3 DEF ChecksNext

LEMMA ProbingStart == ChecksInit => ProbingInv
BY RequiredEarlier DEF ChecksInit, ProbingInv, Values

\* A probe that has an answer was made because what it requires was found working.
LEMMA AnsweredOverOk ==
    ASSUME NEW c, Returnable(c), NEW p \in Probes, c[p] # "unknown"
    PROVE  \A q \in Requires[p] : c[q] = "ok"
BY DEF Returnable, Outcomes

\* A layer shown ok is one that is; a failure is shown, but for the registration's, and
\* nothing else is shown as one.
LEMMA LayersShow ==
    ASSUME NEW c \in [Probes -> Values], Returnable(c), NEW p \in Probes
    PROVE  /\ Layers(c)[p] = "ok" <=> c[p] = "ok"
           /\ c[p] = "fail" /\ p # "allstar" => Layers(c)[p] = "fail"
           /\ p = "remote_links" /\ c["asterisk"] = "ok" /\ c["iax"] = "ok" => Layers(c)[p] = c[p]
<1>1. /\ c["gateway"] # "unknown" => c["interface"] = "ok"
      /\ c["dns"] # "unknown" => c["gateway"] = "ok"
      /\ c["internet"] # "unknown" => c["gateway"] = "ok"
      /\ c["allstar_services"] # "unknown" => c["dns"] = "ok" /\ c["internet"] = "ok"
      /\ c["allstar"] # "unknown" => c["asterisk"] = "ok"
      /\ c["iax"] # "unknown" => c["asterisk"] = "ok"
      /\ c["remote_links"] # "unknown" => c["asterisk"] = "ok" /\ c["iax"] = "ok"
  BY AnsweredOverOk, ProbesAre DEF Requires
<1>2. /\ Layers(c)["interface"] = c["interface"] /\ Layers(c)["asterisk"] = c["asterisk"]
      /\ Layers(c)["gateway"] = Layer(c, "gateway", {"interface"})
      /\ Layers(c)["dns"] = Layer(c, "dns", LocalNetwork)
      /\ Layers(c)["internet"] = Layer(c, "internet", LocalNetwork)
      /\ Layers(c)["allstar_services"] = Layer(c, "allstar_services", Internet)
      /\ Layers(c)["allstar"] = RegistrationLayer(c)
      /\ Layers(c)["iax"] = Layer(c, "iax", {"asterisk"})
      /\ Layers(c)["remote_links"] = Layer(c, "remote_links", {"asterisk", "iax"})
  BY DEF Layers
<1>3. ASSUME NEW q, NEW upstream
      PROVE  /\ (\A u \in upstream : c[u] = "ok") => Layer(c, q, upstream) = c[q]
             /\ (\E u \in upstream : c[u] # "ok") => Layer(c, q, upstream) # "ok"
  BY DEF Layer, Blocked
<1>4. CASE p \in {"interface", "asterisk"}
  BY <1>2, <1>4
<1>5. CASE p \in {"gateway", "iax", "remote_links"}
  BY <1>1, <1>2, <1>3, <1>5
<1>6. CASE p \in {"dns", "internet"}
  BY <1>1, <1>2, <1>3, <1>6 DEF LocalNetwork
<1>7. CASE p = "allstar_services"
  BY <1>1, <1>2, <1>3, <1>7 DEF LocalNetwork, Internet
<1>8. CASE p = "allstar"
  <2>. DEFINE upstream == {"asterisk"} \cup
                IF c["allstar"] = "ok" THEN {} ELSE Internet \cup {"allstar_services"}
  <2>1. RegistrationLayer(c) = Layer(c, "allstar", upstream)
    BY DEF RegistrationLayer
  <2>2. CASE c["allstar"] = "ok"
    BY <1>1, <1>2, <1>3, <1>8, <2>1, <2>2
  <2>3. CASE c["allstar"] # "ok"
    <3>1. Layer(c, "allstar", upstream) # "ok"
      BY <1>3, <2>3
    <3>. QED
      BY <1>2, <1>8, <2>1, <2>3, <3>1
  <2>. QED
    BY <2>2, <2>3
<1>. QED
  BY <1>4, <1>5, <1>6, <1>7, <1>8, ProbesAre

\* The domain is that of a test that failed, or no test did.
LEMMA DomainNames ==
    ASSUME NEW c \in [Probes -> Values]
    PROVE  \/ \E i \in 1..9 : c[Tests[i][1]] = "fail" /\ FailureDomain(c) = Tests[i][2]
           \/ /\ \A i \in 1..9 : c[Tests[i][1]] # "fail"
              /\ FailureDomain(c) =
                   IF \E p \in Needed : c[p] = "unknown" THEN "unavailable" ELSE "healthy"
<1>. DEFINE failed == {i \in DOMAIN Tests : c[Tests[i][1]] = "fail"}
            first == CHOOSE i \in failed : \A j \in failed : i <= j
<1>1. failed = {i \in 1..9 : c[Tests[i][1]] = "fail"}
  BY TestsAre
<1>2. CASE failed = {}
  BY <1>1, <1>2 DEF FailureDomain
<1>3. CASE failed # {}
  <2>1. \E i \in failed : \A j \in failed : i <= j
    BY <1>1, <1>3
  <2>2. first \in failed
    BY <2>1
  <2>3. FailureDomain(c) = Tests[first][2]
    BY <1>3 DEF FailureDomain
  <2>. QED
    BY <1>1, <2>2, <2>3
<1>. QED
  BY <1>2, <1>3

LEMMA EveryProbeIsTested == \A p \in Probes : \E i \in 1..9 : p = Tests[i][1]
BY TestsAre, ProbesAre

LEMMA ReportsIs ==
    ASSUME NEW i \in 1..9
    PROVE  Reports(Tests[i][2]) = Tests[i][1] /\ Tests[i][1] \in Probes
<1>1. Tests[i] = <<Tests[i][1], Tests[i][2]>> /\ Tests[i][1] \in Probes
  BY TestsAre, ProbesAre
<1>2. ASSUME NEW j \in 1..9, Tests[j][2] = Tests[i][2] PROVE j = i
  BY <1>2, TestsAre
<1>3. ASSUME NEW p \in Probes
      PROVE  (\E j \in DOMAIN Tests : Tests[j] = <<p, Tests[i][2]>>) <=> p = Tests[i][1]
  <2>1. ASSUME NEW j \in 1..9, Tests[j] = <<p, Tests[i][2]>> PROVE p = Tests[i][1]
    <3>1. Tests[j][2] = Tests[i][2] /\ Tests[j][1] = p
      BY <2>1
    <3>. QED
      BY <1>2, <3>1
  <2>. QED
    BY <1>1, <2>1, TestsAre
<1>4. Reports(Tests[i][2]) =
        CHOOSE p \in Probes : \E j \in DOMAIN Tests : Tests[j] = <<p, Tests[i][2]>>
  BY DEF Reports
<1>. QED
  BY <1>1, <1>3, <1>4

LEMMA CompleteChecks ==
    ASSUME ProbingInv, Complete PROVE values \in [Probes -> Values] /\ Returnable(values)
<1>1. probed = 9
  BY OrderIs DEF Complete
<1>2. \A i \in 1..9 : values[ProbeOrder[i]] \in Outcomes(values, ProbeOrder[i])
  BY <1>1 DEF ProbingInv
<1>3. \A p \in Probes : \E i \in 1..9 : p = ProbeOrder[i]
  BY OrderIs, ProbesAre
<1>. QED
  BY <1>2, <1>3 DEF ProbingInv, Returnable

\* failure_domain names a layer that is shown as failed and whose upstream layers, however
\* far, are all shown as working; whatever the network does between two probes.
THEOREM DomainsAreCauses == ChecksSpec => []DomainIsACause
<1>1. ProbingInv => DomainIsACause
  <2>. SUFFICES ASSUME ProbingInv, Complete, FailureDomain(values) \in FailureDomains,
                       NEW p, p = Reports(FailureDomain(values))
       PROVE  /\ FailureDomain(values) # "allstar_registration" => Layers(values)[p] = "fail"
              /\ \A q \in Upstream(p) : Layers(values)[q] = "ok"
    BY DEF DomainIsACause
  <2>1. values \in [Probes -> Values] /\ Returnable(values)
    BY CompleteChecks
  <2>2. PICK i \in 1..9 : values[Tests[i][1]] = "fail" /\ FailureDomain(values) = Tests[i][2]
    BY <2>1, DomainNames, DomainsAre
  <2>3. p = Tests[i][1] /\ p \in Probes /\ values[p] = "fail"
    BY <2>2, ReportsIs
  <2>4. FailureDomain(values) # "allstar_registration" => Layers(values)[p] = "fail"
    <3>1. \A j \in 1..9 : Tests[j][1] = "allstar" => Tests[j][2] = "allstar_registration"
      BY TestsAre
    <3>2. p = "allstar" => FailureDomain(values) = "allstar_registration"
      BY <2>2, <2>3, <3>1
    <3>. QED
      BY <2>1, <2>3, <3>2, LayersShow
  <2>. DEFINE working == {q \in Probes : values[q] = "ok"}
  <2>5. Requires[p] \subseteq working /\ \A q \in working : Requires[q] \subseteq working
    <3>1. \A q \in Probes : Requires[q] \subseteq Probes
      BY ProbesAre DEF Requires
    <3>. QED
      BY <2>1, <2>3, <3>1, AnsweredOverOk
  <2>6. Upstream(p) \subseteq working
    BY <2>5 DEF Upstream, Closed
  <2>7. ASSUME NEW q \in working PROVE Layers(values)[q] = "ok"
    BY <2>1, LayersShow
  <2>. QED
    BY <2>4, <2>6, <2>7
<1>. QED
  BY <1>1, ProbingStart, ProbingStep, PTL DEF ChecksSpec, checksVars

\* "healthy" is said if every layer is shown as working, and only then.
THEOREM HealthyIsComplete == ChecksSpec => []HealthyMeansAllLayers
<1>1. ProbingInv => HealthyMeansAllLayers
  <2>. SUFFICES ASSUME ProbingInv, Complete
       PROVE  FailureDomain(values) = "healthy"
                <=> \A p \in Probes : Layers(values)[p] \in
                      IF p = "remote_links" THEN {"ok", "unknown"} ELSE {"ok"}
    BY DEF HealthyMeansAllLayers
  <2>1. values \in [Probes -> Values] /\ Returnable(values)
    BY CompleteChecks
  <2>2. Needed = Probes \ {"remote_links"}
    BY ProbesAre DEF Needed, NeededNetwork
  <2>3. FailureDomain(values) = "healthy" <=>
          \A p \in Probes : values[p] # "fail" /\ (p # "remote_links" => values[p] # "unknown")
    <3>1. "healthy" # "unavailable" /\ \A i \in 1..9 : Tests[i][2] # "healthy" /\ Tests[i][1] \in Probes
      BY TestsAre, ProbesAre
    <3>2. CASE \E i \in 1..9 : values[Tests[i][1]] = "fail" /\ FailureDomain(values) = Tests[i][2]
      <4>1. PICK i \in 1..9 : values[Tests[i][1]] = "fail" /\ FailureDomain(values) = Tests[i][2]
        BY <3>2
      <4>2. FailureDomain(values) # "healthy" /\ Tests[i][1] \in Probes
        BY <3>1, <4>1
      <4>. QED
        BY <4>1, <4>2
    <3>3. CASE /\ \A i \in 1..9 : values[Tests[i][1]] # "fail"
               /\ FailureDomain(values) =
                    IF \E p \in Needed : values[p] = "unknown" THEN "unavailable" ELSE "healthy"
      <4>1. \A p \in Probes : values[p] # "fail"
        BY <3>3, EveryProbeIsTested
      <4>2. FailureDomain(values) = "healthy" <=> \A p \in Needed : values[p] # "unknown"
        BY <3>1, <3>3
      <4>. QED
        BY <2>2, <4>1, <4>2
    <3>. QED
      BY <2>1, <3>2, <3>3, DomainNames
  <2>4. \A p \in Probes : values[p] \in {"ok", "fail", "unknown"}
    BY <2>1 DEF Values
  <2>5. ASSUME \A p \in Probes : values[p] # "fail" /\ (p # "remote_links" => values[p] # "unknown"),
               NEW p \in Probes
        PROVE  Layers(values)[p] \in IF p = "remote_links" THEN {"ok", "unknown"} ELSE {"ok"}
    <3>1. values["asterisk"] = "ok" /\ values["iax"] = "ok"
      BY <2>4, <2>5, ProbesAre
    <3>. QED
      BY <2>1, <2>4, <2>5, <3>1, LayersShow
  <2>6. ASSUME \A p \in Probes : Layers(values)[p] \in
                  IF p = "remote_links" THEN {"ok", "unknown"} ELSE {"ok"},
               NEW p \in Probes
        PROVE  values[p] # "fail" /\ (p # "remote_links" => values[p] # "unknown")
    BY <2>1, <2>6, LayersShow
  <2>. QED
    BY <2>3, <2>5, <2>6
<1>. QED
  BY <1>1, ProbingStart, ProbingStep, PTL DEF ChecksSpec, checksVars
===============================================================================
