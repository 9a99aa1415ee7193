-------------------------- MODULE ConnectivityChecks --------------------------
(* run_checks, probe by probe, and what failure_domain and diagnostic_layers say  *)
(* of every outcome.  The network may change between two probes.                  *)
EXTENDS ConnectivityDiagnosis

VARIABLES values, probed  \* the values so far; how many probes have been made

checksVars == <<values, probed>>
Complete == probed = Len(ProbeOrder)

ChecksInit == values = [p \in Probes |-> "unknown"] /\ probed = 0

\* The next probe gives one of its outcomes.
Take(outcomes(_)) ==
    /\ ~Complete
    /\ LET p == ProbeOrder[probed + 1] IN
           \E value \in outcomes(p) : values' = [values EXCEPT ![p] = value]
    /\ probed' = probed + 1

\* Mutant: IAX is probed although Asterisk did not answer.
ProbeIaxAlways == Take(LAMBDA p : IF p = "iax" THEN Answers[p] ELSE Outcomes(values, p))

NextProbe == Take(LAMBDA p : Outcomes(values, p))

\* The next run_checks begins.
Again == Complete /\ values' = [p \in Probes |-> "unknown"] /\ probed' = 0

ChecksNext == NextProbe \/ Again

ChecksSpec == ChecksInit /\ [][ChecksNext]_checksVars

-------------------------------------------------------------------------------
(* Properties of a complete set of checks. *)

\* run_checks returns nothing but the sets of checks that Connectivity works on.
ChecksTypeOK ==
    /\ probed \in 0..Len(ProbeOrder)
    /\ values \in [Probes -> Values]
    /\ Complete => Returnable(values)

Reports(domain) == CHOOSE p \in Probes : \E i \in DOMAIN Tests : Tests[i] = <<p, domain>>

\* Every probe that one depends on, directly or not.
Closed(S) == \A p \in S : Requires[p] \subseteq S
Upstream(p) == {q \in Probes : \A S \in SUBSET Probes : Requires[p] \subseteq S /\ Closed(S) => q \in S}

\* A failure domain names a cause: its layer has failed, and everything it depends
\* on has been found working.  (The registration, which depends on the network
\* although it is asked of Asterisk, is another matter: BlockedIsNotFailed.)
DomainIsACause ==
    LET domain == FailureDomain(values) IN
    Complete /\ domain \in FailureDomains =>
        /\ domain # "allstar_registration" => Layers(values)[Reports(domain)] = "fail"
        /\ \A p \in Upstream(Reports(domain)) : Layers(values)[p] = "ok"

\* The domain is healthy when every layer is shown ok, and only then; the links
\* may be unreadable.  So no layer is failed, unknown or blocked under "healthy".
HealthyMeansAllLayers ==
    Complete =>
        (FailureDomain(values) = "healthy"
            <=> \A p \in Probes : Layers(values)[p] \in
                    IF p = "remote_links" THEN {"ok", "unknown"} ELSE {"ok"})

\* CONFIGURATION.md:132 "A downstream layer is never called failed merely because
\* an earlier dependency prevented a meaningful probe": no failure domain is a layer
\* that is itself shown as blocked.
BlockedIsNotFailed ==
    Complete /\ FailureDomain(values) \in FailureDomains =>
        Layers(values)[Reports(FailureDomain(values))] # Blocked
===============================================================================
