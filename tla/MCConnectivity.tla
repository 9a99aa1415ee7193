---------------------------- MODULE MCConnectivity ----------------------------
(* Connectivity with one or two sets of checks per failure domain, for TLC. *)
EXTENDS Connectivity

\* Everything ok but one probe; those that need it are not made.
OneWrong(probe, value) ==
    LET wrong == [p \in Probes |-> IF p = probe THEN value ELSE "ok"]
        skipped(checks) == [p \in Probes |->
            IF Outcomes(checks, p) = {"unknown"} THEN "unknown" ELSE checks[p]]
    IN skipped(skipped(skipped(wrong)))

EveryDomain == {AllOk, OneWrong("gateway", "unknown")}
               \cup {OneWrong(p, "fail") : p \in Probes}
               \cup {[OneWrong("internet", "fail") EXCEPT !.dns = "fail"]}
FewDomains == {AllOk, OneWrong("dns", "fail"), OneWrong("gateway", "fail")}
===============================================================================
