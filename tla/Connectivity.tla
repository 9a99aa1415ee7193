----------------------------- MODULE Connectivity -----------------------------
(* connectivity.update as it runs: the monitor's loop and, whenever an operator   *)
(* asks for a refresh, a process of its own (remote_admin.py).  Each probes, loads *)
(* the last record, logs a change and replaces the file; nothing excludes the     *)
(* other in between.                                                              *)
EXTENDS ConnectivityDiagnosis

CONSTANTS
    Updaters,    \* who runs update: the loop, the operator's refresh
    Loop,        \* the one that runs periodically
    Observable,  \* the sets of checks considered
    MaxFaults    \* bound of the model: crashes, timeouts, lost files, lost events

ASSUME ConnectivityAssumption ==
    /\ Loop \in Updaters
    /\ Observable # {}
    /\ \A checks \in Observable : checks \in [Probes -> Values] /\ Returnable(checks)
    /\ MaxFaults \in Nat

VARIABLES
    file,       \* connectivity.json
    updater,    \* each run of update: its step, its checks, its next record
    logged,     \* the diagnosis and the domain of the last CONNECTIVITY event
    refused,    \* history: those of an event that could not be appended, until the
                \* update that wanted to log it is over
    recent,     \* history: the domains published last, the latest first
    escalated,  \* history: the failure confirmed, its recovery not yet verified
    faults

vars == <<file, updater, logged, refused, recent, escalated, faults>>

Remembered == IF FailureThreshold > RecoveryThreshold
              THEN FailureThreshold ELSE RecoveryThreshold
Histories == UNION {[1..n -> Domains] : n \in 0..Remembered}

\* The last n published observations are all of these domains.
Lately(n, domains, history) ==
    Len(history) >= n /\ \A i \in 1..n : history[i] \in domains

Event(state) == [diagnosis |-> state.diagnosis, domain |-> state.domain]

AllOk == [p \in Probes |-> "ok"]
Waiting == [pc |-> "idle", checks |-> AllOk, next |-> NothingPublished]
Steps == {"idle", "load", "emit", "save"}

TypeOK ==
    /\ file \in PublishedRecord
    /\ {logged, refused} \subseteq [diagnosis : Diagnoses, domain : Domains \cup {"none"}]
    /\ \A u \in Updaters : /\ updater[u].pc \in Steps
                           /\ Returnable(updater[u].checks)
                           /\ updater[u].next \in PublishedRecord
    /\ recent \in Histories
    /\ escalated \in FailureDomains \cup {"none"}
    /\ faults \in 0..MaxFaults
    /\ file.failures = 0 <=> file.domain \in {"healthy", "none"}
    /\ file.successes = 0 <=> file.domain # "healthy"

Init ==
    /\ file = NothingPublished
    /\ logged = Event(NothingPublished) /\ refused = Event(NothingPublished)
    /\ updater = [u \in Updaters |-> Waiting]
    /\ recent = <<>> /\ escalated = "none"
    /\ faults = 0

Goes(u, record) == updater' = [updater EXCEPT ![u] = record]

\* This run of update is over.
Ends(u) == Goes(u, Waiting) /\ refused' = Event(NothingPublished)

-------------------------------------------------------------------------------
\* run_checks: seconds pass, and the network is what it is.
Probe(u) ==
    /\ updater[u].pc = "idle"
    /\ \E checks \in Observable : Goes(u, [Waiting EXCEPT !.pc = "load", !.checks = checks])
    /\ UNCHANGED <<file, logged, refused, recent, escalated, faults>>

\* load_state, and everything that update makes of it.
Load(u) ==
    /\ updater[u].pc = "load"
    /\ LET next == Updated(file, updater[u].checks) IN
       Goes(u, [Waiting EXCEPT !.next = next,
                               !.pc = IF Announces(file, next) THEN "emit" ELSE "save"])
    /\ UNCHANGED <<file, logged, refused, recent, escalated, faults>>

Emit(u) ==
    /\ updater[u].pc = "emit"
    /\ logged' = Event(updater[u].next)
    /\ Goes(u, [updater[u] EXCEPT !.pc = "save"])
    /\ UNCHANGED <<file, refused, recent, escalated, faults>>

Escalation(next, history) ==
    IF next.sustained THEN next.domain
    ELSE IF Lately(RecoveryThreshold, {"healthy"}, history) THEN "none"
    ELSE escalated

\* save_state: the file is replaced by one made from what was loaded.
Save(u) ==
    /\ updater[u].pc = "save"
    /\ LET next == updater[u].next
           all == <<next.domain>> \o recent
           history == SubSeq(all, 1, IF Len(all) < Remembered THEN Len(all) ELSE Remembered)
       IN /\ file' = next
          /\ recent' = history
          /\ escalated' = Escalation(next, history)
    /\ Ends(u)
    /\ UNCHANGED <<logged, faults>>

Fault == faults < MaxFaults /\ faults' = faults + 1

\* emit cannot append the event (no space, no permission, the log's lock): it says so
\* on the console, and update goes on as if it were logged.
EmitLost(u) ==
    /\ updater[u].pc = "emit" /\ Fault
    /\ refused' = Event(updater[u].next)
    /\ Goes(u, [updater[u] EXCEPT !.pc = "save"])
    /\ UNCHANGED <<file, logged, recent, escalated>>

\* A crash, the refresh killed after its 30 seconds, or a record that save_state
\* cannot write.
Fails(u) ==
    /\ updater[u].pc # "idle" /\ Fault
    /\ Ends(u)
    /\ UNCHANGED <<file, logged, recent, escalated>>

\* The file is removed or can no longer be read: for update, nothing was published.
Lost ==
    /\ file # NothingPublished /\ Fault
    /\ file' = NothingPublished
    /\ UNCHANGED <<updater, logged, refused, recent, escalated>>

Update(u) == Probe(u) \/ Load(u) \/ Emit(u) \/ Save(u)

Next == Lost \/ \E u \in Updaters : Update(u) \/ EmitLost(u) \/ Fails(u)

Spec == Init /\ [][Next]_vars

\* run_periodic repeats the loop's update whatever became of the one before.
FairSpec == Spec /\ WF_vars(Update(Loop))

-------------------------------------------------------------------------------
(* Properties. *)

\* A failure is escalated only when as many observations as FAILURE_THRESHOLD,
\* published one after the other, named its domain: no crash, retry or lost file
\* makes an older failure count.
EscalationIsConfirmed ==
    file.sustained => Lately(FailureThreshold, {file.domain}, recent)

\* The internet field is "offline" only from the confirmation of a failure of the
\* network itself until its recovery is verified (legacy_internet_state).
OfflineIsConfirmed == LegacyInternet(file) = "offline" => escalated \in NetworkDomains

\* CONFIGURATION.md:140 "DNS and AllStar-only failures leave general Internet status
\* online": whether just seen or confirmed.
ServiceFailureLeavesInternet ==
    file.domain \in {"dns", "allstar_services"} => LegacyInternet(file) = "online"

\* The diagnosis in the file gives way to another.
Transition ==
    /\ file.diagnosis # "none" /\ file'.diagnosis # "none"
    /\ ~SameDiagnosis(file, file')

\* Every transition that is published was announced first: its event is in the log, or
\* the log refused that very event in that very update; a crash, a killed or a failing
\* update in between repeats an event and silences none.  The first record after a lost
\* file has none before it on file: it is no transition, and update announces none.
TransitionsAreAnnounced ==
    [][Transition => SameDiagnosis(logged, file') \/ SameDiagnosis(refused, file')]_vars

\* What the network keeps doing is what ends up published, confirmed, although a
\* refresh may overwrite what the loop has written.
Only(domain) == \A u \in Updaters :
    updater[u].pc = "load" => FailureDomain(updater[u].checks) = domain

Settled(domain) ==
    /\ file.domain = domain
    /\ IF domain \in FailureDomains THEN file.sustained ELSE file.diagnosis = domain

EventuallyDiagnosed == \A domain \in {FailureDomain(c) : c \in Observable} :
    <>[]Only(domain) => <>[]Settled(domain)

(* What a reader of the documentation or of the log would expect, and the code does *)
(* not keep: see README.                                                            *)

\* No transition is silent.  One event that cannot be appended is enough: emit
\* swallows the error (event_logger.py:19-22), update publishes the record
\* (connectivity.py:415-416), and later updates see no change to announce.
NoSilentTransition == [][Transition => SameDiagnosis(logged, file')]_vars

\* CONFIGURATION.md:129 "two successful observations verify recovery": after a
\* confirmed failure the diagnosis is not healthy before them.
RecoveryIsVerified == file.diagnosis = "healthy" => escalated = "none"

\* CONFIGURATION.md:141 "interface, gateway, and external-path failures become
\* offline after confirmation": when every recent observation was such a failure.
OutageIsOffline ==
    Lately(FailureThreshold, NetworkDomains, recent) => LegacyInternet(file) = "offline"
===============================================================================
