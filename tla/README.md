# BlueNode in TLA+

A verification project for BlueNode (`src/`): TLA+ models of its core, checked
with TLC on small instances and, where a promise matters most, proved with TLAPS
for every value of the configuration.

## 1. The system

BlueNode watches one AllStar radio node. Two long-lived processes and some short
ones share a directory of JSON files, `/opt/nodesmart/state`; there is no message
queue and no database, so the files *are* the interface between the parts.

| Part | State it keeps | Operations | Interacts through |
|---|---|---|---|
| Monitor (`core/monitor.py`) | three loop threads, the recovery lock | health cycle (10 s), AllStar poll (2 s), connectivity (30 s); `RecoveryCoordinator.start_if_needed` | calls all collectors, starts the recovery thread |
| Recovery worker (`core/recovery.py`) | local variables, `recovery.json` | `recover_asterisk`, `verify_recovery` | reads `system.json`, `intelligence.json`; calls the policy; `systemctl start` |
| Recovery policy (`core/automation.py`) | `automation.json` under an inter-process lock | `observe_health`, `set_maintenance`, `recovery_allowed`, `begin_recovery`, `cancel_recovery`, `finish_recovery` | called by the health loop, the worker and the dashboard |
| Asterisk observation (`asterisk_observation.py`) | none | `collect`, `service_evidence`, `fresh`, `confirmed_stopped` | systemd, the Asterisk CLI |
| Health (`health.py`, `cpu_usage.py`) | `system.json` | `build_state`, `save_state`, `log_state_changes` | reads every other state file |
| Intelligence (`intelligence.py`, `incident.py`) | `intelligence.json` | `build_intelligence` | reads the state and the event log |
| Connectivity (`connectivity.py`) | `connectivity.json` | `run_checks`, `update`, `public_state` | run by the monitor and by the operator's refresh |
| Radio activity, AllStar links (`radio_activity.py`, `allstar_status.py`, `connection_state.py`, `connection_stats.py`) | `radio-activity.json`, `allstar.json`, history | `check_changes`, `update` | App_Rpt, the event log |
| Event log (`event_logger.py`, `runtime_io.py`) | bounded log files with backups | `emit`, `append_bounded`, `tail_lines` | everybody |
| Node behaviour (`node_behavior.py`) | `node-behavior.json` | `observe` | the event log |
| Node metadata (`node_metadata.py`) | disk cache and memory cache | `lookup`, `schedule_refresh` | the web |
| Node controls (`node_controls.py`) | a single-flight lock | connect, disconnect, switch | App_Rpt |
| Favorites, emergency mode (`favorites.py`, `emergency_mode.py`) | one file each | revision-checked `update`; `set_emergency` | dashboard |
| Remote admin, web server (`remote_admin.py`, `web_server.py`) | sessions, login attempts, audit log | login, logout, actions | browsers |
| Soft radio (`soft_radio.py`) | tickets, clients, queues, a server | `issue_ticket`, `consume_ticket`, `broadcast`, `start`, `stop` | browsers, Asterisk |
| Weather alerts, dashboard, installation, desktop | files of their own | | |

What is hard: the policy's record is changed by three actors, call by call, each
call locked but no sequence of calls; the worker acts on an observation that it
took before a sleep, and verifies with files that another thread writes late; the
monitor may end at any moment and systemd restarts it with the files as they
were; any file may be damaged or unwritable; `connectivity.json` has two writers
and no lock. What makes it correct: the radio is never restarted more often than
the operator allowed, never on stale or unclear evidence, never while recovery is
inhibited, and a success is not claimed without fresh evidence; a diagnosis names
a cause and is neither escalated nor cleared on less than the configured evidence.
The list of hazards, each at its line, is in `PROJECT.json`.

## 2. The modules

```
AutomationPolicy      the record of automation.json and what each function makes of it
  Automation          all its callers, one action per locked call
    AutomationAudit   + history variables: the promises stated over what happened
      AutomationProofs  the promises proved
  Recovery            health loop, coordinator, worker; implements Automation
    RecoveryProofs      its invariants and the refinement, proved
ConnectivityDiagnosis   failure_domain, diagnostic_layers, the record update makes
  ConnectivityChecks    run_checks probe by probe; the diagnosis of every outcome
  Connectivity          concurrent updates of connectivity.json
    ConnectivityProofs    over both: the diagnosis and the published record, proved
HealthEvaluation      what a cycle makes of its readings, and the events of a change
  IncidentRecords     the incidents of the event log, severity and advice
    Incidents         health loop, worker, log and files that may be lost
      IncidentsProofs   log, incidents, counts and advice, proved
RadioActivity         one sample of App_Rpt: who is heard, timers, transitions
  LinkSessions        the poll, the state files, the connection history
    LinkSessionsProofs  timers, events, records and counts, proved
RemoteAdmin           policy, sessions, login attempts
  SoftRadio           tickets, streams, queues, media
    AdminRadio        the web server's threads over both
      AdminRadioProofs  logins, tickets, frames and the limits of the tables, proved
NodeControls          connect, disconnect and switch against App_Rpt
  NodeControlsProofs    what it reports and commands, proved
NodeBehavior          the findings made of a log of controls and links
  ConnectHistory      the two processes that write that log
RuntimeLog            append_bounded, rename by rename, and tail_lines
  EmergencyMode       the mode and its events
    DashboardStores   with Favorites, the list several devices edit
      DashboardProofs   log, mode and favorites, proved
```

The modules named MC... only hold sets of inputs and symmetries for TLC.
ConnectivityProofs extends both modules about connectivity, so ConnectivityChecks has
names of its own for what a specification has (`ChecksInit`, `ChecksSpec`).

**AutomationPolicy** translates `automation.py` function by function as operators
on a record: `ObservedHealth`, `MaintenanceSet`, `Escalated`, `Reserved`,
`Withdrawn`, `Passed`, `Failed`, with `Saved` for the rule that `save_state` drops
a record `_normalized` rejects. The attempts are a set of stamps; that no two are
equal is not assumed but checked and proved (`StampsAreNew`).

**Automation** adds `clock`, the file's condition (`damaged`) and the stage of the
attempt in flight. Each action is one call under `state_lock`. The worker is
abstract: it asks, sleeps, asks again (`Reauthorize`), reserves, commands or
cancels, concludes, or is lost in a crash at any stage. **AutomationAudit** records what
happened beside the file. Of the last unhealthy observation or attempt it keeps two
times: `unwell`, whatever became of it, and `told`, if it found the file in order;
`observe_health` ignores one that finds the file damaged (`automation.py:238`).

**Recovery** is the monitor as it runs. `loop` is the health loop's position and
the observation it carries, `worker` the recovery thread's position and local
variables, `lock` the coordinator's lock, `system` the published observation.
`run_health_cycle` is `Collect`, `Publish`, `Ask`/`Launch` (`start_if_needed`) and
`Enrich` (Intelligence); `recover_asterisk` is `Load`, `Check`, `Probe`, `Confirm`,
`Recheck`, `Begin`, `Final`, `Command`, `Verify`, `Settle`, and `Exit` is the
`finally` clause of `_run`. `started_at` is not a number here: `since` says of each
thing verification compares with it whether it is newer. An observation is
offline, online or other: everything unknown, conflicting or degraded
is "other", on which nothing acts. It implements Automation under the mapping
`stage <- Stage` (a function of the worker's position), with
`heldSince`/`reservedAt` the worker's own times: the property
`ImplementsAutomation` is `Automation`'s `Spec`.

**ConnectivityDiagnosis** holds the pure part of `connectivity.py`. A probe's value
is ok, fail or unknown (True, False, None). The two counters are compared only
with the thresholds and are counted up to them. **ConnectivityChecks** runs the
nine probes in their order with their gates, the network changing in between.
**Connectivity** has any number of updaters, each probing, loading, logging and
saving in separate steps. `EmitLost` is an append that fails: `emit` reports it on the
console only and `update` saves the record. `recent` (the domains last published),
`escalated` (the failure confirmed and not yet verified as recovered) and `refused` (the
event the log did not take) are history.

**HealthEvaluation** is `evaluate_health`, `build_state` and `log_state_changes`: a
reading is the service, the CLI query, the node, the connectivity record and each
metric placed against its thresholds. **IncidentRecords** is the part of
`intelligence.py` that decides: outage and threshold incidents, resolutions inferred
from a healthy observation and remembered for the next build, the counts, severity
and recommendation, and the second engine of `incident.py`. An event is a record of
kind, component, value and second. **Incidents** runs them: `Collect`, `Emit` (one
event at a time, each of which may be lost), `Save`, `Build`, with the worker's
events beside it, crashes between any two steps, lost files (`LoseState`,
`LoseIntelligence`) and a log that loses its beginning (`Trim`). `open` and
`credited` are history.

**RadioActivity** translates one sample: the parsing to links as far as it decides,
`reconcile`, who is heard and where transmission comes from, and the timers that
`update` carries over. **LinkSessions** is `check_changes` in its order: radio events,
radio file, comparison of the links, events and history of the ended sessions, link
file; `CutOff` ends a poll between any two, the clock may go back.

**RemoteAdmin** and **SoftRadio** have one operator per region under a lock, and
**AdminRadio** one action per region and per call: a thread of the web server holds
no lock between reading the policy, checking a permission, consuming a ticket and
registering a stream. The table of login attempts is pruned from its old end; a login's
time was read before it took the lock, so it may be older than others already in the
table (`began`). A token is the number of its session, a frame its own number.
`Check` is the periodic authorization of `serve_browser`, `Elapse` its second.

**NodeControls** is `perform` under its lock: `Choose`, `Before`, `Send`, `Verify`,
`Deadline`, `Final`, with every observation possibly unavailable. App_Rpt is
external: commands accepted or timed out lie in `coming` and take effect at any later
time, in any order; connections are made or fail; other stations come and go. `seen`
is what the links have shown since the request began, `sent` its commands, each with the
state of its link in the observation it was sent upon (the code's `initial`).

**NodeBehavior** is the part of `analyze` about controls and links, **ConnectHistory**
the web server that logs a verified control and the poll that logs a link.

**RuntimeLog** takes each rename of the rotation, the write and the lock as steps of
a writer that may end between any two; the reader opens one file at a time.
**EmergencyMode** logs after its lock is released. `active` is what `load_state` makes of
the file: `FileChanges` is a file that becomes unreadable, invalid or a link and reads as
Normal Mode, or is put back. `clear` is history: the last transition was made while no
other was being logged, and neither an event nor the file was lost since. **Favorites** is a register with a revision.

Left out everywhere: wording, metrics, parsing, file formats.

## 3. The runs

| Run | Instance | Shows |
|---|---|---|
| `automation` | 2 attempts in a window of 5 ticks, retention 6, cooldown 2, reset 3, 8 ticks; 2.7 M states | the budget, the cooldown, the failure count, forgiveness and the inhibition by damage survive every interleaving of loop, worker, dashboard, crash and damage |
| `recovery` | 2 attempts in a window of 3 ticks, 3 ticks, 1 fault, fair; 0.5 M states | the monitor implements Automation; one worker, whose lock never leaks and which always ends; success only if Asterisk was seen well since the start |
| `connectivity_checks` | all outcomes of the nine probes | a failure domain is a cause whose upstream layers are ok; healthy means every layer |
| `connectivity` | the loop alone, twelve sets of checks, 2 faults; 2.1 M states | escalation and offline only after confirmation; DNS and service failures leave the Internet online; a transition on file was announced, or the log refused its event |
| `connectivity_liveness` | loop and refresh, three sets of checks, 1 fault, fair | what lasts is eventually published and confirmed |
| `incidents` | four readings, 4 cycles, 1 attempt, 1 fault; 0.3 M states | an open outage is listed once and none for a normal component; what is resolved stays so; the two engines and the counts agree; the advice never contradicts the incidents |
| `link_sessions` | two nodes, six samples, 5 seconds, gaps up to 2, 1 fault; 4.0 M states | timers span no gap, events come in pairs and sessions are recorded and counted once, but for one record per fault |
| `admin_radio` | two threads, 2 logins, 1 ticket, 2 frames, queue of 1, 1 second, 1 change of the files, fair; 0.8 M states | the login limit under concurrent verification, one stream per ticket, no frame unaccounted, and a stream ends with its session |
| `node_controls` | three nodes, two threads, 1 act of another station, a request begins with at most 1 earlier command on its way, fair; 0.5 M states | a reported success was true in App_Rpt, whatever command of an earlier request still takes effect; only what was asked and seen to be needed is commanded, once; the lock is released |
| `dashboard_stores` | two handlers and the monitor, log and 2 backups of a record each, 4 records; two devices, revisions to 2, handlers and devices alike; 3.4 M states | the log keeps a suffix without a gap, readers read in order, the log tells the Emergency Mode unless transitions overlapped or something was lost, no blind edit |
| `recovery_credit`, `verified_connection` | | expect a violation: section 5 |

**Bounds.** `MaxClock` is the last tick of the models with time; in
`Automation` eight ticks are more than a window and a retention, so stamps fall
out of the window and are pruned, and two windows overlap; in `Recovery` three
ticks hold an attempt with its sleep, its verification past the deadline or a
failed command, the delay owed for it, a second attempt and the escalation after
it (what longer histories do to the policy is the run `automation`'s part). A tick is any length: the constants keep only the order of the code's
(window > reset > probe; default 3600 s, 900 s, 5 s). `MaxFaults` counts the
exceptions, crashes, lost and damaged files together in `Recovery`,
`Connectivity`, `Incidents` and `LinkSessions`; one fault anywhere already covers every
position, a second adds a fault during the recovery from the first. In `Connectivity` an
event that cannot be appended is such a fault. `EmergencyMode` has no such bound: its file
may change at any time. `Horizon` starts no sleep that the last
tick would cut off, and `VerifyExpires` lets the last tick stand for all later
time: both only keep the bound from inventing a deadlock.
`FailureLimit` is the code's 1000, out of reach of these runs.
`Remembered`, the longer of the two thresholds, bounds `recent`.

In `Incidents` a cycle is a second of its own and a day two of them: four cycles hold
an outage, its end, a second outage and a log or file lost between them. In
`LinkSessions` five seconds hold two sessions of a node with a gap longer than
`Stale` between. In `AdminRadio` all limits are 1, so that each is reached;
`MaxIssued`, `MaxLogins`, `MaxFrames` and `MaxChanges` bound what is made, issued,
received and changed. In `NodeControls` a request begins
while fewer than `MaxComing` commands are on their way. `MaxComing` is 2: one command of an
earlier request that timed out may be on its way when a request begins and takes effect
at any moment of it, beside the request's own. `MaxRemote` is 1, which keeps the liveness
check short; with 2 (0.9 M states) the same properties hold. In `RuntimeLog` four records with room for one each fill the log
and both backups and rotate the oldest away, and every rename has a crash before and after it; a file of one
record makes every append rotate. Two backups are the code's default, which no caller
overrides; with more, crashes in successive rotations could lose more than
`LogKeepsTheLast` allows. `MaxLog` and `MaxClock` of `ConnectHistory` are the
smallest that let three connections be counted. Incidents and LinkSessions end at
their clock, so their runs do not look for deadlocks; every other passing run does.

**Fairness.** `FairSpec` of Recovery: weak fairness of the worker's thread, which
only waits in sleeps and in commands that all have timeouts, and of time. Nothing
is assumed of the loop, the operator or Asterisk. `FairSpec` of Connectivity: weak
fairness of the loop's own `update`, which `run_periodic` repeats whatever became
of the one before; nothing is assumed of the refresh. `FairSpec` of AdminRadio: weak
fairness of the loop of a stream (`serve_browser` waits 25 ms for the browser, then
goes on) and of the second between its checks; not of any browser, operator or
login. A send that blocks is taken to end: the socket has a timeout. `FairSpec` of
NodeControls: weak fairness of the thread that holds the lock (every command has a
timeout) and of its deadline; App_Rpt may never answer.

**Type invariants.** Those of `Automation` and `Recovery` are checked by their runs.
`TypeOK` of the other modules was checked by TLC on the same instances and is left
out of the cfgs, whose properties are those a mutant of the code can break.

## 4. The proofs

Everything here holds for every value of the constants (nodes, threads, limits,
thresholds, clocks, faults) that satisfies the modules' named assumptions. Each proof has
the same shape: an inductive invariant, one step for each action and, under it, one for
each part that the action can disturb. TLC checked each invariant on the run's instance
before it was proved.

### The recovery policy and the monitor that implements it

`AutomationProofs`, from `PolicyAssumption`, `DoublingAssumption` and `TimingAssumption`:

| Theorem | States |
|---|---|
| `TypeCorrect` | every record on file is one that `load_state` accepts |
| `StartsOnFile` | each start command in the window is on file |
| `Budget` | at most `MaxAttempts` start commands per window that were not forgiven |
| `Cooldown` | no attempt before the delay owed, while the failure counter is within its limit |
| `Failures` | every failed attempt in a row is in the counter, within the same limit |
| `NewStamps` | no stamp is used twice |
| `Inhibition` | a damaged file is not overwritten and nothing starts |
| `Earned` | forgiveness only after a healthy period that no attempt, and no unhealthy observation that found the file in order, has interrupted |

The argument is one inductive invariant, `IInv` of `AutomationAudit`. The difficulty is
that `begin_recovery` does not count the attempts: the count was taken by an earlier call,
and in between the dashboard, the loop and a cancelled attempt may have changed the list.
`WaitingInv` carries the count over the gap: from the first authorization on, every stamp
on file is no later than `heldSince`, and after the sleep it is strictly in the past, so
the window can only have become emptier. `ReservedInv` does the same for
`cancel_recovery`, which removes the *latest* stamp: between the reservation and the
command that is the attempt's own, no command carries it, and the probe is too short for a
healthy period to forgive. `CountInv` and `ResultInv` tie the file to the history
variables; they need that a reservation is cancelled or commanded before it can be pruned
(`ProbeBound < HealthyReset` and the retention). `Cooldown` and `Failures` have the
hypothesis `streak <= FailureLimit` because the promise is false beyond it (section 5).

The assumptions are those of a sensible configuration, as `docs/CONFIGURATION.md`
describes the settings. The code does not enforce them: `automation.py:28-33` takes any
integer. A window, a reset or a limit of zero or less and a negative delay are outside
them, and so is a reset (default 900 s) that is not longer than the one probe of 5 s
between reservation and command (`ProbeBound < HealthyReset`). Only `Retention >=
AttemptWindow` and the sleep of five seconds are the code's own (`automation.py:194`,
`recovery.py:144`). `DoublingAssumption` only says that small powers of two are natural
numbers.

`RecoveryProofs`:

| Theorem | States |
|---|---|
| `TypesHold` | the threads' variables and the record on file keep their types |
| `LockHeldByWorker` | the recovery lock is held exactly while there is a worker |
| `SuccessNeedsWitness` | success is declared only if the loop saw Asterisk well since the reservation |
| `Refinement` | the monitor implements Automation |

`RInv` says what the worker's position means for its variables (`WorkerInv`: its two
clock readings are in order, the command is issued before it verifies, one verdict), and
that whatever is newer than the reservation and shows Asterisk well was witnessed by the
loop (`EvidenceInv`: it follows the observation from the loop to the file to the verdict).
With it each step of Recovery maps to a step of Automation or to a stutter under the
mapping of section 2, so the theorems about Automation speak of the monitor: what its
loop, its worker and the dashboard do to `automation.json` keeps the budget and the
cooldown.

### Connectivity

`ConnectivityProofs`:

| Theorem | States |
|---|---|
| `TypesHold` | the record agrees with itself, whoever updates |
| `ServiceFailures` | a name or service failure leaves the Internet online |
| `Escalations` | a failure is confirmed only on as many observations in a row as the threshold asks |
| `OfflineNeedsOutage` | offline only while a failure of the network is confirmed or being recovered from |
| `TransitionsAreTold` | no diagnosis on file gives way to another without its event, unless the log refused that very event in that very update |
| `DomainsAreCauses` | the failure domain failed and everything upstream of it works |
| `HealthyIsComplete` | healthy exactly when every layer is |

`TInv` makes the record coherent (counters against the domain, a diagnosis against what
was observed) for any number of updaters; the first two theorems need no more. The next
three have the hypothesis `Updaters = {Loop}`, the monitor without the operator's refresh,
because they are false with it (section 5): `EInv` ties the record's counters to the
domains last published, and what the updater has prepared to what it loaded; the first
record after a lost file is no transition, and the code announces none. The last two
are about `ConnectivityChecks`: a probe is made only if the layers it needs were found
working, so the set of the probes found working is closed under "upstream" whatever the
network does between two probes (`ProbingInv`). Every layer that `failure_domain` passes
over is in that set.

### Incidents

`IncidentsProofs`, for any readings and any number of cycles, attempts and faults:

| Theorem | States |
|---|---|
| `LogIsOrdered` | the log is in order, none of it in the future, and says a thing once a second |
| `UnresolvedAreCurrent` | what the log has open is one unresolved incident, and none is of a component seen normal |
| `ResolutionsStay` | a resolved incident stays resolved, if the log never loses one of two OFFLINE events of one outage |
| `EnginesDoAgree` | what `incident.py` takes for over, `intelligence.py` has resolved |
| `RecentIncidentsAreCounted` | the count of the window has every incident begun in it |
| `AdviceHolds` | severity and recommendation never play an unresolved incident down |
| `TypeCorrect` | types (its `TypeOK` is in no cfg, section 3) |

The incidents are not defined by walking through the log but by its positions: one begins
at an opening that a closing separates from every earlier opening, and ends with the first
closing after it. The proofs therefore need no induction over the log, only its least and
greatest positions (`Least`, `Greatest`). `LogInv`: the log is in the order of its stamps,
what the loop still has to log is of this second. `OneUnresolved` is the core: the first
opening that nothing separates from an open one begins an incident without an end; two such
would be separated by a closing; and had inference ended it before, the restored end would
lie behind the opening that is still open. `OpenInv` says where in the log an open outage
has its place, `ListInv` what one build hands to the next. The engines agree because
`incident.py` knows fewer closings, and the window agrees because of an ordered log it is
the end. `AdviceHolds` goes by cases over the order in which `Assessed` overrides; of the
incidents it needs only whether there are any, of the state only that it is rated (`RatedInv`).

`ResolutionsStay` needs that the list can be made again from the log and from what was
inferred (`ResolvedInv`), although both change: `Founded` says that the incident of an
inferred end begins where it did and that nothing else of the log ends it earlier, `Closed`
that behind the opening of any other resolved one there is a closing. Events appended are
later than the list; a build puts back every end the build before it put back
(`RestoredAgain`), and gives no two incidents one start (`OnceInv`: nothing is logged twice
in a second). The oldest event may go if it is not the first of several OFFLINE events that
no closing separates (`OldestIsApart`); otherwise the property is false (section 5).

### Radio activity and links

`LinkSessionsProofs`:

| Theorem | States |
|---|---|
| `TimersAreHonest` | a timer spans only polls that heard the same, without a gap |
| `Pairs` | events come in pairs, but for one pair per fault |
| `RecordsAreGenuine` | a recorded session was seen by every poll from its begin to its end, but for one per fault and node |
| `SessionsAreWhole` | as many sessions as the polls saw begin, none over a later one, but for one per fault |

`TimerInv`: the radio record is the last observation or starts without timers. `TxInv` and
`LinksInv` count the events logged against what the file shows. Their difficulty is the
clock: a file with a time in the future reads as empty (`Loaded`), which looks like a lost
file, but the fault that explains it happened earlier, when the clock was set back.
`Slack` keeps that fault in reserve until the file has been replaced. `SessionsAreWhole`
needs more, since records of the history are counted only up to the present: the invariant
is stated for *every* time `t` that the clock might show (`CountInv`, `AgainInv`). Setting
the clock from `Turn` back to `t` takes at least `Behind(t)` faults, so the count is off
by no more than the faults so far and these (`Room(t)`). `HistoryInv` says of each open
session whether it will be genuine when it is recorded, including in a poll that has
already compared and has not saved yet (`Broken`).

### Remote admin and soft radio

`AdminRadioProofs`:

| Theorem | States |
|---|---|
| `LoginsAreLimited` | no more passwords verified per window and client than the limit, since its last success |
| `TicketsAreSingleUse` | one stream per ticket, and of its own session |
| `FramesAreKept` | what a stream got, is sending, has queued and dropped is what was broadcast, in order |
| `TablesAreBounded` | the tables of sessions, attempts, tickets and frames keep their limits and their types |

The times of concurrent logins reach the table out of order, and the table is pruned from
its old end. `AttemptInv` therefore says of every window that ends now or later that the
table still holds all the attempts in it; an attempt behind a younger one is only ever
pruned too late. `TicketInv` counts the threads that a ticket let in, those between
`consume_ticket` and the registration included, against the used tickets. `StreamInv` says of
each stream that what it holds (`Held`) is ordered and complete. For the tables `SessionInv`
has that a login on its way carries a time that was and a policy that was read, and
`BusyInv` that only a client without attempts adds an entry. `TablesAreBounded` is about
`TypeOK`, which is in no cfg (section 3).

### Node controls

`NodeControlsProofs`, for any number of nodes and threads and any commands on their way
(only `NodeControlsAssumption`: no thread or node is `None`):

| Theorem | States |
|---|---|
| `SuccessesAreReal` | a reported success was so in App_Rpt during the request |
| `CommandsAreFew` | each command is the request's own, sent at most once and upon an observation that shows it is needed, never for a pending link; a switch disconnects first and connects only after the old node was gone |

Its inductive invariant says that the part of a request's aim the links show now is
among what has been seen (`RequestInv`), so that one true observation suffices: the
evidence a phase read is the links themselves, and what other stations change later
takes nothing from `seen`. `SentInv` says what may have been sent before the phase at
hand (`Earlier`) and by its end (`InAll`), and that a phase about to send has an
observation that warrants its command; that it sends at most once follows from the order
of its steps, which never returns to `send`.

### The dashboard's stores

`DashboardProofs`:

| Theorem | States |
|---|---|
| `EditsAreSeen` | an accepted edit was made from the list on file |
| `ReadsInOrder` | a reader gets each record at most once and in order |
| `LogIsKept` | the files hold the last records without a gap, at least as many as the backups hold |
| `TheLogTellsTheMode` | after a transition of Emergency Mode made alone, and until an event or the file is lost, the last transition in the log is the mode |

A device's revision is never above the file's, and equals it only if the device holds the
file's list (`ViewInv`), because every edit makes a new revision and a read copies both at
once. `FilesInv` says that each file holds a stretch of the records that ends where the next
younger file begins, and a backup is a full log or none; `WritersInv` ties a rotation's
position to the gap it has made; `ReaderInv` that what was read is older than anything in
the files still to be read, which renames only make truer. `ModeInv` says
where the last transition is while `clear` holds: the last one in the log, or the only one
that a handler is still logging.

### What only TLC checks

- All liveness, and with it fairness and ENABLED, which the prover cannot do:
  `LockIsReleased` of Recovery and of NodeControls, `EventuallyDiagnosed`, `ListeningEnds`.
- `ResolvedStaysResolved` without the condition of `ResolutionsStay`: with the one fault of
  the run it holds, in general it does not (section 5).
- ConnectHistory, whose promise the code does not keep (section 5).

## 5. Where documentation and code part

Two runs expect TLC's counterexample; the quoted lines are in `PROJECT.json`.

- `recovery_credit`: the worker logs its success after the health loop has logged the
  component normal, which ends the incident (`intelligence.py:794`). A successful
  recovery is therefore never an incident's outcome.
- `verified_connection`: a connect control is logged after its link was verified, so
  the link may be in the log before it; Node Behavior, which looks only after the
  control, counts the connection as failed.

Further counterexamples have their own cfgs, to be run by hand with
`tlc -config X.cfg M`; each violates the property named (with `-continue`, all of them
where a cfg has several).

| Configuration, module | Property | What the code does |
|---|---|---|
| `AutomationMaintenance`, AutomationAudit | `NoStartInMaintenance` | Maintenance Mode switched on after the reservation does not stop the start command (`recovery.py:157`; CONFIGURATION.md:67) |
| `AutomationCrash`, AutomationAudit | `DelayAfterEveryStart` | the minimum delay is written by the result only; a monitor that ends before may start Asterisk again at once (`automation.py:336`; CONFIGURATION.md:17) |
| `AutomationDamage`, AutomationAudit | `ForgivenessIsUninterrupted` | an unhealthy observation made while the file is damaged is ignored; when a copy is put back, its `healthy_since` counts across it and forgives (`automation.py:238`, `:250`; CONFIGURATION.md:19) |
| `RecoveryRefuted`, Recovery | `IntelligenceIsPostRestart` | verification takes a new file for new Intelligence (`recovery.py:102`; CONFIGURATION.md:12) |
| `RecoveryRefuted`, Recovery | `CancelledIsNotFailed` | an unwritable cancellation becomes a failure that never happened (`recovery.py:176`; `automation.py:357`) |
| `ConnectivityBlocked`, ConnectivityChecks | `BlockedIsNotFailed` | a registration can be the failure domain and a blocked layer (`connectivity.py:186`; CONFIGURATION.md:132) |
| `ConnectivityRefuted`, MCConnectivity | `RecoveryIsVerified` | one other observation in between, and a single success ends a confirmed failure (`connectivity.py:370`; CONFIGURATION.md:129) |
| `ConnectivityRefuted`, MCConnectivity | `OutageIsOffline` | an outage that moves between network layers is never offline (`connectivity.py:365`; CONFIGURATION.md:141) |
| `ConnectivityRefuted`, MCConnectivity | `NoSilentTransition` | one event that cannot be appended, and the transition is published without it and never announced (`event_logger.py:19`, `connectivity.py:415`) |
| `EmergencyOrder`, MCDashboardStores | `LastEventIsTheMode` | of two handlers the first one's event may come last, so the log's last transition is not the mode although nothing was lost (`emergency_mode.py:147`) |
| `IncidentsHidden`, MCIncidents | `AbnormalIsListed` | after an end was inferred, a later warning of the same component is merged into the resolved incident and not shown (`intelligence.py:1655`, `:1159`) |
| `IncidentsReopened`, MCIncidents | `ResolvedStaysResolved` | an outage logged twice (a monitor that ended before it saved) whose first OFFLINE event has left the log: the second takes the inferred end of the next outage, which is then listed as unresolved again (`intelligence.py:1195`, `:1898`) |

Met while modelling, without a configuration, since no document settles what should
happen or the deviation shows in one step:

- The health loop asks the policy before it tries the lock (`monitor.py:34`) and may
  escalate on account of the attempt in flight: its failure then overwrites the longer
  pause, its cancellation leaves it.
- The failure beyond the thousandth is dropped with its cooldown (`automation.py:117`,
  `:170`): `CooldownHonoured` is violated with `FailureLimit = 1`.
- With `Updaters = {loop, refresh}` the run `connectivity` violates
  `EscalationIsConfirmed`: the two overwrite each other's counters.
- While a connectivity failure awaits confirmation, its recommendation overrides that
  of an unresolved incident (`intelligence.py:1965`): the exception in `AdviceIsSound`.
- A switch whose second phase fails before its command says "no command sent" although
  the disconnection was sent (`node_controls.py:80`).
- A successful login forgets the attempts still being verified
  (`remote_admin.py:298`): `AttemptsLimited` counts from the last success.
- The media flag is cleared by any connection that ends (`soft_radio.py:428`).
- A lost favorites.json starts again at revision 0, a number a device may still hold
  (`favorites.py:31`): `NoBlindEdit` is checked without it.
- An Emergency Mode whose file is damaged is Normal Mode (`emergency_mode.py:87`, as
  EMERGENCY_MODE.md:12 says) without an event: a second activation is logged as one, and a
  deactivation changes and logs nothing.
- Node Behavior saves before it logs (`node_behavior.py:295`), and with a clock set back
  an old assessment stays current (`:308`).

## 6. Plan

Done: the policy, the monitor that implements it, connectivity; health and incidents;
radio activity and link sessions; remote admin with the soft radio; node controls and the
log Node Behavior reads; the event log, Emergency Mode and favorites; the proofs of
section 4.

1. Proofs: the listing of connections in ConnectHistory.
2. Abstract specifications: a bounded suffix of one log for RuntimeLog, a sequence of
   disjoint sessions for LinkSessions.
3. The node metadata cache; start and stop of the soft radio's listener; the findings of
   Node Behavior about RF.

Not modelled, and why: the dashboard's JavaScript (it shows what is published),
installation and deployment scripts, the desktop wizard, weather alerts and the
SkyWarn exporter (validation of one file), `soft_radio_safety.py` (a comparison of
two snapshots), the service actions and the log viewer of `remote_admin.py` (fixed
commands), the texts of `intelligence.py`, parsing of command output, the tail kept of
a log an older version left oversized, a record half written when its process ends.
