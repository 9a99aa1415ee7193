----------------------------- MODULE LinkSessions -----------------------------
(* check_changes, the AllStar poll of the monitor: it publishes the radio activity, *)
(* compares the links with those on file, logs what changed, appends the ended      *)
(* sessions to the connection history and saves the links.  A poll may be cut off   *)
(* between any two of these, files may be lost, and the clock may be set back.      *)
EXTENDS RadioActivity

CONSTANTS
    Heard,      \* the answers of App_Rpt that occur
    MaxClock,   \* bound of the model: the last time a poll begins
    MaxGap,     \* bound of the model: the longest time between two polls
    MaxFaults   \* bound of the model

ASSUME LinkSessionsAssumption ==
    Heard \subseteq Answers /\ MaxClock \in Nat /\ MaxGap \in Nat \ {0} /\ MaxFaults \in Nat

VARIABLES
    clock,
    poll,      \* where the poll is, its sample, connected_since, the sessions to end
    radio,     \* radio_activity.json
    since,     \* allstar_state.json: the links and since when each is connected
    history,   \* connections.jsonl
    txOpen,    \* history: the STARTs logged of an identity less its ENDs
    linkOpen,  \* history: the NODE.CONNECTED events of a node less its NODE.DISCONNECTED
    heard,     \* history: the radio observations saved, in order
    linked,    \* history: the links of every sample compared, in order
    faults

files == <<radio, since, history>>
past == <<txOpen, linkOpen, heard, linked>>
vars == <<clock, poll, files, past, faults>>

Idle == [pc |-> "idle", sample |-> NoSample, since |-> << >>, ended |-> {}]
Since == UNION {[S -> 1..MaxClock] : S \in SUBSET Nodes}
Sessions == [node : Nodes, start : 1..MaxClock, end : 1..MaxClock]
Identities == {Identity(Reconciled(a)) : a \in Heard} \cup {Identity(NoSample)}

TypeOK ==
    /\ clock \in 0..MaxClock /\ faults \in 0..MaxFaults
    /\ poll.pc \in {"idle", "radio", "publish", "links", "close"}
    /\ poll.since \in Since /\ poll.ended \subseteq Nodes
    /\ since \in Since
    /\ history \in Seq(Sessions)
    /\ radio.at \in 0..MaxClock /\ radio.started \in 0..MaxClock /\ radio.originStarted \in 0..MaxClock
    /\ radio = NoRecord \/ radio.id \in Identities
    /\ txOpen \in [Identities -> Int] /\ linkOpen \in [Nodes -> Int]

Init ==
    /\ clock = 0 /\ poll = Idle /\ radio = NoRecord /\ since = << >> /\ history = << >>
    /\ txOpen = [id \in Identities |-> 0] /\ linkOpen = [n \in Nodes |-> 0]
    /\ heard = << >> /\ linked = << >> /\ faults = 0

Fault == faults < MaxFaults /\ faults' = faults + 1

-------------------------------------------------------------------------------
\* get_telemetry: an answer, or none.
Poll ==
    /\ poll.pc = "idle"
    /\ \E gap \in 1..MaxGap : clock + gap <= MaxClock /\ clock' = clock + gap
    /\ \E s \in {Reconciled(a) : a \in Heard} \cup {NoSample} :
         poll' = [Idle EXCEPT !.pc = "radio", !.sample = s]
    /\ UNCHANGED <<files, past, faults>>

\* radio_activity.update, its events.
RadioEvents ==
    /\ poll.pc = "radio"
    /\ poll' = [poll EXCEPT !.pc = "publish"]
    /\ LET id == Identity(poll.sample)
       IN  txOpen' = IF ~Transition(radio, poll.sample, clock) THEN txOpen
                     ELSE [i \in Identities |-> txOpen[i]
                             + (IF i = id /\ Announced(i) THEN 1 ELSE 0)
                             - (IF i = radio.id /\ Announced(i) THEN 1 ELSE 0)]
    /\ UNCHANGED <<clock, files, linkOpen, heard, linked, faults>>

\* radio_activity.save_state; a poll without telemetry ends here.
Publish ==
    /\ poll.pc = "publish"
    /\ radio' = Updated(radio, poll.sample, clock)
    /\ heard' = Append(heard, Observation(poll.sample, clock))
    /\ poll' = IF Sampled(poll.sample) THEN [poll EXCEPT !.pc = "links"] ELSE Idle
    /\ UNCHANGED <<clock, since, history, txOpen, linkOpen, linked, faults>>

\* connection_state.load: one time in the future makes all of it unavailable.
Loaded == IF \A n \in DOMAIN since : since[n] <= clock THEN since ELSE << >>

\* The comparison, and NODE.CONNECTED for every new link.
Compare ==
    /\ poll.pc = "links"
    /\ LET current == Connected(poll.sample)
           new == current \ DOMAIN Loaded
       IN  /\ poll' = [poll EXCEPT !.pc = "close", !.ended = DOMAIN Loaded \ current,
                                   !.since = [n \in new \cup DOMAIN Loaded |->
                                                 IF n \in new THEN clock ELSE Loaded[n]]]
           /\ linkOpen' = [n \in Nodes |-> linkOpen[n] + (IF n \in new THEN 1 ELSE 0)]
           /\ linked' = Append(linked, [at |-> clock, links |-> current])
    /\ UNCHANGED <<clock, files, txOpen, heard, faults>>

\* Mutant: the record is appended, the session stays among the open ones.
CloseKeeping(n) ==
    /\ poll.pc = "close" /\ n \in poll.ended
    /\ history' = Append(history, [node |-> n, start |-> poll.since[n], end |-> clock])
    /\ linkOpen' = [linkOpen EXCEPT ![n] = @ - 1]
    /\ poll' = [poll EXCEPT !.ended = @ \ {n}]
    /\ UNCHANGED <<clock, radio, since, txOpen, heard, linked, faults>>

\* NODE.DISCONNECTED and save_connection_history, for one ended link.
Close(n) ==
    /\ poll.pc = "close" /\ n \in poll.ended
    /\ history' = Append(history, [node |-> n, start |-> poll.since[n], end |-> clock])
    /\ linkOpen' = [linkOpen EXCEPT ![n] = @ - 1]
    /\ poll' = [poll EXCEPT !.ended = @ \ {n}, !.since = Restrict(@, DOMAIN @ \ {n})]
    /\ UNCHANGED <<clock, radio, since, txOpen, heard, linked, faults>>

\* Mutant: the file is updated, not replaced.
SaveLinksMerged ==
    /\ poll.pc = "close" /\ poll.ended = {}
    /\ since' = poll.since @@ since
    /\ poll' = Idle
    /\ UNCHANGED <<clock, radio, history, past, faults>>

\* save_state
SaveLinks ==
    /\ poll.pc = "close" /\ poll.ended = {}
    /\ since' = poll.since
    /\ poll' = Idle
    /\ UNCHANGED <<clock, radio, history, past, faults>>

-------------------------------------------------------------------------------
\* summarize_connections, run by the health loop, of one node; the records that end in
\* the future are skipped.  The division into days is left out.
Completed(n) == {i \in DOMAIN history : history[i].node = n /\ history[i].start <= history[i].end /\ history[i].end <= clock}
Connections(n) == Cardinality(Completed(n)) + (IF n \in DOMAIN Loaded THEN 1 ELSE 0)

-------------------------------------------------------------------------------
(* Faults *)

\* The monitor ends, or an exception (a write that fails, a query that times out)
\* ends the poll: what it held is gone.
CutOff ==
    /\ poll.pc # "idle" /\ Fault
    /\ poll' = Idle
    /\ UNCHANGED <<clock, files, past>>

\* A file is damaged: load_state answers with an empty record.
LoseFile ==
    /\ Fault
    /\ \/ radio # NoRecord /\ radio' = NoRecord /\ UNCHANGED since
       \/ since # << >> /\ since' = << >> /\ UNCHANGED radio
    /\ UNCHANGED <<clock, poll, history, past>>

SetClockBack ==
    /\ poll.pc = "idle" /\ clock > 0 /\ Fault
    /\ clock' = clock - 1
    /\ UNCHANGED <<poll, files, past>>

Next ==
    \/ Poll \/ RadioEvents \/ Publish \/ Compare \/ (\E n \in Nodes : Close(n)) \/ SaveLinks
    \/ CutOff \/ LoseFile \/ SetClockBack

Spec == Init /\ [][Next]_vars

-------------------------------------------------------------------------------
(* Properties *)

\* A timer that runs since the observation number i has seen the same ever since,
\* and no gap longer than Stale.
Unbroken(field, started) ==
    \E i \in DOMAIN heard :
        /\ heard[i].at = started
        /\ \A j \in i..Len(heard) :
             /\ heard[j][field] = radio[field]
             /\ j > i => heard[j].at - heard[j - 1].at \in 0..Stale

\* radio_activity.py:214 "A collector gap must not turn two separate observations into
\* one long transmission": neither timer spans another observation or a gap.
TimerSpansNoGap ==
    /\ radio.started # 0 => Unbroken("id", radio.started)
    /\ radio.originStarted # 0 => Unbroken("origin", radio.originStarted)

\* START and END, NODE.CONNECTED and NODE.DISCONNECTED come in pairs: between two polls
\* what is open in the log is what the files say, but for one pair per fault.
Balanced(open, expected) == open - expected \in (-faults)..faults
EventsArePaired ==
    poll.pc = "idle" =>
        /\ \A id \in Identities :
             Balanced(txOpen[id], IF id = radio.id /\ Announced(id) THEN 1 ELSE 0)
        /\ \A n \in Nodes : Balanced(linkOpen[n], IF n \in DOMAIN since THEN 1 ELSE 0)

\* A session of the history is one in which every poll saw the link, and the poll of
\* its end did not; a fault may spoil one record of each node.
Genuine(r) ==
    \E i, k \in DOMAIN linked :
        /\ i < k /\ linked[i].at = r.start /\ linked[k].at = r.end
        /\ \A j \in i..(k - 1) : r.node \in linked[j].links
        /\ r.node \notin linked[k].links
HistoryIsGenuine ==
    \A n \in Nodes :
        Cardinality({i \in DOMAIN history : history[i].node = n /\ ~Genuine(history[i])}) <= faults

\* connection_stats.py counts the open sessions with the recorded ones: between two
\* polls no time of a node is counted twice and its sessions are as many as the polls
\* saw begin, but for one record per fault.
Repeated(n) ==
    {i \in Completed(n) :
        \/ n \in DOMAIN since /\ since[n] < history[i].end
        \/ \E j \in Completed(n) : j > i /\ history[j].start < history[i].end}
Begun(n) ==
    {i \in DOMAIN linked : n \in linked[i].links /\ (i > 1 => n \notin linked[i - 1].links)}
SessionsAreCounted ==
    poll.pc = "idle" => \A n \in Nodes :
        /\ Cardinality(Repeated(n)) <= faults
        /\ Balanced(Connections(n), Cardinality(Begun(n)))
===============================================================================
