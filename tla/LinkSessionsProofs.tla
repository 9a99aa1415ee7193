-------------------------- MODULE LinkSessionsProofs --------------------------
(* The radio timers, the events of the links and the connection history agree with    *)
(* what the polls heard: proved for every set of nodes and answers, every clock and    *)
(* every number of faults.                                                            *)
EXTENDS LinkSessions, FiniteSetTheorems, TLAPS

Samples == {Reconciled(x) : x \in Heard} \cup {NoSample}
Observations == {Observation(s, t) : s \in Samples, t \in Nat}

-------------------------------------------------------------------------------
(* The timers. *)

\* The record on file, if there is one, is the last observation; without one no timer runs.
TimerInv ==
    /\ clock \in Nat /\ poll.sample \in Samples /\ heard \in Seq(Observations)
    /\ radio.at \in Nat
    /\ radio.at # 0 => /\ Len(heard) # 0 /\ heard[Len(heard)].at = radio.at
                       /\ heard[Len(heard)].id = radio.id
                       /\ heard[Len(heard)].origin = radio.origin
    /\ radio.at = 0 => radio.started = 0 /\ radio.originStarted = 0
    /\ TimerSpansNoGap

LEMMA ObservationParts ==
    ASSUME NEW s \in Samples, NEW t \in Nat
    PROVE  /\ Observation(s, t) \in Observations /\ Observation(s, t).at = t
           /\ Observation(s, t).id = Identity(s) /\ Observation(s, t).origin = Origin(s)
BY DEF Observation, Observations

LEMMA UpdatedParts ==
    ASSUME NEW previous, NEW s, NEW now
    PROVE  LET r == Updated(previous, s, now)
               seen == Observation(s, now)
               continues == Continuous(previous, now)
           IN  /\ r.at = now /\ r.id = Identity(s) /\ r.origin = Origin(s)
               /\ \/ r.started = 0
                  \/ r.started = now
                  \/ r.started = previous.started /\ continues /\ r.id = previous.id
               /\ \/ r.originStarted = 0
                  \/ r.originStarted = now
                  \/ r.originStarted = previous.originStarted /\ continues /\ r.origin = previous.origin
BY DEF Updated, Observation

\* A timer that continues, and one that is started, span no other observation and no gap.
LEMMA TimerGoesOn ==
    ASSUME NEW field \in {"id", "origin"}, NEW o, NEW started,
           TimerInv, heard' = Append(heard, o), o.at \in Nat,
           radio.at # 0, o.at - radio.at \in 0..Stale, Unbroken(field, started),
           o[field] = radio[field], radio'[field] = radio[field], o \in Observations
    PROVE  Unbroken(field, started)'
<1>1. PICK i \in 1..Len(heard) :
        /\ heard[i].at = started
        /\ \A j \in i..Len(heard) :
             /\ heard[j][field] = radio[field]
             /\ j > i => heard[j].at - heard[j - 1].at \in 0..Stale
  BY DEF Unbroken, TimerInv
<1>2. PICK n \in Nat : n = Len(heard) /\ n # 0 /\ heard[n].at = radio.at
  BY DEF TimerInv
<1>3. /\ heard' \in Seq(Observations) /\ Len(heard') = n + 1 /\ heard'[n + 1] = o
      /\ \A j \in 1..n : heard'[j] = heard[j]
  BY <1>2 DEF TimerInv
<1>4. ASSUME NEW j \in i..(n + 1)
      PROVE  /\ heard'[j][field] = radio'[field]
             /\ j > i => heard'[j].at - heard'[j - 1].at \in 0..Stale
  <2>1. CASE j = n + 1
    <3>1. j - 1 = n /\ n \in 1..n /\ heard'[n] = heard[n] /\ heard'[j] = o
      BY <1>2, <1>3, <2>1
    <3>. QED
      BY <1>2, <3>1
  <2>2. CASE j # n + 1
    <3>1. j \in i..n /\ j \in 1..n /\ (j > i => j - 1 \in 1..n)
      BY <1>1, <1>2, <2>2
    <3>2. /\ heard[j][field] = radio[field]
          /\ j > i => heard[j].at - heard[j - 1].at \in 0..Stale
      BY <1>1, <1>2, <3>1
    <3>. QED
      BY <1>3, <3>1, <3>2
  <2>. QED
    BY <2>1, <2>2
<1>5. i \in DOMAIN heard' /\ heard'[i].at = started
  BY <1>1, <1>2, <1>3
<1>. QED
  BY <1>3, <1>4, <1>5 DEF Unbroken

LEMMA TimerStarts ==
    ASSUME NEW field \in {"id", "origin"}, NEW o \in Observations,
           heard \in Seq(Observations), heard' = Append(heard, o), o[field] = radio'[field]
    PROVE  Unbroken(field, o.at)'
<1>1. PICK n \in Nat : n = Len(heard)
  OBVIOUS
<1>2. heard' \in Seq(Observations) /\ Len(heard') = n + 1 /\ heard'[n + 1] = o
  BY <1>1
<1>3. \A j \in (n + 1)..(n + 1) : j = n + 1
  OBVIOUS
<1>. QED
  BY <1>1, <1>2, <1>3 DEF Unbroken

LEMMA PublishTimers == ASSUME TimerInv, Publish PROVE TimerInv'
<1>. DEFINE o == Observation(poll.sample, clock)
            r == Updated(radio, poll.sample, clock)
<1>1. /\ radio' = r /\ heard' = Append(heard, o) /\ clock' = clock
      /\ poll'.sample = poll.sample \/ poll' = Idle
  BY DEF Publish
<1>2. o \in Observations /\ o.at = clock /\ o.id = Identity(poll.sample) /\ o.origin = Origin(poll.sample)
  BY ObservationParts DEF TimerInv
<1>3. /\ r.at = clock /\ r.id = o.id /\ r.origin = o.origin
      /\ \/ r.started = 0
         \/ r.started = clock
         \/ r.started = radio.started /\ Continuous(radio, clock) /\ r.id = radio.id
      /\ \/ r.originStarted = 0
         \/ r.originStarted = clock
         \/ r.originStarted = radio.originStarted /\ Continuous(radio, clock)
            /\ r.origin = radio.origin
  BY <1>2, UpdatedParts
<1>. HIDE DEF o, r
<1>4. clock \in Nat /\ heard \in Seq(Observations) /\ heard' \in Seq(Observations)
  BY <1>1, <1>2 DEF TimerInv
<1>5. Len(heard') # 0 /\ heard'[Len(heard')] = o
  BY <1>1, <1>2, <1>4
<1>6. (radio.started # 0 => Unbroken("id", radio.started))'
  <2>. SUFFICES ASSUME NEW t, t = radio'.started, t # 0 PROVE Unbroken("id", t)'
    BY DEF Unbroken
  <2>1. CASE t = clock
    <3>1. o["id"] = radio'["id"] /\ o.at = t
      BY <1>1, <1>2, <1>3, <2>1
    <3>. QED
      BY <1>1, <1>2, <1>4, <3>1, TimerStarts
  <2>2. CASE t = radio.started /\ Continuous(radio, clock) /\ r.id = radio.id
    <3>1. radio.at # 0 /\ o.at - radio.at \in 0..Stale /\ o.at \in Nat
      BY <1>2, <1>4, <2>2 DEF Continuous
    <3>2. Unbroken("id", t)
      BY <2>2 DEF TimerInv, TimerSpansNoGap, Unbroken
    <3>3. o["id"] = radio["id"] /\ radio'["id"] = radio["id"]
      BY <1>1, <1>3, <2>2
    <3>. QED
      BY <1>1, <1>2, <3>1, <3>2, <3>3, TimerGoesOn
  <2>. QED
    BY <1>1, <1>3, <2>1, <2>2
<1>7. (radio.originStarted # 0 => Unbroken("origin", radio.originStarted))'
  <2>. SUFFICES ASSUME NEW t, t = radio'.originStarted, t # 0 PROVE Unbroken("origin", t)'
    BY DEF Unbroken
  <2>1. CASE t = clock
    <3>1. o["origin"] = radio'["origin"] /\ o.at = t
      BY <1>1, <1>2, <1>3, <2>1
    <3>. QED
      BY <1>1, <1>2, <1>4, <3>1, TimerStarts
  <2>2. CASE t = radio.originStarted /\ Continuous(radio, clock) /\ r.origin = radio.origin
    <3>1. radio.at # 0 /\ o.at - radio.at \in 0..Stale /\ o.at \in Nat
      BY <1>2, <1>4, <2>2 DEF Continuous
    <3>2. Unbroken("origin", t)
      BY <2>2 DEF TimerInv, TimerSpansNoGap, Unbroken
    <3>3. o["origin"] = radio["origin"] /\ radio'["origin"] = radio["origin"]
      BY <1>1, <1>3, <2>2
    <3>. QED
      BY <1>1, <1>2, <3>1, <3>2, <3>3, TimerGoesOn
  <2>. QED
    BY <1>1, <1>3, <2>1, <2>2
<1>8. /\ radio'.at \in Nat /\ poll'.sample \in Samples
      /\ radio'.at # 0 => /\ heard'[Len(heard')].at = radio'.at
                          /\ heard'[Len(heard')].id = radio'.id
                          /\ heard'[Len(heard')].origin = radio'.origin
      /\ radio'.at = 0 => radio'.started = 0 /\ radio'.originStarted = 0
  <2>1. poll'.sample \in Samples
    BY <1>1 DEF TimerInv, Idle, Samples
  <2>2. radio'.at = clock /\ radio'.id = o.id /\ radio'.origin = o.origin /\ o.at = clock
    BY <1>1, <1>2, <1>3
  <2>3. ASSUME radio'.at = 0 PROVE radio'.started = 0 /\ radio'.originStarted = 0
    <3>1. clock = 0 /\ radio.at \in Nat
      BY <2>2, <2>3 DEF TimerInv
    <3>2. ~Continuous(radio, clock)
      BY <3>1 DEF Continuous
    <3>. QED
      BY <1>1, <1>3, <2>2, <2>3, <3>2
  <2>. QED
    BY <1>4, <1>5, <2>1, <2>2, <2>3
<1>. QED
  BY <1>1, <1>4, <1>5, <1>6, <1>7, <1>8 DEF TimerInv, TimerSpansNoGap

LEMMA TimerStep == TimerInv /\ [Next]_vars => TimerInv'
<1> SUFFICES ASSUME TimerInv, [Next]_vars PROVE TimerInv'
  OBVIOUS
<1>1. CASE Publish
  BY <1>1, PublishTimers
<1>2. ASSUME clock' \in Nat, poll'.sample \in Samples, UNCHANGED <<radio, heard>> PROVE TimerInv'
  BY <1>2 DEF TimerInv, TimerSpansNoGap, Unbroken
<1>3. NoSample \in Samples
  BY DEF Samples
<1>4. CASE Poll
  <2>1. poll'.sample \in Samples
    <3>1. PICK s \in Samples : poll' = [Idle EXCEPT !.pc = "radio", !.sample = s]
      BY <1>4 DEF Poll, Samples
    <3>. QED
      BY <3>1 DEF Idle
  <2>2. clock' \in Nat /\ UNCHANGED <<radio, heard>>
    BY <1>4 DEF Poll, TimerInv, files, past
  <2>. QED
    BY <1>2, <2>1, <2>2
<1>5. CASE LoseFile
  <2>1. UNCHANGED <<clock, poll, heard>> /\ (radio' = NoRecord \/ radio' = radio)
    BY <1>5 DEF LoseFile, past
  <2>2. CASE radio' = radio
    BY <1>2, <2>1, <2>2 DEF TimerInv
  <2>3. CASE radio' = NoRecord
    BY <2>1, <2>3 DEF TimerInv, TimerSpansNoGap, NoRecord
  <2>. QED
    BY <2>1, <2>2, <2>3
<1>6. CASE SetClockBack
  BY <1>2, <1>6 DEF SetClockBack, TimerInv, files, past
<1>7. CASE RadioEvents \/ Compare \/ (\E n \in Nodes : Close(n)) \/ SaveLinks \/ CutOff
  <2>1. clock' \in Nat /\ UNCHANGED <<radio, heard>>
    BY <1>7 DEF TimerInv, RadioEvents, Compare, Close, SaveLinks, CutOff, files, past
  <2>2. poll'.sample \in Samples
    <3>1. CASE RadioEvents
      BY <3>1 DEF RadioEvents, TimerInv
    <3>2. CASE Compare
      BY <3>2 DEF Compare, TimerInv
    <3>3. ASSUME NEW n \in Nodes, Close(n) PROVE poll'.sample \in Samples
      BY <3>3 DEF Close, TimerInv
    <3>4. CASE SaveLinks \/ CutOff
      BY <1>3, <3>4 DEF SaveLinks, CutOff, Idle
    <3>. QED
      BY <1>7, <3>1, <3>2, <3>3, <3>4
  <2>. QED
    BY <1>2, <2>1, <2>2
<1>. QED
  BY <1>1, <1>2, <1>4, <1>5, <1>6, <1>7 DEF Next, vars, past, files, TimerInv

LEMMA TimerStart == Init => TimerInv
<1>. SUFFICES ASSUME Init PROVE TimerInv
  OBVIOUS
<1>1. << >> \in Seq(Observations)
  OBVIOUS
<1>. QED
  BY <1>1 DEF Init, TimerInv, TimerSpansNoGap, Idle, NoRecord, Samples

\* Neither timer of a transmission spans another observation or a gap, whatever is cut
\* off, lost or set back (radio_activity.py:214).
THEOREM TimersAreHonest == Spec => []TimerSpansNoGap
<1>1. TimerInv => TimerSpansNoGap
  BY DEF TimerInv
<1>. QED
  BY <1>1, TimerStart, TimerStep, PTL DEF Spec

-------------------------------------------------------------------------------
(* The events in pairs. *)

Open(id, shown) == IF id = shown /\ Announced(id) THEN 1 ELSE 0
In(n, S) == IF n \in S THEN 1 ELSE 0

\* The identity that the log has announced: the sample's once its events are logged, the
\* record's before that and after it.
Shown == IF poll.pc = "publish" THEN Identity(poll.sample) ELSE radio.id

TxInv ==
    /\ faults \in Nat /\ txOpen \in [Identities -> Int]
    /\ \A id \in Identities : Balanced(txOpen[id], Open(id, Shown))

\* The clock was set back behind the beginning of a session on file.
Future == \E n \in DOMAIN since : ~(since[n] <= clock)

\* A file that reads as empty because of its future times will be replaced once, and the
\* fault that set the clock back has not been used up before that.
Slack == IF Future THEN faults - 1 ELSE faults
Times(f) == \A n \in DOMAIN f : f[n] \in Nat

LinksInv ==
    /\ faults \in Nat /\ clock \in Nat /\ linkOpen \in [Nodes -> Int] /\ Times(since)
    /\ Slack \in Nat
    /\ poll.pc # "close" =>
         \A n \in Nodes : linkOpen[n] - In(n, DOMAIN since) \in (-Slack)..Slack
    /\ poll.pc = "close" =>
         /\ Times(poll.since) /\ poll.ended \subseteq DOMAIN poll.since
         /\ \A n \in DOMAIN poll.since : poll.since[n] <= clock
         /\ \A n \in Nodes : Balanced(linkOpen[n], In(n, DOMAIN poll.since))
         /\ Future => /\ poll.ended = {}
                      /\ \A n \in Nodes : Balanced(linkOpen[n], In(n, DOMAIN since))

\* A fault moves what is shown by one event at most.
LEMMA TxFault ==
    ASSUME TxInv, txOpen' = txOpen, faults' = faults + 1, NEW shown, shown = Shown'
    PROVE  TxInv'
<1>1. ASSUME NEW id \in Identities PROVE txOpen[id] - Open(id, shown) \in (-faults')..faults'
  <2>1. txOpen[id] \in Int /\ faults \in Nat
    BY DEF TxInv
  <2>2. PICK o, p \in {0, 1} : o = Open(id, Shown) /\ p = Open(id, shown)
    BY DEF Open
  <2>3. txOpen[id] - o \in (-faults)..faults
    BY <2>2 DEF TxInv, Balanced
  <2>4. txOpen[id] - p \in (-(faults + 1))..(faults + 1)
    BY <2>1, <2>3
  <2>. QED
    BY <2>2, <2>4
<1>2. \A id \in Identities : Open(id, shown) = Open(id, Shown')
  OBVIOUS
<1>. QED
  BY <1>1, <1>2 DEF TxInv, Balanced, Open

LEMMA TxStep == TxInv /\ [Next]_vars => TxInv'
<1> SUFFICES ASSUME TxInv, [Next]_vars PROVE TxInv'
  OBVIOUS
<1>1. CASE txOpen' = txOpen /\ faults' = faults + 1
  BY <1>1, TxFault
<1>2. ASSUME UNCHANGED <<txOpen, faults>>, NEW shown, shown = Shown, shown = Shown' PROVE TxInv'
  BY <1>2 DEF TxInv, Balanced, Open
<1>3. CASE RadioEvents
  <2>1. PICK id : id = Identity(poll.sample) /\ id = Shown' /\ radio.id = Shown
    BY <1>3 DEF RadioEvents, Shown
  <2>2. CASE ~Transition(radio, poll.sample, clock)
    <3>1. id = radio.id /\ UNCHANGED <<txOpen, faults>>
      BY <1>3, <2>1, <2>2 DEF RadioEvents, Transition
    <3>. QED
      BY <1>2, <2>1, <3>1
  <2>3. CASE Transition(radio, poll.sample, clock)
    <3>1. /\ faults' = faults
          /\ txOpen' = [i \in Identities |-> txOpen[i] + Open(i, id) - Open(i, radio.id)]
      BY <1>3, <2>1, <2>3 DEF RadioEvents, Open
    <3>2. ASSUME NEW i \in Identities
          PROVE  txOpen'[i] \in Int /\ txOpen'[i] - Open(i, id) \in (-faults)..faults
      <4>1. PICK m \in Int : m = txOpen[i]
        BY DEF TxInv
      <4>2. PICK o, p \in {0, 1} : o = Open(i, radio.id) /\ p = Open(i, id)
        BY DEF Open
      <4>3. m - o \in (-faults)..faults
        BY <2>1, <4>1, <4>2 DEF TxInv, Balanced
      <4>4. txOpen'[i] = m + p - o
        BY <3>1, <4>1, <4>2
      <4>. QED
        BY <4>2, <4>3, <4>4
    <3>3. txOpen' \in [Identities -> Int]
      BY <3>1, <3>2
    <3>. QED
      BY <2>1, <3>1, <3>2, <3>3 DEF TxInv, Balanced, Open
  <2>. QED
    BY <2>2, <2>3
<1>4. CASE Publish
  <2>1. PICK id : id = Identity(poll.sample) /\ id = Shown
    BY <1>4 DEF Publish, Shown
  <2>2. Updated(radio, poll.sample, clock).id = id
    BY <2>1 DEF Updated, Observation
  <2>3. poll'.pc # "publish"
    BY <1>4 DEF Publish, Idle
  <2>4. Shown' = id
    BY <1>4, <2>2, <2>3 DEF Publish, Shown
  <2>. QED
    BY <1>2, <1>4, <2>1, <2>4 DEF Publish
<1>5. CASE Poll \/ Compare \/ (\E n \in Nodes : Close(n)) \/ SaveLinks \/ UNCHANGED vars
  <2>1. Shown' = Shown /\ UNCHANGED <<txOpen, faults>>
    <3>1. CASE Poll
      <4>1. PICK s : poll' = [Idle EXCEPT !.pc = "radio", !.sample = s]
        BY <3>1 DEF Poll
      <4>2. poll'.pc = "radio" /\ poll.pc = "idle"
        BY <3>1, <4>1 DEF Poll, Idle
      <4>. QED
        BY <3>1, <4>2 DEF Poll, Shown, files, past
    <3>2. CASE Compare
      <4>1. poll'.pc = "close" /\ poll.pc = "links"
        BY <3>2 DEF Compare
      <4>. QED
        BY <3>2, <4>1 DEF Compare, Shown, files
    <3>3. ASSUME NEW n \in Nodes, Close(n) PROVE Shown' = Shown /\ UNCHANGED <<txOpen, faults>>
      BY <3>3 DEF Close, Shown
    <3>4. CASE SaveLinks \/ UNCHANGED vars
      BY <3>4 DEF SaveLinks, Shown, Idle, vars, files, past
    <3>. QED
      BY <1>5, <3>1, <3>2, <3>3, <3>4
  <2>. QED
    BY <1>2, <2>1
<1>6. CASE CutOff \/ LoseFile \/ SetClockBack
  BY <1>1, <1>6 DEF CutOff, LoseFile, SetClockBack, Fault, past
<1>. QED
  BY <1>3, <1>4, <1>5, <1>6 DEF Next

LEMMA CompareLinks == ASSUME LinksInv, Compare PROVE LinksInv'
<1>. DEFINE current == Connected(poll.sample)
            new == current \ DOMAIN Loaded
            entries == [m \in new \cup DOMAIN Loaded |-> IF m \in new THEN clock ELSE Loaded[m]]
<1>1. /\ poll.pc = "links" /\ poll'.pc = "close" /\ poll'.since = entries
      /\ poll'.ended = DOMAIN Loaded \ current
      /\ linkOpen' = [n \in Nodes |-> linkOpen[n] + In(n, new)]
      /\ UNCHANGED <<clock, faults, since>>
  BY DEF Compare, In, files
<1>2. IF Future THEN Loaded = << >> /\ DOMAIN Loaded = {} ELSE Loaded = since
  BY DEF Future, Loaded
<1>3. (Future' <=> Future) /\ Slack' = Slack
  BY <1>1 DEF Future, Slack
<1>4. DOMAIN entries = new \cup DOMAIN Loaded
  OBVIOUS
<1>5. ASSUME NEW n \in DOMAIN entries PROVE entries[n] \in Nat /\ entries[n] <= clock
  <2>1. CASE n \in new
    BY <2>1 DEF LinksInv
  <2>2. CASE n \notin new
    <3>1. ~Future /\ n \in DOMAIN since /\ entries[n] = since[n]
      BY <1>2, <1>5, <2>2
    <3>. QED
      BY <3>1 DEF LinksInv, Times, Future
  <2>. QED
    BY <2>1, <2>2
<1>. HIDE DEF entries, new
<1>6. poll'.ended \subseteq DOMAIN entries
  BY <1>1, <1>4
<1>7. ASSUME NEW n \in Nodes
      PROVE  /\ linkOpen'[n] \in Int
             /\ linkOpen'[n] - In(n, DOMAIN entries) \in (-faults)..faults
             /\ Future => linkOpen'[n] - In(n, DOMAIN since) \in (-faults)..faults
  <2>1. PICK l \in Int : l = linkOpen[n]
    BY DEF LinksInv
  <2>2. PICK o, p \in {0, 1} : o = In(n, DOMAIN since) /\ p = In(n, new)
    BY DEF In
  <2>3. linkOpen'[n] = l + p /\ faults \in Nat
    BY <1>1, <2>1, <2>2 DEF LinksInv
  <2>4. l - o \in (-Slack)..Slack /\ Slack \in Nat
    BY <1>1, <2>1, <2>2 DEF LinksInv
  <2>5. CASE Future
    <3>1. In(n, DOMAIN entries) = p
      BY <1>2, <1>4, <2>2, <2>5 DEF In
    <3>2. Slack = faults - 1
      BY <2>5 DEF Slack
    <3>. QED
      BY <2>2, <2>3, <2>4, <3>1, <3>2
  <2>6. CASE ~Future
    <3>1. In(n, DOMAIN entries) = o + p
      BY <1>2, <1>4, <2>2, <2>6 DEF In, new
    <3>2. Slack = faults
      BY <2>6 DEF Slack
    <3>. QED
      BY <2>2, <2>3, <2>4, <2>6, <3>1, <3>2
  <2>. QED
    BY <2>5, <2>6
<1>8. linkOpen' \in [Nodes -> Int]
  BY <1>1, <1>7
<1>9. Future => poll'.ended = {}
  BY <1>1, <1>2
<1>. QED
  BY <1>1, <1>3, <1>5, <1>6, <1>7, <1>8, <1>9 DEF LinksInv, Times, Balanced, In

LEMMA CloseLinks == ASSUME LinksInv, NEW n \in Nodes, Close(n) PROVE LinksInv'
<1>. DEFINE rest == Restrict(poll.since, DOMAIN poll.since \ {n})
<1>1. /\ poll.pc = "close" /\ poll'.pc = "close" /\ n \in poll.ended
      /\ poll'.since = rest /\ poll'.ended = poll.ended \ {n}
      /\ linkOpen' = [linkOpen EXCEPT ![n] = @ - 1]
      /\ UNCHANGED <<clock, faults, since>>
  BY DEF Close
<1>2. /\ DOMAIN rest = DOMAIN poll.since \ {n}
      /\ \A m \in DOMAIN rest : rest[m] = poll.since[m]
  BY DEF Restrict
<1>. HIDE DEF rest
<1>3. ~Future /\ ~Future' /\ Slack' = Slack
  BY <1>1 DEF LinksInv, Future, Slack
<1>4. ASSUME NEW m \in Nodes
      PROVE  linkOpen'[m] \in Int /\ linkOpen'[m] - In(m, DOMAIN rest) \in (-faults)..faults
  <2>1. /\ linkOpen[m] \in Int /\ faults \in Nat
        /\ linkOpen[m] - In(m, DOMAIN poll.since) \in (-faults)..faults
    BY <1>1 DEF LinksInv, Balanced
  <2>2. CASE m = n
    <3>1. In(m, DOMAIN poll.since) = 1 /\ In(m, DOMAIN rest) = 0 /\ linkOpen'[m] = linkOpen[m] - 1
      BY <1>1, <1>2, <2>2 DEF LinksInv, In
    <3>. QED
      BY <2>1, <3>1
  <2>3. CASE m # n
    <3>1. In(m, DOMAIN rest) = In(m, DOMAIN poll.since) /\ linkOpen'[m] = linkOpen[m]
      BY <1>1, <1>2, <2>3 DEF LinksInv, In
    <3>. QED
      BY <2>1, <3>1
  <2>. QED
    BY <2>2, <2>3
<1>5. linkOpen' \in [Nodes -> Int]
  BY <1>1, <1>4 DEF LinksInv
<1>6. /\ poll'.ended \subseteq DOMAIN rest
      /\ \A m \in DOMAIN rest : rest[m] \in Nat /\ rest[m] <= clock
  BY <1>1, <1>2 DEF LinksInv, Times
<1>. QED
  BY <1>1, <1>3, <1>4, <1>5, <1>6 DEF LinksInv, Times, Balanced, In

LEMMA SaveTheLinks == ASSUME LinksInv, SaveLinks PROVE LinksInv'
<1>1. /\ poll.pc = "close" /\ poll'.pc = "idle" /\ since' = poll.since
      /\ UNCHANGED <<clock, faults, linkOpen>>
  BY DEF SaveLinks, Idle, past
<1>2. ~Future'
  BY <1>1 DEF LinksInv, Future
<1>3. Slack' = faults
  BY <1>1, <1>2 DEF Slack
<1>. QED
  BY <1>1, <1>3 DEF LinksInv, Times, Balanced, In

\* A poll begins, and time passes: what was in the future may not be any more.
LEMMA PollLinks == ASSUME LinksInv, Poll PROVE LinksInv'
<1>1. PICK gap \in 1..MaxGap : clock' = clock + gap
  BY DEF Poll
<1>2. clock' \in Nat /\ clock <= clock'
  BY <1>1, LinkSessionsAssumption DEF LinksInv
<1>3. poll.pc = "idle" /\ poll'.pc = "radio" /\ UNCHANGED <<since, linkOpen, faults>>
  BY DEF Poll, Idle, files, past
<1>4. Future' => Future
  <2>. SUFFICES ASSUME NEW n \in DOMAIN since, ~(since[n] <= clock') PROVE Future
    BY <1>3 DEF Future
  <2>1. since[n] \in Nat /\ clock \in Nat
    BY DEF LinksInv, Times
  <2>2. ~(since[n] <= clock)
    BY <1>2, <2>1
  <2>. QED
    BY <2>2 DEF Future
<1>5. PICK k \in Nat : k = Slack' /\ Slack <= k
  <2>1. faults \in Nat /\ Slack \in Nat
    BY DEF LinksInv
  <2>2. Slack' = Slack \/ Slack' = Slack + 1
    BY <1>3, <1>4, <2>1 DEF Slack
  <2>. QED
    BY <2>1, <2>2
<1>6. ASSUME NEW n \in Nodes PROVE linkOpen[n] - In(n, DOMAIN since) \in (-k)..k
  <2>1. PICK o \in {0, 1} : o = In(n, DOMAIN since)
    BY DEF In
  <2>2. linkOpen[n] \in Int /\ linkOpen[n] - o \in (-Slack)..Slack /\ Slack \in Nat
    BY <1>3, <2>1 DEF LinksInv
  <2>3. linkOpen[n] - o \in (-k)..k
    BY <1>5, <2>2
  <2>. QED
    BY <2>1, <2>3
<1>. QED
  BY <1>2, <1>3, <1>5, <1>6 DEF LinksInv, Times, In

LEMMA CutOffLinks == ASSUME LinksInv, CutOff PROVE LinksInv'
<1>1. /\ poll'.pc = "idle" /\ faults' = faults + 1
      /\ UNCHANGED <<clock, since, linkOpen>>
  BY DEF CutOff, Fault, Idle, files, past
<1>2. /\ faults \in Nat /\ Slack \in Nat /\ Slack' = Slack + 1
      /\ Slack = IF Future THEN faults - 1 ELSE faults
  BY <1>1 DEF LinksInv, Slack, Future
<1>3. ASSUME NEW n \in Nodes
      PROVE  linkOpen[n] - In(n, DOMAIN since) \in (-(Slack + 1))..(Slack + 1)
  <2>1. PICK l \in Int : l = linkOpen[n]
    BY DEF LinksInv
  <2>2. PICK o, p \in {0, 1} : o = In(n, DOMAIN since) /\ p = In(n, DOMAIN poll.since)
    BY DEF In
  <2>3. CASE poll.pc # "close"
    <3>1. l - o \in (-Slack)..Slack
      BY <2>1, <2>2, <2>3 DEF LinksInv
    <3>2. l - o \in (-(Slack + 1))..(Slack + 1)
      BY <1>2, <3>1
    <3>. QED
      BY <2>1, <2>2, <3>2
  <2>4. CASE poll.pc = "close" /\ Future
    <3>1. l - o \in (-faults)..faults /\ faults = Slack + 1
      BY <1>2, <2>1, <2>2, <2>4 DEF LinksInv, Balanced
    <3>. QED
      BY <2>1, <2>2, <3>1
  <2>5. CASE poll.pc = "close" /\ ~Future
    <3>1. l - p \in (-faults)..faults /\ faults = Slack
      BY <1>2, <2>1, <2>2, <2>5 DEF LinksInv, Balanced
    <3>2. l - o \in (-(Slack + 1))..(Slack + 1)
      BY <1>2, <2>2, <3>1
    <3>. QED
      BY <2>1, <2>2, <3>2
  <2>. QED
    BY <2>3, <2>4, <2>5
<1>. QED
  BY <1>1, <1>2, <1>3 DEF LinksInv, Times, In

LEMMA SetClockBackLinks == ASSUME LinksInv, SetClockBack PROVE LinksInv'
<1>1. /\ poll'.pc = "idle" /\ poll.pc = "idle" /\ faults' = faults + 1 /\ clock' = clock - 1
      /\ clock > 0 /\ UNCHANGED <<since, linkOpen>>
  BY DEF SetClockBack, Fault, Idle, files, past
<1>2. clock' \in Nat /\ clock' <= clock
  BY <1>1 DEF LinksInv
<1>3. Future => Future'
  <2>. SUFFICES ASSUME NEW n \in DOMAIN since, ~(since[n] <= clock) PROVE Future'
    BY <1>1 DEF Future
  <2>1. since[n] \in Nat /\ clock \in Nat
    BY DEF LinksInv, Times
  <2>2. ~(since[n] <= clock')
    BY <1>2, <2>1
  <2>. QED
    BY <1>1, <2>2 DEF Future
<1>4. PICK k \in Nat : k = Slack' /\ Slack <= k
  <2>1. faults \in Nat /\ Slack \in Nat
    BY DEF LinksInv
  <2>2. Slack' = Slack \/ Slack' = Slack + 1
    BY <1>1, <1>3, <2>1 DEF Slack
  <2>. QED
    BY <2>1, <2>2
<1>5. ASSUME NEW n \in Nodes PROVE linkOpen[n] - In(n, DOMAIN since) \in (-k)..k
  <2>1. PICK o \in {0, 1} : o = In(n, DOMAIN since)
    BY DEF In
  <2>2. linkOpen[n] \in Int /\ linkOpen[n] - o \in (-Slack)..Slack /\ Slack \in Nat
    BY <1>1, <2>1 DEF LinksInv
  <2>3. linkOpen[n] - o \in (-k)..k
    BY <1>4, <2>2
  <2>. QED
    BY <2>1, <2>3
<1>. QED
  BY <1>1, <1>2, <1>4, <1>5 DEF LinksInv, Times, In

LEMMA LoseFileLinks == ASSUME LinksInv, LoseFile PROVE LinksInv'
<1>1. /\ faults' = faults + 1 /\ UNCHANGED <<clock, poll, linkOpen>>
      /\ since' = since \/ since' = << >>
  BY DEF LoseFile, Fault, past
<1>2. faults \in Nat /\ Slack \in Nat /\ Slack \in {faults, faults - 1}
      /\ Slack' \in {faults', faults' - 1}
  BY DEF LinksInv, Slack
<1>3. (since' = << >> => ~Future' /\ DOMAIN since' = {}) /\ (Future' => Future)
  BY <1>1 DEF Future
<1>4. PICK k \in Nat : k = Slack' /\ Slack + 1 <= k
  <2>1. CASE Future'
    BY <1>1, <1>2, <1>3, <2>1 DEF Slack
  <2>2. CASE ~Future'
    BY <1>1, <1>2, <2>2 DEF Slack
  <2>. QED
    BY <2>1, <2>2
<1>5. ASSUME NEW n \in Nodes, poll.pc # "close"
      PROVE  linkOpen[n] - In(n, DOMAIN since') \in (-k)..k
  <2>1. PICK o, p \in {0, 1} : o = In(n, DOMAIN since) /\ p = In(n, DOMAIN since')
    BY DEF In
  <2>2. linkOpen[n] \in Int /\ linkOpen[n] - o \in (-Slack)..Slack
    BY <1>5, <2>1 DEF LinksInv
  <2>3. linkOpen[n] - p \in (-k)..k
    BY <1>2, <1>4, <2>1, <2>2
  <2>. QED
    BY <2>1, <2>3
<1>6. ASSUME NEW n \in Nodes, NEW S, linkOpen[n] - In(n, S) \in (-faults)..faults
      PROVE  linkOpen[n] - In(n, S) \in (-faults')..faults'
  <2>1. PICK o \in {0, 1} : o = In(n, S)
    BY DEF In
  <2>2. linkOpen[n] \in Int
    BY DEF LinksInv
  <2>3. linkOpen[n] - o \in (-faults')..faults'
    BY <1>1, <1>2, <1>6, <2>1, <2>2
  <2>. QED
    BY <2>1, <2>3
<1>7. Times(since)'
  BY <1>1, <1>3 DEF LinksInv, Times
<1>8. ASSUME poll.pc = "close"
      PROVE  /\ \A n \in Nodes : linkOpen[n] - In(n, DOMAIN poll.since) \in (-faults')..faults'
             /\ Future' => \A n \in Nodes : linkOpen[n] - In(n, DOMAIN since) \in (-faults')..faults'
  BY <1>3, <1>6, <1>8 DEF LinksInv, Balanced
<1>9. Future' => since' = since
  BY <1>1, <1>3
<1>. QED
  BY <1>1, <1>2, <1>3, <1>4, <1>5, <1>7, <1>8, <1>9 DEF LinksInv, Times, Balanced, In

LEMMA LinksStep == LinksInv /\ [Next]_vars => LinksInv'
<1> SUFFICES ASSUME LinksInv, [Next]_vars PROVE LinksInv'
  OBVIOUS
<1>1. CASE RadioEvents \/ Publish
  <2>1. /\ poll.pc # "close" /\ poll'.pc # "close"
        /\ UNCHANGED <<clock, since, faults, linkOpen>>
    <3>1. CASE RadioEvents
      BY <3>1 DEF RadioEvents, files
    <3>2. CASE Publish
      BY <3>2 DEF Publish, Idle
    <3>. QED
      BY <1>1, <3>1, <3>2
  <2>. QED
    BY <2>1 DEF LinksInv, Slack, Future, Times, In
<1>2. CASE UNCHANGED vars
  BY <1>2 DEF vars, files, past, LinksInv, Slack, Future, Times, In, Balanced
<1>. QED
  BY <1>1, <1>2, CompareLinks, CloseLinks, SaveTheLinks, PollLinks, CutOffLinks, LoseFileLinks,
     SetClockBackLinks DEF Next

LEMMA LinksStart == Init => TxInv /\ LinksInv
<1>. SUFFICES ASSUME Init PROVE TxInv /\ LinksInv
  OBVIOUS
<1>1. /\ clock = 0 /\ faults = 0 /\ since = << >> /\ DOMAIN since = {} /\ poll.pc = "idle"
      /\ radio.id = <<"none", {}>> /\ ~Announced(radio.id)
      /\ txOpen = [id \in Identities |-> 0] /\ linkOpen = [n \in Nodes |-> 0]
  <2>1. <<"none", {}>>[1] = "none"
    OBVIOUS
  <2>2. radio.id = <<"none", {}>> /\ ~Announced(radio.id)
    BY <2>1 DEF Init, NoRecord, Announced
  <2>3. since = << >> /\ DOMAIN since = {}
    BY DEF Init
  <2>4. poll.pc = "idle" /\ clock = 0 /\ faults = 0
    BY DEF Init, Idle
  <2>5. txOpen = [id \in Identities |-> 0] /\ linkOpen = [n \in Nodes |-> 0]
    BY DEF Init
  <2>. QED
    BY <2>2, <2>3, <2>4, <2>5
<1>2. TxInv
  <2>1. Shown = radio.id
    BY <1>1 DEF Shown
  <2>2. \A id \in Identities : Open(id, Shown) = 0 /\ txOpen[id] = 0
    BY <1>1, <2>1 DEF Open
  <2>3. 0 - 0 \in (-0)..0
    OBVIOUS
  <2>4. txOpen \in [Identities -> Int] /\ faults = 0
    BY <1>1
  <2>. QED
    BY <2>2, <2>3, <2>4 DEF TxInv, Balanced
<1>3. Slack = 0
  BY <1>1 DEF Slack, Future
<1>4. LinksInv
  BY <1>1, <1>3 DEF LinksInv, Times, In
<1>. QED
  BY <1>2, <1>4

\* START and END, NODE.CONNECTED and NODE.DISCONNECTED come in pairs between two polls, but
\* for one pair per fault (radio_activity.py:244, allstar_status.py:200).
THEOREM Pairs == Spec => []EventsArePaired
<1>1. TxInv /\ LinksInv => EventsArePaired
  <2>. SUFFICES ASSUME TxInv, LinksInv, poll.pc = "idle" PROVE EventsArePaired
    BY DEF EventsArePaired
  <2>1. ASSUME NEW id \in Identities
        PROVE  Balanced(txOpen[id], IF id = radio.id /\ Announced(id) THEN 1 ELSE 0)
    BY DEF TxInv, Shown, Open
  <2>2. ASSUME NEW n \in Nodes PROVE Balanced(linkOpen[n], IF n \in DOMAIN since THEN 1 ELSE 0)
    <3>1. PICK o \in {0, 1} : o = In(n, DOMAIN since) /\ o = IF n \in DOMAIN since THEN 1 ELSE 0
      BY DEF In
    <3>2. linkOpen[n] \in Int /\ linkOpen[n] - o \in (-Slack)..Slack /\ faults \in Nat
      BY <3>1 DEF LinksInv
    <3>3. Slack = faults \/ Slack = faults - 1
      BY DEF Slack
    <3>4. linkOpen[n] - o \in (-faults)..faults
      BY <3>1, <3>2, <3>3
    <3>. QED
      BY <3>1, <3>4 DEF Balanced
  <2>. QED
    BY <2>1, <2>2 DEF EventsArePaired
<1>. QED
  BY <1>1, LinksStart, TxStep, LinksStep, PTL DEF Spec

-------------------------------------------------------------------------------
(* The connection history. *)

\* The samples from some time t on to the k-th one all saw the link.
SeenFrom(n, t, k) ==
    \E i \in 1..k : linked[i].at = t /\ \A j \in i..k : n \in linked[j].links

Spoilt(n) == {i \in DOMAIN history : history[i].node = n /\ ~Genuine(history[i])}

\* A session that will be spoilt when it is recorded: of the file, and of a poll that has
\* found which ones have ended.
Unseen(n) == n \in DOMAIN since /\ ~SeenFrom(n, since[n], Len(linked))
Broken(n) ==
    /\ n \in DOMAIN poll.since
    /\ ~SeenFrom(n, poll.since[n], IF n \in poll.ended THEN Len(linked) - 1 ELSE Len(linked))

SpoiltBy(n, spoils) == Cardinality(Spoilt(n)) + (IF spoils THEN 1 ELSE 0) <= faults

Compared == [at : Nat, links : {Connected(s) : s \in Samples}]
Recorded == [node : Nodes, start : Nat, end : Nat]

HistoryInv ==
    /\ linked \in Seq(Compared) /\ history \in Seq(Recorded)
    /\ poll.pc # "close" => \A n \in Nodes : SpoiltBy(n, Unseen(n))
    /\ poll.pc = "close" =>
         /\ Len(linked) # 0 /\ linked[Len(linked)].at = clock
         /\ \A n \in poll.ended : n \notin linked[Len(linked)].links
         /\ \A n \in Nodes : SpoiltBy(n, Broken(n))

LEMMA SpoiltFinite ==
    ASSUME history \in Seq(Recorded), NEW n
    PROVE  IsFiniteSet(Spoilt(n)) /\ Cardinality(Spoilt(n)) \in Nat
<1>1. DOMAIN history = 1..Len(history) /\ Len(history) \in Nat
  OBVIOUS
<1>2. IsFiniteSet(1..Len(history))
  BY <1>1, FS_Interval
<1>3. Spoilt(n) \subseteq 1..Len(history)
  BY <1>1 DEF Spoilt
<1>. QED
  BY <1>2, <1>3, FS_Subset, FS_CardinalityType

\* What the samples have shown of a record, the next ones do not undo.
LEMMA StaysGenuine ==
    ASSUME linked \in Seq(Compared), NEW o \in Compared, linked' = Append(linked, o),
           NEW r, Genuine(r)
    PROVE  Genuine(r)'
<1>1. /\ Len(linked) \in Nat /\ Len(linked') = Len(linked) + 1
      /\ \A j \in 1..Len(linked) : linked'[j] = linked[j]
      /\ DOMAIN linked = 1..Len(linked) /\ DOMAIN linked' = 1..(Len(linked) + 1)
  OBVIOUS
<1>2. PICK i, k \in 1..Len(linked) :
        /\ i < k /\ linked[i].at = r.start /\ linked[k].at = r.end
        /\ \A j \in i..(k - 1) : r.node \in linked[j].links
        /\ r.node \notin linked[k].links
  BY <1>1 DEF Genuine
<1>3. i \in DOMAIN linked' /\ k \in DOMAIN linked'
  BY <1>1
<1>4. \A j \in i..(k - 1) : linked'[j] = linked[j]
  <2>1. \A j \in i..(k - 1) : j \in 1..Len(linked)
    BY <1>1
  <2>. QED
    BY <1>1, <2>1
<1>. QED
  BY <1>1, <1>2, <1>3, <1>4 DEF Genuine

LEMMA StaysSeen ==
    ASSUME linked \in Seq(Compared), NEW o \in Compared, linked' = Append(linked, o),
           NEW n, NEW t, NEW k \in Nat, k = Len(linked), SeenFrom(n, t, k)
    PROVE  SeenFrom(n, t, k)' /\ (n \in o.links => SeenFrom(n, t, k + 1)')
<1>1. /\ \A j \in 1..k : linked'[j] = linked[j]
      /\ linked'[k + 1] = o
  OBVIOUS
<1>2. PICK i \in 1..k : linked[i].at = t /\ \A j \in i..k : n \in linked[j].links
  BY DEF SeenFrom
<1>3. linked'[i].at = t /\ \A j \in i..k : n \in linked'[j].links
  <2>1. \A j \in i..k : j \in 1..k
    OBVIOUS
  <2>. QED
    BY <1>1, <1>2, <2>1
<1>4. SeenFrom(n, t, k)'
  BY <1>3 DEF SeenFrom
<1>5. ASSUME n \in o.links PROVE SeenFrom(n, t, k + 1)'
  <2>1. \A j \in i..(k + 1) : j \in i..k \/ j = k + 1
    OBVIOUS
  <2>2. i \in 1..(k + 1)
    OBVIOUS
  <2>. QED
    BY <1>1, <1>3, <1>5, <2>1, <2>2 DEF SeenFrom
<1>. QED
  BY <1>4, <1>5

LEMMA CompareHistory ==
    ASSUME TimerInv, LinksInv, HistoryInv, Compare PROVE HistoryInv'
<1>. DEFINE current == Connected(poll.sample)
            new == current \ DOMAIN Loaded
            entries == [m \in new \cup DOMAIN Loaded |-> IF m \in new THEN clock ELSE Loaded[m]]
            o == [at |-> clock, links |-> current]
<1>1. /\ poll.pc = "links" /\ poll'.pc = "close" /\ poll'.since = entries
      /\ poll'.ended = DOMAIN Loaded \ current
      /\ linked' = Append(linked, o) /\ UNCHANGED <<clock, faults, since, history>>
  BY DEF Compare, files
<1>2. o \in Compared /\ o.at = clock /\ o.links = current
  BY DEF TimerInv, Compared
<1>3. /\ DOMAIN entries = new \cup DOMAIN Loaded
      /\ \A m \in new : entries[m] = clock
      /\ \A m \in DOMAIN Loaded : m \notin new /\ entries[m] = Loaded[m]
  OBVIOUS
<1>4. \A m \in DOMAIN Loaded : m \in DOMAIN since /\ Loaded[m] = since[m]
  <2>1. Loaded = since \/ DOMAIN Loaded = {}
    BY DEF Loaded
  <2>. QED
    BY <2>1
<1>5. new = current \ DOMAIN Loaded
  OBVIOUS
<1>. HIDE DEF entries, new, o
<1>6. PICK k \in Nat : /\ k = Len(linked) /\ Len(linked') = k + 1
                       /\ linked'[k + 1] = o /\ linked' \in Seq(Compared)
                       /\ linked \in Seq(Compared) /\ history \in Seq(Recorded)
  BY <1>1, <1>2 DEF HistoryInv
<1>7. ASSUME NEW n \in Nodes PROVE Broken(n)' => Unseen(n)
  <2>. SUFFICES ASSUME n \in DOMAIN entries, ~Unseen(n), NEW t, t = entries[n], NEW last,
                       last = IF n \in DOMAIN Loaded \ current THEN k ELSE k + 1
                PROVE  SeenFrom(n, t, last)'
    <3>1. (k + 1) - 1 = k
      OBVIOUS
    <3>. QED
      BY <1>1, <1>6, <3>1 DEF Broken, SeenFrom
  <2>1. CASE n \in new
    <3>1. n \in current /\ n \notin DOMAIN Loaded /\ t = clock /\ last = k + 1
      BY <1>3, <1>5, <2>1
    <3>2. k + 1 \in 1..(k + 1) /\ \A j \in (k + 1)..(k + 1) : j = k + 1
      OBVIOUS
    <3>3. linked'[k + 1].at = t /\ n \in linked'[k + 1].links
      BY <1>2, <1>6, <3>1
    <3>. QED
      BY <3>1, <3>2, <3>3 DEF SeenFrom
  <2>2. CASE n \in DOMAIN Loaded
    <3>1. t = since[n] /\ n \in DOMAIN since
      BY <1>3, <1>4, <2>2
    <3>2. SeenFrom(n, t, k)
      BY <1>6, <3>1 DEF Unseen
    <3>3. SeenFrom(n, t, k)' /\ (n \in o.links => SeenFrom(n, t, k + 1)')
      BY <1>1, <1>2, <1>6, <3>2, StaysSeen
    <3>4. CASE n \in current
      BY <1>2, <3>3, <3>4
    <3>5. CASE n \notin current
      BY <2>2, <3>3, <3>5
    <3>. QED
      BY <3>4, <3>5
  <2>. QED
    BY <1>3, <2>1, <2>2
<1>8. ASSUME NEW n \in Nodes PROVE SpoiltBy(n, Broken(n))'
  <2>1. (Spoilt(n))' \subseteq Spoilt(n)
    <3>1. \A i \in DOMAIN history : Genuine(history[i]) => Genuine(history[i])'
      BY <1>1, <1>2, <1>6, StaysGenuine
    <3>. QED
      BY <1>1, <3>1 DEF Spoilt
  <2>2. IsFiniteSet(Spoilt(n)) /\ Cardinality(Spoilt(n)) \in Nat
    BY <1>6, SpoiltFinite
  <2>3. PICK c, d \in Nat : c = Cardinality(Spoilt(n)) /\ d = Cardinality((Spoilt(n))') /\ d <= c
    BY <2>1, <2>2, FS_Subset, FS_CardinalityType
  <2>4. c + (IF Unseen(n) THEN 1 ELSE 0) <= faults /\ faults \in Nat
    BY <1>1, <2>3 DEF HistoryInv, LinksInv, SpoiltBy
  <2>5. d + (IF Broken(n)' THEN 1 ELSE 0) <= faults
    BY <1>7, <2>3, <2>4
  <2>. QED
    BY <1>1, <2>3, <2>5 DEF SpoiltBy
<1>9. \A n \in poll'.ended : n \notin linked'[Len(linked')].links
  BY <1>1, <1>2, <1>6
<1>. QED
  BY <1>1, <1>2, <1>6, <1>8, <1>9 DEF HistoryInv

LEMMA CloseHistory ==
    ASSUME TimerInv, LinksInv, HistoryInv, NEW n \in Nodes, Close(n) PROVE HistoryInv'
<1>. DEFINE rest == Restrict(poll.since, DOMAIN poll.since \ {n})
            r == [node |-> n, start |-> poll.since[n], end |-> clock]
<1>1. /\ poll.pc = "close" /\ poll'.pc = "close" /\ n \in poll.ended
      /\ poll'.since = rest /\ poll'.ended = poll.ended \ {n}
      /\ history' = Append(history, r) /\ UNCHANGED <<clock, faults, since, linked>>
  BY DEF Close
<1>2. /\ DOMAIN rest = DOMAIN poll.since \ {n}
      /\ \A m \in DOMAIN rest : rest[m] = poll.since[m]
  BY DEF Restrict
<1>3. /\ r \in Recorded /\ r.node = n /\ r.start = poll.since[n] /\ r.end = clock
      /\ n \in DOMAIN poll.since
  <2>1. n \in DOMAIN poll.since /\ poll.since[n] \in Nat /\ clock \in Nat
    BY <1>1 DEF LinksInv, Times
  <2>. QED
    BY <2>1 DEF Recorded
<1>. HIDE DEF rest, r
<1>4. PICK h, k \in Nat : h = Len(history) /\ k = Len(linked)
  BY DEF HistoryInv
<1>5. /\ history' \in Seq(Recorded) /\ DOMAIN history' = 1..(h + 1) /\ history'[h + 1] = r
      /\ DOMAIN history = 1..h /\ \A i \in 1..h : history'[i] = history[i]
      /\ history \in Seq(Recorded)
  BY <1>1, <1>3, <1>4 DEF HistoryInv
<1>6. ~Broken(n) => Genuine(r)
  <2>. SUFFICES ASSUME ~Broken(n) PROVE Genuine(r)
    OBVIOUS
  <2>1. SeenFrom(n, poll.since[n], k - 1)
    BY <1>1, <1>3, <1>4 DEF Broken
  <2>2. PICK i \in 1..(k - 1) : linked[i].at = r.start /\ \A j \in i..(k - 1) : n \in linked[j].links
    BY <1>3, <2>1 DEF SeenFrom
  <2>3. /\ k # 0 /\ linked[k].at = r.end /\ n \notin linked[k].links
        /\ linked \in Seq(Compared)
    BY <1>1, <1>3, <1>4 DEF HistoryInv
  <2>4. i \in DOMAIN linked /\ k \in DOMAIN linked /\ i < k
    BY <1>4, <2>3
  <2>. QED
    BY <1>3, <2>2, <2>3, <2>4 DEF Genuine
<1>7. \A q : Genuine(q)' <=> Genuine(q)
  BY <1>1 DEF Genuine
<1>8. ASSUME NEW m \in Nodes PROVE SpoiltBy(m, Broken(m))'
  <2>1. PICK c \in Nat : c = Cardinality(Spoilt(m)) /\ IsFiniteSet(Spoilt(m))
    BY <1>5, SpoiltFinite
  <2>2. c + (IF Broken(m) THEN 1 ELSE 0) <= faults /\ faults \in Nat
    BY <1>1, <2>1 DEF HistoryInv, LinksInv, SpoiltBy
  <2>3. CASE m # n
    <3>1. (Spoilt(m))' = Spoilt(m)
      <4>1. \A i \in 1..(h + 1) : i \in 1..h \/ i = h + 1
        OBVIOUS
      <4>. QED
        BY <1>3, <1>5, <1>7, <2>3, <4>1 DEF Spoilt
    <3>2. Broken(m)' <=> Broken(m)
      BY <1>1, <1>2, <2>3 DEF Broken, SeenFrom
    <3>. QED
      BY <1>1, <2>1, <2>2, <3>1, <3>2 DEF SpoiltBy
  <2>4. CASE m = n
    <3>1. ~Broken(m)'
      BY <1>1, <1>2, <2>4 DEF Broken
    <3>2. CASE Broken(n)
      <4>1. (Spoilt(m))' \subseteq Spoilt(m) \cup {h + 1}
        BY <1>5, <1>7 DEF Spoilt
      <4>2. PICK d \in Nat : d = Cardinality((Spoilt(m))') /\ d <= c + 1
        <5>1. /\ IsFiniteSet(Spoilt(m) \cup {h + 1})
              /\ Cardinality(Spoilt(m) \cup {h + 1}) \in {c, c + 1}
          BY <2>1, FS_AddElement
        <5>2. Cardinality((Spoilt(m))') \in Nat
              /\ Cardinality((Spoilt(m))') <= Cardinality(Spoilt(m) \cup {h + 1})
          BY <4>1, <5>1, FS_Subset, FS_CardinalityType
        <5>. QED
          BY <5>1, <5>2
      <4>3. d <= faults
        BY <2>2, <2>4, <3>2, <4>2
      <4>. QED
        BY <1>1, <3>1, <4>2, <4>3 DEF SpoiltBy
    <3>3. CASE ~Broken(n)
      <4>1. (Spoilt(m))' = Spoilt(m)
        <5>1. \A i \in 1..(h + 1) : i \in 1..h \/ i = h + 1
          OBVIOUS
        <5>. QED
          BY <1>5, <1>6, <1>7, <3>3, <5>1 DEF Spoilt
      <4>2. c <= faults
        BY <2>2, <2>4, <3>3
      <4>. QED
        BY <1>1, <2>1, <3>1, <4>1, <4>2 DEF SpoiltBy
    <3>. QED
      BY <3>2, <3>3
  <2>. QED
    BY <2>3, <2>4
<1>9. \A m \in poll'.ended : m \notin linked'[Len(linked')].links
  BY <1>1 DEF HistoryInv
<1>. QED
  BY <1>1, <1>5, <1>8, <1>9 DEF HistoryInv

\* A step that leaves the history and what the polls saw alone spoils no more than the
\* fault it is.
LEMMA QuietHistory ==
    ASSUME HistoryInv, UNCHANGED <<linked, history>>, faults \in Nat, faults' \in Nat,
           NEW n \in Nodes, NEW before \in BOOLEAN, NEW after \in BOOLEAN,
           SpoiltBy(n, before), after => before \/ faults' = faults + 1, faults <= faults'
    PROVE  Cardinality(Spoilt(n)') + (IF after THEN 1 ELSE 0) <= faults'
<1>1. Spoilt(n)' = Spoilt(n)
  BY DEF Spoilt, Genuine
<1>2. PICK c \in Nat : c = Cardinality(Spoilt(n))
  BY SpoiltFinite DEF HistoryInv
<1>3. c + (IF before THEN 1 ELSE 0) <= faults
  BY <1>2 DEF SpoiltBy
<1>4. c + (IF after THEN 1 ELSE 0) <= faults'
  BY <1>2, <1>3
<1>. QED
  BY <1>1, <1>2, <1>4

LEMMA HistoryStep == TimerInv /\ LinksInv /\ HistoryInv /\ [Next]_vars => HistoryInv'
<1> SUFFICES ASSUME TimerInv, LinksInv, HistoryInv, [Next]_vars PROVE HistoryInv'
  OBVIOUS
<1>1. CASE Compare
  BY <1>1, CompareHistory
<1>2. ASSUME NEW n \in Nodes, Close(n) PROVE HistoryInv'
  BY <1>2, CloseHistory
<1>3. /\ linked \in Seq(Compared) /\ history \in Seq(Recorded) /\ faults \in Nat
      /\ faults + 1 \in Nat /\ faults <= faults + 1
  BY DEF HistoryInv, LinksInv
<1>4. CASE Poll \/ RadioEvents \/ Publish \/ SetClockBack
  <2>1. /\ poll.pc # "close" /\ poll'.pc # "close" /\ UNCHANGED <<since, linked, history>>
        /\ faults' = faults \/ faults' = faults + 1
    <3>1. CASE Poll
      BY <3>1 DEF Poll, Idle, files, past
    <3>2. CASE RadioEvents
      BY <3>2 DEF RadioEvents, files
    <3>3. CASE Publish
      BY <3>3 DEF Publish, Idle
    <3>4. CASE SetClockBack
      BY <3>4 DEF SetClockBack, Fault, files, past
    <3>. QED
      BY <1>4, <3>1, <3>2, <3>3, <3>4
  <2>2. ASSUME NEW n \in Nodes PROVE SpoiltBy(n, Unseen(n))'
    <3>1. Unseen(n)' <=> Unseen(n)
      BY <2>1 DEF Unseen, SeenFrom
    <3>2. SpoiltBy(n, Unseen(n)) /\ Unseen(n) \in BOOLEAN
      BY <2>1 DEF HistoryInv, Unseen
    <3>. QED
      BY <1>3, <2>1, <3>1, <3>2, QuietHistory DEF SpoiltBy
  <2>. QED
    BY <1>3, <2>1, <2>2 DEF HistoryInv
<1>5. CASE SaveLinks
  <2>1. /\ poll.pc = "close" /\ poll'.pc = "idle" /\ since' = poll.since /\ poll.ended = {}
        /\ UNCHANGED <<linked, history, faults>>
    BY <1>5 DEF SaveLinks, Idle, past
  <2>2. ASSUME NEW n \in Nodes PROVE SpoiltBy(n, Unseen(n))'
    <3>1. Unseen(n)' <=> Broken(n)
      BY <2>1 DEF Unseen, Broken, SeenFrom
    <3>2. SpoiltBy(n, Broken(n)) /\ Broken(n) \in BOOLEAN
      BY <2>1 DEF HistoryInv, Broken
    <3>. QED
      BY <1>3, <2>1, <3>1, <3>2, QuietHistory DEF SpoiltBy
  <2>. QED
    BY <1>3, <2>1, <2>2 DEF HistoryInv
<1>6. CASE CutOff
  <2>1. /\ poll'.pc = "idle" /\ faults' = faults + 1 /\ UNCHANGED <<linked, history, since>>
    BY <1>6 DEF CutOff, Fault, Idle, files, past
  <2>2. ASSUME NEW n \in Nodes PROVE SpoiltBy(n, Unseen(n))'
    <3>1. PICK spoils \in BOOLEAN : SpoiltBy(n, spoils)
      BY DEF HistoryInv, Unseen, Broken
    <3>2. PICK after \in BOOLEAN : after <=> Unseen(n)'
      BY DEF Unseen
    <3>3. Cardinality(Spoilt(n)') + (IF after THEN 1 ELSE 0) <= faults'
      BY <1>3, <2>1, <3>1, QuietHistory
    <3>. QED
      BY <3>2, <3>3 DEF SpoiltBy
  <2>. QED
    BY <1>3, <2>1, <2>2 DEF HistoryInv
<1>7. CASE LoseFile
  <2>1. /\ faults' = faults + 1 /\ UNCHANGED <<linked, history, poll, clock>>
    BY <1>7 DEF LoseFile, Fault, past
  <2>2. ASSUME NEW n \in Nodes, poll.pc # "close" PROVE SpoiltBy(n, Unseen(n))'
    <3>1. PICK spoils \in BOOLEAN : SpoiltBy(n, spoils)
      BY <2>2 DEF HistoryInv, Unseen
    <3>2. PICK after \in BOOLEAN : after <=> Unseen(n)'
      BY DEF Unseen
    <3>3. Cardinality(Spoilt(n)') + (IF after THEN 1 ELSE 0) <= faults'
      BY <1>3, <2>1, <3>1, QuietHistory
    <3>. QED
      BY <3>2, <3>3 DEF SpoiltBy
  <2>3. ASSUME NEW n \in Nodes, poll.pc = "close" PROVE SpoiltBy(n, Broken(n))'
    <3>1. Broken(n)' <=> Broken(n)
      BY <2>1 DEF Broken, SeenFrom
    <3>2. SpoiltBy(n, Broken(n)) /\ Broken(n) \in BOOLEAN
      BY <2>3 DEF HistoryInv, Broken
    <3>. QED
      BY <1>3, <2>1, <3>1, <3>2, QuietHistory DEF SpoiltBy
  <2>. QED
    BY <1>3, <2>1, <2>2, <2>3 DEF HistoryInv
<1>8. CASE UNCHANGED vars
  <2>1. UNCHANGED <<linked, history, poll, clock, since, faults>>
    BY <1>8 DEF vars, files, past
  <2>2. ASSUME NEW n PROVE (SpoiltBy(n, Unseen(n))' <=> SpoiltBy(n, Unseen(n)))
                           /\ (SpoiltBy(n, Broken(n))' <=> SpoiltBy(n, Broken(n)))
    BY <2>1 DEF SpoiltBy, Spoilt, Genuine, Unseen, Broken, SeenFrom
  <2>. QED
    BY <2>1, <2>2 DEF HistoryInv
<1>. QED
  BY <1>1, <1>2, <1>4, <1>5, <1>6, <1>7, <1>8 DEF Next

LEMMA HistoryStart == Init => HistoryInv
<1>. SUFFICES ASSUME Init PROVE HistoryInv
  OBVIOUS
<1>1. /\ linked = << >> /\ history = << >> /\ since = << >> /\ faults = 0
      /\ poll.pc # "close" /\ DOMAIN since = {} /\ DOMAIN history = {}
  BY DEF Init, Idle
<1>2. linked \in Seq(Compared) /\ history \in Seq(Recorded)
  BY <1>1
<1>3. ASSUME NEW n \in Nodes PROVE SpoiltBy(n, Unseen(n))
  <2>1. Spoilt(n) = {} /\ ~Unseen(n)
    BY <1>1 DEF Spoilt, Unseen
  <2>2. Cardinality(Spoilt(n)) = 0
    BY <2>1, FS_EmptySet
  <2>. QED
    BY <1>1, <2>1, <2>2 DEF SpoiltBy
<1>. QED
  BY <1>1, <1>2, <1>3 DEF HistoryInv

\* A record of the history is of a session that every poll saw from its start on and the
\* poll of its end did not, but for one record of each node per fault (allstar_status.py:138).
THEOREM RecordsAreGenuine == Spec => []HistoryIsGenuine
<1>1. LinksInv /\ HistoryInv => HistoryIsGenuine
  <2>. SUFFICES ASSUME LinksInv, HistoryInv, NEW n \in Nodes PROVE Cardinality(Spoilt(n)) <= faults
    BY DEF HistoryIsGenuine, Spoilt
  <2>1. PICK c \in Nat : c = Cardinality(Spoilt(n))
    BY SpoiltFinite DEF HistoryInv
  <2>2. PICK spoils \in BOOLEAN : SpoiltBy(n, spoils)
    BY DEF HistoryInv, Unseen, Broken
  <2>3. faults \in Nat
    BY DEF LinksInv
  <2>. QED
    BY <2>1, <2>2, <2>3 DEF SpoiltBy
<1>. QED
  BY <1>1, TimerStart, LinksStart, HistoryStart, TimerStep, LinksStep, HistoryStep, PTL DEF Spec

-------------------------------------------------------------------------------
(* The sessions counted from the file and the history. *)

One(p) == IF p THEN 1 ELSE 0

\* The count as it would be if the clock showed the time t: a record that ends later is
\* skipped, and a file with a later time is not loaded.
Visible(t) == \A m \in DOMAIN since : since[m] <= t
OpenBy(n, t) == n \in DOMAIN since /\ Visible(t)
DoneBy(n, t) ==
    {i \in DOMAIN history :
        history[i].node = n /\ history[i].start <= history[i].end /\ history[i].end <= t}
Seen(n) == Len(linked) # 0 /\ n \in linked[Len(linked)].links
Excess(n, t) == Cardinality(DoneBy(n, t)) - Cardinality(Begun(n))

\* To show t the clock must be set back Behind(t) times, each a fault, from the time of the
\* last poll that has counted; a file hidden already has used up one.
Turn == IF poll.pc \in {"idle", "close"} THEN clock ELSE clock - 1
Behind(t) == IF t < Turn THEN Turn - t ELSE 0
Room(t) == faults + Behind(t) - One(Visible(t) /\ ~Visible(clock))

\* Whether the next poll sees the open session or not, the count stays within the room.
Between(n, t) ==
    /\ -Room(t) <= Excess(n, t) + One(OpenBy(n, t) /\ Seen(n))
    /\ Excess(n, t) + One(OpenBy(n, t) \/ Seen(n)) <= Room(t)

\* A poll that has found the sessions to end is cut off, or saves.
Ends(n, t) == One(n \in poll.ended /\ clock <= t)
Cut(n, t) ==
    /\ -(Room(t) + 1) <= Excess(n, t) + One(OpenBy(n, t) /\ Seen(n))
    /\ Excess(n, t) + Ends(n, t) + One(OpenBy(n, t) \/ Seen(n)) <= Room(t) + 1
Saved(n, t) ==
    /\ -(faults + Behind(t)) <= Excess(n, t) + Ends(n, t) + One(Seen(n) /\ clock <= t)
    /\ Excess(n, t) + Ends(n, t) + One(Seen(n)) <= faults + Behind(t)

CountInv ==
    /\ poll.pc # "close" => \A n \in Nodes, t \in Nat : Between(n, t)
    /\ poll.pc = "close" =>
         /\ \A n \in Nodes, t \in Nat : Cut(n, t) /\ Saved(n, t)
         /\ \A n \in Nodes : n \in DOMAIN poll.since <=> Seen(n) \/ n \in poll.ended

LEMMA OneIs == ASSUME NEW p PROVE One(p) \in {0, 1} /\ (p => One(p) = 1) /\ (~p => One(p) = 0)
BY DEF One

LEMMA CountsAreNumbers ==
    ASSUME HistoryInv, NEW n, NEW t
    PROVE  /\ IsFiniteSet(DoneBy(n, t)) /\ Cardinality(DoneBy(n, t)) \in Nat
           /\ IsFiniteSet(Begun(n)) /\ Cardinality(Begun(n)) \in Nat /\ Excess(n, t) \in Int
<1>1. PICK h, k \in Nat : DOMAIN history = 1..h /\ DOMAIN linked = 1..k
  BY DEF HistoryInv
<1>2. IsFiniteSet(1..h) /\ IsFiniteSet(1..k)
  BY FS_Interval
<1>3. DoneBy(n, t) \in SUBSET (1..h) /\ Begun(n) \in SUBSET (1..k)
  BY <1>1 DEF DoneBy, Begun
<1>4. /\ IsFiniteSet(DoneBy(n, t)) /\ Cardinality(DoneBy(n, t)) \in Nat
      /\ IsFiniteSet(Begun(n)) /\ Cardinality(Begun(n)) \in Nat
  BY <1>2, <1>3, FS_Subset, FS_CardinalityType
<1>. QED
  BY <1>4 DEF Excess

RoomIsSane ==
    \A t \in Nat :
        /\ Behind(t) \in Nat /\ Room(t) \in Int /\ Room(t) <= faults + Behind(t) /\ faults \in Nat
        /\ Visible(t) /\ ~Visible(clock) => Room(t) = faults + Behind(t) - 1
        /\ ~(Visible(t) /\ ~Visible(clock)) => Room(t) = faults + Behind(t)

LEMMA RoomNow == LinksInv => RoomIsSane
<1>. SUFFICES ASSUME LinksInv, NEW t \in Nat
     PROVE  /\ Behind(t) \in Nat /\ Room(t) \in Int /\ Room(t) <= faults + Behind(t) /\ faults \in Nat
            /\ Visible(t) /\ ~Visible(clock) => Room(t) = faults + Behind(t) - 1
            /\ ~(Visible(t) /\ ~Visible(clock)) => Room(t) = faults + Behind(t)
  BY DEF RoomIsSane
<1>1. clock \in Nat /\ faults \in Nat
  BY DEF LinksInv
<1>2. Turn \in Int
  BY <1>1 DEF Turn
<1>3. Behind(t) \in Nat
  BY <1>1, <1>2 DEF Behind
<1>4. PICK o \in {0, 1} : /\ o = One(Visible(t) /\ ~Visible(clock))
                          /\ Visible(t) /\ ~Visible(clock) => o = 1
                          /\ ~(Visible(t) /\ ~Visible(clock)) => o = 0
  BY OneIs
<1>5. Room(t) = faults + Behind(t) - o
  BY <1>4 DEF Room
<1>. QED
  BY <1>1, <1>3, <1>4, <1>5

LEMMA RoomLater == LinksInv' => RoomIsSane'
BY RoomNow, PTL

LEMMA RoomIsANumber ==
    ASSUME LinksInv, NEW t \in Nat
    PROVE  /\ Behind(t) \in Nat /\ Room(t) \in Int /\ Room(t) <= faults + Behind(t) /\ faults \in Nat
           /\ Visible(t) /\ ~Visible(clock) => Room(t) = faults + Behind(t) - 1
           /\ ~(Visible(t) /\ ~Visible(clock)) => Room(t) = faults + Behind(t)
BY RoomNow DEF RoomIsSane

LEMMA RoomIsANumberLater ==
    ASSUME LinksInv', NEW t \in Nat
    PROVE  /\ Behind(t)' \in Nat /\ Room(t)' \in Int /\ Room(t)' <= faults' + Behind(t)' /\ faults' \in Nat
           /\ Visible(t)' /\ ~Visible(clock)' => Room(t)' = faults' + Behind(t)' - 1
           /\ ~(Visible(t)' /\ ~Visible(clock)') => Room(t)' = faults' + Behind(t)'
BY RoomLater DEF RoomIsSane

LEMMA VisibleLater ==
    ASSUME LinksInv, NEW t \in Nat, NEW u \in Nat, t <= u, Visible(t) PROVE Visible(u)
BY DEF LinksInv, Times, Visible

\* The history and the samples stay; there is as much room as before.
LEMMA QuietCount ==
    ASSUME HistoryInv, LinksInv, LinksInv', UNCHANGED <<history, linked, since>>,
           NEW n \in Nodes, NEW t \in Nat, Between(n, t), Room(t) <= Room(t)'
    PROVE  Between(n, t)'
<1>1. PICK e \in Int : e = Excess(n, t)
  BY CountsAreNumbers
<1>2. Excess(n, t)' = e /\ (Seen(n)' <=> Seen(n)) /\ (OpenBy(n, t)' <=> OpenBy(n, t))
  BY <1>1 DEF Excess, DoneBy, Begun, Seen, OpenBy, Visible
<1>3. PICK r, q \in Int : r = Room(t) /\ q = Room(t)' /\ r <= q
  <2>1. Room(t) \in Int
    BY RoomIsANumber
  <2>2. Room(t)' \in Int
    BY RoomIsANumberLater
  <2>. QED
    BY <2>1, <2>2
<1>4. PICK x, y \in {0, 1} : x = One(OpenBy(n, t) /\ Seen(n)) /\ y = One(OpenBy(n, t) \/ Seen(n))
  BY OneIs
<1>5. x = One(OpenBy(n, t) /\ Seen(n))' /\ y = One(OpenBy(n, t) \/ Seen(n))'
  BY <1>2, <1>4 DEF One
<1>6. -r <= e + x /\ e + y <= r
  BY <1>1, <1>3, <1>4 DEF Between
<1>7. -q <= e + x /\ e + y <= q
  BY <1>3, <1>6
<1>. QED
  BY <1>2, <1>3, <1>5, <1>7 DEF Between

\* Time passes, or a fault happens: the room does not shrink.
LEMMA MoreRoom ==
    ASSUME LinksInv, LinksInv', since' = since, NEW t \in Nat, clock <= clock', faults <= faults',
           Behind(t) <= Behind(t)'
    PROVE  Room(t) + (faults' - faults) <= Room(t)'
<1>1. PICK c, d, f, g \in Nat : c = clock /\ d = clock' /\ f = faults /\ g = faults' /\ c <= d /\ f <= g
  BY DEF LinksInv
<1>2. PICK a, b \in Nat : a = Behind(t) /\ b = Behind(t)' /\ a <= b
  <2>1. Behind(t) \in Nat
    BY RoomIsANumber
  <2>2. Behind(t)' \in Nat
    BY RoomIsANumberLater
  <2>. QED
    BY <2>1, <2>2
<1>3. (Visible(t)' <=> Visible(t)) /\ (Visible(clock)' <=> Visible(d))
  BY <1>1 DEF Visible
<1>4. Visible(c) => Visible(d)
  BY <1>1, VisibleLater
<1>5. CASE Visible(t) /\ ~Visible(d)
  <2>1. Room(t)' = g + b - 1
    BY <1>1, <1>2, <1>3, <1>5, RoomIsANumberLater
  <2>2. Room(t) = f + a - 1
    BY <1>1, <1>2, <1>4, <1>5, RoomIsANumber
  <2>. QED
    BY <1>1, <1>2, <2>1, <2>2
<1>6. CASE ~(Visible(t) /\ ~Visible(d))
  <2>1. Room(t)' = g + b
    BY <1>1, <1>2, <1>3, <1>6, RoomIsANumberLater
  <2>2. Room(t) \in Int /\ Room(t) <= f + a
    BY <1>1, <1>2, RoomIsANumber
  <2>. QED
    BY <1>1, <1>2, <2>1, <2>2
<1>. QED
  BY <1>5, <1>6

\* The file with the open sessions is lost.
LEMMA LoseCount ==
    ASSUME HistoryInv, LinksInv, LinksInv', LoseFile, NEW n \in Nodes, NEW t \in Nat
    PROVE  /\ Between(n, t) => Between(n, t)'
           /\ poll.pc = "close" /\ Cut(n, t) => Cut(n, t)'
           /\ Saved(n, t) => Saved(n, t)'
<1>1. /\ UNCHANGED <<clock, poll, history, linked>> /\ faults' = faults + 1
      /\ since' = since \/ since' = << >>
  BY DEF LoseFile, Fault, past
<1>2. PICK f, a \in Nat : f = faults /\ a = Behind(t)
  BY RoomIsANumber
<1>3. Behind(t)' = a /\ faults' = f + 1
  BY <1>1, <1>2 DEF Behind, Turn
<1>4. PICK e \in Int : e = Excess(n, t)
  BY CountsAreNumbers
<1>5. Excess(n, t)' = e /\ (Seen(n)' <=> Seen(n)) /\ Ends(n, t)' = Ends(n, t)
  BY <1>1, <1>4 DEF Excess, DoneBy, Begun, Seen, Ends, One
<1>6. OpenBy(n, t)' => OpenBy(n, t)
  <2>1. CASE since' = since
    BY <2>1 DEF OpenBy, Visible
  <2>2. CASE since' = << >>
    <3>1. n \notin DOMAIN since'
      BY <2>2
    <3>. QED
      BY <3>1 DEF OpenBy
  <2>. QED
    BY <1>1, <2>1, <2>2
<1>7. PICK r, q \in Int : r = Room(t) /\ q = Room(t)'
  <2>1. Room(t) \in Int
    BY RoomIsANumber
  <2>2. Room(t)' \in Int
    BY RoomIsANumberLater
  <2>. QED
    BY <2>1, <2>2
<1>8. r + 1 <= q /\ r <= f + a
  <2>1. CASE since' = since
    <3>1. Room(t) + (faults' - faults) <= Room(t)'
      <4>1. clock <= clock' /\ faults <= faults' /\ Behind(t) <= Behind(t)'
        BY <1>1, <1>2, <1>3 DEF LinksInv
      <4>. QED
        BY <2>1, <4>1, MoreRoom
    <3>. QED
      BY <1>2, <1>3, <1>7, <3>1, RoomIsANumber
  <2>2. CASE since' = << >>
    <3>1. Visible(clock)'
      BY <2>2 DEF Visible
    <3>2. Room(t)' = f + 1 + a
      BY <1>3, <3>1, RoomIsANumberLater
    <3>3. Room(t) <= f + a
      BY <1>2, RoomIsANumber
    <3>. QED
      BY <1>7, <3>2, <3>3
  <2>. QED
    BY <1>1, <2>1, <2>2
<1>9. PICK x, y, s, u, v \in {0, 1} :
        /\ x = One(OpenBy(n, t) /\ Seen(n)) /\ y = One(OpenBy(n, t) \/ Seen(n))
        /\ s = One(Seen(n)) /\ u = Ends(n, t) /\ v = One(Seen(n) /\ clock <= t)
  <2>1. One(OpenBy(n, t) /\ Seen(n)) \in {0, 1} /\ One(OpenBy(n, t) \/ Seen(n)) \in {0, 1}
    BY OneIs
  <2>2. One(Seen(n)) \in {0, 1} /\ Ends(n, t) \in {0, 1} /\ One(Seen(n) /\ clock <= t) \in {0, 1}
    BY OneIs DEF Ends
  <2>. QED
    BY <2>1, <2>2
<1>10. PICK i, j \in {0, 1} :
        /\ i = One(OpenBy(n, t) /\ Seen(n))' /\ j = One(OpenBy(n, t) \/ Seen(n))' /\ j <= y
  <2>1. One(OpenBy(n, t)' /\ Seen(n)') \in {0, 1}
    BY OneIs
  <2>2. One(OpenBy(n, t)' \/ Seen(n)') \in {0, 1} /\ One(OpenBy(n, t)' \/ Seen(n)') <= y
    BY <1>5, <1>6, <1>9 DEF One
  <2>3. /\ One(OpenBy(n, t) /\ Seen(n))' = One(OpenBy(n, t)' /\ Seen(n)')
        /\ One(OpenBy(n, t) \/ Seen(n))' = One(OpenBy(n, t)' \/ Seen(n)')
    BY DEF One
  <2>. QED
    BY <2>1, <2>2, <2>3
<1>11. One(Seen(n))' = s /\ One(Seen(n) /\ clock <= t)' = v
  BY <1>1, <1>5, <1>9 DEF One
<1>12. ASSUME Between(n, t) PROVE Between(n, t)'
  <2>1. -r <= e + x /\ e + y <= r
    BY <1>4, <1>7, <1>9, <1>12 DEF Between
  <2>2. -q <= e + i /\ e + j <= q
    BY <1>8, <1>10, <2>1
  <2>. QED
    BY <1>5, <1>7, <1>10, <2>2 DEF Between
<1>13. ASSUME Cut(n, t) PROVE Cut(n, t)'
  <2>1. -(r + 1) <= e + x /\ e + u + y <= r + 1
    BY <1>4, <1>7, <1>9, <1>13 DEF Cut
  <2>2. -(q + 1) <= e + i /\ e + u + j <= q + 1
    BY <1>8, <1>10, <2>1
  <2>. QED
    BY <1>5, <1>7, <1>9, <1>10, <2>2 DEF Cut
<1>14. ASSUME Saved(n, t) PROVE Saved(n, t)'
  <2>1. -(f + a) <= e + u + v /\ e + u + s <= f + a
    BY <1>2, <1>4, <1>9, <1>14 DEF Saved
  <2>2. -(f + 1 + a) <= e + u + v /\ e + u + s <= f + 1 + a
    BY <2>1
  <2>. QED
    BY <1>3, <1>5, <1>9, <1>11, <2>2 DEF Saved
<1>. QED
  BY <1>12, <1>13, <1>14

\* One more sample: a session begins if it sees a link that the one before did not.
LEMMA OneMoreSample ==
    ASSUME HistoryInv, NEW o \in Compared, linked' = Append(linked, o), NEW n
    PROVE  /\ Seen(n)' <=> n \in o.links
           /\ Cardinality(Begun(n)') = Cardinality(Begun(n)) + One(n \in o.links /\ ~Seen(n))
<1>1. PICK k \in Nat : k = Len(linked) /\ DOMAIN linked = 1..k /\ linked \in Seq(Compared)
  BY DEF HistoryInv
<1>2. /\ DOMAIN linked' = 1..(k + 1) /\ Len(linked') = k + 1 /\ linked'[k + 1] = o
      /\ \A i \in 1..k : linked'[i] = linked[i]
  BY <1>1
<1>3. Seen(n)' <=> n \in o.links
  BY <1>2 DEF Seen
<1>4. /\ Begun(n)' = {i \in 1..(k + 1) : n \in linked'[i].links /\ (i > 1 => n \notin linked'[i - 1].links)}
      /\ Begun(n) = {i \in 1..k : n \in linked[i].links /\ (i > 1 => n \notin linked[i - 1].links)}
  BY <1>1, <1>2 DEF Begun
<1>5. ASSUME NEW i \in 1..k PROVE i \in Begun(n)' <=> i \in Begun(n)
  <2>1. i \in 1..(k + 1) /\ (i > 1 => i - 1 \in 1..k)
    BY <1>1
  <2>. QED
    BY <1>2, <1>4, <2>1
<1>6. k + 1 \in Begun(n)' <=> n \in o.links /\ ~Seen(n)
  <2>1. k + 1 \in 1..(k + 1) /\ (k + 1) - 1 = k /\ (k + 1 > 1 <=> k # 0) /\ (k # 0 => k \in 1..k)
    BY <1>1
  <2>. QED
    BY <1>1, <1>2, <1>4, <2>1 DEF Seen
<1>7. k + 1 \notin Begun(n) /\ Begun(n)' \subseteq 1..(k + 1) /\ Begun(n) \subseteq 1..k
  BY <1>4
<1>8. \A i \in 1..(k + 1) : i \in 1..k \/ i = k + 1
  OBVIOUS
<1>9. Begun(n)' = IF n \in o.links /\ ~Seen(n) THEN Begun(n) \cup {k + 1} ELSE Begun(n)
  <2>1. ASSUME NEW i
        PROVE  i \in Begun(n)' <=> i \in Begun(n) \/ (i = k + 1 /\ n \in o.links /\ ~Seen(n))
    <3>1. CASE i \in 1..(k + 1)
      BY <1>5, <1>6, <1>7, <1>8, <3>1
    <3>2. CASE i \notin 1..(k + 1)
      <4>1. i # k + 1 /\ i \notin 1..k
        BY <3>2
      <4>. QED
        BY <1>7, <3>2, <4>1
    <3>. QED
      BY <3>1, <3>2
  <2>. QED
    BY <2>1
<1>10. PICK b \in Nat : b = Cardinality(Begun(n)) /\ IsFiniteSet(Begun(n))
  BY CountsAreNumbers
<1>11. CASE n \in o.links /\ ~Seen(n)
  <2>1. Cardinality(Begun(n) \cup {k + 1}) = b + 1
    BY <1>7, <1>10, FS_AddElement
  <2>2. Begun(n)' = Begun(n) \cup {k + 1} /\ One(n \in o.links /\ ~Seen(n)) = 1
    BY <1>9, <1>11 DEF One
  <2>. QED
    BY <1>3, <1>10, <2>1, <2>2
<1>12. CASE ~(n \in o.links /\ ~Seen(n))
  <2>1. Begun(n)' = Begun(n) /\ One(n \in o.links /\ ~Seen(n)) = 0
    BY <1>9, <1>12 DEF One
  <2>2. Cardinality(Begun(n)') = b + 0
    BY <1>10, <2>1
  <2>. QED
    BY <1>3, <1>10, <2>1, <2>2
<1>. QED
  BY <1>11, <1>12

LEMMA CompareCount ==
    ASSUME TimerInv, LinksInv, LinksInv', HistoryInv, CountInv, Compare PROVE CountInv'
<1>. DEFINE current == Connected(poll.sample)
            o == [at |-> clock, links |-> current]
<1>1. /\ poll.pc = "links" /\ poll'.pc = "close" /\ poll'.ended = DOMAIN Loaded \ current
      /\ DOMAIN poll'.since = current \cup DOMAIN Loaded
      /\ linked' = Append(linked, o) /\ UNCHANGED <<clock, faults, since, history>>
  BY DEF Compare, files
<1>2. o \in Compared /\ o.links = current
  BY DEF TimerInv, Compared
<1>. HIDE DEF current, o
<1>3. ASSUME NEW n
      PROVE  /\ Seen(n)' <=> n \in current
             /\ Cardinality(Begun(n)') = Cardinality(Begun(n)) + One(n \in current /\ ~Seen(n))
  BY <1>1, <1>2, OneMoreSample
<1>4. ASSUME NEW n PROVE n \in DOMAIN Loaded <=> OpenBy(n, clock)
  <2>1. CASE Visible(clock)
    <3>1. Loaded = since
      BY <2>1 DEF Visible, Loaded
    <3>. QED
      BY <2>1, <3>1 DEF OpenBy
  <2>2. CASE ~Visible(clock)
    <3>1. Loaded = << >>
      BY <2>2 DEF Visible, Loaded
    <3>. QED
      BY <2>2, <3>1 DEF OpenBy
  <2>. QED
    BY <2>1, <2>2
<1>5. ASSUME NEW n \in Nodes PROVE (n \in DOMAIN poll.since <=> Seen(n) \/ n \in poll.ended)'
  BY <1>1, <1>3
<1>6. ASSUME NEW n \in Nodes, NEW t \in Nat PROVE Cut(n, t)' /\ Saved(n, t)'
  <2>1. PICK x \in Int, f, b, c \in Nat :
          x = Excess(n, t) /\ f = faults /\ b = Behind(t) /\ c = clock
    <3>1. Excess(n, t) \in Int /\ faults \in Nat /\ Behind(t) \in Nat /\ clock \in Nat
      BY CountsAreNumbers, RoomIsANumber DEF LinksInv
    <3>. QED
      BY <3>1
  <2>2. PICK b1 \in Nat : b1 = Behind(t)'
    BY RoomIsANumberLater
  <2>3. PICK p, l, s, z, w, v \in BOOLEAN :
          /\ (p <=> OpenBy(n, t)) /\ (l <=> OpenBy(n, clock)) /\ (s <=> Seen(n))
          /\ (z <=> n \in current) /\ (w <=> c <= t) /\ (v <=> Visible(t) /\ ~Visible(clock))
    <3>1. /\ OpenBy(n, t) \in BOOLEAN /\ OpenBy(n, clock) \in BOOLEAN /\ Seen(n) \in BOOLEAN
          /\ (n \in current) \in BOOLEAN /\ (c <= t) \in BOOLEAN
          /\ (Visible(t) /\ ~Visible(clock)) \in BOOLEAN
      BY <2>1 DEF OpenBy, Seen
    <3>. QED
      BY <3>1, Zenon
  <2>4. ASSUME w PROVE b = 0 /\ b1 = 0 /\ (l => p) /\ (p /\ ~l => v) /\ (l => ~v)
    <3>1. b = 0 /\ b1 = 0
      BY <1>1, <2>1, <2>2, <2>3, <2>4 DEF Behind, Turn
    <3>2. Visible(clock) => Visible(t)
      BY <2>1, <2>3, <2>4, VisibleLater
    <3>. QED
      BY <2>3, <3>1, <3>2 DEF OpenBy
  <2>5. ASSUME ~w PROVE b1 = b + 1 /\ ~v /\ (p => l)
    <3>1. b1 = b + 1
      BY <1>1, <2>1, <2>2, <2>3, <2>5 DEF Behind, Turn
    <3>2. Visible(t) => Visible(clock)
      BY <2>1, <2>3, <2>5, VisibleLater
    <3>. QED
      BY <2>3, <3>1, <3>2 DEF OpenBy
  <2>6. Room(t) = f + b - One(v) /\ Room(t)' = f + b1 - One(v)
    <3>1. (Visible(t)' <=> Visible(t)) /\ (Visible(clock)' <=> Visible(clock))
      BY <1>1 DEF Visible
    <3>. QED
      BY <1>1, <2>1, <2>2, <2>3, <3>1 DEF Room, One
  <2>7. -(f + b - One(v)) <= x + One(p /\ s) /\ x + One(p \/ s) <= f + b - One(v)
    <3>1. Between(n, t)
      BY <1>1 DEF CountInv
    <3>2. One(p /\ s) = One(OpenBy(n, t) /\ Seen(n)) /\ One(p \/ s) = One(OpenBy(n, t) \/ Seen(n))
      BY <2>3 DEF One
    <3>. QED
      BY <2>1, <2>6, <3>1, <3>2 DEF Between
  <2>. DEFINE x1 == x - One(z /\ ~s)
              e == One(l /\ ~z /\ w)
  <2>8. /\ -(f + b1 - One(v) + 1) <= x1 + One(p /\ z)
        /\ x1 + e + One(p \/ z) <= f + b1 - One(v) + 1
        /\ -(f + b1) <= x1 + e + One(z /\ w)
        /\ x1 + e + One(z) <= f + b1
    <3>1. x1 = x - One(z /\ ~s) /\ e = One(l /\ ~z /\ w)
      OBVIOUS
    <3>. HIDE DEF x1, e
    <3>2. CASE w
      <4>1. b = 0 /\ b1 = 0 /\ (l => p) /\ (p /\ ~l => v) /\ (l => ~v)
        BY <2>4, <3>2
      <4>2. CASE z
        BY <2>7, <3>1, <3>2, <4>1, <4>2 DEF One
      <4>3. CASE ~z
        BY <2>7, <3>1, <3>2, <4>1, <4>3 DEF One
      <4>. QED
        BY <4>2, <4>3
    <3>3. CASE ~w
      <4>1. b1 = b + 1 /\ ~v /\ (p => l)
        BY <2>5, <3>3
      <4>2. CASE z
        BY <2>7, <3>1, <3>3, <4>1, <4>2 DEF One
      <4>3. CASE ~z
        BY <2>7, <3>1, <3>3, <4>1, <4>3 DEF One
      <4>. QED
        BY <4>2, <4>3
    <3>. QED
      BY <3>2, <3>3
  <2>9. Excess(n, t)' = x1
    <3>1. DoneBy(n, t)' = DoneBy(n, t)
      BY <1>1 DEF DoneBy
    <3>2. PICK d, g \in Nat : d = Cardinality(DoneBy(n, t)) /\ g = Cardinality(Begun(n))
      BY CountsAreNumbers
    <3>3. PICK y \in {0, 1} : y = One(z /\ ~s)
      BY OneIs
    <3>4. One(n \in current /\ ~Seen(n)) = y
      BY <2>3, <3>3 DEF One
    <3>5. Cardinality(Begun(n)') = g + y
      BY <1>3, <3>2, <3>4
    <3>. QED
      BY <2>1, <3>1, <3>2, <3>3, <3>5 DEF Excess
  <2>10. /\ Ends(n, t)' = e /\ One(OpenBy(n, t) /\ Seen(n))' = One(p /\ z)
         /\ One(OpenBy(n, t) \/ Seen(n))' = One(p \/ z) /\ One(Seen(n) /\ clock <= t)' = One(z /\ w)
         /\ One(Seen(n))' = One(z)
    <3>1. n \in poll'.ended <=> l /\ ~z
      BY <1>1, <1>4, <2>3
    <3>2. (OpenBy(n, t)' <=> p) /\ (Seen(n)' <=> z) /\ clock' = clock
      BY <1>1, <1>3, <2>3 DEF OpenBy, Visible
    <3>. QED
      BY <2>1, <2>3, <3>1, <3>2 DEF Ends, One
  <2>. HIDE DEF x1, e
  <2>11. Cut(n, t)'
    BY <2>6, <2>8, <2>9, <2>10 DEF Cut
  <2>12. Saved(n, t)'
    BY <1>1, <2>1, <2>2, <2>8, <2>9, <2>10 DEF Saved
  <2>. QED
    BY <2>11, <2>12
<1>. QED
  BY <1>1, <1>5, <1>6 DEF CountInv

LEMMA CloseCount ==
    ASSUME LinksInv, HistoryInv, HistoryInv', CountInv, NEW m \in Nodes, Close(m) PROVE CountInv'
<1>. DEFINE rest == Restrict(poll.since, DOMAIN poll.since \ {m})
            r == [node |-> m, start |-> poll.since[m], end |-> clock]
<1>1. /\ poll.pc = "close" /\ poll'.pc = "close" /\ m \in poll.ended
      /\ poll'.since = rest /\ poll'.ended = poll.ended \ {m}
      /\ history' = Append(history, r) /\ UNCHANGED <<clock, faults, since, linked>>
  BY DEF Close
<1>2. DOMAIN rest = DOMAIN poll.since \ {m}
  BY DEF Restrict
<1>3. r.node = m /\ r.end = clock /\ r.start <= r.end /\ clock \in Nat
  <2>1. m \in DOMAIN poll.since /\ poll.since[m] <= clock /\ clock \in Nat
    BY <1>1 DEF LinksInv
  <2>. QED
    BY <2>1
<1>. HIDE DEF rest, r
<1>4. PICK h \in Nat : /\ DOMAIN history = 1..h /\ DOMAIN history' = 1..(h + 1)
                       /\ history'[h + 1] = r /\ \A i \in 1..h : history'[i] = history[i]
  <2>1. history \in Seq(Recorded)
    BY DEF HistoryInv
  <2>. QED
    BY <1>1, <2>1
<1>5. \A n : Seen(n)' <=> Seen(n)
  BY <1>1 DEF Seen
<1>6. ~Seen(m)
  BY <1>1 DEF HistoryInv, Seen
<1>7. ASSUME NEW n \in Nodes PROVE (n \in DOMAIN poll.since <=> Seen(n) \/ n \in poll.ended)'
  BY <1>1, <1>2, <1>5, <1>6 DEF CountInv
<1>8. \A i : i \in 1..(h + 1) <=> i \in 1..h \/ i = h + 1
  OBVIOUS
<1>9. ASSUME NEW n, NEW t \in Nat
      PROVE  Cardinality(DoneBy(n, t)') = Cardinality(DoneBy(n, t)) + One(n = m /\ clock <= t)
  <2>1. DoneBy(n, t)' = IF n = m /\ clock <= t THEN DoneBy(n, t) \cup {h + 1} ELSE DoneBy(n, t)
    <3>1. ASSUME NEW i PROVE i \in DoneBy(n, t)' <=> i \in DoneBy(n, t) \/ (i = h + 1 /\ n = m /\ clock <= t)
      <4>1. CASE i \in 1..h
        <5>1. i # h + 1
          BY <4>1
        <5>. QED
          BY <1>4, <1>8, <4>1, <5>1 DEF DoneBy
      <4>2. CASE i = h + 1
        <5>1. i \notin 1..h
          BY <4>2
        <5>. QED
          BY <1>3, <1>4, <1>8, <4>2, <5>1 DEF DoneBy
      <4>3. CASE i \notin 1..h /\ i # h + 1
        BY <1>4, <1>8, <4>3 DEF DoneBy
      <4>. QED
        BY <4>1, <4>2, <4>3
    <3>. QED
      BY <3>1
  <2>2. PICK d \in Nat : d = Cardinality(DoneBy(n, t)) /\ IsFiniteSet(DoneBy(n, t))
    BY CountsAreNumbers
  <2>3. h + 1 \notin DoneBy(n, t)
    BY <1>4 DEF DoneBy
  <2>4. CASE n = m /\ clock <= t
    <3>1. Cardinality(DoneBy(n, t) \cup {h + 1}) = d + 1
      BY <2>2, <2>3, FS_AddElement
    <3>. QED
      BY <2>1, <2>2, <2>4, <3>1 DEF One
  <2>5. CASE ~(n = m /\ clock <= t)
    <3>1. Cardinality(DoneBy(n, t)') = d + 0
      BY <2>1, <2>2, <2>5
    <3>. QED
      BY <2>2, <2>5, <3>1 DEF One
  <2>. QED
    BY <2>4, <2>5
<1>10. ASSUME NEW n \in Nodes, NEW t \in Nat PROVE Cut(n, t)' /\ Saved(n, t)'
  <2>1. PICK e \in Int, u \in {0, 1} : e = Excess(n, t) /\ u = One(n = m /\ clock <= t)
    <3>1. Excess(n, t) \in Int /\ One(n = m /\ clock <= t) \in {0, 1}
      BY CountsAreNumbers, OneIs
    <3>. QED
      BY <3>1
  <2>2. Excess(n, t)' = e + u
    <3>1. PICK d, g \in Nat : d = Cardinality(DoneBy(n, t)) /\ g = Cardinality(Begun(n))
      BY CountsAreNumbers
    <3>2. Begun(n)' = Begun(n) /\ Cardinality(DoneBy(n, t)') = d + u
      BY <1>1, <1>9, <2>1, <3>1 DEF Begun
    <3>. QED
      BY <2>1, <3>1, <3>2 DEF Excess
  <2>3. PICK k, k1 \in {0, 1} : k = Ends(n, t) /\ k1 = Ends(n, t)' /\ k1 + u = k
    <3>1. Ends(n, t) \in {0, 1} /\ Ends(n, t)' = One(n \in poll'.ended /\ clock <= t)
      BY <1>1, OneIs DEF Ends, One
    <3>2. One(n \in poll'.ended /\ clock <= t) \in {0, 1}
      BY OneIs
    <3>3. Ends(n, t)' + u = Ends(n, t)
      BY <1>1, <2>1, <3>1 DEF Ends, One
    <3>. QED
      BY <3>1, <3>2, <3>3
  <2>4. Room(t)' = Room(t) /\ Behind(t)' = Behind(t) /\ faults' = faults
    BY <1>1 DEF Room, Behind, Turn, Visible, One
  <2>5. PICK q \in Int, f, b \in Nat : q = Room(t) /\ f = faults /\ b = Behind(t)
    <3>1. Room(t) \in Int /\ faults \in Nat /\ Behind(t) \in Nat
      BY RoomIsANumber
    <3>. QED
      BY <3>1
  <2>6. PICK x, y, s, v \in {0, 1} :
          /\ x = One(OpenBy(n, t) /\ Seen(n)) /\ y = One(OpenBy(n, t) \/ Seen(n))
          /\ s = One(Seen(n)) /\ v = One(Seen(n) /\ clock <= t)
    <3>1. One(OpenBy(n, t) /\ Seen(n)) \in {0, 1} /\ One(OpenBy(n, t) \/ Seen(n)) \in {0, 1}
      BY OneIs
    <3>2. One(Seen(n)) \in {0, 1} /\ One(Seen(n) /\ clock <= t) \in {0, 1}
      BY OneIs
    <3>. QED
      BY <3>1, <3>2
  <2>7. /\ x = One(OpenBy(n, t) /\ Seen(n))' /\ y = One(OpenBy(n, t) \/ Seen(n))'
        /\ s = One(Seen(n))' /\ v = One(Seen(n) /\ clock <= t)'
    BY <1>1, <1>5, <2>6 DEF One, OpenBy, Visible
  <2>8. Cut(n, t) /\ Saved(n, t)
    BY <1>1 DEF CountInv
  <2>9. /\ -(q + 1) <= e + x /\ e + k + y <= q + 1
        /\ -(f + b) <= e + k + v /\ e + k + s <= f + b
    BY <2>1, <2>3, <2>5, <2>6, <2>8 DEF Cut, Saved
  <2>10. /\ -(q + 1) <= (e + u) + x /\ (e + u) + k1 + y <= q + 1
         /\ -(f + b) <= (e + u) + k1 + v /\ (e + u) + k1 + s <= f + b
    BY <2>3, <2>9
  <2>11. Cut(n, t)'
    BY <2>2, <2>3, <2>4, <2>5, <2>7, <2>10 DEF Cut
  <2>12. Saved(n, t)'
    BY <2>2, <2>3, <2>4, <2>5, <2>7, <2>10 DEF Saved
  <2>. QED
    BY <2>11, <2>12
<1>. QED
  BY <1>1, <1>7, <1>10 DEF CountInv

\* The poll saves the links that its sample saw.
LEMMA SaveCount ==
    ASSUME LinksInv, LinksInv', HistoryInv, CountInv, SaveLinks PROVE CountInv'
<1>1. /\ poll.pc = "close" /\ poll'.pc = "idle" /\ since' = poll.since /\ poll.ended = {}
      /\ UNCHANGED <<clock, faults, linked, history>>
  BY DEF SaveLinks, Idle, past
<1>2. PICK c \in Nat : c = clock
  BY DEF LinksInv
<1>3. \A n \in DOMAIN since' : since'[n] \in Nat /\ since'[n] <= c
  BY <1>1, <1>2 DEF LinksInv, Times
<1>4. ASSUME NEW n \in Nodes, NEW t \in Nat PROVE Between(n, t)'
  <2>1. c <= t => Visible(t)'
    BY <1>2, <1>3 DEF Visible
  <2>2. Visible(clock)'
    BY <1>1, <1>2, <1>3 DEF Visible
  <2>3. OpenBy(n, t)' <=> Seen(n) /\ Visible(t)'
    BY <1>1 DEF OpenBy, CountInv
  <2>4. Seen(n)' <=> Seen(n)
    BY <1>1 DEF Seen
  <2>5. PICK e \in Int : e = Excess(n, t) /\ e = Excess(n, t)'
    <3>1. Excess(n, t)' = Excess(n, t)
      BY <1>1 DEF Excess, DoneBy, Begun
    <3>. QED
      BY <3>1, CountsAreNumbers
  <2>6. PICK f, b \in Nat : f = faults /\ b = Behind(t)
    BY RoomIsANumber
  <2>7. Room(t)' = f + b
    <3>1. Behind(t)' = b /\ faults' = f
      BY <1>1, <2>6 DEF Behind, Turn
    <3>. QED
      BY <2>2, <3>1, RoomIsANumberLater
  <2>8. Ends(n, t) = 0
    BY <1>1 DEF Ends, One
  <2>9. -(f + b) <= e + One(Seen(n) /\ c <= t) /\ e + One(Seen(n)) <= f + b
    <3>1. Saved(n, t)
      BY <1>1 DEF CountInv
    <3>2. PICK s, v \in {0, 1} : s = One(Seen(n)) /\ v = One(Seen(n) /\ c <= t)
      BY OneIs
    <3>3. -(f + b) <= e + 0 + v /\ e + 0 + s <= f + b
      BY <1>2, <2>5, <2>6, <2>8, <3>1, <3>2 DEF Saved
    <3>. QED
      BY <3>2, <3>3
  <2>10. PICK x, y, s, v \in {0, 1} :
           /\ x = One(OpenBy(n, t) /\ Seen(n))' /\ y = One(OpenBy(n, t) \/ Seen(n))'
           /\ s = One(Seen(n)) /\ v = One(Seen(n) /\ c <= t) /\ v <= x /\ y = s
    <3>1. One(Seen(n)) \in {0, 1} /\ One(Seen(n) /\ c <= t) \in {0, 1}
      BY OneIs
    <3>2. One(OpenBy(n, t) \/ Seen(n))' = One(Seen(n))
      BY <2>3, <2>4 DEF One
    <3>3. One(OpenBy(n, t) /\ Seen(n))' = One(Seen(n) /\ Visible(t)')
      BY <2>3, <2>4 DEF One
    <3>4. One(Seen(n) /\ Visible(t)') \in {0, 1} /\ One(Seen(n) /\ c <= t) <= One(Seen(n) /\ Visible(t)')
      BY <2>1 DEF One
    <3>. QED
      BY <3>1, <3>2, <3>3, <3>4
  <2>11. -(f + b) <= e + x /\ e + y <= f + b
    BY <2>9, <2>10
  <2>. QED
    BY <2>5, <2>7, <2>10, <2>11 DEF Between
<1>. QED
  BY <1>1, <1>4 DEF CountInv

\* The poll is cut off.
LEMMA CutOffCount ==
    ASSUME LinksInv, LinksInv', HistoryInv, CountInv, CutOff PROVE CountInv'
<1>1. /\ poll.pc # "idle" /\ poll'.pc = "idle" /\ faults' = faults + 1
      /\ UNCHANGED <<clock, since, linked, history>>
  BY DEF CutOff, Fault, Idle, files, past
<1>2. ASSUME NEW t \in Nat PROVE Behind(t) <= Behind(t)' /\ Room(t) + 1 <= Room(t)'
  <2>1. PICK c, f \in Nat : c = clock /\ f = faults
    BY DEF LinksInv
  <2>2. Behind(t) <= Behind(t)'
    BY <1>1, <2>1 DEF Behind, Turn
  <2>3. clock <= clock' /\ faults <= faults' /\ faults' - faults = 1
    BY <1>1, <2>1
  <2>4. Room(t) + (faults' - faults) <= Room(t)'
    BY <1>1, <2>2, <2>3, MoreRoom
  <2>. QED
    BY <2>2, <2>3, <2>4
<1>3. ASSUME NEW n \in Nodes, NEW t \in Nat PROVE Between(n, t)'
  <2>1. PICK r, q \in Int : r = Room(t) /\ q = Room(t)' /\ r + 1 <= q
    <3>1. Room(t) \in Int /\ Room(t)' \in Int
      BY RoomIsANumber, RoomIsANumberLater
    <3>. QED
      BY <1>2, <3>1
  <2>2. PICK e \in Int, x, y, k \in {0, 1} :
          /\ e = Excess(n, t) /\ k = Ends(n, t)
          /\ x = One(OpenBy(n, t) /\ Seen(n)) /\ y = One(OpenBy(n, t) \/ Seen(n))
    <3>1. Excess(n, t) \in Int /\ Ends(n, t) \in {0, 1}
      BY CountsAreNumbers, OneIs DEF Ends
    <3>2. One(OpenBy(n, t) /\ Seen(n)) \in {0, 1} /\ One(OpenBy(n, t) \/ Seen(n)) \in {0, 1}
      BY OneIs
    <3>. QED
      BY <3>1, <3>2
  <2>3. /\ e = Excess(n, t)' /\ x = One(OpenBy(n, t) /\ Seen(n))' /\ y = One(OpenBy(n, t) \/ Seen(n))'
    BY <1>1, <2>2 DEF Excess, DoneBy, Begun, Seen, OpenBy, Visible, One
  <2>4. -(r + 1) <= e + x /\ e + y <= r + 1
    <3>1. CASE poll.pc # "close"
      <4>1. Between(n, t)
        BY <3>1 DEF CountInv
      <4>2. -r <= e + x /\ e + y <= r
        BY <2>1, <2>2, <4>1 DEF Between
      <4>. QED
        BY <4>2
    <3>2. CASE poll.pc = "close"
      <4>1. Cut(n, t)
        BY <3>2 DEF CountInv
      <4>2. -(r + 1) <= e + x /\ e + k + y <= r + 1
        BY <2>1, <2>2, <4>1 DEF Cut
      <4>. QED
        BY <4>2
    <3>. QED
      BY <3>1, <3>2
  <2>5. -q <= e + x /\ e + y <= q
    BY <2>1, <2>4
  <2>. QED
    BY <2>1, <2>3, <2>5 DEF Between
<1>. QED
  BY <1>1, <1>3 DEF CountInv

\* Between two comparisons no session begins, and no time is shown that was not before.
LEMMA QuietSteps ==
    ASSUME LinksInv, LinksInv', Poll \/ RadioEvents \/ Publish
    PROVE  /\ poll.pc # "close" /\ poll'.pc # "close" /\ UNCHANGED <<since, history, linked, faults>>
           /\ clock <= clock' /\ Turn \in Int /\ Turn' \in Int /\ Turn <= Turn'
<1>1. clock \in Nat /\ clock' \in Nat
  BY DEF LinksInv
<1>2. CASE Poll
  <2>1. PICK gap \in 1..MaxGap : clock' = clock + gap
    BY <1>2 DEF Poll
  <2>2. gap \in Nat /\ gap >= 1
    BY <2>1, LinkSessionsAssumption
  <2>3. poll.pc = "idle" /\ poll'.pc = "radio" /\ UNCHANGED <<since, history, linked, faults>>
    BY <1>2 DEF Poll, Idle, files, past
  <2>. QED
    BY <1>1, <2>1, <2>2, <2>3 DEF Turn
<1>3. CASE RadioEvents
  <2>1. /\ poll.pc = "radio" /\ poll'.pc = "publish" /\ clock' = clock
        /\ UNCHANGED <<since, history, linked, faults>>
    BY <1>3 DEF RadioEvents, files
  <2>. QED
    BY <1>1, <2>1 DEF Turn
<1>4. CASE Publish
  <2>1. /\ poll.pc = "publish" /\ poll'.pc \in {"links", "idle"} /\ clock' = clock
        /\ UNCHANGED <<since, history, linked, faults>>
    BY <1>4 DEF Publish, Idle
  <2>. QED
    BY <1>1, <2>1 DEF Turn
<1>. QED
  BY <1>2, <1>3, <1>4

LEMMA LaterIsFurther ==
    ASSUME NEW a \in Int, NEW b \in Int, a <= b, NEW t \in Nat
    PROVE  (IF t < a THEN a - t ELSE 0) <= (IF t < b THEN b - t ELSE 0)
<1>1. CASE t < a
  <2>1. t < b /\ a - t <= b - t
    BY <1>1
  <2>. QED
    BY <1>1, <2>1
<1>2. CASE ~(t < a)
  BY <1>2
<1>. QED
  BY <1>1, <1>2

LEMMA BehindGrows ==
    ASSUME Turn \in Int, Turn' \in Int, Turn <= Turn', NEW t \in Nat PROVE Behind(t) <= Behind(t)'
<1>1. Behind(t) = (IF t < Turn THEN Turn - t ELSE 0) /\ Behind(t)' = IF t < Turn' THEN Turn' - t ELSE 0
  BY DEF Behind
<1>. QED
  BY <1>1, LaterIsFurther

\* The clock is set back by one, which is a fault.
LEMMA BehindBack ==
    ASSUME LinksInv, SetClockBack, NEW t \in Nat
    PROVE  /\ Behind(t)' \in Nat /\ Behind(t) <= Behind(t)' + 1
           /\ clock <= t => Behind(t) = 0 /\ Behind(t)' = 0
           /\ t < clock => Behind(t) = Behind(t)' + 1
<1>1. PICK c \in Nat : c = clock /\ clock' = c - 1 /\ poll.pc = "idle" /\ poll'.pc = "idle"
  BY DEF LinksInv, SetClockBack
<1>2. Turn = c /\ Turn' = c - 1
  BY <1>1 DEF Turn
<1>3. Behind(t) = (IF t < c THEN c - t ELSE 0) /\ Behind(t)' = IF t < c - 1 THEN (c - 1) - t ELSE 0
  BY <1>2 DEF Behind
<1>. QED
  BY <1>1, <1>3

LEMMA SetClockBackCount ==
    ASSUME LinksInv, LinksInv', HistoryInv, CountInv, SetClockBack PROVE CountInv'
<1>1. /\ poll.pc = "idle" /\ poll'.pc = "idle" /\ faults' = faults + 1 /\ clock' = clock - 1
      /\ UNCHANGED <<since, history, linked>>
  BY DEF SetClockBack, Fault, files, past
<1>2. ASSUME NEW n \in Nodes, NEW t \in Nat PROVE Between(n, t)'
  <2>1. PICK c, f, a, b \in Nat :
          c = clock /\ f = faults /\ a = Behind(t) /\ b = Behind(t)'
    <3>1. Behind(t) \in Nat /\ Behind(t)' \in Nat /\ clock \in Nat /\ faults \in Nat
      BY RoomIsANumber, RoomIsANumberLater DEF LinksInv
    <3>. QED
      BY <3>1
  <2>2. PICK r, q \in Int : r = Room(t) /\ q = Room(t)' /\ r <= f + a /\ faults' = f + 1
    <3>1. Room(t) \in Int /\ Room(t)' \in Int /\ Room(t) <= faults + Behind(t)
      BY RoomIsANumber, RoomIsANumberLater
    <3>. QED
      BY <1>1, <2>1, <3>1
  <2>3. r <= q
    <3>1. CASE c <= t
      <4>1. a = 0 /\ b = 0
        BY <2>1, <3>1, BehindBack
      <4>2. q = f + 1 + b \/ q = f + 1 + b - 1
        BY <2>1, <2>2, RoomIsANumberLater
      <4>. QED
        BY <2>2, <4>1, <4>2
    <3>2. CASE t < c
      <4>1. a = b + 1
        BY <2>1, <3>2, BehindBack
      <4>2. ~(Visible(t)' /\ ~Visible(clock)')
        <5>1. t <= c - 1 /\ c - 1 \in Nat
          BY <2>1, <3>2
        <5>2. Visible(t) => Visible(c - 1)
          BY <5>1, VisibleLater
        <5>3. (Visible(t)' <=> Visible(t)) /\ (Visible(clock)' <=> Visible(c - 1))
          BY <1>1, <2>1 DEF Visible
        <5>. QED
          BY <5>2, <5>3
      <4>3. q = f + 1 + b
        BY <2>1, <2>2, <4>2, RoomIsANumberLater
      <4>. QED
        BY <2>2, <4>1, <4>3
    <3>. QED
      BY <2>1, <3>1, <3>2
  <2>4. Between(n, t)
    BY <1>1 DEF CountInv
  <2>. QED
    BY <1>1, <2>2, <2>3, <2>4, QuietCount
<1>. QED
  BY <1>1, <1>2 DEF CountInv

LEMMA CountStep ==
    TimerInv /\ LinksInv /\ LinksInv' /\ HistoryInv /\ HistoryInv' /\ CountInv /\ [Next]_vars => CountInv'
<1> SUFFICES ASSUME TimerInv, LinksInv, LinksInv', HistoryInv, HistoryInv', CountInv, [Next]_vars
    PROVE  CountInv'
  OBVIOUS
<1>1. CASE Poll \/ RadioEvents \/ Publish
  <2>1. /\ poll.pc # "close" /\ poll'.pc # "close" /\ UNCHANGED <<since, history, linked, faults>>
        /\ clock <= clock' /\ Turn \in Int /\ Turn' \in Int /\ Turn <= Turn'
    BY <1>1, QuietSteps
  <2>2. ASSUME NEW n \in Nodes, NEW t \in Nat PROVE Between(n, t)'
    <3>1. PICK f \in Nat : f = faults
      BY DEF LinksInv
    <3>2. Behind(t) <= Behind(t)' /\ faults <= faults' /\ faults' - faults = 0
      BY <2>1, <3>1, BehindGrows
    <3>3. Room(t) + (faults' - faults) <= Room(t)'
      BY <2>1, <3>2, MoreRoom
    <3>4. Room(t) \in Int
      BY RoomIsANumber
    <3>5. Room(t) <= Room(t)'
      BY <3>2, <3>3, <3>4
    <3>6. Between(n, t)
      BY <2>1 DEF CountInv
    <3>. QED
      BY <2>1, <3>5, <3>6, QuietCount
  <2>. QED
    BY <2>1, <2>2 DEF CountInv
<1>2. CASE LoseFile
  <2>1. UNCHANGED <<poll, linked>>
    BY <1>2 DEF LoseFile, past
  <2>2. ASSUME poll.pc = "close", NEW n \in Nodes
        PROVE  (n \in DOMAIN poll.since <=> Seen(n) \/ n \in poll.ended)'
    BY <2>1, <2>2 DEF CountInv, Seen
  <2>3. ASSUME NEW n \in Nodes, NEW t \in Nat
        PROVE  /\ poll.pc # "close" => Between(n, t)'
               /\ poll.pc = "close" => Cut(n, t)' /\ Saved(n, t)'
    BY <1>2, LoseCount DEF CountInv
  <2>. QED
    BY <2>1, <2>2, <2>3 DEF CountInv
<1>3. CASE UNCHANGED vars
  <2>1. UNCHANGED <<poll, clock, since, history, linked, faults>>
    BY <1>3 DEF vars, files, past
  <2>2. ASSUME NEW n, NEW t
        PROVE  /\ (Between(n, t)' <=> Between(n, t)) /\ (Cut(n, t)' <=> Cut(n, t))
               /\ (Saved(n, t)' <=> Saved(n, t)) /\ (Seen(n)' <=> Seen(n))
    BY <2>1 DEF Between, Cut, Saved, Seen, Room, Behind, Turn, Visible, Excess, DoneBy, Begun,
                OpenBy, Ends, One
  <2>. QED
    BY <2>1, <2>2 DEF CountInv
<1>. QED
  BY <1>1, <1>2, <1>3, CompareCount, CloseCount, SaveCount, CutOffCount, SetClockBackCount DEF Next

LEMMA CountStart == Init => CountInv
<1>. SUFFICES ASSUME Init PROVE CountInv
  OBVIOUS
<1>1. /\ linked = << >> /\ history = << >> /\ since = << >> /\ faults = 0 /\ clock = 0
      /\ poll.pc = "idle" /\ DOMAIN since = {} /\ DOMAIN history = {} /\ DOMAIN linked = {}
      /\ Len(linked) = 0
  BY DEF Init, Idle
<1>2. ASSUME NEW n \in Nodes, NEW t \in Nat PROVE Between(n, t)
  <2>1. DoneBy(n, t) = {} /\ Begun(n) = {} /\ ~Seen(n) /\ ~OpenBy(n, t) /\ Visible(clock)
    BY <1>1 DEF DoneBy, Begun, Seen, OpenBy, Visible
  <2>2. Excess(n, t) = 0
    BY <2>1, FS_EmptySet DEF Excess
  <2>3. Behind(t) = 0
    BY <1>1 DEF Behind, Turn
  <2>4. One(Visible(t) /\ ~Visible(clock)) = 0
    BY <2>1 DEF One
  <2>5. Room(t) = 0
    BY <1>1, <2>3, <2>4 DEF Room
  <2>. QED
    BY <2>1, <2>2, <2>5 DEF Between, One
<1>. QED
  BY <1>1, <1>2 DEF CountInv

-------------------------------------------------------------------------------
(* No time is counted twice. *)

\* The records of n that overlap a later one, or the session among the open ones, or that a
\* clock which shows t has not reached.
Redone(n, i) ==
    \E j \in DOMAIN history : j > i /\ history[j].node = n /\ history[j].start < history[i].end
Again(n, open, t) ==
    {i \in DOMAIN history :
        /\ history[i].node = n
        /\ history[i].end > t \/ (n \in DOMAIN open /\ open[n] < history[i].end) \/ Redone(n, i)}

Few(n, t) == Cardinality(Again(n, since, t)) <= faults + Behind(t)
FewCut(n, t) ==
    Cardinality(Again(n, since, t) \cup Again(n, poll.since, t)) + One(n \in poll.ended)
      <= faults + 1 + Behind(t)
FewSaved(n, t) ==
    Cardinality(Again(n, poll.since, t)) + One(n \in poll.ended /\ t < clock) <= faults + Behind(t)

AgainInv ==
    /\ poll.pc # "close" => \A n \in Nodes, t \in Nat : Few(n, t)
    /\ poll.pc = "close" => \A n \in Nodes, t \in Nat : FewCut(n, t) /\ FewSaved(n, t)

LEMMA Fewer ==
    ASSUME NEW S, NEW T, IsFiniteSet(T), S \subseteq T
    PROVE  /\ IsFiniteSet(S) /\ Cardinality(S) \in Nat /\ Cardinality(T) \in Nat
           /\ Cardinality(S) <= Cardinality(T)
BY FS_Subset, FS_CardinalityType

LEMMA AgainFinite == ASSUME HistoryInv, NEW n, NEW open, NEW t PROVE IsFiniteSet(Again(n, open, t))
<1>1. PICK h \in Nat : DOMAIN history = 1..h
  BY DEF HistoryInv
<1>2. IsFiniteSet(1..h) /\ Again(n, open, t) \subseteq 1..h
  BY <1>1, FS_Interval DEF Again
<1>. QED
  BY <1>2, FS_Subset

\* The history stays, the open sessions stay or are lost, and there is as much room as before.
LEMMA QuietAgain ==
    ASSUME HistoryInv, history' = history, since' = since \/ DOMAIN since' = {},
           LinksInv, LinksInv', NEW n \in Nodes, NEW t \in Nat, Few(n, t),
           faults + Behind(t) <= faults' + Behind(t)'
    PROVE  Few(n, t)'
<1>1. Again(n, since, t)' \subseteq Again(n, since, t)
  BY DEF Again, Redone
<1>2. PICK p, q \in Nat : /\ p = Cardinality(Again(n, since, t)')
                          /\ q = Cardinality(Again(n, since, t)) /\ p <= q
  BY <1>1, AgainFinite, Fewer
<1>3. PICK a, b \in Nat : a = faults + Behind(t) /\ b = faults' + Behind(t)' /\ a <= b
  <2>1. faults \in Nat /\ Behind(t) \in Nat /\ faults' \in Nat /\ Behind(t)' \in Nat
    BY RoomIsANumber, RoomIsANumberLater
  <2>. QED
    BY <2>1
<1>4. q <= a
  BY <1>2, <1>3 DEF Few
<1>5. p <= b
  BY <1>2, <1>3, <1>4
<1>. QED
  BY <1>2, <1>3, <1>5 DEF Few

LEMMA CompareAgain ==
    ASSUME LinksInv, LinksInv', HistoryInv, AgainInv, Compare PROVE AgainInv'
<1>. DEFINE new == Connected(poll.sample) \ DOMAIN Loaded
<1>1. /\ poll.pc = "links" /\ poll'.pc = "close"
      /\ poll'.since = [n \in new \cup DOMAIN Loaded |-> IF n \in new THEN clock ELSE Loaded[n]]
      /\ UNCHANGED <<clock, faults, since, history>>
  BY DEF Compare, files
<1>2. PICK c, f \in Nat : c = clock /\ f = faults
  BY DEF LinksInv
<1>3. Loaded = since \/ DOMAIN Loaded = {}
  BY DEF Loaded
<1>. HIDE DEF new
<1>4. ASSUME NEW n \in Nodes, NEW t \in Nat PROVE FewCut(n, t)' /\ FewSaved(n, t)'
  <2>1. PICK v, b, b1 \in Nat :
          /\ v = (IF t < c THEN t ELSE c) /\ b = Behind(v) /\ b1 = Behind(t)'
          /\ t < c => b1 = b + 1
          /\ b <= b1
    <3>1. Turn = c - 1 /\ Turn' = c
      BY <1>1, <1>2 DEF Turn
    <3>2. CASE t < c
      <4>1. Behind(t) = c - 1 - t /\ Behind(t)' = c - t
        BY <1>2, <3>1, <3>2 DEF Behind
      <4>2. c - 1 - t \in Nat /\ c - t \in Nat /\ c - t = (c - 1 - t) + 1 /\ c - 1 - t <= c - t
        BY <1>2, <3>2
      <4>. QED
        BY <3>2, <4>1, <4>2
    <3>3. CASE ~(t < c)
      <4>1. Behind(c) = 0 /\ Behind(t)' = 0
        BY <1>2, <3>1, <3>3 DEF Behind
      <4>2. c \in Nat /\ 0 \in Nat /\ 0 <= 0
        OBVIOUS
      <4>. QED
        BY <3>3, <4>1, <4>2
    <3>. QED
      BY <3>2, <3>3
  <2>2. v <= t /\ v <= c /\ v \in Nat
    BY <1>2, <2>1
  <2>3. history \in Seq(Recorded)
    BY DEF HistoryInv
  <2>4. ASSUME NEW i \in DOMAIN history
        PROVE  /\ history[i].end > t => history[i].end > v
               /\ c < history[i].end => history[i].end > v
    <3>1. history[i] \in Recorded
      BY <2>3
    <3>2. history[i].end \in Nat
      BY <3>1 DEF Recorded
    <3>. QED
      BY <1>2, <2>2, <3>2
  <2>5. ASSUME NEW i \in Again(n, since, t)' PROVE i \in Again(n, since, v)
    <3>1. /\ i \in DOMAIN history /\ history[i].node = n
          /\ history[i].end > t \/ (n \in DOMAIN since /\ since[n] < history[i].end) \/ Redone(n, i)
      BY <1>1 DEF Again, Redone
    <3>. QED
      BY <2>4, <3>1 DEF Again
  <2>6. ASSUME NEW i \in Again(n, poll.since, t)' PROVE i \in Again(n, since, v)
    <3>1. /\ i \in DOMAIN history /\ history[i].node = n
          /\ \/ history[i].end > t
             \/ n \in DOMAIN poll'.since /\ poll'.since[n] < history[i].end
             \/ Redone(n, i)
      BY <1>1 DEF Again, Redone
    <3>2. n \in DOMAIN poll'.since => poll'.since[n] = c \/ (n \in DOMAIN since /\ poll'.since[n] = since[n])
      BY <1>1, <1>2, <1>3
    <3>. QED
      BY <2>4, <3>1, <3>2 DEF Again
  <2>7. PICK p, q, k \in Nat :
          /\ p = Cardinality(Again(n, since, t) \cup Again(n, poll.since, t))'
          /\ q = Cardinality(Again(n, poll.since, t))'
          /\ k = Cardinality(Again(n, since, v)) /\ p <= k /\ q <= k
    <3>1. (Again(n, since, t) \cup Again(n, poll.since, t))' \subseteq Again(n, since, v)
      BY <2>5, <2>6
    <3>2. Again(n, poll.since, t)' \subseteq Again(n, since, v)
      BY <2>6
    <3>. QED
      BY <3>1, <3>2, AgainFinite, Fewer
  <2>8. k <= f + b
    <3>1. Few(n, v)
      BY <1>1, <2>2 DEF AgainInv
    <3>. QED
      BY <1>2, <2>1, <2>7, <3>1 DEF Few
  <2>9. PICK u, w \in {0, 1} : /\ u = One(n \in poll.ended)' /\ w = One(n \in poll.ended /\ t < clock)'
                               /\ ~(t < c) => w = 0
    <3>1. One(n \in poll'.ended) \in {0, 1} /\ One(n \in poll'.ended /\ t < c) \in {0, 1}
      BY OneIs
    <3>2. /\ One(n \in poll.ended)' = One(n \in poll'.ended)
          /\ One(n \in poll.ended /\ t < clock)' = One(n \in poll'.ended /\ t < c)
      BY <1>1, <1>2 DEF One
    <3>3. ~(t < c) => One(n \in poll'.ended /\ t < c) = 0
      BY DEF One
    <3>. QED
      BY <3>1, <3>2, <3>3
  <2>10. p + u <= f + 1 + b1 /\ q + w <= f + b1
    BY <1>2, <2>1, <2>7, <2>8, <2>9
  <2>. QED
    BY <1>1, <1>2, <2>1, <2>7, <2>9, <2>10 DEF FewCut, FewSaved
<1>. QED
  BY <1>1, <1>4 DEF AgainInv

LEMMA CloseAgain ==
    ASSUME LinksInv, HistoryInv, HistoryInv', AgainInv, NEW m \in Nodes, Close(m) PROVE AgainInv'
<1>. DEFINE rest == Restrict(poll.since, DOMAIN poll.since \ {m})
            r == [node |-> m, start |-> poll.since[m], end |-> clock]
<1>1. /\ poll.pc = "close" /\ poll'.pc = "close" /\ m \in poll.ended
      /\ poll'.since = rest /\ poll'.ended = poll.ended \ {m}
      /\ history' = Append(history, r) /\ UNCHANGED <<clock, faults, since>>
  BY DEF Close
<1>2. /\ DOMAIN rest = DOMAIN poll.since \ {m} /\ m \in DOMAIN poll.since
      /\ \A n \in DOMAIN rest : rest[n] = poll.since[n]
  BY <1>1 DEF Restrict, LinksInv
<1>3. r.node = m /\ r.start = poll.since[m] /\ r.end = clock
  OBVIOUS
<1>. HIDE DEF rest, r
<1>4. PICK h \in Nat : /\ DOMAIN history = 1..h /\ DOMAIN history' = 1..(h + 1) /\ h + 1 \notin 1..h
                       /\ history'[h + 1] = r /\ \A i \in 1..h : history'[i] = history[i]
  <2>1. history \in Seq(Recorded)
    BY DEF HistoryInv
  <2>. QED
    BY <1>1, <2>1
<1>5. \A i : i \in 1..(h + 1) <=> i \in 1..h \/ i = h + 1
  OBVIOUS
<1>6. PICK c, f \in Nat : c = clock /\ f = faults
  BY DEF LinksInv
<1>7. ASSUME NEW n, NEW i \in 1..h
      PROVE  Redone(n, i)' => Redone(n, i) \/ (n = m /\ poll.since[m] < history[i].end)
  BY <1>3, <1>4, <1>5 DEF Redone
<1>8. ASSUME NEW n \in Nodes, NEW t \in Nat PROVE FewCut(n, t)' /\ FewSaved(n, t)'
  <2>. DEFINE all == Again(n, since, t) \cup Again(n, poll.since, t)
              saved == Again(n, poll.since, t)
              last == IF n = m THEN {h + 1} ELSE {}
              ahead == IF n = m /\ t < c THEN {h + 1} ELSE {}
  <2>1. ASSUME NEW i \in Again(n, since, t)' PROVE i \in all \cup last
    <3>1. CASE i \in 1..h
      <4>1. /\ history[i].node = n
            /\ \/ history[i].end > t
               \/ n \in DOMAIN since /\ since[n] < history[i].end
               \/ Redone(n, i)'
        BY <1>1, <1>4, <3>1 DEF Again
      <4>. QED
        BY <1>2, <1>4, <1>7, <3>1, <4>1 DEF Again
    <3>2. CASE i \notin 1..h
      <4>1. i = h + 1 /\ history'[i].node = n
        BY <1>4, <1>5, <3>2 DEF Again
      <4>. QED
        BY <1>3, <1>4, <4>1
    <3>. QED
      BY <3>1, <3>2
  <2>2. ASSUME NEW i \in Again(n, poll.since, t)' PROVE i \in saved \cup ahead
    <3>1. CASE i \in 1..h
      <4>1. /\ history[i].node = n
            /\ \/ history[i].end > t
               \/ n \in DOMAIN rest /\ rest[n] < history[i].end
               \/ Redone(n, i)'
        BY <1>1, <1>4, <3>1 DEF Again
      <4>. QED
        BY <1>2, <1>4, <1>7, <3>1, <4>1 DEF Again
    <3>2. CASE i \notin 1..h
      <4>1. /\ i = h + 1 /\ history'[i].node = n
            /\ \/ history'[i].end > t
               \/ n \in DOMAIN rest /\ rest[n] < history'[i].end
               \/ Redone(n, i)'
        BY <1>1, <1>4, <1>5, <3>2 DEF Again
      <4>2. n = m
        BY <1>3, <1>4, <4>1
      <4>3. n \notin DOMAIN rest
        BY <1>2, <4>2
      <4>4. ~Redone(n, i)'
        <5>1. \A j \in 1..(h + 1) : ~(j > h + 1)
          OBVIOUS
        <5>. QED
          BY <1>4, <4>1, <5>1 DEF Redone
      <4>5. c > t
        BY <1>3, <1>4, <1>6, <4>1, <4>3, <4>4
      <4>6. t < c
        BY <4>5
      <4>. QED
        BY <4>1, <4>2, <4>6
    <3>. QED
      BY <3>1, <3>2
  <2>3. all' \subseteq all \cup last /\ saved' \subseteq saved \cup ahead
    BY <2>1, <2>2
  <2>4. IsFiniteSet(all) /\ IsFiniteSet(saved) /\ h + 1 \notin all /\ h + 1 \notin saved
    <3>1. IsFiniteSet(Again(n, since, t)) /\ IsFiniteSet(Again(n, poll.since, t))
      BY AgainFinite
    <3>2. IsFiniteSet(all)
      BY <3>1, FS_Union
    <3>3. h + 1 \notin Again(n, since, t) /\ h + 1 \notin Again(n, poll.since, t)
      BY <1>4 DEF Again
    <3>. QED
      BY <3>1, <3>2, <3>3
  <2>5. PICK a, s \in Nat : a = Cardinality(all) /\ s = Cardinality(saved)
    BY <2>4, FS_CardinalityType
  <2>6. PICK b \in Nat : b = Behind(t) /\ b = Behind(t)'
    <3>1. Behind(t) \in Nat
      BY RoomIsANumber
    <3>2. Behind(t)' = Behind(t)
      BY <1>1 DEF Behind, Turn
    <3>. QED
      BY <3>1, <3>2
  <2>7. PICK u, u1, w, w1 \in {0, 1} :
          /\ u = One(n \in poll.ended) /\ u1 = One(n \in poll.ended)'
          /\ w = One(n \in poll.ended /\ t < c) /\ w1 = One(n \in poll.ended /\ t < clock)'
          /\ u = IF n = m THEN u1 + 1 ELSE u1
          /\ w = IF n = m /\ t < c THEN w1 + 1 ELSE w1
    <3>1. /\ One(n \in poll.ended) \in {0, 1} /\ One(n \in poll'.ended) \in {0, 1}
          /\ One(n \in poll.ended /\ t < c) \in {0, 1} /\ One(n \in poll'.ended /\ t < c) \in {0, 1}
      BY OneIs
    <3>2. /\ One(n \in poll.ended)' = One(n \in poll'.ended)
          /\ One(n \in poll.ended /\ t < clock)' = One(n \in poll'.ended /\ t < c)
      BY <1>1, <1>6 DEF One
    <3>3. One(n \in poll.ended) = IF n = m THEN One(n \in poll'.ended) + 1 ELSE One(n \in poll'.ended)
      BY <1>1 DEF One
    <3>4. One(n \in poll.ended /\ t < c) =
            IF n = m /\ t < c THEN One(n \in poll'.ended /\ t < c) + 1 ELSE One(n \in poll'.ended /\ t < c)
      BY <1>1 DEF One
    <3>. QED
      BY <3>1, <3>2, <3>3, <3>4
  <2>8. a + u <= f + 1 + b /\ s + w <= f + b
    <3>1. FewCut(n, t) /\ FewSaved(n, t)
      BY <1>1 DEF AgainInv
    <3>2. One(n \in poll.ended /\ t < clock) = w
      BY <1>6, <2>7
    <3>. QED
      BY <1>6, <2>5, <2>6, <2>7, <3>1, <3>2 DEF FewCut, FewSaved
  <2>. HIDE DEF all, saved
  <2>9. PICK a1 \in Nat : a1 = Cardinality(all') /\ a1 + u1 <= a + u
    <3>1. CASE n = m
      <4>1. Cardinality(all \cup {h + 1}) = a + 1 /\ IsFiniteSet(all \cup {h + 1})
        BY <2>4, <2>5, FS_AddElement
      <4>2. Cardinality(all') \in Nat /\ Cardinality(all') <= a + 1
        BY <2>3, <3>1, <4>1, Fewer
      <4>3. u = u1 + 1
        BY <2>7, <3>1
      <4>. QED
        BY <4>2, <4>3
    <3>2. CASE n # m
      <4>1. Cardinality(all') \in Nat /\ Cardinality(all') <= a
        BY <2>3, <2>4, <2>5, <3>2, Fewer
      <4>2. u = u1
        BY <2>7, <3>2
      <4>. QED
        BY <4>1, <4>2
    <3>. QED
      BY <3>1, <3>2
  <2>10. PICK s1 \in Nat : s1 = Cardinality(saved') /\ s1 + w1 <= s + w
    <3>1. CASE n = m /\ t < c
      <4>1. Cardinality(saved \cup {h + 1}) = s + 1 /\ IsFiniteSet(saved \cup {h + 1})
        BY <2>4, <2>5, FS_AddElement
      <4>2. Cardinality(saved') \in Nat /\ Cardinality(saved') <= s + 1
        BY <2>3, <3>1, <4>1, Fewer
      <4>3. w = w1 + 1
        BY <2>7, <3>1
      <4>. QED
        BY <4>2, <4>3
    <3>2. CASE ~(n = m /\ t < c)
      <4>1. Cardinality(saved') \in Nat /\ Cardinality(saved') <= s
        BY <2>3, <2>4, <2>5, <3>2, Fewer
      <4>2. w = w1
        BY <2>7, <3>2
      <4>. QED
        BY <4>1, <4>2
    <3>. QED
      BY <3>1, <3>2
  <2>11. a1 + u1 <= f + 1 + b /\ s1 + w1 <= f + b
    BY <2>8, <2>9, <2>10
  <2>12. /\ a1 = Cardinality(Again(n, since, t) \cup Again(n, poll.since, t))'
         /\ s1 = Cardinality(Again(n, poll.since, t))'
    BY <2>9, <2>10 DEF all, saved
  <2>. QED
    BY <1>1, <1>6, <2>6, <2>7, <2>11, <2>12 DEF FewCut, FewSaved
<1>. QED
  BY <1>1, <1>8 DEF AgainInv

LEMMA SaveAgain ==
    ASSUME LinksInv, HistoryInv, AgainInv, SaveLinks PROVE AgainInv'
<1>1. /\ poll.pc = "close" /\ poll'.pc = "idle" /\ since' = poll.since /\ poll.ended = {}
      /\ UNCHANGED <<clock, faults, history>>
  BY DEF SaveLinks, Idle, past
<1>2. ASSUME NEW n \in Nodes, NEW t \in Nat PROVE Few(n, t)'
  <2>1. Again(n, since, t)' = Again(n, poll.since, t) /\ Behind(t)' = Behind(t)
    BY <1>1 DEF Again, Redone, Behind, Turn
  <2>2. One(n \in poll.ended /\ t < clock) = 0
    BY <1>1 DEF One
  <2>3. PICK p \in Nat : p = Cardinality(Again(n, poll.since, t))
    BY AgainFinite, FS_CardinalityType
  <2>4. p + 0 <= faults + Behind(t)
    BY <1>1, <2>2, <2>3 DEF AgainInv, FewSaved
  <2>. QED
    BY <1>1, <2>1, <2>3, <2>4 DEF Few
<1>. QED
  BY <1>1, <1>2 DEF AgainInv

LEMMA CutOffAgain ==
    ASSUME LinksInv, LinksInv', HistoryInv, AgainInv, CutOff PROVE AgainInv'
<1>1. /\ poll.pc # "idle" /\ poll'.pc = "idle" /\ faults' = faults + 1
      /\ UNCHANGED <<clock, since, history>>
  BY DEF CutOff, Fault, Idle, files, past
<1>2. ASSUME NEW n \in Nodes, NEW t \in Nat PROVE Few(n, t)'
  <2>1. PICK f, a, b \in Nat : f = faults /\ a = Behind(t) /\ b = Behind(t)' /\ a <= b
    <3>1. Behind(t) \in Nat /\ Behind(t)' \in Nat /\ faults \in Nat
      BY RoomIsANumber, RoomIsANumberLater
    <3>2. Turn \in Int /\ Turn' \in Int /\ Turn <= Turn'
      BY <1>1 DEF LinksInv, Turn
    <3>. QED
      BY <3>1, <3>2, BehindGrows
  <2>2. Again(n, since, t)' = Again(n, since, t)
    BY <1>1 DEF Again, Redone
  <2>3. IsFiniteSet(Again(n, since, t)) /\ IsFiniteSet(Again(n, poll.since, t))
    BY AgainFinite
  <2>4. IsFiniteSet(Again(n, since, t) \cup Again(n, poll.since, t))
    BY <2>3, FS_Union
  <2>5. PICK p, q \in Nat :
          /\ p = Cardinality(Again(n, since, t)) /\ p <= q
          /\ q = Cardinality(Again(n, since, t) \cup Again(n, poll.since, t))
    BY <2>4, Fewer
  <2>6. p <= f + 1 + b
    <3>1. CASE poll.pc # "close"
      <4>1. p <= f + a
        BY <2>1, <2>5, <3>1 DEF AgainInv, Few
      <4>. QED
        BY <2>1, <4>1
    <3>2. CASE poll.pc = "close"
      <4>1. PICK u \in {0, 1} : u = One(n \in poll.ended)
        BY OneIs
      <4>2. q + u <= f + 1 + a
        BY <2>1, <2>5, <3>2, <4>1 DEF AgainInv, FewCut
      <4>. QED
        BY <2>1, <2>5, <4>2
    <3>. QED
      BY <3>1, <3>2
  <2>. QED
    BY <1>1, <2>1, <2>2, <2>5, <2>6 DEF Few
<1>. QED
  BY <1>1, <1>2 DEF AgainInv

LEMMA LoseFileAgain ==
    ASSUME LinksInv, LinksInv', HistoryInv, AgainInv, LoseFile PROVE AgainInv'
<1>1. /\ UNCHANGED <<clock, poll, history>> /\ faults' = faults + 1
      /\ since' = since \/ DOMAIN since' = {}
  BY DEF LoseFile, Fault, past
<1>2. ASSUME NEW t \in Nat
      PROVE  Behind(t)' = Behind(t) /\ Behind(t) \in Nat /\ faults \in Nat
             /\ faults + Behind(t) <= faults' + Behind(t)'
  <2>1. Behind(t)' = Behind(t) /\ Behind(t) \in Nat /\ faults \in Nat
    BY <1>1, RoomIsANumber DEF Behind, Turn
  <2>. QED
    BY <1>1, <2>1
<1>3. ASSUME poll.pc # "close", NEW n \in Nodes, NEW t \in Nat PROVE Few(n, t)'
  <2>1. Few(n, t)
    BY <1>3 DEF AgainInv
  <2>. QED
    BY <1>1, <1>2, <2>1, QuietAgain
<1>4. ASSUME poll.pc = "close", NEW n \in Nodes, NEW t \in Nat PROVE FewCut(n, t)' /\ FewSaved(n, t)'
  <2>1. /\ Again(n, since, t)' \subseteq Again(n, since, t)
        /\ Again(n, poll.since, t)' = Again(n, poll.since, t)
    BY <1>1 DEF Again, Redone
  <2>2. IsFiniteSet(Again(n, since, t)) /\ IsFiniteSet(Again(n, poll.since, t))
    BY AgainFinite
  <2>3. IsFiniteSet(Again(n, since, t) \cup Again(n, poll.since, t))
    BY <2>2, FS_Union
  <2>4. PICK p, q, s \in Nat :
          /\ p = Cardinality(Again(n, since, t) \cup Again(n, poll.since, t))'
          /\ q = Cardinality(Again(n, since, t) \cup Again(n, poll.since, t)) /\ p <= q
          /\ s = Cardinality(Again(n, poll.since, t)) /\ s = Cardinality(Again(n, poll.since, t))'
    <3>1. (Again(n, since, t) \cup Again(n, poll.since, t))'
            \subseteq Again(n, since, t) \cup Again(n, poll.since, t)
      BY <2>1
    <3>2. Cardinality(Again(n, poll.since, t)) \in Nat
      BY <2>2, FS_CardinalityType
    <3>. QED
      BY <2>1, <2>3, <3>1, <3>2, Fewer
  <2>5. PICK u, w \in {0, 1} :
          /\ u = One(n \in poll.ended) /\ u = One(n \in poll.ended)'
          /\ w = One(n \in poll.ended /\ t < clock) /\ w = One(n \in poll.ended /\ t < clock)'
    <3>1. One(n \in poll.ended) \in {0, 1} /\ One(n \in poll.ended /\ t < clock) \in {0, 1}
      BY OneIs
    <3>2. /\ One(n \in poll.ended)' = One(n \in poll.ended)
          /\ One(n \in poll.ended /\ t < clock)' = One(n \in poll.ended /\ t < clock)
      BY <1>1 DEF One
    <3>. QED
      BY <3>1, <3>2
  <2>6. PICK f, b \in Nat : f = faults /\ faults' = f + 1 /\ b = Behind(t) /\ b = Behind(t)'
    BY <1>1, <1>2
  <2>7. q + u <= f + 1 + b /\ s + w <= f + b
    BY <1>4, <2>4, <2>5, <2>6 DEF AgainInv, FewCut, FewSaved
  <2>8. p + u <= f + 1 + 1 + b /\ s + w <= f + 1 + b
    BY <2>4, <2>7
  <2>. QED
    BY <2>4, <2>5, <2>6, <2>8 DEF FewCut, FewSaved
<1>. QED
  BY <1>1, <1>3, <1>4 DEF AgainInv

LEMMA AgainStep ==
    LinksInv /\ LinksInv' /\ HistoryInv /\ HistoryInv' /\ AgainInv /\ [Next]_vars => AgainInv'
<1> SUFFICES ASSUME LinksInv, LinksInv', HistoryInv, HistoryInv', AgainInv, [Next]_vars
    PROVE  AgainInv'
  OBVIOUS
<1>1. CASE Poll \/ RadioEvents \/ Publish
  <2>1. /\ poll.pc # "close" /\ poll'.pc # "close" /\ UNCHANGED <<since, history, faults>>
        /\ Turn \in Int /\ Turn' \in Int /\ Turn <= Turn'
    BY <1>1, QuietSteps
  <2>2. ASSUME NEW n \in Nodes, NEW t \in Nat PROVE Few(n, t)'
    <3>1. PICK f, a, b \in Nat : f = faults /\ f = faults' /\ a = Behind(t) /\ b = Behind(t)' /\ a <= b
      BY <2>1, BehindGrows, RoomIsANumber, RoomIsANumberLater
    <3>2. faults + Behind(t) <= faults' + Behind(t)'
      BY <3>1
    <3>3. Few(n, t)
      BY <2>1 DEF AgainInv
    <3>. QED
      BY <2>1, <3>2, <3>3, QuietAgain
  <2>. QED
    BY <2>1, <2>2 DEF AgainInv
<1>2. CASE SetClockBack
  <2>1. /\ poll.pc = "idle" /\ poll'.pc = "idle" /\ faults' = faults + 1 /\ UNCHANGED <<since, history>>
    BY <1>2 DEF SetClockBack, Fault, files, past
  <2>2. ASSUME NEW n \in Nodes, NEW t \in Nat PROVE Few(n, t)'
    <3>1. PICK f, a, b \in Nat : f = faults /\ f + 1 = faults' /\ a = Behind(t) /\ b = Behind(t)' /\ a <= b + 1
      BY <1>2, <2>1, BehindBack, RoomIsANumber
    <3>2. faults + Behind(t) <= faults' + Behind(t)'
      BY <3>1
    <3>3. Few(n, t)
      BY <2>1 DEF AgainInv
    <3>. QED
      BY <2>1, <3>2, <3>3, QuietAgain
  <2>. QED
    BY <2>1, <2>2 DEF AgainInv
<1>3. CASE UNCHANGED vars
  <2>1. UNCHANGED <<poll, clock, since, history, faults>>
    BY <1>3 DEF vars, files, past
  <2>2. ASSUME NEW n, NEW t
        PROVE  /\ (Few(n, t)' <=> Few(n, t)) /\ (FewCut(n, t)' <=> FewCut(n, t))
               /\ (FewSaved(n, t)' <=> FewSaved(n, t))
    BY <2>1 DEF Few, FewCut, FewSaved, Again, Redone, Behind, Turn, One
  <2>. QED
    BY <2>1, <2>2 DEF AgainInv
<1>. QED
  BY <1>1, <1>2, <1>3, CompareAgain, CloseAgain, SaveAgain, CutOffAgain, LoseFileAgain DEF Next

LEMMA AgainStart == Init => AgainInv
<1>. SUFFICES ASSUME Init PROVE AgainInv
  OBVIOUS
<1>1. DOMAIN history = {} /\ faults = 0 /\ clock = 0 /\ poll.pc = "idle"
  BY DEF Init, Idle
<1>2. ASSUME NEW n \in Nodes, NEW t \in Nat PROVE Few(n, t)
  <2>1. Again(n, since, t) = {} /\ Behind(t) = 0
    BY <1>1 DEF Again, Behind, Turn
  <2>2. Cardinality(Again(n, since, t)) = 0
    BY <2>1, FS_EmptySet
  <2>. QED
    BY <1>1, <2>1, <2>2 DEF Few
<1>. QED
  BY <1>1, <1>2 DEF AgainInv

\* Between two polls the open sessions and the recorded ones that the health loop adds up are
\* as many as the polls saw begin, and none of them overlaps a later one of its node, but for
\* one record per fault (connection_stats.py:105, :157).
THEOREM SessionsAreWhole == Spec => []SessionsAreCounted
<1>1. LinksInv /\ HistoryInv /\ CountInv /\ AgainInv => SessionsAreCounted
  <2>. SUFFICES ASSUME LinksInv, HistoryInv, CountInv, AgainInv, poll.pc = "idle", NEW n \in Nodes
       PROVE  /\ Cardinality(Repeated(n)) <= faults
              /\ Balanced(Connections(n), Cardinality(Begun(n)))
    BY DEF SessionsAreCounted
  <2>1. clock \in Nat /\ faults \in Nat
    BY DEF LinksInv
  <2>2. Behind(clock) = 0
    BY <2>1 DEF Behind, Turn
  <2>3. Cardinality(Repeated(n)) <= faults
    <3>1. Repeated(n) \subseteq Again(n, since, clock)
      BY DEF Repeated, Completed, Again, Redone
    <3>2. PICK p, q \in Nat : /\ p = Cardinality(Repeated(n))
                              /\ q = Cardinality(Again(n, since, clock)) /\ p <= q
      BY <3>1, AgainFinite, Fewer
    <3>3. q <= faults + 0
      BY <2>1, <2>2, <3>2 DEF AgainInv, Few
    <3>. QED
      BY <2>1, <3>2, <3>3
  <2>4. Balanced(Connections(n), Cardinality(Begun(n)))
    <3>1. PICK d, g \in Nat : d = Cardinality(DoneBy(n, clock)) /\ g = Cardinality(Begun(n))
      BY CountsAreNumbers
    <3>2. DoneBy(n, clock) = Completed(n)
      BY DEF DoneBy, Completed
    <3>3. n \in DOMAIN Loaded <=> OpenBy(n, clock)
      BY DEF Loaded, OpenBy, Visible
    <3>4. PICK o, x, y \in {0, 1} :
            /\ o = (IF n \in DOMAIN Loaded THEN 1 ELSE 0)
            /\ x = One(OpenBy(n, clock) /\ Seen(n)) /\ y = One(OpenBy(n, clock) \/ Seen(n))
            /\ x <= o /\ o <= y
      <4>1. /\ One(OpenBy(n, clock)) = IF n \in DOMAIN Loaded THEN 1 ELSE 0
            /\ One(OpenBy(n, clock) /\ Seen(n)) <= One(OpenBy(n, clock))
            /\ One(OpenBy(n, clock)) <= One(OpenBy(n, clock) \/ Seen(n))
        BY <3>3 DEF One
      <4>2. /\ One(OpenBy(n, clock)) \in {0, 1} /\ One(OpenBy(n, clock) /\ Seen(n)) \in {0, 1}
            /\ One(OpenBy(n, clock) \/ Seen(n)) \in {0, 1}
        BY OneIs
      <4>. QED
        BY <4>1, <4>2
    <3>5. Room(clock) = faults + 0
      <4>1. ~(Visible(clock) /\ ~Visible(clock))
        OBVIOUS
      <4>. QED
        BY <2>1, <2>2, <4>1, RoomIsANumber
    <3>6. -faults <= (d - g) + x /\ (d - g) + y <= faults
      <4>1. Between(n, clock)
        BY <2>1 DEF CountInv
      <4>. QED
        BY <2>1, <3>1, <3>4, <3>5, <4>1 DEF Between, Excess
    <3>7. (d + o) - g \in (-faults)..faults
      BY <2>1, <3>1, <3>4, <3>6
    <3>. QED
      BY <3>1, <3>2, <3>4, <3>7 DEF Balanced, Connections
  <2>. QED
    BY <2>3, <2>4
<1>. QED
  BY <1>1, TimerStart, LinksStart, HistoryStart, CountStart, AgainStart,
     TimerStep, LinksStep, HistoryStep, CountStep, AgainStep, PTL DEF Spec
===============================================================================
