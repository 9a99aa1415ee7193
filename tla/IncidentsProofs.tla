---------------------------- MODULE IncidentsProofs ----------------------------
(* The incidents made of the event log and the advice of intelligence.json, for    *)
(* every set of readings, every log and every loss of events, files and threads:   *)
(* what is open in the log is listed, once; what was resolved stays so, unless the *)
(* log loses one of two OFFLINE events of one outage; the two engines and the count *)
(* of the window agree with the list; and the advice never plays an incident down. *)
EXTENDS Incidents, TLAPS, FiniteSetTheorems, SequenceTheorems, WellFoundedInduction

-------------------------------------------------------------------------------
(* The least and the greatest of a set of numbers, and what the operators of        *)
(* IncidentRecords make of closings: where an incident begins, when it ends, and    *)
(* the place of what is restored.                                                   *)
\* Every set of numbers has a least one, and Min is it.
LEMMA Least ==
    ASSUME NEW S \in SUBSET Nat, S # {}
    PROVE  Min(S) \in S /\ \A y \in S : Min(S) <= y
<1>. DEFINE less == {p \in Nat \X Nat : p[1] < p[2]}
<1>1. IsWellFoundedOn(less, Nat)
  BY ONLY NatLessThanWellFounded, Zenon DEF OpToRel
<1>2. PICK x \in S : \A y \in S : <<y, x>> \notin less
  <2>. HIDE DEF less
  <2>. QED
    BY <1>1, WFMin
<1>3. \A y \in S : ~(y < x)
  BY <1>2
<1>4. \A y \in S : x <= y
  BY <1>3
<1>. QED
  BY <1>4 DEF Min

\* And a bounded one has a greatest.
LEMMA Greatest ==
    ASSUME NEW S \in SUBSET Nat, S # {}, NEW n \in Nat, \A y \in S : y <= n
    PROVE  Max(S) \in S /\ \A y \in S : y <= Max(S)
<1>. DEFINE away == {n - y : y \in S}
<1>1. away \in SUBSET Nat /\ away # {}
  <2>1. \A y \in S : n - y \in Nat
    OBVIOUS
  <2>. QED
    BY <2>1
<1>2. PICK a \in away : \A b \in away : a <= b
  <2>. HIDE DEF away
  <2>. QED
    BY <1>1, Least
<1>3. PICK x \in S : a = n - x
  OBVIOUS
<1>4. \A y \in S : y <= x
  <2>. TAKE y \in S
  <2>1. a <= n - y
    BY <1>2
  <2>. QED
    BY <1>3, <2>1
<1>5. \A y \in S : x >= y
  BY <1>4
<1>. QED
  BY <1>5 DEF Max

\* A closing has a place in a log and a stamp of a real second.
Positioned(closings) == \A x \in closings : x.place \in Nat /\ x.at \in Nat \ {0}

\* Of the openings no closing separates from i, the first begins an incident that lasts to i.
LEMMA FirstBegins ==
    ASSUME NEW openings \in SUBSET Nat, NEW closings, Positioned(closings), NEW i \in openings
    PROVE  \E m \in Begins(openings, closings) : m <= i /\ ~Ended(closings, m, i)
<1>. DEFINE lasting == {m \in openings : m <= i /\ ~Ended(closings, m, i)}
<1>1. i \in lasting
  BY DEF Ended, Positioned
<1>2. PICK m \in lasting : \A k \in lasting : m <= k
  <2>1. lasting \in SUBSET Nat /\ lasting # {}
    BY <1>1
  <2>. HIDE DEF lasting
  <2>. QED
    BY <2>1, Least
<1>3. ASSUME NEW k \in openings, k < m PROVE Ended(closings, k, m)
  <2>1. k \notin lasting
    BY <1>2, <1>3
  <2>2. PICK x \in closings : k < x.place /\ x.place <= i
    BY <1>2, <1>3, <2>1 DEF Ended
  <2>3. ~(m < x.place)
    BY <1>2, <2>2 DEF Ended
  <2>. QED
    BY <1>3, <2>2, <2>3 DEF Ended, Positioned
<1>. QED
  BY <1>2, <1>3 DEF Begins

\* The end of an incident is the earliest closing after it, and 0 where there is none.
LEMMA EndFacts ==
    ASSUME NEW closings, Positioned(closings), NEW i \in Nat
    PROVE  /\ EndOf(closings, i) \in Nat
           /\ EndOf(closings, i) = 0 <=> \A y \in closings : ~(i < y.place)
           /\ EndOf(closings, i) # 0 => \E y \in closings : i < y.place /\ EndOf(closings, i) = y.at
           /\ \A y \in closings : i < y.place => EndOf(closings, i) <= y.at
<1>. DEFINE after == {y \in closings : i < y.place}
            later == {x.at : x \in after}
<1>1. EndOf(closings, i) = IF later = {} THEN 0 ELSE Min(later)
  BY DEF EndOf
<1>2. later \in SUBSET (Nat \ {0})
  BY DEF Positioned
<1>3. later # {} => Min(later) \in later /\ \A t \in later : Min(later) <= t
  <2>. HIDE DEF later
  <2>. QED
    BY <1>2, Least
<1>4. \A y \in closings : i < y.place => y.at \in later
  OBVIOUS
<1>5. \A t \in later : \E y \in closings : i < y.place /\ t = y.at
  OBVIOUS
<1>6. CASE later = {}
  <2>. HIDE DEF later
  <2>. QED
    BY <1>1, <1>4, <1>6
<1>7. CASE later # {}
  <2>. HIDE DEF later
  <2>1. EndOf(closings, i) = Min(later) /\ EndOf(closings, i) \in later
    BY <1>1, <1>3, <1>7
  <2>. QED
    BY <1>2, <1>3, <1>4, <1>5, <2>1
<1>. QED
  BY <1>6, <1>7

\* Where a closing of that time is put back.
Place(events, time) == Min({i \in DOMAIN events : events[i].at > time} \cup {Len(events) + 1})

\* All events before that place are no later than the time, all from it on are later.
LEMMA PlaceFacts ==
    ASSUME NEW events \in Seq(Loggable), NEW time \in Nat
    PROVE  /\ Place(events, time) \in 1..(Len(events) + 1)
           /\ \A i \in DOMAIN events : i < Place(events, time) => events[i].at <= time
           /\ \A i \in DOMAIN events : events[i].at > time => Place(events, time) <= i
           /\ Place(events, time) \in DOMAIN events => events[Place(events, time)].at > time
<1>. DEFINE later == {i \in DOMAIN events : events[i].at > time}
<1>1. later \cup {Len(events) + 1} \in SUBSET (1..(Len(events) + 1)) /\ later \cup {Len(events) + 1} # {}
  OBVIOUS
<1>2. \A i \in DOMAIN events : events[i].at \in Nat /\ i \in Nat
  <2>. TAKE i \in DOMAIN events
  <2>1. events[i] \in Loggable /\ i \in Nat
    OBVIOUS
  <2>. QED
    BY <2>1, IncidentsAssumption DEF Loggable
<1>3. /\ Place(events, time) \in later \cup {Len(events) + 1}
      /\ \A i \in later \cup {Len(events) + 1} : Place(events, time) <= i
  <2>1. Place(events, time) = Min(later \cup {Len(events) + 1})
    BY DEF Place
  <2>2. later \cup {Len(events) + 1} \in SUBSET Nat
    BY <1>1
  <2>. HIDE DEF later
  <2>. QED
    BY <1>1, <2>1, <2>2, Least
<1>4. \A i \in DOMAIN events : events[i].at > time => Place(events, time) <= i
  BY <1>3
<1>5. Place(events, time) \in 1..(Len(events) + 1)
  BY <1>1, <1>3
<1>6. \A i \in DOMAIN events : i < Place(events, time) => ~(events[i].at > time)
  BY <1>2, <1>4, <1>5
<1>7. Place(events, time) \in DOMAIN events => Place(events, time) \in later
  BY <1>3
<1>8. Place(events, time) \in DOMAIN events => events[Place(events, time)].at > time
  BY <1>7
<1>. QED
  BY <1>2, <1>4, <1>5, <1>6, <1>8

-------------------------------------------------------------------------------
(* What a record is made of, and the two engines on one log. *)
\* A log in the order of its stamps.
InOrder(events) == \A i, j \in DOMAIN events : i <= j => events[i].at <= events[j].at

\* The positions and stamps of a log.
LEMMA Entries ==
    ASSUME NEW events \in Seq(Loggable), NEW i \in DOMAIN events
    PROVE  i \in Nat \ {0} /\ i <= Len(events) /\ events[i] \in Loggable /\ events[i].at \in Nat \ {0}
<1>1. events[i] \in Loggable /\ i \in 1..Len(events)
  OBVIOUS
<1>. QED
  BY <1>1, IncidentsAssumption DEF Loggable

LEMMA IncidentFacts ==
    ASSUME NEW events, NEW c, NEW closings, NEW i, NEW words
    PROVE  /\ Incident(events, c, closings, i, words).component = c
           /\ Incident(events, c, closings, i, words).start = events[i].at
           /\ Incident(events, c, closings, i, words).end = EndOf(closings, i)
           /\ ~Incident(events, c, closings, i, words).inferred
BY DEF Incident

\* Each record is the incident of a position where one begins.
LEMMA RecordOf ==
    ASSUME NEW events, NEW inferred, NEW r \in Records(events, inferred)
    PROVE  \E c \in Components : \E i \in Begins(Openings(events, c), Closings(events, inferred, c)) :
               /\ r = Incident(events, c, Closings(events, inferred, c), i, {"success", "failed"})
               /\ r.component = c /\ i \in DOMAIN events /\ Opens(events[i], c) /\ r.start = events[i].at
               /\ r.end = EndOf(Closings(events, inferred, c), i) /\ ~r.inferred
<1>1. PICK c \in Components : r \in RecordsOf(events, inferred, c)
  BY Zenon DEF Records
<1>2. PICK i \in Begins(Openings(events, c), Closings(events, inferred, c)) :
          r = Incident(events, c, Closings(events, inferred, c), i, {"success", "failed"})
  BY <1>1, Zenon DEF RecordsOf
<1>3. i \in DOMAIN events /\ Opens(events[i], c)
  BY DEF Begins, Openings
<1>4. /\ r.component = c /\ r.start = events[i].at
      /\ r.end = EndOf(Closings(events, inferred, c), i) /\ ~r.inferred
  BY <1>2, IncidentFacts
<1>. QED
  BY <1>2, <1>3, <1>4, Zenon

\* And each such position has its record.
LEMMA ListedBegins ==
    ASSUME NEW events, NEW inferred, NEW c \in Components,
           NEW i \in Begins(Openings(events, c), Closings(events, inferred, c))
    PROVE  \E r \in Records(events, inferred) :
               /\ r = Incident(events, c, Closings(events, inferred, c), i, {"success", "failed"})
               /\ r.component = c /\ r.start = events[i].at /\ ~r.inferred
               /\ r.end = EndOf(Closings(events, inferred, c), i)
<1>. DEFINE r == Incident(events, c, Closings(events, inferred, c), i, {"success", "failed"})
<1>1. r \in RecordsOf(events, inferred, c)
  BY Zenon DEF RecordsOf
<1>2. r \in Records(events, inferred)
  BY <1>1, Zenon DEF Records
<1>. HIDE DEF r
<1>3. r.component = c /\ r.start = events[i].at /\ ~r.inferred
      /\ r.end = EndOf(Closings(events, inferred, c), i)
  BY IncidentFacts DEF r
<1>. QED
  BY <1>2, <1>3 DEF r

LEMMA ClosingFields == ASSUME NEW i, NEW at PROVE Closing(i, at).place = i /\ Closing(i, at).at = at
BY DEF Closing

LEMMA LoggedClosing ==
    ASSUME NEW events, NEW inferred, NEW c, NEW j \in DOMAIN events, Closes(events[j], c)
    PROVE  Closing(j, events[j].at) \in Closings(events, inferred, c)
BY DEF Closings

\* A closing is an event of the log or an inferred end put back.
LEMMA ClosingOf ==
    ASSUME NEW events \in Seq(Loggable), NEW inferred, NEW c, NEW x \in Closings(events, inferred, c)
    PROVE  \/ x.place \in DOMAIN events /\ Closes(events[x.place], c) /\ x.at = events[x.place].at
           \/ \E r \in inferred :
                  /\ r.component = c /\ c \in Outages /\ x.place = Place(events, r.end) /\ x.at = r.end
                  /\ \E i \in Openings(events, c) : events[i].at = r.start
<1>1. CASE \E j \in DOMAIN events : Closes(events[j], c) /\ x = Closing(j, events[j].at)
  BY <1>1, ClosingFields
<1>2. CASE x \in Restored(events, inferred, c)
  <2>1. PICK r \in inferred : /\ r.component = c /\ c \in Outages
                              /\ x = Closing(Place(events, r.end), r.end)
                              /\ \E i \in Openings(events, c) : events[i].at = r.start
    BY <1>2, Zenon DEF Restored, Place
  <2>. QED
    BY <2>1, ClosingFields
<1>. QED
  BY <1>1, <1>2 DEF Closings

LEMMA RestoredClosing ==
    ASSUME NEW events, NEW inferred, NEW c \in Outages, NEW r \in inferred, r.component = c,
           NEW i \in Openings(events, c), events[i].at = r.start
    PROVE  Closing(Place(events, r.end), r.end) \in Closings(events, inferred, c)
BY DEF Closings, Restored, Place

\* All of them have a place and a time.
LEMMA ClosingsPositioned ==
    ASSUME NEW events \in Seq(Loggable), NEW inferred, \A r \in inferred : r.end \in Nat \ {0}, NEW c
    PROVE  Positioned(Closings(events, inferred, c))
<1>. SUFFICES ASSUME NEW x \in Closings(events, inferred, c)
     PROVE  x.place \in Nat /\ x.at \in Nat \ {0}
  BY DEF Positioned
<1>1. CASE x.place \in DOMAIN events /\ x.at = events[x.place].at
  BY <1>1, Entries
<1>2. CASE \E r \in inferred : x.place = Place(events, r.end) /\ x.at = r.end
  BY <1>2, PlaceFacts
<1>. QED
  BY <1>1, <1>2, ClosingOf

\* incident.py closes at fewer events, so the first opening it does not separate from the
\* start of an incident of intelligence.py begins an incident of its own around that one.
LEMMA Agreement ==
    ASSUME NEW events \in Seq(Loggable), InOrder(events),
           NEW r \in Records(events, {}), r.component = "asterisk"
    PROVE  \E s \in AsteriskIncidents(events) :
               s.start <= r.start /\ (s.end = 0 \/ (r.end # 0 /\ r.end <= s.end))
<1>. DEFINE openings == Openings(events, "asterisk")
            all == Closings(events, {}, "asterisk")
            some == {Closing(i, events[i].at) : i \in Told(events, "value", "asterisk", "online")}
<1>1. PICK i \in Begins(openings, all) : r.start = events[i].at /\ r.end = EndOf(all, i)
  <2>1. PICK c \in Components : \E i \in Begins(Openings(events, c), Closings(events, {}, c)) :
               r.component = c /\ r.start = events[i].at /\ r.end = EndOf(Closings(events, {}, c), i)
    BY RecordOf
  <2>. QED
    BY <2>1
<1>2. some \subseteq all
  BY LoggedClosing DEF Told, Closes
<1>3. Positioned(all) /\ Positioned(some)
  <2>1. Positioned(all)
    BY ClosingsPositioned
  <2>. QED
    BY <1>2, <2>1 DEF Positioned
<1>4. openings \in SUBSET Nat /\ openings \subseteq DOMAIN events /\ i \in openings
  BY DEF Openings, Begins
<1>. HIDE DEF openings, all
<1>5. PICK m \in Begins(openings, some) : m <= i /\ ~Ended(some, m, i)
  <2>. HIDE DEF some
  <2>. QED
    BY <1>3, <1>4, FirstBegins
<1>6. m \in openings
  BY DEF Begins
<1>. DEFINE s == Incident(events, "asterisk", some, m, {"success", "failed", "cancelled"})
<1>7. s \in AsteriskIncidents(events)
  BY DEF AsteriskIncidents, openings
<1>. HIDE DEF some
<1>8. s.start = events[m].at /\ s.end = EndOf(some, m)
  BY IncidentFacts DEF s
<1>. HIDE DEF s
<1>9. s.start <= r.start
  BY <1>1, <1>4, <1>5, <1>6, <1>8 DEF InOrder
<1>10. ASSUME s.end # 0 PROVE r.end # 0 /\ r.end <= s.end
  <2>1. PICK y \in some : m < y.place /\ s.end = y.at
    BY <1>3, <1>4, <1>6, <1>8, <1>10, EndFacts
  <2>2. i < y.place
    BY <1>3, <1>4, <1>5, <1>6, <2>1 DEF Ended, Positioned
  <2>3. EndOf(all, i) # 0 /\ EndOf(all, i) <= y.at
    BY <1>2, <1>3, <1>4, <2>2, EndFacts
  <2>. QED
    BY <1>1, <2>1, <2>3
<1>. QED
  BY <1>7, <1>9, <1>10

-------------------------------------------------------------------------------
(* The window of the statistics is the end of a log that is in order. *)
\* The events of the window are those after some position k.
LEMMA RecentFacts ==
    ASSUME NEW events \in Seq(Loggable), InOrder(events), NEW now \in Nat
    PROVE  \E k \in 0..Len(events) :
               /\ Recent(events, now) \in Seq(Loggable) /\ Len(Recent(events, now)) = Len(events) - k
               /\ \A i \in 1..(Len(events) - k) : Recent(events, now)[i] = events[i + k]
               /\ \A i \in 1..Len(events) : i <= k <=> events[i].at + Day < now
<1>. DEFINE past == {i \in DOMAIN events : events[i].at + Day < now}
            rest == (1..(Len(events) + 1)) \ past
            k == Min(rest) - 1
<1>1. DOMAIN events = 1..Len(events) /\ Len(events) \in Nat
  OBVIOUS
<1>2. Min(rest) \in rest /\ \A i \in rest : Min(rest) <= i
  <2>1. rest \in SUBSET Nat /\ Len(events) + 1 \in rest
    BY <1>1
  <2>. HIDE DEF rest
  <2>. QED
    BY <2>1, Least
<1>3. k \in 0..Len(events) /\ k + 1 = Min(rest)
  BY <1>1, <1>2
<1>4. \A i \in 1..Len(events) : events[i].at \in Nat
  BY <1>1, Entries
<1>5. past = 1..k
  <2>1. ASSUME NEW i \in 1..k PROVE i \in past
    <3>1. i \notin rest /\ i \in 1..(Len(events) + 1)
      <4>. HIDE DEF rest, k
      <4>. QED
        BY <1>1, <1>2, <1>3
    <3>. QED
      BY <3>1
  <2>2. ASSUME NEW i \in past, ~(i \in 1..k) PROVE FALSE
    <3>1. k + 1 \in DOMAIN events /\ k + 1 \notin past /\ k + 1 <= i /\ i \in DOMAIN events
      <4>1. i \in 1..Len(events)
        BY <1>1
      <4>2. k + 1 <= i /\ k + 1 \in rest
        <5>. HIDE DEF k, rest, past
        <5>. QED
          BY <1>2, <1>3, <2>2, <4>1
      <4>. QED
        BY <1>1, <1>3, <4>1, <4>2
    <3>. HIDE DEF k
    <3>2. events[k + 1].at <= events[i].at
      BY <3>1 DEF InOrder
    <3>. QED
      BY <1>1, <1>3, <1>4, <3>1, <3>2, DayAssumption
  <2>. QED
    BY <1>1, <2>1, <2>2
<1>6. Cardinality(past) = k
  <2>. HIDE DEF k, past
  <2>. QED
    BY <1>3, <1>5, FS_Interval
<1>7. Recent(events, now) = SubSeq(events, k + 1, Len(events))
  <2>1. Recent(events, now) = SubSeq(events, Cardinality(past) + 1, Len(events))
    BY DEF Recent
  <2>. HIDE DEF past, k
  <2>. QED
    BY <1>6, <2>1
<1>8. \A i \in 1..Len(events) : i <= k <=> events[i].at + Day < now
  <2>. TAKE i \in 1..Len(events)
  <2>1. i \in past <=> events[i].at + Day < now
    BY <1>1
  <2>. HIDE DEF past, k
  <2>. QED
    BY <1>3, <1>5, <2>1
<1>. HIDE DEF past, k
<1>9. /\ Recent(events, now) \in Seq(Loggable) /\ Len(Recent(events, now)) = Len(events) - k
      /\ \A i \in 1..(Len(events) - k) : Recent(events, now)[i] = events[i + k]
  <2>. DEFINE n == Len(events)
  <2>1. \A i \in (k + 1)..n : events[i] \in Loggable
    BY <1>1, <1>3
  <2>2. n \in Nat /\ k \in 0..n
    BY <1>1, <1>3
  <2>. HIDE DEF n
  <2>3. /\ SubSeq(events, k + 1, n) \in Seq(Loggable)
        /\ Len(SubSeq(events, k + 1, n)) = IF k + 1 <= n THEN n - (k + 1) + 1 ELSE 0
        /\ \A i \in 1..(n - (k + 1) + 1) : SubSeq(events, k + 1, n)[i] = events[k + 1 + i - 1]
    <3>1. k + 1 \in Int /\ n \in Int
      BY <2>2
    <3>. QED
      BY <2>1, <3>1, SubSeqProperties
  <2>4. n - (k + 1) + 1 = n - k /\ (k + 1 <= n \/ n - k = 0)
    BY <2>2
  <2>5. \A i \in 1..(n - k) : k + 1 + i - 1 = i + k
    BY <2>2
  <2>6. /\ Len(SubSeq(events, k + 1, n)) = n - k
        /\ \A i \in 1..(n - k) : SubSeq(events, k + 1, n)[i] = events[i + k]
    BY <2>3, <2>4, <2>5
  <2>. QED
    BY <1>7, <2>3, <2>6 DEF n
<1>. QED
  BY <1>3, <1>8, <1>9

\* An incident that begins in the window begins in the events of the window alone.
LEMMA RecentKept ==
    ASSUME NEW events \in Seq(Loggable), InOrder(events), NEW now \in Nat,
           NEW r \in Records(events, {}), r.start + Day >= now
    PROVE  \E s \in RecentIncidents(events, now) : Keyed(s) = Keyed(r)
<1>. DEFINE recent == Recent(events, now)
<1>1. PICK k \in 0..Len(events) :
          /\ recent \in Seq(Loggable) /\ Len(recent) = Len(events) - k
          /\ \A i \in 1..(Len(events) - k) : recent[i] = events[i + k]
          /\ \A i \in 1..Len(events) : i <= k <=> events[i].at + Day < now
  BY RecentFacts
<1>2. PICK c \in Components :
          \E i \in Begins(Openings(events, c), Closings(events, {}, c)) :
              r.component = c /\ i \in DOMAIN events /\ Opens(events[i], c) /\ r.start = events[i].at
  BY RecordOf
<1>10. PICK i \in Begins(Openings(events, c), Closings(events, {}, c)) :
          r.component = c /\ i \in DOMAIN events /\ Opens(events[i], c) /\ r.start = events[i].at
  BY <1>2
<1>. DEFINE openings == Openings(recent, c)
            closings == Closings(recent, {}, c)
<1>. HIDE DEF recent
<1>3. Len(events) \in Nat /\ DOMAIN events = 1..Len(events) /\ DOMAIN recent = 1..(Len(events) - k)
  BY <1>1
<1>4. i \in 1..Len(events) /\ i > k /\ r.start \in Nat
  BY <1>1, <1>10, <1>3, Entries, DayAssumption
<1>5. i - k \in openings /\ recent[i - k] = events[i]
  <2>1. i - k \in 1..(Len(events) - k) /\ (i - k) + k = i
    BY <1>1, <1>3, <1>4
  <2>2. recent[i - k] = events[i]
    BY <1>1, <2>1
  <2>. QED
    BY <1>10, <1>3, <2>1, <2>2 DEF Openings
<1>6. ASSUME NEW j \in openings, j < i - k PROVE Ended(closings, j, i - k)
  <2>1. j \in 1..(Len(events) - k) /\ recent[j] = events[j + k] /\ Opens(recent[j], c)
    BY <1>1, <1>3 DEF Openings
  <2>2. j + k \in Openings(events, c) /\ j + k < i
    BY <1>3, <1>4, <1>6, <2>1 DEF Openings
  <2>3. PICK x \in Closings(events, {}, c) : j + k < x.place /\ x.place <= i
    BY <2>2 DEF Begins, Ended
  <2>4. x.place \in DOMAIN events /\ Closes(events[x.place], c)
    BY ClosingOf
  <2>5. x.place - k \in DOMAIN recent /\ recent[x.place - k] = events[x.place]
    BY <1>1, <1>3, <2>1, <2>3, <2>4
  <2>. DEFINE y == Closing(x.place - k, recent[x.place - k].at)
  <2>6. y \in closings
    <3>1. Closes(recent[x.place - k], c)
      BY <2>4, <2>5
    <3>. QED
      BY <2>5, <3>1, LoggedClosing
  <2>7. y.place = x.place - k
    BY ClosingFields
  <2>. HIDE DEF y, closings
  <2>. QED
    BY <1>3, <1>4, <2>1, <2>3, <2>4, <2>6, <2>7 DEF Ended
<1>7. i - k \in Begins(openings, closings)
  BY <1>5, <1>6 DEF Begins
<1>8. PICK s \in Records(recent, {}) : s.component = c /\ s.start = recent[i - k].at
  BY <1>7, ListedBegins
<1>9. s \in RecentIncidents(events, now)
  BY <1>8 DEF RecentIncidents, recent
<1>. QED
  BY <1>10, <1>5, <1>8, <1>9 DEF Keyed

-------------------------------------------------------------------------------
(* The records are incidents, and what reconciliation makes of each of them. *)
\* What a record may say of the recovery.
Outcomes == {"none", "success", "failed"}

LEMMA RecoveryTyped ==
    ASSUME NEW events \in Seq(Loggable), NEW span
    PROVE  RecoveryFields(events, span, {"success", "failed"}) \in [attempted : BOOLEAN, outcome : Outcomes]
<1>. DEFINE words == {"success", "failed"}
            outcomes == span \cap UNION {Told(events, "recovery", "asterisk", w) : w \in words}
            tried == span \cap Told(events, "recovery", "asterisk", "attempt") # {}
            last == IF outcomes = {} THEN "none" ELSE events[Max(outcomes)].is
<1>1. \A i \in outcomes : i \in DOMAIN events /\ events[i].is \in words
  BY DEF Told, Is
<1>2. RecoveryFields(events, span, words) = [attempted |-> tried, outcome |-> last]
  BY Zenon DEF RecoveryFields
<1>3. words \subseteq Outcomes /\ "none" \in Outcomes
  BY DEF Outcomes
<1>. HIDE DEF outcomes, words
<1>4. outcomes # {} => Max(outcomes) \in outcomes
  <2>1. DOMAIN events = 1..Len(events) /\ Len(events) \in Nat
    OBVIOUS
  <2>2. outcomes \in SUBSET Nat /\ \A i \in outcomes : i <= Len(events)
    BY <1>1, <2>1
  <2>. QED
    BY <2>1, <2>2, Greatest
<1>5. last \in Outcomes
  <2>1. CASE outcomes = {}
    BY <1>3, <2>1
  <2>2. CASE outcomes # {}
    <3>1. events[Max(outcomes)].is \in words
      BY <1>1, <1>4, <2>2
    <3>. QED
      BY <1>3, <2>2, <3>1
  <2>. QED
    BY <2>1, <2>2
<1>6. tried \in BOOLEAN
  OBVIOUS
<1>. HIDE DEF tried, last
<1>7. RecoveryFields(events, span, words) \in [attempted : BOOLEAN, outcome : Outcomes]
  BY <1>2, <1>5, <1>6
<1>. QED
  BY <1>7 DEF words

\* What was inferred has an end.
Ends(inferred) == \A r \in inferred : r.end \in 1..MaxClock

LEMMA ClosingTimes ==
    ASSUME NEW events \in Seq(Loggable), NEW inferred, Ends(inferred), NEW c
    PROVE  /\ Positioned(Closings(events, inferred, c))
           /\ \A x \in Closings(events, inferred, c) : x.at \in 1..MaxClock
<1>1. Positioned(Closings(events, inferred, c))
  BY ClosingsPositioned, IncidentsAssumption DEF Ends
<1>2. ASSUME NEW x \in Closings(events, inferred, c) PROVE x.at \in 1..MaxClock
  <2>1. CASE x.place \in DOMAIN events /\ x.at = events[x.place].at
    <3>1. events[x.place] \in Loggable
      BY <2>1
    <3>. QED
      BY <2>1, <3>1 DEF Loggable
  <2>2. CASE \E r \in inferred : x.at = r.end
    BY <2>2 DEF Ends
  <2>. QED
    BY <2>1, <2>2, ClosingOf
<1>. QED
  BY <1>1, <1>2

\* build_incident_records makes incidents.
LEMMA RecordsTyped ==
    ASSUME NEW events \in Seq(Loggable), NEW inferred, Ends(inferred)
    PROVE  Records(events, inferred) \subseteq IncidentTypes
<1>. SUFFICES ASSUME NEW r \in Records(events, inferred) PROVE r \in IncidentTypes
  OBVIOUS
<1>1. PICK c \in Components :
          \E i \in Begins(Openings(events, c), Closings(events, inferred, c)) :
              /\ r = Incident(events, c, Closings(events, inferred, c), i, {"success", "failed"})
              /\ i \in DOMAIN events
  BY RecordOf
<1>. DEFINE closings == Closings(events, inferred, c)
<1>2. PICK i \in DOMAIN events : r = Incident(events, c, closings, i, {"success", "failed"})
  BY <1>1
<1>3. Positioned(closings) /\ \A x \in closings : x.at \in 1..MaxClock
  BY ClosingTimes
<1>. HIDE DEF closings
<1>4. EndOf(closings, i) \in 0..MaxClock
  <2>1. i \in Nat
    BY Entries
  <2>. QED
    <3>1. CASE EndOf(closings, i) = 0
      BY <3>1, IncidentsAssumption
    <3>2. CASE EndOf(closings, i) # 0
      <4>1. PICK y \in closings : EndOf(closings, i) = y.at
        BY <1>3, <2>1, <3>2, EndFacts
      <4>2. y.at \in 1..MaxClock
        BY <1>3
      <4>. QED
        BY <4>1, <4>2, IncidentsAssumption
    <3>. QED
      BY <3>1, <3>2
<1>5. events[i].at \in 1..MaxClock
  <2>1. events[i] \in Loggable
    OBVIOUS
  <2>. QED
    BY <2>1 DEF Loggable
<1>. DEFINE span == During(events, closings, i)
            recovery == IF c = "asterisk" THEN RecoveryFields(events, span, {"success", "failed"}) ELSE NoRecovery
            highest == IF c \in Outages \/ span \cap Told(events, "health", c, "critical") # {}
                       THEN "critical" ELSE "warning"
<1>6. recovery \in [attempted : BOOLEAN, outcome : Outcomes]
  <2>1. NoRecovery \in [attempted : BOOLEAN, outcome : Outcomes]
    BY DEF NoRecovery, Outcomes
  <2>2. RecoveryFields(events, span, {"success", "failed"}) \in [attempted : BOOLEAN, outcome : Outcomes]
    BY RecoveryTyped
  <2>. QED
    BY <2>1, <2>2
<1>7. highest \in {"warning", "critical"}
  OBVIOUS
<1>8. r = [component |-> c, start |-> events[i].at, end |-> EndOf(closings, i), inferred |-> FALSE,
           highest |-> highest, recovery |-> recovery]
  BY <1>2, Zenon DEF Incident
<1>. HIDE DEF recovery, highest
<1>. QED
  BY <1>4, <1>5, <1>6, <1>7, <1>8 DEF IncidentTypes, Outcomes

\* What reconcile_incidents makes of one record.
Replayed(q, inferred) ==
    LET prior == {p \in inferred : Keyed(p) = Keyed(q)}
    IN  IF prior = {} THEN q
        ELSE [q EXCEPT !.end = (CHOOSE p \in prior : TRUE).end, !.inferred = TRUE]
Concluded(r, state) ==
    IF r.end = 0 /\ IsNormal(state, r.component) /\ state.at >= r.start
    THEN [r EXCEPT !.end = state.at, !.inferred = TRUE] ELSE r

\* reconcile_incidents treats the records one by one.
LEMMA ReconciledEach ==
    ASSUME NEW records, NEW state, NEW inferred
    PROVE  Reconciled(records, state, inferred) = {Concluded(Replayed(q, inferred), state) : q \in records}
<1>. DEFINE prior(q) == {p \in inferred : Keyed(p) = Keyed(q)}
            replayed(q) == IF prior(q) = {} THEN q
                           ELSE [q EXCEPT !.end = (CHOOSE p \in prior(q) : TRUE).end, !.inferred = TRUE]
            normal(s) == s.end = 0 /\ IsNormal(state, s.component) /\ state.at >= s.start
            concluded(s) == IF normal(s) THEN [s EXCEPT !.end = state.at, !.inferred = TRUE] ELSE s
<1>1. Reconciled(records, state, inferred) = {concluded(s) : s \in {replayed(s) : s \in records}}
  BY Zenon DEF Reconciled
<1>2. \A q : replayed(q) = Replayed(q, inferred) /\ \A s : concluded(s) = Concluded(s, state)
  BY Zenon DEF Replayed, Concluded
<1>. HIDE DEF replayed, concluded
<1>. QED
  BY <1>1, <1>2

\* An incident that was inferred to be over gets that end again; the others stay as they are.
LEMMA ReplayedFacts ==
    ASSUME NEW q \in IncidentTypes, NEW inferred \in SUBSET IncidentTypes
    PROVE  /\ Replayed(q, inferred) \in IncidentTypes
           /\ Keyed(Replayed(q, inferred)) = Keyed(q)
           /\ \/ Replayed(q, inferred) = q /\ \A p \in inferred : Keyed(p) # Keyed(q)
              \/ /\ Replayed(q, inferred).inferred
                 /\ \E p \in inferred : Keyed(p) = Keyed(q) /\ Replayed(q, inferred).end = p.end
<1>. DEFINE prior == {p \in inferred : Keyed(p) = Keyed(q)}
            s == Replayed(q, inferred)
<1>1. CASE prior = {}
  <2>1. s = q
    BY <1>1 DEF Replayed
  <2>2. \A p \in inferred : Keyed(p) # Keyed(q)
    BY <1>1
  <2>. HIDE DEF s
  <2>3. s \in IncidentTypes /\ Keyed(s) = Keyed(q)
    BY <2>1
  <2>. QED
    BY <2>1, <2>2, <2>3 DEF s
<1>2. CASE prior # {}
  <2>1. PICK p \in prior : s = [q EXCEPT !.end = p.end, !.inferred = TRUE]
    BY <1>2 DEF Replayed
  <2>2. p \in inferred /\ Keyed(p) = Keyed(q)
    OBVIOUS
  <2>. HIDE DEF s, prior
  <2>3. p.end \in 0..MaxClock
    BY <2>2 DEF IncidentTypes
  <2>4. s \in IncidentTypes /\ Keyed(s) = Keyed(q) /\ s.inferred /\ s.end = p.end
    BY <2>1, <2>3 DEF IncidentTypes, Keyed
  <2>. QED
    BY <2>2, <2>4 DEF s
<1>. QED
  BY <1>1, <1>2

\* What is unresolved and seen normal ends now.
LEMMA ConcludedFacts ==
    ASSUME NEW s \in IncidentTypes, NEW state, state.at \in 1..MaxClock
    PROVE  /\ Concluded(s, state) \in IncidentTypes
           /\ Keyed(Concluded(s, state)) = Keyed(s)
           /\ \/ /\ Concluded(s, state) = s
                 /\ ~(s.end = 0 /\ IsNormal(state, s.component) /\ state.at >= s.start)
              \/ /\ s.end = 0 /\ IsNormal(state, s.component) /\ state.at >= s.start
                 /\ Concluded(s, state).inferred /\ Concluded(s, state).end = state.at
<1>. DEFINE r == Concluded(s, state)
            normal == s.end = 0 /\ IsNormal(state, s.component) /\ state.at >= s.start
            now == state.at
<1>1. CASE ~normal
  <2>1. r = s
    BY <1>1 DEF Concluded
  <2>. HIDE DEF r
  <2>. QED
    BY <1>1, <2>1 DEF r
<1>2. CASE normal
  <2>1. r = [s EXCEPT !.end = now, !.inferred = TRUE] /\ now \in 0..MaxClock
    BY <1>2, IncidentsAssumption DEF Concluded
  <2>. HIDE DEF r, now
  <2>2. r \in IncidentTypes /\ Keyed(r) = Keyed(s) /\ r.inferred /\ r.end = now
    BY <2>1 DEF IncidentTypes, Keyed
  <2>. QED
    BY <1>2, <2>2 DEF r, now
<1>. QED
  BY <1>1, <1>2

\* One record of each component and start.
OneEach(records) == \A r, s \in records : Keyed(r) = Keyed(s) => r = s

LEMMA ReconciledOneEach ==
    ASSUME NEW records \in SUBSET IncidentTypes, OneEach(records), NEW inferred \in SUBSET IncidentTypes,
           NEW state, state.at \in 1..MaxClock
    PROVE  OneEach(Reconciled(records, state, inferred))
<1>. SUFFICES ASSUME NEW q \in records, NEW t \in records,
                     Keyed(Concluded(Replayed(q, inferred), state)) = Keyed(Concluded(Replayed(t, inferred), state))
     PROVE  q = t
  BY ReconciledEach DEF OneEach
<1>1. \A x \in records : Keyed(Concluded(Replayed(x, inferred), state)) = Keyed(x)
  BY ReplayedFacts, ConcludedFacts
<1>2. Keyed(q) = Keyed(t)
  BY <1>1
<1>. QED
  BY <1>2 DEF OneEach

\* An inferred end that has its record again is kept.
LEMMA ReconciledReplays ==
    ASSUME NEW records \in SUBSET IncidentTypes, NEW inferred \in SUBSET IncidentTypes, OneEach(inferred),
           NEW state, state.at \in 1..MaxClock,
           NEW q \in records, NEW p \in inferred, Keyed(p) = Keyed(q), p.end # 0
    PROVE  \E r \in Reconciled(records, state, inferred) : Keyed(r) = Keyed(p) /\ r.inferred /\ r.end = p.end
<1>. DEFINE s == Replayed(q, inferred)
<1>1. s \in IncidentTypes /\ Keyed(s) = Keyed(q) /\ s.inferred /\ s.end = p.end
  <2>1. PICK t \in inferred : s.inferred /\ Keyed(t) = Keyed(q) /\ s.end = t.end
    BY ReplayedFacts
  <2>2. t = p
    BY <2>1 DEF OneEach
  <2>. QED
    BY <2>1, <2>2, ReplayedFacts
<1>2. Concluded(s, state) \in Reconciled(records, state, inferred)
  BY ReconciledEach
<1>3. Concluded(s, state) = s
  BY <1>1, ConcludedFacts
<1>. QED
  BY <1>1, <1>2, <1>3

\* A reconciled record is the one of the log, or has the end inferred before, or, unresolved, ends now.
LEMMA ReconciledEnds ==
    ASSUME NEW records \in SUBSET IncidentTypes, NEW state, state.at \in 1..MaxClock,
           NEW inferred \in SUBSET IncidentTypes, \A p \in inferred : p.end # 0,
           NEW r \in Reconciled(records, state, inferred)
    PROVE  \E q \in records :
               /\ Keyed(r) = Keyed(q)
               /\ \/ r = q /\ \A p \in inferred : Keyed(p) # Keyed(q)
                  \/ r.inferred /\ \E p \in inferred : Keyed(p) = Keyed(q) /\ r.end = p.end
                  \/ r.inferred /\ q.end = 0 /\ r.end = state.at
<1>1. PICK q \in records : r = Concluded(Replayed(q, inferred), state)
  BY ReconciledEach
<1>. DEFINE s == Replayed(q, inferred)
<1>2. /\ s \in IncidentTypes /\ Keyed(s) = Keyed(q)
      /\ \/ s = q /\ \A p \in inferred : Keyed(p) # Keyed(q)
         \/ s.inferred /\ \E p \in inferred : Keyed(p) = Keyed(q) /\ s.end = p.end
  BY ReplayedFacts
<1>3. /\ Keyed(r) = Keyed(s)
      /\ r = s \/ (s.end = 0 /\ r.inferred /\ r.end = state.at)
  BY <1>1, <1>2, ConcludedFacts
<1>. HIDE DEF s
<1>4. CASE s = q /\ \A p \in inferred : Keyed(p) # Keyed(q)
  BY <1>3, <1>4
<1>5. CASE s.inferred /\ \E p \in inferred : Keyed(p) = Keyed(q) /\ s.end = p.end
  <2>1. r = s
    BY <1>3, <1>5
  <2>. QED
    BY <1>2, <1>5, <2>1
<1>. QED
  BY <1>2, <1>4, <1>5

\* reconcile_incidents keeps component and start, and either leaves a record alone, or gives
\* it the end inferred before, or ends it at the normal observation.
LEMMA ReconciledFrom ==
    ASSUME NEW records \in SUBSET IncidentTypes, NEW state, NEW inferred \in SUBSET IncidentTypes,
           state.at \in 1..MaxClock, NEW r \in Reconciled(records, state, inferred)
    PROVE  /\ r \in IncidentTypes
           /\ \E q \in records :
                /\ r.component = q.component /\ r.start = q.start
                /\ \/ /\ r = q /\ \A p \in inferred : Keyed(p) # Keyed(q)
                      /\ ~(q.end = 0 /\ IsNormal(state, q.component) /\ state.at >= q.start)
                   \/ r.inferred /\ \E p \in inferred : Keyed(p) = Keyed(q) /\ r.end = p.end
                   \/ r.inferred /\ r.end = state.at /\ IsNormal(state, r.component) /\ state.at >= r.start
<1>1. PICK q \in records : r = Concluded(Replayed(q, inferred), state)
  BY ReconciledEach
<1>. DEFINE s == Replayed(q, inferred)
<1>2. /\ s \in IncidentTypes /\ Keyed(s) = Keyed(q)
      /\ \/ s = q /\ \A p \in inferred : Keyed(p) # Keyed(q)
         \/ s.inferred /\ \E p \in inferred : Keyed(p) = Keyed(q) /\ s.end = p.end
  BY ReplayedFacts
<1>3. /\ r \in IncidentTypes /\ Keyed(r) = Keyed(s)
      /\ \/ r = s /\ ~(s.end = 0 /\ IsNormal(state, s.component) /\ state.at >= s.start)
         \/ IsNormal(state, s.component) /\ state.at >= s.start /\ r.inferred /\ r.end = state.at
  BY <1>1, <1>2, ConcludedFacts
<1>. HIDE DEF s
<1>4. /\ r.component = q.component /\ r.start = q.start
      /\ s.component = q.component /\ s.start = q.start
  BY <1>2, <1>3 DEF Keyed
<1>. QED
  BY <1>2, <1>3, <1>4

\* A record of a component that is not normal, and has no end from before, is left alone.
LEMMA ReconciledKeeps ==
    ASSUME NEW records, NEW state, NEW inferred, NEW q \in records,
           \A p \in inferred : Keyed(p) # Keyed(q), ~IsNormal(state, q.component)
    PROVE  q \in Reconciled(records, state, inferred)
<1>1. Replayed(q, inferred) = q
  BY DEF Replayed
<1>2. Concluded(q, state) = q
  BY DEF Concluded
<1>. QED
  BY <1>1, <1>2, ReconciledEach

-------------------------------------------------------------------------------
(* An outage that is open in the log is one unresolved incident. *)
\* What was inferred is an end, between the start and the time of the build.
Learned(inferred, upto) == \A r \in inferred : r.inferred /\ r.start <= r.end /\ r.end <= upto

\* The component's outage is open at position i: nothing has closed it since, in the log or before.
OpenAt(events, inferred, c, i) ==
    /\ i \in DOMAIN events /\ Opens(events[i], c)
    /\ \A j \in DOMAIN events : i < j => ~Closes(events[j], c)
    /\ \A r \in inferred : r.component = c => r.end < events[i].at

\* The first opening that nothing separates from i begins an incident without an end; two such
\* would be separated by a closing, and an inferred end of its own would have closed it before i.
LEMMA OneUnresolved ==
    ASSUME NEW events \in Seq(Loggable), InOrder(events),
           NEW inferred \in SUBSET IncidentTypes, NEW upto, Learned(inferred, upto),
           NEW c \in Outages, NEW i, OpenAt(events, inferred, c, i),
           NEW state, state.at \in 1..MaxClock, ~IsNormal(state, c)
    PROVE  Cardinality({r \in Unresolved(Incidents(events, state, inferred)) : r.component = c}) = 1
<1>. DEFINE openings == Openings(events, c)
            closings == Closings(events, inferred, c)
            words == {"success", "failed"}
            lists == Reconciled(Records(events, inferred), state, inferred)
<1>1. /\ \A r \in inferred : r.start \in 1..MaxClock /\ r.end \in 1..MaxClock /\ r.start <= r.end
      /\ c \in Components
  <2>1. \A r \in inferred : r.start \in 1..MaxClock /\ r.end \in 0..MaxClock
    BY DEF IncidentTypes
  <2>. QED
    BY <2>1, IncidentsAssumption DEF Learned, Outages, Components
<1>2. Positioned(closings) /\ \A x \in closings : x.at \in 1..MaxClock
  BY <1>1, ClosingTimes DEF Ends
<1>3. Records(events, inferred) \in SUBSET IncidentTypes
  BY <1>1, RecordsTyped DEF Ends
<1>4. openings \in SUBSET Nat /\ openings \subseteq DOMAIN events /\ i \in openings
  BY DEF Openings, OpenAt
\* No closing has a place after i.
<1>5. ASSUME NEW x \in closings PROVE ~(i < x.place)
  <2>1. CASE x.place \in DOMAIN events /\ Closes(events[x.place], c)
    BY <2>1 DEF OpenAt
  <2>2. CASE \E r \in inferred : r.component = c /\ x.place = Place(events, r.end)
    <3>1. PICK r \in inferred : r.component = c /\ x.place = Place(events, r.end)
      BY <2>2
    <3>2. r.end < events[i].at /\ r.end \in Nat /\ i \in DOMAIN events /\ i \in Nat
      BY <1>1, <1>4, <3>1 DEF OpenAt
    <3>3. events[i].at > r.end
      BY <3>2, Entries
    <3>4. Place(events, r.end) <= i /\ Place(events, r.end) \in Nat
      <4>0. Len(events) \in Nat /\ r.end \in Nat
        BY <3>2
      <4>1. Place(events, r.end) \in 1..(Len(events) + 1)
        BY <4>0, PlaceFacts
      <4>2. Place(events, r.end) <= i
        BY <3>2, <3>3, PlaceFacts
      <4>. QED
        BY <4>0, <4>1, <4>2
    <3>. QED
      BY <3>1, <3>2, <3>4
  <2>. QED
    BY <2>1, <2>2, ClosingOf
<1>6. PICK m \in Begins(openings, closings) : m <= i /\ ~Ended(closings, m, i)
  <2>. HIDE DEF openings, closings
  <2>. QED
    BY <1>2, <1>4, FirstBegins
<1>7. m \in openings /\ m \in Nat /\ i \in Nat
  BY <1>4, <1>6 DEF Begins
<1>8. \A x \in closings : ~(m < x.place)
  BY <1>2, <1>5, <1>6, <1>7 DEF Ended, Positioned
<1>9. PICK one \in Records(events, inferred) :
          /\ one = Incident(events, c, closings, m, words)
          /\ one.component = c /\ one.start = events[m].at /\ one.end = EndOf(closings, m)
  BY <1>1, <1>6, ListedBegins
<1>10. one.end = 0
  <2>. HIDE DEF closings
  <2>. QED
    BY <1>2, <1>7, <1>8, <1>9, EndFacts
<1>11. ASSUME NEW p \in inferred, Keyed(p) = Keyed(one) PROVE FALSE
  <2>1. p.component = c /\ p.start = events[m].at
    BY <1>9, <1>11 DEF Keyed
  <2>2. Closing(Place(events, p.end), p.end) \in closings
    BY <1>7, <2>1, RestoredClosing
  <2>3. Place(events, p.end) <= m
    <3>1. Place(events, p.end) \in 1..(Len(events) + 1) /\ Len(events) \in Nat
      BY <1>1, PlaceFacts
    <3>2. ~(m < Place(events, p.end))
      BY <1>8, <2>2, ClosingFields
    <3>. QED
      BY <1>7, <3>1, <3>2
  <2>4. p.end \in Nat /\ p.start <= p.end
    BY <1>1
  <2>5. Place(events, p.end) \in DOMAIN events
    <3>1. Place(events, p.end) \in 1..(Len(events) + 1) /\ m \in 1..Len(events)
      <4>1. m \in DOMAIN events /\ DOMAIN events = 1..Len(events)
        BY <1>4, <1>7
      <4>2. Place(events, p.end) \in 1..(Len(events) + 1)
        BY <2>4, PlaceFacts
      <4>. QED
        BY <4>1, <4>2
    <3>. QED
      BY <2>3, <3>1
  <2>6. events[Place(events, p.end)].at <= events[m].at
    BY <1>4, <1>7, <2>3, <2>5 DEF InOrder
  <2>7. events[Place(events, p.end)].at > p.end
    BY <2>4, <2>5, PlaceFacts
  <2>8. events[Place(events, p.end)].at \in Nat /\ events[m].at \in Nat
    BY <1>4, <1>7, <2>5, Entries
  <2>. QED
    BY <2>1, <2>4, <2>6, <2>7, <2>8
<1>12. one \in lists
  <2>1. ~IsNormal(state, one.component)
    BY <1>9
  <2>. QED
    BY <1>11, <2>1, ReconciledKeeps
<1>13. ASSUME NEW r \in lists, r.end = 0, r.component = c PROVE r = one
  <2>1. PICK q \in Records(events, inferred) :
            /\ r.component = q.component /\ r.start = q.start
            /\ \/ r = q
               \/ \E p \in inferred : r.end = p.end
               \/ r.end = state.at
    BY <1>3, ReconciledFrom
  <2>2. r = q
    BY <1>1, <1>13, <2>1
  <2>3. PICK k \in Begins(openings, closings) :
            q = Incident(events, c, closings, k, words) /\ q.end = EndOf(closings, k)
    <3>1. PICK d \in Components :
              \E k \in Begins(Openings(events, d), Closings(events, inferred, d)) :
                  /\ q = Incident(events, d, Closings(events, inferred, d), k, words)
                  /\ q.component = d /\ q.end = EndOf(Closings(events, inferred, d), k)
      BY RecordOf
    <3>2. d = c
      BY <1>13, <2>2, <3>1
    <3>. QED
      BY <3>1, <3>2
  <2>4. k \in openings /\ k \in Nat
    BY <1>4 DEF Begins
  <2>5. \A x \in closings : ~(k < x.place)
    <3>. HIDE DEF closings
    <3>. QED
      BY <1>2, <1>13, <2>2, <2>3, <2>4, EndFacts
  <2>6. ASSUME k < m PROVE FALSE
    BY <1>6, <1>7, <2>4, <2>5, <2>6 DEF Begins, Ended
  <2>7. ASSUME m < k PROVE FALSE
    BY <1>7, <1>8, <2>3, <2>7 DEF Begins, Ended
  <2>8. k = m
    BY <1>7, <2>4, <2>6, <2>7
  <2>. QED
    BY <1>9, <2>2, <2>3, <2>8
<1>14. {r \in Unresolved(Incidents(events, state, inferred)) : r.component = c} = {one}
  <2>1. Unresolved(Incidents(events, state, inferred)) = {r \in lists : r.end = 0}
    BY DEF Unresolved, Incidents
  <2>. HIDE DEF lists
  <2>. QED
    BY <1>9, <1>10, <1>12, <1>13, <2>1
<1>. QED
  BY <1>14, FS_Singleton

-------------------------------------------------------------------------------
(* The states of the health loop and the events made of two of them. *)
Levels == {"normal", "warning", "critical", "unknown"}
Values == {"online", "offline", "unknown"}

\* evaluate_health and build_state.
LEMMA HealthTyped == ASSUME NEW r \in Readings PROVE Health(r) \in [Components -> Levels]
<1>1. AsteriskHealth(r) \in [{"asterisk", "asterisk_observation", "asterisk_query", "app_rpt"} -> Levels]
  BY DEF AsteriskHealth, Levels, Readings
<1>2. r.metrics \in [Metrics -> Levels]
  BY DEF Readings, Levels
<1>3. InternetHealth(r.connectivity) \in Levels
  BY DEF InternetHealth, Levels
<1>4. ASSUME NEW c \in Components PROVE Health(r)[c] \in Levels
  <2>1. CASE c \in Metrics
    <3>1. Health(r)[c] = r.metrics[c]
      BY <2>1 DEF Health, Metrics
    <3>. QED
      BY <1>2, <2>1, <3>1
  <2>2. CASE c = "internet"
    BY <1>3, <2>2 DEF Health, Metrics
  <2>3. CASE c \notin Metrics /\ c # "internet"
    <3>1. Health(r)[c] = AsteriskHealth(r)[c]
      BY <2>3 DEF Health
    <3>2. c \in {"asterisk", "asterisk_observation", "asterisk_query", "app_rpt"}
      BY <2>3 DEF Components, Metrics
    <3>. QED
      BY <1>1, <3>1, <3>2
  <2>. QED
    BY <2>1, <2>2, <2>3
<1>. QED
  BY <1>4 DEF Health

LEMMA StateTyped ==
    ASSUME NEW r \in Readings, NEW at \in 1..MaxClock
    PROVE  State(r, at) \in States(1..MaxClock) /\ State(r, at).at = at
<1>1. Health(r) \in [Components -> Levels]
  BY HealthTyped
<1>2. Overall(Health(r)) \in {"healthy", "degraded", "fault"}
  BY DEF Overall
<1>3. r.service \in Values /\ r.connectivity \in Connectivity
  BY DEF Readings, Values
<1>4. Internet(r.connectivity) \in Values
  BY DEF Internet, Values
<1>. QED
  BY <1>1, <1>2, <1>3, <1>4 DEF State, States, Levels, Values

\* The events of one second.
Stamped(at) == {e \in Loggable : e.at = at}

\* log_state_changes logs events, all of the second of the new state.
LEMMA ChangesTyped ==
    ASSUME NEW old \in States(1..MaxClock) \cup {NoState}, NEW new \in States(1..MaxClock)
    PROVE  Changes(old, new) \in Seq(Stamped(new.at))
<1>. DEFINE S == Stamped(new.at)
<1>1. new.at \in 1..MaxClock /\ << >> \in Seq(S)
  BY DEF States
<1>2. ASSUME NEW kind \in {"system", "health", "value"}, NEW of \in Components \cup {"node"},
             NEW is \in Levels \cup Values \cup {"healthy", "degraded", "fault"}
      PROVE  <<Event(kind, of, is, new.at)>> \in Seq(S)
  <2>1. Event(kind, of, is, new.at) \in Loggable
    BY <1>1 DEF Event, Loggable, Levels, Values
  <2>2. Event(kind, of, is, new.at) \in S
    BY <2>1 DEF Event, Stamped
  <2>. QED
    BY <2>2
<1>. HIDE DEF S
<1>3. StatusChanges(old, new) \in Seq(S)
  <2>1. new.status \in {"healthy", "degraded", "fault"}
    BY DEF States
  <2>. QED
    BY <1>1, <1>2, <2>1 DEF StatusChanges
<1>4. ASSUME NEW c \in Components PROVE HealthChange(old, new, c) \in Seq(S)
  <2>1. new.health[c] \in Levels
    BY DEF States, Levels
  <2>. QED
    BY <1>1, <1>2, <2>1 DEF HealthChange
<1>5. ASSUME NEW c \in Outages PROVE ValueChange(old, new, c) \in Seq(S)
  <2>1. new[c] \in Values
    BY DEF States, Values, Outages
  <2>2. c \in Components
    BY DEF Outages, Components
  <2>. QED
    BY <1>1, <1>2, <2>1, <2>2 DEF ValueChange
<1>6. HealthChanges(old, new) \in Seq(S)
  BY <1>4 DEF HealthChanges, Components
<1>7. ValueChanges(old, new) \in Seq(S)
  BY <1>5 DEF ValueChanges, Outages
<1>8. Changes(old, new) \in Seq(S)
  BY <1>1, <1>3, <1>6, <1>7 DEF Changes
<1>. QED
  BY <1>8 DEF S

\* What an event is about, and events no two of which are about the same.
Key(e) == <<e.kind, e.of>>
Apart(events) == \A i, j \in DOMAIN events : Key(events[i]) = Key(events[j]) => i = j
Keys(events, K) == events \in Seq(Loggable) /\ Apart(events) /\ \A i \in DOMAIN events : Key(events[i]) \in K

\* Events about different things stay so when they are joined.
LEMMA KeysJoined ==
    ASSUME NEW s, NEW t, NEW K, NEW L, Keys(s, K), Keys(t, L), K \cap L = {}
    PROVE  Keys(s \o t, K \cup L)
<1>. DEFINE u == s \o t
            m == Len(s)
            n == Len(t)
<1>1. s \in Seq(Loggable) /\ t \in Seq(Loggable) /\ m \in Nat /\ n \in Nat /\ DOMAIN s = 1..m /\ DOMAIN t = 1..n
  BY DEF Keys
<1>2. /\ u \in Seq(Loggable) /\ DOMAIN u = 1..(m + n)
      /\ \A i \in 1..m : u[i] = s[i]
      /\ \A i \in 1..(m + n) : ~(i <= m) => i - m \in 1..n /\ u[i] = t[i - m]
  BY <1>1
<1>. HIDE DEF u, m, n
<1>3. ASSUME NEW i \in 1..(m + n) PROVE Key(u[i]) \in K \cup L
  <2>1. CASE i \in 1..m
    BY <1>1, <1>2, <2>1 DEF Keys
  <2>2. CASE ~(i <= m)
    BY <1>1, <1>2, <2>2 DEF Keys
  <2>. QED
    BY <1>1, <2>1, <2>2
<1>4. ASSUME NEW i \in 1..(m + n), NEW j \in 1..(m + n), Key(u[i]) = Key(u[j]) PROVE i = j
  <2>1. \A k \in 1..(m + n) : (k <= m => k \in 1..m /\ Key(u[k]) \in K) /\ (~(k <= m) => Key(u[k]) \in L)
    <3>. TAKE k \in 1..(m + n)
    <3>1. CASE k <= m
      <4>1. k \in 1..m
        BY <1>1, <3>1
      <4>. QED
        BY <1>1, <1>2, <3>1, <4>1 DEF Keys
    <3>2. CASE ~(k <= m)
      BY <1>1, <1>2, <3>2 DEF Keys
    <3>. QED
      BY <3>1, <3>2
  <2>2. CASE i <= m /\ j <= m
    BY <1>1, <1>2, <1>4, <2>1, <2>2 DEF Keys, Apart
  <2>3. CASE ~(i <= m) /\ ~(j <= m)
    <3>1. i - m = j - m
      BY <1>1, <1>2, <1>4, <2>3 DEF Keys, Apart
    <3>. QED
      BY <1>1, <3>1
  <2>4. ~(Key(u[i]) \in K /\ Key(u[i]) \in L)
    OBVIOUS
  <2>. QED
    BY <1>4, <2>1, <2>2, <2>3, <2>4
<1>. QED
  BY <1>2, <1>3, <1>4 DEF Keys, Apart, u

LEMMA KeysOfOne ==
    ASSUME NEW e \in Loggable
    PROVE  Keys(<<e>>, {Key(e)})
BY DEF Keys, Apart

LEMMA KeysOfNone == ASSUME NEW K PROVE Keys(<< >>, K)
BY DEF Keys, Apart

\* log_state_changes says each thing once.
LEMMA ChangesApart ==
    ASSUME NEW old \in States(1..MaxClock) \cup {NoState}, NEW new \in States(1..MaxClock)
    PROVE  Apart(Changes(old, new))
<1>1. ASSUME NEW kind \in {"system", "health", "value"}, NEW of \in Components \cup {"node"},
             NEW is \in Levels \cup Values \cup {"healthy", "degraded", "fault"}
      PROVE  Keys(<<Event(kind, of, is, new.at)>>, {<<kind, of>>})
  <2>. DEFINE e == Event(kind, of, is, new.at)
  <2>1. new.at \in 1..MaxClock
    BY DEF States
  <2>2. e \in Loggable /\ Key(e) = <<kind, of>>
    BY <2>1 DEF Event, Loggable, Levels, Values, Key
  <2>. HIDE DEF e
  <2>3. Keys(<<e>>, {<<kind, of>>})
    BY <2>2, KeysOfOne
  <2>. QED
    BY <2>3 DEF e
<1>2. Keys(StatusChanges(old, new), {<<"system", "node">>})
  <2>1. new.status \in {"healthy", "degraded", "fault"}
    BY DEF States
  <2>. QED
    BY <1>1, <2>1, KeysOfNone DEF StatusChanges
<1>3. ASSUME NEW c \in Components PROVE Keys(HealthChange(old, new, c), {<<"health", c>>})
  <2>1. new.health[c] \in Levels
    BY DEF States, Levels
  <2>. QED
    BY <1>1, <2>1, KeysOfNone DEF HealthChange
<1>4. ASSUME NEW c \in Outages PROVE Keys(ValueChange(old, new, c), {<<"value", c>>})
  <2>1. new[c] \in Values /\ c \in Components
    BY DEF States, Values, Outages, Components
  <2>. QED
    BY <1>1, <2>1, KeysOfNone DEF ValueChange
<1>. DEFINE h(c) == HealthChange(old, new, c)
            named(C) == {<<"health", d>> : d \in C}
            known(C, s) == C \subseteq Components /\ Keys(s, named(C))
<1>5. ASSUME NEW C, NEW D, NEW s, NEW c \in Components \ C, D = C \cup {c}, known(C, s)
      PROVE  known(D, s \o h(c))
  <2>. DEFINE K == named(C)
  <2>1. K \cap {<<"health", c>>} = {} /\ K \cup {<<"health", c>>} = named(D)
    BY <1>5
  <2>2. Keys(s, K) /\ Keys(h(c), {<<"health", c>>})
    BY <1>3, <1>5
  <2>. HIDE DEF K, h, named
  <2>3. Keys(s \o h(c), named(D))
    BY <2>1, <2>2, KeysJoined
  <2>. QED
    BY <1>5, <2>3
<1>6. Keys(HealthChanges(old, new), named(Components))
  <2>. DEFINE s2 == h("asterisk") \o h("internet")
              s3 == s2 \o h("cpu")
              s4 == s3 \o h("memory")
              s5 == s4 \o h("disk")
              s6 == s5 \o h("asterisk_observation")
              s7 == s6 \o h("asterisk_query")
              s8 == s7 \o h("app_rpt")
  <2>1. known({"asterisk"}, h("asterisk"))
    <3>1. Keys(h("asterisk"), {<<"health", "asterisk">>})
      BY <1>3 DEF Components
    <3>2. named({"asterisk"}) = {<<"health", "asterisk">>}
      OBVIOUS
    <3>. QED
      BY <3>1, <3>2 DEF Components
  <2>. HIDE DEF h, known
  <2>2. known({"asterisk", "internet"}, s2)
    BY <1>5, <2>1 DEF Components
  <2>. HIDE DEF s2
  <2>3. known({"asterisk", "internet", "cpu"}, s3)
    BY <1>5, <2>2 DEF Components
  <2>. HIDE DEF s3
  <2>4. known({"asterisk", "internet", "cpu", "memory"}, s4)
    BY <1>5, <2>3 DEF Components
  <2>. HIDE DEF s4
  <2>5. known({"asterisk", "internet", "cpu", "memory", "disk"}, s5)
    BY <1>5, <2>4 DEF Components
  <2>. HIDE DEF s5
  <2>6. known({"asterisk", "internet", "cpu", "memory", "disk", "asterisk_observation"}, s6)
    BY <1>5, <2>5 DEF Components
  <2>. HIDE DEF s6
  <2>7. known({"asterisk", "internet", "cpu", "memory", "disk", "asterisk_observation", "asterisk_query"}, s7)
    BY <1>5, <2>6 DEF Components
  <2>. HIDE DEF s7
  <2>8. known({"asterisk", "internet", "cpu", "memory", "disk", "asterisk_observation", "asterisk_query", "app_rpt"}, s8)
    BY <1>5, <2>7 DEF Components
  <2>9. s8 = HealthChanges(old, new)
    BY DEF s2, s3, s4, s5, s6, s7, h, HealthChanges
  <2>. HIDE DEF s8
  <2>. QED
    BY <2>8, <2>9 DEF known, Components
<1>7. Keys(ValueChanges(old, new), {<<"value", "asterisk">>, <<"value", "internet">>})
  <2>1. {<<"value", "asterisk">>} \cap {<<"value", "internet">>} = {}
    OBVIOUS
  <2>2. {<<"value", "asterisk">>} \cup {<<"value", "internet">>} = {<<"value", "asterisk">>, <<"value", "internet">>}
    OBVIOUS
  <2>3. /\ Keys(ValueChange(old, new, "asterisk"), {<<"value", "asterisk">>})
        /\ Keys(ValueChange(old, new, "internet"), {<<"value", "internet">>})
    BY <1>4 DEF Outages
  <2>. QED
    BY <2>1, <2>2, <2>3, KeysJoined DEF ValueChanges
<1>8. Apart(Changes(old, new))
  <2>. DEFINE A == {<<"system", "node">>}
              B == named(Components)
              V == {<<"value", "asterisk">>, <<"value", "internet">>}
  <2>1. A \cap B = {} /\ (A \cup B) \cap V = {}
    OBVIOUS
  <2>2. Keys(StatusChanges(old, new), A) /\ Keys(HealthChanges(old, new), B) /\ Keys(ValueChanges(old, new), V)
    BY <1>2, <1>6, <1>7
  <2>. HIDE DEF A, B, V
  <2>3. Keys(StatusChanges(old, new) \o HealthChanges(old, new), A \cup B)
    BY <2>1, <2>2, KeysJoined
  <2>4. Keys((StatusChanges(old, new) \o HealthChanges(old, new)) \o ValueChanges(old, new), (A \cup B) \cup V)
    BY <2>1, <2>2, <2>3, KeysJoined
  <2>5. Apart(<< >>)
    BY DEF Apart
  <2>. QED
    BY <2>4, <2>5 DEF Changes, Keys
<1>. QED
  BY <1>8

-------------------------------------------------------------------------------
(* The log: in the order of its stamps, none of them in the future. *)
\* The log is in the order of its stamps, and what the loop still has to log is of this cycle.
LoopInv ==
    /\ loop \in [pc : {"idle", "log", "build"}, state : States(1..MaxClock) \cup {NoState},
                 pending : Seq(Stamped(clock))]
    /\ loop.pc # "idle" => loop.state \in States(1..MaxClock) /\ loop.state.at = clock
LogInv ==
    /\ clock \in 0..MaxClock /\ attempt \in 0..clock
    /\ log \in Seq(Loggable) /\ InOrder(log) /\ \A i \in DOMAIN log : log[i].at <= clock
    /\ system \in States(1..MaxClock) \cup {NoState}
    /\ system # NoState => system \in States(1..clock)
    /\ LoopInv

\* An event of the present second goes to the end of the log.
LEMMA AppendInOrder ==
    ASSUME NEW events \in Seq(Loggable), InOrder(events), NEW now, \A i \in DOMAIN events : events[i].at <= now,
           NEW e \in Stamped(now)
    PROVE  /\ Append(events, e) \in Seq(Loggable) /\ InOrder(Append(events, e))
           /\ \A i \in DOMAIN Append(events, e) : Append(events, e)[i].at <= now
           /\ Len(Append(events, e)) = Len(events) + 1 /\ Append(events, e)[Len(events) + 1] = e
           /\ \A i \in DOMAIN events : i \in DOMAIN Append(events, e) /\ Append(events, e)[i] = events[i]
           /\ \A i \in DOMAIN Append(events, e) : i \in DOMAIN events \/ i = Len(events) + 1
<1>. DEFINE more == Append(events, e)
            n == Len(events)
<1>1. e \in Loggable /\ e.at = now /\ now \in Nat
  BY IncidentsAssumption DEF Stamped, Loggable
<1>2. n \in Nat /\ DOMAIN events = 1..n
  OBVIOUS
<1>3. /\ more \in Seq(Loggable) /\ Len(more) = n + 1 /\ DOMAIN more = 1..(n + 1)
      /\ more[n + 1] = e /\ \A i \in 1..n : more[i] = events[i]
  BY <1>1
<1>. HIDE DEF more, n
<1>4. \A i \in 1..(n + 1) : i \in 1..n \/ i = n + 1
  BY <1>2
<1>5. \A i \in 1..(n + 1) : more[i].at <= now
  BY <1>1, <1>2, <1>3, <1>4
<1>6. ASSUME NEW i \in 1..(n + 1), NEW j \in 1..(n + 1), i <= j PROVE more[i].at <= more[j].at
  <2>1. CASE j = n + 1
    BY <1>1, <1>3, <1>5, <2>1
  <2>2. CASE j \in 1..n
    <3>1. i \in 1..n
      BY <1>2, <1>6, <2>2
    <3>. QED
      BY <1>2, <1>3, <1>6, <2>2, <3>1 DEF InOrder
  <2>. QED
    BY <1>4, <2>1, <2>2
<1>7. InOrder(more)
  BY <1>3, <1>6 DEF InOrder
<1>. QED
  BY <1>2, <1>3, <1>4, <1>5, <1>7 DEF more, n

\* A log that loses its oldest event.
LEMMA TailInOrder ==
    ASSUME NEW events \in Seq(Loggable), InOrder(events), events # << >>
    PROVE  /\ Tail(events) \in Seq(Loggable) /\ InOrder(Tail(events))
           /\ \A i \in DOMAIN Tail(events) : i + 1 \in DOMAIN events /\ Tail(events)[i] = events[i + 1]
           /\ \A i \in DOMAIN events : i # 1 => i - 1 \in DOMAIN Tail(events) /\ Tail(events)[i - 1] = events[i]
<1>. DEFINE rest == Tail(events)
            n == Len(events)
<1>1. n \in Nat \ {0} /\ DOMAIN events = 1..n
  OBVIOUS
<1>2. rest \in Seq(Loggable) /\ Len(rest) = n - 1 /\ \A i \in 1..Len(rest) : rest[i] = events[i + 1]
  BY HeadTailProperties
<1>3. DOMAIN rest = 1..(n - 1) /\ \A i \in 1..(n - 1) : rest[i] = events[i + 1]
  BY <1>2
<1>. HIDE DEF rest, n
<1>4. \A i \in 1..(n - 1) : i + 1 \in 1..n
  BY <1>1
<1>5. \A i \in 1..n : i # 1 => i - 1 \in 1..(n - 1) /\ (i - 1) + 1 = i
  BY <1>1
<1>6. InOrder(rest)
  <2>. SUFFICES ASSUME NEW i \in 1..(n - 1), NEW j \in 1..(n - 1), i <= j PROVE rest[i].at <= rest[j].at
    BY <1>3 DEF InOrder
  <2>1. i + 1 <= j + 1
    BY <1>1
  <2>. QED
    BY <1>1, <1>3, <1>4, <2>1 DEF InOrder
<1>7. \A i \in 1..n : i # 1 => i - 1 \in 1..(n - 1) /\ rest[i - 1] = events[i]
  <2>. TAKE i \in 1..n
  <2>. HAVE i # 1
  <2>1. i - 1 \in 1..(n - 1) /\ (i - 1) + 1 = i
    BY <1>5
  <2>2. rest[i - 1] = events[(i - 1) + 1]
    BY <1>3, <2>1
  <2>. QED
    BY <2>1, <2>2
<1>. QED
  BY <1>1, <1>2, <1>3, <1>4, <1>6, <1>7 DEF rest, n

LEMMA RecoveryStamped ==
    ASSUME clock \in 1..MaxClock, NEW word \in {"attempt", "success", "failed", "cancelled"}
    PROVE  Event("recovery", "asterisk", word, clock) \in Stamped(clock)
BY DEF Event, Stamped, Loggable, Components

LEMMA LogStart == Init => LogInv
<1>. SUFFICES ASSUME Init PROVE LogInv
  OBVIOUS
<1>1. << >> \in Seq(Stamped(clock)) /\ << >> \in Seq(Loggable) /\ DOMAIN << >> = {}
  OBVIOUS
<1>2. LoopInv
  BY <1>1 DEF Init, Idle, LoopInv
<1>. QED
  BY <1>1, <1>2, IncidentsAssumption DEF Init, LogInv, InOrder

\* What the worker logs is of the present second.
LEMMA RecordStep ==
    ASSUME LogInv, NEW word \in {"attempt", "success", "failed", "cancelled"}, Record(word),
           clock \in 1..MaxClock, attempt' \in 0..clock, UNCHANGED <<clock, system, loop>>
    PROVE  LogInv'
<1>. DEFINE e == Event("recovery", "asterisk", word, clock)
<1>1. e \in Stamped(clock) /\ log' = Append(log, e)
  BY RecoveryStamped DEF Record
<1>. HIDE DEF e
<1>2. log' \in Seq(Loggable) /\ InOrder(log') /\ \A i \in DOMAIN log' : log'[i].at <= clock
  BY <1>1, AppendInOrder DEF LogInv
<1>3. LoopInv'
  BY DEF LogInv, LoopInv
<1>. QED
  BY <1>2, <1>3 DEF LogInv

LEMMA LogStep == LogInv /\ [Next]_vars => LogInv'
<1>. SUFFICES ASSUME LogInv, [Next]_vars PROVE LogInv'
  OBVIOUS
<1>0. clock \in 0..MaxClock /\ MaxClock \in Nat /\ (system # NoState => clock \in 1..MaxClock)
  BY IncidentsAssumption DEF LogInv, States
<1>1. CASE Collect
  <2>1. PICK r \in Seen : loop' = [pc |-> "log", state |-> State(r, clock'), pending |-> Changes(system, State(r, clock'))]
    BY <1>1 DEF Collect
  <2>2. clock' = clock + 1 /\ clock' \in 1..MaxClock /\ UNCHANGED <<log, system, attempt>>
    BY <1>0, <1>1 DEF Collect
  <2>3. State(r, clock') \in States(1..MaxClock) /\ State(r, clock').at = clock'
    BY <2>2, StateTyped, IncidentsAssumption
  <2>4. Changes(system, State(r, clock')) \in Seq(Stamped(clock'))
    BY <2>3, ChangesTyped DEF LogInv
  <2>5. LoopInv'
    BY <2>1, <2>3, <2>4 DEF LoopInv
  <2>6. /\ attempt' \in 0..clock' /\ \A i \in DOMAIN log : log[i].at <= clock'
        /\ system # NoState => system \in States(1..clock')
    <3>1. \A i \in DOMAIN log : log[i].at <= clock + 1
      BY <1>0, Entries DEF LogInv
    <3>2. attempt \in 0..(clock + 1)
      BY <1>0 DEF LogInv
    <3>3. system # NoState => system \in States(1..(clock + 1))
      BY <1>0 DEF LogInv, States
    <3>. QED
      BY <2>2, <3>1, <3>2, <3>3
  <2>. QED
    BY <2>2, <2>5, <2>6 DEF LogInv
<1>2. CASE Emit
  <2>1. loop.pending \in Seq(Stamped(clock)) /\ loop.pending # << >>
    BY <1>2 DEF Emit, LogInv, LoopInv
  <2>2. Head(loop.pending) \in Stamped(clock) /\ Tail(loop.pending) \in Seq(Stamped(clock))
    BY <2>1, HeadTailProperties
  <2>3. log' = log \/ log' = Append(log, Head(loop.pending))
    BY <1>2 DEF Emit
  <2>4. log' \in Seq(Loggable) /\ InOrder(log') /\ \A i \in DOMAIN log' : log'[i].at <= clock
    <3>1. CASE log' = log
      BY <3>1 DEF LogInv
    <3>2. CASE log' = Append(log, Head(loop.pending))
      <4>. DEFINE e == Head(loop.pending)
      <4>. HIDE DEF e
      <4>1. e \in Stamped(clock) /\ log' = Append(log, e)
        BY <2>2, <3>2 DEF e
      <4>. QED
        BY <4>1, AppendInOrder DEF LogInv
    <3>. QED
      BY <2>3, <3>1, <3>2
  <2>5. loop' = [loop EXCEPT !.pending = Tail(loop.pending)] /\ UNCHANGED <<clock, system, attempt>>
    BY <1>2 DEF Emit
  <2>6. LoopInv'
    BY <2>2, <2>5 DEF LoopInv, LogInv
  <2>. QED
    BY <2>4, <2>5, <2>6 DEF LogInv
<1>3. CASE Save
  <2>1. /\ loop' = [loop EXCEPT !.pc = "build"] /\ system' = loop.state
        /\ UNCHANGED <<clock, log, attempt>> /\ loop.pc = "log"
    BY <1>3 DEF Save
  <2>2. LoopInv'
    BY <2>1 DEF LogInv, LoopInv
  <2>3. loop.state \in States(1..MaxClock) /\ loop.state.at = clock
    BY <2>1 DEF LogInv, LoopInv
  <2>4. loop.state \in States(1..clock)
    BY <1>0, <2>3 DEF States
  <2>. QED
    BY <2>1, <2>2, <2>3, <2>4 DEF LogInv
<1>4. CASE Build \/ Crash \/ LoseState \/ LoseIntelligence
  <2>1. /\ loop' = loop \/ loop' = Idle
        /\ system' = system \/ system' = NoState
        /\ attempt' = attempt \/ attempt' = 0
        /\ UNCHANGED <<clock, log>>
    BY <1>4 DEF Build, Crash, LoseState, LoseIntelligence
  <2>2. << >> \in Seq(Stamped(clock))
    OBVIOUS
  <2>3. LoopInv'
    <3>1. CASE loop' = loop
      BY <2>1, <3>1 DEF LogInv, LoopInv
    <3>2. CASE loop' = Idle
      <4>1. Idle \in [pc : {"idle", "log", "build"}, state : States(1..MaxClock) \cup {NoState},
                      pending : Seq(Stamped(clock))]
        BY <2>2 DEF Idle
      <4>2. Idle.pc = "idle"
        BY DEF Idle
      <4>. QED
        BY <2>1, <3>2, <4>1, <4>2 DEF LoopInv
    <3>. QED
      BY <2>1, <3>1, <3>2
  <2>. QED
    BY <1>0, <2>1, <2>3 DEF LogInv
<1>5. CASE Trim
  <2>1. log # << >> /\ log' = Tail(log) /\ UNCHANGED <<clock, system, loop, attempt>>
    BY <1>5 DEF Trim
  <2>2. log' \in Seq(Loggable) /\ InOrder(log') /\ \A i \in DOMAIN log' : log'[i].at <= clock
    BY <2>1, TailInOrder DEF LogInv
  <2>3. LoopInv'
    BY <2>1 DEF LogInv, LoopInv
  <2>. QED
    BY <2>1, <2>2, <2>3 DEF LogInv
<1>6. CASE Attempt
  <2>1. Record("attempt") /\ clock \in 1..MaxClock /\ attempt' \in 0..clock /\ UNCHANGED <<clock, system, loop>>
    BY <1>0, <1>6 DEF Attempt, MayTry
  <2>. QED
    BY <2>1, RecordStep
<1>7. CASE Cancel
  <2>1. Record("cancelled") /\ clock \in 1..MaxClock /\ attempt' \in 0..clock /\ UNCHANGED <<clock, system, loop>>
    BY <1>0, <1>7 DEF Cancel, MayTry, LogInv
  <2>. QED
    BY <2>1, RecordStep
<1>8. CASE Succeed
  <2>1. Record("success") /\ clock \in 1..MaxClock /\ attempt' \in 0..clock /\ UNCHANGED <<clock, system, loop>>
    BY <1>0, <1>8 DEF Succeed
  <2>. QED
    BY <2>1, RecordStep
<1>9. CASE Fail
  <2>1. Record("failed") /\ clock \in 1..MaxClock /\ attempt' \in 0..clock /\ UNCHANGED <<clock, system, loop>>
    BY <1>0, <1>9 DEF Fail, LogInv
  <2>. QED
    BY <2>1, RecordStep
<1>10. CASE UNCHANGED vars
  BY <1>10 DEF vars, LogInv, LoopInv
<1>. QED
  BY <1>1, <1>2, <1>3, <1>4, <1>5, <1>6, <1>7, <1>8, <1>9, <1>10 DEF Next

\* In a second no part says the same kind of thing twice, the worker apart.
OnceInv ==
    /\ Apart(loop.pending)
    /\ \A i, j \in DOMAIN log :
           log[i].kind # "recovery" /\ Key(log[i]) = Key(log[j]) /\ log[i].at = log[j].at => i = j
    /\ \A i \in DOMAIN log, j \in DOMAIN loop.pending :
           log[i].kind # "recovery" /\ Key(log[i]) = Key(loop.pending[j]) => log[i].at # clock

\* Two openings of a component say the same.
LEMMA OpeningKey ==
    ASSUME NEW e, NEW f, NEW c, Opens(e, c), Opens(f, c)
    PROVE  Key(e) = Key(f) /\ e.kind # "recovery"
BY DEF Opens, Is, Key

LEMMA OnceStart == Init => OnceInv
<1>1. DOMAIN << >> = {}
  OBVIOUS
<1>. QED
  BY <1>1 DEF Init, Idle, OnceInv, Apart

\* The worker's lines open and close nothing.
LEMMA RecordOnce ==
    ASSUME LogInv, OnceInv, NEW word, Record(word), UNCHANGED <<clock, loop>>
    PROVE  OnceInv'
<1>. DEFINE e == Event("recovery", "asterisk", word, clock)
            n == Len(log)
<1>1. log' = Append(log, e) /\ e.kind = "recovery"
  BY DEF Record, Event
<1>. HIDE DEF e
<1>2. DOMAIN log = 1..n /\ n \in Nat /\ DOMAIN log' = 1..(n + 1) /\ log'[n + 1] = e
      /\ \A i \in 1..n : log'[i] = log[i]
  BY <1>1 DEF LogInv
<1>. HIDE DEF n
<1>3. \A i \in DOMAIN log' : (i \in DOMAIN log /\ log'[i] = log[i]) \/ log'[i].kind = "recovery"
  BY <1>1, <1>2
<1>4. ASSUME NEW i \in DOMAIN log', NEW j \in DOMAIN log', log'[i].kind # "recovery",
             Key(log'[i]) = Key(log'[j]), log'[i].at = log'[j].at
      PROVE  i = j
  <2>1. log'[i].kind = log'[j].kind
    BY <1>4 DEF Key
  <2>2. i \in DOMAIN log /\ log'[i] = log[i] /\ j \in DOMAIN log /\ log'[j] = log[j]
    BY <1>3, <1>4, <2>1
  <2>. QED
    BY <1>4, <2>2 DEF OnceInv
<1>5. ASSUME NEW i \in DOMAIN log', NEW j \in DOMAIN loop.pending, log'[i].kind # "recovery",
             Key(log'[i]) = Key(loop.pending[j])
      PROVE  log'[i].at # clock
  BY <1>3, <1>5 DEF OnceInv
<1>. QED
  BY <1>4, <1>5 DEF OnceInv

LEMMA OnceStep == LogInv /\ OnceInv /\ [Next]_vars => OnceInv'
<1>. SUFFICES ASSUME LogInv, OnceInv, [Next]_vars PROVE OnceInv'
  OBVIOUS
<1>1. CASE Collect
  <2>1. PICK r \in Seen : /\ loop'.pending = Changes(system, State(r, clock'))
                          /\ clock' = clock + 1 /\ clock < MaxClock /\ log' = log
    BY <1>1 DEF Collect
  <2>. DEFINE new == State(r, clock')
  <2>2. new \in States(1..MaxClock) /\ new.at = clock' /\ system \in States(1..MaxClock) \cup {NoState}
    <3>1. clock' \in 1..MaxClock /\ r \in Readings
      BY <2>1, IncidentsAssumption DEF LogInv
    <3>. QED
      BY <3>1, StateTyped DEF LogInv
  <2>. HIDE DEF new
  <2>3. Apart(loop'.pending)
    BY <2>1, <2>2, ChangesApart DEF new
  <2>4. \A i \in DOMAIN log : log[i].at # clock'
    <3>. TAKE i \in DOMAIN log
    <3>1. log[i].at \in Nat /\ log[i].at <= clock /\ clock \in Nat
      BY Entries DEF LogInv
    <3>. QED
      BY <2>1, <3>1
  <2>. QED
    BY <2>1, <2>3, <2>4 DEF OnceInv
<1>2. CASE Emit
  <2>. DEFINE events == loop.pending
              e == Head(events)
              n == Len(log)
              m == Len(events)
  <2>1. /\ events \in Seq(Stamped(clock)) /\ events # << >> /\ loop'.pending = Tail(events) /\ clock' = clock
        /\ log' = Append(log, e) \/ log' = log
    BY <1>2 DEF Emit, LogInv, LoopInv
  <2>2. /\ m \in Nat \ {0} /\ DOMAIN events = 1..m /\ e = events[1] /\ e \in Stamped(clock) /\ Len(Tail(events)) = m - 1
        /\ DOMAIN Tail(events) = 1..(m - 1) /\ \A i \in 1..(m - 1) : Tail(events)[i] = events[i + 1]
    BY <2>1, HeadTailProperties
  <2>. DEFINE rest == Tail(events)
  <2>. HIDE DEF rest, m, e, n
  <2>3. \A i \in DOMAIN rest : i \in Nat /\ i + 1 \in DOMAIN events /\ rest[i] = events[i + 1] /\ i + 1 # 1
    BY <2>2 DEF rest
  <2>4. Apart(rest)
    <3>. SUFFICES ASSUME NEW i \in DOMAIN rest, NEW j \in DOMAIN rest, Key(rest[i]) = Key(rest[j]) PROVE i = j
      BY DEF Apart
    <3>1. i + 1 = j + 1
      BY <2>3 DEF OnceInv, Apart
    <3>. QED
      BY <2>3, <3>1
  <2>5. \A j \in DOMAIN rest : Key(rest[j]) # Key(e)
    BY <2>2, <2>3 DEF OnceInv, Apart
  <2>6. \A i \in DOMAIN log, j \in DOMAIN rest :
            log[i].kind # "recovery" /\ Key(log[i]) = Key(rest[j]) => log[i].at # clock
    BY <2>3 DEF OnceInv
  <2>7. \A i \in DOMAIN log :
            log[i].kind # "recovery" /\ Key(log[i]) = Key(e) => log[i].at # clock
    BY <2>2 DEF OnceInv
  <2>8. CASE log' = log
    BY <2>1, <2>4, <2>6, <2>8 DEF OnceInv, rest
  <2>9. CASE log' = Append(log, e)
    <3>1. DOMAIN log = 1..n /\ n \in Nat /\ DOMAIN log' = 1..(n + 1) /\ log'[n + 1] = e
          /\ \A i \in 1..n : log'[i] = log[i]
      BY <2>9 DEF LogInv, n
    <3>2. \A i \in DOMAIN log' : (i \in DOMAIN log /\ log'[i] = log[i]) \/ (i = n + 1 /\ log'[i] = e)
      <4>1. \A i \in 1..(n + 1) : i \in 1..n \/ i = n + 1
        BY <3>1
      <4>. QED
        BY <3>1, <4>1
    <3>3. e.at = clock
      BY <2>2 DEF Stamped
    <3>4. ASSUME NEW i \in DOMAIN log', NEW j \in DOMAIN log', log'[i].kind # "recovery",
                 Key(log'[i]) = Key(log'[j]), log'[i].at = log'[j].at
          PROVE  i = j
      <4>1. CASE i \in DOMAIN log /\ log'[i] = log[i] /\ j \in DOMAIN log /\ log'[j] = log[j]
        BY <3>4, <4>1 DEF OnceInv
      <4>2. CASE i = n + 1 /\ log'[i] = e /\ j \in DOMAIN log /\ log'[j] = log[j]
        <5>1. log[j].kind = e.kind
          BY <3>4, <4>2 DEF Key
        <5>. QED
          BY <2>7, <3>3, <3>4, <4>2, <5>1
      <4>3. CASE j = n + 1 /\ log'[j] = e /\ i \in DOMAIN log /\ log'[i] = log[i]
        BY <2>7, <3>3, <3>4, <4>3
      <4>4. CASE i = n + 1 /\ j = n + 1
        BY <4>4
      <4>. QED
        BY <3>2, <4>1, <4>2, <4>3, <4>4
    <3>5. ASSUME NEW i \in DOMAIN log', NEW j \in DOMAIN rest, log'[i].kind # "recovery",
                 Key(log'[i]) = Key(rest[j])
          PROVE  log'[i].at # clock
      BY <2>5, <2>6, <3>2, <3>5
    <3>. QED
      BY <2>1, <2>4, <3>4, <3>5 DEF OnceInv, rest
  <2>. QED
    BY <2>1, <2>8, <2>9
<1>3. CASE Build \/ Crash \/ Save \/ LoseState \/ LoseIntelligence \/ UNCHANGED vars
  <2>1. (loop'.pending = loop.pending \/ loop'.pending = << >>) /\ UNCHANGED <<clock, log>>
    <3>1. Idle.pending = << >>
      BY DEF Idle
    <3>2. CASE Save
      BY <3>2 DEF Save, LogInv, LoopInv
    <3>. QED
      BY <1>3, <3>1, <3>2 DEF Build, Crash, LoseState, LoseIntelligence, vars
  <2>2. DOMAIN << >> = {}
    OBVIOUS
  <2>3. CASE loop'.pending = loop.pending
    BY <2>1, <2>3 DEF OnceInv
  <2>4. CASE loop'.pending = << >>
    BY <2>1, <2>2, <2>4 DEF OnceInv, Apart
  <2>. QED
    BY <2>1, <2>3, <2>4
<1>4. CASE Trim
  <2>1. log # << >> /\ log' = Tail(log) /\ UNCHANGED <<clock, loop>>
    BY <1>4 DEF Trim
  <2>2. \A i \in DOMAIN log' : i \in Nat /\ i + 1 \in DOMAIN log /\ log'[i] = log[i + 1]
    <3>1. \A i \in DOMAIN log' : i + 1 \in DOMAIN log /\ log'[i] = log[i + 1]
      BY <2>1, TailInOrder DEF LogInv
    <3>2. log' \in Seq(Loggable)
      BY <2>1, TailInOrder DEF LogInv
    <3>. QED
      BY <3>1, <3>2
  <2>3. ASSUME NEW i \in DOMAIN log', NEW j \in DOMAIN log', log'[i].kind # "recovery",
               Key(log'[i]) = Key(log'[j]), log'[i].at = log'[j].at
        PROVE  i = j
    <3>1. i + 1 = j + 1
      BY <2>2, <2>3 DEF OnceInv
    <3>. QED
      BY <2>2, <3>1
  <2>4. ASSUME NEW i \in DOMAIN log', NEW j \in DOMAIN loop.pending, log'[i].kind # "recovery",
               Key(log'[i]) = Key(loop.pending[j])
        PROVE  log'[i].at # clock
    BY <2>2, <2>4 DEF OnceInv
  <2>. QED
    BY <2>1, <2>3, <2>4 DEF OnceInv
<1>5. CASE Attempt \/ Cancel \/ Succeed \/ Fail
  <2>1. UNCHANGED <<clock, loop>> /\ \E word \in {"attempt", "cancelled", "success", "failed"} : Record(word)
    BY <1>5 DEF Attempt, Cancel, Succeed, Fail
  <2>. QED
    BY <2>1, RecordOnce
<1>. QED
  BY <1>1, <1>2, <1>3, <1>4, <1>5 DEF Next

-------------------------------------------------------------------------------
(* The list: what one build hands to the next. *)
\* What is listed was so when it was built, and what the loop works on now is newer.
ListInv ==
    /\ intel.records \subseteq IncidentTypes /\ intel.inferred \subseteq intel.records
    /\ intel.at \in 0..clock /\ Learned(intel.inferred, intel.at)
    /\ loop.pc # "idle" => intel.at < clock
    /\ loop.pc = "build" => system \in {NoState, loop.state}

\* An open outage has a place in the log.
OpenInv ==
    /\ open \subseteq Outages \X (1..MaxClock)
    /\ \A o \in open : \E i \in DOMAIN log : OpenAt(log, intel.inferred, o[1], i) /\ o[2] <= log[i].at

\* What the last build inferred.
LEMMA InferredTyped ==
    ASSUME LogInv, ListInv
    PROVE  /\ intel.inferred \in SUBSET IncidentTypes /\ Ends(intel.inferred)
           /\ \A p \in intel.inferred : p.inferred /\ p.start \in 1..MaxClock /\ p.end \in 1..MaxClock
                                        /\ p.start <= p.end /\ p.end <= intel.at
<1>1. \A p \in intel.inferred : p.start \in 1..MaxClock /\ p.end \in 0..MaxClock
  BY DEF ListInv, IncidentTypes
<1>2. \A p \in intel.inferred : p.inferred /\ p.start <= p.end /\ p.end <= intel.at
  BY DEF ListInv, Learned
<1>3. \A p \in intel.inferred : p.end \in 1..MaxClock
  BY <1>1, <1>2, IncidentsAssumption
<1>. QED
  BY <1>1, <1>2, <1>3 DEF ListInv, Ends

\* What a build makes: no component seen normal is unresolved, and an inferred end is between
\* the start and now, and either of a component seen normal or inferred before.
LEMMA BuiltList ==
    ASSUME LogInv, ListInv, loop.pc = "build",
           NEW r \in Incidents(log, loop.state, intel.inferred)
    PROVE  /\ r \in IncidentTypes
           /\ r.end = 0 => ~IsNormal(loop.state, r.component)
           /\ r.inferred => r.start <= r.end /\ r.end <= clock
           /\ r.inferred => \/ IsNormal(loop.state, r.component)
                            \/ \E p \in intel.inferred : p.component = r.component /\ p.end = r.end
<1>. DEFINE state == loop.state
            records == Records(log, intel.inferred)
<1>1. state.at = clock /\ clock \in 1..MaxClock /\ log \in Seq(Loggable) /\ intel.at \in 0..clock
  BY DEF LogInv, LoopInv, States, ListInv
<1>2. records \in SUBSET IncidentTypes
  BY <1>1, InferredTyped, RecordsTyped
<1>3. r \in Reconciled(records, state, intel.inferred)
  BY DEF Incidents
<1>4. r \in IncidentTypes /\ r.start \in 1..MaxClock
  <2>1. r \in IncidentTypes
    BY <1>1, <1>2, <1>3, InferredTyped, ReconciledFrom
  <2>. QED
    BY <2>1 DEF IncidentTypes
<1>5. PICK q \in records :
          /\ r.component = q.component /\ r.start = q.start
          /\ \/ r = q /\ ~(q.end = 0 /\ IsNormal(state, q.component) /\ state.at >= q.start)
             \/ r.inferred /\ \E p \in intel.inferred : Keyed(p) = Keyed(q) /\ r.end = p.end
             \/ r.inferred /\ r.end = state.at /\ IsNormal(state, r.component) /\ state.at >= r.start
  BY <1>1, <1>2, <1>3, InferredTyped, ReconciledFrom
<1>6. q.start <= clock /\ ~q.inferred
  <2>1. PICK c \in Components :
            \E i \in Begins(Openings(log, c), Closings(log, intel.inferred, c)) :
                i \in DOMAIN log /\ q.start = log[i].at /\ ~q.inferred
    BY RecordOf
  <2>. QED
    BY <2>1 DEF LogInv
<1>. HIDE DEF state, records
<1>7. CASE r = q /\ ~(q.end = 0 /\ IsNormal(state, q.component) /\ state.at >= q.start)
  <2>1. state.at >= q.start
    BY <1>1, <1>4, <1>5, <1>6
  <2>. QED
    BY <1>4, <1>6, <1>7, <2>1 DEF state
<1>8. CASE r.inferred /\ \E p \in intel.inferred : Keyed(p) = Keyed(q) /\ r.end = p.end
  <2>1. PICK p \in intel.inferred : Keyed(p) = Keyed(q) /\ r.end = p.end
    BY <1>8
  <2>2. p.component = r.component /\ p.start = r.start
    BY <1>5, <2>1 DEF Keyed
  <2>3. p.end \in 1..MaxClock /\ p.start <= p.end /\ p.end <= intel.at
    BY InferredTyped
  <2>4. r.end # 0 /\ r.start <= r.end /\ r.end <= clock
    BY <1>1, <2>1, <2>2, <2>3, IncidentsAssumption
  <2>. QED
    BY <1>4, <2>1, <2>2, <2>4
<1>9. CASE r.inferred /\ r.end = state.at /\ IsNormal(state, r.component) /\ state.at >= r.start
  <2>1. r.end # 0 /\ r.start <= r.end /\ r.end <= clock
    BY <1>1, <1>4, <1>9
  <2>. QED
    BY <1>4, <1>9, <2>1 DEF state
<1>. QED
  BY <1>5, <1>7, <1>8, <1>9

LEMMA ListStart == Init => ListInv
<1>. SUFFICES ASSUME Init PROVE ListInv
  OBVIOUS
<1>1. intel = [records |-> {}, inferred |-> {}, at |-> 0] /\ loop.pc = "idle" /\ clock = 0
  BY DEF Init, NoIntelligence, Idle
<1>. QED
  BY <1>1 DEF ListInv, Learned

LEMMA ListStep == LogInv /\ ListInv /\ [Next]_vars => ListInv'
<1>. SUFFICES ASSUME LogInv, ListInv, [Next]_vars PROVE ListInv'
  OBVIOUS
<1>0. clock \in Nat /\ intel.at \in 0..clock
  BY DEF LogInv, ListInv
<1>1. CASE Collect
  <2>1. loop'.pc = "log" /\ clock' = clock + 1 /\ UNCHANGED intel
    BY <1>1 DEF Collect
  <2>. QED
    BY <1>0, <2>1 DEF ListInv
<1>2. CASE Emit
  <2>1. loop.pc = "log" /\ loop'.pc = "log" /\ UNCHANGED <<clock, intel>>
    BY <1>2 DEF Emit, LogInv, LoopInv
  <2>. QED
    BY <2>1 DEF ListInv
<1>3. CASE Save
  <2>1. loop.pc = "log" /\ system' = loop.state /\ loop'.state = loop.state /\ UNCHANGED <<clock, intel>>
    BY <1>3 DEF Save, LogInv, LoopInv
  <2>. QED
    BY <2>1 DEF ListInv
<1>4. CASE Build
  <2>. DEFINE records == Incidents(log, loop.state, intel.inferred)
  <2>1. CASE intel' = [records |-> records, inferred |-> Inferred(records), at |-> clock]
    <3>1. loop.pc = "build" /\ loop'.pc = "idle" /\ clock' = clock
      BY <1>4 DEF Build, Idle
    <3>2. \A r \in records : r \in IncidentTypes /\ (r.inferred => r.start <= r.end /\ r.end <= clock)
      BY <3>1, BuiltList
    <3>. HIDE DEF records
    <3>3. intel'.records = records /\ intel'.inferred = {r \in records : r.inferred} /\ intel'.at = clock
      BY <2>1 DEF Inferred
    <3>. QED
      BY <1>0, <3>1, <3>2, <3>3 DEF ListInv, Learned
  <2>2. CASE intel' = NoIntelligence
    <3>1. loop'.pc = "idle" /\ clock' = clock
      BY <1>4 DEF Build, Idle
    <3>2. intel'.records = {} /\ intel'.inferred = {} /\ intel'.at = 0
      BY <2>2 DEF NoIntelligence
    <3>. QED
      BY <1>0, <3>1, <3>2 DEF ListInv, Learned
  <2>. QED
    BY <1>4, <2>1, <2>2 DEF Build
<1>5. CASE LoseIntelligence
  <2>1. UNCHANGED <<clock, loop, system>> /\ intel' = NoIntelligence
    BY <1>5 DEF LoseIntelligence
  <2>2. intel'.records = {} /\ intel'.inferred = {} /\ intel'.at = 0
    BY <2>1 DEF NoIntelligence
  <2>. QED
    BY <1>0, <2>1, <2>2 DEF ListInv, Learned
<1>6. CASE Crash
  <2>1. loop'.pc = "idle" /\ UNCHANGED <<clock, intel>>
    BY <1>6 DEF Crash, Idle
  <2>. QED
    BY <2>1 DEF ListInv
<1>7. CASE Attempt \/ Cancel \/ Succeed \/ Fail \/ LoseState \/ Trim \/ UNCHANGED vars
  <2>1. UNCHANGED <<clock, intel, loop>> /\ (system' = system \/ system' = NoState)
    BY <1>7 DEF Attempt, Cancel, Succeed, Fail, LoseState, Trim, vars
  <2>. QED
    BY <2>1 DEF ListInv
<1>. QED
  BY <1>1, <1>2, <1>3, <1>4, <1>5, <1>6, <1>7 DEF Next

-------------------------------------------------------------------------------
(* The open outages: each has a place in the log that nothing has closed since. *)
LEMMA OpenStart == Init => OpenInv
BY DEF Init, OpenInv

\* An event that does not close the outage leaves it open where it was.
LEMMA OpenAfter ==
    ASSUME LogInv, NEW e \in Stamped(clock), NEW c, NEW i, OpenAt(log, intel.inferred, c, i), ~Closes(e, c)
    PROVE  OpenAt(Append(log, e), intel.inferred, c, i) /\ Append(log, e)[i] = log[i] /\ i \in DOMAIN Append(log, e)
<1>1. /\ log \in Seq(Loggable) /\ Append(log, e)[Len(log) + 1] = e
      /\ \A j \in DOMAIN log : j \in DOMAIN Append(log, e) /\ Append(log, e)[j] = log[j]
      /\ \A j \in DOMAIN Append(log, e) : j \in DOMAIN log \/ j = Len(log) + 1
  BY AppendInOrder DEF LogInv
<1>. QED
  BY <1>1 DEF OpenAt

LEMMA OpenStep == LogInv /\ ListInv /\ OpenInv /\ [Next]_vars => OpenInv'
<1>. SUFFICES ASSUME LogInv, ListInv, OpenInv, [Next]_vars PROVE OpenInv'
  OBVIOUS
<1>0. log \in Seq(Loggable) /\ InOrder(log) /\ clock \in 0..MaxClock /\ MaxClock \in Nat
  BY IncidentsAssumption DEF LogInv
<1>1. ASSUME UNCHANGED <<log, open>>, intel' = intel \/ intel' = NoIntelligence PROVE OpenInv'
  <2>1. intel'.inferred = intel.inferred \/ intel'.inferred = {}
    BY <1>1 DEF NoIntelligence
  <2>2. \A c, i : OpenAt(log, intel.inferred, c, i) => OpenAt(log, intel'.inferred, c, i)
    BY <2>1 DEF OpenAt
  <2>. QED
    BY <1>1, <2>2 DEF OpenInv
<1>2. ASSUME NEW word \in {"attempt", "success", "failed", "cancelled"}, Record(word),
             clock \in 1..MaxClock, UNCHANGED <<intel, open>>
      PROVE  OpenInv'
  <2>. DEFINE e == Event("recovery", "asterisk", word, clock)
  <2>1. e \in Stamped(clock) /\ log' = Append(log, e)
    BY <1>2, RecoveryStamped DEF Record
  <2>2. \A c : ~Closes(e, c)
    BY DEF Closes, Is, Event
  <2>. HIDE DEF e
  <2>3. ASSUME NEW o \in open
        PROVE  \E i \in DOMAIN log' : OpenAt(log', intel'.inferred, o[1], i) /\ o[2] <= log'[i].at
    <3>1. PICK i \in DOMAIN log : OpenAt(log, intel.inferred, o[1], i) /\ o[2] <= log[i].at
      BY DEF OpenInv
    <3>. QED
      BY <1>2, <2>1, <2>2, <3>1, OpenAfter
  <2>. QED
    BY <1>2, <2>3 DEF OpenInv
<1>3. CASE Emit
  <2>. DEFINE e == Head(loop.pending)
  <2>1. /\ e \in Stamped(clock) /\ intel.at < clock /\ UNCHANGED intel
        /\ \/ log' = Append(log, e) /\ open' = Noted(e)
           \/ UNCHANGED <<log, open>>
    <3>1. loop.pending \in Seq(Stamped(clock)) /\ loop.pending # << >> /\ loop.pc = "log" /\ UNCHANGED intel
      BY <1>3 DEF Emit, LogInv, LoopInv
    <3>2. e \in Stamped(clock)
      BY <3>1, HeadTailProperties
    <3>. QED
      BY <1>3, <3>1, <3>2 DEF Emit, ListInv
  <2>. HIDE DEF e
  <2>2. CASE log' = Append(log, e) /\ open' = Noted(e)
    <3>1. e.at = clock /\ clock \in 1..MaxClock
      BY <2>1 DEF Stamped, Loggable
    <3>2. ASSUME NEW o \in open, ~Closes(e, o[1])
          PROVE  \E i \in DOMAIN log' : OpenAt(log', intel'.inferred, o[1], i) /\ o[2] <= log'[i].at
      <4>1. PICK i \in DOMAIN log : OpenAt(log, intel.inferred, o[1], i) /\ o[2] <= log[i].at
        BY DEF OpenInv
      <4>. QED
        BY <2>1, <2>2, <3>2, <4>1, OpenAfter
    <3>3. ASSUME NEW c \in Outages, Opens(e, c)
          PROVE  \E i \in DOMAIN log' : OpenAt(log', intel'.inferred, c, i) /\ e.at <= log'[i].at
      <4>. DEFINE i == Len(log) + 1
      <4>1. /\ log' \in Seq(Loggable) /\ log'[i] = e /\ Len(log') = i
            /\ \A j \in DOMAIN log' : j \in DOMAIN log \/ j = i
        BY <1>0, <2>1, <2>2, AppendInOrder DEF LogInv
      <4>2. i \in DOMAIN log' /\ \A j \in DOMAIN log' : ~(i < j)
        BY <1>0, <4>1
      <4>3. \A r \in intel.inferred : r.end < e.at
        <5>1. \A r \in intel.inferred : r.end \in 1..MaxClock /\ r.end <= intel.at
          BY InferredTyped
        <5>2. intel.at \in 0..clock
          BY DEF ListInv
        <5>. QED
          BY <2>1, <3>1, <5>1, <5>2
      <4>. HIDE DEF i
      <4>4. OpenAt(log', intel'.inferred, c, i)
        BY <2>1, <3>3, <4>1, <4>2, <4>3 DEF OpenAt
      <4>. QED
        BY <3>1, <4>1, <4>2, <4>4
    <3>4. ASSUME NEW o \in open'
          PROVE  /\ o \in Outages \X (1..MaxClock)
                 /\ \E i \in DOMAIN log' : OpenAt(log', intel'.inferred, o[1], i) /\ o[2] <= log'[i].at
      <4>1. CASE o \in open /\ ~Closes(e, o[1])
        BY <3>2, <4>1 DEF OpenInv
      <4>2. CASE \E c \in Outages : Opens(e, c) /\ o = <<c, e.at>>
        BY <3>1, <3>3, <4>2
      <4>. QED
        BY <2>2, <4>1, <4>2 DEF Noted
    <3>. QED
      BY <3>4 DEF OpenInv
  <2>3. CASE UNCHANGED <<log, open>>
    BY <1>1, <2>1, <2>3
  <2>. QED
    BY <2>1, <2>2, <2>3
<1>4. CASE Build
  <2>. DEFINE records == Incidents(log, loop.state, intel.inferred)
  <2>1. UNCHANGED log /\ loop.pc = "build"
    BY <1>4 DEF Build
  <2>2. CASE /\ intel' = [records |-> records, inferred |-> Inferred(records), at |-> clock]
             /\ open' = {o \in open : ~IsNormal(loop.state, o[1])}
    <3>1. \A r \in records : r.inferred =>
              \/ IsNormal(loop.state, r.component)
              \/ \E p \in intel.inferred : p.component = r.component /\ p.end = r.end
      BY <2>1, BuiltList
    <3>. HIDE DEF records
    <3>2. intel'.inferred = {r \in records : r.inferred}
      BY <2>2 DEF Inferred
    <3>3. ASSUME NEW o \in open'
          PROVE  \E i \in DOMAIN log' : OpenAt(log', intel'.inferred, o[1], i) /\ o[2] <= log'[i].at
      <4>1. o \in open /\ ~IsNormal(loop.state, o[1])
        BY <2>2
      <4>2. PICK i \in DOMAIN log : OpenAt(log, intel.inferred, o[1], i) /\ o[2] <= log[i].at
        BY <4>1 DEF OpenInv
      <4>3. \A r \in intel'.inferred : r.component = o[1] =>
                \E p \in intel.inferred : p.component = o[1] /\ p.end = r.end
        BY <3>1, <3>2, <4>1
      <4>4. OpenAt(log, intel'.inferred, o[1], i)
        BY <4>2, <4>3 DEF OpenAt
      <4>. QED
        BY <2>1, <4>2, <4>4
    <3>4. open' \subseteq Outages \X (1..MaxClock)
      BY <2>2 DEF OpenInv
    <3>. QED
      BY <3>3, <3>4 DEF OpenInv
  <2>3. CASE intel' = NoIntelligence /\ UNCHANGED open
    BY <1>1, <2>1, <2>3
  <2>. QED
    BY <1>4, <2>2, <2>3 DEF Build
<1>5. CASE Trim
  <2>1. /\ log # << >> /\ log' = Tail(log) /\ UNCHANGED intel
        /\ open' = {o \in open : \E i \in DOMAIN log' : Opens(log'[i], o[1]) /\ log'[i].at >= o[2]}
    BY <1>5 DEF Trim
  <2>2. /\ log' \in Seq(Loggable)
        /\ \A i \in DOMAIN log' : i + 1 \in DOMAIN log /\ log'[i] = log[i + 1]
        /\ \A i \in DOMAIN log : i # 1 => i - 1 \in DOMAIN log' /\ log'[i - 1] = log[i]
    BY <1>0, <2>1, TailInOrder
  <2>3. ASSUME NEW o \in open'
        PROVE  \E i \in DOMAIN log' : OpenAt(log', intel'.inferred, o[1], i) /\ o[2] <= log'[i].at
    <3>1. PICK i \in DOMAIN log : OpenAt(log, intel.inferred, o[1], i) /\ o[2] <= log[i].at
      BY <2>1 DEF OpenInv
    <3>2. PICK k \in DOMAIN log' : Opens(log'[k], o[1]) /\ log'[k].at >= o[2]
      BY <2>1
    <3>3. o[2] \in Nat /\ i \in Nat \ {0} /\ k \in Nat \ {0} /\ log'[k].at \in Nat
      BY <1>0, <2>1, <2>2, Entries DEF OpenInv
    <3>4. CASE i # 1
      <4>1. i - 1 \in DOMAIN log' /\ log'[i - 1] = log[i]
        BY <2>2, <3>4
      <4>2. ASSUME NEW j \in DOMAIN log', i - 1 < j PROVE ~Closes(log'[j], o[1])
        <5>1. j \in Nat /\ j + 1 \in DOMAIN log /\ log'[j] = log[j + 1]
          BY <2>2, Entries
        <5>2. i < j + 1
          BY <3>3, <4>2, <5>1
        <5>. QED
          BY <3>1, <5>1, <5>2 DEF OpenAt
      <4>3. OpenAt(log', intel'.inferred, o[1], i - 1)
        BY <2>1, <3>1, <4>1, <4>2 DEF OpenAt
      <4>. QED
        BY <3>1, <4>1, <4>3
    <3>5. CASE i = 1
      <4>1. k + 1 \in DOMAIN log /\ log'[k] = log[k + 1] /\ i <= k + 1
        BY <2>2, <3>3, <3>5
      <4>2. log[i].at <= log'[k].at
        BY <1>0, <4>1 DEF InOrder
      <4>3. ASSUME NEW j \in DOMAIN log' PROVE ~Closes(log'[j], o[1])
        <5>1. j \in Nat \ {0} /\ j + 1 \in DOMAIN log /\ log'[j] = log[j + 1]
          BY <2>2, Entries
        <5>2. i < j + 1
          BY <3>5, <5>1
        <5>. QED
          BY <3>1, <5>1, <5>2 DEF OpenAt
      <4>4. ASSUME NEW r \in intel'.inferred, r.component = o[1] PROVE r.end < log'[k].at
        <5>1. r.end < log[i].at
          BY <2>1, <3>1, <4>4 DEF OpenAt
        <5>2. r.end \in Nat /\ log[i].at \in Nat
          BY <1>0, <2>1, InferredTyped, Entries
        <5>. QED
          BY <3>3, <4>2, <5>1, <5>2
      <4>5. OpenAt(log', intel'.inferred, o[1], k)
        BY <3>2, <4>3, <4>4 DEF OpenAt
      <4>. QED
        BY <3>2, <3>3, <4>5
    <3>. QED
      BY <3>4, <3>5
  <2>4. open' \subseteq Outages \X (1..MaxClock)
    BY <2>1 DEF OpenInv
  <2>. QED
    BY <2>3, <2>4 DEF OpenInv
<1>6. CASE Attempt \/ Cancel \/ Succeed \/ Fail
  <2>1. clock \in 1..MaxClock /\ UNCHANGED <<intel, open>>
    <3>1. system # NoState \/ attempt # 0
      BY <1>6 DEF Attempt, Cancel, Succeed, Fail, MayTry
    <3>. QED
      BY <1>0, <1>6, <3>1 DEF LogInv, States, Attempt, Cancel, Succeed, Fail
  <2>2. \E word \in {"attempt", "success", "failed", "cancelled"} : Record(word)
    BY <1>6 DEF Attempt, Cancel, Succeed, Fail
  <2>. QED
    BY <1>2, <2>1, <2>2
<1>7. CASE Collect \/ Save \/ Crash \/ LoseState \/ LoseIntelligence \/ UNCHANGED vars
  <2>1. UNCHANGED <<log, open>> /\ (intel' = intel \/ intel' = NoIntelligence)
    BY <1>7 DEF Collect, Save, Crash, LoseState, LoseIntelligence, vars
  <2>. QED
    BY <1>1, <2>1
<1>. QED
  BY <1>3, <1>4, <1>5, <1>6, <1>7 DEF Next

-------------------------------------------------------------------------------
(* What was resolved: the list of the last build can be made again of the log, which *)
(* meanwhile has grown, or lost its oldest events.                                   *)
\* More closings end more, and begin what the fewer began.
LEMMA MoreClosings ==
    ASSUME NEW openings, NEW closings, NEW more, closings \subseteq more
    PROVE  /\ \A i, j : Ended(closings, i, j) => Ended(more, i, j)
           /\ Begins(openings, closings) \subseteq Begins(openings, more)
BY DEF Ended, Begins

\* A log that grows keeps its events where they are.
LEMMA Grown ==
    ASSUME NEW events \in Seq(Loggable), NEW e \in Loggable
    PROVE  /\ Append(events, e) \in Seq(Loggable)
           /\ \A i \in DOMAIN events : i \in DOMAIN Append(events, e) /\ Append(events, e)[i] = events[i]
           /\ DOMAIN events = 1..Len(events) /\ Len(events) \in Nat
           /\ DOMAIN Append(events, e) = 1..(Len(events) + 1) /\ Append(events, e)[Len(events) + 1] = e
<1>. DEFINE more == Append(events, e)
            n == Len(events)
<1>1. DOMAIN events = 1..n /\ n \in Nat /\ more \in Seq(Loggable) /\ DOMAIN more = 1..(n + 1)
      /\ more[n + 1] = e /\ \A i \in 1..n : more[i] = events[i]
  OBVIOUS
<1>. HIDE DEF more, n
<1>. QED
  BY <1>1 DEF more, n

\* What was put back stays in its place, or moves on at the end of the log.
LEMMA GrownPlace ==
    ASSUME NEW events \in Seq(Loggable), NEW e \in Loggable, NEW time \in Nat
    PROVE  /\ Place(events, time) <= Place(Append(events, e), time)
           /\ Place(events, time) \in DOMAIN events => Place(Append(events, e), time) = Place(events, time)
<1>. DEFINE more == Append(events, e)
            old == Place(events, time)
            new == Place(more, time)
            n == Len(events)
<1>1. n \in Nat /\ DOMAIN events = 1..n
  OBVIOUS
<1>2. /\ more \in Seq(Loggable) /\ \A i \in DOMAIN events : i \in DOMAIN more /\ more[i] = events[i]
  BY Grown
<1>3. /\ old \in 1..(n + 1) /\ \A i \in DOMAIN events : i < old => events[i].at <= time
      /\ old \in DOMAIN events => events[old].at > time
  BY PlaceFacts
<1>4. /\ new \in Nat /\ new >= 1 /\ \A i \in DOMAIN more : more[i].at > time => new <= i
      /\ new \in DOMAIN more => more[new].at > time
  <2>1. Len(more) \in Nat
    BY <1>2
  <2>. HIDE DEF more
  <2>2. /\ new \in 1..(Len(more) + 1)
        /\ \A i \in DOMAIN more : more[i].at > time => new <= i
        /\ new \in DOMAIN more => more[new].at > time
    BY <1>2, PlaceFacts
  <2>. HIDE DEF new
  <2>. QED
    BY <2>1, <2>2
<1>. HIDE DEF more, old, new, n
<1>5. old <= new
  <2>. SUFFICES ASSUME new < old PROVE FALSE
    BY <1>1, <1>3, <1>4
  <2>1. new \in DOMAIN events
    BY <1>1, <1>3, <1>4
  <2>2. events[new].at <= time /\ events[new].at > time
    BY <1>2, <1>3, <1>4, <2>1
  <2>3. events[new].at \in Nat
    BY <2>1, Entries
  <2>. QED
    BY <2>2, <2>3
<1>6. old \in DOMAIN events => new <= old
  BY <1>2, <1>3, <1>4
<1>. QED
  BY <1>3, <1>4, <1>5, <1>6 DEF more, old, new

\* Every closing has one in the longer log, in its place or behind the end of the shorter.
LEMMA GrownClosing ==
    ASSUME NEW events \in Seq(Loggable), NEW e \in Loggable, NEW inferred, Ends(inferred), NEW c,
           NEW x \in Closings(events, inferred, c)
    PROVE  \E y \in Closings(Append(events, e), inferred, c) :
               /\ x.place <= y.place
               /\ x.place \in DOMAIN events => y.place = x.place
<1>. DEFINE more == Append(events, e)
<1>1. more \in Seq(Loggable) /\ \A i \in DOMAIN events : i \in DOMAIN more /\ more[i] = events[i]
  BY Grown
<1>. HIDE DEF more
<1>2. CASE x.place \in DOMAIN events /\ Closes(events[x.place], c)
  <2>. DEFINE y == Closing(x.place, more[x.place].at)
  <2>1. y \in Closings(more, inferred, c)
    BY <1>1, <1>2, LoggedClosing
  <2>2. y.place = x.place /\ x.place \in Nat
    BY <1>2, ClosingFields, Entries
  <2>. HIDE DEF y
  <2>3. x.place <= y.place
    BY <2>2
  <2>. QED
    BY <2>1, <2>2, <2>3 DEF more
<1>3. CASE \E r \in inferred :
               /\ r.component = c /\ c \in Outages /\ x.place = Place(events, r.end)
               /\ \E i \in Openings(events, c) : events[i].at = r.start
  <2>1. PICK r \in inferred :
            /\ r.component = c /\ c \in Outages /\ x.place = Place(events, r.end)
            /\ \E i \in Openings(events, c) : events[i].at = r.start
    BY <1>3
  <2>2. PICK i \in Openings(events, c) : events[i].at = r.start
    BY <2>1
  <2>3. i \in Openings(more, c) /\ more[i].at = r.start
    BY <1>1, <2>2 DEF Openings
  <2>. DEFINE y == Closing(Place(more, r.end), r.end)
  <2>4. y \in Closings(more, inferred, c)
    BY <2>1, <2>3, RestoredClosing
  <2>5. r.end \in Nat
    BY IncidentsAssumption DEF Ends
  <2>6. y.place = Place(more, r.end)
    BY ClosingFields
  <2>. HIDE DEF y
  <2>7. x.place <= y.place /\ (x.place \in DOMAIN events => y.place = x.place)
    BY <2>1, <2>5, <2>6, GrownPlace DEF more
  <2>. QED
    BY <2>4, <2>7 DEF more
<1>. QED
  BY <1>2, <1>3, ClosingOf

\* The list can be made again of the log and what was inferred: the incident of an inferred end
\* still begins where it did, and nothing of the log or inferred earlier closes it;
Founded(events, inferred, p) ==
    \A k \in Openings(events, p.component) : events[k].at = p.start =>
        /\ k \in Begins(Openings(events, p.component), Closings(events, inferred, p.component))
        /\ \A j \in DOMAIN events : k < j /\ Closes(events[j], p.component) => p.end < events[j].at
        /\ \A q \in inferred : q.component = p.component /\ k < Place(events, q.end) => p.end <= q.end
\* and after the start of one that the log resolved there is a closing.
Closed(events, inferred, r) ==
    \A k \in Openings(events, r.component) : events[k].at = r.start =>
        \E x \in Closings(events, inferred, r.component) : k < x.place

\* Appending an event later than the list changes nothing of that.
LEMMA GrownRecords ==
    ASSUME NEW events \in Seq(Loggable), NEW e \in Loggable, NEW inferred, Ends(inferred),
           NEW r, r.start \in Nat, NEW upto \in Nat, r.start <= upto,
           \A c : Opens(e, c) \/ Closes(e, c) => upto < e.at
    PROVE  /\ Founded(events, inferred, r) /\ r.end \in Nat /\ r.end <= upto
                => Founded(Append(events, e), inferred, r)
           /\ Closed(events, inferred, r) => Closed(Append(events, e), inferred, r)
<1>. DEFINE more == Append(events, e)
            c == r.component
            n == Len(events)
            old == Closings(events, inferred, c)
            new == Closings(more, inferred, c)
<1>1. /\ more \in Seq(Loggable) /\ \A i \in DOMAIN events : i \in DOMAIN more /\ more[i] = events[i]
      /\ DOMAIN events = 1..n /\ n \in Nat /\ DOMAIN more = 1..(n + 1) /\ more[n + 1] = e
  BY Grown
<1>2. \A x \in old : \E y \in new : x.place <= y.place /\ (x.place \in DOMAIN events => y.place = x.place)
  BY GrownClosing
<1>3. Positioned(old) /\ Positioned(new)
  <2>. HIDE DEF more
  <2>. QED
    BY <1>1, ClosingTimes
<1>4. e.at \in Nat
  BY IncidentsAssumption DEF Loggable
<1>5. \A time \in Nat : Place(events, time) \in DOMAIN events => Place(more, time) = Place(events, time)
  BY GrownPlace
<1>6. \A time \in Nat : Place(events, time) \in 1..(n + 1)
  BY PlaceFacts
<1>. HIDE DEF more, old, new, n
<1>7. \A i \in DOMAIN more : i \in Nat /\ ((i \in DOMAIN events /\ more[i] = events[i]) \/ (i = n + 1 /\ more[i] = e))
  <2>1. \A i \in 1..(n + 1) : i \in Nat /\ (i \in 1..n \/ i = n + 1)
    BY <1>1
  <2>. QED
    BY <1>1, <2>1
<1>8. ASSUME NEW i \in DOMAIN events, NEW j \in DOMAIN events, Ended(old, i, j) PROVE Ended(new, i, j)
  <2>1. PICK x \in old : i < x.place /\ x.place <= j
    BY <1>8 DEF Ended
  <2>2. x.place \in DOMAIN events
    BY <1>1, <1>3, <2>1 DEF Positioned
  <2>. QED
    BY <1>2, <2>1, <2>2 DEF Ended
<1>9. \A k \in Openings(more, c) : more[k].at = r.start =>
          k \in DOMAIN events /\ k \in Openings(events, c) /\ events[k].at = r.start
  <2>. SUFFICES ASSUME NEW k \in DOMAIN more, Opens(more[k], c), more[k].at = r.start
       PROVE  k \in DOMAIN events /\ Opens(events[k], c) /\ events[k].at = r.start
    BY DEF Openings
  <2>1. CASE k = n + 1 /\ more[k] = e
    BY <1>4, <2>1
  <2>. QED
    BY <1>7, <2>1
<1>10. ASSUME Founded(events, inferred, r), r.end \in Nat, r.end <= upto PROVE Founded(more, inferred, r)
  <2>. SUFFICES ASSUME NEW k \in Openings(more, c), more[k].at = r.start
       PROVE  /\ k \in Begins(Openings(more, c), new)
              /\ \A j \in DOMAIN more : k < j /\ Closes(more[j], c) => r.end < more[j].at
              /\ \A q \in inferred : q.component = c /\ k < Place(more, q.end) => r.end <= q.end
    BY DEF Founded, new
  <2>1. /\ k \in DOMAIN events /\ k \in Begins(Openings(events, c), old)
        /\ \A j \in DOMAIN events : k < j /\ Closes(events[j], c) => r.end < events[j].at
        /\ \A q \in inferred : q.component = c /\ k < Place(events, q.end) => r.end <= q.end
    BY <1>9, <1>10 DEF Founded, old
  <2>2. ASSUME NEW j \in Openings(more, c), j < k PROVE Ended(new, j, k)
    <3>1. j \in DOMAIN more
      BY DEF Openings
    <3>2. j \in DOMAIN events /\ j \in Openings(events, c)
      BY <1>1, <1>7, <2>1, <2>2, <3>1 DEF Openings
    <3>3. Ended(old, j, k)
      BY <2>1, <2>2, <3>2 DEF Begins
    <3>. QED
      BY <1>8, <2>1, <3>2, <3>3
  <2>3. ASSUME NEW j \in DOMAIN more, k < j, Closes(more[j], c) PROVE r.end < more[j].at
    <3>1. CASE j \in DOMAIN events /\ more[j] = events[j]
      BY <2>1, <2>3, <3>1
    <3>2. CASE more[j] = e
      BY <1>4, <1>10, <2>3, <3>2
    <3>. QED
      BY <1>7, <3>1, <3>2
  <2>4. ASSUME NEW q \in inferred, q.component = c, k < Place(more, q.end) PROVE r.end <= q.end
    <3>1. q.end \in Nat
      BY IncidentsAssumption DEF Ends
    <3>2. k < Place(events, q.end)
      <4>. DEFINE old1 == Place(events, q.end)
      <4>1. old1 \in 1..(n + 1) /\ (old1 \in 1..n => Place(more, q.end) = old1) /\ k \in 1..n
        BY <1>1, <1>5, <1>6, <2>1, <3>1
      <4>. HIDE DEF old1
      <4>2. ~(old1 <= k)
        BY <1>1, <2>4, <4>1
      <4>3. k < old1
        BY <1>1, <4>1, <4>2
      <4>. QED
        BY <4>3 DEF old1
    <3>. QED
      BY <2>1, <2>4, <3>2
  <2>. QED
    BY <2>2, <2>3, <2>4 DEF Begins
<1>11. ASSUME Closed(events, inferred, r) PROVE Closed(more, inferred, r)
  <2>. SUFFICES ASSUME NEW k \in Openings(more, c), more[k].at = r.start
       PROVE  \E y \in new : k < y.place
    BY DEF Closed, new
  <2>1. k \in DOMAIN events /\ \E x \in old : k < x.place
    BY <1>9, <1>11 DEF Closed, old
  <2>2. PICK x \in old : k < x.place
    BY <2>1
  <2>3. PICK y \in new : x.place <= y.place
    BY <1>2
  <2>. QED
    BY <1>1, <1>3, <2>1, <2>2, <2>3 DEF Positioned
<1>. QED
  BY <1>10, <1>11 DEF more

\* What is put back behind the first event moves with the rest when that leaves.
LEMMA ShrunkPlace ==
    ASSUME NEW events \in Seq(Loggable), InOrder(events), events # << >>, NEW time \in Nat,
           Place(events, time) # 1
    PROVE  Place(Tail(events), time) = Place(events, time) - 1
<1>. DEFINE rest == Tail(events)
            old == Place(events, time)
            new == Place(rest, time)
            n == Len(events)
<1>1. /\ n \in Nat \ {0} /\ DOMAIN events = 1..n /\ rest \in Seq(Loggable)
      /\ Len(rest) = n - 1 /\ DOMAIN rest = 1..(n - 1)
  BY HeadTailProperties
<1>2. \A i \in 1..(n - 1) : i + 1 \in 1..n /\ rest[i] = events[i + 1]
  BY <1>1, TailInOrder
<1>3. /\ old \in 1..(n + 1) /\ old # 1
      /\ \A i \in 1..n : events[i].at > time => old <= i
      /\ old \in 1..n => events[old].at > time
  BY <1>1, PlaceFacts
<1>4. /\ new \in 1..n
      /\ \A i \in 1..(n - 1) : rest[i].at > time => new <= i
      /\ new \in 1..(n - 1) => rest[new].at > time
  <2>. HIDE DEF rest, n
  <2>1. /\ new \in 1..(Len(rest) + 1)
        /\ \A i \in DOMAIN rest : rest[i].at > time => new <= i
        /\ new \in DOMAIN rest => rest[new].at > time
    BY <1>1, PlaceFacts
  <2>. HIDE DEF new
  <2>. QED
    BY <1>1, <2>1
<1>. HIDE DEF rest, old, new, n
<1>5. new <= old - 1
  <2>1. CASE old \in 1..n
    <3>1. old - 1 \in 1..(n - 1) /\ (old - 1) + 1 = old
      BY <1>1, <1>3, <2>1
    <3>2. rest[old - 1] = events[old]
      BY <1>2, <3>1
    <3>. QED
      BY <1>3, <1>4, <2>1, <3>1, <3>2
  <2>2. CASE old = n + 1
    BY <1>1, <1>4, <2>2
  <2>. QED
    BY <1>1, <1>3, <2>1, <2>2
<1>6. old - 1 <= new
  <2>1. CASE new \in 1..(n - 1)
    <3>1. old <= new + 1
      BY <1>2, <1>3, <1>4, <2>1
    <3>. QED
      BY <1>1, <1>3, <1>4, <3>1
  <2>2. CASE new = n
    BY <1>1, <1>3, <2>2
  <2>. QED
    BY <1>1, <1>4, <2>1, <2>2
<1>7. new = old - 1
  BY <1>1, <1>3, <1>4, <1>5, <1>6
<1>. QED
  BY <1>7 DEF rest, old, new

\* What a closing separates from an inferred incident begins after its end.
LEMMA SeparatedLater ==
    ASSUME NEW events \in Seq(Loggable), InOrder(events), NEW inferred, Ends(inferred),
           NEW p \in inferred, Founded(events, inferred, p),
           NEW k \in Openings(events, p.component), events[k].at = p.start,
           NEW j \in DOMAIN events, Ended(Closings(events, inferred, p.component), k, j)
    PROVE  Place(events, p.end) <= j
<1>. DEFINE c == p.component
<1>1. PICK x \in Closings(events, inferred, c) : k < x.place /\ x.place <= j
  BY DEF Ended
<1>2. p.end \in Nat /\ \A q \in inferred : q.end \in Nat
  BY IncidentsAssumption DEF Ends
<1>3. /\ \A i \in DOMAIN events : k < i /\ Closes(events[i], c) => p.end < events[i].at
      /\ \A q \in inferred : q.component = c /\ k < Place(events, q.end) => p.end <= q.end
  BY DEF Founded
<1>4. DOMAIN events = 1..Len(events) /\ Len(events) \in Nat
  OBVIOUS
<1>5. p.end < events[j].at
  <2>1. CASE x.place \in DOMAIN events /\ Closes(events[x.place], c)
    <3>1. p.end < events[x.place].at /\ events[x.place].at <= events[j].at
      BY <1>1, <1>3, <2>1 DEF InOrder
    <3>2. events[x.place].at \in Nat /\ events[j].at \in Nat
      BY <2>1, Entries
    <3>. QED
      BY <1>2, <3>1, <3>2
  <2>2. CASE \E q \in inferred : q.component = c /\ x.place = Place(events, q.end)
    <3>1. PICK q \in inferred : q.component = c /\ x.place = Place(events, q.end)
      BY <2>2
    <3>. DEFINE m == Place(events, q.end)
    <3>2. m \in 1..(Len(events) + 1) /\ (m \in DOMAIN events => events[m].at > q.end) /\ k < m /\ m <= j
      BY <1>1, <1>2, <3>1, PlaceFacts
    <3>3. p.end <= q.end /\ q.end \in Nat
      BY <1>2, <1>3, <3>1, <3>2
    <3>. HIDE DEF m
    <3>4. m \in DOMAIN events
      BY <1>4, <3>2
    <3>5. events[m].at > q.end /\ events[m].at <= events[j].at /\ events[m].at \in Nat /\ events[j].at \in Nat
      BY <3>2, <3>4, Entries DEF InOrder
    <3>. QED
      BY <1>2, <3>3, <3>5
  <2>. QED
    BY <1>1, <2>1, <2>2, ClosingOf
<1>6. events[j].at > p.end
  BY <1>2, <1>5, Entries
<1>. QED
  BY <1>2, <1>6, PlaceFacts

\* The oldest event is not the first of several OFFLINE events of one outage.
OldestIsApart(events, inferred) ==
    \A c \in Outages : 1 \in Openings(events, c) =>
        \A j \in Openings(events, c) : j # 1 => Ended(Closings(events, inferred, c), 1, j)

\* What closes a later incident than that of the oldest event still does without it.
LEMMA ShrunkClosing ==
    ASSUME NEW events \in Seq(Loggable), InOrder(events), events # << >>, NEW inferred, Ends(inferred),
           \A p \in inferred : p.component \in Outages => Founded(events, inferred, p),
           OldestIsApart(events, inferred), NEW c,
           NEW k \in Openings(events, c), k # 1,
           NEW x \in Closings(events, inferred, c), k < x.place
    PROVE  \E y \in Closings(Tail(events), inferred, c) : y.place = x.place - 1
<1>. DEFINE rest == Tail(events)
<1>1. /\ rest \in Seq(Loggable)
      /\ \A i \in DOMAIN events : i # 1 => i - 1 \in DOMAIN rest /\ rest[i - 1] = events[i]
  BY TailInOrder
<1>2. k \in DOMAIN events /\ k \in Nat /\ k # 0
  BY Entries DEF Openings
<1>. HIDE DEF rest
<1>3. CASE x.place \in DOMAIN events /\ Closes(events[x.place], c)
  <2>1. x.place \in Nat
    BY <1>3, Entries
  <2>. DEFINE i == x.place - 1
              y == Closing(i, rest[i].at)
  <2>2. i \in DOMAIN rest /\ rest[i] = events[x.place]
    BY <1>1, <1>2, <1>3, <2>1
  <2>3. y \in Closings(rest, inferred, c)
    BY <1>3, <2>2, LoggedClosing
  <2>4. y.place = x.place - 1
    BY ClosingFields
  <2>. QED
    BY <2>3, <2>4 DEF rest
<1>4. CASE \E q \in inferred :
               /\ q.component = c /\ c \in Outages /\ x.place = Place(events, q.end)
               /\ \E i \in Openings(events, c) : events[i].at = q.start
  <2>1. PICK q \in inferred :
            /\ q.component = c /\ c \in Outages /\ x.place = Place(events, q.end)
            /\ \E i \in Openings(events, c) : events[i].at = q.start
    BY <1>4
  <2>2. PICK i \in Openings(events, c) : events[i].at = q.start
    BY <2>1
  <2>3. q.end \in Nat /\ Place(events, q.end) \in 1..(Len(events) + 1) /\ Len(events) \in Nat
    <3>1. q.end \in Nat
      BY IncidentsAssumption DEF Ends
    <3>2. Place(events, q.end) \in 1..(Len(events) + 1)
      BY <3>1, PlaceFacts
    <3>. QED
      BY <3>1, <3>2
  <2>4. i # 1
    <3>. SUFFICES ASSUME i = 1 PROVE FALSE
      OBVIOUS
    <3>1. Ended(Closings(events, inferred, c), 1, k)
      BY <2>1, <2>2 DEF OldestIsApart
    <3>2. Place(events, q.end) <= k
      BY <1>2, <2>1, <2>2, <3>1, SeparatedLater
    <3>. QED
      BY <1>2, <2>1, <2>3, <3>2
  <2>5. i - 1 \in Openings(rest, c) /\ rest[i - 1].at = q.start
    BY <1>1, <2>2, <2>4 DEF Openings
  <2>. DEFINE y == Closing(Place(rest, q.end), q.end)
  <2>6. y \in Closings(rest, inferred, c)
    BY <2>1, <2>5, RestoredClosing
  <2>7. y.place = Place(rest, q.end)
    BY ClosingFields
  <2>8. Place(events, q.end) # 1
    BY <1>2, <2>1, <2>3
  <2>9. Place(rest, q.end) = Place(events, q.end) - 1
    BY <2>3, <2>8, ShrunkPlace DEF rest
  <2>. HIDE DEF y
  <2>10. y.place = x.place - 1
    BY <2>1, <2>7, <2>9
  <2>. QED
    BY <2>6, <2>10 DEF rest
<1>. QED
  BY <1>3, <1>4, ClosingOf

\* Losing the oldest event changes nothing of what the list can be made of.
LEMMA ShrunkRecords ==
    ASSUME NEW events \in Seq(Loggable), InOrder(events), events # << >>, NEW inferred, Ends(inferred),
           \A p \in inferred : p.component \in Outages => Founded(events, inferred, p),
           OldestIsApart(events, inferred), NEW r
    PROVE  /\ Founded(events, inferred, r) => Founded(Tail(events), inferred, r)
           /\ Closed(events, inferred, r) => Closed(Tail(events), inferred, r)
<1>. DEFINE rest == Tail(events)
            c == r.component
            old == Closings(events, inferred, c)
            new == Closings(rest, inferred, c)
<1>1. /\ rest \in Seq(Loggable) /\ \A i \in DOMAIN rest : i + 1 \in DOMAIN events /\ rest[i] = events[i + 1]
  BY TailInOrder
<1>2. \A k \in Openings(events, c) : k # 1 =>
          \A x \in old : k < x.place => \E y \in new : y.place = x.place - 1
  BY ShrunkClosing
<1>3. Positioned(old) /\ Positioned(new)
  <2>. HIDE DEF rest
  <2>. QED
    BY <1>1, ClosingTimes
<1>4. \A time \in Nat : Place(events, time) # 1 => Place(rest, time) = Place(events, time) - 1
  BY ShrunkPlace
<1>5. ASSUME NEW time \in Nat PROVE Place(events, time) \in Nat /\ Place(rest, time) \in Nat
  <2>1. Place(events, time) \in 1..(Len(events) + 1)
    BY PlaceFacts
  <2>. HIDE DEF rest
  <2>2. Place(rest, time) \in 1..(Len(rest) + 1)
    BY <1>1, PlaceFacts
  <2>3. Len(events) \in Nat /\ Len(rest) \in Nat
    BY <1>1
  <2>. QED
    BY <2>1, <2>2, <2>3
<1>6. \A i \in DOMAIN rest : i \in Nat \ {0}
  <2>. HIDE DEF rest
  <2>. QED
    BY <1>1, Entries
<1>. HIDE DEF rest, old, new
<1>7. \A k \in Openings(rest, c) : /\ k \in DOMAIN rest /\ k + 1 \in Openings(events, c) /\ k + 1 # 1 /\ k \in Nat \ {0}
                                   /\ k + 1 \in DOMAIN events /\ rest[k] = events[k + 1]
  BY <1>1, <1>6 DEF Openings
<1>8. ASSUME Founded(events, inferred, r) PROVE Founded(rest, inferred, r)
  <2>. SUFFICES ASSUME NEW k \in Openings(rest, c), rest[k].at = r.start
       PROVE  /\ k \in Begins(Openings(rest, c), new)
              /\ \A j \in DOMAIN rest : k < j /\ Closes(rest[j], c) => r.end < rest[j].at
              /\ \A q \in inferred : q.component = c /\ k < Place(rest, q.end) => r.end <= q.end
    BY DEF Founded, new
  <2>1. /\ k + 1 \in Begins(Openings(events, c), old)
        /\ \A j \in DOMAIN events : k + 1 < j /\ Closes(events[j], c) => r.end < events[j].at
        /\ \A q \in inferred : q.component = c /\ k + 1 < Place(events, q.end) => r.end <= q.end
    BY <1>7, <1>8 DEF Founded, old
  <2>2. ASSUME NEW j \in Openings(rest, c), j < k PROVE Ended(new, j, k)
    <3>1. Ended(old, j + 1, k + 1)
      BY <1>7, <2>1, <2>2 DEF Begins
    <3>2. PICK x \in old : j + 1 < x.place /\ x.place <= k + 1
      BY <3>1 DEF Ended
    <3>3. PICK y \in new : y.place = x.place - 1
      BY <1>2, <1>7, <3>2
    <3>. QED
      BY <1>3, <1>7, <3>2, <3>3 DEF Ended, Positioned
  <2>3. ASSUME NEW j \in DOMAIN rest, k < j, Closes(rest[j], c) PROVE r.end < rest[j].at
    BY <1>1, <1>6, <1>7, <2>1, <2>3
  <2>4. ASSUME NEW q \in inferred, q.component = c, k < Place(rest, q.end) PROVE r.end <= q.end
    <3>1. q.end \in Nat
      BY IncidentsAssumption DEF Ends
    <3>. DEFINE before == Place(events, q.end)
                after == Place(rest, q.end)
    <3>2. /\ before \in Nat /\ after \in Nat
          /\ before # 1 => after = before - 1
          /\ before \in DOMAIN events => events[before].at > q.end
          /\ \A i \in DOMAIN rest : rest[i].at > q.end => after <= i
      BY <1>1, <1>4, <1>5, <3>1, PlaceFacts
    <3>3. 1 \in DOMAIN events /\ k < after /\ k \in Nat
      BY <1>7, <2>4
    <3>. HIDE DEF before, after
    <3>4. CASE before = 1
      <4>1. events[1].at > q.end /\ events[1].at <= events[k + 1].at
        BY <1>7, <3>2, <3>3, <3>4 DEF InOrder
      <4>2. events[1].at \in Nat /\ events[k + 1].at \in Nat
        BY <1>7, <3>3, Entries
      <4>3. rest[k].at > q.end
        BY <1>7, <3>1, <4>1, <4>2
      <4>4. after <= k
        BY <1>7, <3>2, <4>3
      <4>. QED
        BY <3>2, <3>3, <4>4
    <3>5. CASE before # 1
      <4>1. k + 1 < before
        BY <3>2, <3>3, <3>5
      <4>. QED
        BY <2>1, <2>4, <4>1 DEF before
    <3>. QED
      BY <3>4, <3>5
  <2>. QED
    BY <2>2, <2>3, <2>4 DEF Begins
<1>9. ASSUME Closed(events, inferred, r) PROVE Closed(rest, inferred, r)
  <2>. SUFFICES ASSUME NEW k \in Openings(rest, c), rest[k].at = r.start
       PROVE  \E y \in new : k < y.place
    BY DEF Closed, new
  <2>1. PICK x \in old : k + 1 < x.place
    BY <1>7, <1>9 DEF Closed, old
  <2>2. PICK y \in new : y.place = x.place - 1
    BY <1>2, <1>7, <2>1
  <2>. QED
    BY <1>3, <1>7, <2>1, <2>2 DEF Positioned
<1>. QED
  BY <1>8, <1>9 DEF rest

\* Records differ in component or start, none begins after the build, and each resolved one
\* can be resolved again.
ResolvedInv ==
    /\ OneEach(intel.records) /\ intel.inferred = Inferred(intel.records)
    /\ \A r \in intel.records : r.start <= intel.at
    /\ \A p \in intel.inferred : p.component \in Outages => Founded(log, intel.inferred, p)
    /\ \A r \in intel.records : r.end # 0 /\ ~r.inferred => Closed(log, intel.inferred, r)

\* No two records begin at once, since no opening is logged twice in a second.
LEMMA RecordsOnce ==
    ASSUME LogInv, OnceInv, NEW inferred, Ends(inferred)
    PROVE  OneEach(Records(log, inferred))
<1>. SUFFICES ASSUME NEW r \in Records(log, inferred), NEW s \in Records(log, inferred), Keyed(r) = Keyed(s)
     PROVE  r = s
  BY DEF OneEach
<1>1. PICK c \in Components, i \in DOMAIN log :
          /\ r = Incident(log, c, Closings(log, inferred, c), i, {"success", "failed"})
          /\ r.component = c /\ Opens(log[i], c) /\ r.start = log[i].at
  BY RecordOf
<1>2. PICK d \in Components, j \in DOMAIN log :
          /\ s = Incident(log, d, Closings(log, inferred, d), j, {"success", "failed"})
          /\ s.component = d /\ Opens(log[j], d) /\ s.start = log[j].at
  BY RecordOf
<1>3. c = d /\ log[i].at = log[j].at
  BY <1>1, <1>2 DEF Keyed
<1>4. i = j
  BY <1>1, <1>2, <1>3, OpeningKey DEF OnceInv
<1>. QED
  BY <1>1, <1>2, <1>3, <1>4, Zenon

\* A build puts back every inferred end that the build before it has put back.
LEMMA RestoredAgain ==
    ASSUME LogInv, OnceInv, ListInv, ResolvedInv, loop.pc = "build", NEW c,
           NEW next, next = Inferred(Incidents(log, loop.state, intel.inferred))
    PROVE  Closings(log, intel.inferred, c) \subseteq Closings(log, next, c)
<1>. DEFINE state == loop.state
            inferred == intel.inferred
<1>1. /\ state.at \in 1..MaxClock /\ log \in Seq(Loggable)
      /\ inferred \in SUBSET IncidentTypes /\ Ends(inferred) /\ OneEach(inferred)
      /\ \A p \in inferred : p.end # 0
  <2>1. state.at \in 1..MaxClock /\ log \in Seq(Loggable)
    BY DEF LogInv, LoopInv, States
  <2>2. OneEach(inferred)
    BY DEF ResolvedInv, ListInv, OneEach
  <2>. QED
    BY <2>1, <2>2, InferredTyped
<1>2. Records(log, inferred) \in SUBSET IncidentTypes
  BY <1>1, RecordsTyped
<1>. SUFFICES ASSUME NEW x \in Closings(log, inferred, c), x \notin Closings(log, next, c)
     PROVE  FALSE
  OBVIOUS
<1>3. x \in Restored(log, inferred, c)
  BY DEF Closings
<1>4. PICK p \in inferred : /\ p.component = c /\ c \in Outages
                            /\ x = Closing(Place(log, p.end), p.end)
                            /\ \E i \in Openings(log, c) : log[i].at = p.start
  BY <1>3, Zenon DEF Restored, Place
<1>. HIDE DEF state, inferred
<1>5. PICK k \in Begins(Openings(log, c), Closings(log, inferred, c)) : log[k].at = p.start
  <2>1. Founded(log, inferred, p)
    BY <1>4 DEF ResolvedInv, inferred
  <2>. QED
    BY <1>4, <2>1 DEF Founded
<1>6. c \in Components
  BY <1>4 DEF Outages, Components
<1>7. PICK q \in Records(log, inferred) : q.component = c /\ q.start = log[k].at
  BY <1>6, ListedBegins
<1>8. Keyed(p) = Keyed(q)
  BY <1>4, <1>5, <1>7 DEF Keyed
<1>9. PICK r \in Reconciled(Records(log, inferred), state, inferred) : Keyed(r) = Keyed(p) /\ r.inferred /\ r.end = p.end
  BY <1>1, <1>2, <1>8, ReconciledReplays
<1>10. r \in next /\ r.component = c /\ r.start = p.start
  BY <1>4, <1>9 DEF Inferred, Incidents, Keyed, state, inferred
<1>11. x \in Closings(log, next, c)
  BY <1>4, <1>9, <1>10, RestoredClosing
<1>. QED
  BY <1>11

\* What a build lists as resolved it can resolve again.
LEMMA BuiltResolved ==
    ASSUME LogInv, OnceInv, ListInv, ResolvedInv, loop.pc = "build",
           NEW records, records = Incidents(log, loop.state, intel.inferred)
    PROVE  /\ OneEach(records) /\ \A r \in records : r.start <= clock
           /\ \A p \in Inferred(records) : p.component \in Outages => Founded(log, Inferred(records), p)
           /\ \A r \in records : r.end # 0 /\ ~r.inferred => Closed(log, Inferred(records), r)
<1>. DEFINE state == loop.state
            inferred == intel.inferred
            next == Inferred(records)
<1>1. /\ state.at = clock /\ clock \in 1..MaxClock /\ log \in Seq(Loggable)
      /\ inferred \in SUBSET IncidentTypes /\ Ends(inferred)
      /\ \A p \in inferred : p.end # 0 /\ p.end \in Nat /\ p.end <= clock
  <2>1. state.at = clock /\ clock \in 1..MaxClock /\ log \in Seq(Loggable) /\ intel.at \in 0..clock
    BY DEF LogInv, LoopInv, States, ListInv
  <2>2. \A p \in inferred : p.end \in 1..MaxClock /\ p.end <= intel.at
    BY InferredTyped
  <2>3. \A p \in inferred : p.end # 0 /\ p.end \in Nat /\ p.end <= clock
    BY <2>1, <2>2, IncidentsAssumption
  <2>. QED
    BY <2>1, <2>3, InferredTyped
<1>2. Records(log, inferred) \in SUBSET IncidentTypes
  BY <1>1, RecordsTyped
<1>3. OneEach(records)
  <2>1. OneEach(Records(log, inferred))
    BY <1>1, RecordsOnce
  <2>2. OneEach(Reconciled(Records(log, inferred), state, inferred))
    BY <1>1, <1>2, <2>1, ReconciledOneEach
  <2>. QED
    BY <2>2 DEF Incidents
<1>4. \A c : Closings(log, inferred, c) \subseteq Closings(log, next, c)
  BY RestoredAgain
<1>. DEFINE built(r, k) ==
                /\ k \in Begins(Openings(log, r.component), Closings(log, inferred, r.component))
                /\ k \in Openings(log, r.component) /\ k \in DOMAIN log /\ r.start = log[k].at
            again(r) == \E p \in inferred : Keyed(p) = Keyed(r) /\ r.end = p.end
            ends(r, k) == EndOf(Closings(log, inferred, r.component), k)
<1>5. ASSUME NEW r \in records
      PROVE  \E k : /\ built(r, k)
                    /\ \/ ~r.inferred /\ r.end = ends(r, k)
                       \/ r.inferred /\ again(r)
                       \/ r.inferred /\ ends(r, k) = 0 /\ r.end = clock
  <2>1. PICK q \in Records(log, inferred) :
            /\ Keyed(r) = Keyed(q)
            /\ \/ r = q
               \/ r.inferred /\ \E p \in inferred : Keyed(p) = Keyed(q) /\ r.end = p.end
               \/ r.inferred /\ q.end = 0 /\ r.end = state.at
    BY <1>1, <1>2, <1>5, ReconciledEnds DEF Incidents
  <2>2. PICK c \in Components : \E k \in Begins(Openings(log, c), Closings(log, inferred, c)) :
            /\ q.component = c /\ q.start = log[k].at /\ k \in DOMAIN log /\ Opens(log[k], c)
            /\ q.end = EndOf(Closings(log, inferred, c), k) /\ ~q.inferred
    BY RecordOf
  <2>3. PICK k \in Begins(Openings(log, c), Closings(log, inferred, c)) :
            /\ q.component = c /\ q.start = log[k].at /\ k \in DOMAIN log /\ Opens(log[k], c)
            /\ q.end = EndOf(Closings(log, inferred, c), k) /\ ~q.inferred
    BY <2>2
  <2>4. r.component = c /\ r.start = q.start
    BY <2>1, <2>3 DEF Keyed
  <2>5. built(r, k) /\ q.end = ends(r, k)
    BY <2>3, <2>4 DEF Openings
  <2>. HIDE DEF built, ends
  <2>. QED
    BY <1>1, <2>1, <2>3, <2>5
<1>6. ASSUME NEW r \in records, NEW k \in Openings(log, r.component), log[k].at = r.start, NEW m, built(r, m)
      PROVE  k = m
  <2>1. k \in DOMAIN log /\ Opens(log[k], r.component) /\ m \in DOMAIN log /\ Opens(log[m], r.component)
    BY <1>6 DEF Openings
  <2>. QED
    BY <1>6, <2>1, OpeningKey DEF OnceInv
<1>7. /\ \A r \in records : Positioned(Closings(log, inferred, r.component))
      /\ \A k \in DOMAIN log : k \in Nat
  BY <1>1, ClosingTimes, Entries
<1>. HIDE DEF state, inferred, next
<1>8. ASSUME NEW p \in next, p.component \in Outages PROVE Founded(log, next, p)
  <2>. DEFINE c == p.component
  <2>. SUFFICES ASSUME NEW k \in Openings(log, c), log[k].at = p.start
       PROVE  /\ k \in Begins(Openings(log, c), Closings(log, next, c))
              /\ \A j \in DOMAIN log : k < j /\ Closes(log[j], c) => p.end < log[j].at
              /\ \A q \in next : q.component = c /\ k < Place(log, q.end) => p.end <= q.end
    BY DEF Founded
  <2>1. p \in records /\ p.inferred /\ \A q \in next : q \in records /\ q.inferred
    BY DEF next, Inferred
  <2>2. built(p, k) /\ (again(p) \/ (ends(p, k) = 0 /\ p.end = clock))
    BY <1>5, <1>6, <2>1
  <2>3. k \in Begins(Openings(log, c), Closings(log, next, c))
    <3>1. k \in Begins(Openings(log, c), Closings(log, inferred, c))
      BY <2>2
    <3>. QED
      BY <1>4, <3>1, MoreClosings
  <2>4. \A q \in next : q.end = clock \/ again(q)
    BY <1>5, <2>1
  <2>5. CASE again(p)
    <3>1. PICK o \in inferred : Keyed(o) = Keyed(p) /\ p.end = o.end
      BY <2>5
    <3>2. o.component = c /\ o.start = p.start
      BY <3>1 DEF Keyed
    <3>3. Founded(log, inferred, o)
      BY <1>8, <3>2 DEF ResolvedInv, inferred
    <3>4. /\ \A j \in DOMAIN log : k < j /\ Closes(log[j], c) => p.end < log[j].at
          /\ \A q \in inferred : q.component = c /\ k < Place(log, q.end) => p.end <= q.end
      BY <3>1, <3>2, <3>3 DEF Founded
    <3>5. ASSUME NEW q \in next, q.component = c, k < Place(log, q.end) PROVE p.end <= q.end
      <4>1. CASE q.end = clock
        BY <1>1, <3>1, <4>1
      <4>2. CASE again(q)
        <5>1. PICK t \in inferred : Keyed(t) = Keyed(q) /\ q.end = t.end
          BY <4>2
        <5>2. t.component = c
          BY <3>5, <5>1 DEF Keyed
        <5>. QED
          BY <3>4, <3>5, <5>1, <5>2
      <4>. QED
        BY <2>4, <4>1, <4>2
    <3>. QED
      BY <2>3, <3>4, <3>5
  <2>6. CASE ends(p, k) = 0 /\ p.end = clock
    <3>1. \A y \in Closings(log, inferred, c) : ~(k < y.place)
      <4>1. Positioned(Closings(log, inferred, c)) /\ k \in Nat
        BY <1>7, <2>1, <2>2
      <4>. QED
        BY <2>6, <4>1, EndFacts
    <3>2. ASSUME NEW j \in DOMAIN log, k < j, Closes(log[j], c) PROVE FALSE
      BY <3>1, <3>2, LoggedClosing, ClosingFields
    <3>3. ASSUME NEW q \in next, q.component = c, k < Place(log, q.end) PROVE p.end <= q.end
      <4>1. CASE q.end = clock
        BY <1>1, <2>6, <4>1
      <4>2. CASE again(q)
        <5>1. PICK t \in inferred : Keyed(t) = Keyed(q) /\ q.end = t.end
          BY <4>2
        <5>2. t.component = c /\ t.start = q.start
          BY <3>3, <5>1 DEF Keyed
        <5>3. PICK m \in Openings(log, c) : log[m].at = q.start
          BY <1>5, <2>1, <3>3
        <5>4. Closing(Place(log, t.end), t.end) \in Closings(log, inferred, c)
          BY <1>8, <5>2, <5>3, RestoredClosing
        <5>. QED
          BY <3>1, <3>3, <5>1, <5>4, ClosingFields
      <4>. QED
        BY <2>4, <4>1, <4>2
    <3>. QED
      BY <2>3, <3>2, <3>3
  <2>. QED
    BY <2>2, <2>5, <2>6
<1>9. ASSUME NEW r \in records, r.end # 0, ~r.inferred PROVE Closed(log, next, r)
  <2>. DEFINE c == r.component
  <2>. SUFFICES ASSUME NEW k \in Openings(log, c), log[k].at = r.start
       PROVE  \E x \in Closings(log, next, c) : k < x.place
    BY DEF Closed
  <2>1. k \in DOMAIN log /\ ends(r, k) # 0
    BY <1>5, <1>6, <1>9
  <2>2. Positioned(Closings(log, inferred, c)) /\ k \in Nat
    BY <1>7, <2>1
  <2>3. PICK x \in Closings(log, inferred, c) : k < x.place
    BY <2>1, <2>2, EndFacts
  <2>. QED
    BY <1>4, <2>3
<1>10. ASSUME NEW r \in records PROVE r.start <= clock
  <2>1. PICK k \in DOMAIN log : r.start = log[k].at
    BY <1>5
  <2>. QED
    BY <2>1 DEF LogInv
<1>. QED
  BY <1>3, <1>8, <1>9, <1>10 DEF next

LEMMA ResolvedStart == Init => ResolvedInv
<1>1. NoIntelligence.records = {} /\ NoIntelligence.inferred = {}
  BY DEF NoIntelligence
<1>. QED
  BY <1>1 DEF Init, ResolvedInv, OneEach, Inferred

LEMMA ResolvedStep ==
    LogInv /\ OnceInv /\ ListInv /\ ResolvedInv /\ [Next]_vars
        /\ [Trim => OldestIsApart(log, intel.inferred)]_vars => ResolvedInv'
<1>. SUFFICES ASSUME LogInv, OnceInv, ListInv, ResolvedInv, [Next]_vars,
                     [Trim => OldestIsApart(log, intel.inferred)]_vars
     PROVE  ResolvedInv'
  OBVIOUS
<1>1. CASE log' = log /\ intel' = intel
  BY <1>1 DEF ResolvedInv
<1>2. CASE log' = log /\ intel' = NoIntelligence
  <2>1. intel'.records = {} /\ intel'.inferred = {}
    BY <1>2 DEF NoIntelligence
  <2>. QED
    BY <2>1 DEF ResolvedInv, OneEach, Inferred
<1>3. CASE /\ intel' = intel
           /\ \E e \in Loggable : log' = Append(log, e) /\ \A c : Opens(e, c) \/ Closes(e, c) => intel.at < e.at
  <2>1. PICK e \in Loggable : log' = Append(log, e) /\ \A c : Opens(e, c) \/ Closes(e, c) => intel.at < e.at
    BY <1>3
  <2>2. Ends(intel.inferred) /\ log \in Seq(Loggable) /\ intel.at \in Nat
    BY InferredTyped DEF LogInv, ListInv
  <2>3. ASSUME NEW r \in intel.records
        PROVE  /\ Founded(log, intel.inferred, r) /\ r.end \in Nat /\ r.end <= intel.at
                     => Founded(log', intel.inferred, r)
               /\ Closed(log, intel.inferred, r) => Closed(log', intel.inferred, r)
    <3>1. r.start \in Nat /\ r.start <= intel.at
      BY IncidentsAssumption DEF ListInv, IncidentTypes, ResolvedInv
    <3>. QED
      BY <2>1, <2>2, <3>1, GrownRecords
  <2>4. \A p \in intel.inferred : p \in intel.records /\ p.end \in Nat /\ p.end <= intel.at
    BY InferredTyped, IncidentsAssumption DEF ListInv
  <2>. QED
    BY <1>3, <2>3, <2>4 DEF ResolvedInv
<1>4. CASE Build
  <2>. DEFINE records == Incidents(log, loop.state, intel.inferred)
  <2>1. CASE intel' = [records |-> records, inferred |-> Inferred(records), at |-> clock]
    <3>1. loop.pc = "build" /\ log' = log
      BY <1>4 DEF Build
    <3>2. /\ OneEach(records) /\ \A r \in records : r.start <= clock
          /\ \A p \in Inferred(records) : p.component \in Outages => Founded(log, Inferred(records), p)
          /\ \A r \in records : r.end # 0 /\ ~r.inferred => Closed(log, Inferred(records), r)
      BY <3>1, BuiltResolved
    <3>. HIDE DEF records
    <3>3. intel'.records = records /\ intel'.inferred = Inferred(records) /\ intel'.at = clock
      BY <2>1
    <3>. QED
      BY <3>1, <3>2, <3>3 DEF ResolvedInv
  <2>. QED
    BY <1>2, <1>4, <2>1 DEF Build
<1>5. CASE Emit
  <2>1. loop.pending \in Seq(Stamped(clock)) /\ loop.pending # << >> /\ intel.at < clock
    BY <1>5 DEF Emit, LogInv, LoopInv, ListInv
  <2>2. Head(loop.pending) \in Loggable /\ Head(loop.pending).at = clock
    BY <2>1 DEF Stamped
  <2>. QED
    BY <1>1, <1>3, <1>5, <2>1, <2>2 DEF Emit
<1>6. CASE Attempt \/ Cancel \/ Succeed \/ Fail
  <2>1. clock \in 1..MaxClock
    <3>1. system # NoState \/ attempt # 0
      BY <1>6 DEF Attempt, Cancel, Succeed, Fail, MayTry
    <3>2. system # NoState => clock \in 1..MaxClock
      BY DEF LogInv, States
    <3>. QED
      BY <3>1, <3>2, IncidentsAssumption DEF LogInv
  <2>2. intel' = intel /\ \E word \in {"attempt", "cancelled", "success", "failed"} : Record(word)
    BY <1>6 DEF Attempt, Cancel, Succeed, Fail
  <2>3. PICK word \in {"attempt", "cancelled", "success", "failed"} : Record(word)
    BY <2>2
  <2>. DEFINE e == Event("recovery", "asterisk", word, clock)
  <2>4. e \in Loggable /\ log' = Append(log, e)
    BY <2>1, <2>3, RecoveryStamped DEF Record, Stamped
  <2>5. \A c : ~Opens(e, c) /\ ~Closes(e, c)
    BY DEF Event, Opens, Closes, Is
  <2>. HIDE DEF e
  <2>. QED
    BY <1>3, <2>2, <2>4, <2>5
<1>7. CASE Trim
  <2>1. log # << >> /\ log' = Tail(log) /\ intel' = intel
    BY <1>7 DEF Trim
  <2>2. OldestIsApart(log, intel.inferred)
    <3>1. CASE vars' = vars
      <4>1. log' = log
        BY <3>1 DEF vars
      <4>2. Len(Tail(log)) = Len(log) - 1 /\ Len(log) \in Nat
        BY <2>1, HeadTailProperties DEF LogInv
      <4>. QED
        BY <2>1, <4>1, <4>2
    <3>2. CASE Trim => OldestIsApart(log, intel.inferred)
      BY <1>7, <3>2
    <3>. QED
      BY <3>1, <3>2
  <2>3. Ends(intel.inferred) /\ log \in Seq(Loggable) /\ InOrder(log)
    BY InferredTyped DEF LogInv
  <2>4. \A p \in intel.inferred : p.component \in Outages => Founded(log, intel.inferred, p)
    BY DEF ResolvedInv
  <2>5. \A r : /\ Founded(log, intel.inferred, r) => Founded(log', intel.inferred, r)
               /\ Closed(log, intel.inferred, r) => Closed(log', intel.inferred, r)
    BY <2>1, <2>2, <2>3, <2>4, ShrunkRecords
  <2>. QED
    BY <2>1, <2>5 DEF ResolvedInv
<1>8. CASE Collect \/ Save \/ Crash \/ LoseState \/ LoseIntelligence \/ UNCHANGED vars
  BY <1>1, <1>2, <1>8 DEF Collect, Save, Crash, LoseState, LoseIntelligence, vars
<1>. QED
  BY <1>4, <1>5, <1>6, <1>7, <1>8 DEF Next

\* A resolved incident is built as resolved again.
LEMMA ResolvedAgain ==
    LogInv /\ OnceInv /\ ListInv /\ ResolvedInv /\ [Next]_vars
        => \A r \in intel.records, s \in intel'.records : r.end # 0 /\ Keyed(r) = Keyed(s) => s.end # 0
<1>. SUFFICES ASSUME LogInv, OnceInv, ListInv, ResolvedInv, [Next]_vars,
                     NEW r \in intel.records, NEW s \in intel'.records, r.end # 0, Keyed(r) = Keyed(s)
     PROVE  s.end # 0
  OBVIOUS
<1>1. CASE intel' = intel
  BY <1>1 DEF ResolvedInv, OneEach
<1>2. CASE intel' = NoIntelligence
  BY <1>2 DEF NoIntelligence
<1>3. CASE Build
  <2>. DEFINE records == Incidents(log, loop.state, intel.inferred)
              state == loop.state
              inferred == intel.inferred
  <2>1. CASE intel' = [records |-> records, inferred |-> Inferred(records), at |-> clock]
    <3>1. /\ state.at \in 1..MaxClock /\ log \in Seq(Loggable) /\ inferred \in SUBSET IncidentTypes /\ Ends(inferred)
          /\ \A p \in inferred : p.end # 0
      <4>1. state.at \in 1..MaxClock
        BY <1>3 DEF Build, LogInv, LoopInv, States
      <4>. QED
        BY <4>1, InferredTyped DEF LogInv
    <3>2. Records(log, inferred) \in SUBSET IncidentTypes
      BY <3>1, RecordsTyped
    <3>3. s \in Reconciled(Records(log, inferred), state, inferred)
      BY <2>1 DEF Incidents
    <3>4. PICK q \in Records(log, inferred) :
              /\ s.component = q.component /\ s.start = q.start
              /\ \/ s = q /\ \A p \in inferred : Keyed(p) # Keyed(q)
                 \/ \E p \in inferred : s.end = p.end
                 \/ s.end = state.at
      BY <3>1, <3>2, <3>3, ReconciledFrom
    <3>. HIDE DEF state, inferred, records
    <3>5. CASE s = q /\ \A p \in inferred : Keyed(p) # Keyed(q)
      <4>1. r \notin inferred
        BY <3>5
      <4>2. ~r.inferred
        BY <4>1 DEF ResolvedInv, Inferred, inferred
      <4>3. Closed(log, inferred, r)
        BY <4>2 DEF ResolvedInv, inferred
      <4>4. PICK c \in Components, i \in DOMAIN log :
                /\ q.component = c /\ Opens(log[i], c) /\ q.start = log[i].at
                /\ q.end = EndOf(Closings(log, inferred, c), i)
        BY RecordOf
      <4>5. r.component = c /\ r.start = log[i].at
        BY <3>5, <4>4 DEF Keyed
      <4>6. PICK x \in Closings(log, inferred, c) : i < x.place
        BY <4>3, <4>4, <4>5 DEF Closed, Openings
      <4>8. Positioned(Closings(log, inferred, c)) /\ i \in Nat
        BY <3>1, ClosingTimes, Entries
      <4>9. EndOf(Closings(log, inferred, c), i) # 0
        BY <4>6, <4>8, EndFacts
      <4>. QED
        BY <3>5, <4>4, <4>9
    <3>6. CASE \E p \in inferred : s.end = p.end
      BY <3>1, <3>6
    <3>7. CASE s.end = state.at
      BY <3>1, <3>7, IncidentsAssumption
    <3>. QED
      BY <3>4, <3>5, <3>6, <3>7
  <2>. QED
    BY <1>2, <1>3, <2>1 DEF Build
<1>. QED
  BY <1>1, <1>2, <1>3
    DEF Next, Collect, Emit, Save, Attempt, Cancel, Succeed, Fail, Crash, LoseState, LoseIntelligence, Trim, vars

-------------------------------------------------------------------------------
(* The properties. *)
LEMMA CurrentStep == LogInv /\ ListInv /\ OpenInv /\ UnresolvedIsCurrent /\ [Next]_vars => UnresolvedIsCurrent'
<1>. SUFFICES ASSUME LogInv, ListInv, OpenInv, UnresolvedIsCurrent, [Next]_vars PROVE UnresolvedIsCurrent'
  OBVIOUS
<1>1. ASSUME UNCHANGED <<loop, clock, intel>>, open' \subseteq open, system' = system \/ system' = NoState
      PROVE  UnresolvedIsCurrent'
  BY <1>1 DEF UnresolvedIsCurrent, Current
<1>2. CASE Build
  <2>. DEFINE records == Incidents(log, loop.state, intel.inferred)
  <2>1. CASE /\ intel' = [records |-> records, inferred |-> Inferred(records), at |-> clock]
             /\ open' = {o \in open : ~IsNormal(loop.state, o[1])}
    <3>1. loop.pc = "build" /\ system' = system /\ system \in {NoState, loop.state}
      BY <1>2 DEF Build, ListInv
    <3>2. \A r \in records : r.end = 0 => ~IsNormal(loop.state, r.component)
      BY <3>1, BuiltList
    <3>3. /\ log \in Seq(Loggable) /\ InOrder(log) /\ loop.state.at \in 1..MaxClock
          /\ intel.inferred \in SUBSET IncidentTypes /\ Learned(intel.inferred, intel.at)
      <4>1. loop.state.at \in 1..MaxClock
        BY <3>1 DEF LogInv, LoopInv, States
      <4>. QED
        BY <4>1, InferredTyped DEF LogInv, ListInv
    <3>4. ASSUME NEW o \in open'
          PROVE  Cardinality({r \in Unresolved(records) : r.component = o[1]}) = 1
      <4>1. o \in open /\ ~IsNormal(loop.state, o[1]) /\ o[1] \in Outages
        BY <2>1 DEF OpenInv
      <4>2. PICK i \in DOMAIN log : OpenAt(log, intel.inferred, o[1], i)
        BY <4>1 DEF OpenInv
      <4>. QED
        BY <3>3, <4>1, <4>2, OneUnresolved
    <3>. HIDE DEF records
    <3>5. intel'.records = records
      BY <2>1
    <3>. QED
      BY <3>1, <3>2, <3>4, <3>5 DEF UnresolvedIsCurrent, Unresolved
  <2>2. CASE intel' = NoIntelligence
    BY <2>2 DEF NoIntelligence, UnresolvedIsCurrent, Current
  <2>. QED
    BY <1>2, <2>1, <2>2 DEF Build
<1>3. CASE Collect \/ Emit \/ Save
  <2>1. loop'.pc # "idle"
    BY <1>3 DEF Collect, Emit, Save, LogInv, LoopInv
  <2>. QED
    BY <2>1 DEF UnresolvedIsCurrent, Current
<1>4. CASE Crash
  <2>1. intel'.at < clock' /\ clock \in Nat /\ intel.at \in 0..clock
    BY <1>4 DEF Crash, ListInv, LogInv
  <2>2. intel'.at # clock'
    BY <1>4, <2>1 DEF Crash
  <2>. QED
    BY <2>2 DEF UnresolvedIsCurrent, Current
<1>5. CASE LoseIntelligence
  BY <1>5 DEF LoseIntelligence, NoIntelligence, UnresolvedIsCurrent, Current
<1>6. CASE Attempt \/ Cancel \/ Succeed \/ Fail \/ LoseState \/ Trim \/ UNCHANGED vars
  <2>1. UNCHANGED <<loop, clock, intel>> /\ open' \subseteq open /\ (system' = system \/ system' = NoState)
    BY <1>6 DEF Attempt, Cancel, Succeed, Fail, LoseState, Trim, vars
  <2>. QED
    BY <1>1, <2>1
<1>. QED
  BY <1>2, <1>3, <1>4, <1>5, <1>6 DEF Next

\* Whatever events, files and threads are lost: an outage that is in the log, that nothing in it
\* has closed and no build has seen normal, is listed as exactly one unresolved incident, and no
\* component last seen normal is listed with one (intelligence.py:1195, :1655).
THEOREM UnresolvedAreCurrent == Spec => []UnresolvedIsCurrent
<1>1. Init => LogInv /\ ListInv /\ OpenInv /\ UnresolvedIsCurrent
  <2>1. Init => UnresolvedIsCurrent
    BY DEF Init, NoIntelligence, UnresolvedIsCurrent, Current
  <2>. QED
    BY <2>1, LogStart, ListStart, OpenStart
<1>2. LogInv /\ ListInv /\ OpenInv /\ UnresolvedIsCurrent /\ [Next]_vars
        => (LogInv /\ ListInv /\ OpenInv /\ UnresolvedIsCurrent)'
  BY LogStep, ListStep, OpenStep, CurrentStep
<1>. QED
  BY <1>1, <1>2, PTL DEF Spec

\* The log is in the order of its stamps, none of which is later than now, says a thing once a
\* second, and the loop works on a state of the present second: the windows and the boundaries of the incidents rest on it.
THEOREM LogIsOrdered == Spec => [](LogInv /\ OnceInv)
<1>1. Init => LogInv /\ OnceInv
  BY LogStart, OnceStart
<1>2. LogInv /\ OnceInv /\ [Next]_vars => (LogInv /\ OnceInv)'
  BY LogStep, OnceStep
<1>. QED
  BY <1>1, <1>2, PTL DEF Spec

\* Each Asterisk incident of intelligence.py lies within one of incident.py, made of the same log.
THEOREM EnginesDoAgree == Spec => []EnginesAgree
<1>1. LogInv => EnginesAgree
  BY Agreement DEF LogInv, EnginesAgree
<1>. QED
  BY <1>1, LogIsOrdered, PTL

\* While the log never loses the first of several OFFLINE events of one outage, an incident
\* once listed as resolved stays resolved (intelligence.py:1195): every build can make the
\* list of the build before it again, and resolves it alike.
THEOREM ResolutionsStay ==
    Spec /\ [][Trim => OldestIsApart(log, intel.inferred)]_vars => ResolvedStaysResolved
<1>. DEFINE Inv == LogInv /\ OnceInv /\ ListInv /\ ResolvedInv
            Resolved == \A r \in intel.records, s \in intel'.records : r.end # 0 /\ Keyed(r) = Keyed(s) => s.end # 0
<1>1. Init => Inv
  BY LogStart, OnceStart, ListStart, ResolvedStart
<1>2. Inv /\ [Next]_vars /\ [Trim => OldestIsApart(log, intel.inferred)]_vars => Inv'
  BY LogStep, OnceStep, ListStep, ResolvedStep
<1>3. Inv /\ [Next]_vars => [Resolved]_vars
  BY ResolvedAgain
<1>. HIDE DEF Inv
<1>. QED
  BY <1>1, <1>2, <1>3, PTL DEF Spec, ResolvedStaysResolved

\* The count of the last 24 hours, made of the events of the window alone, has every incident
\* that began in it.
THEOREM RecentIncidentsAreCounted == Spec => []RecentAreCounted
<1>1. LogInv => RecentAreCounted
  <2>. SUFFICES ASSUME LogInv, NEW r \in Records(log, {}), r.start + Day >= clock
       PROVE  \E s \in RecentIncidents(log, clock) : Keyed(s) = Keyed(r)
    BY DEF RecentAreCounted
  <2>. QED
    BY RecentKept DEF LogInv
<1>. QED
  BY <1>1, LogIsOrdered, PTL

\* The success of a recovery is credited to an incident of the log.
CreditInv == credited \subseteq (1..MaxClock) \X (1..MaxClock) /\ faults \in 0..MaxFaults

LEMMA CreditStep == LogInv /\ CreditInv /\ [Next]_vars => CreditInv'
<1>. SUFFICES ASSUME LogInv, CreditInv, [Next]_vars PROVE CreditInv'
  OBVIOUS
<1>0. MaxFaults \in Nat /\ MaxClock \in Nat
  BY IncidentsAssumption
<1>1. faults' \in 0..MaxFaults
  <2>1. faults' = faults \/ (faults < MaxFaults /\ faults' = faults + 1)
    BY DEF Next, Collect, Emit, Save, Build, Attempt, Cancel, Succeed, Fail,
           Crash, LoseState, LoseIntelligence, Trim, Fault, vars
  <2>. QED
    BY <1>0, <2>1 DEF CreditInv
<1>2. CASE Succeed
  <2>. DEFINE starts == {r.start : r \in {s \in Records(log, {}) : s.component = "asterisk" /\ s.start <= attempt}}
  <2>1. clock \in 1..MaxClock
    BY <1>2 DEF Succeed, LogInv
  <2>2. starts \subseteq 1..MaxClock
    <3>1. Records(log, {}) \subseteq IncidentTypes
      BY RecordsTyped DEF LogInv, Ends
    <3>. QED
      BY <3>1 DEF IncidentTypes
  <2>3. starts # {} => Max(starts) \in starts
    <3>1. starts \in SUBSET Nat /\ \A t \in starts : t <= MaxClock
      BY <1>0, <2>2
    <3>. HIDE DEF starts
    <3>. QED
      BY <1>0, <3>1, Greatest
  <2>4. credited' = IF starts = {} THEN credited ELSE credited \cup {<<Max(starts), clock>>}
    BY <1>2 DEF Succeed
  <2>. HIDE DEF starts
  <2>5. credited' \subseteq (1..MaxClock) \X (1..MaxClock)
    <3>1. CASE starts = {}
      BY <2>4, <3>1 DEF CreditInv
    <3>2. CASE starts # {}
      <4>1. Max(starts) \in 1..MaxClock
        BY <2>2, <2>3, <3>2
      <4>. QED
        BY <2>1, <2>4, <3>2, <4>1 DEF CreditInv
    <3>. QED
      BY <3>1, <3>2
  <2>. QED
    BY <1>1, <2>5 DEF CreditInv
<1>3. CASE credited' = credited
  BY <1>1, <1>3 DEF CreditInv
<1>. QED
  BY <1>2, <1>3 DEF Next, Collect, Emit, Save, Build, Attempt, Cancel, Fail,
                    Crash, LoseState, LoseIntelligence, Trim, vars

\* The log, the two files, the loop and the histories are what they are declared to be: every
\* record listed is an incident, and every event logged is one of those the log may hold.
THEOREM TypeCorrect == Spec => []TypeOK
<1>1. LogInv /\ ListInv /\ OpenInv /\ CreditInv => TypeOK
  <2>. SUFFICES ASSUME LogInv, ListInv, OpenInv, CreditInv PROVE TypeOK
    OBVIOUS
  <2>1. clock \in 0..MaxClock /\ attempt \in 0..MaxClock /\ intel.at \in 0..MaxClock
    BY IncidentsAssumption DEF LogInv, ListInv
  <2>2. loop.pending \in Seq(Loggable)
    <3>1. loop.pending \in Seq(Stamped(clock)) /\ Stamped(clock) \subseteq Loggable
      BY DEF LogInv, LoopInv, Stamped
    <3>. QED
      BY <3>1
  <2>3. loop.pc \in {"idle", "log", "build"} /\ loop.state \in States(1..MaxClock) \cup {NoState}
    BY DEF LogInv, LoopInv
  <2>. QED
    BY <2>1, <2>2, <2>3 DEF TypeOK, LogInv, ListInv, OpenInv, CreditInv
<1>2. Init => CreditInv
  BY IncidentsAssumption DEF Init, CreditInv
<1>3. LogInv /\ ListInv /\ OpenInv /\ CreditInv /\ [Next]_vars => (LogInv /\ ListInv /\ OpenInv /\ CreditInv)'
  BY LogStep, ListStep, OpenStep, CreditStep
<1>. QED
  BY <1>1, <1>2, <1>3, LogStart, ListStart, OpenStart, PTL DEF Spec

-------------------------------------------------------------------------------
(* The advice. *)
Statuses == {"healthy", "degraded", "fault"}
Rated(state) == state = NoState \/ state.status \in Statuses
RatedInv == Rated(system) /\ Rated(loop.state)

LEMMA RatedStart == Init => RatedInv
BY DEF Init, Idle, RatedInv, Rated

LEMMA RatedStep == RatedInv /\ [Next]_vars => RatedInv'
<1>. SUFFICES ASSUME RatedInv, [Next]_vars PROVE RatedInv'
  OBVIOUS
<1>1. CASE Collect
  <2>1. PICK r \in Seen : loop'.state = State(r, clock') /\ system' = system
    BY <1>1 DEF Collect
  <2>2. State(r, clock').status \in Statuses
    BY DEF State, Overall, Statuses
  <2>. QED
    BY <2>1, <2>2 DEF RatedInv, Rated
<1>2. CASE Emit
  <2>1. loop'.state = loop.state /\ system' = system
    BY <1>2 DEF Emit
  <2>. QED
    BY <2>1 DEF RatedInv, Rated
<1>3. CASE Save
  <2>1. loop'.state = loop.state /\ system' = loop.state
    BY <1>3 DEF Save
  <2>. QED
    BY <2>1 DEF RatedInv, Rated
<1>4. CASE \/ Build \/ Crash \/ LoseState
           \/ LoseIntelligence \/ Trim
  <2>1. /\ loop' = loop \/ loop'.state = NoState
        /\ system' = system \/ system' = NoState
    BY <1>4 DEF Build, Crash, LoseState,
                LoseIntelligence, Trim, Idle
  <2>. QED
    BY <2>1 DEF RatedInv, Rated
<1>5. CASE Attempt \/ Cancel \/ Succeed \/ Fail
  <2>1. loop' = loop /\ system' = system
    BY <1>5 DEF Attempt, Cancel, Succeed, Fail
  <2>. QED
    BY <2>1 DEF RatedInv, Rated
<1>6. CASE UNCHANGED vars
  BY <1>6 DEF vars, RatedInv, Rated
<1>. QED
  BY <1>1, <1>2, <1>3, <1>4, <1>5, <1>6 DEF Next

\* What the automation's mode, the behaviour and the connectivity make of the severity.
LEMMA AssessedParts ==
    ASSUME NEW state, NEW unresolved, NEW mood \in Moods, state.status \in Statuses
    PROVE  LET advice == Assessed(state, unresolved, mood)
           IN  /\ advice.level \in {"normal", "warning", "critical"} /\ advice.attention \in BOOLEAN
               /\ advice.level = "normal" => state.status = "healthy" /\ unresolved = {}
               /\ advice.level = "normal" => ~advice.attention
<1>. DEFINE base == Severity(state, unresolved)
<1>1. /\ base \in {"normal", "warning", "critical"}
      /\ base = "normal" => state.status = "healthy" /\ unresolved = {}
  BY DEF Severity, Statuses
<1>2. mood.mode \in {"active", "recovering", "attention"} /\ mood.behaviour \in {"normal", "warning", "stale"}
  BY DEF Moods
<1>. HIDE DEF base
<1>. DEFINE byMode == CASE mood.mode = "attention" ->
                             [level |-> IF state.asterisk = "offline" THEN "critical" ELSE "warning",
                              attention |-> TRUE]
                        [] mood.mode = "recovering" -> [level |-> "warning", attention |-> FALSE]
                        [] OTHER -> [level |-> base, attention |-> base # "normal"]
            byBehaviour == IF mood.behaviour # "warning" THEN byMode
                           ELSE [level |-> IF byMode.level = "normal" THEN "warning" ELSE byMode.level,
                                 attention |-> TRUE]
<1>3. /\ byMode.level \in {"normal", "warning", "critical"} /\ byMode.attention \in BOOLEAN
      /\ byMode.level = "normal" => base = "normal" /\ ~byMode.attention
  BY <1>1, <1>2
<1>4. \/ Assessed(state, unresolved, mood) = byBehaviour
      \/ Assessed(state, unresolved, mood) = [level |-> "warning", attention |-> FALSE]
  BY DEF Assessed, base
<1>. HIDE DEF byMode
<1>5. /\ byBehaviour.level \in {"normal", "warning", "critical"} /\ byBehaviour.attention \in BOOLEAN
      /\ byBehaviour.level = "normal" => base = "normal" /\ ~byBehaviour.attention
  BY <1>2, <1>3
<1>. HIDE DEF byBehaviour
<1>. DEFINE found == Assessed(state, unresolved, mood)
<1>6. CASE found = byBehaviour
  <2>. HIDE DEF found
  <2>1. /\ found.level \in {"normal", "warning", "critical"} /\ found.attention \in BOOLEAN
        /\ found.level = "normal" => state.status = "healthy" /\ unresolved = {}
        /\ found.level = "normal" => ~found.attention
    BY <1>1, <1>5, <1>6
  <2>. QED
    BY <2>1 DEF found
<1>7. CASE found = [level |-> "warning", attention |-> FALSE]
  <2>. HIDE DEF found
  <2>1. found.level = "warning" /\ found.attention = FALSE
    BY <1>7
  <2>. QED
    BY <2>1 DEF found
<1>. QED
  BY <1>4, <1>6, <1>7

\* build_intelligence calls nothing normal beside an unresolved incident or an unhealthy
\* status, and where it requires attention its recommendation asks for it: whatever is in the
\* log and in the files, and in whatever state the automation and the behaviour are.
THEOREM AdviceHolds == Spec => []AdviceIsSound
<1>1. RatedInv => AdviceIsSound
  <2>. DEFINE unresolved == Unresolved(intel.records)
              advice(mood) == Assessed(system, unresolved, mood)
  <2>. SUFFICES ASSUME RatedInv, system # NoState, NEW mood \in Moods
       PROVE  /\ advice(mood).level = "normal" => system.status = "healthy" /\ unresolved = {}
              /\ advice(mood).attention /\ mood.mode # "recovering"
                    /\ system.link.diagnosis \notin {"transient", "recovering"}
                 => Action(log, system, unresolved, mood)
    BY DEF AdviceIsSound
  <2>1. system.status \in Statuses
    BY DEF RatedInv, Rated
  <2>2. /\ advice(mood).level \in {"normal", "warning", "critical"} /\ advice(mood).attention \in BOOLEAN
        /\ advice(mood).level = "normal" => system.status = "healthy" /\ unresolved = {}
        /\ advice(mood).level = "normal" => ~advice(mood).attention
    BY <2>1, AssessedParts
  <2>3. mood.mode \in {"active", "recovering", "attention"}
    BY DEF Moods
  <2>4. ASSUME advice(mood).attention, mood.mode # "recovering",
               system.link.diagnosis \notin {"transient", "recovering"}
        PROVE  Action(log, system, unresolved, mood)
    <3>1. \A failures : Recommends(advice(mood), failures, unresolved)
      BY <2>2, <2>4 DEF Recommends
    <3>. HIDE DEF advice, unresolved
    <3>2. CASE mood.mode = "attention"
      BY <3>2 DEF Action
    <3>3. CASE mood.mode = "active"
      BY <2>4, <3>1, <3>3 DEF Action, advice
    <3>. QED
      BY <2>3, <2>4, <3>2, <3>3
  <2>. QED
    BY <2>2, <2>4
<1>. QED
  BY <1>1, RatedStart, RatedStep, PTL DEF Spec
===============================================================================
