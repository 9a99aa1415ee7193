---------------------------- MODULE AdminRadioProofs ----------------------------
(* The limit of the logins, the tickets, the frames of the streams and the limits of   *)
(* the tables, for every number of clients, threads, connections, tickets, sessions    *)
(* and frames.                                                                        *)
EXTENDS AdminRadio, FiniteSetTheorems, SequenceTheorems, TLAPS

\* The attempts of a list that are later than a time.
After(list, w) == {i \in DOMAIN list : list[i] > w}

LEMMA AfterFinite ==
    ASSUME NEW list \in Seq(Nat), NEW w
    PROVE  IsFiniteSet(After(list, w)) /\ Cardinality(After(list, w)) \in 0..Len(list)
<1>1. PICK n \in Nat : n = Len(list) /\ DOMAIN list = 1..n
  OBVIOUS
<1>2. IsFiniteSet(1..n) /\ Cardinality(1..n) = n
  BY FS_Interval
<1>3. After(list, w) \in SUBSET (1..n)
  BY <1>1 DEF After
<1>4. /\ IsFiniteSet(After(list, w)) /\ Cardinality(After(list, w)) <= n
      /\ Cardinality(After(list, w)) \in Nat
  BY <1>2, <1>3, FS_Subset, FS_CardinalityType
<1>. QED
  BY <1>1, <1>4

LEMMA AfterAppend ==
    ASSUME NEW list \in Seq(Nat), NEW a \in Nat, NEW w \in Int
    PROVE  Cardinality(After(Append(list, a), w)) = Cardinality(After(list, w)) + (IF a > w THEN 1 ELSE 0)
<1>1. PICK n \in Nat : n = Len(list) /\ DOMAIN list = 1..n
  OBVIOUS
<1>2. /\ DOMAIN Append(list, a) = 1..(n + 1) /\ Append(list, a)[n + 1] = a
      /\ \A i \in 1..n : Append(list, a)[i] = list[i]
  BY <1>1
<1>3. IsFiniteSet(After(list, w)) /\ Cardinality(After(list, w)) \in Nat /\ n + 1 \notin After(list, w)
  <2>1. n + 1 \notin After(list, w)
    BY <1>1 DEF After
  <2>2. IsFiniteSet(After(list, w)) /\ Cardinality(After(list, w)) \in 0..Len(list)
    BY AfterFinite
  <2>. QED
    BY <1>1, <2>1, <2>2
<1>4. CASE a > w
  <2>1. After(Append(list, a), w) = After(list, w) \cup {n + 1}
    BY <1>1, <1>2, <1>4 DEF After
  <2>. QED
    BY <1>3, <1>4, <2>1, FS_AddElement
<1>5. CASE ~(a > w)
  <2>1. After(Append(list, a), w) = After(list, w)
    BY <1>1, <1>2, <1>5 DEF After
  <2>. QED
    BY <1>3, <1>5, <2>1
<1>. QED
  BY <1>4, <1>5

LEMMA NothingAfter == \A w : Cardinality(After(<< >>, w)) = 0
<1>1. \A w : After(<< >>, w) = {}
  BY DEF After
<1>. QED
  BY <1>1, FS_EmptySet

\* What is popped from the old end is a prefix, and all of it is out of the window.
LEMMA ExpiredIsPrefix ==
    ASSUME NEW c, attempts[c] \in Seq(Nat), NEW time \in Nat
    PROVE  LET k == Cardinality(Expired(c, time))
           IN  k \in 0..Len(attempts[c]) /\ \A i \in 1..k : attempts[c][i] <= time - Window
<1>. DEFINE E == Expired(c, time)
            k == Cardinality(E)
<1>1. PICK n \in Nat : n = Len(attempts[c]) /\ DOMAIN attempts[c] = 1..n
  OBVIOUS
<1>2. E \in SUBSET (1..n)
  BY <1>1 DEF Expired
<1>3. IsFiniteSet(E) /\ k \in Nat /\ k <= n
  <2>1. IsFiniteSet(1..n) /\ Cardinality(1..n) = n
    BY FS_Interval
  <2>2. IsFiniteSet(E) /\ Cardinality(E) <= n
    BY <1>2, <2>1, FS_Subset
  <2>. QED
    BY <2>2, FS_CardinalityType
<1>4. ASSUME NEW i \in 1..k, i \notin E PROVE FALSE
  <2>1. ASSUME NEW j \in E PROVE j \in 1..(i - 1)
    <3>1. j \in 1..n /\ i \in 1..n
      BY <1>2, <1>3, <1>4
    <3>2. \A l \in 1..j : attempts[c][l] <= time - Window
      BY DEF Expired
    <3>3. CASE i <= j
      <4>1. \A l \in 1..i : l \in 1..j
        BY <3>1, <3>3
      <4>. QED
        BY <1>1, <1>4, <3>1, <3>2, <4>1 DEF Expired
    <3>. QED
      BY <3>1, <3>3
  <2>2. E \in SUBSET (1..(i - 1)) /\ IsFiniteSet(1..(i - 1)) /\ Cardinality(1..(i - 1)) = i - 1
    <3>1. PICK m \in Nat : m = i - 1
      BY <1>3, <1>4
    <3>2. IsFiniteSet(1..m) /\ Cardinality(1..m) = m
      BY FS_Interval
    <3>. QED
      BY <2>1, <3>1, <3>2
  <2>3. k <= i - 1
    BY <2>2, FS_Subset
  <2>. QED
    BY <1>3, <2>3
<1>5. \A i \in 1..k : i \in 1..i /\ i \in E
  BY <1>3, <1>4
<1>6. \A i \in 1..k : attempts[c][i] <= time - Window
  BY <1>5 DEF Expired
<1>. QED
  BY <1>1, <1>3, <1>6

\* What the pruning takes is not missed by a window that ends now or later.
LEMMA RecentKeeps ==
    ASSUME NEW c, attempts[c] \in Seq(Nat), NEW time \in Nat, NEW w \in Int, time - Window <= w
    PROVE  /\ Recent(c, time) \in Seq(Nat) /\ Len(Recent(c, time)) <= Len(attempts[c])
           /\ Cardinality(After(attempts[c], w)) <= Cardinality(After(Recent(c, time), w))
<1>. DEFINE a == attempts[c]
            r == Recent(c, time)
<1>1. PICK k \in 0..Len(a) : /\ k = Cardinality(Expired(c, time))
                             /\ \A i \in 1..k : a[i] <= time - Window
  BY ExpiredIsPrefix
<1>2. PICK n \in Nat : n = Len(a) /\ DOMAIN a = 1..n
  OBVIOUS
<1>3. r = SubSeq(a, k + 1, n)
  BY <1>1, <1>2 DEF Recent
<1>4. /\ r \in Seq(Nat) /\ Len(r) = n - k /\ DOMAIN r = 1..(n - k)
      /\ \A j \in 1..(n - k) : r[j] = a[j + k]
  <2>. DEFINE s == SubSeq(a, k + 1, n)
  <2>1. k \in 0..n /\ k \in Nat
    BY <1>1, <1>2
  <2>2. ASSUME NEW j \in 1..(n - k) PROVE s[j] = a[j + k]
    <3>1. j \in 1..(n - (k + 1) + 1) /\ j + (k + 1) - 1 = j + k
      BY <2>1
    <3>. QED
      BY <1>2, <2>1, <3>1
  <2>3. \A i \in (k + 1)..n : a[i] \in Nat
    BY <1>2, <2>1
  <2>4. s \in Seq(Nat) /\ Len(s) = (IF k + 1 <= n THEN n - (k + 1) + 1 ELSE 0)
    BY <2>1, <2>3, SubSeqProperties
  <2>5. Len(s) = n - k
    BY <2>1, <2>4
  <2>. QED
    BY <1>3, <2>2, <2>4, <2>5
<1>5. IsFiniteSet(After(r, w))
  BY <1>4, AfterFinite
<1>. DEFINE f == [i \in After(a, w) |-> i - k]
<1>6. ASSUME NEW i \in After(a, w) PROVE i - k \in After(r, w) /\ i \in Int
  <2>1. i \in 1..n /\ a[i] > w /\ a[i] \in Nat
    BY <1>2 DEF After
  <2>2. ~(i <= k)
    <3>1. Window \in Nat
      BY RemoteAdminAssumption
    <3>. QED
      BY <1>1, <2>1, <3>1
  <2>3. i - k \in 1..(n - k) /\ i - k + k = i
    BY <1>1, <1>2, <2>1, <2>2
  <2>4. r[i - k] > w
    BY <1>4, <2>1, <2>3
  <2>. QED
    BY <1>4, <2>1, <2>3, <2>4 DEF After
<1>7. \A i, j \in After(a, w) : f[i] = f[j] => i = j
  BY <1>1, <1>6
<1>8. f \in Injection(After(a, w), After(r, w))
  BY <1>6, <1>7 DEF Injection, IsInjective
<1>9. Cardinality(After(a, w)) <= Cardinality(After(r, w))
  BY <1>5, <1>8, FS_Injection
<1>. QED
  BY <1>1, <1>2, <1>4, <1>9

\* Of no window that ends now or later has the table forgotten an attempt.
AttemptInv ==
    /\ now \in Nat
    /\ attempts \in [Clients -> Seq(Nat)] /\ admitted \in [Clients -> Seq(Nat)]
    /\ \A c \in Clients :
         /\ Len(attempts[c]) <= MaxAttempts
         /\ \A w \in Int : now - Window <= w =>
              Cardinality(After(admitted[c], w)) <= Cardinality(After(attempts[c], w))

LEMMA Constants == Window \in Nat /\ MaxAttempts \in Nat /\ MaxAttempts # 0
BY RemoteAdminAssumption

\* One client's attempts, pruned or pruned and added to.
LEMMA PruneAttempts ==
    ASSUME AttemptInv, NEW c \in Clients, NEW time \in 0..now
    PROVE  /\ Recent(c, time) \in Seq(Nat) /\ Len(Recent(c, time)) <= MaxAttempts
           /\ \A w \in Int : now - Window <= w =>
                Cardinality(After(admitted[c], w)) <= Cardinality(After(Recent(c, time), w))
<1>1. attempts[c] \in Seq(Nat) /\ admitted[c] \in Seq(Nat) /\ now \in Nat
      /\ Len(attempts[c]) <= MaxAttempts /\ Len(attempts[c]) \in Nat
  BY DEF AttemptInv
<1>2. time \in Nat /\ Window \in Nat /\ MaxAttempts \in Nat
  BY <1>1, Constants
<1>3. ASSUME NEW w \in Int, now - Window <= w
      PROVE  Cardinality(After(admitted[c], w)) <= Cardinality(After(Recent(c, time), w))
  <2>1. time - Window <= w
    BY <1>1, <1>2, <1>3
  <2>2. /\ Recent(c, time) \in Seq(Nat)
        /\ Cardinality(After(attempts[c], w)) <= Cardinality(After(Recent(c, time), w))
    BY <1>1, <1>2, <2>1, RecentKeeps
  <2>3. Cardinality(After(admitted[c], w)) <= Cardinality(After(attempts[c], w))
    BY <1>3 DEF AttemptInv
  <2>4. PICK i, j, k \in Nat : /\ i = Cardinality(After(admitted[c], w))
                               /\ j = Cardinality(After(attempts[c], w))
                               /\ k = Cardinality(After(Recent(c, time), w))
    BY <1>1, <2>2, AfterFinite
  <2>. QED
    BY <2>2, <2>3, <2>4
<1>4. Recent(c, time) \in Seq(Nat) /\ Len(Recent(c, time)) <= Len(attempts[c])
  <2>1. time - Window \in Int /\ time - Window <= time - Window
    BY <1>2
  <2>. QED
    BY <1>1, <1>2, <2>1, RecentKeeps
<1>5. Len(Recent(c, time)) \in Nat
  BY <1>4
<1>. QED
  BY <1>1, <1>2, <1>3, <1>4, <1>5

LEMMA LoginAttempts == ASSUME AttemptInv, NEW t \in Threads, Login(t) PROVE AttemptInv'
<1>1. PICK client \in Clients, cookie \in 0..made, began \in 0..now :
         IF Enabled(Policy) /\ MayAttempt(client, began)
         THEN /\ attempts' = Reserved(client, began)
              /\ admitted' = [admitted EXCEPT ![client] = Append(@, began)]
         ELSE /\ attempts' = IF Enabled(Policy) THEN Reserved(client, began) ELSE attempts
              /\ admitted' = admitted
  BY DEF Login
<1>2. now' = now /\ now \in Nat /\ began \in Nat
  BY DEF Login, AttemptInv
<1>3. CASE ~Enabled(Policy)
  BY <1>1, <1>2, <1>3 DEF AttemptInv
<1>4. CASE Enabled(Policy)
  <2>1. /\ attempts' = Reserved(client, began)
        /\ admitted' \in [Clients -> Seq(Nat)]
        /\ \A c \in Clients : admitted'[c] = IF c = client /\ MayAttempt(c, began)
                                             THEN Append(admitted[c], began) ELSE admitted[c]
    <3>1. attempts' = Reserved(client, began)
      BY <1>1, <1>4
    <3>2. CASE MayAttempt(client, began)
      <4>1. admitted' = [admitted EXCEPT ![client] = Append(@, began)]
        BY <1>1, <1>4, <3>2
      <4>2. admitted \in [Clients -> Seq(Nat)] /\ Append(admitted[client], began) \in Seq(Nat)
        BY <1>2 DEF AttemptInv
      <4>. QED
        BY <3>1, <3>2, <4>1, <4>2
    <3>3. CASE ~MayAttempt(client, began)
      BY <1>1, <3>1, <3>3 DEF AttemptInv
    <3>. QED
      BY <3>2, <3>3
  <2>2. ASSUME NEW c \in Clients
        PROVE  /\ attempts'[c] \in Seq(Nat) /\ Len(attempts'[c]) <= MaxAttempts
               /\ \A w \in Int : now - Window <= w =>
                    Cardinality(After(admitted'[c], w)) <= Cardinality(After(attempts'[c], w))
    <3>1. /\ Recent(c, began) \in Seq(Nat) /\ Len(Recent(c, began)) <= MaxAttempts
          /\ \A w \in Int : now - Window <= w =>
               Cardinality(After(admitted[c], w)) <= Cardinality(After(Recent(c, began), w))
      BY PruneAttempts
    <3>2. CASE c = client /\ MayAttempt(c, began)
      <4>1. attempts'[c] = Append(Recent(c, began), began) /\ admitted'[c] = Append(admitted[c], began)
        BY <2>1, <3>2 DEF Reserved
      <4>2. Len(Recent(c, began)) < MaxAttempts
        BY <3>2 DEF MayAttempt
      <4>3. admitted[c] \in Seq(Nat)
        BY DEF AttemptInv
      <4>4. ASSUME NEW w \in Int, now - Window <= w
            PROVE  Cardinality(After(admitted'[c], w)) <= Cardinality(After(attempts'[c], w))
        <5>1. PICK d \in {0, 1} : d = IF began > w THEN 1 ELSE 0
          OBVIOUS
        <5>2. /\ Cardinality(After(admitted'[c], w)) = Cardinality(After(admitted[c], w)) + d
              /\ Cardinality(After(attempts'[c], w)) = Cardinality(After(Recent(c, began), w)) + d
          BY <1>2, <3>1, <4>1, <4>3, <5>1, AfterAppend
        <5>3. PICK i, j \in Nat : /\ i = Cardinality(After(admitted[c], w))
                                  /\ j = Cardinality(After(Recent(c, began), w))
          BY <3>1, <4>3, AfterFinite
        <5>4. i <= j
          BY <3>1, <4>4, <5>3
        <5>. QED
          BY <5>2, <5>3, <5>4
      <4>5. attempts'[c] \in Seq(Nat) /\ Len(attempts'[c]) = Len(Recent(c, began)) + 1
        BY <1>2, <3>1, <4>1
      <4>6. Len(attempts'[c]) <= MaxAttempts
        BY <3>1, <4>2, <4>5, Constants
      <4>. QED
        BY <4>4, <4>5, <4>6
    <3>3. CASE ~(c = client /\ MayAttempt(c, began))
      <4>1. attempts'[c] = Recent(c, began) /\ admitted'[c] = admitted[c]
        BY <2>1, <3>3 DEF Reserved
      <4>. QED
        BY <3>1, <4>1
    <3>. QED
      BY <3>2, <3>3
  <2>3. attempts' \in [Clients -> Seq(Nat)]
    BY <2>1, <2>2 DEF Reserved
  <2>. QED
    BY <1>2, <2>1, <2>2, <2>3 DEF AttemptInv
<1>. QED
  BY <1>3, <1>4

LEMMA CommitAttempts == ASSUME AttemptInv, NEW t \in Threads, Commit(t) PROVE AttemptInv'
<1>. DEFINE client == request[t].client
<1>1. /\ attempts' = [attempts EXCEPT ![client] = << >>]
      /\ admitted' = [admitted EXCEPT ![client] = << >>] /\ now' = now
  BY DEF Commit
<1>2. << >> \in Seq(Nat) /\ Len(<< >>) = 0 /\ MaxAttempts \in Nat
  BY Constants
<1>3. attempts' \in [Clients -> Seq(Nat)] /\ admitted' \in [Clients -> Seq(Nat)]
  BY <1>1, <1>2 DEF AttemptInv
<1>4. ASSUME NEW c \in Clients
      PROVE  /\ Len(attempts'[c]) <= MaxAttempts
             /\ \A w \in Int : now' - Window <= w =>
                  Cardinality(After(admitted'[c], w)) <= Cardinality(After(attempts'[c], w))
  <2>1. CASE c = client
    <3>1. attempts'[c] = << >> /\ admitted'[c] = << >>
      BY <1>1, <2>1 DEF AttemptInv
    <3>. QED
      BY <1>2, <3>1, NothingAfter
  <2>2. CASE c # client
    <3>1. attempts'[c] = attempts[c] /\ admitted'[c] = admitted[c]
      BY <1>1, <2>2 DEF AttemptInv
    <3>. QED
      BY <1>1, <3>1 DEF AttemptInv
  <2>. QED
    BY <2>1, <2>2
<1>. QED
  BY <1>1, <1>3, <1>4 DEF AttemptInv

LEMMA AttemptStep == AttemptInv /\ [Next]_vars => AttemptInv'
<1>. SUFFICES ASSUME AttemptInv, [Next]_vars PROVE AttemptInv'
  OBVIOUS
<1>1. ASSUME UNCHANGED <<now, attempts, admitted>> PROVE AttemptInv'
  BY <1>1 DEF AttemptInv
<1>2. CASE Tick
  <2>1. now' = now + 1 /\ UNCHANGED <<attempts, admitted>> /\ now \in Nat
    BY <1>2 DEF Tick, AttemptInv
  <2>2. \A w \in Int : now' - Window <= w => now - Window <= w
    BY <2>1, Constants
  <2>. QED
    BY <2>1, <2>2 DEF AttemptInv
<1>3. CASE Configure
  BY <1>1, <1>3 DEF Configure
<1>4. ASSUME NEW t \in Threads, Login(t) PROVE AttemptInv'
  BY <1>4, LoginAttempts
<1>5. ASSUME NEW t \in Threads, Commit(t) PROVE AttemptInv'
  BY <1>5, CommitAttempts
<1>6. ASSUME NEW t \in Threads,
             \/ Reject(t) \/ Reply(t) \/ Request(t) \/ LogoutStreams(t) \/ Logout(t) \/ Ticket(t)
             \/ Permit(t, "permit ticket", "ticket") \/ Permit(t, "permit stream", "stream")
      PROVE AttemptInv'
  BY <1>1, <1>6 DEF Reject, Reply, Request, LogoutStreams, Logout, Ticket, Permit, adminVars
<1>7. ASSUME NEW t \in Threads,
             \/ Present(t) \/ Register(t) \/ Keeping(Drain(t)) \/ Loop(t) \/ Elapse(t) \/ Hangup(t)
      PROVE AttemptInv'
  BY <1>1, <1>7 DEF Present, Register, Keeping, Loop, Check, Elapse, Hangup, adminVars
<1>8. ASSUME NEW c \in Connections,
             Keeping(MediaStart(c)) \/ Keeping(MediaEnd(c)) \/ Keeping(Broadcast(c))
      PROVE AttemptInv'
  BY <1>1, <1>8 DEF Keeping, adminVars
<1>9. CASE UNCHANGED vars
  BY <1>1, <1>9 DEF vars, adminVars
<1>. QED
  BY <1>2, <1>3, <1>4, <1>5, <1>6, <1>7, <1>8, <1>9 DEF Next

LEMMA AttemptStart == Init => AttemptInv
<1>. SUFFICES ASSUME Init PROVE AttemptInv
  OBVIOUS
<1>1. << >> \in Seq(Nat) /\ Len(<< >>) = 0
  OBVIOUS
<1>2. \A c \in Clients : attempts[c] = << >> /\ admitted[c] = << >>
  BY DEF Init
<1>3. /\ now \in Nat /\ attempts \in [Clients -> Seq(Nat)] /\ admitted \in [Clients -> Seq(Nat)]
  BY <1>1 DEF Init
<1>. QED
  BY <1>1, <1>2, <1>3, NothingAfter, Constants DEF AttemptInv

\* Since its last success a client has no more passwords verified in a window than the
\* limit, however many threads verify one at once (remote_admin.py:286).
THEOREM LoginsAreLimited == Spec => []AttemptsLimited
<1>1. AttemptInv => AttemptsLimited
  <2>. SUFFICES ASSUME AttemptInv, NEW c \in Clients
                PROVE  Cardinality(After(admitted[c], now - Window)) <= MaxAttempts
    BY DEF AttemptsLimited, After
  <2>1. PICK w \in Int : w = now - Window /\ now - Window <= w
    BY Constants DEF AttemptInv
  <2>2. attempts[c] \in Seq(Nat) /\ admitted[c] \in Seq(Nat) /\ Len(attempts[c]) <= MaxAttempts
        /\ Cardinality(After(admitted[c], w)) <= Cardinality(After(attempts[c], w))
    BY <2>1 DEF AttemptInv
  <2>3. PICK i, j, n \in Nat : /\ i = Cardinality(After(admitted[c], w)) /\ n = Len(attempts[c])
                               /\ j = Cardinality(After(attempts[c], w)) /\ j <= n
    BY <2>2, AfterFinite
  <2>. QED
    BY <2>1, <2>2, <2>3, Constants
<1>. QED
  BY <1>1, AttemptStart, AttemptStep, PTL DEF Spec

-------------------------------------------------------------------------------
(* What the threads are doing. *)

Guests == {"disconnect", "permit ticket", "permit stream", "logout", "ticket", "stream", "register", "serving"}

RequestInv ==
    /\ made \in Nat /\ DOMAIN request = Threads
    /\ \A t \in Threads :
         request[t].at \notin {"idle", "verify", "reply"} => request[t] \in [at : Guests, cookie : Nat]

LEMMA Goes ==
    ASSUME DOMAIN request = Threads, NEW t \in Threads, NEW r, Goto(t, r)
    PROVE  /\ DOMAIN request' = Threads /\ request'[t] = r
           /\ \A u \in Threads \ {t} : request'[u] = request[u]
BY DEF Goto

LEMMA Ends == ASSUME NEW t, Done(t) PROVE Goto(t, Idle) /\ Idle.at = "idle"
BY DEF Done, Idle

\* A thread that goes on keeps its cookie.
LEMMA StepsOn ==
    ASSUME RequestInv, NEW t \in Threads, NEW step \in Guests, Step(t, step),
           request[t].at \notin {"idle", "verify", "reply"}
    PROVE  /\ request'[t] = [at |-> step, cookie |-> request[t].cookie]
           /\ request[t].cookie \in Nat
           /\ DOMAIN request' = Threads /\ \A u \in Threads \ {t} : request'[u] = request[u]
<1>1. request[t] \in [at : Guests, cookie : Nat] /\ DOMAIN request = Threads
  BY DEF RequestInv
<1>2. [request[t] EXCEPT !.at = step] = [at |-> step, cookie |-> request[t].cookie]
  BY <1>1
<1>3. Goto(t, [request[t] EXCEPT !.at = step])
  BY DEF Step
<1>. QED
  BY <1>1, <1>2, <1>3, Goes

LEMMA RequestMoves ==
    ASSUME RequestInv, NEW t \in Threads, NEW r, Goto(t, r), made' \in Nat,
           r.at \in {"idle", "verify", "reply"} \/ r \in [at : Guests, cookie : Nat]
    PROVE  RequestInv'
BY Goes DEF RequestInv

LEMMA RequestSteps ==
    ASSUME RequestInv, NEW t \in Threads, NEW step \in Guests, Step(t, step), made' = made,
           request[t].at \notin {"idle", "verify", "reply"}
    PROVE  RequestInv'
<1>1. request'[t] \in [at : Guests, cookie : Nat]
  <2>1. request'[t] = [at |-> step, cookie |-> request[t].cookie] /\ request[t].cookie \in Nat
    BY StepsOn
  <2>. QED
    BY <2>1
<1>2. DOMAIN request' = Threads /\ \A u \in Threads \ {t} : request'[u] = request[u]
  BY StepsOn
<1>. QED
  BY <1>1, <1>2 DEF RequestInv

LEMMA RequestStep == RequestInv /\ [Next]_vars => RequestInv'
<1>. SUFFICES ASSUME RequestInv, [Next]_vars PROVE RequestInv'
  OBVIOUS
<1>1. ASSUME UNCHANGED <<request, made>> PROVE RequestInv'
  BY <1>1 DEF RequestInv
<1>2. ASSUME NEW t \in Threads, Done(t), made' = made PROVE RequestInv'
  BY <1>2, Ends, RequestMoves DEF RequestInv
<1>3. ASSUME NEW t \in Threads, Login(t) PROVE RequestInv'
  <2>1. made' = made /\ made \in Nat
    BY <1>3 DEF Login, RequestInv
  <2>2. \/ request' = request
        \/ \E r : Goto(t, r) /\ r.at = "verify"
    <3>1. PICK c \in Clients, cookie \in 0..made, began \in 0..now :
             \/ Goto(t, [at |-> "verify", client |-> c, cookie |-> cookie, policy |-> Policy, began |-> began])
             \/ request' = request
      BY <1>3 DEF Login
    <3>. QED
      BY <3>1
  <2>3. CASE \E r : Goto(t, r) /\ r.at = "verify"
    BY <2>1, <2>3, RequestMoves
  <2>. QED
    BY <1>1, <2>1, <2>2, <2>3
<1>4. ASSUME NEW t \in Threads, Reject(t) \/ Reply(t) \/ Logout(t) \/ Ticket(t) PROVE RequestInv'
  BY <1>2, <1>4 DEF Reject, Reply, Logout, Ticket
<1>5. ASSUME NEW t \in Threads, Commit(t) PROVE RequestInv'
  <2>1. made' \in Nat
    BY <1>5 DEF Commit, RequestInv
  <2>2. \/ Done(t)
        \/ \E r : Goto(t, r) /\ r.at = "reply"
    BY <1>5 DEF Commit
  <2>3. \E r : Goto(t, r) /\ r.at \in {"idle", "reply"}
    BY <2>2, Ends
  <2>. QED
    BY <2>1, <2>3, RequestMoves
<1>6. ASSUME NEW t \in Threads, Request(t) PROVE RequestInv'
  <2>1. made' = made /\ made \in Nat
    <3>1. made' = made
      BY <1>6 DEF Request
    <3>. QED
      BY <3>1 DEF RequestInv
  <2>2. \A cookie \in Tokens : cookie \in Nat
    BY <2>1 DEF Tokens
  <2>3. PICK cookie \in Tokens, next \in {"disconnect", "permit ticket", "permit stream"} :
          \/ Goto(t, [at |-> next, cookie |-> cookie])
          \/ request' = request
    BY <1>6 DEF Request
  <2>4. [at |-> next, cookie |-> cookie] \in [at : Guests, cookie : Nat]
    BY <2>2 DEF Guests
  <2>. QED
    BY <1>1, <2>1, <2>3, <2>4, RequestMoves
<1>7. ASSUME NEW t \in Threads, NEW asked \in {"permit ticket", "permit stream"},
             NEW what \in {"ticket", "stream"}, Permit(t, asked, what)
      PROVE  RequestInv'
  <2>1. /\ request[t].at \notin {"idle", "verify", "reply"} /\ made' = made /\ what \in Guests
        /\ Step(t, what) \/ Done(t)
    BY <1>7 DEF Permit, At, Guests
  <2>. QED
    BY <1>2, <2>1, RequestSteps
<1>8. ASSUME NEW t \in Threads, LogoutStreams(t) \/ Present(t) \/ Register(t) PROVE RequestInv'
  <2>1. PICK step \in {"logout", "register", "serving"} :
          /\ request[t].at \notin {"idle", "verify", "reply"} /\ made' = made
          /\ Step(t, step) \/ Done(t)
    BY <1>8 DEF LogoutStreams, Present, Register, At
  <2>2. step \in Guests
    BY DEF Guests
  <2>. QED
    BY <1>2, <2>1, <2>2, RequestSteps
<1>9. ASSUME NEW t \in Threads, Keeping(Drain(t)) \/ Loop(t) \/ Elapse(t) \/ Hangup(t) PROVE RequestInv'
  <2>1. made' = made /\ (request' = request \/ Done(t))
    BY <1>9 DEF Keeping, Loop, Check, Elapse, Hangup, End
  <2>. QED
    BY <1>1, <1>2, <2>1
<1>10. ASSUME NEW c \in Connections,
              Keeping(MediaStart(c)) \/ Keeping(MediaEnd(c)) \/ Keeping(Broadcast(c))
       PROVE  RequestInv'
  BY <1>1, <1>10 DEF Keeping
<1>11. CASE Tick \/ Configure \/ UNCHANGED vars
  BY <1>1, <1>11 DEF Tick, Configure, vars
<1>. QED
  BY <1>3, <1>4, <1>5, <1>6, <1>7, <1>8, <1>9, <1>10, <1>11 DEF Next

LEMMA RequestStart == Init => RequestInv
<1>. SUFFICES ASSUME Init PROVE RequestInv
  OBVIOUS
<1>1. made = 0 /\ request = [t \in Threads |-> Idle]
  BY DEF Init
<1>2. \A t \in Threads : request[t].at = "idle"
  BY <1>1 DEF Idle
<1>. QED
  BY <1>1, <1>2 DEF RequestInv

-------------------------------------------------------------------------------
(* The frames. *)

Streams == [session : Nat, due : BOOLEAN, shut : BOOLEAN, queue : Seq(Nat), sending : Seq(Nat),
            dropped : Nat, from : Nat, got : Seq(Nat)]

Held(s) == s.got \o s.sending \o s.queue
Ordered(q, n) ==
    /\ \A i \in DOMAIN q : q[i] <= n
    /\ \A i, j \in DOMAIN q : i < j => q[i] < q[j]
\* The frames of a stream are in order, were all received, and are complete.
Sound(s, n) == Ordered(Held(s), n) /\ Len(Held(s)) + s.dropped = n - s.from

StreamInv == aired \in Nat /\ \A t \in DOMAIN streams : streams[t] \in Streams /\ Sound(streams[t], aired)

LEMMA OrderedAppend ==
    ASSUME NEW q \in Seq(Nat), NEW n \in Nat, Ordered(q, n)
    PROVE  Ordered(Append(q, n + 1), n + 1)
<1>1. PICK l \in Nat : l = Len(q) /\ DOMAIN q = 1..l
  OBVIOUS
<1>. DEFINE r == Append(q, n + 1)
<1>2. DOMAIN r = 1..(l + 1) /\ r[l + 1] = n + 1 /\ \A i \in 1..l : r[i] = q[i] /\ q[i] \in Nat
  BY <1>1
<1>. HIDE DEF r
<1>3. \A i \in 1..(l + 1) : i = l + 1 \/ i \in 1..l
  BY <1>1
<1>4. \A i \in 1..l : q[i] <= n
  BY <1>1 DEF Ordered
<1>5. \A i \in 1..(l + 1) : r[i] <= n + 1
  BY <1>2, <1>3, <1>4
<1>6. ASSUME NEW i \in 1..(l + 1), NEW j \in 1..(l + 1), i < j PROVE r[i] < r[j]
  <2>1. i \in 1..l
    BY <1>1, <1>6
  <2>2. CASE j = l + 1
    BY <1>2, <1>4, <2>1, <2>2
  <2>3. CASE j \in 1..l
    BY <1>1, <1>2, <1>6, <2>1, <2>3 DEF Ordered
  <2>. QED
    BY <1>3, <2>2, <2>3
<1>. QED
  BY <1>2, <1>5, <1>6 DEF Ordered, r

\* A frame dropped from the middle leaves the others in order.
LEMMA OrderedDrop ==
    ASSUME NEW p \in Seq(Nat), NEW q \in Seq(Nat), q # << >>, NEW n \in Nat, Ordered(p \o q, n)
    PROVE  Ordered(p \o Tail(q), n) /\ Len(p \o Tail(q)) + 1 = Len(p \o q)
<1>1. PICK k, l \in Nat : k = Len(p) /\ l = Len(Tail(q)) /\ Len(q) = l + 1
  <2>1. Len(q) \in Nat \ {0} /\ Len(p) \in Nat
    BY EmptySeq, LenProperties
  <2>2. Len(Tail(q)) = Len(q) - 1
    BY HeadTailProperties
  <2>3. \E k \in Nat : k = Len(p)
    BY <2>1
  <2>4. \E l \in Nat : l = Len(Tail(q)) /\ Len(q) = l + 1
    <3>1. Len(Tail(q)) \in Nat /\ Len(q) = Len(Tail(q)) + 1
      BY <2>1, <2>2
    <3>. QED
      BY <3>1
  <2>. QED
    BY <2>3, <2>4
<1>. DEFINE a == p \o q
            b == p \o Tail(q)
            place(i) == IF i <= k THEN i ELSE i + 1
<1>2. /\ a \in Seq(Nat) /\ Len(a) = k + l + 1 /\ DOMAIN a = 1..(k + l + 1)
      /\ \A i \in 1..(k + l + 1) : a[i] = IF i <= k THEN p[i] ELSE q[i - k]
  BY <1>1, ConcatProperties, LenProperties
<1>3. /\ Tail(q) \in Seq(Nat) /\ \A i \in 1..l : Tail(q)[i] = q[i + 1]
  BY <1>1, HeadTailProperties
<1>4. /\ b \in Seq(Nat) /\ Len(b) = k + l /\ DOMAIN b = 1..(k + l)
      /\ \A i \in 1..(k + l) : b[i] = IF i <= k THEN p[i] ELSE Tail(q)[i - k]
  BY <1>1, <1>3, ConcatProperties, LenProperties
<1>5. ASSUME NEW i \in 1..(k + l)
      PROVE  place(i) \in 1..(k + l + 1) /\ b[i] = a[place(i)]
  <2>1. CASE i <= k
    BY <1>1, <1>2, <1>4, <2>1
  <2>2. CASE ~(i <= k)
    <3>1. i - k \in 1..l /\ i + 1 \in 1..(k + l + 1) /\ ~(i + 1 <= k) /\ (i - k) + 1 = (i + 1) - k
      BY <1>1, <2>2
    <3>2. b[i] = Tail(q)[i - k] /\ a[i + 1] = q[(i + 1) - k]
      BY <1>2, <1>4, <2>2, <3>1
    <3>. QED
      BY <1>3, <2>2, <3>1, <3>2
  <2>. QED
    BY <2>1, <2>2
<1>6. \A i, j \in 1..(k + l) : i < j => place(i) < place(j)
  BY <1>1
<1>. HIDE DEF place
<1>7. \A i \in 1..(k + l) : b[i] <= n
  BY <1>2, <1>5 DEF Ordered
<1>8. \A i, j \in 1..(k + l) : i < j => b[i] < b[j]
  BY <1>2, <1>5, <1>6 DEF Ordered
<1>. QED
  BY <1>1, <1>2, <1>4, <1>7, <1>8 DEF Ordered

LEMMA AppendLast ==
    ASSUME NEW p \in Seq(Nat), NEW q \in Seq(Nat), NEW e \in Nat
    PROVE  p \o Append(q, e) = Append(p \o q, e)
<1>1. <<e>> \in Seq(Nat) /\ p \o q \in Seq(Nat)
  BY ConcatProperties
<1>2. Append(q, e) = q \o <<e>> /\ Append(p \o q, e) = (p \o q) \o <<e>>
  BY <1>1, AppendIsConcat
<1>. QED
  BY <1>1, <1>2, ConcatAssociative

LEMMA EnqueuedIsSound ==
    ASSUME NEW s \in Streams, NEW n \in Nat, Sound(s, n)
    PROVE  LET r == Enqueued(s, n + 1)
           IN  r \in Streams /\ Sound(r, n + 1) /\ r.session = s.session
<1>. DEFINE r == Enqueued(s, n + 1)
<1>1. /\ s.got \in Seq(Nat) /\ s.sending \in Seq(Nat) /\ s.queue \in Seq(Nat)
      /\ s.dropped \in Nat /\ s.from \in Nat
  BY DEF Streams
<1>2. PICK p \in Seq(Nat), q \in Seq(Nat) : p = s.got \o s.sending /\ q = s.queue
  BY <1>1, ConcatProperties
<1>3. /\ Held(s) = p \o q /\ p \o q \in Seq(Nat)
      /\ \A x : x.got = s.got /\ x.sending = s.sending => Held(x) = p \o x.queue
  BY <1>2, ConcatProperties DEF Held
<1>4. PICK held \in Seq(Nat) : held = p \o q
  BY <1>3
<1>8. PICK l \in Nat : l = Len(held)
  BY LenProperties
<1>5. Ordered(held, n) /\ l + s.dropped = n - s.from
  BY <1>3, <1>4, <1>8 DEF Sound
<1>10. PICK d \in Nat : d = s.dropped
  BY <1>1
<1>9. PICK g \in Nat : g = s.from /\ l + d = n - g
  BY <1>1, <1>5, <1>10
<1>6. CASE Len(q) = Buffer
  <2>1. q # << >>
    <3>1. Buffer # 0
      BY SoftRadioAssumption
    <3>. QED
      BY <1>6, <3>1
  <2>2. Tail(q) \in Seq(Nat)
    BY <2>1, HeadTailProperties
  <2>3. PICK rest \in Seq(Nat) : rest = p \o Tail(q)
    BY <2>2, ConcatProperties
  <2>4. Ordered(rest, n) /\ Len(rest) + 1 = l
    BY <1>4, <1>8, <1>5, <2>1, <2>3, OrderedDrop
  <2>0. PICK m \in Nat : m = Len(rest)
    BY LenProperties
  <2>5. r = [s EXCEPT !.queue = Append(Tail(q), n + 1), !.dropped = s.dropped + 1]
    BY <1>2, <1>6 DEF Enqueued
  <2>6. /\ r \in Streams /\ r.got = s.got /\ r.sending = s.sending /\ r.from = s.from
        /\ r.session = s.session /\ r.dropped = s.dropped + 1 /\ r.queue = Append(Tail(q), n + 1)
    <3>1. Append(Tail(q), n + 1) \in Seq(Nat) /\ s.dropped + 1 \in Nat
      BY <1>1, <2>2
    <3>. QED
      BY <2>5, <3>1 DEF Streams
  <2>. HIDE DEF r
  <2>7. Held(r) = Append(rest, n + 1)
    <3>1. Held(r) = p \o Append(Tail(q), n + 1)
      BY <1>3, <2>6
    <3>. QED
      BY <2>2, <2>3, <3>1, AppendLast
  <2>8. Ordered(Held(r), n + 1) /\ Len(Held(r)) = Len(rest) + 1
    BY <2>4, <2>7, OrderedAppend
  <2>9. Len(Held(r)) + r.dropped = (n + 1) - r.from
    <3>1. Len(Held(r)) = l
      BY <2>4, <2>0, <2>8
    <3>2. r.dropped = d + 1 /\ r.from = g
      BY <1>10, <1>9, <2>6
    <3>3. l + (d + 1) = (n + 1) - g
      <4>1. l + d = n - g
        BY <1>9
      <4>2. l + (d + 1) = (l + d) + 1 /\ (n + 1) - g = (n - g) + 1
        OBVIOUS
      <4>. QED
        BY <4>1, <4>2
    <3>. QED
      BY <3>1, <3>2, <3>3
  <2>. QED
    BY <2>6, <2>8, <2>9 DEF Sound, r
<1>7. CASE Len(q) # Buffer
  <2>1. r = [s EXCEPT !.queue = Append(q, n + 1)]
    BY <1>2, <1>7 DEF Enqueued
  <2>2. /\ r \in Streams /\ r.got = s.got /\ r.sending = s.sending /\ r.from = s.from
        /\ r.session = s.session /\ r.dropped = s.dropped /\ r.queue = Append(q, n + 1)
    <3>1. Append(q, n + 1) \in Seq(Nat)
      OBVIOUS
    <3>. QED
      BY <2>1, <3>1 DEF Streams
  <2>. HIDE DEF r
  <2>3. Held(r) = Append(held, n + 1)
    <3>1. Held(r) = p \o Append(q, n + 1)
      BY <1>3, <2>2
    <3>2. n + 1 \in Nat
      OBVIOUS
    <3>3. \A e \in Nat : p \o Append(q, e) = Append(p \o q, e)
      BY AppendLast
    <3>. QED
      BY <1>4, <3>1, <3>2, <3>3
  <2>4. Ordered(Held(r), n + 1) /\ Len(Held(r)) = l + 1
    <3>1. Ordered(Append(held, n + 1), n + 1) /\ Len(Append(held, n + 1)) = l + 1
      BY <1>8, <1>5, OrderedAppend
    <3>. QED
      BY <2>3, <3>1
  <2>5. Len(Held(r)) + r.dropped = (n + 1) - r.from
    <3>1. r.dropped = d /\ r.from = g
      BY <1>10, <1>9, <2>2
    <3>2. (l + 1) + d = (n + 1) - g
      BY <1>9
    <3>. QED
      BY <2>4, <3>1, <3>2
  <2>. QED
    BY <2>2, <2>4, <2>5 DEF Sound, r
<1>. QED
  BY <1>6, <1>7

LEMMA SameFramesAreSound ==
    ASSUME NEW s \in Streams, NEW n, Sound(s, n), NEW r, Held(r) = Held(s),
           r.dropped = s.dropped, r.from = s.from
    PROVE  Sound(r, n)
BY DEF Sound

\* The queue drained into what is being sent, and that into what the browser got.
LEMMA DrainedIsSound ==
    ASSUME NEW s \in Streams, NEW n, Sound(s, n), s.sending = << >>
    PROVE  LET r == [s EXCEPT !.sending = s.queue, !.queue = << >>] IN r \in Streams /\ Sound(r, n)
<1>. DEFINE r == [s EXCEPT !.sending = s.queue, !.queue = << >>]
<1>1. s.got \in Seq(Nat) /\ s.queue \in Seq(Nat) /\ << >> \in Seq(Nat)
  BY DEF Streams
<1>2. /\ r \in Streams /\ r.got = s.got /\ r.sending = s.queue /\ r.queue = << >>
      /\ r.dropped = s.dropped /\ r.from = s.from
  BY <1>1 DEF Streams
<1>3. Held(r) = (s.got \o s.queue) \o << >> /\ Held(s) = (s.got \o << >>) \o s.queue
  BY <1>2 DEF Held
<1>4. s.got \o << >> = s.got /\ (s.got \o s.queue) \o << >> = s.got \o s.queue
  BY <1>1, ConcatEmptySeq, ConcatProperties
<1>5. Held(r) = Held(s)
  BY <1>3, <1>4
<1>. QED
  BY <1>2, <1>5, SameFramesAreSound

LEMMA SentIsSound ==
    ASSUME NEW s \in Streams, NEW n, Sound(s, n)
    PROVE  LET r == [s EXCEPT !.got = s.got \o s.sending, !.sending = << >>]
           IN  r \in Streams /\ Sound(r, n)
<1>. DEFINE r == [s EXCEPT !.got = s.got \o s.sending, !.sending = << >>]
<1>1. PICK p \in Seq(Nat) : p = s.got \o s.sending
  BY ConcatProperties DEF Streams
<1>2. s.queue \in Seq(Nat) /\ << >> \in Seq(Nat)
  BY DEF Streams
<1>3. /\ r \in Streams /\ r.got = p /\ r.sending = << >> /\ r.queue = s.queue
      /\ r.dropped = s.dropped /\ r.from = s.from
  BY <1>1, <1>2 DEF Streams
<1>4. Held(r) = (p \o << >>) \o s.queue /\ Held(s) = p \o s.queue
  BY <1>1, <1>3 DEF Held
<1>5. p \o << >> = p
  BY ConcatEmptySeq
<1>6. Held(r) = Held(s)
  BY <1>4, <1>5
<1>. QED
  BY <1>3, <1>6, SameFramesAreSound

LEMMA NewIsSound ==
    ASSUME NEW token \in Nat, aired \in Nat
    PROVE  NewStream(token) \in Streams /\ Sound(NewStream(token), aired)
<1>. DEFINE r == NewStream(token)
<1>1. << >> \in Seq(Nat)
  OBVIOUS
<1>2. /\ r \in Streams /\ r.got = << >> /\ r.sending = << >> /\ r.queue = << >>
      /\ r.dropped = 0 /\ r.from = aired
  BY <1>1 DEF NewStream, Streams
<1>3. Held(r) = << >>
  <2>1. << >> \o << >> = << >>
    BY <1>1, ConcatEmptySeq
  <2>. QED
    BY <1>2, <2>1 DEF Held
<1>4. Len(<< >>) = 0 /\ DOMAIN << >> = {} /\ 0 + 0 = aired - aired
  OBVIOUS
<1>. QED
  BY <1>2, <1>3, <1>4 DEF Sound, Ordered

\* A step of one stream.
LEMMA OneStream ==
    ASSUME StreamInv, NEW t, NEW r \in Streams, Sound(r, aired), aired' = aired,
           \A u \in DOMAIN streams' : streams'[u] = r \/ (u \in DOMAIN streams /\ streams'[u] = streams[u])
    PROVE  StreamInv'
BY DEF StreamInv, Sound, Held, Ordered

LEMMA FewerStreams ==
    ASSUME StreamInv, aired' = aired,
           \A u \in DOMAIN streams' : u \in DOMAIN streams /\ streams'[u] = streams[u]
    PROVE  StreamInv'
BY DEF StreamInv

LEMMA EndKeepsOthers ==
    ASSUME NEW t, End(t)
    PROVE  \A u \in DOMAIN streams' : u \in DOMAIN streams \ {t} /\ streams'[u] = streams[u]
BY DEF End, Forget, Restrict

LEMMA RegisterStreams ==
    ASSUME RequestInv, NEW t \in Threads, Register(t)
    PROVE  /\ request[t].cookie \in Nat /\ DOMAIN streams' = DOMAIN streams \cup {t}
           /\ streams'[t] = NewStream(request[t].cookie)
           /\ \A u \in DOMAIN streams \ {t} : streams'[u] = streams[u]
<1>1. request[t] \in [at : Guests, cookie : Nat]
  BY DEF Register, At, RequestInv
<1>2. streams' = With(streams, t, NewStream(request[t].cookie))
  BY DEF Register
<1>. QED
  BY <1>1, <1>2 DEF With

\* A step that changes no frame of a stream.
LEMMA SameFrames ==
    ASSUME StreamInv, aired' = aired, DOMAIN streams' = DOMAIN streams,
           \A u \in DOMAIN streams : \/ streams'[u] = [streams[u] EXCEPT !.due = TRUE]
                                     \/ streams'[u] = [streams[u] EXCEPT !.due = FALSE]
                                     \/ \E b \in BOOLEAN : streams'[u] = [streams[u] EXCEPT !.shut = b]
                                     \/ streams'[u] = streams[u]
    PROVE  StreamInv'
<1>1. ASSUME NEW u \in DOMAIN streams PROVE streams'[u] \in Streams /\ Sound(streams'[u], aired)
  <2>1. PICK s \in Streams : s = streams[u] /\ Sound(s, aired)
    BY DEF StreamInv
  <2>2. PICK r : r = streams'[u]
    OBVIOUS
  <2>3. /\ r \in Streams /\ r.got = s.got /\ r.sending = s.sending /\ r.queue = s.queue
        /\ r.dropped = s.dropped /\ r.from = s.from
    <3>1. CASE r = [s EXCEPT !.due = TRUE] \/ r = [s EXCEPT !.due = FALSE]
      BY <3>1 DEF Streams
    <3>2. CASE \E b \in BOOLEAN : r = [s EXCEPT !.shut = b]
      BY <3>2 DEF Streams
    <3>. QED
      BY <2>1, <2>2, <3>1, <3>2
  <2>4. Sound(r, aired)
    BY <2>1, <2>3, SameFramesAreSound DEF Held
  <2>. QED
    BY <2>2, <2>3, <2>4
<1>2. aired' \in Nat
  BY DEF StreamInv
<1>. QED
  BY <1>1, <1>2 DEF StreamInv, Sound, Held, Ordered

LEMMA BroadcastStreams == ASSUME StreamInv, NEW c, Broadcast(c) PROVE StreamInv'
<1>1. /\ aired \in Nat /\ aired' = aired + 1 /\ DOMAIN streams' = DOMAIN streams
      /\ \A u \in DOMAIN streams : streams'[u] = Enqueued(streams[u], aired + 1)
  BY DEF StreamInv, Broadcast
<1>2. ASSUME NEW u \in DOMAIN streams PROVE streams'[u] \in Streams /\ Sound(streams'[u], aired + 1)
  <2>1. PICK s \in Streams : s = streams[u] /\ Sound(s, aired)
    BY DEF StreamInv
  <2>. QED
    BY <1>1, <2>1, EnqueuedIsSound
<1>3. aired' \in Nat
  BY <1>1
<1>. QED
  BY <1>1, <1>2, <1>3 DEF StreamInv, Sound, Held, Ordered

LEMMA StreamStep == RequestInv /\ StreamInv /\ [Next]_vars => StreamInv'
<1>. SUFFICES ASSUME RequestInv, StreamInv, [Next]_vars PROVE StreamInv'
  OBVIOUS
<1>1. ASSUME UNCHANGED <<streams, aired>> PROVE StreamInv'
  BY <1>1, FewerStreams
<1>2. ASSUME NEW t, End(t), aired' = aired PROVE StreamInv'
  BY <1>2, EndKeepsOthers, FewerStreams
<1>3. ASSUME NEW t \in Threads, Register(t) PROVE StreamInv'
  <2>1. aired' = aired /\ aired \in Nat
    BY <1>3 DEF Register, StreamInv
  <2>2. PICK token \in Nat : token = request[t].cookie
    BY <1>3, RegisterStreams
  <2>3. NewStream(token) \in Streams /\ Sound(NewStream(token), aired)
    BY <2>1, NewIsSound
  <2>4. \A u \in DOMAIN streams' : \/ streams'[u] = NewStream(token)
                                   \/ u \in DOMAIN streams /\ streams'[u] = streams[u]
    BY <1>3, <2>2, RegisterStreams
  <2>. QED
    BY <2>1, <2>3, <2>4, OneStream
<1>4. ASSUME NEW t \in Threads, Drain(t) PROVE StreamInv'
  <2>1. PICK s \in Streams : s = streams[t] /\ Sound(s, aired) /\ s.sending = << >>
    BY <1>4 DEF Drain, StreamInv
  <2>2. PICK r : r = [s EXCEPT !.sending = s.queue, !.queue = << >>]
    OBVIOUS
  <2>3. r \in Streams /\ Sound(r, aired)
    BY <2>1, <2>2, DrainedIsSound
  <2>4. /\ aired' = aired
        /\ \A u \in DOMAIN streams' : streams'[u] = r \/ (u \in DOMAIN streams /\ streams'[u] = streams[u])
    BY <1>4, <2>1, <2>2 DEF Drain
  <2>. QED
    BY <2>3, <2>4, OneStream
<1>5. ASSUME NEW t \in Threads, Send(t) PROVE StreamInv'
  <2>1. PICK s \in Streams : s = streams[t] /\ Sound(s, aired)
    BY <1>5 DEF Send, StreamInv
  <2>2. PICK r : r = [s EXCEPT !.got = s.got \o s.sending, !.sending = << >>]
    OBVIOUS
  <2>3. r \in Streams /\ Sound(r, aired)
    BY <2>1, <2>2, SentIsSound
  <2>4. /\ aired' = aired
        /\ \A u \in DOMAIN streams' : streams'[u] = r \/ (u \in DOMAIN streams /\ streams'[u] = streams[u])
    BY <1>5, <2>1, <2>2 DEF Send
  <2>. QED
    BY <2>3, <2>4, OneStream
<1>6. ASSUME NEW t \in Threads, Check(t) PROVE StreamInv'
  <2>1. /\ aired' = aired
        /\ End(t) \/ streams' = [streams EXCEPT ![t].due = FALSE]
    BY <1>6 DEF Check
  <2>2. CASE streams' = [streams EXCEPT ![t].due = FALSE]
    BY <2>1, <2>2, SameFrames
  <2>. QED
    BY <1>2, <2>1, <2>2
<1>7. ASSUME NEW t \in Threads, Elapse(t) PROVE StreamInv'
  BY <1>7, SameFrames DEF Elapse
<1>8. ASSUME NEW t \in Threads, Hangup(t) PROVE StreamInv'
  BY <1>2, <1>8 DEF Hangup
<1>9. ASSUME NEW t \in Threads, LogoutStreams(t) PROVE StreamInv'
  <2>1. /\ aired' = aired /\ DOMAIN streams' = DOMAIN streams
        /\ \A u \in DOMAIN streams : streams'[u] =
             [streams[u] EXCEPT !.shut = @ \/ streams[u].session = request[t].cookie]
    BY <1>9 DEF LogoutStreams, Disconnect
  <2>2. ASSUME NEW u \in DOMAIN streams
        PROVE  \E b \in BOOLEAN : streams'[u] = [streams[u] EXCEPT !.shut = b]
    <3>1. (streams[u].shut \/ streams[u].session = request[t].cookie) \in BOOLEAN
      OBVIOUS
    <3>. QED
      BY <2>1, <3>1
  <2>. QED
    BY <2>1, <2>2, SameFrames
<1>10. ASSUME NEW c \in Connections,
              Keeping(MediaStart(c)) \/ Keeping(MediaEnd(c)) \/ Keeping(Broadcast(c))
       PROVE  StreamInv'
  BY <1>1, <1>10, BroadcastStreams DEF Keeping, MediaStart, MediaEnd
<1>11. ASSUME NEW t \in Threads,
              \/ Login(t) \/ Reject(t) \/ Commit(t) \/ Reply(t) \/ Request(t) \/ Logout(t)
              \/ Ticket(t) \/ Present(t)
              \/ Permit(t, "permit ticket", "ticket") \/ Permit(t, "permit stream", "stream")
       PROVE  StreamInv'
  BY <1>1, <1>11 DEF Login, Reject, Commit, Reply, Request, Logout, Ticket, Present, Permit, radioVars
<1>12. CASE Tick \/ Configure \/ UNCHANGED vars
  BY <1>1, <1>12 DEF Tick, Configure, vars, radioVars
<1>13. ASSUME NEW t \in Threads, Loop(t) \/ Keeping(Drain(t)) PROVE StreamInv'
  BY <1>4, <1>5, <1>6, <1>8, <1>13 DEF Loop, Keeping
<1>. QED
  BY <1>3, <1>7, <1>8, <1>9, <1>10, <1>11, <1>12, <1>13 DEF Next

\* No frame is lost without being counted, repeated or moved: proved for any number of
\* browsers and any length of their queues (soft_radio.py:153).
THEOREM FramesAreKept == Spec => []FramesAreAccounted
<1>1. Init => StreamInv
  <2>. SUFFICES ASSUME Init PROVE StreamInv
    OBVIOUS
  <2>1. aired = 0 /\ streams = << >> /\ DOMAIN streams = {}
    BY DEF Init
  <2>. QED
    BY <2>1 DEF StreamInv
<1>2. StreamInv => FramesAreAccounted
  <2>. SUFFICES ASSUME StreamInv, NEW t \in DOMAIN streams
                PROVE  LET s == streams[t]
                           held == s.got \o s.sending \o s.queue
                       IN  /\ \A i, j \in DOMAIN held : i < j => held[i] < held[j]
                           /\ Len(held) + s.dropped = aired - s.from
    BY DEF FramesAreAccounted
  <2>. QED
    BY DEF StreamInv, Sound, Ordered, Held
<1>. QED
  BY <1>1, <1>2, RequestStart, RequestStep, StreamStep, PTL DEF Spec

-------------------------------------------------------------------------------
(* The tickets. *)

Used(token) == {k \in DOMAIN issued : issued[k].session = token /\ issued[k].uses = 1}
\* The threads that a ticket of the session has let in: registering or served.
Holding(token) ==
    {t \in Threads : \/ t \in DOMAIN streams /\ streams[t].session = token
                     \/ At(t, "register") /\ request[t].cookie = token}
Paid(token) == IsFiniteSet(Holding(token)) /\ Cardinality(Holding(token)) <= Cardinality(Used(token))

Issues == [session : Nat, uses : {0, 1}]

\* A ticket on the table has let no one in.
TicketInv ==
    /\ issued \in Seq(Issues)
    /\ \A k \in DOMAIN tickets : /\ k \in DOMAIN issued /\ issued[k].uses = 0
                                 /\ issued[k].session = tickets[k].session
    /\ \A t \in DOMAIN streams : t \in Threads /\ At(t, "serving")
    /\ \A token \in Nat : Paid(token)

LEMMA UsedFinite ==
    ASSUME issued \in Seq(Issues), NEW token
    PROVE  IsFiniteSet(Used(token)) /\ Cardinality(Used(token)) \in Nat
<1>1. DOMAIN issued = 1..Len(issued) /\ Len(issued) \in Nat
  OBVIOUS
<1>2. IsFiniteSet(1..Len(issued)) /\ Used(token) \in SUBSET (1..Len(issued))
  BY <1>1, FS_Interval DEF Used
<1>. QED
  BY <1>2, FS_Subset, FS_CardinalityType

\* A step that lets no one in.
LEMMA QuietTickets ==
    ASSUME TicketInv, issued' = issued,
           \A k \in DOMAIN tickets' : k \in DOMAIN tickets /\ tickets'[k].session = tickets[k].session,
           \A u \in DOMAIN streams' : /\ u \in DOMAIN streams /\ request'[u] = request[u]
                                      /\ streams'[u].session = streams[u].session,
           \A u \in Threads : request'[u] = request[u] \/ request'[u].at # "register"
    PROVE  TicketInv'
<1>1. ASSUME NEW token \in Nat PROVE Paid(token)'
  <2>1. Holding(token)' \in SUBSET Holding(token) /\ Used(token)' = Used(token)
    BY DEF Holding, Used, At
  <2>2. IsFiniteSet(Holding(token)) /\ Cardinality(Holding(token)) <= Cardinality(Used(token))
    BY DEF TicketInv, Paid
  <2>3. IsFiniteSet(Holding(token)') /\ Cardinality(Holding(token)') <= Cardinality(Holding(token))
    BY <2>1, <2>2, FS_Subset
  <2>4. PICK i, j, k \in Nat : /\ i = Cardinality(Holding(token)') /\ j = Cardinality(Holding(token))
                               /\ k = Cardinality(Used(token))
    <3>1. /\ Cardinality(Holding(token)') \in Nat /\ Cardinality(Holding(token)) \in Nat
          /\ Cardinality(Used(token)) \in Nat
      BY <2>2, <2>3, FS_CardinalityType, UsedFinite DEF TicketInv
    <3>. QED
      BY <3>1
  <2>5. i <= k
    BY <2>2, <2>3, <2>4
  <2>6. IsFiniteSet(Holding(token)') /\ Cardinality(Holding(token)') <= Cardinality(Used(token)')
    BY <2>1, <2>3, <2>4, <2>5
  <2>. QED
    BY <2>6 DEF Paid
<1>2. /\ issued' \in Seq(Issues)
      /\ \A k \in DOMAIN tickets' : /\ k \in DOMAIN issued' /\ issued'[k].uses = 0
                                    /\ issued'[k].session = tickets'[k].session
      /\ \A t \in DOMAIN streams' : t \in Threads /\ request'[t].at = "serving"
  BY DEF TicketInv, At
<1>. QED
  BY <1>1, <1>2 DEF TicketInv, At

\* A thread that is not served goes on, and is not let in.
LEMMA QuietThread ==
    ASSUME TicketInv, issued' = issued, streams' = streams,
           \A k \in DOMAIN tickets' : k \in DOMAIN tickets /\ tickets'[k].session = tickets[k].session,
           NEW t \in Threads, request[t].at # "serving", request'[t].at # "register",
           \A u \in Threads \ {t} : request'[u] = request[u]
    PROVE  TicketInv'
<1>1. \A u \in DOMAIN streams : u \in Threads \ {t}
  BY DEF TicketInv, At
<1>. QED
  BY <1>1, QuietTickets

LEMMA QuietGoto ==
    ASSUME RequestInv, TicketInv, issued' = issued, streams' = streams, tickets' = tickets,
           NEW t \in Threads, request[t].at # "serving", NEW r, Goto(t, r), r.at # "register"
    PROVE  TicketInv'
BY QuietThread, Goes DEF RequestInv

LEMMA QuietStep ==
    ASSUME RequestInv, TicketInv, issued' = issued, streams' = streams, tickets' = tickets,
           NEW t \in Threads, request[t].at \notin {"idle", "verify", "reply", "serving"},
           NEW step \in Guests \ {"register"}, Step(t, step)
    PROVE  TicketInv'
<1>1. /\ request'[t] = [at |-> step, cookie |-> request[t].cookie]
      /\ \A u \in Threads \ {t} : request'[u] = request[u]
  BY StepsOn
<1>. QED
  BY <1>1, QuietThread

LEMMA TakenTickets ==
    ASSUME NEW k, Take(k)
    PROVE  \A l \in DOMAIN tickets' : l \in DOMAIN tickets \ {k} /\ tickets'[l] = tickets[l]
BY DEF Take, Forget, FreshTickets, Restrict

LEMMA IssueTickets == ASSUME RequestInv, TicketInv, NEW t \in Threads, Ticket(t) PROVE TicketInv'
<1>1. /\ request[t].at = "ticket" /\ Issue(request[t].cookie) /\ Done(t) /\ streams' = streams
  BY DEF Ticket, At
<1>2. /\ request'[t].at = "idle" /\ DOMAIN request' = Threads
      /\ \A u \in Threads \ {t} : request'[u] = request[u]
  BY <1>1, Ends, Goes DEF RequestInv
<1>3. PICK token \in Nat : token = request[t].cookie
  <2>1. request[t] \in [at : Guests, cookie : Nat]
    BY <1>1 DEF RequestInv
  <2>. QED
    BY <2>1
<1>4. DOMAIN FreshTickets \subseteq DOMAIN tickets /\ \A k \in DOMAIN FreshTickets : FreshTickets[k] = tickets[k]
  BY DEF FreshTickets, Restrict
<1>5. CASE issued' = issued
  <2>1. tickets' = FreshTickets \/ tickets' = tickets
    <3>1. issued \in Seq(Issues) /\ [session |-> token, uses |-> 0] \in Issues
      BY DEF TicketInv, Issues
    <3>2. Len(Append(issued, [session |-> token, uses |-> 0])) # Len(issued)
      BY <3>1
    <3>. QED
      BY <1>1, <1>3, <1>5, <3>2 DEF Issue
  <2>. QED
    BY <1>1, <1>2, <1>4, <1>5, <2>1, QuietThread
<1>6. CASE issued' # issued
  <2>1. PICK n \in Nat : n = Len(issued) /\ DOMAIN issued = 1..n
    BY DEF TicketInv
  <2>2. PICK entry : /\ tickets' = With(FreshTickets, n + 1, entry) /\ entry.session = token
                     /\ issued' = Append(issued, [session |-> token, uses |-> 0])
    <3>1. /\ tickets' = With(FreshTickets, Len(issued) + 1,
                             [session |-> token, expires |-> now + TicketSeconds])
          /\ issued' = Append(issued, [session |-> token, uses |-> 0])
      BY <1>1, <1>3, <1>6 DEF Issue
    <3>. QED
      BY <2>1, <3>1
  <2>3. [session |-> token, uses |-> 0] \in Issues
    BY DEF Issues
  <2>4. /\ issued' \in Seq(Issues) /\ DOMAIN issued' = 1..(n + 1)
        /\ issued'[n + 1] = [session |-> token, uses |-> 0]
        /\ \A k \in 1..n : issued'[k] = issued[k]
    BY <2>1, <2>2, <2>3 DEF TicketInv
  <2>5. ASSUME NEW k \in DOMAIN tickets'
        PROVE  k \in DOMAIN issued' /\ issued'[k].uses = 0 /\ issued'[k].session = tickets'[k].session
    <3>1. CASE k = n + 1
      BY <2>1, <2>2, <2>4, <3>1 DEF With
    <3>2. CASE k # n + 1
      <4>1. k \in DOMAIN tickets /\ tickets'[k] = tickets[k]
        BY <1>4, <2>2, <3>2 DEF With
      <4>2. k \in 1..n /\ issued[k].uses = 0 /\ issued[k].session = tickets[k].session
        BY <2>1, <4>1 DEF TicketInv
      <4>3. k \in 1..(n + 1)
        BY <4>2
      <4>. QED
        BY <2>4, <4>1, <4>2, <4>3
    <3>. QED
      BY <3>1, <3>2
  <2>6. ASSUME NEW u \in DOMAIN streams PROVE u \in Threads \ {t} /\ request'[u] = request[u]
    BY <1>1, <1>2 DEF TicketInv, At
  <2>7. ASSUME NEW s \in Nat PROVE Paid(s)'
    <3>1. Used(s)' = Used(s)
      <4>1. \A k \in 1..(n + 1) : k = n + 1 \/ k \in 1..n
        OBVIOUS
      <4>2. \A k \in 1..n : k \in 1..(n + 1)
        OBVIOUS
      <4>3. n + 1 \notin 1..n /\ [session |-> token, uses |-> 0].uses # 1
        OBVIOUS
      <4>. QED
        BY <2>1, <2>4, <4>1, <4>2, <4>3 DEF Used
    <3>2. Holding(s)' = Holding(s)
      BY <1>1, <1>2, <2>6 DEF Holding, At
    <3>. QED
      BY <3>1, <3>2 DEF TicketInv, Paid
  <2>8. \A u \in DOMAIN streams' : u \in Threads /\ request'[u].at = "serving"
    BY <1>1, <2>6 DEF TicketInv, At
  <2>. QED
    BY <2>4, <2>5, <2>7, <2>8 DEF TicketInv, At
<1>. QED
  BY <1>5, <1>6

\* A ticket of the session is used up for the thread that it lets in.
LEMMA PresentTickets == ASSUME RequestInv, TicketInv, NEW t \in Threads, Present(t) PROVE TicketInv'
<1>1. /\ request[t].at = "stream" /\ request[t].at \notin {"idle", "verify", "reply"} /\ streams' = streams
  BY DEF Present, At
<1>2. PICK k \in DOMAIN issued :
         /\ Take(k)
         /\ \/ Matches(k, request[t].cookie) /\ Step(t, "register")
               /\ issued' = [issued EXCEPT ![k].uses = @ + 1]
            \/ Done(t) /\ issued' = issued
  BY DEF Present
<1>3. \A l \in DOMAIN tickets' : l \in DOMAIN tickets \ {k} /\ tickets'[l] = tickets[l]
  BY <1>2, TakenTickets
<1>4. CASE Done(t) /\ issued' = issued
  <2>1. request'[t].at = "idle" /\ \A u \in Threads \ {t} : request'[u] = request[u]
    BY <1>4, Ends, Goes DEF RequestInv
  <2>. QED
    BY <1>1, <1>3, <1>4, <2>1, QuietThread
<1>5. CASE Matches(k, request[t].cookie) /\ Step(t, "register") /\ issued' = [issued EXCEPT ![k].uses = @ + 1]
  <2>1. PICK token \in Nat : token = request[t].cookie /\ request'[t] = [at |-> "register", cookie |-> token]
    BY <1>1, <1>5, StepsOn DEF Guests
  <2>2. \A u \in Threads \ {t} : request'[u] = request[u]
    BY <1>1, <1>5, StepsOn DEF Guests
  <2>3. k \in DOMAIN tickets /\ tickets[k].session = token /\ issued[k].uses = 0 /\ issued[k].session = token
    <3>1. k \in DOMAIN tickets /\ tickets[k].session = token
      BY <1>5, <2>1 DEF Matches, FreshTickets, Restrict
    <3>. QED
      BY <3>1 DEF TicketInv
  <2>4. PICK n \in Nat : n = Len(issued) /\ DOMAIN issued = 1..n
    BY DEF TicketInv
  <2>5. issued[k] \in Issues
    BY <2>4 DEF TicketInv
  <2>6. PICK entry \in Issues : /\ entry = [issued[k] EXCEPT !.uses = @ + 1]
                                /\ entry.uses = 1 /\ entry.session = token
    <3>1. [issued[k] EXCEPT !.uses = @ + 1] = [session |-> token, uses |-> 1]
      BY <2>3, <2>5 DEF Issues
    <3>2. [session |-> token, uses |-> 1] \in Issues
      BY DEF Issues
    <3>. QED
      BY <3>1, <3>2
  <2>7. issued' = [issued EXCEPT ![k] = entry]
    BY <1>5, <2>6
  <2>8. /\ issued' \in Seq(Issues) /\ DOMAIN issued' = DOMAIN issued /\ issued'[k] = entry
        /\ \A l \in DOMAIN issued \ {k} : issued'[l] = issued[l]
    <3>1. issued \in Seq(Issues) /\ k \in 1..Len(issued)
      BY <2>4 DEF TicketInv
    <3>2. issued' \in Seq(Issues)
      BY <2>7, <3>1, ExceptSeq
    <3>. QED
      BY <2>7, <3>2
  <2>9. \A l \in DOMAIN tickets' : /\ l \in DOMAIN issued' /\ issued'[l].uses = 0
                                   /\ issued'[l].session = tickets'[l].session
    BY <1>3, <2>8 DEF TicketInv
  <2>10. \A u \in DOMAIN streams : u \in Threads \ {t} /\ request[u].at = "serving" /\ request'[u] = request[u]
    BY <1>1, <2>2 DEF TicketInv, At
  <2>11. ASSUME NEW s \in Nat PROVE Paid(s)'
    <3>1. PICK h, v \in Nat : h = Cardinality(Holding(s)) /\ v = Cardinality(Used(s))
      <4>1. Cardinality(Holding(s)) \in Nat /\ Cardinality(Used(s)) \in Nat
        BY FS_CardinalityType, UsedFinite DEF TicketInv, Paid
      <4>. QED
        BY <4>1
    <3>2. /\ IsFiniteSet(Holding(s)) /\ h <= v /\ IsFiniteSet(Used(s))
      BY <3>1, UsedFinite DEF TicketInv, Paid
    <3>3. CASE s = token
      <4>1. Holding(s)' = Holding(s) \cup {t} /\ t \notin Holding(s)
        <5>1. t \notin Holding(s)
          BY <1>1, <2>10 DEF Holding, At
        <5>2. ASSUME NEW u \in Threads PROVE u \in Holding(s)' <=> u \in Holding(s) \cup {t}
          <6>1. CASE u = t
            BY <2>1, <3>3, <6>1 DEF Holding, At
          <6>2. CASE u # t
            BY <1>1, <2>2, <6>2 DEF Holding, At
          <6>. QED
            BY <6>1, <6>2
        <5>3. Holding(s) \subseteq Threads /\ Holding(s)' \subseteq Threads
          BY DEF Holding
        <5>. QED
          BY <5>1, <5>2, <5>3
      <4>2. Used(s)' = Used(s) \cup {k} /\ k \notin Used(s)
        <5>1. k \notin Used(s) /\ Used(s) \subseteq DOMAIN issued /\ Used(s)' \subseteq DOMAIN issued
          BY <2>3, <2>8 DEF Used
        <5>2. ASSUME NEW l \in DOMAIN issued PROVE l \in Used(s)' <=> l \in Used(s) \cup {k}
          <6>1. CASE l = k
            BY <2>6, <2>8, <3>3, <6>1 DEF Used
          <6>2. CASE l # k
            BY <2>8, <6>2 DEF Used
          <6>. QED
            BY <6>1, <6>2
        <5>. QED
          BY <5>1, <5>2
      <4>3. /\ IsFiniteSet(Holding(s)') /\ Cardinality(Holding(s)') = h + 1
            /\ Cardinality(Used(s)') = v + 1
        <5>1. IsFiniteSet(Holding(s) \cup {t}) /\ Cardinality(Holding(s) \cup {t}) = h + 1
          BY <3>1, <3>2, <4>1, FS_AddElement
        <5>2. Cardinality(Used(s) \cup {k}) = v + 1
          BY <3>1, <3>2, <4>2, FS_AddElement
        <5>. QED
          BY <4>1, <4>2, <5>1, <5>2
      <4>. QED
        BY <3>2, <4>3 DEF Paid
    <3>4. CASE s # token
      <4>1. Holding(s)' = Holding(s)
        <5>1. ASSUME NEW u \in Threads PROVE u \in Holding(s)' <=> u \in Holding(s)
          <6>1. CASE u = t
            BY <1>1, <2>1, <2>10, <3>4, <6>1 DEF Holding, At
          <6>2. CASE u # t
            BY <1>1, <2>2, <6>2 DEF Holding, At
          <6>. QED
            BY <6>1, <6>2
        <5>2. Holding(s) \subseteq Threads /\ Holding(s)' \subseteq Threads
          BY DEF Holding
        <5>. QED
          BY <5>1, <5>2
      <4>2. Used(s)' = Used(s)
        BY <2>3, <2>6, <2>8, <3>4 DEF Used
      <4>. QED
        BY <4>1, <4>2 DEF Paid, TicketInv
    <3>. QED
      BY <3>3, <3>4
  <2>12. \A u \in DOMAIN streams' : u \in Threads /\ request'[u].at = "serving"
    BY <1>1, <2>10
  <2>. QED
    BY <2>8, <2>9, <2>11, <2>12 DEF TicketInv, At
<1>. QED
  BY <1>2, <1>4, <1>5

LEMMA RegisterTickets == ASSUME RequestInv, TicketInv, NEW t \in Threads, Register(t) PROVE TicketInv'
<1>1. /\ request[t].at = "register" /\ Step(t, "serving") /\ UNCHANGED <<tickets, issued>>
      /\ request[t].at \notin {"idle", "verify", "reply"}
  BY DEF Register, At
<1>2. /\ request'[t] = [at |-> "serving", cookie |-> request[t].cookie]
      /\ \A u \in Threads \ {t} : request'[u] = request[u]
  BY <1>1, StepsOn DEF Guests
<1>3. /\ DOMAIN streams' = DOMAIN streams \cup {t} /\ streams'[t].session = request[t].cookie
      /\ \A u \in DOMAIN streams \ {t} : streams'[u] = streams[u]
  <2>1. NewStream(request[t].cookie).session = request[t].cookie
    BY DEF NewStream
  <2>. QED
    BY <2>1, RegisterStreams
<1>4. t \notin DOMAIN streams /\ \A u \in DOMAIN streams : u \in Threads /\ request[u].at = "serving"
  BY <1>1 DEF TicketInv, At
<1>5. ASSUME NEW token \in Nat PROVE Paid(token)'
  <2>1. Holding(token)' = Holding(token)
    <3>1. ASSUME NEW u \in Threads PROVE u \in Holding(token)' <=> u \in Holding(token)
      <4>1. CASE u = t
        BY <1>1, <1>2, <1>3, <1>4, <4>1 DEF Holding, At
      <4>2. CASE u # t
        BY <1>2, <1>3, <4>2 DEF Holding, At
      <4>. QED
        BY <4>1, <4>2
    <3>. QED
      BY <3>1 DEF Holding
  <2>2. Used(token)' = Used(token)
    BY <1>1 DEF Used
  <2>. QED
    BY <2>1, <2>2 DEF TicketInv, Paid
<1>6. \A u \in DOMAIN streams' : u \in Threads /\ request'[u].at = "serving"
  BY <1>2, <1>3, <1>4
<1>. QED
  BY <1>1, <1>5, <1>6 DEF TicketInv, At

\* Between two calls on the broker nothing that a ticket is worth changes.
LEMMA EndTickets ==
    ASSUME RequestInv, TicketInv, NEW t \in Threads, End(t), UNCHANGED <<tickets, issued>>
    PROVE  TicketInv'
<1>1. /\ request'[t].at = "idle" /\ \A u \in Threads \ {t} : request'[u] = request[u]
  BY Ends, Goes DEF End, RequestInv
<1>2. \A u \in DOMAIN streams' : u \in DOMAIN streams \ {t} /\ streams'[u] = streams[u]
  BY EndKeepsOthers
<1>3. \A u \in DOMAIN streams : u \in Threads
  BY DEF TicketInv
<1>. QED
  BY <1>1, <1>2, <1>3, QuietTickets

\* The session of a stream does not change.
LEMMA SameSessions ==
    ASSUME StreamInv, TicketInv, UNCHANGED <<tickets, issued, request>>, DOMAIN streams' = DOMAIN streams,
           \A u \in DOMAIN streams : streams'[u].session = streams[u].session
    PROVE  TicketInv'
BY QuietTickets

LEMMA DisconnectTickets ==
    ASSUME RequestInv, StreamInv, TicketInv, NEW t \in Threads, LogoutStreams(t)
    PROVE  TicketInv'
<1>1. /\ request[t].at = "disconnect" /\ request[t].at \notin {"idle", "verify", "reply", "serving"}
      /\ Step(t, "logout") /\ issued' = issued /\ Disconnect(request[t].cookie)
  BY DEF LogoutStreams, At
<1>2. request'[t].at = "logout" /\ \A u \in Threads \ {t} : request'[u] = request[u]
  <2>1. Step(t, "logout") /\ "logout" \in Guests /\ request[t].at \notin {"idle", "verify", "reply"}
    BY <1>1 DEF Guests
  <2>2. request'[t] = [at |-> "logout", cookie |-> request[t].cookie]
    BY <2>1, StepsOn
  <2>. QED
    BY <2>1, <2>2, StepsOn
<1>3. \A k \in DOMAIN tickets' : k \in DOMAIN tickets /\ tickets'[k] = tickets[k]
  BY <1>1 DEF Disconnect, Restrict
<1>4. ASSUME NEW u \in DOMAIN streams'
      PROVE  u \in DOMAIN streams /\ streams'[u].session = streams[u].session
  <2>1. /\ u \in DOMAIN streams
        /\ streams'[u] = [streams[u] EXCEPT !.shut = @ \/ streams[u].session = request[t].cookie]
    BY <1>1 DEF Disconnect
  <2>2. streams[u] \in Streams
    BY <2>1 DEF StreamInv
  <2>. QED
    BY <2>1, <2>2 DEF Streams
<1>5. \A u \in DOMAIN streams : u \in Threads \ {t}
  BY <1>1 DEF TicketInv, At
<1>. QED
  BY <1>1, <1>2, <1>3, <1>4, <1>5, QuietTickets

LEMMA TicketStep == RequestInv /\ StreamInv /\ TicketInv /\ [Next]_vars => TicketInv'
<1>. SUFFICES ASSUME RequestInv, StreamInv, TicketInv, [Next]_vars PROVE TicketInv'
  OBVIOUS
<1>1. ASSUME NEW t \in Threads, Ticket(t) \/ Present(t) \/ Register(t) \/ LogoutStreams(t) PROVE TicketInv'
  BY <1>1, IssueTickets, PresentTickets, RegisterTickets, DisconnectTickets
<1>2. ASSUME UNCHANGED <<tickets, issued, request, streams>> PROVE TicketInv'
  BY <1>2, SameSessions
<1>3. ASSUME NEW t \in Threads, NEW r, Goto(t, r), r.at # "register", request[t].at # "serving",
             UNCHANGED <<tickets, issued, streams>>
      PROVE  TicketInv'
  BY <1>3, QuietGoto
<1>4. ASSUME NEW t \in Threads, Login(t) PROVE TicketInv'
  <2>1. /\ UNCHANGED <<tickets, issued, streams>> /\ request[t].at # "serving"
        /\ request' = request \/ \E r : Goto(t, r) /\ r.at = "verify"
    <3>1. PICK c \in Clients, cookie \in 0..made, began \in 0..now :
             \/ Goto(t, [at |-> "verify", client |-> c, cookie |-> cookie, policy |-> Policy, began |-> began])
             \/ request' = request
      BY <1>4 DEF Login
    <3>2. UNCHANGED <<tickets, issued, streams>> /\ request[t].at # "serving"
      BY <1>4 DEF Login, At, radioVars
    <3>. QED
      BY <3>1, <3>2
  <2>. QED
    BY <1>2, <1>3, <2>1
<1>5. ASSUME NEW t \in Threads, Reject(t) \/ Reply(t) \/ Logout(t) PROVE TicketInv'
  <2>1. UNCHANGED <<tickets, issued, streams>> /\ request[t].at # "serving" /\ Goto(t, Idle) /\ Idle.at = "idle"
    BY <1>5, Ends DEF Reject, Reply, Logout, At, radioVars
  <2>. QED
    BY <1>3, <2>1
<1>6. ASSUME NEW t \in Threads, Commit(t) PROVE TicketInv'
  <2>1. UNCHANGED <<tickets, issued, streams>> /\ request[t].at # "serving"
    BY <1>6 DEF Commit, At, radioVars
  <2>2. Done(t) \/ \E r : Goto(t, r) /\ r.at = "reply"
    BY <1>6 DEF Commit
  <2>3. \E r : Goto(t, r) /\ r.at # "register"
    BY <2>2, Ends
  <2>. QED
    BY <1>3, <2>1, <2>3
<1>7. ASSUME NEW t \in Threads, Request(t) PROVE TicketInv'
  <2>1. UNCHANGED <<tickets, issued, streams>> /\ request[t].at # "serving"
    BY <1>7 DEF Request, At, radioVars
  <2>2. PICK cookie \in Tokens, next \in {"disconnect", "permit ticket", "permit stream"} :
          Goto(t, [at |-> next, cookie |-> cookie]) \/ request' = request
    BY <1>7 DEF Request
  <2>. QED
    BY <1>2, <1>3, <2>1, <2>2
<1>8. ASSUME NEW t \in Threads, NEW asked \in {"permit ticket", "permit stream"},
             NEW what \in {"ticket", "stream"}, Permit(t, asked, what)
      PROVE  TicketInv'
  <2>1. /\ UNCHANGED <<tickets, issued, streams>> /\ what \in Guests \ {"register"}
        /\ request[t].at \notin {"idle", "verify", "reply", "serving"}
        /\ Step(t, what) \/ Done(t)
    BY <1>8 DEF Permit, At, Guests, radioVars
  <2>2. CASE Step(t, what)
    BY <2>1, <2>2, QuietStep
  <2>3. CASE Done(t)
    BY <1>3, <2>1, <2>3, Ends
  <2>. QED
    BY <2>1, <2>2, <2>3
<1>9. ASSUME NEW t \in Threads, Drain(t) \/ Send(t) \/ Elapse(t), request' = request PROVE TicketInv'
  <2>1. UNCHANGED <<tickets, issued>> /\ DOMAIN streams' = DOMAIN streams
    BY <1>9 DEF Drain, Send, Elapse
  <2>2. ASSUME NEW u \in DOMAIN streams PROVE streams'[u].session = streams[u].session
    <3>1. PICK s \in Streams : s = streams[u]
      BY DEF StreamInv
    <3>2. \/ streams'[u] = s
          \/ streams'[u] = [s EXCEPT !.sending = s.queue, !.queue = << >>]
          \/ streams'[u] = [s EXCEPT !.got = s.got \o s.sending, !.sending = << >>]
          \/ streams'[u] = [s EXCEPT !.due = TRUE]
      BY <1>9, <3>1 DEF Drain, Send, Elapse
    <3>. QED
      BY <3>1, <3>2 DEF Streams
  <2>. QED
    BY <1>9, <2>1, <2>2, SameSessions
<1>10. ASSUME NEW t \in Threads, Check(t) PROVE TicketInv'
  <2>1. /\ UNCHANGED <<tickets, issued>>
        /\ \/ End(t)
           \/ streams' = [streams EXCEPT ![t].due = FALSE] /\ request' = request
    BY <1>10 DEF Check
  <2>2. CASE streams' = [streams EXCEPT ![t].due = FALSE] /\ request' = request
    <3>1. ASSUME NEW u \in DOMAIN streams PROVE streams'[u].session = streams[u].session
      <4>1. streams[u] \in Streams
        BY DEF StreamInv
      <4>2. streams'[u] = streams[u] \/ streams'[u] = [streams[u] EXCEPT !.due = FALSE]
        BY <2>2
      <4>. QED
        BY <4>1, <4>2 DEF Streams
    <3>. QED
      BY <2>1, <2>2, <3>1, SameSessions
  <2>. QED
    BY <2>1, <2>2, EndTickets
<1>11. ASSUME NEW t \in Threads, Hangup(t) PROVE TicketInv'
  BY <1>11, EndTickets DEF Hangup
<1>12. ASSUME NEW t \in Threads, Loop(t) \/ Keeping(Drain(t)) \/ Elapse(t) PROVE TicketInv'
  BY <1>9, <1>10, <1>11, <1>12 DEF Loop, Keeping, Elapse
<1>13. ASSUME NEW c \in Connections,
              Keeping(MediaStart(c)) \/ Keeping(MediaEnd(c)) \/ Keeping(Broadcast(c))
       PROVE  TicketInv'
  <2>1. UNCHANGED <<tickets, issued, request>>
    BY <1>13 DEF Keeping, MediaStart, MediaEnd, Broadcast
  <2>2. \/ streams' = streams
        \/ /\ aired \in Nat /\ DOMAIN streams' = DOMAIN streams
           /\ \A u \in DOMAIN streams : streams'[u] = Enqueued(streams[u], aired + 1)
    BY <1>13 DEF Keeping, MediaStart, MediaEnd, Broadcast, StreamInv
  <2>3. \A u \in DOMAIN streams : streams[u] \in Streams /\ Sound(streams[u], aired)
    BY DEF StreamInv
  <2>. QED
    BY <1>2, <2>1, <2>2, <2>3, EnqueuedIsSound, SameSessions
<1>14. CASE Tick \/ Configure \/ UNCHANGED vars
  BY <1>2, <1>14 DEF Tick, Configure, vars, radioVars
<1>. QED
  BY <1>1, <1>4, <1>5, <1>6, <1>7, <1>8, <1>11, <1>12, <1>13, <1>14 DEF Next

LEMMA TicketStart == Init => TicketInv
<1>. SUFFICES ASSUME Init PROVE TicketInv
  OBVIOUS
<1>1. /\ issued = << >> /\ DOMAIN tickets = {} /\ DOMAIN streams = {}
      /\ \A t \in Threads : request[t].at = "idle"
  BY DEF Init, Idle
<1>2. issued \in Seq(Issues)
  BY <1>1
<1>3. ASSUME NEW token \in Nat PROVE Paid(token)
  <2>1. Holding(token) = {}
    BY <1>1 DEF Holding, At
  <2>2. Cardinality(Used(token)) \in Nat
    BY <1>2, UsedFinite
  <2>. QED
    BY <2>1, <2>2, FS_EmptySet DEF Paid
<1>. QED
  BY <1>1, <1>2, <1>3 DEF TicketInv

\* A ticket admits one stream, and every stream that is served was admitted by a ticket
\* of its own session, whichever threads present it at once (soft_radio.py:222).
THEOREM TicketsAreSingleUse == Spec => []TicketsAdmitOnce
<1>1. RequestInv /\ TicketInv => TicketsAdmitOnce
  <2>. SUFFICES ASSUME RequestInv, TicketInv PROVE TicketsAdmitOnce
    OBVIOUS
  <2>1. ASSUME NEW k \in DOMAIN issued PROVE issued[k].uses <= 1
    <3>1. issued[k] \in Issues
      BY DEF TicketInv
    <3>. QED
      BY <3>1 DEF Issues
  <2>2. ASSUME NEW token \in Tokens
        PROVE  Cardinality({t \in DOMAIN streams : streams[t].session = token})
                 <= Cardinality({k \in DOMAIN issued : issued[k].session = token /\ issued[k].uses = 1})
    <3>. DEFINE served == {t \in DOMAIN streams : streams[t].session = token}
    <3>1. \A x \in Tokens : x \in Nat
      BY DEF RequestInv, Tokens
    <3>2. IsFiniteSet(Holding(token)) /\ Cardinality(Holding(token)) <= Cardinality(Used(token))
      BY <3>1 DEF TicketInv, Paid
    <3>3. served \in SUBSET Holding(token)
      BY DEF TicketInv, Holding
    <3>4. IsFiniteSet(served) /\ Cardinality(served) <= Cardinality(Holding(token))
      BY <3>2, <3>3, FS_Subset
    <3>5. /\ Cardinality(served) \in Nat /\ Cardinality(Holding(token)) \in Nat
          /\ Cardinality(Used(token)) \in Nat
      BY <3>2, <3>4, FS_CardinalityType, UsedFinite DEF TicketInv
    <3>6. Cardinality(served) <= Cardinality(Used(token))
      BY <3>2, <3>4, <3>5
    <3>. QED
      BY <3>6 DEF Used
  <2>. QED
    BY <2>1, <2>2 DEF TicketsAdmitOnce
<1>2. Init => StreamInv
  <2>. SUFFICES ASSUME Init PROVE StreamInv
    OBVIOUS
  <2>1. aired = 0 /\ DOMAIN streams = {}
    BY DEF Init
  <2>. QED
    BY <2>1 DEF StreamInv
<1>. QED
  BY <1>1, <1>2, TicketStart, RequestStart, TicketStep, RequestStep, StreamStep, PTL DEF Spec

-------------------------------------------------------------------------------
(* The limits of the tables. *)

SessionEntries == [expires : 1..(MaxClock + SessionSeconds), policy : Policies]

\* A login that is being verified began at a time that was, under a policy that was read.
SessionInv ==
    /\ now \in 0..MaxClock /\ settings \in AllSettings /\ made \in 0..MaxLogins
    /\ DOMAIN sessions \subseteq Tokens /\ Cardinality(DOMAIN sessions) <= MaxSessions
    /\ \A k \in DOMAIN sessions : sessions[k] \in SessionEntries
    /\ \A t \in Threads : At(t, "verify") => request[t].policy \in Policies /\ request[t].began \in 0..now

LEMMA Limits ==
    /\ MaxClock \in Nat /\ MaxLogins \in Nat /\ SessionSeconds \in Nat /\ SessionSeconds # 0
    /\ MaxSessions \in Nat /\ MaxSessions # 0 /\ MaxTickets \in Nat /\ MaxTickets # 0
    /\ MaxLoginClients \in Nat /\ Buffer \in Nat /\ Buffer # 0
BY RemoteAdminAssumption, SoftRadioAssumption, AdminRadioAssumption

\* A part of a table within its limit is within it.
LEMMA PartIsSmall ==
    ASSUME NEW T, IsFiniteSet(T), NEW limit \in Nat, Cardinality(T) <= limit, NEW S, S \subseteq T
    PROVE  IsFiniteSet(S) /\ Cardinality(S) \in Nat /\ Cardinality(S) <= limit
<1>1. IsFiniteSet(S) /\ Cardinality(S) <= Cardinality(T)
  BY FS_Subset
<1>2. Cardinality(S) \in Nat /\ Cardinality(T) \in Nat
  BY <1>1, FS_CardinalityType
<1>. QED
  BY <1>1, <1>2

LEMMA OneMoreFits ==
    ASSUME NEW T, IsFiniteSet(T), NEW limit \in Nat, Cardinality(T) < limit, NEW e
    PROVE  IsFiniteSet(T \cup {e}) /\ Cardinality(T \cup {e}) <= limit
<1>1. /\ IsFiniteSet(T \cup {e})
      /\ Cardinality(T \cup {e}) = Cardinality(T) \/ Cardinality(T \cup {e}) = Cardinality(T) + 1
  BY FS_AddElement
<1>2. Cardinality(T) \in Nat
  BY FS_CardinalityType
<1>. QED
  BY <1>1, <1>2

LEMMA TokensAreFew ==
    ASSUME made \in Nat, NEW S, S \subseteq Tokens PROVE IsFiniteSet(S) /\ Cardinality(S) \in Nat
<1>1. IsFiniteSet(Tokens)
  BY FS_Interval DEF Tokens
<1>. QED
  BY <1>1, FS_Subset, FS_CardinalityType

LEMMA PolicyIs == Policy \in Policies
<1>1. Policy.state \in {"ENABLED", "DISABLED", "CONFIG_ERROR"} /\ Policy.listen \in BOOLEAN
  BY DEF Policy
<1>2. Policy = [state |-> Policy.state, listen |-> Policy.listen]
  BY DEF Policy
<1>. QED
  BY <1>1, <1>2 DEF Policies

\* A step that makes no session and lets no login in.
LEMMA SessionsKept ==
    ASSUME SessionInv, now' \in now..MaxClock, settings' \in AllSettings, made' = made,
           \A k \in DOMAIN sessions' : k \in DOMAIN sessions /\ sessions'[k] = sessions[k],
           \A t \in Threads : request'[t].at # "verify" \/ request'[t] = request[t]
    PROVE  SessionInv'
<1>1. DOMAIN sessions' \subseteq DOMAIN sessions /\ DOMAIN sessions' \subseteq Tokens'
  BY DEF SessionInv, Tokens
<1>2. IsFiniteSet(DOMAIN sessions)
  BY TokensAreFew DEF SessionInv
<1>3. Cardinality(DOMAIN sessions') <= MaxSessions
  BY <1>1, <1>2, PartIsSmall, Limits DEF SessionInv
<1>4. now' \in 0..MaxClock /\ \A n \in 0..now : n \in 0..now'
  BY Limits DEF SessionInv
<1>. QED
  BY <1>1, <1>3, <1>4 DEF SessionInv, At

LEMMA PurgedParts ==
    /\ \A k \in DOMAIN Purged : k \in DOMAIN sessions /\ Purged[k] = sessions[k]
    /\ \A key : \A k \in DOMAIN Forget(sessions, key) : k \in DOMAIN sessions /\ Forget(sessions, key)[k] = sessions[k]
    /\ \A key : \A k \in DOMAIN Forget(Purged, key) : k \in DOMAIN sessions /\ Forget(Purged, key)[k] = sessions[k]
BY DEF Purged, Forget, Restrict

LEMMA AuthenticatedParts ==
    ASSUME NEW token, NEW policy
    PROVE  \A k \in DOMAIN Authenticated(token, policy) :
               k \in DOMAIN sessions /\ Authenticated(token, policy)[k] = sessions[k]
<1>1. \/ Authenticated(token, policy) = << >>
      \/ Authenticated(token, policy) = sessions
      \/ Authenticated(token, policy) = Purged
      \/ Authenticated(token, policy) = Forget(Purged, token)
  BY DEF Authenticated
<1>2. DOMAIN << >> = {}
  OBVIOUS
<1>. QED
  BY <1>1, <1>2, PurgedParts

\* A thread that ends or goes on with its request verifies no password.
LEMMA NotVerifying ==
    ASSUME RequestInv, NEW t \in Threads,
           \/ request' = request
           \/ Done(t)
           \/ \E r : Goto(t, r) /\ r.at # "verify"
           \/ \E step \in Guests : Step(t, step) /\ request[t].at \notin {"idle", "verify", "reply"}
    PROVE  \A u \in Threads : request'[u].at # "verify" \/ request'[u] = request[u]
<1>1. CASE \E r : Goto(t, r) /\ r.at # "verify"
  BY <1>1, Goes DEF RequestInv
<1>2. CASE Done(t)
  <2>1. \E r : Goto(t, r) /\ r.at # "verify"
    BY <1>2, Ends
  <2>. QED
    BY <1>1, <2>1
<1>3. CASE \E step \in Guests : Step(t, step) /\ request[t].at \notin {"idle", "verify", "reply"}
  <2>1. PICK step \in Guests : Step(t, step) /\ request[t].at \notin {"idle", "verify", "reply"}
    BY <1>3
  <2>2. request'[t].at = step /\ \A u \in Threads \ {t} : request'[u] = request[u]
    <3>1. /\ request'[t] = [at |-> step, cookie |-> request[t].cookie]
          /\ \A u \in Threads \ {t} : request'[u] = request[u]
      BY <2>1, StepsOn
    <3>. QED
      BY <3>1
  <2>3. step # "verify"
    BY Zenon DEF Guests
  <2>. QED
    BY <2>2, <2>3
<1>. QED
  BY <1>1, <1>2, <1>3

LEMMA LoginSessions == ASSUME RequestInv, SessionInv, NEW t \in Threads, Login(t) PROVE SessionInv'
<1>1. PICK client \in Clients, cookie \in 0..made, began \in 0..now :
         \/ /\ sessions' = sessions
            /\ Goto(t, [at |-> "verify", client |-> client, cookie |-> cookie, policy |-> Policy, began |-> began])
         \/ (sessions' = << >> \/ sessions' = sessions) /\ request' = request
  BY DEF Login
<1>2. /\ UNCHANGED <<now, settings, made>> /\ now' \in now..MaxClock /\ settings' \in AllSettings
      /\ \A k \in DOMAIN sessions' : k \in DOMAIN sessions /\ sessions'[k] = sessions[k]
  <2>1. UNCHANGED <<now, settings, made>>
    BY DEF Login
  <2>2. DOMAIN << >> = {}
    OBVIOUS
  <2>. QED
    BY <1>1, <2>1, <2>2 DEF SessionInv
<1>3. CASE request' = request
  BY <1>2, <1>3, SessionsKept
<1>4. CASE /\ sessions' = sessions
           /\ Goto(t, [at |-> "verify", client |-> client, cookie |-> cookie, policy |-> Policy, began |-> began])
  <2>1. /\ request'[t].policy \in Policies /\ request'[t].began \in 0..now
        /\ \A u \in Threads \ {t} : request'[u] = request[u]
    BY <1>4, Goes, PolicyIs DEF RequestInv
  <2>. QED
    BY <1>2, <1>4, <2>1 DEF SessionInv, At, Tokens
<1>. QED
  BY <1>1, <1>3, <1>4

LEMMA CommitSessions == ASSUME RequestInv, SessionInv, NEW t \in Threads, Commit(t) PROVE SessionInv'
<1>. DEFINE r == request[t]
<1>1. /\ UNCHANGED <<now, settings>> /\ sessions' = WithSession(made + 1, r.began, r.policy)
      /\ r.policy \in Policies /\ r.began \in 0..now
      /\ made + 1 \in 1..MaxLogins /\ made \in Nat /\ now \in 0..MaxClock
  BY Limits DEF Commit, SessionInv, At
<1>2. /\ HasRoom => made' = made + 1 /\ \E x : Goto(t, x) /\ x.at = "reply"
      /\ ~HasRoom => made' = made /\ Done(t)
  BY DEF Commit
<1>3. \A u \in Threads : request'[u].at # "verify" \/ request'[u] = request[u]
  <2>1. Done(t) \/ \E x : Goto(t, x) /\ x.at # "verify"
    BY <1>2
  <2>. QED
    BY <2>1, NotVerifying
<1>4. CASE ~HasRoom
  <2>1. sessions' = Purged
    BY <1>1, <1>4 DEF WithSession
  <2>2. now' \in now..MaxClock /\ settings' \in AllSettings
    BY <1>1 DEF SessionInv
  <2>. QED
    BY <1>2, <1>3, <1>4, <2>1, <2>2, PurgedParts, SessionsKept
<1>5. CASE HasRoom
  <2>. DEFINE entry == [expires |-> r.began + SessionSeconds, policy |-> r.policy]
  <2>1. entry \in SessionEntries
    BY <1>1, Limits DEF SessionEntries
  <2>2. sessions' = With(Purged, made + 1, entry)
    BY <1>1, <1>5 DEF WithSession
  <2>. HIDE DEF entry
  <2>3. /\ DOMAIN sessions' = DOMAIN Purged \cup {made + 1}
        /\ \A k \in DOMAIN sessions' : sessions'[k] = entry \/ (k \in DOMAIN Purged /\ sessions'[k] = Purged[k])
    BY <2>2 DEF With
  <2>4. DOMAIN Purged \subseteq Tokens
    BY PurgedParts DEF SessionInv
  <2>5. IsFiniteSet(DOMAIN Purged)
    BY <1>1, <2>4, TokensAreFew
  <2>6. Cardinality(DOMAIN sessions') <= MaxSessions
    <3>1. Cardinality(DOMAIN Purged) < MaxSessions
      BY <1>5 DEF HasRoom
    <3>. QED
      BY <2>3, <2>5, <3>1, OneMoreFits, Limits
  <2>7. DOMAIN sessions' \subseteq Tokens' /\ made' \in 0..MaxLogins
    BY <1>1, <1>2, <1>5, <2>3, <2>4 DEF Tokens
  <2>8. \A k \in DOMAIN sessions' : sessions'[k] \in SessionEntries
    BY <2>1, <2>3, PurgedParts DEF SessionInv
  <2>. QED
    BY <1>1, <1>3, <2>6, <2>7, <2>8 DEF SessionInv, At
<1>. QED
  BY <1>4, <1>5

LEMMA SessionStep == RequestInv /\ SessionInv /\ [Next]_vars => SessionInv'
<1>. SUFFICES ASSUME RequestInv, SessionInv, [Next]_vars PROVE SessionInv'
  OBVIOUS
<1>. DEFINE Quiet == /\ UNCHANGED <<now, settings, made>>
                     /\ \A k \in DOMAIN sessions' : k \in DOMAIN sessions /\ sessions'[k] = sessions[k]
<1>1. ASSUME Quiet, \A u \in Threads : request'[u].at # "verify" \/ request'[u] = request[u]
      PROVE  SessionInv'
  <2>1. now' \in now..MaxClock /\ settings' \in AllSettings
    BY <1>1 DEF SessionInv
  <2>. QED
    BY <1>1, <2>1, SessionsKept
<1>2. ASSUME NEW t \in Threads, Login(t) \/ Commit(t) PROVE SessionInv'
  BY <1>2, LoginSessions, CommitSessions
<1>3. ASSUME NEW t \in Threads, Reject(t) \/ Reply(t) \/ Logout(t) \/ Ticket(t) PROVE SessionInv'
  <2>1. UNCHANGED <<now, settings, made>> /\ Done(t)
    BY <1>3 DEF Reject, Reply, Logout, Ticket, adminVars
  <2>2. sessions' = sessions \/ \E key : sessions' = Forget(sessions, key)
    BY <1>3 DEF Reject, Reply, Logout, Ticket, adminVars
  <2>. QED
    BY <1>1, <2>1, <2>2, NotVerifying, PurgedParts
<1>4. ASSUME NEW t \in Threads, Request(t) PROVE SessionInv'
  <2>1. PICK cookie \in Tokens, next \in {"disconnect", "permit ticket", "permit stream"} :
          /\ sessions' = Authenticated(cookie, Policy)
          /\ Goto(t, [at |-> next, cookie |-> cookie]) \/ request' = request
    BY <1>4 DEF Request
  <2>2. Quiet
    BY <1>4, <2>1, AuthenticatedParts DEF Request
  <2>3. request' = request \/ \E r : Goto(t, r) /\ r.at # "verify"
    <3>. DEFINE r == [at |-> next, cookie |-> cookie]
    <3>1. r.at # "verify"
      BY Zenon
    <3>2. Goto(t, r) \/ request' = request
      BY <2>1, Zenon
    <3>. QED
      BY <3>1, <3>2, Zenon
  <2>. QED
    BY <1>1, <2>2, <2>3, NotVerifying
<1>5. ASSUME NEW t \in Threads, NEW asked \in {"permit ticket", "permit stream"},
             NEW what \in {"ticket", "stream"}, Permit(t, asked, what)
      PROVE  SessionInv'
  <2>1. Quiet
    BY <1>5, AuthenticatedParts DEF Permit
  <2>2. Done(t) \/ (Step(t, what) /\ what \in Guests /\ request[t].at \notin {"idle", "verify", "reply"})
    BY <1>5 DEF Permit, At, Guests
  <2>. QED
    BY <1>1, <2>1, <2>2, NotVerifying
<1>6. ASSUME NEW t \in Threads, LogoutStreams(t) \/ Present(t) \/ Register(t) PROVE SessionInv'
  <2>1. Quiet
    BY <1>6 DEF LogoutStreams, Present, Register, adminVars
  <2>2. PICK step \in {"logout", "register", "serving"} :
          request[t].at \notin {"idle", "verify", "reply"} /\ (Step(t, step) \/ Done(t))
    BY <1>6 DEF LogoutStreams, Present, Register, At
  <2>3. step \in Guests
    BY DEF Guests
  <2>. QED
    BY <1>1, <2>1, <2>2, <2>3, NotVerifying
<1>7. ASSUME NEW t \in Threads, Keeping(Drain(t)) \/ Loop(t) \/ Elapse(t) \/ Hangup(t) PROVE SessionInv'
  <2>1. UNCHANGED <<now, settings, made>> /\ (request' = request \/ Done(t))
    BY <1>7 DEF Keeping, Loop, Check, Elapse, Hangup, End, adminVars
  <2>2. sessions' = sessions \/ \E token, policy : sessions' = Authenticated(token, policy)
    BY <1>7 DEF Keeping, Loop, Check, Elapse, Hangup, adminVars
  <2>. QED
    BY <1>1, <2>1, <2>2, NotVerifying, AuthenticatedParts
<1>8. ASSUME NEW c \in Connections,
             Keeping(MediaStart(c)) \/ Keeping(MediaEnd(c)) \/ Keeping(Broadcast(c))
      PROVE  SessionInv'
  BY <1>1, <1>8 DEF Keeping, adminVars
<1>9. CASE Tick \/ Configure
  <2>1. now' \in now..MaxClock /\ settings' \in AllSettings
    BY <1>9, AdminRadioAssumption, Limits DEF Tick, Configure, SessionInv
  <2>2. UNCHANGED <<sessions, made, request>>
    BY <1>9 DEF Tick, Configure
  <2>. QED
    BY <2>1, <2>2, SessionsKept
<1>10. CASE UNCHANGED vars
  BY <1>1, <1>10 DEF vars, adminVars
<1>. QED
  BY <1>2, <1>3, <1>4, <1>5, <1>6, <1>7, <1>8, <1>9, <1>10 DEF Next

\* The clients that have an entry in the table of attempts.
Busy == {c \in Clients : attempts[c] # << >>}
BusyInv == IsFiniteSet(Busy) /\ Cardinality(Busy) <= MaxLoginClients

LEMMA LoginBusy == ASSUME AttemptInv, BusyInv, NEW t \in Threads, Login(t) PROVE BusyInv'
<1>1. PICK client \in Clients, began \in 0..now :
         \/ attempts' = attempts
         \/ attempts' = Reserved(client, began)
  BY DEF Login
<1>2. began \in Nat /\ attempts \in [Clients -> Seq(Nat)]
  BY DEF AttemptInv
<1>. DEFINE left == {c \in Clients : Recent(c, began) # << >>}
<1>3. left \subseteq Busy
  <2>. SUFFICES ASSUME NEW c \in Clients, attempts[c] = << >> PROVE Recent(c, began) = << >>
    BY DEF Busy
  <2>1. Recent(c, began) \in Seq(Nat) /\ Len(Recent(c, began)) <= Len(attempts[c])
    <3>1. began - Window \in Int /\ began - Window <= began - Window
      BY <1>2, Constants
    <3>. QED
      BY <1>2, <3>1, RecentKeeps
  <2>2. Len(Recent(c, began)) = 0
    <3>1. Len(attempts[c]) = 0 /\ Len(Recent(c, began)) \in Nat
      BY <2>1
    <3>. QED
      BY <2>1, <3>1
  <2>. QED
    BY <2>1, <2>2, EmptySeq
<1>4. IsFiniteSet(left) /\ Cardinality(left) <= MaxLoginClients
  BY <1>3, PartIsSmall, Limits DEF BusyInv
<1>5. CASE attempts' = attempts
  BY <1>5 DEF BusyInv, Busy
<1>6. CASE attempts' = Reserved(client, began)
  <2>1. \A c \in Clients : attempts'[c] = IF c = client /\ MayAttempt(c, began)
                                          THEN Append(Recent(c, began), began) ELSE Recent(c, began)
    BY <1>6 DEF Reserved
  <2>2. Busy' \subseteq left \cup {client}
    BY <2>1 DEF Busy
  <2>3. CASE client \in left
    <3>1. Busy' \subseteq left
      BY <2>2, <2>3
    <3>. QED
      BY <1>4, <3>1, PartIsSmall, Limits DEF BusyInv
  <2>4. CASE ~MayAttempt(client, began)
    <3>1. Busy' \subseteq left
      BY <2>1, <2>4 DEF Busy
    <3>. QED
      BY <1>4, <3>1, PartIsSmall, Limits DEF BusyInv
  <2>5. CASE MayAttempt(client, began) /\ client \notin left
    <3>1. Cardinality(left) < MaxLoginClients
      BY <2>5 DEF MayAttempt
    <3>2. IsFiniteSet(left \cup {client}) /\ Cardinality(left \cup {client}) <= MaxLoginClients
      BY <1>4, <3>1, OneMoreFits, Limits
    <3>. QED
      BY <2>2, <3>2, PartIsSmall, Limits DEF BusyInv
  <2>. QED
    BY <2>3, <2>4, <2>5
<1>. QED
  BY <1>1, <1>5, <1>6

LEMMA BusyStep == AttemptInv /\ BusyInv /\ [Next]_vars => BusyInv'
<1>. SUFFICES ASSUME AttemptInv, BusyInv, [Next]_vars PROVE BusyInv'
  OBVIOUS
<1>1. ASSUME UNCHANGED attempts PROVE BusyInv'
  BY <1>1 DEF BusyInv, Busy
<1>2. ASSUME NEW t \in Threads, Login(t) PROVE BusyInv'
  BY <1>2, LoginBusy
<1>3. ASSUME NEW t \in Threads, Commit(t) PROVE BusyInv'
  <2>1. attempts' = [attempts EXCEPT ![request[t].client] = << >>]
    BY <1>3 DEF Commit
  <2>2. Busy' \subseteq Busy
    BY <2>1 DEF Busy, AttemptInv
  <2>. QED
    BY <2>2, PartIsSmall, Limits DEF BusyInv
<1>4. ASSUME NEW t \in Threads,
             \/ Reject(t) \/ Reply(t) \/ Request(t) \/ LogoutStreams(t) \/ Logout(t) \/ Ticket(t)
             \/ Permit(t, "permit ticket", "ticket") \/ Permit(t, "permit stream", "stream")
      PROVE BusyInv'
  BY <1>1, <1>4 DEF Reject, Reply, Request, LogoutStreams, Logout, Ticket, Permit, adminVars
<1>5. ASSUME NEW t \in Threads,
             \/ Present(t) \/ Register(t) \/ Keeping(Drain(t)) \/ Loop(t) \/ Elapse(t) \/ Hangup(t)
      PROVE BusyInv'
  BY <1>1, <1>5 DEF Present, Register, Keeping, Loop, Check, Elapse, Hangup, adminVars
<1>6. ASSUME NEW c \in Connections,
             Keeping(MediaStart(c)) \/ Keeping(MediaEnd(c)) \/ Keeping(Broadcast(c))
      PROVE BusyInv'
  BY <1>1, <1>6 DEF Keeping, adminVars
<1>7. CASE Tick \/ Configure \/ UNCHANGED vars
  BY <1>1, <1>7 DEF Tick, Configure, vars, adminVars
<1>. QED
  BY <1>2, <1>3, <1>4, <1>5, <1>6, <1>7 DEF Next

\* The tickets on the table.
TableInv == IsFiniteSet(DOMAIN tickets) /\ Cardinality(DOMAIN tickets) <= MaxTickets

LEMMA TableStep == TableInv /\ [Next]_vars => TableInv'
<1>. SUFFICES ASSUME TableInv, [Next]_vars PROVE TableInv'
  OBVIOUS
<1>1. ASSUME DOMAIN tickets' \subseteq DOMAIN tickets PROVE TableInv'
  BY <1>1, PartIsSmall, Limits DEF TableInv
<1>2. DOMAIN FreshTickets \subseteq DOMAIN tickets
  BY DEF FreshTickets, Restrict
<1>3. ASSUME NEW t \in Threads, Ticket(t) PROVE TableInv'
  <2>1. CASE radio /\ Cardinality(DOMAIN FreshTickets) < MaxTickets
    <3>1. IsFiniteSet(DOMAIN FreshTickets)
      BY <1>2, PartIsSmall, Limits DEF TableInv
    <3>2. \E entry : tickets' = With(FreshTickets, Len(issued) + 1, entry)
      BY <1>3, <2>1 DEF Ticket, Issue
    <3>3. DOMAIN tickets' = DOMAIN FreshTickets \cup {Len(issued) + 1}
      BY <3>2 DEF With
    <3>4. PICK fresh : fresh = DOMAIN FreshTickets
      OBVIOUS
    <3>5. /\ IsFiniteSet(fresh \cup {Len(issued) + 1})
          /\ Cardinality(fresh \cup {Len(issued) + 1}) <= MaxTickets
      BY <2>1, <3>1, <3>4, OneMoreFits, Limits
    <3>. QED
      BY <3>3, <3>4, <3>5 DEF TableInv
  <2>2. CASE ~(radio /\ Cardinality(DOMAIN FreshTickets) < MaxTickets)
    <3>1. tickets' = FreshTickets \/ tickets' = tickets
      BY <1>3, <2>2 DEF Ticket, Issue
    <3>. QED
      BY <1>1, <1>2, <3>1
  <2>. QED
    BY <2>1, <2>2
<1>4. ASSUME NEW t \in Threads, Present(t) \/ LogoutStreams(t) PROVE TableInv'
  <2>1. CASE Present(t)
    BY <1>1, <2>1, TakenTickets DEF Present
  <2>2. CASE LogoutStreams(t)
    BY <1>1, <2>2 DEF LogoutStreams, Disconnect, Restrict
  <2>. QED
    BY <1>4, <2>1, <2>2
<1>5. ASSUME NEW t \in Threads,
             \/ Login(t) \/ Reject(t) \/ Commit(t) \/ Reply(t) \/ Request(t) \/ Logout(t)
             \/ Permit(t, "permit ticket", "ticket") \/ Permit(t, "permit stream", "stream")
      PROVE TableInv'
  BY <1>1, <1>5 DEF Login, Reject, Commit, Reply, Request, Logout, Permit, radioVars
<1>6. ASSUME NEW t \in Threads,
             \/ Register(t) \/ Keeping(Drain(t)) \/ Loop(t) \/ Elapse(t) \/ Hangup(t)
      PROVE TableInv'
  BY <1>1, <1>6 DEF Register, Keeping, Drain, Loop, Send, Check, Elapse, Hangup
<1>7. ASSUME NEW c \in Connections,
             Keeping(MediaStart(c)) \/ Keeping(MediaEnd(c)) \/ Keeping(Broadcast(c))
      PROVE TableInv'
  BY <1>1, <1>7 DEF Keeping, MediaStart, MediaEnd, Broadcast
<1>8. CASE Tick \/ Configure \/ UNCHANGED vars
  BY <1>1, <1>8 DEF Tick, Configure, vars, radioVars
<1>. QED
  BY <1>3, <1>4, <1>5, <1>6, <1>7, <1>8 DEF Next

\* The frames queued for a browser.
QueueInv == \A t \in DOMAIN streams : Len(streams[t].queue) <= Buffer

LEMMA EnqueuedFits ==
    ASSUME NEW s \in Streams, Len(s.queue) <= Buffer, NEW frame
    PROVE  Len(Enqueued(s, frame).queue) <= Buffer
<1>. DEFINE q == s.queue
<1>1. q \in Seq(Nat) /\ Len(q) \in Nat /\ Len(q) <= Buffer
  BY DEF Streams
<1>2. CASE Len(q) = Buffer
  <2>1. Enqueued(s, frame).queue = Append(Tail(q), frame)
    BY <1>2 DEF Enqueued, Streams
  <2>2. q # << >>
    BY <1>2, Limits
  <2>3. Tail(q) \in Seq(Nat) /\ Len(Tail(q)) = Len(q) - 1
    BY <1>1, <2>2
  <2>4. Len(Append(Tail(q), frame)) = Len(Tail(q)) + 1
    BY <2>3
  <2>. QED
    BY <1>1, <1>2, <2>1, <2>3, <2>4, Limits
<1>3. CASE Len(q) # Buffer
  <2>1. Enqueued(s, frame).queue = Append(q, frame)
    BY <1>3 DEF Enqueued, Streams
  <2>2. Len(Append(q, frame)) = Len(q) + 1
    BY <1>1
  <2>. QED
    BY <1>1, <1>3, <2>1, <2>2, Limits
<1>. QED
  BY <1>2, <1>3

LEMMA QueueStep == RequestInv /\ StreamInv /\ QueueInv /\ [Next]_vars => QueueInv'
<1>. SUFFICES ASSUME RequestInv, StreamInv, QueueInv, [Next]_vars PROVE QueueInv'
  OBVIOUS
<1>. DEFINE Kept(u) == u \in DOMAIN streams /\ streams'[u].queue = streams[u].queue
<1>1. ASSUME \A u \in DOMAIN streams' : Kept(u) \/ streams'[u].queue = << >> PROVE QueueInv'
  <2>1. Len(<< >>) <= Buffer
    BY Limits
  <2>. QED
    BY <1>1, <2>1 DEF QueueInv
<1>2. ASSUME NEW t, End(t) PROVE QueueInv'
  BY <1>1, <1>2, EndKeepsOthers
<1>3. \A u \in DOMAIN streams : streams[u] \in Streams
  BY DEF StreamInv
<1>4. ASSUME NEW t \in Threads, Register(t) PROVE QueueInv'
  <2>1. /\ DOMAIN streams' = DOMAIN streams \cup {t}
        /\ streams'[t] = NewStream(request[t].cookie)
        /\ \A u \in DOMAIN streams \ {t} : streams'[u] = streams[u]
    BY <1>4, RegisterStreams
  <2>2. streams'[t].queue = << >>
    BY <2>1 DEF NewStream
  <2>. QED
    BY <1>1, <2>1, <2>2
<1>5. ASSUME NEW t \in Threads, Drain(t) \/ Send(t) PROVE QueueInv'
  <2>1. DOMAIN streams' = DOMAIN streams /\ \A u \in DOMAIN streams \ {t} : streams'[u] = streams[u]
    BY <1>5 DEF Drain, Send
  <2>2. t \in DOMAIN streams /\ streams[t] \in Streams
    BY <1>3, <1>5 DEF Drain, Send
  <2>3. streams'[t].queue = streams[t].queue \/ streams'[t].queue = << >>
    <3>1. PICK s \in Streams : s = streams[t]
      BY <2>2
    <3>2. \/ streams'[t] = [s EXCEPT !.sending = s.queue, !.queue = << >>]
          \/ streams'[t] = [s EXCEPT !.got = s.got \o s.sending, !.sending = << >>]
      BY <1>5, <2>2, <3>1 DEF Drain, Send
    <3>. QED
      BY <3>1, <3>2 DEF Streams
  <2>. QED
    BY <1>1, <2>1, <2>2, <2>3
<1>6. ASSUME NEW t \in Threads, Check(t) PROVE QueueInv'
  <2>1. CASE streams' = [streams EXCEPT ![t].due = FALSE]
    BY <1>1, <1>3, <2>1 DEF Streams
  <2>. QED
    BY <1>2, <1>6, <2>1 DEF Check
<1>7. ASSUME NEW t \in Threads, Elapse(t) \/ Hangup(t) PROVE QueueInv'
  BY <1>1, <1>2, <1>3, <1>7 DEF Elapse, Hangup, Streams
<1>8. ASSUME NEW t \in Threads, LogoutStreams(t) PROVE QueueInv'
  BY <1>1, <1>3, <1>8 DEF LogoutStreams, Disconnect, Streams
<1>9. ASSUME NEW c \in Connections,
             Keeping(MediaStart(c)) \/ Keeping(MediaEnd(c)) \/ Keeping(Broadcast(c))
      PROVE  QueueInv'
  <2>1. CASE Broadcast(c)
    <3>1. /\ DOMAIN streams' = DOMAIN streams
          /\ \A u \in DOMAIN streams : streams'[u] = Enqueued(streams[u], aired + 1)
      BY <2>1 DEF Broadcast
    <3>2. \A u \in DOMAIN streams : Len(Enqueued(streams[u], aired + 1).queue) <= Buffer
      BY <1>3, EnqueuedFits DEF QueueInv
    <3>. QED
      BY <3>1, <3>2 DEF QueueInv
  <2>2. CASE UNCHANGED streams
    BY <1>1, <2>2
  <2>. QED
    BY <1>9, <2>1, <2>2 DEF Keeping, MediaStart, MediaEnd
<1>10. ASSUME NEW t \in Threads,
              \/ Login(t) \/ Reject(t) \/ Commit(t) \/ Reply(t) \/ Request(t) \/ Logout(t)
              \/ Ticket(t) \/ Present(t)
              \/ Permit(t, "permit ticket", "ticket") \/ Permit(t, "permit stream", "stream")
       PROVE  QueueInv'
  <2>1. UNCHANGED streams
    BY <1>10 DEF Login, Reject, Commit, Reply, Request, Logout, Ticket, Present, Permit, radioVars
  <2>. QED
    BY <1>1, <2>1
<1>11. CASE Tick \/ Configure \/ UNCHANGED vars
  <2>1. UNCHANGED streams
    BY <1>11 DEF Tick, Configure, vars, radioVars
  <2>. QED
    BY <1>1, <2>1
<1>12. ASSUME NEW t \in Threads, Loop(t) \/ Keeping(Drain(t)) PROVE QueueInv'
  BY <1>5, <1>6, <1>7, <1>12 DEF Loop, Keeping
<1>. QED
  BY <1>4, <1>7, <1>8, <1>9, <1>10, <1>11, <1>12 DEF Next

LEMMA TablesStart == Init => SessionInv /\ AttemptInv /\ BusyInv /\ StreamInv /\ TableInv /\ QueueInv
<1>. SUFFICES ASSUME Init
              PROVE SessionInv /\ AttemptInv /\ BusyInv /\ StreamInv /\ TableInv /\ QueueInv
  OBVIOUS
<1>1. /\ now = 0 /\ made = 0 /\ aired = 0 /\ settings \in AllSettings
      /\ DOMAIN sessions = {} /\ DOMAIN tickets = {} /\ DOMAIN streams = {}
      /\ attempts = [c \in Clients |-> << >>] /\ admitted = [c \in Clients |-> << >>]
      /\ \A t \in Threads : request[t] = Idle
  BY AdminRadioAssumption DEF Init
<1>2. IsFiniteSet({}) /\ Cardinality({}) = 0
  BY FS_EmptySet
<1>3. Idle.at # "verify"
  BY DEF Idle
<1>4. SessionInv
  BY <1>1, <1>2, <1>3, Limits DEF SessionInv, At
<1>5. BusyInv
  <2>1. Busy = {}
    BY <1>1 DEF Busy
  <2>. QED
    BY <1>2, <2>1, Limits DEF BusyInv
<1>6. AttemptInv
  BY <1>1, <1>2, Constants, NothingAfter DEF AttemptInv, Idle
<1>. QED
  BY <1>1, <1>2, <1>4, <1>5, <1>6, Limits DEF StreamInv, TableInv, QueueInv

\* None of the server's tables grows past its limit, however many threads insert at
\* once, and what they hold is well-formed: the sessions and the login attempts
\* (remote_admin.py:301 and 277), the tickets (soft_radio.py:210), and the frames that
\* wait for a browser (soft_radio.py:153).
THEOREM TablesAreBounded == Spec => []TypeOK
<1>1. /\ SessionInv /\ AttemptInv /\ BusyInv /\ TicketInv /\ TableInv /\ QueueInv
      => TypeOK
  BY DEF SessionInv, AttemptInv, BusyInv, Busy, TicketInv, TableInv, QueueInv, TypeOK, SessionEntries, At
<1>. QED
  BY <1>1, TablesStart, RequestStart, TicketStart, SessionStep, AttemptStep, BusyStep, TableStep,
     QueueStep, RequestStep, StreamStep, TicketStep, PTL DEF Spec
===============================================================================
