---------------------------- MODULE DashboardProofs ---------------------------
(* The event log keeps the last records in order, whatever ends in the middle of a    *)
(* rotation, and the revision of the favorites names their contents: proved for every *)
(* number of threads, devices, records and revisions, and for files of every size.     *)
EXTENDS DashboardStores, FiniteSetTheorems, TLAPS

\* A device holds an older revision than the file, or the very list of the file.
ViewInv ==
    /\ favorites.revision \in Nat
    /\ view = [d \in Devices |-> view[d]]
    /\ \A d \in Devices :
         /\ view[d].revision \in Nat /\ view[d].revision <= favorites.revision
         /\ view[d].revision = favorites.revision => view[d] = favorites

\* A request to read or to edit keeps it (favorites.py, read and update).
LEMMA ViewStep == ViewInv /\ [Next]_vars => ViewInv'
<1> SUFFICES ASSUME ViewInv, [Next]_vars PROVE ViewInv'
  OBVIOUS
<1>1. CASE UNCHANGED favoritesVars
  BY <1>1 DEF ViewInv, favoritesVars
<1>2. ASSUME NEW d \in Devices, ReadFavorites(d) PROVE ViewInv'
  BY <1>2 DEF ReadFavorites, ViewInv
<1>3. ASSUME NEW d \in Devices, Update(d) PROVE ViewInv'
  <2>1. PICK items : favorites' = [revision |-> favorites.revision + 1, items |-> items]
                     /\ view' = [view EXCEPT ![d] = favorites']
    BY <1>3 DEF Update
  <2>2. favorites'.revision = favorites.revision + 1
    BY <2>1
  <2>3. \A e \in Devices : view'[e] = IF e = d THEN favorites' ELSE view[e]
    BY <2>1 DEF ViewInv
  <2>. QED
    BY <2>1, <2>2, <2>3 DEF ViewInv
<1>. QED
  BY <1>1, <1>2, <1>3 DEF Next, FavoritesNext, vars

\* An accepted edit was made from the list on file: no edit of another device is undone
\* unseen (favorites.py:77), whatever the event log and Emergency Mode do beside it.
THEOREM EditsAreSeen == Spec => []NoBlindEdit
<1>1. Init => ViewInv /\ NoBlindEdit
  BY DEF Init, FavoritesInit, ViewInv, NoBlindEdit, Empty
<1>2. ViewInv /\ NoBlindEdit /\ [Next]_vars => NoBlindEdit'
  <2> SUFFICES ASSUME ViewInv, NoBlindEdit, [Next]_vars PROVE NoBlindEdit'
    OBVIOUS
  <2>1. CASE edited' = edited
    BY <2>1 DEF NoBlindEdit
  <2>2. ASSUME NEW d \in Devices, Update(d) PROVE NoBlindEdit'
    <3>1. edited' = <<favorites, view[d]>> /\ view[d].revision = favorites.revision
      BY <2>2 DEF Update
    <3>. QED
      BY <3>1 DEF ViewInv, NoBlindEdit
  <2>. QED
    BY <2>1, <2>2 DEF Next, FavoritesNext, ReadFavorites, vars, favoritesVars
<1>. QED
  BY <1>1, <1>2, ViewStep, PTL DEF Spec

-------------------------------------------------------------------------------
(* The event log. *)

Events == {"ACTIVATED", "DEACTIVATED", "OTHER"}
Records == [event : Events, id : Nat]
Places == [at : {"lock", "rotate", "append"}, event : Events, index : 0..2]

Older(k) == (IF k >= 0 THEN Len(files[0]) ELSE 0) + (IF k >= 1 THEN Len(files[1]) ELSE 0)
            + (IF k >= 2 THEN Len(files[2]) ELSE 0)

\* The records are numbered; each file holds a stretch of them that ends where the
\* next one begins, and a backup is a full log or none.
FilesInv ==
    /\ files \in [0..2 -> Seq(Records)] /\ appended \in Seq(Records)
    /\ \A i \in 1..Len(appended) : appended[i].id = i
    /\ Older(2) <= Len(appended)
    /\ \A k \in 0..2 : \A i \in 1..Len(files[k]) :
         files[k][i] = appended[Len(appended) - Older(k) + i]
    /\ Len(files[0]) <= MaxLines
    /\ \A k \in 1..2 : Len(files[k]) \in {0, MaxLines}
    /\ Older(2) >= Len(appended) \/ Older(2) >= 2 * MaxLines

\* Who rotates or appends holds the lock, and has found the log full, or room in it.
WritersInv ==
    /\ writer \in [Writers -> {Idle} \cup Places]
    /\ \A w \in Writers :
         /\ writer[w].at \in {"rotate", "append"} => flock = w
         /\ writer[w].at = "rotate" =>
              /\ writer[w].index \in 1..2 /\ Len(files[0]) = MaxLines
              /\ writer[w].index = 1 => files[1] = << >>
         /\ writer[w].at = "append" => Len(files[0]) < MaxLines

\* What was read is older than what the files still to be read hold.
ReaderInv ==
    /\ reader \in [next : -1..2, lines : Seq(Records)]
    /\ ReadInOrder
    /\ \A i \in 1..Len(reader.lines) :
         reader.lines[i].id <= Len(appended) - Older(reader.next)

LogInv == FilesInv /\ WritersInv /\ ReaderInv

\* How many records the files from the log to the k-th backup hold.
FilesTyped == files \in [0..2 -> Seq(Records)]
Held ==
    /\ \A k \in 0..2 : Len(files[k]) \in Nat
    /\ Older(-1) = 0 /\ Older(0) = Len(files[0]) /\ Older(1) = Len(files[0]) + Len(files[1])
    /\ Older(2) = Len(files[0]) + Len(files[1]) + Len(files[2])

LEMMA Lengths == FilesTyped => Held
<1> SUFFICES ASSUME FilesTyped PROVE Held
  OBVIOUS
<1>1. \A k \in 0..2 : Len(files[k]) \in Nat
  BY DEF FilesTyped
<1>2. Len(files[0]) \in Nat /\ Len(files[1]) \in Nat /\ Len(files[2]) \in Nat
  BY <1>1
<1>. QED
  BY <1>1, <1>2 DEF Older, Held

LEMMA LengthsAfter == FilesTyped' => Held'
BY Lengths, PTL

LEMMA LogStart == ASSUME LogInit PROVE LogInv
<1>1. /\ files = [k \in 0..2 |-> << >>] /\ appended = << >>
      /\ writer = [w \in Writers |-> Idle] /\ reader = [next |-> -1, lines |-> << >>]
  BY DEF LogInit, Backups
<1>2. FilesInv
  <2>0. << >> \in Seq(Records) /\ Len(<< >>) = 0
    OBVIOUS
  <2>1. files \in [0..2 -> Seq(Records)] /\ appended \in Seq(Records) /\ Len(appended) = 0
    BY <1>1, <2>0
  <2>2. \A k \in 0..2 : Len(files[k]) = 0
    BY <1>1, <2>0
  <2>3. Len(files[0]) = 0 /\ Len(files[1]) = 0 /\ Len(files[2]) = 0
    BY <2>2
  <2>4. Older(2) = Len(files[0]) + Len(files[1]) + Len(files[2])
    BY <2>1, Lengths DEF FilesTyped, Held
  <2>5. Older(2) = 0
    BY <2>3, <2>4
  <2>. QED
    BY <2>1, <2>2, <2>5, RuntimeLogAssumption DEF FilesInv
<1>3. WritersInv
  BY <1>1 DEF WritersInv, Idle
<1>4. ReaderInv
  BY <1>1 DEF ReaderInv, ReadInOrder, Older
<1>. QED
  BY <1>2, <1>3, <1>4 DEF LogInv

\* The step of one writer leaves the others where they are.
LEMMA WriterMoves ==
    ASSUME WritersInv, NEW w \in Writers, NEW r \in {Idle} \cup Places, Goto(w, r)
    PROVE  /\ writer' \in [Writers -> {Idle} \cup Places] /\ writer'[w] = r
           /\ \A v \in Writers \ {w} : writer'[v] = writer[v]
BY DEF WritersInv, Goto

\* A writer that neither rotates nor appends disturbs nobody.
LEMMA OutsideStep ==
    ASSUME LogInv, NEW w \in Writers, NEW r \in {Idle} \cup Places, Goto(w, r),
           r.at \notin {"rotate", "append"}, UNCHANGED <<files, reader, appended>>,
           flock' = flock \/ (flock = w /\ flock' = Free)
    PROVE  LogInv'
<1>1. FilesInv' /\ ReaderInv'
  BY DEF LogInv, FilesInv, ReaderInv, ReadInOrder, Older
<1>2. WritersInv'
  BY WriterMoves DEF LogInv, WritersInv
<1>. QED
  BY <1>1, <1>2 DEF LogInv

LEMMA LockStep == ASSUME LogInv, NEW w \in Writers, Lock(w) PROVE LogInv'
<1>. USE DEF Lock
<1>1. writer[w] \in Places
  BY DEF LogInv, WritersInv, Idle
<1>2. PICK r \in Places : /\ Goto(w, r)
                          /\ \/ r.at = "rotate" /\ r.index = 2 /\ Len(files[0]) + 1 > MaxLines
                             \/ r.at = "append" /\ ~(Len(files[0]) + 1 > MaxLines)
  <2>1. CASE Len(files[0]) + 1 > MaxLines
    <3>. DEFINE r == [writer[w] EXCEPT !.at = "rotate", !.index = 2]
    <3>1. r \in Places /\ r.at = "rotate" /\ r.index = 2
      <4>1. [writer[w] EXCEPT !.at = "rotate"] \in Places
        BY <1>1 DEF Places
      <4>2. r = [[writer[w] EXCEPT !.at = "rotate"] EXCEPT !.index = 2]
        OBVIOUS
      <4>3. 2 \in 0..2
        OBVIOUS
      <4>. QED
        BY <4>1, <4>2, <4>3 DEF Places
    <3>2. Goto(w, r)
      BY <2>1 DEF Backups
    <3>. QED
      BY <2>1, <3>1, <3>2
  <2>2. CASE ~(Len(files[0]) + 1 > MaxLines)
    <3>. DEFINE r == [writer[w] EXCEPT !.at = "append"]
    <3>1. r \in Places /\ r.at = "append"
      BY <1>1 DEF Places
    <3>2. Goto(w, r)
      BY <2>2
    <3>. QED
      BY <2>2, <3>1, <3>2
  <2>. QED
    BY <2>1, <2>2
<1>3. FilesInv' /\ ReaderInv'
  BY DEF LogInv, FilesInv, ReaderInv, ReadInOrder, Older
<1>4. Len(files[0]) \in Nat /\ Len(files[0]) <= MaxLines /\ MaxLines \in Nat
  BY RuntimeLogAssumption DEF LogInv, FilesInv
<1>5. WritersInv'
  <2>1. /\ writer' \in [Writers -> {Idle} \cup Places] /\ writer'[w] = r
        /\ \A v \in Writers \ {w} : writer'[v] = writer[v]
    BY <1>2, WriterMoves DEF LogInv
  <2>2. \A v \in Writers \ {w} : writer'[v].at \notin {"rotate", "append"}
    BY <2>1, RuntimeLogAssumption DEF LogInv, WritersInv
  <2>3. ASSUME NEW v \in Writers
        PROVE  /\ writer'[v].at \in {"rotate", "append"} => flock' = v
               /\ writer'[v].at = "rotate" =>
                    /\ writer'[v].index \in 1..2 /\ Len(files'[0]) = MaxLines
                    /\ writer'[v].index = 1 => files'[1] = << >>
               /\ writer'[v].at = "append" => Len(files'[0]) < MaxLines
    <3>1. CASE v = w
      BY <1>2, <1>4, <2>1, <3>1
    <3>2. CASE v # w
      BY <2>2, <3>2
    <3>. QED
      BY <3>1, <3>2
  <2>. QED
    BY <2>1, <2>3 DEF WritersInv
<1>. QED
  BY <1>3, <1>5 DEF LogInv

\* What a writer takes from a backup only makes the reader's share of the past larger.
LEMMA ReaderKept ==
    ASSUME LogInv, reader' = reader, appended' = appended,
           \A k \in -1..2 : Older(k)' \in Nat /\ Older(k) \in Nat /\ Older(k)' <= Older(k)
    PROVE  ReaderInv'
<1>1. PICK n \in -1..2 : reader.next = n /\ reader'.next = n
  BY DEF LogInv, ReaderInv
<1>2. Older(n)' \in Nat /\ Older(n) \in Nat /\ Older(n)' <= Older(n)
  BY <1>1
<1>3. ReadInOrder' /\ reader \in [next : -1..2, lines : Seq(Records)]
  BY DEF LogInv, ReaderInv, ReadInOrder
<1>4. ASSUME NEW i \in 1..Len(reader.lines)
      PROVE  reader.lines[i].id <= Len(appended) - Older(n)'
  <2>1. reader.lines[i] \in Records
    BY <1>3, <1>4
  <2>2. reader.lines[i].id \in Nat
    BY <2>1 DEF Records
  <2>3. reader.lines[i].id <= Len(appended) - Older(n)
    BY <1>1, <1>4 DEF LogInv, ReaderInv
  <2>4. Len(appended) \in Nat
    BY DEF LogInv, FilesInv
  <2>5. PICK o, p \in Nat : o = Older(n) /\ p = Older(n)' /\ p <= o
    BY <1>2
  <2>6. reader.lines[i].id <= Len(appended) - o
    BY <2>3, <2>5
  <2>7. PICK id, length \in Nat : id = reader.lines[i].id /\ length = Len(appended)
    BY <2>2, <2>4
  <2>8. id <= length - o /\ p <= o
    BY <2>5, <2>6, <2>7
  <2>9. id <= length - p
    BY <2>8
  <2>. QED
    BY <2>5, <2>7, <2>9
<1>. QED
  BY <1>1, <1>3, <1>4 DEF ReaderInv, Older

\* The writer that holds the lock is the only one that rotates or appends, so what it
\* leaves the log in decides what the writers rely on.
LEMMA HolderMoves ==
    ASSUME LogInv, NEW w \in Writers, flock = w, NEW r \in {Idle} \cup Places, Goto(w, r),
           r.at \in {"rotate", "append"} => flock' = w,
           r.at = "rotate" => r.index \in 1..2 /\ Len(files'[0]) = MaxLines
                              /\ (r.index = 1 => files'[1] = << >>),
           r.at = "append" => Len(files'[0]) < MaxLines
    PROVE  WritersInv'
<1>1. /\ writer' \in [Writers -> {Idle} \cup Places] /\ writer'[w] = r
      /\ \A v \in Writers \ {w} : writer'[v] = writer[v]
  BY WriterMoves DEF LogInv
<1>2. \A v \in Writers \ {w} : writer'[v].at \notin {"rotate", "append"}
  BY <1>1 DEF LogInv, WritersInv
<1>3. ASSUME NEW v \in Writers
      PROVE  /\ writer'[v].at \in {"rotate", "append"} => flock' = v
             /\ writer'[v].at = "rotate" =>
                  /\ writer'[v].index \in 1..2 /\ Len(files'[0]) = MaxLines
                  /\ writer'[v].index = 1 => files'[1] = << >>
             /\ writer'[v].at = "append" => Len(files'[0]) < MaxLines
  <2>1. CASE v = w
    BY <1>1, <2>1
  <2>2. CASE v # w
    BY <1>2, <2>2
  <2>. QED
    BY <2>1, <2>2
<1>. QED
  BY <1>1, <1>3 DEF WritersInv

\* A rename into the place that is free moves the records one file further, and changes
\* neither what is on file nor its order.
Renamable(k) ==
    files[k - 1] # << >> /\ Len(files[0]) = MaxLines /\ (k = 1 => files[1] = << >>)
Renamed(k) == files' = [files EXCEPT ![k] = files[k - 1], ![k - 1] = << >>]

LEMMA RenameStep ==
    ASSUME FilesInv, NEW k \in 1..2, Renamable(k), Renamed(k), appended' = appended
    PROVE  /\ FilesInv'
           /\ \A n \in -1..2 : Older(n)' \in Nat /\ Older(n) \in Nat /\ Older(n)' <= Older(n)
<1>0. MaxLines \in Nat \ {0}
  BY RuntimeLogAssumption
<1>1. FilesTyped /\ Held
  BY Lengths DEF FilesInv, FilesTyped
<1>2. << >> \in Seq(Records) /\ Len(<< >>) = 0
  OBVIOUS
<1>3. /\ files'[k] = files[k - 1] /\ files'[k - 1] = << >>
      /\ \A j \in 0..2 : j # k /\ j # k - 1 => files'[j] = files[j]
  BY <1>1 DEF FilesTyped, Renamed
<1>4. FilesTyped'
  BY <1>1, <1>2 DEF FilesTyped, Renamed
<1>5. Held'
  BY <1>4, LengthsAfter
<1>6. Len(appended) \in Nat /\ Older(2) <= Len(appended)
  BY DEF FilesInv
<1>7. CASE k = 2
  <2>1. files'[0] = files[0] /\ files'[1] = << >> /\ files'[2] = files[1]
    BY <1>3, <1>7
  <2>2. Len(files[1]) = MaxLines
    <3>1. files[1] # << >> /\ files[1] \in Seq(Records)
      BY <1>1, <1>7 DEF FilesTyped, Renamable
    <3>2. Len(files[1]) # 0
      BY <3>1
    <3>. QED
      BY <3>2 DEF FilesInv
  <2>3. /\ Len(files'[0]) = MaxLines /\ Len(files'[1]) = 0 /\ Len(files'[2]) = MaxLines
        /\ Len(files[0]) = MaxLines
    BY <1>2, <2>1, <2>2 DEF Renamable
  <2>4. Len(files[0]) \in Nat /\ Len(files[2]) \in Nat
    BY <1>1 DEF Held
  <2>5. /\ Older(-1) = 0 /\ Older(0) = MaxLines /\ Older(1) = MaxLines + MaxLines
        /\ Older(2) = MaxLines + MaxLines + Len(files[2])
    <3>1. /\ Older(-1) = 0 /\ Older(0) = Len(files[0])
          /\ Older(1) = Len(files[0]) + Len(files[1])
          /\ Older(2) = Len(files[0]) + Len(files[1]) + Len(files[2])
      BY <1>1 DEF Held
    <3>. QED
      BY <2>2, <2>3, <3>1
  <2>6. /\ Older(-1)' = 0 /\ Older(0)' = MaxLines /\ Older(1)' = MaxLines
        /\ Older(2)' = MaxLines + MaxLines
    BY <1>0, <1>5, <2>3 DEF Held
  <2>7. ASSUME NEW n \in -1..2
        PROVE  Older(n)' \in Nat /\ Older(n) \in Nat /\ Older(n)' <= Older(n)
    <3>1. n = -1 \/ n = 0 \/ n = 1 \/ n = 2
      OBVIOUS
    <3>2. CASE n = -1
      BY <2>5, <2>6, <3>2
    <3>3. CASE n = 0
      BY <1>0, <2>5, <2>6, <3>3
    <3>4. CASE n = 1
      BY <1>0, <2>5, <2>6, <3>4
    <3>5. CASE n = 2
      <4>1. PICK older \in Nat : older = Len(files[2])
        BY <2>4
      <4>2. Older(2)' = MaxLines + MaxLines /\ Older(2) = MaxLines + MaxLines + older
        BY <2>5, <2>6, <4>1
      <4>. QED
        BY <1>0, <3>5, <4>2
    <3>. QED
      BY <3>1, <3>2, <3>3, <3>4, <3>5
  <2>8. ASSUME NEW j \in 0..2, NEW i \in 1..Len(files'[j])
        PROVE  files'[j][i] = appended[Len(appended) - Older(j)' + i]
    <3>0. \A n \in 0..2 : \A m \in 1..Len(files[n]) :
            files[n][m] = appended[Len(appended) - Older(n) + m]
      BY DEF FilesInv
    <3>1. CASE j = 0
      BY <2>1, <2>5, <2>6, <2>8, <3>0, <3>1
    <3>2. CASE j = 1
      BY <2>3, <2>8, <3>2
    <3>3. CASE j = 2
      BY <2>1, <2>5, <2>6, <2>8, <3>0, <3>3
    <3>. QED
      BY <3>1, <3>2, <3>3
  <2>9. /\ \A i \in 1..Len(appended) : appended[i].id = i
        /\ appended \in Seq(Records) /\ Older(2)' <= Len(appended)
    <3>1. (\A i \in 1..Len(appended) : appended[i].id = i) /\ appended \in Seq(Records)
      BY DEF FilesInv
    <3>2. PICK o, p \in Nat : o = Older(2) /\ p = Older(2)' /\ p <= o
      BY <2>7
    <3>3. o <= Len(appended)
      BY <1>6, <3>2
    <3>4. p <= Len(appended)
      BY <1>6, <3>2, <3>3
    <3>. QED
      BY <3>1, <3>2, <3>4
  <2>10. \A j \in 1..2 : Len(files'[j]) \in {0, MaxLines}
    BY <2>3
  <2>11. Older(2)' >= 2 * MaxLines /\ Len(files'[0]) <= MaxLines
    BY <1>0, <2>3, <2>6
  <2>. QED
    BY <1>4, <2>7, <2>8, <2>9, <2>10, <2>11 DEF FilesInv, FilesTyped
<1>8. CASE k = 1
  <2>1. files'[0] = << >> /\ files'[1] = files[0] /\ files'[2] = files[2]
    BY <1>3, <1>8
  <2>2. Len(files[1]) = 0
    BY <1>2, <1>8 DEF Renamable
  <2>3. /\ Len(files'[0]) = 0 /\ Len(files'[1]) = MaxLines /\ Len(files'[2]) = Len(files[2])
        /\ Len(files[0]) = MaxLines
    BY <1>2, <2>1 DEF Renamable
  <2>4. PICK last \in Nat : last = Len(files[2])
    BY <1>1 DEF Held
  <2>5. /\ Older(-1) = 0 /\ Older(0) = MaxLines /\ Older(1) = MaxLines
        /\ Older(2) = MaxLines + last
    <3>1. /\ Older(-1) = 0 /\ Older(0) = Len(files[0])
          /\ Older(1) = Len(files[0]) + Len(files[1])
          /\ Older(2) = Len(files[0]) + Len(files[1]) + Len(files[2])
      BY <1>1 DEF Held
    <3>. QED
      BY <1>0, <2>2, <2>3, <2>4, <3>1
  <2>6. /\ Older(-1)' = 0 /\ Older(0)' = 0 /\ Older(1)' = MaxLines
        /\ Older(2)' = MaxLines + last
    <3>1. /\ Older(-1)' = 0 /\ Older(0)' = Len(files'[0])
          /\ Older(1)' = Len(files'[0]) + Len(files'[1])
          /\ Older(2)' = Len(files'[0]) + Len(files'[1]) + Len(files'[2])
      BY <1>5 DEF Held
    <3>. QED
      BY <1>0, <2>3, <2>4, <3>1
  <2>7. ASSUME NEW n \in -1..2
        PROVE  Older(n)' \in Nat /\ Older(n) \in Nat /\ Older(n)' <= Older(n)
    <3>1. n = -1 \/ n = 0 \/ n = 1 \/ n = 2
      OBVIOUS
    <3>2. CASE n = -1
      BY <2>5, <2>6, <3>2
    <3>3. CASE n = 0
      BY <1>0, <2>5, <2>6, <3>3
    <3>4. CASE n = 1
      BY <1>0, <2>5, <2>6, <3>4
    <3>5. CASE n = 2
      BY <1>0, <2>5, <2>6, <3>5
    <3>. QED
      BY <3>1, <3>2, <3>3, <3>4, <3>5
  <2>8. ASSUME NEW j \in 0..2, NEW i \in 1..Len(files'[j])
        PROVE  files'[j][i] = appended[Len(appended) - Older(j)' + i]
    <3>0. \A n \in 0..2 : \A m \in 1..Len(files[n]) :
            files[n][m] = appended[Len(appended) - Older(n) + m]
      BY DEF FilesInv
    <3>1. CASE j = 0
      BY <2>3, <2>8, <3>1
    <3>2. CASE j = 1
      BY <2>1, <2>5, <2>6, <2>8, <3>0, <3>2
    <3>3. CASE j = 2
      BY <2>1, <2>5, <2>6, <2>8, <3>0, <3>3
    <3>. QED
      BY <3>1, <3>2, <3>3
  <2>9. /\ \A i \in 1..Len(appended) : appended[i].id = i
        /\ appended \in Seq(Records) /\ Older(2)' <= Len(appended)
    <3>1. (\A i \in 1..Len(appended) : appended[i].id = i) /\ appended \in Seq(Records)
      BY DEF FilesInv
    <3>2. PICK o, p \in Nat : o = Older(2) /\ p = Older(2)' /\ p <= o
      BY <2>7
    <3>3. o <= Len(appended)
      BY <1>6, <3>2
    <3>4. p <= Len(appended)
      BY <1>6, <3>2, <3>3
    <3>. QED
      BY <3>1, <3>2, <3>4
  <2>10. \A j \in 1..2 : Len(files'[j]) \in {0, MaxLines}
    BY <2>3 DEF FilesInv
  <2>11. Older(2)' >= Len(appended) \/ Older(2)' >= 2 * MaxLines
    BY <2>5, <2>6 DEF FilesInv
  <2>12. Len(files'[0]) <= MaxLines
    BY <1>0, <2>3
  <2>. QED
    BY <1>4, <2>7, <2>8, <2>9, <2>10, <2>11, <2>12 DEF FilesInv, FilesTyped
<1>. QED
  BY <1>7, <1>8

LEMMA RotateStep == ASSUME LogInv, NEW w \in Writers, Rotate(w) PROVE LogInv'
<1>. DEFINE k == writer[w].index
<1>1. /\ writer[w] \in Places /\ writer[w].at = "rotate" /\ flock = w /\ k \in 1..2
      /\ Len(files[0]) = MaxLines /\ (k = 1 => files[1] = << >>)
  BY DEF Rotate, LogInv, WritersInv, Idle
<1>2. /\ flock' = w /\ reader' = reader /\ appended' = appended
      /\ files' = files \/ Renamed(k)
      /\ files[k - 1] = << >> => files' = files
      /\ files[k - 1] # << >> => Renamed(k)
  BY <1>1 DEF Rotate, Renamed
<1>3. PICK r \in Places : /\ Goto(w, r)
                          /\ \/ k = 1 /\ r.at = "append"
                             \/ k = 2 /\ r.at = "rotate" /\ r.index = 1
  <2>1. CASE k = 1
    <3>1. [writer[w] EXCEPT !.at = "append"] \in Places
          /\ [writer[w] EXCEPT !.at = "append"].at = "append"
      BY <1>1 DEF Places
    <3>2. Goto(w, [writer[w] EXCEPT !.at = "append"])
      BY <2>1 DEF Rotate
    <3>. QED
      BY <2>1, <3>1, <3>2
  <2>2. CASE k = 2
    <3>1. [writer[w] EXCEPT !.index = @ - 1] \in Places
          /\ [writer[w] EXCEPT !.index = @ - 1].at = "rotate"
          /\ [writer[w] EXCEPT !.index = @ - 1].index = 1
      <4>1. 1 \in 0..2 /\ k - 1 = 1
        BY <2>2
      <4>. QED
        BY <1>1, <4>1 DEF Places
    <3>2. Goto(w, [writer[w] EXCEPT !.index = @ - 1])
      BY <2>2 DEF Rotate
    <3>. QED
      BY <2>2, <3>1, <3>2
  <2>. QED
    BY <1>1, <2>1, <2>2
<1>. HIDE DEF k
<1>4. FilesInv /\ MaxLines \in Nat \ {0} /\ FilesTyped
  BY RuntimeLogAssumption DEF LogInv, FilesInv, FilesTyped
<1>5. CASE files[k - 1] = << >>
  <2>1. k = 2 /\ files[1] = << >> /\ files' = files
    <3>1. files[0] # << >>
      BY <1>1, <1>4
    <3>. QED
      BY <1>1, <1>2, <1>5, <3>1
  <2>2. FilesInv' /\ ReaderInv'
    BY <1>2, <2>1 DEF LogInv, FilesInv, ReaderInv, ReadInOrder, Older
  <2>3. WritersInv'
    BY <1>1, <1>2, <1>3, <2>1, HolderMoves
  <2>. QED
    BY <2>2, <2>3 DEF LogInv
<1>6. CASE files[k - 1] # << >>
  <2>1. Renamable(k) /\ Renamed(k)
    BY <1>1, <1>2, <1>6 DEF Renamable
  <2>2. FilesInv' /\ ReaderInv'
    BY <1>1, <1>2, <1>4, <2>1, RenameStep, ReaderKept
  <2>3. k = 2 => files'[0] = files[0] /\ files'[1] = << >>
    BY <1>4, <2>1 DEF Renamed, FilesTyped
  <2>4. k = 1 => files'[0] = << >>
    BY <1>4, <2>1 DEF Renamed, FilesTyped
  <2>5. Len(<< >>) = 0
    OBVIOUS
  <2>6. WritersInv'
    <3>1. CASE k = 1
      BY <1>1, <1>2, <1>3, <1>4, <2>4, <2>5, <3>1, HolderMoves
    <3>2. CASE k = 2
      BY <1>1, <1>2, <1>3, <1>4, <2>3, <3>2, HolderMoves
    <3>. QED
      BY <1>1, <3>1, <3>2
  <2>. QED
    BY <2>2, <2>6 DEF LogInv
<1>. QED
  BY <1>5, <1>6

\* A record is appended to the log and to the history alike.
Appended(record) ==
    /\ files' = [files EXCEPT ![0] = Append(@, record)]
    /\ appended' = Append(appended, record)

LEMMA AppendStep ==
    ASSUME FilesInv, Len(files[0]) < MaxLines, NEW record \in Records,
           record.id = Len(appended) + 1, Appended(record)
    PROVE  /\ FilesInv' /\ Len(appended') = Len(appended) + 1
           /\ \A n \in 0..2 : Older(n) \in Nat /\ Older(n)' = Older(n) + 1
           /\ Older(-1) = 0 /\ Older(-1)' = 0
<1>1. /\ FilesTyped /\ Held /\ MaxLines \in Nat \ {0} /\ appended \in Seq(Records)
      /\ \A i \in 1..Len(appended) : appended[i].id = i
      /\ Len(files[1]) \in {0, MaxLines} /\ Len(files[2]) \in {0, MaxLines}
  BY Lengths, RuntimeLogAssumption DEF FilesInv, FilesTyped
<1>2. /\ files'[0] = Append(files[0], record) /\ files'[1] = files[1] /\ files'[2] = files[2]
      /\ files[0] \in Seq(Records) /\ FilesTyped'
  <2>1. files[0] \in Seq(Records) /\ Append(files[0], record) \in Seq(Records)
    BY <1>1 DEF FilesTyped
  <2>. QED
    BY <1>1, <2>1 DEF FilesTyped, Appended
<1>3. Held'
  BY <1>2, LengthsAfter
<1>4. PICK m0, m1, m2, length \in Nat :
        m0 = Len(files[0]) /\ m1 = Len(files[1]) /\ m2 = Len(files[2]) /\ length = Len(appended)
  BY <1>1 DEF Held
<1>5. Len(files'[0]) = m0 + 1 /\ Len(files'[1]) = m1 /\ Len(files'[2]) = m2
  BY <1>2, <1>4
<1>6. /\ Older(-1) = 0 /\ Older(0) = m0 /\ Older(1) = m0 + m1 /\ Older(2) = m0 + m1 + m2
  <2>1. /\ Older(-1) = 0 /\ Older(0) = Len(files[0])
        /\ Older(1) = Len(files[0]) + Len(files[1])
        /\ Older(2) = Len(files[0]) + Len(files[1]) + Len(files[2])
    BY <1>1 DEF Held
  <2>. QED
    BY <1>4, <2>1
<1>7. /\ Older(-1)' = 0 /\ Older(0)' = m0 + 1 /\ Older(1)' = m0 + m1 + 1
      /\ Older(2)' = m0 + m1 + m2 + 1
  <2>1. /\ Older(-1)' = 0 /\ Older(0)' = Len(files'[0])
        /\ Older(1)' = Len(files'[0]) + Len(files'[1])
        /\ Older(2)' = Len(files'[0]) + Len(files'[1]) + Len(files'[2])
    BY <1>3 DEF Held
  <2>. QED
    BY <1>5, <2>1
<1>8. ASSUME NEW n \in 0..2 PROVE Older(n) \in Nat /\ Older(n)' = Older(n) + 1
  <2>1. n = 0 \/ n = 1 \/ n = 2
    OBVIOUS
  <2>2. CASE n = 0
    BY <1>6, <1>7, <2>2
  <2>3. CASE n = 1
    BY <1>6, <1>7, <2>3
  <2>4. CASE n = 2
    BY <1>6, <1>7, <2>4
  <2>. QED
    BY <2>1, <2>2, <2>3, <2>4
<1>9. /\ appended' \in Seq(Records) /\ Len(appended') = length + 1
      /\ appended'[length + 1] = record
      /\ \A i \in 1..length : appended'[i] = appended[i]
  BY <1>1, <1>4 DEF Appended
<1>10. \A i \in 1..Len(appended') : appended'[i].id = i
  <2>1. \A i \in 1..(length + 1) : i \in 1..length \/ i = length + 1
    OBVIOUS
  <2>. QED
    BY <1>1, <1>4, <1>9, <2>1
<1>11. m0 + m1 + m2 <= length /\ m0 < MaxLines
  BY <1>4, <1>6 DEF FilesInv
<1>12. ASSUME NEW j \in 0..2, NEW i \in 1..Len(files'[j])
       PROVE  files'[j][i] = appended'[Len(appended') - Older(j)' + i]
  <2>1. \A n \in 0..2 : \A m \in 1..Len(files[n]) :
          files[n][m] = appended[length - Older(n) + m]
    BY <1>4 DEF FilesInv
  <2>2. CASE j = 0 /\ i = m0 + 1
    <3>1. files'[j][i] = record
      BY <1>2, <1>4, <2>2
    <3>2. Len(appended') - Older(j)' + i = length + 1
      BY <1>7, <1>9, <1>11, <2>2
    <3>. QED
      BY <1>9, <3>1, <3>2
  <2>3. CASE ~(j = 0 /\ i = m0 + 1)
    <3>1. i \in 1..Len(files[j]) /\ files'[j][i] = files[j][i]
      <4>1. CASE j = 0
        BY <1>2, <1>4, <1>5, <1>12, <2>3, <4>1
      <4>2. CASE j = 1
        BY <1>2, <1>12, <4>2
      <4>3. CASE j = 2
        BY <1>2, <1>12, <4>3
      <4>. QED
        BY <4>1, <4>2, <4>3
    <3>2. length - Older(j) + i \in 1..length
      <4>1. CASE j = 0
        <5>1. i \in 1..m0
          BY <1>4, <3>1, <4>1
        <5>2. length - (m0) + i \in 1..length
          BY <1>11, <5>1
        <5>. QED
          BY <1>6, <4>1, <5>2
      <4>2. CASE j = 1
        <5>1. i \in 1..m1
          BY <1>4, <3>1, <4>2
        <5>2. length - (m0 + m1) + i \in 1..length
          BY <1>11, <5>1
        <5>. QED
          BY <1>6, <4>2, <5>2
      <4>3. CASE j = 2
        <5>1. i \in 1..m2
          BY <1>4, <3>1, <4>3
        <5>2. length - (m0 + m1 + m2) + i \in 1..length
          BY <1>11, <5>1
        <5>. QED
          BY <1>6, <4>3, <5>2
      <4>. QED
        BY <4>1, <4>2, <4>3
    <3>3. Len(appended') - Older(j)' + i = length - Older(j) + i
      <4>1. PICK older \in Nat : older = Older(j) /\ Older(j)' = older + 1
        BY <1>8
      <4>2. i \in Int
        BY <1>5, <1>12
      <4>3. (length + 1) - (older + 1) + i = length - older + i
        BY <4>2
      <4>. QED
        BY <1>9, <4>1, <4>3
    <3>. QED
      BY <1>9, <2>1, <3>1, <3>2, <3>3
  <2>. QED
    BY <2>2, <2>3
<1>13. Older(2) >= length \/ Older(2) >= 2 * MaxLines
  BY <1>4 DEF FilesInv
<1>14. /\ Older(2)' <= Len(appended') /\ Len(files'[0]) <= MaxLines
       /\ \A k \in 1..2 : Len(files'[k]) \in {0, MaxLines}
       /\ Older(2)' >= Len(appended') \/ Older(2)' >= 2 * MaxLines
  <2>1. Older(2)' <= Len(appended') /\ Len(files'[0]) <= MaxLines
    BY <1>1, <1>5, <1>7, <1>9, <1>11
  <2>2. \A k \in 1..2 : Len(files'[k]) \in {0, MaxLines}
    BY <1>1, <1>2
  <2>3. Older(2)' >= Len(appended') \/ Older(2)' >= 2 * MaxLines
    BY <1>1, <1>6, <1>7, <1>9, <1>13
  <2>. QED
    BY <2>1, <2>2, <2>3
<1>15. FilesInv'
  BY <1>2, <1>9, <1>10, <1>12, <1>14 DEF FilesInv, FilesTyped
<1>. QED
  BY <1>4, <1>6, <1>7, <1>8, <1>9, <1>15

LEMMA WriteStep == ASSUME LogInv, NEW w \in Writers, Write(w) PROVE LogInv'
<1>1. /\ writer[w] \in Places /\ flock = w /\ Len(files[0]) < MaxLines
      /\ writer[w].event \in Events
  <2>1. writer[w] \in Places
    BY DEF Write, LogInv, WritersInv, Idle
  <2>. QED
    BY <2>1 DEF Write, LogInv, WritersInv, Places
<1>2. Goto(w, Idle) /\ Idle.at \notin {"rotate", "append"} /\ flock' = Free /\ reader' = reader
  BY DEF Write, Idle
<1>3. WritersInv'
  BY <1>1, <1>2, HolderMoves
<1>4. CASE UNCHANGED <<files, appended>>
  BY <1>2, <1>3, <1>4 DEF LogInv, FilesInv, ReaderInv, ReadInOrder, Older
<1>5. ASSUME NEW record, record = Record(writer[w].event), Appended(record) PROVE LogInv'
  <2>1. FilesInv /\ Len(appended) \in Nat
    BY DEF LogInv, FilesInv
  <2>2. record \in Records /\ record.id = Len(appended) + 1
    BY <1>1, <1>5, <2>1 DEF Record, Records
  <2>3. /\ FilesInv' /\ Len(appended') = Len(appended) + 1
        /\ \A n \in 0..2 : Older(n) \in Nat /\ Older(n)' = Older(n) + 1
        /\ Older(-1) = 0 /\ Older(-1)' = 0
    BY <1>1, <1>5, <2>1, <2>2, AppendStep
  <2>4. PICK n \in -1..2 : reader.next = n /\ reader'.next = n
    BY <1>2 DEF LogInv, ReaderInv
  <2>5. PICK older, next, length \in Nat :
          /\ older = Older(n) /\ next = Older(n)' /\ length = Len(appended)
          /\ length - older <= Len(appended') - next
    <3>1. CASE n = -1
      BY <2>1, <2>3, <3>1
    <3>2. CASE n \in 0..2
      <4>1. PICK older \in Nat : older = Older(n) /\ Older(n)' = older + 1
        BY <2>3, <3>2
      <4>2. Len(appended) - older <= Len(appended') - (older + 1)
        BY <2>1, <2>3
      <4>. QED
        BY <2>1, <4>1, <4>2
    <3>. QED
      BY <3>1, <3>2
  <2>6. /\ reader \in [next : -1..2, lines : Seq(Records)] /\ ReadInOrder'
        /\ \A i \in 1..Len(reader.lines) : reader.lines[i].id <= length - older
    BY <1>2, <2>4, <2>5 DEF LogInv, ReaderInv, ReadInOrder
  <2>7. \A i \in 1..Len(reader.lines) : reader.lines[i].id <= Len(appended') - next
    <3> SUFFICES ASSUME NEW i \in 1..Len(reader.lines)
                 PROVE  reader.lines[i].id <= Len(appended') - next
      OBVIOUS
    <3>1. reader.lines[i] \in Records
      BY <2>6
    <3>2. PICK id \in Nat : id = reader.lines[i].id
      BY <3>1 DEF Records
    <3>3. id <= length - older
      BY <2>6, <3>2
    <3>4. PICK after \in Nat : after = Len(appended')
      BY <2>1, <2>3
    <3>5. id <= after - next
      BY <2>5, <3>3, <3>4
    <3>. QED
      BY <3>2, <3>4, <3>5
  <2>8. ReaderInv'
    BY <1>2, <2>4, <2>5, <2>6, <2>7 DEF ReaderInv
  <2>. QED
    BY <1>3, <2>3, <2>8 DEF LogInv
<1>. QED
  BY <1>4, <1>5 DEF Write, Appended

LEMMA ReadStep == ASSUME LogInv, Read PROVE LogInv'
<1>1. FilesInv' /\ WritersInv'
  BY DEF Read, LogInv, FilesInv, WritersInv, Older
<1>2. FilesTyped /\ Held /\ appended \in Seq(Records)
  BY Lengths DEF LogInv, FilesInv, FilesTyped
<1>3. PICK n \in -1..2 : reader.next = n
  BY DEF LogInv, ReaderInv
<1>4. CASE n = -1
  <2>1. reader' = [next |-> 2, lines |-> << >>]
    BY <1>3, <1>4 DEF Read, Backups
  <2>2. << >> \in Seq(Records) /\ Len(<< >>) = 0 /\ DOMAIN << >> = {}
    OBVIOUS
  <2>3. ReaderInv'
    BY <2>1, <2>2 DEF ReaderInv, ReadInOrder
  <2>. QED
    BY <1>1, <2>3 DEF LogInv
<1>5. CASE n \in 0..2
  <2>1. PICK next, lines : /\ next = n - 1 /\ lines = reader.lines \o files[n]
                           /\ reader' = [next |-> next, lines |-> lines]
    <3>1. reader' = [next |-> n - 1, lines |-> reader.lines \o files[n]]
      <4>1. reader.next # -1
        BY <1>3, <1>5
      <4>2. reader' = [next |-> reader.next - 1, lines |-> reader.lines \o files[reader.next]]
        BY <4>1 DEF Read
      <4>. QED
        BY <1>3, <4>2
    <3>. QED
      BY <3>1
  <2>2. /\ files[n] \in Seq(Records) /\ reader.lines \in Seq(Records)
        /\ \A i \in 1..Len(reader.lines) : reader.lines[i].id <= Len(appended) - Older(n)
    <3>1. files[n] \in Seq(Records)
      BY <1>2, <1>5 DEF FilesTyped
    <3>2. reader.lines \in Seq(Records)
      BY DEF LogInv, ReaderInv
    <3>3. \A i \in 1..Len(reader.lines) : reader.lines[i].id <= Len(appended) - Older(n)
      BY <1>3 DEF LogInv, ReaderInv
    <3>. QED
      BY <3>1, <3>2, <3>3
  <2>3. PICK m0, m1, m2, length \in Nat :
          /\ m0 = Len(files[0]) /\ m1 = Len(files[1]) /\ m2 = Len(files[2])
          /\ length = Len(appended)
    BY <1>2 DEF Held
  <2>4. /\ Older(-1) = 0 /\ Older(0) = m0 /\ Older(1) = m0 + m1 /\ Older(2) = m0 + m1 + m2
        /\ m0 + m1 + m2 <= length
    <3>1. /\ Older(-1) = 0 /\ Older(0) = Len(files[0])
          /\ Older(1) = Len(files[0]) + Len(files[1])
          /\ Older(2) = Len(files[0]) + Len(files[1]) + Len(files[2])
      BY <1>2 DEF Held
    <3>2. Older(2) <= Len(appended)
      BY DEF LogInv, FilesInv
    <3>. QED
      BY <2>3, <3>1, <3>2
  <2>5. next \in -1..2
    BY <1>5, <2>1
  <2>6. PICK first, more, older, newer \in Nat :
          /\ first = Len(reader.lines) /\ more = Len(files[n])
          /\ older = Older(n) /\ newer = Older(next) /\ older = newer + more /\ older <= length
    <3>1. /\ Older(n) \in Nat /\ Older(next) \in Nat /\ Len(files[n]) \in Nat
          /\ Older(n) = Older(next) + Len(files[n]) /\ Older(n) <= length
      <4>1. CASE n = 0
        <5>1. next = -1 /\ Len(files[n]) = m0
          BY <2>1, <2>3, <4>1
        <5>2. Older(n) = m0 /\ Older(next) = 0
          BY <2>4, <4>1, <5>1
        <5>. QED
          BY <2>4, <5>1, <5>2
      <4>2. CASE n = 1
        <5>1. next = 0 /\ Len(files[n]) = m1
          BY <2>1, <2>3, <4>2
        <5>2. Older(n) = m0 + m1 /\ Older(next) = m0
          BY <2>4, <4>2, <5>1
        <5>. QED
          BY <2>4, <5>1, <5>2
      <4>3. CASE n = 2
        <5>1. next = 1 /\ Len(files[n]) = m2
          BY <2>1, <2>3, <4>3
        <5>2. Older(n) = m0 + m1 + m2 /\ Older(next) = m0 + m1
          BY <2>4, <4>3, <5>1
        <5>. QED
          BY <2>4, <5>1, <5>2
      <4>. QED
        BY <1>5, <4>1, <4>2, <4>3
    <3>2. Len(reader.lines) \in Nat
      BY <2>2
    <3>. QED
      BY <3>1, <3>2
  <2>7. /\ lines \in Seq(Records) /\ Len(lines) = first + more
        /\ \A i \in 1..first : lines[i] = reader.lines[i]
        /\ \A i \in 1..more : lines[first + i] = files[n][i]
    <3>1. /\ lines \in Seq(Records) /\ Len(lines) = first + more
          /\ \A i \in 1..(first + more) :
               lines[i] = IF i <= first THEN reader.lines[i] ELSE files[n][i - first]
      <4>1. PICK head, tail \in Seq(Records) : head = reader.lines /\ tail = files[n]
        BY <2>2
      <4>2. lines = head \o tail /\ first = Len(head) /\ more = Len(tail)
        BY <2>1, <2>6, <4>1
      <4>3. /\ lines \in Seq(Records) /\ Len(lines) = first + more
            /\ \A i \in 1..(first + more) :
                 lines[i] = IF i <= first THEN head[i] ELSE tail[i - first]
        BY <4>2
      <4>. QED
        BY <4>1, <4>3
    <3>2. \A i \in 1..first : lines[i] = reader.lines[i]
      BY <3>1
    <3>3. ASSUME NEW i \in 1..more PROVE lines[first + i] = files[n][i]
      <4>1. first + i \in 1..(first + more) /\ ~(first + i <= first) /\ first + i - first = i
        OBVIOUS
      <4>. QED
        BY <3>1, <4>1
    <3>. QED
      BY <3>1, <3>2, <3>3
  <2>8. ASSUME NEW i \in 1..first PROVE lines[i].id \in Nat /\ lines[i].id <= length - older
    <3>0. i \in 1..Len(lines)
      BY <2>7
    <3>1. lines[i] \in Records /\ lines[i] = reader.lines[i] /\ i \in 1..Len(reader.lines)
      <4>1. lines \in Seq(Records)
        BY <2>7
      <4>2. lines[i] \in Records
        BY <3>0, <4>1
      <4>3. lines[i] = reader.lines[i]
        BY <2>7
      <4>4. first = Len(reader.lines)
        BY <2>6
      <4>. QED
        BY <4>2, <4>3, <4>4
    <3>2. lines[i].id <= length - older
      <4>1. reader.lines[i].id <= Len(appended) - Older(n)
        BY <2>2, <3>1
      <4>2. Len(appended) = length /\ Older(n) = older
        BY <2>3, <2>6
      <4>. QED
        BY <3>1, <4>1, <4>2
    <3>. QED
      BY <3>1, <3>2 DEF Records
  <2>9. ASSUME NEW i \in 1..more PROVE lines[first + i].id = length - older + i
    <3>1. lines[first + i] = appended[length - older + i]
      <4>1. \A k \in 1..Len(files[n]) : files[n][k] = appended[Len(appended) - Older(n) + k]
        BY <1>5 DEF LogInv, FilesInv
      <4>2. more = Len(files[n]) /\ older = Older(n) /\ length = Len(appended)
        BY <2>3, <2>6
      <4>3. lines[first + i] = files[n][i]
        BY <2>7
      <4>. QED
        BY <4>1, <4>2, <4>3
    <3>2. length - older + i \in 1..length
      <4>1. older = newer + more /\ older <= length
        BY <2>6
      <4>. QED
        BY <4>1
    <3>3. \A k \in 1..Len(appended) : appended[k].id = k
      BY DEF LogInv, FilesInv
    <3>. QED
      BY <2>3, <3>1, <3>2, <3>3
  <2>10. \A i \in 1..Len(lines) : i \in 1..first \/ (i - first \in 1..more /\ i = first + (i - first))
    BY <2>7
  <2>11. ASSUME NEW i \in 1..Len(lines) PROVE lines[i].id <= Len(appended) - Older(next)
    <3>1. CASE i \in 1..first
      <4>1. PICK id \in Nat : id = lines[i].id /\ id <= length - older
        BY <2>8, <3>1
      <4>2. older = newer + more
        BY <2>6
      <4>3. id <= length - newer
        BY <4>1, <4>2
      <4>. QED
        BY <2>3, <2>6, <4>1, <4>3
    <3>2. CASE i - first \in 1..more /\ i = first + (i - first)
      <4>1. lines[i].id = length - older + (i - first)
        BY <2>9, <3>2
      <4>2. PICK m \in 1..more : m = i - first
        BY <3>2
      <4>3. older = newer + more
        BY <2>6
      <4>4. length - older + m <= length - newer
        BY <4>3
      <4>. QED
        BY <2>3, <2>6, <4>1, <4>2, <4>4
    <3>. QED
      BY <2>10, <3>1, <3>2
  <2>12. ASSUME NEW i \in 1..Len(lines), NEW j \in 1..Len(lines), i < j
         PROVE  lines[i].id < lines[j].id
    <3>1. CASE j \in 1..first
      <4>0. i \in 1..first
        BY <2>7, <2>12, <3>1
      <4>1. DOMAIN reader.lines = 1..first
        BY <2>2, <2>6
      <4>. QED
        BY <2>7, <2>12, <3>1, <4>0, <4>1 DEF LogInv, ReaderInv, ReadInOrder
    <3>2. CASE i \in 1..first /\ j - first \in 1..more /\ j = first + (j - first)
      <4>1. PICK id \in Nat : id = lines[i].id /\ id <= length - older
        BY <2>8, <3>2
      <4>2. lines[j].id = length - older + (j - first)
        BY <2>9, <3>2
      <4>3. id < length - older + (j - first)
        BY <3>2, <4>1
      <4>. QED
        BY <4>1, <4>2, <4>3
    <3>3. CASE /\ i - first \in 1..more /\ i = first + (i - first)
               /\ j - first \in 1..more /\ j = first + (j - first)
      <4>1. lines[i].id = length - older + (i - first) /\ lines[j].id = length - older + (j - first)
        BY <2>9, <3>3
      <4>. QED
        BY <2>12, <3>3, <4>1
    <3>. QED
      BY <2>10, <2>12, <3>1, <3>2, <3>3
  <2>13. reader' \in [next : -1..2, lines : Seq(Records)]
         /\ reader'.next = next /\ reader'.lines = lines
    BY <2>1, <2>5, <2>7
  <2>14. ReaderInv'
    <3>1. Len(lines) \in Nat /\ DOMAIN lines = 1..Len(lines)
      BY <2>7
    <3>2. ReadInOrder'
      BY <2>12, <2>13, <3>1 DEF ReadInOrder
    <3>3. appended' = appended /\ files' = files
      BY DEF Read
    <3>. QED
      BY <2>11, <2>13, <3>2, <3>3 DEF ReaderInv, Older
  <2>. QED
    BY <1>1, <2>14 DEF LogInv
<1>. QED
  BY <1>4, <1>5

\* The next event of a writer waits for the lock.
LEMMA EmitStep ==
    ASSUME LogInv, NEW w \in Writers, NEW event \in Events, Emit(w, event),
           UNCHANGED <<files, flock, reader, appended>>
    PROVE  LogInv'
<1>. DEFINE r == [at |-> "lock", event |-> event, index |-> 0]
<1>1. r \in Places /\ r.at \notin {"rotate", "append"}
  <2>1. 0 \in 0..2
    OBVIOUS
  <2>. QED
    BY <2>1 DEF Places
<1>2. Goto(w, r)
  BY DEF Emit
<1>. HIDE DEF r
<1>. QED
  BY <1>1, <1>2, OutsideStep

LEMMA CrashStep == ASSUME LogInv, NEW w \in Writers, Crash(w) PROVE LogInv'
<1>1. Goto(w, Idle) /\ Idle.at \notin {"rotate", "append"}
  BY DEF Crash, Idle
<1>2. /\ flock' = flock \/ (flock = w /\ flock' = Free)
      /\ UNCHANGED <<files, reader, appended>>
  BY DEF Crash
<1>. QED
  BY <1>1, <1>2, OutsideStep

\* Whatever the stores of the dashboard do, the log keeps its invariant.
LEMMA LogKept == LogInv /\ [Next]_vars => LogInv'
<1> SUFFICES ASSUME LogInv, [Next]_vars PROVE LogInv'
  OBVIOUS
<1>1. CASE UNCHANGED logVars
  BY <1>1 DEF logVars, LogInv, FilesInv, WritersInv, ReaderInv, ReadInOrder, Older
<1>2. ASSUME NEW w \in Handlers, NEW on \in BOOLEAN, SetEmergency(w, on) PROVE LogInv'
  <2>1. w \in Writers /\ Name(on) \in Events
    BY DEF Handlers, Name, Events
  <2>. QED
    BY <1>2, <2>1, EmitStep DEF SetEmergency
<1>3. CASE MonitorEvent
  BY <1>3, EmitStep, EmergencyAssumption DEF MonitorEvent, Events
<1>4. CASE LogNext
  BY <1>4, LockStep, RotateStep, WriteStep, CrashStep, ReadStep DEF LogNext
<1>. QED
  BY <1>1, <1>2, <1>3, <1>4 DEF Next, EmergencyNext, FileChanges, LogStep, vars, emergencyVars

\* What a reader of the log is given is in the order in which it was logged, and nothing
\* twice, whatever is rotated or appended while it reads (runtime_io.py:18).
THEOREM ReadsInOrder == Spec => []ReadInOrder
<1>1. Init => LogInv
  BY LogStart DEF Init, EmergencyInit
<1>2. LogInv => ReadInOrder
  BY DEF LogInv, ReaderInv
<1>. QED
  BY <1>1, <1>2, LogKept, PTL DEF Spec

\* A sequence that agrees with the end of another is a suffix of it.
LEMMA Suffix ==
    ASSUME NEW R, NEW s \in Seq(R), NEW t \in Seq(R), Len(s) <= Len(t),
           \A i \in 1..Len(s) : s[i] = t[Len(t) - Len(s) + i]
    PROVE  IsSuffix(s, t)
<1>1. PICK m, n \in Nat : m = Len(s) /\ n = Len(t)
  OBVIOUS
<1>2. /\ Reverse(s) = [i \in 1..m |-> s[(m - i) + 1]]
      /\ Reverse(t) = [i \in 1..n |-> t[(n - i) + 1]]
  BY <1>1 DEF Reverse
<1>3. \A i \in 1..m : s[i] \in R /\ (m - i) + 1 \in 1..m
  BY <1>1
<1>4. \A i \in 1..n : t[i] \in R /\ (n - i) + 1 \in 1..n
  BY <1>1
<1>5. Reverse(s) \in Seq(R) /\ Len(Reverse(s)) = m
  BY <1>2, <1>3
<1>6. Reverse(t) \in Seq(R) /\ Len(Reverse(t)) = n
  BY <1>2, <1>4
<1>7. ASSUME NEW i \in 1..m PROVE Reverse(s)[i] = Reverse(t)[i]
  <2>1. m <= n /\ i \in 1..n /\ (m - i) + 1 \in 1..m /\ (n - i) + 1 = n - m + ((m - i) + 1)
    BY <1>1
  <2>2. s[(m - i) + 1] = t[n - m + ((m - i) + 1)]
    BY <1>1, <2>1
  <2>. QED
    BY <1>2, <2>1, <2>2
<1>8. SubSeq(Reverse(s), 1, m) = SubSeq(Reverse(t), 1, m)
  <2>. DEFINE u == SubSeq(Reverse(s), 1, m)
              v == SubSeq(Reverse(t), 1, m)
  <2>1. m <= n
    BY <1>1
  <2>2. u \in Seq(R) /\ Len(u) = m /\ \A i \in 1..m : u[i] = Reverse(s)[i]
    BY <1>5
  <2>3. v \in Seq(R) /\ Len(v) = m /\ \A i \in 1..m : v[i] = Reverse(t)[i]
    BY <1>6, <2>1
  <2>. HIDE DEF u, v
  <2>4. u = v
    BY <1>7, <2>2, <2>3
  <2>. QED
    BY <2>4 DEF u, v
<1>. QED
  BY <1>1, <1>5, <1>6, <1>8 DEF IsSuffix, IsPrefix

LEMMA LesserOf == ASSUME NEW a \in Nat, NEW b \in Nat PROVE Min({a, b}) \in Nat /\ Min({a, b}) <= a /\ Min({a, b}) <= b
<1>1. \E x \in {a, b} : \A y \in {a, b} : x =< y
  <2>1. a <= b \/ b <= a
    OBVIOUS
  <2>. QED
    BY <2>1
<1>. QED
  BY <1>1 DEF Min

LEMMA Joined ==
    ASSUME NEW R, NEW s \in Seq(R), NEW t \in Seq(R)
    PROVE  /\ s \o t \in Seq(R) /\ Len(s \o t) = Len(s) + Len(t)
           /\ \A i \in 1..Len(s) : (s \o t)[i] = s[i]
           /\ \A i \in 1..(Len(s) + Len(t)) : i > Len(s) => (s \o t)[i] = t[i - Len(s)]
OBVIOUS

\* The stretches that the files hold make up the end of what was appended.
LEMMA OnFileIsTheEnd == LogInv => LogKeepsTheLast
<1> SUFFICES ASSUME LogInv PROVE LogKeepsTheLast
  OBVIOUS
<1>1. FilesTyped /\ Held /\ appended \in Seq(Records) /\ MaxLines \in Nat
  BY Lengths, RuntimeLogAssumption DEF LogInv, FilesInv, FilesTyped
<1>2. PICK a, b, c \in Seq(Records) : a = files[2] /\ b = files[1] /\ c = files[0]
  BY <1>1 DEF FilesTyped
<1>3. PICK l, m, n, length \in Nat :
        l = Len(a) /\ m = Len(b) /\ n = Len(c) /\ length = Len(appended)
  BY <1>1, <1>2
<1>4. /\ Older(0) = n /\ Older(1) = n + m /\ Older(2) = n + m + l /\ n + m + l <= length
  <2>1. /\ Older(0) = Len(files[0]) /\ Older(1) = Len(files[0]) + Len(files[1])
        /\ Older(2) = Len(files[0]) + Len(files[1]) + Len(files[2])
    BY <1>1 DEF Held
  <2>2. Older(2) <= Len(appended)
    BY DEF LogInv, FilesInv
  <2>. QED
    BY <1>2, <1>3, <2>1, <2>2
<1>5. \A k \in 0..2 : \A i \in 1..Len(files[k]) : files[k][i] = appended[length - Older(k) + i]
  BY <1>3 DEF LogInv, FilesInv
<1>6. /\ \A i \in 1..l : a[i] = appended[length - (n + m + l) + i]
      /\ \A i \in 1..m : b[i] = appended[length - (n + m) + i]
      /\ \A i \in 1..n : c[i] = appended[length - n + i]
  <2>1. \A i \in 1..l : a[i] = appended[length - (n + m + l) + i]
    <3>1. \A i \in 1..Len(files[2]) : files[2][i] = appended[length - Older(2) + i]
      BY <1>5
    <3>2. a = files[2] /\ l = Len(a) /\ Older(2) = (n + m + l)
      BY <1>2, <1>3, <1>4
    <3>. QED
      BY <3>1, <3>2
  <2>2. \A i \in 1..m : b[i] = appended[length - (n + m) + i]
    <3>1. \A i \in 1..Len(files[1]) : files[1][i] = appended[length - Older(1) + i]
      BY <1>5
    <3>2. b = files[1] /\ m = Len(b) /\ Older(1) = (n + m)
      BY <1>2, <1>3, <1>4
    <3>. QED
      BY <3>1, <3>2
  <2>3. \A i \in 1..n : c[i] = appended[length - n + i]
    <3>1. \A i \in 1..Len(files[0]) : files[0][i] = appended[length - Older(0) + i]
      BY <1>5
    <3>2. c = files[0] /\ n = Len(c) /\ Older(0) = n
      BY <1>2, <1>3, <1>4
    <3>. QED
      BY <3>1, <3>2
  <2>. QED
    BY <2>1, <2>2, <2>3
<1>7. OnFile = (a \o b) \o c
  BY <1>2 DEF OnFile
<1>. DEFINE d == a \o b
<1>8. /\ d \in Seq(Records) /\ Len(d) = l + m
      /\ \A i \in 1..l : d[i] = a[i]
      /\ \A i \in 1..(l + m) : i > l => d[i] = b[i - l]
  BY <1>3, Joined
<1>. HIDE DEF d
<1>9. /\ OnFile \in Seq(Records) /\ Len(OnFile) = l + m + n
      /\ \A i \in 1..(l + m) : OnFile[i] = d[i]
      /\ \A i \in 1..(l + m + n) : i > l + m => OnFile[i] = c[i - (l + m)]
  <2>1. OnFile = d \o c
    BY <1>7 DEF d
  <2>2. /\ d \o c \in Seq(Records) /\ Len(d \o c) = Len(d) + Len(c)
        /\ \A i \in 1..Len(d) : (d \o c)[i] = d[i]
        /\ \A i \in 1..(Len(d) + Len(c)) : i > Len(d) => (d \o c)[i] = c[i - Len(d)]
    BY <1>8, Joined
  <2>. QED
    BY <1>3, <1>8, <2>1, <2>2
<1>10. ASSUME NEW i \in 1..(l + m + n)
       PROVE  OnFile[i] = appended[length - (l + m + n) + i]
  <2>1. CASE i <= l
    <3>1. i \in 1..l /\ i \in 1..(l + m) /\ OnFile[i] = a[i]
      BY <1>8, <1>9, <2>1
    <3>2. length - (n + m + l) + i = length - (l + m + n) + i
      OBVIOUS
    <3>. QED
      BY <1>6, <3>1, <3>2
  <2>2. CASE ~(i <= l) /\ i <= l + m
    <3>1. i - l \in 1..m /\ i \in 1..(l + m) /\ OnFile[i] = b[i - l]
      BY <1>8, <1>9, <2>2
    <3>2. length - (n + m) + (i - l) = length - (l + m + n) + i
      OBVIOUS
    <3>. QED
      BY <1>6, <3>1, <3>2
  <2>3. CASE ~(i <= l + m)
    <3>1. i - (l + m) \in 1..n /\ OnFile[i] = c[i - (l + m)]
      BY <1>9, <2>3
    <3>2. length - n + (i - (l + m)) = length - (l + m + n) + i
      OBVIOUS
    <3>. QED
      BY <1>6, <3>1, <3>2
  <2>. QED
    BY <2>1, <2>2, <2>3
<1>11. IsSuffix(OnFile, appended)
  <2>1. Len(OnFile) <= Len(appended)
    BY <1>3, <1>4, <1>9
  <2>2. \A i \in 1..Len(OnFile) : OnFile[i] = appended[Len(appended) - Len(OnFile) + i]
    BY <1>3, <1>9, <1>10
  <2>. QED
    BY <1>1, <1>9, <2>1, <2>2, Suffix
<1>12. Len(OnFile) >= length \/ Len(OnFile) >= 2 * MaxLines
  <2>1. Older(2) >= Len(appended) \/ Older(2) >= 2 * MaxLines
    BY DEF LogInv, FilesInv
  <2>. QED
    BY <1>3, <1>4, <1>9, <2>1
<1>13. Len(OnFile) >= Min({Len(appended), Backups * MaxLines})
  <2>1. PICK two \in Nat : two = 2 * MaxLines /\ two = Backups * MaxLines
    BY <1>1 DEF Backups
  <2>2. PICK lesser \in Nat : lesser = Min({length, two}) /\ lesser <= length /\ lesser <= two
    BY LesserOf
  <2>. QED
    BY <1>3, <1>9, <1>12, <2>1, <2>2
<1>. QED
  BY <1>11, <1>13 DEF LogKeepsTheLast

\* The files hold the last records that were logged, in order and without a gap, and two
\* full logs of them when there are as many, although a writer ends between any two
\* renames of a rotation (runtime_io.py:54).
THEOREM LogIsKept == Spec => []LogKeepsTheLast
<1>1. Init => LogInv
  BY LogStart DEF Init, EmergencyInit
<1>. QED
  BY <1>1, LogKept, OnFileIsTheEnd, PTL DEF Spec

-------------------------------------------------------------------------------
(* The events of Emergency Mode. *)

\* When the last transition was made alone and nothing was lost since, it is in the log as
\* its last, or the one that is being logged.
ModeInv ==
    /\ active \in BOOLEAN /\ clear \in BOOLEAN
    /\ clear => \/ Due = {} /\ TellsTheMode
                \/ \E w \in Writers : Due = {w} /\ writer[w].event = Name(active)

\* A step that logs no transition and leaves the mode alone.
LEMMA ModeKept ==
    ASSUME ModeInv, active' = active, clear' \in BOOLEAN, clear' => clear,
           clear' => Due' = Due,
           clear' => \A v \in Due : writer'[v].event = writer[v].event,
           TellsTheMode => TellsTheMode'
    PROVE  ModeInv'
<1>1. ASSUME clear'
      PROVE  \/ Due' = {} /\ TellsTheMode'
             \/ \E w \in Writers : Due' = {w} /\ writer'[w].event = Name(active')
  <2>1. CASE Due = {} /\ TellsTheMode
    BY <1>1, <2>1
  <2>2. ASSUME NEW w \in Writers, Due = {w}, writer[w].event = Name(active)
        PROVE  Due' = {w} /\ writer'[w].event = Name(active')
    BY <1>1, <2>2 DEF Name
  <2>. QED
    BY <1>1, <2>1, <2>2 DEF ModeInv
<1>. QED
  BY <1>1 DEF ModeInv

\* The log tells the same as long as nothing is appended.
LEMMA SameTold ==
    ASSUME appended' = appended, active' = active
    PROVE  TellsTheMode => TellsTheMode'
BY DEF TellsTheMode, Told, Name

\* Every transition is on its way to the log while its writer takes the lock and rotates.
LEMMA DueOn ==
    ASSUME LogInv, NEW w \in Writers, NEW r, Goto(w, r), Logging(w), r.at # "idle",
           r.event = writer[w].event
    PROVE  Due' = Due /\ \A v \in Writers : Logging(v) => writer'[v].event = writer[v].event
<1>1. writer'[w] = r /\ \A v \in Writers \ {w} : writer'[v] = writer[v]
  BY DEF LogInv, WritersInv, Goto
<1>2. ASSUME NEW v \in Writers PROVE v \in Due' <=> v \in Due
  BY <1>1 DEF Due, Logging
<1>. QED
  BY <1>1, <1>2 DEF Due

\* A writer that is done has nothing to log.
LEMMA DueLess ==
    ASSUME LogInv, NEW w \in Writers, Goto(w, Idle)
    PROVE  Due' = Due \ {w} /\ \A v \in Writers \ {w} : writer'[v] = writer[v]
<1>1. writer'[w].at = "idle" /\ \A v \in Writers \ {w} : writer'[v] = writer[v]
  BY DEF LogInv, WritersInv, Goto, Idle
<1>2. ASSUME NEW v \in Writers PROVE v \in Due' <=> v \in Due \ {w}
  BY <1>1 DEF Due, Logging
<1>. QED
  BY <1>1, <1>2 DEF Due

\* What a writer takes on is due, when it is a transition.
LEMMA DueMore ==
    ASSUME LogInv, NEW w \in Writers, writer[w].at = "idle", NEW e, Emit(w, e)
    PROVE  /\ Due' = IF e = "OTHER" THEN Due ELSE Due \cup {w}
           /\ writer'[w].event = e /\ w \notin Due
           /\ \A v \in Writers \ {w} : writer'[v] = writer[v]
<1>1. /\ writer'[w] = [at |-> "lock", event |-> e, index |-> 0]
      /\ \A v \in Writers \ {w} : writer'[v] = writer[v]
  BY DEF LogInv, WritersInv, Emit, Goto
<1>2. w \notin Due
  BY DEF Due, Logging
<1>3. ASSUME NEW v \in Writers PROVE v \in Due' <=> v \in Due \/ (v = w /\ e # "OTHER")
  BY <1>1, <1>2 DEF Due, Logging
<1>. QED
  BY <1>1, <1>2, <1>3 DEF Due

\* What is appended is the last in the log.
LEMMA ToldMore ==
    ASSUME LogInv, NEW e, appended' = Append(appended, Record(e)), active' = active
    PROVE  /\ e = "OTHER" => (TellsTheMode => TellsTheMode')
           /\ e = Name(active) => TellsTheMode'
<1>1. PICK n \in Nat : n = Len(appended) /\ appended \in Seq(Records) /\ DOMAIN appended = 1..n
  BY DEF LogInv, FilesInv
<1>2. /\ DOMAIN appended' = 1..(n + 1) /\ appended'[n + 1].event = e
      /\ \A i \in 1..n : appended'[i] = appended[i]
  BY <1>1 DEF Record
<1>3. \A i : i \in 1..(n + 1) <=> i \in 1..n \/ i = n + 1
  OBVIOUS
<1>4. Told' = IF e = "OTHER" THEN Told ELSE Told \cup {n + 1}
  <2>1. ASSUME NEW i PROVE i \in Told' <=> i \in Told \/ (i = n + 1 /\ e # "OTHER")
    <3>1. n + 1 \notin 1..n
      OBVIOUS
    <3>. QED
      BY <1>1, <1>2, <1>3, <3>1 DEF Told
  <2>. QED
    BY <2>1
<1>5. Told \subseteq 1..n
  BY <1>1 DEF Told
<1>6. ASSUME e = "OTHER", TellsTheMode PROVE TellsTheMode'
  <2>1. Told' = Told
    BY <1>4, <1>6
  <2>2. \A i \in Told : appended'[i] = appended[i]
    BY <1>2, <1>5
  <2>. QED
    BY <1>6, <2>1, <2>2 DEF TellsTheMode, Name
<1>7. ASSUME e = Name(active) PROVE TellsTheMode'
  <2>1. Told' = Told \cup {n + 1}
    BY <1>4, <1>7 DEF Name
  <2>2. ASSUME NEW i \in Told', \A j \in Told' : j <= i PROVE appended'[i].event = Name(active')
    <3>1. n + 1 <= i
      BY <2>1, <2>2
    <3>2. i \in 1..n \/ i = n + 1
      BY <1>5, <2>1
    <3>3. i = n + 1
      BY <3>1, <3>2
    <3>. QED
      BY <1>2, <1>7, <3>3
  <2>. QED
    BY <2>1, <2>2 DEF TellsTheMode
<1>. QED
  BY <1>6, <1>7

LEMMA LogStepKeepsMode ==
    ASSUME LogInv, ModeInv, LogStep
    PROVE  ModeInv'
<1>1. active' = active /\ clear' \in BOOLEAN /\ (clear' => clear)
  BY DEF LogStep, ModeInv
<1>2. ASSUME NEW w \in Writers, Goto(w, Idle), appended' = appended PROVE ModeInv'
  <2>1. ASSUME clear' PROVE w \notin Due
    <3>1. writer'[w].at = "idle"
      BY <1>2 DEF LogInv, WritersInv, Goto, Idle
    <3>. QED
      BY <1>2, <2>1, <3>1 DEF LogStep
  <2>2. Due' = Due \ {w} /\ \A v \in Writers \ {w} : writer'[v] = writer[v]
    BY <1>2, DueLess
  <2>3. clear' => Due' = Due
    BY <2>1, <2>2
  <2>4. clear' => \A v \in Due : writer'[v].event = writer[v].event
    BY <2>1, <2>2 DEF Due
  <2>. QED
    BY <1>1, <1>2, <2>3, <2>4, SameTold, ModeKept
<1>3. ASSUME NEW w \in Writers, Lock(w) \/ Rotate(w) PROVE ModeInv'
  <2>1. writer[w] \in Places
    BY <1>3 DEF LogInv, WritersInv, Lock, Rotate, Idle
  <2>2. PICK r : /\ Goto(w, r) /\ appended' = appended
                 /\ \/ r = [writer[w] EXCEPT !.at = "rotate", !.index = Backups]
                    \/ r = [writer[w] EXCEPT !.at = "append"]
                    \/ r = [writer[w] EXCEPT !.index = writer[w].index - 1]
    BY <1>3 DEF Lock, Rotate
  <2>3. r.event = writer[w].event /\ r.at # "idle" /\ Logging(w)
    BY <2>1, <2>2 DEF Places, Logging
  <2>4. Due' = Due /\ \A v \in Due : writer'[v].event = writer[v].event
    BY <2>2, <2>3, DueOn DEF Due
  <2>. QED
    BY <1>1, <2>2, <2>4, SameTold, ModeKept
<1>4. ASSUME NEW w \in Writers, Write(w) PROVE ModeInv'
  <2>1. Logging(w) /\ Goto(w, Idle)
    BY <1>4 DEF Write, Logging
  <2>2. CASE appended' = appended
    BY <1>2, <2>1, <2>2
  <2>3. CASE appended' = Append(appended, Record(writer[w].event))
    <3>1. Due' = Due \ {w} /\ \A v \in Writers \ {w} : writer'[v] = writer[v]
      BY <2>1, DueLess
    <3>2. CASE w \notin Due
      <4>1. writer[w].event = "OTHER"
        BY <2>1, <3>2 DEF Due
      <4>2. TellsTheMode => TellsTheMode'
        BY <1>1, <2>3, <4>1, ToldMore
      <4>3. Due' = Due /\ \A v \in Due : writer'[v].event = writer[v].event
        BY <3>1, <3>2 DEF Due
      <4>. QED
        BY <1>1, <4>2, <4>3, ModeKept
    <3>3. CASE w \in Due
      <4>1. ASSUME clear' PROVE Due' = {} /\ TellsTheMode'
        <5>1. PICK v \in Writers : Due = {v} /\ writer[v].event = Name(active)
          BY <1>1, <3>3, <4>1 DEF ModeInv
        <5>2. v = w
          BY <3>3, <5>1
        <5>. QED
          BY <1>1, <2>3, <3>1, <5>1, <5>2, ToldMore
      <4>. QED
        BY <1>1, <4>1 DEF ModeInv
    <3>. QED
      BY <3>2, <3>3
  <2>. QED
    BY <1>4, <2>2, <2>3 DEF Write
<1>5. ASSUME NEW w \in Writers, Crash(w) PROVE ModeInv'
  BY <1>2, <1>5 DEF Crash
<1>6. CASE Read
  <2>1. writer' = writer /\ appended' = appended
    BY <1>6 DEF Read
  <2>2. Due' = Due /\ \A v \in Due : writer'[v].event = writer[v].event
    BY <2>1 DEF Due, Logging
  <2>. QED
    BY <1>1, <2>1, <2>2, SameTold, ModeKept
<1>. QED
  BY <1>3, <1>4, <1>5, <1>6 DEF LogStep, LogNext

LEMMA ModeStep == LogInv /\ ModeInv /\ [Next]_vars => ModeInv'
<1> SUFFICES ASSUME LogInv, ModeInv, [Next]_vars PROVE ModeInv'
  OBVIOUS
<1>1. CASE UNCHANGED emergencyVars
  <2>1. UNCHANGED <<active, clear, writer, appended>>
    BY <1>1 DEF emergencyVars, logVars
  <2>2. Due' = Due /\ clear' \in BOOLEAN
    BY <2>1 DEF Due, Logging, ModeInv
  <2>. QED
    BY <2>1, <2>2, SameTold, ModeKept
<1>2. ASSUME NEW w \in Handlers, NEW on \in BOOLEAN, SetEmergency(w, on) PROVE ModeInv'
  <2>1. /\ w \in Writers /\ writer[w].at = "idle" /\ Emit(w, Name(on))
        /\ active' = on /\ clear' = (Due = {})
    BY <1>2 DEF SetEmergency, Handlers
  <2>2. Due' = Due \cup {w} /\ writer'[w].event = Name(on)
    BY <2>1, DueMore DEF Name
  <2>3. clear' => Due' = {w} /\ writer'[w].event = Name(active')
    BY <2>1, <2>2
  <2>4. active' \in BOOLEAN /\ clear' \in BOOLEAN
    BY <2>1
  <2>. QED
    BY <2>1, <2>3, <2>4 DEF ModeInv
<1>3. CASE FileChanges
  BY <1>3 DEF FileChanges, ModeInv
<1>4. CASE MonitorEvent
  <2>1. /\ Monitor \in Writers /\ writer[Monitor].at = "idle" /\ Emit(Monitor, "OTHER")
        /\ UNCHANGED <<appended, active, clear>>
    BY <1>4, EmergencyAssumption DEF MonitorEvent
  <2>2. Due' = Due /\ Monitor \notin Due /\ \A v \in Writers \ {Monitor} : writer'[v] = writer[v]
    BY <2>1, DueMore
  <2>3. \A v \in Due : writer'[v].event = writer[v].event
    BY <2>2 DEF Due
  <2>4. clear' \in BOOLEAN /\ (clear' => clear)
    BY <2>1 DEF ModeInv
  <2>. QED
    BY <2>1, <2>2, <2>3, <2>4, SameTold, ModeKept
<1>. QED
  BY <1>1, <1>2, <1>3, <1>4, LogStepKeepsMode DEF Next, EmergencyNext, vars

\* After a transition that was made while no other was being logged, and as long as no event
\* and no file is lost, the last transition in the log is the mode (emergency_mode.py:147).
THEOREM TheLogTellsTheMode == Spec => []LogTellsTheMode
<1>1. Init => LogInv /\ ModeInv
  <2> SUFFICES ASSUME Init PROVE LogInv /\ ModeInv
    OBVIOUS
  <2>1. LogInv
    BY LogStart DEF Init, EmergencyInit
  <2>2. Due = {} /\ Told = {}
    BY DEF Init, EmergencyInit, LogInit, Told, Due, Logging, Idle
  <2>3. active = FALSE /\ clear = TRUE
    BY DEF Init, EmergencyInit
  <2>4. TellsTheMode
    BY <2>2, <2>3 DEF TellsTheMode
  <2>. QED
    BY <2>1, <2>2, <2>3, <2>4 DEF ModeInv
<1>2. ModeInv => LogTellsTheMode
  BY DEF ModeInv, LogTellsTheMode
<1>. QED
  BY <1>1, <1>2, LogKept, ModeStep, PTL DEF Spec

===============================================================================
