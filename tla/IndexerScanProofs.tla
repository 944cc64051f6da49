------------------------- MODULE IndexerScanProofs -------------------------
(***************************************************************************)
(* Theorems about IndexerScan, for any albums, versions, pool and batch    *)
(* sizes and any number of scans and events: what the next scan will skip  *)
(* is stored, an uneventful scan ends with what is in the folder, and only *)
(* what could not be found is deleted.                                     *)
(*                                                                         *)
(* The argument goes by age.  A change gives a version newer than all, so  *)
(* whatever was read of an album before is no newer than what is there     *)
(* (Dated), and what is on its way to the database is at least as new as   *)
(* what the walk saw (OnItsWay).  A fingerprint recorded for tracks at     *)
(* least as new can only equal what is there if the tracks do too          *)
(* (RecordsSound).                                                         *)
(*                                                                         *)
(* Then IndexerController, as the run that joins the two (MCIndexer) has   *)
(* it, for any libraries, number of slots, removals and bounds: what the   *)
(* controller knows of its scans is right, and every committed change is   *)
(* somewhere on its way to the cache (BatchesSound).  Order: sequences of  *)
(* libraries and events; how much of the queue is taken; the inductive     *)
(* invariant; the steps of the workers; the steps of the main thread; the  *)
(* theorem.                                                                *)
(***************************************************************************)
EXTENDS MCIndexer, FiniteSetTheorems, SequenceTheorems, WellFoundedInduction, TLAPS

Entries(s) == {s[i] : i \in DOMAIN s}
Waiting == Entries(results) \ {Sentinel}
Pending == Waiting \cup Entries(writer.batch)

\* A version of an album that was seen at some time.
Old(a, v) == v <= count.version /\ (disk[a] # 0 => v <= disk[a])

\* What is known of an album is no newer than the album.
Dated ==
    /\ \A a \in Albums :
          /\ disk[a] <= count.version
          /\ Old(a, scan.items[a]) /\ Old(a, task[a].listed)
          /\ Old(a, lib[a].tracks) /\ Old(a, lib[a].recorded)
          /\ Old(a, work[a].tracks) /\ Old(a, work[a].recorded)
    /\ \A r \in Pending : Old(r.album, r.tracks)

\* Outside the extraction there is no task, no result and no transaction.
Alone == {"off", "load", "walk", "prune", "metadata", "finalize", "enrich"}
Begun == {"load", "walk", "prune", "metadata"}
Quiet ==
    /\ scan.pc \in Alone => results = <<>> /\ writer = NoWriter
    /\ scan.pc \in Alone \cup {"writer"} => \A a \in Albums : task[a].pc = "none"
    /\ \A a \in Albums : task[a].pc # "read" => task[a].listed = 0
    /\ scan.pc \in Begun => done = {}
    /\ writer.pc \in {"off", "end"} => writer.batch = <<>> /\ ~txn

\* How what the writer sees may differ from what is committed.
Views ==
    \A a \in Albums :
        /\ lib[a].row => work[a].row
        /\ lib[a].recorded # 0 => lib[a].row
        /\ work[a].recorded # 0 => work[a].row
        /\ work[a] # lib[a] => txn /\ scan.items[a] # 0

\* What the walk has met is out of the table, unless it was not there.
WalkFacts ==
    /\ scan.pc # "off" => \A a \in Albums : There(a) \/ a \in seen.absent
    /\ scan.pc = "load" => \A a \in Albums : scan.items[a] = 0
    /\ scan.pc = "walk" => \A a \in scan.todo : scan.cached[a] = lib[a] /\ scan.items[a] = 0
    /\ scan.pc \in {"walk", "prune"} =>
          \A a \in Albums \ scan.todo : scan.cached[a].row => a \in seen.absent
    /\ scan.pc \notin {"off", "load", "walk"} => scan.todo = {} \/ scan.cancel

\* What was read of an album is from after the walk.
Newer(a, v) == scan.items[a] # 0 /\ scan.items[a] <= v
OnItsWay ==
    /\ \A a \in Albums :
          /\ task[a].pc # "none" => scan.items[a] # 0
          /\ task[a].listed # 0 => Newer(a, task[a].listed)
          /\ a \in done => /\ scan.items[a] # 0
                           /\ a \in seen.lost \/ (work[a].row /\ Newer(a, work[a].tracks))
    /\ \A r \in Pending : Newer(r.album, r.tracks)

\* The record of an album that is processed differs from what the walk saw.
Differs ==
    scan.pc \in PCs \ {"off", "load", "enrich"} =>
        \A a \in Albums : scan.items[a] # 0 =>
            lib[a].recorded < scan.items[a] /\ work[a].recorded < scan.items[a]

\* A record is of what is stored, or is out of date.
Sound(a, r) == a \in seen.lost \/ r.recorded <= r.tracks \/ r.recorded # disk[a]
RecordsSound == \A a \in Albums : Sound(a, lib[a]) /\ Sound(a, work[a])

\* The sentinel is the last word of the pool, and ends the writer.
LastWord ==
    /\ \A i \in DOMAIN results : results[i] = Sentinel => i = Len(results) /\ scan.pc = "writer"
    /\ writer.pc \in {"last", "end"} /\ ~scan.cancel => results = <<>> /\ scan.pc = "writer"

\* What becomes of an album that stays as it was, in a scan that is not cancelled.
Walked == PCs \ {"off", "load"}
Walking == {"walk", "prune"}
UntouchedGone ==
    \A a \in Albums \ seen.touched : ~There(a) =>
        /\ scan.items[a] = 0
        /\ scan.pc \in Walking => scan.cached[a] = lib[a]
        /\ scan.pc \in Walked \ Walking /\ ~scan.cancel /\ a \notin seen.lost =>
              ~lib[a].row /\ ~work[a].row
UntouchedThere ==
    \A a \in Albums \ seen.touched : There(a) =>
        /\ scan.items[a] \in {0, disk[a]}
        /\ task[a].pc = "read" => task[a].listed # 0
        /\ scan.pc \in Walking /\ a \notin scan.todo => ~scan.cached[a].row
        /\ scan.pc \in Walked /\ a \notin scan.todo /\ ~scan.cancel =>
              scan.items[a] # 0 \/ disk[a] \in Broken \/ lib[a].recorded = disk[a]
InFlight ==
    ~scan.cancel => \A a \in Albums \ (seen.touched \cup seen.lost) : scan.items[a] # 0 =>
        /\ scan.pc \in {"wait", "join", "writer"} =>
              a \in done \/ task[a].pc # "none" \/ \E r \in Pending : r.album = a
        /\ scan.pc \in {"finalize", "enrich"} => a \in done
UntouchedFacts == UntouchedGone /\ UntouchedThere /\ InFlight

IInv == /\ TypeOK /\ Dated /\ Quiet /\ Views /\ WalkFacts /\ OnItsWay /\ Differs /\ RecordsSound
        /\ LastWord /\ UntouchedFacts

-----------------------------------------------------------------------------
\* Entries of a queue that grows at its end and shrinks at its head.
LEMMA NoEntries == Entries(<<>>) = {}
BY DEF Entries

\* Appending adds an entry.
LEMMA EntriesAppend ==
    ASSUME NEW T, NEW s \in Seq(T), NEW x \in T
    PROVE  Entries(Append(s, x)) = Entries(s) \cup {x} /\ Append(s, x) \in Seq(T)
<1>1. /\ Append(s, x) \in Seq(T) /\ DOMAIN Append(s, x) = 1 .. Len(s) + 1
      /\ \A i \in 1 .. Len(s) : Append(s, x)[i] = s[i]
      /\ Append(s, x)[Len(s) + 1] = x
  OBVIOUS
<1>2. DOMAIN s = 1 .. Len(s) /\ Len(s) \in Nat
  OBVIOUS
<1> QED
  BY <1>1, <1>2 DEF Entries

\* Taking the head off.
LEMMA EntriesTail ==
    ASSUME NEW T, NEW s \in Seq(T), s # <<>>
    PROVE  /\ Entries(s) = Entries(Tail(s)) \cup {Head(s)}
           /\ Head(s) \in T /\ Tail(s) \in Seq(T)
           /\ DOMAIN Tail(s) = 1 .. Len(s) - 1 /\ Len(Tail(s)) = Len(s) - 1
           /\ \A i \in 1 .. Len(s) - 1 : Tail(s)[i] = s[i + 1]
           /\ DOMAIN s = 1 .. Len(s) /\ Head(s) = s[1] /\ Len(s) \in Nat \ {0}
           /\ (Len(s) = 1 => Tail(s) = <<>>)
<1>1. /\ Len(s) \in Nat \ {0} /\ DOMAIN s = 1 .. Len(s) /\ Head(s) = s[1] /\ s[1] \in T
      /\ Tail(s) \in Seq(T) /\ Len(Tail(s)) = Len(s) - 1
      /\ \A i \in 1 .. Len(s) - 1 : Tail(s)[i] = s[i + 1]
  OBVIOUS
<1>2. DOMAIN Tail(s) = 1 .. Len(s) - 1
  BY <1>1
<1>3. \A i \in 1 .. Len(s) : i = 1 \/ (i - 1 \in 1 .. Len(s) - 1 /\ s[i] = Tail(s)[i - 1])
  BY <1>1
<1>4. \A i \in 1 .. Len(s) - 1 : i + 1 \in 1 .. Len(s)
  BY <1>1
<1>5. Entries(s) \subseteq Entries(Tail(s)) \cup {Head(s)}
  <2>1. ASSUME NEW i \in 1 .. Len(s) PROVE s[i] = Head(s) \/ s[i] \in Entries(Tail(s))
    <3>1. CASE i = 1
      BY <1>1, <3>1
    <3>2. CASE i - 1 \in 1 .. Len(s) - 1 /\ s[i] = Tail(s)[i - 1]
      BY <1>2, <3>2 DEF Entries
    <3> QED
      BY <1>3, <3>1, <3>2
  <2> QED
    BY <1>1, <2>1 DEF Entries
<1>6. Entries(Tail(s)) \cup {Head(s)} \subseteq Entries(s)
  <2>1. s[1] \in Entries(s)
    BY <1>1 DEF Entries
  <2>2. ASSUME NEW i \in 1 .. Len(s) - 1 PROVE Tail(s)[i] \in Entries(s)
    BY <1>1, <1>4 DEF Entries
  <2> QED
    BY <1>1, <1>2, <2>1, <2>2 DEF Entries
<1> QED
  BY <1>1, <1>2, <1>5, <1>6

\* Entries are of the type of the queue.
LEMMA EntriesIn == ASSUME NEW T, NEW s \in Seq(T) PROVE Entries(s) \subseteq T
BY DEF Entries

\* What the type invariant says of the numbers.
LEMMA Numbers ==
    ASSUME TypeOK
    PROVE  /\ count.version \in Nat
           /\ \A a \in Albums :
                 /\ disk[a] \in Nat /\ scan.items[a] \in Nat /\ task[a].listed \in Nat
                 /\ lib[a].tracks \in Nat /\ lib[a].recorded \in Nat
                 /\ work[a].tracks \in Nat /\ work[a].recorded \in Nat
           /\ \A r \in Pending : r \in Results /\ r.album \in Albums /\ r.tracks \in Nat \ {0}
<1>1. MaxVersion \in Nat \ {0}
  BY VersionAssumption
<1>2. \A r \in Rows : r.tracks \in Nat /\ r.recorded \in Nat
  <2>1. \A v \in 0 .. MaxVersion : v \in Nat
    BY <1>1
  <2>2. \A r \in [row : {TRUE}, tracks : 0 .. MaxVersion, recorded : 0 .. MaxVersion] :
           r.tracks \in 0 .. MaxVersion /\ r.recorded \in 0 .. MaxVersion
    OBVIOUS
  <2>3. Absent.tracks = 0 /\ Absent.recorded = 0
    BY DEF Absent
  <2> SUFFICES ASSUME NEW r \in Rows PROVE r.tracks \in Nat /\ r.recorded \in Nat
    OBVIOUS
  <2>4. CASE r = Absent
    BY <2>3, <2>4
  <2>5. CASE r \in [row : {TRUE}, tracks : 0 .. MaxVersion, recorded : 0 .. MaxVersion]
    BY <2>1, <2>2, <2>5
  <2> QED
    BY <2>4, <2>5 DEF Rows
<1>3. Pending \subseteq Results
  BY EntriesIn DEF TypeOK, Pending, Waiting
<1>4. \A r \in Results : r.album \in Albums /\ r.tracks \in Nat \ {0}
  BY <1>1 DEF Results, Versions
<1>5. count.version \in Nat
  BY <1>1 DEF TypeOK, Versions
<1>6. \A a \in Albums : disk[a] \in Nat /\ scan.items[a] \in Nat /\ task[a].listed \in Nat
  BY <1>1 DEF TypeOK
<1> QED
  BY <1>2, <1>3, <1>4, <1>5, <1>6 DEF TypeOK

-----------------------------------------------------------------------------
Scans == [pc : PCs, cancel : BOOLEAN, cached : [Albums -> Rows], todo : SUBSET Albums,
          items : [Albums -> 0 .. MaxVersion], total : Nat, processed : Nat]
Tasks == [pc : {"none", "queued", "read"}, listed : 0 .. MaxVersion]
Writers == [pc : {"off", "pop", "write", "last", "end"}, batch : Seq(Results)]
Counts == [scans : 0 .. MaxScans, events : 0 .. MaxEvents, version : Versions]
Seens == [absent : SUBSET Albums, touched : SUBSET Albums, lost : SUBSET Albums]

\* Values that the actions assign have their types.
LEMMA Constants ==
    /\ Absent \in Rows /\ NoTask \in Tasks /\ NoScan \in Scans /\ NoWriter \in Writers
    /\ 0 \in 0 .. MaxVersion /\ Versions \subseteq 0 .. MaxVersion /\ Versions \subseteq Nat \ {0}
<1>1. /\ 0 \in 0 .. MaxVersion /\ Versions \subseteq 0 .. MaxVersion
      /\ Versions \subseteq Nat \ {0}
  BY VersionAssumption DEF Versions
<1>2. Absent \in Rows
  BY DEF Rows
<1>3. NoTask \in Tasks
  BY <1>1 DEF NoTask, Tasks
<1>4. NoScan \in Scans
  BY <1>1, <1>2 DEF NoScan, Scans, PCs
<1>5. NoWriter \in Writers
  BY DEF NoWriter, Writers
<1> QED
  BY <1>1, <1>2, <1>3, <1>4, <1>5

\* The bound on events leaves the counters in their type.
LEMMA EventType ==
    ASSUME TypeOK, Event
    PROVE  count' \in Counts /\ \A v \in Versions : [count' EXCEPT !.version = v] \in Counts
<1>1. count \in Counts /\ count.events < MaxEvents /\ count' = [count EXCEPT !.events = @ + 1]
  BY DEF TypeOK, Counts, Event
<1>2. count.events + 1 \in 0 .. MaxEvents
  BY <1>1, BoundAssumption DEF Counts
<1> QED
  BY <1>1, <1>2 DEF Counts

\* Sets of albums stay sets of albums.
LEMMA SeenType ==
    ASSUME TypeOK, NEW S \in SUBSET Albums
    PROVE  /\ [seen EXCEPT !.absent = @ \cup S] \in Seens
           /\ [seen EXCEPT !.touched = @ \cup S] \in Seens
           /\ [seen EXCEPT !.touched = @ \cup S, !.absent = @ \cup S] \in Seens
           /\ [seen EXCEPT !.lost = @ \cup S] \in Seens
           /\ [seen EXCEPT !.lost = @ \ S] \in Seens
<1>1. seen \in Seens
  BY DEF TypeOK, Seens
<1> QED
  BY <1>1 DEF Seens

\* Rows of the database.
LEMMA RowType ==
    ASSUME NEW r \in Rows, NEW v \in 0 .. MaxVersion
    PROVE  /\ r.row => LET n == [r EXCEPT !.recorded = v]
                       IN  n \in Rows /\ n.row /\ n.tracks = r.tracks /\ n.recorded = v
           /\ [row |-> TRUE, tracks |-> v, recorded |-> r.recorded] \in Rows
           /\ r.tracks \in 0 .. MaxVersion /\ r.recorded \in 0 .. MaxVersion
<1>1. CASE r = Absent
  BY <1>1, Constants DEF Absent, Rows
<1>2. CASE r \in [row : {TRUE}, tracks : 0 .. MaxVersion, recorded : 0 .. MaxVersion]
  BY <1>2 DEF Rows
<1> QED
  BY <1>1, <1>2 DEF Rows

\* The album that the writer is about.
LEMMA WriteHead ==
    ASSUME TypeOK, writer.batch # <<>>
    PROVE  /\ Head(writer.batch) \in Results /\ Tail(writer.batch) \in Seq(Results)
           /\ Head(writer.batch).album \in Albums /\ Head(writer.batch).tracks \in Versions
<1>1. writer.batch \in Seq(Results)
  BY DEF TypeOK
<1>2. Head(writer.batch) \in Results /\ Tail(writer.batch) \in Seq(Results)
  BY <1>1
<1> QED
  BY <1>2 DEF Results

\* ChangeDisk leaves every variable in its type.
LEMMA TChangeDisk ==
    ASSUME TypeOK, NEW a \in Albums, ChangeDisk(a)
    PROVE  TypeOK'
<1>1. disk' \in [Albums -> 0 .. MaxVersion]
  <2>1. \/ disk' = [disk EXCEPT ![a] = count.version + 1] /\ count.version < MaxVersion
        \/ disk' = [disk EXCEPT ![a] = 0]
    BY DEF ChangeDisk
  <2>2. count.version < MaxVersion => count.version + 1 \in 0 .. MaxVersion
    BY Numbers, VersionAssumption
  <2> QED
    BY ZenonT(60), <2>1, <2>2, Constants DEF TypeOK
<1>2. count' \in Counts
  <2>1. count.version < MaxVersion => count.version + 1 \in Versions
    BY Numbers, VersionAssumption DEF Versions
  <2>2. count \in Counts /\ count.events + 1 \in 0 .. MaxEvents
    BY BoundAssumption DEF ChangeDisk, TypeOK, Counts
  <2>3. \/ /\ count.version < MaxVersion
           /\ count' = [count EXCEPT !.events = @ + 1, !.version = @ + 1]
        \/ count' = [count EXCEPT !.events = @ + 1]
    BY DEF ChangeDisk
  <2> QED
    BY <2>1, <2>2, <2>3 DEF Counts
<1>3. seen' \in Seens
  <2>1. \/ seen' = [seen EXCEPT !.touched = @ \cup {a}]
        \/ seen' = [seen EXCEPT !.touched = @ \cup {a}, !.absent = @ \cup {a}]
    BY DEF ChangeDisk
  <2> QED
    BY <2>1, SeenType
<1> QED
  BY <1>1, <1>2, <1>3 DEF TypeOK, ChangeDisk, Scans, Tasks, Writers, Counts, Seens, files, base,
     pool

\* Unplug leaves every variable in its type.
LEMMA TUnplug ==
    ASSUME TypeOK, Unplug
    PROVE  TypeOK'
<1>1. mounted' \in BOOLEAN
  BY DEF TypeOK, Unplug
<1>2. count' \in Counts
  BY EventType DEF TypeOK, Counts, Unplug
<1>3. seen' \in Seens
  BY SeenType DEF TypeOK, Seens, Unplug
<1> QED
  BY <1>1, <1>2, <1>3 DEF TypeOK, Unplug, Scans, Tasks, Writers, Counts, Seens, files, base, pool

\* Replug leaves every variable in its type.
LEMMA TReplug ==
    ASSUME TypeOK, Replug
    PROVE  TypeOK'
<1>1. mounted' \in BOOLEAN
  BY DEF TypeOK, Replug
<1>2. seen' \in Seens
  BY SeenType DEF TypeOK, Seens, Replug
<1> QED
  BY <1>1, <1>2 DEF TypeOK, Replug, Scans, Tasks, Writers, Counts, Seens, files, base, pool

\* Cancel leaves every variable in its type.
LEMMA TCancel ==
    ASSUME TypeOK, Cancel
    PROVE  TypeOK'
<1>1. scan' \in Scans
  BY Constants DEF TypeOK, Scans, PCs, Cancel
<1>2. count' \in Counts
  BY EventType DEF TypeOK, Counts, Cancel
<1> QED
  BY <1>1, <1>2 DEF TypeOK, Cancel, Scans, Tasks, Writers, Counts, Seens, files, base, pool

\* Kill leaves every variable in its type.
LEMMA TKill ==
    ASSUME TypeOK, Kill
    PROVE  TypeOK'
<1>1. work' \in [Albums -> Rows]
  BY Constants DEF TypeOK, Kill
<1>2. txn' \in BOOLEAN
  BY DEF TypeOK, Kill
<1>3. scan' \in Scans
  BY Constants DEF TypeOK, Scans, PCs, Kill
<1>4. task' \in [Albums -> Tasks]
  BY Constants DEF TypeOK, Tasks, Kill
<1>5. results' \in Seq(Results \cup {Sentinel})
  BY DEF TypeOK, Kill
<1>6. writer' \in Writers
  BY Constants DEF TypeOK, Writers, Kill
<1>7. done' \in SUBSET Albums
  BY DEF TypeOK, Kill
<1>8. count' \in Counts
  BY EventType DEF TypeOK, Counts, Kill
<1> QED
  BY <1>1, <1>2, <1>3, <1>4, <1>5, <1>6, <1>7, <1>8 DEF TypeOK, Kill, Scans, Tasks, Writers,
     Counts, Seens, files, base, pool

\* Start leaves every variable in its type.
LEMMA TStart ==
    ASSUME TypeOK, Start
    PROVE  TypeOK'
<1>1. scan' \in Scans
  BY Constants DEF TypeOK, Scans, PCs, Start
<1>2. done' \in SUBSET Albums
  BY DEF TypeOK, Start
<1>3. count' \in Counts
  <2>1. count \in Counts /\ count.scans < MaxScans
    BY DEF Start, TypeOK, Counts
  <2>2. count.scans + 1 \in 0 .. MaxScans
    BY <2>1, BoundAssumption DEF Counts
  <2> QED
    BY <2>1, <2>2 DEF Start, Counts
<1>4. seen' \in Seens
  BY SeenType DEF TypeOK, Seens, Start
<1> QED
  BY <1>1, <1>2, <1>3, <1>4 DEF TypeOK, Start, Scans, Tasks, Writers, Counts, Seens, files, base,
     pool

\* OpenFails leaves every variable in its type.
LEMMA TOpenFails ==
    ASSUME TypeOK, OpenFails
    PROVE  TypeOK'
<1>1. scan' \in Scans
  BY Constants DEF TypeOK, Scans, PCs, OpenFails
<1> QED
  BY <1>1 DEF TypeOK, OpenFails, Scans, Tasks, Writers, Counts, Seens, files, base, pool

\* Load leaves every variable in its type.
LEMMA TLoad ==
    ASSUME TypeOK, Load
    PROVE  TypeOK'
<1>1. scan' \in Scans
  BY Constants DEF TypeOK, Scans, PCs, Load
<1> QED
  BY <1>1 DEF TypeOK, Load, Scans, Tasks, Writers, Counts, Seens, files, base, pool

\* Walk leaves every variable in its type.
LEMMA TWalk ==
    ASSUME TypeOK, NEW a \in Albums, Walk(a)
    PROVE  TypeOK'
<1>1. scan' \in Scans
  <2> DEFINE v == IF mounted THEN disk[a] ELSE 0
             queue == v # 0 /\ v \notin Broken /\ NeedsProcessing(scan.cached[a], v)
             t == scan.todo \ {a}
             c == [scan.cached EXCEPT ![a] = IF v = 0 THEN @ ELSE Absent]
             i == [scan.items EXCEPT ![a] = IF queue THEN v ELSE 0]
             n == IF queue THEN scan.total + Files[v] ELSE scan.total
  <2>1. scan' = [scan EXCEPT !.todo = t, !.cached = c, !.items = i, !.total = n]
    BY DEF Walk
  <2>2. scan \in Scans
    BY DEF TypeOK, Scans
  <2>3. v \in 0 .. MaxVersion
    BY Constants DEF TypeOK
  <2>4. t \in SUBSET Albums /\ c \in [Albums -> Rows] /\ i \in [Albums -> 0 .. MaxVersion]
    BY <2>2, <2>3, Constants DEF Scans
  <2>5. n \in Nat
    <3>1. v # 0 => v \in 1 .. MaxVersion
      BY <2>3, VersionAssumption
    <3> QED
      BY <2>2, <3>1, VersionAssumption DEF Scans
  <2> HIDE DEF t, c, i, n
  <2> QED
    BY <2>1, <2>2, <2>4, <2>5 DEF Scans
<1> QED
  BY <1>1 DEF TypeOK, Walk, Scans, Tasks, Writers, Counts, Seens, files, base, pool

\* WalkEnds leaves every variable in its type.
LEMMA TWalkEnds ==
    ASSUME TypeOK, WalkEnds
    PROVE  TypeOK'
<1>1. scan' \in Scans
  BY Constants DEF TypeOK, Scans, PCs, WalkEnds
<1> QED
  BY <1>1 DEF TypeOK, WalkEnds, Scans, Tasks, Writers, Counts, Seens, files, base, pool

\* Prune leaves every variable in its type.
LEMMA TPrune ==
    ASSUME TypeOK, Prune
    PROVE  TypeOK'
<1>1. lib' \in [Albums -> Rows]
  BY ZenonT(60), Constants DEF TypeOK, Prune
<1>2. work' \in [Albums -> Rows]
  BY ZenonT(60), Constants DEF TypeOK, Prune
<1>3. scan' \in Scans
  BY Constants DEF TypeOK, Scans, PCs, Prune
<1>4. count' \in Counts
  BY EventType DEF TypeOK, Counts, Prune
<1>5. seen' \in Seens
  <2>1. Orphans \in SUBSET Albums
    BY DEF Orphans
  <2>2. seen' = [seen EXCEPT !.lost = @ \ Orphans] \/ seen' = [seen EXCEPT !.lost = @ \cup Orphans]
    BY DEF Prune
  <2> QED
    BY <2>1, <2>2, SeenType
<1> QED
  BY <1>1, <1>2, <1>3, <1>4, <1>5 DEF TypeOK, Prune, Scans, Tasks, Writers, Counts, Seens, files,
     base, pool

\* StartMetadata leaves every variable in its type.
LEMMA TStartMetadata ==
    ASSUME TypeOK, StartMetadata
    PROVE  TypeOK'
<1>1. txn' \in BOOLEAN
  BY DEF TypeOK, StartMetadata
<1>2. scan' \in Scans
  <2>1. scan' = [scan EXCEPT !.pc = "finalize"] \/ scan' = [scan EXCEPT !.pc = "wait"]
    BY DEF StartMetadata
  <2> QED
    BY ZenonT(60), <2>1 DEF TypeOK, Scans, PCs
<1>3. task' \in [Albums -> Tasks]
  <2>1. \/ task' = task
        \/ task' = [b \in Albums |-> IF b \in Queued THEN [pc |-> "queued",
           listed |-> 0] ELSE NoTask]
    BY DEF StartMetadata
  <2>2. [pc |-> "queued", listed |-> 0] \in Tasks
    BY Constants DEF Tasks
  <2> QED
    BY SMTT(30), <2>1, <2>2, Constants DEF TypeOK, Tasks
<1>4. writer' \in Writers
  BY Constants DEF TypeOK, Writers, StartMetadata
<1>5. count' \in Counts
  BY EventType DEF TypeOK, Counts, StartMetadata
<1> QED
  BY <1>1, <1>2, <1>3, <1>4, <1>5 DEF TypeOK, StartMetadata, Scans, Tasks, Writers, Counts, Seens,
     files, base, pool

\* WaitEnds leaves every variable in its type.
LEMMA TWaitEnds ==
    ASSUME TypeOK, WaitEnds
    PROVE  TypeOK'
<1>1. scan' \in Scans
  BY Constants DEF TypeOK, Scans, PCs, WaitEnds
<1> QED
  BY <1>1 DEF TypeOK, WaitEnds, Scans, Tasks, Writers, Counts, Seens, files, base, pool

\* JoinPool leaves every variable in its type.
LEMMA TJoinPool ==
    ASSUME TypeOK, JoinPool
    PROVE  TypeOK'
<1>1. scan' \in Scans
  BY Constants DEF TypeOK, Scans, PCs, JoinPool
<1>2. results' \in Seq(Results \cup {Sentinel})
  BY DEF TypeOK, JoinPool
<1> QED
  BY <1>1, <1>2 DEF TypeOK, JoinPool, Scans, Tasks, Writers, Counts, Seens, files, base, pool

\* JoinWriter leaves every variable in its type.
LEMMA TJoinWriter ==
    ASSUME TypeOK, JoinWriter
    PROVE  TypeOK'
<1>1. scan' \in Scans
  BY Constants DEF TypeOK, Scans, PCs, JoinWriter
<1>2. results' \in Seq(Results \cup {Sentinel})
  BY DEF TypeOK, JoinWriter
<1>3. writer' \in Writers
  BY Constants DEF TypeOK, Writers, JoinWriter
<1> QED
  BY <1>1, <1>2, <1>3 DEF TypeOK, JoinWriter, Scans, Tasks, Writers, Counts, Seens, files, base,
     pool

\* Finalize leaves every variable in its type.
LEMMA TFinalize ==
    ASSUME TypeOK, Finalize
    PROVE  TypeOK'
<1>1. lib' \in [Albums -> Rows]
  <2>1. \A b \in Albums : Recorded(b) \in Rows
    BY RowType DEF Recorded, TypeOK
  <2> QED
    BY <2>1 DEF Finalize, TypeOK
<1>2. work' \in [Albums -> Rows]
  BY <1>1 DEF Finalize
<1>3. scan' \in Scans
  BY Constants DEF TypeOK, Scans, PCs, Finalize
<1>4. count' \in Counts
  BY EventType DEF TypeOK, Counts, Finalize
<1> QED
  BY <1>1, <1>2, <1>3, <1>4 DEF TypeOK, Finalize, Scans, Tasks, Writers, Counts, Seens, files,
     base, pool

\* Enrich leaves every variable in its type.
LEMMA TEnrich ==
    ASSUME TypeOK, Enrich
    PROVE  TypeOK'
<1>1. scan' \in Scans
  BY Constants DEF TypeOK, Scans, PCs, Enrich
<1> QED
  BY <1>1 DEF TypeOK, Enrich, Scans, Tasks, Writers, Counts, Seens, files, base, pool

\* List leaves every variable in its type.
LEMMA TList ==
    ASSUME TypeOK, NEW a \in Albums, List(a)
    PROVE  TypeOK'
<1>1. task' \in [Albums -> Tasks]
  BY Constants DEF TypeOK, Tasks, List
<1> QED
  BY <1>1 DEF TypeOK, List, Scans, Tasks, Writers, Counts, Seens, files, base, pool

\* Extract leaves every variable in its type.
LEMMA TExtract ==
    ASSUME TypeOK, NEW a \in Albums, Extract(a)
    PROVE  TypeOK'
<1>1. scan' \in Scans
  <2>1. scan \in Scans /\ task[a].listed \in 0 .. MaxVersion
    BY DEF TypeOK, Scans
  <2>2. task[a].listed # 0 => Files[task[a].listed] \in Nat
    BY <2>1, VersionAssumption
  <2>3. \A n \in Nat : [scan EXCEPT !.processed = n] \in Scans
    BY <2>1 DEF Scans
  <2>4. scan' = [scan EXCEPT !.processed = IF task[a].listed = 0 THEN scan.processed
                                           ELSE scan.processed + Files[task[a].listed]]
    BY DEF Extract
  <2>5. scan.processed \in Nat
    BY <2>1 DEF Scans
  <2> QED
    BY <2>2, <2>3, <2>4, <2>5
<1>2. task' \in [Albums -> Tasks]
  BY Constants DEF TypeOK, Tasks, Extract
<1>3. results' \in Seq(Results \cup {Sentinel})
  <2>1. task[a].listed # 0 => [album |-> a, tracks |-> task[a].listed] \in Results
    BY SMTT(30), VersionAssumption DEF TypeOK, Results, Versions
  <2>2. \/ results' = results
        \/ /\ task[a].listed # 0
           /\ results' = Append(results, [album |-> a, tracks |-> task[a].listed])
    BY DEF Extract
  <2>3. results \in Seq(Results \cup {Sentinel})
    BY DEF TypeOK
  <2>4. ASSUME NEW r \in Results PROVE Append(results, r) \in Seq(Results \cup {Sentinel})
    BY <2>3
  <2> QED
    BY <2>1, <2>2, <2>3, <2>4
<1> QED
  BY <1>1, <1>2, <1>3 DEF TypeOK, Extract, Scans, Tasks, Writers, Counts, Seens, files, base, pool

\* Pop leaves every variable in its type.
LEMMA TPop ==
    ASSUME TypeOK, Pop
    PROVE  TypeOK'
<1>1. results' \in Seq(Results \cup {Sentinel})
  <2>1. results' = results \/ (results # <<>> /\ results' = Tail(results))
    BY DEF Pop
  <2>2. results \in Seq(Results \cup {Sentinel})
    BY DEF TypeOK
  <2>3. results # <<>> => Tail(results) \in Seq(Results \cup {Sentinel})
    BY <2>2
  <2> QED
    BY <2>1, <2>2, <2>3
<1>2. writer' \in Writers
  <2>1. writer \in Writers
    BY DEF TypeOK, Writers
  <2>2. CASE writer' = [writer EXCEPT !.pc = "last"]
    BY <2>1, <2>2 DEF Writers
  <2>3. CASE /\ results # <<>> /\ Head(results) # Sentinel
             /\ \/ writer' = [writer EXCEPT !.batch = Append(writer.batch, Head(results))]
                \/ writer' = [pc |-> "write", batch |-> Append(writer.batch, Head(results))]
    <3>1. Head(results) \in Results
      BY <2>3 DEF TypeOK
    <3>2. Append(writer.batch, Head(results)) \in Seq(Results)
      BY <2>1, <3>1 DEF Writers
    <3> QED
      BY SMTT(30), <2>1, <2>3, <3>2 DEF Writers
  <2> QED
    BY <2>2, <2>3 DEF Pop
<1> QED
  BY <1>1, <1>2 DEF TypeOK, Pop, Scans, Tasks, Writers, Counts, Seens, files, base, pool

\* Write leaves every variable in its type.
LEMMA TWrite ==
    ASSUME TypeOK, Write
    PROVE  TypeOK'
<1>1. work' \in [Albums -> Rows]
  <2> DEFINE b == Head(writer.batch).album
             v == Head(writer.batch).tracks
  <2>1. b \in Albums /\ v \in 0 .. MaxVersion
    BY WriteHead, Constants DEF Write
  <2>2. work[b] \in Rows
    BY <2>1 DEF TypeOK
  <2>3. Stored(b, v) \in Rows /\ Stored(b, work[b].tracks) \in Rows
    BY <2>1, <2>2, RowType DEF Stored
  <2>4. \/ work' = work
        \/ work' = [work EXCEPT ![b] = Stored(b, v)]
        \/ work' = [work EXCEPT ![b] = Stored(b, work[b].tracks)]
    BY DEF Write
  <2> HIDE DEF b, v
  <2> QED
    BY <2>1, <2>3, <2>4 DEF TypeOK
<1>2. lib' \in [Albums -> Rows]
  <2>1. lib' = lib \/ lib' = work'
    BY DEF Write
  <2> QED
    BY <1>1, <2>1 DEF TypeOK
<1>3. writer' \in Writers
  <2>1. writer \in Writers /\ Tail(writer.batch) \in Seq(Results)
    BY WriteHead DEF TypeOK, Writers, Write
  <2> QED
    BY <2>1 DEF Write, Writers
<1>4. done' \in SUBSET Albums
  <2>1. done' = done \/ done' = done \cup {Head(writer.batch).album}
    BY DEF Write
  <2> QED
    BY SMTT(30), <2>1, WriteHead DEF Write, TypeOK
<1>5. count' \in Counts
  BY EventType DEF TypeOK, Counts, Write
<1>6. seen' \in Seens
  <2> DEFINE b == Head(writer.batch).album
  <2>1. \/ seen' = seen
        \/ seen' = [seen EXCEPT !.lost = @ \ {b}]
        \/ seen' = [seen EXCEPT !.lost = @ \cup {b}]
    BY DEF Write
  <2>2. {b} \in SUBSET Albums
    BY WriteHead DEF Write
  <2>3. seen \in Seens
    BY DEF TypeOK, Seens
  <2> HIDE DEF b
  <2> QED
    BY <2>1, <2>2, <2>3, SeenType
<1> QED
  BY <1>1, <1>2, <1>3, <1>4, <1>5, <1>6 DEF TypeOK, Write, Scans, Tasks, Writers, Counts, Seens,
     files, base, pool

\* Commit leaves every variable in its type.
LEMMA TCommit ==
    ASSUME TypeOK, Commit
    PROVE  TypeOK'
<1>1. lib' \in [Albums -> Rows]
  BY Constants DEF TypeOK, Commit
<1>2. work' \in [Albums -> Rows]
  BY Constants DEF TypeOK, Commit
<1>3. txn' \in BOOLEAN
  BY DEF TypeOK, Commit
<1>4. writer' \in Writers
  BY ZenonT(60), Constants DEF TypeOK, Writers, Commit
<1>5. count' \in Counts
  BY EventType DEF TypeOK, Counts, Commit
<1>6. seen' \in Seens
  <2>1. \/ seen' = seen
        \/ seen' = [seen EXCEPT !.lost = @ \cup {a \in Albums : work[a] # lib[a]}]
    BY DEF Commit
  <2>2. {a \in Albums : work[a] # lib[a]} \in SUBSET Albums /\ seen \in Seens
    BY DEF TypeOK, Seens
  <2> QED
    BY <2>1, <2>2, SeenType
<1> QED
  BY <1>1, <1>2, <1>3, <1>4, <1>5, <1>6 DEF TypeOK, Commit, Scans, Tasks, Writers, Counts, Seens,
     files, base, pool

-----------------------------------------------------------------------------
\* Outside the extraction nothing is pending, and what the writer sees is committed.
LEMMA AloneIsQuiet ==
    ASSUME IInv, scan.pc \in Alone
    PROVE  /\ Pending = {} /\ work = lib /\ ~txn
           /\ \A a \in Albums : task[a].pc = "none" /\ task[a].listed = 0
           /\ writer.pc = "off" /\ writer.batch = <<>> /\ results = <<>>
<1>1. results = <<>> /\ writer = NoWriter /\ \A a \in Albums : task[a].pc = "none"
  BY DEF IInv, Quiet
<1>2. writer.pc = "off" /\ writer.batch = <<>>
  BY <1>1 DEF NoWriter
<1>3. ~txn
  BY <1>2 DEF IInv, Quiet
<1>4. \A a \in Albums : work[a] = lib[a]
  BY <1>3 DEF IInv, Views
<1>5. work = lib
  BY <1>4 DEF IInv, TypeOK
<1>6. Pending = {}
  BY <1>1, <1>2, NoEntries DEF Pending, Waiting
<1> QED
  BY <1>1, <1>2, <1>3, <1>5, <1>6 DEF IInv, Quiet

\* A task is there only in the extraction, before its results are complete.
LEMMA TaskIsExtraction ==
    ASSUME IInv, NEW a \in Albums, task[a].pc # "none"
    PROVE  scan.pc \in {"wait", "join"}
<1>1. scan.pc \notin Alone \cup {"writer"}
  BY DEF IInv, Quiet
<1> QED
  BY <1>1 DEF IInv, TypeOK, PCs, Alone

\* The writer is at work only in the extraction.
LEMMA WriterIsExtraction ==
    ASSUME IInv, writer.pc # "off"
    PROVE  scan.pc \in {"wait", "join", "writer"}
<1>1. scan.pc \notin Alone
  BY DEF IInv, Quiet, NoWriter
<1> QED
  BY <1>1 DEF IInv, TypeOK, PCs, Alone

\* ChangeDisk keeps the invariant.
LEMMA ChangeDiskStep ==
    ASSUME IInv, NEW a \in Albums, ChangeDisk(a)
    PROVE  IInv'
<1>1. TypeOK'
  BY TChangeDisk DEF IInv
<1>2. /\ mounted' = mounted
      /\ lib' = lib /\ work' = work /\ txn' = txn
      /\ task' = task /\ results' = results /\ writer' = writer /\ done' = done
      /\ scan' = scan
      /\ \A b \in Albums \ {a} : disk'[b] = disk[b]
      /\ disk'[a] = 0 \/ (disk'[a] = count'.version /\ count.version < count'.version)
      /\ count.version <= count'.version /\ count'.version \in Nat
      /\ seen'.touched = seen.touched \cup {a} /\ seen'.lost = seen.lost
      /\ seen.absent \subseteq seen'.absent /\ (disk'[a] = 0 => a \in seen'.absent)
  <2>0. scan \in Scans /\ seen \in Seens
    BY DEF IInv, TypeOK, Scans, Seens
  <2>1. mounted' = mounted
    BY <2>0 DEF ChangeDisk, files, base, pool, Event, IInv, TypeOK, Scans, Seens
  <2>2. lib' = lib /\ work' = work /\ txn' = txn
    BY <2>0 DEF ChangeDisk, files, base, pool, Event, IInv, TypeOK, Scans, Seens
  <2>3. task' = task /\ results' = results /\ writer' = writer /\ done' = done
    BY <2>0 DEF ChangeDisk, files, base, pool, Event, IInv, TypeOK, Scans, Seens
  <2>4. scan' = scan
    BY <2>0 DEF ChangeDisk, files, base, pool, Event, IInv, TypeOK, Scans, Seens
  <2>5. \A b \in Albums \ {a} : disk'[b] = disk[b]
    BY <2>0 DEF ChangeDisk, files, base, pool, Event, IInv, TypeOK, Scans, Seens
  <2>6. disk'[a] = 0 \/ (disk'[a] = count'.version /\ count.version < count'.version)
    <3>1. count \in Counts /\ count.version \in Nat /\ disk \in [Albums -> 0 .. MaxVersion]
      BY Numbers DEF IInv, TypeOK, Counts
    <3>2. \/ /\ disk' = [disk EXCEPT ![a] = count.version + 1]
             /\ count' = [count EXCEPT !.events = @ + 1, !.version = @ + 1]
          \/ /\ disk' = [disk EXCEPT ![a] = 0]
             /\ count' = [count EXCEPT !.events = @ + 1]
      BY DEF ChangeDisk
    <3>3. count'.version = count.version \/ count'.version = count.version + 1
      BY <3>1, <3>2 DEF Counts
    <3>4. disk'[a] = 0 \/ (disk'[a] = count.version + 1 /\ count'.version = count.version + 1)
      BY <3>1, <3>2 DEF Counts
    <3> QED
      BY <3>1, <3>3, <3>4
  <2>7. count.version <= count'.version /\ count'.version \in Nat
    <3>1. count \in Counts /\ count.version \in Nat /\ disk \in [Albums -> 0 .. MaxVersion]
      BY Numbers DEF IInv, TypeOK, Counts
    <3>2. \/ /\ disk' = [disk EXCEPT ![a] = count.version + 1]
             /\ count' = [count EXCEPT !.events = @ + 1, !.version = @ + 1]
          \/ /\ disk' = [disk EXCEPT ![a] = 0]
             /\ count' = [count EXCEPT !.events = @ + 1]
      BY DEF ChangeDisk
    <3>3. count'.version = count.version \/ count'.version = count.version + 1
      BY <3>1, <3>2 DEF Counts
    <3>4. disk'[a] = 0 \/ (disk'[a] = count.version + 1 /\ count'.version = count.version + 1)
      BY <3>1, <3>2 DEF Counts
    <3> QED
      BY <3>1, <3>3, <3>4
  <2>8. seen'.touched = seen.touched \cup {a} /\ seen'.lost = seen.lost
    BY <2>0 DEF ChangeDisk, files, base, pool, Event, IInv, TypeOK, Scans, Seens
  <2>9. seen.absent \subseteq seen'.absent /\ (disk'[a] = 0 => a \in seen'.absent)
    <3>1. disk \in [Albums -> 0 .. MaxVersion] /\ count.version \in Nat
      BY Numbers DEF IInv, TypeOK
    <3>2. \/ /\ disk' = [disk EXCEPT ![a] = count.version + 1]
             /\ seen' = [seen EXCEPT !.touched = @ \cup {a}]
          \/ seen' = [seen EXCEPT !.touched = @ \cup {a}, !.absent = @ \cup {a}]
      BY DEF ChangeDisk
    <3>3. disk' = [disk EXCEPT ![a] = count.version + 1] => disk'[a] # 0
      BY <3>1
    <3> QED
      BY <2>0, <3>2, <3>3 DEF Seens
  <2> QED
    BY <2>1, <2>2, <2>3, <2>4, <2>5, <2>6, <2>7, <2>8, <2>9
<1>3. Pending' = Pending
  BY <1>2 DEF Pending, Waiting
<1>4. Dated'
  <2>1. ASSUME NEW c \in Albums, NEW v \in Nat, Old(c, v) PROVE Old(c, v)'
    <3>1. CASE c = a
      BY <1>2, <2>1, <3>1, Numbers DEF IInv, Old
    <3>2. CASE c # a
      BY <1>2, <2>1, <3>2, Numbers DEF IInv, Old
    <3> QED
      BY <3>1, <3>2
  <2>2. ASSUME NEW c \in Albums PROVE disk'[c] <= count'.version
    <3>1. CASE c = a
      BY <1>2, <3>1
    <3>2. CASE c # a
      BY <1>2, <3>2, Numbers DEF IInv, Dated
    <3> QED
      BY <3>1, <3>2
  <2> QED
    BY <1>2, <1>3, <2>1, <2>2, Numbers DEF IInv, Dated
<1>5. Quiet'
  BY <1>2, <1>3, Numbers DEF IInv, Quiet, Alone, Begun
<1>6. Views'
  BY <1>2, <1>3, Numbers DEF IInv, Views
<1>7. WalkFacts'
  BY <1>2, <1>3, Numbers DEF IInv, WalkFacts, There
<1>8. OnItsWay'
  BY <1>2, <1>3, Numbers DEF IInv, OnItsWay, Newer
<1>9. Differs'
  BY <1>2, <1>3, Numbers DEF IInv, Differs, PCs
<1>10. RecordsSound'
  BY <1>2, Numbers DEF IInv, RecordsSound, Sound, Dated, Old
<1>11. LastWord'
  BY <1>2, <1>3, Numbers DEF IInv, LastWord
<1>12. UntouchedGone'
  BY <1>2, <1>3, Numbers DEF IInv, UntouchedGone, UntouchedFacts, There, Walked, Walking, PCs
<1>13. UntouchedThere'
  BY <1>2, <1>3, Numbers DEF IInv, UntouchedThere, UntouchedFacts, There, Walked, Walking, PCs
<1>14. InFlight'
  BY <1>2, <1>3, Numbers DEF IInv, InFlight, UntouchedFacts
<1> QED
  BY <1>1, <1>4, <1>5, <1>6, <1>7, <1>8, <1>9, <1>10, <1>11, <1>12, <1>13, <1>14 DEF IInv,
     UntouchedFacts

\* Unplug keeps the invariant.
LEMMA UnplugStep ==
    ASSUME IInv, Unplug
    PROVE  IInv'
<1>1. TypeOK'
  BY TUnplug DEF IInv
<1>2. Pending' = Pending
  BY DEF Pending, Waiting, Unplug, files, base, pool
<1>3. Dated'
  BY <1>2, Numbers DEF IInv, Dated, Old, Unplug, Event, base, pool, files
<1>4. Quiet'
  BY <1>2, Numbers DEF IInv, Quiet, Alone, Begun, Unplug, Event, base, pool, files
<1>5. Views'
  BY <1>2, Numbers DEF IInv, Views, Unplug, Event, base, pool, files
<1>6. WalkFacts'
  BY <1>2, Numbers DEF IInv, WalkFacts, There, Unplug, Event, base, pool, files
<1>7. OnItsWay'
  BY <1>2, Numbers DEF IInv, OnItsWay, Newer, Unplug, Event, base, pool, files
<1>8. Differs'
  BY <1>2, Numbers DEF IInv, Differs, PCs, Unplug, Event, base, pool, files
<1>9. RecordsSound'
  BY <1>2, Numbers DEF IInv, RecordsSound, Sound, Unplug, Event, base, pool, files
<1>10. LastWord'
  BY <1>2, Numbers DEF IInv, LastWord, Unplug, Event, base, pool, files
<1>11. UntouchedGone'
  BY <1>2, Numbers DEF IInv, UntouchedGone, UntouchedFacts, There, Walked, Walking, PCs, Unplug,
     Event, base, pool, files
<1>12. UntouchedThere'
  BY <1>2, Numbers DEF IInv, UntouchedThere, UntouchedFacts, There, Walked, Walking, PCs, Unplug,
     Event, base, pool, files
<1>13. InFlight'
  BY <1>2, Numbers DEF IInv, InFlight, UntouchedFacts, Unplug, Event, base, pool, files
<1> QED
  BY <1>1, <1>3, <1>4, <1>5, <1>6, <1>7, <1>8, <1>9, <1>10, <1>11, <1>12, <1>13 DEF IInv,
     UntouchedFacts

\* Replug keeps the invariant.
LEMMA ReplugStep ==
    ASSUME IInv, Replug
    PROVE  IInv'
<1>1. TypeOK'
  BY TReplug DEF IInv
<1>2. Pending' = Pending
  BY DEF Pending, Waiting, Replug, files, base, pool
<1>3. Dated'
  BY <1>2, Numbers DEF IInv, Dated, Old, Replug, base, pool, files
<1>4. Quiet'
  BY <1>2, Numbers DEF IInv, Quiet, Alone, Begun, Replug, base, pool, files
<1>5. Views'
  BY <1>2, Numbers DEF IInv, Views, Replug, base, pool, files
<1>6. WalkFacts'
  BY <1>2, Numbers DEF IInv, WalkFacts, There, Replug, base, pool, files
<1>7. OnItsWay'
  BY <1>2, Numbers DEF IInv, OnItsWay, Newer, Replug, base, pool, files
<1>8. Differs'
  BY <1>2, Numbers DEF IInv, Differs, PCs, Replug, base, pool, files
<1>9. RecordsSound'
  BY <1>2, Numbers DEF IInv, RecordsSound, Sound, Replug, base, pool, files
<1>10. LastWord'
  BY <1>2, Numbers DEF IInv, LastWord, Replug, base, pool, files
<1>11. UntouchedGone'
  BY <1>2, Numbers DEF IInv, UntouchedGone, UntouchedFacts, There, Walked, Walking, PCs, Replug,
     base, pool, files
<1>12. UntouchedThere'
  BY <1>2, Numbers DEF IInv, UntouchedThere, UntouchedFacts, There, Walked, Walking, PCs, Replug,
     base, pool, files
<1>13. InFlight'
  BY <1>2, Numbers DEF IInv, InFlight, UntouchedFacts, Replug, base, pool, files
<1> QED
  BY <1>1, <1>3, <1>4, <1>5, <1>6, <1>7, <1>8, <1>9, <1>10, <1>11, <1>12, <1>13 DEF IInv,
     UntouchedFacts

\* Cancel keeps the invariant.
LEMMA CancelStep ==
    ASSUME IInv, Cancel
    PROVE  IInv'
<1>1. TypeOK'
  BY TCancel DEF IInv
<1>2. /\ disk' = disk /\ mounted' = mounted
      /\ lib' = lib /\ work' = work /\ txn' = txn
      /\ task' = task /\ results' = results /\ writer' = writer /\ done' = done
      /\ seen' = seen
      /\ count'.version = count.version
      /\ scan.pc # "off"
      /\ scan'.pc = scan.pc /\ scan'.cancel = TRUE
      /\ scan'.cached = scan.cached /\ scan'.todo = scan.todo /\ scan'.items = scan.items
  BY DEF IInv, TypeOK, Cancel, Event, Scans, Seens, Counts, files, base, pool
<1>3. Pending' = Pending
  BY <1>2 DEF Pending, Waiting
<1>4. Dated'
  BY <1>2, <1>3, Numbers DEF IInv, Dated, Old
<1>5. Quiet'
  BY <1>2, <1>3, Numbers DEF IInv, Quiet, Alone, Begun
<1>6. Views'
  BY <1>2, <1>3, Numbers DEF IInv, Views
<1>7. WalkFacts'
  BY <1>2, <1>3, Numbers DEF IInv, WalkFacts, There
<1>8. OnItsWay'
  BY <1>2, <1>3, Numbers DEF IInv, OnItsWay, Newer
<1>9. Differs'
  BY <1>2, <1>3, Numbers DEF IInv, Differs, PCs
<1>10. RecordsSound'
  BY <1>2, <1>3, Numbers DEF IInv, RecordsSound, Sound
<1>11. LastWord'
  BY <1>2, <1>3, Numbers DEF IInv, LastWord
<1>12. UntouchedGone'
  BY <1>2, <1>3, Numbers DEF IInv, UntouchedGone, UntouchedFacts, There, Walked, Walking, PCs
<1>13. UntouchedThere'
  BY <1>2, <1>3, Numbers DEF IInv, UntouchedThere, UntouchedFacts, There, Walked, Walking, PCs
<1>14. InFlight'
  BY <1>2, <1>3, Numbers DEF IInv, InFlight, UntouchedFacts
<1> QED
  BY <1>1, <1>4, <1>5, <1>6, <1>7, <1>8, <1>9, <1>10, <1>11, <1>12, <1>13, <1>14 DEF IInv,
     UntouchedFacts

\* Kill keeps the invariant.
LEMMA KillStep ==
    ASSUME IInv, Kill
    PROVE  IInv'
<1>1. TypeOK'
  BY TKill DEF IInv
<1>2. /\ disk' = disk /\ mounted' = mounted
      /\ count'.version = count.version
      /\ seen' = seen
      /\ lib' = lib /\ work' = lib /\ ~txn'
      /\ results' = <<>> /\ writer' = NoWriter /\ done' = {}
      /\ scan'.pc = "off" /\ \A b \in Albums : scan'.items[b] = 0 /\ task'[b] = NoTask
  BY DEF IInv, TypeOK, Kill, Event, NoScan, NoTask, NoWriter, files, Scans, Seens, Counts, files,
     base, pool
<1>3. Pending' = {}
  <2>1. results' = <<>> /\ writer'.batch = <<>>
    BY <1>2, AloneIsQuiet DEF NoWriter, Alone
  <2> QED
    BY <2>1, NoEntries DEF Pending, Waiting
<1>4. Dated'
  BY <1>2, <1>3, Numbers DEF IInv, Dated, Old, NoTask, NoWriter, Alone
<1>5. Quiet'
  BY <1>2, <1>3, Numbers DEF IInv, Quiet, Alone, Begun, NoTask, NoWriter
<1>6. Views'
  BY <1>2, <1>3, Numbers DEF IInv, Views, NoTask, NoWriter, Alone
<1>7. WalkFacts'
  BY <1>2, <1>3, Numbers DEF IInv, WalkFacts, There, NoTask, NoWriter, Alone
<1>8. OnItsWay'
  BY <1>2, <1>3, Numbers DEF IInv, OnItsWay, Newer, NoTask, NoWriter, Alone
<1>9. Differs'
  BY <1>2, <1>3, Numbers DEF IInv, Differs, PCs, NoTask, NoWriter, Alone
<1>10. RecordsSound'
  BY <1>2, <1>3, Numbers DEF IInv, RecordsSound, Sound, NoTask, NoWriter, Alone
<1>11. LastWord'
  BY <1>2, <1>3, Numbers DEF IInv, LastWord, NoTask, NoWriter, Alone
<1>12. UntouchedGone'
  BY <1>2, <1>3, Numbers DEF IInv, UntouchedGone, UntouchedFacts, There, Walked, Walking, PCs,
     NoTask, NoWriter, Alone
<1>13. UntouchedThere'
  BY <1>2, <1>3, Numbers DEF IInv, UntouchedThere, UntouchedFacts, There, Walked, Walking, PCs,
     NoTask, NoWriter, Alone
<1>14. InFlight'
  BY <1>2, <1>3, Numbers DEF IInv, InFlight, UntouchedFacts, NoTask, NoWriter, Alone
<1> QED
  BY <1>1, <1>4, <1>5, <1>6, <1>7, <1>8, <1>9, <1>10, <1>11, <1>12, <1>13, <1>14 DEF IInv,
     UntouchedFacts

\* Start keeps the invariant.
LEMMA StartStep ==
    ASSUME IInv, Start
    PROVE  IInv'
<1>1. TypeOK'
  BY TStart DEF IInv
<1>2. /\ disk' = disk /\ mounted' = mounted
      /\ lib' = lib /\ work' = work /\ txn' = txn
      /\ count'.version = count.version
      /\ task' = task /\ results' = results /\ writer' = writer
      /\ done' = {}
      /\ scan.pc = "off"
      /\ scan'.pc = "load" /\ ~scan'.cancel /\ \A b \in Albums : scan'.items[b] = 0
      /\ seen'.absent = {b \in Albums : ~There(b)} /\ seen'.touched = {} /\ seen'.lost = seen.lost
  BY DEF IInv, TypeOK, Start, There, NoScan, files, base, Scans, Seens, Counts, files, base, pool
<1>3. /\ Pending' = Pending /\ Pending = {} /\ work = lib /\ ~txn
      /\ \A c \in Albums : task[c].pc = "none" /\ task[c].listed = 0
      /\ writer.pc = "off" /\ writer.batch = <<>> /\ results = <<>>
  <2>1. scan.pc \in Alone
    BY <1>2 DEF Alone
  <2> QED
    BY <1>2, <2>1, AloneIsQuiet DEF Pending, Waiting
<1>4. Dated'
  BY <1>2, <1>3, Numbers DEF IInv, Dated, Old, NoTask, Alone, There
<1>5. Quiet'
  BY <1>2, <1>3, Numbers DEF IInv, Quiet, Alone, Begun, NoTask, There
<1>6. Views'
  BY <1>2, <1>3, Numbers DEF IInv, Views, NoTask, Alone, There
<1>7. WalkFacts'
  BY <1>2, <1>3, Numbers DEF IInv, WalkFacts, There, NoTask, Alone
<1>8. OnItsWay'
  BY <1>2, <1>3, Numbers DEF IInv, OnItsWay, Newer, NoTask, Alone, There
<1>9. Differs'
  BY <1>2, <1>3, Numbers DEF IInv, Differs, PCs, NoTask, Alone, There
<1>10. RecordsSound'
  BY <1>2, <1>3, Numbers DEF IInv, RecordsSound, Sound, NoTask, Alone, There
<1>11. LastWord'
  BY <1>2, <1>3, Numbers DEF IInv, LastWord, NoTask, Alone, There
<1>12. UntouchedGone'
  BY <1>2, <1>3, Numbers DEF IInv, UntouchedGone, UntouchedFacts, There, Walked, Walking, PCs,
     NoTask, Alone
<1>13. UntouchedThere'
  BY <1>2, <1>3, Numbers DEF IInv, UntouchedThere, UntouchedFacts, There, Walked, Walking, PCs,
     NoTask, Alone
<1>14. InFlight'
  BY <1>2, <1>3, Numbers DEF IInv, InFlight, UntouchedFacts, NoTask, Alone, There
<1> QED
  BY <1>1, <1>4, <1>5, <1>6, <1>7, <1>8, <1>9, <1>10, <1>11, <1>12, <1>13, <1>14 DEF IInv,
     UntouchedFacts

\* OpenFails keeps the invariant.
LEMMA OpenFailsStep ==
    ASSUME IInv, OpenFails
    PROVE  IInv'
<1>1. TypeOK'
  BY TOpenFails DEF IInv
<1>2. /\ disk' = disk /\ mounted' = mounted
      /\ lib' = lib /\ work' = work /\ txn' = txn
      /\ task' = task /\ results' = results /\ writer' = writer /\ done' = done
      /\ seen' = seen
      /\ count'.version = count.version
      /\ scan.pc = "load"
      /\ scan'.pc = "off" /\ scan'.cancel = scan.cancel
      /\ scan'.cached = scan.cached /\ scan'.todo = scan.todo /\ scan'.items = scan.items
  BY DEF IInv, TypeOK, OpenFails, Scans, Seens, Counts, files, base, pool
<1>3. /\ Pending' = Pending /\ Pending = {} /\ work = lib /\ ~txn
      /\ \A c \in Albums : task[c].pc = "none" /\ task[c].listed = 0
      /\ writer.pc = "off" /\ writer.batch = <<>> /\ results = <<>>
  <2>1. scan.pc \in Alone
    BY <1>2 DEF Alone
  <2> QED
    BY <1>2, <2>1, AloneIsQuiet DEF Pending, Waiting
<1>4. Dated'
  BY <1>2, <1>3, Numbers DEF IInv, Dated, Old, Alone, WalkFacts
<1>5. Quiet'
  BY <1>2, <1>3, Numbers DEF IInv, Quiet, Alone, Begun, WalkFacts
<1>6. Views'
  BY <1>2, <1>3, Numbers DEF IInv, Views, Alone, WalkFacts
<1>7. WalkFacts'
  BY <1>2, <1>3, Numbers DEF IInv, WalkFacts, There, Alone
<1>8. OnItsWay'
  BY <1>2, <1>3, Numbers DEF IInv, OnItsWay, Newer, Alone, WalkFacts
<1>9. Differs'
  BY <1>2, <1>3, Numbers DEF IInv, Differs, PCs, Alone, WalkFacts
<1>10. RecordsSound'
  BY <1>2, <1>3, Numbers DEF IInv, RecordsSound, Sound, Alone, WalkFacts
<1>11. LastWord'
  BY <1>2, <1>3, Numbers DEF IInv, LastWord, Alone, WalkFacts
<1>12. UntouchedGone'
  BY <1>2, <1>3, Numbers DEF IInv, UntouchedGone, UntouchedFacts, There, Walked, Walking, PCs,
     Alone, WalkFacts
<1>13. UntouchedThere'
  BY <1>2, <1>3, Numbers DEF IInv, UntouchedThere, UntouchedFacts, There, Walked, Walking, PCs,
     Alone, WalkFacts
<1>14. InFlight'
  BY <1>2, <1>3, Numbers DEF IInv, InFlight, UntouchedFacts, Alone, WalkFacts
<1> QED
  BY <1>1, <1>4, <1>5, <1>6, <1>7, <1>8, <1>9, <1>10, <1>11, <1>12, <1>13, <1>14 DEF IInv,
     UntouchedFacts

\* Load keeps the invariant.
LEMMA LoadStep ==
    ASSUME IInv, Load
    PROVE  IInv'
<1>1. TypeOK'
  BY TLoad DEF IInv
<1>2. /\ disk' = disk /\ mounted' = mounted
      /\ lib' = lib /\ work' = work /\ txn' = txn
      /\ task' = task /\ results' = results /\ writer' = writer /\ done' = done
      /\ seen' = seen
      /\ count'.version = count.version
      /\ scan.pc = "load"
      /\ scan'.pc = "walk" /\ scan'.cancel = scan.cancel
      /\ scan'.cached = lib /\ scan'.todo = Albums /\ scan'.items = scan.items
  BY DEF IInv, TypeOK, Load, Scans, Seens, Counts, files, base, pool
<1>3. /\ Pending' = Pending /\ Pending = {} /\ work = lib /\ ~txn
      /\ \A c \in Albums : task[c].pc = "none" /\ task[c].listed = 0
      /\ writer.pc = "off" /\ writer.batch = <<>> /\ results = <<>>
  <2>1. scan.pc \in Alone
    BY <1>2 DEF Alone
  <2> QED
    BY <1>2, <2>1, AloneIsQuiet DEF Pending, Waiting
<1>4. Dated'
  BY <1>2, <1>3, Numbers DEF IInv, Dated, Old, Alone, WalkFacts
<1>5. Quiet'
  BY <1>2, <1>3, Numbers DEF IInv, Quiet, Alone, Begun, WalkFacts
<1>6. Views'
  BY <1>2, <1>3, Numbers DEF IInv, Views, Alone, WalkFacts
<1>7. WalkFacts'
  BY <1>2, <1>3, Numbers DEF IInv, WalkFacts, There, Alone
<1>8. OnItsWay'
  BY <1>2, <1>3, Numbers DEF IInv, OnItsWay, Newer, Alone, WalkFacts
<1>9. Differs'
  BY <1>2, <1>3, Numbers DEF IInv, Differs, PCs, Alone, WalkFacts
<1>10. RecordsSound'
  BY <1>2, <1>3, Numbers DEF IInv, RecordsSound, Sound, Alone, WalkFacts
<1>11. LastWord'
  BY <1>2, <1>3, Numbers DEF IInv, LastWord, Alone, WalkFacts
<1>12. UntouchedGone'
  BY <1>2, <1>3, Numbers DEF IInv, UntouchedGone, UntouchedFacts, There, Walked, Walking, PCs,
     Alone, WalkFacts
<1>13. UntouchedThere'
  BY <1>2, <1>3, Numbers DEF IInv, UntouchedThere, UntouchedFacts, There, Walked, Walking, PCs,
     Alone, WalkFacts
<1>14. InFlight'
  BY <1>2, <1>3, Numbers DEF IInv, InFlight, UntouchedFacts, Alone, WalkFacts
<1> QED
  BY <1>1, <1>4, <1>5, <1>6, <1>7, <1>8, <1>9, <1>10, <1>11, <1>12, <1>13, <1>14 DEF IInv,
     UntouchedFacts

\* Walk keeps the invariant.
LEMMA WalkStep ==
    ASSUME IInv, NEW a \in Albums, Walk(a)
    PROVE  IInv'
<1>1. TypeOK'
  BY TWalk DEF IInv
<1>2. /\ disk' = disk /\ mounted' = mounted
      /\ lib' = lib /\ work' = work /\ txn' = txn
      /\ task' = task /\ results' = results /\ writer' = writer /\ done' = done
      /\ seen' = seen
      /\ count'.version = count.version
      /\ scan.pc = "walk" /\ ~scan.cancel /\ a \in scan.todo
      /\ scan'.pc = scan.pc /\ scan'.cancel = scan.cancel /\ scan'.todo = scan.todo \ {a}
      /\ \A b \in Albums \ {a} : scan'.cached[b] = scan.cached[b] /\ scan'.items[b] = scan.items[b]
      /\ scan'.cached[a] = IF There(a) THEN Absent ELSE scan.cached[a]
      /\ \/ /\ scan'.items[a] = 0
            /\ ~There(a) \/ disk[a] \in Broken \/ scan.cached[a].recorded = disk[a]
         \/ /\ There(a) /\ scan'.items[a] = disk[a]
            /\ scan.cached[a].recorded # disk[a]
  <2>0. scan \in Scans /\ seen \in Seens
    BY DEF IInv, TypeOK, Scans, Seens
  <2>1. disk' = disk /\ mounted' = mounted
    BY <2>0 DEF Walk, files, base, pool, Event, IInv, TypeOK, Scans, Seens
  <2>2. lib' = lib /\ work' = work /\ txn' = txn
    BY <2>0 DEF Walk, files, base, pool, Event, IInv, TypeOK, Scans, Seens
  <2>3. task' = task /\ results' = results /\ writer' = writer /\ done' = done
    BY <2>0 DEF Walk, files, base, pool, Event, IInv, TypeOK, Scans, Seens
  <2>4. seen' = seen
    BY <2>0 DEF Walk, files, base, pool, Event, IInv, TypeOK, Scans, Seens
  <2>5. count'.version = count.version
    BY <2>0 DEF Walk, files, base, pool, Event, IInv, TypeOK, Scans, Seens
  <2>6. scan.pc = "walk" /\ ~scan.cancel /\ a \in scan.todo
    BY <2>0 DEF Walk, files, base, pool, Event, IInv, TypeOK, Scans, Seens
  <2>7. scan'.pc = scan.pc /\ scan'.cancel = scan.cancel /\ scan'.todo = scan.todo \ {a}
    BY <2>0 DEF Walk, files, base, pool, Event, IInv, TypeOK, Scans, Seens
  <2>8. \A b \in Albums \ {a} : scan'.cached[b] = scan.cached[b] /\ scan'.items[b] = scan.items[b]
    BY <2>0 DEF Walk, files, base, pool, Event, IInv, TypeOK, Scans, Seens
  <2>9. scan'.cached[a] = IF There(a) THEN Absent ELSE scan.cached[a]
    <3>1. scan'.cached = [scan.cached EXCEPT ![a] = IF (IF mounted THEN disk[a] ELSE 0) = 0
                                                   THEN @ ELSE Absent]
      BY <2>0 DEF Walk, Scans
    <3> QED
      BY <2>0, <3>1 DEF There, Scans
  <2>10. \/ /\ scan'.items[a] = 0
            /\ ~There(a) \/ disk[a] \in Broken \/ scan.cached[a].recorded = disk[a]
         \/ /\ There(a) /\ scan'.items[a] = disk[a]
            /\ scan.cached[a].recorded # disk[a]
    <3> DEFINE v == IF mounted THEN disk[a] ELSE 0
               queue == v # 0 /\ v \notin Broken /\ NeedsProcessing(scan.cached[a], v)
    <3>1. scan'.items = [scan.items EXCEPT ![a] = IF queue THEN v ELSE 0]
      BY <2>0 DEF Walk, Scans
    <3>2. scan'.items[a] = IF queue THEN v ELSE 0
      BY <2>0, <3>1 DEF Scans
    <3> QED
      BY <3>2 DEF There, NeedsProcessing
  <2> QED
    BY <2>1, <2>2, <2>3, <2>4, <2>5, <2>6, <2>7, <2>8, <2>9, <2>10
<1>3. /\ Pending' = Pending /\ Pending = {} /\ work = lib /\ ~txn
      /\ \A c \in Albums : task[c].pc = "none" /\ task[c].listed = 0
      /\ writer.pc = "off" /\ writer.batch = <<>> /\ results = <<>>
  <2>1. scan.pc \in Alone
    BY <1>2 DEF Alone
  <2> QED
    BY <1>2, <2>1, AloneIsQuiet DEF Pending, Waiting
<1>4. Dated'
  <2>1. ASSUME NEW c \in Albums PROVE Old(c, scan'.items[c])
    <3>1. CASE c = a
      BY <1>2, <3>1, Numbers DEF IInv, Dated, Old
    <3>2. CASE c # a
      BY <1>2, <3>2 DEF IInv, Dated
    <3> QED
      BY <3>1, <3>2
  <2> QED
    BY <1>2, <1>3, <2>1 DEF IInv, Dated, Old
<1>5. Quiet'
  BY <1>2, <1>3, Numbers DEF IInv, Quiet, Alone, Begun, There, Absent, WalkFacts
<1>6. Views'
  BY <1>2, <1>3, Numbers DEF IInv, Views, Alone, There, Absent, WalkFacts
<1>7. WalkFacts'
  <2>1. ASSUME NEW c \in scan'.todo PROVE scan'.cached[c] = lib'[c] /\ scan'.items[c] = 0
    BY <1>2 DEF IInv, WalkFacts, TypeOK
  <2>2. ASSUME NEW c \in Albums \ scan'.todo, scan'.cached[c].row PROVE c \in seen'.absent
    <3>1. CASE c = a
      BY <1>2, <2>2, <3>1 DEF IInv, WalkFacts, Absent
    <3>2. CASE c # a
      BY <1>2, <2>2, <3>2 DEF IInv, WalkFacts
    <3> QED
      BY <3>1, <3>2
  <2> QED
    BY <1>2, <2>1, <2>2 DEF IInv, WalkFacts, There
<1>8. OnItsWay'
  BY <1>2, <1>3, Numbers DEF IInv, OnItsWay, Newer, Alone, There, Absent, WalkFacts
<1>9. Differs'
  <2>1. ASSUME NEW c \in Albums, scan'.items[c] # 0
        PROVE  lib'[c].recorded < scan'.items[c] /\ work'[c].recorded < scan'.items[c]
    <3>1. CASE c = a
      <4>1. There(a) /\ scan'.items[a] = disk[a] /\ lib[a].recorded # disk[a]
        BY <1>2, <2>1, <3>1 DEF IInv, WalkFacts
      <4>2. lib[a].recorded <= disk[a]
        BY <4>1 DEF IInv, Dated, Old, There
      <4> QED
        BY <1>2, <1>3, <3>1, <4>1, <4>2, Numbers DEF IInv
    <3>2. CASE c # a
      BY <1>2, <2>1, <3>2 DEF IInv, Differs, PCs
    <3> QED
      BY <3>1, <3>2
  <2> QED
    BY <2>1 DEF Differs
<1>10. RecordsSound'
  BY <1>2, <1>3, Numbers DEF IInv, RecordsSound, Sound, Alone, There, Absent, WalkFacts
<1>11. LastWord'
  BY <1>2, <1>3, Numbers DEF IInv, LastWord, Alone, There, Absent, WalkFacts
<1>12. UntouchedGone'
  <2>1. ASSUME NEW c \in Albums \ seen'.touched, ~There(c)'
        PROVE  scan'.items[c] = 0 /\ scan'.cached[c] = lib'[c]
    <3>1. CASE c = a
      BY <1>2, <2>1, <3>1 DEF IInv, UntouchedFacts, UntouchedGone, There, Walking
    <3>2. CASE c # a
      BY <1>2, <2>1, <3>2 DEF IInv, UntouchedFacts, UntouchedGone, There, Walking
    <3> QED
      BY <3>1, <3>2
  <2> QED
    BY <1>2, <2>1 DEF UntouchedGone, Walked, Walking
<1>13. UntouchedThere'
  <2>1. ASSUME NEW c \in Albums \ seen'.touched, There(c)'
        PROVE  /\ scan'.items[c] \in {0, disk'[c]}
               /\ task'[c].pc = "read" => task'[c].listed # 0
               /\ c \notin scan'.todo => ~scan'.cached[c].row
               /\ c \notin scan'.todo =>
                     scan'.items[c] # 0 \/ disk'[c] \in Broken \/ lib'[c].recorded = disk'[c]
    <3>1. CASE c = a
      <4>1. scan.cached[a] = lib[a]
        BY <1>2 DEF IInv, WalkFacts
      <4> QED
        BY <1>2, <1>3, <2>1, <3>1, <4>1 DEF There, Absent
    <3>2. CASE c # a
      BY <1>2, <2>1, <3>2 DEF IInv, UntouchedFacts, UntouchedThere, There, Walking, Walked, PCs
    <3> QED
      BY <3>1, <3>2
  <2> QED
    BY <1>2, <2>1 DEF UntouchedThere, Walked, Walking
<1>14. InFlight'
  BY <1>2, <1>3, Numbers DEF IInv, InFlight, UntouchedFacts, Alone, There, Absent, WalkFacts
<1> QED
  BY <1>1, <1>4, <1>5, <1>6, <1>7, <1>8, <1>9, <1>10, <1>11, <1>12, <1>13, <1>14 DEF IInv,
     UntouchedFacts

\* WalkEnds keeps the invariant.
LEMMA WalkEndsStep ==
    ASSUME IInv, WalkEnds
    PROVE  IInv'
<1>1. TypeOK'
  BY TWalkEnds DEF IInv
<1>2. /\ disk' = disk /\ mounted' = mounted
      /\ lib' = lib /\ work' = work /\ txn' = txn
      /\ task' = task /\ results' = results /\ writer' = writer /\ done' = done
      /\ seen' = seen
      /\ count'.version = count.version
      /\ scan.pc = "walk" /\ (scan.todo = {} \/ scan.cancel)
      /\ scan'.pc = "prune" /\ scan'.cancel = scan.cancel
      /\ scan'.cached = scan.cached /\ scan'.todo = scan.todo /\ scan'.items = scan.items
  BY DEF IInv, TypeOK, WalkEnds, Scans, Seens, Counts, files, base, pool
<1>3. /\ Pending' = Pending /\ Pending = {} /\ work = lib /\ ~txn
      /\ \A c \in Albums : task[c].pc = "none" /\ task[c].listed = 0
      /\ writer.pc = "off" /\ writer.batch = <<>> /\ results = <<>>
  <2>1. scan.pc \in Alone
    BY <1>2 DEF Alone
  <2> QED
    BY <1>2, <2>1, AloneIsQuiet DEF Pending, Waiting
<1>4. Dated'
  BY <1>2, <1>3, Numbers DEF IInv, Dated, Old, Alone, WalkFacts
<1>5. Quiet'
  BY <1>2, <1>3, Numbers DEF IInv, Quiet, Alone, Begun, WalkFacts
<1>6. Views'
  BY <1>2, <1>3, Numbers DEF IInv, Views, Alone, WalkFacts
<1>7. WalkFacts'
  BY <1>2, <1>3, Numbers DEF IInv, WalkFacts, There, Alone
<1>8. OnItsWay'
  BY <1>2, <1>3, Numbers DEF IInv, OnItsWay, Newer, Alone, WalkFacts
<1>9. Differs'
  BY <1>2, <1>3, Numbers DEF IInv, Differs, PCs, Alone, WalkFacts
<1>10. RecordsSound'
  BY <1>2, <1>3, Numbers DEF IInv, RecordsSound, Sound, Alone, WalkFacts
<1>11. LastWord'
  BY <1>2, <1>3, Numbers DEF IInv, LastWord, Alone, WalkFacts
<1>12. UntouchedGone'
  BY <1>2, <1>3, Numbers DEF IInv, UntouchedGone, UntouchedFacts, There, Walked, Walking, PCs,
     Alone, WalkFacts
<1>13. UntouchedThere'
  BY <1>2, <1>3, Numbers DEF IInv, UntouchedThere, UntouchedFacts, There, Walked, Walking, PCs,
     Alone, WalkFacts
<1>14. InFlight'
  BY <1>2, <1>3, Numbers DEF IInv, InFlight, UntouchedFacts, Alone, WalkFacts
<1> QED
  BY <1>1, <1>4, <1>5, <1>6, <1>7, <1>8, <1>9, <1>10, <1>11, <1>12, <1>13, <1>14 DEF IInv,
     UntouchedFacts

\* Prune keeps the invariant.
LEMMA PruneStep ==
    ASSUME IInv, Prune
    PROVE  IInv'
<1>1. TypeOK'
  BY TPrune DEF IInv
<1>2. /\ disk' = disk /\ mounted' = mounted
      /\ count'.version = count.version
      /\ task' = task /\ results' = results /\ writer' = writer /\ done' = done
      /\ txn' = txn
      /\ scan.pc = "prune"
      /\ scan'.pc = (IF scan.cancel THEN "off" ELSE "metadata") /\ scan'.cancel = scan.cancel
      /\ scan'.cached = scan.cached /\ scan'.todo = scan.todo /\ scan'.items = scan.items
      /\ work' = lib'
      /\ \/ /\ \A b \in Albums : lib'[b] = IF b \in Orphans THEN Absent ELSE lib[b]
            /\ seen'.lost = seen.lost \ Orphans
         \/ /\ lib' = lib
            /\ seen'.lost = seen.lost \cup Orphans
      /\ seen'.touched = seen.touched /\ seen'.absent = seen.absent
  <2>0. scan \in Scans /\ seen \in Seens
    BY DEF IInv, TypeOK, Scans, Seens
  <2>1. disk' = disk /\ mounted' = mounted
    BY <2>0 DEF Prune, files, base, pool, Event, IInv, TypeOK, Scans, Seens
  <2>2. count'.version = count.version
    BY <2>0 DEF Prune, files, base, pool, Event, IInv, TypeOK, Scans, Seens
  <2>3. task' = task /\ results' = results /\ writer' = writer /\ done' = done
    BY <2>0 DEF Prune, files, base, pool, Event, IInv, TypeOK, Scans, Seens
  <2>4. txn' = txn
    BY <2>0 DEF Prune, files, base, pool, Event, IInv, TypeOK, Scans, Seens
  <2>5. scan.pc = "prune"
    BY <2>0 DEF Prune, files, base, pool, Event, IInv, TypeOK, Scans, Seens
  <2>6. /\ scan'.pc = (IF scan.cancel THEN "off" ELSE "metadata") /\ scan'.cancel = scan.cancel
        /\ scan'.cached = scan.cached /\ scan'.todo = scan.todo /\ scan'.items = scan.items
    BY <2>0 DEF Prune, Scans
  <2>7. work' = lib'
    BY <2>0 DEF Prune, files, base, pool, Event, IInv, TypeOK, Scans, Seens
  <2>8. \/ /\ \A b \in Albums : lib'[b] = IF b \in Orphans THEN Absent ELSE lib[b]
           /\ seen'.lost = seen.lost \ Orphans
        \/ /\ lib' = lib
           /\ seen'.lost = seen.lost \cup Orphans
    <3>1. CASE /\ lib' = [c \in Albums |-> IF c \in Orphans THEN Absent ELSE lib[c]]
               /\ seen' = [seen EXCEPT !.lost = @ \ Orphans]
      <4>1. seen'.lost = seen.lost \ Orphans
        BY <2>0, <3>1 DEF Seens
      <4> QED
        BY <3>1, <4>1
    <3>2. CASE lib' = lib /\ seen' = [seen EXCEPT !.lost = @ \cup Orphans]
      BY <2>0, <3>2 DEF Seens
    <3> QED
      BY <3>1, <3>2 DEF Prune
  <2>9. seen'.touched = seen.touched /\ seen'.absent = seen.absent
    BY <2>0 DEF Prune, files, base, pool, Event, IInv, TypeOK, Scans, Seens
  <2> QED
    BY <2>1, <2>2, <2>3, <2>4, <2>5, <2>6, <2>7, <2>8, <2>9
<1>3. /\ Pending' = Pending /\ Pending = {} /\ work = lib /\ ~txn
      /\ \A c \in Albums : task[c].pc = "none" /\ task[c].listed = 0
      /\ writer.pc = "off" /\ writer.batch = <<>> /\ results = <<>>
  <2>1. scan.pc \in Alone
    BY <1>2 DEF Alone
  <2> QED
    BY <1>2, <2>1, AloneIsQuiet DEF Pending, Waiting
<1>4. Dated'
  BY <1>2, <1>3, Numbers DEF IInv, Dated, Old, Alone, Orphans, Absent, WalkFacts, Begun
<1>5. Quiet'
  BY <1>2, <1>3, Numbers DEF IInv, Quiet, Alone, Begun, Orphans, Absent, WalkFacts
<1>6. Views'
  BY <1>2, <1>3, Numbers DEF IInv, Views, Alone, Orphans, Absent, WalkFacts, Begun
<1>7. WalkFacts'
  BY <1>2, <1>3, Numbers DEF IInv, WalkFacts, There, Alone, Orphans, Absent, Begun
<1>8. OnItsWay'
  <2>1. done = {}
    BY <1>2 DEF IInv, Quiet, Begun
  <2> QED
    BY <1>2, <1>3, <2>1 DEF IInv, OnItsWay, Newer
<1>9. Differs'
  BY <1>2, <1>3, Numbers DEF IInv, Differs, PCs, Alone, Orphans, Absent, WalkFacts, Begun
<1>10. RecordsSound'
  BY <1>2, <1>3, Numbers DEF IInv, RecordsSound, Sound, Alone, Orphans, Absent, WalkFacts, Begun
<1>11. LastWord'
  BY <1>2, <1>3, Numbers DEF IInv, LastWord, Alone, Orphans, Absent, WalkFacts, Begun
<1>12. UntouchedGone'
  BY <1>2, <1>3, Numbers DEF IInv, UntouchedGone, UntouchedFacts, There, Walked, Walking, PCs,
     Alone, Orphans, Absent, WalkFacts, Begun
<1>13. UntouchedThere'
  BY <1>2, <1>3, Numbers DEF IInv, UntouchedThere, UntouchedFacts, There, Walked, Walking, PCs,
     Alone, Orphans, Absent, WalkFacts, Begun
<1>14. InFlight'
  BY <1>2, <1>3, Numbers DEF IInv, InFlight, UntouchedFacts, Alone, Orphans, Absent, WalkFacts,
     Begun
<1> QED
  BY <1>1, <1>4, <1>5, <1>6, <1>7, <1>8, <1>9, <1>10, <1>11, <1>12, <1>13, <1>14 DEF IInv,
     UntouchedFacts

\* StartMetadata keeps the invariant.
LEMMA StartMetadataStep ==
    ASSUME IInv, StartMetadata
    PROVE  IInv'
<1>1. TypeOK'
  BY TStartMetadata DEF IInv
<1>2. /\ disk' = disk /\ mounted' = mounted
      /\ seen' = seen
      /\ count'.version = count.version
      /\ lib' = lib /\ work' = work /\ results' = results /\ done' = done
      /\ scan.pc = "metadata"
      /\ scan'.cancel = scan.cancel
      /\ scan'.cached = scan.cached /\ scan'.todo = scan.todo /\ scan'.items = scan.items
      /\ \/ /\ \A b \in Albums : scan.items[b] = 0
            /\ scan'.pc = "finalize" /\ task' = task /\ writer' = writer /\ txn' = txn
         \/ /\ scan'.pc = "wait" /\ writer'.pc = "pop" /\ writer'.batch = <<>>
            /\ \A b \in Albums : /\ task'[b].listed = 0
                                  /\ task'[b].pc = IF scan.items[b] # 0 THEN "queued" ELSE "none"
  <2>0. scan \in Scans /\ seen \in Seens
    BY DEF IInv, TypeOK, Scans, Seens
  <2>1. disk' = disk /\ mounted' = mounted
    BY <2>0 DEF StartMetadata, files, base, pool, Event, IInv, TypeOK, Scans, Seens
  <2>2. seen' = seen
    BY <2>0 DEF StartMetadata, files, base, pool, Event, IInv, TypeOK, Scans, Seens
  <2>3. count'.version = count.version
    BY <2>0 DEF StartMetadata, files, base, pool, Event, IInv, TypeOK, Scans, Seens
  <2>4. lib' = lib /\ work' = work /\ results' = results /\ done' = done
    BY <2>0 DEF StartMetadata, files, base, pool, Event, IInv, TypeOK, Scans, Seens
  <2>5. scan.pc = "metadata"
    BY <2>0 DEF StartMetadata, files, base, pool, Event, IInv, TypeOK, Scans, Seens
  <2>6. /\ scan'.cancel = scan.cancel
        /\ scan'.cached = scan.cached /\ scan'.todo = scan.todo /\ scan'.items = scan.items
    BY <2>0 DEF StartMetadata, files, base, pool, Event, IInv, TypeOK, Scans, Seens
  <2>7. \/ /\ \A b \in Albums : scan.items[b] = 0
           /\ scan'.pc = "finalize" /\ task' = task /\ writer' = writer /\ txn' = txn
        \/ /\ scan'.pc = "wait" /\ writer'.pc = "pop" /\ writer'.batch = <<>>
           /\ \A b \in Albums : /\ task'[b].listed = 0
                                 /\ task'[b].pc = IF scan.items[b] # 0 THEN "queued" ELSE "none"
    <3>1. CASE Queued = {}
      BY <2>0, <3>1 DEF StartMetadata, Queued, Scans
    <3>2. CASE Queued # {}
      <4>1. /\ scan'.pc = "wait" /\ writer' = [NoWriter EXCEPT !.pc = "pop"]
            /\ task' = [c \in Albums |-> IF c \in Queued THEN [pc |-> "queued", listed |-> 0]
                                                          ELSE NoTask]
        BY <2>0, <3>2 DEF StartMetadata, Scans
      <4>2. \A c \in Albums : c \in Queued <=> scan.items[c] # 0
        BY DEF Queued
      <4> QED
        BY <4>1, <4>2 DEF NoTask, NoWriter
    <3> QED
      BY <3>1, <3>2
  <2> QED
    BY <2>1, <2>2, <2>3, <2>4, <2>5, <2>6, <2>7
<1>3. /\ Pending' = {} /\ Pending = {} /\ work = lib /\ ~txn
      /\ \A c \in Albums : task[c].pc = "none" /\ task[c].listed = 0
      /\ writer.pc = "off" /\ writer.batch = <<>> /\ results = <<>>
  <2>1. scan.pc \in Alone
    BY <1>2 DEF Alone
  <2> QED
    <3>1. /\ Pending = {} /\ work = lib /\ ~txn
          /\ \A c \in Albums : task[c].pc = "none" /\ task[c].listed = 0
          /\ writer.pc = "off" /\ writer.batch = <<>> /\ results = <<>>
      BY <2>1, AloneIsQuiet
    <3>2. results' = <<>> /\ writer'.batch = <<>>
      BY <1>2, <3>1
    <3> QED
      BY <3>1, <3>2, NoEntries DEF Pending, Waiting
<1>4. Dated'
  BY <1>2, <1>3, Numbers DEF IInv, Dated, Old, Alone, Begun, NoTask, NoWriter, PCs
<1>5. Quiet'
  BY <1>2, <1>3, Numbers DEF IInv, Quiet, Alone, Begun, NoTask, NoWriter, PCs
<1>6. Views'
  BY <1>2, <1>3, Numbers DEF IInv, Views, Alone, Begun, NoTask, NoWriter, PCs
<1>7. WalkFacts'
  BY <1>2, <1>3, Numbers DEF IInv, WalkFacts, There, Alone, Begun, NoTask, NoWriter, PCs
<1>8. OnItsWay'
  BY <1>2, <1>3, Numbers DEF IInv, OnItsWay, Newer, Alone, Begun, NoTask, NoWriter, PCs
<1>9. Differs'
  BY <1>2, <1>3, Numbers DEF IInv, Differs, PCs, Alone, Begun, NoTask, NoWriter
<1>10. RecordsSound'
  BY <1>2, <1>3, Numbers DEF IInv, RecordsSound, Sound, Alone, Begun, NoTask, NoWriter, PCs
<1>11. LastWord'
  BY <1>2, <1>3, Numbers DEF IInv, LastWord, Alone, Begun, NoTask, NoWriter, PCs
<1>12. UntouchedGone'
  BY <1>2, <1>3, Numbers DEF IInv, UntouchedGone, UntouchedFacts, There, Walked, Walking, PCs,
     Alone, Begun, NoTask, NoWriter
<1>13. UntouchedThere'
  BY <1>2, <1>3, Numbers DEF IInv, UntouchedThere, UntouchedFacts, There, Walked, Walking, PCs,
     Alone, Begun, NoTask, NoWriter
<1>14. InFlight'
  BY <1>2, <1>3, Numbers DEF IInv, InFlight, UntouchedFacts, Alone, Begun, NoTask, NoWriter, PCs
<1> QED
  BY <1>1, <1>4, <1>5, <1>6, <1>7, <1>8, <1>9, <1>10, <1>11, <1>12, <1>13, <1>14 DEF IInv,
     UntouchedFacts

\* WaitEnds keeps the invariant.
LEMMA WaitEndsStep ==
    ASSUME IInv, WaitEnds
    PROVE  IInv'
<1>1. TypeOK'
  BY TWaitEnds DEF IInv
<1>2. /\ disk' = disk /\ mounted' = mounted
      /\ lib' = lib /\ work' = work /\ txn' = txn
      /\ task' = task /\ results' = results /\ writer' = writer /\ done' = done
      /\ seen' = seen
      /\ count'.version = count.version
      /\ scan.pc = "wait"
      /\ scan'.pc = "join" /\ scan'.cancel = scan.cancel
      /\ scan'.cached = scan.cached /\ scan'.todo = scan.todo /\ scan'.items = scan.items
  BY DEF IInv, TypeOK, WaitEnds, files, base, pool, AllRead, Scans, Seens, Counts, files, base, pool
<1>3. Pending' = Pending
  BY <1>2 DEF Pending, Waiting
<1>4. Dated'
  BY <1>2, <1>3, Numbers DEF IInv, Dated, Old, PCs, Walked, Walking
<1>5. Quiet'
  BY <1>2, <1>3, Numbers DEF IInv, Quiet, Alone, Begun, PCs, Walked, Walking
<1>6. Views'
  BY <1>2, <1>3, Numbers DEF IInv, Views, PCs, Walked, Walking
<1>7. WalkFacts'
  BY <1>2, <1>3, Numbers DEF IInv, WalkFacts, There, PCs, Walked, Walking
<1>8. OnItsWay'
  BY <1>2, <1>3, Numbers DEF IInv, OnItsWay, Newer, PCs, Walked, Walking
<1>9. Differs'
  BY <1>2, <1>3, Numbers DEF IInv, Differs, PCs, Walked, Walking
<1>10. RecordsSound'
  BY <1>2, <1>3, Numbers DEF IInv, RecordsSound, Sound, PCs, Walked, Walking
<1>11. LastWord'
  BY <1>2, <1>3, Numbers DEF IInv, LastWord, PCs, Walked, Walking
<1>12. UntouchedGone'
  BY <1>2, <1>3, Numbers DEF IInv, UntouchedGone, UntouchedFacts, There, Walked, Walking, PCs
<1>13. UntouchedThere'
  BY <1>2, <1>3, Numbers DEF IInv, UntouchedThere, UntouchedFacts, There, Walked, Walking, PCs
<1>14. InFlight'
  BY <1>2, <1>3, Numbers DEF IInv, InFlight, UntouchedFacts, PCs, Walked, Walking
<1> QED
  BY <1>1, <1>4, <1>5, <1>6, <1>7, <1>8, <1>9, <1>10, <1>11, <1>12, <1>13, <1>14 DEF IInv,
     UntouchedFacts

\* JoinPool keeps the invariant.
LEMMA JoinPoolStep ==
    ASSUME IInv, JoinPool
    PROVE  IInv'
<1>1. TypeOK'
  BY TJoinPool DEF IInv
<1>2. /\ disk' = disk /\ mounted' = mounted
      /\ lib' = lib /\ work' = work /\ txn' = txn
      /\ seen' = seen
      /\ count'.version = count.version
      /\ task' = task /\ writer' = writer /\ done' = done
      /\ scan.pc = "join"
      /\ scan'.pc = "writer" /\ scan'.cancel = scan.cancel
      /\ scan'.cached = scan.cached /\ scan'.todo = scan.todo /\ scan'.items = scan.items
      /\ results' = Append(results, Sentinel)
      /\ \A b \in Albums : task[b].pc = "none"
  BY DEF IInv, TypeOK, JoinPool, files, base, Scans, Seens, Counts, files, base, pool
<1>3. Pending' = Pending
  <2>1. results \in Seq(Results \cup {Sentinel})
    BY DEF IInv, TypeOK
  <2>2. Entries(results') = Entries(results) \cup {Sentinel}
    BY <1>2, <2>1, EntriesAppend
  <2> QED
    BY <1>2, <2>2 DEF Pending, Waiting
<1>4. Dated'
  BY <1>2, <1>3, Numbers DEF IInv, Dated, Old
<1>5. Quiet'
  BY <1>2, <1>3, Numbers DEF IInv, Quiet, Alone, Begun
<1>6. Views'
  BY <1>2, <1>3, Numbers DEF IInv, Views
<1>7. WalkFacts'
  BY <1>2, <1>3, Numbers DEF IInv, WalkFacts, There
<1>8. OnItsWay'
  BY <1>2, <1>3, Numbers DEF IInv, OnItsWay, Newer
<1>9. Differs'
  BY <1>2, <1>3, Numbers DEF IInv, Differs, PCs
<1>10. RecordsSound'
  BY <1>2, <1>3, Numbers DEF IInv, RecordsSound, Sound
<1>11. LastWord'
  BY <1>2, <1>3, Numbers DEF IInv, LastWord
<1>12. UntouchedGone'
  BY <1>2, <1>3, Numbers DEF IInv, UntouchedGone, UntouchedFacts, There, Walked, Walking, PCs
<1>13. UntouchedThere'
  BY <1>2, <1>3, Numbers DEF IInv, UntouchedThere, UntouchedFacts, There, Walked, Walking, PCs
<1>14. InFlight'
  BY <1>2, <1>3, Numbers DEF IInv, InFlight, UntouchedFacts
<1> QED
  BY <1>1, <1>4, <1>5, <1>6, <1>7, <1>8, <1>9, <1>10, <1>11, <1>12, <1>13, <1>14 DEF IInv,
     UntouchedFacts

\* JoinWriter keeps the invariant.
LEMMA JoinWriterStep ==
    ASSUME IInv, JoinWriter
    PROVE  IInv'
<1>1. TypeOK'
  BY TJoinWriter DEF IInv
<1>2. /\ disk' = disk /\ mounted' = mounted
      /\ lib' = lib /\ work' = work /\ txn' = txn
      /\ seen' = seen
      /\ count'.version = count.version
      /\ task' = task /\ done' = done
      /\ scan.pc = "writer" /\ writer.pc = "end"
      /\ scan'.pc = (IF scan.cancel THEN "off" ELSE "finalize") /\ scan'.cancel = scan.cancel
      /\ scan'.cached = scan.cached /\ scan'.todo = scan.todo /\ scan'.items = scan.items
      /\ results' = <<>> /\ writer' = NoWriter
  <2>0. scan \in Scans /\ seen \in Seens
    BY DEF IInv, TypeOK, Scans, Seens
  <2>1. disk' = disk /\ mounted' = mounted
    BY <2>0 DEF JoinWriter, files, base, pool, Event, IInv, TypeOK, Scans, Seens
  <2>2. lib' = lib /\ work' = work /\ txn' = txn
    BY <2>0 DEF JoinWriter, files, base, pool, Event, IInv, TypeOK, Scans, Seens
  <2>3. seen' = seen
    BY <2>0 DEF JoinWriter, files, base, pool, Event, IInv, TypeOK, Scans, Seens
  <2>4. count'.version = count.version
    BY <2>0 DEF JoinWriter, files, base, pool, Event, IInv, TypeOK, Scans, Seens
  <2>5. task' = task /\ done' = done
    BY <2>0 DEF JoinWriter, files, base, pool, Event, IInv, TypeOK, Scans, Seens
  <2>6. scan.pc = "writer" /\ writer.pc = "end"
    BY <2>0 DEF JoinWriter, files, base, pool, Event, IInv, TypeOK, Scans, Seens
  <2>7. /\ scan'.pc = (IF scan.cancel THEN "off" ELSE "finalize") /\ scan'.cancel = scan.cancel
        /\ scan'.cached = scan.cached /\ scan'.todo = scan.todo /\ scan'.items = scan.items
    BY <2>0 DEF JoinWriter, Scans
  <2>8. results' = <<>> /\ writer' = NoWriter
    BY <2>0 DEF JoinWriter, files, base, pool, Event, IInv, TypeOK, Scans, Seens
  <2> QED
    BY <2>1, <2>2, <2>3, <2>4, <2>5, <2>6, <2>7, <2>8
<1>3. Pending' = {}
  <2>1. results' = <<>> /\ writer'.batch = <<>>
    BY <1>2, AloneIsQuiet DEF NoWriter, Alone
  <2> QED
    BY <2>1, NoEntries DEF Pending, Waiting
<1>4. Dated'
  BY <1>2, <1>3, Numbers DEF IInv, Dated, Old, NoWriter, Alone, Begun, Quiet
<1>5. Quiet'
  BY <1>2, <1>3, Numbers DEF IInv, Quiet, Alone, Begun, NoWriter
<1>6. Views'
  BY <1>2, <1>3, Numbers DEF IInv, Views, NoWriter, Alone, Begun, Quiet
<1>7. WalkFacts'
  BY <1>2, <1>3, Numbers DEF IInv, WalkFacts, There, NoWriter, Alone, Begun, Quiet
<1>8. OnItsWay'
  BY <1>2, <1>3, Numbers DEF IInv, OnItsWay, Newer, NoWriter, Alone, Begun, Quiet
<1>9. Differs'
  BY <1>2, <1>3, Numbers DEF IInv, Differs, PCs, NoWriter, Alone, Begun, Quiet
<1>10. RecordsSound'
  BY <1>2, <1>3, Numbers DEF IInv, RecordsSound, Sound, NoWriter, Alone, Begun, Quiet
<1>11. LastWord'
  BY <1>2, <1>3, Numbers DEF IInv, LastWord, NoWriter, Alone, Begun, Quiet
<1>12. UntouchedGone'
  BY <1>2, <1>3, Numbers DEF IInv, UntouchedGone, UntouchedFacts, There, Walked, Walking, PCs,
     NoWriter, Alone, Begun, Quiet
<1>13. UntouchedThere'
  BY <1>2, <1>3, Numbers DEF IInv, UntouchedThere, UntouchedFacts, There, Walked, Walking, PCs,
     NoWriter, Alone, Begun, Quiet
<1>14. InFlight'
  BY <1>2, <1>3, Numbers, NoEntries DEF IInv, InFlight, UntouchedFacts, LastWord, Pending, Waiting,
     NoWriter, Alone, Begun, Quiet
<1> QED
  BY <1>1, <1>4, <1>5, <1>6, <1>7, <1>8, <1>9, <1>10, <1>11, <1>12, <1>13, <1>14 DEF IInv,
     UntouchedFacts

\* Finalize keeps the invariant.
LEMMA FinalizeStep ==
    ASSUME IInv, Finalize
    PROVE  IInv'
<1>1. TypeOK'
  BY TFinalize DEF IInv
<1>2. /\ disk' = disk /\ mounted' = mounted
      /\ task' = task /\ results' = results /\ writer' = writer /\ done' = done
      /\ seen' = seen
      /\ count'.version = count.version
      /\ txn' = txn
      /\ scan.pc = "finalize"
      /\ scan'.pc = "enrich" /\ scan'.cancel = scan.cancel
      /\ scan'.cached = scan.cached /\ scan'.todo = scan.todo /\ scan'.items = scan.items
      /\ work' = lib'
      /\ \/ lib' = lib
         \/ \A b \in Albums :
               \/ lib'[b] = lib[b] /\ (b \notin done \/ ~lib[b].row)
               \/ /\ b \in done /\ lib[b].row
                  /\ lib'[b].row /\ lib'[b].tracks = lib[b].tracks
                  /\ lib'[b].recorded = scan.items[b]
  <2>0. scan \in Scans /\ seen \in Seens
    BY DEF IInv, TypeOK, Scans, Seens
  <2>1. disk' = disk /\ mounted' = mounted
    BY <2>0 DEF Finalize, files, base, pool, Event, IInv, TypeOK, Scans, Seens
  <2>2. task' = task /\ results' = results /\ writer' = writer /\ done' = done
    BY <2>0 DEF Finalize, files, base, pool, Event, IInv, TypeOK, Scans, Seens
  <2>3. seen' = seen
    BY <2>0 DEF Finalize, files, base, pool, Event, IInv, TypeOK, Scans, Seens
  <2>4. count'.version = count.version
    BY <2>0 DEF Finalize, files, base, pool, Event, IInv, TypeOK, Scans, Seens
  <2>5. txn' = txn
    BY <2>0 DEF Finalize, files, base, pool, Event, IInv, TypeOK, Scans, Seens
  <2>6. scan.pc = "finalize"
    BY <2>0 DEF Finalize, files, base, pool, Event, IInv, TypeOK, Scans, Seens
  <2>7. /\ scan'.pc = "enrich" /\ scan'.cancel = scan.cancel
        /\ scan'.cached = scan.cached /\ scan'.todo = scan.todo /\ scan'.items = scan.items
    BY <2>0 DEF Finalize, files, base, pool, Event, IInv, TypeOK, Scans, Seens
  <2>8. work' = lib'
    BY <2>0 DEF Finalize, files, base, pool, Event, IInv, TypeOK, Scans, Seens
  <2>9. \/ lib' = lib
        \/ \A b \in Albums :
              \/ lib'[b] = lib[b] /\ (b \notin done \/ ~lib[b].row)
              \/ /\ b \in done /\ lib[b].row
                 /\ lib'[b].row /\ lib'[b].tracks = lib[b].tracks
                 /\ lib'[b].recorded = scan.items[b]
    <3>1. lib' = lib \/ lib' = [c \in Albums |-> Recorded(c)]
      BY DEF Finalize
    <3>2. ASSUME NEW c \in Albums
          PROVE  \/ Recorded(c) = lib[c] /\ (c \notin done \/ ~lib[c].row)
                 \/ /\ c \in done /\ lib[c].row
                    /\ Recorded(c).row /\ Recorded(c).tracks = lib[c].tracks
                    /\ Recorded(c).recorded = scan.items[c]
      <4>1. lib[c] \in Rows /\ scan.items[c] \in 0 .. MaxVersion
        BY <2>0 DEF Scans, IInv, TypeOK
      <4> QED
        BY <4>1, RowType DEF Recorded
    <3> QED
      BY <3>1, <3>2
  <2> QED
    BY <2>1, <2>2, <2>3, <2>4, <2>5, <2>6, <2>7, <2>8, <2>9
<1>3. /\ Pending' = Pending /\ Pending = {} /\ work = lib /\ ~txn
      /\ \A c \in Albums : task[c].pc = "none" /\ task[c].listed = 0
      /\ writer.pc = "off" /\ writer.batch = <<>> /\ results = <<>>
  <2>1. scan.pc \in Alone
    BY <1>2 DEF Alone
  <2> QED
    BY <1>2, <2>1, AloneIsQuiet DEF Pending, Waiting
<1>4. Dated'
  BY <1>2, <1>3, Numbers DEF IInv, Dated, Old, Alone, OnItsWay, Newer
<1>5. Quiet'
  BY <1>2, <1>3, Numbers DEF IInv, Quiet, Alone, Begun, OnItsWay, Newer
<1>6. Views'
  BY <1>2, <1>3, Numbers DEF IInv, Views, Alone, OnItsWay, Newer
<1>7. WalkFacts'
  BY <1>2, <1>3, Numbers DEF IInv, WalkFacts, There, Alone, OnItsWay, Newer
<1>8. OnItsWay'
  BY <1>2, <1>3, Numbers DEF IInv, OnItsWay, Newer, Alone
<1>9. Differs'
  BY <1>2, <1>3, Numbers DEF IInv, Differs, PCs, Alone, OnItsWay, Newer
<1>10. RecordsSound'
  BY <1>2, <1>3, Numbers DEF IInv, RecordsSound, Sound, Alone, OnItsWay, Newer
<1>11. LastWord'
  BY <1>2, <1>3, Numbers DEF IInv, LastWord, Alone, OnItsWay, Newer
<1>12. UntouchedGone'
  BY <1>2, <1>3, Numbers DEF IInv, UntouchedGone, UntouchedFacts, There, Walked, Walking, PCs,
     Alone, OnItsWay, Newer
<1>13. UntouchedThere'
  BY <1>2, <1>3, Numbers DEF IInv, UntouchedThere, UntouchedFacts, There, Walked, Walking, PCs,
     Alone, OnItsWay, Newer
<1>14. InFlight'
  BY <1>2, <1>3, Numbers DEF IInv, InFlight, UntouchedFacts, Alone, OnItsWay, Newer
<1> QED
  BY <1>1, <1>4, <1>5, <1>6, <1>7, <1>8, <1>9, <1>10, <1>11, <1>12, <1>13, <1>14 DEF IInv,
     UntouchedFacts

\* Enrich keeps the invariant.
LEMMA EnrichStep ==
    ASSUME IInv, Enrich
    PROVE  IInv'
<1>1. TypeOK'
  BY TEnrich DEF IInv
<1>2. /\ disk' = disk /\ mounted' = mounted
      /\ lib' = lib /\ work' = work /\ txn' = txn
      /\ task' = task /\ results' = results /\ writer' = writer /\ done' = done
      /\ seen' = seen
      /\ count'.version = count.version
      /\ scan.pc = "enrich"
      /\ scan'.pc = "off" /\ scan'.cancel = scan.cancel
      /\ scan'.cached = scan.cached /\ scan'.todo = scan.todo /\ scan'.items = scan.items
  BY DEF IInv, TypeOK, Enrich, Scans, Seens, Counts, files, base, pool
<1>3. /\ Pending' = Pending /\ Pending = {} /\ work = lib /\ ~txn
      /\ \A c \in Albums : task[c].pc = "none" /\ task[c].listed = 0
      /\ writer.pc = "off" /\ writer.batch = <<>> /\ results = <<>>
  <2>1. scan.pc \in Alone
    BY <1>2 DEF Alone
  <2> QED
    BY <1>2, <2>1, AloneIsQuiet DEF Pending, Waiting
<1>4. Dated'
  BY <1>2, <1>3, Numbers DEF IInv, Dated, Old, Alone, WalkFacts
<1>5. Quiet'
  BY <1>2, <1>3, Numbers DEF IInv, Quiet, Alone, Begun, WalkFacts
<1>6. Views'
  BY <1>2, <1>3, Numbers DEF IInv, Views, Alone, WalkFacts
<1>7. WalkFacts'
  BY <1>2, <1>3, Numbers DEF IInv, WalkFacts, There, Alone
<1>8. OnItsWay'
  BY <1>2, <1>3, Numbers DEF IInv, OnItsWay, Newer, Alone, WalkFacts
<1>9. Differs'
  BY <1>2, <1>3, Numbers DEF IInv, Differs, PCs, Alone, WalkFacts
<1>10. RecordsSound'
  BY <1>2, <1>3, Numbers DEF IInv, RecordsSound, Sound, Alone, WalkFacts
<1>11. LastWord'
  BY <1>2, <1>3, Numbers DEF IInv, LastWord, Alone, WalkFacts
<1>12. UntouchedGone'
  BY <1>2, <1>3, Numbers DEF IInv, UntouchedGone, UntouchedFacts, There, Walked, Walking, PCs,
     Alone, WalkFacts
<1>13. UntouchedThere'
  BY <1>2, <1>3, Numbers DEF IInv, UntouchedThere, UntouchedFacts, There, Walked, Walking, PCs,
     Alone, WalkFacts
<1>14. InFlight'
  BY <1>2, <1>3, Numbers DEF IInv, InFlight, UntouchedFacts, Alone, WalkFacts
<1> QED
  BY <1>1, <1>4, <1>5, <1>6, <1>7, <1>8, <1>9, <1>10, <1>11, <1>12, <1>13, <1>14 DEF IInv,
     UntouchedFacts

\* List keeps the invariant.
LEMMA ListStep ==
    ASSUME IInv, NEW a \in Albums, List(a)
    PROVE  IInv'
<1>1. TypeOK'
  BY TList DEF IInv
<1>2. /\ disk' = disk /\ mounted' = mounted
      /\ lib' = lib /\ work' = work /\ txn' = txn
      /\ seen' = seen
      /\ count'.version = count.version
      /\ scan' = scan /\ results' = results /\ writer' = writer /\ done' = done
      /\ task[a].pc = "queued"
      /\ \A b \in Albums \ {a} : task'[b] = task[b]
      /\ \/ task'[a] = NoTask /\ scan.cancel
         \/ task'[a].pc = "read" /\ task'[a].listed = IF mounted THEN disk[a] ELSE 0
  <2>0. scan \in Scans /\ seen \in Seens
    BY DEF IInv, TypeOK, Scans, Seens
  <2>1. disk' = disk /\ mounted' = mounted
    BY <2>0 DEF List, files, base, pool, Event, IInv, TypeOK, Scans, Seens
  <2>2. lib' = lib /\ work' = work /\ txn' = txn
    BY <2>0 DEF List, files, base, pool, Event, IInv, TypeOK, Scans, Seens
  <2>3. seen' = seen
    BY <2>0 DEF List, files, base, pool, Event, IInv, TypeOK, Scans, Seens
  <2>4. count'.version = count.version
    BY <2>0 DEF List, files, base, pool, Event, IInv, TypeOK, Scans, Seens
  <2>5. scan' = scan /\ results' = results /\ writer' = writer /\ done' = done
    BY <2>0 DEF List, files, base, pool, Event, IInv, TypeOK, Scans, Seens
  <2>6. task[a].pc = "queued"
    BY <2>0 DEF List, files, base, pool, Event, IInv, TypeOK, Scans, Seens
  <2>7. \A b \in Albums \ {a} : task'[b] = task[b]
    BY <2>0 DEF List, files, base, pool, Event, IInv, TypeOK, Scans, Seens
  <2>8. \/ task'[a] = NoTask /\ scan.cancel
        \/ task'[a].pc = "read" /\ task'[a].listed = IF mounted THEN disk[a] ELSE 0
    <3>1. task' = [task EXCEPT ![a] = IF scan.cancel THEN NoTask
                     ELSE [pc |-> "read", listed |-> IF mounted THEN disk[a] ELSE 0]]
      BY DEF List
    <3>2. task'[a] = IF scan.cancel THEN NoTask
                     ELSE [pc |-> "read", listed |-> IF mounted THEN disk[a] ELSE 0]
      BY <3>1 DEF IInv, TypeOK
    <3>3. CASE scan.cancel
      <4>1. task'[a] = NoTask
        BY <3>2, <3>3
      <4> QED
        BY <3>3, <4>1
    <3>4. CASE ~scan.cancel
      <4>1. task'[a] = [pc |-> "read", listed |-> IF mounted THEN disk[a] ELSE 0]
        BY <3>2, <3>4
      <4> QED
        BY <4>1
    <3> QED
      BY <3>3, <3>4
  <2> QED
    BY <2>1, <2>2, <2>3, <2>4, <2>5, <2>6, <2>7, <2>8
<1>3. Pending' = Pending
  BY <1>2 DEF Pending, Waiting
<1>4. Dated'
  BY <1>2, <1>3, Numbers, TaskIsExtraction DEF IInv, Dated, Old, NoTask, Alone, There
<1>5. Quiet'
  <2>1. scan.pc \in {"wait", "join"}
    BY <1>2, TaskIsExtraction
  <2>2. \A c \in Albums : task'[c].pc # "read" => task'[c].listed = 0
    BY <1>2 DEF IInv, Quiet, NoTask
  <2> QED
    BY <1>2, <2>1, <2>2 DEF IInv, Quiet, Alone, Begun
<1>6. Views'
  BY <1>2, <1>3, Numbers, TaskIsExtraction DEF IInv, Views, NoTask, Alone, There
<1>7. WalkFacts'
  BY <1>2, <1>3, Numbers, TaskIsExtraction DEF IInv, WalkFacts, There, NoTask, Alone
<1>8. OnItsWay'
  <2>1. scan.items[a] # 0
    BY <1>2 DEF IInv, OnItsWay
  <2>2. disk[a] # 0 => scan.items[a] <= disk[a]
    BY DEF IInv, Dated, Old
  <2>3. task'[a].pc # "none" => scan'.items[a] # 0
    BY <1>2, <2>1
  <2>4. task'[a].listed # 0 => scan'.items[a] # 0 /\ scan'.items[a] <= task'[a].listed
    BY <1>2, <2>1, <2>2 DEF NoTask
  <2> QED
    BY <1>2, <1>3, <2>3, <2>4 DEF IInv, OnItsWay, Newer
<1>9. Differs'
  BY <1>2, <1>3, Numbers, TaskIsExtraction DEF IInv, Differs, PCs, NoTask, Alone, There
<1>10. RecordsSound'
  BY <1>2, <1>3, Numbers, TaskIsExtraction DEF IInv, RecordsSound, Sound, NoTask, Alone, There
<1>11. LastWord'
  BY <1>2, <1>3, Numbers, TaskIsExtraction DEF IInv, LastWord, NoTask, Alone, There
<1>12. UntouchedGone'
  BY <1>2, <1>3, Numbers, TaskIsExtraction DEF IInv, UntouchedGone, UntouchedFacts, There, Walked,
     Walking, PCs, NoTask, Alone
<1>13. UntouchedThere'
  BY <1>2, <1>3, Numbers, TaskIsExtraction DEF IInv, UntouchedThere, UntouchedFacts, There, Walked,
     Walking, PCs, NoTask, Alone
<1>14. InFlight'
  BY <1>2, <1>3, Numbers, TaskIsExtraction DEF IInv, InFlight, UntouchedFacts, NoTask, Alone, There
<1> QED
  BY <1>1, <1>4, <1>5, <1>6, <1>7, <1>8, <1>9, <1>10, <1>11, <1>12, <1>13, <1>14 DEF IInv,
     UntouchedFacts

\* Extract keeps the invariant.
LEMMA ExtractStep ==
    ASSUME IInv, NEW a \in Albums, Extract(a)
    PROVE  IInv'
<1>1. TypeOK'
  BY TExtract DEF IInv
<1>2. /\ disk' = disk /\ mounted' = mounted
      /\ lib' = lib /\ work' = work /\ txn' = txn
      /\ seen' = seen
      /\ count'.version = count.version
      /\ writer' = writer /\ done' = done
      /\ task[a].pc = "read"
      /\ scan'.pc = scan.pc /\ scan'.cancel = scan.cancel
      /\ scan'.cached = scan.cached /\ scan'.todo = scan.todo /\ scan'.items = scan.items
      /\ task'[a] = NoTask /\ \A b \in Albums \ {a} : task'[b] = task[b]
      /\ \/ /\ task[a].listed # 0 /\ ~scan.cancel
            /\ results' = Append(results, [album |-> a, tracks |-> task[a].listed])
         \/ /\ results' = results
            /\ task[a].listed = 0 \/ scan.cancel \/ ~mounted \/ disk[a] # task[a].listed
  BY DEF IInv, TypeOK, Extract, NoTask, files, base, Scans, Seens, Counts, files, base, pool
<1>3. /\ \/ results' = results /\ Pending' = Pending
         \/ /\ task[a].listed # 0
            /\ Pending' = Pending \cup {[album |-> a, tracks |-> task[a].listed]}
      /\ results' # results =>
            Pending' = Pending \cup {[album |-> a, tracks |-> task[a].listed]}
  <2>1. results \in Seq(Results \cup {Sentinel})
    BY DEF IInv, TypeOK
  <2>2. CASE results' = results
    BY <1>2, <2>2 DEF Pending, Waiting
  <2>3. ASSUME task[a].listed # 0,
               results' = Append(results, [album |-> a, tracks |-> task[a].listed])
        PROVE  Pending' = Pending \cup {[album |-> a, tracks |-> task[a].listed]}
    <3> DEFINE r == [album |-> a, tracks |-> task[a].listed]
    <3>1. r \in Results
      BY SMTT(30), <2>3, VersionAssumption DEF IInv, TypeOK, Results, Versions
    <3>2. r # Sentinel
      BY <2>3 DEF Sentinel
    <3> HIDE DEF r
    <3>3. Entries(results') = Entries(results) \cup {r}
      BY <2>1, <2>3, <3>1, EntriesAppend DEF r
    <3> QED
      BY <1>2, <3>2, <3>3 DEF Pending, Waiting, r
  <2> QED
    BY <1>2, <2>2, <2>3
<1>4. Dated'
  BY SMTT(30), <1>2, <1>3, Numbers, TaskIsExtraction DEF IInv, Dated, Old, NoTask, Alone, There
<1>5. Quiet'
  BY SMTT(30), <1>2, <1>3, Numbers, TaskIsExtraction DEF IInv, Quiet, Alone, Begun, NoTask, There
<1>6. Views'
  BY <1>2, <1>3, Numbers, TaskIsExtraction DEF IInv, Views, NoTask, Alone, There
<1>7. WalkFacts'
  BY <1>2, <1>3, Numbers, TaskIsExtraction DEF IInv, WalkFacts, There, NoTask, Alone
<1>8. OnItsWay'
  <2>1. task[a].listed # 0 => scan.items[a] # 0 /\ scan.items[a] <= task[a].listed
    BY DEF IInv, OnItsWay, Newer
  <2>2. \A r \in Pending' : Newer(r.album, r.tracks)
    <3>1. \A r \in Pending : Newer(r.album, r.tracks)
      BY DEF IInv, OnItsWay
    <3> QED
      BY <1>3, <2>1, <3>1 DEF Newer
  <2> QED
    BY <1>2, <2>2 DEF IInv, OnItsWay, Newer, NoTask
<1>9. Differs'
  BY <1>2, <1>3, Numbers, TaskIsExtraction DEF IInv, Differs, PCs, NoTask, Alone, There
<1>10. RecordsSound'
  BY <1>2, <1>3, Numbers, TaskIsExtraction DEF IInv, RecordsSound, Sound, NoTask, Alone, There
<1>11. LastWord'
  <2>1. scan.pc \in {"wait", "join"}
    BY <1>2, TaskIsExtraction
  <2>2. Sentinel \notin Entries(results) /\ results \in Seq(Results \cup {Sentinel})
    BY <2>1 DEF IInv, LastWord, Entries, TypeOK
  <2>3. Sentinel \notin Entries(results')
    <3>1. CASE results' = results
      BY <2>2, <3>1
    <3>2. CASE /\ task[a].listed # 0
               /\ results' = Append(results, [album |-> a, tracks |-> task[a].listed])
      <4>1. [album |-> a, tracks |-> task[a].listed] # Sentinel
        BY <3>2 DEF Sentinel
      <4>2. [album |-> a, tracks |-> task[a].listed] \in Results
        BY SMTT(30), <3>2, VersionAssumption DEF IInv, TypeOK, Results, Versions
      <4> QED
        BY <2>2, <3>2, <4>1, <4>2, EntriesAppend
    <3> QED
      BY <1>2, <3>1, <3>2
  <2> QED
    BY <1>2, <2>1, <2>3 DEF IInv, LastWord, Entries
<1>12. UntouchedGone'
  BY <1>2, <1>3, Numbers, TaskIsExtraction DEF IInv, UntouchedGone, UntouchedFacts, There, Walked,
     Walking, PCs, NoTask, Alone
<1>13. UntouchedThere'
  BY SMTT(30), <1>2, <1>3, Numbers, TaskIsExtraction DEF IInv, UntouchedThere, UntouchedFacts, There, Walked,
     Walking, PCs, NoTask, Alone
<1>14. InFlight'
  <2>1. scan.pc \in {"wait", "join"}
    BY <1>2, TaskIsExtraction
  <2>2. ASSUME ~scan.cancel, a \notin seen.touched, scan.items[a] # 0
        PROVE  \E r \in Pending' : r.album = a
    <3>1. There(a) /\ scan.items[a] = disk[a] /\ task[a].listed # 0
      BY <1>2, <2>2 DEF IInv, UntouchedFacts, UntouchedGone, UntouchedThere
    <3>2. scan.items[a] <= task[a].listed
      BY <3>1 DEF IInv, OnItsWay, Newer
    <3>3. task[a].listed <= disk[a]
      BY <3>1 DEF IInv, Dated, Old, There
    <3>4. task[a].listed = disk[a]
      BY <3>1, <3>2, <3>3, Numbers DEF IInv
    <3>5. results' = Append(results, [album |-> a, tracks |-> task[a].listed])
      BY <1>2, <2>2, <3>1, <3>4 DEF There
    <3>6. Pending' = Pending \cup {[album |-> a, tracks |-> task[a].listed]}
      <4>1. results \in Seq(Results \cup {Sentinel})
        BY DEF IInv, TypeOK
      <4>2. [album |-> a, tracks |-> task[a].listed] \in Results
        BY <3>1, VersionAssumption DEF IInv, TypeOK, Results, Versions
      <4>3. Len(results') = Len(results) + 1 /\ Len(results) \in Nat
        BY <3>5, <4>1, <4>2
      <4>4. results' # results
        BY <4>3
      <4> QED
        BY <1>3, <4>4
    <3>7. [album |-> a, tracks |-> task[a].listed] \in Pending'
      BY <3>6
    <3> QED
      BY <3>7, Zenon
  <2>3. \A r \in Pending : r \in Pending'
    BY <1>3
  <2>4. ASSUME ~scan.cancel, NEW c \in Albums \ (seen.touched \cup seen.lost), scan.items[c] # 0
        PROVE  c \in done \/ task'[c].pc # "none" \/ \E r \in Pending' : r.album = c
    <3>1. CASE c = a
      BY <2>2, <2>4, <3>1
    <3>2. CASE c # a
      BY <1>2, <2>1, <2>3, <2>4, <3>2 DEF IInv, InFlight, UntouchedFacts
    <3> QED
      BY <3>1, <3>2
  <2> QED
    BY <1>2, <2>1, <2>4 DEF InFlight
<1> QED
  BY <1>1, <1>4, <1>5, <1>6, <1>7, <1>8, <1>9, <1>10, <1>11, <1>12, <1>13, <1>14 DEF IInv,
     UntouchedFacts

\* Pop keeps the invariant.
LEMMA PopStep ==
    ASSUME IInv, Pop
    PROVE  IInv'
<1>1. TypeOK'
  BY TPop DEF IInv
<1>2. /\ disk' = disk /\ mounted' = mounted
      /\ lib' = lib /\ work' = work /\ txn' = txn
      /\ seen' = seen
      /\ count'.version = count.version
      /\ scan' = scan /\ task' = task /\ done' = done
      /\ writer.pc = "pop"
      /\ \/ /\ results = <<>> /\ scan.cancel /\ results' = results
            /\ writer'.pc = "last" /\ writer'.batch = writer.batch
         \/ /\ results # <<>> /\ Head(results) = Sentinel /\ results' = Tail(results)
            /\ writer'.pc = "last" /\ writer'.batch = writer.batch
         \/ /\ results # <<>> /\ Head(results) # Sentinel /\ results' = Tail(results)
            /\ writer'.pc \in {"pop", "write"}
            /\ writer'.batch = Append(writer.batch, Head(results))
  BY SMTT(30) DEF IInv, TypeOK, Pop, files, base, Scans, Seens, Counts, files, base, pool
<1>3. Pending' = Pending
  <2>1. results \in Seq(Results \cup {Sentinel}) /\ writer.batch \in Seq(Results)
    BY DEF IInv, TypeOK
  <2>2. results # <<>> => Entries(results) = Entries(Tail(results)) \cup {Head(results)}
    BY <2>1, EntriesTail
  <2>3. ASSUME results # <<>>, Head(results) # Sentinel
        PROVE  Entries(Append(writer.batch, Head(results))) =
                  Entries(writer.batch) \cup {Head(results)}
    <3>1. Head(results) \in Results
      BY <2>1, <2>3, EntriesTail
    <3> QED
      BY <2>1, <3>1, EntriesAppend
  <2> QED
    BY <1>2, <2>2, <2>3 DEF Pending, Waiting
<1>4. Dated'
  BY <1>2, <1>3, Numbers, WriterIsExtraction DEF IInv, Dated, Old, Alone
<1>5. Quiet'
  BY <1>2, <1>3, Numbers, WriterIsExtraction DEF IInv, Quiet, Alone, Begun
<1>6. Views'
  BY <1>2, <1>3, Numbers, WriterIsExtraction DEF IInv, Views, Alone
<1>7. WalkFacts'
  BY <1>2, <1>3, Numbers, WriterIsExtraction DEF IInv, WalkFacts, There, Alone
<1>8. OnItsWay'
  BY <1>2, <1>3, Numbers, WriterIsExtraction DEF IInv, OnItsWay, Newer, Alone
<1>9. Differs'
  BY <1>2, <1>3, Numbers, WriterIsExtraction DEF IInv, Differs, PCs, Alone
<1>10. RecordsSound'
  BY <1>2, <1>3, Numbers, WriterIsExtraction DEF IInv, RecordsSound, Sound, Alone
<1>11. LastWord'
  <2>1. results \in Seq(Results \cup {Sentinel})
    BY DEF IInv, TypeOK
  <2>2. \A i \in DOMAIN results : results[i] = Sentinel => i = Len(results) /\ scan.pc = "writer"
    BY DEF IInv, LastWord
  <2>3. CASE results = <<>>
    BY <1>2, <2>3 DEF IInv, LastWord
  <2>4. CASE results # <<>>
    <3>1. /\ DOMAIN Tail(results) = 1 .. Len(results) - 1
          /\ Len(Tail(results)) = Len(results) - 1
          /\ \A i \in 1 .. Len(results) - 1 : Tail(results)[i] = results[i + 1]
          /\ DOMAIN results = 1 .. Len(results) /\ Head(results) = results[1]
          /\ Len(results) \in Nat \ {0} /\ (Len(results) = 1 => Tail(results) = <<>>)
      BY <2>1, <2>4, EntriesTail
    <3>2. results' = Tail(results)
      BY <1>2, <2>4
    <3>3. ASSUME NEW i \in DOMAIN results', results'[i] = Sentinel
          PROVE  i = Len(results') /\ scan'.pc = "writer"
      <4>1. i \in 1 .. Len(results) - 1 /\ results[i + 1] = Sentinel
        BY <3>1, <3>2, <3>3
      <4>2. i + 1 = Len(results) /\ scan.pc = "writer"
        BY <2>2, <3>1, <4>1
      <4>3. i + 1 = Len(results) /\ i \in Int => i = Len(results) - 1
        BY <3>1
      <4>4. i = Len(Tail(results))
        BY <3>1, <4>1, <4>2, <4>3
      <4> QED
        BY <1>2, <3>2, <4>2, <4>4
    <3>4. ASSUME Head(results) = Sentinel PROVE results' = <<>> /\ scan'.pc = "writer"
      <4>1. 1 \in DOMAIN results /\ results[1] = Sentinel
        BY <3>1, <3>4
      <4>2. Len(results) = 1 /\ scan.pc = "writer"
        BY <2>2, <4>1
      <4> QED
        BY <1>2, <3>1, <3>2, <4>2
    <3> QED
      BY <1>2, <2>4, <3>3, <3>4 DEF LastWord
  <2> QED
    BY <2>3, <2>4
<1>12. UntouchedGone'
  BY <1>2, <1>3, Numbers, WriterIsExtraction DEF IInv, UntouchedGone, UntouchedFacts, There,
     Walked, Walking, PCs, Alone
<1>13. UntouchedThere'
  BY <1>2, <1>3, Numbers, WriterIsExtraction DEF IInv, UntouchedThere, UntouchedFacts, There,
     Walked, Walking, PCs, Alone
<1>14. InFlight'
  BY <1>2, <1>3, Numbers, WriterIsExtraction DEF IInv, InFlight, UntouchedFacts, Alone
<1> QED
  BY <1>1, <1>4, <1>5, <1>6, <1>7, <1>8, <1>9, <1>10, <1>11, <1>12, <1>13, <1>14 DEF IInv,
     UntouchedFacts

\* Write keeps the invariant.
LEMMA WriteStep ==
    ASSUME IInv, Write
    PROVE  IInv'
<1> DEFINE b == Head(writer.batch).album
<1>1. TypeOK'
  BY TWrite DEF IInv
<1>2. /\ disk' = disk /\ mounted' = mounted
      /\ count'.version = count.version
      /\ txn' = txn /\ scan' = scan /\ task' = task /\ results' = results
      /\ writer'.pc = writer.pc /\ writer.batch # <<>> /\ writer'.batch = Tail(writer.batch)
      /\ writer.pc \in {"write", "last"}
      /\ seen'.touched = seen.touched /\ seen'.absent = seen.absent
      /\ lib' = IF txn THEN lib ELSE work'
      /\ \A c \in Albums \ {b} : work'[c] = work[c]
      /\ \/ work' = work /\ done' = done /\ seen' = seen /\ scan.cancel
         \/ /\ work'[b].row /\ work'[b].tracks = Head(writer.batch).tracks
            /\ work'[b].recorded = work[b].recorded
            /\ done' = done \cup {b} /\ seen'.lost = seen.lost \ {b}
         \/ /\ work'[b].row /\ work'[b].tracks = work[b].tracks
            /\ work'[b].recorded = work[b].recorded
            /\ done' = done \cup {b} /\ seen'.lost = seen.lost \cup {b}
         \/ work' = work /\ done' = done /\ seen'.lost = seen.lost \cup {b}
  <2>0. scan \in Scans /\ seen \in Seens
    BY DEF IInv, TypeOK, Scans, Seens
  <2>1. disk' = disk /\ mounted' = mounted
    BY <2>0 DEF Write, files, base, pool, Event, IInv, TypeOK, Scans, Seens
  <2>2. count'.version = count.version
    BY <2>0 DEF Write, files, base, pool, Event, IInv, TypeOK, Scans, Seens
  <2>3. txn' = txn /\ scan' = scan /\ task' = task /\ results' = results
    BY <2>0 DEF Write, files, base, pool, Event, IInv, TypeOK, Scans, Seens
  <2>4. writer'.pc = writer.pc /\ writer.batch # <<>> /\ writer'.batch = Tail(writer.batch)
    BY <2>0 DEF Write, files, base, pool, Event, IInv, TypeOK, Scans, Seens
  <2>5. writer.pc \in {"write", "last"}
    BY <2>0 DEF Write, files, base, pool, Event, IInv, TypeOK, Scans, Seens
  <2>6. seen'.touched = seen.touched /\ seen'.absent = seen.absent
    BY <2>0 DEF Write, files, base, pool, Event, IInv, TypeOK, Scans, Seens
  <2>7. lib' = IF txn THEN lib ELSE work'
    BY <2>0 DEF Write, files, base, pool, Event, IInv, TypeOK, Scans, Seens
  <2>8. \A c \in Albums \ {b} : work'[c] = work[c]
    BY <2>0 DEF Write, files, base, pool, Event, IInv, TypeOK, Scans, Seens
  <2>9. \/ work' = work /\ done' = done /\ seen' = seen /\ scan.cancel
        \/ /\ work'[b].row /\ work'[b].tracks = Head(writer.batch).tracks
           /\ work'[b].recorded = work[b].recorded
           /\ done' = done \cup {b} /\ seen'.lost = seen.lost \ {b}
        \/ /\ work'[b].row /\ work'[b].tracks = work[b].tracks
           /\ work'[b].recorded = work[b].recorded
           /\ done' = done \cup {b} /\ seen'.lost = seen.lost \cup {b}
        \/ work' = work /\ done' = done /\ seen'.lost = seen.lost \cup {b}
    <3>1. b \in Albums /\ work \in [Albums -> Rows]
      BY WriteHead DEF Write, IInv, TypeOK
    <3>2. \A v : /\ [work EXCEPT ![b] = Stored(b, v)][b].row
                /\ [work EXCEPT ![b] = Stored(b, v)][b].tracks = v
                /\ [work EXCEPT ![b] = Stored(b, v)][b].recorded = work[b].recorded
      BY <3>1 DEF Stored
    <3>3. \/ work' = work /\ done' = done /\ seen' = seen /\ scan.cancel
          \/ /\ work' = [work EXCEPT ![b] = Stored(b, Head(writer.batch).tracks)]
             /\ seen' = [seen EXCEPT !.lost = @ \ {b}]
             /\ done' = done \cup {b}
          \/ /\ work' = [work EXCEPT ![b] = Stored(b, work[b].tracks)]
             /\ seen' = [seen EXCEPT !.lost = @ \cup {b}]
             /\ done' = done \cup {b}
          \/ work' = work /\ done' = done /\ seen' = [seen EXCEPT !.lost = @ \cup {b}]
      BY DEF Write
    <3> HIDE DEF b
    <3>4. [seen EXCEPT !.lost = @ \ {b}].lost = seen.lost \ {b}
      BY <2>0 DEF Seens
    <3>5. [seen EXCEPT !.lost = @ \cup {b}].lost = seen.lost \cup {b}
      BY <2>0 DEF Seens
    <3> QED
      BY ZenonT(60), <3>2, <3>3, <3>4, <3>5
  <2> QED
    BY <2>1, <2>2, <2>3, <2>4, <2>5, <2>6, <2>7, <2>8, <2>9
<1>3. /\ Pending = Pending' \cup {Head(writer.batch)} /\ Head(writer.batch) \in Results
      /\ Head(writer.batch).album = b /\ b \in Albums
  <2>1. writer.batch \in Seq(Results)
    BY DEF IInv, TypeOK
  <2>2. /\ Entries(writer.batch) = Entries(Tail(writer.batch)) \cup {Head(writer.batch)}
        /\ Head(writer.batch) \in Results
    BY <1>2, <2>1, EntriesTail
  <2>3. Waiting' = Waiting
    BY <1>2 DEF Waiting
  <2>4. b \in Albums
    BY <1>2, WriteHead DEF IInv
  <2> QED
    BY <1>2, <2>2, <2>3, <2>4 DEF Pending
<1> HIDE DEF b
<1>4. Dated'
  BY SMTT(30), <1>2, <1>3, Numbers, WriterIsExtraction DEF IInv, Dated, Old, Alone, Views, OnItsWay, Newer
<1>5. Quiet'
  BY <1>2, <1>3, Numbers, WriterIsExtraction DEF IInv, Quiet, Alone, Begun, Views, OnItsWay, Newer
<1>6. Views'
  BY <1>2, <1>3, Numbers, WriterIsExtraction DEF IInv, Views, Alone, OnItsWay, Newer
<1>7. WalkFacts'
  BY <1>2, <1>3, Numbers, WriterIsExtraction DEF IInv, WalkFacts, There, Alone, Views, OnItsWay,
     Newer
<1>8. OnItsWay'
  BY <1>2, <1>3, Numbers, WriterIsExtraction DEF IInv, OnItsWay, Newer, Alone, Views
<1>9. Differs'
  BY <1>2, <1>3, Numbers, WriterIsExtraction DEF IInv, Differs, PCs, Alone, Views, OnItsWay, Newer
<1>10. RecordsSound'
  <2> DEFINE v == Head(writer.batch).tracks
  <2>1. scan.items[b] # 0 /\ scan.items[b] <= v
    BY <1>3 DEF IInv, OnItsWay, Newer
  <2>2. lib[b].recorded < scan.items[b] /\ work[b].recorded < scan.items[b]
    BY <1>2, <1>3, <2>1, WriterIsExtraction DEF IInv, Differs, PCs, Alone
  <2>3. disk[b] # 0 => scan.items[b] <= disk[b]
    BY <1>3 DEF IInv, Dated, Old
  <2>4. ASSUME NEW c \in Albums, c = b PROVE Sound(c, lib[c])' /\ Sound(c, work[c])'
    <3>1. /\ \A n \in {lib[b], work[b]} : /\ n.recorded \in Nat /\ n.tracks \in Nat
      /\ scan.items[b] \in Nat /\ disk[b] \in Nat /\ v \in Nat
      BY <1>3, Numbers DEF IInv, Results, Versions
    <3>2. \A n \in {lib[b], work[b]} : n.recorded <= n.tracks \/ n.recorded # disk[b]
      BY <2>2, <2>3, <3>1
    <3>3. work'[b].recorded <= work'[b].tracks \/ work'[b].recorded # disk[b]
      BY <1>2, <2>1, <2>2, <3>1, <3>2
    <3>4. \A n \in {lib[b], work[b], work'[b]} : n.recorded <= n.tracks \/ n.recorded # disk[b]
      BY <3>2, <3>3
    <3>5. lib'[b] \in {lib[b], work'[b]} /\ disk'[b] = disk[b]
      BY <1>2
    <3> QED
      BY <2>4, <3>4, <3>5 DEF Sound
  <2>5. \A c \in Albums \ {b} : Sound(c, lib[c])' /\ Sound(c, work[c])'
    BY <1>2 DEF IInv, RecordsSound, Sound
  <2>6. \A c \in Albums : Sound(c, lib[c])' /\ Sound(c, work[c])'
    BY <2>4, <2>5
  <2> QED
    BY <2>6, Zenon DEF RecordsSound
<1>11. LastWord'
  BY <1>2, <1>3, Numbers, WriterIsExtraction DEF IInv, LastWord, Alone, Views, OnItsWay, Newer
<1>12. UntouchedGone'
  BY <1>2, <1>3, Numbers, WriterIsExtraction DEF IInv, UntouchedGone, UntouchedFacts, There,
     Walked, Walking, PCs, Alone, Views, OnItsWay, Newer
<1>13. UntouchedThere'
  BY <1>2, <1>3, Numbers, WriterIsExtraction DEF IInv, UntouchedThere, UntouchedFacts, There,
     Walked, Walking, PCs, Alone, Views, OnItsWay, Newer
<1>14. InFlight'
  BY <1>2, <1>3, Numbers, WriterIsExtraction DEF IInv, InFlight, UntouchedFacts, Alone, Views,
     OnItsWay, Newer
<1> QED
  BY <1>1, <1>4, <1>5, <1>6, <1>7, <1>8, <1>9, <1>10, <1>11, <1>12, <1>13, <1>14 DEF IInv,
     UntouchedFacts

\* Commit keeps the invariant.
LEMMA CommitStep ==
    ASSUME IInv, Commit
    PROVE  IInv'
<1>1. TypeOK'
  BY TCommit DEF IInv
<1>2. /\ disk' = disk /\ mounted' = mounted
      /\ count'.version = count.version
      /\ scan' = scan /\ task' = task /\ results' = results /\ done' = done
      /\ writer.batch = <<>> /\ writer'.batch = <<>>
      /\ writer'.pc = IF writer.pc = "last" THEN "end" ELSE "pop"
      /\ writer.pc \in {"write", "last"}
      /\ seen'.touched = seen.touched /\ seen'.absent = seen.absent
      /\ txn' = (writer.pc # "last")
      /\ \/ lib' = work /\ work' = work /\ seen' = seen
         \/ /\ lib' = lib /\ work' = lib
            /\ seen'.lost = seen.lost \cup {c \in Albums : work[c] # lib[c]}
  BY ZenonT(60) DEF IInv, TypeOK, Commit, Event, files, Scans, Seens, Counts, files, base, pool
<1>3. Pending' = Pending
  BY <1>2 DEF Pending, Waiting
<1>4. Dated'
  BY <1>2, <1>3, Numbers, WriterIsExtraction DEF IInv, Dated, Old, Alone, Views, OnItsWay, Newer
<1>5. Quiet'
  BY <1>2, <1>3, Numbers, WriterIsExtraction DEF IInv, Quiet, Alone, Begun, Views, OnItsWay, Newer
<1>6. Views'
  BY <1>2, <1>3, Numbers, WriterIsExtraction DEF IInv, Views, Alone, OnItsWay, Newer
<1>7. WalkFacts'
  BY <1>2, <1>3, Numbers, WriterIsExtraction DEF IInv, WalkFacts, There, Alone, Views, OnItsWay,
     Newer
<1>8. OnItsWay'
  BY <1>2, <1>3, Numbers, WriterIsExtraction DEF IInv, OnItsWay, Newer, Alone, Views
<1>9. Differs'
  BY <1>2, <1>3, Numbers, WriterIsExtraction DEF IInv, Differs, PCs, Alone, Views, OnItsWay, Newer
<1>10. RecordsSound'
  BY <1>2, <1>3, Numbers, WriterIsExtraction DEF IInv, RecordsSound, Sound, Alone, Views, OnItsWay,
     Newer
<1>11. LastWord'
  BY <1>2, <1>3, Numbers, WriterIsExtraction DEF IInv, LastWord, Alone, Views, OnItsWay, Newer
<1>12. UntouchedGone'
  BY <1>2, <1>3, Numbers, WriterIsExtraction DEF IInv, UntouchedGone, UntouchedFacts, There,
     Walked, Walking, PCs, Alone, Views, OnItsWay, Newer
<1>13. UntouchedThere'
  BY <1>2, <1>3, Numbers, WriterIsExtraction DEF IInv, UntouchedThere, UntouchedFacts, There,
     Walked, Walking, PCs, Alone, Views, OnItsWay, Newer
<1>14. InFlight'
  BY <1>2, <1>3, Numbers, WriterIsExtraction DEF IInv, InFlight, UntouchedFacts, Alone, Views,
     OnItsWay, Newer
<1> QED
  BY <1>1, <1>4, <1>5, <1>6, <1>7, <1>8, <1>9, <1>10, <1>11, <1>12, <1>13, <1>14 DEF IInv,
     UntouchedFacts

-----------------------------------------------------------------------------
\* The states the program starts in satisfy the invariant.
LEMMA FirstScan == Init => IInv
<1> SUFFICES ASSUME Init PROVE IInv
  OBVIOUS
<1>1. 1 \in Versions /\ 1 <= MaxVersion /\ MaxVersion \in Nat
  BY VersionAssumption DEF Versions
<1>2. /\ [scans |-> 0, events |-> 0, version |-> 1] \in Counts
      /\ [absent |-> {}, touched |-> {}, lost |-> {}] \in Seens
  BY <1>1, BoundAssumption DEF Counts, Seens
<1>3. TypeOK
  <2>1. 1 \in 0 .. MaxVersion
    BY <1>1
  <2>2. disk \in [Albums -> 0 .. MaxVersion] /\ mounted \in BOOLEAN
    BY <2>1 DEF Init
  <2>3. lib \in [Albums -> Rows] /\ work \in [Albums -> Rows] /\ txn \in BOOLEAN
    BY Constants DEF Init
  <2>4. scan \in Scans /\ writer \in Writers /\ task \in [Albums -> Tasks]
    BY Constants DEF Init
  <2>5. results \in Seq(Results \cup {Sentinel}) /\ done \subseteq Albums
    BY DEF Init
  <2>6. count \in Counts /\ seen \in Seens
    BY <1>2 DEF Init
  <2> QED
    BY <2>2, <2>3, <2>4, <2>5, <2>6 DEF TypeOK, Scans, Tasks, Writers, Counts, Seens
<1>4. Pending = {}
  BY NoEntries DEF Init, NoWriter, Pending, Waiting
<1>5. Dated
  BY <1>1, <1>4 DEF Init, Dated, Old, NoScan, NoTask, Absent
<1>6. Quiet /\ Views /\ WalkFacts /\ Differs /\ LastWord
  BY <1>1 DEF Init, Quiet, Views, WalkFacts, Differs, LastWord, Alone, Begun, NoTask, NoWriter,
              NoScan, Absent, There
<1>7. OnItsWay /\ RecordsSound
  BY <1>1, <1>4 DEF Init, OnItsWay, RecordsSound, Sound, Newer, NoTask, NoScan, Absent
<1>8. UntouchedFacts
  BY <1>1 DEF Init, UntouchedFacts, UntouchedGone, UntouchedThere, InFlight, There, NoTask, NoScan,
              Walked, Walking
<1> QED
  BY <1>3, <1>5, <1>6, <1>7, <1>8 DEF IInv

\* Every step of the scan, of its threads and of the world around them keeps the invariant.
THEOREM Invariance == Spec => []IInv
<1>1. Init => IInv
  BY FirstScan
<1>2. ASSUME IInv, [Next]_vars PROVE IInv'
  <2>1. CASE Start
    BY <1>2, <2>1, StartStep
  <2>2. CASE OpenFails
    BY <1>2, <2>2, OpenFailsStep
  <2>3. CASE Load
    BY <1>2, <2>3, LoadStep
  <2>4. CASE WalkEnds
    BY <1>2, <2>4, WalkEndsStep
  <2>5. CASE Prune
    BY <1>2, <2>5, PruneStep
  <2>6. CASE StartMetadata
    BY <1>2, <2>6, StartMetadataStep
  <2>7. CASE WaitEnds
    BY <1>2, <2>7, WaitEndsStep
  <2>8. CASE JoinPool
    BY <1>2, <2>8, JoinPoolStep
  <2>9. CASE JoinWriter
    BY <1>2, <2>9, JoinWriterStep
  <2>10. CASE Finalize
    BY <1>2, <2>10, FinalizeStep
  <2>11. CASE Enrich
    BY <1>2, <2>11, EnrichStep
  <2>12. ASSUME NEW a \in Albums, Walk(a) PROVE IInv'
    BY <1>2, <2>12, WalkStep
  <2>13. ASSUME NEW a \in Albums, List(a) PROVE IInv'
    BY <1>2, <2>13, ListStep
  <2>14. ASSUME NEW a \in Albums, Extract(a) PROVE IInv'
    BY <1>2, <2>14, ExtractStep
  <2>15. CASE Pop
    BY <1>2, <2>15, PopStep
  <2>16. CASE Write
    BY <1>2, <2>16, WriteStep
  <2>17. CASE Commit
    BY <1>2, <2>17, CommitStep
  <2>18. CASE Cancel
    BY <1>2, <2>18, CancelStep
  <2>19. CASE Kill
    BY <1>2, <2>19, KillStep
  <2>20. CASE Unplug
    BY <1>2, <2>20, UnplugStep
  <2>21. CASE Replug
    BY <1>2, <2>21, ReplugStep
  <2>22. ASSUME NEW a \in Albums, ChangeDisk(a) PROVE IInv'
    BY <1>2, <2>22, ChangeDiskStep
  <2>23. CASE UNCHANGED vars
    BY <1>2, <2>23 DEF vars, IInv, TypeOK, Dated, Old, Quiet, Views, WalkFacts, There, OnItsWay,
       Newer, Differs, RecordsSound, Sound, LastWord, UntouchedFacts, UntouchedGone,
       UntouchedThere, InFlight, Pending, Waiting
  <2> QED
    BY <1>2, <2>1, <2>2, <2>3, <2>4, <2>5, <2>6, <2>7, <2>8, <2>9, <2>10, <2>11, <2>12, <2>13,
       <2>14, <2>15, <2>16, <2>17, <2>18, <2>19, <2>20, <2>21, <2>22, <2>23
    DEF Next, WorkerStep, PoolStep, WriterStep
<1> QED
  BY <1>1, <1>2, PTL DEF Spec

\* What the next scan will skip is stored as it would be found.
LEMMA SkippedIsStored == IInv => RecordedIsStored
<1> SUFFICES ASSUME IInv, NEW a \in Albums, lib[a].row, lib[a].recorded # 0,
                    lib[a].recorded = disk[a], a \notin seen.lost
             PROVE  lib[a].tracks = disk[a]
  BY DEF RecordedIsStored
<1>1. lib[a].recorded <= lib[a].tracks
  BY DEF IInv, RecordsSound, Sound
<1>2. lib[a].tracks <= disk[a]
  BY DEF IInv, Dated, Old
<1>3. lib[a].tracks \in Nat /\ disk[a] \in Nat
  BY Numbers DEF IInv
<1> QED
  BY <1>1, <1>2, <1>3

\* An uneventful scan ends with what is in the folder.
LEMMA EndIsCurrent == IInv => UpdatedIsCurrent
<1> SUFFICES ASSUME IInv, scan.pc = "enrich", ~scan.cancel,
                    NEW a \in Albums \ (seen.touched \cup seen.lost)
             PROVE  IF ~There(a) THEN ~lib[a].row
                    ELSE disk[a] \in Broken \/ (lib[a].row /\ lib[a].tracks = disk[a])
  BY DEF UpdatedIsCurrent
<1>1. CASE ~There(a)
  BY <1>1 DEF IInv, UntouchedFacts, UntouchedGone, Walked, Walking, PCs
<1>2. CASE There(a)
  <2>1. scan.todo = {} /\ work = lib
    BY AloneIsQuiet DEF IInv, WalkFacts, Alone
  <2>2. scan.items[a] # 0 \/ disk[a] \in Broken \/ lib[a].recorded = disk[a]
    BY <1>2, <2>1 DEF IInv, UntouchedFacts, UntouchedThere, Walked, PCs
  <2>3. CASE scan.items[a] # 0
    <3>1. a \in done /\ scan.items[a] = disk[a]
      BY <1>2, <2>3 DEF IInv, UntouchedFacts, InFlight, UntouchedThere
    <3>2. work[a].row /\ scan.items[a] <= work[a].tracks
      BY <3>1 DEF IInv, OnItsWay, Newer
    <3>3. lib[a].tracks <= disk[a]
      BY <1>2 DEF IInv, Dated, Old, There
    <3> QED
      BY <1>2, <2>1, <3>1, <3>2, <3>3, Numbers DEF IInv
  <2>4. CASE lib[a].recorded = disk[a]
    <3>1. lib[a].recorded # 0
      BY <1>2, <2>4 DEF There
    <3>2. lib[a].row
      BY <3>1 DEF IInv, Views
    <3> QED
      BY <1>2, <2>4, <3>1, <3>2, SkippedIsStored DEF RecordedIsStored
  <2> QED
    BY <1>2, <2>2, <2>3, <2>4
<1> QED
  BY <1>1, <1>2

\* ScanSound: what a reader or the next scan relies on, whatever becomes of this one.
THEOREM ScanAlwaysSound == Spec => []ScanSound
<1>1. IInv => ScanSound
  BY SkippedIsStored, EndIsCurrent DEF ScanSound, IInv
<1> QED
  BY <1>1, Invariance, PTL

\* Only the prune takes an album out of the database, and only one that was not there.
LEMMA StepPrunesAbsent ==
    ASSUME IInv, [Next]_vars, NEW a \in Albums, lib[a].row, ~lib'[a].row
    PROVE  a \in seen.absent
<1>1. CASE Prune
  <2>1. lib' = lib \/ lib' = [c \in Albums |-> IF c \in Orphans THEN Absent ELSE lib[c]]
    BY <1>1 DEF Prune
  <2>2. a \in Orphans
    BY <2>1 DEF IInv, TypeOK
  <2>3. scan.pc = "prune" /\ scan.cached[a].row /\ ~scan.cancel
    BY <1>1, <2>2 DEF Prune, Orphans
  <2> QED
    BY <2>3 DEF IInv, WalkFacts
<1>2. CASE Finalize
  <2>1. lib' = lib \/ lib' = [c \in Albums |-> Recorded(c)]
    BY <1>2 DEF Finalize
  <2>2. Recorded(a).row
    <3>1. lib[a] \in Rows /\ scan.items[a] \in 0 .. MaxVersion
      BY DEF IInv, TypeOK
    <3> QED
      BY <3>1, RowType DEF Recorded
  <2> QED
    BY <2>1, <2>2
<1>3. CASE Write
  <2>1. work[a].row /\ work \in [Albums -> Rows]
    BY DEF IInv, Views, TypeOK
  <2>2. \/ work' = work
        \/ \E v : work' = [work EXCEPT ![Head(writer.batch).album] =
                             Stored(Head(writer.batch).album, v)]
    BY <1>3 DEF Write
  <2>3. work'[a].row
    <3>1. ASSUME NEW b, NEW v, work' = [work EXCEPT ![b] = Stored(b, v)] PROVE work'[a].row
      <4>1. Stored(b, v).row
        BY DEF Stored
      <4> QED
        BY <2>1, <3>1, <4>1
    <3> QED
      BY <2>1, <2>2, <3>1
  <2>4. lib' = IF txn THEN lib ELSE work'
    BY <1>3 DEF Write
  <2> QED
    BY <2>3, <2>4
<1>4. CASE Commit
  <2>1. lib' = lib \/ lib' = work
    BY <1>4 DEF Commit
  <2> QED
    BY <2>1 DEF IInv, Views
<1>5. CASE UNCHANGED lib
  BY <1>5
<1>6. ASSUME \/ Start \/ OpenFails \/ Load \/ WalkEnds \/ StartMetadata \/ WaitEnds \/ JoinPool
             \/ JoinWriter \/ Enrich \/ Pop \/ Cancel \/ Kill \/ Unplug \/ Replug
             \/ \E c \in Albums : Walk(c) \/ List(c) \/ Extract(c) \/ ChangeDisk(c)
      PROVE  UNCHANGED lib
  BY <1>6 DEF base, Start, OpenFails, Load, WalkEnds, StartMetadata, WaitEnds, JoinPool,
     JoinWriter, Enrich, Pop, Cancel, Kill, Unplug, Replug, Walk, List, Extract, ChangeDisk
<1> QED
  BY <1>1, <1>2, <1>3, <1>4, <1>5, <1>6 DEF Next, WorkerStep, PoolStep, WriterStep, vars

\* OnlyAbsentPruned: an album that could be found throughout the scan is not deleted by it.
THEOREM OnlyAbsentIsPruned == Spec => OnlyAbsentPruned
<1>1. IInv /\ [Next]_vars =>
        [\A a \in Albums : lib[a].row /\ ~lib'[a].row => a \in seen.absent]_vars
  BY StepPrunesAbsent
<1> QED
  BY <1>1, Invariance, PTL DEF Spec, OnlyAbsentPruned


-----------------------------------------------------------------------------
(* Batches of scans: sequences of libraries and events *)

\* IndexerController, as MCIndexer instantiates it, has copies of the library's operators.
LEMMA SameSets == \A S : /\ Batches!Cardinality(S) = Cardinality(S)
                         /\ Batches!IsFiniteSet(S) = IsFiniteSet(S)
<1>1. ASSUME NEW S PROVE Batches!IsFiniteSet(S) = IsFiniteSet(S)
  BY DEF Batches!IsFiniteSet, IsFiniteSet
<1>2. ASSUME NEW S PROVE Batches!Cardinality(S) = Cardinality(S)
  BY <1>1 DEF Batches!Cardinality, Cardinality, Batches!IsFiniteSet, IsFiniteSet
<1>. QED BY <1>1, <1>2

LEMMA Least ==
  ASSUME NEW n \in Nat, NEW K, K \subseteq 0 .. n, K # {}
  PROVE  \E k \in K : \A j \in 0 .. k - 1 : j \notin K
<1> DEFINE S == 0 .. n  F == {0 .. k : k \in K}
<1>1. IsFiniteSet(S) /\ F \subseteq SUBSET S /\ F # {}
  <2>1. IsFiniteSet(S)
    <3>1. 0 \in Int /\ n \in Int
      OBVIOUS
    <3>. QED BY <3>1, FS_Interval
  <2>2. ASSUME NEW k \in K PROVE 0 .. k \subseteq S
    <3>1. k \in 0 .. n
      OBVIOUS
    <3>. QED BY <3>1
  <2>. QED BY <2>1, <2>2
<1>2. IsWellFoundedOn(StrictSubsetOrdering(S), SUBSET S)
  BY <1>1, FS_StrictSubsetOrderingWellFounded, FS_FiniteSubsetsOfFinite
<1>3. PICK T \in F : \A U \in F : <<U, T>> \notin StrictSubsetOrdering(S)
  <2> HIDE DEF F, S
  <2>. QED BY <1>1, <1>2, WFMin
<1>4. PICK k \in K : T = 0 .. k
  OBVIOUS
<1>5. ASSUME NEW j \in 0 .. k - 1, j \in K PROVE FALSE
  <2>1. 0 .. j \in F /\ 0 .. j \subseteq T /\ 0 .. j # T
    <3>1. j \in 0 .. n /\ k \in 0 .. n /\ j <= k - 1
      BY <1>5
    <3>2. k \in T /\ k \notin 0 .. j
      BY <1>4, <3>1
    <3>. QED BY <1>4, <1>5, <3>1, <3>2
  <2>. QED BY <1>1, <1>3, <2>1 DEF StrictSubsetOrdering
<1>. QED BY <1>5

LEMMA InSeq ==
  ASSUME NEW s \in Seq(Libs)
  PROVE  /\ Batches!ToSet(s) \subseteq Libs /\ DOMAIN s = 1 .. Len(s) /\ Len(s) \in Nat
         /\ \A i \in DOMAIN s : s[i] \in Batches!ToSet(s)
         /\ \A l \in Batches!ToSet(s) : \E i \in DOMAIN s : s[i] = l
         /\ IsFiniteSet(Batches!ToSet(s))
<1>1. /\ Batches!ToSet(s) \subseteq Libs /\ DOMAIN s = 1 .. Len(s) /\ Len(s) \in Nat
      /\ \A i \in DOMAIN s : s[i] \in Batches!ToSet(s)
      /\ \A l \in Batches!ToSet(s) : \E i \in DOMAIN s : s[i] = l
  BY DEF Batches!ToSet
<1>2. IsFiniteSet(1 .. Len(s))
  <2>1. 1 \in Int /\ Len(s) \in Int
    BY <1>1
  <2>. QED BY <2>1, FS_Interval
<1>3. IsFiniteSet(Batches!ToSet(s))
  <2>1. s \in [1 .. Len(s) -> Batches!ToSet(s)] /\ \A l \in Batches!ToSet(s) : \E i \in 1 .. Len(s) : s[i] = l
    BY <1>1
  <2>2. s \in Surjection(1 .. Len(s), Batches!ToSet(s))
    BY <2>1 DEF Surjection
  <2>. QED BY <1>2, <2>2, FS_Surjection
<1>. QED BY <1>1, <1>3

LEMMA EmptyQueue == Batches!ToSet(<<>>) = {} /\ Batches!IsInjective(<<>>) /\ <<>> \in Seq(Libs)
BY DEF Batches!ToSet, Batches!IsInjective

\* What is left of a queue from its n-th element on.
LEMMA RestFacts ==
  ASSUME NEW s \in Seq(Libs), Batches!IsInjective(s), NEW n \in 0 .. Len(s)
  PROVE  LET r == SubSeq(s, n + 1, Len(s)) IN
         /\ r \in Seq(Libs) /\ Batches!IsInjective(r) /\ Batches!ToSet(r) \subseteq Batches!ToSet(s)
         /\ \A i \in 1 .. n : s[i] \notin Batches!ToSet(r)
         /\ r # <<>> => n < Len(s)
<1> DEFINE r == SubSeq(s, n + 1, Len(s))
<1>1. DOMAIN s = 1 .. Len(s) /\ Len(s) \in Nat /\ n \in Nat /\ n <= Len(s)
  BY InSeq
<1>2. /\ r \in Seq(Libs) /\ Len(r) = Len(s) - n
      /\ \A i \in 1 .. Len(s) - n : r[i] = s[n + i]
  <2>1. \A i \in n + 1 .. Len(s) : s[i] \in Libs
    BY <1>1
  <2>2. r = SubSeq(s, n + 1, Len(s))
    OBVIOUS
  <2>. HIDE DEF r
  <2>3. n + 1 \in Int /\ Len(s) \in Int
    BY <1>1
  <2>4. /\ r \in Seq(Libs) /\ Len(r) = IF n + 1 <= Len(s) THEN Len(s) - (n + 1) + 1 ELSE 0
        /\ \A i \in 1 .. Len(s) - (n + 1) + 1 : r[i] = s[n + 1 + i - 1]
    BY <2>1, <2>2, <2>3, SubSeqProperties
  <2>5. Len(r) = Len(s) - n
    <3>1. CASE n + 1 <= Len(s)
      <4>1. Len(r) = Len(s) - (n + 1) + 1
        BY <2>4, <3>1
      <4>. QED BY <1>1, <4>1
    <3>2. CASE ~(n + 1 <= Len(s))
      <4>1. Len(r) = 0
        BY <2>4, <3>2
      <4>2. Len(s) - n = 0
        <5>1. n \in Int /\ Len(s) \in Int /\ n <= Len(s)
          BY <1>1
        <5>2. n = Len(s)
          BY <3>2, <5>1
        <5>. QED BY <5>1, <5>2
      <4>. QED BY <4>1, <4>2
    <3>. QED BY <3>1, <3>2
  <2>6. ASSUME NEW i \in 1 .. Len(s) - n PROVE r[i] = s[n + i]
    <3>1. i \in 1 .. Len(s) - (n + 1) + 1 /\ n + 1 + i - 1 = n + i
      BY <1>1
    <3>2. r[i] = s[n + 1 + i - 1]
      BY <2>4, <3>1
    <3>. QED BY <3>1, <3>2
  <2>. QED BY <2>4, <2>5, <2>6
<1> HIDE DEF r
<1>3. DOMAIN r = 1 .. Len(s) - n /\ (r # <<>> => n < Len(s))
  BY <1>1, <1>2
<1>4. Batches!IsInjective(r)
  <2> SUFFICES ASSUME NEW i \in DOMAIN r, NEW j \in DOMAIN r, r[i] = r[j] PROVE i = j
    BY DEF Batches!IsInjective
  <2>1. n + i \in DOMAIN s /\ n + j \in DOMAIN s /\ s[n + i] = s[n + j]
    <3>1. i \in 1 .. Len(s) - n /\ j \in 1 .. Len(s) - n
      BY <1>3
    <3>2. n + i \in 1 .. Len(s) /\ n + j \in 1 .. Len(s)
      BY <1>1, <3>1
    <3>. QED BY <1>1, <1>2, <3>1, <3>2
  <2>2. n + i = n + j
    BY <2>1 DEF Batches!IsInjective
  <2>. QED BY <1>1, <1>3, <2>2
<1>5. \A x \in Batches!ToSet(r) : \E i \in n + 1 .. Len(s) : x = s[i]
  <2> SUFFICES ASSUME NEW j \in DOMAIN r PROVE \E i \in n + 1 .. Len(s) : r[j] = s[i]
    BY DEF Batches!ToSet
  <2>1. j \in 1 .. Len(s) - n
    BY <1>3
  <2>2. n + j \in n + 1 .. Len(s)
    BY <1>1, <2>1
  <2>. QED BY <1>2, <2>1, <2>2
<1>6. Batches!ToSet(r) \subseteq Batches!ToSet(s)
  BY SMTT(30), <1>1, <1>5 DEF Batches!ToSet
<1>7. ASSUME NEW i \in 1 .. n, s[i] \in Batches!ToSet(r) PROVE FALSE
  <2>1. PICK j \in n + 1 .. Len(s) : s[i] = s[j]
    BY <1>5, <1>7
  <2>2. i \in DOMAIN s /\ j \in DOMAIN s /\ i # j
    BY <1>1
  <2>. QED BY <2>1, <2>2 DEF Batches!IsInjective
<1>. QED BY <1>2, <1>3, <1>4, <1>6, <1>7 DEF r

\* Removing a library that waits leaves the others as they are.
LEMMA RemovalFacts ==
  ASSUME NEW s \in Seq(Libs), Batches!IsInjective(s), NEW l
  PROVE  LET r == Batches!RemoveFirst(s, l) IN
         r \in Seq(Libs) /\ Batches!IsInjective(r) /\ Batches!ToSet(r) \subseteq Batches!ToSet(s) /\
             (s = <<>> => r = <<>>)
<1> DEFINE r == Batches!RemoveFirst(s, l)
           I == {i \in 1 .. Len(s) : s[i] = l}
<1>1. DOMAIN s = 1 .. Len(s) /\ Len(s) \in Nat
  BY InSeq
<1>2. CASE ~\E i \in 1 .. Len(s) : s[i] = l
  BY <1>2 DEF Batches!RemoveFirst
<1>3. CASE \E i \in 1 .. Len(s) : s[i] = l
  <2>1. PICK i \in 1 .. Len(s) : s[i] = l
    BY <1>3
  <2>2. I = {i}
    BY <1>1, <2>1 DEF Batches!IsInjective
  <2>3. Batches!Min(I) = i
    <3> HIDE DEF I
    <3>1. \A y \in I : i <= y
      BY <2>2
    <3>. QED BY <2>2, <3>1 DEF Batches!Min
  <2>4. r = SubSeq(s, 1, i - 1) \o SubSeq(s, i + 1, Len(s))
    <3>1. Batches!SelectInSeq(s, LAMBDA v : v = l) = i
      BY <2>2, <2>3 DEF Batches!SelectInSeq
    <3>. QED BY <1>3, <3>1 DEF Batches!RemoveFirst, Batches!RemoveAt
  <2> HIDE DEF r, I
  <2>5. /\ SubSeq(s, 1, i - 1) \in Seq(Libs) /\ Len(SubSeq(s, 1, i - 1)) = i - 1
        /\ \A j \in 1 .. i - 1 : SubSeq(s, 1, i - 1)[j] = s[j]
    <3>1. 1 \in Int /\ i - 1 \in Int /\ \A j \in 1 .. i - 1 : s[j] \in Libs
      BY <1>1
    <3>2. /\ SubSeq(s, 1, i - 1) \in Seq(Libs)
          /\ Len(SubSeq(s, 1, i - 1)) = IF 1 <= i - 1 THEN i - 1 - 1 + 1 ELSE 0
          /\ \A j \in 1 .. i - 1 - 1 + 1 : SubSeq(s, 1, i - 1)[j] = s[1 + j - 1]
      BY <3>1, SubSeqProperties
    <3>. QED BY <3>2
  <2>6. /\ SubSeq(s, i + 1, Len(s)) \in Seq(Libs) /\ Len(SubSeq(s, i + 1, Len(s))) = Len(s) - i
        /\ \A j \in 1 .. Len(s) - i : SubSeq(s, i + 1, Len(s))[j] = s[i + j]
    <3>1. i + 1 \in Int /\ Len(s) \in Int /\ \A j \in i + 1 .. Len(s) : s[j] \in Libs
      BY <1>1
    <3>2. /\ SubSeq(s, i + 1, Len(s)) \in Seq(Libs)
          /\ Len(SubSeq(s, i + 1, Len(s))) = IF i + 1 <= Len(s) THEN Len(s) - (i + 1) + 1 ELSE 0
          /\ \A j \in 1 .. Len(s) - (i + 1) + 1 : SubSeq(s, i + 1, Len(s))[j] = s[i + 1 + j - 1]
      BY <3>1, SubSeqProperties
    <3> DEFINE r2 == SubSeq(s, i + 1, Len(s))
    <3> HIDE DEF r2
    <3>3. /\ r2 \in Seq(Libs) /\ Len(r2) = IF i + 1 <= Len(s) THEN Len(s) - (i + 1) + 1 ELSE 0
          /\ \A j \in 1 .. Len(s) - (i + 1) + 1 : r2[j] = s[i + 1 + j - 1]
      BY <3>2 DEF r2
    <3>4. Len(r2) = Len(s) - i
      <4>1. CASE i + 1 <= Len(s)
        <5>1. Len(r2) = Len(s) - (i + 1) + 1
          BY <3>3, <4>1
        <5>. QED BY <1>1, <5>1
      <4>2. CASE ~(i + 1 <= Len(s))
        <5>1. Len(r2) = 0
          BY <3>3, <4>2
        <5>2. Len(s) - i = 0
          <6>1. i \in Int /\ Len(s) \in Int /\ i <= Len(s)
            BY <1>1
          <6>2. i = Len(s)
            BY <4>2, <6>1
          <6>. QED BY <6>1, <6>2
        <5>. QED BY <5>1, <5>2
      <4>. QED BY <4>1, <4>2
    <3>5. ASSUME NEW j \in 1 .. Len(s) - i PROVE r2[j] = s[i + j]
      <4>1. j \in 1 .. Len(s) - (i + 1) + 1 /\ i + 1 + j - 1 = i + j
        BY <1>1
      <4>2. r2[j] = s[i + 1 + j - 1]
        BY <3>3, <4>1
      <4>. QED BY <4>1, <4>2
    <3>. QED BY <3>3, <3>4, <3>5 DEF r2
  <2>7. /\ r \in Seq(Libs) /\ Len(r) = Len(s) - 1 /\ DOMAIN r = 1 .. Len(s) - 1
        /\ \A j \in 1 .. Len(s) - 1 : r[j] = IF j < i THEN s[j] ELSE s[j + 1]
    <3>1. /\ r \in Seq(Libs) /\ Len(r) = i - 1 + (Len(s) - i)
          /\ \A j \in 1 .. i - 1 + (Len(s) - i) :
                r[j] = IF j <= i - 1 THEN SubSeq(s, 1, i - 1)[j] ELSE SubSeq(s, i + 1, Len(s))[j - (i - 1)]
      <4> DEFINE one == SubSeq(s, 1, i - 1)  two == SubSeq(s, i + 1, Len(s))
      <4>1. /\ one \o two \in Seq(Libs) /\ Len(one \o two) = Len(one) + Len(two)
            /\ \A j \in 1 .. Len(one) + Len(two) :
                  (one \o two)[j] = IF j <= Len(one) THEN one[j] ELSE two[j - Len(one)]
        BY <2>5, <2>6, ConcatProperties
      <4>2. Len(one) = i - 1 /\ Len(two) = Len(s) - i /\ r = one \o two
        BY <2>4, <2>5, <2>6
      <4> HIDE DEF one, two
      <4>3. /\ r \in Seq(Libs) /\ Len(r) = i - 1 + (Len(s) - i)
            /\ \A j \in 1 .. i - 1 + (Len(s) - i) :
                  r[j] = IF j <= i - 1 THEN one[j] ELSE two[j - (i - 1)]
        BY <4>1, <4>2
      <4>. QED BY <4>3 DEF one, two
    <3>2. i - 1 + (Len(s) - i) = Len(s) - 1
      BY <1>1
    <3>3. ASSUME NEW j \in 1 .. Len(s) - 1 PROVE r[j] = IF j < i THEN s[j] ELSE s[j + 1]
      <4>1. CASE j < i
        <5>1. j <= i - 1 /\ j \in 1 .. i - 1
          BY <4>1
        <5>. QED BY <2>5, <3>1, <3>2, <4>1, <5>1
      <4>2. CASE ~(j < i)
        <5>1. ~(j <= i - 1) /\ j - (i - 1) \in 1 .. Len(s) - i /\ i + (j - (i - 1)) = j + 1
          BY <1>1, <4>2
        <5>. QED BY <2>6, <3>1, <3>2, <4>2, <5>1
      <4>. QED BY <4>1, <4>2
    <3>. QED BY <3>1, <3>2, <3>3
  <2>8. Batches!IsInjective(r)
    <3> SUFFICES ASSUME NEW j \in 1 .. Len(s) - 1, NEW k \in 1 .. Len(s) - 1, r[j] = r[k] PROVE j = k
      BY <2>7 DEF Batches!IsInjective
    <3>1. /\ (IF j < i THEN j ELSE j + 1) \in DOMAIN s /\ (IF k < i THEN k ELSE k + 1) \in DOMAIN s
          /\ r[j] = s[IF j < i THEN j ELSE j + 1] /\ r[k] = s[IF k < i THEN k ELSE k + 1]
      BY <1>1, <2>7
    <3>2. (IF j < i THEN j ELSE j + 1) = (IF k < i THEN k ELSE k + 1)
      BY <3>1 DEF Batches!IsInjective
    <3>. QED BY <3>2
  <2>9. Batches!ToSet(r) \subseteq Batches!ToSet(s)
    <3> SUFFICES ASSUME NEW j \in 1 .. Len(s) - 1 PROVE \E k \in DOMAIN s : r[j] = s[k]
      BY <2>7 DEF Batches!ToSet
    <3>1. j \in DOMAIN s /\ j + 1 \in DOMAIN s
      BY <1>1
    <3>. QED BY <2>7, <3>1
  <2>10. s # <<>>
    BY <1>1, <2>1
  <2>. QED BY <2>7, <2>8, <2>9, <2>10 DEF r
<1>. QED BY <1>2, <1>3

-----------------------------------------------------------------------------
(* How much of the queue is taken *)

LEMMA BegunFacts ==
  ASSUME NEW p \in Seq(Libs), NEW bad, NEW n \in 0 .. Len(p)
  PROVE  /\ Batches!Begun(p, n, bad) \subseteq Batches!ToSet(p) \ bad /\ IsFiniteSet(Batches!Begun(p, n, bad))
         /\ Batches!Cardinality(Batches!Begun(p, n, bad)) \in Nat
         /\ n = 0 => Batches!Begun(p, n, bad) = {}
         /\ n = Len(p) => Batches!Begun(p, n, bad) = Batches!ToSet(p) \ bad
         /\ n > 0 => Batches!Cardinality(Batches!Begun(p, n,
            bad)) <= Batches!Cardinality(Batches!Begun(p, n - 1, bad)) + 1
<1>1. DOMAIN p = 1 .. Len(p) /\ Len(p) \in Nat /\ IsFiniteSet(Batches!ToSet(p))
  BY InSeq
<1>2. ASSUME NEW m \in 0 .. Len(p)
      PROVE  Batches!Begun(p, m, bad) \subseteq Batches!ToSet(p) \ bad /\ IsFiniteSet(Batches!Begun(p,
          m, bad))
  <2>1. Batches!Begun(p, m, bad) \subseteq Batches!ToSet(p) \ bad
    BY <1>1 DEF Batches!Begun, Batches!ToSet
  <2>. QED BY <1>1, <2>1, SameSets, FS_Subset
<1>3. n = 0 => Batches!Begun(p, n, bad) = {}
  BY DEF Batches!Begun
<1>4. n = Len(p) => Batches!Begun(p, n, bad) = Batches!ToSet(p) \ bad
  BY <1>1 DEF Batches!Begun, Batches!ToSet
<1>5. ASSUME n > 0 PROVE Batches!Cardinality(Batches!Begun(p, n,
          bad)) <= Batches!Cardinality(Batches!Begun(p, n - 1, bad)) + 1
  <2>1. n - 1 \in 0 .. Len(p) /\ n \in 1 .. Len(p)
    BY <1>1, <1>5
  <2>2. IsFiniteSet(Batches!Begun(p, n - 1, bad))
    BY <1>2, <2>1
  <2>3. Batches!Begun(p, n, bad) \subseteq Batches!Begun(p, n - 1, bad) \union {p[n]}
    <3>1. \A i \in 1 .. n : i \in 1 .. n - 1 \/ i = n
      BY <2>1
    <3>. QED BY <3>1 DEF Batches!Begun
  <2> DEFINE old == Batches!Begun(p, n - 1, bad)  new == Batches!Begun(p, n, bad)
  <2> HIDE DEF old, new
  <2>4. /\ IsFiniteSet(old \union {p[n]})
        /\ Batches!Cardinality(old \union {p[n]}) =
           IF p[n] \in old THEN Batches!Cardinality(old) ELSE Batches!Cardinality(old) + 1
    BY <2>2, SameSets, FS_AddElement DEF old
  <2>5. Batches!Cardinality(new) <= Batches!Cardinality(old \union {p[n]})
    BY <2>3, <2>4, SameSets, FS_Subset DEF old, new
  <2>6. Batches!Cardinality(old) \in Nat /\ Batches!Cardinality(new) \in Nat
    BY <1>2, <2>2, SameSets, FS_CardinalityType DEF old, new
  <2>. QED BY <2>4, <2>5, <2>6 DEF old, new
<1>. QED BY <1>2, <1>3, <1>4, <1>5, SameSets, FS_CardinalityType

\* Slots are filled as long as there are slots and libraries.
LEMMA TakenFacts ==
  ASSUME NEW p \in Seq(Libs), NEW k \in Nat, NEW bad
  PROVE  LET n == Batches!Taken(p, k, bad) IN
         /\ n \in 0 .. Len(p)
         /\ Batches!Cardinality(Batches!Begun(p, n, bad)) <= k
         /\ n < Len(p) => Batches!Cardinality(Batches!Begun(p, n, bad)) = k
<1>1. Len(p) \in Nat /\ Len(p) \in 0 .. Len(p)
  BY InSeq
<1>2. CASE Batches!Cardinality(Batches!ToSet(p) \ bad) < k
  <2>1. Batches!Taken(p, k, bad) = Len(p)
    BY <1>2 DEF Batches!Taken
  <2>2. Batches!Cardinality(Batches!Begun(p, Len(p), bad)) < k /\ Batches!Cardinality(Batches!Begun(p,
            Len(p), bad)) \in Nat
    BY <1>1, <1>2, BegunFacts
  <2>. QED BY <1>1, <2>1, <2>2
<1>3. CASE ~(Batches!Cardinality(Batches!ToSet(p) \ bad) < k)
  <2> DEFINE Filled(n) == /\ Batches!Cardinality(Batches!Begun(p, n, bad)) = k
                          /\ \A m \in 0 .. n - 1 : Batches!Cardinality(Batches!Begun(p, m, bad)) < k
             K == {n \in 0 .. Len(p) : Batches!Cardinality(Batches!Begun(p, n, bad)) >= k}
  <2>1. Batches!Cardinality(Batches!Begun(p, Len(p), bad)) \in Nat /\
            Batches!Cardinality(Batches!Begun(p, Len(p), bad)) >= k
    <3>1. /\ Batches!Cardinality(Batches!Begun(p, Len(p), bad)) \in Nat
          /\ Batches!Begun(p, Len(p), bad) = Batches!ToSet(p) \ bad
      BY <1>1, BegunFacts
    <3>. QED BY <1>3, <3>1
  <2>2. PICK n \in K : \A j \in 0 .. n - 1 : j \notin K
    <3>1. K \subseteq 0 .. Len(p) /\ K # {}
      BY <1>1, <2>1
    <3> HIDE DEF K
    <3>. QED BY <1>1, <3>1, Least
  <2>3. \A m \in 0 .. n - 1 : Batches!Cardinality(Batches!Begun(p, m, bad)) < k
    <3> SUFFICES ASSUME NEW m \in 0 .. n - 1 PROVE Batches!Cardinality(Batches!Begun(p, m, bad)) < k
      OBVIOUS
    <3>1. m \in 0 .. Len(p) /\ m \notin K
      BY <1>1, <2>2
    <3>2. Batches!Cardinality(Batches!Begun(p, m, bad)) \in Nat
      BY <3>1, BegunFacts
    <3>. QED BY <3>1, <3>2
  <2>4. Batches!Cardinality(Batches!Begun(p, n, bad)) = k
    <3>1. n \in 0 .. Len(p) /\ Batches!Cardinality(Batches!Begun(p, n, bad)) \in Nat /\
              Batches!Cardinality(Batches!Begun(p, n, bad)) >= k
      BY <2>2, BegunFacts
    <3>2. CASE n = 0
      <4>1. Batches!Cardinality(Batches!Begun(p, n, bad)) = 0
        BY <3>1, <3>2, BegunFacts, SameSets, FS_EmptySet
      <4>. QED BY <3>1, <4>1
    <3>3. CASE n # 0
      <4>1. n > 0 /\ n - 1 \in 0 .. n - 1 /\ n - 1 \in 0 .. Len(p)
        BY <1>1, <3>1, <3>3
      <4>2. Batches!Cardinality(Batches!Begun(p, n - 1, bad)) < k /\
                Batches!Cardinality(Batches!Begun(p, n - 1, bad)) \in Nat
        BY <2>3, <4>1, BegunFacts
      <4>3. Batches!Cardinality(Batches!Begun(p, n, bad)) <= Batches!Cardinality(Batches!Begun(p, n - 1,
                bad)) + 1
        BY <3>1, <4>1, BegunFacts
      <4>. QED BY <3>1, <4>2, <4>3
    <3>. QED BY <3>2, <3>3
  <2>5. Batches!Taken(p, k, bad) = CHOOSE m \in 0 .. Len(p) : Filled(m)
    BY <1>3 DEF Batches!Taken
  <2>6. n \in 0 .. Len(p) /\ Filled(n)
    BY <2>2, <2>3, <2>4
  <2>7. Batches!Taken(p, k, bad) \in 0 .. Len(p) /\ Filled(Batches!Taken(p, k, bad))
    <3> HIDE DEF Filled
    <3>. QED BY <2>5, <2>6
  <2>. QED BY <2>7
<1>. QED BY <1>2, <1>3

\* try_start_pending: the slots are filled from the queue, which keeps what no slot is left for.
LEMMA StartsPending ==
  ASSUME Batches!Bounds, NEW act \in SUBSET Libs, IsFiniteSet(act), Batches!Cardinality(act) <= MaxConcurrent,
         NEW p \in Seq(Libs), Batches!IsInjective(p), Batches!ToSet(p) \cap act = {},
             Batches!TryStartPending(act, p)
  PROVE  \E begun \in SUBSET Batches!ToSet(p) :
         /\ active' = act \cup begun /\ active' \in SUBSET Libs /\ IsFiniteSet(active')
         /\ Batches!Cardinality(active') <= MaxConcurrent
         /\ pending' \in Seq(Libs) /\ Batches!IsInjective(pending') /\
            Batches!ToSet(pending') \subseteq Batches!ToSet(p)
         /\ Batches!ToSet(pending') \cap active' = {}
         /\ pending' # <<>> => Batches!Cardinality(active') = MaxConcurrent
         /\ running' = (active' # {} \/ pending' # <<>>)
         /\ cancel' = [l \in Libs |-> cancel[l] /\ l \notin begun]
         /\ pc' = [l \in Libs |-> IF l \in begun THEN "open"
                                  ELSE IF l \in active \ act THEN Batches!Joined(l) ELSE pc[l]]
<1>1. PICK bad \in SUBSET Batches!ToSet(p) :
        LET n == Batches!Taken(p, MaxConcurrent - Batches!Cardinality(act), bad)
            begun == Batches!Begun(p, n, bad)
        IN  /\ active' = act \cup begun
            /\ pending' = SubSeq(p, n + 1, Len(p))
            /\ running' = (active' # {} \/ pending' # <<>>)
            /\ cancel' = [l \in Libs |-> cancel[l] /\ l \notin begun]
            /\ pc' = [l \in Libs |-> IF l \in begun THEN "open"
                                     ELSE IF l \in active \ act THEN Batches!Joined(l) ELSE pc[l]]
  BY DEF Batches!TryStartPending
<1> DEFINE k == MaxConcurrent - Batches!Cardinality(act)
           n == Batches!Taken(p, k, bad)
           begun == Batches!Begun(p, n, bad)
<1>2. k \in Nat /\ Batches!Cardinality(act) \in Nat /\ MaxConcurrent \in Nat /\
          Batches!Cardinality(act) + k = MaxConcurrent
  BY SameSets, FS_CardinalityType DEF Batches!Bounds
<1> HIDE DEF k
<1>3. n \in 0 .. Len(p) /\ Batches!Cardinality(begun) <= k /\ (n < Len(p) => Batches!Cardinality(begun) = k)
  BY <1>2, TakenFacts
<1> HIDE DEF n
<1>4. begun \subseteq Batches!ToSet(p) /\ IsFiniteSet(begun) /\ Batches!Cardinality(begun) \in Nat
  BY <1>3, BegunFacts
<1>5. /\ pending' = SubSeq(p, n + 1, Len(p)) /\ active' = act \cup begun
      /\ running' = (active' # {} \/ pending' # <<>>)
      /\ cancel' = [l \in Libs |-> cancel[l] /\ l \notin begun]
      /\ pc' = [l \in Libs |-> IF l \in begun THEN "open"
                               ELSE IF l \in active \ act THEN Batches!Joined(l) ELSE pc[l]]
  BY <1>1 DEF n, k
<1>6. begun \subseteq {p[i] : i \in 1 .. n}
  BY DEF Batches!Begun
<1> HIDE DEF begun
<1>7. /\ IsFiniteSet(act \cup begun)
      /\ Batches!Cardinality(act \cup begun) = Batches!Cardinality(act) + Batches!Cardinality(begun)
  <2>1. act \cap begun = {}
    BY <1>4
  <2>2. /\ IsFiniteSet(act \cup begun)
        /\ Batches!Cardinality(act \cup begun) = Batches!Cardinality(act) +
           Batches!Cardinality(begun) - Batches!Cardinality(act \cap begun)
    BY <1>4, SameSets, FS_Union
  <2>3. Batches!Cardinality(act \cap begun) = 0
    BY <2>1, SameSets, FS_EmptySet
  <2>. QED BY <1>2, <1>4, <2>2, <2>3
<1>8. /\ pending' \in Seq(Libs) /\ Batches!IsInjective(pending') /\
         Batches!ToSet(pending') \subseteq Batches!ToSet(p)
      /\ \A i \in 1 .. n : p[i] \notin Batches!ToSet(pending')
      /\ pending' # <<>> => n < Len(p)
  BY <1>3, <1>5, RestFacts
<1>9. Batches!ToSet(pending') \cap active' = {}
  BY <1>5, <1>6, <1>8
<1>10. active' \in SUBSET Libs
  BY <1>4, <1>5, InSeq
<1>11. Batches!Cardinality(active') <= MaxConcurrent /\ (pending' # <<>> =>
           Batches!Cardinality(active') = MaxConcurrent)
  BY <1>2, <1>3, <1>4, <1>5, <1>7, <1>8
<1>. QED BY <1>4, <1>5, <1>7, <1>8, <1>9, <1>10, <1>11

-----------------------------------------------------------------------------
(* The inductive invariant *)

\* The phases in which a worker may have committed what it has not announced.
Unannounced == {"scan", "metadata", "finalize"} \cup {ph \in {"resolve"} : Resolve}

\* What waits is distinct and has no slot.
QueueApart == IsFiniteSet(active) /\ Batches!IsInjective(pending) /\ Batches!ToSet(pending) \cap active = {}

\* Only a window that closes waits for its scans and disposes of them; nothing is left to be started.
Closing ==
    /\ main = "wait" => win = "closed"
    /\ disposed => win # "open"
    /\ win # "open" => pending = <<>>

\* Only a LIBRARY_UPDATED takes changes along.
EventsCarry == \A i \in DOMAIN idle : idle[i].kind # "library" => idle[i].cs = {}

\* A library that nothing takes away is never cancelled and announces what it has committed.
Announces ==
    /\ Libs \ Cancels \subseteq present
    /\ win = "open" => \A l \in Libs \ Cancels :
        ~cancel[l] /\ (tracked[l] # {} => pc[l] \in Unannounced)

BatchIInv ==
    /\ Batches!TypeOK /\ QueueApart /\ Closing /\ EventsCarry /\ Announces
    /\ Batches!RunningIsBusy /\ Batches!ThreadHasSlot /\ Batches!OneEndPerScan /\ Batches!ChangesAccounted

-----------------------------------------------------------------------------
(* The steps of the workers *)

\* The four ways a worker goes on: it commits, says something, goes on to its next phase, is torn down.
Commits(l) ==
    /\ pc[l] \in Unannounced
    /\ \E c \in Batches!Changes : db' = [db EXCEPT ![l] = @ \cup {c}] /\
       tracked' = [tracked EXCEPT ![l] = @ \cup {c}]
    /\ UNCHANGED <<pc, idle>>

Says(l, k, cs, ph) ==
    /\ pc[l] \in Batches!Phases /\ k \in Batches!Kinds
    /\ pc' = [pc EXCEPT ![l] = ph] /\ idle' = Append(idle, Batches!Event(l, k, cs)) /\ UNCHANGED db
    /\ k = "library" => cs = tracked[l] /\ tracked' = [tracked EXCEPT ![l] = {}]
    /\ k # "library" => cs = {} /\ UNCHANGED tracked
    /\ k \in Batches!Endings => ph \in {"teardown", "done"}
    /\ k \notin Batches!Endings => ph \in Batches!Phases
    /\ k = "library" \/ cancel[l] \/ (pc[l] \in Unannounced => ph \in Unannounced)

GoesOn(l, ph) ==
    /\ pc[l] \in Batches!Phases /\ ph \in Batches!Phases /\ (pc[l] \in Unannounced => ph \in Unannounced)
    /\ pc' = [pc EXCEPT ![l] = ph] /\ UNCHANGED <<idle, tracked, db>>

TornDown(l) ==
    /\ pc[l] = "teardown" /\ pc' = [pc EXCEPT ![l] = "done"]
    /\ tracked' = [tracked EXCEPT ![l] = {}] /\ UNCHANGED <<idle, db>>

WorkerGoes(l) ==
    \/ Commits(l) \/ TornDown(l) \/ \E ph \in Batches!Phases : GoesOn(l, ph)
    \/ \E k \in Batches!Kinds, cs \in SUBSET Batches!Changes, ph \in Batches!Phases \cup {"teardown",
       "done"} : Says(l, k, cs, ph)

LEMMA NotifySays ==
  ASSUME Batches!TypeOK, NEW l \in Libs, NEW k \in Batches!Kinds,
      NEW ph \in Batches!Phases \cup {"teardown", "done"},
         Batches!NotifyEvent(l, k, ph), pc[l] \in Batches!Phases, UNCHANGED db,
         k \in Batches!Endings => ph \in {"teardown", "done"}, k \notin Batches!Endings =>
             ph \in Batches!Phases,
         k = "library" \/ cancel[l] \/ (pc[l] \in Unannounced => ph \in Unannounced)
  PROVE  WorkerGoes(l)
<1> DEFINE cs == IF k = "library" THEN tracked[l] ELSE {}
<1>1. cs \in SUBSET Batches!Changes
  BY DEF Batches!TypeOK
<1>2. Says(l, k, cs, ph)
  BY DEF Batches!NotifyEvent, Batches!Goto, Batches!Post, Says
<1>. QED BY <1>1, <1>2 DEF WorkerGoes

LEMMA CheckGoes ==
  ASSUME Batches!TypeOK, NEW l \in Libs, NEW from, NEW to \in Batches!Phases, Batches!Check(l, from,
      to), from \subseteq Batches!Phases,
         UNCHANGED db, from \cap Unannounced # {} => to \in Unannounced
  PROVE  WorkerGoes(l)
<1>1. pc[l] \in Batches!Phases /\ (pc[l] \in Unannounced => to \in Unannounced)
  BY DEF Batches!Check
<1>2. CASE Batches!Cancelled(l)
  <2>1. cancel[l] /\ Batches!NotifyEvent(l, "cancelled", "teardown")
    BY <1>2 DEF Batches!Cancelled
  <2>. QED BY <1>1, <2>1, NotifySays DEF Batches!Kinds, Batches!Endings
<1>3. CASE Batches!Quietly(l, to)
  BY <1>1, <1>3 DEF Batches!Quietly, Batches!Goto, GoesOn, WorkerGoes
<1>. QED BY <1>2, <1>3 DEF Batches!Check

LEMMA WorkerSteps ==
  ASSUME Batches!TypeOK, Batches!Bounds, NEW l \in Libs, Batches!Worker(l)
  PROVE  WorkerGoes(l) /\ UNCHANGED <<running, active, pending, cancel, due, shown, present, main, win,
                                      disposed, starts>>
<1>1. UNCHANGED <<running, active, pending, cancel, due, shown, present, main, win, disposed, starts>>
  BY DEF Batches!Worker, Batches!batch, Batches!ui
<1>2. CASE Batches!Commit(l)
  <2>1. pc[l] \in Unannounced
    BY <1>2 DEF Batches!Commit, Unannounced
  <2>. QED BY <1>1, <1>2, <2>1 DEF Batches!Commit, Commits, WorkerGoes
<1>3. CASE Batches!Progress(l) /\ UNCHANGED db
  <2>1. pc[l] \in Batches!Phases /\ UNCHANGED <<pc, tracked>> /\ idle' = Append(idle, Batches!Event(l,
            "progress", {}))
    BY <1>3 DEF Batches!Progress, Batches!Post, Batches!Phases
  <2>2. pc' = [pc EXCEPT ![l] = pc[l]]
    BY <2>1 DEF Batches!TypeOK
  <2>3. Says(l, "progress", {}, pc[l])
    BY <1>3, <2>1, <2>2 DEF Says, Batches!Kinds, Batches!Endings
  <2>4. "progress" \in Batches!Kinds /\ {} \in SUBSET Batches!Changes
    BY DEF Batches!Kinds
  <2>. QED BY <1>1, <2>1, <2>3, <2>4 DEF WorkerGoes
<1>4. CASE Batches!Ends(l) /\ UNCHANGED db
  <2>1. CASE Batches!Open(l)
    <3>1. pc[l] = "open" /\ "open" \in Batches!Phases /\ "open" \notin Unannounced
      BY <2>1 DEF Batches!Open, Batches!Phases, Unannounced
    <3>2. CASE Batches!NotifyEvent(l, "started", "scan")
      BY <1>1, <1>4, <3>1, <3>2, NotifySays DEF Batches!Kinds, Batches!Endings, Batches!Phases
    <3>3. CASE Batches!NotifyEvent(l, "error", "done")
      BY <1>1, <1>4, <3>1, <3>3, NotifySays DEF Batches!Kinds, Batches!Endings
    <3>. QED BY <2>1, <3>2, <3>3 DEF Batches!Open
  <2>2. CASE Batches!Scanned(l)
    <3>1. Batches!Check(l, {"scan"}, "metadata") /\ "metadata" \in Unannounced
      BY <2>2 DEF Batches!Scanned, Unannounced
    <3>. QED BY <1>1, <1>4, <3>1, CheckGoes DEF Batches!Phases
  <2>3. CASE Batches!Extracted(l)
    <3>1. Batches!Check(l, {"metadata"}, "finalize") /\ "finalize" \in Unannounced
      BY <2>3 DEF Batches!Extracted, Unannounced
    <3>. QED BY <1>1, <1>4, <3>1, CheckGoes DEF Batches!Phases
  <2>4. CASE Batches!Finalized(l)
    BY <1>1, <1>4, <2>4, NotifySays DEF Batches!Finalized, Batches!Kinds, Batches!Endings, Batches!Phases
  <2>5. CASE Batches!AtlasBuilt(l)
    <3>1. "artwork" \notin Unannounced
      BY DEF Unannounced
    <3>2. CASE Batches!Check(l, {"artwork"}, "resolve")
      BY <1>1, <1>4, <3>1, <3>2, CheckGoes DEF Batches!Phases
    <3>3. CASE pc[l] = "artwork" /\ Batches!NotifyEvent(l, "artwork", "resolve")
      BY <1>1, <1>4, <3>1, <3>3, NotifySays DEF Batches!Kinds, Batches!Endings, Batches!Phases
    <3>. QED BY <2>5, <3>2, <3>3 DEF Batches!AtlasBuilt
  <2>6. CASE Batches!Resolved(l)
    <3>1. CASE pc[l] = "resolve" /\ Batches!NotifyEvent(l, "library", "resolved")
      BY <1>1, <1>4, <3>1, NotifySays DEF Batches!Kinds, Batches!Endings, Batches!Phases
    <3>2. CASE Batches!Check(l, IF Resolve THEN {"resolved"} ELSE {"resolve"}, "artistArt")
      <4>1. (IF Resolve THEN {"resolved"} ELSE {"resolve"}) \cap Unannounced = {}
        BY DEF Unannounced
      <4>2. (IF Resolve THEN {"resolved"} ELSE {"resolve"}) \subseteq Batches!Phases
        BY DEF Batches!Phases
      <4>3. "artistArt" \in Batches!Phases
        BY DEF Batches!Phases
      <4>. QED BY <1>1, <1>4, <3>2, <4>1, <4>2, <4>3, CheckGoes
    <3>. QED BY <2>6, <3>1, <3>2 DEF Batches!Resolved
  <2>7. CASE Batches!ArtistsFetched(l)
    <3>1. {"artistArt", "artistsDrawn"} \cap Unannounced = {}
      BY DEF Unannounced
    <3>2. CASE pc[l] = "artistArt" /\ Batches!NotifyEvent(l, "artwork", "artistsDrawn")
      BY <1>1, <1>4, <3>1, <3>2, NotifySays DEF Batches!Kinds, Batches!Endings, Batches!Phases
    <3>3. CASE Batches!Check(l, {"artistArt", "artistsDrawn"}, "rebuild")
      BY <1>1, <1>4, <3>1, <3>3, CheckGoes DEF Batches!Phases
    <3>. QED BY <2>7, <3>2, <3>3 DEF Batches!ArtistsFetched
  <2>8. CASE Batches!AtlasRebuilt(l)
    <3>1. {"rebuild", "rebuilt"} \cap Unannounced = {}
      BY DEF Unannounced
    <3>2. CASE pc[l] = "rebuild" /\ Batches!NotifyEvent(l, "artwork", "rebuilt")
      BY <1>1, <1>4, <3>1, <3>2, NotifySays DEF Batches!Kinds, Batches!Endings, Batches!Phases
    <3>3. CASE Batches!Check(l, {"rebuild", "rebuilt"}, "bios")
      BY <1>1, <1>4, <3>1, <3>3, CheckGoes DEF Batches!Phases
    <3>. QED BY <2>8, <3>2, <3>3 DEF Batches!AtlasRebuilt
  <2>9. CASE Batches!BiosFetched(l)
    <3>1. pc[l] = "bios" /\ "bios" \in Batches!Phases /\ "bios" \notin Unannounced
      BY <2>9 DEF Batches!BiosFetched, Batches!Phases, Unannounced
    <3>2. CASE Batches!NotifyEvent(l, "cancelled", "teardown")
      BY <1>1, <1>4, <3>1, <3>2, NotifySays DEF Batches!Kinds, Batches!Endings
    <3>3. CASE Batches!NotifyEvent(l, "completed", "teardown")
      BY <1>1, <1>4, <3>1, <3>3, NotifySays DEF Batches!Kinds, Batches!Endings
    <3>. QED BY <2>9, <3>2, <3>3 DEF Batches!BiosFetched, Batches!Cancelled
  <2>10. CASE Batches!Teardown(l)
    BY <1>1, <1>4, <2>10 DEF Batches!Teardown, Batches!Goto, TornDown, WorkerGoes
  <2>. QED BY <1>4, <2>1, <2>2, <2>3, <2>4, <2>5, <2>6, <2>7, <2>8, <2>9, <2>10 DEF Batches!Ends
<1>. QED BY <1>2, <1>3, <1>4 DEF Batches!Worker

\* A queue of events that grows at its end and shrinks at its head.
Events == [lib : Libs, kind : Batches!Kinds, cs : SUBSET Batches!Changes]
Carried(q, l) == UNION {q[i].cs : i \in {j \in DOMAIN q : q[j].lib = l}}

LEMMA Appended ==
  ASSUME NEW q \in Seq(Events), NEW e \in Events
  PROVE  LET r == Append(q, e) IN
         /\ r \in Seq(Events) /\ DOMAIN q = 1 .. Len(q) /\ Len(q) \in Nat /\ DOMAIN r = 1 .. Len(q) + 1
         /\ \A i \in DOMAIN q : i \in DOMAIN r /\ r[i] = q[i]
         /\ Len(q) + 1 \in DOMAIN r /\ r[Len(q) + 1] = e
         /\ \A i \in DOMAIN r : i \in DOMAIN q \/ i = Len(q) + 1
         /\ \A l : Carried(r, l) = Carried(q, l) \cup (IF e.lib = l THEN e.cs ELSE {})
<1> DEFINE r == Append(q, e)
<1>1. /\ r \in Seq(Events) /\ DOMAIN q = 1 .. Len(q) /\ Len(q) \in Nat /\ DOMAIN r = 1 .. Len(q) + 1
      /\ \A i \in DOMAIN q : i \in DOMAIN r /\ r[i] = q[i]
      /\ Len(q) + 1 \in DOMAIN r /\ r[Len(q) + 1] = e
  OBVIOUS
<1>2. \A i \in DOMAIN r : i \in DOMAIN q \/ i = Len(q) + 1
  BY <1>1
<1> HIDE DEF r
<1>3. ASSUME NEW l PROVE Carried(r, l) = Carried(q, l) \cup (IF e.lib = l THEN e.cs ELSE {})
  <2>1. Carried(q, l) \subseteq Carried(r, l)
    BY <1>1 DEF Carried
  <2>2. e.lib = l => e.cs \subseteq Carried(r, l)
    BY <1>1 DEF Carried
  <2>3. Carried(r, l) \subseteq Carried(q, l) \cup (IF e.lib = l THEN e.cs ELSE {})
    <3> SUFFICES ASSUME NEW i \in DOMAIN r, r[i].lib = l
                 PROVE  r[i].cs \subseteq Carried(q, l) \cup (IF e.lib = l THEN e.cs ELSE {})
      BY DEF Carried
    <3>1. CASE i \in DOMAIN q
      BY <1>1, <3>1 DEF Carried
    <3>2. CASE i = Len(q) + 1
      BY <1>1, <3>2
    <3>. QED BY <1>2, <3>1, <3>2
  <2>. QED BY <2>1, <2>2, <2>3
<1>. QED BY <1>1, <1>2, <1>3 DEF r

LEMMA Dispatched ==
  ASSUME NEW q \in Seq(Events), q # <<>>
  PROVE  LET r == Tail(q) IN
         /\ r \in Seq(Events) /\ DOMAIN q = 1 .. Len(q) /\ Len(q) \in Nat /\ DOMAIN r = 1 .. Len(q) - 1
         /\ 1 \in DOMAIN q /\ Head(q) = q[1] /\ Head(q) \in Events
         /\ \A i \in DOMAIN r : i + 1 \in DOMAIN q /\ i + 1 > 1 /\ r[i] = q[i + 1]
         /\ \A l : Carried(q, l) = Carried(r, l) \cup (IF Head(q).lib = l THEN Head(q).cs ELSE {})
<1> DEFINE r == Tail(q)
<1>1. /\ r \in Seq(Events) /\ DOMAIN q = 1 .. Len(q) /\ Len(q) \in Nat /\ DOMAIN r = 1 .. Len(q) - 1
      /\ 1 \in DOMAIN q /\ Head(q) = q[1] /\ Head(q) \in Events
      /\ \A i \in DOMAIN r : i + 1 \in DOMAIN q /\ i + 1 > 1 /\ r[i] = q[i + 1]
  <2>1. /\ r \in Seq(Events) /\ DOMAIN q = 1 .. Len(q) /\ Len(q) \in Nat \ {0} /\ Len(r) = Len(q) - 1
        /\ Head(q) = q[1] /\ \A i \in 1 .. Len(r) : r[i] = q[i + 1]
    BY HeadTailProperties
  <2>2. DOMAIN r = 1 .. Len(q) - 1 /\ 1 \in DOMAIN q /\ q[1] \in Events
    BY <2>1
  <2>. QED BY <2>1, <2>2
<1>2. \A i \in DOMAIN q : i = 1 \/ (i - 1 \in DOMAIN r /\ r[i - 1] = q[i])
  <2> SUFFICES ASSUME NEW i \in DOMAIN q, i # 1 PROVE i - 1 \in DOMAIN r /\ r[i - 1] = q[i]
    OBVIOUS
  <2>1. i - 1 \in DOMAIN r /\ i - 1 + 1 = i
    BY <1>1
  <2>. QED BY <1>1, <2>1
<1>3. ASSUME NEW l PROVE Carried(q, l) = Carried(r, l) \cup (IF Head(q).lib = l THEN Head(q).cs ELSE {})
  <2> HIDE DEF r
  <2>1. Carried(r, l) \subseteq Carried(q, l)
    BY <1>1 DEF Carried
  <2>2. Head(q).lib = l => Head(q).cs \subseteq Carried(q, l)
    BY <1>1 DEF Carried
  <2>3. Carried(q, l) \subseteq Carried(r, l) \cup (IF Head(q).lib = l THEN Head(q).cs ELSE {})
    <3> SUFFICES ASSUME NEW i \in DOMAIN q, q[i].lib = l
                 PROVE  q[i].cs \subseteq Carried(r, l) \cup (IF Head(q).lib = l THEN Head(q).cs ELSE {})
      BY DEF Carried
    <3>1. CASE i = 1
      BY <1>1, <3>1
    <3>2. CASE i - 1 \in DOMAIN r /\ r[i - 1] = q[i]
      BY <3>2 DEF Carried
    <3>. QED BY <1>2, <3>1, <3>2
  <2>. QED BY <2>1, <2>2, <2>3
<1>. QED BY <1>1, <1>3

LEMMA QueueTyped ==
  ASSUME Batches!TypeOK
  PROVE  /\ idle \in Seq(Events) /\ DOMAIN idle = 1 .. Len(idle) /\ Len(idle) \in Nat
         /\ \A i \in DOMAIN idle : idle[i] \in Events /\ idle[i].lib \in Libs
<1>1. idle \in Seq(Events)
  BY DEF Batches!TypeOK, Events
<1>2. \A i \in DOMAIN idle : idle[i] \in Events
  BY <1>1
<1>. QED BY <1>1, <1>2 DEF Events

\* What a worker says is an event of its library.
LEMMA SaysTyped ==
  ASSUME Batches!TypeOK, NEW l \in Libs, NEW k \in Batches!Kinds, NEW cs \in SUBSET Batches!Changes,
         NEW ph \in Batches!Phases \cup {"teardown", "done"}, Says(l, k, cs, ph),
         UNCHANGED <<running, active, pending, cancel, due, shown, present, main, win, disposed, starts>>
  PROVE  Batches!TypeOK'
<1>1. idle \in Seq(Events) /\ Batches!Event(l, k, cs) \in Events
  BY DEF Batches!TypeOK, Events, Batches!Event
<1>2. idle' \in Seq([lib : Libs, kind : Batches!Kinds, cs : SUBSET Batches!Changes])
  BY <1>1, Appended DEF Says, Events
<1>3. tracked' \in [Libs -> SUBSET Batches!Changes]
  BY DEF Says, Batches!TypeOK
<1>4. pc' \in [Libs -> Batches!Phases \cup {"none", "teardown", "done"}]
  BY DEF Says, Batches!TypeOK
<1>5. UNCHANGED db
  BY DEF Says
<1>. QED BY <1>2, <1>3, <1>4, <1>5 DEF Batches!TypeOK

LEMMA WorkerTyped ==
  ASSUME Batches!TypeOK, NEW l \in Libs, WorkerGoes(l),
         UNCHANGED <<running, active, pending, cancel, due, shown, present, main, win, disposed, starts>>
  PROVE  Batches!TypeOK'
<1>1. CASE Commits(l)
  BY <1>1 DEF Commits, Batches!TypeOK
<1>2. CASE TornDown(l)
  BY <1>2 DEF TornDown, Batches!TypeOK
<1>3. ASSUME NEW ph \in Batches!Phases, GoesOn(l, ph) PROVE Batches!TypeOK'
  BY <1>3 DEF GoesOn, Batches!TypeOK
<1>4. ASSUME NEW k \in Batches!Kinds, NEW cs \in SUBSET Batches!Changes,
          NEW ph \in Batches!Phases \cup {"teardown", "done"},
             Says(l, k, cs, ph)
      PROVE  Batches!TypeOK'
  BY <1>4, SaysTyped
<1>. QED BY <1>1, <1>2, <1>3, <1>4 DEF WorkerGoes

LEMMA WorkerKeepsSlots ==
  ASSUME BatchIInv, NEW l \in Libs, WorkerGoes(l),
         UNCHANGED <<running, active, pending, cancel, due, shown, present, main, win, disposed, starts>>
  PROVE  Batches!ThreadHasSlot'
<1>1. pc[l] # "none" /\ \A m \in Libs : m # l => pc'[m] = pc[m]
  BY DEF WorkerGoes, Commits, TornDown, GoesOn, Says, Unannounced, Batches!Phases, BatchIInv, Batches!TypeOK
<1>2. l \in active
  BY <1>1 DEF BatchIInv, Batches!ThreadHasSlot
<1>. QED BY <1>1, <1>2 DEF BatchIInv, Batches!ThreadHasSlot

\* A worker that has told its end says nothing more.
LEMMA WorkerEndsOnce ==
  ASSUME BatchIInv, NEW l \in Libs, WorkerGoes(l),
         UNCHANGED <<running, active, pending, cancel, due, shown, present, main, win, disposed, starts>>
  PROVE  Batches!OneEndPerScan' /\ EventsCarry'
<1> SUFFICES EventsCarry' /\ (~disposed => Batches!OneEndPerScan')
  BY DEF Batches!OneEndPerScan
<1>1. CASE Commits(l)
  BY <1>1 DEF Commits, BatchIInv, Batches!OneEndPerScan, EventsCarry
<1>2. CASE TornDown(l)
  <2>1. \A m \in Libs : pc[m] \in {"teardown", "done"} => pc'[m] \in {"teardown", "done"}
    BY <1>2 DEF TornDown, BatchIInv, Batches!TypeOK
  <2>2. \A i \in DOMAIN idle : idle[i].lib \in Libs
    BY QueueTyped DEF BatchIInv
  <2>. QED BY <1>2, <2>1, <2>2 DEF TornDown, BatchIInv, Batches!OneEndPerScan, EventsCarry
<1>3. ASSUME pc[l] \in Batches!Phases, ~disposed
      PROVE  \A i \in DOMAIN idle : idle[i].lib = l => idle[i].kind \notin Batches!Endings
  BY <1>3 DEF BatchIInv, Batches!OneEndPerScan, Batches!Phases
<1>4. ASSUME NEW ph \in Batches!Phases, GoesOn(l, ph) PROVE EventsCarry' /\ (~disposed =>
          Batches!OneEndPerScan')
  <2>1. \A m \in Libs : m # l => pc'[m] = pc[m]
    BY <1>4 DEF GoesOn, BatchIInv, Batches!TypeOK
  <2>2. \A i \in DOMAIN idle : idle[i].lib \in Libs
    BY QueueTyped DEF BatchIInv
  <2>3. pc[l] \in Batches!Phases /\ idle' = idle
    BY <1>4 DEF GoesOn
  <2>. QED BY <1>3, <2>1, <2>2, <2>3 DEF BatchIInv, Batches!OneEndPerScan, EventsCarry
<1>5. ASSUME NEW k \in Batches!Kinds, NEW cs \in SUBSET Batches!Changes,
          NEW ph \in Batches!Phases \cup {"teardown", "done"},
             Says(l, k, cs, ph)
      PROVE  EventsCarry' /\ (~disposed => Batches!OneEndPerScan')
  <2> DEFINE e == Batches!Event(l, k, cs)
  <2>1. idle \in Seq(Events) /\ e \in Events /\ idle' = Append(idle, e)
    BY <1>5 DEF Says, BatchIInv, Batches!TypeOK, Events, Batches!Event
  <2>2. e.lib = l /\ e.kind = k /\ e.cs = cs
    BY DEF Batches!Event
  <2> HIDE DEF e
  <2>3. /\ DOMAIN idle = 1 .. Len(idle) /\ Len(idle) \in Nat
        /\ \A i \in DOMAIN idle : idle'[i] = idle[i]
        /\ idle'[Len(idle) + 1] = e
        /\ \A i \in DOMAIN idle' : i \in DOMAIN idle \/ i = Len(idle) + 1
    BY <2>1, Appended
  <2>4. EventsCarry'
    <3>1. k # "library" => cs = {}
      BY <1>5 DEF Says
    <3>. QED BY <2>2, <2>3, <3>1 DEF BatchIInv, EventsCarry
  <2>5. /\ pc[l] \in Batches!Phases /\ \A m \in Libs : m # l => pc'[m] = pc[m]
        /\ k \in Batches!Endings => pc'[l] \in {"teardown", "done"}
    BY <1>5 DEF Says, BatchIInv, Batches!TypeOK
  <2>6. l \in active
    BY <2>5 DEF BatchIInv, Batches!ThreadHasSlot, Batches!Phases
  <2>7. ASSUME ~disposed, NEW i \in DOMAIN idle'
        PROVE  /\ idle'[i].lib \in active'
               /\ idle'[i].kind \in Batches!Endings =>
                     /\ pc'[idle'[i].lib] \in {"teardown", "done"}
                     /\ \A j \in DOMAIN idle' : j > i => idle'[j].lib # idle'[i].lib
    <3>1. CASE i \in DOMAIN idle
      <4>1. idle'[i] = idle[i] /\ idle[i].lib \in active /\ idle[i].lib \in Libs
        <5>1. idle[i].lib \in active
          BY <2>7, <3>1 DEF BatchIInv, Batches!OneEndPerScan
        <5>2. idle[i].lib \in Libs
          BY <3>1, QueueTyped DEF BatchIInv
        <5>. QED BY <2>3, <3>1, <5>1, <5>2
      <4>2. ASSUME idle[i].kind \in Batches!Endings
            PROVE  /\ pc'[idle[i].lib] \in {"teardown", "done"}
                   /\ \A j \in DOMAIN idle' : j > i => idle'[j].lib # idle[i].lib
        <5>1. idle[i].lib # l
          BY <1>3, <2>5, <2>7, <3>1, <4>2
        <5>2. /\ pc[idle[i].lib] \in {"teardown", "done"}
              /\ \A j \in DOMAIN idle : j > i => idle[j].lib # idle[i].lib
          BY <2>7, <3>1, <4>2 DEF BatchIInv, Batches!OneEndPerScan
        <5>. QED BY <2>2, <2>3, <2>5, <4>1, <5>1, <5>2
      <4>. QED BY <4>1, <4>2
    <3>2. CASE i = Len(idle) + 1
      <4>1. \A j \in DOMAIN idle' : ~(j > i)
        BY <2>3, <3>2
      <4>. QED BY <2>2, <2>3, <2>5, <2>6, <3>2, <4>1
    <3>. QED BY <2>3, <3>1, <3>2
  <2>. QED BY <2>4, <2>7 DEF Batches!OneEndPerScan
<1>. QED BY <1>1, <1>2, <1>4, <1>5 DEF WorkerGoes

\* A commit is in the tracker until an event takes it along.
LEMMA WorkerAccounts ==
  ASSUME BatchIInv, NEW l \in Libs, WorkerGoes(l),
         UNCHANGED <<running, active, pending, cancel, due, shown, present, main, win, disposed, starts>>
  PROVE  Announces' /\ Batches!ChangesAccounted'
<1>1. Libs \ Cancels \subseteq present'
  BY DEF BatchIInv, Announces
<1>2. ASSUME win = "open", NEW m \in Libs \ Cancels
      PROVE  /\ ~cancel[m] /\ (tracked[m] # {} => pc[m] \in Unannounced)
             /\ db[m] = shown[m] \cup tracked[m] \cup due[m].cs \cup Carried(idle, m)
  BY <1>2 DEF BatchIInv, Announces, Batches!ChangesAccounted, Carried
<1>3. ASSUME win = "open", NEW m \in Libs \ Cancels
      PROVE  /\ tracked'[m] # {} => pc'[m] \in Unannounced
             /\ db'[m] = shown[m] \cup tracked'[m] \cup due[m].cs \cup Carried(idle', m)
  <2>1. CASE Commits(l)
    <3>1. PICK c \in Batches!Changes : /\ db' = [db EXCEPT ![l] = @ \cup {c}]
                               /\ tracked' = [tracked EXCEPT ![l] = @ \cup {c}]
      BY <2>1 DEF Commits
    <3>2. pc[l] \in Unannounced /\ pc' = pc /\ idle' = idle
      BY <2>1 DEF Commits
    <3>3. CASE m = l
      <4>1. db'[m] = db[m] \cup {c} /\ tracked'[m] = tracked[m] \cup {c}
        BY <3>1, <3>3 DEF BatchIInv, Batches!TypeOK
      <4>. QED BY <1>2, <1>3, <3>2, <3>3, <4>1
    <3>4. CASE m # l
      <4>1. db'[m] = db[m] /\ tracked'[m] = tracked[m]
        BY <3>1, <3>4 DEF BatchIInv, Batches!TypeOK
      <4>. QED BY <1>2, <1>3, <3>2, <4>1
    <3>. QED BY <3>3, <3>4
  <2>2. CASE TornDown(l)
    <3>1. /\ pc[l] = "teardown" /\ idle' = idle /\ db' = db
          /\ m = l => tracked'[m] = {}
          /\ m # l => tracked'[m] = tracked[m] /\ pc'[m] = pc[m]
      BY <2>2 DEF TornDown, BatchIInv, Batches!TypeOK
    <3>2. m = l => tracked[m] = {}
      BY <1>2, <1>3, <3>1 DEF Unannounced
    <3>. QED BY <1>2, <1>3, <3>1, <3>2
  <2>3. ASSUME NEW ph \in Batches!Phases, GoesOn(l, ph)
        PROVE  /\ tracked'[m] # {} => pc'[m] \in Unannounced
               /\ db'[m] = shown[m] \cup tracked'[m] \cup due[m].cs \cup Carried(idle', m)
    <3>1. /\ idle' = idle /\ db' = db /\ tracked' = tracked
          /\ m = l => pc'[m] = ph
          /\ m # l => pc'[m] = pc[m]
          /\ pc[l] \in Unannounced => ph \in Unannounced
      BY <2>3 DEF GoesOn, BatchIInv, Batches!TypeOK
    <3>. QED BY <1>2, <1>3, <3>1
  <2>4. ASSUME NEW k \in Batches!Kinds, NEW cs \in SUBSET Batches!Changes,
            NEW ph \in Batches!Phases \cup {"teardown", "done"},
               Says(l, k, cs, ph)
        PROVE  /\ tracked'[m] # {} => pc'[m] \in Unannounced
               /\ db'[m] = shown[m] \cup tracked'[m] \cup due[m].cs \cup Carried(idle', m)
    <3> DEFINE e == Batches!Event(l, k, cs)
    <3>1. idle \in Seq(Events) /\ e \in Events /\ idle' = Append(idle, e)
      BY <2>4 DEF Says, BatchIInv, Batches!TypeOK, Events, Batches!Event
    <3>2. e.lib = l /\ e.cs = cs
      BY DEF Batches!Event
    <3> HIDE DEF e
    <3>3. Carried(idle', m) = Carried(idle, m) \cup (IF l = m THEN cs ELSE {})
      BY <3>1, <3>2, Appended
    <3>4. /\ db' = db
          /\ m # l => pc'[m] = pc[m] /\ tracked'[m] = tracked[m]
          /\ m = l => pc'[m] = ph
      BY <2>4 DEF Says, BatchIInv, Batches!TypeOK
    <3>5. CASE k = "library"
      <4>1. cs = tracked[l] /\ (m = l => tracked'[m] = {}) /\ (m # l => tracked'[m] = tracked[m])
        BY <2>4, <3>5 DEF Says, BatchIInv, Batches!TypeOK
      <4>. QED BY <1>2, <1>3, <3>3, <3>4, <4>1
    <3>6. CASE k # "library"
      <4>1. cs = {} /\ tracked' = tracked /\ (cancel[l] \/ (pc[l] \in Unannounced => ph \in Unannounced))
        BY <2>4, <3>6 DEF Says
      <4>. QED BY <1>2, <1>3, <3>3, <3>4, <4>1
    <3>. QED BY <3>5, <3>6
  <2>. QED BY <2>1, <2>2, <2>3, <2>4 DEF WorkerGoes
<1>. QED BY <1>1, <1>2, <1>3 DEF Announces, Batches!ChangesAccounted, Carried

LEMMA WorkerKeeps ==
  ASSUME BatchIInv, Batches!Bounds, NEW l \in Libs, Batches!Worker(l)
  PROVE  BatchIInv'
<1>1. WorkerGoes(l) /\ UNCHANGED <<running, active, pending, cancel, due, shown, present, main, win,
                                   disposed, starts>>
  BY WorkerSteps DEF BatchIInv
<1>2. Batches!TypeOK' /\ Batches!ThreadHasSlot' /\ Batches!OneEndPerScan' /\ EventsCarry' /\
          Announces' /\ Batches!ChangesAccounted'
  BY <1>1, WorkerTyped, WorkerKeepsSlots, WorkerEndsOnce, WorkerAccounts DEF BatchIInv
<1>3. QueueApart' /\ Closing' /\ Batches!RunningIsBusy'
  BY <1>1 DEF BatchIInv, QueueApart, Closing, Batches!RunningIsBusy
<1>. QED BY <1>2, <1>3 DEF BatchIInv

-----------------------------------------------------------------------------
(* The steps of the main thread *)

\* A batch begins when nothing runs and nothing is left to be told.
LEMMA NothingRuns ==
  ASSUME BatchIInv, Batches!Bounds, win = "open", ~running
  PROVE  active = {} /\ DOMAIN idle = {} /\ \A l \in Libs : pc[l] = "none"
<1>1. active = {}
  BY DEF BatchIInv, Batches!RunningIsBusy
<1>2. ~disposed
  BY DEF BatchIInv, Closing
<1>. QED BY <1>1, <1>2 DEF BatchIInv, Batches!ThreadHasSlot, Batches!OneEndPerScan

LEMMA StartPendingKeeps ==
  ASSUME BatchIInv, Batches!Bounds, win = "open", ~running, NEW ls \in Seq(Libs), Batches!IsInjective(ls),
         Batches!TryStartPending(active, ls), UNCHANGED <<idle, Batches!changes, main, win, disposed>>,
         present' \in SUBSET Libs, present \subseteq present', starts' \in 0 .. MaxStarts
  PROVE  BatchIInv'
<1>1. active = {} /\ DOMAIN idle = {} /\ \A l \in Libs : pc[l] = "none"
  BY NothingRuns
<1>2. active \in SUBSET Libs /\ IsFiniteSet(active) /\ Batches!Cardinality(active) <= MaxConcurrent
  BY DEF BatchIInv, Batches!TypeOK, QueueApart, Batches!ThreadHasSlot
<1>3. PICK begun \in SUBSET Batches!ToSet(ls) :
         /\ active' = active \cup begun /\ active' \in SUBSET Libs /\ IsFiniteSet(active')
         /\ Batches!Cardinality(active') <= MaxConcurrent
         /\ pending' \in Seq(Libs) /\ Batches!IsInjective(pending') /\
            Batches!ToSet(pending') \subseteq Batches!ToSet(ls)
         /\ Batches!ToSet(pending') \cap active' = {}
         /\ pending' # <<>> => Batches!Cardinality(active') = MaxConcurrent
         /\ running' = (active' # {} \/ pending' # <<>>)
         /\ cancel' = [l \in Libs |-> cancel[l] /\ l \notin begun]
         /\ pc' = [l \in Libs |-> IF l \in begun THEN "open"
                                  ELSE IF l \in active \ active THEN Batches!Joined(l) ELSE pc[l]]
  BY <1>1, <1>2, StartsPending
<1>4. /\ active' = begun /\ \A l \in Libs : /\ pc'[l] = IF l \in begun THEN "open" ELSE "none"
                                            /\ cancel'[l] => cancel[l]
  BY <1>1, <1>3
<1>5. UNCHANGED <<idle, db, tracked, due, shown, main, win, disposed>>
  BY DEF Batches!changes
<1>6. Batches!TypeOK'
  <2>1. /\ running' \in BOOLEAN /\ active' \in SUBSET Libs /\ pending' \in Seq(Libs)
        /\ pc' \in [Libs -> Batches!Phases \cup {"none", "teardown", "done"}]
        /\ cancel' \in [Libs -> BOOLEAN]
    <3>1. pc' \in [Libs -> Batches!Phases \cup {"none", "teardown", "done"}]
      BY <1>1, <1>3 DEF Batches!Phases
    <3>2. cancel' \in [Libs -> BOOLEAN]
      BY <1>3 DEF BatchIInv, Batches!TypeOK
    <3>. QED BY <1>3, <3>1, <3>2
  <2>. QED BY <1>5, <2>1 DEF BatchIInv, Batches!TypeOK, Batches!Changes
<1>7. QueueApart' /\ Closing' /\ EventsCarry'
  BY <1>1, <1>3, <1>5 DEF BatchIInv, QueueApart, Closing, EventsCarry
<1>8. Batches!RunningIsBusy'
  <2>1. pending' # <<>> => active' # {}
    BY <1>3, SameSets, FS_EmptySet DEF Batches!Bounds
  <2>. QED BY <1>3, <2>1 DEF Batches!RunningIsBusy
<1>9. Batches!ThreadHasSlot' /\ Batches!OneEndPerScan'
  BY <1>1, <1>3, <1>4, <1>5 DEF Batches!ThreadHasSlot, Batches!OneEndPerScan
<1>10. Announces'
  <2>1. \A l \in Libs \ Cancels : ~cancel[l] /\ tracked[l] = {}
    BY <1>1 DEF BatchIInv, Announces, Unannounced
  <2>. QED BY <1>4, <1>5, <2>1 DEF BatchIInv, Announces
<1>11. Batches!ChangesAccounted'
  BY <1>5 DEF BatchIInv, Batches!ChangesAccounted
<1>. QED BY <1>6, <1>7, <1>8, <1>9, <1>10, <1>11 DEF BatchIInv

\* A request while a batch is under way changes nothing.
LEMMA RequestIsLost ==
  ASSUME BatchIInv, UNCHANGED <<Batches!batch, pc, cancel, idle, Batches!changes, main, win, disposed>>,
         present' \in SUBSET Libs, present \subseteq present', starts' \in 0 .. MaxStarts
  PROVE  BatchIInv'
<1>1. UNCHANGED <<running, active, pending, pc, cancel, idle, db, tracked, due, shown, main, win, disposed>>
  BY DEF Batches!batch, Batches!changes
<1>2. Batches!TypeOK'
  BY <1>1 DEF BatchIInv, Batches!TypeOK, Batches!Changes
<1>3. QueueApart' /\ Closing' /\ EventsCarry' /\ Announces'
  BY <1>1 DEF BatchIInv, QueueApart, Closing, EventsCarry, Announces
<1>4. Batches!RunningIsBusy' /\ Batches!ThreadHasSlot' /\ Batches!OneEndPerScan' /\ Batches!ChangesAccounted'
  BY <1>1 DEF BatchIInv, Batches!RunningIsBusy, Batches!ThreadHasSlot, Batches!OneEndPerScan,
      Batches!ChangesAccounted
<1>. QED BY <1>2, <1>3, <1>4 DEF BatchIInv

LEMMA StartKeeps ==
  ASSUME BatchIInv, Batches!Bounds, NEW ls \in Seq(Libs), Batches!IsInjective(ls), Batches!Start(ls)
  PROVE  BatchIInv'
<1>1. /\ win = "open" /\ starts' = starts + 1 /\ starts < MaxStarts
      /\ UNCHANGED <<idle, Batches!changes, present, main, win, disposed>>
  BY DEF Batches!Start
<1>2. starts' \in 0 .. MaxStarts /\ present' \in SUBSET Libs /\ present \subseteq present'
  BY <1>1 DEF BatchIInv, Batches!TypeOK, Batches!Bounds
<1>3. CASE running
  BY <1>1, <1>2, <1>3, RequestIsLost DEF Batches!Start
<1>4. CASE ~running
  BY <1>1, <1>2, <1>4, StartPendingKeeps DEF Batches!Start
<1>. QED BY <1>3, <1>4

LEMMA OneLibrary ==
  ASSUME NEW l \in Libs
  PROVE  <<l>> \in Seq(Libs) /\ Batches!IsInjective(<<l>>)
BY DEF Batches!IsInjective

LEMMA AddKeeps ==
  ASSUME BatchIInv, Batches!Bounds, NEW l \in Libs, Batches!AddLibrary(l)
  PROVE  BatchIInv'
<1>1. /\ win = "open" /\ starts' = starts + 1 /\ starts < MaxStarts /\ present' = present \cup {l}
      /\ UNCHANGED <<idle, Batches!changes, main, win, disposed>>
  BY DEF Batches!AddLibrary
<1>2. starts' \in 0 .. MaxStarts /\ present' \in SUBSET Libs /\ present \subseteq present'
  BY <1>1 DEF BatchIInv, Batches!TypeOK, Batches!Bounds
<1>3. CASE running
  BY <1>1, <1>2, <1>3, RequestIsLost DEF Batches!AddLibrary
<1>4. CASE ~running
  BY <1>1, <1>2, <1>4, StartPendingKeeps, OneLibrary DEF Batches!AddLibrary
<1>. QED BY <1>3, <1>4

LEMMA AllLibraries ==
  ASSUME Batches!Bounds, NEW ls \in Batches!SetToSeqs(Libs)
  PROVE  ls \in Seq(Libs) /\ Batches!IsInjective(ls)
<1>1. Batches!Cardinality(Libs) \in Nat
  BY SameSets, FS_CardinalityType DEF Batches!Bounds
<1>2. /\ ls \in [1 .. Batches!Cardinality(Libs) -> Libs]
      /\ \A i, j \in 1 .. Batches!Cardinality(Libs) : i # j => ls[i] # ls[j]
  BY DEF Batches!SetToSeqs
<1>3. ls \in Seq(Libs)
  BY <1>1, <1>2
<1>. QED BY <1>2, <1>3 DEF Batches!IsInjective

\* A drive that is gone, a library that is removed: neither runs on unwatched.
LEMMA CancelKeeps ==
  ASSUME BatchIInv, NEW l \in Libs \cap Cancels, Batches!CancelLibrary(l), UNCHANGED <<due, main, win,
      disposed, starts>>,
         win = "open", \/ UNCHANGED <<shown, present>>
                       \/ present' = present \ {l} /\ shown' = [shown EXCEPT ![l] = {}]
  PROVE  BatchIInv'
<1>1. /\ UNCHANGED <<running, active, pc, idle, db, tracked, due, main, win, disposed, starts>>
      /\ pending' = Batches!RemoveFirst(pending, l) /\ cancel' = [cancel EXCEPT ![l] = @ \/ l \in active]
  BY DEF Batches!CancelLibrary
<1>2. /\ pending' \in Seq(Libs) /\ Batches!IsInjective(pending') /\
         Batches!ToSet(pending') \subseteq Batches!ToSet(pending)
      /\ pending = <<>> => pending' = <<>>
  BY <1>1, RemovalFacts DEF BatchIInv, Batches!TypeOK, QueueApart
<1>3. cancel' \in [Libs -> BOOLEAN] /\ \A m \in Libs : m # l => cancel'[m] = cancel[m]
  BY <1>1 DEF BatchIInv, Batches!TypeOK
<1>4. /\ present' \in SUBSET Libs /\ shown' \in [Libs -> SUBSET Batches!Changes]
      /\ \A m \in Libs : m # l => shown'[m] = shown[m] /\ (m \in present => m \in present')
  BY DEF BatchIInv, Batches!TypeOK
<1>5. Batches!TypeOK'
  BY <1>1, <1>2, <1>3, <1>4 DEF BatchIInv, Batches!TypeOK, Batches!Changes
<1>6. QueueApart' /\ Closing' /\ EventsCarry'
  BY <1>1, <1>2 DEF BatchIInv, QueueApart, Closing, EventsCarry
<1>7. Announces'
  BY <1>1, <1>3, <1>4 DEF BatchIInv, Announces
<1>8. Batches!RunningIsBusy' /\ Batches!ThreadHasSlot' /\ Batches!OneEndPerScan'
  BY <1>1, <1>2 DEF BatchIInv, Batches!RunningIsBusy, Batches!ThreadHasSlot, Batches!OneEndPerScan
<1>9. Batches!ChangesAccounted'
  BY <1>1, <1>4 DEF BatchIInv, Batches!ChangesAccounted
<1>. QED BY <1>5, <1>6, <1>7, <1>8, <1>9 DEF BatchIInv

LEMMA RefreshKeeps ==
  ASSUME BatchIInv, NEW l \in Libs, Batches!RefreshDue(l)
  PROVE  BatchIInv'
<1>1. /\ UNCHANGED <<running, active, pending, pc, cancel, idle, db, tracked, present, main, win,
                     disposed, starts>>
      /\ due' = [due EXCEPT ![l] = Batches!NotDue]
      /\ shown' = IF l \in present THEN [shown EXCEPT ![l] = db[l]] ELSE shown
  BY DEF Batches!RefreshDue, Batches!batch, Batches!ui
<1>2. Batches!TypeOK'
  <2>1. shown' \in [Libs -> SUBSET Batches!Changes] /\ due' \in [Libs -> [armed : BOOLEAN,
            cs : SUBSET Batches!Changes]]
    BY <1>1 DEF BatchIInv, Batches!TypeOK, Batches!NotDue
  <2>. QED BY <1>1, <2>1 DEF BatchIInv, Batches!TypeOK, Batches!Changes
<1>3. QueueApart' /\ Closing' /\ EventsCarry' /\ Announces'
  BY <1>1 DEF BatchIInv, QueueApart, Closing, EventsCarry, Announces
<1>4. Batches!RunningIsBusy' /\ Batches!ThreadHasSlot' /\ Batches!OneEndPerScan'
  BY <1>1 DEF BatchIInv, Batches!RunningIsBusy, Batches!ThreadHasSlot, Batches!OneEndPerScan
<1>5. ASSUME NEW m \in Libs \ Cancels, win = "open"
      PROVE  db[m] = shown'[m] \cup tracked[m] \cup due'[m].cs \cup Carried(idle, m)
  <2>1. db[m] = shown[m] \cup tracked[m] \cup due[m].cs \cup Carried(idle, m) /\ m \in present
    BY <1>5 DEF BatchIInv, Announces, Batches!ChangesAccounted, Carried
  <2>2. CASE m = l
    <3>1. shown'[m] = db[m] /\ due'[m].cs = {}
      BY <1>1, <2>1, <2>2 DEF BatchIInv, Batches!TypeOK, Batches!NotDue
    <3>. QED BY <2>1, <3>1
  <2>3. CASE m # l
    <3>1. shown'[m] = shown[m] /\ due'[m] = due[m]
      BY <1>1, <2>3 DEF BatchIInv, Batches!TypeOK
    <3>. QED BY <2>1, <3>1
  <2>. QED BY <2>2, <2>3
<1>6. Batches!ChangesAccounted'
  BY <1>1, <1>5 DEF Batches!ChangesAccounted, Carried
<1>. QED BY <1>2, <1>3, <1>4, <1>6 DEF BatchIInv

LEMMA CloseKeeps ==
  ASSUME BatchIInv, Batches!CloseWindow
  PROVE  BatchIInv'
<1>1. /\ UNCHANGED <<running, active, pc, idle, db, tracked, shown, present, disposed, starts>>
      /\ win' = "closed" /\ pending' = <<>> /\ due' = [l \in Libs |-> Batches!NotDue]
      /\ cancel' = [l \in Libs |-> cancel[l] \/ l \in active]
      /\ main' \in {"loop", "wait"}
  BY DEF Batches!CloseWindow, BatchIInv, Batches!TypeOK
<1>2. Batches!TypeOK'
  <2>1. due' \in [Libs -> [armed : BOOLEAN, cs : SUBSET Batches!Changes]] /\ cancel' \in [Libs -> BOOLEAN]
    BY <1>1 DEF BatchIInv, Batches!TypeOK, Batches!NotDue
  <2>. QED BY <1>1, <2>1, EmptyQueue DEF BatchIInv, Batches!TypeOK, Batches!Changes
<1>3. QueueApart' /\ Closing' /\ EventsCarry' /\ Announces'
  BY <1>1, EmptyQueue DEF BatchIInv, QueueApart, Closing, EventsCarry, Announces
<1>4. Batches!RunningIsBusy' /\ Batches!ThreadHasSlot' /\ Batches!OneEndPerScan' /\ Batches!ChangesAccounted'
  BY <1>1 DEF BatchIInv, Batches!RunningIsBusy, Batches!ThreadHasSlot, Batches!OneEndPerScan,
      Batches!ChangesAccounted
<1>. QED BY <1>2, <1>3, <1>4 DEF BatchIInv

LEMMA DisposedKeeps ==
  ASSUME BatchIInv, Batches!Bounds, Batches!Disposed
  PROVE  BatchIInv'
<1>1. /\ UNCHANGED <<running, cancel, idle, db, tracked, due, shown, present, win, starts>>
      /\ main' = "loop" /\ disposed' = TRUE /\ active' = {} /\ pending' = <<>>
      /\ pc' = [l \in Libs |-> "none"] /\ win = "closed"
  BY DEF Batches!Disposed, Batches!changes, BatchIInv, Closing
<1>2. Batches!TypeOK'
  BY <1>1, EmptyQueue DEF BatchIInv, Batches!TypeOK, Batches!Changes
<1>3. IsFiniteSet({}) /\ Batches!Cardinality({}) = 0 /\ 0 <= MaxConcurrent
  BY SameSets, FS_EmptySet DEF Batches!Bounds
<1>4. QueueApart' /\ Closing' /\ EventsCarry' /\ Announces'
  BY <1>1, <1>3, EmptyQueue DEF BatchIInv, QueueApart, Closing, EventsCarry, Announces
<1>5. Batches!RunningIsBusy' /\ Batches!ThreadHasSlot' /\ Batches!OneEndPerScan' /\ Batches!ChangesAccounted'
  BY <1>1, <1>3 DEF Batches!RunningIsBusy, Batches!ThreadHasSlot, Batches!OneEndPerScan,
      Batches!ChangesAccounted
<1>. QED BY <1>2, <1>4, <1>5 DEF BatchIInv

\* The facts on the queue that the cases of a callback share.
LEMMA CallbackFacts ==
  ASSUME BatchIInv, idle # <<>>, idle' = Tail(idle), UNCHANGED <<db, tracked, shown, present, starts>>
  PROVE  /\ idle' \in Seq(Events) /\ Head(idle) \in Events /\ EventsCarry'
         /\ Head(idle).kind # "library" => Head(idle).cs = {}
         /\ \A m : Carried(idle, m) =
                     Carried(idle', m) \cup (IF Head(idle).lib = m THEN Head(idle).cs ELSE {})
         /\ ~disposed => /\ Head(idle).lib \in active
                         /\ Head(idle).kind \in Batches!Endings =>
                              \A i \in DOMAIN idle' : idle'[i].lib # Head(idle).lib
         /\ ~disposed => \A i \in DOMAIN idle' :
              /\ idle'[i].lib \in active
              /\ idle'[i].kind \in Batches!Endings =>
                    /\ pc[idle'[i].lib] \in {"teardown", "done"}
                    /\ \A j \in DOMAIN idle' : j > i => idle'[j].lib # idle'[i].lib
<1>1. idle \in Seq(Events)
  BY QueueTyped DEF BatchIInv
<1>2. /\ idle' \in Seq(Events) /\ DOMAIN idle' = 1 .. Len(idle) - 1 /\ Len(idle) \in Nat
      /\ 1 \in DOMAIN idle /\ Head(idle) = idle[1] /\ Head(idle) \in Events
      /\ \A i \in DOMAIN idle' : i + 1 \in DOMAIN idle /\ i + 1 > 1 /\ idle'[i] = idle[i + 1]
      /\ \A m : Carried(idle, m) = Carried(idle', m) \cup (IF Head(idle).lib = m THEN Head(idle).cs ELSE {})
  BY <1>1, Dispatched
<1>3. EventsCarry' /\ (Head(idle).kind # "library" => Head(idle).cs = {})
  BY <1>2 DEF BatchIInv, EventsCarry
<1>4. ASSUME ~disposed
      PROVE  /\ Head(idle).lib \in active
             /\ Head(idle).kind \in Batches!Endings => \A i \in DOMAIN idle' : idle'[i].lib # Head(idle).lib
  BY <1>2, <1>4 DEF BatchIInv, Batches!OneEndPerScan
<1>5. ASSUME ~disposed, NEW i \in DOMAIN idle'
      PROVE  /\ idle'[i].lib \in active
             /\ idle'[i].kind \in Batches!Endings =>
                   /\ pc[idle'[i].lib] \in {"teardown", "done"}
                   /\ \A j \in DOMAIN idle' : j > i => idle'[j].lib # idle'[i].lib
  <2>1. i + 1 \in DOMAIN idle /\ idle'[i] = idle[i + 1]
    BY <1>2
  <2>2. /\ idle[i + 1].lib \in active
        /\ idle[i + 1].kind \in Batches!Endings =>
              /\ pc[idle[i + 1].lib] \in {"teardown", "done"}
              /\ \A j \in DOMAIN idle : j > i + 1 => idle[j].lib # idle[i + 1].lib
    BY <1>5, <2>1 DEF BatchIInv, Batches!OneEndPerScan
  <2>3. \A j \in DOMAIN idle' : j > i => j + 1 \in DOMAIN idle /\ j + 1 > i + 1 /\ idle'[j] = idle[j + 1]
    BY <1>2
  <2>. QED BY <2>1, <2>2, <2>3
<1>. QED BY <1>2, <1>3, <1>4, <1>5

\* An event that is passed on, or that arms the refresh of its library.
LEMMA AnnounceKeeps ==
  ASSUME BatchIInv, ~disposed, idle # <<>>, idle' = Tail(idle), Batches!Announce(Head(idle)), Batches!Unref,
         UNCHANGED <<win, db, tracked, shown, present, disposed, starts>>
  PROVE  BatchIInv'
<1> DEFINE e == Head(idle)
<1>1. /\ UNCHANGED <<running, active, pending, pc, cancel>>
      /\ due' = IF e.kind = "library" /\ win = "open" /\ e.lib \in present
                THEN [due EXCEPT ![e.lib] = Batches!Merged(@, e.cs)] ELSE due
  BY DEF Batches!Announce, Batches!batch
<1>2. /\ main' \in {"loop", "wait"} /\ (main' = "wait" => main = "wait" \/ win = "closed")
  BY DEF Batches!Unref, BatchIInv, Batches!TypeOK
<1>3. /\ idle' \in Seq(Events) /\ e \in Events /\ EventsCarry' /\ (e.kind # "library" => e.cs = {})
      /\ \A m : Carried(idle, m) = Carried(idle', m) \cup (IF e.lib = m THEN e.cs ELSE {})
      /\ \A i \in DOMAIN idle' :
              /\ idle'[i].lib \in active
              /\ idle'[i].kind \in Batches!Endings =>
                    /\ pc[idle'[i].lib] \in {"teardown", "done"}
                    /\ \A j \in DOMAIN idle' : j > i => idle'[j].lib # idle'[i].lib
  BY CallbackFacts
<1> HIDE DEF e
<1>4. /\ due' \in [Libs -> [armed : BOOLEAN, cs : SUBSET Batches!Changes]]
      /\ \A m \in Libs : m # e.lib => due'[m] = due[m]
      /\ e.kind # "library" => due' = due
      /\ e.kind = "library" /\ win = "open" /\ e.lib \in present => due'[e.lib].cs = due[e.lib].cs \cup e.cs
  <2>1. e.lib \in Libs /\ e.cs \in SUBSET Batches!Changes
    BY <1>3 DEF Events
  <2>2. due \in [Libs -> [armed : BOOLEAN, cs : SUBSET Batches!Changes]]
    BY DEF BatchIInv, Batches!TypeOK
  <2>3. Batches!Merged(due[e.lib], e.cs) \in [armed : BOOLEAN, cs : SUBSET Batches!Changes]
    BY <2>1, <2>2 DEF Batches!Merged
  <2>. QED BY <1>1, <2>1, <2>2, <2>3 DEF Batches!Merged
<1>5. Batches!TypeOK'
  BY <1>1, <1>2, <1>3, <1>4 DEF BatchIInv, Batches!TypeOK, Events, Batches!Changes
<1>6. QueueApart' /\ Closing' /\ Announces'
  BY <1>1, <1>2 DEF BatchIInv, QueueApart, Closing, Announces
<1>7. Batches!RunningIsBusy' /\ Batches!ThreadHasSlot' /\ Batches!OneEndPerScan'
  BY <1>1, <1>3 DEF BatchIInv, Batches!RunningIsBusy, Batches!ThreadHasSlot, Batches!OneEndPerScan
<1>8. ASSUME NEW m \in Libs \ Cancels, win = "open"
      PROVE  db[m] = shown[m] \cup tracked[m] \cup due'[m].cs \cup Carried(idle', m)
  <2>1. /\ db[m] = shown[m] \cup tracked[m] \cup due[m].cs \cup Carried(idle, m) /\ m \in present
    BY <1>8 DEF BatchIInv, Announces, Batches!ChangesAccounted, Carried
  <2>2. CASE e.lib = m /\ e.kind = "library"
    <3>1. due'[m].cs = due[m].cs \cup e.cs /\ Carried(idle, m) = Carried(idle', m) \cup e.cs
      BY <1>3, <1>4, <1>8, <2>1, <2>2
    <3>. QED BY <2>1, <3>1
  <2>3. CASE ~(e.lib = m /\ e.kind = "library")
    <3>1. due'[m] = due[m]
      BY <1>4, <2>3
    <3>2. Carried(idle, m) = Carried(idle', m) \cup (IF e.lib = m THEN e.cs ELSE {})
      BY <1>3
    <3>3. (IF e.lib = m THEN e.cs ELSE {}) = {}
      BY <1>3, <2>3
    <3>4. Carried(idle, m) = Carried(idle', m)
      BY <3>2, <3>3
    <3>. QED BY <2>1, <3>1, <3>4
  <2>. QED BY <2>2, <2>3
<1>9. Batches!ChangesAccounted'
  BY <1>8 DEF Batches!ChangesAccounted, Carried
<1>. QED BY <1>3, <1>5, <1>6, <1>7, <1>9 DEF BatchIInv

\* The end of a scan: its thread is joined and its slot goes to one that waits.
LEMMA FinishKeeps ==
  ASSUME BatchIInv, Batches!Bounds, ~disposed, idle # <<>>, idle' = Tail(idle),
      Batches!FinishScan(Head(idle)), Batches!Unref,
         UNCHANGED <<win, db, tracked, shown, present, disposed, starts>>
  PROVE  BatchIInv'
<1> DEFINE e == Head(idle)
<1>1. e.kind \in Batches!Endings /\ pc[e.lib] = "done" /\ Batches!TryStartPending(active \ {e.lib},
          pending) /\ due' = due
  BY DEF Batches!FinishScan
<1>2. /\ main' \in {"loop", "wait"} /\ (main' = "wait" => main = "wait" \/ win = "closed")
  BY DEF Batches!Unref, BatchIInv, Batches!TypeOK
<1>3. /\ idle' \in Seq(Events) /\ e \in Events /\ EventsCarry' /\ e.cs = {} /\ e.lib \in active
      /\ \A m : Carried(idle, m) = Carried(idle', m)
      /\ \A i \in DOMAIN idle' :
              /\ idle'[i].lib \in active /\ idle'[i].lib # e.lib
              /\ idle'[i].kind \in Batches!Endings =>
                    /\ pc[idle'[i].lib] \in {"teardown", "done"}
                    /\ \A j \in DOMAIN idle' : j > i => idle'[j].lib # idle'[i].lib
  <2>1. e.kind # "library"
    BY <1>1 DEF Batches!Endings
  <2>2. /\ idle' \in Seq(Events) /\ e \in Events /\ EventsCarry' /\ e.cs = {} /\ e.lib \in active
        /\ \A m : Carried(idle, m) = Carried(idle', m) \cup (IF e.lib = m THEN e.cs ELSE {})
        /\ \A i \in DOMAIN idle' : idle'[i].lib # e.lib
    BY <1>1, <2>1, CallbackFacts
  <2>3. \A i \in DOMAIN idle' :
              /\ idle'[i].lib \in active
              /\ idle'[i].kind \in Batches!Endings =>
                    /\ pc[idle'[i].lib] \in {"teardown", "done"}
                    /\ \A j \in DOMAIN idle' : j > i => idle'[j].lib # idle'[i].lib
    BY CallbackFacts
  <2> HIDE DEF e
  <2>4. ASSUME NEW m PROVE Carried(idle, m) = Carried(idle', m)
    <3>1. Carried(idle, m) = Carried(idle', m) \cup (IF e.lib = m THEN e.cs ELSE {})
      BY <2>2
    <3>2. (IF e.lib = m THEN e.cs ELSE {}) = {}
      BY <2>2
    <3>. QED BY <3>1, <3>2
  <2>. QED BY <2>2, <2>3, <2>4
<1> HIDE DEF e
<1> DEFINE act == active \ {e.lib}
<1>4. /\ active \in SUBSET Libs /\ IsFiniteSet(active) /\ Batches!Cardinality(active) <= MaxConcurrent
      /\ pending \in Seq(Libs) /\ Batches!IsInjective(pending) /\ Batches!ToSet(pending) \cap active = {}
  BY DEF BatchIInv, Batches!TypeOK, QueueApart, Batches!ThreadHasSlot
<1>5. act \in SUBSET Libs /\ IsFiniteSet(act) /\ Batches!Cardinality(act) <= MaxConcurrent
  <2>1. IsFiniteSet(act) /\ Batches!Cardinality(act) <= Batches!Cardinality(active)
    BY <1>4, SameSets, FS_Subset
  <2>2. Batches!Cardinality(act) \in Nat /\ Batches!Cardinality(active) \in Nat /\ MaxConcurrent \in Nat
    BY <1>4, <2>1, SameSets, FS_CardinalityType DEF Batches!Bounds
  <2> HIDE DEF act
  <2>3. Batches!Cardinality(act) <= MaxConcurrent
    BY <1>4, <2>1, <2>2
  <2>. QED BY <1>4, <2>1, <2>3 DEF act
<1>6. PICK begun \in SUBSET Batches!ToSet(pending) :
         /\ active' = act \cup begun /\ active' \in SUBSET Libs /\ IsFiniteSet(active')
         /\ Batches!Cardinality(active') <= MaxConcurrent
         /\ pending' \in Seq(Libs) /\ Batches!IsInjective(pending') /\
            Batches!ToSet(pending') \subseteq Batches!ToSet(pending)
         /\ Batches!ToSet(pending') \cap active' = {}
         /\ pending' # <<>> => Batches!Cardinality(active') = MaxConcurrent
         /\ running' = (active' # {} \/ pending' # <<>>)
         /\ cancel' = [l \in Libs |-> cancel[l] /\ l \notin begun]
         /\ pc' = [l \in Libs |-> IF l \in begun THEN "open"
                                  ELSE IF l \in active \ act THEN Batches!Joined(l) ELSE pc[l]]
  <2>1. Batches!ToSet(pending) \cap act = {} /\ Batches!TryStartPending(act, pending)
    BY <1>1, <1>4
  <2>2. /\ Batches!Bounds /\ act \in SUBSET Libs /\ IsFiniteSet(act) /\
           Batches!Cardinality(act) <= MaxConcurrent
        /\ pending \in Seq(Libs) /\ Batches!IsInjective(pending)
    BY <1>4, <1>5
  <2> HIDE DEF act
  <2>3. \E b \in SUBSET Batches!ToSet(pending) :
         /\ active' = act \cup b /\ active' \in SUBSET Libs /\ IsFiniteSet(active')
         /\ Batches!Cardinality(active') <= MaxConcurrent
         /\ pending' \in Seq(Libs) /\ Batches!IsInjective(pending') /\
            Batches!ToSet(pending') \subseteq Batches!ToSet(pending)
         /\ Batches!ToSet(pending') \cap active' = {}
         /\ pending' # <<>> => Batches!Cardinality(active') = MaxConcurrent
         /\ running' = (active' # {} \/ pending' # <<>>)
         /\ cancel' = [l \in Libs |-> cancel[l] /\ l \notin b]
         /\ pc' = [l \in Libs |-> IF l \in b THEN "open"
                                  ELSE IF l \in active \ act THEN Batches!Joined(l) ELSE pc[l]]
    BY ZenonT(60), <2>1, <2>2, StartsPending
  <2>. QED BY <2>3
<1>7. /\ begun \cap active = {} /\ active \ act = {e.lib} /\ e.lib \notin begun
      /\ \A l \in Libs : pc'[l] = IF l \in begun THEN "open" ELSE IF l = e.lib THEN "none" ELSE pc[l]
      /\ \A l \in Libs : cancel'[l] => cancel[l]
  <2>1. begun \cap active = {} /\ active \ act = {e.lib} /\ e.lib \notin begun
    BY <1>3, <1>4
  <2>2. Batches!Joined(e.lib) = "none"
    BY <1>1 DEF Batches!Joined, e
  <2>. QED BY <1>6, <2>1, <2>2
<1>8. Batches!TypeOK'
  <2>1. pc' \in [Libs -> Batches!Phases \cup {"none", "teardown", "done"}]
    <3>1. \A l \in Libs : pc[l] \in Batches!Phases \cup {"none", "teardown", "done"}
      BY DEF BatchIInv, Batches!TypeOK
    <3>2. \A l \in Libs : pc'[l] \in Batches!Phases \cup {"none", "teardown", "done"}
      BY <1>7, <3>1 DEF Batches!Phases
    <3>3. \E f : pc' = [l \in Libs |-> f[l]]
      <4>1. pc' = [l \in Libs |-> [k \in Libs |-> IF k \in begun THEN "open"
                                    ELSE IF k \in active \ act THEN Batches!Joined(k) ELSE pc[k]][l]]
        BY <1>6
      <4>. QED BY <4>1
    <3>. QED BY <3>2, <3>3
  <2>2. cancel' \in [Libs -> BOOLEAN]
    BY <1>6 DEF BatchIInv, Batches!TypeOK
  <2>. QED BY <1>1, <1>2, <1>3, <1>6, <2>1, <2>2 DEF BatchIInv, Batches!TypeOK, Events, Batches!Changes
<1>9. QueueApart' /\ Closing'
  <2>1. Batches!ToSet(pending') = {} => pending' = <<>>
    BY <1>6, InSeq
  <2>. QED BY <1>2, <1>6, <2>1, EmptyQueue DEF BatchIInv, QueueApart, Closing
<1>10. Batches!RunningIsBusy' /\ Batches!ThreadHasSlot'
  <2>1. pending' # <<>> => active' # {}
    BY <1>6, SameSets, FS_EmptySet DEF Batches!Bounds
  <2>2. \A l \in Libs : pc'[l] # "none" => l \in active'
    BY <1>6, <1>7 DEF BatchIInv, Batches!ThreadHasSlot
  <2>. QED BY <1>6, <2>1, <2>2 DEF Batches!RunningIsBusy, Batches!ThreadHasSlot
<1>11. Batches!OneEndPerScan'
  <2>1. \A i \in DOMAIN idle' : idle'[i].lib \in Libs /\ idle'[i].lib \in active'
                                /\ pc'[idle'[i].lib] = pc[idle'[i].lib]
    BY <1>3, <1>4, <1>6, <1>7
  <2>. QED BY <1>3, <2>1 DEF Batches!OneEndPerScan
<1>12. Announces'
  <2>1. \A l \in Libs : pc[l] \in Unannounced => pc'[l] = pc[l]
    <3>1. ASSUME NEW l \in Libs, pc[l] \in Unannounced PROVE pc'[l] = pc[l]
      <4>1. l \in active
        BY <3>1 DEF BatchIInv, Batches!ThreadHasSlot, Unannounced
      <4>2. l # e.lib
        BY <1>1, <3>1 DEF Unannounced, e
      <4>. QED BY <1>7, <4>1, <4>2
    <3>. QED BY <3>1
  <2>. QED BY <1>7, <2>1 DEF BatchIInv, Announces
<1>13. Batches!ChangesAccounted'
  BY <1>1, <1>3 DEF BatchIInv, Batches!ChangesAccounted, Carried
<1>. QED BY <1>3, <1>8, <1>9, <1>10, <1>11, <1>12, <1>13 DEF BatchIInv

LEMMA HandleKeeps ==
  ASSUME BatchIInv, Batches!Bounds, Batches!HandleEvent
  PROVE  BatchIInv'
<1>1. /\ Batches!InLoop /\ idle # <<>> /\ idle' = Tail(idle)
      /\ UNCHANGED <<db, tracked, shown, present, disposed, starts>>
  BY DEF Batches!HandleEvent
<1>2. CASE disposed
  <2>1. /\ UNCHANGED <<running, active, pending, pc, cancel, due, main>> /\ win' \in {win, "crashed"}
    BY <1>2 DEF Batches!HandleEvent, Batches!batch
  <2>2. win # "open" /\ win' # "open" /\ main = "loop" /\ win' \in {"closed", "crashed"}
    BY <1>1, <1>2, <2>1 DEF BatchIInv, Closing, Batches!InLoop, Batches!TypeOK
  <2>3. idle' \in Seq(Events) /\ EventsCarry'
    BY <1>1, CallbackFacts
  <2>4. Batches!TypeOK'
    BY <1>1, <2>1, <2>2, <2>3 DEF BatchIInv, Batches!TypeOK, Events, Batches!Changes
  <2>5. QueueApart' /\ Closing' /\ Announces'
    BY <1>1, <2>1, <2>2 DEF BatchIInv, QueueApart, Closing, Announces
  <2>6. Batches!RunningIsBusy' /\ Batches!ThreadHasSlot' /\ Batches!OneEndPerScan' /\
            Batches!ChangesAccounted'
    BY <1>1, <1>2, <2>1, <2>2 DEF BatchIInv, Batches!RunningIsBusy, Batches!ThreadHasSlot,
        Batches!OneEndPerScan, Batches!ChangesAccounted
  <2>. QED BY <2>3, <2>4, <2>5, <2>6 DEF BatchIInv
<1>3. CASE ~disposed
  <2>1. Batches!Unref /\ UNCHANGED win /\ (Batches!Announce(Head(idle)) \/ Batches!FinishScan(Head(idle)))
    BY <1>3 DEF Batches!HandleEvent
  <2>. QED BY <1>1, <1>3, <2>1, AnnounceKeeps, FinishKeeps
<1>. QED BY <1>2, <1>3

-----------------------------------------------------------------------------
(* The theorem *)

LEMMA InitHolds ==
  ASSUME Batches!Bounds, Batches!Init
  PROVE  BatchIInv
<1>1. Batches!TypeOK
  <2>1. pending \in Seq(Libs) /\ idle \in Seq(Events)
    BY DEF Batches!Init
  <2>2. due \in [Libs -> [armed : BOOLEAN, cs : SUBSET Batches!Changes]]
    BY DEF Batches!Init, Batches!NotDue
  <2>3. starts \in 0 .. MaxStarts
    BY DEF Batches!Init, Batches!Bounds
  <2>. QED BY <2>1, <2>2, <2>3 DEF Batches!Init, Batches!TypeOK, Events
<1>2. IsFiniteSet({}) /\ Batches!Cardinality({}) = 0 /\ 0 <= MaxConcurrent
  BY SameSets, FS_EmptySet DEF Batches!Bounds
<1>3. QueueApart /\ Closing /\ EventsCarry /\ Announces
  BY <1>2, EmptyQueue DEF Batches!Init, QueueApart, Closing, EventsCarry, Announces
<1>4. Batches!RunningIsBusy /\ Batches!ThreadHasSlot /\ Batches!OneEndPerScan /\ Batches!ChangesAccounted
  BY <1>2 DEF Batches!Init, Batches!NotDue, Batches!RunningIsBusy, Batches!ThreadHasSlot,
      Batches!OneEndPerScan, Batches!ChangesAccounted
<1>. QED BY <1>1, <1>3, <1>4 DEF BatchIInv

LEMMA NextKeeps ==
  ASSUME BatchIInv, Batches!Bounds, [Batches!Next]_(Batches!vars)
  PROVE  BatchIInv'
<1>1. CASE UNCHANGED Batches!vars
  <2>1. UNCHANGED <<Batches!batch, pc, cancel, idle, Batches!changes, main, win, disposed>> /\
            present' = present
        /\ starts' = starts
    BY <1>1 DEF Batches!vars, Batches!batch, Batches!changes
  <2>. QED BY <2>1, RequestIsLost DEF BatchIInv, Batches!TypeOK
<1>2. CASE Batches!StartAll
  BY <1>2, AllLibraries, StartKeeps DEF Batches!StartAll
<1>3. ASSUME NEW l \in Libs, Batches!Rescan(l) \/ Batches!Request(l) PROVE BatchIInv'
  BY <1>3, OneLibrary, StartKeeps DEF Batches!Rescan, Batches!Request
<1>4. ASSUME NEW l \in Libs, Batches!Disconnect(l) PROVE BatchIInv'
  BY <1>4, CancelKeeps DEF Batches!Disconnect
<1>5. ASSUME NEW l \in Libs, Batches!RemoveLibrary(l) PROVE BatchIInv'
  BY <1>5, CancelKeeps DEF Batches!RemoveLibrary
<1>6. CASE Batches!HandleEvent
  BY <1>6, HandleKeeps
<1>7. CASE Batches!CloseWindow
  BY <1>7, CloseKeeps
<1>8. CASE Batches!Disposed
  BY <1>8, DisposedKeeps
<1>. QED BY <1>1, <1>2, <1>3, <1>4, <1>5, <1>6, <1>7, <1>8, AddKeeps, WorkerKeeps,
         RefreshKeeps DEF Batches!Next

THEOREM BatchInvariance ==
  ASSUME Batches!Bounds
  PROVE  Batches!Spec => []BatchIInv
<1>1. Batches!Init => BatchIInv
  BY InitHolds
<1>2. BatchIInv /\ [Batches!Next]_(Batches!vars) => BatchIInv'
  BY NextKeeps
<1>. QED BY <1>1, <1>2, PTL DEF Batches!Spec

\* What the controller knows of its scans is right (who runs, who has a slot, who has ended), and
\* between its commit and the refresh of the cache every change is in the tracker, in an event or in
\* the changeset of the timer.
THEOREM BatchesStaySound ==
  ASSUME Batches!Bounds
  PROVE  Batches!Spec => []Batches!BatchesSound
<1>1. BatchIInv => Batches!BatchesSound
  BY DEF BatchIInv, Batches!BatchesSound, Batches!ScansAccounted
<1>. QED BY <1>1, BatchInvariance, PTL

\* BatchesSound: in the run's specification too, what the controller knows of its scans is right,
\* and no committed change is dropped on its way to the cache.
THEOREM BatchesAlwaysSound == IndexerSpec => []BatchesSound
<1>1. IndexerInit => Batches!Init
  BY DEF IndexerInit
<1>2. [IndexerNext]_<<part, vars, batch>> => [Batches!Next]_(Batches!vars)
  BY DEF IndexerNext, batch, Batches!vars
<1>3. Batches!Spec => []Batches!BatchesSound
  BY BatchAssumption, BatchesStaySound
<1>4. Batches!BatchesSound => BatchesSound
  BY DEF BatchesSound
<1>. QED BY <1>1, <1>2, <1>3, <1>4, PTL DEF IndexerSpec, Batches!Spec

=============================================================================
