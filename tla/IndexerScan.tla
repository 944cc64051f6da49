---------------------------- MODULE IndexerScan ----------------------------
(***************************************************************************)
(* A scan of one library (indexer.c, with the batch and mtime writes of    *)
(* db.c and db_write.c): the delta walk, the prune of what it did not      *)
(* find, the extraction pool, the writer thread with its batches, and the  *)
(* record of what each album looked like, which lets the next scan skip    *)
(* it.  The disk changes meanwhile, the drive may go away, and the process *)
(* may be cancelled or killed at any step.                                 *)
(*                                                                         *)
(* An album is a directory, or the discs that make one.  A version stands  *)
(* for its files and for the fingerprint the walk takes of them (newest    *)
(* mtime, number of files, total size): a change gives a new one.          *)
(***************************************************************************)
EXTENDS Integers, Sequences, FiniteSets

CONSTANTS
    Albums,
    MaxVersion,     \* bound: versions of all albums together
    Files,          \* how many audio files an album has in each version
    Broken,         \* versions with an empty disc folder
    Threads,        \* thread_count of the extraction pool
    BatchSize,      \* WRITER_BATCH_SIZE
    MaxScans,       \* bound: scans started
    MaxEvents       \* bound: changes on disk, cancels, kills and failed writes together

ASSUME VersionAssumption == /\ MaxVersion \in Nat \ {0}
                            /\ Files \in [1 .. MaxVersion -> Nat \ {0}]
                            /\ Broken \subseteq 1 .. MaxVersion
ASSUME PoolAssumption == /\ IsFiniteSet(Albums)
                         /\ Threads \in Nat \ {0} /\ BatchSize \in Nat \ {0}
ASSUME BoundAssumption == MaxScans \in Nat /\ MaxEvents \in Nat

VARIABLES
    disk,           \* what is in the library folder: a version, or 0
    mounted,        \* the drive is there
    lib,            \* the rows of the database, committed
    work,           \* the same as the writing connection sees them
    txn,            \* a batch transaction is open
    scan,           \* the worker thread and struct indexer
    task,           \* the extraction tasks of the pool
    results,        \* the queue from the pool to the writer
    writer,         \* the writer thread
    done,           \* processed_album_t: albums whose fingerprint will be recorded
    count,          \* scans and events so far, and the newest version
    seen            \* for the properties: what happened to the albums

files == <<disk, mounted>>
base == <<lib, work, txn>>
pool == <<task, results, writer, done>>
vars == <<disk, mounted, lib, work, txn, scan, task, results, writer, done, count, seen>>

Versions == 1 .. MaxVersion
Absent == [row |-> FALSE, tracks |-> 0, recorded |-> 0]
Rows == {Absent} \cup [row : {TRUE}, tracks : 0 .. MaxVersion, recorded : 0 .. MaxVersion]
Sentinel == [album |-> "end", tracks |-> 0]
Results == [album : Albums, tracks : Versions]
PCs == {"off", "load", "walk", "prune", "metadata", "wait", "join", "writer", "finalize", "enrich"}
NoTask == [pc |-> "none", listed |-> 0]

TypeOK ==
    /\ disk \in [Albums -> 0 .. MaxVersion] /\ mounted \in BOOLEAN
    /\ lib \in [Albums -> Rows] /\ work \in [Albums -> Rows] /\ txn \in BOOLEAN
    /\ scan \in [pc : PCs, cancel : BOOLEAN, cached : [Albums -> Rows], todo : SUBSET Albums,
                 items : [Albums -> 0 .. MaxVersion], total : Nat, processed : Nat]
    /\ task \in [Albums -> [pc : {"none", "queued", "read"}, listed : 0 .. MaxVersion]]
    /\ results \in Seq(Results \cup {Sentinel})
    /\ writer \in [pc : {"off", "pop", "write", "last", "end"}, batch : Seq(Results)]
    /\ done \subseteq Albums
    /\ count \in [scans : 0 .. MaxScans, events : 0 .. MaxEvents, version : Versions]
    /\ seen \in [absent : SUBSET Albums, touched : SUBSET Albums, lost : SUBSET Albums]

NoScan == [pc |-> "off", cancel |-> FALSE, cached |-> [a \in Albums |-> Absent], todo |-> {},
           items |-> [a \in Albums |-> 0], total |-> 0, processed |-> 0]
NoWriter == [pc |-> "off", batch |-> <<>>]

Init ==
    /\ disk = [a \in Albums |-> 1] /\ mounted = TRUE
    /\ lib = [a \in Albums |-> Absent] /\ work = lib /\ txn = FALSE
    /\ scan = NoScan
    /\ task = [a \in Albums |-> NoTask]
    /\ results = <<>> /\ writer = NoWriter /\ done = {}
    /\ count = [scans |-> 0, events |-> 0, version |-> 1]
    /\ seen = [absent |-> {}, touched |-> {}, lost |-> {}]

-----------------------------------------------------------------------------
(* What happens around the scan.                                           *)

Event == count.events < MaxEvents /\ count' = [count EXCEPT !.events = @ + 1]
There(a) == mounted /\ disk[a] # 0

\* Tracks are added, replaced or removed; the album comes back, or goes.
ChangeDisk(a) ==
    /\ count.events < MaxEvents
    /\ mounted
    /\ \/ /\ count.version < MaxVersion
          /\ disk' = [disk EXCEPT ![a] = count.version + 1]
          /\ count' = [count EXCEPT !.events = @ + 1, !.version = @ + 1]
          /\ seen' = [seen EXCEPT !.touched = @ \cup {a}]
       \/ /\ disk[a] # 0
          /\ disk' = [disk EXCEPT ![a] = 0]
          /\ count' = [count EXCEPT !.events = @ + 1]
          /\ seen' = [seen EXCEPT !.touched = @ \cup {a}, !.absent = @ \cup {a}]
    /\ UNCHANGED <<mounted, base, scan, pool>>

\* The drive is unplugged, or comes back with the files it had.
Unplug ==
    /\ mounted
    /\ Event
    /\ mounted' = FALSE
    /\ seen' = [seen EXCEPT !.touched = Albums, !.absent = Albums]
    /\ UNCHANGED <<disk, base, scan, pool>>

Replug ==
    /\ ~mounted
    /\ mounted' = TRUE
    /\ seen' = [seen EXCEPT !.touched = Albums]
    /\ UNCHANGED <<disk, base, scan, pool, count>>

\* indexer_cancel
Cancel ==
    /\ scan.pc # "off" /\ ~scan.cancel
    /\ Event
    /\ scan' = [scan EXCEPT !.cancel = TRUE]
    /\ UNCHANGED <<files, base, pool, seen>>

\* The process is killed: the open transaction is rolled back by the next open.
Kill ==
    /\ scan.pc # "off"
    /\ Event
    /\ work' = lib /\ txn' = FALSE
    /\ scan' = NoScan
    /\ task' = [a \in Albums |-> NoTask] /\ results' = <<>> /\ writer' = NoWriter /\ done' = {}
    /\ UNCHANGED <<files, lib, seen>>

-----------------------------------------------------------------------------
(* The worker thread: walk and prune.                                      *)

\* indexer_scan: every counter and the cancel flag are reset.
Start ==
    /\ scan.pc = "off"
    /\ count.scans < MaxScans
    /\ count' = [count EXCEPT !.scans = @ + 1]
    /\ scan' = [NoScan EXCEPT !.pc = "load"]
    /\ done' = {}
    /\ seen' = [seen EXCEPT !.absent = {a \in Albums : ~There(a)}, !.touched = {}]
    /\ UNCHANGED <<files, base, task, results, writer>>

\* The database cannot be opened, or the disk has no room for it: INDEXER_ERROR.
OpenFails ==
    /\ scan.pc = "load"
    /\ scan' = [scan EXCEPT !.pc = "off"]
    /\ UNCHANGED <<files, base, pool, count, seen>>

\* The table of what the last scan recorded.
Load ==
    /\ scan.pc = "load"
    /\ scan' = [scan EXCEPT !.pc = "walk", !.cached = lib, !.todo = Albums]
    /\ UNCHANGED <<files, base, pool, count, seen>>

\* album_delta_check: no entry, or another fingerprint.
NeedsProcessing(cached, version) == cached.recorded # version

\* scan_directory_recursive reaches an album.  One with an empty disc folder counts as seen, but
\* is reported and left as it is.  What cannot be read is passed over like what is not there.
Walk(a) ==
    /\ scan.pc = "walk" /\ ~scan.cancel
    /\ a \in scan.todo
    /\ LET v == IF mounted THEN disk[a] ELSE 0
           queue == v # 0 /\ v \notin Broken /\ NeedsProcessing(scan.cached[a], v)
       IN  scan' = [scan EXCEPT
                      !.todo = @ \ {a},
                      !.cached[a] = IF v = 0 THEN @ ELSE Absent,
                      !.items[a] = IF queue THEN v ELSE 0,
                      !.total = IF queue THEN @ + Files[v] ELSE @]
    /\ UNCHANGED <<files, base, pool, count, seen>>

WalkEnds ==
    /\ scan.pc = "walk"
    /\ scan.todo = {} \/ scan.cancel
    /\ scan' = [scan EXCEPT !.pc = "prune"]
    /\ UNCHANGED <<files, base, pool, count, seen>>

\* Fault: a walk that was cut short prunes what it did not get to.
OrphansAnyway == {a \in Albums : scan.cached[a].row}

\* What the walk did not meet is deleted, unless the walk was cut short.
Orphans == IF scan.cancel THEN {} ELSE {a \in Albums : scan.cached[a].row}

\* One batch: begin, a delete for each, commit.
Prune ==
    /\ scan.pc = "prune"
    /\ \/ /\ lib' = [a \in Albums |-> IF a \in Orphans THEN Absent ELSE lib[a]]
          /\ seen' = [seen EXCEPT !.lost = @ \ Orphans]
          /\ UNCHANGED count
       \/ /\ Orphans # {}
          /\ Event
          /\ lib' = lib
          /\ seen' = [seen EXCEPT !.lost = @ \cup Orphans]
    /\ work' = lib'
    /\ scan' = [scan EXCEPT !.pc = IF scan.cancel THEN "off" ELSE "metadata"]
    /\ UNCHANGED <<files, txn, pool>>

-----------------------------------------------------------------------------
(* The worker thread: extraction, record and the later phases.             *)

Queued == {a \in Albums : scan.items[a] # 0}

\* phase_metadata: every item goes to the pool; the writer opens its first batch, or does
\* without one, and every statement commits by itself.
StartMetadata ==
    /\ scan.pc = "metadata"
    /\ IF Queued = {}
         THEN /\ scan' = [scan EXCEPT !.pc = "finalize"]
              /\ UNCHANGED <<task, writer, txn, count>>
         ELSE /\ scan' = [scan EXCEPT !.pc = "wait"]
              /\ task' = [a \in Albums |-> IF a \in Queued THEN [pc |-> "queued", listed |-> 0]
                                                           ELSE NoTask]
              /\ writer' = [NoWriter EXCEPT !.pc = "pop"]
              /\ \/ txn' = TRUE /\ UNCHANGED count
                 \/ txn' = FALSE /\ Event
    /\ UNCHANGED <<files, lib, work, results, done, seen>>

\* Fault: the files read are to be those counted.
AllReadExactly == /\ \A a \in Albums : task[a].pc # "queued"
                  /\ scan.processed = scan.total

\* Nothing waits for a thread, and as many files were read as the walk counted.
AllRead == /\ \A a \in Albums : task[a].pc # "queued"
           /\ scan.processed >= scan.total

WaitEnds ==
    /\ scan.pc = "wait"
    /\ scan.cancel \/ AllRead
    /\ scan' = [scan EXCEPT !.pc = "join"]
    /\ UNCHANGED <<files, base, pool, count, seen>>

\* g_thread_pool_free waits for the tasks; then the sentinel.
JoinPool ==
    /\ scan.pc = "join"
    /\ \A a \in Albums : task[a].pc = "none"
    /\ results' = Append(results, Sentinel)
    /\ scan' = [scan EXCEPT !.pc = "writer"]
    /\ UNCHANGED <<files, base, task, writer, done, count, seen>>

JoinWriter ==
    /\ scan.pc = "writer"
    /\ writer.pc = "end"
    /\ writer' = NoWriter
    /\ results' = <<>>
    /\ scan' = [scan EXCEPT !.pc = IF scan.cancel THEN "off" ELSE "finalize"]
    /\ UNCHANGED <<files, base, task, done, count, seen>>

\* Fault: what is there now is recorded.
RecordedNow(a) == IF a \in done /\ lib[a].row THEN [lib[a] EXCEPT !.recorded = disk[a]] ELSE lib[a]

\* phase_finalize: what the walk saw of the processed albums is recorded, in one transaction
\* whose failure goes unnoticed.
Recorded(a) == IF a \in done /\ lib[a].row THEN [lib[a] EXCEPT !.recorded = scan.items[a]]
                                           ELSE lib[a]

Finalize ==
    /\ scan.pc = "finalize"
    /\ \/ lib' = [a \in Albums |-> Recorded(a)] /\ UNCHANGED count
       \/ done # {} /\ lib' = lib /\ Event
    /\ work' = lib'
    /\ scan' = [scan EXCEPT !.pc = "enrich"]
    /\ UNCHANGED <<files, txn, pool, seen>>

\* Artwork, MusicBrainz, artist pictures and texts; each phase ends, or ends early when cancelled.
Enrich ==
    /\ scan.pc = "enrich"
    /\ scan' = [scan EXCEPT !.pc = "off"]
    /\ UNCHANGED <<files, base, pool, count, seen>>

-----------------------------------------------------------------------------
(* The extraction pool: metadata_worker on the task of one album.          *)

Reading == {a \in Albums : task[a].pc = "read"}

\* A thread takes the task and lists the directory once more.
List(a) ==
    /\ task[a].pc = "queued"
    /\ Cardinality(Reading) < Threads
    /\ task' = [task EXCEPT ![a] = IF scan.cancel THEN NoTask
                                   ELSE [pc |-> "read", listed |-> IF mounted THEN disk[a] ELSE 0]]
    /\ UNCHANGED <<files, base, scan, results, writer, done, count, seen>>

\* Every listed file is read and counted.  The result is for the writer unless no file could be
\* read, which may be when they have gone since, or the scan was cancelled.
Extract(a) ==
    /\ task[a].pc = "read"
    /\ LET v == task[a].listed
           good == v # 0 /\ ~scan.cancel /\ mounted /\ disk[a] = v
           result == [album |-> a, tracks |-> v]
       IN  /\ scan' = [scan EXCEPT !.processed = IF v = 0 THEN @ ELSE @ + Files[v]]
           /\ \/ results' = Append(results, result) /\ v # 0 /\ ~scan.cancel
              \/ results' = results /\ ~good
    /\ task' = [task EXCEPT ![a] = NoTask]
    /\ UNCHANGED <<files, base, writer, done, count, seen>>

-----------------------------------------------------------------------------
(* metadata_db_writer_thread                                               *)

\* 100 ms without a result are the end only when the scan is cancelled.
Pop ==
    /\ writer.pc = "pop"
    /\ IF results = <<>>
         THEN scan.cancel /\ writer' = [writer EXCEPT !.pc = "last"] /\ UNCHANGED results
         ELSE LET rest == Tail(results)
                  batch == Append(writer.batch, Head(results))
              IN  /\ results' = rest
                  /\ writer' = IF Head(results) = Sentinel THEN [writer EXCEPT !.pc = "last"]
                               ELSE IF Len(batch) < BatchSize /\ rest # <<>>
                                 THEN [writer EXCEPT !.batch = batch]
                                 ELSE [pc |-> "write", batch |-> batch]
    /\ UNCHANGED <<files, base, scan, task, done, count, seen>>

\* write_album_to_db: the row of the artist or the album cannot be made, or it is and the tracks
\* are written; the reconciler does not report a statement that failed.
Stored(a, v) == [row |-> TRUE, tracks |-> v, recorded |-> work[a].recorded]

Write ==
    /\ writer.pc \in {"write", "last"}
    /\ writer.batch # <<>>
    /\ writer' = [writer EXCEPT !.batch = Tail(@)]
    /\ LET a == Head(writer.batch).album
           v == Head(writer.batch).tracks
       IN  \/ scan.cancel /\ UNCHANGED <<work, done, count, seen>>
           \/ /\ ~scan.cancel
              /\ work' = [work EXCEPT ![a] = Stored(a, v)]
              /\ seen' = [seen EXCEPT !.lost = @ \ {a}]
              /\ done' = done \cup {a} /\ UNCHANGED count
           \/ /\ ~scan.cancel /\ Event
              /\ work' = [work EXCEPT ![a] = Stored(a, work[a].tracks)]
              /\ seen' = [seen EXCEPT !.lost = @ \cup {a}]
              /\ done' = done \cup {a}
           \/ /\ ~scan.cancel /\ Event
              /\ seen' = [seen EXCEPT !.lost = @ \cup {a}]
              /\ UNCHANGED <<work, done>>
    /\ lib' = IF txn THEN lib ELSE work'
    /\ UNCHANGED <<files, txn, scan, task, results>>

\* db_commit_batch; on failure everything since the last commit is rolled back.
Commit ==
    /\ writer.pc \in {"write", "last"}
    /\ writer.batch = <<>>
    /\ \/ lib' = work /\ work' = work /\ UNCHANGED <<count, seen>>
       \/ /\ txn /\ work # lib
          /\ Event
          /\ lib' = lib /\ work' = lib
          /\ seen' = [seen EXCEPT !.lost = @ \cup {a \in Albums : work[a] # lib[a]}]
    /\ IF writer.pc = "last"
         THEN /\ txn' = FALSE
              /\ writer' = [writer EXCEPT !.pc = "end"]
         ELSE /\ txn' = TRUE
              /\ writer' = [writer EXCEPT !.pc = "pop"]
    /\ UNCHANGED <<files, scan, task, results, done>>

-----------------------------------------------------------------------------
WorkerStep ==
    \/ OpenFails \/ Load \/ WalkEnds \/ Prune \/ StartMetadata \/ WaitEnds \/ JoinPool \/ JoinWriter
    \/ Finalize \/ Enrich \/ \E a \in Albums : Walk(a)
PoolStep == \E a \in Albums : List(a) \/ Extract(a)
WriterStep == Pop \/ Write \/ Commit

Next ==
    \/ Start \/ WorkerStep \/ PoolStep \/ WriterStep
    \/ Cancel \/ Kill \/ Unplug \/ Replug
    \/ \E a \in Albums : ChangeDisk(a)

Spec == Init /\ [][Next]_vars

\* The threads are scheduled.  No one has to start a scan, and nothing has to go wrong.
Fairness == WF_vars(WorkerStep) /\ WF_vars(PoolStep) /\ WF_vars(WriterStep)
FairSpec == Spec /\ Fairness

-----------------------------------------------------------------------------
(* Properties.                                                             *)

\* An album that the next scan will skip has the tracks it would find: after a kill or a cancel
\* between the commit of the tracks and their record, a change between walk and extraction, and
\* so on.  Except where a write failed: its album is recorded like the others.
RecordedIsStored ==
    \A a \in Albums :
        lib[a].row /\ lib[a].recorded # 0 /\ lib[a].recorded = disk[a] /\ a \notin seen.lost
            => lib[a].tracks = disk[a]

\* At library-updated the database shows what is in the folder, if it stayed as it was.
UpdatedIsCurrent ==
    scan.pc = "enrich" /\ ~scan.cancel =>
        \A a \in Albums \ (seen.touched \cup seen.lost) :
            IF ~There(a) THEN ~lib[a].row
            ELSE disk[a] \in Broken \/ (lib[a].row /\ lib[a].tracks = disk[a])

\* What a reader, or the next scan, may rely on whatever becomes of this one.
ScanSound == TypeOK /\ RecordedIsStored /\ UpdatedIsCurrent

\* An album is deleted only when it could not be found at some moment of this scan: never since a
\* walk was cut short, or did not get to it.
OnlyAbsentPruned ==
    [][\A a \in Albums : lib[a].row /\ ~lib'[a].row => a \in seen.absent]_vars

\* The worker waits for files that were counted by the walk and are not there to be read.
Short == /\ scan.pc = "wait" /\ ~scan.cancel
         /\ \A a \in Albums : task[a].pc = "none"
         /\ scan.processed < scan.total

\* A scan ends, also when it is cancelled anywhere, or comes to wait for vanished files.
EndsOrShort == scan.pc # "off" ~> scan.pc = "off" \/ Short

=============================================================================
