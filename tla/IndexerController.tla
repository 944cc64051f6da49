------------------------- MODULE IndexerController -------------------------
(***************************************************************************)
(* Batches of library scans (indexer_controller.c), the worker thread of   *)
(* each scan as far as the controller sees it (indexer.c), the change      *)
(* tracker that records what the worker commits (change_tracker.c) and the *)
(* debounced cache refresh its events end in (indexer_bridge.c).           *)
(*                                                                         *)
(* Workers talk to the main thread through idle callbacks only; each one   *)
(* holds a reference to the controller.  A change is a number; a commit of *)
(* the worker adds one to the library's database.                          *)
(***************************************************************************)
EXTENDS Integers, Sequences, FiniteSets, SequencesExt

CONSTANTS
    Libs,           \* library roots
    MaxConcurrent,  \* self->max_concurrent
    Resolve,        \* mb_resolve: is phase 5+6 enabled?
    Cancels,        \* libraries that may be removed or become unavailable
    Closes,         \* may the window be closed?
    MaxChanges,     \* bound: changes committed to one library
    MaxStarts,      \* bound: calls of indexer_controller_start
    MaxIdle         \* bound: events queued while the main loop runs

Bounds ==
    /\ IsFiniteSet(Libs) /\ MaxConcurrent \in Nat \ {0}
    /\ Cancels \subseteq Libs /\ {Resolve, Closes} \subseteq BOOLEAN
    /\ {MaxChanges, MaxStarts, MaxIdle} \subseteq Nat

VARIABLES
    running,    \* self->running
    active,     \* self->active
    pending,    \* self->pending
    pc,         \* the phase of each library's worker thread
    cancel,     \* idx->cancel_flag
    idle,       \* the queued IdleCallbackData
    db,         \* the committed changes of each library
    tracked,    \* the change tracker
    due,        \* PendingRefresh: is it armed, and the merged changeset
    shown,      \* the changes the cache has been told to load
    present,    \* the libraries of the settings
    main,       \* the main thread: its loop, or waiting in dispose
    win,        \* the window
    disposed,   \* has dispose released active and pending?
    starts      \* calls of start so far

vars == <<running, active, pending, pc, cancel, idle, db, tracked, due, shown, present,
          main, win, disposed, starts>>
batch == <<running, active, pending>>
changes == <<db, tracked, due, shown>>
ui == <<present, main, win, disposed, starts>>

Changes == 1 .. MaxChanges
Phases == {"open", "scan", "metadata", "finalize", "artwork", "resolve", "resolved",
           "artistArt", "artistsDrawn", "rebuild", "rebuilt", "bios"}
Kinds == {"started", "progress", "library", "artwork", "completed", "cancelled", "error"}
Endings == {"completed", "cancelled", "error"}
Event(l, k, cs) == [lib |-> l, kind |-> k, cs |-> cs]
NotDue == [armed |-> FALSE, cs |-> {}]

TypeOK ==
    /\ running \in BOOLEAN
    /\ active \in SUBSET Libs
    /\ pending \in Seq(Libs)
    /\ pc \in [Libs -> Phases \cup {"none", "teardown", "done"}]
    /\ cancel \in [Libs -> BOOLEAN]
    /\ idle \in Seq([lib : Libs, kind : Kinds, cs : SUBSET Changes])
    /\ db \in [Libs -> SUBSET Changes] /\ tracked \in [Libs -> SUBSET Changes]
    /\ shown \in [Libs -> SUBSET Changes]
    /\ due \in [Libs -> [armed : BOOLEAN, cs : SUBSET Changes]]
    /\ present \in SUBSET Libs
    /\ main \in {"loop", "wait"}
    /\ win \in {"open", "closed", "crashed"}
    /\ disposed \in BOOLEAN
    /\ starts \in 0 .. MaxStarts

Init ==
    /\ running = FALSE /\ active = {} /\ pending = <<>>
    /\ pc = [l \in Libs |-> "none"]
    /\ cancel = [l \in Libs |-> FALSE]
    /\ idle = <<>>
    /\ db = [l \in Libs |-> {}] /\ tracked = db /\ shown = db
    /\ due = [l \in Libs |-> NotDue]
    /\ present = Libs
    /\ main = "loop" /\ win = "open" /\ disposed = FALSE
    /\ starts = 0

-----------------------------------------------------------------------------
(* Starting scans *)

\* How much of the queue p a call with room for k scans consumes, when the
\* threads of the libraries in bad cannot be created.
Begun(p, n, bad) == {p[i] : i \in 1 .. n} \ bad
Taken(p, k, bad) ==
    IF Cardinality(ToSet(p) \ bad) < k THEN Len(p)
    ELSE CHOOSE n \in 0 .. Len(p) :
            /\ Cardinality(Begun(p, n, bad)) = k
            /\ \A m \in 0 .. n - 1 : Cardinality(Begun(p, m, bad)) < k

\* A worker that has been joined is gone.
Joined(l) == IF pc[l] = "done" THEN "none" ELSE pc[l]

\* try_start_pending, from the slots act and the queue p.
TryStartPending(act, p) ==
    \E bad \in SUBSET ToSet(p) :
        LET n == Taken(p, MaxConcurrent - Cardinality(act), bad)
            begun == Begun(p, n, bad)
        IN  /\ active' = act \cup begun
            /\ pending' = SubSeq(p, n + 1, Len(p))
            /\ running' = (active' # {} \/ pending' # <<>>)
            /\ cancel' = [l \in Libs |-> cancel[l] /\ l \notin begun]
            /\ pc' = [l \in Libs |-> IF l \in begun THEN "open"
                                     ELSE IF l \in active \ act THEN Joined(l) ELSE pc[l]]

InLoop == main = "loop" /\ win # "crashed"

\* indexer_controller_start; a caller that does not look at running first
\* loses its request when a batch is under way.
Start(ls) ==
    /\ InLoop /\ win = "open" /\ starts < MaxStarts
    /\ ls # <<>> /\ ToSet(ls) \subseteq present
    /\ starts' = starts + 1
    /\ IF running
       THEN UNCHANGED <<batch, pc, cancel>>
       ELSE TryStartPending(active, ls)
    /\ UNCHANGED <<idle, changes, present, main, win, disposed>>

\* auto_scan_idle hands over all libraries at once, once; the other callers
\* one library: the Rescan button, a library just added, a drive that is back.
StartAll == starts = 0 /\ \E ls \in SetToSeqs(Libs) : Start(ls)
Rescan(l) == ~running /\ Start(<<l>>)
Request(l) == Start(<<l>>)

\* indexer_controller_cancel_library, when the drive of l is gone ...
CancelLibrary(l) ==
    /\ pending' = RemoveFirst(pending, l)
    /\ cancel' = [cancel EXCEPT ![l] = @ \/ l \in active]
    /\ UNCHANGED <<running, active, pc, idle, db, tracked>>

Disconnect(l) ==
    /\ InLoop /\ win = "open" /\ l \in Cancels \cap present
    /\ CancelLibrary(l)
    /\ UNCHANGED <<due, shown, present, main, win, disposed, starts>>

\* ... or the user removes l, which gives up its cache slot.
RemoveLibrary(l) ==
    /\ InLoop /\ win = "open" /\ l \in Cancels \cap present
    /\ CancelLibrary(l)
    /\ present' = present \ {l}
    /\ shown' = [shown EXCEPT ![l] = {}]
    /\ UNCHANGED <<due, main, win, disposed, starts>>

\* on_add_confirm: a slot without content, and a scan.
AddLibrary(l) ==
    /\ InLoop /\ win = "open" /\ l \notin present /\ starts < MaxStarts
    /\ present' = present \cup {l}
    /\ starts' = starts + 1
    /\ IF running
       THEN UNCHANGED <<batch, pc, cancel>>
       ELSE TryStartPending(active, <<l>>)
    /\ UNCHANGED <<idle, changes, main, win, disposed>>

-----------------------------------------------------------------------------
(* The worker thread of one scan *)

Post(l, k, cs) ==
    /\ Len(idle) < MaxIdle \/ main = "wait"
    /\ idle' = Append(idle, Event(l, k, cs))
Goto(l, p) == pc' = [pc EXCEPT ![l] = p]
Quietly(l, p) == Goto(l, p) /\ UNCHANGED <<idle, tracked>>

\* notify_event: LIBRARY_UPDATED takes along what the tracker holds.
NotifyEvent(l, k, p) ==
    /\ Goto(l, p)
    /\ Post(l, k, IF k = "library" THEN tracked[l] ELSE {})
    /\ tracked' = IF k = "library" THEN [tracked EXCEPT ![l] = {}] ELSE tracked

\* The database opens and there is space, or the scan ends here.
Open(l) ==
    /\ pc[l] = "open"
    /\ NotifyEvent(l, "started", "scan") \/ NotifyEvent(l, "error", "done")

\* A committed transaction of one of the phases that write; the update hook
\* has recorded its rows.
Commit(l) ==
    /\ pc[l] \in {"scan", "metadata", "finalize"} \/ (pc[l] = "resolve" /\ Resolve)
    /\ \E c \in Changes \ db[l] :
        /\ db' = [db EXCEPT ![l] = @ \cup {c}]
        /\ tracked' = [tracked EXCEPT ![l] = @ \cup {c}]
    /\ UNCHANGED <<pc, idle>>

\* notify_progress_throttled: at most one report of a scan is queued (bound).
Progress(l) ==
    /\ pc[l] \in {"metadata", "artistArt"}
    /\ \A i \in DOMAIN idle : idle[i] # Event(l, "progress", {})
    /\ Post(l, "progress", {})
    /\ UNCHANGED <<pc, tracked>>

Cancelled(l) == cancel[l] /\ NotifyEvent(l, "cancelled", "teardown")

\* The end of a phase tests the cancel flag; a phase that has something to
\* report does so before (in the artwork phase after) that test.
Check(l, from, to) ==
    /\ pc[l] \in from
    /\ Cancelled(l) \/ (~cancel[l] /\ Quietly(l, to))
Scanned(l) == Check(l, {"scan"}, "metadata")
Extracted(l) == Check(l, {"metadata"}, "finalize")
Finalized(l) == pc[l] = "finalize" /\ NotifyEvent(l, "library", "artwork")
AtlasBuilt(l) ==
    \/ Check(l, {"artwork"}, "resolve")
    \/ pc[l] = "artwork" /\ ~cancel[l] /\ NotifyEvent(l, "artwork", "resolve")
Resolved(l) ==
    \/ pc[l] = "resolve" /\ Resolve /\ NotifyEvent(l, "library", "resolved")
    \/ Check(l, IF Resolve THEN {"resolved"} ELSE {"resolve"}, "artistArt")
ArtistsFetched(l) ==
    \/ pc[l] = "artistArt" /\ NotifyEvent(l, "artwork", "artistsDrawn")
    \/ Check(l, {"artistArt", "artistsDrawn"}, "rebuild")
AtlasRebuilt(l) ==
    \/ pc[l] = "rebuild" /\ NotifyEvent(l, "artwork", "rebuilt")
    \/ Check(l, {"rebuild", "rebuilt"}, "bios")
BiosFetched(l) ==
    /\ pc[l] = "bios"
    /\ Cancelled(l) \/ (~cancel[l] /\ NotifyEvent(l, "completed", "teardown"))

\* indexer_worker_teardown: the tracker goes, with all it still holds.
Teardown(l) ==
    /\ pc[l] = "teardown"
    /\ Goto(l, "done")
    /\ tracked' = [tracked EXCEPT ![l] = {}]
    /\ UNCHANGED idle

Ends(l) == Open(l) \/ Scanned(l) \/ Extracted(l) \/ Finalized(l) \/ AtlasBuilt(l)
           \/ Resolved(l) \/ ArtistsFetched(l) \/ AtlasRebuilt(l) \/ BiosFetched(l)
           \/ Teardown(l)
Worker(l) ==
    /\ \/ Commit(l)
       \/ (Ends(l) \/ Progress(l)) /\ UNCHANGED db
    /\ UNCHANGED <<batch, cancel, due, shown, ui>>

-----------------------------------------------------------------------------
(* Idle callbacks on the main thread *)

\* Fault: the later changeset takes the place of the one that waits.
Replaced(d, cs) == [armed |-> TRUE, cs |-> cs]

\* Fault: the old timer is removed and no new one is set.
Disarmed(d, cs) == [armed |-> ~d.armed, cs |-> d.cs \cup cs]

\* schedule_debounced_refresh
Merged(d, cs) == [armed |-> TRUE, cs |-> d.cs \cup cs]

\* g_object_unref at the end of a callback: dispose runs with the last one
\* (the window had everything cancelled when it gave up its reference).
Unref == main' = IF win = "closed" /\ Len(idle) = 1 THEN "wait" ELSE main

\* STARTED, PROGRESS and ARTWORK_UPDATED are passed on; LIBRARY_UPDATED arms
\* the refresh of a library that is still there.
Announce(e) ==
    /\ e.kind \notin Endings
    /\ due' = IF e.kind = "library" /\ win = "open" /\ e.lib \in present
              THEN [due EXCEPT ![e.lib] = Merged(@, e.cs)] ELSE due
    /\ UNCHANGED <<batch, pc, cancel>>

\* Fault: the slot is given up without waiting for the thread.
DoesNotJoin(e) ==
    /\ e.kind \in Endings
    /\ TryStartPending(active \ {e.lib}, pending)
    /\ UNCHANGED due

\* Fault: nothing is started in the free slot.
StartsNone(e) ==
    /\ e.kind \in Endings /\ pc[e.lib] = "done"
    /\ active' = active \ {e.lib}
    /\ pc' = [pc EXCEPT ![e.lib] = "none"]
    /\ running' = (active' # {} \/ pending # <<>>)
    /\ UNCHANGED <<pending, cancel, due>>

\* indexer_destroy joins the worker, its slot goes to a pending library.
FinishScan(e) ==
    /\ e.kind \in Endings /\ pc[e.lib] = "done"
    /\ TryStartPending(active \ {e.lib}, pending)
    /\ UNCHANGED due

\* on_indexer_event_idle.  The test for a disposed controller is one for its
\* type, which it keeps: the list of scans it then looks into is gone, and
\* giving back the last reference disposes of it again.
HandleEvent ==
    /\ InLoop /\ idle # <<>>
    /\ idle' = Tail(idle)
    /\ IF disposed
       THEN /\ win' = IF Head(idle).kind \in Endings \/ Len(idle) = 1 THEN "crashed" ELSE win
            /\ UNCHANGED <<batch, pc, cancel, due, main>>
       ELSE /\ Announce(Head(idle)) \/ FinishScan(Head(idle))
            /\ Unref /\ UNCHANGED win
    /\ UNCHANGED <<db, tracked, shown, present, disposed, starts>>

\* debounced_refresh_cb; the refresh reads the database as it is then.
RefreshDue(l) ==
    /\ InLoop /\ win = "open" /\ due[l].armed
    /\ due' = [due EXCEPT ![l] = NotDue]
    /\ shown' = IF l \in present THEN [shown EXCEPT ![l] = db[l]] ELSE shown
    /\ UNCHANGED <<batch, pc, cancel, idle, db, tracked, ui>>

\* ui_window_dispose: handlers off, everything cancelled, refreshes dropped,
\* the window's reference given back.
CloseWindow ==
    /\ Closes /\ InLoop /\ win = "open"
    /\ win' = "closed"
    /\ pending' = <<>>
    /\ due' = [l \in Libs |-> NotDue]
    /\ cancel' = [l \in Libs |-> cancel[l] \/ l \in active]
    /\ main' = IF idle = <<>> THEN "wait" ELSE main
    /\ UNCHANGED <<running, active, pc, idle, db, tracked, shown, present, disposed, starts>>

\* indexer_wait has returned for all of them.
Disposed ==
    /\ main = "wait"
    /\ \A l \in active : pc[l] = "done"
    /\ main' = "loop" /\ disposed' = TRUE
    /\ active' = {} /\ pending' = <<>>
    /\ pc' = [l \in Libs |-> "none"]
    /\ UNCHANGED <<running, cancel, idle, changes, present, win, starts>>

-----------------------------------------------------------------------------
Next ==
    \/ StartAll \/ HandleEvent \/ CloseWindow \/ Disposed
    \/ \E l \in Libs : Rescan(l) \/ Request(l) \/ Disconnect(l) \/ RemoveLibrary(l) \/ AddLibrary(l)
                       \/ Worker(l) \/ RefreshDue(l)

Spec == Init /\ [][Next]_vars

\* The main loop dispatches its sources and returns from dispose; phases end.
Fairness ==
    /\ WF_vars(HandleEvent) /\ WF_vars(Disposed)
    /\ \A l \in Libs : WF_vars(RefreshDue(l)) /\ WF_vars(Ends(l) /\ Worker(l))
FairSpec == Spec /\ Fairness

-----------------------------------------------------------------------------
(* Properties *)

\* `running' is what the Rescan button and start() go by: it is set exactly
\* while scans are active, and a library waits only when every slot is taken.
RunningIsBusy == win = "open" =>
    /\ running <=> active # {}
    /\ pending # <<>> => Cardinality(active) = MaxConcurrent

\* A worker thread never outlives the slot whose indexer it runs on, whatever
\* is cancelled, removed or closed, and there are never too many of them.
ThreadHasSlot ==
    /\ \A l \in Libs : pc[l] # "none" => l \in active
    /\ Cardinality(active) <= MaxConcurrent

\* The events of a scan end with exactly one that ends it, and reach the main
\* thread while the scan still has its slot.
OneEndPerScan == ~disposed => \A i \in DOMAIN idle :
    /\ idle[i].lib \in active
    /\ idle[i].kind \in Endings =>
          /\ pc[idle[i].lib] \in {"teardown", "done"}
          /\ \A j \in DOMAIN idle : j > i => idle[j].lib # idle[i].lib

\* The controller's record of what runs, and of what is still to be told, is right.
ScansAccounted == TypeOK /\ RunningIsBusy /\ ThreadHasSlot /\ OneEndPerScan

\* Between the commit and the refresh every change is in the tracker, in an
\* event, or in the merged changeset of the timer: none is dropped on the way.
ChangesAccounted == \A l \in Libs \ Cancels : win = "open" =>
    db[l] = shown[l] \cup tracked[l] \cup due[l].cs
            \cup UNION {idle[i].cs : i \in {j \in DOMAIN idle : idle[j].lib = l}}

BatchesSound == ScansAccounted /\ ChangesAccounted

\* A batch ends: no library is left waiting for a slot, no scan is forgotten.
BatchEnds == running ~> (~running \/ win # "open")

\* What a scan that is not cancelled commits is in the cache in the end.
CommittedIsLoaded == \A l \in Libs \ Cancels : \A c \in Changes :
    c \in db[l] ~> (c \in shown[l] \/ win # "open")
=============================================================================
