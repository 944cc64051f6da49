------------------------------ MODULE MCIndexer ------------------------------
(***************************************************************************)
(* Instance of IndexerScan and of IndexerController for TLC.               *)
(*                                                                         *)
(* A scan: two albums on one drive.  The pool has a thread for each, so    *)
(* every order of the results arises; a batch holds both or is cut by the  *)
(* queue running empty.  A later version may have fewer files or an empty  *)
(* disc folder.                                                            *)
(*                                                                         *)
(* Batches of scans: two libraries and one slot, with a drive that goes    *)
(* away, a removal, and a window that is closed.                           *)
(*                                                                         *)
(* The two have no state in common: a behaviour follows one, its `part'.   *)
(***************************************************************************)
EXTENDS IndexerScan

CONSTANTS a1, a2, Libs, MaxConcurrent, Resolve, Cancels, Closes, MaxChanges, MaxIdle, MaxStarts

VARIABLE part
VARIABLES running, active, pending, pc, cancel, idle, db, tracked, due, shown, present, main, win,
          disposed, starts                                              \* of IndexerController

Batches == INSTANCE IndexerController

ASSUME BatchAssumption == Batches!Bounds

batch == <<running, active, pending, pc, cancel, idle, db, tracked, due, shown, present, main, win,
           disposed, starts>>

MCFiles == <<2, 1, 2>>

IndexerInit == part \in {"scan", "batch"} /\ Init /\ Batches!Init

IndexerNext ==
    /\ UNCHANGED part
    /\ \/ part = "scan" /\ Next /\ UNCHANGED batch
       \/ part = "batch" /\ Batches!Next /\ UNCHANGED vars

IndexerSpec == IndexerInit /\ [][IndexerNext]_<<part, vars, batch>> /\ Fairness /\ Batches!Fairness

-----------------------------------------------------------------------------
(* The properties of IndexerController. *)

\* What the controller knows of its scans is right, and no committed change is lost on its way to the
\* cache.
BatchesSound == Batches!BatchesSound

\* A batch ends, and what it commits is loaded.
BatchesEnd == Batches!BatchEnds /\ Batches!CommittedIsLoaded
=============================================================================
