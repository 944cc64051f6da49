----------------------------- MODULE LibraryCard -----------------------------
(***************************************************************************)
(* The card of one library: the phase rows that the reports of a scan      *)
(* drive, its two timers, its statistics and the toast                     *)
(* (ui/libraries/indexer_bridge.c, libs_load and libs_free of              *)
(* libraries_view.c), and the reports, in the order in which the worker of *)
(* indexer.c sends them.                                                   *)
(*                                                                         *)
(* Reports come through idle callbacks, one at a time and in order; what   *)
(* is between two of them is the user's.  Every report but those that      *)
(* announce a phase may be dropped by the throttle.  A counter is 0 or 1.  *)
(***************************************************************************)
EXTENDS Integers, Sequences, SequencesExt

CONSTANTS None,
          MaxRounds,      \* bound: scans, and times the cards are made anew
          MaxLoads        \* bound: loads of statistics under way, with the scans and rebuilds before

VARIABLES card,           \* LibEntry, None when the library was removed
          stage,          \* where the worker is
          p,              \* indexer_progress_t
          resolve,        \* idx->mb_resolve
          loads,          \* the tasks of libs_load_entry_stats in the order they were asked for:
                          \* before or after the worker's last commit
          newest_shown,   \* has the load that was asked for last been shown?
          late,           \* was an older one shown after it?
          scans, rebuilds,
          rebuilt,        \* were the cards made anew during this scan?
          toasts, ok

ghosts == <<newest_shown, late, scans, rebuilds, rebuilt, toasts, ok>>
vars == <<card, stage, p, resolve, loads, ghosts>>

-----------------------------------------------------------------------------
(* Phase rows: 0 scan, 1 metadata, 2 artwork, 3 fingerprints, 4 resolve,   *)
(* 5 artist art, 6 biographies                                             *)

PhaseRows == 0 .. 6
Finals == {"complete", "skipped", "error"}

\* phase_startup, phase_activate, phase_skip, finalize_phase
Startup(row) == IF row = "waiting" THEN "startup" ELSE row
Activate(row) == IF row \in {"waiting", "startup"} THEN "active" ELSE row
Skip(row) == IF row \in Finals THEN row ELSE "skipped"
Finalize(row, count) ==
    IF row \in Finals THEN row ELSE IF count > 0 THEN "complete" ELSE "skipped"

\* The phases of the reports; "finalize" stands for those that the panel ignores.
NoProgress ==
    [phase |-> "scanning", dirs |-> 0, files |-> 0, albums |-> 0, albums_done |-> 0, prints |-> 0,
     prints_done |-> 0, arts |-> 0, downloaded |-> 0, bios |-> 0, fetched |-> 0, pg_error |-> FALSE, acoustid_error |-> FALSE,
     fanart_error |-> FALSE]

\* Row 3 and 4 when the resolver reports, by update_card_phase_panel
Fingerprinted(rows, q) ==
    LET drawn == [rows EXCEPT ![2] = Finalize(@, q.albums)]
    IN  CASE q.prints > 0 -> [drawn EXCEPT ![3] = Activate(@)]
          [] q.prints = 0 /\ q.albums = 0 -> [drawn EXCEPT ![3] = Startup(@), ![4] = Startup(@)]
          [] OTHER -> [drawn EXCEPT ![3] = Skip(@)]

ResolvedRows(rows, q) ==
    LET row3 == IF q.prints > 0 /\ q.prints_done >= q.prints /\ rows[3] = "active"
                THEN Finalize(rows[3], q.prints)
                ELSE IF q.prints = 0 THEN Skip(rows[3]) ELSE Activate(rows[3])
    IN  [rows EXCEPT ![2] = Finalize(@, q.albums), ![3] = row3, ![4] = Activate(@)]

\* A row of the resolver that another phase leaves behind
Closed(row, count) == IF row = "active" THEN Finalize(row, count) ELSE Skip(row)

\* A row whose total is not known yet, or is
Queried(row, total) == IF total = 0 THEN Startup(row) ELSE Activate(row)

\* update_card_phase_panel: the rows
PanelRows(rows, q) ==
    CASE q.phase = "scanning" -> [rows EXCEPT ![0] = IF @ = "waiting" THEN Activate(@) ELSE @]
      [] q.phase = "metadata" ->
            [rows EXCEPT ![0] = Finalize(@, q.dirs),
                         ![1] = IF q.files = 0 THEN Skip(@) ELSE IF @ = "waiting" THEN Activate(@) ELSE @]
      [] q.phase = "artwork" ->
            [rows EXCEPT ![1] = Finalize(@, q.files),
                         ![2] = IF q.albums = 0 THEN Skip(@) ELSE IF @ = "waiting" THEN Activate(@) ELSE @]
      [] q.phase = "fingerprint" -> Fingerprinted(rows, q)
      [] q.phase = "resolve" -> ResolvedRows(rows, q)
      [] q.phase = "artist_art" ->
            [rows EXCEPT ![3] = IF q.prints > 0 THEN Closed(@, q.prints) ELSE Skip(@),
                         ![4] = Closed(@, q.albums_done), ![5] = Queried(@, q.arts)]
      [] q.phase = "artist_bio" ->
            [k \in PhaseRows |-> IF k \in 3 .. 5 THEN Closed(rows[k], 0)
                                 ELSE IF k = 6 THEN Queried(rows[k], q.bios) ELSE rows[k]]
      [] OTHER -> rows

\* Which reports start the pulse of the bars, and which end it
Pulses(c, q) ==
    LET rows == c.rows
    IN  CASE q.phase = "metadata" -> FALSE
          [] q.phase = "fingerprint" -> c.pulse \/ (q.prints = 0 /\ q.albums = 0)
          [] q.phase = "artist_art" -> c.pulse \/ (q.arts = 0 /\ rows[5] = "waiting")
          [] q.phase = "artist_bio" -> q.bios = 0 /\ rows[6] = "waiting"
          [] OTHER -> c.pulse

Panel(c, q) == [c EXCEPT !.rows = PanelRows(c.rows, q), !.pulse = Pulses(c, q)]

\* libs_load and make_lib_card: a card of its own, without its statistics
NewCard ==
    [rows |-> [k \in PhaseRows |-> "waiting"], pulse |-> FALSE, hide |-> FALSE, revealed |-> FALSE,
     shown_toast |-> FALSE, pending_toast |-> FALSE, stats |-> "none"]

-----------------------------------------------------------------------------
(* The reports and their handlers *)

\* on_indexer_started resets six of the seven rows.
ResetRows(rows) == [k \in PhaseRows |-> IF k < 6 THEN "waiting" ELSE rows[k]]

\* on_indexer_started
StartedCard(c) ==
    [c EXCEPT !.hide = FALSE, !.shown_toast = FALSE, !.revealed = TRUE, !.pulse = TRUE,
              !.rows = [ResetRows(c.rows) EXCEPT ![0] = Activate(@)]]

\* on_indexer_library_updated without the refresh of the cache
UpdatedCard(c, q) ==
    [c EXCEPT !.pulse = FALSE,
              !.rows = [c.rows EXCEPT ![0] = Finalize(@, q.dirs), ![1] = Finalize(@, q.files)],
              !.stats = "none",
              !.pending_toast = @ \/ ~c.shown_toast, !.shown_toast = TRUE]

\* on_indexer_artwork_updated without the reload of the atlases
DrawnCard(c, q) == [c EXCEPT !.rows[2] = Finalize(@, q.albums)]

\* on_indexer_done
DoneCard(c, q, success) ==
    LET rows == c.rows
        ended(k, failed, count) == IF failed THEN "error" ELSE Finalize(rows[k], count)
    IN  [c EXCEPT
           !.pulse = FALSE, !.hide = TRUE, !.stats = "none",
           !.rows = IF ~success THEN [k \in PhaseRows |-> IF k >= 3 THEN "error" ELSE rows[k]]
                    ELSE [rows EXCEPT ![3] = ended(3, q.acoustid_error, q.prints),
                                      ![4] = ended(4, q.pg_error, q.albums_done),
                                      ![5] = ended(5, q.fanart_error, q.downloaded),
                                      ![6] = ended(6, FALSE, q.fetched)]]

\* A handler finds the card by the path of the library, or not.
Handle(c) == card' = IF card = None THEN None ELSE c

\* libs_load_entry_stats: a task of the thread pool, asked for after the last commit
LoadStats ==
    IF card = None THEN UNCHANGED <<loads, newest_shown, late>>
    ELSE /\ Len(loads) + scans + rebuilds <= MaxLoads /\ loads' = Append(loads, "after")
         /\ newest_shown' = FALSE /\ late' = FALSE

\* The worker commits: a load under way may have read before.
Commit == [k \in DOMAIN loads |-> "before"]

NoLoad == UNCHANGED <<loads, newest_shown, late>>
SameBounds == UNCHANGED <<scans, rebuilds, rebuilt, toasts>>

-----------------------------------------------------------------------------
(* The worker *)

Init ==
    /\ card = NewCard /\ stage = "none" /\ p = NoProgress /\ resolve \in BOOLEAN
    /\ loads = <<>> /\ newest_shown = TRUE /\ late = FALSE
    /\ scans = 0 /\ rebuilds = 0 /\ rebuilt = FALSE /\ toasts = 0 /\ ok = FALSE

\* indexer_scan; INDEXER_STARTED once the database is open and the disk has room
Begin ==
    /\ stage = "none" /\ scans + rebuilds < MaxRounds /\ scans' = scans + 1
    /\ stage' = "scanning" /\ p' = NoProgress
    /\ Handle(StartedCard(card))
    /\ rebuilt' = FALSE /\ ok' = FALSE
    /\ NoLoad /\ UNCHANGED <<resolve, rebuilds, toasts>>

\* on_indexer_done: the scan succeeded, was cancelled or could not begin.  The last report of one that
\* succeeded is kept for the properties.
Done(q, success) ==
    /\ stage' = "none"
    /\ Handle(DoneCard(card, q, success)) /\ p' = IF success THEN q ELSE NoProgress
    /\ LoadStats /\ ok' = success

\* INDEXER_ERROR without INDEXER_STARTED
FailToOpen ==
    /\ stage = "none" /\ scans + rebuilds < MaxRounds /\ scans' = scans + 1
    /\ Done(NoProgress, FALSE) /\ rebuilt' = FALSE
    /\ UNCHANGED <<resolve, rebuilds, toasts>>

\* INDEXER_CANCELLED; the worker looks at the flag after the phases, where nothing is still to be told.
Cancelled ==
    /\ stage \notin {"none", "finalized", "resolve", "resolved"} /\ (stage = "drawn" => ~resolve)
    /\ Done(p, FALSE)
    /\ UNCHANGED <<resolve, scans, rebuilds, rebuilt, toasts>>

\* From one stage to the next with a report that is not dropped, or without one
Advance(from, to, q, report) ==
    /\ stage = from /\ stage' = to /\ p' = q
    /\ Handle(IF report THEN Panel(card, q) ELSE card)
    /\ SameBounds /\ UNCHANGED <<resolve, ok>>

\* notify_progress_throttled
Report ==
    /\ stage # "none" /\ card # None
    /\ card' = Panel(card, p)
    /\ NoLoad /\ SameBounds /\ UNCHANGED <<stage, p, resolve, ok>>

\* phase_scan has seen directories; phase_metadata counts and reads the files
ScanDirs(n, m) ==
    Advance("scanning", "metadata", [p EXCEPT !.phase = "metadata", !.dirs = n, !.files = m], FALSE)
    /\ NoLoad

\* phase_finalize stores the last of the scan
FinalizeScan ==
    /\ Advance("metadata", "finalized", [p EXCEPT !.phase = "finalize"], FALSE)
    /\ loads' = Commit /\ UNCHANGED <<newest_shown, late>>

\* INDEXER_LIBRARY_UPDATED, after the scan and after the resolver
LibraryUpdated(from, to) ==
    /\ stage = from /\ stage' = to
    /\ Handle(UpdatedCard(card, p)) /\ LoadStats
    /\ SameBounds /\ UNCHANGED <<p, resolve, ok>>

\* phase_artwork: nothing to do, or albums to draw
DrawAlbums(from, to) ==
    /\ Advance(from, to, [p EXCEPT !.phase = "artwork", !.albums = 1, !.albums_done = 0], FALSE)
    /\ NoLoad
AlbumsDrawn ==
    /\ stage \in {"drawing", "redrawing"} /\ p.albums_done = 0
    /\ p' = [p EXCEPT !.albums_done = 1]
    /\ NoLoad /\ SameBounds /\ UNCHANGED <<card, stage, resolve, ok>>

\* INDEXER_ARTWORK_UPDATED; the card is looked up as ever
ArtworkUpdated(from, to) ==
    /\ stage = from /\ stage' = to
    /\ Handle(DrawnCard(card, p))
    /\ NoLoad /\ SameBounds /\ UNCHANGED <<p, resolve, ok>>

\* phase_resolve: its first report is not dropped
BeginResolve(from) ==
    /\ resolve
    /\ Advance(from, "resolve", [p EXCEPT !.phase = "fingerprint", !.albums = 0, !.albums_done = 0,
                                          !.prints = 0, !.prints_done = 0], TRUE)
    /\ NoLoad

\* mb_resolver_run has triaged the albums, some of them without a release id
Triage(prints) ==
    /\ Advance("resolve", "resolve", [p EXCEPT !.albums = 1, !.prints = prints], FALSE)
    /\ p.albums = 0 /\ NoLoad

\* on_mb_resolver_progress: albums are fingerprinted, matched, fetched and written in any order
Resolving ==
    /\ stage = "resolve" /\ p.albums > 0
    /\ \E phase \in {"fingerprint", "resolve"}, n \in {p.albums_done, 1}, m \in {p.prints_done, p.prints} :
         /\ p' = [p EXCEPT !.phase = phase, !.albums_done = n, !.prints_done = m]
         /\ p' # p
    /\ NoLoad /\ SameBounds /\ UNCHANGED <<card, stage, resolve, ok>>

\* The resolver has ended, perhaps without AcoustID, or could not be created.
EndResolve ==
    /\ \E offline \in {FALSE, p.prints > 0}, failed \in {FALSE, p.albums = 0} :
          Advance("resolve", "resolved", [p EXCEPT !.acoustid_error = offline, !.pg_error = failed], FALSE)
    /\ loads' = Commit /\ UNCHANGED <<newest_shown, late>>

\* phase_artist_art
BeginArtistArt(from) ==
    /\ Advance(from, "art", [p EXCEPT !.phase = "artist_art", !.arts = 0, !.downloaded = 0,
                                      !.fanart_error = FALSE], TRUE)
    /\ NoLoad
ArtistArt ==
    /\ stage = "art"
    /\ \E n \in {p.downloaded, 1} : p' = [p EXCEPT !.arts = 1, !.downloaded = n]
    /\ p' # p
    /\ NoLoad /\ SameBounds /\ UNCHANGED <<card, stage, resolve, ok>>
EndArtistArt(failed) ==
    Advance("art", "fetched", [p EXCEPT !.fanart_error = failed], FALSE) /\ NoLoad

\* phase_artist_bios
BeginBios(from) ==
    /\ Advance(from, "bios", [p EXCEPT !.phase = "artist_bio", !.bios = 0, !.fetched = 0], TRUE)
    /\ NoLoad
Bios ==
    /\ stage = "bios" /\ p.bios = 0 /\ p' = [p EXCEPT !.bios = 1]
    /\ NoLoad /\ SameBounds /\ UNCHANGED <<card, stage, resolve, ok>>

\* INDEXER_COMPLETED
Completed(n) ==
    /\ stage = "bios" /\ n <= p.bios
    /\ Done([p EXCEPT !.phase = "finalize", !.fetched = n], TRUE)
    /\ UNCHANGED <<resolve, scans, rebuilds, rebuilt, toasts>>

Worker ==
    \/ Begin \/ FailToOpen \/ Cancelled \/ Report
    \/ \E n \in 0 .. 1 : \E m \in 0 .. n : ScanDirs(n, m)
    \/ FinalizeScan
    \/ LibraryUpdated("finalized", "updated") \/ LibraryUpdated("resolved", "described")
    \/ DrawAlbums("updated", "drawing") \/ AlbumsDrawn
    \/ \E from \in {"updated", "drawing"} : ArtworkUpdated(from, "drawn")
    \/ \E from \in {"updated", "drawing", "drawn"} :
          BeginResolve(from) \/ (~resolve /\ BeginArtistArt(from))
    \/ \E prints \in 0 .. 1 : Triage(prints)
    \/ Resolving \/ EndResolve
    \/ BeginArtistArt("described") \/ ArtistArt
    \/ \E failed \in BOOLEAN : EndArtistArt(failed)
    \/ ArtworkUpdated("fetched", "shown")
    \* covers were downloaded
    \/ \E from \in {"fetched", "shown"} : p.downloaded > 0 /\ DrawAlbums(from, "redrawing")
    \/ ArtworkUpdated("redrawing", "redrawn")
    \/ \E from \in {"fetched", "shown", "redrawing", "redrawn"} : BeginBios(from)
    \/ Bios
    \/ \E n \in 0 .. 1 : Completed(n)

-----------------------------------------------------------------------------
(* The main thread *)

\* lib_stats_thread and lib_stats_done, for the loads in the order they end: the card that has the
\* path now is found
ShowStats(k) ==
    /\ LET newest == ~newest_shown /\ k = Len(loads)
       IN  /\ newest_shown' = (newest_shown \/ newest)
           /\ late' = (late \/ newest_shown)
    /\ loads' = RemoveAt(loads, k)
    /\ \E stats \in {"current"} \cup (IF loads[k] = "before" THEN {"old"} ELSE {}) :
          Handle([card EXCEPT !.stats = stats, !.pending_toast = FALSE])
    /\ toasts' = IF card # None /\ card.pending_toast THEN toasts + 1 ELSE toasts
    /\ UNCHANGED <<stage, p, resolve, scans, rebuilds, rebuilt, ok>>

\* on_card_hide_progress
HideProgress ==
    /\ card # None /\ card.hide
    /\ card' = [card EXCEPT !.hide = FALSE, !.revealed = FALSE]
    /\ NoLoad /\ SameBounds /\ UNCHANGED <<stage, p, resolve, ok>>

\* libs_free, which ends the timers, and libs_load: a library was added, removed or moved
Rebuild ==
    /\ scans + rebuilds < MaxRounds /\ rebuilds' = rebuilds + 1
    /\ card' = NewCard /\ rebuilt' = (stage # "none")
    /\ Len(loads) + scans + rebuilds <= MaxLoads /\ loads' = Append(loads, "after") /\ newest_shown' = FALSE /\ late' = FALSE
    /\ ok' = FALSE
    /\ UNCHANGED <<stage, p, resolve, scans, toasts>>

\* on_remove of this library
RemoveCard ==
    /\ card # None /\ card' = None
    /\ NoLoad /\ SameBounds /\ UNCHANGED <<stage, p, resolve, ok>>

Next ==
    \/ Worker
    \/ \E k \in DOMAIN loads : ShowStats(k)
    \/ HideProgress \/ Rebuild \/ RemoveCard

Spec == Init /\ [][Next]_vars

-----------------------------------------------------------------------------
(* Properties *)

\* Rows that are past imply those before them: while a card is not made anew in the scan, nothing
\* is read before the walk is done, nothing resolved before the artwork row is closed, and no
\* artists are asked for before both rows of the resolver are.
RowsInTurn ==
    card # None /\ ~rebuilt /\ stage # "none" =>
        LET rows == card.rows
            begun(k) == rows[k] # "waiting"
        IN  /\ begun(1) => rows[0] \in Finals
            /\ begun(2) => rows[1] \in Finals
            /\ begun(3) /\ resolve => rows[2] \in Finals
            /\ begun(5) => rows[3] \in Finals /\ rows[4] \in Finals

\* The panel shows while the library is scanned and until the timer hides it, and the bars pulse only
\* meanwhile, whatever the handlers found and in whichever order reports and rebuilds came.
PanelAndTimers ==
    card # None =>
        /\ card.pulse => stage # "none"
        /\ card.revealed => stage # "none" \/ card.hide
        /\ stage # "none" /\ ~rebuilt => card.revealed \/ scans = 0
        /\ card.revealed /\ stage # "none" => ~card.hide

\* After a scan that succeeded every row has its last word, and a row is in error exactly when this
\* scan met the error, whatever the throttle dropped and whatever former scans left.  The row of the
\* artwork needs the resolver's reports (indexer_bridge.c:925); that of the biographies keeps what a
\* former scan said (indexer_bridge.c:645).
LastWords ==
    card # None /\ ok /\ stage = "none" /\ ~rebuilt =>
        LET rows == card.rows
        IN  /\ \A k \in PhaseRows : (k = 2 => resolve) => rows[k] \in Finals
            /\ rows[0] = "complete" <=> p.dirs > 0
            /\ rows[1] = "complete" <=> p.files > 0
            /\ rows[2] # "error"
            /\ rows[3] = "error" <=> p.acoustid_error
            /\ rows[4] = "error" <=> p.pg_error
            /\ rows[5] = "error" <=> p.fanart_error
            /\ rows[3] = "complete" => p.prints > 0
            /\ rows[4] = "complete" => resolve

\* When every load has ended, the card has the statistics of the database as it is, unless an older
\* load ended after the one that was asked for last (indexer_bridge.c:320).
StatsAreCurrent ==
    card # None /\ stage = "none" /\ loads = <<>> /\ ~late /\ scans + rebuilds > 0 =>
        card.stats = "current"

\* At most one toast for a scan or a card
OneToast == toasts <= scans + rebuilds

CardSound == RowsInTurn /\ PanelAndTimers /\ LastWords /\ StatsAreCurrent /\ OneToast
=============================================================================
