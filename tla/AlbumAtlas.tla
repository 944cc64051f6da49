----------------------------- MODULE AlbumAtlas -----------------------------
(***************************************************************************)
(* The atlas of album thumbnails of one library (indexer/artwork.c and     *)
(* the artwork phases of indexer/indexer.c).  A scan hands the albums it   *)
(* has found changed to a builder that starts from the atlas on disk,      *)
(* takes up again the albums that had no picture and now have a cover from *)
(* fanart.tv, lets a pool look for pictures, and replaces the file.  After *)
(* that missing covers are downloaded and the phase runs once more for     *)
(* them.  The user interface maps the file again when told to.             *)
(* The covers are those of artist_art.c; what the scan finds is any set.   *)
(***************************************************************************)
EXTENDS Naturals, Sequences, SequencesExt

CONSTANTS
    Albums,
    Pictures,
    Folders,        \* what album folders may hold: functions from some Sources to Pictures
    Unreadable,     \* pictures that libvips does not turn into RGB of the size asked for
    None,
    MaxScans,       \* bound: scans
    MaxEvents       \* bound: changes in folders, cancels, kills, failing writes

VARIABLES
    folder,     \* folder[a]: the pictures in the album's folder, by where they are
    covers,     \* covers[a]: the cover cached for its release group, or None
    grouped,    \* the albums whose release group is known
    stored,     \* the albums that have a path in the database
    touched,    \* changed since a scan has recorded them
    file,       \* the atlas on disk, or None
    temp,       \* what the temporary file holds: nothing, a part, or all of the new atlas
    built,      \* the builder
    queue,      \* albums pushed to the pool and not processed yet
    pc,         \* where the scan is
    again,      \* this is the phase for downloaded covers
    changed,    \* idx->last_artwork_changed
    cancel,
    shown,      \* the atlas the user interface has been told of
    missed,     \* a scan was stopped after it replaced the atlas and before it said so
    failed,     \* a scan was stopped or could not write, so covers may wait
    scans, events

disk  == <<folder, covers, grouped, stored, touched>>
files == <<file, temp>>
run   == <<built, queue, pc, again, changed, cancel>>
seen  == <<shown, missed, failed, scans, events>>
vars  == <<disk, files, run, seen>>

PCs == {"idle", "pool", "write", "replace", "tell", "covers", "again"}

\* Where a folder may hold a picture, in the order of preference: image files by name, a
\* picture attached to an audio file, and the folders of its discs.
Sources == <<"cover", "folder", "front", "albumart", "embedded", "disc">>

\* The picture that artwork_find_bytes returns; whether it can be resized plays no part.
Best(f) ==
    IF DOMAIN f = {} THEN None
    ELSE f[SelectSeq(Sources, LAMBDA s : s \in DOMAIN f)[1]]

Empty == [art |-> [a \in Albums |-> <<>>], no_art |-> {}]
NoBuilder == [art |-> Empty.art, no_art |-> {}, dirty |-> FALSE]

\* The pictures a lookup may return: entries of one album are adjacent, and the binary
\* search ends at any of them.
Found(atlas, a) == IF atlas = None THEN {} ELSE Range(atlas.art[a])

Readable == Pictures \ Unreadable

TypeOK ==
    /\ folder \in [Albums -> Folders]
    /\ covers \in [Albums -> Pictures \cup {None}]
    /\ grouped \subseteq Albums /\ stored \subseteq Albums /\ touched \subseteq Albums
    /\ temp \in {"none", "part", "all"}
    /\ built.no_art \subseteq Albums /\ built.dirty \in BOOLEAN
    /\ queue \subseteq Albums \X {"changed", "promoted"}
    /\ pc \in PCs
    /\ {again, changed, cancel, missed, failed} \subseteq BOOLEAN
    /\ scans \in 0 .. MaxScans /\ events \in 0 .. MaxEvents

Init ==
    /\ folder \in [Albums -> Folders]
    /\ grouped \in SUBSET Albums
    /\ stored \in SUBSET Albums
    /\ covers = [a \in Albums |-> None]
    /\ touched = Albums
    /\ file = None /\ temp = "none"
    /\ built = NoBuilder /\ queue = {} /\ pc = "idle"
    /\ again = FALSE /\ changed = FALSE /\ cancel = FALSE
    /\ shown = None /\ missed = FALSE /\ failed = FALSE
    /\ scans = 0 /\ events = 0

(***************************************************************************)
(* The builder.                                                            *)
(***************************************************************************)
\* The user interface maps a file only if its checksum is right.
Opened == file

\* So does the builder, which starts from nothing otherwise.
Loaded == IF file = None THEN Empty ELSE file

\* Albums known to have no picture for which a cover lies in the cache by now.
Promoted(no_art) == {a \in no_art : a \in grouped /\ covers[a] # None}

\* One run of the artwork phase over the albums `list': the builder takes over the existing
\* atlas, promoted albums leave its list and are queued if the database knows their path.
Begin(list) ==
    LET promoted == Promoted(Loaded.no_art) IN
    /\ built' = [art |-> Loaded.art, no_art |-> Loaded.no_art \ promoted,
                 dirty |-> promoted # {}]
    /\ queue' = (list \X {"changed"}) \cup ((promoted \cap stored) \X {"promoted"})
    /\ changed' = FALSE
    /\ pc' = IF list = {} /\ promoted = {} THEN "write" ELSE "pool"

\* The best picture in the folder if it can be resized, else the cached cover, else none.
Chosen(a) ==
    CASE Best(folder[a]) \in Readable -> Best(folder[a])
      [] Best(folder[a]) \notin Readable /\ a \in grouped /\ covers[a] \in Readable -> covers[a]
      [] OTHER -> None

WithPicture(b, a, p) == [b EXCEPT !.art[a] = Append(@, p)]
WithNoArt(b, a) ==
    IF a \in b.no_art THEN b ELSE [b EXCEPT !.no_art = @ \cup {a}, !.dirty = TRUE]

Process ==
    /\ pc = "pool"
    /\ \E item \in queue :
        LET a == item[1] IN
        /\ queue' = queue \ {item}
        /\ built' = IF Chosen(a) = None THEN WithNoArt(built, a)
                    ELSE WithPicture(built, a, Chosen(a))
    /\ UNCHANGED <<disk, files, pc, again, changed, cancel, seen>>

\* The pool is freed when everything pushed has been processed; a cancelled scan pushes no
\* more and throws the builder away.
PoolEnds ==
    /\ pc = "pool"
    /\ \/ cancel /\ pc' = "tell" /\ failed' = TRUE
       \/ ~cancel /\ queue = {} /\ pc' = "write" /\ UNCHANGED failed
    /\ queue' = {}
    /\ UNCHANGED <<disk, files, built, again, changed, cancel, shown, missed, scans, events>>

\* A bug for TLC to find: the atlas is written where the old one is.
WriteInPlace ==
    /\ pc = "write"
    /\ IF built.dirty THEN file' = None /\ temp' = "part" /\ pc' = "replace"
       ELSE pc' = "tell" /\ UNCHANGED files
    /\ UNCHANGED <<disk, built, queue, again, changed, cancel, seen>>

\* Nothing is written when no entry is dirty or there is none.
Write ==
    /\ pc = "write"
    /\ IF built.dirty
         THEN \/ temp' = "part" /\ pc' = "replace" /\ UNCHANGED <<failed, events>>
              \/ /\ events < MaxEvents
                 /\ events' = events + 1 /\ failed' = TRUE
                 /\ pc' = "tell" /\ UNCHANGED temp
         ELSE pc' = "tell" /\ UNCHANGED <<temp, failed, events>>
    /\ UNCHANGED <<disk, file, built, queue, again, changed, cancel, shown, missed, scans>>

\* The complete temporary file replaces the atlas unless both have the same checksum.
Replace ==
    /\ pc = "replace"
    /\ temp' = "none"
    /\ LET new == [art |-> built.art, no_art |-> built.no_art] IN
         /\ file' = new
         /\ changed' = (file # new)
    /\ pc' = "tell"
    /\ UNCHANGED <<disk, built, queue, again, cancel, seen>>

(***************************************************************************)
(* The phases of the scan.                                                 *)
(***************************************************************************)
\* The fingerprints of the albums have been recorded before the artwork phase begins.
Start ==
    /\ pc = "idle" /\ scans < MaxScans
    /\ scans' = scans + 1
    /\ failed' = FALSE /\ cancel' = FALSE /\ again' = FALSE
    /\ Begin(touched)
    /\ touched' = {}
    /\ UNCHANGED <<folder, covers, grouped, stored, files, shown, missed, events>>

\* After the first run a cancelled scan ends without a word; after the second run the
\* change is told before the flag is looked at.
Told(told) ==
    /\ shown' = IF told THEN Opened ELSE shown
    /\ missed' = IF told THEN FALSE ELSE missed \/ changed

Tell ==
    /\ pc = "tell"
    /\ Told(changed /\ (again \/ ~cancel))
    /\ pc' = IF again \/ cancel THEN "idle" ELSE "covers"
    /\ failed' = (failed \/ cancel)
    /\ built' = NoBuilder /\ temp' = "none"
    /\ UNCHANGED <<disk, file, queue, again, changed, cancel, scans, events>>

\* Albums with a release group, no picture in the atlas and no cover in the cache.
Missing == {a \in grouped : Found(file, a) = {} /\ covers[a] = None}

\* What fanart.tv has for the missing albums, if it answers; then the phase runs again.
FetchCovers ==
    /\ pc = "covers"
    /\ \E got \in SUBSET Missing, p \in Pictures :
        /\ covers' = [a \in Albums |-> IF a \in got THEN p ELSE covers[a]]
        /\ IF got = {} \/ cancel
             THEN /\ pc' = "idle" /\ failed' = (failed \/ got # {})
                  /\ UNCHANGED <<built, queue, changed, again>>
             ELSE pc' = "again" /\ again' = TRUE /\ UNCHANGED <<built, queue, changed, failed>>
    /\ UNCHANGED <<folder, grouped, stored, touched, files, cancel, shown, missed, scans, events>>

BeginAgain ==
    /\ pc = "again"
    /\ Begin({})
    /\ UNCHANGED <<disk, files, again, cancel, seen>>

(***************************************************************************)
(* The world.                                                              *)
(***************************************************************************)
Event == events < MaxEvents /\ events' = events + 1

ChangeFolder(a) ==
    /\ Event
    /\ \E f \in Folders \ {folder[a]} : folder' = [folder EXCEPT ![a] = f]
    /\ touched' = touched \cup {a}
    /\ UNCHANGED <<covers, grouped, stored, files, run, shown, missed, failed, scans>>

Cancel ==
    /\ Event /\ pc # "idle" /\ ~cancel
    /\ cancel' = TRUE
    /\ UNCHANGED <<disk, files, built, queue, pc, again, changed, shown, missed, failed, scans>>

\* The process ends; the next one maps the atlas it finds.
Kill ==
    /\ Event
    /\ built' = NoBuilder /\ queue' = {} /\ pc' = "idle" /\ cancel' = FALSE
    /\ changed' = FALSE /\ again' = FALSE
    /\ shown' = Opened /\ missed' = FALSE /\ failed' = TRUE
    /\ UNCHANGED <<disk, files, scans>>

ScanStep == Process \/ PoolEnds \/ Write \/ Replace \/ Tell \/ FetchCovers \/ BeginAgain

Next ==
    \/ Start \/ ScanStep \/ Cancel \/ Kill
    \/ \E a \in Albums : ChangeFolder(a)

Spec == Init /\ [][Next]_vars
FairSpec == Spec /\ WF_vars(ScanStep)

(***************************************************************************)
(* Properties.                                                             *)
(***************************************************************************)

\* An album that has a picture in the atlas keeps one: whatever fails or ends in the middle
\* of a write, the file on disk is the old atlas or the new one, and the builder carries
\* every entry over.
PicturesKept == [][\A a \in Albums : Found(file, a) # {} => Found(file', a) # {}]_vars

\* Between scans the user interface shows the atlas that lies on disk, unless a scan was
\* cancelled between the replacement and the message.
ShownIsWritten == pc = "idle" /\ ~missed => shown = file

\* A cover that has been downloaded for an album without a picture is used: after a scan
\* that was not disturbed no such album is still on the no-art list, except those whose
\* cover cannot be read.
CoversUsed ==
    pc = "idle" /\ ~failed /\ file # None =>
        \A a \in file.no_art \cap grouped \cap stored : covers[a] \notin Readable

\* Not so in the code: an album whose picture was found is in the atlas.  Adding a picture
\* does not mark the builder as changed, and a builder that is not is never written.
PicturesWritten ==
    pc = "idle" /\ ~failed /\ scans > 0 =>
        \A a \in Albums \ touched : Best(folder[a]) \in Readable => Found(file, a) # {}

AtlasSound == ShownIsWritten /\ CoversUsed
=============================================================================
