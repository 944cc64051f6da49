------------------------------ MODULE ArtistArt ------------------------------
(***************************************************************************)
(* Pictures of artists from fanart.tv (indexer/artist_art.c) and the one   *)
(* atlas of them that all libraries share (indexer/artist_atlas.c).  Each  *)
(* library, in a thread of its own, filters the artists it has files for,  *)
(* copies files from other libraries, asks the service for the rest, and   *)
(* then, under a lock on a file, merges what lies in its folder into the   *)
(* atlas.  Album covers that come with the answers are in AlbumAtlas.      *)
(***************************************************************************)
EXTENDS Naturals, FiniteSets

CONSTANTS
    Libraries,
    Artists,
    ArtistsOf,          \* ArtistsOf[l]: the artists of the library that have an MBID
    MaxRetries,         \* MAX_RETRIES
    ErrorLimit,         \* CONSECUTIVE_ERROR_LIMIT
    None,
    MaxPhases,          \* bound: runs of the phase, all libraries together
    MaxEvents           \* bound: cancels, kills, failing downloads and writes

VARIABLES
    has,        \* has[x]: the kinds of pictures the service has of the artist
    dir,        \* dir[l][x]: the files in the artist's folder of the library
    pc, left, work, cancel,
    retries, errors,            \* of the request under way; errors in a row
    aborted,
    atlas, temp,                \* the shared file and the temporary one
    lock,                       \* the library that holds artists.atlas.lock
    built, dirty,
    changed,                    \* out_changed
    phases, events

web    == <<has>>
shared == <<atlas, temp, lock>>
thread == <<pc, left, work, cancel, retries, errors, aborted, built, dirty, changed>>
count  == <<phases, events>>
vars   == <<web, dir, shared, thread, count>>

\* "thumb" is the picture the atlas is made from, "other" a banner or a background,
\* "marker" the file no-images.
Kinds == {"thumb", "other"}
Files == Kinds \cup {"marker"}
PCs   == {"idle", "filter", "fetch", "answer", "save", "lock", "merge", "finish", "rename", "unlock"}

Empty == [art |-> {}, no_art |-> {}]

TypeOK ==
    /\ has \in [Artists -> SUBSET Kinds]
    /\ dir \in [Libraries -> [Artists -> SUBSET Files]]
    /\ pc \in [Libraries -> PCs]
    /\ left \in [Libraries -> SUBSET Artists] /\ work \in [Libraries -> SUBSET Artists]
    /\ retries \in [Libraries -> 0 .. MaxRetries + 1] /\ errors \in [Libraries -> 0 .. ErrorLimit]
    /\ atlas.art \subseteq Artists /\ atlas.no_art \subseteq Artists
    /\ lock \in Libraries \cup {None} /\ temp \in Libraries \cup {None}
    /\ \A l \in Libraries : built[l].art \subseteq Artists /\ built[l].no_art \subseteq Artists
    /\ phases \in 0 .. MaxPhases /\ events \in 0 .. MaxEvents

Init ==
    /\ has \in [Artists -> SUBSET Kinds]
    /\ dir = [l \in Libraries |-> [x \in Artists |-> {}]]
    /\ pc = [l \in Libraries |-> "idle"]
    /\ left = [l \in Libraries |-> {}] /\ work = [l \in Libraries |-> {}]
    /\ cancel = [l \in Libraries |-> FALSE]
    /\ retries = [l \in Libraries |-> 0] /\ errors = [l \in Libraries |-> 0]
    /\ aborted = [l \in Libraries |-> FALSE]
    /\ atlas = Empty /\ temp = None /\ lock = None
    /\ built = [l \in Libraries |-> Empty] /\ dirty = [l \in Libraries |-> FALSE]
    /\ changed = [l \in Libraries |-> FALSE]
    /\ phases = 0 /\ events = 0

Goto(l, where) == pc' = [pc EXCEPT ![l] = where]

Event == events < MaxEvents /\ events' = events + 1

(***************************************************************************)
(* Which artists to ask for.                                               *)
(***************************************************************************)
Start(l) ==
    /\ pc[l] = "idle" /\ phases < MaxPhases
    /\ phases' = phases + 1
    /\ Goto(l, "filter")
    /\ left' = [left EXCEPT ![l] = ArtistsOf[l]]
    /\ work' = [work EXCEPT ![l] = {}]
    /\ cancel' = [cancel EXCEPT ![l] = FALSE]
    /\ errors' = [errors EXCEPT ![l] = 0]
    /\ aborted' = [aborted EXCEPT ![l] = FALSE]
    /\ changed' = [changed EXCEPT ![l] = FALSE]
    /\ UNCHANGED <<web, dir, shared, retries, built, dirty, events>>

HasFiles(l, x) == dir[l][x] # {}

\* Another library that has files of the artist; the first that yields a copy is taken.
Donors(l, x) == {o \in Libraries \ {l} : HasFiles(o, x)}

\* Artists whose folder has a file are left alone, unless one of their albums needs a cover
\* (\E covers); those are asked for in any case.
Filter(l) ==
    /\ pc[l] = "filter"
    /\ \/ /\ left[l] = {} \/ cancel[l]
          /\ Goto(l, "fetch") /\ UNCHANGED <<left, work, dir>>
       \/ \E x \in left[l], covers \in BOOLEAN :
            /\ left' = [left EXCEPT ![l] = @ \ {x}]
            /\ \/ /\ HasFiles(l, x) /\ ~covers
                  /\ UNCHANGED <<dir, work>>
               \/ /\ ~HasFiles(l, x) /\ ~covers /\ Donors(l, x) # {}
                  /\ \E o \in Donors(l, x) : dir' = [dir EXCEPT ![l][x] = dir[o][x]]
                  /\ UNCHANGED work
               \/ /\ covers \/ (~HasFiles(l, x) /\ Donors(l, x) = {})
                  /\ work' = [work EXCEPT ![l] = @ \cup {x}]
                  /\ UNCHANGED dir
            /\ UNCHANGED pc
    /\ UNCHANGED <<web, shared, cancel, retries, errors, aborted, built, dirty, changed, count>>

(***************************************************************************)
(* Asking for them, one after the other.                                   *)
(***************************************************************************)
\* The loop ends with the work, when cancelled, and when half an hour is over.
FetchNext(l) ==
    /\ pc[l] = "fetch"
    /\ \/ /\ work[l] = {} \/ cancel[l] \/ aborted[l]
          /\ Goto(l, "lock") /\ UNCHANGED <<retries, events>>
       \/ /\ work[l] # {} /\ ~cancel[l] /\ ~aborted[l]
          /\ Goto(l, "answer") /\ retries' = [retries EXCEPT ![l] = 0]
          /\ UNCHANGED events
       \/ work[l] # {} /\ Event /\ Goto(l, "lock") /\ UNCHANGED retries
    /\ UNCHANGED <<web, dir, shared, left, work, cancel, errors, aborted, built, dirty, changed, phases>>

Done(l, x) == work' = [work EXCEPT ![l] = @ \ {x}]

\* The answers to a request for x.  An error in a row of ErrorLimit ends the phase, as does
\* a refused key; "slow down" is repeated, and passed over after MaxRetries.
Refused(l, x) ==
    /\ aborted' = [aborted EXCEPT ![l] = TRUE]
    /\ Goto(l, "fetch") /\ UNCHANGED <<dir, work, errors, retries>>

Failed(l, x) ==
    /\ errors' = [errors EXCEPT ![l] = @ + 1]
    /\ aborted' = [aborted EXCEPT ![l] = errors[l] + 1 >= ErrorLimit]
    /\ Goto(l, "fetch") /\ Done(l, x) /\ UNCHANGED <<dir, retries>>

SlowDown(l, x) ==
    /\ retries' = [retries EXCEPT ![l] = @ + 1]
    /\ IF retries[l] < MaxRetries THEN UNCHANGED <<pc, work, errors>>
       ELSE Goto(l, "fetch") /\ Done(l, x) /\ errors' = [errors EXCEPT ![l] = 0]
    /\ UNCHANGED <<dir, aborted>>

NotFound(l, x) ==
    /\ dir' = [dir EXCEPT ![l][x] = @ \cup {"marker"}]
    /\ errors' = [errors EXCEPT ![l] = 0]
    /\ Goto(l, "fetch") /\ Done(l, x) /\ UNCHANGED <<aborted, retries>>

Answered(l, x) ==
    /\ errors' = [errors EXCEPT ![l] = 0]
    /\ Goto(l, "save") /\ UNCHANGED <<dir, work, aborted, retries>>

Answer(l) ==
    /\ pc[l] = "answer"
    /\ \E x \in work[l] :
        \/ (Refused(l, x) \/ Failed(l, x)) /\ Event
        \/ SlowDown(l, x) /\ UNCHANGED events
        \/ has[x] = {} /\ NotFound(l, x) /\ UNCHANGED events
        \/ Answered(l, x) /\ UNCHANGED events
    /\ UNCHANGED <<web, shared, left, cancel, built, dirty, changed, phases>>

\* Every picture is downloaded unless the download fails or the scan is cancelled before;
\* an artist of whom nothing came gets the marker.
Save(l) ==
    /\ pc[l] = "save"
    /\ \E x \in work[l], got \in SUBSET Kinds :
        /\ got \subseteq has[x]
        /\ IF got = has[x] \/ cancel[l] THEN UNCHANGED events ELSE Event
        /\ dir' = [dir EXCEPT ![l][x] = @ \cup IF got = {} THEN {"marker"} ELSE got]
        /\ Done(l, x)
    /\ Goto(l, "fetch")
    /\ UNCHANGED <<web, shared, left, cancel, retries, errors, aborted, built, dirty, changed, phases>>

(***************************************************************************)
(* The atlas.                                                              *)
(***************************************************************************)
\* A bug for TLC to find: the lock is not waited for.
LockUnheld(l) ==
    /\ pc[l] = "lock"
    /\ lock' = l
    /\ built' = [built EXCEPT ![l] = atlas]
    /\ Goto(l, "merge")
    /\ UNCHANGED <<web, dir, atlas, temp, left, work, cancel, retries, errors, aborted, dirty,
                   changed, count>>

\* The builder takes over what the atlas holds, which a checksum shows to be whole.
Loaded(l) == built' = [built EXCEPT ![l] = atlas]

Lock(l) ==
    /\ pc[l] = "lock" /\ lock = None
    /\ lock' = l
    /\ Loaded(l)
    /\ Goto(l, "merge")
    /\ UNCHANGED <<web, dir, atlas, temp, left, work, cancel, retries, errors, aborted, dirty,
                   changed, count>>

AddArt(b, xs) == [art |-> b.art \cup xs, no_art |-> b.no_art \ xs]
AddNoArt(b, xs) == [b EXCEPT !.no_art = @ \cup (xs \ b.art)]

\* Every artist of the library by what lies in the folder: a thumbnail, if it can be
\* resized, or the marker; a cancelled scan stops anywhere.
Merge(l) ==
    /\ pc[l] = "merge"
    /\ \E some \in SUBSET ArtistsOf[l] :
        LET arts  == {x \in some : "thumb" \in dir[l][x]}
            marks == {x \in some : "marker" \in dir[l][x]} \ arts
        IN \E read \in SUBSET arts :
            /\ some = ArtistsOf[l] \/ cancel[l]
            /\ IF read = arts THEN UNCHANGED events ELSE Event
            /\ built' = [built EXCEPT ![l] = AddNoArt(AddArt(@, read), marks)]
            /\ dirty' = [dirty EXCEPT ![l] = read \cup marks # {}]
    /\ Goto(l, "finish")
    /\ UNCHANGED <<web, dir, shared, left, work, cancel, retries, errors, aborted, changed, phases>>

\* A clean or empty builder writes nothing; otherwise the temporary file, whose name all
\* threads of the process share, is written first.
Finish(l) ==
    /\ pc[l] = "finish"
    /\ \/ /\ dirty[l] /\ built[l] # Empty
          /\ temp' = l /\ Goto(l, "rename") /\ UNCHANGED events
       \/ /\ ~dirty[l] \/ built[l] = Empty \/ events < MaxEvents
          /\ IF dirty[l] /\ built[l] # Empty THEN Event ELSE UNCHANGED events
          /\ Goto(l, "unlock") /\ UNCHANGED temp
    /\ UNCHANGED <<web, dir, atlas, lock, left, work, cancel, retries, errors, aborted, built, dirty,
                   changed, phases>>

\* An atlas with the same checksum stays.
Rename(l) ==
    /\ pc[l] = "rename"
    /\ atlas' = built[temp]
    /\ changed' = [changed EXCEPT ![l] = atlas # built[temp]]
    /\ temp' = None
    /\ Goto(l, "unlock")
    /\ UNCHANGED <<web, dir, lock, left, work, cancel, retries, errors, aborted, built, dirty, count>>

Unlock(l) ==
    /\ pc[l] = "unlock"
    /\ lock' = None
    /\ built' = [built EXCEPT ![l] = Empty] /\ dirty' = [dirty EXCEPT ![l] = FALSE]
    /\ Goto(l, "idle")
    /\ UNCHANGED <<web, dir, atlas, temp, left, work, cancel, retries, errors, aborted, changed, count>>

(***************************************************************************)
(* The world.                                                              *)
(***************************************************************************)
Cancel(l) ==
    /\ Event /\ pc[l] # "idle" /\ ~cancel[l]
    /\ cancel' = [cancel EXCEPT ![l] = TRUE]
    /\ UNCHANGED <<web, dir, shared, pc, left, work, retries, errors, aborted, built, dirty, changed,
                   phases>>

\* The process ends, and with it the lock.
Kill ==
    /\ Event
    /\ pc' = [l \in Libraries |-> "idle"] /\ lock' = None /\ temp' = None
    /\ built' = [l \in Libraries |-> Empty] /\ dirty' = [l \in Libraries |-> FALSE]
    /\ UNCHANGED <<web, dir, atlas, left, work, cancel, retries, errors, aborted, changed, phases>>

Step(l) ==
    \/ Filter(l) \/ FetchNext(l) \/ Answer(l) \/ Save(l)
    \/ Merge(l) \/ Finish(l) \/ Rename(l) \/ Unlock(l)

Next ==
    \/ \E l \in Libraries : Start(l) \/ Step(l) \/ Lock(l) \/ Cancel(l)
    \/ Kill

Spec == Init /\ [][Next]_vars

\* Requests have a timeout of thirty seconds.  Whoever holds the lock lets go of it; the
\* others wait in flock.
Fairness == \A l \in Libraries : WF_vars(pc[l] # "idle" /\ Step(l)) /\ SF_vars(Lock(l))
FairSpec == Spec /\ Fairness

(***************************************************************************)
(* Properties.                                                             *)
(***************************************************************************)

\* No library's merge undoes another's: an artist with a picture in the shared atlas keeps
\* it, whoever scans at the same time and whatever is cancelled or fails.
ArtistsKept == [][atlas.art \subseteq atlas'.art]_vars

\* No artist is both among those with a picture and those known to have none, and the
\* temporary file is written only by the library that holds the lock.
ArtistsSound ==
    /\ atlas.art \cap atlas.no_art = {}
    /\ temp # None => lock = temp
    /\ \A k, l \in Libraries : {pc[k], pc[l]} \subseteq {"merge", "finish", "rename", "unlock"} => k = l

\* The phases of all libraries end, also when the service only ever says "slow down".
Working == \E l \in Libraries : pc[l] # "idle"
ArtistsEnd == Working ~> ~Working

\* Not so in the code: the marker is only given to artists of whom the service has no
\* picture.  It is also given when the downloads fail or the scan is cancelled before them,
\* and keeps the artist from being asked for again.
MarkerIsTrue == \A l \in Libraries, x \in Artists : "marker" \in dir[l][x] => has[x] = {}
=============================================================================
