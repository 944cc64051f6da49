---------------------------- MODULE ArtworkManager ----------------------------
(***************************************************************************)
(* How pictures reach the screen (ui/library/artwork_manager.c).  On the   *)
(* main thread a widget asks for an album's or an artist's thumbnail, or   *)
(* an album's full-size picture; the texture cache answers, or the request *)
(* joins the load that is pending for the same id.  Workers read atlases   *)
(* and files and post what they found to the main loop, which fills the    *)
(* cache and the widgets that are still there.  Libraries come, go, and    *)
(* have their atlas replaced meanwhile; in the end the manager is freed.   *)
(***************************************************************************)
EXTENDS Naturals, Sequences, FiniteSets

CONSTANTS
    Albums, Artists, Libraries,
    LibraryOf,      \* LibraryOf[x]: the library an album's or artist's id names
    Detailed,       \* the albums that are shown in full size
    Widgets,
    Workers,        \* ARTWORK_MANAGER_DEFAULT_WORKERS of them
    MaxEntries,     \* of one texture cache
    ScanMin,        \* EVICTION_SCAN_MIN
    None,
    MaxCount,       \* bound: access_count
    MaxRequests,    \* bound: requests for a picture
    MaxChanges      \* bound: atlases replaced, libraries added and removed, widgets gone

ASSUME RequestsAssumption ==
    /\ IsFiniteSet(Workers) /\ MaxRequests \in Nat /\ MaxChanges \in Nat
    /\ \A requests \in SUBSET (1 .. MaxRequests) : requests # None

ASSUME CacheAssumption ==
    /\ MaxEntries \in Nat /\ ScanMin \in Nat \ {0} /\ MaxCount \in Nat
    /\ Detailed \subseteq Albums /\ \A x \in Albums \cup Artists : LibraryOf[x] \in Libraries

VARIABLES
    cache,      \* cache[t]: the entries of album_cache and artist_cache, most recent first
    pending,    \* pending[k]: the requests that wait for key k, or None
    tasks,      \* load_queue
    worker,     \* worker[n]: what a worker is doing
    posted,     \* the LoadCompletes in the main loop
    request,    \* request[r]: the widget that asked, and for what
    answered,   \* how often request r has been answered
    widget,     \* widget[w]: what it shows and whether it looks like loading, or None when gone
    version,    \* version[l]: of the atlas in the library's slot; None without a slot
    artistAtlas,    \* the version of the atlas of artists
    moves,      \* how often the array of slots has moved
    changes,    \* how much has changed
    main        \* "run", "join", "drain", "freed"

work == <<pending, tasks, worker, posted>>
seen == <<request, answered, widget>>
lib  == <<version, artistAtlas, moves, changes>>
vars == <<cache, work, seen, lib, main>>

Keys ==
    [type : {"album"}, id : Albums] \cup [type : {"artist"}, id : Artists]
        \cup [type : {"fullsize"}, id : Detailed]
Key(t, x) == [type |-> t, id |-> x]

\* What a load found: the picture of its key as of some version of the atlas or folder,
\* or nothing.
Picture(k, v) == [key |-> k, version |-> v]
Idle == [at |-> "idle"]
Ended == [at |-> "ended"]

Fresh == [shows |-> None, loading |-> FALSE]
Requests == DOMAIN request

TypeOK ==
    /\ \A t \in {"album", "artist"} : Len(cache[t]) <= MaxEntries
    /\ pending \in [Keys -> {None} \cup SUBSET Requests]
    /\ tasks \in Seq(Keys)
    /\ \A n \in Workers : worker[n].at \in {"idle", "look", "read", "take", "ended"}
    /\ request \in Seq([widget : Widgets, key : Keys])
    /\ answered \in [Requests -> Nat]
    /\ version \in [Libraries -> 0 .. MaxChanges \cup {None}]
    /\ main \in {"run", "join", "drain", "freed"}

Init ==
    /\ cache = [t \in {"album", "artist"} |-> <<>>]
    /\ pending = [k \in Keys |-> None] /\ tasks = <<>>
    /\ worker = [n \in Workers |-> Idle] /\ posted = <<>>
    /\ request = <<>> /\ answered = <<>>
    /\ widget = [w \in Widgets |-> Fresh]
    /\ version \in [Libraries -> {0, None}]
    /\ artistAtlas = 0 /\ moves = 0
    /\ changes = 0
    /\ main = "run"

(***************************************************************************)
(* The texture cache.                                                      *)
(***************************************************************************)
Position(entries, x) == {j \in DOMAIN entries : entries[j].id = x}
Cached(t, x) == t # "fullsize" /\ Position(cache[t], x) # {}
EntryOf(t, x) == cache[t][CHOOSE j \in Position(cache[t], x) : TRUE]

\* Of a sequence what is at the positions found, in its order.
Picked(entries, found) ==
    [k \in 1 .. Cardinality(found) |->
        entries[CHOOSE j \in found : Cardinality({i \in found : i <= j}) = k]]

Without(entries, x) == Picked(entries, {j \in DOMAIN entries : entries[j].id # x})

Touched(entries, e) ==
    <<[e EXCEPT !.count = IF @ < MaxCount THEN @ + 1 ELSE @]>> \o Without(entries, e.id)

\* Of the least recent entries the one used least often goes, the oldest if there are two.
Scanned(entries) ==
    LET n    == Len(entries)
        part == (n * 10) \div 100
        scan == IF part < ScanMin THEN ScanMin ELSE part
    IN (IF scan > n THEN 1 ELSE n - scan + 1) .. n

Victim(entries) ==
    CHOOSE j \in Scanned(entries) : \A i \in Scanned(entries) :
        \/ entries[j].count < entries[i].count
        \/ entries[j].count = entries[i].count /\ j >= i

Evicted(entries) ==
    IF Len(entries) <= MaxEntries THEN entries ELSE Without(entries, entries[Victim(entries)].id)

\* A texture already in the cache stays.
Inserted(entries, x, picture) ==
    IF picture = None \/ Position(entries, x) # {} THEN entries
    ELSE Evicted(<<[id |-> x, picture |-> picture, count |-> 1]>> \o entries)

EvictLibrary(entries, l) ==
    Picked(entries, {j \in DOMAIN entries : LibraryOf[entries[j].id] # l})

(***************************************************************************)
(* Requests, on the main thread.                                           *)
(***************************************************************************)
Dispatching == main \in {"run", "drain"}
Alive(w) == widget[w] # None

\* A hit is shown at once; otherwise the widget shows an icon, a full-size one what it did,
\* and the request joins the load pending for its id, or starts one.
Hit(w, k) ==
    LET e == EntryOf(k.type, k.id) IN
    /\ cache' = [cache EXCEPT ![k.type] = Touched(@, e)]
    /\ widget' = [widget EXCEPT ![w] = [shows |-> e.picture, loading |-> FALSE]]
    /\ answered' = Append(answered, 1)
    /\ UNCHANGED <<pending, tasks>>

QueueLoad(w, k) ==
    /\ widget' = [widget EXCEPT ![w] = [shows |-> IF k.type = "fullsize" THEN @.shows ELSE None,
                                        loading |-> TRUE]]
    /\ answered' = Append(answered, 0)
    /\ pending' = [pending EXCEPT ![k] = (IF @ = None THEN {} ELSE @) \cup {Len(request) + 1}]
    /\ tasks' = IF pending[k] = None THEN Append(tasks, k) ELSE tasks
    /\ UNCHANGED cache

Get(w, k) ==
    /\ Dispatching /\ Alive(w) /\ Len(request) < MaxRequests
    /\ request' = Append(request, [widget |-> w, key |-> k])
    /\ IF Cached(k.type, k.id) THEN Hit(w, k) ELSE QueueLoad(w, k)
    /\ UNCHANGED <<worker, posted, lib, main>>

Changing == changes < MaxChanges /\ changes' = changes + 1

\* The weak pointer of every request of the widget becomes NULL.
DestroyWidget(w) ==
    /\ Dispatching /\ Alive(w) /\ Changing
    /\ widget' = [widget EXCEPT ![w] = None]
    /\ UNCHANGED <<cache, work, request, answered, version, artistAtlas, moves, main>>

(***************************************************************************)
(* A worker.                                                               *)
(***************************************************************************)
Shutdown == main # "run"

\* A task whose entry is gone is dropped.
Pop(n) ==
    /\ worker[n] = Idle
    /\ \/ /\ tasks # <<>> /\ ~Shutdown
          /\ LET k == Head(tasks) IN
             worker' = IF pending[k] = None THEN worker
                       ELSE [worker EXCEPT ![n] =
                                [at |-> IF k.type = "fullsize" THEN "look" ELSE "read",
                                 key |-> k, moves |-> None]]
          /\ tasks' = Tail(tasks)
       \/ Shutdown /\ worker' = [worker EXCEPT ![n] = Ended] /\ UNCHANGED tasks
    /\ UNCHANGED <<cache, pending, posted, seen, lib, main>>

\* A full-size load finds its slot without the lock and uses it after.
Look(n) ==
    /\ worker[n].at = "look"
    /\ worker' = [worker EXCEPT ![n] = [at |-> "read", key |-> worker[n].key, moves |-> moves]]
    /\ UNCHANGED <<cache, pending, tasks, posted, seen, lib, main>>

\* The slot a full-size load found may have been freed or reused since: then anything.
Finds(k, found) ==
    LET v == IF k.type = "artist" THEN artistAtlas ELSE version[LibraryOf[k.id]] IN
    {None} \cup (IF v = None THEN {} ELSE {Picture(k, v)})
           \cup (IF k.type = "fullsize" /\ found # moves
                 THEN {Picture(Key("fullsize", x), 0) : x \in Albums} ELSE {})

Read(n) ==
    /\ worker[n].at = "read"
    /\ \E p \in Finds(worker[n].key, worker[n].moves) :
        worker' = [worker EXCEPT ![n] = [at |-> "take", key |-> worker[n].key, picture |-> p]]
    /\ UNCHANGED <<cache, pending, tasks, posted, seen, lib, main>>

\* A bug for TLC to find: the entry stays in the table.
TakeAndKeep(n) ==
    /\ worker[n].at = "take"
    /\ LET k == worker[n].key IN
        /\ pending' = [pending EXCEPT ![k] = {}]
        /\ posted' = Append(posted, [key |-> k, picture |-> worker[n].picture,
                                     requests |-> pending[k]])
    /\ worker' = [worker EXCEPT ![n] = Idle]
    /\ UNCHANGED <<cache, tasks, seen, lib, main>>

\* All requests that joined until now are answered with what was read.
Take(n) ==
    /\ worker[n].at = "take"
    /\ LET k == worker[n].key IN
        /\ pending' = [pending EXCEPT ![k] = None]
        /\ posted' = IF pending[k] = None THEN posted
                     ELSE Append(posted, [key |-> k, picture |-> worker[n].picture,
                                          requests |-> pending[k]])
    /\ worker' = [worker EXCEPT ![n] = Idle]
    /\ UNCHANGED <<cache, tasks, seen, lib, main>>

(***************************************************************************)
(* Completion, on the main thread.                                         *)
(***************************************************************************)
\* Thumbnails without a picture go on looking like loading.
Answered(w, k, p) ==
    IF p # None THEN [shows |-> p, loading |-> FALSE]
    ELSE [shows |-> widget[w].shows, loading |-> k.type # "fullsize" /\ widget[w].loading]

CompleteOnMain ==
    /\ Dispatching /\ posted # <<>>
    /\ LET lc == Head(posted) IN
        /\ cache' = IF lc.key.type = "fullsize" THEN cache
                    ELSE [cache EXCEPT ![lc.key.type] = Inserted(@, lc.key.id, lc.picture)]
        /\ widget' = [w \in Widgets |->
                        IF Alive(w) /\ \E r \in lc.requests : request[r].widget = w
                        THEN Answered(w, lc.key, lc.picture) ELSE widget[w]]
        /\ answered' = [r \in Requests |-> answered[r] + IF r \in lc.requests THEN 1 ELSE 0]
    /\ posted' = Tail(posted)
    /\ UNCHANGED <<pending, tasks, worker, request, lib, main>>

(***************************************************************************)
(* Atlases and libraries, on the main thread.                              *)
(***************************************************************************)
ReloadLibraryAtlas(l) ==
    /\ main = "run" /\ Changing
    /\ cache' = [cache EXCEPT !["album"] = EvictLibrary(@, l)]
    /\ version[l] # None /\ version' = [version EXCEPT ![l] = @ + 1]
    /\ UNCHANGED <<work, seen, artistAtlas, moves, main>>

ReloadArtistAtlas ==
    /\ main = "run" /\ Changing
    /\ cache' = [cache EXCEPT !["artist"] = <<>>]
    /\ artistAtlas' = artistAtlas + 1
    /\ UNCHANGED <<work, seen, version, moves, main>>

\* Both move the slots of other libraries.
RemoveLibrary(l) ==
    /\ main = "run" /\ Changing /\ version[l] # None
    /\ cache' = [t \in DOMAIN cache |-> EvictLibrary(cache[t], l)]
    /\ version' = [version EXCEPT ![l] = None]
    /\ moves' = moves + 1
    /\ UNCHANGED <<work, seen, artistAtlas, main>>

AddLibrary(l) ==
    /\ main = "run" /\ Changing /\ version[l] = None
    /\ version' = [version EXCEPT ![l] = 1]
    /\ moves' = moves + 1
    /\ UNCHANGED <<cache, work, seen, artistAtlas, main>>

(***************************************************************************)
(* The end.                                                                *)
(***************************************************************************)
Free ==
    /\ main = "run"
    /\ main' = "join"
    /\ UNCHANGED <<cache, work, seen, lib>>

Joined ==
    /\ main = "join" /\ \A n \in Workers : worker[n] = Ended
    /\ main' = "drain"
    /\ UNCHANGED <<cache, work, seen, lib>>

Freed ==
    /\ main = "drain" /\ posted = <<>>
    /\ main' = "freed"
    /\ pending' = [k \in Keys |-> None] /\ tasks' = <<>>
    /\ cache' = [t \in DOMAIN cache |-> <<>>]
    /\ UNCHANGED <<worker, posted, seen, lib>>

-----------------------------------------------------------------------------
WorkerStep(n) == Pop(n) \/ Look(n) \/ Read(n) \/ Take(n)

Next ==
    \/ \E w \in Widgets : DestroyWidget(w) \/ \E k \in Keys : Get(w, k)
    \/ \E n \in Workers : WorkerStep(n)
    \/ CompleteOnMain
    \/ \E l \in Libraries : ReloadLibraryAtlas(l) \/ RemoveLibrary(l) \/ AddLibrary(l)
    \/ ReloadArtistAtlas
    \/ Free \/ Joined \/ Freed

\* Threads run, and the main loop gets to its idle callbacks.
Fairness ==
    /\ \A n \in Workers : WF_vars(worker[n] # Ended /\ WorkerStep(n))
    /\ WF_vars(CompleteOnMain) /\ WF_vars(Joined) /\ WF_vars(Freed)

Spec == Init /\ [][Next]_vars

-----------------------------------------------------------------------------
Count(set) == Cardinality(set)

\* A key that is pending has one task, in the queue or in the hands of one worker, and a
\* key that is not has none: no load is lost and none is made twice.
LoadsAccounted ==
    main = "run" =>
        \A k \in Keys :
            Count({j \in DOMAIN tasks : tasks[j] = k})
              + Count({n \in Workers : worker[n] \notin {Idle, Ended} /\ worker[n].key = k})
            = IF pending[k] = None THEN 0 ELSE 1

\* Every request waits in one place or has been answered once: no widget is left without an
\* answer by a load that ends just as the widget asks, and none gets two.
RequestsAccounted ==
    main # "freed" =>
        \A r \in Requests :
            answered[r] + (IF pending[request[r].key] # None /\ r \in pending[request[r].key]
                           THEN 1 ELSE 0)
                        + Count({j \in DOMAIN posted : r \in posted[j].requests}) = 1

\* After the manager is freed no worker runs and no callback of it is left in the main loop.
FreedIsQuiet ==
    main = "freed" => posted = <<>> /\ \A n \in Workers : worker[n] = Ended

ManagerSound == LoadsAccounted /\ RequestsAccounted /\ FreedIsQuiet

\* A request is answered, unless the manager is freed first; and freeing it ends.
Working == main \in {"join", "drain"} \/ (main = "run" /\ \E r \in Requests : answered[r] = 0)
RequestsAnswered == Working ~> ~Working

\* Not so in the code: a widget shows the picture of what it asked for last.  A load that
\* was asked for before may end later.
ShowsWhatItWants ==
    \A w \in Widgets :
        LET mine == {r \in Requests : request[r].widget = w} IN
        Alive(w) /\ mine # {} /\ (\A r \in mine : answered[r] > 0) /\ widget[w].shows # None =>
            widget[w].shows.key = request[CHOOSE r \in mine : \A q \in mine : q <= r].key

\* Nor this: what the cache holds is of the atlas that is mapped.
CacheIsCurrent ==
    \A j \in DOMAIN cache["album"] :
        cache["album"][j].picture.version = version[LibraryOf[cache["album"][j].id]]
=============================================================================
