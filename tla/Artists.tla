------------------------------- MODULE Artists -------------------------------
(***************************************************************************)
(* The artists of a library's database (db_write.c): how a name, with or   *)
(* without a MusicBrainz id, finds its row or makes one, and which rows    *)
(* are cleaned away.  The name cache of a scan's writer (indexer.c) and    *)
(* the credits that tags and releases are turned into (indexer.c,          *)
(* mb_resolver.c) are here too: they are what keeps row ids for later.     *)
(*                                                                         *)
(* A name is a model value with two coarser forms: Fold, in which case is  *)
(* ignored (COLLATE NOCASE, casefold), and Normal, in which spaces and     *)
(* hyphens are ignored as well.  Sort names are left out.                  *)
(***************************************************************************)
EXTENDS Integers, FiniteSetsExt, SequencesExt

CONSTANTS
    Names, Fold, Normal,   \* [Names -> ...], Normal is coarser than Fold
    Mbids, None,
    TrackIds, AlbumIds,        \* what refers to artists
    MaxArtists,            \* bound on row ids
    MaxCredits             \* of a track

VARIABLES
    store,    \* the tables: rows, their search index, credits and album artists
    cache     \* artist_cache_t of the running scan, None without one

vars == <<store, cache>>

Row(n, m)   == [name |-> n, mbid |-> m]
Ids(s)      == DOMAIN s.rows
FirstId(ids) == IF ids = {} THEN 0 ELSE Min(ids)
Entered(f, x, v) == [y \in DOMAIN f \cup {x} |-> IF y = x THEN v ELSE f[y]]
Referred(s) == (UNION {s.credits[t] : t \in TrackIds}) \cup {s.album[al] : al \in AlbumIds}

Init ==
    /\ store = [rows |-> <<>>, index |-> <<>>,
                credits |-> [t \in TrackIds |-> {}], album |-> [al \in AlbumIds |-> 0]]
    /\ cache = None

-----------------------------------------------------------------------------
(* Finding a row *)

Named(s, n)      == {i \in Ids(s) : Fold[s.rows[i].name] = Fold[n]}
WithMbid(s, m)   == {i \in Ids(s) : s.rows[i].mbid = m}

\* Rows of that name no other artist has claimed.  In SQL nothing equals a NULL parameter.
Claimable(s, n, m) == {i \in Named(s, n) : s.rows[i].mbid \in {None, m}}

Similar(s, n) == {i \in WithMbid(s, None) : Normal[s.rows[i].name] = Normal[n]}

\* Names are unique without case, MusicBrainz ids where there is one.
Admits(s, i, n, m) ==
    /\ Named(s, n) \subseteq {i}
    /\ m # None => WithMbid(s, m) \subseteq {i}

Put(s, i, n, m) ==
    [s EXCEPT !.rows  = Entered(@, i, Row(n, m)),
              !.index = Entered(@, i, n)]

\* A row that the constraints do not admit is not inserted; id 0 stands for -1.
Insert(s, n, m) ==
    LET i == Max(Ids(s) \cup {0}) + 1
    IN IF Admits(s, i, n, m) THEN [s |-> Put(s, i, n, m), id |-> i] ELSE [s |-> s, id |-> 0]

-----------------------------------------------------------------------------
(* Two rows for one artist *)

\* Deleting a row that an album names as its artist is refused by the foreign key; the entry of the
\* search index is deleted all the same.
Deleted(s, i) ==
    LET t == [s EXCEPT !.index = [j \in DOMAIN @ \ {i} |-> @[j]]]
    IN IF i \in Referred(s) THEN t
       ELSE [t EXCEPT !.rows = [j \in DOMAIN @ \ {i} |-> @[j]]]

\* The credits of the old row go to the row that has the name and the id; without one nothing is done.
Merge(s, old, n, m) ==
    LET canonical == FirstId(Named(s, n) \cap (IF m = None THEN {} ELSE WithMbid(s, m)))
        moved     == [t \in TrackIds |-> IF old \in s.credits[t]
                                       THEN (s.credits[t] \ {old}) \cup {canonical}
                                       ELSE s.credits[t]]
    IN IF canonical = 0 THEN [s |-> s, id |-> old]
       ELSE [s |-> Deleted([s EXCEPT !.credits = moved], old), id |-> canonical]

\* The row takes the name and the id, unless another row has one of them.
Renamed(s, i, n, m) == IF Admits(s, i, n, m) THEN Put(s, i, n, m) ELSE s

RenameOrMerge(s, i, n, m) ==
    IF Admits(s, i, n, m) THEN [s |-> Put(s, i, n, m), id |-> i] ELSE Merge(s, i, n, m)

-----------------------------------------------------------------------------
(* Get or create *)

Plain(s, n) ==
    IF Named(s, n) # {} THEN [s |-> s, id |-> FirstId(Named(s, n))] ELSE Insert(s, n, None)

\* By id, by name, by similar name, and only then a new row.
GetOrCreate(s, n, m) ==
    LET owner     == IF m = None THEN {} ELSE WithMbid(s, m)
        claimable == Claimable(s, n, m)
        similar   == Similar(s, n)
    IN IF owner # {} THEN [s |-> s, id |-> FirstId(owner)]
       ELSE IF claimable # {}
            THEN [s |-> Renamed(s, FirstId(claimable), n, m), id |-> FirstId(claimable)]
       ELSE IF similar # {} THEN RenameOrMerge(s, FirstId(similar), n, m)
       ELSE Insert(s, n, m)

\* The writer of a scan asks its cache first, which knows every row there was and every name asked.
Cached(s, c, n) ==
    IF Fold[n] \in DOMAIN c THEN [s |-> s, c |-> c, id |-> c[Fold[n]]]
    ELSE LET r == Plain(s, n)
         IN [s |-> r.s, id |-> r.id, c |-> IF r.id > 0 THEN Entered(c, Fold[n], r.id) ELSE c]

\* One credit of a tag: by its MusicBrainz id if the tags pair one with the name, else by the cache.
Tagged(s, c, credit) ==
    IF credit.mbid = None THEN Cached(s, c, credit.name)
    ELSE LET r == GetOrCreate(s, credit.name, credit.mbid) IN [s |-> r.s, c |-> c, id |-> r.id]

\* One credit of a release: the rows found for this batch are remembered by MusicBrainz id.
Released(s, c, credit) ==
    IF credit.mbid \in DOMAIN c THEN [s |-> s, c |-> c, id |-> c[credit.mbid]]
    ELSE LET r == GetOrCreate(s, credit.name, credit.mbid)
         IN [s |-> r.s, id |-> r.id, c |-> IF r.id > 0 THEN Entered(c, credit.mbid, r.id) ELSE c]

\* A list of credits, one after the other; those without a row are left out of the track's credits.
Credited(s, c, credits, released) ==
    FoldLeft(LAMBDA acc, credit :
                LET r == IF released THEN Released(acc.s, acc.c, credit) ELSE Tagged(acc.s, acc.c, credit)
                IN [s |-> r.s, c |-> r.c, ids |-> acc.ids \cup ({r.id} \ {0})],
             [s |-> s, c |-> c, ids |-> {}], credits)

-----------------------------------------------------------------------------
(* The steps *)

Credits(mbids) == [name : Names, mbid : mbids]
CreditLists(mbids) == SeqOf(Credits(mbids), MaxCredits) \ {<<>>}

Fits(s) == \A i \in Ids(s) : i <= MaxArtists

ScanBegins ==
    /\ cache = None
    /\ cache' = [f \in {Fold[store.rows[i].name] : i \in Ids(store)} |->
                    FirstId({i \in Ids(store) : Fold[store.rows[i].name] = f})]
    /\ UNCHANGED store

\* An album without an artist is not written.  The artist of a resolved album stays.
WriteAlbum(al, t, artist, credits) ==
    /\ cache # None
    /\ LET first == Tagged(store, cache, artist)
           all   == Credited(first.s, first.c, credits, FALSE)
       IN IF first.id = 0 THEN UNCHANGED vars
          ELSE /\ Fits(all.s)
               /\ \E resolved \in {FALSE, store.album[al] # 0} :
                     IF resolved
                     THEN /\ store' = first.s
                          /\ cache' = first.c
                     ELSE /\ store' = [all.s EXCEPT !.album[al] = first.id,
                                          !.credits[t] = IF all.ids = {} THEN @ ELSE all.ids]
                          /\ cache' = all.c

\* After the scan's writes: the rows nothing refers to are deleted, then what the index has of them.
Finish ==
    /\ cache # None
    /\ cache' = None
    /\ LET alive == Ids(store) \cap Referred(store)
       IN store' = [store EXCEPT !.rows = [i \in alive |-> @[i]],
                                 !.index = [i \in DOMAIN @ \cap alive |-> @[i]]]

\* The resolver writes an album: its artist, then the credits of a track, within one transaction.
Resolve(al, t, artist, credits) ==
    /\ cache = None /\ store.album[al] # 0
    /\ LET first == Released(store, <<>>, artist)
           all   == Credited(first.s, first.c, credits, TRUE)
       IN /\ Fits(all.s)
          /\ store' = [all.s EXCEPT !.album[al] = IF first.id > 0 THEN first.id ELSE @,
                                    !.credits[t] = all.ids]
    /\ UNCHANGED cache

DeleteAlbum(al, t) ==
    /\ cache # None /\ store.album[al] # 0
    /\ store' = [store EXCEPT !.album[al] = 0, !.credits[t] = {}]
    /\ UNCHANGED cache

Next ==
    \/ ScanBegins \/ Finish
    \/ \E al \in AlbumIds, t \in TrackIds :
          \/ DeleteAlbum(al, t)
          \/ \E artist \in Credits(Mbids \cup {None}), credits \in CreditLists(Mbids \cup {None}) :
                WriteAlbum(al, t, artist, credits)
          \/ \E artist \in Credits(Mbids), credits \in CreditLists(Mbids) :
                Resolve(al, t, artist, credits)

Spec == Init /\ [][Next]_vars

-----------------------------------------------------------------------------
(* Properties *)

\* Whatever an album or a track refers to is there, and so is what the cache will answer: rows are
\* renamed, merged and cleaned away while ids are held.
ReferencesLive ==
    /\ Referred(store) \ {0} \subseteq Ids(store)
    /\ cache # None => \A f \in DOMAIN cache : cache[f] \in Ids(store)

\* Each artist can be found, under the name it has.
ArtistsIndexed == store.index = [i \in Ids(store) |-> store.rows[i].name]

\* No two rows are one artist to MusicBrainz, or one name.
RowsDistinct ==
    \A i, j \in Ids(store) : i # j =>
        /\ Fold[store.rows[i].name] # Fold[store.rows[j].name]
        /\ store.rows[i].mbid = None \/ store.rows[i].mbid # store.rows[j].mbid

\* Whoever asks for a MusicBrainz artist gets that artist's row, or a row that nobody has claimed and
\* that is of a similar name: never somebody else's.  Asking again gives the same.
AnswersFit ==
    \A n \in Names, m \in Mbids :
        LET r     == GetOrCreate(store, n, m)
            again == GetOrCreate(r.s, n, m)
        IN r.id > 0 =>
              /\ \/ r.s.rows[r.id].mbid = m
                 \/ r.s.rows[r.id].mbid = None /\ Normal[r.s.rows[r.id].name] = Normal[n]
              /\ again = r

ArtistsSound == ReferencesLive /\ ArtistsIndexed /\ RowsDistinct /\ AnswersFit
=============================================================================
