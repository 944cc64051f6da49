------------------------------ MODULE MCLibrary ------------------------------
(***************************************************************************)
(* The threads that fill the slots of the library cache (LibrarySlots),    *)
(* the queries on filled slots (LibraryQueries), the database they are     *)
(* filled from: its artists (Artists) and its albums and tracks            *)
(* (Reconciler), and what the window keeps of them: the settings           *)
(* (AppSettings), the libraries that are registered (LibraryRegistry) and  *)
(* the card of one (LibraryCard).  A behaviour follows one of them, the    *)
(* `part' it begins with.                                                  *)
(***************************************************************************)
EXTENDS LibrarySlots, TLC

CONSTANTS home, away,
    Spellings, Fold, Normal, Mbids, TrackIds, AlbumIds, MaxArtists, MaxCredits, \* of Artists
    MaxRounds, MaxLoads                                                      \* of LibraryCard

\* Spellings that are alike but for case are alike; a track has finitely many credits.
ASSUME NamesAssumption ==
    /\ \A n, m \in Spellings : Fold[n] = Fold[m] => Normal[n] = Normal[m]
    /\ None \notin Mbids /\ MaxCredits \in Nat

OnlyHome == <<home>>
Both == <<home, away>>
Symmetry == Permutations(Threads)

VARIABLES part,
    filled, artist_index, album_index, library_mask,    \* of LibraryQueries
    artist_tables, artist_cache,                         \* of Artists
    tables, said,                                        \* of Reconciler
    settings, ini, save_timer, started, told, changes,   \* of AppSettings
    registered, pictures, cards, popover, mounted, prev_available, since,   \* of LibraryRegistry
    card, stage, report, resolving, loads,               \* of LibraryCard
    newest_shown, late, scans, rebuilds, rebuilt, toasts, succeeded

queries == <<filled, artist_index, album_index, library_mask>>
people  == <<artist_tables, artist_cache>>
records == <<tables, said>>
kept    == <<settings, ini, save_timer, started, told, changes>>
window  == <<registered, pictures, cards, popover, mounted, prev_available, since>>
entry   == <<card, stage, report, resolving, loads, newest_shown, late, scans, rebuilds, rebuilt,
             toasts, succeeded>>

ArtistRow(name, mbid) == [name |-> name, mbid |-> mbid]
AlbumRow(artist, title, group, release, decade) ==
    [artist |-> artist, title |-> title, group |-> group, release |-> release, decade |-> decade]
TrackRow(album, disc, num, title, genre) ==
    [album |-> album, disc |-> disc, num |-> num, title |-> title, genre |-> genre]
CreditRow(role, release, disc, num) ==
    [name |-> 1, role |-> role, release |-> release, place |-> <<disc, num>>]

\* An artist with and without a MusicBrainz id, on a disc of two whose tracks lie in the database in
\* the other order, and a guest on somebody else's album or not.
HomeContents(mbid, group, guest) ==
    [artists |-> <<ArtistRow(1, mbid), ArtistRow(2, "m2")>>,
     albums  |-> <<AlbumRow(1, 1, group, "r1", 1990), AlbumRow(2, 2, "g2", "r2", 1980)>>,
     tracks  |-> <<TrackRow(1, 2, 1, 3, IF guest THEN "folk" ELSE "jazz"),
                   TrackRow(1, 1, 1, 4, "folk"), TrackRow(2, 1, 1, 3, "jazz")>>,
     credits |-> <<<<1>>, <<1, 2>>, IF guest THEN <<2, 1>> ELSE <<2>>>>,
     meta    |-> {CreditRow("drums", "r1", 1, 1), CreditRow("bass", "r1", 2, 1),
                  CreditRow(IF guest THEN "bass" ELSE "piano", "r2", 1, 1)}]

\* The same artists under other row ids, an album that both libraries have and one of this library.
AwayContents(group) ==
    [artists |-> (2 :> ArtistRow(1, "m1")) @@ (3 :> ArtistRow(3, "m2")),
     albums  |-> <<AlbumRow(3, 2, "g2", "r2", 1990), AlbumRow(2, 1, group, "r3", 1990)>>,
     tracks  |-> (1 :> TrackRow(1, 1, 1, 3, "jazz")) @@ (4 :> TrackRow(2, 1, 1, 4, "folk")),
     credits |-> (1 :> <<3, 2>>) @@ (4 :> <<2>>),
     meta    |-> {CreditRow("bass", "r2", 1, 1)}]

MCContents(l) ==
    IF l = 0 THEN {HomeContents(m, g, guest) : m \in {None, "m1"}, g \in {None, "g1"}, guest \in BOOLEAN}
    ELSE {AwayContents(g) : g \in {"g1", "g2"}}

Queries == INSTANCE LibraryQueries
    WITH slots <- filled, Libraries <- {0, 1}, SpareBits <- {31}, Contents <- MCContents

\* One name in two spellings that differ in case, and one without its space.
MCNames == {"2 Mex", "2Mex", "2MEX"}
MCFold == [spelling \in MCNames |-> IF spelling = "2 Mex" THEN "2 mex" ELSE "2mex"]
MCNormal == [spelling \in MCNames |-> "2mex"]

People == INSTANCE Artists WITH Names <- Spellings, store <- artist_tables, cache <- artist_cache

FileTags(title, num, genres, credits) ==
    [title |-> title, num |-> num, genres |-> genres, credits |-> credits]
Recording(title, num, credits) == [title |-> title, num |-> num, credits |-> credits]

\* An album, the same with a file less, and with the other file less and everything else changed.
MCEditions == {
    [title |-> "A", artist |-> 1, release |-> None,
     files |-> [x |-> FileTags("a", 1, {"jazz"}, <<1>>), y |-> FileTags("b", 2, {}, <<1, 2>>)]],
    [title |-> "A", artist |-> 2, release |-> None,
     files |-> [x |-> FileTags("a", 2, {}, <<2>>)]],
    [title |-> "B", artist |-> 1, release |-> "r",
     files |-> [y |-> FileTags("c", 1, {"rock"}, <<>>)]] }

\* A release that knows all tracks, and one that knows one, without artists or genres.
MCReleases == {
    [id |-> "r", title |-> "R", artist |-> 3, genres |-> {"rock"},
     tracks |-> [x |-> Recording("ra", 2, <<3>>), y |-> Recording("rb", 1, <<3, 1>>)]],
    [id |-> "s", title |-> "S", artist |-> 0, genres |-> {},
     tracks |-> [x |-> Recording("sa", 1, <<>>)]] }

Records == INSTANCE Reconciler
    WITH db <- tables, Paths <- {"p", "q"}, Editions <- MCEditions, Releases <- MCReleases, MaxTracks <- 3

\* Defaults and a file as it may be found: with values of former versions or none, and two
\* libraries that lie in it in another order than their indexes.
MCFiles == {
    None,
    [channels  |-> 1 :> [device |-> "d", enabled |-> None, exclusive |-> None, format |-> 7,
                         quantum |-> 100, gpio |-> None],
     general   |-> [spectrum |-> FALSE, warning |-> 0, thumb |-> 8, scans |-> 9, resolve |-> TRUE,
                    fingerprint |-> FALSE, conninfo |-> None, solr |-> "t", key |-> None],
     libraries |-> <<[path |-> "a", name |-> None, data |-> None, flag |-> -1, locked |-> FALSE,
                      index |-> 3],
                     [path |-> "b", name |-> "N", data |-> "c", flag |-> 1, locked |-> TRUE,
                      index |-> 0]>>] }

Settings == INSTANCE AppSettings
    WITH file <- ini, running <- started,
         Files <- MCFiles, Channels <- {1}, Devices <- {"d"}, Addresses <- {},
         OUTPUT_FORMAT_COUNT <- 2, Quanta <- {100, 256}, Sizes <- {48}, Texts <- {"t"},
         DefaultConninfo <- "local", MaxChanges <- 3

\* Three folders, of which two are libraries at the start; the drive of one of these and of the third
\* comes and goes.
MCFolders == {"a", "b", "c"}

MCRegistered(defaults) ==
    [defaults EXCEPT !.libraries =
        <<[path |-> "a", name |-> None, data |-> None, flag |-> -1, locked |-> FALSE, index |-> 1],
          [path |-> "b", name |-> None, data |-> None, flag |-> -1, locked |-> FALSE, index |-> 0]>>]

Registry == INSTANCE LibraryRegistry
    WITH file <- ini, running <- started, slots <- registered,
         Files <- {MCRegistered(Settings!Defaults)}, Channels <- {1}, Devices <- {}, Addresses <- {},
         OUTPUT_FORMAT_COUNT <- 2, Quanta <- {256}, Sizes <- {48}, Texts <- {},
         DefaultConninfo <- "local", MaxChanges <- 2,
         Folders <- MCFolders, Drives <- {"a", "c"},
         Base <- [folder \in MCFolders |-> folder], IndexFolders <- {"n"},
         Names <- {"N"}, Flags <- {1}

Card == INSTANCE LibraryCard WITH p <- report, resolve <- resolving, ok <- succeeded

AllInit ==
    /\ part \in {"threads", "queries", "people", "records", "settings", "registry", "card"}
    /\ Init /\ Queries!Init /\ People!Init /\ Records!Init /\ Card!Init
    /\ \/ part = "settings" /\ Settings!SettingsInit
          /\ mounted = {} /\ registered = <<>> /\ pictures = <<>> /\ cards = <<>> /\ popover = None
          /\ prev_available = <<>> /\ since = {}
       \/ part # "settings" /\ Registry!Init
    \* only the part that is followed begins in each of its initial states
    /\ part # "threads" => \A l \in Libs : db[l] = 0
    /\ part # "card" => resolving

AllNext ==
    /\ UNCHANGED part
    /\ \/ part = "threads" /\ Next /\ UNCHANGED <<queries, people, records, kept, window, entry>>
       \/ part = "queries" /\ Queries!Next /\ UNCHANGED <<vars, people, records, kept, window, entry>>
       \/ part = "people" /\ People!Next /\ UNCHANGED <<vars, queries, records, kept, window, entry>>
       \/ part = "records" /\ Records!Next /\ UNCHANGED <<vars, queries, people, kept, window, entry>>
       \/ part = "settings" /\ Settings!SettingsNext
          /\ UNCHANGED <<vars, queries, people, records, window, entry>>
       \/ part = "registry" /\ Registry!Next /\ UNCHANGED <<vars, queries, people, records, entry>>
       \/ part = "card" /\ Card!Next /\ UNCHANGED <<vars, queries, people, records, kept, window>>

AllSpec == AllInit /\ [][AllNext]_<<part, vars, queries, people, records, kept, window, entry>>

\* The threads alone, and with the fairness of their scheduling.
others == <<part, queries, people, records, kept, window, entry>>
ThreadsSpec ==
    /\ part = "threads" /\ AllInit
    /\ [][Next /\ UNCHANGED others]_<<vars, others>>
FairThreads == ThreadsSpec /\ Fairness

\* What a scan and the resolver leave in the database: artists that are distinct and findable and
\* ids that stay good, albums and tracks that say what their files say or, once resolved, their
\* release; and what the views are told of it agrees with itself over all libraries that are shown
\* (the conjuncts are stated in Artists, Reconciler and LibraryQueries).
DatabaseSound ==
    /\ part = "people" => People!ArtistsSound
    /\ part = "records" => Records!RowsSound
    /\ part = "queries" => Queries!QueriesSound

\* What the window keeps of the libraries follows them: the settings over restarts, the slots and
\* cards through additions, removals and drives that come and go, and the rows, timers and
\* statistics of a card through scans (the conjuncts are stated in AppSettings, LibraryRegistry and
\* LibraryCard).
LibrariesFollow ==
    /\ part = "settings" => Settings!SettingsSound
    /\ part = "registry" => Registry!RegistrySound
    /\ part = "card" => Card!CardSound
=============================================================================
