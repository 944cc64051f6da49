------------------------------- MODULE MCArtwork -------------------------------
(***************************************************************************)
(* Instances, for TLC, of what gets pictures and biographies and shows     *)
(* them: the atlas of album pictures, the pictures of artists, their       *)
(* biographies, and the manager that loads pictures for the windows.  They *)
(* share files but no state in memory: a behaviour follows one of them,    *)
(* the `part' it begins with.                                              *)
(***************************************************************************)
EXTENDS ArtworkManager, TLC

CONSTANTS
    blue, red, ella, p1, p2, bad,
    Folders, Photos, Unreadable, MaxScans, MaxAtlasEvents,          \* of AlbumAtlas
    Portrayed, ArtistsOf, MaxRetries, ErrorLimit, MaxPhases, MaxArtEvents,      \* of ArtistArt
    Described, BioWorkers, Attempts, BatchSize, MaxRuns, MaxBioEvents           \* of ArtistBio

VARIABLE part
VARIABLES folder, covers, grouped, stored, touched, file, temp, built, pool, step, again, changed,
          stop, shown, missed, failed, scans, events                    \* of AlbumAtlas
VARIABLES has, dir, stage, left, todo, halt, retries, errors, aborted, atlas, temp_atlas, lock,
          merged, dirty, atlas_changed, phases, mishaps                 \* of ArtistArt
VARIABLES article, rows, txn, jobs, busy, found, bio_main, asked_for, received, streak, batch, quit,
          refused, runs, slips                                          \* of ArtistBio

\* Folders with nothing, with a cover, and with a cover that cannot be read before a good picture.
MCFolders == {<<>>, "cover" :> p1, ("folder" :> bad) @@ ("embedded" :> p2)}

Pictures == INSTANCE AlbumAtlas
    WITH Pictures <- Photos, MaxEvents <- MaxAtlasEvents, queue <- pool, pc <- step, cancel <- stop

First == CHOOSE l \in Libraries : TRUE
MCArtistsOf == [l \in Libraries |-> IF l = First THEN Portrayed ELSE Artists]

Art == INSTANCE ArtistArt
    WITH Artists <- Portrayed, MaxEvents <- MaxArtEvents, pc <- stage, work <- todo, cancel <- halt,
         temp <- temp_atlas, built <- merged, changed <- atlas_changed, events <- mishaps

Bios == INSTANCE ArtistBio
    WITH Artists <- Described, Workers <- BioWorkers, MaxEvents <- MaxBioEvents, results <- found,
         work <- asked_for, main <- bio_main, errors <- streak, cancel <- quit, failed <- refused,
         events <- slips

ASSUME PicturesAssumption ==
    /\ None \notin Photos /\ None \notin [art : [Albums -> Seq(Photos)], no_art : SUBSET Albums]
    /\ MaxScans \in Nat /\ MaxAtlasEvents \in Nat

ASSUME ArtAssumption ==
    /\ None \notin Libraries /\ \A l \in Libraries : ArtistsOf[l] \subseteq Portrayed
    /\ MaxRetries \in Nat /\ ErrorLimit \in Nat \ {0} /\ MaxPhases \in Nat /\ MaxArtEvents \in Nat

ASSUME BiosAssumption ==
    /\ IsFiniteSet(Described) /\ IsFiniteSet(BioWorkers)
    /\ None \notin Bios!Found
    /\ None \notin [artist : Described, request : 1 .. 3, attempt : 1 .. Attempts]
    /\ Attempts \in Nat \ {0} /\ BatchSize \in Nat \ {0} /\ MaxRuns \in Nat /\ MaxBioEvents \in Nat

\* One album and the artist are in one library, the other album in the other.
MCLibraryOf == [i \in {blue, red, ella} |-> IF i = red THEN First ELSE CHOOSE l \in Libraries : l # First]

pictures == <<folder, covers, grouped, stored, touched, file, temp, built, pool, step, again,
              changed, stop, shown, missed, failed, scans, events>>
art      == <<has, dir, stage, left, todo, halt, retries, errors, aborted, atlas, temp_atlas, lock,
              merged, dirty, atlas_changed, phases, mishaps>>
bios     == <<article, rows, txn, jobs, busy, found, bio_main, asked_for, received, streak, batch,
              quit, refused, runs, slips>>
\* Only the part that is followed begins in each of its initial states.
PartsInit ==
    /\ part \in {"pictures", "artists", "bios", "manager"}
    /\ Pictures!Init
    /\ part # "pictures" => grouped = {} /\ stored = {} /\ \A k \in Albums : folder[k] = <<>>
    /\ Art!Init /\ (\A x \in Portrayed \ Artists : has[x] = {"thumb"})
    /\ part # "artists" => \A x \in Artists : has[x] = {}
    /\ Bios!Init /\ (part # "bios" => article = {})
    /\ Init /\ version[MCLibraryOf[blue]] = 0 /\ version[First] = None

PartsNext ==
    /\ UNCHANGED part
    /\ \/ part = "pictures" /\ Pictures!Next /\ UNCHANGED <<art, bios, vars>>
       \/ part = "artists" /\ Art!Next /\ UNCHANGED <<pictures, bios, vars>>
       \/ part = "bios" /\ Bios!Next /\ UNCHANGED <<pictures, art, vars>>
       \/ part = "manager" /\ Next /\ UNCHANGED <<pictures, art, bios>>

PartsSpec ==
    /\ PartsInit /\ [][PartsNext]_<<part, pictures, art, bios, vars>>
    /\ Art!Fairness /\ Bios!Fairness /\ Fairness

-----------------------------------------------------------------------------
\* What is kept of pictures and biographies: the atlas on screen is the one that was written, covers
\* that were downloaded are used, the shared atlas of artists is written by one library at a time, and
\* no artist is written off wrongly.
EnrichmentSound ==
    /\ Pictures!TypeOK /\ Art!TypeOK /\ Bios!TypeOK /\ TypeOK
    /\ Pictures!AtlasSound /\ Art!ArtistsSound /\ Bios!BiosSound

\* No album or artist that has a picture in an atlas loses it, whatever fails, is cancelled or killed,
\* and no biography is taken away by a later scan.
NothingIsLost == Pictures!PicturesKept /\ Art!ArtistsKept /\ Bios!RowsStay

\* Every phase that asks services ends, however they answer, and every widget that asks for a picture
\* is answered (only the part that is followed is ever at work).
Toiling == Art!Working \/ Bios!Working \/ Working
PhasesEnd == Toiling ~> ~Toiling
=============================================================================
