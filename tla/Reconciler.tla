------------------------------ MODULE Reconciler ------------------------------
(***************************************************************************)
(* The single writer of albums and tracks (reconciler.c), with the states  *)
(* that its two sources ask for: the tags of an album's files, written by  *)
(* a scan (write_album_to_db in indexer.c), and a MusicBrainz release      *)
(* (resolve_album_prepare in mb_resolver.c).  A source says which fields   *)
(* it has an opinion on; a policy says which of them count; and the search *)
(* index follows what changed.                                             *)
(*                                                                         *)
(* Of an album's fields the title, the artist and the release are kept, of *)
(* a track's the title, the position, the genres and the credits: they     *)
(* cover every rule.  Artists are row ids of Artists; year, compilation    *)
(* and release group are treated like the title, duration and mtime like   *)
(* the position.                                                           *)
(***************************************************************************)
EXTENDS Integers, FiniteSetsExt, SequencesExt

CONSTANTS
    Paths,       \* albums are found by path
    Editions,    \* what the files of an album may say:
                 \*   [title, artist, release, files |-> [file -> [title, num, genres, credits]]]
    Releases,    \* what MusicBrainz may say:
                 \*   [id, title, artist, genres, tracks |-> [file -> [title, num, credits]]]
    None,
    MaxTracks    \* bound on row ids, which grow as rows come and go

NotAttempted == 0
HasReleaseId == 1
Resolved     == 2
NoMatch      == 3
Failed       == 4

VARIABLES
    db,       \* albums by path, tracks by id, and the two search indexes
    said      \* for the properties, what each album was last told: by its tags, and by a release
              \* with the files it was matched to that have been there since

vars == <<db, said>>

AlbumPaths == DOMAIN db.albums
NewId(table) == Max(DOMAIN table \cup {0}) + 1

Init ==
    /\ db = [albums |-> <<>>, tracks |-> <<>>, albumIndex |-> <<>>, trackIndex |-> <<>>]
    /\ said = [p \in Paths |-> [tags |-> None, release |-> None]]

-----------------------------------------------------------------------------
(* Desired states.  Fields that are not in the record are left as they are. *)

TrackOfTags(tags, resolved) ==
    [title |-> tags.title, num |-> tags.num]
    @@ (IF tags.genres # {} THEN [genres |-> tags.genres] ELSE <<>>)
    @@ (IF ~resolved /\ tags.credits # <<>> THEN [credits |-> tags.credits] ELSE <<>>)

TagsDesired(edition, resolved) ==
    [source |-> "tags",
     tracks |-> [f \in DOMAIN edition.files |-> TrackOfTags(edition.files[f], resolved)],
     fields |-> [title |-> edition.title, artist |-> edition.artist]
                @@ (IF edition.release # None
                    THEN [release |-> edition.release, status |-> HasReleaseId] ELSE <<>>)]

TrackOfRelease(release, recording) ==
    [title |-> recording.title, num |-> recording.num]
    @@ (IF release.genres # {} THEN [merge |-> release.genres] ELSE <<>>)
    @@ (IF recording.credits # <<>> THEN [credits |-> recording.credits] ELSE <<>>)

\* Only the tracks that were matched; an artist that could not be made is no opinion.
ReleaseDesired(release, matched) ==
    [source |-> "mb",
     tracks |-> [f \in matched |-> TrackOfRelease(release, release.tracks[f])],
     fields |-> [title |-> release.title, release |-> release.id, status |-> Resolved]
                @@ (IF release.artist # 0 THEN [artist |-> release.artist] ELSE <<>>)]

Has(desired, field)  == field \in DOMAIN desired
Without(desired, fs) == [field \in DOMAIN desired \ fs |-> desired[field]]
Or(desired, field, current) == IF Has(desired, field) THEN desired[field] ELSE current

-----------------------------------------------------------------------------
(* Reconciling one album *)

\* What belongs to MusicBrainz once an album is resolved: tags have no say in it.
FrozenOfAlbum == {"title", "artist", "release", "status"}
FrozenOfTrack == {"title", "credits"}

Frozen(album, desired) == desired.source = "tags" /\ album.status = Resolved

\* Fault: the tracks of a resolved album are written as the tags have them.
TrackOpinionAll(album, desired, f) == desired.tracks[f]

TrackOpinion(album, desired, f) ==
    IF Frozen(album, desired) THEN Without(desired.tracks[f], FrozenOfTrack)
    ELSE desired.tracks[f]

AlbumOpinion(album, desired) ==
    IF Frozen(album, desired) THEN Without(desired.fields, FrozenOfAlbum) ELSE desired.fields

\* A new row starts from the defaults; without a title it is Unknown, its genres are not merged.
NewTrack(path, f, want) ==
    [album |-> path, file |-> f,
     title |-> Or(want, "title", "Unknown"), num |-> want.num,
     genres |-> Or(want, "genres", Or(want, "merge", {})),
     credits |-> Or(want, "credits", <<>>),
     display |-> Or(want, "credits", <<>>)]

\* Genres are replaced, merged or kept.  Every match is sure enough for its position to count.
Updated(track, want) ==
    [track EXCEPT
        !.title   = Or(want, "title", @),
        !.num     = want.num,
        !.genres  = IF Has(want, "genres") THEN want.genres ELSE @ \cup Or(want, "merge", {}),
        !.credits = Or(want, "credits", @),
        !.display = Or(want, "credits", @)]

TracksOf(d, path) == {i \in DOMAIN d.tracks : d.tracks[i].album = path}
TrackAt(d, path, f) == {i \in TracksOf(d, path) : d.tracks[i].file = f}

\* One track of the desired state: a new row or the one there is.
WriteTrack(album, desired, path, f, d) ==
    LET want == TrackOpinion(album, desired, f)
        here == TrackAt(d, path, f)
        i    == IF here = {} THEN NewId(d.tracks) ELSE Min(here)
    IN [d EXCEPT !.tracks =
           (i :> IF here = {} THEN NewTrack(path, f, desired.tracks[f])
                 ELSE Updated(d.tracks[i], want)) @@ @]

\* Tags name every file there is: rows of other files go.  A release may have been matched in part.
Pruned(desired, path, d) ==
    IF desired.source # "tags" THEN d
    ELSE [d EXCEPT !.tracks = [i \in {j \in DOMAIN @ : @[j].album # path
                                                    \/ @[j].file \in DOMAIN desired.tracks} |-> @[i]]]

WriteAlbum(album, desired, path, d) ==
    LET want == AlbumOpinion(album, desired)
    IN [d EXCEPT !.albums[path] =
           [@ EXCEPT !.title = Or(want, "title", @), !.artist = Or(want, "artist", @),
                     !.release = Or(want, "release", @), !.status = Or(want, "status", @)]]

Listed(track, album) == [title |-> track.title, display |-> track.display, album |-> album.title]

\* The index of the album follows a change of its title or artist; that of its tracks follows the rows
\* that came, went, or changed their title or credits, and then takes in all of the album's tracks.
Indexed(path, before, d) ==
    LET album  == d.albums[path]
        ids    == TracksOf(d, path)
        shown(i, e) == [title |-> e.tracks[i].title, display |-> e.tracks[i].display]
        dirty  == \/ ids # TracksOf(before, path)
                  \/ \E i \in ids : shown(i, d) # shown(i, before)
        listed == [i \in ids |-> Listed(d.tracks[i], album)]
    IN [d EXCEPT
          !.albumIndex = IF album.title # before.albums[path].title
                            \/ album.artist # before.albums[path].artist
                         THEN (path :> [title |-> album.title, artist |-> album.artist]) @@ @
                         ELSE @,
          !.trackIndex = IF dirty THEN listed @@ @ ELSE @]

\* Tracks first, then what is missing, then the album, then the indexes.
Reconciled(d, path, desired) ==
    LET album  == d.albums[path]
        tracks == FoldLeft(LAMBDA e, f : WriteTrack(album, desired, path, f, e), d,
                           SetToSeq(DOMAIN desired.tracks))
    IN Indexed(path, d, WriteAlbum(album, desired, path, Pruned(desired, path, tracks)))

-----------------------------------------------------------------------------
(* The steps *)

CreatedOrFound(d, path, title, artist) ==
    IF path \in DOMAIN d.albums THEN d
    ELSE [d EXCEPT
            !.albums = (path :> [title |-> title, artist |-> artist, release |-> None,
                                 status |-> NotAttempted]) @@ @,
            !.albumIndex = (path :> [title |-> title, artist |-> artist]) @@ @]

IsResolved(path) == path \in AlbumPaths /\ db.albums[path].status = Resolved

\* A scan has read the files of an album.
Scan(path, edition) ==
    LET found == CreatedOrFound(db, path, edition.title, edition.artist)
    IN /\ db' = Reconciled(found, path, TagsDesired(edition, IsResolved(path)))
       /\ NewId(db'.tracks) <= MaxTracks + 1
       /\ said' = [said EXCEPT ![path] = [tags |-> edition, release |->
              IF @.release = None THEN None
              ELSE [@.release EXCEPT !.matched = @ \cap DOMAIN edition.files]]]

\* An album that is not resolved has been: some of the release's tracks were matched to its tracks.
Resolve(path, release, matched) ==
    /\ path \in AlbumPaths /\ ~IsResolved(path)
    /\ matched \subseteq {db.tracks[i].file : i \in TracksOf(db, path)} \cap DOMAIN release.tracks
    /\ db' = Reconciled(db, path, ReleaseDesired(release, matched))
    /\ said' = [said EXCEPT ![path].release = [of |-> release, matched |-> matched]]

\* Nothing was found, or the fetch failed: only the status is written.
SetStatus(path, status) ==
    /\ path \in AlbumPaths /\ ~IsResolved(path)
    /\ db' = [db EXCEPT !.albums[path].status = status]
    /\ UNCHANGED said

\* Its directory is gone.  The indexes lose every entry that has no row.
DeleteAlbum(path) ==
    /\ path \in AlbumPaths
    /\ LET tracks == [i \in DOMAIN db.tracks \ TracksOf(db, path) |-> db.tracks[i]]
           albums == [p \in AlbumPaths \ {path} |-> db.albums[p]]
       IN db' = [albums |-> albums, tracks |-> tracks,
                 albumIndex |-> [p \in DOMAIN db.albumIndex \cap DOMAIN albums |-> db.albumIndex[p]],
                 trackIndex |-> [i \in DOMAIN db.trackIndex \cap DOMAIN tracks |-> db.trackIndex[i]]]
    /\ said' = [said EXCEPT ![path] = [tags |-> None, release |-> None]]

Next ==
    \E path \in Paths :
        \/ \E edition \in Editions : Scan(path, edition)
        \/ \E release \in Releases : \E matched \in SUBSET DOMAIN release.tracks :
              Resolve(path, release, matched)
        \/ \E status \in {NoMatch, Failed} : SetStatus(path, status)
        \/ DeleteAlbum(path)

Spec == Init /\ [][Next]_vars

-----------------------------------------------------------------------------
(* Properties *)

\* Search finds what is shown: albums under their title and artist, tracks under their title and
\* credits, whichever of the many writes came last.  (An entry may outlive its track.)
IndexCurrent ==
    /\ db.albumIndex = [p \in AlbumPaths |-> [title |-> db.albums[p].title,
                                              artist |-> db.albums[p].artist]]
    /\ \A i \in DOMAIN db.tracks :
          /\ i \in DOMAIN db.trackIndex
          /\ db.trackIndex[i].title = db.tracks[i].title
          /\ db.trackIndex[i].display = db.tracks[i].display

At(path, f) == db.tracks[CHOOSE i \in TrackAt(db, path, f) : TRUE]

\* After a scan the rows of an album are its files, once each, resolved or not.
RowsAreFiles ==
    \A p \in AlbumPaths :
        /\ {db.tracks[i].file : i \in TracksOf(db, p)} = DOMAIN said[p].tags.files
        /\ \A i, j \in TracksOf(db, p) : db.tracks[i].file = db.tracks[j].file => i = j

\* Until an album is resolved it says what its files say.
TagsHaveTheWord ==
    \A p \in AlbumPaths : said[p].release = None =>
        LET tags == said[p].tags IN
        /\ db.albums[p].title = tags.title
        /\ db.albums[p].artist = tags.artist
        /\ tags.release # None => db.albums[p].release = tags.release
        /\ \A f \in DOMAIN tags.files :
              /\ At(p, f).title = tags.files[f].title
              /\ tags.files[f].credits # <<>> => At(p, f).credits = tags.files[f].credits

\* From then on it says what the release says, however often and however changed it is scanned again,
\* for the tracks that were matched and have been there since.
ReleaseHasTheWord ==
    \A p \in AlbumPaths : said[p].release # None =>
        LET of == said[p].release.of IN
        /\ db.albums[p].status = Resolved
        /\ db.albums[p].release = of.id
        /\ db.albums[p].title = of.title
        /\ of.artist # 0 => db.albums[p].artist = of.artist
        /\ \A f \in said[p].release.matched :
              /\ At(p, f).title = of.tracks[f].title
              /\ of.tracks[f].credits # <<>> => At(p, f).credits = of.tracks[f].credits

\* Scanning files that are as they were changes nothing a second time: rows are told apart from new ones.
ScansSettle ==
    \A p \in AlbumPaths :
        LET Scanned(d) == Reconciled(d, p, TagsDesired(said[p].tags, IsResolved(p)))
        IN Scanned(Scanned(db)) = Scanned(db)

RowsSound == IndexCurrent /\ RowsAreFiles /\ TagsHaveTheWord /\ ReleaseHasTheWord /\ ScansSettle
=============================================================================
