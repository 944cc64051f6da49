--------------------------- MODULE LibraryQueries ---------------------------
(***************************************************************************)
(* What the library views ask of the cache: library/library_cache.c        *)
(* (relationships, MusicBrainz indices and queries), cache_search.c,       *)
(* library_search.c, the filtered queries of database/db_read.c and the    *)
(* library bar of ui/window.c.                                             *)
(*                                                                         *)
(* A library is the contents of one database: artists, albums and tracks   *)
(* by row id, the artists credited on each track in their order, and the   *)
(* recording credits of its metadata database.  The same artist or album   *)
(* in two libraries is known by the MusicBrainz id they share.  Names,     *)
(* paths and dates are members of small sets.  LibrarySlots models the     *)
(* threads that fill the slots; here a library warms in one step.          *)
(***************************************************************************)
EXTENDS Integers, FiniteSets, Sequences, SequencesExt, FiniteSetsExt

CONSTANTS Libraries,      \* bitmap indices of the libraries
          Contents(_),    \* Contents(l): what a scan may leave in the database of library l
          SpareBits,      \* the bits of a mask that no library uses
          None            \* no MusicBrainz id, no entry, nothing found

VARIABLES slots,          \* cache->slots: the libraries in the order they were added
          artist_index,   \* cache->mbid_artist_index: MusicBrainz id -> global ids
          album_index,    \* cache->mbrid_album_index: release group -> global ids
          library_mask    \* window: the libraries that are shown

vars == <<slots, artist_index, album_index, library_mask>>

LIBRARY_MASK_ALL == Libraries \cup SpareBits

\* LIBRARY_MAKE_GLOBAL_ID, LIBRARY_GLOBAL_ID_LIB, LIBRARY_GLOBAL_ID_LOCAL
GlobalId(l, id) == <<l, id>>
Lib(gid)   == gid[1]
Local(gid) == gid[2]

\* The row ids of a table in ascending order.
Rows(table) == SetToSortSeq(DOMAIN table, <)

\* What is left of seq when an element is dropped whose key an earlier one has; key[i] is that of
\* the i-th.  Elements without a key all stay.
Deduplicated(seq, key) ==
    LET first == {i \in DOMAIN seq : key[i] = None \/ \A j \in 1 .. (i - 1) : key[j] # key[i]}
        order == SetToSortSeq(first, <)
    IN  [n \in DOMAIN order |-> seq[order[n]]]

AtMost(seq, n) == SubSeq(seq, 1, IF Len(seq) < n THEN Len(seq) ELSE n)

-----------------------------------------------------------------------------
(* A slot and what warming derives from the rows *)

\* rebuild_slot_relationships: the albums of an artist, in row order.
ArtistAlbums(c, aid) == SelectSeq(Rows(c.albums), LAMBDA al : c.albums[al].artist = aid)

\* The artist of the album a track is on, None when the album has no row.
AlbumArtist(c, tid) ==
    LET al == c.tracks[tid].album IN IF al \in DOMAIN c.albums THEN c.albums[al].artist ELSE None

\* Every credit of an artist on a track of somebody else's album lists the track.
AppearanceTracks(c, aid) ==
    LET tids == Rows(c.tracks)
        Credited(n) == IF AlbumArtist(c, tids[n]) \in {None, aid} THEN <<>>
                       ELSE [i \in 1 .. Len(SelectSeq(c.credits[tids[n]], LAMBDA x : x = aid))
                                |-> tids[n]]
    IN  FlattenSeq([i \in DOMAIN tids |-> Credited(i)])

\* The albums of others that the artist is credited on, each once.
Appearances(c, aid) ==
    LET found == AppearanceTracks(c, aid)
        on == [i \in DOMAIN found |-> c.tracks[found[i]].album]
    IN  Deduplicated(on, on)

\* on_warm_track: the tracks of an album as the rows arrive.
AlbumTracks(c, al) == SelectSeq(Rows(c.tracks), LAMBDA tid : c.tracks[tid].album = al)

\* cmp_track_disc_num
Before(c, s, t) ==
    \/ c.tracks[s].disc < c.tracks[t].disc
    \/ c.tracks[s].disc = c.tracks[t].disc /\ c.tracks[s].num < c.tracks[t].num

\* album_tracks_ptrs: the same tracks by disc and number.
AlbumTracksSorted(c, al) ==
    SetToSortSeq(ToSet(AlbumTracks(c, al)),
                 LAMBDA s, t : Before(c, s, t) \/ (~Before(c, t, s) /\ s < t))

\* How often an artist is credited.
CreditCount(c, aid) ==
    MapThenSumSet(LAMBDA tid : Len(SelectSeq(c.credits[tid], LAMBDA x : x = aid)), DOMAIN c.tracks)

\* The relationship arrays of a slot, and the counts kept with artists and albums.
Relationships(c) ==
    [artist_albums     |-> [aid \in DOMAIN c.artists |-> ArtistAlbums(c, aid)],
     appearances       |-> [aid \in DOMAIN c.artists |-> Appearances(c, aid)],
     appearance_tracks |-> [aid \in DOMAIN c.artists |-> AppearanceTracks(c, aid)],
     album_tracks      |-> [al \in DOMAIN c.albums |-> AlbumTracks(c, al)],
     album_tracks_ptrs |-> [al \in DOMAIN c.albums |-> AlbumTracksSorted(c, al)],
     album_count       |-> [aid \in DOMAIN c.artists |-> Len(ArtistAlbums(c, aid))],
     track_count       |-> [aid \in DOMAIN c.artists |-> CreditCount(c, aid)]]

Warmed(l, c) == [lib |-> l, available |-> TRUE, rows |-> c, rel |-> Relationships(c)]

\* decode_slot and bitmap_to_slot: the slot of a library, None when it has none.
Slot(l) == IF \E i \in DOMAIN slots : slots[i].lib = l
           THEN slots[CHOOSE i \in DOMAIN slots : slots[i].lib = l] ELSE None

Known(table, gid) == Slot(Lib(gid)) # None /\ Local(gid) \in DOMAIN Slot(Lib(gid)).rows[table]

\* slot_get_artist, slot_get_album, slot_get_track
Artist(gid) == Slot(Lib(gid)).rows.artists[Local(gid)]
Album(gid)  == Slot(Lib(gid)).rows.albums[Local(gid)]
Track(gid)  == Slot(Lib(gid)).rows.tracks[Local(gid)]

AlbumOf(tid) == GlobalId(Lib(tid), Track(tid).album)

\* The ids of a table over all slots, in slot and row order.
AllIds(ss, table) ==
    LET Ids(i) == LET rows == Rows(ss[i].rows[table])
                  IN  [n \in DOMAIN rows |-> GlobalId(ss[i].lib, rows[n])]
    IN  FlattenSeq([i \in DOMAIN ss |-> Ids(i)])

\* build_mbid_indices: an entry for every MusicBrainz id, with all global ids that have it.
IndexOf(ss, table, field) ==
    LET ids == AllIds(ss, table)
        Rec(gid) == (CHOOSE s \in ToSet(ss) : s.lib = Lib(gid)).rows[table][Local(gid)]
        Mbid(gid) == Rec(gid)[field]
    IN  [m \in {Mbid(gid) : gid \in ToSet(ids)} \ {None} |->
            SelectSeq(ids, LAMBDA gid : Mbid(gid) = m)]

\* mbid_artist_lookup, mbrid_album_lookup: None when there is no entry.
Entry(index, mbid) == IF mbid \in DOMAIN index THEN index[mbid] ELSE None

-----------------------------------------------------------------------------
(* Versions of one artist, album or track *)

\* library_mask_is_multi_library: the mask selects two slots or more, available or not.
IsMultiLibrary(mask) == Cardinality({i \in DOMAIN slots : slots[i].lib \in mask}) > 1

LibsOf(gids) == LET libs == [i \in DOMAIN gids |-> Lib(gids[i])] IN Deduplicated(libs, libs)

\* library_cache_get_artist_libraries, library_cache_get_album_libraries
ArtistLibraries(gid) ==
    LET entry == Entry(artist_index, Artist(gid).mbid)
    IN  IF entry # None THEN LibsOf(entry) ELSE <<Lib(gid)>>

AlbumLibraries(gid) ==
    LET entry == Entry(album_index, Album(gid).group)
    IN  IF entry # None THEN LibsOf(entry) ELSE <<Lib(gid)>>

\* A track of the album has this place on it.
HasPlace(al, place) ==
    /\ Known("albums", al)
    /\ \E tid \in ToSet(Slot(Lib(al)).rel.album_tracks_ptrs[Local(al)]) :
          LET t == Track(GlobalId(Lib(al), tid)) IN <<t.disc, t.num>> = place

\* library_cache_get_track_libraries: the libraries where some version of the album has a track in
\* the same place.
TrackLibraries(tid) ==
    LET place == <<Track(tid).disc, Track(tid).num>>
        entry == IF Known("albums", AlbumOf(tid)) THEN Entry(album_index, Album(AlbumOf(tid)).group)
                 ELSE None
        found == IF entry = None THEN <<>> ELSE LibsOf(SelectSeq(entry, LAMBDA al : HasPlace(al, place)))
    IN  IF found # <<>> THEN found ELSE <<Lib(tid)>>

\* collect_entity_versions with a limit: by library, those the mask selects.  A limit of one asks
\* for the entity itself.
Versions(table, index, mbid, gid, mask, limit) ==
    LET entry  == IF limit = 1 THEN None ELSE Entry(index, mbid)
        chosen == SelectSeq(entry, LAMBDA e : Lib(e) \in mask /\ Known(table, e))
        order  == SetToSortSeq(DOMAIN chosen,
                      LAMBDA i, j : Lib(chosen[i]) < Lib(chosen[j])
                                    \/ (Lib(chosen[i]) = Lib(chosen[j]) /\ i < j))
        sorted == [n \in DOMAIN order |-> chosen[order[n]]]
    IN  IF entry = None THEN IF Lib(gid) \in mask THEN <<gid>> ELSE <<>>
        ELSE IF limit > 0 THEN AtMost(sorted, limit) ELSE sorted

\* library_cache_get_artists, library_cache_get_albums and their singular forms.
Artists(gid, mask, limit) ==
    IF Known("artists", gid)
    THEN Versions("artists", artist_index, Artist(gid).mbid, gid, mask, limit) ELSE None
Albums(gid, mask, limit) ==
    IF Known("albums", gid)
    THEN Versions("albums", album_index, Album(gid).group, gid, mask, limit) ELSE None

OneOf(versions) == IF versions \in {None, <<>>} THEN None ELSE versions[1]

-----------------------------------------------------------------------------
(* What an artist made and appears on *)

ReleaseGroup(al) == IF Known("albums", al) THEN Album(al).group ELSE None

\* The key of a track that is the same in every library: its album's release group and its place.
TrackKey(tid) ==
    LET group == ReleaseGroup(AlbumOf(tid))
    IN  IF group = None THEN None ELSE <<group, Track(tid).disc, Track(tid).num>>

\* What tells the elements of a list apart over the libraries.
ListKey(list, gid) == IF list = "appearance_tracks" THEN TrackKey(gid) ELSE ReleaseGroup(gid)

\* gather_artist_slots: what `list' has for the artist in each library that knows it, those of the
\* mask, each key once when several libraries are shown.
Gathered(gid, mask, list) ==
    LET entry == IF Known("artists", gid) THEN Entry(artist_index, Artist(gid).mbid) ELSE None
        Of(e) == IF Known("artists", e) /\ Lib(e) \in mask
                 THEN LET found == Slot(Lib(e)).rel[list][Local(e)]
                      IN  [n \in DOMAIN found |-> GlobalId(Lib(e), found[n])]
                 ELSE <<>>
        all   == FlattenSeq([i \in DOMAIN entry |-> Of(entry[i])])
    IN  IF entry = None THEN Of(gid)
        ELSE IF IsMultiLibrary(mask) THEN Deduplicated(all, [i \in DOMAIN all |-> ListKey(list, all[i])])
        ELSE all

\* library_cache_get_albums_by_artist, .._get_artist_appearances, .._get_artist_appearance_tracks
AlbumsByArtist(gid, mask)         == Gathered(gid, mask, "artist_albums")
ArtistAppearances(gid, mask)      == Gathered(gid, mask, "appearances")
ArtistAppearanceTracks(gid, mask) == Gathered(gid, mask, "appearance_tracks")

\* library_cache_get_merged_artist_counts counts without making the list: an element is passed over
\* when its key was seen.
Counted(gid, mask, list) ==
    LET entry == IF Known("artists", gid) THEN Entry(artist_index, Artist(gid).mbid) ELSE None
        multi == entry # None /\ IsMultiLibrary(mask)
        from  == IF entry # None THEN ToSet(entry) ELSE {gid}
        all   == UNION {{<<e, n>> : n \in DOMAIN Slot(Lib(e)).rel[list][Local(e)]} :
                           e \in {e \in from : Known("artists", e) /\ Lib(e) \in mask}}
        KeyOf(p) == ListKey(list, GlobalId(Lib(p[1]), Slot(Lib(p[1])).rel[list][Local(p[1])][p[2]]))
        unkeyed  == {p \in all : KeyOf(p) = None}
    IN  IF multi THEN Cardinality(unkeyed) + Cardinality({KeyOf(p) : p \in all \ unkeyed})
        ELSE Cardinality(all)

MergedArtistCounts(gid, mask) ==
    [albums      |-> Counted(gid, mask, "artist_albums"),
     appearances |-> Counted(gid, mask, "appearance_tracks")]

\* library_cache_get_tracks_by_album
TracksByAlbum(al, mask) ==
    IF Known("albums", al) /\ Lib(al) \in mask
    THEN LET found == Slot(Lib(al)).rel.album_tracks_ptrs[Local(al)]
         IN  [n \in DOMAIN found |-> GlobalId(Lib(al), found[n])]
    ELSE <<>>

\* library_cache_get_next_track_id and .._get_prev_track_id: the neighbour in the order in which
\* the tracks of the album were loaded, None at the ends.
Neighbour(tid, step) ==
    LET list == IF Known("albums", AlbumOf(tid))
                THEN Slot(Lib(tid)).rel.album_tracks[Track(tid).album] ELSE <<>>
        here == {i \in DOMAIN list : list[i] = Local(tid)}
    IN  IF \E i \in here : i + step \in DOMAIN list
        THEN GlobalId(Lib(tid), list[(CHOOSE i \in here : TRUE) + step]) ELSE None

NextTrack(tid) == Neighbour(tid, 1)
PrevTrack(tid) == Neighbour(tid, -1)

-----------------------------------------------------------------------------
(* Filtered lists and the search bar *)

NoFilter == [genres |-> {}, decades |-> {}]

AnyTrack(c, al, genres) == \E tid \in DOMAIN c.tracks :
    c.tracks[tid].album = al /\ c.tracks[tid].genre \in genres

Credited(c, aid, tid) == aid \in ToSet(c.credits[tid])

\* get_artist_ids: artists with an album or a credit, whose name matches, and that the filters let
\* through.  A genre alone asks for a credit on such a track; with a decade it asks for an album of
\* the artist that has both.
ArtistMatches(c, aid, text, f) ==
    /\ \/ \E tid \in DOMAIN c.tracks : Credited(c, aid, tid)
       \/ \E al \in DOMAIN c.albums : c.albums[al].artist = aid
    /\ text # None => c.artists[aid].name = text
    /\ f.decades # {} =>
          \E al \in DOMAIN c.albums : /\ c.albums[al].artist = aid
                                      /\ c.albums[al].decade \in f.decades
                                      /\ f.genres # {} => AnyTrack(c, al, f.genres)
    /\ f.genres # {} /\ f.decades = {} =>
          \E tid \in DOMAIN c.tracks : Credited(c, aid, tid) /\ c.tracks[tid].genre \in f.genres

\* get_album_ids
AlbumMatches(c, al, text, f) ==
    /\ text # None => c.albums[al].title = text
    /\ f.decades # {} => c.albums[al].decade \in f.decades
    /\ f.genres # {} => AnyTrack(c, al, f.genres)

\* get_track_ids: the filters are those of the track itself; no text finds no track.
TrackMatches(c, tid, text, f) ==
    /\ text # None /\ c.tracks[tid].title = text
    /\ f.decades # {} => c.albums[c.tracks[tid].album].decade \in f.decades
    /\ f.genres # {} => c.tracks[tid].genre \in f.genres

\* get_artist_order_clause, get_album_order_clause: by name or title, then as the rows lie.
InOrder(ids, name) == SetToSortSeq(ids, LAMBDA x, y : name[x] < name[y] \/ (name[x] = name[y] /\ x < y))

\* db_get_entity_ids_filtered.  Tracks come by rank, of which nothing is said, at most `limit'.
IdsFiltered(c, table, text, f, limit) ==
    CASE table = "artists" -> InOrder({i \in DOMAIN c.artists : ArtistMatches(c, i, text, f)},
                                      [i \in DOMAIN c.artists |-> c.artists[i].name])
      [] table = "albums"  -> InOrder({i \in DOMAIN c.albums : AlbumMatches(c, i, text, f)},
                                      [i \in DOMAIN c.albums |-> c.albums[i].title])
      [] table = "tracks"  -> AtMost(SetToSortSeq({i \in DOMAIN c.tracks : TrackMatches(c, i, text, f)}, <),
                                     limit)

\* The slots a filtered query looks at.
Searched(mask) == SelectSeq(slots, LAMBDA s : s.lib \in mask /\ s.available)

MatchKey(table, gid) ==
    CASE table = "artists" -> Artist(gid).mbid
      [] table = "albums"  -> ReleaseGroup(gid)
      [] table = "tracks"  -> TrackKey(gid)

Filtered(table, text, f, mask, limit) ==
    LET in == Searched(mask)
        Of(i) == LET ids == IdsFiltered(in[i].rows, table, text, f, limit)
                 IN  [n \in DOMAIN ids |-> GlobalId(in[i].lib, ids[n])]
        all == FlattenSeq([i \in DOMAIN in |-> Of(i)])
    IN  IF IsMultiLibrary(mask) THEN Deduplicated(all, [n \in DOMAIN all |-> MatchKey(table, all[n])])
        ELSE all

\* library_cache_get_artists_filtered, library_cache_get_albums_filtered
ArtistsFiltered(text, f, mask) == Filtered("artists", text, f, mask, 0)
AlbumsFiltered(text, f, mask)  == Filtered("albums", text, f, mask, 0)

\* run_search_queries and library_cache_search: the limit holds over all libraries.  The spelling is
\* never corrected: the vocabulary is read from a table SQLite does not have, and stays empty.
Search(text, f, mask, limit) ==
    [artists |-> AtMost(ArtistsFiltered(text, f, mask), limit),
     albums  |-> AtMost(AlbumsFiltered(text, f, mask), limit),
     tracks  |-> AtMost(Filtered("tracks", text, f, mask, limit), limit)]

-----------------------------------------------------------------------------
(* Credit search: who played, produced or wrote *)

\* db_resolve_track_positions_batch: the track in a place of a release, None when there is none.
TrackAt(c, credit) ==
    LET found == {tid \in DOMAIN c.tracks :
                    /\ c.albums[c.tracks[tid].album].release = credit.release
                    /\ <<c.tracks[tid].disc, c.tracks[tid].num>> = credit.place}
    IN  IF found = {} THEN None ELSE Min(found)

\* gather_library: the tracks credited to artists of that name in the metadata of one library, with
\* the roles they have there.
Hits(s, name, role) ==
    {<<GlobalId(s.lib, TrackAt(s.rows, credit)), credit.role>> :
        credit \in {credit \in s.rows.meta : /\ credit.name = name
                                             /\ role # None => credit.role = role
                                             /\ TrackAt(s.rows, credit) # None}}

RawHits(name, role, mask) == UNION {Hits(s, name, role) : s \in ToSet(Searched(mask))}

\* track_dedup_key and album_dedup_key
TrackDedupKey(tid) ==
    IF ReleaseGroup(AlbumOf(tid)) # None
    THEN <<ReleaseGroup(AlbumOf(tid)), Track(tid).disc, Track(tid).num>> ELSE AlbumOf(tid)
AlbumDedupKey(al) == IF ReleaseGroup(al) # None THEN <<ReleaseGroup(al)>> ELSE al

\* library_credit_search: the hits come in the order of a hash table.  The first of a key survives
\* and takes over the roles of the others.
CreditSearch(hits, order) ==
    LET tracks == Deduplicated(order, [n \in DOMAIN order |-> TrackDedupKey(order[n])])
        albums == [n \in DOMAIN tracks |-> AlbumOf(tracks[n])]
        Same(tid) == {h \in hits : TrackDedupKey(h[1]) = TrackDedupKey(tid)}
    IN  [tracks |-> tracks,
         albums |-> Deduplicated(albums, [n \in DOMAIN albums |-> AlbumDedupKey(albums[n])]),
         roles  |-> [tid \in ToSet(tracks) |-> {h[2] : h \in Same(tid)}]]

-----------------------------------------------------------------------------
(* Actions *)

Indexed(ss) ==
    /\ slots' = ss
    /\ artist_index' = IndexOf(ss, "artists", "mbid")
    /\ album_index' = IndexOf(ss, "albums", "group")

Position(l) == {i \in DOMAIN slots : slots[i].lib = l}

\* library_cache_add_slot and the warming that follows.
AddSlot(l, c) ==
    /\ Position(l) = {}
    /\ Indexed(Append(slots, Warmed(l, c)))
    /\ UNCHANGED library_mask

\* cow_refresh_thread_func: what a scan changed takes the place of what was there.
Refresh(l, c) ==
    /\ \E i \in Position(l) : Indexed([slots EXCEPT ![i].rows = c, ![i].rel = Relationships(c)])
    /\ UNCHANGED library_mask

\* library_cache_remove_slot
RemoveSlot(l) ==
    /\ Position(l) # {}
    /\ Indexed(SelectSeq(slots, LAMBDA s : s.lib # l))
    /\ UNCHANGED library_mask

\* library_cache_set_available
SetAvailable(l) ==
    /\ \E i \in Position(l) : slots' = [slots EXCEPT ![i].available = ~slots[i].available]
    /\ UNCHANGED <<artist_index, album_index, library_mask>>

\* set_library_mask, which the clicks of the library bar end in.
SetMask(mask) ==
    /\ library_mask' = mask
    /\ UNCHANGED <<slots, artist_index, album_index>>

\* library_mask_after_toggle
AfterToggle(mask, l) ==
    LET toggled == IF l \in mask THEN mask \ {l} ELSE mask \cup {l}
    IN  IF toggled = {} THEN LIBRARY_MASK_ALL ELSE toggled

\* on_library_left_click, on_library_right_click: a click toggles a library, with Shift it shows
\* that one alone; the other button shows all.
Toggle(l) == Position(l) # {} /\ SetMask(AfterToggle(library_mask, l))
Solo(l) == Position(l) # {} /\ SetMask({l})
ShowAll == SetMask(LIBRARY_MASK_ALL)

Init ==
    /\ slots = <<>>
    /\ artist_index = <<>> /\ album_index = <<>>
    /\ library_mask = LIBRARY_MASK_ALL

Next ==
    \/ \E l \in Libraries, c \in UNION {Contents(l) : l \in Libraries} :
          c \in Contents(l) /\ (AddSlot(l, c) \/ Refresh(l, c))
    \/ \E l \in Libraries : RemoveSlot(l) \/ SetAvailable(l) \/ Toggle(l) \/ Solo(l)
    \/ ShowAll

Spec == Init /\ [][Next]_vars

-----------------------------------------------------------------------------
(* Properties.  Each quantifies over everything the views may ask in a state. *)

AllArtists == ToSet(AllIds(slots, "artists"))
AllAlbums  == ToSet(AllIds(slots, "albums"))
AllTracks  == ToSet(AllIds(slots, "tracks"))

Shown(gids) == {gid \in gids : Lib(gid) \in library_mask}

\* More than one library is shown.
SeveralShown == \E s, t \in ToSet(slots) : s.lib # t.lib /\ {s.lib, t.lib} \subseteq library_mask

SameArtist(gid) ==
    {a \in AllArtists : a = gid \/ (Artist(a).mbid # None /\ Artist(a).mbid = Artist(gid).mbid)}

DistinctKeys(list, Key(_)) ==
    \A i, j \in DOMAIN list : i # j /\ Key(list[i]) # None => Key(list[i]) # Key(list[j])

\* Nothing that ought to be found is missing from the list: it is there itself or, when several
\* libraries are shown, another that has its key is.
Represented(gid, list, Key(_)) ==
    \/ gid \in ToSet(list)
    \/ SeveralShown /\ Key(gid) # None /\ \E other \in ToSet(list) : Key(other) = Key(gid)

\* The versions of an artist or album are the same whichever of them is asked about, the one asked
\* about is among them, and no library that is hidden is.
VersionsAgree ==
    /\ \A gid \in AllArtists :
          LET versions == Artists(gid, library_mask, 0) IN
          /\ ToSet(ArtistLibraries(gid)) = {Lib(a) : a \in SameArtist(gid)}
          /\ gid \in Shown({gid}) => gid \in ToSet(versions)
          /\ \A v \in ToSet(versions) : /\ Lib(v) \in library_mask
                                        /\ Artists(v, library_mask, 0) = versions
    /\ \A gid \in AllAlbums :
          LET versions == Albums(gid, library_mask, 0) IN
          /\ Lib(gid) \in ToSet(AlbumLibraries(gid))
          /\ gid \in Shown({gid}) => gid \in ToSet(versions)
          /\ \A v \in ToSet(versions) : /\ Lib(v) \in library_mask
                                        /\ Albums(v, library_mask, 0) = versions
    /\ \A tid \in AllTracks : Lib(tid) \in ToSet(TrackLibraries(tid))

\* The discography of an artist over all shown libraries: every album that some version of the
\* artist made is represented, once when several libraries are shown, and so is every track the
\* artist appears on; the numbers the list of artists shows are those of the lists behind them.
DiscographySound ==
    \A gid \in AllArtists :
       LET made    == AlbumsByArtist(gid, library_mask)
           appears == ArtistAppearanceTracks(gid, library_mask)
           counts  == MergedArtistCounts(gid, library_mask)
       IN  /\ SeveralShown /\ Artist(gid).mbid # None => DistinctKeys(made, ReleaseGroup)
           /\ \A al \in Shown(AllAlbums) :
                 GlobalId(Lib(al), Album(al).artist) \in SameArtist(gid) => Represented(al, made, ReleaseGroup)
           /\ \A tid \in ToSet(appears) :
                 \E al \in ToSet(ArtistAppearances(gid, library_mask)) :
                    \/ al = AlbumOf(tid)
                    \/ ReleaseGroup(al) # None /\ ReleaseGroup(al) = ReleaseGroup(AlbumOf(tid))
           /\ counts = [albums |-> Len(made), appearances |-> Len(appears)]

\* Next and previous lead through all tracks of an album and back.
NavigationSound ==
    \A al \in AllAlbums :
       LET tracks == {tid \in AllTracks : AlbumOf(tid) = al} IN
       /\ \A tid \in tracks : /\ NextTrack(tid) # None => PrevTrack(NextTrack(tid)) = tid
                              /\ PrevTrack(tid) # None => NextTrack(PrevTrack(tid)) = tid
       /\ tracks # {} => Cardinality({tid \in tracks : NextTrack(tid) = None}) = 1
       /\ Lib(al) \in library_mask => ToSet(TracksByAlbum(al, library_mask)) = tracks

Names == UNION {{s.rows.artists[i].name : i \in DOMAIN s.rows.artists} : s \in ToSet(slots)}
Filters == [genres : {{}, {"jazz"}}, decades : {{}, {1990}}]

\* A filtered list shows nothing of a hidden or absent library and each artist once, and of every
\* artist it shows some album that the same filter lets through.
FilteredSound ==
    \A f \in Filters :
       LET artists == ArtistsFiltered(None, f, library_mask)
           albums  == AlbumsFiltered(None, f, library_mask)
       IN  /\ \A gid \in ToSet(artists) \cup ToSet(albums) :
                 Lib(gid) \in library_mask /\ Slot(Lib(gid)).available
           /\ SeveralShown =>
                 DistinctKeys(artists, LAMBDA a : Artist(a).mbid) /\ DistinctKeys(albums, ReleaseGroup)
           /\ \A gid \in ToSet(artists) : \E al \in Shown(AllAlbums) :
                 /\ \/ Album(al).artist = Local(gid)
                    \/ \E tid \in AllTracks : AlbumOf(tid) = al
                          /\ Credited(Slot(Lib(tid)).rows, Local(gid), Local(tid))
                 /\ Lib(al) = Lib(gid)
                 /\ Represented(al, albums, ReleaseGroup)

\* Whatever order the credited tracks come in, the survivors cover every album that has a hit and
\* every place of an album that is known by its release group, and every role is kept with one.
CreditsSound ==
    \A name \in Names :
       LET hits == RawHits(name, None, library_mask) IN
       \A order \in SetToSeqs({h[1] : h \in hits}) :
          LET found == CreditSearch(hits, order) IN
          /\ DistinctKeys(found.tracks, TrackDedupKey)
          /\ \A h \in hits : \E tid \in ToSet(found.tracks) : h[2] \in found.roles[tid]
          /\ \A h \in hits : Represented(AlbumOf(h[1]), found.albums, AlbumDedupKey)
          /\ \A h \in hits : TrackKey(h[1]) # None =>
                \E tid \in ToSet(found.tracks) : TrackKey(tid) = TrackKey(h[1])

QueriesSound ==
    /\ VersionsAgree /\ DiscographySound /\ NavigationSound /\ FilteredSound /\ CreditsSound
=============================================================================
