------------------------------ MODULE TrackMatch ------------------------------
(***************************************************************************)
(* Which of an album's tracks is which recording of its release            *)
(* (match_tracks in mb_resolver.c): first by disc and position, then, for  *)
(* what is left, by how alike length and title are.  Titles are words that *)
(* are alike or not, lengths are in seconds.                               *)
(***************************************************************************)
EXTENDS Integers, SequencesExt

CONSTANTS
    Titles,
    Alike(_, _),    \* title_similarity, in percent
    Lengths, Positions,
    MaxTracks

VARIABLES phase, recordings, tracks, matches

vars == <<phase, recordings, tracks, matches>>

\* A disc number is 1 here: it is compared like the position.
Track == [position : Positions, length : Lengths, title : Titles]

Match(r, t, sure) == [rec |-> r, track |-> t, exact |-> sure]

UsedRecs(ms)   == {ms[k].rec : k \in DOMAIN ms}
UsedTracks(ms) == {ms[k].track : k \in DOMAIN ms}
MaxMatches     == Min({Len(recordings), Len(tracks)})

Init ==
    /\ phase = "loaded"
    /\ recordings = <<>> /\ tracks = <<>> /\ matches = <<>>

\* An album's release has been fetched and its tracks loaded.
Load ==
    /\ phase = "loaded" /\ tracks = <<>>
    /\ recordings' \in SeqOf(Track, MaxTracks) /\ tracks' \in SeqOf(Track, MaxTracks)
    /\ recordings' # <<>> /\ tracks' # <<>>
    /\ UNCHANGED <<phase, matches>>

\* Fault: a track may be taken twice.
ExactForAny(ms, r) ==
    LET free == {t \in DOMAIN tracks :
                    tracks[t].position > 0 /\ tracks[t].position = recordings[r].position}
    IN IF recordings[r].position <= 0 \/ free = {} \/ Len(ms) >= MaxMatches
       THEN ms ELSE Append(ms, Match(r, Min(free), TRUE))

\* The first track not yet taken that has the recording's position; no position, no match.
ExactFor(ms, r) ==
    LET free == {t \in DOMAIN tracks \ UsedTracks(ms) :
                    tracks[t].position > 0 /\ tracks[t].position = recordings[r].position}
    IN IF recordings[r].position <= 0 \/ free = {} \/ Len(ms) >= MaxMatches
       THEN ms ELSE Append(ms, Match(r, Min(free), TRUE))

Indices(list) == [k \in DOMAIN list |-> k]

ExactPass ==
    /\ phase = "loaded" /\ tracks # <<>>
    /\ matches' = FoldLeft(ExactFor, <<>>, Indices(recordings))
    /\ phase' = "exact"
    /\ UNCHANGED <<recordings, tracks>>

\* Sixty parts length, thirty seconds being too far, and forty parts title.
Score(r, t) ==
    LET longer == recordings[r].length - tracks[t].length
        apart  == Min({30, Max({longer, -longer})})
        title == Alike(recordings[r].title, tracks[t].title)
    IN 2 * (30 - apart) + (40 * title) \div 100

\* The first of the tracks with the highest score, if that is more than half.
FuzzyFor(ms, r) ==
    LET free   == DOMAIN tracks \ UsedTracks(ms)
        better == {t \in free : Score(r, t) > 50 /\ \A u \in free: Score(r, u) <= Score(r, t)}
    IN IF r \in UsedRecs(ms) \/ better = {} \/ Len(ms) >= MaxMatches
       THEN ms ELSE Append(ms, Match(r, Min(better), FALSE))

FuzzyPass ==
    /\ phase = "exact"
    /\ matches' = FoldLeft(FuzzyFor, matches, Indices(recordings))
    /\ phase' = "done"
    /\ UNCHANGED <<recordings, tracks>>

\* The matches are written back; another album comes.
Free ==
    /\ phase = "done"
    /\ recordings' = <<>> /\ tracks' = <<>> /\ matches' = <<>> /\ phase' = "loaded"

Next == Load \/ ExactPass \/ FuzzyPass \/ Free

Spec == Init /\ [][Next]_vars

-----------------------------------------------------------------------------
(* Properties *)

\* No recording and no track is matched twice, matches by position agree in it, and no pair that
\* agrees is left for the guessing pass or for nobody: one of the two is matched by position.  What is
\* written back as sure is sure, also with positions missing or doubled.
MatchesSound ==
    /\ Cardinality(UsedRecs(matches)) = Len(matches)
    /\ Cardinality(UsedTracks(matches)) = Len(matches)
    /\ \A k \in DOMAIN matches: matches[k].exact =>
        /\ recordings[matches[k].rec].position = tracks[matches[k].track].position
        /\ tracks[matches[k].track].position > 0
    /\ phase # "loaded" => \A r \in DOMAIN recordings, t \in DOMAIN tracks:
        recordings[r].position = tracks[t].position /\ tracks[t].position > 0 =>
            \E k \in DOMAIN matches: matches[k].exact /\ (matches[k].rec = r \/ matches[k].track = t)
=============================================================================
