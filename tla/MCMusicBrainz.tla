---------------------------- MODULE MCMusicBrainz ----------------------------
(***************************************************************************)
(* Instance of the MusicBrainz resolver and of its parts for TLC.  A run   *)
(* of the resolver on three albums, the vote on one album's release, the   *)
(* choice among search results, the matching of tracks, the slot of a      *)
(* backend and the rate limiter have no state in common: a behaviour       *)
(* follows one of them, the `part' it begins with.                         *)
(***************************************************************************)
EXTENDS MbResolver

CONSTANTS album1, album2, album3, release1, other, release2, g1, g2, Groups, GroupOf,
    Candidates, Lengths, Positions, Titles, Alike(_, _),
    MaxTracks, MaxRecordings, MaxResults, MaxLookups, MaxDrops, Threads, Interval, MaxTime

\* A group is not None, and every release is of one.
ASSUME VoteAssumption ==
    /\ GroupOf \in [Releases -> Groups] /\ None \notin Groups
    /\ MaxTracks \in Nat /\ MaxAnswer \in Nat

\* Scores are in percent.
ASSUME ChoiceAssumption ==
    /\ Candidates \subseteq [title : 0 .. 100, artist : 0 .. 100, tracks : 0 .. 100, rest : 0 .. 100,
                             single : BOOLEAN, relevance : 0 .. 100]
    /\ None \notin Candidates /\ MaxResults \in Nat

ASSUME TracksAssumption == Positions \subseteq Int /\ MaxRecordings \in Nat

ASSUME LimiterAssumption == Interval \in Nat

VARIABLE part
VARIABLES vote_at, http_vote, caps, cancelled_vote, tracks, tags, votes, track_at, prints, best, tier,
          service_error, named                                          \* of ReleaseMatch
VARIABLES http_search, results, place, chosen, best_score, searched     \* of ReleaseSearch
VARIABLES phase, recordings, local, matches                             \* of TrackMatch
VARIABLES mb, acoustid, client, fd, alive, wire, op, asked, answer, result, drops  \* of PgSlot
VARIABLES clock, last, until, sent                                        \* of RateLimiter

MCReleaseOf == (album1 :> release1) @@ (album2 :> other) @@ (album3 :> release2)
MCGroupOf   == (release1 :> g1) @@ (other :> g1) @@ (release2 :> g2)

Vote == INSTANCE ReleaseMatch
    WITH at <- vote_at, i <- track_at, http <- http_vote, cancelled <- cancelled_vote

\* Results that differ in one respect or several.
MCCandidates ==
    [title : {0, 100}, artist : {0, 100}, tracks : {30, 100}, rest : {50},
     single : BOOLEAN, relevance : {60, 100}]

Choice == INSTANCE ReleaseSearch
    WITH http <- http_search, at <- place, best <- chosen, done <- searched

MCPositions == 0 .. 2

MCAlike(x, y) == IF x = y THEN 100 ELSE 50

Tracks == INSTANCE TrackMatch
    WITH MaxTracks <- MaxRecordings, tracks <- local

Slot == INSTANCE PgSlot

Limiter == INSTANCE RateLimiter
    WITH now <- clock

voting    == <<vote_at, http_vote, caps, cancelled_vote, tracks, tags, votes, track_at, prints, best, tier,
               service_error, named>>
searching == <<http_search, results, place, chosen, best_score, searched>>
matching  == <<phase, recordings, local, matches>>
limiter   == <<clock, last, until, sent>>
slot      == <<mb, acoustid, client, fd, alive, wire, op, asked, answer, result, drops>>

AllInit ==
    /\ part \in {"resolver", "vote", "choice", "tracks", "slot", "limiter"}
    /\ Init /\ Vote!Init /\ Choice!Init /\ Tracks!Init /\ Slot!Init /\ Limiter!Init
    \* only the part that is followed begins in each of its initial states
    /\ part # "vote" => http_vote
    /\ part # "choice" => http_search
    /\ part # "slot" => alive /\ client

AllNext ==
    /\ UNCHANGED part
    /\ \/ part = "resolver" /\ Next /\ UNCHANGED <<voting, searching, matching, slot, limiter>>
       \/ part = "vote" /\ Vote!Next /\ UNCHANGED <<vars, searching, matching, slot, limiter>>
       \/ part = "choice" /\ Choice!Next /\ UNCHANGED <<vars, voting, matching, slot, limiter>>
       \/ part = "tracks" /\ Tracks!Next /\ UNCHANGED <<vars, voting, searching, slot, limiter>>
       \/ part = "slot" /\ Slot!Next /\ UNCHANGED <<vars, voting, searching, matching, limiter>>
       \/ part = "limiter" /\ Limiter!Next /\ UNCHANGED <<vars, voting, searching, matching, slot>>

AllSpec ==
    /\ AllInit
    /\ [][AllNext]_<<part, vars, voting, searching, matching, slot, limiter>>
    /\ Fairness

-----------------------------------------------------------------------------
(* The properties of the parts *)

\* What is written for an album is of a release that its files speak for: the vote, the choice among
\* the results of a search, and which recording is which track.
MatchesSound == Vote!MatchSound /\ Choice!ChosenFits /\ Tracks!MatchesSound

\* Answers are those to the question that was asked, and no thread asks more often than it may.
RequestsSound == []Slot!AnswerIsOwn /\ Limiter!OwnSpaced
=============================================================================
