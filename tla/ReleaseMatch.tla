---------------------------- MODULE ReleaseMatch ----------------------------
(***************************************************************************)
(* How the resolver finds the MusicBrainz release of one untagged album    *)
(* (find_release_by_fingerprint in mb_resolver.c): the ISRC codes of its   *)
(* files are looked up in one request, then its titles are searched, then  *)
(* up to four of its tracks are fingerprinted.  Answers are lists of       *)
(* releases; they are tallied into votes for release groups, the leading   *)
(* group and its leading release win if they are far enough ahead.         *)
(*                                                                         *)
(* What the lookups return is in MbServices.                               *)
(***************************************************************************)
EXTENDS Integers, MbServices

CONSTANTS
    Groups,
    GroupOf,        \* [Releases -> Groups]
    MaxTracks       \* tracks of an album

\* What a backend may lack; the HTTP backend has both.
Caps == {"solr", "fingerprint"}

VARIABLES
    at,             \* the stage the call is in
    http, caps,     \* the backend
    cancelled,
    tracks,         \* of the album
    tags,           \* what the files say: number of ISRCs, and whether album and artist are there
    votes,          \* the four tables of tally_votes
    i, prints,      \* next track, and tracks fingerprinted
    best, tier,     \* best_release and where it came from
    service_error,
    named           \* what has answered for a group: ISRCs, fingerprints, all since the start

vars == <<at, http, caps, cancelled, tracks, tags, votes, i, prints, best, tier, service_error, named>>

NoVotes == [
    rg   |-> [g \in Groups |-> 0],          \* rg_counts
    rel  |-> [r \in Releases |-> 0],        \* release_counts
    pick |-> [g \in Groups |-> None],       \* rg_best_release
    best |-> None ]                         \* best_rg

Lead(v) == IF v.best = None THEN 0 ELSE v.rg[v.best]    \* best_rg_count

Init ==
    /\ at = "tracks" /\ http \in BOOLEAN /\ caps \in SUBSET Caps
    /\ (http => caps = Caps) /\ cancelled = FALSE
    /\ tracks = 0 /\ tags = [isrcs |-> 0, text |-> FALSE]
    /\ votes = NoVotes /\ i = 1 /\ prints = 0
    /\ best = None /\ tier = "none" /\ service_error = FALSE
    /\ named = [isrc |-> {}, print |-> [g \in Groups |-> 0]]

-----------------------------------------------------------------------------
(* Votes *)

\* Fault: the groups an answer has voted for are not remembered.
VoteAgain(s, r) ==
    LET g   == GroupOf[r]
        v   == s.votes
        rg  == [v.rg EXCEPT ![g] = @ + 1]
        rel == [v.rel EXCEPT ![r] = @ + 1]
    IN [ seen  |-> {},
         votes |-> [
            rg   |-> rg,
            rel  |-> rel,
            pick |-> [v.pick EXCEPT ![g] = IF @ = None \/ rel[r] > rel[@] THEN r ELSE @],
            best |-> IF rg[g] > Lead(v) THEN g ELSE v.best ] ]

\* One result: a vote for its group unless this answer has voted for it already, and one for the
\* release; whoever gets ahead takes the lead.
Vote(s, r) ==
    LET g   == GroupOf[r]
        new == g \notin s.seen
        v   == s.votes
        rg  == [v.rg EXCEPT ![g] = IF new THEN @ + 1 ELSE @]
        rel == [v.rel EXCEPT ![r] = @ + 1]
    IN [ seen  |-> s.seen \union {g},
         votes |-> [
            rg   |-> rg,
            rel  |-> rel,
            pick |-> [v.pick EXCEPT ![g] = IF @ = None \/ rel[r] > rel[@] THEN r ELSE @],
            best |-> IF new /\ rg[g] > Lead(v) THEN g ELSE v.best ] ]

Tally(answer) == FoldLeft(Vote, [seen |-> {}, votes |-> votes], answer).votes

Confident(v, n) == 100 * Lead(v) >= 80 * n              \* MB_MATCH_CONFIDENCE

Pick(v) == v.pick[v.best]

-----------------------------------------------------------------------------
(* The call *)

\* An album without tracks has no release.
LoadTracks ==
    /\ at = "tracks"
    /\ \E n \in 0 .. MaxTracks:
        /\ tracks' = n
        /\ at' = IF n = 0 THEN "done" ELSE "tags"
    /\ UNCHANGED <<http, caps, cancelled, tags, votes, i, prints, best, tier, service_error, named>>

\* The files are opened one by one, until the call is cancelled.
ReadTags ==
    /\ at = "tags"
    /\ \E n \in 0 .. tracks, text \in BOOLEAN:
        /\ cancelled => n < tracks
        /\ tags' = [isrcs |-> n, text |-> text]
    /\ at' = "isrc"
    /\ UNCHANGED <<http, caps, cancelled, tracks, votes, i, prints, best, tier, service_error, named>>

\* All the codes go in one request, and its answer is tallied in one go.
IsrcLookup ==
    /\ at = "isrc"
    /\ at' = "solr"
    /\ \/ tags.isrcs < 2 /\ UNCHANGED <<votes, best, tier, named>>
       \/ /\ tags.isrcs >= 2
          /\ \E answer \in Isrc(http):
                LET v == Tally(answer.list) IN
                /\ votes' = v
                /\ named' = [named EXCEPT !.isrc = {GroupOf[r] : r \in ToSet(answer.list)}]
                /\ IF answer.list # <<>> /\ Confident(v, tags.isrcs)
                   THEN best' = Pick(v) /\ tier' = "isrc"
                   ELSE UNCHANGED <<best, tier>>
    /\ UNCHANGED <<http, caps, cancelled, tracks, tags, i, prints, service_error>>

Searchable == "solr" \in caps /\ tags.text

SolrSearch ==
    /\ at = "solr"
    /\ at' = "prints"
    /\ IF best = None /\ ~cancelled /\ Searchable
       THEN \E r \in Search(http):
            /\ best' = r
            /\ tier' = IF r = None THEN tier ELSE "solr"
       ELSE UNCHANGED <<best, tier>>
    /\ UNCHANGED <<http, caps, cancelled, tracks, tags, votes, i, prints, service_error, named>>

ToCheck == IF tracks < 4 THEN tracks ELSE 4         \* MB_FINGERPRINT_TRACKS

Another == best = None /\ ~cancelled /\ "fingerprint" \in caps /\ i <= ToCheck

\* A track that is not there, cannot be decoded or has no audio is passed over.
Undecoded == UNCHANGED <<at, votes, prints, service_error, named>>

\* One track: the service is down, the lookup fails, or it is answered.  After two of them unanimity
\* ends the loop.
Fingerprint ==
    /\ at = "prints" /\ Another
    /\ i' = i + 1
    /\ \/ Undecoded
       \/ \E answer \in Fingerprints(http):
          /\ prints' = prints + 1
          /\ service_error' = (answer.result = "unavailable")
          /\ votes' = Tally(answer.list)
          /\ named' = [named EXCEPT !.print =
                [g \in Groups |-> IF \E r \in ToSet(answer.list): GroupOf[r] = g
                                  THEN @[g] + 1 ELSE @[g]]]
          /\ at' = IF \/ service_error'
                      \/ prints' >= 2 /\ Lead(votes') > 0 /\ Lead(votes') >= prints'
                   THEN "decide" ELSE at
    /\ UNCHANGED <<http, caps, cancelled, tracks, tags, best, tier>>

FingerprintsEnd ==
    /\ at = "prints" /\ ~Another
    /\ at' = "decide"
    /\ UNCHANGED <<http, caps, cancelled, tracks, tags, votes, i, prints, best, tier, service_error,
                   named>>

\* Fault: having the lead is enough.
AcceptedAny ==
    IF prints = 1 THEN Searchable ELSE Lead(votes) > 0

\* A single fingerprint needs a search that finds something, several need the confidence.
Accepted ==
    IF prints = 1 THEN Searchable ELSE Confident(votes, prints)

Decide ==
    /\ at = "decide"
    /\ at' = "done"
    /\ \/ UNCHANGED <<best, tier>> /\ ~(prints > 1 /\ Lead(votes) > 0 /\ Accepted)
       \/ /\ prints > 0 /\ Lead(votes) > 0 /\ Accepted
          /\ best' = Pick(votes) /\ tier' = "acoustid"
    /\ UNCHANGED <<http, caps, cancelled, tracks, tags, votes, i, prints, service_error, named>>

\* The caller takes the release and the error flag; the next album starts over, after a cancel with
\* a new resolver.
Return ==
    /\ at = "done"
    /\ at' = "tracks"
    /\ tracks' = 0 /\ tags' = [isrcs |-> 0, text |-> FALSE]
    /\ votes' = NoVotes /\ i' = 1 /\ prints' = 0
    /\ best' = None /\ tier' = "none" /\ service_error' = FALSE
    /\ named' = [isrc |-> {}, print |-> [g \in Groups |-> 0]]
    /\ cancelled' = FALSE
    /\ UNCHANGED <<http, caps>>

Cancel ==
    /\ ~cancelled /\ at # "tracks"
    /\ cancelled' = TRUE
    /\ UNCHANGED <<at, http, caps, tracks, tags, votes, i, prints, best, tier, service_error, named>>

Next ==
    \/ LoadTracks \/ ReadTags \/ IsrcLookup \/ SolrSearch \/ Fingerprint \/ FingerprintsEnd
    \/ Decide \/ Return \/ Cancel

Spec == Init /\ [][Next]_vars

-----------------------------------------------------------------------------
(* Properties *)

TypeOK ==
    /\ at \in {"tracks", "tags", "isrc", "solr", "prints", "decide", "done"}
    /\ caps \subseteq Caps /\ cancelled \in BOOLEAN /\ service_error \in BOOLEAN
    /\ tracks \in 0 .. MaxTracks
    /\ tags \in [isrcs : 0 .. MaxTracks, text : BOOLEAN]
    /\ votes.rg \in [Groups -> Nat] /\ votes.rel \in [Releases -> Nat]
    /\ votes.pick \in [Groups -> Releases \union {None}] /\ votes.best \in Groups \union {None}
    /\ best \in Releases \union {None}

\* The group in the lead has the most votes and the release picked for a group the most of that
\* group's, in whatever order the results came: the leads are kept up to date result by result.
LeadersLead ==
    /\ \A g \in Groups: votes.rg[g] <= Lead(votes)
    /\ \A r \in Releases: votes.rel[r] > 0 =>
        /\ votes.pick[GroupOf[r]] # None
        /\ GroupOf[votes.pick[GroupOf[r]]] = GroupOf[r]
        /\ votes.rel[r] <= votes.rel[votes.pick[GroupOf[r]]]

\* A release taken from several fingerprints is one that most of them named: four in five, the ISRCs
\* counting as one more vote at most, however many results each answer listed.
MostAgree ==
    tier = "acoustid" /\ prints > 1 =>
        100 * (named.print[GroupOf[best]] + 1) >= 80 * prints

\* The vote of a release that was found is sound: both of the above.
MatchSound == LeadersLead /\ MostAgree

\* ISRC lookup is the first way to resolve an album: when the codes of its files all lead to one
\* release group, that is the album's.  The answer for all the codes is tallied as one vote, and
\* measured against the number of codes.
IsrcSettles ==
    at = "done" /\ tags.isrcs >= 2 /\ (\E g \in Groups: named.isrc = {g}) => tier = "isrc"
=============================================================================
