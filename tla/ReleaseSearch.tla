---------------------------- MODULE ReleaseSearch ----------------------------
(***************************************************************************)
(* Choosing a release among the results of a title search: in the results  *)
(* of the mirror's Solr (mb_solr_search_release in mb_pg_acoustid.c) with  *)
(* the weights of Picard, in those of the public search                    *)
(* (mb_http_solr_search in mb_http_ops.c) with others.  A result is what   *)
(* the scores are made of, in percent; scores are kept as integers.        *)
(***************************************************************************)
EXTENDS Integers, SequencesExt

CONSTANTS
    None,
    Candidates,     \* results: title, artist, tracks, rest, single (one disc), relevance
    MaxResults

VARIABLES http, results, at, best, best_score, done

vars == <<http, results, at, best, best_score, done>>

\* How well the number of tracks fits: as many, fewer here than there, or more.
TrackScore == {100, 30, 0}

\* 47 parts: title 17, type 10 (always half), artist 6, tracks 5, length 3, status, country and format
\* 2 each (these four together are "rest").
PgScore(c) ==
    (17 * c.title + 10 * 50 + 6 * c.artist + 5 * c.tracks + 9 * c.rest) * c.relevance

PgThreshold == 60 * 47 * 100        \* 0.60

\* Title 0.5, artist 0.3, tracks 0.2, and 0.05 for a single disc.
HttpScore(c) ==
    (50 * c.title + 30 * c.artist + 20 * c.tracks + (IF c.single THEN 500 ELSE 0)) * c.relevance

HttpThreshold == 55 * 100 * 100     \* 0.55

ScoreOf(c)  == IF http THEN HttpScore(c) ELSE PgScore(c)
Threshold == IF http THEN HttpThreshold ELSE PgThreshold

Init ==
    /\ http \in BOOLEAN
    /\ results = <<>> /\ at = 1 /\ best = None /\ best_score = -1 /\ done = TRUE

Search ==
    /\ done /\ results = <<>>
    /\ results' \in SeqOf(Candidates, MaxResults)
    /\ at' = 1 /\ best' = None /\ best_score' = -1 /\ done' = FALSE
    /\ UNCHANGED http

\* Fault: the last result with a score wins.
LookLax ==
    /\ ~done /\ at <= Len(results)
    /\ best' = results[at] /\ best_score' = ScoreOf(results[at])
    /\ at' = at + 1
    /\ UNCHANGED <<http, results, done>>

\* One result; the mirror may not know it.
Look ==
    /\ ~done /\ at <= Len(results)
    /\ \/ /\ ScoreOf(results[at]) > best_score
          /\ best' = results[at] /\ best_score' = ScoreOf(results[at])
       \/ /\ ScoreOf(results[at]) <= best_score \/ ~http
          /\ UNCHANGED <<best, best_score>>
    /\ at' = at + 1
    /\ UNCHANGED <<http, results, done>>

Accept ==
    /\ ~done /\ at > Len(results)
    /\ best' = IF best_score < Threshold THEN None ELSE best
    /\ done' = TRUE
    /\ UNCHANGED <<http, results, at, best_score>>

\* The release, if there is one, is handed over; another title is searched for.
Hand ==
    /\ done /\ results # <<>>
    /\ results' = <<>> /\ at' = 1 /\ best' = None /\ best_score' = -1
    /\ UNCHANGED <<http, done>>

Next == Search \/ Look \/ Accept \/ Hand

Spec == Init /\ [][Next]_vars

-----------------------------------------------------------------------------
(* Properties *)

Better(c, d) ==
    /\ c.title >= d.title /\ c.artist >= d.artist /\ c.tracks >= d.tracks /\ c.rest >= d.rest
    /\ d.single => c.single
    /\ c.relevance >= d.relevance
    /\ c # d

\* No result of the public search that the chosen one beats in some respect and nowhere falls short of
\* is taken in its place, wherever in the list it stands; and what is taken from either search has
\* something of the album's title or, with the public one, of its artist and number of tracks.
ChosenFits ==
    done /\ best # None =>
        /\ http => \A k \in DOMAIN results: Better(results[k], best) =>
                        HttpScore(results[k]) <= HttpScore(best)
        /\ best.title = 0 => http /\ best.artist = 100 /\ best.tracks = 100

\* The disc bonus of the public search decides between results that are equal otherwise; it does not
\* make up for a title that is nothing like the album's.
BonusOnlyBreaksTies == done /\ best # None => best.title > 0
=============================================================================
