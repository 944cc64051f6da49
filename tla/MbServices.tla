----------------------------- MODULE MbServices -----------------------------
(***************************************************************************)
(* What the two backends of the resolver make of the services' answers:    *)
(* the public web services (mb_http_ops.c) and one's own PostgreSQL mirror *)
(* with acoustid-index and Solr (mb_pg_client.c, mb_pg_acoustid.c).  Each  *)
(* operator is the set of results its lookup can return.                   *)
(***************************************************************************)
EXTENDS SequencesExt

CONSTANTS
    Releases, None,
    MaxAnswer       \* releases in an answer

\* How a request ends, after http_send's one retry of what may pass: "busy" is 429 or 5xx, "refused"
\* any other error of the server, "offline" a request that never got a status.
Status == {"ok", "missing", "busy", "refused", "offline"}

StatusToResult(status) ==
    CASE status \in {"ok", "missing"} -> "ok"
      [] status = "busy" -> "unavailable"
      [] OTHER -> "internal"

Answers == SeqOf(Releases, MaxAnswer)

Answer(list) == [result |-> "ok", list |-> list]
Failure(result) == [result |-> result, list |-> <<>>]

-----------------------------------------------------------------------------
\* ISRC codes go one by one; one the server is too busy for drops what the others have brought, any
\* other failure is passed over.
HttpIsrc == {Failure("unavailable")} \union {Answer(list) : list \in Answers}

\* One query for all codes: rows are distinct.
PgIsrc == {Failure("unavailable")} \union {Answer(list) : list \in {l \in Answers : IsInjective(l)}}

HttpFingerprint ==
    {Failure(StatusToResult(status)) : status \in Status} \union {Answer(list) : list \in Answers}

\* The fingerprint cannot be decoded; the index, the AcoustID database or the mirror does not answer,
\* or is not set up; or they do.
PgFingerprint ==
    {Failure("internal"), Failure("unavailable")} \union {Answer(list) : list \in Answers}

\* Whatever keeps a search from an answer is the same as finding nothing to its caller.
HttpSearch == Releases \union {None}
PgSearch == Releases \union {None}

-----------------------------------------------------------------------------
\* Releases go one by one; one the server is too busy for ends the batch, with those before it in the
\* table; those that are missing, refused or unreadable, or were never sent, are not.
HttpFetch(ids) ==
    [result : {"ok"}, got : SUBSET ToSet(ids)]
        \union UNION {[result : {"unavailable"}, got : SUBSET {ids[j] : j \in 1 .. k - 1}]
                      : k \in DOMAIN ids}

\* One query for all.
PgFetch(ids) ==
    [result : {"ok"}, got : SUBSET ToSet(ids)] \union {[result |-> "internal", got |-> {}]}

\* The vtable of the backend in use.
Isrc(http) == IF http THEN HttpIsrc ELSE PgIsrc
Fingerprints(http) == IF http THEN HttpFingerprint ELSE PgFingerprint
Search(http) == IF http THEN HttpSearch ELSE PgSearch
Fetch(http, ids) == IF http THEN HttpFetch(ids) ELSE PgFetch(ids)
=============================================================================
