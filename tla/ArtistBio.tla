------------------------------ MODULE ArtistBio ------------------------------
(***************************************************************************)
(* Biographies of artists from Wikipedia (indexer/artist_bio.c) and the    *)
(* database they are kept in (database/db_bios.c).  Two workers of a pool  *)
(* ask for one artist each and put what they found in a queue; the thread  *)
(* of the scan takes it from there and writes it in batches.  An artist    *)
(* for whom nothing was found gets an empty row, the sentinel, and is      *)
(* never asked for again.                                                  *)
(***************************************************************************)
EXTENDS Naturals, Sequences, FiniteSets

CONSTANTS
    Artists,        \* those with an MBID
    Workers,        \* BIO_NUM_WORKERS of them
    Attempts,       \* attempts of one request
    BatchSize,      \* BIO_BATCH_SIZE
    ErrorLimit,     \* CONSECUTIVE_ERROR_LIMIT
    None,
    MaxRuns,        \* bound: runs of the phase
    MaxEvents       \* bound: requests that fail, cancels, time-outs, kills, failing transactions

VARIABLES
    article,    \* the artists Wikipedia has an article of
    rows,       \* rows[x]: "bio", "sentinel" or None, as committed
    txn,        \* what the open transaction has written, or None
    jobs,       \* work items of the pool that no worker has taken yet
    busy,       \* busy[w]: the worker's artist, request (1 .. 3) and attempt, or None
    results,    \* result_queue
    main,       \* where artist_bio_fetch_all is
    work, received, errors, batch,      \* its variables
    cancel,
    failed,     \* artists for whom some request failed
    runs, events

store == <<rows, txn>>
pool  == <<jobs, busy, results>>
loop  == <<main, work, received, errors, batch>>
rest  == <<cancel, failed, runs, events>>
vars == <<article, store, pool, loop, rest>>

Found == {"bio", "sentinel"}

TypeOK ==
    /\ article \subseteq Artists
    /\ rows \in [Artists -> Found \cup {None}]
    /\ jobs \subseteq Artists
    /\ \A w \in Workers :
        busy[w] = None \/ busy[w] \in [artist : Artists, request : 1 .. 3, attempt : 1 .. Attempts]
    /\ results \in Seq([artist : Artists, bio : BOOLEAN, error : BOOLEAN])
    /\ main \in {"idle", "consume", "free", "close"}
    /\ work \subseteq Artists /\ received \in 0 .. Cardinality(Artists)
    /\ errors \in 0 .. ErrorLimit /\ batch \in 0 .. BatchSize
    /\ runs \in 0 .. MaxRuns /\ events \in 0 .. MaxEvents

Init ==
    /\ article \in SUBSET Artists
    /\ rows = [x \in Artists |-> None] /\ txn = None
    /\ jobs = {} /\ busy = [w \in Workers |-> None] /\ results = <<>>
    /\ main = "idle" /\ work = {} /\ received = 0 /\ errors = 0 /\ batch = 0
    /\ cancel = FALSE /\ failed = {} /\ runs = 0 /\ events = 0

Event == events < MaxEvents /\ events' = events + 1

(***************************************************************************)
(* The database.  An upsert outside a transaction is committed at once; a  *)
(* commit that fails rolls back.                                           *)
(***************************************************************************)
Over(old, new) == [x \in Artists |-> IF new[x] = None THEN old[x] ELSE new[x]]
Nothing == [x \in Artists |-> None]

Contents(t) == IF t = None THEN Nothing ELSE t

\* BEGIN IMMEDIATE may find another process writing.
Started ==
    \/ txn' = Nothing /\ UNCHANGED events
    \/ Event /\ txn' = None

\* COMMIT and BEGIN IMMEDIATE, with `committed' on disk and `t' in the transaction.
CommitAndBegin(committed, t) ==
    \/ rows' = Over(committed, Contents(t)) /\ Started
    \/ Event /\ t # None /\ rows' = committed /\ txn' = Nothing

Row(x, value) == [y \in Artists |-> IF y = x THEN value ELSE None]

\* Where INSERT OR REPLACE puts a row: (on disk, in the transaction).
Upserted(x, value) ==
    IF txn = None THEN <<Over(rows, Row(x, value)), None>>
    ELSE <<rows, Over(txn, Row(x, value))>>

ToFetch == {x \in Artists : rows[x] = None}

Begin ==
    /\ main = "idle" /\ runs < MaxRuns
    /\ runs' = runs + 1
    /\ cancel' = FALSE
    /\ work' = ToFetch /\ received' = 0 /\ errors' = 0 /\ batch' = 0
    /\ IF work' = {} THEN UNCHANGED <<main, jobs, txn, events>>
       ELSE main' = "consume" /\ jobs' = work' /\ Started
    /\ UNCHANGED <<article, rows, busy, results, failed>>

(***************************************************************************)
(* A worker: MBID to Wikidata, Wikidata to the title of an article, title  *)
(* to its summary.                                                         *)
(***************************************************************************)
Take(w) ==
    /\ busy[w] = None
    /\ \E x \in jobs :
        /\ jobs' = jobs \ {x}
        /\ busy' = IF cancel THEN busy
                   ELSE [busy EXCEPT ![w] = [artist |-> x, request |-> 1, attempt |-> 1]]
    /\ UNCHANGED <<article, store, results, loop, rest>>

\* A bug for TLC to find: nothing is said of an artist whose first request failed.
GiveOnlyFound(w, bio) ==
    /\ results' = IF ~bio /\ busy[w].request = 1 THEN results
                  ELSE Append(results, [artist |-> busy[w].artist, bio |-> bio, error |-> FALSE])
    /\ busy' = [busy EXCEPT ![w] = None]

\* The result, with the error flag that only the first request sets.
Give(w, bio) ==
    /\ results' = Append(results, [artist |-> busy[w].artist, bio |-> bio,
                                   error |-> ~bio /\ busy[w].request = 1])
    /\ busy' = [busy EXCEPT ![w] = None]

GiveUp(w) == Give(w, FALSE)

\* The request brings what was asked for; there is no article.
Answered(w) ==
    LET x == busy[w].artist IN
    /\ \/ /\ x \in article
          /\ IF busy[w].request = 3 THEN Give(w, TRUE)
             ELSE /\ busy' = [busy EXCEPT ![w].request = @ + 1, ![w].attempt = 1]
                  /\ UNCHANGED results
       \/ /\ x \notin article
          /\ results' = Append(results, [artist |-> x, bio |-> FALSE, error |-> FALSE])
          /\ busy' = [busy EXCEPT ![w] = None]
    /\ UNCHANGED <<failed, events>>

\* 429 and 5xx are repeated, a refusal and a broken connection are not.
Refused(w) ==
    /\ Event
    /\ failed' = failed \cup {busy[w].artist}
    /\ \/ /\ busy[w].attempt < Attempts
          /\ busy' = [busy EXCEPT ![w].attempt = @ + 1] /\ UNCHANGED results
       \/ GiveUp(w)

Request(w) ==
    /\ busy[w] # None
    /\ \/ cancel /\ GiveUp(w) /\ UNCHANGED <<failed, events>>
       \/ Answered(w)
       \/ Refused(w)
    /\ UNCHANGED <<article, store, jobs, loop, cancel, runs>>

(***************************************************************************)
(* The thread of the scan.                                                 *)
(***************************************************************************)
Leave ==
    /\ CommitAndBegin(rows, txn)
    /\ main' = "free" /\ batch' = 0

\* It looks every 200 ms, result or not, whether to stop, because the scan is cancelled or the
\* phase has taken half an hour (a time-out is an event); the result is dropped.
Stopped ==
    /\ main = "consume"
    /\ results' = IF results = <<>> THEN results ELSE Tail(results)
    /\ \/ cancel /\ Leave
       \/ ~cancel /\ Event /\ rows' = Over(rows, Contents(txn)) /\ txn' = Nothing
          /\ main' = "free" /\ batch' = 0
    /\ UNCHANGED <<article, jobs, busy, work, received, errors, cancel, failed, runs>>

TooMany(result) == result.error /\ errors + 1 >= ErrorLimit

\* Three failures in a row end the phase, and the third result is dropped.
Abort ==
    /\ main = "consume" /\ ~cancel /\ results # <<>> /\ TooMany(Head(results))
    /\ results' = Tail(results)
    /\ received' = received + 1 /\ errors' = errors + 1
    /\ Leave
    /\ UNCHANGED <<article, jobs, busy, work, cancel, failed, runs>>

\* Writing the result; a full batch is committed.
Written(result) ==
    LET after == Upserted(result.artist, IF result.bio THEN "bio" ELSE "sentinel") IN
    IF batch + 1 >= BatchSize
      THEN batch' = 0 /\ CommitAndBegin(after[1], after[2])
      ELSE batch' = batch + 1 /\ rows' = after[1] /\ txn' = after[2] /\ UNCHANGED events

Consume ==
    /\ main = "consume" /\ ~cancel /\ results # <<>> /\ ~TooMany(Head(results))
    /\ results' = Tail(results)
    /\ received' = received + 1
    /\ errors' = IF Head(results).error THEN errors + 1 ELSE 0
    /\ Written(Head(results))
    /\ UNCHANGED <<article, jobs, busy, main, work, cancel, failed, runs>>

AllReceived ==
    /\ main = "consume" /\ received = Cardinality(work)
    /\ main' = "free"
    /\ UNCHANGED <<article, store, pool, work, received, errors, batch, rest>>

\* g_thread_pool_free drops what no worker has taken and waits for the rest.
FreePool ==
    /\ main = "free"
    /\ jobs' = {}
    /\ \A w \in Workers : busy[w] = None
    /\ main' = "close"
    /\ UNCHANGED <<article, store, busy, results, work, received, errors, batch, rest>>

\* Leftover results are dropped, the last batch committed.
Close ==
    /\ main = "close"
    /\ results' = <<>>
    /\ txn' = None
    /\ \/ rows' = Over(rows, Contents(txn)) /\ UNCHANGED events
       \/ Event /\ UNCHANGED rows
    /\ main' = "idle"
    /\ UNCHANGED <<article, jobs, busy, work, received, errors, batch, cancel, failed, runs>>

-----------------------------------------------------------------------------
Cancel ==
    /\ Event /\ main # "idle" /\ ~cancel
    /\ cancel' = TRUE
    /\ UNCHANGED <<article, store, pool, loop, failed, runs>>

Kill ==
    /\ Event /\ main # "idle"
    /\ txn' = None /\ jobs' = {} /\ busy' = [w \in Workers |-> None] /\ results' = <<>>
    /\ main' = "idle"
    /\ UNCHANGED <<article, rows, work, received, errors, batch, cancel, failed, runs>>

MainStep == Stopped \/ Abort \/ Consume \/ AllReceived \/ FreePool \/ Close

Next ==
    \/ Begin \/ MainStep \/ Cancel \/ Kill
    \/ \E w \in Workers : Take(w) \/ Request(w)

\* Every request ends some time; the session sets no timeout of its own.
Fairness ==
    /\ WF_vars(main # "idle" /\ MainStep)
    /\ \A w \in Workers : WF_vars(Take(w)) /\ WF_vars(busy[w] # None /\ Request(w))

Spec == Init /\ [][Next]_vars

-----------------------------------------------------------------------------
InResults == {results[j].artist : j \in DOMAIN results}
Asked == {busy[w].artist : w \in {v \in Workers : busy[v] # None}}

\* The loop counts results: every artist it waits for is at any time in one place, with the
\* pool, with a worker, in the queue, or counted, so that it neither ends early nor waits for
\* a result that never comes.
WorkAccounted ==
    main = "consume" /\ ~cancel =>
        /\ received + Len(results) + Cardinality(Asked) + Cardinality(jobs) = Cardinality(work)
        /\ Cardinality(InResults) = Len(results)
        /\ jobs \cap Asked = {} /\ jobs \cap InResults = {} /\ Asked \cap InResults = {}

\* An artist is only written off as having no biography if Wikipedia has no article, or a
\* request failed: a scan that is cancelled, in whatever request, leaves no such mark.
WrittenOffRightly == \A x \in Artists : rows[x] = "sentinel" => x \notin article \/ x \in failed

\* A row stays as it was committed: no later scan, batch or failure takes a biography away.
RowsStay == [][\A x \in Artists : rows[x] # None => rows'[x] = rows[x]]_vars

BiosSound == WorkAccounted /\ WrittenOffRightly

\* The phase ends.
Working == main # "idle"
BiosEnd == Working ~> ~Working

\* Not so in the code: an artist for whom a request failed is asked for again.
FailedIsAskedAgain == \A x \in failed : rows[x] # "sentinel"
=============================================================================
