------------------------------ MODULE MbResolver ------------------------------
(***************************************************************************)
(* Resolving the albums of a library with MusicBrainz (mb_resolver.c):     *)
(* workers look up the release of every untagged album and queue what they *)
(* found; the resolver thread takes batches from the queue, has a prefetch *)
(* thread fetch a batch's releases while it writes the one before, retries *)
(* a failed fetch once on a new connection, gives up after three in a row, *)
(* and marks every album resolved, failed or without a match.              *)
(*                                                                         *)
(* `cancelled' is set at any time and never reset, the process may end at  *)
(* any time, the database may refuse a transaction.  Every run has a       *)
(* resolver of its own, on what the runs before left in the database.      *)
(***************************************************************************)
EXTENDS Integers, FiniteSets, MbServices

CONSTANTS
    Albums, ReleaseOf,  \* the albums, and the release each one really is
    Tagged,             \* albums whose files name their release
    Trackless,          \* albums whose tracks cannot be loaded
    Workers, BatchSize,
    Breaker,            \* failed fetches in a row that end the loop: 3 in the code
    MaxRuns

ASSUME ReleaseAssumption == ReleaseOf \in [Albums -> Releases] /\ None \notin Releases

Reasons == {"cancel", "breaker", "transaction"}

ASSUME NoneAssumption == None \notin Albums \union Reasons

ASSUME BoundsAssumption ==
    /\ IsFiniteSet(Albums) /\ IsFiniteSet(Workers)
    /\ BatchSize \in Nat \ {0} /\ Breaker \in Nat \ {0} /\ MaxRuns \in Nat

VARIABLES
    db,                     \* what is committed: status and release id of every album
    pc, cancelled, runs,
    todo, worker,           \* fp_pool: albums waiting, and the one each worker has
    inline,                 \* lookups are made by the resolver thread
    http, prefetches,       \* the backend is the HTTP one; one more for prefetching could be made
    queue,                  \* resolve_queue
    count, total,           \* album_count, total_processed
    hand, taken,            \* the batch in hand: what has a release, and how many were taken
    pf,                     \* the prefetch thread with the batch it fetches
    writing,                \* the batch being written
    failures,               \* consecutive_pg_failures
    fetched,                \* albums whose release the last fetch for them brought
    settled, lost, answered \* in this run: albums written, given up (and why), truly without a match

vars == <<db, pc, cancelled, runs, todo, worker, inline, http, prefetches, queue, count, total,
          hand, taken, pf, writing, failures, fetched, settled, lost, answered>>

backend == <<inline, http, prefetches>>
lookups == <<todo, worker, backend, queue, answered>>
ghosts  == <<settled, lost>>

Item(a, r, e) == [album |-> a, release |-> r, service_error |-> e]
NoPrefetch    == [state |-> "none", list |-> <<>>, result |-> "ok", got |-> {}]
NoWriting     == [list |-> <<>>, got |-> {}, next |-> "loop"]

AlbumsOf(list)  == {list[j].album : j \in DOMAIN list}
ReleaseIds(list) == [j \in DOMAIN list |-> list[j].release]

Init ==
    /\ db = [a \in Albums |-> [status |-> "pending",
                               release |-> IF a \in Tagged THEN ReleaseOf[a] ELSE None]]
    /\ pc = "idle" /\ cancelled = FALSE /\ runs = 0
    /\ todo = <<>> /\ worker = [w \in Workers |-> None] /\ queue = <<>>
    /\ inline = FALSE /\ http = FALSE /\ prefetches = FALSE
    /\ count = 0 /\ total = 0 /\ hand = <<>> /\ taken = 0
    /\ pf = NoPrefetch /\ writing = NoWriting /\ failures = 0 /\ fetched = {}
    /\ settled = {} /\ lost = [a \in Albums |-> None] /\ answered = {}

BatchOf == SubSeq(queue, 1, Min({BatchSize, Len(queue)}))
QueueAfter == SubSeq(queue, Len(BatchOf) + 1, Len(queue))

-----------------------------------------------------------------------------
(* Start of a run *)

\* Albums without a match are asked about again after a month, the unresolved and the failed always.
Unresolved(monthLater) ==
    {a \in Albums : db[a].status \in {"pending", "failed"} \union
                        (IF monthLater THEN {"no_match"} ELSE {})}

\* The albums without a tag go to the pool; if its backend cannot be made they are queued as failed;
\* and without an AcoustID server they are looked up one after the other.
Ways(web) == {"pool", "no_pool"} \union (IF web THEN {} ELSE {"inline"})

\* Tagged albums are queued right away.
Start ==
    /\ pc = "idle" /\ runs < MaxRuns
    /\ http' \in BOOLEAN /\ prefetches' \in BOOLEAN
    /\ \E monthLater \in BOOLEAN, how \in Ways(http'):
        LET unresolved == Unresolved(monthLater)
            tagged     == SetToSeq({a \in unresolved : db[a].release # None})
            untagged   == SetToSeq({a \in unresolved : db[a].release = None})
            found      == [j \in DOMAIN tagged |-> Item(tagged[j], db[tagged[j]].release, FALSE)]
            failed     == [j \in DOMAIN untagged |-> Item(untagged[j], None, TRUE)]
        IN
        /\ unresolved # {}
        /\ count' = Cardinality(unresolved)
        /\ queue' = IF how = "no_pool" THEN found \o failed ELSE found
        /\ todo' = IF how = "no_pool" THEN <<>> ELSE untagged
        /\ inline' = (how = "inline")
        /\ pc' = IF how = "inline" THEN "inline" ELSE "loop"
    /\ runs' = runs + 1 /\ cancelled' = FALSE
    /\ total' = 0 /\ failures' = 0 /\ fetched' = {}
    /\ settled' = {} /\ lost' = [a \in Albums |-> None] /\ answered' = {}
    /\ UNCHANGED <<db, worker, hand, taken, pf, writing>>

-----------------------------------------------------------------------------
(* Lookups *)

\* What find_release_by_fingerprint returns for an album: its release; an error, if it was the last
\* stage that found the service down; or nothing, which may be the answer, but also what is left when
\* a stage was cut short by cancel, or failed in any other way.
Lookups(a) ==
    {[item |-> Item(a, ReleaseOf[a], FALSE), answered |-> FALSE],
     [item |-> Item(a, None, FALSE), answered |-> TRUE]}
    \union (IF inline THEN {} ELSE {[item |-> Item(a, None, TRUE), answered |-> FALSE]})
    \union (IF cancelled \/ inline \/ http
            THEN {[item |-> Item(a, None, FALSE), answered |-> FALSE]} ELSE {})

LookUp(a) ==
    \E l \in Lookups(a):
        /\ queue' = Append(queue, l.item)
        /\ answered' = IF l.answered THEN answered \union {a} ELSE answered

InlineLookup ==
    /\ pc = "inline" /\ todo # <<>> /\ ~cancelled
    /\ LookUp(Head(todo))
    /\ todo' = Tail(todo)
    /\ UNCHANGED <<db, pc, cancelled, runs, worker, backend, count, total, hand, taken, pf, writing,
                   failures, fetched, settled, lost>>

InlineEnds ==
    /\ pc = "inline" /\ (todo = <<>> \/ cancelled)
    /\ pc' = "loop"
    /\ lost' = [a \in Albums |-> IF a \in ToSet(todo) THEN "cancel" ELSE lost[a]]
    /\ todo' = <<>>
    /\ UNCHANGED <<db, cancelled, runs, worker, backend, queue, count, total, hand, taken, pf, writing,
                   failures, fetched, settled, answered>>

\* A worker takes the next album, or drops it once the run is cancelled.
WorkerTakes(w) ==
    /\ ~inline /\ todo # <<>> /\ worker[w] = None
    /\ todo' = Tail(todo)
    /\ IF cancelled
       THEN lost' = [lost EXCEPT ![Head(todo)] = "cancel"] /\ UNCHANGED worker
       ELSE worker' = [worker EXCEPT ![w] = Head(todo)] /\ UNCHANGED lost
    /\ UNCHANGED <<db, pc, cancelled, runs, backend, queue, count, total, hand, taken, pf, writing,
                   failures, fetched, settled, answered>>

WorkerQueues(w) ==
    /\ worker[w] # None
    /\ LookUp(worker[w])
    /\ worker' = [worker EXCEPT ![w] = None]
    /\ UNCHANGED <<db, pc, cancelled, runs, todo, backend, count, total, hand, taken, pf, writing,
                   failures, fetched, settled, lost>>

-----------------------------------------------------------------------------
(* Batches *)

\* triage_batch: those without a release are done with.
Triage(batch) ==
    LET none == {it \in ToSet(batch) : it.release = None} IN
    /\ db' = [a \in Albums |->
                IF \E it \in none: it.album = a
                THEN [db[a] EXCEPT !.status =
                        IF (CHOOSE it \in none: it.album = a).service_error
                        THEN "failed" ELSE "no_match"]
                ELSE db[a]]
    /\ settled' = settled \union {it.album : it \in none}

\* What has a release keeps its order.
WithRelease(batch) ==
    LET found == {j \in DOMAIN batch : batch[j].release # None} IN
    [k \in 1 .. Cardinality(found) |->
        batch[CHOOSE j \in found : Cardinality({i \in found : i <= j}) = k]]

\* The resolver thread waits for the queue and takes what is there, up to a batch.  A first batch goes
\* to the prefetch thread at once; while one is being fetched the next waits for it.
TakeBatch ==
    /\ pc = "loop" /\ total < count /\ ~cancelled /\ queue # <<>>
    /\ LET list == WithRelease(BatchOf) IN
       /\ Triage(BatchOf)
       /\ queue' = QueueAfter
       /\ IF list # <<>> /\ pf.state = "none" /\ prefetches
          THEN pf' = [NoPrefetch EXCEPT !.state = "running", !.list = list]
          ELSE UNCHANGED pf
       /\ IF list # <<>> /\ (pf.state # "none" \/ ~prefetches)
          THEN /\ hand' = list /\ taken' = Len(BatchOf) /\ UNCHANGED total
               /\ pc' = IF prefetches THEN "join" ELSE "fetch"
          ELSE total' = total + Len(BatchOf) /\ UNCHANGED <<hand, taken, pc>>
    /\ UNCHANGED <<cancelled, runs, todo, worker, backend, count, writing, failures, fetched, lost,
                   answered>>

\* Fault: a cancel is not looked at while the queue is empty.
LoopEndsUncancelled ==
    /\ pc = "loop"
    /\ total >= count
    /\ pc' = IF pf.state = "none" THEN "free" ELSE "last_join"
    /\ UNCHANGED <<db, cancelled, runs, lookups, count, total, hand, taken, pf, writing, failures,
                   fetched, ghosts>>

\* Nothing came for 200 ms and the pool has nothing waiting; what its workers still have is left to
\* the end of the run.
LoopEnds ==
    /\ pc = "loop"
    /\ total >= count \/ cancelled \/ (queue = <<>> /\ todo = <<>>)
    /\ pc' = IF pf.state = "none" THEN "free" ELSE "last_join"
    /\ UNCHANGED <<db, cancelled, runs, lookups, count, total, hand, taken, pf, writing, failures,
                   fetched, ghosts>>

Refetched(list, got) ==
    (fetched \ AlbumsOf(list)) \union {list[j].album : j \in {k \in DOMAIN list : list[k].release \in got}}

PrefetchThread ==
    /\ pf.state = "running"
    /\ \E f \in Fetch(http, ReleaseIds(pf.list)):
        /\ pf' = [pf EXCEPT !.state = "done", !.result = f.result, !.got = f.got]
        /\ fetched' = Refetched(pf.list, f.got)
    /\ UNCHANGED <<db, pc, cancelled, runs, lookups, count, total, hand, taken, writing, failures,
                   ghosts>>

\* Fault: what came for the batch is read after the next prefetch has begun.
SwappedLate(f, got) ==
    /\ writing' = [list |-> pf.list, got |-> NoPrefetch.got, next |-> "loop"]
    /\ pf' = [NoPrefetch EXCEPT !.state = "running", !.list = hand]
    /\ total' = total + taken
    /\ failures' = f
    /\ hand' = <<>> /\ taken' = 0
    /\ pc' = "write"
    /\ UNCHANGED lost

\* Write what was prefetched and fetch what is in hand.
Swapped(f, got) ==
    /\ writing' = [list |-> pf.list, got |-> got, next |-> "loop"]
    /\ pf' = [NoPrefetch EXCEPT !.state = "running", !.list = hand]
    /\ total' = total + taken
    /\ failures' = f
    /\ hand' = <<>> /\ taken' = 0
    /\ pc' = "write"
    /\ UNCHANGED lost

\* The circuit breaker: what was prefetched is written, what is in hand dropped.
Broken(f, got) ==
    /\ writing' = [list |-> pf.list, got |-> got, next |-> "loop"]
    /\ pf' = NoPrefetch
    /\ lost' = [a \in Albums |-> IF a \in AlbumsOf(hand) THEN "breaker" ELSE lost[a]]
    /\ total' = total + taken
    /\ failures' = f
    /\ hand' = <<>> /\ taken' = 0
    /\ pc' = "write"

\* Join the prefetch thread; a failed fetch is made once more, on a new connection.
Join ==
    /\ pc = "join" /\ pf.state = "done"
    /\ IF pf.result = "ok"
       THEN Swapped(0, pf.got) /\ UNCHANGED fetched
       ELSE \E f \in Fetch(http, ReleaseIds(pf.list)):
            /\ fetched' = Refetched(pf.list, f.got)
            /\ IF f.result = "ok" THEN Swapped(0, f.got)
               ELSE IF failures + 1 >= Breaker THEN Broken(failures + 1, f.got)
               ELSE Swapped(failures + 1, f.got)
    /\ UNCHANGED <<db, cancelled, runs, lookups, count, settled>>

\* Without a prefetch thread the batch in hand is fetched, once more if that fails, and written.
FetchInline ==
    /\ pc = "fetch"
    /\ \E f1 \in Fetch(http, ReleaseIds(hand)), f2 \in Fetch(http, ReleaseIds(hand)):
        LET f == IF f1.result = "ok" THEN f1 ELSE f2 IN
        /\ f1.result = "ok" => f2 = f1
        /\ fetched' = Refetched(hand, f.got)
        /\ writing' = [list |-> hand, got |-> f.got, next |-> "loop"]
        /\ failures' = IF f.result = "ok" THEN 0 ELSE failures + 1
    /\ total' = total + taken /\ hand' = <<>> /\ taken' = 0
    /\ pc' = "write"
    /\ UNCHANGED <<db, cancelled, runs, lookups, count, pf, ghosts>>

\* After the loop, the last prefetch.
LastJoin ==
    /\ pc = "last_join" /\ pf.state = "done"
    /\ \E f \in {[result |-> pf.result, got |-> pf.got]} \union Fetch(http, ReleaseIds(pf.list)):
        /\ pf.result = "ok" => f.got = pf.got
        /\ fetched' = Refetched(pf.list, f.got)
        /\ writing' = [list |-> pf.list, got |-> f.got, next |-> "free"]
    /\ pf' = NoPrefetch
    /\ pc' = "write"
    /\ UNCHANGED <<db, cancelled, runs, lookups, count, total, hand, taken, failures, ghosts>>

\* Fault: the workers are not waited for.
FreePoolAtOnce ==
    /\ pc = "free"
    /\ pc' = "rest"
    /\ UNCHANGED <<db, cancelled, runs, lookups, count, total, hand, taken, pf, writing, failures,
                   fetched, ghosts>>

\* The workers are waited for.
FreePool ==
    /\ pc = "free" /\ todo = <<>> /\ \A w \in Workers: worker[w] = None
    /\ pc' = "rest"
    /\ UNCHANGED <<db, cancelled, runs, lookups, count, total, hand, taken, pf, writing, failures,
                   fetched, ghosts>>

\* What they have queued since, batch by batch, each fetched once (process_resolve_batch).
TakeRest ==
    /\ pc = "rest" /\ ~cancelled /\ queue # <<>>
    /\ LET list == WithRelease(BatchOf) IN
       /\ Triage(BatchOf)
       /\ queue' = QueueAfter
       /\ IF list = <<>>
          THEN UNCHANGED <<pc, writing, fetched>>
          ELSE \E f \in Fetch(http, ReleaseIds(list)):
               /\ fetched' = Refetched(list, f.got)
               /\ writing' = [list |-> list, got |-> f.got, next |-> "rest"]
               /\ pc' = "write"
    /\ UNCHANGED <<cancelled, runs, todo, worker, backend, count, total, hand, taken, pf, failures,
                   lost, answered>>

End ==
    /\ pc = "rest" /\ (cancelled \/ queue = <<>>)
    /\ pc' = "idle"
    /\ lost' = [a \in Albums |-> IF a \in AlbumsOf(queue) THEN "cancel" ELSE lost[a]]
    /\ queue' = <<>>
    /\ UNCHANGED <<db, cancelled, runs, todo, worker, backend, count, total, hand, taken, pf, writing,
                   failures, fetched, settled, answered>>

-----------------------------------------------------------------------------
(* Writing *)

Written(it) ==
    IF it.release \in writing.got /\ it.album \notin Trackless
    THEN [status |-> "resolved", release |-> it.release]
    ELSE [db[it.album] EXCEPT !.status = "failed"]

\* The loop is left once the breaker has tripped.
AfterWrite == IF writing.next = "loop" /\ failures >= Breaker THEN "free" ELSE writing.next

\* One transaction for the batch; once cancelled, no further album is prepared.  It may not begin, and
\* a commit that fails rolls it back.
WriteBatch ==
    /\ pc = "write"
    /\ \E n \in 0 .. Len(writing.list), outcome \in {"committed", "begin_failed", "commit_failed"}:
        LET done == {writing.list[j] : j \in 1 .. n}
            rest == AlbumsOf(writing.list) \ {it.album : it \in done}
        IN
        /\ ~cancelled => n = Len(writing.list)
        /\ IF outcome = "committed"
           THEN /\ db' = [a \in Albums |->
                            IF \E it \in done: it.album = a
                            THEN Written(CHOOSE it \in done: it.album = a) ELSE db[a]]
                /\ settled' = settled \union {it.album : it \in done}
                /\ lost' = [a \in Albums |-> IF a \in rest THEN "cancel" ELSE lost[a]]
           ELSE /\ lost' = [a \in Albums |-> IF a \in AlbumsOf(writing.list)
                                             THEN "transaction" ELSE lost[a]]
                /\ UNCHANGED <<db, settled>>
    /\ writing' = NoWriting
    /\ pc' = AfterWrite
    /\ UNCHANGED <<cancelled, runs, lookups, count, total, hand, taken, pf, failures, fetched>>

-----------------------------------------------------------------------------
Cancel ==
    /\ pc # "idle" /\ ~cancelled
    /\ cancelled' = TRUE
    /\ UNCHANGED <<db, pc, runs, lookups, count, total, hand, taken, pf, writing, failures, fetched,
                   ghosts>>

\* The process ends; SQLite rolls back the transaction that was open.
Kill ==
    /\ pc # "idle"
    /\ pc' = "idle" /\ cancelled' = TRUE
    /\ todo' = <<>> /\ worker' = [w \in Workers |-> None] /\ queue' = <<>>
    /\ UNCHANGED backend
    /\ count' = 0 /\ total' = 0 /\ hand' = <<>> /\ taken' = 0
    /\ pf' = NoPrefetch /\ writing' = NoWriting /\ failures' = 0 /\ fetched' = {}
    /\ settled' = {} /\ lost' = [a \in Albums |-> None] /\ answered' = {}
    /\ UNCHANGED <<db, runs>>

Resolver ==
    \/ Start \/ InlineLookup \/ InlineEnds
    \/ TakeBatch \/ LoopEnds \/ Join \/ FetchInline \/ LastJoin
    \/ FreePool \/ TakeRest \/ End \/ WriteBatch

Worker(w) == WorkerTakes(w) \/ WorkerQueues(w)

Next ==
    \/ Resolver
    \/ \E w \in Workers: Worker(w)
    \/ PrefetchThread
    \/ Cancel \/ Kill

Spec == Init /\ [][Next]_vars

\* The resolver thread, the prefetch thread and the workers run on.
Fairness ==
    /\ WF_vars(pc # "idle" /\ Resolver)
    /\ WF_vars(PrefetchThread)
    /\ \A w \in Workers: WF_vars(Worker(w))

FairSpec == Spec /\ Fairness
-----------------------------------------------------------------------------
(* Properties *)

\* An item names no release or the right one; only those that name one are fetched.
Items ==
    {it \in [album : Albums, release : Releases \union {None}, service_error : BOOLEAN] :
        it.release \in {None, ReleaseOf[it.album]}}
Found == {it \in Items : it.release # None}

ListsTyped ==
    /\ todo \in Seq(Albums) /\ worker \in [Workers -> Albums \union {None}]
    /\ queue \in Seq(Items) /\ hand \in Seq(Found) /\ taken \in Nat
    /\ pf \in [state : {"none", "running", "done"}, list : Seq(Found),
               result : {"ok", "unavailable", "internal"}, got : SUBSET Releases]
    /\ writing \in [list : Seq(Found), got : SUBSET Releases, next : {"loop", "free", "rest"}]

TypeOK ==
    /\ db \in [Albums -> [status : {"pending", "resolved", "no_match", "failed"},
                          release : Releases \union {None}]]
    /\ pc \in {"idle", "inline", "loop", "join", "fetch", "last_join", "free", "rest", "write"}
    /\ cancelled \in BOOLEAN /\ inline \in BOOLEAN /\ http \in BOOLEAN /\ prefetches \in BOOLEAN
    /\ runs \in 0 .. MaxRuns /\ failures \in 0 .. Breaker
    /\ count \in 0 .. Cardinality(Albums) /\ total \in 0 .. count
    /\ ListsTyped
    /\ settled \subseteq Albums /\ answered \subseteq Albums /\ fetched \subseteq Albums
    /\ lost \in [Albums -> Reasons \union {None}]

Times(list, a) == Cardinality({j \in DOMAIN list : list[j].album = a})

Holders(a) ==
    Cardinality({j \in DOMAIN todo : todo[j] = a}) + Cardinality({w \in Workers : worker[w] = a})
    + Times(queue, a) + Times(hand, a) + Times(pf.list, a) + Times(writing.list, a)
    + (IF a \in settled THEN 1 ELSE 0) + (IF lost[a] # None THEN 1 ELSE 0)

\* Every album of a run is in one place: waiting for a worker, with one, queued, in hand, being
\* fetched, being written, written, or given up, for a reason the run really has.  When the run is
\* over none is left anywhere: whatever the order of workers, prefetches, retries and the breaker,
\* each was written once, or was given up.
AlbumsAccounted ==
    /\ \A a \in Albums: Holders(a) <= 1
    /\ Cardinality({a \in Albums : Holders(a) = 1}) = count
    /\ \A a \in Albums:
        /\ lost[a] = "cancel" => cancelled
        /\ lost[a] = "breaker" => failures >= Breaker
        /\ pc = "idle" /\ Holders(a) = 1 => a \in settled \/ lost[a] # None

\* What a run writes for an album is what was fetched for it: resolved albums get their own release,
\* and one whose release did come, with its tracks there, is not marked failed, although the table
\* that is written and the one that is being filled change places batch after batch.
WrittenAsFetched ==
    \A a \in settled:
        /\ db[a].status = "resolved" => a \in fetched /\ db[a].release = ReleaseOf[a]
        /\ db[a].status = "failed" /\ a \notin Trackless => a \notin fetched

\* A run comes to its end, also after a cancel, with the services down, or with a database that
\* refuses its transactions.
RunEnds == pc # "idle" ~> pc = "idle"

\* An album is marked as one without a match, and not asked about for a month, when the services have
\* said so.
NoMatchIsAnswered == \A a \in settled: db[a].status = "no_match" => a \in answered
=============================================================================
