---------------------------- MODULE AudioCache ----------------------------
(***************************************************************************)
(* The decoded-audio cache, src/audio/cache.c.                             *)
(*                                                                         *)
(* The main thread (UI, timers) calls load, lock, get_locked, unlock,      *)
(* cancel_load, the TTL sweep and destroy; up to MaxWorkers threads of the *)
(* decode pool fill buffers and evict.  cache->lock is a mutex: a critical *)
(* section is one step, except the two walks over the LRU list, which are  *)
(* one step per list element because the flags they read are atomics that  *)
(* other workers set without the mutex.                                    *)
(*                                                                         *)
(* A buffer is an object of its own: two buffers of the same track can be  *)
(* alive at once when one is freed under the worker that still fills it.   *)
(* An identity is reused once its buffer is freed and its worker is done.  *)
(***************************************************************************)
EXTENDS Integers, Sequences, FiniteSets, SequencesExt

CONSTANTS
  Tracks,       \* track ids
  Buffers,      \* identities of audio_buffer_t objects
  NoBuffer,     \* "not in the hash table"
  Size,         \* Size[t]: memory of the decoded track t, in units
  Limit,        \* cache->memory_limit, in units
  Modulus,      \* size_t arithmetic is modulo Modulus
  MaxWorkers,   \* AUDIO_CACHE_MAX_DECODE_WORKERS
  MaxHolds,     \* bound: locks a client holds on one track at a time
  MaxLocks,     \* bound: lock_count of one buffer
  Preemptible   \* FALSE: no thread runs between a worker's store of
                \* decode_complete / decode_failed and its cleanup section

ASSUME CacheAssumption ==
  /\ NoBuffer \notin Buffers
  /\ Tracks # {}
  /\ Size \in [Tracks -> Nat \ {0}]
  /\ Limit \in Nat
  /\ Modulus \in Nat \ {0}
  /\ IsFiniteSet(Buffers)
  /\ MaxWorkers \in Nat \ {0}
  /\ MaxHolds \in Nat
  /\ MaxLocks \in Nat
  /\ Preemptible \in BOOLEAN

\* Sizes for instances whose tracks are numbers: track t takes t units.
Numbered == [t \in Tracks |-> t]

VARIABLES
  index,   \* cache->buffers: track -> buffer
  lru,     \* cache->lru: most recently used first
  buf,     \* the fields of each audio_buffer_t
  used,    \* cache->memory_used
  tasks,   \* tasks the decode pool has not started
  phase,   \* where the worker of each buffer is
  walk,    \* the walk in progress under cache->lock
  main,    \* the API call the main thread is in
  held,    \* locks clients have taken on each track and not given back
  timer,   \* cache->pending_unlocks: a deferred unlock is scheduled
  life     \* of the cache

vars == <<index, lru, buf, used, tasks, phase, walk, main, held, timer, life>>

Flags == [track: Tracks, locks: Nat, mem: Nat, complete: BOOLEAN,
          failed: BOOLEAN, cancelled: BOOLEAN, fresh: BOOLEAN]
Phases == {"idle", "queued", "decoding", "decoded", "publishing", "failing"}
NoWalk == [kind |-> "none", pos |-> 0]
Ready == [at |-> "ready", track |-> NoBuffer]

Cached(b) == \E t \in Tracks : index[t] = b
Present(t) == index[t] # NoBuffer
MutexFree == walk = NoWalk
Running == {b \in Buffers : phase[b] \notin {"idle", "queued"}}
BusyWorkers == Cardinality(Running) + (IF walk.kind = "evict" THEN 1 ELSE 0)

(* Between a worker's store of a final flag and its cleanup section.       *)
InWindow(b) == phase[b] \in {"publishing", "failing"}
Calm == Preemptible \/ \A b \in Buffers : ~InWindow(b)

Alive == life \in {"up", "closing"}
InCall == life = "up" /\ Calm
MainIdle == InCall /\ main = Ready /\ walk.kind # "sweep"

(* Faults of buffer_in_use: no lock_count test, no in-flight test.          *)
InUseIgnoresLocks(b) == ~buf[b].complete /\ ~buf[b].failed

(* buffer_in_use                                                           *)
InUse(b) == buf[b].locks > 0 \/ (~buf[b].complete /\ ~buf[b].failed)

(* audio_cache_get_status and the result of audio_cache_lock               *)
Status(t) ==
  IF ~Present(t) THEN "absent"
  ELSE IF buf[index[t]].failed THEN "failed"
  ELSE IF buf[index[t]].complete THEN "ready" ELSE "loading"

(* An unlocked tombstone is decoded afresh; fault: a locked one too.        *)
RetriesLocked(b) == buf[b].failed
Retried(b) == buf[b].failed /\ buf[b].locks = 0

PositionOf(b) == CHOOSE i \in 1..Len(lru) : lru[i] = b
NotUnlinked(b) == lru    \* fault: g_queue_unlink forgotten
Unlinked(b) == RemoveAt(lru, PositionOf(b))
Touched(b) == <<b>> \o Unlinked(b)
-----------------------------------------------------------------------------
NewBuffer(t) == [track |-> t, locks |-> 0, mem |-> 0, complete |-> FALSE,
                 failed |-> FALSE, cancelled |-> FALSE, fresh |-> FALSE]

(* buffer_free.  The worker of a buffer freed too early still sees its old *)
(* contents; what nobody refers to any more is kept blank.                 *)
Blank == NewBuffer(CHOOSE t \in Tracks : TRUE)
Freed(b) == [buf EXCEPT ![b] = IF phase[b] = "idle" THEN Blank ELSE @]

Init ==
  /\ index = [t \in Tracks |-> NoBuffer]
  /\ lru = <<>>
  /\ buf = [b \in Buffers |-> Blank]
  /\ used = 0
  /\ tasks = <<>>
  /\ phase = [b \in Buffers |-> "idle"]
  /\ walk = NoWalk
  /\ main = Ready
  /\ held = [t \in Tracks |-> 0]
  /\ timer = [t \in Tracks |-> FALSE]
  /\ life = "up"
-----------------------------------------------------------------------------
(* The main thread.                                                        *)

(* audio_cache_load, first critical section: a live buffer is touched, an  *)
(* unlocked tombstone is dropped and decoded afresh.                       *)
Load(t) ==
  /\ MainIdle /\ MutexFree
  /\ IF Present(t) /\ ~Retried(index[t])
     THEN /\ lru' = Touched(index[t])
          /\ buf' = [buf EXCEPT ![index[t]].fresh = TRUE]
          /\ main' = [at |-> "loaded", track |-> t]
          /\ UNCHANGED index
     ELSE /\ lru' = IF Present(t) THEN Unlinked(index[t]) ELSE lru
          /\ index' = [index EXCEPT ![t] = NoBuffer]
          /\ main' = [at |-> "insert", track |-> t]
          /\ buf' = IF Present(t) THEN Freed(index[t]) ELSE buf
  /\ UNCHANGED <<used, tasks, phase, walk, held, timer, life>>

(* audio_cache_load, second critical section and the push of the task.     *)
LoadInsert(b) ==
  /\ InCall /\ main.at = "insert" /\ MutexFree
  /\ ~Cached(b) /\ phase[b] = "idle"
  /\ index' = [index EXCEPT ![main.track] = b]
  /\ lru' = <<b>> \o lru
  /\ buf' = [buf EXCEPT ![b] = NewBuffer(main.track)]
  /\ tasks' = Append(tasks, b)
  /\ phase' = [phase EXCEPT ![b] = "queued"]
  /\ main' = [main EXCEPT !.at = "loaded"]
  /\ UNCHANGED <<used, walk, held, timer, life>>

(* audio_cache_load when the path does not resolve or the pool refuses the *)
(* task: nothing stays in the cache, and a dropped tombstone stays dropped.*)
LoadFails ==
  /\ InCall /\ main.at = "insert" /\ MutexFree
  /\ main' = Ready
  /\ UNCHANGED <<index, lru, buf, used, tasks, phase, walk, held, timer, life>>

(* The caller of load returns to the main loop without locking.            *)
LoadOnly ==
  /\ InCall /\ main.at = "loaded"
  /\ main' = Ready
  /\ UNCHANGED <<index, lru, buf, used, tasks, phase, walk, held, timer, life>>

(* audio_cache_lock: g_error, which aborts, when the track is not there.   *)
Lock ==
  /\ InCall /\ main.at = "loaded" /\ MutexFree
  /\ main' = Ready
  /\ LET t == main.track IN
     \/ /\ Present(t) /\ held[t] < MaxHolds /\ buf[index[t]].locks < MaxLocks
        /\ buf' = [buf EXCEPT ![index[t]].locks = @ + 1]
        /\ held' = [held EXCEPT ![t] = @ + 1]
        /\ UNCHANGED life
     \/ /\ ~Present(t)
        /\ life' = "aborted"
        /\ UNCHANGED <<buf, held>>
  /\ UNCHANGED <<index, lru, used, tasks, phase, walk, timer>>

(* cache_unlock_now: g_error on a missing track or an underflow.           *)
Release(t) ==
  IF Present(t) /\ buf[index[t]].locks > 0
  THEN buf' = [buf EXCEPT ![index[t]].locks = @ - 1] /\ UNCHANGED life
  ELSE life' = "aborted" /\ UNCHANGED buf

(* audio_cache_unlock(IMMEDIATE) by a client that holds a lock.            *)
UnlockNow(t) ==
  /\ MainIdle /\ MutexFree /\ held[t] > 0
  /\ Release(t)
  /\ held' = [held EXCEPT ![t] = @ - 1]
  /\ UNCHANGED <<index, lru, used, tasks, phase, walk, main, timer>>

(* audio_cache_unlock(DEFERRED): an earlier timer of the same track is     *)
(* removed and its unlock with it; cache->lock is not taken.               *)
UnlockDeferred(t) ==
  /\ MainIdle /\ held[t] > 0
  /\ timer' = [timer EXCEPT ![t] = TRUE]
  /\ held' = [held EXCEPT ![t] = @ - 1]
  /\ UNCHANGED <<index, lru, buf, used, tasks, phase, walk, main, life>>

(* delayed_unlock_callback                                                 *)
UnlockTimer(t) ==
  /\ MainIdle /\ MutexFree /\ timer[t]
  /\ timer' = [timer EXCEPT ![t] = FALSE]
  /\ Release(t)
  /\ UNCHANGED <<index, lru, used, tasks, phase, walk, main, held>>

(* audio_cache_get_locked by a client that holds a lock.                   *)
GetLocked(t) ==
  /\ MainIdle /\ MutexFree /\ held[t] > 0
  /\ IF ~Present(t) \/ buf[index[t]].locks <= 0
     THEN life' = "aborted" /\ UNCHANGED <<lru, buf>>
     ELSE /\ buf[index[t]].complete
          /\ lru' = Touched(index[t])
          /\ buf' = [buf EXCEPT ![index[t]].fresh = TRUE]
          /\ UNCHANGED life
  /\ UNCHANGED <<index, used, tasks, phase, walk, main, held, timer>>

(* audio_cache_cancel_load                                                 *)
CancelLoad(t) ==
  /\ MainIdle /\ MutexFree /\ Present(t)
  /\ ~buf[index[t]].complete
  /\ buf' = [buf EXCEPT ![index[t]].cancelled = TRUE]
  /\ UNCHANGED <<index, lru, used, tasks, phase, walk, main, held, timer, life>>

(* AUDIO_CACHE_TTL_US passes: what nobody touches from here on is stale.   *)
TimePasses ==
  /\ Alive /\ Calm
  /\ \E b \in Buffers : buf[b].fresh
  /\ buf' = [b \in Buffers |-> [buf[b] EXCEPT !.fresh = FALSE]]
  /\ UNCHANGED <<index, lru, used, tasks, phase, walk, main, held, timer, life>>

(* sweep_timer_cb takes the mutex and starts at the tail.                  *)
SweepBegin ==
  /\ MainIdle /\ MutexFree /\ lru # <<>>
  /\ walk' = [kind |-> "sweep", pos |-> Len(lru)]
  /\ UNCHANGED <<index, lru, buf, used, tasks, phase, main, held, timer, life>>
-----------------------------------------------------------------------------
(* The walks of evict_lru and audio_cache_sweep_stale.                     *)

Over == used > Limit

(* The walk goes on past an element that is in use ...                     *)
WalkOn ==
  /\ Alive /\ Calm /\ walk.pos > 0
  /\ walk.kind = "evict" => Over

(* Faults: the walk ends at, or never gets past, an element in use.         *)
WalkSkipEnds ==
  /\ WalkOn /\ InUse(lru[walk.pos])
  /\ walk' = NoWalk
  /\ UNCHANGED <<index, lru, buf, used, tasks, phase, main, held, timer, life>>

WalkSkip ==
  /\ WalkOn /\ InUse(lru[walk.pos])
  /\ walk' = [walk EXCEPT !.pos = @ - 1]
  /\ UNCHANGED <<index, lru, buf, used, tasks, phase, main, held, timer, life>>

(* ... and frees one that is not (the sweep: not unless it is stale) ...   *)
WalkReclaim ==
  /\ WalkOn
  /\ LET b == lru[walk.pos] IN
     /\ ~InUse(b)
     /\ walk.kind = "sweep" => ~buf[b].fresh
     /\ used' = (used - buf[b].mem) % Modulus
     /\ index' = [index EXCEPT ![buf[b].track] = NoBuffer]
     /\ lru' = RemoveAt(lru, walk.pos)
     /\ walk' = [walk EXCEPT !.pos = @ - 1]
     /\ buf' = Freed(b)
  /\ UNCHANGED <<tasks, phase, main, held, timer, life>>

(* ... until the list, the excess or the stale buffers end.                *)
WalkEnd ==
  /\ Alive /\ Calm /\ walk # NoWalk
  /\ \/ ~WalkOn
     \/ /\ walk.kind = "sweep" /\ WalkOn
        /\ ~InUse(lru[walk.pos]) /\ buf[lru[walk.pos]].fresh
  /\ walk' = NoWalk
  /\ UNCHANGED <<index, lru, buf, used, tasks, phase, main, held, timer, life>>
-----------------------------------------------------------------------------
(* The decode pool: decode_worker.                                         *)

Start ==
  /\ Alive /\ Calm
  /\ tasks # <<>> /\ BusyWorkers < MaxWorkers
  /\ tasks' = Tail(tasks)
  /\ phase' = [phase EXCEPT ![Head(tasks)] = "decoding"]
  /\ UNCHANGED <<index, lru, buf, used, walk, main, held, timer, life>>

(* The decoder is open: samples for the estimated duration plus 10%.       *)
Allocate(b) ==
  /\ Alive /\ Calm /\ phase[b] = "decoding" /\ buf[b].mem = 0
  /\ buf' = [buf EXCEPT ![b].mem = Size[buf[b].track] + 1]
  /\ UNCHANGED <<index, lru, used, tasks, phase, walk, main, held, timer, life>>

(* Open or read error: decode_failed is stored before cleanup takes the    *)
(* mutex.                                                                  *)
DecodeError(b) ==
  /\ Alive /\ Calm /\ phase[b] = "decoding" /\ (Preemptible \/ MutexFree)
  /\ buf' = [buf EXCEPT ![b].failed = TRUE]
  /\ phase' = [phase EXCEPT ![b] = "failing"]
  /\ UNCHANGED <<index, lru, used, tasks, walk, main, held, timer, life>>

(* The loop ends: on cancellation straight to cleanup, else at the end of  *)
(* the file.                                                               *)
DecodeStop(b) ==
  /\ Alive /\ Calm /\ phase[b] = "decoding" /\ buf[b].mem > 0
  /\ buf[b].cancelled => Preemptible \/ MutexFree
  /\ phase' = [phase EXCEPT ![b] = IF buf[b].cancelled THEN "failing"
                                   ELSE "decoded"]
  /\ UNCHANGED <<index, lru, buf, used, tasks, walk, main, held, timer, life>>

(* The result is published without the mutex.                              *)
Publish(b) ==
  /\ Alive /\ Calm /\ phase[b] = "decoded" /\ (Preemptible \/ MutexFree)
  /\ buf' = [buf EXCEPT ![b].mem = Size[buf[b].track],
                        ![b].fresh = TRUE, ![b].complete = TRUE]
  /\ phase' = [phase EXCEPT ![b] = "publishing"]
  /\ UNCHANGED <<index, lru, used, tasks, walk, main, held, timer, life>>

(* cleanup after success: account for the memory, then evict_lru.          *)
CleanupDone(b) ==
  /\ Alive /\ phase[b] = "publishing" /\ MutexFree /\ Cached(b)
  /\ used' = (used + buf[b].mem) % Modulus
  /\ walk' = [kind |-> "evict", pos |-> Len(lru)]
  /\ phase' = [phase EXCEPT ![b] = "idle"]
  /\ UNCHANGED <<index, lru, buf, tasks, main, held, timer, life>>

(* Faults: the tombstone keeps its memory, or is not marked failed.         *)
CleanupFailedWith(b, changed) ==
  /\ Alive /\ phase[b] = "failing" /\ MutexFree /\ Cached(b)
  /\ buf' = [buf EXCEPT ![b] = changed]
  /\ phase' = [phase EXCEPT ![b] = "idle"]
  /\ UNCHANGED <<index, lru, used, tasks, walk, main, held, timer, life>>
CleanupFailedHeavy(b) ==
  CleanupFailedWith(b, [buf[b] EXCEPT !.fresh = TRUE, !.failed = TRUE])
CleanupFailedSilent(b) ==
  CleanupFailedWith(b, [buf[b] EXCEPT !.mem = 0, !.fresh = TRUE])

(* cleanup after a failure: a zero-byte tombstone stays.                   *)
CleanupFailed(b) ==
  /\ Alive /\ phase[b] = "failing" /\ MutexFree /\ Cached(b)
  /\ buf' = [buf EXCEPT ![b].mem = 0, ![b].fresh = TRUE, ![b].failed = TRUE]
  /\ phase' = [phase EXCEPT ![b] = "idle"]
  /\ UNCHANGED <<index, lru, used, tasks, walk, main, held, timer, life>>

(* Either cleanup on a buffer freed under the worker: undefined.  The      *)
(* memory may still hold what it held, or the heap is corrupted and the    *)
(* process dies.                                                           *)
CleanupFreed(b) ==
  /\ Alive /\ InWindow(b) /\ MutexFree /\ ~Cached(b)
  /\ phase' = [phase EXCEPT ![b] = "idle"]
  /\ \/ /\ life' = "aborted" /\ UNCHANGED <<used, walk>>
     \/ /\ IF phase[b] = "publishing"
           THEN /\ used' = (used + buf[b].mem) % Modulus
                /\ walk' = [kind |-> "evict", pos |-> Len(lru)]
           ELSE UNCHANGED <<used, walk>>
        /\ UNCHANGED life
  /\ buf' = [buf EXCEPT ![b] = Blank]
  /\ UNCHANGED <<index, lru, tasks, main, held, timer>>
-----------------------------------------------------------------------------
(* audio_cache_destroy: no sweep any more, every unfinished load cancelled,*)
(* queued tasks dropped by the pool, running ones waited for.              *)
DestroyBegin ==
  /\ MainIdle /\ MutexFree
  /\ life' = "closing"
  /\ buf' = [b \in Buffers |->
               IF Cached(b) /\ ~buf[b].complete
               THEN [buf[b] EXCEPT !.cancelled = TRUE] ELSE buf[b]]
  /\ tasks' = <<>>
  /\ phase' = [b \in Buffers |->
                 IF phase[b] = "queued" THEN "idle" ELSE phase[b]]
  /\ UNCHANGED <<index, lru, used, walk, main, held, timer>>

(* Fault: the workers still running are not waited for.                     *)
DestroyEndEarly ==
  /\ life = "closing" /\ MutexFree
  /\ life' = "gone"
  /\ timer' = [t \in Tracks |-> FALSE]
  /\ buf' = [b \in Buffers |-> Blank]
  /\ index' = [t \in Tracks |-> NoBuffer]
  /\ lru' = <<>>
  /\ UNCHANGED <<used, tasks, phase, walk, main, held>>

(* Then the timers are removed and every buffer is freed.                  *)
DestroyEnd ==
  /\ life = "closing" /\ MutexFree /\ Running = {}
  /\ life' = "gone"
  /\ timer' = [t \in Tracks |-> FALSE]
  /\ buf' = [b \in Buffers |-> Blank]
  /\ index' = [t \in Tracks |-> NoBuffer]
  /\ lru' = <<>>
  /\ UNCHANGED <<used, tasks, phase, walk, main, held>>
-----------------------------------------------------------------------------
Client ==
  \/ \E t \in Tracks :
       \/ Load(t) \/ UnlockNow(t) \/ UnlockDeferred(t) \/ UnlockTimer(t)
       \/ GetLocked(t) \/ CancelLoad(t)
  \/ \E b \in Buffers : LoadInsert(b)
  \/ LoadFails \/ LoadOnly \/ Lock
  \/ TimePasses \/ SweepBegin \/ DestroyBegin \/ DestroyEnd

Walk == WalkSkip \/ WalkReclaim \/ WalkEnd

Decode(b) == Allocate(b) \/ DecodeError(b) \/ DecodeStop(b) \/ Publish(b)
Cleanup(b) == InWindow(b) /\ (CleanupDone(b) \/ CleanupFailed(b) \/ CleanupFreed(b))

Next ==
  \/ Client \/ Walk \/ Start
  \/ \E b \in Buffers : Decode(b) \/ Cleanup(b)

Spec == Init /\ [][Next]_vars

(* Fairness.  Workers run and mutexes let every waiter in eventually; the  *)
(* main loop dispatches due timers and finishes the calls it is in; time   *)
(* passes.                                                                 *)
Fairness ==
  /\ WF_vars(Start)
  /\ \A b \in Buffers : SF_vars(Decode(b) \/ Cleanup(b))
  /\ WF_vars(Walk)
  /\ WF_vars(TimePasses) /\ SF_vars(SweepBegin)
  /\ SF_vars(LoadFails \/ LoadOnly)

FairSpec == Spec /\ Fairness
-----------------------------------------------------------------------------
(* Properties.                                                             *)

TypeOK ==
  /\ index \in [Tracks -> Buffers \cup {NoBuffer}]
  /\ lru \in Seq(Buffers)
  /\ buf \in [Buffers -> Flags]
  /\ used \in 0..(Modulus - 1)
  /\ tasks \in Seq(Buffers)
  /\ phase \in [Buffers -> Phases]
  /\ walk \in [kind: {"none", "evict", "sweep"}, pos: Nat]
  /\ main \in [at: {"ready", "insert", "loaded"}, track: Tracks \cup {NoBuffer}]
  /\ held \in [Tracks -> Nat]
  /\ timer \in [Tracks -> BOOLEAN]
  /\ life \in {"up", "closing", "gone", "aborted"}

(* The LRU list and the hash table hold the same buffers, each once and    *)
(* under its own track: load, its failure path, both walks and the drop of *)
(* a tombstone update the two together.                                    *)
ListMatchesTable ==
  /\ IsInjective(lru)
  /\ ToSet(lru) = {index[t] : t \in Tracks} \ {NoBuffer}
  /\ \A t \in Tracks : Present(t) => buf[index[t]].track = t

Owed(t) == held[t] + (IF timer[t] THEN 1 ELSE 0)

(* Every lock a client holds, and every deferred unlock that will run, is  *)
(* backed by lock_count: no unlock ever finds the track missing or the     *)
(* count at zero (the two g_error calls of cache_unlock_now).              *)
HoldersCovered ==
  life \in {"up", "closing"} =>
    \A t \in Tracks : Owed(t) > 0 => /\ Present(t)
                                     /\ buf[index[t]].locks >= Owed(t)

(* The calls and walks in progress refer to what is there.                 *)
CallOrder ==
  /\ main.at # "ready" => main.track \in Tracks
  /\ main.at = "insert" => ~Present(main.track)
  /\ walk.pos <= Len(lru)
  /\ walk.kind = "none" => walk = NoWalk

(* A buffer has one worker, and its final flag is that worker's last word. *)
OneWorker ==
  /\ IsInjective(tasks)
  /\ \A i \in DOMAIN tasks : phase[tasks[i]] = "queued"
  /\ \A b \in Buffers :
       /\ buf[b].complete => phase[b] \in {"publishing", "idle"}
       /\ buf[b].failed => phase[b] \in {"failing", "idle"}

(* The inductive invariant behind HoldersCovered and HeldBufferStays.      *)
IInv == TypeOK /\ ListMatchesTable /\ CallOrder /\ OneWorker /\ HoldersCovered

(* While a client keeps its lock, the track keeps its buffer, and a final  *)
(* status (ready or failed), once visible, does not change: eviction, the  *)
(* sweep, a second load and a late worker leave it alone.                  *)
HeldBufferStays ==
  [][\A t \in Tracks :
       held[t] > 0 /\ held'[t] > 0 /\ life' = "up" =>
         /\ index'[t] = index[t]
         /\ Status(t) \in {"ready", "failed"} => Status(t)' = Status(t)]_vars

(* memory_used is the memory of the decoded buffers in the cache: what one *)
(* worker adds, exactly one eviction or sweep takes away, and estimates of *)
(* unfinished or failed decodes are never counted.                         *)
MemoryAccounted ==
  life \in {"up", "closing"} =>
    used = SumFunctionOnSet([b \in Buffers |-> buf[b].mem],
                            {b \in Buffers : Cached(b) /\ phase[b] = "idle"})

(* When a worker's eviction ends, the cache is within its limit or every   *)
(* buffer left in it is in use.                                            *)
EvictionEnough ==
  [][walk.kind = "evict" /\ walk' = NoWalk =>
       used <= Limit \/ \A i \in DOMAIN lru : InUse(lru[i])]_vars

(* The cache keeps the promise of TrackCache: seen through the API, a      *)
(* load, a decode, an eviction, a lock or an unlock is one indivisible     *)
(* step on the status and the lock count of one track.                     *)
Api == INSTANCE TrackCache WITH
         status <- [t \in Tracks |-> Status(t)],
         locks <- [t \in Tracks |-> IF Present(t) THEN buf[index[t]].locks ELSE 0],
         alive <- Alive
ImplementsApi == Api!CacheSpec

(* A track somebody waits for does not stay "loading" for ever, whether    *)
(* its decode succeeds, fails or is cancelled.                             *)
DecodeResolves ==
  \A t \in Tracks : (held[t] > 0 /\ Status(t) = "loading")
                     ~> (Status(t) # "loading" \/ life # "up")

StaleIdle(t) ==
  life = "up" /\ Present(t) /\ ~InUse(index[t]) /\ ~buf[index[t]].fresh

(* The sweep reaches every buffer nobody uses, whatever is locked or       *)
(* fresher around it in the LRU list.                                      *)
StaleReclaimed == \A t \in Tracks : StaleIdle(t) ~> ~StaleIdle(t)

(* audio_cache_destroy frees nothing a worker or a timer could still      *)
(* touch.                                                                  *)
DestroyedQuiet ==
  life = "gone" => /\ \A b \in Buffers : phase[b] = "idle"
                   /\ \A t \in Tracks : ~timer[t]
                   /\ walk = NoWalk /\ tasks = <<>>
=============================================================================
