---------------------------- MODULE TrackCache ----------------------------
(***************************************************************************)
(* What the audio cache promises its callers (the API of cache.c without   *)
(* buffers, list, memory and threads): a status and a lock count per       *)
(* track.  AudioCache implements it; AudioPlayer is built on it.           *)
(***************************************************************************)
EXTENDS Integers

CONSTANTS Tracks

VARIABLES
  status,   \* audio_cache_get_status
  locks,    \* lock_count
  timer,    \* a deferred unlock is scheduled
  alive     \* FALSE: aborted by g_error, or destroyed

cacheVars == <<status, locks, timer, alive>>

Statuses == {"absent", "loading", "ready", "failed"}

CacheInit ==
  /\ status = [t \in Tracks |-> "absent"]
  /\ locks = [t \in Tracks |-> 0]
  /\ timer = [t \in Tracks |-> FALSE]
  /\ alive = TRUE

(* load: a decode is queued for a track that has no buffer.                *)
Insert(t) ==
  /\ alive /\ status[t] = "absent"
  /\ status' = [status EXCEPT ![t] = "loading"]
  /\ UNCHANGED <<locks, timer, alive>>

(* A worker finishes: the result is final.                                 *)
Resolve(t) ==
  /\ alive /\ status[t] = "loading"
  /\ \E s \in {"ready", "failed"} : status' = [status EXCEPT ![t] = s]
  /\ UNCHANGED <<locks, timer, alive>>

(* Eviction, the sweep, a retry of a failed load: unlocked buffers only.   *)
Reclaim(t) ==
  /\ alive /\ status[t] \in {"ready", "failed"} /\ locks[t] = 0
  /\ status' = [status EXCEPT ![t] = "absent"]
  /\ UNCHANGED <<locks, timer, alive>>

(* lock: the caller must know the track is there.                          *)
TakeLock(t) ==
  /\ alive
  /\ IF status[t] = "absent"
     THEN alive' = FALSE /\ UNCHANGED locks
     ELSE locks' = [locks EXCEPT ![t] = @ + 1] /\ UNCHANGED alive
  /\ UNCHANGED <<status, timer>>

Drop(t) ==
  IF locks[t] > 0 THEN locks' = [locks EXCEPT ![t] = @ - 1] /\ UNCHANGED alive
  ELSE alive' = FALSE /\ UNCHANGED locks

(* unlock: now, or by a timer of which each track has at most one.         *)
DropNow(t) == alive /\ Drop(t) /\ UNCHANGED <<status, timer>>

DropLater(t) ==
  /\ alive
  /\ timer' = [timer EXCEPT ![t] = TRUE]
  /\ UNCHANGED <<status, locks, alive>>

TimerFires(t) ==
  /\ alive /\ timer[t]
  /\ timer' = [timer EXCEPT ![t] = FALSE]
  /\ Drop(t)
  /\ UNCHANGED status

Destroy ==
  /\ alive
  /\ alive' = FALSE
  /\ status' = [t \in Tracks |-> "absent"]
  /\ locks' = [t \in Tracks |-> 0]
  /\ timer' = [t \in Tracks |-> FALSE]

CacheNext ==
  \/ \E t \in Tracks :
       \/ Insert(t) \/ Resolve(t) \/ Reclaim(t) \/ TakeLock(t)
       \/ DropNow(t) \/ DropLater(t) \/ TimerFires(t)
  \/ Destroy

CacheSpec == CacheInit /\ [][CacheNext]_cacheVars
=============================================================================
