---------------------------- MODULE AudioPlayer ----------------------------
(***************************************************************************)
(* The players of src/audio/pipeline.c and player.c on top of the cache    *)
(* (TrackCache): set_player_track and the 50 ms tick on the main thread,   *)
(* the end of a track in the real-time PipeWire callback, and the decode   *)
(* workers, evictions and unlock timers of the cache in between.           *)
(*                                                                         *)
(* A main-thread call is a chain of steps, cut where the code touches an   *)
(* atomic that the callback also touches.  A cached buffer is named by its *)
(* track.  The playhead is abstracted: a rendered buffer may end any time. *)
(***************************************************************************)
EXTENDS TrackCache, FiniteSets

CONSTANTS
  Players,      \* player ids
  None,         \* track id 0 / NULL buffer
  NextTrack,    \* library_cache_get_next_track_id: the album order
  Missing,      \* tracks whose path does not resolve: load fails
  Modes,        \* end modes the user selects
  MaxLocks,     \* bound: the user loads only while every count is below it
  Rerouted,     \* TRUE: streams may be deactivated once they are active
  Overlaps      \* what may fall into a call of the main thread besides rendering
                \* and decoding: the "end" of a track, an eviction ("evict")

ASSUME PlayerAssumption ==
  /\ None \notin Tracks
  /\ NextTrack \in [Tracks -> Tracks \cup {None}]
  /\ Missing \subseteq Tracks
  /\ Modes \subseteq {"repeat", "autoplay", "stop"}
  /\ MaxLocks \in Nat
  /\ IsFiniteSet(Players)
  /\ Rerouted \in BOOLEAN /\ Overlaps \subseteq {"end", "evict"}

\* An order for instances whose tracks are numbers: those of one album, 1, 2, ...
Numbered == [t \in Tracks |-> IF t + 1 \in Tracks THEN t + 1 ELSE None]

VARIABLES
  pl,     \* the audio_player_t of each player
  main,   \* the pipeline call the main thread is in
  rt      \* the end-of-track code of the callback in progress

vars == <<status, locks, timer, alive, pl, main, rt>>

Ids == Tracks \cup {None}
Idle == [at |-> "idle"]

NewPlayer == [current |-> None, next |-> None, buffer |-> None,
              nextBuffer |-> None, pending |-> None, advance |-> FALSE,
              old |-> None, mode |-> "autoplay", state |-> "stopped",
              shuttling |-> FALSE, streams |-> FALSE, active |-> FALSE]

Init ==
  /\ CacheInit
  /\ pl = [p \in Players |-> NewPlayer]
  /\ main = Idle /\ rt = Idle

Ending == rt.at \notin {"idle", "render"}
Steps(at) == main.at = at /\ alive /\ (Ending => "end" \in Overlaps)
MainIdle == Steps("idle")
-----------------------------------------------------------------------------
(* Cache calls.                                                            *)

(* audio_cache_load: an absent track, or a failure nobody holds, is        *)
(* decoded; a path that does not resolve leaves nothing behind.            *)
LoadTrack(t) ==
  status' = [status EXCEPT ![t] =
               IF @ = "absent" \/ (@ = "failed" /\ locks[t] = 0)
               THEN IF t \in Missing THEN "absent" ELSE "loading"
               ELSE @]

(* audio_cache_unlock(DEFERRED) of the ids that are not 0.                 *)
UnlockLater(ids) == timer' = [t \in Tracks |-> timer[t] \/ t \in ids]

(* audio_cache_get_locked without a lock is a g_error.                     *)
Unlocked(t) == status[t] = "absent" \/ locks[t] = 0
Abort == alive' = FALSE /\ UNCHANGED <<status, locks, timer, pl, main, rt>>
-----------------------------------------------------------------------------
(* audio_pipeline_set_player_track and preload_next_track, step by step.   *)

Call(at, p, t, by) == [at |-> at, player |-> p, track |-> t, by |-> by,
                       cur |-> None, nxt |-> None]

Cleared(p) == [pl EXCEPT ![p].buffer = None, ![p].nextBuffer = None,
                         ![p].pending = None]

HeldOnce(t) == [locks EXCEPT ![t] = IF @ = 0 THEN 1 ELSE @]
Held(t) == [locks EXCEPT ![t] = @ + 1]

RefusedKept(p) == pl
Refused(p) == [pl EXCEPT ![p].current = None]

GrantedIfReady(p, t) ==
  IF status[t] = "ready" THEN [pl EXCEPT ![p].buffer = t] ELSE pl
Granted(p, t) ==
  IF status[t] = "ready" THEN [pl EXCEPT ![p].buffer = t]
  ELSE [pl EXCEPT ![p].pending = t]

(* The user picks a track: the UI loads it and then sets it.               *)
UserLoad(p, t) ==
  /\ MainIdle /\ \A u \in Tracks : locks[u] < MaxLocks
  /\ LoadTrack(t)
  /\ main' = Call("check", p, t, "user")
  /\ UNCHANGED <<locks, timer, alive, pl, rt>>

(* No active stream: refused.  Not in the cache: g_error.  Otherwise the   *)
(* ids to unlock are read ...                                              *)
CheckTrack ==
  /\ Steps("check")
  /\ LET p == main.player IN
     \/ /\ ~pl[p].streams
        /\ main' = Idle
        /\ UNCHANGED <<status, locks, timer, alive, pl, rt>>
     \/ pl[p].streams /\ status[main.track] = "absent" /\ Abort
     \/ /\ pl[p].streams /\ status[main.track] # "absent"
        /\ main' = [main EXCEPT !.at = "clear", !.cur = pl[p].current,
                                !.nxt = pl[p].next]
        /\ UNCHANGED <<status, locks, timer, alive, pl, rt>>

(* ... the buffers are taken from the callback ...                         *)
ClearBuffers ==
  /\ Steps("clear")
  /\ pl' = Cleared(main.player)
  /\ main' = [main EXCEPT !.at = "replace"]
  /\ UNCHANGED <<status, locks, timer, alive, rt>>

(* ... and unlocked a little later; the ids are replaced one by one.       *)
ReplaceCurrent ==
  /\ Steps("replace")
  /\ UnlockLater({main.cur, main.nxt})
  /\ pl' = [pl EXCEPT ![main.player].current = main.track]
  /\ main' = [main EXCEPT !.at = "forget"]
  /\ UNCHANGED <<status, locks, alive, rt>>

ForgetNext ==
  /\ Steps("forget")
  /\ pl' = [pl EXCEPT ![main.player].next = None]
  /\ main' = [main EXCEPT !.at = "lock"]
  /\ UNCHANGED <<status, locks, timer, alive, rt>>

(* The new track is locked: failed, ready or still loading.                *)
LockTrack ==
  /\ Steps("lock")
  /\ LET p == main.player
         t == main.track
     IN  \/ status[t] = "absent" /\ Abort
         \/ /\ status[t] = "failed"
            /\ pl' = Refused(p)
            /\ main' = Idle
            /\ UNCHANGED <<status, locks, timer, alive, rt>>
         \/ /\ status[t] \in {"ready", "loading"}
            /\ locks' = Held(t)
            /\ pl' = Granted(p, t)
            /\ main' = [main EXCEPT !.at = "preload"]
            /\ UNCHANGED <<status, timer, alive, rt>>

(* preload_next_track: not in repeat mode, not after the last track.       *)
Preload ==
  /\ Steps("preload")
  /\ LET p == main.player
         n == IF main.track = None THEN None ELSE NextTrack[main.track]
     IN  IF pl[p].mode = "repeat" \/ n = None
         THEN main' = Idle /\ UNCHANGED <<status, pl>>
         ELSE /\ pl' = [pl EXCEPT ![p].next = n]
              /\ LoadTrack(n)
              /\ main' = [main EXCEPT !.at = "hold", !.track = n]
  /\ UNCHANGED <<locks, timer, alive, rt>>

HoldNext ==
  /\ Steps("hold")
  /\ LET t == main.track IN
     \/ status[t] = "absent" /\ Abort
     \/ /\ status[t] # "absent"
        /\ locks' = Held(t)
        /\ pl' = IF status[t] = "ready"
                 THEN [pl EXCEPT ![main.player].nextBuffer = t] ELSE pl
        /\ main' = Idle
        /\ UNCHANGED <<status, timer, alive, rt>>
-----------------------------------------------------------------------------
(* The 50 ms tick: three steps per player.                                 *)

(* poll_pending_buffer                                                     *)
PendingStatus(p) ==
  IF pl[p].pending = None THEN "none" ELSE status[pl[p].pending]
PollPending(p) ==
  /\ MainIdle
  /\ LET t == pl[p].pending IN
     \/ /\ PendingStatus(p) \in {"none", "loading", "absent"}
        /\ main' = Call("attach", p, None, "tick")
        /\ UNCHANGED <<locks, alive, pl>>
     \/ /\ PendingStatus(p) = "failed"
        /\ Drop(t)
        /\ pl' = [pl EXCEPT ![p].pending = None, ![p].current = None]
        /\ main' = Call("attach", p, None, "tick")
     \/ /\ PendingStatus(p) = "ready"
        /\ IF Unlocked(t) THEN alive' = FALSE /\ UNCHANGED <<pl, main>>
           ELSE /\ pl' = [pl EXCEPT ![p].pending = None, ![p].buffer = t]
                /\ main' = Call("attach", p, None, "tick")
                /\ UNCHANGED alive
        /\ UNCHANGED locks
  /\ UNCHANGED <<status, timer, rt>>

(* try_attach_next_buffer                                                  *)
Attachable(p) ==
  /\ pl[p].next # None /\ pl[p].nextBuffer = None
  /\ status[pl[p].next] = "ready"
AttachNext ==
  /\ Steps("attach")
  /\ LET p == main.player IN
     IF Attachable(p) /\ Unlocked(pl[p].next) THEN Abort
     ELSE /\ pl' = IF Attachable(p)
                   THEN [pl EXCEPT ![p].nextBuffer = pl[p].next] ELSE pl
          /\ main' = [main EXCEPT !.at = "advance"]
          /\ UNCHANGED <<status, locks, timer, alive, rt>>

(* advance_pending and advance_old_track_id are taken back together.       *)
Taken(p) == [pl EXCEPT ![p].advance = FALSE, ![p].old = None]

(* handle_pending_advance: a deferred advance loads and sets the next      *)
(* track, an instant one unlocks the old track and preloads anew.          *)
HandleAdvance ==
  /\ Steps("advance")
  /\ LET p == main.player
         n == pl[p].next
         deferred == pl[p].old = None /\ pl[p].buffer = None
     IN  \/ /\ ~pl[p].advance
            /\ main' = Idle
            /\ UNCHANGED <<status, timer, pl>>
         \/ /\ pl[p].advance
            /\ pl' = Taken(p)
            /\ IF deferred
               THEN /\ IF n # None THEN LoadTrack(n) ELSE UNCHANGED status
                    /\ main' = IF n # None THEN Call("check", p, n, "tick")
                             ELSE Idle
                    /\ UNCHANGED timer
               ELSE /\ UnlockLater({pl[p].old})
                    /\ main' = Call("preload", p, pl[p].current, "tick")
                    /\ UNCHANGED status
  /\ UNCHANGED <<locks, alive, rt>>
-----------------------------------------------------------------------------
(* Transport and routing calls of the main thread.                         *)

Set(p, changed) ==
  /\ pl' = [pl EXCEPT ![p] = changed]
  /\ UNCHANGED <<status, locks, timer, alive, main, rt>>

Play(p) ==
  /\ MainIdle /\ pl[p].streams /\ pl[p].state # "playing"
  /\ Set(p, [pl[p] EXCEPT !.state = "playing", !.active = TRUE])

Pause(p) ==
  /\ MainIdle /\ pl[p].state = "playing"
  /\ Set(p, [pl[p] EXCEPT !.state = "paused"])

Stop(p) ==
  /\ MainIdle /\ pl[p].state # "stopped"
  /\ Set(p, [pl[p] EXCEPT !.state = "stopped", !.active = FALSE])

(* audio_pipeline_set_player_speed: needs a buffer.                        *)
SetSpeed(p) ==
  /\ MainIdle /\ pl[p].buffer # None
  /\ Set(p, [pl[p] EXCEPT !.shuttling = ~@])

SetEndMode(p, m) == MainIdle /\ Set(p, [pl[p] EXCEPT !.mode = m])

(* player_recreate_stream with a device: the state survives; without one,  *)
(* or after persistent errors: deactivated and stopped.                    *)
Routed(x, device) ==
  IF device THEN [x EXCEPT !.streams = TRUE, !.active = TRUE]
  ELSE [x EXCEPT !.streams = FALSE, !.active = FALSE, !.state = "stopped"]
Recreate(p) ==
  /\ MainIdle /\ rt = Idle
  /\ \E device \in BOOLEAN :
       /\ device \/ (Rerouted /\ pl[p].streams)
       /\ Set(p, Routed(pl[p], device))

(* audio_pipeline_destroy: every player unlocks its current and next track *)
(* at once; an unlock too many is a g_error.                               *)
Holders(t) == Cardinality({p \in Players : pl[p].current = t})
            + Cardinality({p \in Players : pl[p].next = t})
DestroyAll ==
  /\ MainIdle /\ rt = Idle
  /\ alive' = FALSE
  /\ main' = IF \A t \in Tracks : Holders(t) <= locks[t]
             THEN [at |-> "destroyed"] ELSE main
  /\ locks' = [t \in Tracks |->
                 IF Holders(t) <= locks[t] THEN locks[t] - Holders(t) ELSE 0]
  /\ UNCHANGED <<status, timer, pl, rt>>
-----------------------------------------------------------------------------
(* The callback: render_from_buffer, on_track_end, swap_to_next_buffer.    *)

At(place, r) == [r EXCEPT !.at = place]
InCallback(place) == rt.at = place /\ alive

(* on_process renders whatever buffer it finds; in some of its calls the   *)
(* track ends.                                                             *)
Render(p) ==
  /\ rt = Idle /\ alive
  /\ pl[p].streams /\ pl[p].active /\ pl[p].buffer # None
  /\ pl[p].state = "playing" \/ pl[p].shuttling
  /\ \E place \in {"render", "end"} :
       /\ place = "end" => main = Idle \/ "end" \in Overlaps
       /\ rt' = [at |-> place, player |-> p, buf |-> pl[p].buffer, id |-> None]
  /\ UNCHANGED <<status, locks, timer, alive, pl, main>>

(* The quantum is full, or the track repeats.                              *)
RenderDone ==
  /\ InCallback("render") \/ (InCallback("end") /\ pl[rt.player].mode = "repeat")
  /\ rt' = Idle
  /\ UNCHANGED <<status, locks, timer, alive, pl, main>>

(* The track ends: swap if a next buffer is attached, ...                  *)
EndSwaps ==
  /\ InCallback("end")
  /\ pl[rt.player].mode # "repeat" /\ pl[rt.player].nextBuffer # None
  /\ rt' = [rt EXCEPT !.at = "ids", !.buf = pl[rt.player].nextBuffer]
  /\ UNCHANGED <<status, locks, timer, alive, pl, main>>

(* ... leave it to the main thread if there is a next track, ...           *)
EndDefers ==
  /\ InCallback("end")
  /\ LET p == rt.player IN
     /\ pl[p].mode # "repeat" /\ pl[p].nextBuffer = None /\ pl[p].next # None
     /\ pl' = [pl EXCEPT ![p].buffer = None, ![p].advance = TRUE,
                 ![p].state = IF pl[p].mode = "stop" THEN "stopped" ELSE @]
  /\ rt' = Idle
  /\ UNCHANGED <<status, locks, timer, alive, main>>

(* ... and stop if there is none.                                          *)
EndStops ==
  /\ InCallback("end")
  /\ LET p == rt.player IN
     /\ pl[p].mode # "repeat" /\ pl[p].nextBuffer = None /\ pl[p].next = None
     /\ pl' = [pl EXCEPT ![p].state = "stopped"]
  /\ rt' = Idle
  /\ UNCHANGED <<status, locks, timer, alive, main>>

SwapReadsId ==
  /\ InCallback("ids")
  /\ rt' = [rt EXCEPT !.at = "publish", !.id = pl[rt.player].next]
  /\ UNCHANGED <<status, locks, timer, alive, pl, main>>

(* The old current id is read, then the buffers are exchanged ...          *)
SwapBuffers ==
  /\ InCallback("publish")
  /\ pl' = [pl EXCEPT ![rt.player].buffer = rt.buf,
                      ![rt.player].nextBuffer = None]
  /\ rt' = [at |-> "name", player |-> rt.player, buf |-> rt.buf,
            id |-> rt.id, was |-> pl[rt.player].current]
  /\ UNCHANGED <<status, locks, timer, alive, main>>

(* ... then the ids ...                                                    *)
RenamedOnly(p, id) == [pl EXCEPT ![p].current = id]
Renamed(p, id) == [pl EXCEPT ![p].current = id, ![p].next = None]
SwapIds ==
  /\ InCallback("name")
  /\ pl' = Renamed(rt.player, rt.id)
  /\ rt' = At("signal", rt)
  /\ UNCHANGED <<status, locks, timer, alive, main>>

(* ... and the main thread is told.  Rendering goes on with the new buffer *)
(* unless the mode stops here.                                             *)
SwapSignals ==
  /\ InCallback("signal")
  /\ LET p == rt.player IN
     pl' = [pl EXCEPT ![p].old = rt.was, ![p].advance = TRUE,
              ![p].state = IF pl[p].mode = "stop" THEN "stopped" ELSE @]
  /\ rt' = Idle
  /\ UNCHANGED <<status, locks, timer, alive, main>>
-----------------------------------------------------------------------------
(* The cache, seen from here.  A deferred unlock waits longer than the     *)
(* callback that may still read the buffer runs.                           *)

Decoded(t) == Resolve(t) /\ UNCHANGED <<pl, main, rt>>
Evicted(t) == (main = Idle \/ "evict" \in Overlaps) /\ Reclaim(t) /\ UNCHANGED <<pl, main, rt>>
UnlockTimer(t) ==
  main = Idle /\ rt = Idle /\ TimerFires(t) /\ UNCHANGED <<pl, main, rt>>

SetTrackStep ==
  CheckTrack \/ ClearBuffers \/ ReplaceCurrent \/ ForgetNext \/ LockTrack
    \/ Preload \/ HoldNext
TickStep == AttachNext \/ HandleAdvance
Callback ==
  RenderDone \/ EndSwaps \/ EndDefers \/ EndStops
    \/ SwapReadsId \/ SwapBuffers \/ SwapIds \/ SwapSignals

Next ==
  \/ \E p \in Players :
       \/ \E t \in Tracks : UserLoad(p, t)
       \/ \E m \in Modes : SetEndMode(p, m)
       \/ PollPending(p) \/ Render(p)
       \/ Play(p) \/ Pause(p) \/ Stop(p) \/ SetSpeed(p)
       \/ Recreate(p)
  \/ SetTrackStep \/ TickStep \/ Callback \/ DestroyAll
  \/ \E t \in Tracks : Decoded(t) \/ Evicted(t) \/ UnlockTimer(t)

Spec == Init /\ [][Next]_vars

(* The main loop finishes its calls and keeps ticking, callbacks return,   *)
(* decodes end.                                                            *)
Fairness ==
  /\ WF_vars(SetTrackStep) /\ WF_vars(TickStep) /\ WF_vars(Callback)
  /\ \A p \in Players : SF_vars(PollPending(p))
  /\ \A t \in Tracks : WF_vars(Decoded(t))
FairSpec == Spec /\ Fairness
-----------------------------------------------------------------------------
(* Properties.                                                             *)

PlayerType == [current: Ids, next: Ids, buffer: Ids, nextBuffer: Ids,
               pending: Ids, advance: BOOLEAN, old: Ids,
               mode: Modes \cup {"autoplay"}, shuttling: BOOLEAN,
               state: {"stopped", "playing", "paused"},
               streams: BOOLEAN, active: BOOLEAN]
TypeOK ==
  /\ status \in [Tracks -> Statuses] /\ locks \in [Tracks -> Nat]
  /\ timer \in [Tracks -> BOOLEAN] /\ alive \in BOOLEAN
  /\ pl \in [Players -> PlayerType]

AtRest == alive /\ main = Idle /\ rt = Idle

(* A buffer the callback can reach, or is reading, is in the cache and     *)
(* locked, so no eviction and no sweep frees it.                           *)
BufferHeld ==
  alive =>
    /\ \A p \in Players : \A t \in {pl[p].buffer, pl[p].nextBuffer} \ {None} :
         status[t] = "ready" /\ locks[t] > 0
    /\ rt # Idle => status[rt.buf] = "ready"

(* Each id a player holds stands for a lock of its own: the current track, *)
(* the next one, the one an instant advance left behind and those a timer  *)
(* will unlock.  Hence no unlock is ever one too many.                     *)
Owed(t) == Holders(t)
         + Cardinality({p \in Players : pl[p].advance /\ pl[p].old = t})
         + (IF timer[t] THEN 1 ELSE 0)
RefsCovered == AtRest => \A t \in Tracks : locks[t] >= Owed(t)

(* What players may rely on between two calls: the buffers they play are   *)
(* locked, and every id they hold is backed by a lock.                     *)
PlayersCovered == TypeOK /\ BufferHeld /\ RefsCovered

(* What plays is the track the player names, what is attached as next is   *)
(* the track it names as next, and that one follows it in the album.       *)
PlaysItsTrack ==
  AtRest => \A p \in Players :
    LET x == pl[p] IN
    /\ x.buffer \in {None, x.current}
    /\ x.nextBuffer \in {None, x.next}
    /\ x.current # None /\ x.next # None => x.next = NextTrack[x.current]
    /\ x.pending # None => x.pending = x.current /\ x.buffer = None

(* No call of the cache ends in g_error: not in load, lock, get_locked or  *)
(* unlock, and not when everything is destroyed.                           *)
NeverAborts == alive \/ main.at = "destroyed"

(* No buffer a player holds is freed under it, and no count of locks is    *)
(* wrong: the two together, for every order of main thread and callbacks.  *)
PlayersSound == PlayersCovered /\ NeverAborts

(* A playing channel without a buffer gets one, stops, or is given another *)
(* track: a decode that ends is attached, a deferred advance carried out.  *)
Starved(p, t) == alive /\ pl[p].state = "playing" /\ pl[p].current = t
                 /\ pl[p].buffer = None
NeverStarves ==
  \A p \in Players : \A t \in Tracks : Starved(p, t) ~> ~Starved(p, t)
=============================================================================
