------------------------- MODULE AudioPlayerProofs -------------------------
(***************************************************************************)
(* What is proved of AudioPlayer for every finite set of players, every    *)
(* set of tracks and every album order; and of what an audio thread tells  *)
(* the window (Telemetry), for every ring, drain and number of retries.    *)
(***************************************************************************)
EXTENDS MCAudioThreads, Sequences, FiniteSetTheorems, TLAPS

(* The calls of the two threads.                                           *)
Places == {"check", "clear", "replace", "forget", "lock", "preload", "hold", "attach", "advance"}
Calls == [at: Places, player: Players, track: Ids, by: {"user", "tick"}, cur: Ids, nxt: Ids]
Destroyed == [at |-> "destroyed"]
EarlyEnds == [at: {"render", "end", "ids", "publish"}, player: Players, buf: Tracks, id: Ids]
LateEnds == [at: {"name", "signal"}, player: Players, buf: Tracks, id: Ids, was: Ids]

CallsTyped ==
  /\ main \in {Idle, Destroyed} \cup Calls
  /\ main.at \in {"check", "clear", "replace", "forget", "lock", "hold"} => main.track # None
  /\ rt \in {Idle} \cup EarlyEnds \cup LateEnds

LEMMA MainTyped ==
  ASSUME CallsTyped
  PROVE  /\ main.at \in Places => main \in Calls
         /\ main.at = "idle" <=> main = Idle
         /\ rt.at \in {"render", "end", "ids", "publish"} => rt \in EarlyEnds
         /\ rt.at \in {"name", "signal"} => rt \in LateEnds
         /\ rt.at = "idle" <=> rt = Idle
         /\ rt # Idle => rt.player \in Players /\ rt.buf \in Tracks
BY DEF CallsTyped, Calls, Places, Idle, Destroyed, EarlyEnds, LateEnds

LEMMA LoadTyped ==
  ASSUME TypeOK, NEW t \in Tracks, LoadTrack(t)
  PROVE  status' \in [Tracks -> Statuses]
BY DEF TypeOK, LoadTrack, Statuses

LEMMA UnlockTyped ==
  ASSUME TypeOK, NEW ids, UnlockLater(ids)
  PROVE  timer' \in [Tracks -> BOOLEAN]
BY DEF TypeOK, UnlockLater

LEMMA DropTyped ==
  ASSUME TypeOK, NEW t \in Tracks, Drop(t)
  PROVE  locks' \in [Tracks -> Nat] /\ alive' \in BOOLEAN
<1>1. CASE locks[t] > 0
  <2>1. locks[t] \in Nat /\ locks[t] - 1 \in Nat
    BY <1>1 DEF TypeOK
  <2>2. locks' = [locks EXCEPT ![t] = locks[t] - 1] /\ alive' = alive
    BY <1>1 DEF Drop
  <2>. QED BY <2>1, <2>2 DEF TypeOK
<1>2. CASE ~(locks[t] > 0)
  BY <1>2 DEF TypeOK, Drop
<1>. QED BY <1>1, <1>2

LEMMA CallTyped ==
  ASSUME NEW at \in Places, NEW p \in Players, NEW t \in Ids, NEW by \in {"user", "tick"}
  PROVE  Call(at, p, t, by) \in Calls /\ Call(at, p, t, by).at = at
         /\ Call(at, p, t, by).track = t
BY DEF Call, Calls, Ids

LEMMA AbortTyped ==
  ASSUME TypeOK, CallsTyped, Abort
  PROVE  TypeOK' /\ CallsTyped'
BY DEF Abort, TypeOK, CallsTyped

(* A change of one player.                                                 *)
LEMMA PlayerTyped ==
  ASSUME TypeOK, NEW p \in Players, NEW x \in PlayerType, pl' = [pl EXCEPT ![p] = x],
         UNCHANGED <<status, locks, timer, alive>>
  PROVE  TypeOK'
BY DEF TypeOK

LEMMA MainStepTyped ==
  ASSUME TypeOK, CallsTyped, SetTrackStep
  PROVE  TypeOK' /\ CallsTyped'
<1> USE PlayerAssumption
<1> DEFINE p == main.player
<1>0. main \in Calls /\ rt' = rt
  BY MainTyped DEF SetTrackStep, CheckTrack, ClearBuffers, ReplaceCurrent, ForgetNext, LockTrack,
                   Preload, HoldNext, Steps, Places, Abort
<1>1. /\ p \in Players /\ main.track \in Ids /\ pl[p] \in PlayerType
  BY <1>0 DEF Calls, TypeOK
<1>2. CASE Abort
  BY <1>2, AbortTyped
<1>3. CASE CheckTrack /\ ~Abort
  <2>1. /\ main' = Idle \/ main' = [main EXCEPT !.at = "clear", !.cur = pl[p].current, !.nxt = pl[p].next]
        /\ UNCHANGED <<status, locks, timer, alive, pl, rt>> /\ main.at = "check"
    BY <1>3 DEF CheckTrack, Steps
  <2>2. pl[p].current \in Ids /\ pl[p].next \in Ids
    BY <1>1 DEF PlayerType
  <2>3. main' = Idle \/ (main' \in Calls /\ main'.track # None)
    BY <1>0, <2>1, <2>2 DEF Calls, Places, CallsTyped
  <2>. QED BY <2>1, <2>3 DEF TypeOK, CallsTyped, Idle
<1>4. CASE ClearBuffers
  <2>1. pl' \in [Players -> PlayerType]
    BY SMTT(30), <1>1, <1>4 DEF ClearBuffers, Cleared, TypeOK, PlayerType, Ids
  <2>2. main' \in Calls /\ main'.track # None
    BY <1>0, <1>4 DEF ClearBuffers, Steps, Calls, Places, CallsTyped
  <2>. QED BY <1>4, <2>1, <2>2 DEF ClearBuffers, TypeOK, CallsTyped
<1>5. CASE ReplaceCurrent
  <2>1. pl' \in [Players -> PlayerType]
    BY <1>1, <1>5 DEF ReplaceCurrent, TypeOK, PlayerType
  <2>2. main' \in Calls /\ main'.track # None
    BY <1>0, <1>5 DEF ReplaceCurrent, Steps, Calls, Places, CallsTyped
  <2>. QED BY <1>5, <2>1, <2>2, UnlockTyped DEF ReplaceCurrent, TypeOK, CallsTyped
<1>6. CASE ForgetNext
  <2>1. pl' \in [Players -> PlayerType]
    BY SMTT(30), <1>1, <1>6 DEF ForgetNext, TypeOK, PlayerType, Ids
  <2>2. main' \in Calls /\ main'.track # None
    BY <1>0, <1>6 DEF ForgetNext, Steps, Calls, Places, CallsTyped
  <2>. QED BY <1>6, <2>1, <2>2 DEF ForgetNext, TypeOK, CallsTyped
<1>7. CASE LockTrack /\ ~Abort
  <2>1. /\ main.track \in Tracks
    BY <1>1, <1>7 DEF LockTrack, Steps, CallsTyped, Ids
  <2>2. pl' \in [Players -> PlayerType]
    <3>1. pl' \in {Refused(p), Granted(p, main.track)}
      BY <1>7 DEF LockTrack
    <3>2. Refused(p) \in [Players -> PlayerType] /\ Granted(p, main.track) \in [Players -> PlayerType]
      BY SMTT(30), <1>1 DEF Refused, Granted, TypeOK, PlayerType, Ids
    <3>. QED BY <3>1, <3>2
  <2>3. locks' \in [Tracks -> Nat]
    BY <1>7, <2>1 DEF LockTrack, Held, TypeOK
  <2>4. main' \in {Idle} \cup Calls /\ (main'.at \in {"idle", "preload"})
    BY <1>0, <1>7 DEF LockTrack, Calls, Places, Idle
  <2>. QED BY <1>7, <2>2, <2>3, <2>4 DEF LockTrack, TypeOK, CallsTyped
<1>8. CASE Preload
  <2> DEFINE n == IF main.track = None THEN None ELSE NextTrack[main.track]
  <2>1. n \in Ids
    BY <1>1 DEF Ids
  <2>2. CASE main' = Idle /\ UNCHANGED <<status, pl>>
    BY <1>8, <2>2 DEF Preload, TypeOK, CallsTyped, Idle
  <2>3. CASE ~(main' = Idle /\ UNCHANGED <<status, pl>>)
    <3>1. /\ n # None /\ pl' = [pl EXCEPT ![p].next = n] /\ LoadTrack(n)
          /\ main' = [main EXCEPT !.at = "hold", !.track = n]
          /\ UNCHANGED <<locks, timer, alive, rt>>
      BY <1>8, <2>3 DEF Preload
    <3> HIDE DEF n
    <3>2. n \in Tracks
      BY <2>1, <3>1 DEF Ids
    <3>3. pl' \in [Players -> PlayerType]
      BY <1>1, <2>1, <3>1 DEF TypeOK, PlayerType
    <3>4. main' \in Calls /\ main'.track # None
      BY <1>0, <2>1, <3>1 DEF Calls, Places
    <3>. QED BY <3>1, <3>2, <3>3, <3>4, LoadTyped DEF TypeOK, CallsTyped
  <2>. QED BY <2>2, <2>3
<1>9. CASE HoldNext /\ ~Abort
  <2>1. /\ main.track \in Tracks
    BY <1>1, <1>9 DEF HoldNext, Steps, CallsTyped, Ids
  <2>2. pl' \in [Players -> PlayerType]
    BY <1>1, <1>9 DEF HoldNext, TypeOK, PlayerType
  <2>3. locks' \in [Tracks -> Nat]
    BY <1>9, <2>1 DEF HoldNext, Held, TypeOK
  <2>. QED BY <1>9, <2>2, <2>3 DEF HoldNext, TypeOK, CallsTyped, Idle
<1>. QED BY <1>2, <1>3, <1>4, <1>5, <1>6, <1>7, <1>8, <1>9 DEF SetTrackStep

LEMMA TickStepTyped ==
  ASSUME TypeOK, CallsTyped,
         TickStep \/ \E p \in Players : PollPending(p)
  PROVE  TypeOK' /\ CallsTyped'
<1> USE PlayerAssumption
<1>1. CASE Abort
  BY <1>1, AbortTyped
<1>2. ASSUME NEW p \in Players, PollPending(p) PROVE TypeOK' /\ CallsTyped'
  <2> DEFINE t == pl[p].pending
  <2>1. pl[p] \in PlayerType /\ t \in Ids /\ None \in Ids
    BY DEF TypeOK, PlayerType, Ids
  <2>2. Call("attach", p, None, "tick") \in Calls /\ Call("attach", p, None, "tick").at = "attach"
    BY <2>1, CallTyped DEF Places
  <2>3. /\ UNCHANGED <<status, timer, rt>>
        /\ main' = Call("attach", p, None, "tick") \/ main' = main
        /\ pl' \in {pl, [pl EXCEPT ![p].pending = None, ![p].current = None],
                     [pl EXCEPT ![p].pending = None, ![p].buffer = t]}
        /\ \/ locks' = locks /\ (alive' = alive \/ alive' = FALSE)
           \/ t # None /\ Drop(t)
    BY <1>2 DEF PollPending, PendingStatus
  <2>4. pl' \in [Players -> PlayerType]
    <3> HIDE DEF t
    <3>1. /\ [pl EXCEPT ![p].pending = None, ![p].current = None] \in [Players -> PlayerType]
          /\ [pl EXCEPT ![p].pending = None, ![p].buffer = t] \in [Players -> PlayerType]
      BY <2>1 DEF TypeOK, PlayerType
    <3>. QED BY <2>3, <3>1 DEF TypeOK
  <2>5. locks' \in [Tracks -> Nat] /\ alive' \in BOOLEAN
    <3>1. t # None => t \in Tracks
      BY <2>1 DEF Ids
    <3>. QED BY <2>3, <3>1, DropTyped DEF TypeOK
  <2>. QED BY <2>2, <2>3, <2>4, <2>5 DEF TypeOK, CallsTyped
<1>3. CASE AttachNext /\ ~Abort
  <2> DEFINE p == main.player
  <2>1. main \in Calls /\ p \in Players /\ pl[p] \in PlayerType
    BY <1>3, MainTyped DEF AttachNext, Steps, Places, Calls, TypeOK
  <2>2. /\ pl' = pl \/ pl' = [pl EXCEPT ![p].nextBuffer = pl[p].next]
        /\ main' = [main EXCEPT !.at = "advance"]
        /\ UNCHANGED <<status, locks, timer, alive, rt>>
    BY <1>3 DEF AttachNext
  <2>3. pl' \in [Players -> PlayerType]
    BY SMTT(30), <2>1, <2>2 DEF TypeOK, PlayerType
  <2>4. main' \in Calls /\ main'.at = "advance"
    BY <2>1, <2>2 DEF Calls, Places
  <2>. QED BY <2>2, <2>3, <2>4 DEF TypeOK, CallsTyped
<1>4. CASE HandleAdvance
  <2> DEFINE p == main.player
             n == pl[p].next
  <2>1. /\ main \in Calls /\ p \in Players /\ pl[p] \in PlayerType /\ n \in Ids
        /\ pl[p].current \in Ids /\ None \in Ids
    BY <1>4, MainTyped DEF HandleAdvance, Steps, Places, Calls, TypeOK, PlayerType, Ids
  <2>2. pl' = pl \/ pl' = Taken(p)
    BY <1>4 DEF HandleAdvance
  <2>3. pl' \in [Players -> PlayerType]
    <3>1. Taken(p) \in [Players -> PlayerType]
      BY <2>1 DEF TypeOK, PlayerType, Taken
    <3>. QED BY <2>2, <3>1 DEF TypeOK
  <2>4. UNCHANGED <<locks, alive, rt>> /\ timer' \in [Tracks -> BOOLEAN]
    BY <1>4, UnlockTyped DEF HandleAdvance, TypeOK
  <2>5. status' \in [Tracks -> Statuses]
    <3>1. status' = status \/ (n # None /\ LoadTrack(n))
      BY <1>4 DEF HandleAdvance
    <3>. QED BY <2>1, <3>1, LoadTyped DEF TypeOK, Ids
  <2>6. \/ main' = Idle
        \/ n # None /\ main' = Call("check", p, n, "tick")
        \/ main' = Call("preload", p, pl[p].current, "tick")
    BY <1>4 DEF HandleAdvance
  <2>7. /\ Call("check", p, n, "tick") \in Calls /\ Call("check", p, n, "tick").track = n
        /\ Call("preload", p, pl[p].current, "tick") \in Calls
        /\ Call("preload", p, pl[p].current, "tick").at = "preload"
    <3> HIDE DEF n
    <3>. QED BY <2>1, CallTyped DEF Places
  <2>. QED BY <2>3, <2>4, <2>5, <2>6, <2>7 DEF TypeOK, CallsTyped, Idle
<1>. QED BY <1>1, <1>2, <1>3, <1>4 DEF TickStep

LEMMA CallbackTyped ==
  ASSUME TypeOK, CallsTyped, Callback \/ \E p \in Players : Render(p)
  PROVE  TypeOK' /\ CallsTyped'
<1> USE PlayerAssumption
<1>1. ASSUME NEW p \in Players, Render(p) PROVE TypeOK' /\ CallsTyped'
  <2>1. pl[p].buffer \in Tracks /\ None \in Ids
    BY <1>1 DEF Render, TypeOK, PlayerType, Ids
  <2>2. rt' \in EarlyEnds
    BY <1>1, <2>1 DEF Render, EarlyEnds
  <2>. QED BY <1>1, <2>2 DEF Render, TypeOK, CallsTyped
<1> SUFFICES ASSUME Callback PROVE TypeOK' /\ CallsTyped'
  BY <1>1
<1> DEFINE p == rt.player
<1>2. /\ p \in Players /\ pl[p] \in PlayerType /\ rt.buf \in Tracks
      /\ rt.at \in {"name", "signal"} => rt \in LateEnds
      /\ rt.at \in {"render", "end", "ids", "publish"} => rt \in EarlyEnds
      /\ UNCHANGED <<status, locks, timer, alive, main>>
  BY MainTyped DEF Callback, RenderDone, EndSwaps, EndDefers, EndStops, SwapReadsId, SwapBuffers,
                   SwapIds, SwapSignals, InCallback, TypeOK, EarlyEnds, LateEnds
<1>3. rt' \in {Idle} \cup EarlyEnds \cup LateEnds
  <2>1. CASE RenderDone \/ EndDefers \/ EndStops \/ SwapSignals
    BY <2>1 DEF RenderDone, EndDefers, EndStops, SwapSignals
  <2>2. CASE EndSwaps
    <3>1. pl[p].nextBuffer \in Tracks /\ rt \in EarlyEnds
      BY <1>2, <2>2 DEF EndSwaps, InCallback, PlayerType, Ids
    <3>. QED BY <2>2, <3>1 DEF EndSwaps, EarlyEnds
  <2>3. CASE SwapReadsId
    <3>1. pl[p].next \in Ids /\ rt \in EarlyEnds
      BY <1>2, <2>3 DEF SwapReadsId, InCallback, PlayerType
    <3>. QED BY <2>3, <3>1 DEF SwapReadsId, EarlyEnds
  <2>4. CASE SwapBuffers
    <3>1. pl[p].current \in Ids /\ rt \in EarlyEnds
      BY <1>2, <2>4 DEF SwapBuffers, InCallback, PlayerType
    <3>2. rt' = [at |-> "name", player |-> rt.player, buf |-> rt.buf, id |-> rt.id, was |-> pl[p].current]
      BY <2>4 DEF SwapBuffers
    <3>. QED BY <3>1, <3>2 DEF EarlyEnds, LateEnds
  <2>5. CASE SwapIds
    <3>1. rt \in LateEnds
      BY <1>2, <2>5 DEF SwapIds, InCallback
    <3>. QED BY <2>5, <3>1 DEF SwapIds, At, LateEnds
  <2>. QED BY <2>1, <2>2, <2>3, <2>4, <2>5 DEF Callback
<1>4. pl' \in [Players -> PlayerType]
  <2>1. CASE RenderDone \/ EndSwaps \/ SwapReadsId
    BY <2>1 DEF RenderDone, EndSwaps, SwapReadsId, TypeOK
  <2>2. CASE EndDefers \/ EndStops
    BY SMTT(30), <1>2, <2>2 DEF EndDefers, EndStops, TypeOK, PlayerType, Ids
  <2>3. CASE SwapBuffers
    BY SMTT(30), <1>2, <2>3 DEF SwapBuffers, TypeOK, PlayerType, Ids
  <2>4. CASE SwapIds \/ SwapSignals
    <3>1. rt \in LateEnds
      BY <1>2, <2>4 DEF SwapIds, SwapSignals, InCallback
    <3>2. rt.id \in Ids /\ rt.was \in Ids /\ None \in Ids
      BY <3>1 DEF LateEnds, Ids
    <3>. QED BY SMTT(30), <1>2, <2>4, <3>2 DEF SwapIds, SwapSignals, Renamed, TypeOK, PlayerType
  <2>. QED BY <2>1, <2>2, <2>3, <2>4 DEF Callback
<1>. QED BY <1>2, <1>3, <1>4 DEF TypeOK, CallsTyped

(* Steps of one player's settings: nothing here is a track or a lock.      *)
SettingsStep ==
  \E p \in Players : \/ Play(p) \/ Pause(p) \/ Stop(p) \/ SetSpeed(p) \/ Recreate(p)
                     \/ \E m \in Modes : SetEndMode(p, m)
SamePlayer(x, y) ==
  /\ y.current = x.current /\ y.next = x.next /\ y.buffer = x.buffer
  /\ y.nextBuffer = x.nextBuffer /\ y.pending = x.pending
  /\ y.advance = x.advance /\ y.old = x.old

LEMMA SettingsEffect ==
  ASSUME TypeOK, SettingsStep
  PROVE  /\ MainIdle /\ UNCHANGED <<status, locks, timer, alive, main, rt>>
         /\ pl' \in [Players -> PlayerType]
         /\ \A p \in Players : SamePlayer(pl[p], pl'[p])
<1> USE PlayerAssumption
<1>0. PICK p \in Players : \E x :
        /\ MainIdle /\ Set(p, x)
        /\ \/ x = [pl[p] EXCEPT !.state = "playing", !.active = TRUE]
           \/ x = [pl[p] EXCEPT !.state = "paused"]
           \/ x = [pl[p] EXCEPT !.state = "stopped", !.active = FALSE]
           \/ x = [pl[p] EXCEPT !.shuttling = ~pl[p].shuttling]
           \/ \E m \in Modes : x = [pl[p] EXCEPT !.mode = m]
           \/ x = [pl[p] EXCEPT !.streams = TRUE, !.active = TRUE]
           \/ x = [pl[p] EXCEPT !.streams = FALSE, !.active = FALSE, !.state = "stopped"]
  <2>1. PICK p \in Players : \/ Play(p) \/ Pause(p) \/ Stop(p) \/ SetSpeed(p) \/ Recreate(p)
                             \/ \E m \in Modes : SetEndMode(p, m)
    BY DEF SettingsStep
  <2>2. CASE Play(p) \/ Pause(p) \/ Stop(p)
    BY Zenon, <2>2 DEF Play, Pause, Stop
  <2>3. CASE SetSpeed(p)
    BY Zenon, <2>3 DEF SetSpeed
  <2>4. CASE \E m \in Modes : SetEndMode(p, m)
    BY Zenon, <2>4 DEF SetEndMode
  <2>5. CASE Recreate(p)
    BY Zenon, <2>5 DEF Recreate, Routed
  <2>. QED BY Zenon, <2>1, <2>2, <2>3, <2>4, <2>5
<1>1. PICK x :
        /\ MainIdle /\ Set(p, x)
        /\ \/ x = [pl[p] EXCEPT !.state = "playing", !.active = TRUE]
           \/ x = [pl[p] EXCEPT !.state = "paused"]
           \/ x = [pl[p] EXCEPT !.state = "stopped", !.active = FALSE]
           \/ x = [pl[p] EXCEPT !.shuttling = ~pl[p].shuttling]
           \/ \E m \in Modes : x = [pl[p] EXCEPT !.mode = m]
           \/ x = [pl[p] EXCEPT !.streams = TRUE, !.active = TRUE]
           \/ x = [pl[p] EXCEPT !.streams = FALSE, !.active = FALSE, !.state = "stopped"]
  BY <1>0
<1>2. pl[p] \in PlayerType
  BY DEF TypeOK
<1>3. x \in PlayerType /\ SamePlayer(pl[p], x)
  <2>1. CASE x = [pl[p] EXCEPT !.shuttling = ~pl[p].shuttling]
    <3>1. (~pl[p].shuttling) \in BOOLEAN
      BY <1>2 DEF PlayerType
    <3>. QED BY <1>2, <2>1, <3>1 DEF PlayerType, SamePlayer
  <2>2. CASE \E m \in Modes : x = [pl[p] EXCEPT !.mode = m]
    BY <1>2, <2>2 DEF PlayerType, SamePlayer
  <2>3. CASE x = [pl[p] EXCEPT !.state = "paused"]
    BY <1>2, <2>3 DEF PlayerType, SamePlayer
  <2>4. CASE x = [pl[p] EXCEPT !.state = "playing", !.active = TRUE]
    BY <1>2, <2>4 DEF PlayerType, SamePlayer
  <2>5. CASE x = [pl[p] EXCEPT !.state = "stopped", !.active = FALSE]
    BY <1>2, <2>5 DEF PlayerType, SamePlayer
  <2>6. CASE x \in {[pl[p] EXCEPT !.streams = TRUE, !.active = TRUE],
                   [pl[p] EXCEPT !.streams = FALSE, !.active = FALSE, !.state = "stopped"]}
    BY ZenonT(60), <1>2, <2>6 DEF PlayerType, SamePlayer
  <2>. QED BY <1>1, <2>1, <2>2, <2>3, <2>4, <2>5, <2>6
<1>4. /\ pl' = [pl EXCEPT ![p] = x] /\ UNCHANGED <<status, locks, timer, alive, main, rt>>
  BY <1>1 DEF Set
<1>5. pl' \in [Players -> PlayerType]
  BY <1>3, <1>4 DEF TypeOK
<1>6. \A q \in Players : SamePlayer(pl[q], pl'[q])
  BY <1>3, <1>4 DEF TypeOK, SamePlayer
<1>. QED BY <1>1, <1>4, <1>5, <1>6

LEMMA CacheTyped ==
  ASSUME TypeOK, CallsTyped,
         \E t \in Tracks : Decoded(t) \/ Evicted(t) \/ UnlockTimer(t)
  PROVE  TypeOK' /\ CallsTyped'
<1>1. PICK t \in Tracks : Decoded(t) \/ Evicted(t) \/ UnlockTimer(t)
  OBVIOUS
<1>2. UNCHANGED <<pl, main, rt>>
  BY <1>1 DEF Decoded, Evicted, UnlockTimer
<1>3. CASE Decoded(t) \/ Evicted(t)
  BY <1>2, <1>3 DEF Decoded, Evicted, Resolve, Reclaim, TypeOK, CallsTyped, Statuses
<1>4. CASE UnlockTimer(t)
  <2>1. Drop(t) /\ status' = status /\ timer' = [timer EXCEPT ![t] = FALSE]
    BY <1>4 DEF UnlockTimer, TimerFires
  <2>. QED BY <1>2, <2>1, DropTyped DEF TypeOK, CallsTyped
<1>. QED BY <1>1, <1>3, <1>4

LEMMA TypeStep ==
  ASSUME TypeOK, CallsTyped, Next
  PROVE  TypeOK' /\ CallsTyped'
<1>1. ASSUME NEW p \in Players, NEW t \in Tracks, UserLoad(p, t)
      PROVE  TypeOK' /\ CallsTyped'
  <2>1. /\ LoadTrack(t) /\ main' = Call("check", p, t, "user")
        /\ UNCHANGED <<locks, timer, alive, pl, rt>>
    BY <1>1 DEF UserLoad
  <2>2. main' \in Calls /\ main'.track # None
    BY <2>1, CallTyped, PlayerAssumption DEF Places, Ids
  <2>. QED BY <2>1, <2>2, LoadTyped DEF TypeOK, CallsTyped
<1>2. CASE SettingsStep
  BY <1>2, SettingsEffect DEF TypeOK, CallsTyped
<1>3. CASE DestroyAll
  <2>1. UNCHANGED <<status, timer, pl, rt>> /\ alive' = FALSE /\ main' \in {main, Destroyed}
        /\ \A t \in Tracks : Holders(t) \in Nat
    <3>1. \A t \in Tracks : Holders(t) \in Nat
      <4> SUFFICES ASSUME NEW t \in Tracks PROVE Holders(t) \in Nat
        OBVIOUS
      <4>1. /\ IsFiniteSet({p \in Players : pl[p].current = t})
            /\ IsFiniteSet({p \in Players : pl[p].next = t})
        BY FS_Subset, PlayerAssumption
      <4>. QED BY <4>1, FS_CardinalityType DEF Holders
    <3>. QED BY <1>3, <3>1 DEF DestroyAll, Destroyed
  <2>2. locks' = [t \in Tracks |-> IF Holders(t) <= locks[t] THEN locks[t] - Holders(t) ELSE 0]
    BY <1>3 DEF DestroyAll
  <2>3. locks' \in [Tracks -> Nat]
    BY <2>1, <2>2 DEF TypeOK
  <2>4. CallsTyped'
    BY <2>1 DEF CallsTyped, Destroyed
  <2>. QED BY <2>1, <2>3, <2>4 DEF TypeOK
<1>. QED BY <1>1, <1>2, <1>3, MainStepTyped, TickStepTyped, CallbackTyped, CacheTyped
         DEF Next, SettingsStep

(* Every variable keeps its type, whatever the two threads interleave.     *)
THEOREM TypeCorrectness == Spec => []TypeOK
<1>1. Init => TypeOK /\ CallsTyped
  BY PlayerAssumption DEF Init, CacheInit, TypeOK, CallsTyped, Idle, NewPlayer, PlayerType, Ids,
                          Statuses
<1>2. TypeOK /\ CallsTyped /\ [Next]_vars => (TypeOK /\ CallsTyped)'
  <2>1. TypeOK /\ CallsTyped /\ UNCHANGED vars => (TypeOK /\ CallsTyped)'
    BY DEF vars, TypeOK, CallsTyped
  <2>. QED BY <2>1, TypeStep
<1>. QED BY <1>1, <1>2, PTL DEF Spec
-----------------------------------------------------------------------------
(* The inductive invariant, for behaviours in which no end of a track and  *)
(* no eviction falls into a call of the main thread, and every path        *)
(* resolves.                                                               *)
Undisturbed == Overlaps = {} /\ Missing = {}

(* An end of track and a call of the main thread are never both under way. *)
OneAtATime == alive /\ Ending => main = Idle

(* What the callback reads is locked until it returns.                     *)
RenderedHeld == alive /\ rt # Idle => status[rt.buf] = "ready" /\ locks[rt.buf] > 0

Doing(at, p) == main.at = at /\ main.player = p
Renaming(p) == rt.at = "name" /\ rt.player = p

(* PlaysItsTrack, in the middle of calls too.                              *)
Names(p) ==
  LET x == pl[p] IN
  /\ x.pending # None => x.pending = x.current /\ x.buffer = None
  /\ ~Renaming(p) => x.buffer \in {None, x.current}
  /\ x.nextBuffer \in {None, x.next}
  /\ x.current # None /\ x.next # None /\ ~Doing("forget", p) => x.next = NextTrack[x.current]
  /\ ~x.advance => x.old = None
NamesFollow == alive => \A p \in Players : Names(p)

(* What a call of the main thread knows of its player.                     *)
MainFollows ==
  alive /\ main.at \in Places =>
    LET x == pl[main.player] IN
    /\ main.at \in {"check", "clear", "replace", "forget", "lock", "hold"} =>
         status[main.track] # "absent"
    /\ main.at \in {"clear", "replace"} => main.cur = x.current /\ main.nxt = x.next
    /\ main.at \in {"replace", "forget", "lock"} =>
         x.buffer = None /\ x.nextBuffer = None /\ x.pending = None
    /\ main.at \in {"forget", "lock", "preload"} => x.current = main.track
    /\ main.at = "lock" => x.next = None
    /\ main.at = "hold" => x.next = main.track

(* What an end of track knows of its player.                               *)
EndFollows ==
  alive /\ rt # Idle =>
    LET x == pl[rt.player] IN
    /\ rt.at = "end" => x.buffer = rt.buf
    /\ rt.at \in {"ids", "publish"} => /\ x.buffer # None
                                       /\ x.nextBuffer = rt.buf /\ x.next = rt.buf
    /\ rt.at = "publish" => rt.id = rt.buf
    /\ rt.at = "name" => /\ x.buffer = rt.buf /\ x.next = rt.buf /\ rt.id = rt.buf
                         /\ x.nextBuffer = None /\ rt.was = x.current
    /\ rt.at = "signal" => x.current = rt.buf /\ x.next = None

(* RefsCovered, in the middle of calls too: an id whose lock is not taken  *)
(* yet, or handed to a timer already, is no claim; one the callback has    *)
(* taken off the player still is.                                          *)
Cur(t) == {p \in Players : pl[p].current = t /\ ~Doing("forget", p) /\ ~Doing("lock", p)}
Nxt(t) == {p \in Players : pl[p].next = t /\ ~Doing("forget", p) /\ ~Doing("hold", p)}
Old(t) == {p \in Players : pl[p].advance /\ pl[p].old = t}
One(b) == IF b THEN 1 ELSE 0
Loose(t) == One(timer[t]) + One(rt.at = "signal" /\ rt.was = t)
Claims(t) == Cardinality(Cur(t)) + Cardinality(Nxt(t)) + Cardinality(Old(t)) + Loose(t)
ClaimsCovered == alive => \A t \in Tracks : locks[t] >= Claims(t)

CallsFollow ==
  OneAtATime /\ RenderedHeld /\ BufferHeld /\ NamesFollow /\ MainFollows /\ EndFollows
    /\ ClaimsCovered

IInv == TypeOK /\ CallsTyped /\ CallsFollow
-----------------------------------------------------------------------------
(* Counting.                                                               *)

LEMMA CountChange ==
  ASSUME NEW P, IsFiniteSet(P), NEW S \in SUBSET P, NEW T \in SUBSET P, NEW p \in P,
         \A q \in P : q # p => (q \in S <=> q \in T)
  PROVE  /\ Cardinality(S) \in Nat /\ Cardinality(T) \in Nat
         /\ Cardinality(T) + One(p \in S) = Cardinality(S) + One(p \in T)
<1>1. IsFiniteSet(S) /\ IsFiniteSet(T)
  BY FS_Subset
<1>2. Cardinality(S) \in Nat /\ Cardinality(T) \in Nat
  BY <1>1, FS_CardinalityType
<1>3. CASE p \in S <=> p \in T
  <2>1. S = T
    BY <1>3
  <2>. QED BY <1>2, <1>3, <2>1 DEF One
<1>4. CASE p \in S /\ p \notin T
  <2>1. T = S \ {p}
    BY <1>4
  <2>2. Cardinality(T) = Cardinality(S) - 1
    BY <1>1, <1>4, <2>1, FS_RemoveElement
  <2>. QED BY <1>2, <1>4, <2>2 DEF One
<1>5. CASE p \notin S /\ p \in T
  <2>1. T = S \cup {p}
    BY <1>5
  <2>2. Cardinality(T) = Cardinality(S) + 1
    BY <1>1, <1>5, <2>1, FS_AddElement
  <2>. QED BY <1>2, <1>5, <2>2 DEF One
<1>. QED BY <1>3, <1>4, <1>5

(* What one player claims of a track.                                      *)
Share(p, t) == One(p \in Cur(t)) + One(p \in Nxt(t)) + One(p \in Old(t))
OnlyOf(p) == main.at \in {"forget", "lock", "hold"} => main.player = p

LEMMA ClaimsKept ==
  ASSUME TypeOK, TypeOK', ClaimsCovered, alive, NEW p \in Players,
         \A q \in Players : q # p => SamePlayer(pl[q], pl'[q]),
         OnlyOf(p), OnlyOf(p)',
         \A t \in Tracks : locks'[t] + Share(p, t) + Loose(t) >= locks[t] + Share(p, t)' + Loose(t)'
  PROVE  ClaimsCovered'
<1> SUFFICES ASSUME NEW t \in Tracks PROVE locks'[t] >= Claims(t)'
  BY DEF ClaimsCovered
<1>1. \A q \in Players : q # p => /\ (q \in Cur(t) <=> q \in Cur(t)')
                                 /\ (q \in Nxt(t) <=> q \in Nxt(t)')
                                 /\ (q \in Old(t) <=> q \in Old(t)')
  BY DEF Cur, Nxt, Old, Doing, OnlyOf, SamePlayer
<1>2. /\ Cur(t) \in SUBSET Players /\ Nxt(t) \in SUBSET Players /\ Old(t) \in SUBSET Players
      /\ Cur(t)' \in SUBSET Players /\ Nxt(t)' \in SUBSET Players /\ Old(t)' \in SUBSET Players
  BY DEF Cur, Nxt, Old
<1> DEFINE c == Cardinality(Cur(t))
           n == Cardinality(Nxt(t))
           o == Cardinality(Old(t))
           cc == Cardinality(Cur(t)')
           nn == Cardinality(Nxt(t)')
           oo == Cardinality(Old(t)')
<1>3. c \in Nat /\ cc \in Nat /\ cc + One(p \in Cur(t)) = c + One(p \in Cur(t)')
  BY <1>1, <1>2, CountChange, PlayerAssumption
<1>4. n \in Nat /\ nn \in Nat /\ nn + One(p \in Nxt(t)) = n + One(p \in Nxt(t)')
  BY <1>1, <1>2, CountChange, PlayerAssumption
<1>5. o \in Nat /\ oo \in Nat /\ oo + One(p \in Old(t)) = o + One(p \in Old(t)')
  BY <1>1, <1>2, CountChange, PlayerAssumption
<1>6. /\ Loose(t) \in Nat /\ Loose(t)' \in Nat /\ locks[t] \in Nat /\ locks'[t] \in Nat
      /\ \A b \in BOOLEAN : One(b) \in Nat
  BY DEF Loose, One, TypeOK
<1>7. locks[t] >= c + n + o + Loose(t)
  BY DEF ClaimsCovered, Claims
<1>8. locks'[t] + Share(p, t) + Loose(t) >= locks[t] + Share(p, t)' + Loose(t)'
  OBVIOUS
<1>9. Claims(t)' = cc + nn + oo + Loose(t)'
  BY DEF Claims
<1>10. /\ Share(p, t) = One(p \in Cur(t)) + One(p \in Nxt(t)) + One(p \in Old(t))
       /\ Share(p, t)' = One(p \in Cur(t)') + One(p \in Nxt(t)') + One(p \in Old(t)')
  BY DEF Share, One
<1> DEFINE a1 == One(p \in Cur(t))
           a2 == One(p \in Nxt(t))
           a3 == One(p \in Old(t))
           b1 == One(p \in Cur(t)')
           b2 == One(p \in Nxt(t)')
           b3 == One(p \in Old(t)')
           l == Loose(t)
           ll == Loose(t)'
<1>11. /\ a1 \in Nat /\ a2 \in Nat /\ a3 \in Nat /\ b1 \in Nat /\ b2 \in Nat /\ b3 \in Nat
       /\ l \in Nat /\ ll \in Nat
  BY <1>6 DEF One
<1>12. locks'[t] + a1 + a2 + a3 + l >= locks[t] + b1 + b2 + b3 + ll
  <2>1. Share(p, t) = a1 + a2 + a3 /\ Share(p, t)' = b1 + b2 + b3
    BY <1>10
  <2>2. locks'[t] + Share(p, t) + l >= locks[t] + Share(p, t)' + ll
    BY <1>8
  <2> HIDE DEF a1, a2, a3, b1, b2, b3, l, ll
  <2>3. \A x, y \in Nat : x = a1 + a2 + a3 /\ y = b1 + b2 + b3
          /\ locks'[t] + x + l >= locks[t] + y + ll
          => locks'[t] + a1 + a2 + a3 + l >= locks[t] + b1 + b2 + b3 + ll
    BY <1>6, <1>11
  <2>4. a1 + a2 + a3 \in Nat /\ b1 + b2 + b3 \in Nat
    BY <1>11
  <2>. QED BY <2>1, <2>2, <2>3, <2>4
<1> HIDE DEF c, n, o, cc, nn, oo, a1, a2, a3, b1, b2, b3, l, ll
<1>13. locks'[t] >= cc + nn + oo + ll
  <2>1. cc + a1 = c + b1 /\ nn + a2 = n + b2 /\ oo + a3 = o + b3
    BY <1>3, <1>4, <1>5 DEF a1, a2, a3, b1, b2, b3
  <2>2. locks[t] >= c + n + o + l
    BY <1>7 DEF l
  <2>. QED BY <1>3, <1>4, <1>5, <1>6, <1>11, <1>12, <2>1, <2>2
<1>. QED BY <1>9, <1>13 DEF ll
-----------------------------------------------------------------------------
(* The steps of the main thread, one lemma for each.                       *)

LEMMA LoadEffect ==
  ASSUME Undisturbed, TypeOK, NEW t \in Tracks, LoadTrack(t)
  PROVE  /\ \A u \in Tracks : status[u] = "ready" => status'[u] = "ready"
         /\ \A u \in Tracks : status[u] # "absent" => status'[u] # "absent"
         /\ status'[t] # "absent"
BY DEF Undisturbed, LoadTrack, TypeOK

(* While the players and the locks stay as they are ...                    *)
LEMMA PlayersSame ==
  ASSUME IInv, TypeOK', CallsTyped', alive, alive', UNCHANGED <<locks, timer, rt>>,
         \A p \in Players : SamePlayer(pl[p], pl'[p]),
         \A t \in Tracks : status[t] = "ready" => status'[t] = "ready",
         main.at \notin {"forget", "lock", "hold"}, main'.at \notin {"forget", "lock", "hold"},
         Ending => main' = Idle
  PROVE  /\ OneAtATime' /\ RenderedHeld' /\ BufferHeld' /\ NamesFollow' /\ EndFollows'
         /\ ClaimsCovered'
<1> USE DEF IInv, CallsFollow
<1>1. \A p \in Players : pl[p] \in PlayerType /\ pl'[p] \in PlayerType
  BY DEF TypeOK
<1>2. rt # Idle => rt.buf \in Tracks /\ rt.player \in Players
  BY MainTyped
<1>3. OneAtATime'
  BY DEF OneAtATime, Ending
<1>4. RenderedHeld'
  BY <1>2 DEF RenderedHeld
<1>5. BufferHeld'
  <2>1. \A p \in Players : {pl[p].buffer, pl[p].nextBuffer} \ {None} \subseteq Tracks
    BY <1>1 DEF PlayerType, Ids
  <2>. QED BY <1>2, <2>1 DEF BufferHeld, SamePlayer
<1>6. NamesFollow'
  BY DEF NamesFollow, Names, SamePlayer, Renaming, Doing
<1>7. EndFollows'
  BY <1>2 DEF EndFollows, SamePlayer
<1>8. ClaimsCovered'
  <2>1. \A t \in Tracks : Cur(t)' = Cur(t) /\ Nxt(t)' = Nxt(t) /\ Old(t)' = Old(t)
    BY DEF Cur, Nxt, Old, Doing, SamePlayer
  <2>2. \A t \in Tracks : Loose(t)' = Loose(t)
    BY DEF Loose
  <2>3. \A t \in Tracks : Claims(t)' = Claims(t)
    BY <2>1, <2>2 DEF Claims
  <2>. QED BY <2>3 DEF ClaimsCovered
<1>. QED BY <1>3, <1>4, <1>5, <1>6, <1>7, <1>8

LEMMA UserLoadStep ==
  ASSUME Undisturbed, IInv, TypeOK', CallsTyped',
         NEW p \in Players, NEW t \in Tracks, UserLoad(p, t)
  PROVE  CallsFollow' /\ alive'
<1> USE DEF IInv, CallsFollow
<1>1. /\ alive /\ main = Idle /\ ~Ending /\ LoadTrack(t) /\ main' = Call("check", p, t, "user")
      /\ UNCHANGED <<locks, timer, alive, pl, rt>>
  BY MainTyped DEF UserLoad, MainIdle, Steps, Undisturbed
<1>2. main'.at = "check" /\ main'.track = t /\ main.at = "idle"
  BY <1>1 DEF Call, Idle
<1>3. MainFollows'
  BY <1>1, <1>2, LoadEffect DEF MainFollows
<1>4. \A q \in Players : SamePlayer(pl[q], pl'[q])
  BY <1>1 DEF SamePlayer
<1>. QED BY <1>1, <1>2, <1>3, <1>4, LoadEffect, PlayersSame

LEMMA CheckStep ==
  ASSUME Undisturbed, IInv, TypeOK', CallsTyped', CheckTrack
  PROVE  CallsFollow' /\ alive'
<1> USE DEF IInv, CallsFollow
<1>1. /\ alive /\ main.at = "check" /\ main \in Calls /\ ~Ending /\ main.player \in Players
  BY MainTyped DEF CheckTrack, Steps, Undisturbed, Places, Calls
<1>2. ~Abort
  BY <1>1 DEF Abort, CheckTrack, MainFollows, Places
<1>3. /\ \/ main' = Idle
         \/ main' = [main EXCEPT !.at = "clear", !.cur = pl[main.player].current,
                                 !.nxt = pl[main.player].next]
      /\ UNCHANGED <<status, locks, timer, alive, pl, rt>>
  BY <1>2 DEF CheckTrack
<1>4. \/ main'.at = "idle"
      \/ /\ main'.at = "clear" /\ main'.player = main.player /\ main'.track = main.track
         /\ main'.cur = pl[main.player].current /\ main'.nxt = pl[main.player].next
  <2>1. CASE main' = Idle
    BY <2>1 DEF Idle
  <2>2. CASE main' # Idle
    BY <1>1, <1>3, <2>2 DEF Calls
  <2>. QED BY <2>1, <2>2
<1>5. MainFollows'
  BY <1>1, <1>3, <1>4 DEF MainFollows, Places
<1>6. \A q \in Players : SamePlayer(pl[q], pl'[q])
  BY <1>3 DEF SamePlayer
<1>. QED BY <1>1, <1>3, <1>4, <1>5, <1>6, PlayersSame

(* ... or a step gives one player other tracks.                            *)
Backed(p) ==
  \A t \in {pl[p].buffer, pl[p].nextBuffer} \ {None} : status[t] = "ready" /\ locks[t] > 0
KeepsReady ==
  \A t \in Tracks : status[t] = "ready" /\ locks[t] > 0 => status'[t] = "ready" /\ locks'[t] > 0

LEMMA PlayerStep ==
  ASSUME IInv, TypeOK', CallsTyped', alive, alive', NEW p \in Players,
         \A q \in Players : q # p => pl'[q] = pl[q], KeepsReady,
         OnlyOf(p), OnlyOf(p)', rt # Idle /\ rt.at = "name" => rt.player = p,
         rt'.at = "name" => rt'.player = p,
         Names(p)', Backed(p)', MainFollows', EndFollows', OneAtATime', RenderedHeld',
         \A t \in Tracks : locks'[t] + Share(p, t) + Loose(t) >= locks[t] + Share(p, t)' + Loose(t)'
  PROVE  CallsFollow'
<1> USE DEF IInv, CallsFollow
<1>1. \A q \in Players : pl[q] \in PlayerType /\ pl'[q] \in PlayerType
  BY DEF TypeOK
<1>2. NamesFollow'
  <2> SUFFICES ASSUME NEW q \in Players, q # p PROVE Names(q)'
    BY DEF NamesFollow
  <2>1. ~Doing("forget", q) /\ ~Doing("forget", q)' /\ ~Renaming(q) /\ ~Renaming(q)'
    BY DEF Doing, OnlyOf, Renaming, Idle
  <2>. QED BY <2>1 DEF NamesFollow, Names
<1>3. BufferHeld'
  <2>1. \A q \in Players : {pl[q].buffer, pl[q].nextBuffer} \ {None} \subseteq Tracks
    BY <1>1 DEF PlayerType, Ids
  <2>2. \A q \in Players : Backed(q)'
    BY <2>1 DEF BufferHeld, Backed, KeepsReady
  <2>. QED BY <2>2 DEF BufferHeld, Backed, RenderedHeld
<1>4. ClaimsCovered'
  <2>1. \A q \in Players : q # p => SamePlayer(pl[q], pl'[q])
    BY DEF SamePlayer
  <2>. QED BY <2>1, ClaimsKept
<1>. QED BY <1>2, <1>3, <1>4

LEMMA MainStep ==
  ASSUME IInv, TypeOK', CallsTyped', alive, alive', NEW p \in Players,
         \A q \in Players : q # p => pl'[q] = pl[q], KeepsReady, rt' = rt, ~Ending,
         OnlyOf(p), OnlyOf(p)', Names(p)', Backed(p)', MainFollows',
         \A t \in Tracks : locks'[t] + Share(p, t) + One(timer[t])
                             >= locks[t] + Share(p, t)' + One(timer'[t])
  PROVE  CallsFollow'
<1> USE DEF IInv, CallsFollow
<1>1. rt.at \in {"idle", "render"}
  BY DEF Ending
<1>2. EndFollows' /\ OneAtATime'
  BY <1>1 DEF EndFollows, OneAtATime, Ending
<1>3. RenderedHeld'
  BY MainTyped DEF RenderedHeld, KeepsReady
<1>4. \A t \in Tracks : locks'[t] + Share(p, t) + Loose(t) >= locks[t] + Share(p, t)' + Loose(t)'
  <2> SUFFICES ASSUME NEW t \in Tracks
               PROVE  locks'[t] + Share(p, t) + Loose(t) >= locks[t] + Share(p, t)' + Loose(t)'
    OBVIOUS
  <2>1. /\ One(timer[t]) \in Nat /\ One(timer'[t]) \in Nat
        /\ Loose(t) = One(timer[t]) /\ Loose(t)' = One(timer'[t])
    BY <1>1 DEF Loose, One
  <2>. QED BY <2>1
<1>. QED BY <1>1, <1>2, <1>3, <1>4, PlayerStep

LEMMA ClearStep ==
  ASSUME Undisturbed, IInv, TypeOK', CallsTyped', ClearBuffers
  PROVE  CallsFollow' /\ alive'
<1> USE DEF IInv, CallsFollow
<1>1. PICK p \in Players : p = main.player /\ pl[p] \in PlayerType
  BY MainTyped DEF ClearBuffers, Steps, Places, Calls, TypeOK
<1>2. /\ alive /\ alive' /\ main.at = "clear" /\ main \in Calls /\ ~Ending
      /\ main' = [main EXCEPT !.at = "replace"]
      /\ pl' = [pl EXCEPT ![p].buffer = None, ![p].nextBuffer = None, ![p].pending = None]
      /\ UNCHANGED <<status, locks, timer, rt>>
  BY <1>1, MainTyped DEF ClearBuffers, Cleared, Steps, Undisturbed, Places
<1>3. /\ main'.at = "replace" /\ main'.player = p /\ main'.track = main.track
      /\ main'.cur = main.cur /\ main'.nxt = main.nxt
  BY <1>1, <1>2 DEF Calls
<1>4. /\ \A q \in Players : q # p => pl'[q] = pl[q]
      /\ pl'[p] = [pl[p] EXCEPT !.buffer = None, !.nextBuffer = None, !.pending = None]
  BY <1>2 DEF TypeOK
<1>5. /\ pl'[p].buffer = None /\ pl'[p].nextBuffer = None /\ pl'[p].pending = None
      /\ pl'[p].current = pl[p].current /\ pl'[p].next = pl[p].next
      /\ pl'[p].advance = pl[p].advance /\ pl'[p].old = pl[p].old
  BY <1>1, <1>4 DEF PlayerType
<1>6. Names(p)'
  BY <1>2, <1>3, <1>5 DEF NamesFollow, Names, Doing, Renaming
<1>7. MainFollows'
  BY <1>1, <1>2, <1>3, <1>5 DEF MainFollows, Places
<1>8. \A t \in Tracks : Share(p, t)' = Share(p, t)
  BY <1>2, <1>3, <1>5 DEF Share, Cur, Nxt, Old, Doing
<1>9. Backed(p)' /\ KeepsReady /\ OnlyOf(p) /\ OnlyOf(p)'
  BY <1>1, <1>2, <1>3, <1>5 DEF Backed, KeepsReady, OnlyOf
<1>10. \A t \in Tracks : locks'[t] + Share(p, t) + One(timer[t])
                           >= locks[t] + Share(p, t)' + One(timer'[t])
  BY <1>2, <1>8 DEF TypeOK, Share, One
<1>. QED BY ZenonT(60), <1>1, <1>2, <1>4, <1>6, <1>7, <1>9, <1>10, MainStep

LEMMA ReplaceStep ==
  ASSUME Undisturbed, IInv, TypeOK', CallsTyped', ReplaceCurrent
  PROVE  CallsFollow' /\ alive'
<1> USE DEF IInv, CallsFollow
<1>1. PICK p \in Players : p = main.player /\ pl[p] \in PlayerType
  BY MainTyped DEF ReplaceCurrent, Steps, Places, Calls, TypeOK
<1>2. /\ alive /\ alive' /\ main.at = "replace" /\ main \in Calls /\ ~Ending
      /\ main' = [main EXCEPT !.at = "forget"]
      /\ pl' = [pl EXCEPT ![p].current = main.track]
      /\ timer' = [t \in Tracks |-> timer[t] \/ t \in {main.cur, main.nxt}]
      /\ UNCHANGED <<status, locks, rt>>
  BY <1>1, MainTyped DEF ReplaceCurrent, UnlockLater, Steps, Undisturbed, Places
<1>3. /\ main'.at = "forget" /\ main'.player = p /\ main'.track = main.track
  BY <1>1, <1>2 DEF Calls
<1>4. /\ \A q \in Players : q # p => pl'[q] = pl[q]
      /\ pl'[p] = [pl[p] EXCEPT !.current = main.track]
  BY <1>2 DEF TypeOK
<1>5. /\ pl'[p].buffer = pl[p].buffer /\ pl'[p].nextBuffer = pl[p].nextBuffer
      /\ pl'[p].pending = pl[p].pending
      /\ pl'[p].current = main.track /\ pl'[p].next = pl[p].next
      /\ pl'[p].advance = pl[p].advance /\ pl'[p].old = pl[p].old
  BY <1>1, <1>4 DEF PlayerType
<1>6. /\ main.cur = pl[p].current /\ main.nxt = pl[p].next /\ status[main.track] # "absent"
      /\ pl[p].buffer = None /\ pl[p].nextBuffer = None /\ pl[p].pending = None
  BY <1>1, <1>2 DEF MainFollows, Places
<1>7. Names(p)'
  BY <1>2, <1>3, <1>5, <1>6 DEF NamesFollow, Names, Doing, Renaming
<1>8. MainFollows'
  BY <1>1, <1>2, <1>3, <1>5, <1>6 DEF MainFollows, Places
<1>9. Backed(p)' /\ KeepsReady /\ OnlyOf(p) /\ OnlyOf(p)'
  BY <1>1, <1>2, <1>3, <1>5, <1>6 DEF Backed, KeepsReady, OnlyOf
<1>10. ASSUME NEW t \in Tracks
       PROVE  locks'[t] + Share(p, t) + One(timer[t]) >= locks[t] + Share(p, t)' + One(timer'[t])
  <2>1. /\ Share(p, t) = One(pl[p].current = t) + One(pl[p].next = t) + One(p \in Old(t))
        /\ Share(p, t)' = One(p \in Old(t))
    BY <1>2, <1>3, <1>5 DEF Share, Cur, Nxt, Old, Doing, One
  <2>2. timer'[t] <=> timer[t] \/ t = pl[p].current \/ t = pl[p].next
    BY <1>2, <1>6
  <2>. QED BY <1>2, <2>1, <2>2 DEF TypeOK, One
<1>. QED BY <1>1, <1>2, <1>4, <1>7, <1>8, <1>9, <1>10, MainStep

LEMMA ForgetStep ==
  ASSUME Undisturbed, IInv, TypeOK', CallsTyped', ForgetNext
  PROVE  CallsFollow' /\ alive'
<1> USE DEF IInv, CallsFollow
<1>1. PICK p \in Players : p = main.player /\ pl[p] \in PlayerType
  BY MainTyped DEF ForgetNext, Steps, Places, Calls, TypeOK
<1>2. /\ alive /\ alive' /\ main.at = "forget" /\ main \in Calls /\ ~Ending
      /\ main' = [main EXCEPT !.at = "lock"]
      /\ pl' = [pl EXCEPT ![p].next = None]
      /\ UNCHANGED <<status, locks, timer, rt>>
  BY <1>1, MainTyped DEF ForgetNext, Steps, Undisturbed, Places
<1>3. /\ main'.at = "lock" /\ main'.player = p /\ main'.track = main.track
  BY <1>1, <1>2 DEF Calls
<1>4. /\ \A q \in Players : q # p => pl'[q] = pl[q]
      /\ pl'[p] = [pl[p] EXCEPT !.next = None]
  BY <1>2 DEF TypeOK
<1>5. /\ pl'[p].buffer = pl[p].buffer /\ pl'[p].nextBuffer = pl[p].nextBuffer
      /\ pl'[p].pending = pl[p].pending
      /\ pl'[p].current = pl[p].current /\ pl'[p].next = None
      /\ pl'[p].advance = pl[p].advance /\ pl'[p].old = pl[p].old
  BY <1>1, <1>4 DEF PlayerType
<1>6. /\ status[main.track] # "absent" /\ pl[p].current = main.track
      /\ pl[p].buffer = None /\ pl[p].nextBuffer = None /\ pl[p].pending = None
  BY <1>1, <1>2 DEF MainFollows, Places
<1>7. Names(p)'
  BY <1>2, <1>3, <1>5, <1>6 DEF NamesFollow, Names, Doing, Renaming
<1>8. MainFollows'
  BY <1>1, <1>2, <1>3, <1>5, <1>6 DEF MainFollows, Places
<1>9. Backed(p)' /\ KeepsReady /\ OnlyOf(p) /\ OnlyOf(p)'
  BY <1>1, <1>2, <1>3, <1>5, <1>6 DEF Backed, KeepsReady, OnlyOf
<1>10. ASSUME NEW t \in Tracks
       PROVE  locks'[t] + Share(p, t) + One(timer[t]) >= locks[t] + Share(p, t)' + One(timer'[t])
  <2>1. /\ Share(p, t) = One(p \in Old(t)) /\ Share(p, t)' = One(p \in Old(t))
    BY <1>1, <1>2, <1>3, <1>5, PlayerAssumption DEF Share, Cur, Nxt, Old, Doing, One
  <2>. QED BY <1>2, <2>1 DEF TypeOK, One
<1>. QED BY <1>1, <1>2, <1>4, <1>7, <1>8, <1>9, <1>10, MainStep

LEMMA LockStep ==
  ASSUME Undisturbed, IInv, TypeOK', CallsTyped', LockTrack
  PROVE  CallsFollow' /\ alive'
<1> USE DEF IInv, CallsFollow
<1>1. PICK p \in Players, u \in Tracks : p = main.player /\ u = main.track /\ pl[p] \in PlayerType
  BY MainTyped DEF LockTrack, Steps, Places, Calls, TypeOK, CallsTyped, Ids
<1>2. /\ alive /\ main.at = "lock" /\ main \in Calls /\ ~Ending /\ u # None
  BY <1>1, MainTyped, PlayerAssumption DEF LockTrack, Steps, Undisturbed, Places
<1>3. /\ status[u] # "absent" /\ pl[p].current = u /\ pl[p].next = None
      /\ pl[p].buffer = None /\ pl[p].nextBuffer = None /\ pl[p].pending = None
  BY <1>1, <1>2 DEF MainFollows, Places
<1>4. /\ alive' /\ UNCHANGED <<status, timer, rt>>
      /\ \/ /\ status[u] = "failed" /\ locks' = locks
            /\ pl' = Refused(p) /\ main' = Idle
         \/ /\ status[u] \in {"ready", "loading"} /\ locks' = [locks EXCEPT ![u] = locks[u] + 1]
            /\ pl' = Granted(p, u) /\ main' = [main EXCEPT !.at = "preload"]
  BY <1>1, <1>2, <1>3 DEF LockTrack, Held
<1>5. CASE status[u] = "failed"
  <2>1. /\ locks' = locks /\ main'.at = "idle" /\ pl' = [pl EXCEPT ![p].current = None]
    BY <1>4, <1>5 DEF Refused, Idle
  <2>2. /\ \A q \in Players : q # p => pl'[q] = pl[q]
        /\ pl'[p] = [pl[p] EXCEPT !.current = None]
    BY <2>1 DEF TypeOK
  <2>3. /\ pl'[p].buffer = None /\ pl'[p].nextBuffer = None /\ pl'[p].pending = None
        /\ pl'[p].current = None /\ pl'[p].next = None
        /\ pl'[p].advance = pl[p].advance /\ pl'[p].old = pl[p].old
    BY <1>1, <1>3, <2>2 DEF PlayerType
  <2>4. Names(p)' /\ MainFollows' /\ Backed(p)' /\ KeepsReady /\ OnlyOf(p) /\ OnlyOf(p)'
    BY <1>1, <1>2, <1>4, <2>1, <2>3 DEF NamesFollow, Names, MainFollows, Places, Backed,
                                        KeepsReady, OnlyOf
  <2>5. ASSUME NEW t \in Tracks
        PROVE  locks'[t] + Share(p, t) + One(timer[t]) >= locks[t] + Share(p, t)' + One(timer'[t])
    <3>1. /\ Share(p, t) = One(p \in Old(t)) /\ Share(p, t)' = One(p \in Old(t))
      BY <1>1, <1>2, <1>3, <2>1, <2>3, PlayerAssumption DEF Share, Cur, Nxt, Old, Doing, One
    <3>. QED BY <1>4, <2>1, <3>1 DEF TypeOK, One
  <2>. QED BY <1>2, <1>4, <2>2, <2>4, <2>5, MainStep
<1>6. CASE status[u] # "failed"
  <2>1. /\ locks' = [locks EXCEPT ![u] = locks[u] + 1] /\ pl' = Granted(p, u)
        /\ main' = [main EXCEPT !.at = "preload"]
    BY <1>4, <1>6
  <2>2. /\ main'.at = "preload" /\ main'.player = p /\ main'.track = u
    BY <1>1, <1>2, <2>1 DEF Calls
  <2>3. /\ \A q \in Players : q # p => pl'[q] = pl[q]
        /\ \/ status[u] = "ready" /\ pl'[p] = [pl[p] EXCEPT !.buffer = u]
           \/ status[u] # "ready" /\ pl'[p] = [pl[p] EXCEPT !.pending = u]
    BY <2>1 DEF TypeOK, Granted
  <2>4. /\ pl'[p].nextBuffer = None /\ pl'[p].current = u /\ pl'[p].next = None
        /\ \/ status[u] = "ready" /\ pl'[p].buffer = u /\ pl'[p].pending = None
           \/ pl'[p].pending = u /\ pl'[p].buffer = None
        /\ pl'[p].advance = pl[p].advance /\ pl'[p].old = pl[p].old
    BY <1>1, <1>3, <2>3 DEF PlayerType
  <2>5. /\ locks'[u] = locks[u] + 1 /\ \A t \in Tracks : locks[t] \in Nat
        /\ \A t \in Tracks : t # u => locks'[t] = locks[t]
    BY <2>1 DEF TypeOK
  <2>6. KeepsReady /\ OnlyOf(p) /\ OnlyOf(p)'
    BY <1>1, <1>4, <2>2, <2>5 DEF KeepsReady, OnlyOf
  <2>7. Backed(p)'
    BY <1>2, <1>4, <2>4, <2>5 DEF Backed
  <2>8. Names(p)'
    BY <1>2, <2>2, <2>4 DEF NamesFollow, Names, Doing
  <2>9. MainFollows'
    BY <2>2, <2>4 DEF MainFollows, Places
  <2>10. ASSUME NEW t \in Tracks
        PROVE  locks'[t] + Share(p, t) + One(timer[t]) >= locks[t] + Share(p, t)' + One(timer'[t])
    <3>1. /\ Share(p, t) = One(p \in Old(t))
          /\ Share(p, t)' = One(t = u) + One(p \in Old(t))
      BY <1>1, <1>2, <1>3, <2>2, <2>4, PlayerAssumption DEF Share, Cur, Nxt, Old, Doing, One
    <3>. QED BY <1>4, <2>5, <3>1 DEF One
  <2>. QED BY <1>2, <1>4, <2>3, <2>6, <2>7, <2>8, <2>9, <2>10, MainStep
<1>. QED BY <1>5, <1>6

LEMMA PreloadStep ==
  ASSUME Undisturbed, IInv, TypeOK', CallsTyped', Preload
  PROVE  CallsFollow' /\ alive'
<1> USE DEF IInv, CallsFollow
<1>1. PICK p \in Players : p = main.player /\ pl[p] \in PlayerType
  BY MainTyped DEF Preload, Steps, Places, Calls, TypeOK
<1>2. /\ alive /\ alive' /\ main.at = "preload" /\ main \in Calls /\ ~Ending
      /\ UNCHANGED <<locks, timer, rt>> /\ pl[p].current = main.track
  BY <1>1, MainTyped DEF Preload, Steps, Undisturbed, Places, MainFollows
<1>3. CASE main' = Idle /\ UNCHANGED <<status, pl>>
  <2>1. main'.at = "idle" /\ \A q \in Players : SamePlayer(pl[q], pl'[q])
    BY <1>3 DEF Idle, SamePlayer
  <2>2. MainFollows'
    BY <2>1 DEF MainFollows, Places
  <2>. QED BY <1>2, <1>3, <2>1, <2>2, PlayersSame
<1>4. CASE ~(main' = Idle /\ UNCHANGED <<status, pl>>)
  <2>1. PICK n \in Tracks :
          /\ n = NextTrack[pl[p].current] /\ pl[p].current # None /\ LoadTrack(n)
          /\ pl' = [pl EXCEPT ![p].next = n] /\ main' = [main EXCEPT !.at = "hold", !.track = n]
    <3>1. main.track \in Ids
      BY <1>2 DEF Calls
    <3>2. main.track # None => NextTrack[main.track] \in Tracks \cup {None}
      BY <3>1, PlayerAssumption DEF Ids
    <3>. QED BY <1>1, <1>2, <1>4, <3>2 DEF Preload
  <2>2. /\ main'.at = "hold" /\ main'.player = p /\ main'.track = n
    BY <1>1, <1>2, <2>1 DEF Calls
  <2>3. /\ \A q \in Players : q # p => pl'[q] = pl[q]
        /\ pl'[p] = [pl[p] EXCEPT !.next = n]
    BY <2>1 DEF TypeOK
  <2>4. /\ pl'[p].buffer = pl[p].buffer /\ pl'[p].nextBuffer = pl[p].nextBuffer
        /\ pl'[p].pending = pl[p].pending
        /\ pl'[p].current = pl[p].current /\ pl'[p].next = n
        /\ pl'[p].advance = pl[p].advance /\ pl'[p].old = pl[p].old
    BY <1>1, <2>3 DEF PlayerType
  <2>5. Names(p) /\ Backed(p)
    BY <1>2 DEF NamesFollow, BufferHeld, Backed
  <2>6. pl[p].nextBuffer \in {None, n}
    BY <1>2, <2>1, <2>5 DEF Names, Doing
  <2>7. Names(p)'
    BY <1>2, <2>1, <2>2, <2>4, <2>5, <2>6 DEF Names, Doing, Renaming
  <2>8. KeepsReady /\ OnlyOf(p) /\ OnlyOf(p)'
    BY <1>1, <1>2, <2>1, <2>2, LoadEffect DEF KeepsReady, OnlyOf
  <2>9. Backed(p)'
    <3>1. pl[p].buffer \in Ids /\ pl[p].nextBuffer \in Ids
      BY <1>1 DEF PlayerType
    <3>. QED BY <2>4, <2>5, <2>8, <3>1 DEF Backed, KeepsReady, Ids
  <2>10. MainFollows'
    BY <2>1, <2>2, <2>4, LoadEffect DEF MainFollows, Places
  <2>11. ASSUME NEW t \in Tracks
         PROVE  locks'[t] + Share(p, t) + One(timer[t]) >= locks[t] + Share(p, t)' + One(timer'[t])
    <3>1. /\ Share(p, t) = One(pl[p].current = t) + One(pl[p].next = t) + One(p \in Old(t))
          /\ Share(p, t)' = One(pl[p].current = t) + One(p \in Old(t))
      BY <1>2, <2>2, <2>4 DEF Share, Cur, Nxt, Old, Doing, One
    <3>. QED BY <1>2, <3>1 DEF TypeOK, One
  <2>. QED BY <1>2, <2>3, <2>7, <2>8, <2>9, <2>10, <2>11, MainStep
<1>. QED BY <1>3, <1>4

LEMMA HoldStep ==
  ASSUME Undisturbed, IInv, TypeOK', CallsTyped', HoldNext
  PROVE  CallsFollow' /\ alive'
<1> USE DEF IInv, CallsFollow
<1>1. PICK p \in Players, u \in Tracks : p = main.player /\ u = main.track /\ pl[p] \in PlayerType
  BY MainTyped DEF HoldNext, Steps, Places, Calls, TypeOK, CallsTyped, Ids
<1>2. /\ alive /\ main.at = "hold" /\ main \in Calls /\ ~Ending /\ u # None
  BY <1>1, MainTyped, PlayerAssumption DEF HoldNext, Steps, Undisturbed, Places
<1>3. /\ status[u] # "absent" /\ pl[p].next = u
  BY <1>1, <1>2 DEF MainFollows, Places
<1>4. /\ alive' /\ UNCHANGED <<status, timer, rt>> /\ main'.at = "idle"
      /\ locks' = [locks EXCEPT ![u] = locks[u] + 1]
      /\ pl' = IF status[u] = "ready" THEN [pl EXCEPT ![p].nextBuffer = u] ELSE pl
  <2>1. /\ UNCHANGED <<status, timer, alive, rt>> /\ main' = Idle /\ locks' = Held(u)
        /\ pl' = IF status[u] = "ready" THEN [pl EXCEPT ![p].nextBuffer = u] ELSE pl
    BY <1>1, <1>3 DEF HoldNext
  <2>2. main'.at = "idle"
    BY <2>1 DEF Idle
  <2>. QED BY <1>2, <2>1, <2>2 DEF Held
<1>5. /\ \A q \in Players : q # p => pl'[q] = pl[q]
      /\ \/ status[u] = "ready" /\ pl'[p] = [pl[p] EXCEPT !.nextBuffer = u]
         \/ pl'[p] = pl[p]
  BY <1>4 DEF TypeOK
<1>6. /\ pl'[p].buffer = pl[p].buffer /\ pl'[p].pending = pl[p].pending
      /\ pl'[p].current = pl[p].current /\ pl'[p].next = u
      /\ \/ status[u] = "ready" /\ pl'[p].nextBuffer = u
         \/ pl'[p].nextBuffer = pl[p].nextBuffer
      /\ pl'[p].advance = pl[p].advance /\ pl'[p].old = pl[p].old
  BY <1>1, <1>3, <1>5 DEF PlayerType
<1>7. /\ locks'[u] = locks[u] + 1 /\ \A t \in Tracks : locks[t] \in Nat
      /\ \A t \in Tracks : t # u => locks'[t] = locks[t]
  BY <1>4 DEF TypeOK
<1>8. Names(p) /\ Backed(p)
  BY <1>2 DEF NamesFollow, BufferHeld, Backed
<1>9. Names(p)'
  BY <1>2, <1>3, <1>4, <1>6, <1>8 DEF Names, Doing, Renaming
<1>10. KeepsReady /\ OnlyOf(p) /\ OnlyOf(p)' /\ MainFollows'
  BY <1>1, <1>4, <1>7 DEF KeepsReady, OnlyOf, MainFollows, Places
<1>11. Backed(p)'
  <2>1. pl[p].buffer \in Ids /\ pl[p].nextBuffer \in Ids
    BY <1>1 DEF PlayerType
  <2>. QED BY <1>4, <1>6, <1>7, <1>8, <1>10, <2>1 DEF Backed, KeepsReady, Ids
<1>12. ASSUME NEW t \in Tracks
       PROVE  locks'[t] + Share(p, t) + One(timer[t]) >= locks[t] + Share(p, t)' + One(timer'[t])
  <2>1. /\ Share(p, t) = One(pl[p].current = t) + One(p \in Old(t))
        /\ Share(p, t)' = One(pl[p].current = t) + One(t = u) + One(p \in Old(t))
    BY <1>1, <1>2, <1>4, <1>6 DEF Share, Cur, Nxt, Old, Doing, One
  <2>. QED BY <1>4, <1>7, <2>1 DEF One
<1>. QED BY <1>2, <1>4, <1>5, <1>9, <1>10, <1>11, <1>12, MainStep

(* A lock given back: nobody plays the track, and the count had one more.  *)
LEMMA DropEffect ==
  ASSUME TypeOK, NEW t \in Tracks, locks[t] > 0, Drop(t)
  PROVE  /\ alive' = alive /\ locks'[t] = locks[t] - 1
         /\ \A u \in Tracks : locks[u] \in Nat /\ (u # t => locks'[u] = locks[u])
BY DEF Drop, TypeOK

LEMMA ClaimsCount ==
  ASSUME TypeOK
  PROVE  /\ \A t \in Tracks : /\ Cardinality(Cur(t)) \in Nat /\ Cardinality(Nxt(t)) \in Nat
                               /\ Cardinality(Old(t)) \in Nat /\ Loose(t) \in Nat
         /\ \A t \in Tracks, p \in Players :
              /\ p \in Cur(t) => Cardinality(Cur(t)) >= 1
              /\ p \in Nxt(t) => Cardinality(Nxt(t)) >= 1
<1> SUFFICES ASSUME NEW t \in Tracks
             PROVE  /\ Cardinality(Cur(t)) \in Nat /\ Cardinality(Nxt(t)) \in Nat
                    /\ Cardinality(Old(t)) \in Nat /\ Loose(t) \in Nat
                    /\ Cur(t) # {} => Cardinality(Cur(t)) >= 1
                    /\ Nxt(t) # {} => Cardinality(Nxt(t)) >= 1
  BY DEF Cur, Nxt
<1>1. IsFiniteSet(Cur(t)) /\ IsFiniteSet(Nxt(t)) /\ IsFiniteSet(Old(t))
  BY FS_Subset, PlayerAssumption DEF Cur, Nxt, Old
<1>2. /\ Cardinality(Cur(t)) \in Nat /\ Cardinality(Nxt(t)) \in Nat /\ Cardinality(Old(t)) \in Nat
      /\ Cardinality(Cur(t)) = 0 <=> Cur(t) = {}
      /\ Cardinality(Nxt(t)) = 0 <=> Nxt(t) = {}
  BY <1>1, FS_CardinalityType, FS_EmptySet
<1>. QED BY <1>2 DEF Loose, One

(* Between calls, what a player names is locked.                           *)
LEMMA NamedLocked ==
  ASSUME IInv, alive, NEW p \in Players, NEW t \in Tracks,
         main.at \notin {"forget", "lock", "hold"}, t \in {pl[p].current, pl[p].next}
  PROVE  locks[t] > 0
<1>1. p \in Cur(t) \/ p \in Nxt(t)
  BY DEF Cur, Nxt, Doing
<1>2. locks[t] \in Nat /\ locks[t] >= Claims(t)
  BY DEF IInv, TypeOK, CallsFollow, ClaimsCovered
<1>. QED BY <1>1, <1>2, ClaimsCount DEF Claims, IInv

LEMMA PollStep ==
  ASSUME Undisturbed, IInv, TypeOK', CallsTyped', NEW p \in Players, PollPending(p)
  PROVE  CallsFollow' /\ alive'
<1> USE DEF IInv, CallsFollow
<1> DEFINE t == pl[p].pending
<1>1. /\ alive /\ main = Idle /\ main.at = "idle" /\ ~Ending /\ pl[p] \in PlayerType
      /\ UNCHANGED <<status, timer, rt>> /\ Names(p) /\ Backed(p)
  BY MainTyped DEF PollPending, MainIdle, Steps, Undisturbed, TypeOK, NamesFollow, BufferHeld, Backed
<1>2. t # None => /\ t \in Tracks /\ locks[t] > 0 /\ pl[p].current = t /\ pl[p].buffer = None
  <2>1. t \in Ids
    BY <1>1 DEF PlayerType
  <2>2. t # None => pl[p].current = t /\ pl[p].buffer = None
    BY <1>1 DEF Names
  <2>. QED BY <1>1, <2>1, <2>2, NamedLocked DEF Ids
<1>3. ASSUME main' = Call("attach", p, None, "tick")
      PROVE  main'.at = "attach" /\ main'.player = p /\ main'.track = None /\ MainFollows'
  <2>1. main'.at = "attach" /\ main'.player = p /\ main'.track = None
    BY <1>3 DEF Call
  <2>. QED BY <2>1 DEF MainFollows, Places
<1>4. CASE PendingStatus(p) \in {"none", "loading", "absent"}
  <2>1. main' = Call("attach", p, None, "tick") /\ UNCHANGED <<locks, alive, pl>>
    BY <1>4 DEF PollPending
  <2>2. \A q \in Players : SamePlayer(pl[q], pl'[q])
    BY <2>1 DEF SamePlayer
  <2>. QED BY <1>1, <1>3, <2>1, <2>2, PlayersSame
<1>5. CASE PendingStatus(p) = "failed"
  <2>1. t # None /\ status[t] = "failed"
    BY <1>5 DEF PendingStatus
  <2>2. /\ Drop(t) /\ main' = Call("attach", p, None, "tick")
        /\ pl' = [pl EXCEPT ![p].pending = None, ![p].current = None]
    BY <1>5 DEF PollPending
  <2>3. /\ t \in Tracks /\ alive' = alive /\ locks'[t] = locks[t] - 1
        /\ \A u \in Tracks : locks[u] \in Nat /\ (u # t => locks'[u] = locks[u])
    BY <1>2, <2>1, <2>2, DropEffect
  <2>4. /\ \A q \in Players : q # p => pl'[q] = pl[q]
        /\ pl'[p] = [pl[p] EXCEPT !.pending = None, !.current = None]
    BY <2>2 DEF TypeOK
  <2>5. /\ pl'[p].buffer = pl[p].buffer /\ pl'[p].nextBuffer = pl[p].nextBuffer
        /\ pl'[p].pending = None /\ pl'[p].current = None /\ pl'[p].next = pl[p].next
        /\ pl'[p].advance = pl[p].advance /\ pl'[p].old = pl[p].old
    BY <1>1, <2>4 DEF PlayerType
  <2>6. pl[p].current = t /\ pl[p].buffer = None
    BY <1>2, <2>1
  <2> HIDE DEF t
  <2>7. Names(p)'
    BY <1>1, <2>5, <2>6 DEF Names
  <2>8. KeepsReady
    BY <1>1, <2>1, <2>3 DEF KeepsReady
  <2>9. Backed(p)'
    <3>1. pl[p].nextBuffer \in Ids
      BY <1>1 DEF PlayerType
    <3>. QED BY <1>1, <2>5, <2>6, <2>8, <3>1 DEF Backed, KeepsReady, Ids
  <2>10. ASSUME NEW u \in Tracks
         PROVE  locks'[u] + Share(p, u) + One(timer[u]) >= locks[u] + Share(p, u)' + One(timer'[u])
    <3>1. /\ Share(p, u) = One(u = t) + One(pl[p].next = u) + One(p \in Old(u))
          /\ Share(p, u)' = One(pl[p].next = u) + One(p \in Old(u))
      BY <1>1, <1>3, <2>2, <2>5, <2>6, PlayerAssumption DEF Share, Cur, Nxt, Old, Doing, One
    <3>. QED BY <1>1, <2>3, <3>1 DEF One
  <2>. QED BY <1>1, <1>3, <2>2, <2>3, <2>4, <2>7, <2>8, <2>9, <2>10, MainStep DEF OnlyOf
<1>6. CASE PendingStatus(p) = "ready"
  <2>1. t # None /\ status[t] = "ready"
    BY <1>6 DEF PendingStatus
  <2>2. ~Unlocked(t)
    BY <1>2, <2>1 DEF Unlocked
  <2>3. /\ UNCHANGED <<locks, alive>> /\ main' = Call("attach", p, None, "tick")
        /\ pl' = [pl EXCEPT ![p].pending = None, ![p].buffer = t]
    BY <1>6, <2>2 DEF PollPending
  <2>4. /\ \A q \in Players : q # p => pl'[q] = pl[q]
        /\ pl'[p] = [pl[p] EXCEPT !.pending = None, !.buffer = t]
    BY <2>3 DEF TypeOK
  <2>5. /\ pl'[p].buffer = t /\ pl'[p].nextBuffer = pl[p].nextBuffer
        /\ pl'[p].pending = None /\ pl'[p].current = t /\ pl'[p].next = pl[p].next
        /\ pl'[p].advance = pl[p].advance /\ pl'[p].old = pl[p].old /\ pl[p].current = t
    BY <1>1, <1>2, <2>1, <2>4 DEF PlayerType
  <2> HIDE DEF t
  <2>6. Names(p)'
    BY <1>1, <1>3, <2>3, <2>5 DEF Names, Doing
  <2>7. KeepsReady
    BY <1>1, <2>3 DEF KeepsReady
  <2>8. Backed(p)'
    BY <1>1, <1>2, <2>1, <2>3, <2>5 DEF Backed
  <2>9. \A u \in Tracks : Share(p, u)' = Share(p, u)
    BY <1>1, <1>3, <2>3, <2>5 DEF Share, Cur, Nxt, Old, Doing
  <2>10. ASSUME NEW u \in Tracks
         PROVE  locks'[u] + Share(p, u) + One(timer[u]) >= locks[u] + Share(p, u)' + One(timer'[u])
    BY <1>1, <2>3, <2>9 DEF TypeOK, Share, One
  <2>. QED BY <1>1, <1>3, <2>3, <2>4, <2>6, <2>7, <2>8, <2>10, MainStep DEF OnlyOf
<1>. QED BY <1>4, <1>5, <1>6 DEF PollPending

LEMMA AttachStep ==
  ASSUME Undisturbed, IInv, TypeOK', CallsTyped', AttachNext
  PROVE  CallsFollow' /\ alive'
<1> USE DEF IInv, CallsFollow
<1>1. PICK p \in Players : p = main.player /\ pl[p] \in PlayerType
  BY MainTyped DEF AttachNext, Steps, Places, Calls, TypeOK
<1>2. /\ alive /\ main.at = "attach" /\ main \in Calls /\ ~Ending /\ Names(p) /\ Backed(p)
  BY <1>1, MainTyped DEF AttachNext, Steps, Undisturbed, Places, NamesFollow, BufferHeld, Backed
<1>3. pl[p].next \in Ids
  BY <1>1 DEF PlayerType
<1>4. pl[p].next # None => locks[pl[p].next] > 0
  BY <1>2, <1>3, NamedLocked DEF Ids
<1>5. ~(Attachable(p) /\ Unlocked(pl[p].next))
  BY <1>4 DEF Attachable, Unlocked
<1>6. /\ alive' /\ UNCHANGED <<status, locks, timer, rt>> /\ main' = [main EXCEPT !.at = "advance"]
      /\ pl' = IF Attachable(p) THEN [pl EXCEPT ![p].nextBuffer = pl[p].next] ELSE pl
  BY <1>1, <1>2, <1>5 DEF AttachNext
<1>7. main'.at = "advance" /\ main'.player = p
  BY <1>1, <1>2, <1>6 DEF Calls
<1>8. MainFollows'
  BY <1>7 DEF MainFollows, Places
<1>9. CASE ~Attachable(p)
  <2>1. \A q \in Players : SamePlayer(pl[q], pl'[q])
    BY <1>6, <1>9 DEF SamePlayer
  <2>. QED BY <1>2, <1>6, <1>7, <1>8, <2>1, PlayersSame
<1>10. CASE Attachable(p)
  <2>1. /\ \A q \in Players : q # p => pl'[q] = pl[q]
        /\ pl'[p] = [pl[p] EXCEPT !.nextBuffer = pl[p].next]
    BY <1>6, <1>10 DEF TypeOK
  <2>2. /\ pl'[p].buffer = pl[p].buffer /\ pl'[p].nextBuffer = pl[p].next
        /\ pl'[p].pending = pl[p].pending /\ pl'[p].current = pl[p].current
        /\ pl'[p].next = pl[p].next
        /\ pl'[p].advance = pl[p].advance /\ pl'[p].old = pl[p].old
    BY <1>1, <2>1 DEF PlayerType
  <2>3. Names(p)' /\ KeepsReady /\ OnlyOf(p) /\ OnlyOf(p)'
    BY <1>1, <1>2, <1>6, <1>7, <2>2 DEF Names, Doing, Renaming, KeepsReady, OnlyOf
  <2>4. Backed(p)'
    BY <1>2, <1>4, <1>6, <1>10, <2>2 DEF Backed, Attachable
  <2>5. \A u \in Tracks : Share(p, u)' = Share(p, u)
    BY <1>2, <1>7, <2>2 DEF Share, Cur, Nxt, Old, Doing
  <2>6. ASSUME NEW u \in Tracks
        PROVE  locks'[u] + Share(p, u) + One(timer[u]) >= locks[u] + Share(p, u)' + One(timer'[u])
    BY <1>6, <2>5 DEF TypeOK, Share, One
  <2>. QED BY <1>2, <1>6, <1>8, <2>1, <2>3, <2>4, <2>6, MainStep
<1>. QED BY <1>9, <1>10

LEMMA HandleStep ==
  ASSUME Undisturbed, IInv, TypeOK', CallsTyped', HandleAdvance
  PROVE  CallsFollow' /\ alive'
<1> USE DEF IInv, CallsFollow
<1>1. PICK p \in Players : p = main.player /\ pl[p] \in PlayerType
  BY MainTyped DEF HandleAdvance, Steps, Places, Calls, TypeOK
<1>2. /\ alive /\ alive' /\ main.at = "advance" /\ ~Ending /\ Names(p) /\ Backed(p)
      /\ UNCHANGED <<locks, rt>>
  BY <1>1, MainTyped DEF HandleAdvance, Steps, Undisturbed, Places, NamesFollow, BufferHeld, Backed
<1>3. main' = Idle => main'.at = "idle" /\ MainFollows'
  BY DEF Idle, MainFollows, Places
<1>4. CASE ~pl[p].advance
  <2>1. main' = Idle /\ UNCHANGED <<status, timer, pl>>
    BY <1>1, <1>4 DEF HandleAdvance
  <2>2. \A q \in Players : SamePlayer(pl[q], pl'[q])
    BY <2>1 DEF SamePlayer
  <2>. QED BY <1>2, <1>3, <2>1, <2>2, PlayersSame
<1>5. CASE pl[p].advance
  <2> DEFINE n == pl[p].next
             deferred == pl[p].old = None /\ pl[p].buffer = None
  <2>1. pl' = [pl EXCEPT ![p].advance = FALSE, ![p].old = None]
    BY <1>1, <1>5 DEF HandleAdvance, Taken
  <2>2. /\ \A q \in Players : q # p => pl'[q] = pl[q]
        /\ pl'[p] = [pl[p] EXCEPT !.advance = FALSE, !.old = None]
    BY <2>1 DEF TypeOK
  <2>3. /\ pl'[p].buffer = pl[p].buffer /\ pl'[p].nextBuffer = pl[p].nextBuffer
        /\ pl'[p].pending = pl[p].pending /\ pl'[p].current = pl[p].current
        /\ pl'[p].next = pl[p].next /\ pl'[p].advance = FALSE /\ pl'[p].old = None
    BY <1>1, <2>2 DEF PlayerType
  <2>4. Names(p)'
    BY <1>2, <2>3, <1>3 DEF Names, Doing, Renaming
  <2>5. /\ \/ status' = status \/ (n # None /\ LoadTrack(n))
        /\ timer' = timer \/ timer' = [t \in Tracks |-> timer[t] \/ t \in {pl[p].old}]
        /\ pl[p].old = None \/ timer' = [t \in Tracks |-> timer[t] \/ t \in {pl[p].old}]
        /\ \/ main' = Idle
           \/ n # None /\ LoadTrack(n) /\ main' = Call("check", p, n, "tick")
           \/ main' = Call("preload", p, pl[p].current, "tick")
    BY <1>1, <1>5 DEF HandleAdvance, UnlockLater
  <2>6. n # None => n \in Tracks
    BY <1>1 DEF PlayerType, Ids
  <2> HIDE DEF n, deferred
  <2>7. KeepsReady
    BY <1>2, <2>5, <2>6, LoadEffect DEF KeepsReady
  <2>8. Backed(p)'
    <3>1. pl[p].buffer \in Ids /\ pl[p].nextBuffer \in Ids
      BY <1>1 DEF PlayerType
    <3>. QED BY <1>2, <2>3, <2>7, <3>1 DEF Backed, KeepsReady, Ids
  <2>9. /\ main'.at \in {"idle", "check", "preload"}
        /\ main'.at = "check" => main'.track = n /\ n # None /\ LoadTrack(n)
        /\ main'.at = "preload" => main'.track = pl[p].current /\ main'.player = p
    BY <2>5 DEF Call, Idle
  <2>10. MainFollows' /\ OnlyOf(p) /\ OnlyOf(p)'
    BY <1>2, <2>3, <2>6, <2>9, LoadEffect DEF MainFollows, Places, OnlyOf
  <2>11. ASSUME NEW u \in Tracks
         PROVE  locks'[u] + Share(p, u) + One(timer[u]) >= locks[u] + Share(p, u)' + One(timer'[u])
    <3>1. /\ Share(p, u) = One(pl[p].current = u) + One(pl[p].next = u) + One(pl[p].old = u)
          /\ Share(p, u)' = One(pl[p].current = u) + One(pl[p].next = u)
      BY <1>2, <1>5, <2>3, <2>9, PlayerAssumption DEF Share, Cur, Nxt, Old, Doing, One
    <3>2. timer'[u] => timer[u] \/ pl[p].old = u
      BY <2>5
    <3>. QED BY <1>2, <3>1, <3>2 DEF TypeOK, One
  <2>. QED BY <1>2, <2>2, <2>4, <2>7, <2>8, <2>10, <2>11, MainStep
<1>. QED BY <1>4, <1>5
-----------------------------------------------------------------------------
(* The steps of the callback.                                              *)

LEMMA CallbackOnly ==
  ASSUME IInv, TypeOK', CallsTyped', alive, UNCHANGED <<status, locks, timer, alive, pl, main>>,
         rt.at \notin {"name", "signal"}, rt'.at \notin {"name", "signal"},
         OneAtATime', RenderedHeld', EndFollows'
  PROVE  CallsFollow' /\ alive'
<1> USE DEF IInv, CallsFollow
<1>1. NamesFollow' /\ MainFollows'
  BY DEF NamesFollow, Names, Doing, Renaming, MainFollows
<1>2. BufferHeld'
  BY DEF BufferHeld, RenderedHeld
<1>3. ClaimsCovered'
  <2>1. \A t \in Tracks : Cur(t)' = Cur(t) /\ Nxt(t)' = Nxt(t) /\ Old(t)' = Old(t)
    BY DEF Cur, Nxt, Old, Doing
  <2>2. \A t \in Tracks : Claims(t)' = Claims(t)
    BY <2>1 DEF Claims, Loose
  <2>. QED BY <2>2 DEF ClaimsCovered
<1>. QED BY <1>1, <1>2, <1>3

LEMMA RenderStep ==
  ASSUME Undisturbed, IInv, TypeOK', CallsTyped', NEW p \in Players, Render(p)
  PROVE  CallsFollow' /\ alive'
<1> USE DEF IInv, CallsFollow
<1>1. PICK place \in {"render", "end"} :
        /\ alive /\ rt = Idle /\ pl[p].buffer # None
        /\ place = "end" => main = Idle
        /\ rt' = [at |-> place, player |-> p, buf |-> pl[p].buffer, id |-> None]
        /\ UNCHANGED <<status, locks, timer, alive, pl, main>>
  BY DEF Render, Undisturbed
<1>2. /\ rt.at = "idle" /\ rt'.at = place /\ rt'.player = p /\ rt'.buf = pl[p].buffer
  BY <1>1 DEF Idle
<1>3. OneAtATime' /\ RenderedHeld' /\ EndFollows'
  BY <1>1, <1>2 DEF OneAtATime, Ending, RenderedHeld, BufferHeld, EndFollows
<1>. QED BY <1>1, <1>2, <1>3, CallbackOnly

LEMMA CallbackReads ==
  ASSUME Undisturbed, IInv, TypeOK', CallsTyped', RenderDone \/ EndSwaps \/ SwapReadsId
  PROVE  CallsFollow' /\ alive'
<1> USE DEF IInv, CallsFollow
<1>1. /\ alive /\ rt.at \in {"render", "end", "ids"} /\ rt \in EarlyEnds /\ rt # Idle
      /\ UNCHANGED <<status, locks, timer, alive, pl, main>>
  BY MainTyped DEF RenderDone, EndSwaps, SwapReadsId, InCallback, Idle
<1>2. PICK p \in Players : p = rt.player /\ Names(p) /\ Backed(p)
  BY <1>1, MainTyped DEF NamesFollow, BufferHeld, Backed
<1>3. CASE RenderDone
  <2>1. rt' = Idle /\ rt'.at = "idle"
    BY <1>3 DEF RenderDone, Idle
  <2>2. OneAtATime' /\ RenderedHeld' /\ EndFollows'
    BY <2>1 DEF OneAtATime, Ending, RenderedHeld, EndFollows
  <2>. QED BY <1>1, <2>1, <2>2, CallbackOnly
<1>4. CASE EndSwaps
  <2>1. /\ rt.at = "end" /\ pl[p].nextBuffer # None
        /\ rt' = [rt EXCEPT !.at = "ids", !.buf = pl[p].nextBuffer]
    BY <1>2, <1>4 DEF EndSwaps, InCallback
  <2>2. rt'.at = "ids" /\ rt'.player = p /\ rt'.buf = pl[p].nextBuffer
    BY <1>1, <1>2, <2>1 DEF EarlyEnds
  <2>3. /\ pl[p].next = pl[p].nextBuffer /\ pl[p].buffer = rt.buf /\ rt.buf # None
    BY <1>1, <1>2, <2>1, MainTyped, PlayerAssumption DEF Names, EndFollows
  <2>4. OneAtATime' /\ RenderedHeld' /\ EndFollows'
    BY <1>1, <1>2, <2>1, <2>2, <2>3 DEF OneAtATime, Ending, RenderedHeld, Backed, EndFollows
  <2>. QED BY <1>1, <2>2, <2>4, CallbackOnly
<1>5. CASE SwapReadsId
  <2>1. rt.at = "ids" /\ rt' = [rt EXCEPT !.at = "publish", !.id = pl[p].next]
    BY <1>2, <1>5 DEF SwapReadsId, InCallback
  <2>2. rt'.at = "publish" /\ rt'.player = p /\ rt'.buf = rt.buf /\ rt'.id = pl[p].next
    BY <1>1, <1>2, <2>1 DEF EarlyEnds
  <2>3. OneAtATime' /\ RenderedHeld' /\ EndFollows'
    BY <1>1, <1>2, <2>1, <2>2 DEF OneAtATime, Ending, RenderedHeld, EndFollows
  <2>. QED BY <1>1, <2>1, <2>2, <2>3, CallbackOnly
<1>. QED BY <1>3, <1>4, <1>5

LEMMA CallbackStep ==
  ASSUME IInv, TypeOK', CallsTyped', alive, alive', NEW p \in Players,
         \A q \in Players : q # p => pl'[q] = pl[q], main = Idle,
         UNCHANGED <<status, locks, timer, main>>,
         rt.at = "name" => rt.player = p, rt'.at = "name" => rt'.player = p,
         Names(p)', {pl'[p].buffer, pl'[p].nextBuffer}
                      \subseteq {None, pl[p].buffer, pl[p].nextBuffer},
         EndFollows', RenderedHeld',
         \A t \in Tracks : Share(p, t) + One(rt.at = "signal" /\ rt.was = t)
                             >= Share(p, t)' + One(rt'.at = "signal" /\ rt'.was = t)
  PROVE  CallsFollow'
<1> USE DEF IInv, CallsFollow
<1>1. main.at = "idle"
  BY DEF Idle
<1>2. /\ KeepsReady /\ OnlyOf(p) /\ OnlyOf(p)' /\ MainFollows' /\ OneAtATime'
  BY <1>1 DEF KeepsReady, OnlyOf, MainFollows, Places, OneAtATime
<1>3. Backed(p)'
  BY DEF Backed, BufferHeld
<1>4. ASSUME NEW t \in Tracks
      PROVE  locks'[t] + Share(p, t) + Loose(t) >= locks[t] + Share(p, t)' + Loose(t)'
  <2> DEFINE x == Share(p, t)
             y == Share(p, t)'
             r == One(rt.at = "signal" /\ rt.was = t)
             rr == One(rt'.at = "signal" /\ rt'.was = t)
  <2>1. x \in Nat /\ y \in Nat /\ r \in Nat /\ rr \in Nat /\ x + r >= y + rr
    BY DEF Share, One
  <2>2. locks'[t] = locks[t] /\ locks[t] \in Nat
    BY DEF TypeOK
  <2>3. Loose(t) = One(timer[t]) + r /\ Loose(t)' = One(timer[t]) + rr /\ One(timer[t]) \in Nat
    BY DEF Loose, One
  <2> HIDE DEF x, y, r, rr
  <2>4. locks'[t] + x + Loose(t) >= locks[t] + y + Loose(t)'
    BY <2>1, <2>2, <2>3
  <2>. QED BY <2>4 DEF x, y
<1>. QED BY <1>1, <1>2, <1>3, <1>4, PlayerStep

LEMMA EndsStep ==
  ASSUME Undisturbed, IInv, TypeOK', CallsTyped', EndDefers \/ EndStops
  PROVE  CallsFollow' /\ alive'
<1> USE DEF IInv, CallsFollow
<1>1. PICK p \in Players : p = rt.player /\ pl[p] \in PlayerType
  BY MainTyped DEF EndDefers, EndStops, InCallback, TypeOK, Idle
<1>2. /\ alive /\ alive' /\ rt.at = "end" /\ main = Idle /\ main.at = "idle" /\ Names(p)
      /\ rt' = Idle /\ UNCHANGED <<status, locks, timer, main>>
  BY <1>1 DEF EndDefers, EndStops, InCallback, OneAtATime, Ending, NamesFollow, Idle
<1>3. rt'.at = "idle" /\ EndFollows' /\ RenderedHeld'
  BY <1>2 DEF Idle, EndFollows, RenderedHeld
<1>4. /\ \A q \in Players : q # p => pl'[q] = pl[q]
      /\ \E s : \/ pl'[p] = [pl[p] EXCEPT !.buffer = None, !.advance = TRUE, !.state = s]
               \/ pl'[p] = [pl[p] EXCEPT !.state = s]
  BY ZenonT(60), <1>1 DEF EndDefers, EndStops, TypeOK
<1>5. /\ pl'[p].nextBuffer = pl[p].nextBuffer /\ pl'[p].pending = pl[p].pending
      /\ pl'[p].current = pl[p].current /\ pl'[p].next = pl[p].next /\ pl'[p].old = pl[p].old
      /\ \/ pl'[p].buffer = None /\ pl'[p].advance = TRUE
         \/ pl'[p].buffer = pl[p].buffer /\ pl'[p].advance = pl[p].advance
  BY ZenonT(60), <1>1, <1>4 DEF PlayerType
<1>6. Names(p)'
  BY <1>2, <1>3, <1>5 DEF Names, Doing, Renaming
<1>7. ASSUME NEW t \in Tracks PROVE Share(p, t)' = Share(p, t)
  <2>1. p \in Old(t)' <=> p \in Old(t)
    BY <1>2, <1>5, PlayerAssumption DEF Old, Names
  <2>. QED BY <1>2, <1>5, <2>1 DEF Share, Cur, Nxt, Doing
<1>8. \A t \in Tracks : Share(p, t) + One(rt.at = "signal" /\ rt.was = t)
                          >= Share(p, t)' + One(rt'.at = "signal" /\ rt'.was = t)
  BY <1>2, <1>3, <1>7 DEF Share, One
<1>. QED BY <1>1, <1>2, <1>3, <1>4, <1>5, <1>6, <1>8, CallbackStep

LEMMA SwapStep ==
  ASSUME Undisturbed, IInv, TypeOK', CallsTyped', SwapBuffers \/ SwapIds \/ SwapSignals
  PROVE  CallsFollow' /\ alive'
<1> USE DEF IInv, CallsFollow
<1>1. PICK p \in Players : p = rt.player /\ pl[p] \in PlayerType
  BY MainTyped DEF SwapBuffers, SwapIds, SwapSignals, InCallback, TypeOK, Idle
<1>2. /\ alive /\ alive' /\ main = Idle /\ main.at = "idle" /\ Names(p)
      /\ UNCHANGED <<status, locks, timer, main>> /\ rt # Idle /\ rt.buf \in Tracks /\ rt.buf # None
      /\ status[rt.buf] = "ready" /\ locks[rt.buf] > 0
  BY <1>1, MainTyped, PlayerAssumption
     DEF SwapBuffers, SwapIds, SwapSignals, InCallback, OneAtATime, Ending, NamesFollow, RenderedHeld,
         Idle
<1>3. CASE SwapBuffers
  <2>1. /\ rt.at = "publish" /\ pl' = [pl EXCEPT ![p].buffer = rt.buf, ![p].nextBuffer = None]
        /\ rt' = [at |-> "name", player |-> p, buf |-> rt.buf, id |-> rt.id, was |-> pl[p].current]
    BY <1>1, <1>3 DEF SwapBuffers, InCallback
  <2>2. /\ \A q \in Players : q # p => pl'[q] = pl[q]
        /\ pl'[p] = [pl[p] EXCEPT !.buffer = rt.buf, !.nextBuffer = None]
    BY <2>1 DEF TypeOK
  <2>3. /\ pl'[p].buffer = rt.buf /\ pl'[p].nextBuffer = None /\ pl'[p].pending = pl[p].pending
        /\ pl'[p].current = pl[p].current /\ pl'[p].next = pl[p].next
        /\ pl'[p].advance = pl[p].advance /\ pl'[p].old = pl[p].old
    BY <1>1, <2>2 DEF PlayerType
  <2>4. /\ rt'.at = "name" /\ rt'.player = p /\ rt'.buf = rt.buf /\ rt'.id = rt.id
        /\ rt'.was = pl[p].current
    BY <2>1
  <2>5. /\ pl[p].buffer # None /\ pl[p].nextBuffer = rt.buf /\ pl[p].next = rt.buf /\ rt.id = rt.buf
    BY <1>1, <1>2, <2>1 DEF EndFollows
  <2>6. Names(p)'
    BY <1>2, <2>3, <2>4, <2>5 DEF Names, Renaming, Doing
  <2>7. EndFollows' /\ RenderedHeld'
    BY <1>2, <2>3, <2>4, <2>5 DEF EndFollows, RenderedHeld
  <2>8. \A t \in Tracks : Share(p, t)' = Share(p, t)
    BY <1>2, <2>3 DEF Share, Cur, Nxt, Old, Doing
  <2>9. \A t \in Tracks : Share(p, t) + One(rt.at = "signal" /\ rt.was = t)
                            >= Share(p, t)' + One(rt'.at = "signal" /\ rt'.was = t)
    BY <2>1, <2>4, <2>8 DEF Share, One
  <2>. QED BY ZenonT(60), <1>2, <2>1, <2>2, <2>3, <2>4, <2>5, <2>6, <2>7, <2>9, CallbackStep
<1>4. CASE SwapIds
  <2>1. /\ rt.at = "name" /\ rt \in LateEnds /\ rt' = [rt EXCEPT !.at = "signal"]
        /\ pl' = [pl EXCEPT ![p].current = rt.id, ![p].next = None]
    BY <1>1, <1>4, MainTyped DEF SwapIds, InCallback, At, Renamed
  <2>2. /\ \A q \in Players : q # p => pl'[q] = pl[q]
        /\ pl'[p] = [pl[p] EXCEPT !.current = rt.id, !.next = None]
    BY <2>1 DEF TypeOK
  <2>3. /\ pl'[p].buffer = pl[p].buffer /\ pl'[p].nextBuffer = pl[p].nextBuffer
        /\ pl'[p].pending = pl[p].pending /\ pl'[p].current = rt.id /\ pl'[p].next = None
        /\ pl'[p].advance = pl[p].advance /\ pl'[p].old = pl[p].old
    BY <1>1, <2>2 DEF PlayerType
  <2>4. rt'.at = "signal" /\ rt'.player = p /\ rt'.buf = rt.buf /\ rt'.was = rt.was
    BY <1>1, <2>1 DEF LateEnds
  <2>5. /\ pl[p].buffer = rt.buf /\ pl[p].next = rt.buf /\ rt.id = rt.buf
        /\ pl[p].nextBuffer = None /\ rt.was = pl[p].current
    BY <1>1, <1>2, <2>1 DEF EndFollows
  <2>6. Names(p)'
    BY <1>2, <2>3, <2>4, <2>5 DEF Names, Renaming, Doing
  <2>7. EndFollows' /\ RenderedHeld'
    BY <1>2, <2>3, <2>4, <2>5 DEF EndFollows, RenderedHeld
  <2>8. ASSUME NEW t \in Tracks
        PROVE  Share(p, t) + One(rt.at = "signal" /\ rt.was = t)
                 >= Share(p, t)' + One(rt'.at = "signal" /\ rt'.was = t)
    <3>1. /\ Share(p, t) = One(pl[p].current = t) + One(rt.buf = t) + One(p \in Old(t))
          /\ Share(p, t)' = One(rt.buf = t) + One(p \in Old(t))
      BY <1>2, <2>3, <2>5, PlayerAssumption DEF Share, Cur, Nxt, Old, Doing, One
    <3>. QED BY <2>1, <2>4, <2>5, <3>1 DEF One
  <2>. QED BY ZenonT(60), <1>1, <1>2, <2>1, <2>2, <2>3, <2>4, <2>5, <2>6, <2>7, <2>8, CallbackStep
<1>5. CASE SwapSignals
  <2>1. /\ rt.at = "signal" /\ rt' = Idle
        /\ \E s : pl' = [pl EXCEPT ![p].old = rt.was, ![p].advance = TRUE, ![p].state = s]
    BY <1>1, <1>5 DEF SwapSignals, InCallback
  <2>2. /\ \A q \in Players : q # p => pl'[q] = pl[q]
        /\ \E s : pl'[p] = [pl[p] EXCEPT !.old = rt.was, !.advance = TRUE, !.state = s]
    BY <2>1 DEF TypeOK
  <2>3. /\ pl'[p].buffer = pl[p].buffer /\ pl'[p].nextBuffer = pl[p].nextBuffer
        /\ pl'[p].pending = pl[p].pending /\ pl'[p].current = pl[p].current
        /\ pl'[p].next = pl[p].next /\ pl'[p].advance = TRUE /\ pl'[p].old = rt.was
    BY <1>1, <2>2 DEF PlayerType
  <2>4. rt'.at = "idle" /\ EndFollows' /\ RenderedHeld'
    BY <2>1 DEF Idle, EndFollows, RenderedHeld
  <2>5. pl[p].next = None
    BY <1>1, <1>2, <2>1 DEF EndFollows
  <2>6. Names(p)'
    BY <1>2, <2>1, <2>3, <2>4, <2>5 DEF Names, Renaming, Doing
  <2>7. ASSUME NEW t \in Tracks
        PROVE  Share(p, t) + One(rt.at = "signal" /\ rt.was = t)
                 >= Share(p, t)' + One(rt'.at = "signal" /\ rt'.was = t)
    <3>1. /\ Share(p, t) = One(pl[p].current = t) + One(pl[p].next = t) + One(p \in Old(t))
          /\ Share(p, t)' = One(pl[p].current = t) + One(pl[p].next = t) + One(rt.was = t)
      BY <1>2, <2>3 DEF Share, Cur, Nxt, Old, Doing, One
    <3>. QED BY <2>1, <2>4, <3>1 DEF One
  <2>. QED BY <1>2, <2>1, <2>2, <2>3, <2>4, <2>6, <2>7, CallbackStep
<1>. QED BY <1>3, <1>4, <1>5
-----------------------------------------------------------------------------
(* The steps of the cache.                                                 *)

LEMMA CacheStep ==
  ASSUME Undisturbed, IInv, TypeOK', CallsTyped', NEW t \in Tracks, Decoded(t) \/ Evicted(t)
  PROVE  CallsFollow' /\ alive'
<1> USE DEF IInv, CallsFollow
<1>1. /\ alive /\ alive' /\ UNCHANGED <<locks, timer, pl, main, rt>>
      /\ \/ status[t] = "loading" /\ \E s \in {"ready", "failed"} : status' = [status EXCEPT ![t] = s]
         \/ locks[t] = 0 /\ main = Idle /\ status' = [status EXCEPT ![t] = "absent"]
  BY DEF Decoded, Evicted, Resolve, Reclaim, Undisturbed
<1>2. \A u \in Tracks : /\ status[u] = "ready" /\ locks[u] > 0 => status'[u] = "ready"
                        /\ main # Idle /\ status[u] # "absent" => status'[u] # "absent"
  BY <1>1 DEF TypeOK
<1>3. OneAtATime' /\ NamesFollow' /\ EndFollows'
  BY <1>1 DEF OneAtATime, Ending, NamesFollow, Names, Renaming, Doing, EndFollows
<1>4. RenderedHeld'
  BY <1>1, <1>2, MainTyped DEF RenderedHeld
<1>5. BufferHeld'
  <2>1. \A q \in Players : {pl[q].buffer, pl[q].nextBuffer} \ {None} \subseteq Tracks
    BY DEF TypeOK, PlayerType, Ids
  <2>. QED BY <1>1, <1>2, <1>4, <2>1 DEF BufferHeld, RenderedHeld
<1>6. MainFollows'
  <2>1. main.at \in Places => main # Idle /\ main.track \in Ids
    BY MainTyped DEF Calls, Places, Idle
  <2>2. main.at \in {"check", "clear", "replace", "forget", "lock", "hold"} => main.track \in Tracks
    BY <2>1 DEF CallsTyped, Places, Ids
  <2>. QED BY <1>1, <1>2, <2>1, <2>2 DEF MainFollows
<1>7. ClaimsCovered'
  <2>1. \A u \in Tracks : Cur(u)' = Cur(u) /\ Nxt(u)' = Nxt(u) /\ Old(u)' = Old(u) /\ Loose(u)' = Loose(u)
    BY <1>1 DEF Cur, Nxt, Old, Doing, Loose
  <2>2. \A u \in Tracks : Claims(u)' = Claims(u)
    BY <2>1 DEF Claims
  <2>. QED BY <1>1, <2>2 DEF ClaimsCovered
<1>. QED BY <1>1, <1>3, <1>4, <1>5, <1>6, <1>7

LEMMA TimerStep ==
  ASSUME Undisturbed, IInv, TypeOK', CallsTyped', NEW t \in Tracks, UnlockTimer(t)
  PROVE  CallsFollow' /\ alive'
<1> USE DEF IInv, CallsFollow
<1>1. /\ alive /\ main = Idle /\ rt = Idle /\ main.at = "idle" /\ rt.at = "idle" /\ timer[t] /\ Drop(t)
      /\ timer' = [timer EXCEPT ![t] = FALSE] /\ UNCHANGED <<status, pl, main, rt>>
  BY DEF UnlockTimer, TimerFires, Idle
<1>2. \A u \in Tracks : /\ locks[u] \in Nat /\ locks[u] >= Claims(u)
                        /\ Claims(u) = Cardinality(Cur(u)) + Cardinality(Nxt(u))
                                        + Cardinality(Old(u)) + One(timer[u])
  <2>1. \A u \in Tracks : Loose(u) = One(timer[u])
    BY <1>1 DEF Loose, One
  <2>. QED BY <1>1, <2>1 DEF ClaimsCovered, Claims, TypeOK
<1>3. Claims(t) >= 1
  BY <1>1, <1>2, ClaimsCount DEF One
<1>4. /\ alive' /\ locks'[t] = locks[t] - 1 /\ \A u \in Tracks : u # t => locks'[u] = locks[u]
  <2>1. Claims(t) \in Nat
    BY <1>2, ClaimsCount DEF One
  <2>2. locks[t] > 0
    BY <1>2, <1>3, <2>1
  <2>. QED BY <1>1, <2>2, DropEffect
<1>5. OneAtATime' /\ NamesFollow' /\ EndFollows' /\ MainFollows' /\ RenderedHeld'
  BY <1>1, <1>4 DEF OneAtATime, Ending, NamesFollow, Names, Renaming, Doing, EndFollows, MainFollows,
                    Places, RenderedHeld
<1>6. BufferHeld'
  <2> SUFFICES ASSUME NEW p \in Players, NEW u \in Tracks, u \in {pl[p].buffer, pl[p].nextBuffer}
               PROVE  status[u] = "ready" /\ locks'[u] > 0
    <3>1. \A q \in Players : {pl[q].buffer, pl[q].nextBuffer} \ {None} \subseteq Tracks
      BY DEF TypeOK, PlayerType, Ids
    <3>. QED BY <1>1, <3>1 DEF BufferHeld
  <2>1. status[u] = "ready" /\ locks[u] > 0
    BY <1>1, PlayerAssumption DEF BufferHeld
  <2>2. CASE u = t
    <3>1. p \in Cur(t) \/ p \in Nxt(t)
      BY <1>1, <2>2, PlayerAssumption DEF NamesFollow, Names, Renaming, Cur, Nxt, Doing
    <3>2. Claims(t) >= 2
      BY <1>1, <1>2, <3>1, ClaimsCount DEF One
    <3>3. Claims(t) \in Nat
      BY <1>2, ClaimsCount DEF One
    <3>. QED BY <1>2, <1>4, <2>1, <2>2, <3>2, <3>3
  <2>. QED BY <1>4, <2>1, <2>2
<1>7. ASSUME NEW u \in Tracks PROVE locks'[u] >= Claims(u)'
  <2>1. Cur(u)' = Cur(u) /\ Nxt(u)' = Nxt(u) /\ Old(u)' = Old(u)
    BY <1>1 DEF Cur, Nxt, Old, Doing
  <2>2. Loose(u)' = One(timer'[u])
    BY <1>1 DEF Loose, One
  <2>3. Claims(u)' = Cardinality(Cur(u)) + Cardinality(Nxt(u)) + Cardinality(Old(u)) + One(timer'[u])
    BY <2>1, <2>2 DEF Claims
  <2>4. IF u = t THEN timer[u] /\ ~timer'[u] ELSE timer'[u] = timer[u]
    BY <1>1 DEF TypeOK
  <2>. QED BY <1>2, <1>4, <2>3, <2>4, ClaimsCount DEF One
<1>8. ClaimsCovered'
  BY <1>7 DEF ClaimsCovered
<1>. QED BY <1>4, <1>5, <1>6, <1>8
-----------------------------------------------------------------------------

LEMMA SettingsKept ==
  ASSUME Undisturbed, IInv, TypeOK', CallsTyped', SettingsStep
  PROVE  CallsFollow' /\ alive'
<1>1. /\ MainIdle /\ UNCHANGED <<status, locks, timer, alive, main, rt>>
      /\ \A p \in Players : SamePlayer(pl[p], pl'[p])
  BY SettingsEffect DEF IInv
<1>2. alive /\ main = Idle /\ main.at = "idle" /\ ~Ending
  BY <1>1, MainTyped DEF MainIdle, Steps, Undisturbed, IInv
<1>3. MainFollows'
  BY <1>1, <1>2 DEF MainFollows, Places
<1>. QED BY <1>1, <1>2, <1>3, PlayersSame DEF CallsFollow, IInv

(* When everything is destroyed, every lock a player holds is there.       *)
LEMMA DestroyStep ==
  ASSUME IInv, DestroyAll
  PROVE  CallsFollow' /\ main'.at = "destroyed"
<1> USE DEF IInv, CallsFollow
<1>1. alive /\ ~alive' /\ main.at = "idle"
  BY DEF DestroyAll, MainIdle, Steps
<1>2. ASSUME NEW t \in Tracks PROVE Holders(t) <= locks[t]
  <2>1. /\ Cur(t) = {p \in Players : pl[p].current = t}
        /\ Nxt(t) = {p \in Players : pl[p].next = t}
    BY <1>1 DEF Cur, Nxt, Doing
  <2>2. Holders(t) = Cardinality(Cur(t)) + Cardinality(Nxt(t))
    BY <2>1 DEF Holders
  <2>. QED BY <1>1, <2>2, ClaimsCount DEF ClaimsCovered, Claims, TypeOK
<1>3. main' = [at |-> "destroyed"]
  BY <1>2 DEF DestroyAll
<1>4. main'.at = "destroyed"
  BY <1>3
<1>. QED BY <1>1, <1>4 DEF OneAtATime, RenderedHeld, BufferHeld, NamesFollow, MainFollows, EndFollows,
                           ClaimsCovered

LEMMA CallsStep ==
  ASSUME Undisturbed, IInv, TypeOK', CallsTyped', Next
  PROVE  CallsFollow' /\ (alive' \/ main'.at = "destroyed")
<1>1. CASE SetTrackStep \/ TickStep
  BY <1>1, CheckStep, ClearStep, ReplaceStep, ForgetStep, LockStep, PreloadStep, HoldStep, AttachStep,
     HandleStep DEF SetTrackStep, TickStep
<1>2. CASE Callback
  BY <1>2, CallbackReads, EndsStep, SwapStep DEF Callback
<1>3. CASE SettingsStep \/ DestroyAll
  BY <1>3, SettingsKept, DestroyStep
<1>4. CASE \E p \in Players : PollPending(p) \/ Render(p) \/ \E t \in Tracks : UserLoad(p, t)
  BY <1>4, PollStep, RenderStep, UserLoadStep
<1>5. CASE \E t \in Tracks : Decoded(t) \/ Evicted(t) \/ UnlockTimer(t)
  BY <1>5, CacheStep, TimerStep
<1>. QED BY <1>1, <1>2, <1>3, <1>4, <1>5 DEF Next, SettingsStep

(* The invariant that carries the theorems below.                          *)
THEOREM Invariance ==
  ASSUME Undisturbed
  PROVE  Spec => [](IInv /\ NeverAborts)
<1>1. Init => IInv /\ NeverAborts
  <2> SUFFICES ASSUME Init PROVE IInv /\ NeverAborts
    OBVIOUS
  <2> USE PlayerAssumption
  <2>1. TypeOK /\ CallsTyped /\ alive /\ main.at = "idle" /\ rt = Idle /\ rt.at = "idle"
    BY DEF Init, CacheInit, TypeOK, CallsTyped, Idle, NewPlayer, PlayerType, Ids, Statuses
  <2>2. \A p \in Players : /\ pl[p].current = None /\ pl[p].next = None /\ pl[p].buffer = None
                           /\ pl[p].nextBuffer = None /\ pl[p].pending = None
                           /\ pl[p].advance = FALSE /\ pl[p].old = None
    BY DEF Init, NewPlayer
  <2>3. OneAtATime /\ RenderedHeld /\ BufferHeld /\ NamesFollow /\ MainFollows /\ EndFollows
    BY <2>1, <2>2 DEF OneAtATime, Ending, RenderedHeld, BufferHeld, NamesFollow, Names, MainFollows,
                      Places, EndFollows
  <2>4. ASSUME NEW t \in Tracks PROVE locks[t] >= Claims(t)
    <3>1. Cur(t) = {} /\ Nxt(t) = {} /\ Old(t) = {} /\ Loose(t) = 0 /\ locks[t] = 0
      BY <2>1, <2>2 DEF Cur, Nxt, Old, Loose, One, Init, CacheInit
    <3>. QED BY <3>1, FS_EmptySet DEF Claims
  <2>. QED BY <2>1, <2>3, <2>4 DEF IInv, CallsFollow, ClaimsCovered, NeverAborts
<1>2. (IInv /\ NeverAborts) /\ [Next]_vars => (IInv /\ NeverAborts)'
  <2>1. ASSUME IInv, Next PROVE (IInv /\ NeverAborts)'
    BY <2>1, TypeStep, CallsStep DEF IInv, NeverAborts
  <2>2. ASSUME IInv, NeverAborts, UNCHANGED vars PROVE (IInv /\ NeverAborts)'
    <3>1. CallsFollow'
      <4>1. \A t \in Tracks : Claims(t)' = Claims(t)
        BY <2>2 DEF vars, Claims, Cur, Nxt, Old, Doing, Loose
      <4>2. ClaimsCovered'
        BY <2>2, <4>1 DEF vars, IInv, CallsFollow, ClaimsCovered
      <4>. QED BY <2>2, <4>2
           DEF vars, IInv, CallsFollow, OneAtATime, Ending, RenderedHeld, BufferHeld, NamesFollow,
               Names, Renaming, Doing, MainFollows, EndFollows
    <3>. QED BY <2>2, <3>1 DEF vars, IInv, TypeOK, CallsTyped, NeverAborts
  <2>. QED BY <2>1, <2>2
<1>. QED BY <1>1, <1>2, PTL DEF Spec

(* At rest, every id a player holds, the one an instant advance left       *)
(* behind and every timer have a lock each.                                *)
LEMMA RestCovered == IInv => RefsCovered
<1> SUFFICES ASSUME IInv, AtRest, NEW t \in Tracks PROVE locks[t] >= Owed(t)
  BY DEF RefsCovered
<1>1. alive /\ main.at = "idle" /\ rt.at = "idle"
  BY DEF AtRest, Idle
<1>2. /\ Cur(t) = {p \in Players : pl[p].current = t}
      /\ Nxt(t) = {p \in Players : pl[p].next = t}
      /\ Loose(t) = One(timer[t])
  BY <1>1 DEF Cur, Nxt, Doing, Loose, One
<1>3. Owed(t) = Claims(t)
  BY <1>2, ClaimsCount DEF Owed, Holders, Claims, Old, One, IInv
<1>. QED BY <1>1, <1>3 DEF IInv, CallsFollow, ClaimsCovered

(* Whatever the main thread, the callbacks, the decoders and the timers    *)
(* interleave, no buffer a player holds is freed under it, every id is     *)
(* backed by a lock, and no call of the cache ends in g_error.             *)
THEOREM PlayersAlwaysSound ==
  ASSUME Undisturbed
  PROVE  Spec => []PlayersSound
<1>1. IInv /\ NeverAborts => PlayersSound
  BY RestCovered DEF IInv, CallsFollow, PlayersSound, PlayersCovered
<1>. QED BY <1>1, Invariance, PTL

(* Between two calls a player plays the track it names, and what is        *)
(* attached as next is the track that follows it in the album.             *)
THEOREM AlwaysPlaysItsTrack ==
  ASSUME Undisturbed
  PROVE  Spec => []PlaysItsTrack
<1>1. IInv => PlaysItsTrack
  <2> SUFFICES ASSUME IInv, AtRest, NEW p \in Players
               PROVE  LET x == pl[p] IN
                      /\ x.buffer \in {None, x.current}
                      /\ x.nextBuffer \in {None, x.next}
                      /\ x.current # None /\ x.next # None => x.next = NextTrack[x.current]
                      /\ x.pending # None => x.pending = x.current /\ x.buffer = None
    BY DEF PlaysItsTrack
  <2>1. alive /\ main.at = "idle" /\ rt.at = "idle"
    BY DEF AtRest, Idle
  <2>2. Names(p) /\ ~Renaming(p) /\ ~Doing("forget", p)
    BY <2>1 DEF IInv, CallsFollow, NamesFollow, Renaming, Doing
  <2>. QED BY <2>2 DEF Names
<1>. QED BY <1>1, Invariance, PTL
-----------------------------------------------------------------------------
(* What the window learns from the audio threads (Telemetry), when there   *)
(* is one thread on the audio side, its stores become visible in program   *)
(* order, no slot that a drain takes is overwritten meanwhile, and the     *)
(* indices of the ring do not wrap.                                        *)
OneThread ==
  (\A s, t \in Writers : s = t) /\ ~Overlap /\ ~Reordered /\ MaxEvents < Word

(* The number of the snapshot is twice that of the newest finished write,  *)
(* and odd only while a half may differ.                                   *)
Updating == \E t \in Writers : update[t].pc # "rest"
SnapshotFollows ==
  /\ ~Updating => /\ seq = 2 * newest /\ newest = writes
                  /\ snap["a"] = newest /\ snap["b"] = newest
  /\ \A t \in Writers : update[t].pc # "rest" =>
       LET u == update[t] IN
       /\ u.s = 2 * newest /\ u.v = newest + 1 /\ writes = newest + 1
       /\ seq = (IF u.marked THEN u.s + 1 ELSE u.s)
       /\ ~u.marked => u.pc = "a"
       /\ snap["a"] = (IF u.pc = "a" THEN newest ELSE u.v)
       /\ snap["b"] = (IF u.pc = "store" THEN u.v ELSE newest)

(* As long as the number is the one a frame began with, what it has copied *)
(* is the snapshot of that number.                                         *)
FrameFollows ==
  /\ frame.accepted =>
       frame.pc = "done" /\ frame.out["a"] = frame.since /\ frame.out["b"] = frame.since
  /\ frame.pc \in {"a", "b", "seq2"} =>
       /\ frame.seq1 = 2 * frame.since /\ frame.seq1 <= seq
       /\ seq = frame.seq1 => /\ frame.pc # "a" => frame.out["a"] = frame.since
                              /\ frame.pc = "seq2" => frame.out["b"] = frame.since

(* Slot and event of every index that can still be read.                   *)
Publishing == \E t \in Writers : writer[t].pc # "rest"
InRing(i) == i >= Len(published) - Size /\ (Publishing => i > Len(published) - Size)
RingFollows ==
  LET n == Len(published) IN
  /\ n <= MaxEvents /\ write = n
  /\ \A i \in 1 .. n : published[i][2] = i
  /\ \A t \in Writers :
       /\ count[t] = (IF writer[t].pc = "rest" THEN n ELSE n + 1)
       /\ writer[t].pc # "rest" => writer[t].w = n /\ n < MaxEvents
       /\ writer[t].pc = "store" => slots[n % Size] = <<t, n + 1>>
  /\ \A i \in 0 .. n - 1 : InRing(i) => slots[i % Size] = published[i + 1]

(* How far the window has read, and that what it passes over is delivered  *)
(* or overwritten.                                                         *)
ReadSoFar == IF reader.pc = "rest" THEN read ELSE reader.r
Delivered(i) == \E j \in DOMAIN delivered : delivered[j] = published[i + 1]
DrainFollows ==
  LET n == Len(published) IN
  /\ read <= ReadSoFar /\ ReadSoFar <= n
  /\ reader.pc # "rest" =>
       /\ reader.r <= reader.w /\ reader.w <= n /\ InRing(reader.r)
       /\ \A i \in read .. reader.r - 1 : Delivered(i) \/ n - i > Size
  /\ reader.pc = "half" =>
       reader.r < reader.w /\ reader.n < Max /\ reader.half = published[reader.r + 1]
  /\ \A i \in DOMAIN delivered : \E j \in 1 .. ReadSoFar : delivered[i] = published[j]
  /\ \A i, j \in DOMAIN delivered : i < j => delivered[i][2] < delivered[j][2]

ReadingsInv ==
  /\ Readings!TypeOK /\ Readings!Position!TypeOK
  /\ SnapshotFollows /\ FrameFollows /\ RingFollows /\ DrainFollows

-----------------------------------------------------------------------------
(* The snapshot.                                                           *)

LEMMA AloneUpdates ==
  ASSUME OneThread, NEW t \in Writers
  PROVE  /\ Updating <=> update[t].pc # "rest"
         /\ Publishing <=> writer[t].pc # "rest"
         /\ \A s \in Writers : s = t
BY DEF OneThread, Updating, Publishing

LEMMA Parity ==
  ASSUME NEW n \in Nat
  PROVE  (2 * n) % 2 = 0 /\ (2 * n + 1) % 2 = 1
OBVIOUS

LEMMA ThreadTyped ==
  ASSUME Readings!Position!TypeOK, NEW t \in Writers
  PROVE  /\ update[t] \in [pc : {"rest", "a", "b", "store"}, s : Nat, v : 0 .. MaxWrites,
                           marked : BOOLEAN]
         /\ seq \in Nat /\ snap \in [{"a", "b"} -> 0 .. MaxWrites]
         /\ writes \in 0 .. MaxWrites /\ newest \in 0 .. MaxWrites /\ MaxWrites \in Nat
BY ReadingsAssumption DEF Readings!Position!TypeOK, Readings!Position!Halves, Readings!Bounds

(* The steps of a write; a number that changes differs from every number   *)
(* read before.                                                            *)
LEMMA LoadSeqStep ==
  ASSUME OneThread, ReadingsInv, NEW t \in Writers, Readings!Position!LoadSeq(t)
  PROVE  Readings!Position!TypeOK' /\ SnapshotFollows' /\ FrameFollows'
<1>1. /\ update[t].pc = "rest" /\ writes < MaxWrites /\ writes' = writes + 1
      /\ update' = [update EXCEPT ![t] = [pc |-> "a", s |-> seq, v |-> writes + 1, marked |-> FALSE]]
      /\ UNCHANGED <<seq, snap, newest, frame>>
  BY DEF Readings!Position!LoadSeq
<1>2. ~Updating /\ (\A s \in Writers : s = t)
  BY <1>1, AloneUpdates
<1>3. Readings!Position!TypeOK
  BY DEF ReadingsInv
<1>4. /\ update'[t] = [pc |-> "a", s |-> seq, v |-> writes + 1, marked |-> FALSE]
      /\ writes + 1 \in 0 .. MaxWrites
  BY <1>1, <1>3, ThreadTyped DEF Readings!Position!TypeOK
<1>5. Readings!Position!TypeOK'
  BY <1>1, <1>3, <1>4 DEF Readings!Position!TypeOK
<1>6. SnapshotFollows'
  BY <1>1, <1>2, <1>4 DEF ReadingsInv, SnapshotFollows, Updating
<1>7. FrameFollows'
  BY <1>1 DEF ReadingsInv, FrameFollows
<1>. QED BY <1>5, <1>6, <1>7

LEMMA StoreOddStep ==
  ASSUME OneThread, ReadingsInv, NEW t \in Writers, Readings!Position!StoreOdd(t)
  PROVE  Readings!Position!TypeOK' /\ SnapshotFollows' /\ FrameFollows'
<1>1. /\ update[t].pc # "rest" /\ ~update[t].marked /\ seq' = update[t].s + 1
      /\ update' = [update EXCEPT ![t].marked = TRUE]
      /\ UNCHANGED <<snap, writes, newest, frame>>
  BY DEF Readings!Position!StoreOdd, Readings!Position!Mark
<1>2. \A s \in Writers : s = t
  BY AloneUpdates
<1>3. Readings!Position!TypeOK
  BY DEF ReadingsInv
<1>4. update'[t] = [update[t] EXCEPT !.marked = TRUE]
  BY <1>1, <1>3 DEF Readings!Position!TypeOK
<1>5. Readings!Position!TypeOK'
  <2>1. seq' \in Nat
    BY <1>1, <1>3, ThreadTyped
  <2>2. update'[t] \in [pc : {"rest", "a", "b", "store"}, s : Nat, v : 0 .. MaxWrites, marked : BOOLEAN]
    BY <1>3, <1>4, ThreadTyped
  <2>. QED BY <1>1, <1>3, <2>1, <2>2 DEF Readings!Position!TypeOK
<1>6. /\ update[t].s = 2 * newest /\ update[t].v = newest + 1 /\ writes = newest + 1
      /\ update[t].pc = "a" /\ seq = update[t].s
      /\ snap["a"] = newest /\ snap["b"] = newest
  BY <1>1, <1>3, ThreadTyped DEF ReadingsInv, SnapshotFollows
<1>7. SnapshotFollows'
  BY <1>1, <1>2, <1>3, <1>4, <1>6, ThreadTyped DEF SnapshotFollows, Updating
<1>8. FrameFollows'
  <2>1. seq' = seq + 1 /\ seq \in Nat
    BY <1>1, <1>3, <1>6, ThreadTyped
  <2>2. frame.pc \in {"a", "b", "seq2"} => frame.seq1 \in Nat /\ frame.seq1 <= seq
    BY <1>3 DEF ReadingsInv, FrameFollows, Readings!Position!TypeOK
  <2>. QED BY <1>1, <2>1, <2>2 DEF ReadingsInv, FrameFollows
<1>. QED BY <1>5, <1>7, <1>8

LEMMA WriteHalfStep ==
  ASSUME OneThread, ReadingsInv, NEW t \in Writers, Readings!Position!WriteHalf(t)
  PROVE  Readings!Position!TypeOK' /\ SnapshotFollows' /\ FrameFollows'
<1>1. PICK h \in {"a", "b"} :
        /\ update[t].pc = h /\ update[t].marked
        /\ snap' = [snap EXCEPT ![h] = update[t].v]
        /\ update' = [update EXCEPT ![t].pc = IF h = "a" THEN "b" ELSE "store"]
        /\ UNCHANGED <<seq, writes, newest, frame>>
  BY DEF Readings!Position!WriteHalf, Readings!Position!InOrder, Readings!Position!Halves, OneThread
<1>2. \A s \in Writers : s = t
  BY AloneUpdates
<1>3. Readings!Position!TypeOK
  BY DEF ReadingsInv
<1>4. update'[t] = [update[t] EXCEPT !.pc = IF h = "a" THEN "b" ELSE "store"]
  BY <1>1, <1>3 DEF Readings!Position!TypeOK
<1>5. Readings!Position!TypeOK'
  <2>1. snap' \in [{"a", "b"} -> 0 .. MaxWrites]
    BY <1>1, <1>3, ThreadTyped
  <2>2. update'[t] \in [pc : {"rest", "a", "b", "store"}, s : Nat, v : 0 .. MaxWrites, marked : BOOLEAN]
    BY <1>3, <1>4, ThreadTyped
  <2>. QED BY <1>1, <1>3, <2>1, <2>2 DEF Readings!Position!TypeOK, Readings!Position!Halves
<1>6. /\ update[t].s = 2 * newest /\ update[t].v = newest + 1 /\ writes = newest + 1
      /\ seq = update[t].s + 1 /\ snap["b"] = newest
      /\ h = "b" => snap["a"] = update[t].v
  BY <1>1, <1>3, ThreadTyped DEF ReadingsInv, SnapshotFollows
<1>7. SnapshotFollows'
  BY <1>1, <1>2, <1>3, <1>4, <1>6, ThreadTyped DEF SnapshotFollows, Updating
<1>8. FrameFollows'
  BY <1>1 DEF ReadingsInv, FrameFollows
<1>. QED BY <1>5, <1>7, <1>8

LEMMA StoreDoneStep ==
  ASSUME OneThread, ReadingsInv, NEW t \in Writers, Readings!Position!StoreDone(t)
  PROVE  Readings!Position!TypeOK' /\ SnapshotFollows' /\ FrameFollows'
<1>1. /\ update[t].pc = "store" /\ update[t].marked /\ seq' = update[t].s + 2
      /\ newest' = (IF update[t].v > newest THEN update[t].v ELSE newest)
      /\ update' = [update EXCEPT ![t].pc = "rest"]
      /\ UNCHANGED <<snap, writes, frame>>
  BY DEF Readings!Position!StoreDone, Readings!Position!Done
<1>2. \A s \in Writers : s = t
  BY AloneUpdates
<1>3. Readings!Position!TypeOK
  BY DEF ReadingsInv
<1>4. update'[t] = [update[t] EXCEPT !.pc = "rest"]
  BY <1>1, <1>3 DEF Readings!Position!TypeOK
<1>5. /\ update[t].s = 2 * newest /\ update[t].v = newest + 1 /\ writes = newest + 1
      /\ seq = update[t].s + 1 /\ snap["a"] = newest + 1 /\ snap["b"] = newest + 1
  BY <1>1, <1>3, ThreadTyped DEF ReadingsInv, SnapshotFollows
<1>6. newest' = newest + 1 /\ seq' = seq + 1 /\ seq' = 2 * newest' /\ newest \in Nat /\ seq \in Nat
  BY <1>1, <1>3, <1>5, ThreadTyped
<1>7. Readings!Position!TypeOK'
  BY <1>1, <1>3, <1>4, <1>5, <1>6, ThreadTyped DEF Readings!Position!TypeOK
<1>8. SnapshotFollows'
  <2>1. ~Updating'
    <3>1. update'[t].pc = "rest"
      BY <1>3, <1>4, ThreadTyped
    <3>. QED BY <1>2, <3>1 DEF Updating
  <2>2. seq' = 2 * newest' /\ newest' = writes' /\ snap'["a"] = newest' /\ snap'["b"] = newest'
    BY <1>1, <1>5, <1>6
  <2>. QED BY <2>1, <2>2 DEF SnapshotFollows, Updating
<1>9. FrameFollows'
  <2>1. frame.pc \in {"a", "b", "seq2"} => frame.seq1 \in Nat /\ frame.seq1 <= seq
    BY <1>3 DEF ReadingsInv, FrameFollows, Readings!Position!TypeOK
  <2>. QED BY <1>1, <1>6, <2>1 DEF ReadingsInv, FrameFollows
<1>. QED BY <1>7, <1>8, <1>9

(* An even number is that of a snapshot both halves of which are there.    *)
LEMMA EvenIsWhole ==
  ASSUME OneThread, ReadingsInv, ~Readings!Position!Odd(seq)
  PROVE  seq = 2 * newest /\ snap["a"] = newest /\ snap["b"] = newest /\ newest \in Nat
<1>1. newest \in Nat
  BY ReadingsAssumption DEF ReadingsInv, Readings!Position!TypeOK, Readings!Bounds
<1>2. CASE ~Updating
  BY <1>1, <1>2 DEF ReadingsInv, SnapshotFollows
<1>3. CASE Updating
  <2>1. PICK t \in Writers : update[t].pc # "rest"
    BY <1>3 DEF Updating
  <2>2. seq = 2 * newest + 1 \/ (~update[t].marked /\ seq = 2 * newest)
    BY <2>1 DEF ReadingsInv, SnapshotFollows
  <2>3. (2 * newest + 1) % 2 = 1
    BY <1>1, Parity
  <2>4. ~update[t].marked /\ seq = 2 * newest
    BY <2>2, <2>3 DEF Readings!Position!Odd
  <2>. QED BY <1>1, <2>1, <2>4 DEF ReadingsInv, SnapshotFollows
<1>. QED BY <1>2, <1>3

(* The steps of a frame.                                                   *)
LEMMA LookStep ==
  ASSUME OneThread, ReadingsInv, Readings!Looks \/ Readings!Position!NextFrame
  PROVE  Readings!Position!TypeOK' /\ SnapshotFollows' /\ FrameFollows'
<1>1. UNCHANGED <<seq, snap, writes, newest, update>>
  BY DEF Readings!Looks, Readings!Position!Look, Readings!Position!ReadSeq1, Readings!Position!CopyHalf,
         Readings!Position!ReadSeq2, Readings!Position!NextFrame
<1>2. SnapshotFollows'
  BY <1>1 DEF ReadingsInv, SnapshotFollows, Updating
<1>3. /\ frame \in [pc : {"seq1", "a", "b", "seq2", "done"}, attempt : 1 .. Retries, seq1 : Nat,
                    out : [{"a", "b"} -> 0 .. MaxWrites], since : 0 .. MaxWrites, accepted : BOOLEAN]
      /\ seq \in Nat /\ snap \in [{"a", "b"} -> 0 .. MaxWrites] /\ newest \in 0 .. MaxWrites
      /\ Retries \in Nat \ {0} /\ MaxWrites \in Nat
  BY ReadingsAssumption DEF ReadingsInv, Readings!Position!TypeOK, Readings!Position!Halves, Readings!Bounds
<1>4. SUFFICES FrameFollows' /\ frame' \in
                   [pc : {"seq1", "a", "b", "seq2", "done"}, attempt : 1 .. Retries, seq1 : Nat,
                    out : [{"a", "b"} -> 0 .. MaxWrites], since : 0 .. MaxWrites, accepted : BOOLEAN]
  BY <1>1, <1>2 DEF ReadingsInv, Readings!Position!TypeOK, Readings!Position!Halves
<1>5. ASSUME frame.pc # "done", frame' = Readings!Position!Retry
      PROVE  /\ FrameFollows'
             /\ frame' \in [pc : {"seq1", "a", "b", "seq2", "done"}, attempt : 1 .. Retries, seq1 : Nat,
                    out : [{"a", "b"} -> 0 .. MaxWrites], since : 0 .. MaxWrites, accepted : BOOLEAN]
  <2>1. ~frame.accepted
    BY <1>5 DEF ReadingsInv, FrameFollows
  <2>2. CASE frame.attempt < Retries
    <3>1. frame' = [frame EXCEPT !.pc = "seq1", !.attempt = frame.attempt + 1]
      BY <1>5, <2>2 DEF Readings!Position!Retry, Readings!Position!AttemptsLeft
    <3>2. frame'.pc = "seq1" /\ ~frame'.accepted
      BY <1>3, <2>1, <3>1
    <3>3. frame.attempt + 1 \in 1 .. Retries
      BY <1>3, <2>2
    <3>. QED BY <1>3, <3>1, <3>2, <3>3 DEF FrameFollows
  <2>3. CASE ~(frame.attempt < Retries)
    <3>1. frame' = [frame EXCEPT !.pc = "done"]
      BY <1>5, <2>3 DEF Readings!Position!Retry, Readings!Position!AttemptsLeft
    <3>. QED BY <1>3, <2>1, <3>1 DEF FrameFollows
  <2>. QED BY <2>2, <2>3
<1>6. CASE Readings!Position!ReadSeq1
  <2>1. CASE Readings!Position!Odd(seq)
    BY <1>5, <1>6, <2>1 DEF Readings!Position!ReadSeq1
  <2>2. CASE ~Readings!Position!Odd(seq)
    <3>1. /\ frame.pc = "seq1"
          /\ frame' = [frame EXCEPT !.pc = "a", !.seq1 = seq, !.since = newest]
      BY <1>6, <2>2 DEF Readings!Position!ReadSeq1
    <3>2. ~frame.accepted
      BY <3>1 DEF ReadingsInv, FrameFollows
    <3>3. seq = 2 * newest
      BY <2>2, EvenIsWhole
    <3>4. /\ frame'.pc = "a" /\ ~frame'.accepted /\ frame'.seq1 = seq /\ frame'.since = newest
          /\ seq' = seq /\ seq <= seq
      BY <1>1, <1>3, <3>1, <3>2
    <3>5. FrameFollows'
      BY <3>3, <3>4 DEF FrameFollows
    <3>. QED BY <1>3, <3>1, <3>5
  <2>. QED BY <2>1, <2>2
<1>7. CASE Readings!Position!CopyHalf
  <2>1. PICK h \in {"a", "b"} :
          /\ frame.pc = h
          /\ frame' = [frame EXCEPT !.out[h] = snap[h], !.pc = IF h = "a" THEN "b" ELSE "seq2"]
    BY <1>7 DEF Readings!Position!CopyHalf, Readings!Position!Copied, Readings!Position!Halves
  <2>2. /\ ~frame.accepted /\ frame.seq1 = 2 * frame.since /\ frame.seq1 <= seq
        /\ seq = frame.seq1 /\ h = "b" => frame.out["a"] = frame.since
    BY <2>1 DEF ReadingsInv, FrameFollows
  <2>3. seq = frame.seq1 => snap[h] = frame.since
    <3>1. ASSUME seq = 2 * frame.since PROVE ~Readings!Position!Odd(seq)
      BY <1>3, <3>1, Parity DEF Readings!Position!Odd
    <3>2. seq = frame.seq1 => newest = frame.since /\ snap[h] = newest
      BY <1>3, <2>2, <3>1, EvenIsWhole
    <3>. QED BY <3>2
  <2>4. /\ frame'.out = [frame.out EXCEPT ![h] = snap[h]] /\ frame'.seq1 = frame.seq1
        /\ frame'.since = frame.since /\ frame'.accepted = frame.accepted
        /\ frame'.attempt = frame.attempt
        /\ frame'.pc = IF h = "a" THEN "b" ELSE "seq2"
    BY <1>3, <2>1
  <2>5. frame' \in [pc : {"seq1", "a", "b", "seq2", "done"}, attempt : 1 .. Retries, seq1 : Nat,
                    out : [{"a", "b"} -> 0 .. MaxWrites], since : 0 .. MaxWrites, accepted : BOOLEAN]
    BY <1>3, <2>1
  <2>6. frame'.out[h] = snap[h] /\ (h = "b" => frame'.out["a"] = frame.out["a"])
    BY <1>3, <2>4
  <2>. QED BY <1>1, <2>1, <2>2, <2>3, <2>4, <2>5, <2>6 DEF FrameFollows
<1>8. CASE Readings!Position!ReadSeq2
  <2>1. CASE seq = frame.seq1
    <3>1. frame.pc = "seq2" /\ frame' = [frame EXCEPT !.pc = "done", !.accepted = TRUE]
      BY <1>8, <2>1 DEF Readings!Position!ReadSeq2
    <3>. QED BY <1>3, <2>1, <3>1 DEF ReadingsInv, FrameFollows
  <2>2. CASE seq # frame.seq1
    BY <1>5, <1>8, <2>2 DEF Readings!Position!ReadSeq2
  <2>. QED BY <2>1, <2>2
<1>9. CASE Readings!Position!NextFrame
  <2>1. frame' = [pc |-> "seq1", attempt |-> 1, seq1 |-> 0, out |-> [k \in {"a", "b"} |-> 0],
                  since |-> newest, accepted |-> FALSE]
    BY <1>9 DEF Readings!Position!NextFrame, Readings!Position!Fresh, Readings!Position!Zero,
       Readings!Position!Halves
  <2>. QED BY <1>3, <2>1 DEF FrameFollows
<1>. QED BY <1>6, <1>7, <1>8, <1>9 DEF Readings!Looks, Readings!Position!Look

-----------------------------------------------------------------------------
(* The ring.                                                               *)

LEMMA SlotsDiffer ==
  ASSUME NEW s \in Nat \ {0}, NEW i \in Nat, NEW j \in Nat, i < j, j < i + s
  PROVE  i % s # j % s
<1> DEFINE a == i \div s  b == j \div s
<1>1. a \in Int /\ b \in Int /\ i % s = i - s * a /\ j % s = j - s * b
  <2>1. i % s = i - s * (i \div s) /\ j % s = j - s * (j \div s)
    BY SMTT(30)
  <2>2. i \div s \in Int /\ j \div s \in Int
    BY SMTT(30)
  <2>. QED BY <2>1, <2>2
<1> HIDE DEF a, b
<1> SUFFICES ASSUME i % s = j % s PROVE FALSE
  OBVIOUS
<1>2. j - i = s * b - s * a
  BY <1>1
<1>3. s * b - s * a = s * (b - a)
  BY <1>1
<1>4. j - i = s * (b - a)
  BY <1>2, <1>3
<1> DEFINE c == b - a
<1>5. c \in Int /\ j - i = s * c /\ s \in Nat /\ s > 0
  BY <1>1, <1>4
<1> HIDE DEF c
<1>6. CASE c <= 0
  <2>1. s * c <= 0
    BY <1>5, <1>6, SMTT(30)
  <2>. QED BY <1>5, <2>1
<1>7. CASE c >= 1
  <2>1. s * c >= s
    BY <1>5, <1>7, SMTT(30)
  <2>. QED BY <1>5, <2>1
<1>. QED BY <1>5, <1>6, <1>7

LEMMA BelowModulus ==
  ASSUME NEW n \in Nat, NEW w \in Nat, n < w
  PROVE  n % w = n
BY SMTT(30)

LEMMA SlotIndex ==
  ASSUME NEW n \in Nat, NEW s \in Nat \ {0}
  PROVE  n % s \in 0 .. s - 1
BY SMTT(30)

Events == Writers \X (1 .. MaxEvents)
Contents == Events \union {Empty, Torn}

LEMMA RingTyped ==
  ASSUME ReadingsInv
  PROVE  /\ Size \in Nat \ {0} /\ Max \in Nat \ {0} /\ Word \in Nat /\ Word > Size /\ MaxEvents \in Nat
         /\ Events \cap {Empty, Torn} = {}
         /\ slots \in [0 .. Size - 1 -> Contents]
         /\ write \in 0 .. Word - 1 /\ read \in 0 .. Word - 1
         /\ writer \in [Writers -> [pc : {"rest", "fill", "store"}, w : 0 .. Word - 1]]
         /\ count \in [Writers -> 0 .. MaxEvents]
         /\ reader \in [pc : {"rest", "copy", "half"}, w : 0 .. Word - 1, r : 0 .. Word - 1,
                        n : 0 .. Max, half : Contents]
         /\ published \in Seq(Events) /\ Len(published) \in Nat
         /\ DOMAIN published = 1 .. Len(published)
         /\ delivered \in Seq(Contents) /\ Len(delivered) \in Nat
         /\ DOMAIN delivered = 1 .. Len(delivered)
<1>1. {Empty, Torn} \cap (Writers \X Nat) = {}
  BY ReadingsAssumption DEF Readings!Bounds, Readings!Sizes
<1>2. Size \in Nat \ {0} /\ Max \in Nat \ {0} /\ Word \in Nat /\ Word > Size /\ MaxEvents \in Nat
  BY ReadingsAssumption DEF Readings!Bounds, Readings!Sizes
<1>3. Events \subseteq Writers \X Nat
  BY <1>2 DEF Events
<1>. QED
  BY SMTT(30), <1>1, <1>2, <1>3
  DEF ReadingsInv, Readings!TypeOK, Readings!Contents, Readings!Events, Readings!Indices, Contents, Events

(* The events in the order of their indices, all of one thread.            *)
LEMMA PublishedFacts ==
  ASSUME OneThread, ReadingsInv, NEW i \in 1 .. Len(published)
  PROVE  /\ published[i] \in Events /\ published[i][2] = i /\ published[i][1] \in Writers
         /\ published[i] \notin {Empty, Torn}
<1>1. published[i] \in Events
  BY RingTyped
<1>2. published[i][2] = i
  BY DEF ReadingsInv, RingFollows
<1>. QED BY <1>1, <1>2, RingTyped DEF Events

LEMMA BeginStep ==
  ASSUME OneThread, ReadingsInv, NEW t \in Writers, Readings!Begin(t)
  PROVE  Readings!TypeOK' /\ RingFollows' /\ DrainFollows'
<1> DEFINE n == Len(published)
<1>1. /\ writer[t].pc = "rest" /\ n < MaxEvents /\ count[t] < MaxEvents
      /\ reader.pc = "rest" \/ (write - reader.r) % Word < Size
      /\ writer' = [writer EXCEPT ![t] = [pc |-> "fill", w |-> write]]
      /\ count' = [count EXCEPT ![t] = count[t] + 1]
      /\ slots' = [slots EXCEPT ![write % Size] = Torn]
      /\ write' = write
      /\ UNCHANGED <<read, reader, published, delivered>>
  BY DEF Readings!Begin, Readings!MayStart, Readings!Total, Readings!Slot, Readings!Bumped,
         Readings!Behind, OneThread
<1>2. ~Publishing /\ (\A s \in Writers : s = t) /\ write = n /\ count[t] = n
  BY <1>1, AloneUpdates DEF ReadingsInv, RingFollows
<1>3. n \in Nat /\ n % Size \in 0 .. Size - 1
  BY RingTyped, SlotIndex
<1>4. /\ writer'[t] = [pc |-> "fill", w |-> n] /\ count'[t] = n + 1
      /\ slots'[n % Size] = Torn
      /\ \A k \in 0 .. Size - 1 : k # n % Size => slots'[k] = slots[k]
  BY <1>1, <1>2, <1>3, RingTyped
<1>5. Readings!TypeOK'
  <2>1. n \in 0 .. Word - 1 /\ n + 1 \in 0 .. MaxEvents
    BY SMTT(30), <1>1, <1>2, <1>3, RingTyped
  <2>2. writer' \in [Writers -> [pc : {"rest", "fill", "store"}, w : 0 .. Word - 1]]
    BY <1>1, <1>2, <2>1, RingTyped
  <2>3. count' \in [Writers -> 0 .. MaxEvents] /\ slots' \in [0 .. Size - 1 -> Contents]
    BY <1>1, <1>2, <1>3, <2>1, RingTyped DEF Contents
  <2>. QED
    BY <1>1, <2>2, <2>3
    DEF ReadingsInv, Readings!TypeOK, Readings!Contents, Readings!Events, Readings!Indices, Contents, Events
<1>6. Publishing'
  BY <1>4 DEF Publishing
<1>7. \A i : InRing(i)' => InRing(i) /\ i > n - Size
  BY <1>1, <1>2, <1>6, RingTyped DEF InRing
<1>8. RingFollows'
  <2>1. \A i \in 0 .. n - 1 : InRing(i)' => slots'[i % Size] = published[i + 1]
    <3> SUFFICES ASSUME NEW i \in 0 .. n - 1, InRing(i)' PROVE slots'[i % Size] = published[i + 1]
      OBVIOUS
    <3>1. InRing(i) /\ i > n - Size
      BY <1>7
    <3>2. i % Size # n % Size /\ i % Size \in 0 .. Size - 1
      <4>1. i \in Nat /\ i < n /\ n < i + Size /\ Size \in Nat \ {0}
        BY SMTT(30), <1>3, <3>1, RingTyped
      <4> HIDE DEF n
      <4>. QED BY <1>3, <4>1, SlotsDiffer, SlotIndex
    <3>3. slots[i % Size] = published[i + 1]
      BY <3>1 DEF ReadingsInv, RingFollows
    <3>. QED BY <1>4, <3>2, <3>3
  <2>. QED BY <1>1, <1>2, <1>4, <2>1 DEF ReadingsInv, RingFollows
<1>9. DrainFollows'
  <2>1. reader.pc # "rest" => InRing(reader.r)'
    <3> SUFFICES ASSUME reader.pc # "rest" PROVE reader.r > n - Size
      BY SMTT(30), <1>1, RingTyped DEF InRing
    <3>1. reader.r \in Nat /\ reader.r <= n
      BY RingTyped DEF ReadingsInv, DrainFollows, ReadSoFar
    <3>2. n - reader.r \in Nat /\ n - reader.r < Word
      <4>1. n < MaxEvents /\ MaxEvents < Word /\ MaxEvents \in Nat /\ Word \in Nat
        BY <1>1, RingTyped DEF OneThread
      <4> HIDE DEF n
      <4>. QED BY <1>3, <3>1, <4>1
    <3>3. (n - reader.r) % Word = n - reader.r
      BY <3>2, RingTyped, BelowModulus
    <3>. QED BY SMTT(30), <1>1, <1>2, <1>3, <3>1, <3>3, RingTyped
  <2>. QED BY <1>1, <2>1 DEF ReadingsInv, DrainFollows, ReadSoFar, Delivered
<1>. QED BY <1>5, <1>8, <1>9

LEMMA FillStep ==
  ASSUME OneThread, ReadingsInv, NEW t \in Writers, Readings!Fill(t)
  PROVE  Readings!TypeOK' /\ RingFollows' /\ DrainFollows'
<1> DEFINE n == Len(published)
<1>1. /\ writer[t].pc = "fill" /\ writer' = [writer EXCEPT ![t].pc = "store"]
      /\ slots' = [slots EXCEPT ![writer[t].w % Size] = <<t, count[t]>>]
      /\ UNCHANGED <<write, read, count, reader, published, delivered>>
  BY DEF Readings!Fill, Readings!Slot
<1>2. /\ Publishing /\ (\A s \in Writers : s = t) /\ writer[t].w = n /\ n < MaxEvents
      /\ count[t] = n + 1
  BY <1>1, AloneUpdates DEF ReadingsInv, RingFollows
<1>3. n \in Nat /\ n % Size \in 0 .. Size - 1
  BY RingTyped, SlotIndex
<1>4. /\ writer'[t].pc = "store" /\ writer'[t].w = n
      /\ slots'[n % Size] = <<t, n + 1>>
      /\ \A k \in 0 .. Size - 1 : k # n % Size => slots'[k] = slots[k]
  BY <1>1, <1>2, <1>3, RingTyped
<1>5. Readings!TypeOK'
  <2>1. <<t, n + 1>> \in Contents
    BY <1>2, <1>3, RingTyped DEF Contents, Events
  <2>2. writer' \in [Writers -> [pc : {"rest", "fill", "store"}, w : 0 .. Word - 1]]
    BY ZenonT(60), <1>1, RingTyped
  <2>3. slots' \in [0 .. Size - 1 -> Contents]
    BY <1>1, <1>2, <1>3, <2>1, RingTyped
  <2>. QED
    BY <1>1, <2>2, <2>3
    DEF ReadingsInv, Readings!TypeOK, Readings!Contents, Readings!Events, Readings!Indices, Contents, Events
<1>6. Publishing'
  BY <1>4 DEF Publishing
<1>7. \A i : InRing(i)' <=> InRing(i)
  BY <1>1, <1>2, <1>6 DEF InRing
<1>8. RingFollows'
  <2>1. \A i \in 0 .. n - 1 : InRing(i)' => slots'[i % Size] = published[i + 1]
    <3> SUFFICES ASSUME NEW i \in 0 .. n - 1, InRing(i)' PROVE slots'[i % Size] = published[i + 1]
      OBVIOUS
    <3>1. InRing(i) /\ i > n - Size
      BY <1>2, <1>7 DEF InRing
    <3>2. i % Size # n % Size /\ i % Size \in 0 .. Size - 1
      <4>1. i \in Nat /\ i < n /\ n < i + Size /\ Size \in Nat \ {0}
        BY <1>3, <3>1, RingTyped
      <4> HIDE DEF n
      <4>. QED BY <1>3, <4>1, SlotsDiffer, SlotIndex
    <3>3. slots[i % Size] = published[i + 1]
      BY <3>1 DEF ReadingsInv, RingFollows
    <3>. QED BY <1>4, <3>2, <3>3
  <2>. QED BY <1>1, <1>2, <1>4, <2>1 DEF ReadingsInv, RingFollows
<1>9. DrainFollows'
  BY <1>1, <1>7 DEF ReadingsInv, DrainFollows, ReadSoFar, Delivered
<1>. QED BY <1>5, <1>8, <1>9

LEMMA StoreStep ==
  ASSUME OneThread, ReadingsInv, NEW t \in Writers, Readings!Store(t)
  PROVE  Readings!TypeOK' /\ RingFollows' /\ DrainFollows'
<1> DEFINE n == Len(published)
<1>1. /\ writer[t].pc = "store" /\ writer' = [writer EXCEPT ![t].pc = "rest"]
      /\ write' = (writer[t].w + 1) % Word /\ published' = Append(published, <<t, count[t]>>)
      /\ UNCHANGED <<slots, read, count, reader, delivered>>
  BY DEF Readings!Store, Readings!Succ
<1>2. /\ Publishing /\ (\A s \in Writers : s = t) /\ writer[t].w = n /\ n < MaxEvents
      /\ count[t] = n + 1 /\ slots[n % Size] = <<t, n + 1>> /\ write = n
  BY <1>1, AloneUpdates DEF ReadingsInv, RingFollows
<1>3. n \in Nat /\ n + 1 \in Nat /\ n + 1 < Word /\ n + 1 <= MaxEvents
  BY SMTT(30), <1>2, RingTyped DEF OneThread
<1>4. <<t, n + 1>> \in Events
  BY <1>3 DEF Events
<1>5. /\ published' \in Seq(Events) /\ Len(published') = n + 1 /\ published'[n + 1] = <<t, n + 1>>
      /\ \A i \in 1 .. n : published'[i] = published[i]
  BY SMTT(30), <1>1, <1>2, <1>4, RingTyped
<1>6. write' = n + 1 /\ writer'[t].pc = "rest"
  BY <1>1, <1>2, <1>3, RingTyped, BelowModulus
<1>7. Readings!TypeOK'
  <2>1. writer' \in [Writers -> [pc : {"rest", "fill", "store"}, w : 0 .. Word - 1]]
    BY ZenonT(60), <1>1, RingTyped
  <2>2. write' \in 0 .. Word - 1
    BY <1>3, <1>6, RingTyped
  <2>. QED
    BY <1>1, <1>5, <2>1, <2>2
    DEF ReadingsInv, Readings!TypeOK, Readings!Contents, Readings!Events, Readings!Indices, Events
<1>8. ~Publishing'
  BY <1>2, <1>6 DEF Publishing
<1>9. \A i \in Int : InRing(i)' => (InRing(i) \/ i = n) /\ (i < n => InRing(i))
  <2> SUFFICES ASSUME NEW i \in Int, InRing(i)' PROVE (InRing(i) \/ i = n) /\ (i < n => InRing(i))
    OBVIOUS
  <2>1. i >= n + 1 - Size /\ Size \in Nat \ {0}
    BY SMTT(30), <1>5, RingTyped DEF InRing
  <2>2. i > n - Size /\ i >= n - Size
    BY <1>3, <2>1
  <2>. QED BY <2>2 DEF InRing
<1>10. RingFollows'
  <2>1. \A i \in 0 .. n : InRing(i)' => slots'[i % Size] = published'[i + 1]
    <3> SUFFICES ASSUME NEW i \in 0 .. n, InRing(i)' PROVE slots'[i % Size] = published'[i + 1]
      OBVIOUS
    <3>1. CASE i = n
      BY <1>1, <1>2, <1>5, <3>1
    <3>2. CASE i # n
      <4>1. i \in 0 .. n - 1 /\ i + 1 \in 1 .. n /\ InRing(i)
        BY <1>3, <1>9, <3>2
      <4>2. slots[i % Size] = published[i + 1]
        BY <4>1 DEF ReadingsInv, RingFollows
      <4>. QED BY <1>1, <1>5, <4>1, <4>2
    <3>. QED BY <3>1, <3>2
  <2>2. \A i \in 1 .. n + 1 : published'[i][2] = i
    <3>1. \A i \in 1 .. n : published[i][2] = i
      BY DEF ReadingsInv, RingFollows
    <3>2. \A i \in 1 .. n + 1 : i \in 1 .. n \/ i = n + 1
      BY <1>3
    <3>3. <<t, n + 1>>[2] = n + 1
      OBVIOUS
    <3>. QED BY <1>5, <3>1, <3>2, <3>3
  <2>3. count'[t] = n + 1
    BY <1>1, <1>2
  <2>. QED BY <1>1, <1>2, <1>3, <1>5, <1>6, <2>1, <2>2, <2>3 DEF RingFollows
<1>11. DrainFollows'
  <2>1. ReadSoFar' = ReadSoFar /\ ReadSoFar \in Nat /\ read \in Nat /\ ReadSoFar <= n /\ read <= ReadSoFar
    BY SMTT(30), <1>1, RingTyped DEF ReadingsInv, DrainFollows, ReadSoFar
  <2>2. \A j \in 1 .. ReadSoFar : published'[j] = published[j]
    BY <1>3, <1>5, <2>1
  <2>3. \A i \in DOMAIN delivered : \E j \in 1 .. ReadSoFar : delivered[i] = published'[j]
    BY <2>2 DEF ReadingsInv, DrainFollows
  <2>4. ASSUME reader.pc # "rest"
        PROVE  /\ reader.r <= reader.w /\ reader.w <= Len(published') /\ InRing(reader.r)'
               /\ \A i \in read .. reader.r - 1 : Delivered(i)' \/ Len(published') - i > Size
    <3>1. /\ reader.r <= reader.w /\ reader.w <= n /\ reader.r > n - Size
          /\ reader.r \in Nat /\ reader.w \in Nat
          /\ \A i \in read .. reader.r - 1 : Delivered(i) \/ n - i > Size
      BY <1>2, <2>4, RingTyped DEF ReadingsInv, DrainFollows, InRing
    <3>2. InRing(reader.r)'
      BY SMTT(30), <1>3, <1>5, <1>8, <3>1, <1>1, RingTyped DEF InRing
    <3>3. ASSUME NEW i \in read .. reader.r - 1 PROVE Delivered(i)' \/ Len(published') - i > Size
      <4>1. i + 1 \in 1 .. n /\ i \in Nat
        BY <1>3, <2>1, <3>1
      <4>2. Delivered(i) => Delivered(i)'
        BY <1>1, <1>5, <4>1 DEF Delivered
      <4>3. n - i > Size => Len(published') - i > Size
        <5>1. Len(published') = n + 1 /\ n \in Nat /\ i \in Nat /\ Size \in Nat
          BY <1>3, <1>5, <4>1, RingTyped
        <5> HIDE DEF n
        <5>. QED BY <5>1
      <4>. QED BY <3>1, <4>2, <4>3
    <3>4. reader.w <= Len(published')
      BY <1>3, <1>5, <3>1
    <3>. QED BY <3>1, <3>2, <3>3, <3>4
  <2>5. reader.pc = "half" =>
          reader.r < reader.w /\ reader.n < Max /\ reader.half = published'[reader.r + 1]
    <3> SUFFICES ASSUME reader.pc = "half"
                 PROVE  reader.r < reader.w /\ reader.n < Max /\ reader.half = published'[reader.r + 1]
      OBVIOUS
    <3>1. /\ reader.r < reader.w /\ reader.n < Max /\ reader.half = published[reader.r + 1]
          /\ reader.w <= n /\ reader.r \in Nat /\ reader.w \in Nat
      BY RingTyped DEF ReadingsInv, DrainFollows
    <3>2. reader.r + 1 \in 1 .. n
      BY <1>3, <3>1
    <3>. QED BY <1>5, <3>1, <3>2
  <2>6. \A i, j \in DOMAIN delivered : i < j => delivered[i][2] < delivered[j][2]
    BY DEF ReadingsInv, DrainFollows
  <2>7. read <= ReadSoFar /\ ReadSoFar <= n + 1
    BY <1>3, <2>1
  <2>8. reader' = reader /\ read' = read /\ delivered' = delivered /\ Len(published') = n + 1
    BY <1>1, <1>5
  <2> HIDE DEF n
  <2>9. (read <= ReadSoFar /\ ReadSoFar <= Len(published))'
    BY <2>1, <2>7, <2>8
  <2>10. (reader.pc # "rest" =>
            /\ reader.r <= reader.w /\ reader.w <= Len(published) /\ InRing(reader.r)
            /\ \A i \in read .. reader.r - 1 : Delivered(i) \/ Len(published) - i > Size)'
    BY <2>4, <2>8 DEF InRing, Delivered
  <2>11. (reader.pc = "half" =>
            reader.r < reader.w /\ reader.n < Max /\ reader.half = published[reader.r + 1])'
    BY <2>5, <2>8
  <2>12. (/\ \A i \in DOMAIN delivered : \E j \in 1 .. ReadSoFar : delivered[i] = published[j]
          /\ \A i, j \in DOMAIN delivered : i < j => delivered[i][2] < delivered[j][2])'
    BY <2>1, <2>3, <2>6, <2>8
  <2>. QED BY <2>9, <2>10, <2>11, <2>12 DEF DrainFollows
<1>. QED BY <1>7, <1>10, <1>11


(* The drain.                                                              *)
LEMMA LoadStep ==
  ASSUME OneThread, ReadingsInv, Readings!Load
  PROVE  Readings!TypeOK' /\ RingFollows' /\ DrainFollows'
<1> DEFINE n == Len(published)
           r == IF n - read > Size THEN n - Size ELSE read
<1>1. /\ reader.pc = "rest" /\ UNCHANGED <<slots, write, read, writer, count, published, delivered>>
      /\ (write - read) % Word < Size \/ (\A t \in Writers : writer[t].pc = "rest")
      /\ reader' = [Readings!Quiet EXCEPT !.pc = "copy", !.w = write,
                       !.r = IF (write - read) % Word > Size THEN (write - Size) % Word ELSE read]
  BY DEF Readings!Load, Readings!MayDrain, Readings!Behind, Readings!Oldest, OneThread
<1>2. /\ write = n /\ n <= MaxEvents /\ read <= n /\ ReadSoFar = read
  BY <1>1 DEF ReadingsInv, RingFollows, DrainFollows, ReadSoFar
<1>3. n \in Nat /\ read \in Nat /\ Size \in Nat \ {0} /\ n < Word /\ Word \in Nat
  BY <1>2, RingTyped DEF OneThread
<1> HIDE DEF n
<1>4. (write - read) % Word = n - read /\ (n - read > Size => (write - Size) % Word = n - Size)
  <2>1. n - read \in Nat /\ n - read < Word
    BY <1>2, <1>3
  <2>2. ASSUME n - read > Size PROVE n - Size \in Nat /\ n - Size < Word
    BY <1>2, <1>3, <2>2
  <2>3. (n - read) % Word = n - read
    BY <1>3, <2>1, BelowModulus
  <2>4. n - read > Size => (n - Size) % Word = n - Size
    BY <1>3, <2>2, BelowModulus
  <2>. QED BY <1>2, <2>3, <2>4
<1>5. r \in Nat /\ read <= r /\ r <= n
  BY <1>2, <1>3
<1>6. reader' = [pc |-> "copy", w |-> n, r |-> r, n |-> 0, half |-> Empty]
  BY <1>1, <1>2, <1>4 DEF Readings!Quiet
<1>7. \A i \in read .. r - 1 : n - i > Size
  BY <1>2, <1>3
<1>8. InRing(r)
  <2>1. Publishing => n - read < Size
    BY <1>1, <1>4 DEF Publishing
  <2>. QED BY <1>2, <1>3, <2>1 DEF InRing, n
<1> HIDE DEF r
<1>9. reader' \in [pc : {"rest", "copy", "half"}, w : 0 .. Word - 1, r : 0 .. Word - 1,
                   n : 0 .. Max, half : Contents]
  BY <1>2, <1>3, <1>5, <1>6, RingTyped DEF Contents
<1>10. Readings!TypeOK'
  BY <1>1, <1>9
  DEF ReadingsInv, Readings!TypeOK, Readings!Contents, Readings!Events, Readings!Indices, Contents, Events
<1>11. RingFollows'
  BY <1>1 DEF ReadingsInv, RingFollows, InRing, Publishing
<1>12. DrainFollows'
  <2>1. ReadSoFar' = r /\ reader'.r = r /\ reader'.w = n /\ reader'.pc = "copy"
    BY <1>6 DEF ReadSoFar
  <2>2. Len(published') = n /\ read' = read
    BY <1>1 DEF n
  <2>3. InRing(reader.r)'
    BY <1>1, <1>8, <2>1 DEF InRing, Publishing
  <2>4. (\A i \in DOMAIN delivered : \E j \in 1 .. ReadSoFar : delivered[i] = published[j])'
    <3>1. \A i \in DOMAIN delivered : \E j \in 1 .. read : delivered[i] = published[j]
      BY <1>2 DEF ReadingsInv, DrainFollows
    <3>2. \A j \in 1 .. read : j \in 1 .. r
      BY <1>3, <1>5
    <3>. QED BY <1>1, <2>1, <3>1, <3>2
  <2>5. (\A i, j \in DOMAIN delivered : i < j => delivered[i][2] < delivered[j][2])'
    BY <1>1 DEF ReadingsInv, DrainFollows
  <2>. QED BY SMTT(30), <1>3, <1>5, <1>7, <2>1, <2>2, <2>3, <2>4, <2>5 DEF DrainFollows
<1>. QED BY <1>10, <1>11, <1>12

(* The slot a drain copies holds the event of its index.                   *)
LEMMA SlotOfIndex ==
  ASSUME OneThread, ReadingsInv, reader.pc # "rest", reader.r < reader.w
  PROVE  /\ slots[reader.r % Size] = published[reader.r + 1]
         /\ reader.r \in Nat /\ reader.r + 1 \in 1 .. Len(published) /\ reader.r + 1 < Word
<1>1. reader.w <= Len(published) /\ InRing(reader.r)
  BY DEF ReadingsInv, DrainFollows
<1>2. /\ reader.r \in Nat /\ reader.w \in Nat /\ Len(published) \in Nat
      /\ Len(published) <= MaxEvents /\ MaxEvents < Word /\ MaxEvents \in Nat /\ Word \in Nat
  BY RingTyped DEF OneThread, ReadingsInv, RingFollows
<1>3. /\ reader.r \in 0 .. Len(published) - 1 /\ reader.r + 1 \in 1 .. Len(published)
      /\ reader.r + 1 < Word
  BY <1>1, <1>2
<1>4. slots[reader.r % Size] = published[reader.r + 1]
  BY <1>1, <1>3 DEF ReadingsInv, RingFollows
<1>. QED BY <1>2, <1>3, <1>4

LEMMA CopyHalfStep ==
  ASSUME OneThread, ReadingsInv, Readings!CopyHalf
  PROVE  Readings!TypeOK' /\ RingFollows' /\ DrainFollows'
<1>1. /\ reader.pc = "copy" /\ reader.r < reader.w /\ reader.n < Max
      /\ reader' = [reader EXCEPT !.pc = "half", !.half = slots[reader.r % Size]]
      /\ UNCHANGED <<slots, write, read, writer, count, published, delivered>>
  BY DEF Readings!CopyHalf, Readings!More, Readings!RoomFor, Readings!Slot
<1>2. reader'.half = published[reader.r + 1] /\ reader.r + 1 \in 1 .. Len(published)
  BY <1>1, SlotOfIndex, RingTyped
<1>3. reader'.half \in Contents
  BY <1>2, RingTyped DEF Contents
<1>4. /\ reader'.pc = "half" /\ reader'.r = reader.r /\ reader'.w = reader.w /\ reader'.n = reader.n
      /\ reader' \in [pc : {"rest", "copy", "half"}, w : 0 .. Word - 1, r : 0 .. Word - 1,
                      n : 0 .. Max, half : Contents]
  <2>1. slots[reader.r % Size] \in Contents
    BY SMTT(30), <1>1, <1>2, SlotOfIndex, RingTyped DEF Contents
  <2>. QED BY <1>1, <2>1, RingTyped
<1>5. Readings!TypeOK'
  BY <1>1, <1>4
  DEF ReadingsInv, Readings!TypeOK, Readings!Contents, Readings!Events, Readings!Indices, Contents, Events
<1>6. RingFollows'
  BY <1>1 DEF ReadingsInv, RingFollows, InRing, Publishing
<1>7. DrainFollows'
  BY <1>1, <1>2, <1>4 DEF ReadingsInv, DrainFollows, ReadSoFar, Delivered, InRing, Publishing
<1>. QED BY <1>5, <1>6, <1>7

LEMMA CopyRestStep ==
  ASSUME OneThread, ReadingsInv, Readings!CopyRest
  PROVE  Readings!TypeOK' /\ RingFollows' /\ DrainFollows'
<1> DEFINE e == published[reader.r + 1]  m == Len(delivered)
<1>1. /\ reader.pc = "half" /\ reader.r < reader.w /\ reader.n < Max /\ reader.half = e
      /\ reader.w <= Len(published) /\ InRing(reader.r)
  BY DEF Readings!CopyRest, ReadingsInv, DrainFollows
<1>2. /\ slots[reader.r % Size] = e /\ reader.r \in Nat
      /\ reader.r + 1 \in 1 .. Len(published) /\ reader.r + 1 < Word
  BY <1>1, SlotOfIndex
<1>3. (reader.r + 1) % Word = reader.r + 1
  BY SMTT(30), <1>2, RingTyped, BelowModulus
<1>4. /\ delivered' = Append(delivered, e)
      /\ reader' = [reader EXCEPT !.pc = "copy", !.r = reader.r + 1, !.n = reader.n + 1]
      /\ UNCHANGED <<slots, write, read, writer, count, published>>
  BY <1>1, <1>2, <1>3 DEF Readings!CopyRest, Readings!Slot, Readings!Succ
<1>5. e \in Events /\ e \in Contents /\ e[2] = reader.r + 1
  BY <1>2, PublishedFacts DEF Contents
<1>6. /\ m \in Nat /\ DOMAIN delivered = 1 .. m /\ DOMAIN delivered' = 1 .. m + 1
      /\ delivered' \in Seq(Contents) /\ delivered'[m + 1] = e
      /\ \A i \in 1 .. m : delivered'[i] = delivered[i]
  BY <1>4, <1>5, RingTyped
<1> HIDE DEF e, m
<1>7. /\ reader'.pc = "copy" /\ reader'.r = reader.r + 1 /\ reader'.w = reader.w
      /\ reader' \in [pc : {"rest", "copy", "half"}, w : 0 .. Word - 1, r : 0 .. Word - 1,
                      n : 0 .. Max, half : Contents]
  <2>1. reader.r + 1 \in 0 .. Word - 1 /\ reader.n + 1 \in 0 .. Max
    BY SMTT(30), <1>1, <1>2, RingTyped
  <2>. QED BY <1>4, <2>1, RingTyped
<1>8. Readings!TypeOK'
  BY <1>4, <1>6, <1>7
  DEF ReadingsInv, Readings!TypeOK, Readings!Contents, Readings!Events, Readings!Indices, Contents, Events
<1>9. RingFollows'
  BY <1>4 DEF ReadingsInv, RingFollows, InRing, Publishing
<1>10. DrainFollows'
  <2>1. ReadSoFar = reader.r /\ ReadSoFar' = reader.r + 1 /\ read \in Nat /\ read <= reader.r
    BY <1>1, <1>7, RingTyped DEF ReadingsInv, DrainFollows, ReadSoFar
  <2>2. (read <= ReadSoFar /\ ReadSoFar <= Len(published) /\ reader.r <= reader.w
         /\ reader.w <= Len(published) /\ reader.pc # "half")'
    BY SMTT(30), <1>1, <1>2, <1>4, <1>7, <2>1, RingTyped
  <2>3. InRing(reader.r)'
    <3>1. InRing(reader.r + 1)
      BY SMTT(30), <1>1, <1>2, RingTyped DEF InRing
    <3>. QED BY <1>4, <1>7, <3>1 DEF InRing, Publishing
  <2>4. (\A i \in read .. reader.r - 1 : Delivered(i) \/ Len(published) - i > Size)'
    <3> SUFFICES ASSUME NEW i \in read .. reader.r
                 PROVE  Delivered(i)' \/ Len(published) - i > Size
      BY <1>2, <1>4, <1>7
    <3>1. CASE i = reader.r
      BY <1>4, <1>6, <3>1 DEF Delivered, e
    <3>2. CASE i # reader.r
      <4>1. i \in read .. reader.r - 1
        BY <1>2, <2>1, <3>2
      <4>2. Delivered(i) \/ Len(published) - i > Size
        BY <1>1, <4>1 DEF ReadingsInv, DrainFollows
      <4>. QED BY <1>4, <1>6, <4>2 DEF Delivered
    <3>. QED BY <3>1, <3>2
  <2>5. (\A i \in DOMAIN delivered : \E j \in 1 .. ReadSoFar : delivered[i] = published[j])'
    <3> SUFFICES ASSUME NEW i \in 1 .. m + 1
                 PROVE  \E j \in 1 .. reader.r + 1 : delivered'[i] = published[j]
      BY <1>4, <1>6, <2>1
    <3>1. CASE i = m + 1
      BY <1>2, <1>6, <3>1 DEF e
    <3>2. CASE i # m + 1
      <4>1. i \in 1 .. m
        BY <1>6, <3>2
      <4>2. PICK j \in 1 .. reader.r : delivered[i] = published[j]
        BY <1>6, <2>1, <4>1 DEF ReadingsInv, DrainFollows
      <4>3. j \in 1 .. reader.r + 1
        BY <1>2
      <4>. QED BY <1>6, <4>1, <4>2, <4>3
    <3>. QED BY <3>1, <3>2
  <2>6. (\A i, j \in DOMAIN delivered : i < j => delivered[i][2] < delivered[j][2])'
    <3> SUFFICES ASSUME NEW i \in 1 .. m + 1, NEW j \in 1 .. m + 1, i < j
                 PROVE  delivered'[i][2] < delivered'[j][2]
      BY <1>6
    <3>1. i \in 1 .. m
      BY <1>6
    <3>2. CASE j = m + 1
      <4>1. PICK k \in 1 .. reader.r : delivered[i] = published[k]
        BY <1>6, <2>1, <3>1 DEF ReadingsInv, DrainFollows
      <4>2. k \in 1 .. Len(published) /\ k < reader.r + 1
        BY SMTT(30), <1>2, RingTyped
      <4>3. published[k][2] = k
        BY <4>2, PublishedFacts
      <4>4. delivered'[i] = published[k] /\ delivered'[j] = e
        BY <1>6, <3>1, <3>2, <4>1
      <4>. QED BY <1>5, <4>2, <4>3, <4>4
    <3>3. CASE j # m + 1
      <4>1. j \in 1 .. m
        BY <1>6, <3>3
      <4>2. delivered[i][2] < delivered[j][2]
        BY <1>6, <3>1, <4>1 DEF ReadingsInv, DrainFollows
      <4>. QED BY <1>6, <3>1, <4>1, <4>2
    <3>. QED BY <3>2, <3>3
  <2>. QED BY <2>2, <2>3, <2>4, <2>5, <2>6 DEF DrainFollows
<1>. QED BY <1>8, <1>9, <1>10

LEMMA FinishStep ==
  ASSUME OneThread, ReadingsInv, Readings!Finish
  PROVE  /\ Readings!TypeOK' /\ RingFollows' /\ DrainFollows'
         /\ \A i \in read .. read' - 1 : Delivered(i) \/ Len(published) - i > Size
<1>1. /\ reader.pc = "copy" /\ read' = reader.r /\ reader' = Readings!Quiet
      /\ UNCHANGED <<slots, write, writer, count, published, delivered>>
  BY DEF Readings!Finish, Readings!ReadTo
<1>2. /\ reader'.pc = "rest"
      /\ reader' \in [pc : {"rest", "copy", "half"}, w : 0 .. Word - 1, r : 0 .. Word - 1,
                      n : 0 .. Max, half : Contents]
  BY SMTT(30), <1>1, RingTyped DEF Readings!Quiet, Contents
<1>3. Readings!TypeOK'
  <2>1. read' \in 0 .. Word - 1
    BY <1>1, RingTyped
  <2>. QED
    BY <1>1, <1>2, <2>1
    DEF ReadingsInv, Readings!TypeOK, Readings!Contents, Readings!Events, Readings!Indices, Contents, Events
<1>4. RingFollows'
  BY <1>1 DEF ReadingsInv, RingFollows, InRing, Publishing
<1>5. DrainFollows'
  BY SMTT(30), <1>1, <1>2, RingTyped DEF ReadingsInv, DrainFollows, ReadSoFar
<1>6. \A i \in read .. read' - 1 : Delivered(i) \/ Len(published) - i > Size
  BY <1>1 DEF ReadingsInv, DrainFollows
<1>. QED BY <1>3, <1>4, <1>5, <1>6

(* Both halves together.                                                   *)
LEMMA ReadingsInit ==
  ASSUME Readings!TelemetryInit
  PROVE  ReadingsInv
<1>1. Readings!Bounds
  BY ReadingsAssumption
<1>2. /\ seq = 0 /\ snap = [h \in {"a", "b"} |-> 0] /\ writes = 0 /\ newest = 0
      /\ update = [t \in Writers |-> [pc |-> "rest", s |-> 0, v |-> 0, marked |-> FALSE]]
      /\ frame = [pc |-> "seq1", attempt |-> 1, seq1 |-> 0, out |-> [h \in {"a", "b"} |-> 0],
                  since |-> 0, accepted |-> FALSE]
  BY DEF Readings!TelemetryInit, Readings!Position!Init, Readings!Position!Zero,
     Readings!Position!Fresh, Readings!Position!Halves
<1>3. /\ slots = [i \in 0 .. Size - 1 |-> Empty] /\ write = 0 /\ read = 0
      /\ writer = [t \in Writers |-> [pc |-> "rest", w |-> 0]]
      /\ count = [t \in Writers |-> 0]
      /\ reader = [pc |-> "rest", w |-> 0, r |-> 0, n |-> 0, half |-> Empty]
      /\ published = << >> /\ delivered = << >>
  BY DEF Readings!TelemetryInit, Readings!Init, Readings!Quiet
<1>4. Readings!Position!TypeOK
  BY <1>1, <1>2 DEF Readings!Position!TypeOK, Readings!Position!Halves, Readings!Bounds
<1>5. Readings!TypeOK
  BY <1>1, <1>3 DEF Readings!TypeOK, Readings!Contents, Readings!Events, Readings!Indices,
     Readings!Bounds, Readings!Sizes
<1>6. SnapshotFollows /\ FrameFollows
  BY <1>2 DEF SnapshotFollows, FrameFollows, Updating
<1>7. RingFollows /\ DrainFollows
  BY <1>1, <1>3 DEF RingFollows, DrainFollows, ReadSoFar, Readings!Bounds, Readings!Sizes
<1>. QED BY <1>4, <1>5, <1>6, <1>7 DEF ReadingsInv

LEMMA ReadingsStep ==
  ASSUME OneThread, ReadingsInv, Readings!TelemetryNext
  PROVE  ReadingsInv'
<1>1. ASSUME UNCHANGED Readings!vars
      PROVE  Readings!TypeOK' /\ RingFollows' /\ DrainFollows'
  BY <1>1
  DEF ReadingsInv, Readings!vars, Readings!TypeOK, RingFollows, DrainFollows, InRing, Publishing,
      ReadSoFar, Delivered
<1>2. ASSUME UNCHANGED Readings!position
      PROVE  Readings!Position!TypeOK' /\ SnapshotFollows' /\ FrameFollows'
  BY <1>2
  DEF ReadingsInv, Readings!position, Readings!Position!TypeOK, SnapshotFollows, FrameFollows, Updating
<1>3. CASE \E t \in Writers : Readings!Updates(t)
  <2>1. PICK t \in Writers : Readings!Position!Update(t) /\ UNCHANGED Readings!vars
    BY <1>3 DEF Readings!Updates
  <2>2. Readings!Position!TypeOK' /\ SnapshotFollows' /\ FrameFollows'
    BY <2>1, LoadSeqStep, StoreOddStep, WriteHalfStep, StoreDoneStep DEF Readings!Position!Update
  <2>. QED BY <1>1, <2>1, <2>2 DEF ReadingsInv
<1>4. CASE \E t \in Writers : Readings!Publishes(t)
  <2>1. PICK t \in Writers : Readings!Publish(t) /\ UNCHANGED Readings!position
    BY <1>4 DEF Readings!Publishes
  <2>2. Readings!TypeOK' /\ RingFollows' /\ DrainFollows'
    BY <2>1, BeginStep, FillStep, StoreStep DEF Readings!Publish
  <2>. QED BY <1>2, <2>1, <2>2 DEF ReadingsInv
<1>5. CASE Readings!Looks \/ Readings!NextFrame
  <2>1. /\ UNCHANGED Readings!vars
        /\ Readings!Looks \/ Readings!Position!NextFrame
    BY <1>5 DEF Readings!Looks, Readings!NextFrame
  <2>2. Readings!Position!TypeOK' /\ SnapshotFollows' /\ FrameFollows'
    BY <2>1, LookStep
  <2>. QED BY <1>1, <2>1, <2>2 DEF ReadingsInv
<1>6. CASE Readings!Drains
  <2>1. Readings!Drain /\ UNCHANGED Readings!position
    BY <1>6 DEF Readings!Drains
  <2>2. Readings!TypeOK' /\ RingFollows' /\ DrainFollows'
    BY <2>1, LoadStep, CopyHalfStep, CopyRestStep, FinishStep DEF Readings!Drain
  <2>. QED BY <1>2, <2>1, <2>2 DEF ReadingsInv
<1>. QED BY <1>3, <1>4, <1>5, <1>6 DEF Readings!TelemetryNext

LEMMA ReadingsAlways ==
  ASSUME OneThread
  PROVE  AudioSpec => []ReadingsInv
<1>1. AudioInit => ReadingsInv
  BY ReadingsInit DEF AudioInit
<1>2. ReadingsInv /\ [AudioNext]_<<part, vars, readings>> => ReadingsInv'
  <2>1. ASSUME ReadingsInv, UNCHANGED readings PROVE ReadingsInv'
    BY SMTT(30), <2>1
    DEF ReadingsInv, readings, Readings!TypeOK, RingFollows, DrainFollows, InRing, Publishing,
        ReadSoFar, Delivered, Readings!Position!TypeOK, SnapshotFollows, FrameFollows, Updating
  <2>. QED BY <2>1, ReadingsStep DEF AudioNext
<1>. QED BY <1>1, <1>2, PTL DEF AudioSpec

(* What ReadingsInv says of the window.                                    *)
LEMMA ReadingsInvSound ==
  ASSUME OneThread, ReadingsInv
  PROVE  ReadingsSound
<1>1. Readings!OnlyWholeEvents
  <2> SUFFICES ASSUME NEW i \in DOMAIN delivered
               PROVE  \E j \in DOMAIN published : delivered[i] = published[j]
    BY DEF Readings!OnlyWholeEvents
  <2>1. PICK j \in 1 .. ReadSoFar : delivered[i] = published[j]
    BY DEF ReadingsInv, DrainFollows
  <2>2. ReadSoFar <= Len(published) /\ ReadSoFar \in Int
    BY RingTyped DEF ReadingsInv, DrainFollows, ReadSoFar
  <2>. QED BY SMTT(30), <2>1, <2>2, RingTyped
<1>2. Readings!InOrder
  BY DEF ReadingsInv, DrainFollows, Readings!InOrder
<1>3. Readings!Position!EvenAtRest
  <2>1. newest \in Nat
    BY ReadingsAssumption DEF ReadingsInv, Readings!Position!TypeOK, Readings!Bounds
  <2>. QED
    BY <2>1, Parity DEF ReadingsInv, SnapshotFollows, Updating, Readings!Position!EvenAtRest, Readings!Position!Odd
<1>4. Readings!Position!AcceptedWhole
  BY DEF ReadingsInv, FrameFollows, Readings!Position!AcceptedWhole
<1>5. Readings!Position!AcceptedFresh
  <2>1. frame.since \in Int
    BY DEF ReadingsInv, Readings!Position!TypeOK
  <2>. QED
    BY <2>1 DEF ReadingsInv, FrameFollows, Readings!Position!AcceptedFresh, Readings!Position!Halves
<1>. QED
  BY <1>1, <1>2, <1>3, <1>4, <1>5
  DEF ReadingsInv, ReadingsSound, Readings!ReadingsSound, Readings!AcceptedSound

(* When there is one thread on the audio side (see OneThread), every event *)
(* the window drains is one that was published, whole, each once and in    *)
(* order, and every snapshot a frame accepts is of one write and no older  *)
(* than the newest when the attempt began (telemetry.c, player.c).         *)
THEOREM ReadingsAlwaysSound ==
  ASSUME OneThread
  PROVE  AudioSpec => []ReadingsSound
<1>1. ReadingsInv => ReadingsSound
  BY ReadingsInvSound
<1>2. AudioSpec => []ReadingsInv
  BY ReadingsAlways
<1>. QED BY <1>1, <1>2, PTL

(* Then a drain passes over an event only when the ring overflowed past    *)
(* it; what did not fit into the view's buffer is kept for the next drain  *)
(* (audio_pipeline_get_events).                                            *)
THEOREM DrainsSkipOnlyOverwritten ==
  ASSUME OneThread
  PROVE  AudioSpec => SkipsOnlyOverwritten
<1>1. ASSUME ReadingsInv, [AudioNext]_<<part, vars, readings>>
      PROVE  [\A n \in read .. read' - 1 :
                 \/ \E i \in DOMAIN delivered : delivered[i] = published[n + 1]
                 \/ Readings!Total - n > Size]_(Readings!vars)
  <2>1. CASE UNCHANGED read
    <3>1. \A n \in read .. read' - 1 : FALSE
      BY SMTT(30), <1>1, <2>1, RingTyped
    <3>. QED BY <3>1
  <2>2. CASE ~UNCHANGED read
    <3>1. Readings!Finish
      BY <1>1, <2>2
      DEF AudioNext, readings, Readings!TelemetryNext, Readings!Updates, Readings!Publishes,
          Readings!Publish, Readings!Begin, Readings!Fill, Readings!Store, Readings!Looks,
          Readings!NextFrame, Readings!Drains, Readings!Drain, Readings!Load, Readings!CopyHalf,
          Readings!CopyRest, Readings!vars
    <3>2. \A i \in read .. read' - 1 : Delivered(i) \/ Len(published) - i > Size
      BY <1>1, <3>1, FinishStep
    <3>. QED BY <3>2 DEF Delivered, Readings!Total
  <2>. QED BY <2>1, <2>2
<1>2. AudioSpec => []ReadingsInv
  BY ReadingsAlways
<1>. QED BY <1>1, <1>2, PTL DEF AudioSpec, SkipsOnlyOverwritten, Readings!SkipsOnlyOverwritten
=============================================================================
