-------------------------- MODULE StreamLifecycle --------------------------
(***************************************************************************)
(* The output stream of one player (player.c, and the routing and          *)
(* transport half of pipeline.c): created when a device is chosen,         *)
(* reconnected after an error, torn down when the error persists.          *)
(*                                                                         *)
(* Four kinds of threads meet here.  The PipeWire loop reports the         *)
(* stream's state, holding the loop lock.  The RT callback ends a track.   *)
(* The main thread runs the transport, the settings handlers and the idle  *)
(* callbacks on_state_changed queues.  Device and quantum changes are      *)
(* dispatched to pool threads (device_settings.c) that wait for the loop   *)
(* lock.  A section under the lock that no lock-free reader can look into  *)
(* is one step; player_recreate_stream, whose loads and stores the         *)
(* transport races with, is four.  The monitor stream is created and       *)
(* destroyed with the output stream and is left out.                       *)
(***************************************************************************)
EXTENDS Integers, Sequences, TLC

CONSTANTS
    Devices,        \* output devices
    NoDevice,       \* the empty target_device
    Quanta,         \* quantum sizes set_player_quantum accepts
    InitQuantum,    \* APP_SETTINGS_DEFAULT_QUANTUM
    Workers,        \* threads of the GTask pool
    None,           \* no holder of the loop lock, no operation
    Refusing,       \* devices on which pw_stream_connect may return an error
    MaxInputs       \* bound: commands of the user and errors of the stream, together

ASSUME DeviceAssumption == NoDevice \notin Devices
ASSUME QuantumAssumption == InitQuantum \in Quanta
ASSUME NoneAssumption == None \notin Workers
ASSUME BoundAssumption == MaxInputs \in Nat
ASSUME ConnectAssumption == Refusing \subseteq Devices

\* Pool threads and devices are interchangeable.
Symmetry == Permutations(Workers) \cup Permutations(Devices)

VARIABLES
    state,          \* p->state
    stream,         \* p->stream: its device, quantum, exclusive flag and connection
    target,         \* p->target_device
    quantum,        \* p->quantum_frames
    exclusive,      \* p->exclusive
    streamsActive,  \* p->streams_active
    deviceError,    \* p->device_error
    attempted,      \* p->reconnect_attempted
    generation,     \* p->stream_generation
    idles,          \* idle callbacks on the main context, oldest first
    main,           \* where the main thread is in play or in an idle callback
    ops,            \* dispatched device and quantum operations no worker has taken
    worker,         \* per pool thread: its operation and where it is in it
    lock,           \* the pool thread inside a long section under the loop lock
    settings,       \* the device last dispatched for the channel
    asked,          \* the last transport command of the user that was accepted
    destroyed,      \* audio_pipeline_destroy has run
    inputs          \* commands and stream errors so far

player == <<state, stream, target, quantum, exclusive, streamsActive, deviceError, attempted,
            generation>>
threads == <<idles, main, ops, worker, lock>>
user == <<settings, asked, destroyed, inputs>>
vars == <<player, threads, user>>

States == {"STOPPED", "PLAYING", "PAUSED"}
\* "ready" stands for CONNECTING and PAUSED, "unconnected" for a stream whose
\* reconnect was refused.
Conns == {"none", "ready", "streaming", "error", "unconnected"}
NoStream == [dev |-> NoDevice, quantum |-> InitQuantum, excl |-> FALSE, conn |-> "none",
             active |-> FALSE]
Up == stream.conn # "none"
AtRest == [pc |-> "rest", gen |-> 0]
\* PipelineOpTask: of the two arguments the operation uses one.
Operations == [what : {"device", "quantum"}, dev : Devices \cup {NoDevice}, quantum : Quanta]
Resting == [pc |-> "rest", op |-> None, prev |-> "STOPPED"]
LockFree == lock = None

TypeOK ==
    /\ state \in States
    /\ stream \in [dev : Devices \cup {NoDevice}, quantum : Quanta, excl : BOOLEAN, conn : Conns,
                   active : BOOLEAN]
    /\ target \in Devices \cup {NoDevice}
    /\ quantum \in Quanta
    /\ exclusive \in BOOLEAN
    /\ streamsActive \in BOOLEAN
    /\ deviceError \in BOOLEAN
    /\ attempted \in BOOLEAN
    /\ generation \in Nat
    /\ idles \in Seq([what : {"reconnect", "deactivate"}, gen : Nat])
    /\ main \in [pc : {"rest", "play", "activate", "reconnect", "deactivate"}, gen : Nat]
    /\ ops \in Seq(Operations)
    /\ worker \in [Workers -> [pc : {"rest", "check", "lock", "teardown", "create", "restore"},
                               op : Operations \cup {None}, prev : States]]
    /\ lock \in Workers \cup {None}
    /\ settings \in Devices \cup {NoDevice}
    /\ asked \in States
    /\ destroyed \in BOOLEAN
    /\ inputs \in 0 .. MaxInputs

\* player_init: a player starts dormant.
Init ==
    /\ state = "STOPPED"
    /\ stream = NoStream
    /\ target = NoDevice
    /\ quantum = InitQuantum
    /\ exclusive = FALSE
    /\ streamsActive = FALSE
    /\ deviceError = FALSE
    /\ attempted = FALSE
    /\ generation = 0
    /\ idles = <<>>
    /\ main = AtRest
    /\ ops = <<>>
    /\ worker = [w \in Workers |-> Resting]
    /\ lock = None
    /\ settings = NoDevice
    /\ asked = "STOPPED"
    /\ destroyed = FALSE
    /\ inputs = 0

-----------------------------------------------------------------------------
(* PipeWire: on_state_changed, and the end of a track in the RT callback.  *)

Input == inputs < MaxInputs /\ inputs' = inputs + 1

QueueIdle(what) == idles' = Append(idles, [what |-> what, gen |-> generation])

\* The first error of a cycle asks for a reconnect, the second gives up.
PwError ==
    /\ LockFree
    /\ stream.conn \in {"ready", "streaming"}
    /\ Input
    /\ deviceError' = TRUE
    /\ stream' = [stream EXCEPT !.conn = "error", !.active = FALSE]
    /\ attempted' = TRUE
    /\ QueueIdle(IF attempted THEN "deactivate" ELSE "reconnect")
    /\ UNCHANGED <<state, target, quantum, exclusive, streamsActive, generation, main, ops, worker,
                   lock, settings, asked, destroyed>>

\* An active stream runs; one in error that is made active again may recover.
PwStreaming ==
    /\ LockFree
    /\ stream.conn \in {"ready", "error"}
    /\ stream.active
    /\ stream' = [stream EXCEPT !.conn = "streaming"]
    /\ deviceError' = FALSE
    /\ attempted' = FALSE
    /\ UNCHANGED <<state, target, quantum, exclusive, streamsActive, generation, threads, user>>

PwPaused ==
    /\ LockFree
    /\ stream.conn = "streaming"
    /\ ~stream.active
    /\ stream' = [stream EXCEPT !.conn = "ready"]
    /\ UNCHANGED <<state, target, quantum, exclusive, streamsActive, deviceError, attempted,
                   generation, threads, user>>

\* on_track_end finds nothing to follow.  The RT callback takes no lock.
EndOfTrack ==
    /\ stream.conn = "streaming"
    /\ state = "PLAYING"
    /\ state' = "STOPPED"
    /\ UNCHANGED <<stream, target, quantum, exclusive, streamsActive, deviceError, attempted,
                   generation, threads, user>>

-----------------------------------------------------------------------------
(* The main thread: transport.                                             *)

Command ==
    /\ main = AtRest
    /\ ~destroyed
    /\ Input

\* audio_pipeline_player_play: refused on a dormant player...
PlayCheck ==
    /\ Command
    /\ streamsActive
    /\ main' = [main EXCEPT !.pc = "play"]
    /\ UNCHANGED <<player, idles, ops, worker, lock, settings, asked, destroyed>>

\* ...STOPPED or PAUSED becomes PLAYING, without the lock...
PlayStart ==
    /\ main.pc = "play"
    /\ asked' = "PLAYING"
    /\ state' = "PLAYING"
    /\ main' = IF state = "PLAYING" THEN AtRest ELSE [main EXCEPT !.pc = "activate"]
    /\ UNCHANGED <<stream, target, quantum, exclusive, streamsActive, deviceError, attempted,
                   generation, idles, ops, worker, lock, settings, destroyed, inputs>>

\* ...and the stream is scheduled again, under it.
PlayActivate ==
    /\ main.pc = "activate"
    /\ LockFree
    /\ stream' = IF Up THEN [stream EXCEPT !.active = TRUE] ELSE stream
    /\ main' = AtRest
    /\ UNCHANGED <<state, target, quantum, exclusive, streamsActive, deviceError, attempted,
                   generation, idles, ops, worker, lock, user>>

\* audio_pipeline_player_toggle_play while PLAYING.
Pause ==
    /\ Command
    /\ state = "PLAYING"
    /\ state' = "PAUSED"
    /\ asked' = "PAUSED"
    /\ UNCHANGED <<stream, target, quantum, exclusive, streamsActive, deviceError, attempted,
                   generation, threads, settings, destroyed>>

\* Fault: stop does not wait for the loop lock.
StopGuardNone == TRUE

StopGuard == LockFree

\* audio_pipeline_player_stop, all of it under the lock.
Stop ==
    /\ Command
    /\ StopGuard
    /\ state' = "STOPPED"
    /\ asked' = "STOPPED"
    /\ stream' = IF state # "STOPPED" /\ Up THEN [stream EXCEPT !.active = FALSE] ELSE stream
    /\ UNCHANGED <<target, quantum, exclusive, streamsActive, deviceError, attempted, generation,
                   threads, settings, destroyed>>

-----------------------------------------------------------------------------
(* The main thread: settings handlers, which dispatch to the pool.         *)

DeviceOp(d) == [what |-> "device", dev |-> d, quantum |-> InitQuantum]
QuantumOp(q) == [what |-> "quantum", dev |-> NoDevice, quantum |-> q]
Dispatch(s) == ops' = ops \o s

\* on_device_changed.
SelectDevice(d) ==
    /\ Command
    /\ settings' = d
    /\ Dispatch(<<DeviceOp(d)>>)
    /\ UNCHANGED <<player, idles, main, worker, lock, asked, destroyed>>

\* on_quantum_changed.
SelectQuantum(q) ==
    /\ Command
    /\ Dispatch(<<QuantumOp(q)>>)
    /\ UNCHANGED <<player, idles, main, worker, lock, settings, asked, destroyed>>

\* on_exclusive_toggled: the flag, then the saved device once more.
ToggleExclusive ==
    /\ Command
    /\ exclusive' = ~exclusive
    /\ Dispatch(IF settings = NoDevice THEN <<>> ELSE <<DeviceOp(settings)>>)
    /\ UNCHANGED <<state, stream, target, quantum, streamsActive, deviceError, attempted,
                   generation, idles, main, worker, lock, settings, asked, destroyed>>

\* device_enum_done after a hot-plug: the saved device, or none while it is
\* unplugged, and the saved quantum.
Enumerated(found, q) ==
    /\ Command
    /\ settings # NoDevice
    /\ Dispatch(<<DeviceOp(IF found THEN settings ELSE NoDevice), QuantumOp(q)>>)
    /\ UNCHANGED <<player, idles, main, worker, lock, settings, asked, destroyed>>

\* audio_pipeline_player_reconnect, from the performance view.
AskReconnect ==
    /\ Command
    /\ QueueIdle("reconnect")
    /\ UNCHANGED <<player, main, ops, worker, lock, settings, asked, destroyed>>

-----------------------------------------------------------------------------
(* player_deactivate_streams; pw_stream_connect.                           *)

ActiveAfter == FALSE

\* Fault: device_error keeps its value.
ErrorAfterKept == deviceError

ErrorAfter == FALSE

Deactivated ==
    IF ~streamsActive /\ ~Up
    THEN UNCHANGED <<state, stream, deviceError, streamsActive, attempted>>
    ELSE /\ state' = "STOPPED"
         /\ stream' = NoStream
         /\ deviceError' = ErrorAfter
         /\ streamsActive' = ActiveAfter
         /\ attempted' = FALSE

ConnectResults == {TRUE} \cup (IF target \in Refusing THEN {FALSE} ELSE {})

-----------------------------------------------------------------------------
(* The main thread: idle callbacks.                                        *)

Due(what) == main = AtRest /\ ~destroyed /\ idles # <<>> /\ Head(idles).what = what

\* Fault: the comparison is the wrong way round.
StillCurrentOlder(gen) == gen < generation

StillCurrent(gen) == gen = generation

\* player_reconnect_idle up to the lock.
ReconnectCheck ==
    /\ Due("reconnect")
    /\ idles' = Tail(idles)
    /\ main' = IF StillCurrent(Head(idles).gen) /\ deviceError
               THEN [pc |-> "reconnect", gen |-> Head(idles).gen] ELSE AtRest
    /\ UNCHANGED <<player, ops, worker, lock, user>>

\* Under the lock: disconnect and connect with the cached parameters.
Reconnect ==
    /\ main.pc = "reconnect"
    /\ LockFree
    /\ main' = AtRest
    /\ IF Up
       THEN \E ok \in ConnectResults :
               stream' = IF ok THEN [stream EXCEPT !.conn = "ready", !.active = TRUE]
                               ELSE [stream EXCEPT !.conn = "unconnected", !.active = FALSE]
       ELSE UNCHANGED stream
    /\ UNCHANGED <<state, target, quantum, exclusive, streamsActive, deviceError, attempted,
                   generation, idles, ops, worker, lock, user>>

\* player_deactivate_idle up to the lock.
DeactivateCheck ==
    /\ Due("deactivate")
    /\ idles' = Tail(idles)
    /\ main' = IF StillCurrent(Head(idles).gen)
               THEN [pc |-> "deactivate", gen |-> Head(idles).gen] ELSE AtRest
    /\ UNCHANGED <<player, ops, worker, lock, user>>

Deactivate ==
    /\ main.pc = "deactivate"
    /\ LockFree
    /\ main' = AtRest
    /\ Deactivated
    /\ UNCHANGED <<target, quantum, exclusive, generation, idles, ops, worker, lock, user>>

\* audio_pipeline_destroy from on_shutdown, when the last window has gone.
Destroy ==
    /\ main = AtRest
    /\ LockFree
    /\ ~destroyed
    /\ destroyed' = TRUE
    /\ stream' = NoStream
    /\ UNCHANGED <<state, target, quantum, exclusive, streamsActive, deviceError, attempted,
                   generation, threads, settings, asked, inputs>>

-----------------------------------------------------------------------------
(* The pool threads: set_player_device and set_player_quantum, each with   *)
(* player_recreate_stream.                                                 *)

InWorker(w, label) == worker[w].pc = label /\ ~destroyed
Step(w, label) == worker' = [worker EXCEPT ![w].pc = label]
Finish(w) == worker' = [worker EXCEPT ![w] = Resting]
IsDevice(op) == op.what = "device"

\* The pool hands out operations in order; the threads then run as they may.
Take(w) ==
    /\ worker[w] = Resting
    /\ ops # <<>>
    /\ ops' = Tail(ops)
    /\ worker' = [worker EXCEPT ![w].op = Head(ops),
                                ![w].pc = IF IsDevice(Head(ops)) THEN "check" ELSE "lock"]
    /\ UNCHANGED <<player, idles, main, lock, user>>

\* The lock-free early return for a device the streams are already on.
CheckDevice(w) ==
    /\ InWorker(w, "check")
    /\ IF streamsActive /\ target = worker[w].op.dev THEN Finish(w) ELSE Step(w, "lock")
    /\ UNCHANGED <<player, idles, main, ops, lock, user>>

\* Fault: the loop lock is not taken.
EnterGuardNone == TRUE

EnterGuard == LockFree

\* Under the lock: the state to restore is loaded, pending idles made stale.
Enter(w) ==
    /\ InWorker(w, "lock")
    /\ EnterGuard
    /\ IsDevice(worker[w].op) \/ worker[w].op.quantum # quantum
    /\ lock' = w
    /\ quantum' = IF IsDevice(worker[w].op) THEN quantum ELSE worker[w].op.quantum
    /\ generation' = generation + 1
    /\ worker' = [worker EXCEPT ![w].pc = "teardown", ![w].prev = state]
    /\ UNCHANGED <<state, stream, target, exclusive, streamsActive, deviceError, attempted, idles,
                   main, ops, user>>

SameQuantum(w) ==
    /\ InWorker(w, "lock")
    /\ LockFree
    /\ ~IsDevice(worker[w].op)
    /\ worker[w].op.quantum = quantum
    /\ Finish(w)
    /\ UNCHANGED <<player, idles, main, ops, lock, user>>

NewTarget(op) == IF IsDevice(op) THEN op.dev ELSE target

\* With no device the player stays dormant.
TearDown(w) ==
    /\ InWorker(w, "teardown")
    /\ Deactivated
    /\ target' = NewTarget(worker[w].op)
    /\ IF target' = NoDevice THEN Finish(w) /\ lock' = None
                             ELSE Step(w, "create") /\ UNCHANGED lock
    /\ UNCHANGED <<quantum, exclusive, generation, idles, main, ops, user>>

\* player_activate_streams.
Create(w) ==
    /\ InWorker(w, "create")
    /\ stream' = [dev |-> target, quantum |-> quantum, excl |-> exclusive, conn |-> "ready",
                  active |-> TRUE]
    /\ streamsActive' = TRUE
    /\ attempted' = FALSE
    /\ deviceError' = FALSE
    /\ Step(w, "restore")
    /\ UNCHANGED <<state, target, quantum, exclusive, generation, idles, main, ops, lock, user>>

\* pw_stream_new or pw_stream_connect fails; the half-made stream is destroyed.
CreateFails(w) ==
    /\ InWorker(w, "create")
    /\ target \in Refusing
    /\ Finish(w)
    /\ lock' = None
    /\ UNCHANGED <<player, idles, main, ops, user>>

Restore(w) ==
    /\ InWorker(w, "restore")
    /\ state' = IF worker[w].prev = "STOPPED" THEN state ELSE worker[w].prev
    /\ Finish(w)
    /\ lock' = None
    /\ UNCHANGED <<stream, target, quantum, exclusive, streamsActive, deviceError, attempted,
                   generation, idles, main, ops, user>>

-----------------------------------------------------------------------------
PipeWire == PwError \/ PwStreaming \/ PwPaused \/ EndOfTrack
Transport == PlayCheck \/ PlayStart \/ PlayActivate \/ Pause \/ Stop
Handlers ==
    \/ \E d \in Devices \cup {NoDevice} : SelectDevice(d)
    \/ \E q \in Quanta : SelectQuantum(q)
    \/ ToggleExclusive
    \/ \E found \in BOOLEAN, q \in Quanta : Enumerated(found, q)
    \/ AskReconnect
IdleCallbacks == ReconnectCheck \/ Reconnect \/ DeactivateCheck \/ Deactivate
Worker(w) == \/ Take(w) \/ CheckDevice(w) \/ Enter(w) \/ SameQuantum(w) \/ TearDown(w)
             \/ Create(w) \/ CreateFails(w) \/ Restore(w)

Next == \/ PipeWire \/ Transport \/ Handlers \/ IdleCallbacks \/ Destroy
        \/ \E w \in Workers : Worker(w)

Spec == Init /\ [][Next]_vars

\* The main loop and the pool threads run; PipeWire reports the state a
\* connected stream reaches.
FairSpec ==
    /\ Spec
    /\ WF_vars(IdleCallbacks)
    /\ WF_vars(PlayStart \/ PlayActivate)
    /\ WF_vars(PwStreaming)
    /\ \A w \in Workers : WF_vars(Worker(w))

-----------------------------------------------------------------------------
(* Properties.                                                             *)

\* streams_active, the flag play and set_player_device read without the lock,
\* says whether there is a stream whenever the lock is free
\* (player_activate_streams, player_deactivate_streams).
FlagAgrees == LockFree /\ ~destroyed => (streamsActive <=> Up)

\* A stream is always on the device and with the quantum the player holds:
\* no order of device and quantum changes leaves it behind (player_recreate_stream).
StreamFollowsSettings ==
    LockFree /\ Up => stream.dev = target /\ stream.quantum = quantum

\* device_error is up while the stream is in error and down on a running or a
\* dormant player, across reconnects, retargeting and teardown.
ErrorFlagAgrees ==
    LockFree /\ ~destroyed => /\ stream.conn = "error" => deviceError
                              /\ deviceError => Up /\ stream.conn # "streaming"

\* At every moment the loop lock is free the two flags that are read without
\* it tell the truth about the stream, in whatever order errors, reconnects,
\* retargeting and teardown came.
FlagsAgree == TypeOK /\ FlagAgrees /\ ErrorFlagAgrees

\* A stop is final: neither a recreate under way nor the restore of the
\* previous state lets a stopped player run again (audio_pipeline_player_stop
\* takes the lock, player_recreate_stream loads the state under it).
StopSticks == asked = "STOPPED" => state = "STOPPED"

\* On a device that accepts its connects, a stream in error is reconnected,
\* torn down or replaced, and a reconnect gets somewhere (player_reconnect_idle:
\* "state_changed callback will clear device_error when STREAMING").
ErrorResolved ==
    deviceError /\ state # "STOPPED" /\ target \notin Refusing
        ~> ~deviceError \/ state = "STOPPED" \/ destroyed \/ target \in Refusing
=============================================================================
