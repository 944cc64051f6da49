----------------------- MODULE StreamLifecycleProofs -----------------------
(***************************************************************************)
(* Theorems about StreamLifecycle, for any number of devices, quanta and   *)
(* pool threads, and however many commands and errors there are.           *)
(*                                                                         *)
(* The flags are stated for the moments at which the loop lock is free.    *)
(* The induction needs to know what holds while a recreate has the lock:   *)
(* who that is (LockHeld), that nothing is up between teardown and         *)
(* creation (TornDown), and that a recreate remembers STOPPED when the     *)
(* user has stopped the player (StopRemembered).                           *)
(***************************************************************************)
EXTENDS StreamLifecycle, TLAPS

Holding == {"teardown", "create", "restore"}

\* A thread that is not at rest has an operation.
HasOperation == \A w \in Workers : worker[w].pc # "rest" => worker[w].op \in Operations

\* The sections of a recreate are those of the thread that has the loop lock.
LockHeld == \A w \in Workers : worker[w].pc \in Holding <=> lock = w

\* Between teardown and creation there is no stream.
TornDown == \A w \in Workers : worker[w].pc = "create" => ~Up

\* The flags agree with the stream, also in the middle of a recreate: each of
\* its sections changes both.
FlagsTrue ==
    ~destroyed => /\ streamsActive <=> Up
                  /\ stream.conn = "error" => deviceError
                  /\ deviceError => Up /\ stream.conn # "streaming"

\* Only a recreate that has not yet torn the old stream down lets it lag behind.
Follows ==
    Up => \/ stream.dev = target /\ stream.quantum = quantum
          \/ \E w \in Workers : worker[w].pc = "teardown"

\* What a recreate will restore is no newer than the last stop.
StopRemembered ==
    asked = "STOPPED" =>
        /\ state = "STOPPED"
        /\ \A w \in Workers : worker[w].pc \in Holding => worker[w].prev = "STOPPED"

FlagInv == LockHeld /\ TornDown /\ FlagsTrue /\ Follows /\ StopRemembered

IInv == TypeOK /\ HasOperation /\ FlagInv

-----------------------------------------------------------------------------
(* What an assignment to a field of the stream or of a thread's record     *)
(* leaves of its type.                                                     *)

Streams == [dev : Devices \cup {NoDevice}, quantum : Quanta, excl : BOOLEAN, conn : Conns,
            active : BOOLEAN]

\* Setting the connection, the active flag, or both.
LEMMA ConnSet ==
    ASSUME stream \in Streams, NEW c \in Conns, NEW a \in BOOLEAN
    PROVE  /\ [stream EXCEPT !.conn = c, !.active = a] \in Streams
           /\ [stream EXCEPT !.conn = c] \in Streams
           /\ [stream EXCEPT !.active = a] \in Streams
BY DEF Streams

\* The absent stream is a stream record.
LEMMA NoStreamType == NoStream \in Streams
BY QuantumAssumption DEF Streams, NoStream, Conns

PCs == {"rest", "check", "lock", "teardown", "create", "restore"}
Contexts == [Workers -> [pc : PCs, op : Operations \cup {None}, prev : States]]

\* Moving a thread on, remembering the state to restore, and coming to rest.
LEMMA ContextSet ==
    ASSUME worker \in Contexts, NEW w \in Workers, NEW pc \in PCs, NEW prev \in States
    PROVE  /\ [worker EXCEPT ![w].pc = pc] \in Contexts
           /\ [worker EXCEPT ![w].pc = pc, ![w].prev = prev] \in Contexts
           /\ [worker EXCEPT ![w] = Resting] \in Contexts
BY DEF Contexts, Resting, PCs, States

\* Every step keeps the types, and a thread at work has an operation.
LEMMA TypeStep ==
    ASSUME TypeOK, HasOperation, [Next]_vars
    PROVE  TypeOK' /\ HasOperation'
<1> USE DeviceAssumption, QuantumAssumption, NoneAssumption, BoundAssumption
    DEF TypeOK, HasOperation, player, threads, user, Operations, States, Conns, AtRest, LockFree, Up
<1>1. CASE PwError
  <2>1. stream' \in Streams
    BY <1>1, ConnSet DEF PwError, Conns, Streams
  <2> QED
    BY <1>1, <2>1 DEF PwError, Input, QueueIdle, Streams
<1>2. CASE PwStreaming
  BY ZenonT(60), <1>2 DEF PwStreaming
<1>3. CASE PwPaused
  <2>1. stream' \in Streams
    BY <1>3, ConnSet DEF PwPaused, Conns, Streams
  <2> QED
    BY <1>3, <2>1 DEF PwPaused, Streams
<1>4. CASE EndOfTrack
  BY <1>4 DEF EndOfTrack
<1>5. CASE PlayCheck
  BY <1>5 DEF PlayCheck, Command, Input
<1>6. CASE PlayStart
  BY <1>6 DEF PlayStart
<1>7. CASE PlayActivate
  <2>1. stream' \in Streams
    BY <1>7, ConnSet DEF PlayActivate, Conns, Streams
  <2> QED
    BY <1>7, <2>1 DEF PlayActivate, Streams
<1>8. CASE Pause
  BY <1>8 DEF Pause, Command, Input
<1>9. CASE Stop
  <2>1. stream' \in Streams
    BY <1>9, ConnSet DEF Stop, Conns, Streams
  <2> QED
    BY <1>9, <2>1 DEF Stop, Command, Input, Streams
<1>10. ASSUME NEW d \in Devices \cup {NoDevice}, SelectDevice(d)
      PROVE  TypeOK' /\ HasOperation'
  BY <1>10 DEF SelectDevice, Command, Input, Dispatch, DeviceOp
<1>11. ASSUME NEW q \in Quanta, SelectQuantum(q)
      PROVE  TypeOK' /\ HasOperation'
  BY <1>11 DEF SelectQuantum, Command, Input, Dispatch, QuantumOp
<1>12. CASE ToggleExclusive
  <2>1. DeviceOp(settings) \in Operations
    BY DEF DeviceOp
  <2>2. CASE settings = NoDevice
    <3>1. ops' = ops \o <<>>
      BY <1>12, <2>2 DEF ToggleExclusive, Dispatch
    <3> QED
      BY <1>12, <3>1 DEF ToggleExclusive, Command, Input
  <2>3. CASE settings # NoDevice
    <3>1. ops' = ops \o <<DeviceOp(settings)>>
      BY <1>12, <2>3 DEF ToggleExclusive, Dispatch
    <3>2. ops' \in Seq(Operations)
      BY <2>1, <3>1
    <3> QED
      BY <1>12, <3>2 DEF ToggleExclusive, Command, Input
  <2> QED
    BY <2>2, <2>3
<1>13. ASSUME NEW found \in BOOLEAN, NEW q \in Quanta, Enumerated(found, q)
      PROVE  TypeOK' /\ HasOperation'
  BY <1>13 DEF Enumerated, Command, Input, Dispatch, DeviceOp, QuantumOp
<1>14. CASE AskReconnect
  BY <1>14 DEF AskReconnect, Command, Input, QueueIdle
<1>15. CASE ReconnectCheck
  BY <1>15 DEF ReconnectCheck, Due, StillCurrent
<1>16. CASE Reconnect
  <2>1. ASSUME NEW ok,
               stream' = IF ok THEN [stream EXCEPT !.conn = "ready", !.active = TRUE]
                               ELSE [stream EXCEPT !.conn = "unconnected", !.active = FALSE]
        PROVE  stream' \in Streams
    BY <2>1, ConnSet DEF Conns, Streams
  <2>2. stream' \in Streams
    BY <1>16, <2>1 DEF Reconnect, Streams
  <2> QED
    BY <1>16, <2>2 DEF Reconnect, Streams
<1>17. CASE DeactivateCheck
  BY <1>17 DEF DeactivateCheck, Due, StillCurrent
<1>18. CASE Deactivate
  <2>1. stream' \in Streams
    BY <1>18, NoStreamType DEF Deactivate, Deactivated, Streams
  <2> QED
    BY ZenonT(60), <1>18, <2>1 DEF Deactivate, Deactivated, Streams, ErrorAfter, ActiveAfter
<1>19. CASE Destroy
  BY <1>19 DEF Destroy, NoStream
<1>20. ASSUME NEW w \in Workers, Take(w)
      PROVE  TypeOK' /\ HasOperation'
  BY <1>20 DEF Take, IsDevice, Resting
<1>21. ASSUME NEW w \in Workers, CheckDevice(w)
      PROVE  TypeOK' /\ HasOperation'
  BY SMTT(30), <1>21 DEF CheckDevice, InWorker, Step, Finish, Resting
<1>22. ASSUME NEW w \in Workers, Enter(w)
      PROVE  TypeOK' /\ HasOperation'
  <2>1. worker' \in Contexts
    BY <1>22, ContextSet DEF Enter, Contexts, PCs
  <2>2. HasOperation'
    BY <1>22 DEF Enter, InWorker
  <2>3. quantum' \in Quanta
    BY <1>22 DEF Enter, InWorker
  <2> QED
    BY <1>22, <2>1, <2>2, <2>3 DEF Enter, Contexts, PCs
<1>23. ASSUME NEW w \in Workers, SameQuantum(w)
      PROVE  TypeOK' /\ HasOperation'
  BY <1>23 DEF SameQuantum, InWorker, Finish, Resting, IsDevice
<1>24. ASSUME NEW w \in Workers, TearDown(w)
      PROVE  TypeOK' /\ HasOperation'
  <2>1. stream' \in Streams
    BY <1>24, NoStreamType DEF TearDown, Deactivated, Streams
  <2>2. target' \in Devices \cup {NoDevice}
    BY <1>24 DEF TearDown, NewTarget, InWorker
  <2>3. worker' = [worker EXCEPT ![w] = Resting] \/ worker' = [worker EXCEPT ![w].pc = "create"]
    BY <1>24 DEF TearDown, Step, Finish
  <2>4. worker' \in Contexts /\ HasOperation'
    <3>1. CASE worker' = [worker EXCEPT ![w] = Resting]
      BY ZenonT(60), <3>1, ContextSet DEF Resting, Contexts, PCs
    <3>2. CASE worker' = [worker EXCEPT ![w].pc = "create"]
      <4>1. worker' \in Contexts
        BY <3>2, ContextSet DEF Contexts, PCs
      <4>2. worker[w].op \in Operations
        BY <1>24 DEF TearDown, InWorker
      <4> QED
        BY <3>2, <4>1, <4>2 DEF Contexts, PCs
    <3> QED
      BY <2>3, <3>1, <3>2
  <2>5. /\ UNCHANGED <<quantum, exclusive, generation, idles, main, ops, user>>
        /\ lock' \in Workers \cup {None}
    BY <1>24 DEF TearDown
  <2>6. /\ state' \in States /\ deviceError' \in BOOLEAN
        /\ streamsActive' \in BOOLEAN /\ attempted' \in BOOLEAN
    BY <1>24 DEF TearDown, Deactivated, ErrorAfter, ActiveAfter
  <2> QED
    BY <2>1, <2>2, <2>4, <2>5, <2>6 DEF Streams, Contexts, PCs
<1>25. ASSUME NEW w \in Workers, Create(w)
      PROVE  TypeOK' /\ HasOperation'
  <2>1. stream' \in Streams
    BY <1>25 DEF Create, Streams
  <2>2. worker' \in Contexts
    BY <1>25, ContextSet DEF Create, Step, Contexts, PCs
  <2>3. HasOperation'
    BY <1>25 DEF Create, Step, InWorker
  <2> QED
    BY ZenonT(60), <1>25, <2>1, <2>2, <2>3 DEF Create, Streams, Contexts, PCs
<1>26. ASSUME NEW w \in Workers, CreateFails(w)
      PROVE  TypeOK' /\ HasOperation'
  BY <1>26 DEF CreateFails, InWorker, Finish, Resting
<1>27. ASSUME NEW w \in Workers, Restore(w)
      PROVE  TypeOK' /\ HasOperation'
  BY <1>27 DEF Restore, InWorker, Finish, Resting
<1>28. CASE UNCHANGED vars
  BY <1>28 DEF vars
<1> QED
  BY <1>1, <1>2, <1>3, <1>4, <1>5, <1>6, <1>7, <1>8, <1>9, <1>10,
     <1>11, <1>12, <1>13, <1>14, <1>15, <1>16, <1>17, <1>18, <1>19, <1>20,
     <1>21, <1>22, <1>23, <1>24, <1>25, <1>26, <1>27, <1>28
  DEF Next, PipeWire, Transport, Handlers, IdleCallbacks, Worker

\* Every step keeps what the flags, the stream and the memory of a recreate say.
LEMMA FlagStep ==
    ASSUME IInv, [Next]_vars
    PROVE  FlagInv'
<1> USE DeviceAssumption, QuantumAssumption, NoneAssumption
    DEF IInv, FlagInv, TypeOK, HasOperation, LockHeld, TornDown, FlagsTrue, Follows,
        StopRemembered, Holding, player, threads, user, Operations, States, Conns, AtRest,
        LockFree, Up
<1>1. CASE PwError
  BY <1>1 DEF PwError, Input, QueueIdle
<1>2. CASE PwStreaming
  BY <1>2 DEF PwStreaming
<1>3. CASE PwPaused
  BY <1>3 DEF PwPaused
<1>4. CASE EndOfTrack
  BY <1>4 DEF EndOfTrack
<1>5. CASE PlayCheck
  BY <1>5 DEF PlayCheck, Command, Input
<1>6. CASE PlayStart
  BY <1>6 DEF PlayStart
<1>7. CASE PlayActivate
  BY <1>7 DEF PlayActivate
<1>8. CASE Pause
  BY <1>8 DEF Pause, Command, Input
<1>9. CASE Stop
  BY <1>9 DEF Stop, Command, Input, StopGuard
<1>10. ASSUME NEW d \in Devices \cup {NoDevice}, SelectDevice(d)
      PROVE  FlagInv'
  BY <1>10 DEF SelectDevice, Command, Input, Dispatch, DeviceOp
<1>11. ASSUME NEW q \in Quanta, SelectQuantum(q)
      PROVE  FlagInv'
  BY <1>11 DEF SelectQuantum, Command, Input, Dispatch, QuantumOp
<1>12. CASE ToggleExclusive
  BY <1>12 DEF ToggleExclusive, Command, Input, Dispatch, DeviceOp
<1>13. ASSUME NEW found \in BOOLEAN, NEW q \in Quanta, Enumerated(found, q)
      PROVE  FlagInv'
  BY <1>13 DEF Enumerated, Command, Input, Dispatch, DeviceOp, QuantumOp
<1>14. CASE AskReconnect
  BY <1>14 DEF AskReconnect, Command, Input, QueueIdle
<1>15. CASE ReconnectCheck
  BY <1>15 DEF ReconnectCheck, Due, StillCurrent
<1>16. CASE Reconnect
  BY ZenonT(60), <1>16 DEF Reconnect, ConnectResults
<1>17. CASE DeactivateCheck
  BY <1>17 DEF DeactivateCheck, Due, StillCurrent
<1>18. CASE Deactivate
  BY <1>18 DEF Deactivate, Deactivated, NoStream, ErrorAfter, ActiveAfter
<1>19. CASE Destroy
  BY <1>19 DEF Destroy, NoStream
<1>20. ASSUME NEW w \in Workers, Take(w)
      PROVE  FlagInv'
  BY <1>20 DEF Take, IsDevice, Resting
<1>21. ASSUME NEW w \in Workers, CheckDevice(w)
      PROVE  FlagInv'
  BY SMTT(30), <1>21 DEF CheckDevice, InWorker, Step, Finish, Resting
<1>22. ASSUME NEW w \in Workers, Enter(w)
      PROVE  FlagInv'
  BY <1>22 DEF Enter, InWorker, EnterGuard, IsDevice
<1>23. ASSUME NEW w \in Workers, SameQuantum(w)
      PROVE  FlagInv'
  BY <1>23 DEF SameQuantum, InWorker, Finish, Resting, IsDevice
<1>24. ASSUME NEW w \in Workers, TearDown(w)
      PROVE  FlagInv'
  <2>1. lock = w /\ worker[w].pc = "teardown" /\ ~destroyed
    BY <1>24 DEF TearDown, InWorker
  <2>2. ~Up'
    BY <1>24 DEF TearDown, Deactivated, NoStream
  <2>3. ~streamsActive' /\ ~deviceError'
    BY <1>24, <2>1 DEF TearDown, Deactivated, ErrorAfter, ActiveAfter
  <2>4. \/ lock' = None /\ worker' = [worker EXCEPT ![w] = Resting]
        \/ lock' = lock /\ worker' = [worker EXCEPT ![w].pc = "create"]
    BY <1>24 DEF TearDown, Step, Finish
  <2>5. (state' = state \/ state' = "STOPPED") /\ asked' = asked /\ destroyed' = destroyed
    BY <1>24 DEF TearDown, Deactivated
  <2>6. LockHeld'
    BY <2>1, <2>4 DEF Resting
  <2>7. StopRemembered'
    <3>1. ASSUME NEW x \in Workers, worker'[x].pc \in Holding
          PROVE  worker[x].pc \in Holding /\ worker'[x].prev = worker[x].prev
      BY <2>1, <2>4, <3>1 DEF Resting
    <3> QED
      BY <2>5, <3>1
  <2>8. FlagsTrue' /\ Follows' /\ TornDown'
    BY <2>2, <2>3
  <2> QED
    BY <2>6, <2>7, <2>8
<1>25. ASSUME NEW w \in Workers, Create(w)
      PROVE  FlagInv'
  BY <1>25 DEF Create, InWorker, Step
<1>26. ASSUME NEW w \in Workers, CreateFails(w)
      PROVE  FlagInv'
  BY <1>26 DEF CreateFails, InWorker, Finish, Resting
<1>27. ASSUME NEW w \in Workers, Restore(w)
      PROVE  FlagInv'
  BY <1>27 DEF Restore, InWorker, Finish, Resting
<1>28. CASE UNCHANGED vars
  BY <1>28 DEF vars
<1> QED
  BY <1>1, <1>2, <1>3, <1>4, <1>5, <1>6, <1>7, <1>8, <1>9, <1>10,
     <1>11, <1>12, <1>13, <1>14, <1>15, <1>16, <1>17, <1>18, <1>19, <1>20,
     <1>21, <1>22, <1>23, <1>24, <1>25, <1>26, <1>27, <1>28
  DEF Next, PipeWire, Transport, Handlers, IdleCallbacks, Worker

-----------------------------------------------------------------------------
\* player_init establishes the invariant.
LEMMA Start == Init => IInv
<1> SUFFICES ASSUME Init PROVE IInv
  OBVIOUS
<1>1. stream \in Streams
  BY NoStreamType DEF Init
<1>2. worker \in Contexts
  BY DEF Init, Contexts, Resting, PCs, States
<1>3. /\ idles \in Seq([what : {"reconnect", "deactivate"}, gen : Nat])
      /\ ops \in Seq(Operations)
  BY DEF Init
<1>4. inputs \in 0 .. MaxInputs
  BY BoundAssumption DEF Init
<1>5. TypeOK
  BY <1>1, <1>2, <1>3, <1>4, QuantumAssumption
  DEF Init, TypeOK, Streams, Contexts, PCs, States, AtRest
<1>6. HasOperation
  BY DEF Init, HasOperation, Resting
<1>7. FlagInv
  BY NoneAssumption
  DEF Init, FlagInv, LockHeld, TornDown, FlagsTrue, Follows, StopRemembered, Holding, NoStream,
      Resting, Up
<1> QED
  BY <1>5, <1>6, <1>7 DEF IInv

\* The strengthened invariant holds in every reachable state.
THEOREM Invariance == Spec => []IInv
<1>1. IInv /\ [Next]_vars => IInv'
  BY TypeStep, FlagStep DEF IInv
<1> QED
  BY Start, <1>1, PTL DEF Spec

\* streams_active and device_error, which play, set_player_device and the idle callbacks
\* read without the loop lock, tell the truth whenever it is free.
THEOREM FlagsAlwaysAgree == Spec => []FlagsAgree
<1>1. IInv => FlagsAgree
  BY DEF IInv, FlagInv, FlagsTrue, FlagsAgree, FlagAgrees, ErrorFlagAgrees
<1> QED
  BY Invariance, <1>1, PTL

\* However device and quantum changes are spread over the pool threads, the
\* stream is the one the player's own fields describe.
THEOREM StreamAlwaysFollows == Spec => []StreamFollowsSettings
<1>1. IInv => StreamFollowsSettings
  BY NoneAssumption DEF IInv, FlagInv, LockHeld, Holding, Follows, StreamFollowsSettings, LockFree
<1> QED
  BY Invariance, <1>1, PTL

\* No recreate that is under way or still to come starts a stopped player again.
THEOREM StopAlwaysSticks == Spec => []StopSticks
<1>1. IInv => StopSticks
  BY DEF IInv, FlagInv, StopRemembered, StopSticks
<1> QED
  BY Invariance, <1>1, PTL
=============================================================================
