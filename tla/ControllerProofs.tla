-------------------------- MODULE ControllerProofs --------------------------
(***************************************************************************)
(* Theorems about Controller, for any channels, descriptors, generations   *)
(* and delays: the sockets, flags and handles of all controllers agree,    *)
(* and so do the two ends of a session.                                    *)
(*                                                                         *)
(* The induction follows the life of a controller.  Where its listener is  *)
(* decides whether it has a descriptor and may say that it is connected    *)
(* (SocketByPlace); a slot names the one live controller of its channel    *)
(* (LiveInSlot); and a stop under way has cleared running for good         *)
(* (StopUnderWay), so that what it frees has ended.                        *)
(*                                                                         *)
(* What the window is told needs no more than where the listener is. What  *)
(* the console is told is an induction over the symbols of one recv: with  *)
(* each of them the buffer holds the line under way of the whole stream,   *)
(* cut to its size, and the commands are those of the lines before it.     *)
(***************************************************************************)
EXTENDS MCController, FiniteSetTheorems, WellFoundedInduction, TLAPS

\* What the operation of the main thread is about.
Stopping == {"wake", "shutdown", "join", "free"}
MainArgument ==
    /\ main.op \in {"read", "send", "failed"} \cup Stopping => main.c \in Ctls
    /\ main.op = "create" => main.c \in Chans /\ slot[main.c] = 0
    /\ main.op = "shutdown" => main.fd \in Fds

\* The handle in a slot is the one live controller of its channel.
LiveInSlot == \A c \in Ctls : ctl[c].life = "live" <=> slot[c[1]] = c[2]

\* A descriptor is held from the connect to the close, and connected is set only in between.
HoldsSocket == {"session", "announce", "up", "loop", "recv", "leave", "close"}
SocketByPlace ==
    \A c \in Ctls : /\ ctl[c].sockfd # None <=> ctl[c].pc \in HoldsSocket
                    /\ ctl[c].connected => ctl[c].pc \in {"up", "loop", "recv", "leave"}

\* Before its creation a controller has neither thread nor socket, after its end no thread.
Ended ==
    \A c \in Ctls : /\ ctl[c].life = "none" => ctl[c].pc = "none"
                    /\ ctl[c].life = "freed" => ctl[c].pc = "exit" /\ ~ctl[c].running

\* stop, join and free go on about the controller that stop found in the slot.
StopUnderWay ==
    main.op \in Stopping =>
        /\ ctl[main.c].life = "live"
        /\ ~ctl[main.c].running
        /\ main.op = "free" => ctl[main.c].pc = "exit"

\* An open socket has an owner, which holds its number, and the other way round.
Owned ==
    /\ \A f \in Fds : sock[f] # Free => sock[f].owner \in Ctls /\ ctl[sock[f].owner].sockfd = f
    /\ \A c \in Ctls : ctl[c].sockfd # None => sock[ctl[c].sockfd].owner = c

LifeInv == MainArgument /\ LiveInSlot /\ SocketByPlace /\ Ended /\ StopUnderWay /\ Owned

IInv == TypeOK /\ LifeInv

-----------------------------------------------------------------------------
\* The fields of a controller have their types.
LEMMA Fields ==
    ASSUME TypeOK, NEW c \in Ctls
    PROVE  /\ ctl[c] \in Controllers
           /\ ctl[c].pc \in ListenerPCs /\ ctl[c].sockfd \in Fds \cup {None}
           /\ ctl[c].delay \in InitialDelay .. MaxDelay /\ ctl[c].left \in 0 .. MaxDelay
           /\ ctl[c].running \in BOOLEAN /\ ctl[c].connected \in BOOLEAN
BY DEF TypeOK, Controllers

\* The back-off stays between its bounds, and a sleep is no longer than the longest.
LEMMA Delays ==
    /\ InitialDelay \in InitialDelay .. MaxDelay
    /\ 0 \in 0 .. MaxDelay
    /\ \A d \in InitialDelay .. MaxDelay :
          d \in 0 .. MaxDelay /\ Doubled(d) \in InitialDelay .. MaxDelay
BY DelayAssumption DEF Doubled

\* The listener moves on.
LEMMA Moved ==
    ASSUME TypeOK, NEW c \in Ctls, NEW label \in ListenerPCs, Goto(c, label)
    PROVE  ctl' \in [Ctls -> Controllers]
BY ZenonT(60) DEF TypeOK, Goto, Controllers

\* The callback at the head of the queue is of a controller of some channel.
LEMMA HeadOfQueue ==
    ASSUME TypeOK, queue # <<>>
    PROVE  /\ Head(queue) \in Callbacks /\ Tail(queue) \in Seq(Callbacks)
           /\ Head(queue).c \in Ctls /\ Chan(Head(queue).c) \in Chans
<1>1. Head(queue) \in Callbacks /\ Tail(queue) \in Seq(Callbacks)
  BY DEF TypeOK
<1> QED
  BY <1>1 DEF Callbacks, Chan, Ctls

\* A listener posts a callback.
LEMMA Posted ==
    ASSUME TypeOK, NEW c \in Ctls, NEW what \in {"command", "up", "down"}, Post(c, what)
    PROVE  queue' \in Seq(Callbacks)
BY DEF TypeOK, Post, Callbacks

\* Every step keeps the types.
LEMMA TypeStep ==
    ASSUME TypeOK, MainArgument, [Next]_vars
    PROVE  TypeOK'
<1>1. ASSUME NEW c \in Ctls, Check(c)
      PROVE  TypeOK'
  <2>1. ctl' \in [Ctls -> Controllers]
    BY <1>1, Moved DEF Check, TypeOK, ListenerPCs
  <2> QED
    BY <1>1, <2>1 DEF Check, TypeOK
<1>2. ASSUME NEW c \in Ctls, TcpConnects(c)
      PROVE  TypeOK'
  <2>1. ctl' \in [Ctls -> Controllers]
    <3>1. PICK f \in Fds : ctl' = [ctl EXCEPT ![c].sockfd = f, ![c].pc = "session"]
      BY <1>2 DEF TcpConnects
    <3>2. [ctl[c] EXCEPT !.sockfd = f, !.pc = "session"] \in Controllers
      BY Fields DEF Controllers, ListenerPCs
    <3>3. ctl' = [ctl EXCEPT ![c] = [ctl[c] EXCEPT !.sockfd = f, !.pc = "session"]]
      BY <3>1
    <3> QED
      BY <3>2, <3>3 DEF TypeOK
  <2>2. sock' \in [Fds -> Sockets]
    BY <1>2 DEF TcpConnects, TypeOK, Sockets, Links
  <2> QED
    BY <1>2, <2>1, <2>2 DEF TcpConnects, TypeOK
<1>3. ASSUME NEW c \in Ctls, TcpFails(c)
      PROVE  TypeOK'
  <2>1. ctl' \in [Ctls -> Controllers]
    BY <1>3, Moved DEF TcpFails, TypeOK, ListenerPCs
  <2> QED
    BY <1>3, <2>1 DEF TcpFails, TypeOK
<1>4. ASSUME NEW c \in Ctls, Subscribed(c)
      PROVE  TypeOK'
  <2>1. ctl' \in [Ctls -> Controllers]
    BY <1>4, Moved DEF Subscribed, TypeOK, ListenerPCs
  <2>2. sock' \in [Fds -> Sockets]
    BY ZenonT(60), <1>4 DEF Subscribed, TypeOK, Sent, Sockets, Links
  <2> QED
    BY <1>4, <2>1, <2>2 DEF Subscribed, TypeOK
<1>5. ASSUME NEW c \in Ctls, SubscribeFails(c)
      PROVE  TypeOK'
  <2>1. ctl' \in [Ctls -> Controllers]
    <3>1. [ctl[c] EXCEPT !.sockfd = None, !.pc = "backoff"] \in Controllers
      BY Fields DEF Controllers, ListenerPCs
    <3>2. ctl' = [ctl EXCEPT ![c] = [ctl[c] EXCEPT !.sockfd = None, !.pc = "backoff"]]
      BY <1>5 DEF SubscribeFails
    <3> QED
      BY <3>1, <3>2 DEF TypeOK
  <2>2. sock' \in [Fds -> Sockets]
    BY <1>5 DEF SubscribeFails, TypeOK, Closed, Sockets, Links, Free, Controllers
  <2> QED
    BY <1>5, <2>1, <2>2 DEF SubscribeFails, TypeOK
<1>6. ASSUME NEW c \in Ctls, Announce(c)
      PROVE  TypeOK'
  <2>1. ctl' \in [Ctls -> Controllers]
    <3>1. [ctl[c] EXCEPT !.delay = InitialDelay, !.connected = TRUE, !.pc = "up"] \in Controllers
      BY Fields, Delays DEF Controllers, ListenerPCs
    <3>2. ctl' =
            [ctl EXCEPT ![c] = [ctl[c] EXCEPT !.delay = InitialDelay, !.connected = TRUE, !.pc = "up"]]
      BY <1>6 DEF Announce
    <3> QED
      BY <3>1, <3>2 DEF TypeOK
  <2> QED
    BY <1>6, <2>1 DEF Announce, TypeOK
<1>7. ASSUME NEW c \in Ctls, PostUp(c)
      PROVE  TypeOK'
  <2>1. ctl' \in [Ctls -> Controllers]
    BY <1>7, Moved DEF PostUp, TypeOK, ListenerPCs
  <2>2. queue' \in Seq(Callbacks)
    BY <1>7, Posted DEF PostUp, TypeOK
  <2> QED
    BY <1>7, <2>1, <2>2 DEF PostUp, TypeOK
<1>8. ASSUME NEW c \in Ctls, ReadLoop(c)
      PROVE  TypeOK'
  <2>1. ctl' \in [Ctls -> Controllers]
    BY <1>8, Moved DEF ReadLoop, TypeOK, ListenerPCs
  <2> QED
    BY <1>8, <2>1 DEF ReadLoop, TypeOK
<1>9. ASSUME NEW c \in Ctls, RecvData(c)
      PROVE  TypeOK'
  <2>1. ctl' \in [Ctls -> Controllers]
    BY <1>9, Moved DEF RecvData, TypeOK, ListenerPCs
  <2>2. queue' \in Seq(Callbacks)
    BY <1>9, Posted DEF RecvData, TypeOK
  <2> QED
    BY <1>9, <2>1, <2>2 DEF RecvData, TypeOK
<1>10. ASSUME NEW c \in Ctls, RecvEnds(c)
      PROVE  TypeOK'
  <2>1. ctl' \in [Ctls -> Controllers]
    BY <1>10, Moved DEF RecvEnds, TypeOK, ListenerPCs, AfterEnd
  <2> QED
    BY <1>10, <2>1 DEF RecvEnds, TypeOK
<1>11. ASSUME NEW c \in Ctls, Leave(c)
      PROVE  TypeOK'
  <2>1. ctl' \in [Ctls -> Controllers]
    <3>1. [ctl[c] EXCEPT !.connected = FALSE, !.pc = "close"] \in Controllers
      BY Fields DEF Controllers, ListenerPCs
    <3>2. ctl' = [ctl EXCEPT ![c] = [ctl[c] EXCEPT !.connected = FALSE, !.pc = "close"]]
      BY <1>11 DEF Leave
    <3> QED
      BY <3>1, <3>2 DEF TypeOK
  <2> QED
    BY <1>11, <2>1 DEF Leave, TypeOK
<1>12. ASSUME NEW c \in Ctls, Disconnect(c)
      PROVE  TypeOK'
  <2>1. ctl' \in [Ctls -> Controllers]
    <3>1. [ctl[c] EXCEPT !.sockfd = None, !.pc = "down"] \in Controllers
      BY Fields DEF Controllers, ListenerPCs
    <3>2. ctl' = [ctl EXCEPT ![c] = [ctl[c] EXCEPT !.sockfd = None, !.pc = "down"]]
      BY <1>12 DEF Disconnect
    <3> QED
      BY <3>1, <3>2 DEF TypeOK
  <2>2. sock' \in [Fds -> Sockets]
    BY <1>12 DEF Disconnect, TypeOK, Closed, Sockets, Links, Free, Controllers
  <2> QED
    BY <1>12, <2>1, <2>2 DEF Disconnect, TypeOK
<1>13. ASSUME NEW c \in Ctls, PostDown(c)
      PROVE  TypeOK'
  <2>1. ctl' \in [Ctls -> Controllers]
    BY <1>13, Moved DEF PostDown, TypeOK, ListenerPCs
  <2>2. queue' \in Seq(Callbacks)
    BY <1>13, Posted DEF PostDown, TypeOK
  <2> QED
    BY <1>13, <2>1, <2>2 DEF PostDown, TypeOK
<1>14. ASSUME NEW c \in Ctls, Backoff(c)
      PROVE  TypeOK'
  <2>1. ctl' \in [Ctls -> Controllers]
    <3>1. /\ [ctl[c] EXCEPT !.left = ctl[c].delay, !.pc = "sleep"] \in Controllers
          /\ [ctl[c] EXCEPT !.pc = "check"] \in Controllers
      BY Fields, Delays DEF Controllers, ListenerPCs
    <3>2. \/ ctl' = [ctl EXCEPT ![c] = [ctl[c] EXCEPT !.left = ctl[c].delay, !.pc = "sleep"]]
          \/ ctl' = [ctl EXCEPT ![c] = [ctl[c] EXCEPT !.pc = "check"]]
      BY <1>14 DEF Backoff
    <3> QED
      BY <3>1, <3>2 DEF TypeOK
  <2> QED
    BY <1>14, <2>1 DEF Backoff, TypeOK
<1>15. ASSUME NEW c \in Ctls, SleepChunk(c)
      PROVE  TypeOK'
  <2>1. ctl' \in [Ctls -> Controllers]
    <3> DEFINE d == Doubled(ctl[c].delay)
    <3>1. d \in InitialDelay .. MaxDelay
      BY Fields, Delays
    <3> HIDE DEF d
    <3>2. [ctl[c] EXCEPT !.left = 0, !.delay = d, !.pc = "check"] \in Controllers
      BY Fields, Delays, <3>1 DEF Controllers, ListenerPCs
    <3>3. ctl[c].left > 0 => [ctl[c] EXCEPT !.left = ctl[c].left - 1] \in Controllers
      BY Fields, DelayAssumption DEF Controllers
    <3>4. \/ ctl' = [ctl EXCEPT ![c] = [ctl[c] EXCEPT !.left = 0, !.delay = d, !.pc = "check"]]
          \/ /\ ctl[c].left > 0
             /\ ctl' = [ctl EXCEPT ![c] = [ctl[c] EXCEPT !.left = ctl[c].left - 1]]
      BY <1>15 DEF SleepChunk, d
    <3> QED
      BY <3>2, <3>3, <3>4 DEF TypeOK
  <2> QED
    BY <1>15, <2>1 DEF SleepChunk, TypeOK
<1>16. ASSUME NEW f \in Fds, Drop(f)
      PROVE  TypeOK'
  <2>1. sock' \in [Fds -> Sockets]
    BY <1>16, FaultAssumption DEF Drop, TypeOK, Sockets, Links
  <2> QED
    BY <1>16, <2>1 DEF Drop, TypeOK
<1>17. ASSUME NEW f \in Fds, GiveUp(f)
      PROVE  TypeOK'
  <2>1. sock' \in [Fds -> Sockets]
    BY <1>17 DEF GiveUp, TypeOK, Sockets, Links
  <2> QED
    BY <1>17, <2>1 DEF GiveUp, TypeOK
<1>18. ASSUME NEW ch \in Chans, NEW m \in Modes, ChangeMode(ch, m)
      PROVE  TypeOK'
  <2>1. main' \in MainPlaces
    BY <1>18 DEF ChangeMode, TypeOK, Mirror, Current, MainPlaces, AtRest, Ctls
  <2>2. shown' \in [Chans -> Strips]
    BY <1>18 DEF ChangeMode, TypeOK, Strips
  <2> QED
    BY <1>18, <2>1, <2>2 DEF ChangeMode, TypeOK
<1>19. CASE DispatchCommand
  <2>1. main' \in MainPlaces
    BY <1>19, HeadOfQueue DEF DispatchCommand, TypeOK, Mirror, Current, MainPlaces, AtRest, Ctls
  <2>2. queue' \in Seq(Callbacks)
    BY <1>19, HeadOfQueue DEF DispatchCommand, TypeOK
  <2>3. shown' \in [Chans -> Strips]
    BY <1>19, HeadOfQueue DEF DispatchCommand, TypeOK, Strips
  <2> QED
    BY <1>19, <2>1, <2>2, <2>3 DEF DispatchCommand, TypeOK
<1>20. CASE DispatchStatus
  <2>1. queue' \in Seq(Callbacks)
    BY <1>20, HeadOfQueue DEF DispatchStatus, TypeOK
  <2>2. shown' \in [Chans -> Strips]
    BY <1>20, HeadOfQueue DEF DispatchStatus, TypeOK, Strips
  <2> QED
    BY <1>20, <2>1, <2>2 DEF DispatchStatus, TypeOK
<1>21. CASE ReadFd
  <2>1. main' \in MainPlaces
    BY <1>21, Fields DEF ReadFd, TypeOK, MainPlaces, MainArgument
  <2> QED
    BY <1>21, <2>1 DEF ReadFd, TypeOK
<1>22. CASE SendState
  <2>1. sock' \in [Fds -> Sockets]
    BY ZenonT(60), <1>22 DEF SendState, TypeOK, Sent, Sockets, Links, MainPlaces
  <2>2. main' \in MainPlaces
    BY <1>22 DEF SendState, TypeOK, MainPlaces, AtRest
  <2> QED
    BY <1>22, <2>1, <2>2 DEF SendState, TypeOK
<1>23. CASE SendStateFails
  <2>1. main' \in MainPlaces
    BY <1>23 DEF SendStateFails, TypeOK, MainPlaces
  <2> QED
    BY <1>23, <2>1 DEF SendStateFails, TypeOK
<1>24. CASE MarkDropped
  <2>1. ctl' \in [Ctls -> Controllers]
    <3>1. main.c \in Ctls
      BY <1>24 DEF MarkDropped, MainArgument
    <3>2. [ctl[main.c] EXCEPT !.connected = FALSE] \in Controllers
      BY <3>1, Fields DEF Controllers
    <3>3. ctl' = [ctl EXCEPT ![main.c] = [ctl[main.c] EXCEPT !.connected = FALSE]]
      BY <1>24 DEF MarkDropped
    <3> QED
      BY <3>1, <3>2, <3>3 DEF TypeOK
  <2>2. main' \in MainPlaces
    BY <1>24 DEF MarkDropped, TypeOK, MainPlaces, AtRest
  <2> QED
    BY <1>24, <2>1, <2>2 DEF MarkDropped, TypeOK
<1>25. ASSUME NEW ch \in Chans, StopController(ch)
      PROVE  TypeOK'
  <2>1. ctl' \in [Ctls -> Controllers]
    <3>1. Current(ch) \in Ctls
      BY <1>25 DEF StopController, TypeOK, Current, Ctls
    <3>2. [ctl[Current(ch)] EXCEPT !.running = FALSE] \in Controllers
      BY <3>1, Fields DEF Controllers
    <3>3. ctl' = [ctl EXCEPT ![Current(ch)] = [ctl[Current(ch)] EXCEPT !.running = FALSE]]
      BY <1>25 DEF StopController
    <3> QED
      BY <3>1, <3>2, <3>3 DEF TypeOK
  <2>2. main' \in MainPlaces
    BY <1>25 DEF StopController, TypeOK, MainPlaces, Current, Ctls
  <2> QED
    BY <1>25, <2>1, <2>2 DEF StopController, TypeOK
<1>26. ASSUME NEW ch \in Chans, Configure(ch)
      PROVE  TypeOK'
  <2>1. main' \in MainPlaces
    BY <1>26 DEF Configure, TypeOK, MainPlaces
  <2> QED
    BY <1>26, <2>1 DEF Configure, TypeOK
<1>27. CASE Wake
  <2>1. main' \in MainPlaces
    BY <1>27, Fields DEF Wake, TypeOK, MainPlaces, MainArgument, Stopping
  <2> QED
    BY <1>27, <2>1 DEF Wake, TypeOK
<1>28. CASE Shutdown
  <2>1. sock' \in [Fds -> Sockets]
    BY <1>28 DEF Shutdown, TypeOK, Shut, Sockets, Links, Free
  <2>2. main' \in MainPlaces
    BY <1>28 DEF Shutdown, TypeOK, MainPlaces
  <2> QED
    BY <1>28, <2>1, <2>2 DEF Shutdown, TypeOK
<1>29. CASE Join
  <2> DEFINE r == [ctl[main.c] EXCEPT !.sockfd = None, !.connected = FALSE]
  <2>1. ctl' \in [Ctls -> Controllers]
    <3>1. main.c \in Ctls
      BY <1>29 DEF Join, MainArgument, Stopping
    <3>2. r \in Controllers
      BY <3>1, Fields DEF Controllers
    <3>3. ctl' = [ctl EXCEPT ![main.c] = r]
      BY <1>29 DEF Join
    <3> QED
      BY <3>1, <3>2, <3>3 DEF TypeOK
  <2>2. sock' \in [Fds -> Sockets]
    BY <1>29, Fields DEF Join, TypeOK, Closed, Sockets, Links, Free, MainArgument, Stopping
  <2>3. main' \in MainPlaces
    BY <1>29 DEF Join, TypeOK, MainPlaces
  <2> QED
    BY <1>29, <2>1, <2>2, <2>3 DEF Join, TypeOK
<1>30. CASE Destroy
  <2>1. ctl' \in [Ctls -> Controllers]
    <3>1. main.c \in Ctls
      BY <1>30 DEF Destroy, MainArgument, Stopping
    <3>2. [ctl[main.c] EXCEPT !.life = "freed"] \in Controllers
      BY <3>1, Fields DEF Controllers
    <3>3. ctl' = [ctl EXCEPT ![main.c] = [ctl[main.c] EXCEPT !.life = "freed"]]
      BY <1>30 DEF Destroy
    <3> QED
      BY <3>1, <3>2, <3>3 DEF TypeOK
  <2>2. main' \in MainPlaces
    BY <1>30 DEF Destroy, TypeOK, MainPlaces, MainArgument, Stopping, Chan, Ctls
  <2>3. slot' \in [Chans -> 0 .. MaxGen]
    <3>1. Chan(main.c) \in Chans
      BY <1>30 DEF Destroy, MainArgument, Stopping, Chan, Ctls
    <3> QED
      BY <1>30, <3>1, GenAssumption DEF Destroy, TypeOK
  <2> QED
    BY <1>30, <2>1, <2>2, <2>3 DEF Destroy, TypeOK
<1>31. CASE StartController
  <2>1. ctl' \in [Ctls -> Controllers]
    BY <1>31, DelayAssumption DEF StartController, TypeOK, Controllers, MainArgument,
         NewController, ListenerPCs, Ctls
  <2>2. main' \in MainPlaces
    BY <1>31 DEF StartController, TypeOK, MainPlaces, AtRest
  <2>3. slot' \in [Chans -> 0 .. MaxGen]
    BY <1>31 DEF StartController, TypeOK, MainArgument
  <2> QED
    BY <1>31, <2>1, <2>2, <2>3 DEF StartController, TypeOK
<1>32. CASE LeaveWithout
  <2>1. main' \in MainPlaces
    BY <1>32 DEF LeaveWithout, TypeOK, MainPlaces, AtRest
  <2> QED
    BY <1>32, <2>1 DEF LeaveWithout, TypeOK
<1>33. CASE UNCHANGED vars
  BY <1>33 DEF vars, TypeOK
<1> QED
  BY <1>1, <1>2, <1>3, <1>4, <1>5, <1>6, <1>7, <1>8, <1>9, <1>10,
     <1>11, <1>12, <1>13, <1>14, <1>15, <1>16, <1>17, <1>18, <1>19, <1>20,
     <1>21, <1>22, <1>23, <1>24, <1>25, <1>26, <1>27, <1>28, <1>29, <1>30,
     <1>31, <1>32, <1>33
  DEF Next, MainStep, ListenerStep

\* A listener that waits for its next attempt changes its place and its delays, nothing else.
LEMMA BackingOff ==
    ASSUME TypeOK, NEW c \in Ctls, Backoff(c) \/ SleepChunk(c), NEW x \in Ctls
    PROVE  /\ ctl'[x].life = ctl[x].life /\ ctl'[x].running = ctl[x].running
           /\ ctl'[x].sockfd = ctl[x].sockfd /\ ctl'[x].connected = ctl[x].connected
           /\ \/ ctl'[x].pc = ctl[x].pc
              \/ ctl[x].pc \in {"backoff", "sleep"} /\ ctl'[x].pc \in {"check", "sleep"}
<1>1. ctl[c].pc \in {"backoff", "sleep"}
  BY DEF Backoff, SleepChunk, At
<1>2. ctl[c] \in Controllers
  BY Fields
<1>3. \/ ctl' = [ctl EXCEPT ![c] = [ctl[c] EXCEPT !.left = ctl[c].delay, !.pc = "sleep"]]
      \/ ctl' = [ctl EXCEPT ![c] = [ctl[c] EXCEPT !.pc = "check"]]
      \/ ctl' = [ctl EXCEPT ![c] = [ctl[c] EXCEPT !.left = ctl[c].left - 1]]
      \/ ctl' =
              [ctl EXCEPT ![c] = [ctl[c] EXCEPT !.left = 0, !.delay = Doubled(ctl[c].delay), !.pc = "check"]]
  BY DEF Backoff, SleepChunk
<1>4. CASE x # c
  BY <1>3, <1>4 DEF TypeOK
<1>5. CASE x = c
  <2>1. CASE ctl' = [ctl EXCEPT ![c] = [ctl[c] EXCEPT !.left = ctl[c].delay, !.pc = "sleep"]]
    BY <1>1, <1>2, <1>5, <2>1 DEF TypeOK, Controllers
  <2>2. CASE ctl' = [ctl EXCEPT ![c] = [ctl[c] EXCEPT !.pc = "check"]]
    BY <1>1, <1>2, <1>5, <2>2 DEF TypeOK, Controllers
  <2>3. CASE ctl' = [ctl EXCEPT ![c] = [ctl[c] EXCEPT !.left = ctl[c].left - 1]]
    BY <1>1, <1>2, <1>5, <2>3 DEF TypeOK, Controllers
  <2>4. CASE ctl' =
          [ctl EXCEPT ![c] = [ctl[c] EXCEPT !.left = 0, !.delay = Doubled(ctl[c].delay), !.pc = "check"]]
    BY <1>1, <1>2, <1>5, <2>4 DEF TypeOK, Controllers
  <2> QED
    BY <1>3, <2>1, <2>2, <2>3, <2>4
<1> QED
  BY <1>4, <1>5

\* What a change of mode sets the main thread to do, if anything, is about a controller.
LEMMA MirrorsRead ==
    ASSUME TypeOK, NEW ch \in Chans
    PROVE  Mirror(ch) = AtRest \/ (Mirror(ch).op = "read" /\ Mirror(ch).c \in Ctls)
<1>1. slot[ch] # 0 => Current(ch) \in Ctls
  BY DEF TypeOK, Current, Ctls
<1>2. CASE slot[ch] = 0 \/ ~ctl[Current(ch)].connected
  <2>1. Mirror(ch) = AtRest
    BY <1>2 DEF Mirror
  <2> QED
    BY <2>1
<1>3. CASE ~(slot[ch] = 0 \/ ~ctl[Current(ch)].connected)
  <2>1. Mirror(ch) = [op |-> "read", c |-> Current(ch), fd |-> None]
    BY <1>3 DEF Mirror
  <2> QED
    BY <1>1, <1>3, <2>1
<1> QED
  BY <1>2, <1>3

\* Two controllers of one channel have different generations.
LEMMA OnePerSlot ==
    ASSUME NEW x \in Ctls, NEW y \in Ctls, x[1] = y[1], x # y
    PROVE  x[2] # y[2]
BY DEF Ctls

\* A controller is of a channel, and its generation is not the empty slot's.
LEMMA CtlIds == ASSUME NEW x \in Ctls PROVE x[1] \in Chans /\ x[2] # 0
BY DEF Ctls

\* A new controller takes no descriptor with it.
LEMMA Created ==
    ASSUME StartController, TypeOK, Ended, SocketByPlace, NEW x \in Ctls
    PROVE ctl'[x].sockfd = ctl[x].sockfd
<1>1. PICK g \in 1 .. MaxGen : /\ ctl[<<main.c, g>>].life = "none"
                               /\ ctl' =
                                     [ctl EXCEPT ![<<main.c, g>>] = NewController("live", "check")]
  BY DEF StartController
<1>2. ctl[x].life = "none" => ctl[x].sockfd = None
  BY DEF Ended, SocketByPlace, HoldsSocket
<1>3. x = <<main.c, g>> => ctl'[x].sockfd = None
  BY <1>1 DEF TypeOK, NewController
<1>4. x # <<main.c, g>> => ctl'[x] = ctl[x]
  BY <1>1 DEF TypeOK
<1> QED
  BY <1>1, <1>2, <1>3, <1>4

\* Waiting keeps what the listener's place says of its descriptor and its thread.
LEMMA Resting ==
    ASSUME SocketByPlace, Ended,
           \A x \in Ctls :
              /\ ctl'[x].life = ctl[x].life /\ ctl'[x].running = ctl[x].running
              /\ ctl'[x].sockfd = ctl[x].sockfd /\ ctl'[x].connected = ctl[x].connected
              /\ \/ ctl'[x].pc = ctl[x].pc
                 \/ ctl[x].pc \in {"backoff", "sleep"} /\ ctl'[x].pc \in {"check", "sleep"}
    PROVE  SocketByPlace' /\ Ended'
<1>1. ASSUME NEW x \in Ctls
      PROVE  /\ ctl'[x].sockfd # None <=> ctl'[x].pc \in HoldsSocket
             /\ ctl'[x].connected => ctl'[x].pc \in {"up", "loop", "recv", "leave"}
  BY DEF SocketByPlace, HoldsSocket
<1>2. ASSUME NEW x \in Ctls
      PROVE  /\ ctl'[x].life = "none" => ctl'[x].pc = "none"
             /\ ctl'[x].life = "freed" => ctl'[x].pc = "exit" /\ ~ctl'[x].running
  BY DEF Ended
<1> QED
  BY <1>1, <1>2 DEF SocketByPlace, Ended, HoldsSocket

\* Freeing the controller of a channel together with its slot keeps LiveInSlot.
LEMMA SlotCleared ==
    ASSUME LiveInSlot, NEW ch \in Chans, NEW c \in Ctls, c[1] = ch, ctl[c].life = "live",
           ctl'[c].life = "freed", \A x \in Ctls : x # c => ctl'[x].life = ctl[x].life,
           \A other \in Chans : slot'[other] = IF other = ch THEN 0 ELSE slot[other]
    PROVE  LiveInSlot'
<1>1. ASSUME NEW x \in Ctls
      PROVE  ctl'[x].life = "live" <=> slot'[x[1]] = x[2]
  <2>1. CASE x = c
    BY <2>1, CtlIds
  <2>2. CASE x # c /\ x[1] = ch
    BY <2>2, CtlIds, OnePerSlot DEF LiveInSlot
  <2>3. CASE x # c /\ x[1] # ch
    BY <2>3, CtlIds DEF LiveInSlot
  <2> QED
    BY <2>1, <2>2, <2>3
<1> QED
  BY <1>1 DEF LiveInSlot

\* controller_destroy keeps LiveInSlot, since what it frees is the live one.
LEMMA Destroyed ==
    ASSUME TypeOK, MainArgument, StopUnderWay, LiveInSlot, Destroy
    PROVE  LiveInSlot'
<1>1. main.c \in Ctls /\ Chan(main.c) \in Chans /\ Chan(main.c) = main.c[1]
  BY CtlIds DEF Destroy, MainArgument, Stopping, Chan
<1>2. ctl[main.c].life = "live"
  BY DEF Destroy, StopUnderWay, Stopping
<1>3. ctl' = [ctl EXCEPT ![main.c] = [ctl[main.c] EXCEPT !.life = "freed"]]
  BY DEF Destroy
<1>4. ctl[main.c] \in Controllers
  BY <1>1, Fields
<1>5. ctl'[main.c].life = "freed"
  BY <1>1, <1>3, <1>4 DEF TypeOK, Controllers
<1>6. \A x \in Ctls : x # main.c => ctl'[x].life = ctl[x].life
  BY <1>1, <1>3 DEF TypeOK
<1>7. \A other \in Chans : slot'[other] = IF other = main.c[1] THEN 0 ELSE slot[other]
  BY <1>1 DEF Destroy, TypeOK
<1> QED
  BY <1>1, <1>2, <1>5, <1>6, <1>7, SlotCleared

\* Every step keeps the rest of the invariant.
LEMMA LifeStep ==
    ASSUME IInv, [Next]_vars
    PROVE  LifeInv'
<1> USE NoneAssumption DEF IInv, TypeOK, LifeInv, MainArgument, LiveInSlot, SocketByPlace, Ended,
     StopUnderWay, Owned, Controllers, HoldsSocket, Stopping, ListenerPCs, AtRest, Free, Ctls, Chan
<1>1. ASSUME NEW c \in Ctls, Check(c)
      PROVE  LifeInv'
  BY <1>1 DEF Check, At, Goto
<1>2. ASSUME NEW c \in Ctls, TcpConnects(c)
      PROVE  LifeInv'
  <2>1. MainArgument'
    BY <1>2 DEF TcpConnects, At, Goto
  <2>2. LiveInSlot'
    BY <1>2 DEF TcpConnects, At, Goto
  <2>3. SocketByPlace'
    BY <1>2 DEF TcpConnects, At, Goto
  <2>4. Ended'
    BY <1>2 DEF TcpConnects, At, Goto
  <2>5. StopUnderWay'
    BY <1>2 DEF TcpConnects, At, Goto
  <2>6. Owned'
    <3>1. PICK f \in Fds : /\ sock[f] = Free
                          /\ sock' = [sock EXCEPT ![f] = [owner |-> c, link |-> "up"]]
                          /\ ctl' = [ctl EXCEPT ![c].sockfd = f, ![c].pc = "session"]
      BY <1>2 DEF TcpConnects
    <3>2. ctl[c].sockfd = None
      BY <1>2 DEF TcpConnects, At
    <3>3. ctl'[c].sockfd = f /\ \A x \in Ctls \ {c} : ctl'[x].sockfd = ctl[x].sockfd
      BY <3>1
    <3>4. sock'[f].owner = c /\ \A other \in Fds \ {f} : sock'[other] = sock[other]
      BY <3>1
    <3> QED
      BY <3>1, <3>2, <3>3, <3>4
  <2> QED
    BY <2>1, <2>2, <2>3, <2>4, <2>5, <2>6
<1>3. ASSUME NEW c \in Ctls, TcpFails(c)
      PROVE  LifeInv'
  BY <1>3 DEF TcpFails, At, Goto
<1>4. ASSUME NEW c \in Ctls, Subscribed(c)
      PROVE  LifeInv'
  BY <1>4 DEF Subscribed, At, Goto, SendWorks, Sent
<1>5. ASSUME NEW c \in Ctls, SubscribeFails(c)
      PROVE  LifeInv'
  BY <1>5 DEF SubscribeFails, At, Goto, Closed
<1>6. ASSUME NEW c \in Ctls, Announce(c)
      PROVE  LifeInv'
  BY SMTT(30), <1>6 DEF Announce, At, Goto
<1>7. ASSUME NEW c \in Ctls, PostUp(c)
      PROVE  LifeInv'
  BY SMTT(30), <1>7 DEF PostUp, At, Goto, Post
<1>8. ASSUME NEW c \in Ctls, ReadLoop(c)
      PROVE  LifeInv'
  BY <1>8 DEF ReadLoop, At, Goto, Stays
<1>9. ASSUME NEW c \in Ctls, RecvData(c)
      PROVE  LifeInv'
  BY <1>9 DEF RecvData, At, Goto, Post
<1>10. ASSUME NEW c \in Ctls, RecvEnds(c)
      PROVE  LifeInv'
  BY <1>10 DEF RecvEnds, At, Goto, AfterEnd
<1>11. ASSUME NEW c \in Ctls, Leave(c)
      PROVE  LifeInv'
  BY SMTT(30), <1>11 DEF Leave, At, Goto
<1>12. ASSUME NEW c \in Ctls, Disconnect(c)
      PROVE  LifeInv'
  BY SMTT(30), <1>12 DEF Disconnect, At, Goto, Closed
<1>13. ASSUME NEW c \in Ctls, PostDown(c)
      PROVE  LifeInv'
  BY <1>13 DEF PostDown, At, Goto, Post
<1>14. ASSUME NEW c \in Ctls, Backoff(c)
      PROVE  LifeInv'
  <2>1. \A x \in Ctls :
          /\ ctl'[x].life = ctl[x].life /\ ctl'[x].running = ctl[x].running
          /\ ctl'[x].sockfd = ctl[x].sockfd /\ ctl'[x].connected = ctl[x].connected
          /\ \/ ctl'[x].pc = ctl[x].pc
             \/ ctl[x].pc \in {"backoff", "sleep"} /\ ctl'[x].pc \in {"check", "sleep"}
    BY <1>14, BackingOff
  <2>2. UNCHANGED <<sock, main, slot>>
    BY <1>14 DEF Backoff
  <2>3. MainArgument'
    BY <2>1, <2>2
  <2>4. LiveInSlot'
    BY <2>1, <2>2
  <2>5. SocketByPlace'
    BY <2>1, <2>2, Resting
  <2>6. Ended'
    BY <2>1, <2>2, Resting
  <2>7. StopUnderWay'
    BY <2>1, <2>2
  <2>8. Owned'
    BY SMTT(30), <2>1, <2>2
  <2> QED
    BY <2>3, <2>4, <2>5, <2>6, <2>7, <2>8
<1>15. ASSUME NEW c \in Ctls, SleepChunk(c)
      PROVE  LifeInv'
  <2>1. \A x \in Ctls :
          /\ ctl'[x].life = ctl[x].life /\ ctl'[x].running = ctl[x].running
          /\ ctl'[x].sockfd = ctl[x].sockfd /\ ctl'[x].connected = ctl[x].connected
          /\ \/ ctl'[x].pc = ctl[x].pc
             \/ ctl[x].pc \in {"backoff", "sleep"} /\ ctl'[x].pc \in {"check", "sleep"}
    BY <1>15, BackingOff
  <2>2. UNCHANGED <<sock, main, slot>>
    BY <1>15 DEF SleepChunk
  <2>3. MainArgument'
    BY <2>1, <2>2
  <2>4. LiveInSlot'
    BY <2>1, <2>2
  <2>5. SocketByPlace'
    BY <2>1, <2>2, Resting
  <2>6. Ended'
    BY <2>1, <2>2, Resting
  <2>7. StopUnderWay'
    BY <2>1, <2>2
  <2>8. Owned'
    BY <2>1, <2>2
  <2> QED
    BY <2>3, <2>4, <2>5, <2>6, <2>7, <2>8
<1>16. ASSUME NEW f \in Fds, Drop(f)
      PROVE  LifeInv'
  BY <1>16 DEF Drop
<1>17. ASSUME NEW f \in Fds, GiveUp(f)
      PROVE  LifeInv'
  BY <1>17 DEF GiveUp
<1>18. ASSUME NEW ch \in Chans, NEW m \in Modes, ChangeMode(ch, m)
      PROVE  LifeInv'
  BY <1>18 DEF ChangeMode, Mirror, Current
<1>19. CASE DispatchCommand
  <2>1. ctl' = ctl /\ sock' = sock /\ slot' = slot
    BY <1>19 DEF DispatchCommand
  <2>2. main' = AtRest \/ (main'.op = "read" /\ main'.c \in Ctls)
    <3>1. PICK ch \in Chans : main' = AtRest \/ main' = Mirror(ch)
      BY <1>19, HeadOfQueue DEF DispatchCommand
    <3>2. Mirror(ch) = AtRest \/ (Mirror(ch).op = "read" /\ Mirror(ch).c \in Ctls)
      BY MirrorsRead
    <3> QED
      BY <3>1, <3>2
  <2>3. MainArgument' /\ StopUnderWay'
    BY <2>2
  <2>4. LiveInSlot'
    BY <2>1
  <2>5. SocketByPlace'
    BY <2>1
  <2>6. Ended'
    BY <2>1
  <2>7. Owned'
    BY <2>1
  <2> QED
    BY <2>3, <2>4, <2>5, <2>6, <2>7
<1>20. CASE DispatchStatus
  BY <1>20 DEF DispatchStatus
<1>21. CASE ReadFd
  BY <1>21 DEF ReadFd
<1>22. CASE SendState
  BY SMTT(30), <1>22 DEF SendState, SendWorks, Sent
<1>23. CASE SendStateFails
  BY <1>23 DEF SendStateFails, SendFails
<1>24. CASE MarkDropped
  BY SMTT(30), <1>24 DEF MarkDropped
<1>25. ASSUME NEW ch \in Chans, StopController(ch)
      PROVE  LifeInv'
  <2>1. MainArgument'
    BY <1>25 DEF StopController, Current
  <2>2. LiveInSlot'
    BY SMTT(30), <1>25 DEF StopController, Current
  <2>3. SocketByPlace'
    BY <1>25 DEF StopController, Current
  <2>4. Ended'
    BY <1>25 DEF StopController, Current
  <2>5. StopUnderWay'
    BY <1>25 DEF StopController, Current
  <2>6. Owned'
    <3>1. \A x \in Ctls : ctl'[x].sockfd = ctl[x].sockfd
      BY <1>25 DEF StopController
    <3> QED
      BY <1>25, <3>1 DEF StopController
  <2> QED
    BY <2>1, <2>2, <2>3, <2>4, <2>5, <2>6
<1>26. ASSUME NEW ch \in Chans, Configure(ch)
      PROVE  LifeInv'
  BY <1>26 DEF Configure
<1>27. CASE Wake
  BY <1>27 DEF Wake
<1>28. CASE Shutdown
  BY SMTT(30), <1>28 DEF Shutdown, Shut
<1>29. CASE Join
  BY SMTT(30), <1>29 DEF Join, Joinable, Closed
<1>30. CASE Destroy
  <2>1. MainArgument'
    BY <1>30 DEF Destroy
  <2>2. LiveInSlot'
    BY <1>30, Destroyed
  <2>3. SocketByPlace'
    BY <1>30 DEF Destroy
  <2>4. Ended'
    BY <1>30 DEF Destroy
  <2>5. StopUnderWay'
    BY <1>30 DEF Destroy
  <2>6. Owned'
    BY <1>30 DEF Destroy
  <2> QED
    BY <2>1, <2>2, <2>3, <2>4, <2>5, <2>6
<1>31. CASE StartController
  <2>1. MainArgument'
    BY <1>31 DEF StartController, NewController
  <2>2. LiveInSlot'
    BY <1>31 DEF StartController, NewController
  <2>3. SocketByPlace'
    BY <1>31 DEF StartController, NewController
  <2>4. Ended'
    BY <1>31 DEF StartController, NewController
  <2>5. StopUnderWay'
    BY <1>31 DEF StartController, NewController
  <2>6. Owned'
    <3>1. \A x \in Ctls : ctl'[x].sockfd = ctl[x].sockfd
      BY <1>31, Created
    <3> QED
      BY <1>31, <3>1 DEF StartController
  <2> QED
    BY <2>1, <2>2, <2>3, <2>4, <2>5, <2>6
<1>32. CASE LeaveWithout
  BY <1>32 DEF LeaveWithout
<1>33. CASE UNCHANGED vars
  BY <1>33 DEF vars
<1> QED
  BY Zenon, <1>1, <1>2, <1>3, <1>4, <1>5, <1>6, <1>7, <1>8, <1>9, <1>10,
     <1>11, <1>12, <1>13, <1>14, <1>15, <1>16, <1>17, <1>18, <1>19, <1>20,
     <1>21, <1>22, <1>23, <1>24, <1>25, <1>26, <1>27, <1>28, <1>29, <1>30,
     <1>31, <1>32, <1>33
  DEF Next, MainStep, ListenerStep

-----------------------------------------------------------------------------
\* No channel has a controller when the program starts, and no socket is open.
LEMMA Start == Init => IInv
<1> SUFFICES ASSUME Init PROVE IInv
  OBVIOUS
<1>1. TypeOK
  <2>1. NewController("none", "none") \in Controllers
    BY DelayAssumption DEF NewController, Controllers, ListenerPCs
  <2>2. Free \in Sockets /\ AtRest \in MainPlaces
    BY DEF Free, Sockets, Links, AtRest, MainPlaces
  <2>3. 0 \in 0 .. MaxGen
    BY GenAssumption
  <2> QED
    BY <2>1, <2>2, <2>3, ModeAssumption DEF Init, TypeOK, Strips
<1>2. \A c \in Ctls : /\ ctl[c].life = "none" /\ ctl[c].pc = "none" /\ ctl[c].sockfd = None
                      /\ ~ctl[c].connected
  BY DEF Init, NewController
<1>3. main.op = "rest"
  BY DEF Init, AtRest
<1>4. LiveInSlot
  <2>1. \A c \in Ctls : slot[c[1]] # c[2]
    BY CtlIds DEF Init
  <2> QED
    BY <1>2, <2>1 DEF LiveInSlot
<1>5. MainArgument /\ StopUnderWay
  BY <1>3 DEF MainArgument, StopUnderWay, Stopping
<1>6. SocketByPlace /\ Ended /\ Owned
  BY <1>2 DEF SocketByPlace, Ended, Owned, HoldsSocket, Init
<1> QED
  BY <1>1, <1>4, <1>5, <1>6 DEF IInv, LifeInv

\* The invariant holds of every behaviour.
THEOREM Invariance == Spec => []IInv
<1>1. IInv /\ [Next]_vars => IInv'
  BY TypeStep, LifeStep DEF IInv, LifeInv
<1> QED
  BY Start, <1>1, PTL DEF Spec

\* SessionsSound of every behaviour: every open socket is the session of the one controller that
\* holds its descriptor, connected means there is one, and a freed controller is quiet.
THEOREM SessionsAlwaysSound == Spec => []SessionsSound
<1>1. ASSUME IInv PROVE SessionsSound
  <2>1. TypeOK /\ LiveInSlot /\ SocketByPlace /\ Ended /\ Owned
    BY <1>1 DEF IInv, LifeInv
  <2>2. SocketsAccounted
    BY <2>1 DEF Owned, SocketsAccounted
  <2>3. ConnectedHasSocket
    BY <2>1 DEF SocketByPlace, ConnectedHasSocket, HoldsSocket
  <2>4. FreedIsQuiet
    BY <2>1 DEF LiveInSlot, SocketByPlace, Ended, FreedIsQuiet, HoldsSocket, Chan
  <2> QED
    BY <2>1, <2>2, <2>3, <2>4 DEF SessionsSound
<1> QED
  BY Invariance, <1>1, PTL

-----------------------------------------------------------------------------
(* The statuses in the queue: their order, and the session the last of     *)
(* them tells of.                                                          *)

\* A callback that is no status of c is queued.
LEMMA TurnKept ==
    ASSUME NEW q \in Seq(Callbacks), NEW e \in Callbacks, NEW c \in Ctls, NEW b \in BOOLEAN,
           InTurn(q, c, b), e.c # c \/ e.what = "command"
    PROVE  InTurn(Append(q, e), c, b)
<1> DEFINE p == Append(q, e)
<1>1. \A i \in DOMAIN q : i \in DOMAIN p /\ p[i] = q[i]
  OBVIOUS
<1>2. \A i \in DOMAIN p : i \notin DOMAIN q => p[i] = e
  OBVIOUS
<1>3. StatusAt(p, c) = StatusAt(q, c)
  BY <1>1, <1>2 DEF StatusAt
<1>4. \A i \in StatusAt(q, c) : p[i] = q[i]
  BY <1>1 DEF StatusAt
<1> HIDE DEF p
<1>5. InTurn(p, c, b)
  BY <1>3, <1>4 DEF InTurn
<1> QED
  BY <1>5 DEF p

\* A status of c is queued that says what the last one did not.
LEMMA TurnTurns ==
    ASSUME NEW q \in Seq(Callbacks), NEW e \in Callbacks, NEW c \in Ctls, NEW b \in BOOLEAN,
           InTurn(q, c, b), e.c = c, e.what \in {"up", "down"}, e.what = "up" <=> ~b
    PROVE  InTurn(Append(q, e), c, ~b)
<1> DEFINE p == Append(q, e)
           n == Len(q) + 1
<1>1. \A i \in DOMAIN q : i \in DOMAIN p /\ p[i] = q[i] /\ i < n
  OBVIOUS
<1>2. n \in DOMAIN p /\ n \in Nat /\ p[n] = e
  OBVIOUS
<1>3. \A i \in DOMAIN p : i \in DOMAIN q \/ i = n
  OBVIOUS
<1>4. \A i \in StatusAt(q, c) : i \in DOMAIN q /\ i \in Nat
  BY DEF StatusAt
<1> HIDE DEF p, n
<1>5. StatusAt(p, c) = StatusAt(q, c) \cup {n}
  BY <1>1, <1>2, <1>3 DEF StatusAt
<1>6. ASSUME NEW i \in StatusAt(q, c)
      PROVE  /\ \A j \in StatusAt(p, c) :
                   i < j /\ (\A k \in StatusAt(p, c) : k <= i \/ j <= k) => p[i].what # p[j].what
             /\ ~(\A k \in StatusAt(p, c) : k <= i)
  <2>1. i < n /\ i \in Nat /\ p[i] = q[i] /\ q[i].what \in {"up", "down", "command"}
    <3>1. i \in DOMAIN q
      BY <1>4
    <3>2. q[i] \in Callbacks
      BY <3>1
    <3> QED
      BY <1>1, <1>4, <3>2 DEF Callbacks
  <2>2. ~(\A k \in StatusAt(p, c) : k <= i)
    BY <1>2, <1>5, <2>1
  <2>3. ASSUME NEW j \in StatusAt(q, c), i < j, \A k \in StatusAt(p, c) : k <= i \/ j <= k
        PROVE  p[i].what # p[j].what
    <3>1. \A k \in StatusAt(q, c) : k <= i \/ j <= k
      BY <1>5, <2>3
    <3>2. q[i].what # q[j].what
      BY <2>3, <3>1 DEF InTurn
    <3> QED
      BY <1>1, <1>4, <2>1, <3>2
  <2>4. ASSUME \A k \in StatusAt(p, c) : k <= i \/ n <= k
        PROVE  p[i].what # p[n].what
    <3>1. \A k \in StatusAt(q, c) : k <= i
      BY <1>1, <1>2, <1>4, <1>5, <2>1, <2>4
    <3>2. q[i].what = "up" <=> b
      BY <3>1 DEF InTurn
    <3> QED
      BY <1>2, <2>1, <3>2
  <2> QED
    BY <1>5, <2>2, <2>3, <2>4
<1>7. ASSUME NEW j \in StatusAt(p, c), n < j
      PROVE  FALSE
  BY <1>1, <1>2, <1>4, <1>5, <1>7
<1>8. p[n].what = "up" <=> ~b
  BY <1>2
<1>9. \A i \in StatusAt(p, c) :
         /\ \A j \in StatusAt(p, c) :
               i < j /\ (\A k \in StatusAt(p, c) : k <= i \/ j <= k) => p[i].what # p[j].what
         /\ (\A k \in StatusAt(p, c) : k <= i) => (p[i].what = "up" <=> ~b)
  BY <1>5, <1>6, <1>7, <1>8
<1> QED
  BY <1>9 DEF InTurn, p

\* The oldest callback is taken.
LEMMA TurnTaken ==
    ASSUME NEW q \in Seq(Callbacks), q # <<>>, NEW c \in Ctls, NEW b \in BOOLEAN, InTurn(q, c, b)
    PROVE  InTurn(Tail(q), c, b)
<1> DEFINE p == Tail(q)
<1>1. \A i \in DOMAIN p : i \in Nat /\ i >= 1 /\ i + 1 \in DOMAIN q /\ p[i] = q[i + 1]
  OBVIOUS
<1>2. \A m \in DOMAIN q : m \in Nat /\ (m = 1 \/ m - 1 \in DOMAIN p)
  OBVIOUS
<1>3. \A i \in StatusAt(p, c) : i \in DOMAIN p /\ i \in Nat /\ i >= 1 /\ i + 1 \in StatusAt(q, c)
                                /\ p[i] = q[i + 1]
  BY <1>1 DEF StatusAt
<1>4. \A m \in StatusAt(q, c) : m \in Nat /\ (m = 1 \/ m - 1 \in StatusAt(p, c))
  <2>1. ASSUME NEW m \in StatusAt(q, c), m # 1
        PROVE  m - 1 \in StatusAt(p, c)
    <3>1. m \in DOMAIN q /\ m - 1 \in DOMAIN p /\ m \in Nat
      BY <1>2, <2>1 DEF StatusAt
    <3>2. p[m - 1] = q[m - 1 + 1] /\ m - 1 + 1 = m
      BY <1>1, <3>1
    <3> QED
      BY <3>1, <3>2 DEF StatusAt
  <2> QED
    BY <1>2, <2>1 DEF StatusAt
<1> HIDE DEF p
<1>5. ASSUME NEW i \in StatusAt(p, c), NEW j \in StatusAt(p, c),
             i < j, \A k \in StatusAt(p, c) : k <= i \/ j <= k
      PROVE  p[i].what # p[j].what
  <2>1. ASSUME NEW m \in StatusAt(q, c)
        PROVE  m <= i + 1 \/ j + 1 <= m
    <3>1. m \in Nat /\ i \in Nat /\ j \in Nat /\ i >= 1
      BY <1>3, <1>4
    <3>2. CASE m = 1
      BY <3>1, <3>2
    <3>3. CASE m # 1
      <4>1. m - 1 \in StatusAt(p, c)
        BY <1>4, <3>3
      <4> QED
        BY <1>5, <3>1, <4>1
    <3> QED
      BY <3>2, <3>3
  <2>2. i + 1 \in StatusAt(q, c) /\ j + 1 \in StatusAt(q, c) /\ i + 1 < j + 1
    BY <1>3, <1>5
  <2>3. q[i + 1].what # q[j + 1].what
    BY <2>1, <2>2 DEF InTurn
  <2> QED
    BY <1>3, <2>3
<1>6. ASSUME NEW i \in StatusAt(p, c), \A k \in StatusAt(p, c) : k <= i
      PROVE  p[i].what = "up" <=> b
  <2>1. ASSUME NEW m \in StatusAt(q, c)
        PROVE  m <= i + 1
    <3>1. m \in Nat /\ i \in Nat /\ i >= 1
      BY <1>3, <1>4
    <3>2. m = 1 \/ m - 1 <= i
      BY <1>4, <1>6
    <3> QED
      BY <3>1, <3>2
  <2>2. i + 1 \in StatusAt(q, c)
    BY <1>3
  <2>3. q[i + 1].what = "up" <=> b
    BY <2>1, <2>2 DEF InTurn
  <2> QED
    BY <1>3, <2>3
<1> QED
  BY <1>5, <1>6 DEF InTurn, p

\* A step that queues nothing and moves no listener into or out of a session.
LEMMA TurnUnmoved ==
    ASSUME StatusInTurn, queue' = queue,
           \A d \in Ctls : ctl'[d].pc \in InSession <=> ctl[d].pc \in InSession
    PROVE  StatusInTurn'
BY DEF StatusInTurn, InTurn, StatusAt

\* A listener queues a status of its own and enters or leaves a session with it.
LEMMA StatusPosted ==
    ASSUME TypeOK, StatusInTurn, NEW c \in Ctls, NEW what \in {"up", "down"}, Post(c, what),
           NEW place \in ListenerPCs, Goto(c, place),
           what = "up" <=> ctl[c].pc \notin InSession,
           place \in InSession <=> ctl[c].pc \notin InSession
    PROVE  StatusInTurn'
<1> DEFINE e == [c |-> c, what |-> what]
<1>1. e \in Callbacks /\ queue \in Seq(Callbacks) /\ queue' = Append(queue, e)
  BY DEF TypeOK, Callbacks, Post
<1>2. ctl'[c].pc = place /\ \A d \in Ctls \ {c} : ctl'[d] = ctl[d]
  BY DEF TypeOK, Goto
<1>3. InTurn(Append(queue, e), c, ctl'[c].pc \in InSession)
  <2>1. InTurn(queue, c, ctl[c].pc \in InSession)
    BY DEF StatusInTurn
  <2>2. (ctl[c].pc \in InSession) \in BOOLEAN /\ e.c = c /\ e.what \in {"up", "down"}
    OBVIOUS
  <2>3. e.what = "up" <=> ~(ctl[c].pc \in InSession)
    OBVIOUS
  <2> HIDE DEF e
  <2>4. InTurn(Append(queue, e), c, ~(ctl[c].pc \in InSession))
    BY <1>1, <2>1, <2>2, <2>3, TurnTurns
  <2>5. (ctl'[c].pc \in InSession) = ~(ctl[c].pc \in InSession)
    BY <1>2
  <2> QED
    BY <2>4, <2>5
<1>4. ASSUME NEW d \in Ctls, d # c
      PROVE  InTurn(Append(queue, e), d, ctl'[d].pc \in InSession)
  <2>1. InTurn(queue, d, ctl[d].pc \in InSession) /\ (ctl[d].pc \in InSession) \in BOOLEAN
    BY DEF StatusInTurn
  <2>2. e.c # d
    BY <1>4
  <2> HIDE DEF e
  <2>3. InTurn(Append(queue, e), d, ctl[d].pc \in InSession)
    BY <1>1, <2>1, <2>2, TurnKept
  <2> QED
    BY <1>2, <1>4, <2>3
<1> HIDE DEF e
<1> QED
  BY <1>1, <1>3, <1>4 DEF StatusInTurn

\* A console's button press is queued.
LEMMA CommandPosted ==
    ASSUME TypeOK, StatusInTurn, NEW c \in Ctls, Post(c, "command"),
           \A d \in Ctls : ctl'[d].pc \in InSession <=> ctl[d].pc \in InSession
    PROVE  StatusInTurn'
<1> DEFINE e == [c |-> c, what |-> "command"]
<1>1. e \in Callbacks /\ e.what = "command" /\ queue \in Seq(Callbacks) /\ queue' = Append(queue, e)
  BY DEF TypeOK, Callbacks, Post
<1> HIDE DEF e
<1>2. ASSUME NEW d \in Ctls
      PROVE  InTurn(Append(queue, e), d, ctl'[d].pc \in InSession)
  <2>1. InTurn(queue, d, ctl[d].pc \in InSession) /\ (ctl[d].pc \in InSession) \in BOOLEAN
    BY DEF StatusInTurn
  <2>2. InTurn(Append(queue, e), d, ctl[d].pc \in InSession)
    BY <1>1, <2>1, TurnKept
  <2>3. (ctl'[d].pc \in InSession) = (ctl[d].pc \in InSession)
    OBVIOUS
  <2> QED
    BY <2>2, <2>3
<1> QED
  BY <1>1, <1>2 DEF StatusInTurn

\* The window takes the oldest callback.
LEMMA CallbackTaken ==
    ASSUME TypeOK, StatusInTurn, queue # <<>>, queue' = Tail(queue), ctl' = ctl
    PROVE  StatusInTurn'
<1>1. queue \in Seq(Callbacks)
  BY DEF TypeOK
<1>2. ASSUME NEW d \in Ctls
      PROVE  InTurn(Tail(queue), d, ctl[d].pc \in InSession)
  <2>1. InTurn(queue, d, ctl[d].pc \in InSession) /\ (ctl[d].pc \in InSession) \in BOOLEAN
    BY DEF StatusInTurn
  <2> QED
    BY <1>1, <2>1, TurnTaken
<1> QED
  BY <1>2 DEF StatusInTurn

\* Every step keeps the statuses in turn.
LEMMA StatusStep ==
    ASSUME IInv, StatusInTurn, [Next]_vars
    PROVE  StatusInTurn'
<1>. USE DEF ListenerPCs, InSession
<1>0. TypeOK /\ Ended /\ MainArgument
  BY DEF IInv, LifeInv
<1>1. ASSUME NEW c \in Ctls, ListenerStep(c)
      PROVE  StatusInTurn'
  <2>1. CASE PostUp(c)
    BY <1>0, <2>1, StatusPosted DEF PostUp, At
  <2>2. CASE PostDown(c)
    BY <1>0, <2>2, StatusPosted DEF PostDown, At
  <2>3. CASE Check(c)
    BY <1>0, <2>3, TurnUnmoved DEF Check, At, Goto, TypeOK
  <2>4. CASE TcpConnects(c)
    BY <1>0, <2>4, TurnUnmoved DEF TcpConnects, At, TypeOK
  <2>5. CASE TcpFails(c)
    BY <1>0, <2>5, TurnUnmoved DEF TcpFails, At, Goto, TypeOK
  <2>6. CASE Subscribed(c)
    BY <1>0, <2>6, TurnUnmoved DEF Subscribed, At, Goto, TypeOK
  <2>7. CASE SubscribeFails(c)
    BY <1>0, <2>7, TurnUnmoved DEF SubscribeFails, At, TypeOK
  <2>8. CASE Announce(c)
    BY <1>0, <2>8, TurnUnmoved DEF Announce, At, TypeOK
  <2>9. CASE ReadLoop(c)
    BY <1>0, <2>9, TurnUnmoved DEF ReadLoop, At, Goto, TypeOK
  <2>10. CASE RecvEnds(c)
    BY <1>0, <2>10, TurnUnmoved DEF RecvEnds, AfterEnd, At, Goto, TypeOK
  <2>11. CASE Leave(c)
    BY <1>0, <2>11, TurnUnmoved DEF Leave, At, TypeOK
  <2>12. CASE Disconnect(c)
    BY <1>0, <2>12, TurnUnmoved DEF Disconnect, At, TypeOK
  <2>13. CASE Backoff(c)
    BY <1>0, <2>13, TurnUnmoved DEF Backoff, At, TypeOK
  <2>14. CASE SleepChunk(c)
    BY <1>0, <2>14, TurnUnmoved DEF SleepChunk, At, TypeOK
  <2> QED
    BY <1>1, <2>1, <2>2, <2>3, <2>4, <2>5, <2>6, <2>7, <2>8, <2>9, <2>10, <2>11, <2>12, <2>13,
       <2>14 DEF ListenerStep
<1>2. ASSUME NEW c \in Ctls, RecvData(c)
      PROVE  StatusInTurn'
  <2>1. \A d \in Ctls : ctl'[d].pc \in InSession <=> ctl[d].pc \in InSession
    BY <1>0, <1>2 DEF RecvData, At, Goto, TypeOK
  <2>2. Post(c, "command") \/ queue' = queue
    BY <1>2 DEF RecvData
  <2> QED
    BY <1>0, <2>1, <2>2, CommandPosted, TurnUnmoved
<1>3. ASSUME MainStep
      PROVE  StatusInTurn'
  <2>1. CASE DispatchCommand
    BY <1>0, <2>1, CallbackTaken DEF DispatchCommand
  <2>2. CASE DispatchStatus
    BY <1>0, <2>2, CallbackTaken DEF DispatchStatus
  <2>3. CASE ReadFd \/ SendState \/ SendStateFails \/ Wake \/ Shutdown \/ LeaveWithout
    BY <1>0, <2>3, TurnUnmoved
       DEF ReadFd, SendState, SendStateFails, Wake, Shutdown, LeaveWithout
  <2>4. CASE MarkDropped
    BY <1>0, <2>4, TurnUnmoved DEF MarkDropped, TypeOK
  <2>5. CASE Join
    BY <1>0, <2>5, TurnUnmoved DEF Join, TypeOK
  <2>6. CASE Destroy
    BY <1>0, <2>6, TurnUnmoved DEF Destroy, TypeOK
  <2>7. CASE StartController
    <3>1. PICK g \in 1 .. MaxGen :
             /\ ctl[<<main.c, g>>].life = "none"
             /\ ctl' = [ctl EXCEPT ![<<main.c, g>>] = NewController("live", "check")]
      BY <2>7 DEF StartController
    <3>2. <<main.c, g>> \in Ctls
      BY <1>0, <2>7 DEF MainArgument, StartController, Ctls
    <3>3. ctl[<<main.c, g>>].pc = "none"
      BY <1>0, <3>1, <3>2 DEF Ended
    <3>4. \A d \in Ctls : ctl'[d].pc \in InSession <=> ctl[d].pc \in InSession
      BY <1>0, <3>1, <3>2, <3>3 DEF TypeOK, NewController
    <3> QED
      BY <1>0, <2>7, <3>4, TurnUnmoved DEF StartController
  <2> QED
    BY <1>3, <2>1, <2>2, <2>3, <2>4, <2>5, <2>6, <2>7 DEF MainStep
<1>4. ASSUME NEW ch \in Chans,
             StopController(ch) \/ Configure(ch) \/ \E m \in Modes : ChangeMode(ch, m)
      PROVE  StatusInTurn'
  <2>1. \A d \in Ctls : ctl'[d].pc = ctl[d].pc
    <3>1. ctl' = ctl \/ ctl' = [ctl EXCEPT ![Current(ch)].running = FALSE]
      BY <1>4 DEF StopController, Configure, ChangeMode
    <3>2. \A d \in Ctls : [ctl EXCEPT ![Current(ch)].running = FALSE][d].pc = ctl[d].pc
      BY <1>0 DEF TypeOK, Controllers
    <3> QED
      BY <3>1, <3>2
  <2>2. queue' = queue
    BY <1>4 DEF StopController, Configure, ChangeMode
  <2> QED
    BY <1>0, <2>1, <2>2, TurnUnmoved
<1>5. ASSUME NEW f \in Fds, Drop(f) \/ GiveUp(f)
      PROVE  StatusInTurn'
  BY <1>0, <1>5, TurnUnmoved DEF Drop, GiveUp
<1>6. CASE UNCHANGED vars
  BY <1>0, <1>6, TurnUnmoved DEF vars
<1> QED
  BY <1>1, <1>2, <1>3, <1>4, <1>5, <1>6 DEF Next

-----------------------------------------------------------------------------
(* Numbers: the greatest of a set, and induction up to one.                *)

\* Of a set of subsets of a finite set one has none of the others in it.
HasSmallest(F) == \E T \in F : \A U \in F : U \subseteq T => U = T

LEMMA SmallestSubset ==
  ASSUME NEW S, IsFiniteSet(S), NEW F, F \subseteq SUBSET S, F # {}
  PROVE  HasSmallest(F)
<1>1. IsWellFoundedOn(StrictSubsetOrdering(S), SUBSET S)
  BY FS_StrictSubsetOrderingWellFounded, FS_FiniteSubsetsOfFinite
<1>2. PICK T \in F : \A U \in F : <<U, T>> \notin StrictSubsetOrdering(S)
  BY <1>1, WFMin
<1>. QED BY <1>2 DEF StrictSubsetOrdering, HasSmallest

LEMMA FiniteInterval ==
  ASSUME NEW m \in Int, NEW n \in Int
  PROVE  IsFiniteSet(m .. n)
BY FS_Interval

LEMMA Greatest ==
  ASSUME NEW n \in Nat, NEW K, K \subseteq 1 .. n, K # {}
  PROVE  \E k \in K : \A j \in K : k >= j
<1> DEFINE S == 1 .. n  F == {k + 1 .. n : k \in K}
<1>1. IsFiniteSet(S) /\ F \subseteq SUBSET S /\ F # {}
  <2>1. IsFiniteSet(S)
    <3>1. 1 \in Int /\ n \in Int
      OBVIOUS
    <3>. QED BY <3>1, FiniteInterval
  <2>2. ASSUME NEW k \in K PROVE k + 1 .. n \subseteq S
    <3>1. k \in 1 .. n
      OBVIOUS
    <3>. QED BY <3>1
  <2>. QED BY <2>1, <2>2
<1>2. PICK T \in F : \A U \in F : U \subseteq T => U = T
  <2>1. HasSmallest(F)
    <3> HIDE DEF F, S
    <3>. QED BY <1>1, SmallestSubset
  <2>. QED BY <2>1 DEF HasSmallest
<1>3. PICK k \in K : T = k + 1 .. n
  OBVIOUS
<1>4. ASSUME NEW j \in K, ~(k >= j) PROVE FALSE
  <2>1. k \in 1 .. n /\ j \in 1 .. n /\ j > k
    BY <1>4
  <2>2. j + 1 .. n \in F /\ j + 1 .. n \subseteq T /\ j \in T /\ j \notin j + 1 .. n
    BY <1>3, <2>1
  <2>. QED BY <1>2, <2>2
<1>. QED BY <1>4

\* Induction up to a number.
LEMMA UpTo ==
  ASSUME NEW n \in Nat, NEW K, 0 \in K, \A k \in 1 .. n : k - 1 \in K => k \in K
  PROVE  \A k \in 0 .. n : k \in K
<1> DEFINE S == 0 .. n  F == {0 .. k : k \in (0 .. n) \ K}
<1> SUFFICES ASSUME NEW b \in 0 .. n, b \notin K PROVE FALSE
  OBVIOUS
<1>1. IsFiniteSet(S) /\ F \subseteq SUBSET S /\ F # {}
  <2>1. IsFiniteSet(S)
    <3>1. 0 \in Int /\ n \in Int
      OBVIOUS
    <3>. QED BY <3>1, FiniteInterval
  <2>2. ASSUME NEW k \in 0 .. n PROVE 0 .. k \subseteq S
    OBVIOUS
  <2>. QED BY <2>1, <2>2
<1>2. PICK T \in F : \A U \in F : U \subseteq T => U = T
  <2>1. HasSmallest(F)
    <3> HIDE DEF F, S
    <3>. QED BY <1>1, SmallestSubset
  <2>. QED BY <2>1 DEF HasSmallest
<1>3. PICK k \in (0 .. n) \ K : T = 0 .. k
  OBVIOUS
<1>4. k \in 1 .. n /\ k - 1 \in 0 .. n
  BY <1>3
<1>5. k - 1 \notin K
  BY <1>3, <1>4
<1>6. 0 .. k - 1 \in F /\ 0 .. k - 1 \subseteq T /\ k \in T /\ k \notin 0 .. k - 1
  BY <1>3, <1>4, <1>5
<1>. QED BY <1>2, <1>6

-----------------------------------------------------------------------------
(* The lines of a stream of symbols.                                       *)

Pushes == {"play_pause", "preview_toggle"}

LEMMA LineStarts ==
    ASSUME NEW s \in Seq(Axia!Symbols), NEW i \in 1 .. Len(s) + 1
    PROVE  \E j \in 1 .. i : Axia!Begins(s, i, j)
<1> DEFINE K == {k \in 1 .. i - 1 : s[k] = Nl}
<1>1. CASE K = {}
  <2>1. 1 \in 1 .. i /\ Axia!Begins(s, i, 1)
    BY <1>1 DEF Axia!Begins
  <2> QED
    BY <2>1
<1>2. CASE K # {}
  <2>1. i - 1 \in Nat /\ K \subseteq 1 .. i - 1
    OBVIOUS
  <2>2. PICK k \in K : \A j \in K : k >= j
    <3> HIDE DEF K
    <3> QED
      BY <1>2, <2>1, Greatest
  <2>3. k + 1 \in 1 .. i /\ Axia!Begins(s, i, k + 1)
    BY <2>2 DEF Axia!Begins
  <2> QED
    BY <2>3
<1> QED
  BY <1>1, <1>2

LEMMA OneStart ==
    ASSUME NEW s \in Seq(Axia!Symbols), NEW i \in 1 .. Len(s) + 1,
           NEW j \in 1 .. i, Axia!Begins(s, i, j), NEW k \in 1 .. i, Axia!Begins(s, i, k)
    PROVE  j = k
BY DEF Axia!Begins

\* Where a line begins is what it is.
Cut(s, i, j) == SubSeq(s, j, IF i - j > MaxLine THEN j + MaxLine - 1 ELSE i - 1)

LEMMA CutIs ==
    ASSUME NEW s, NEW i \in Int, NEW j \in Int
    PROVE  /\ i - j > MaxLine => Cut(s, i, j) = SubSeq(s, j, j + MaxLine - 1)
           /\ i - j <= MaxLine => Cut(s, i, j) = SubSeq(s, j, i - 1)
BY SizeAssumption DEF Cut, Axia!Sizes

LEMMA LineIs ==
    ASSUME NEW s \in Seq(Axia!Symbols), NEW i \in 1 .. Len(s) + 1,
           NEW j \in 1 .. i, Axia!Begins(s, i, j)
    PROVE  Axia!LineTo(s, i) = Cut(s, i, j)
<1> DEFINE from == CHOOSE k \in 1 .. i : Axia!Begins(s, i, k)
<1>1. from \in 1 .. i /\ Axia!Begins(s, i, from)
  OBVIOUS
<1> HIDE DEF from
<1>2. from = j
  BY <1>1, OneStart
<1>3. Axia!LineTo(s, i) = Cut(s, i, from)
  BY DEF Axia!LineTo, Cut, from
<1> QED
  BY <1>2, <1>3

\* What is appended to a stream changes nothing before it.
LEMMA CutBefore ==
    ASSUME NEW s \in Seq(Axia!Symbols), NEW c \in Axia!Symbols,
           NEW from \in 1 .. Len(s) + 1, NEW to \in 0 .. Len(s)
    PROVE  SubSeq(Append(s, c), from, to) = SubSeq(s, from, to)
OBVIOUS

LEMMA LineExtends ==
    ASSUME NEW s \in Seq(Axia!Symbols), NEW c \in Axia!Symbols, NEW i \in 1 .. Len(s) + 1
    PROVE  Axia!LineTo(Append(s, c), i) = Axia!LineTo(s, i)
<1>1. PICK j \in 1 .. i : Axia!Begins(s, i, j)
  BY LineStarts
<1>2. Append(s, c) \in Seq(Axia!Symbols) /\ i \in 1 .. Len(Append(s, c)) + 1
  OBVIOUS
<1>3. Axia!Begins(Append(s, c), i, j)
  <2>1. \A k \in 1 .. i - 1 : Append(s, c)[k] = s[k]
    OBVIOUS
  <2> QED
    BY <1>1, <2>1 DEF Axia!Begins
<1>4. Axia!LineTo(s, i) = Cut(s, i, j) /\ Axia!LineTo(Append(s, c), i) = Cut(Append(s, c), i, j)
  BY <1>1, <1>2, <1>3, LineIs
<1>5. Cut(Append(s, c), i, j) = Cut(s, i, j)
  <2> DEFINE to == IF i - j > MaxLine THEN j + MaxLine - 1 ELSE i - 1
  <2>1. MaxLine \in Nat \ {0}
    BY SizeAssumption DEF Axia!Sizes
  <2>2. to \in 0 .. Len(s) /\ j \in 1 .. Len(s) + 1
    BY <2>1
  <2> HIDE DEF to
  <2>3. SubSeq(Append(s, c), j, to) = SubSeq(s, j, to)
    BY <2>2, CutBefore
  <2> QED
    BY <2>3 DEF Cut, to
<1> QED
  BY <1>4, <1>5

\* The line under way after one symbol more is what the buffer holds of it.
LEMMA LineGrows ==
    ASSUME NEW s \in Seq(Axia!Symbols), NEW c \in Axia!Symbols,
           NEW a \in Nat, a = Len(s) + 1, NEW b \in Nat, b = Len(s) + 2
    PROVE  Axia!LineTo(Append(s, c), b) = Axia!NextLine(Axia!LineTo(s, a), c)
<1> DEFINE t == Append(s, c)
<1>1. /\ a \in 1 .. Len(s) + 1 /\ b \in 1 .. Len(t) + 1 /\ b = a + 1 /\ a >= 1
      /\ t \in Seq(Axia!Symbols) /\ t[a] = c /\ \A k \in 1 .. a - 1 : t[k] = s[k]
  OBVIOUS
<1>2. MaxLine \in Nat \ {0}
  BY SizeAssumption DEF Axia!Sizes
<1>3. PICK j \in 1 .. a : Axia!Begins(s, a, j)
  BY <1>1, LineStarts
<1>4. Axia!LineTo(s, a) = Cut(s, a, j) /\ j \in Int /\ j >= 1 /\ j <= a
  BY <1>1, <1>3, LineIs
<1>5. CASE c = Nl
  <2> HIDE DEF t
  <2>1. b \in 1 .. b /\ Axia!Begins(t, b, b)
    BY <1>1, <1>5 DEF Axia!Begins
  <2>2. Axia!LineTo(t, b) = Cut(t, b, b)
    BY <1>1, <2>1, LineIs
  <2>3. Cut(t, b, b) = SubSeq(t, b, b - 1)
    BY <1>2, CutIs
  <2>4. SubSeq(t, b, b - 1) = <<>>
    BY <1>1
  <2> QED
    BY <1>5, <2>2, <2>3, <2>4 DEF Axia!NextLine, t
<1>6. CASE c # Nl
  <2>1. j \in 1 .. b /\ Axia!Begins(t, b, j)
    <3> HIDE DEF t
    <3>1. \A k \in j .. a - 1 : s[k] # Nl
      BY <1>3 DEF Axia!Begins
    <3>2. \A k \in j .. b - 1 : k = a \/ (k \in j .. a - 1 /\ k \in 1 .. a - 1)
      BY <1>1, <1>4
    <3>3. \A k \in j .. b - 1 : t[k] # Nl
      BY <1>1, <1>6, <3>1, <3>2
    <3>4. j > 1 => j - 1 \in 1 .. a - 1 /\ s[j - 1] = Nl
      BY <1>3, <1>4 DEF Axia!Begins
    <3> QED
      BY <1>1, <1>4, <3>3, <3>4 DEF Axia!Begins
  <2>2. Axia!LineTo(t, b) = Cut(t, b, j)
    <3> HIDE DEF t
    <3> QED
      BY <1>1, <2>1, LineIs
  <2>3. CASE a - j < MaxLine
    <3>1. Cut(s, a, j) = SubSeq(s, j, a - 1)
      BY <1>2, <1>4, <2>3, CutIs
    <3>2. Cut(t, b, j) = SubSeq(t, j, b - 1)
      <4> HIDE DEF t
      <4>1. b - j <= MaxLine
        BY <1>1, <1>2, <1>4, <2>3
      <4> QED
        BY <1>4, <4>1, CutIs
    <3>3. Len(SubSeq(s, j, a - 1)) < MaxLine
      BY <1>2, <1>4, <2>3
    <3>4. SubSeq(t, j, b - 1) = Append(SubSeq(s, j, a - 1), c)
      BY <1>4
    <3> HIDE DEF t
    <3> QED
      BY <1>4, <1>6, <2>2, <3>1, <3>2, <3>3, <3>4 DEF Axia!NextLine, t
  <2>4. CASE a - j >= MaxLine
    <3> DEFINE to == j + MaxLine - 1
    <3>1. Cut(t, b, j) = SubSeq(t, j, to)
      <4> HIDE DEF t
      <4>1. b - j > MaxLine /\ b \in Int
        BY <1>1, <1>2, <1>4, <2>4
      <4>2. Cut(t, b, j) = SubSeq(t, j, j + MaxLine - 1)
        BY <1>4, <4>1, CutIs
      <4> QED
        BY <4>2
    <3>2. Cut(s, a, j) = SubSeq(s, j, to)
      <4>1. CASE a - j > MaxLine
        BY <1>4, <4>1, CutIs
      <4>2. CASE a - j = MaxLine
        <5>1. a - 1 = to /\ a - j <= MaxLine
          BY <1>1, <1>2, <1>4, <4>2
        <5> QED
          BY <1>4, <5>1, CutIs
      <4> QED
        BY <1>2, <1>4, <2>4, <4>1, <4>2
    <3>3. to \in 0 .. Len(s) /\ j \in 1 .. Len(s) + 1
      BY <1>2, <1>4, <2>4
    <3>4. SubSeq(t, j, to) = SubSeq(s, j, to)
      <4> HIDE DEF to
      <4> QED
        BY <3>3, CutBefore
    <3>5. ~(Len(SubSeq(s, j, to)) < MaxLine)
      BY <1>2, <3>3
    <3> HIDE DEF t, to
    <3> QED
      BY <1>4, <1>6, <2>2, <3>1, <3>2, <3>4, <3>5 DEF Axia!NextLine, t
  <2> QED
    BY <1>2, <1>4, <2>3, <2>4
<1> QED
  BY <1>5, <1>6

-----------------------------------------------------------------------------
(* The commands of the complete lines of a stream.                         *)

\* The recursion behind FlattenSeq.
Flat(t, f) == f = [i \in 1 .. Len(t) |-> IF i = 1 THEN t[i] ELSE f[i - 1] \o t[i]]

LEMMA FlatIs ==
    ASSUME NEW t
    PROVE  Axia!FlattenSeq(t) = IF Len(t) = 0 THEN t ELSE (CHOOSE f : Flat(t, f))[Len(t)]
BY DEF Axia!FlattenSeq, Flat

Upto(t, k, f) == f = [i \in 1 .. k |-> IF i = 1 THEN t[i] ELSE f[i - 1] \o t[i]]

LEMMA FlatExists ==
    ASSUME NEW V, NEW t \in Seq(V)
    PROVE  \E f : Flat(t, f)
<1> DEFINE n == Len(t)
           K == {k \in 0 .. n : \E f : Upto(t, k, f)}
<1>1. n \in Nat
  OBVIOUS
<1>2. 0 \in K
  <2> DEFINE f == [i \in 1 .. 0 |-> t[i]]
  <2>1. f = [i \in 1 .. 0 |-> IF i = 1 THEN t[i] ELSE f[i - 1] \o t[i]]
    OBVIOUS
  <2> HIDE DEF f
  <2>2. Upto(t, 0, f)
    BY <2>1 DEF Upto
  <2> QED
    BY <1>1, <2>2
<1>3. ASSUME NEW k \in 1 .. n, k - 1 \in K PROVE k \in K
  <2>1. PICK f : Upto(t, k - 1, f)
    BY <1>3
  <2> DEFINE G(i) == IF i = 1 THEN t[i] ELSE f[i - 1] \o t[i]
             g == [i \in 1 .. k |-> G(i)]
  <2>2. \A i \in 1 .. k - 1 : f[i] = G(i)
    BY <2>1 DEF Upto
  <2>3. ASSUME NEW i \in 1 .. k, i # 1 PROVE g[i - 1] = f[i - 1]
    <3>1. i - 1 \in 1 .. k - 1 /\ i - 1 \in 1 .. k
      BY <1>1, <2>3
    <3> QED
      BY <2>2, <3>1
  <2>4. g = [i \in 1 .. k |-> IF i = 1 THEN t[i] ELSE g[i - 1] \o t[i]]
    BY <2>3
  <2> HIDE DEF g
  <2>5. Upto(t, k, g)
    BY <2>4 DEF Upto
  <2> QED
    BY <1>1, <2>5
<1> HIDE DEF K
<1>4. \A k \in 1 .. n : k - 1 \in K => k \in K
  BY <1>3
<1>5. \A k \in 0 .. n : k \in K
  BY <1>1, <1>2, <1>4, UpTo, Zenon
<1>6. n \in K
  BY <1>1, <1>5
<1> QED
  BY <1>6 DEF K, Flat, Upto

\* One sequence more is flattened.
LEMMA FlatAppend ==
    ASSUME NEW V, NEW t \in Seq(Seq(V)), NEW x \in Seq(V)
    PROVE  Axia!FlattenSeq(Append(t, x)) = Axia!FlattenSeq(t) \o x
<1> DEFINE n == Len(t)
           u == Append(t, x)
           f == CHOOSE e : Flat(t, e)
           g == CHOOSE e : Flat(u, e)
<1>1. /\ n \in Nat /\ u \in Seq(Seq(V)) /\ Len(u) = n + 1 /\ u[n + 1] = x
      /\ \A k \in 1 .. n : u[k] = t[k]
  OBVIOUS
<1>2. Flat(t, f) /\ Flat(u, g)
  <2>1. (\E e : Flat(t, e)) /\ \E e : Flat(u, e)
    BY <1>1, FlatExists
  <2> QED
    BY <2>1
<1>3. Axia!FlattenSeq(u) = g[n + 1]
  <2> HIDE DEF u
  <2>1. Axia!FlattenSeq(u) = IF Len(u) = 0 THEN u ELSE g[Len(u)]
    BY FlatIs
  <2> QED
    BY <1>1, <2>1
<1> HIDE DEF f, g, u
<1>4. \A k \in 1 .. n : f[k] = IF k = 1 THEN t[k] ELSE f[k - 1] \o t[k]
  BY <1>2 DEF Flat
<1>5. \A k \in 1 .. n + 1 : g[k] = IF k = 1 THEN u[k] ELSE g[k - 1] \o u[k]
  BY <1>1, <1>2 DEF Flat
<1>6. CASE n = 0
  <2>1. g[n + 1] = x /\ t = <<>>
    BY <1>1, <1>5, <1>6
  <2>2. Axia!FlattenSeq(t) = <<>>
    BY <2>1, FlatIs
  <2> QED
    BY <1>3, <2>1, <2>2 DEF u
<1>7. CASE n # 0
  <2> DEFINE K == {k \in 0 .. n : k = 0 \/ g[k] = f[k]}
  <2>1. 0 \in K
    BY <1>1
  <2>2. ASSUME NEW k \in 1 .. n, k - 1 \in K PROVE k \in K
    <3>1. k \in 0 .. n /\ k \in 1 .. n + 1
      BY <1>1
    <3>2. k - 1 = 0 \/ g[k - 1] = f[k - 1]
      BY <2>2
    <3>3. CASE k = 1
      BY <1>1, <1>4, <1>5, <3>1, <3>3
    <3>4. CASE k # 1
      BY <1>1, <1>4, <1>5, <3>1, <3>2, <3>4
    <3> QED
      BY <3>3, <3>4
  <2>0. n \in Nat
    BY <1>1
  <2> HIDE DEF K, n
  <2>3. \A k \in 1 .. n : k - 1 \in K => k \in K
    BY <2>2
  <2>8. \A k \in 0 .. n : k \in K
    BY <2>0, <2>1, <2>3, UpTo
  <2>4. g[n] = f[n]
    BY <1>7, <2>0, <2>8 DEF K
  <2>5. PICK m \in 1 .. n + 1 : m = n + 1 /\ m # 1 /\ m - 1 = n
    BY <1>7, <2>0
  <2>6. g[m] = g[m - 1] \o u[m]
    BY <1>5, <2>5
  <2>7. Axia!FlattenSeq(t) = f[n]
    BY <1>7, FlatIs DEF f, n
  <2> QED
    BY <1>1, <1>3, <2>4, <2>5, <2>6, <2>7 DEF u
<1> QED
  BY <1>6, <1>7

\* What a line commands.
LEMMA CommandsTyped ==
    ASSUME NEW s
    PROVE  Axia!Commands(s) \in Seq(Pushes)
<1> DEFINE p == IF Axia!Pressed(Axia!PinsOf(s)[1]) THEN <<"play_pause">> ELSE <<>>
           q == IF Axia!Pressed(Axia!PinsOf(s)[2]) THEN <<"preview_toggle">> ELSE <<>>
<1>1. p \in Seq(Pushes) /\ q \in Seq(Pushes)
  BY DEF Pushes
<1>2. Axia!Commands(s) = p \o q \/ Axia!Commands(s) = <<>>
  BY DEF Axia!Commands
<1> HIDE DEF p, q
<1>3. p \o q \in Seq(Pushes) /\ <<>> \in Seq(Pushes)
  BY <1>1
<1> QED
  BY <1>2, <1>3, Zenon

LEMMA EmptyLine == Axia!Commands(<<>>) = <<>>
<1>1. Axia!Trimmed(<<>>) = <<>>
  BY DEF Axia!Trimmed
<1>2. ~Axia!IsGpi(<<>>)
  BY <1>1 DEF Axia!IsGpi
<1> QED
  BY <1>2 DEF Axia!Commands

\* The commands of a stream that is one symbol longer.
LineOf(s, i) == IF s[i] = Nl THEN Axia!Commands(Axia!LineTo(s, i)) ELSE <<>>

LEMMA DecodedEmpty == Axia!Decoded(<<>>) = <<>>
<1> DEFINE t == [i \in DOMAIN <<>> |-> LineOf(<<>>, i)]
<1>1. t = <<>>
  OBVIOUS
<1>2. Axia!Decoded(<<>>) = Axia!FlattenSeq(t)
  BY DEF Axia!Decoded, LineOf
<1> QED
  BY <1>1, <1>2, FlatIs

LEMMA DecodedGrows ==
    ASSUME NEW s \in Seq(Axia!Symbols), NEW c \in Axia!Symbols
    PROVE  Axia!Decoded(Append(s, c)) =
              Axia!Decoded(s) \o (IF c = Nl THEN Axia!Commands(Axia!LineTo(s, Len(s) + 1)) ELSE <<>>)
<1> DEFINE n == Len(s)
           r == Append(s, c)
           t == [i \in DOMAIN s |-> LineOf(s, i)]
           u == [i \in DOMAIN r |-> LineOf(r, i)]
           x == IF c = Nl THEN Axia!Commands(Axia!LineTo(s, n + 1)) ELSE <<>>
<1>1. /\ n \in Nat /\ DOMAIN s = 1 .. n /\ DOMAIN r = 1 .. n + 1 /\ r[n + 1] = c
      /\ \A i \in 1 .. n : r[i] = s[i]
  OBVIOUS
<1>2. x \in Seq(Pushes)
  BY CommandsTyped
<1>3. ASSUME NEW i \in 1 .. n PROVE LineOf(s, i) \in Seq(Pushes)
  BY CommandsTyped DEF LineOf
<1>4. t \in Seq(Seq(Pushes)) /\ Len(t) = n
  <2> HIDE DEF n
  <2>1. t \in [1 .. n -> Seq(Pushes)]
    BY <1>1, <1>3
  <2> HIDE DEF t
  <2> QED
    BY <1>1, <2>1
<1>5. ASSUME NEW i \in 1 .. n PROVE LineOf(r, i) = LineOf(s, i)
  <2>1. Axia!LineTo(r, i) = Axia!LineTo(s, i)
    BY LineExtends
  <2> QED
    BY <1>1, <2>1 DEF LineOf
<1>6. LineOf(r, n + 1) = x
  <2>1. Axia!LineTo(r, n + 1) = Axia!LineTo(s, n + 1)
    BY LineExtends
  <2> QED
    BY <1>1, <2>1 DEF LineOf
<1>7. u = Append(t, x)
  <2> HIDE DEF x, r, n
  <2>1. \A i \in 1 .. n + 1 : u[i] = Append(t, x)[i]
    <3>1. \A i \in 1 .. n : t[i] = LineOf(s, i) /\ u[i] = LineOf(r, i)
      BY <1>1
    <3>2. u[n + 1] = x
      BY <1>1, <1>6
    <3> HIDE DEF t, u
    <3>3. \A i \in 1 .. n : Append(t, x)[i] = t[i]
      BY <1>4
    <3>4. Append(t, x)[n + 1] = x
      BY <1>4
    <3>5. \A i \in 1 .. n : u[i] = Append(t, x)[i]
      BY <1>5, <3>1, <3>3
    <3>6. \A i \in 1 .. n + 1 : i \in 1 .. n \/ i = n + 1
      BY <1>1
    <3> QED
      BY <3>2, <3>4, <3>5, <3>6
  <2>2. DOMAIN Append(t, x) = 1 .. n + 1 /\ DOMAIN u = 1 .. n + 1
    <3>1. DOMAIN u = 1 .. n + 1
      BY <1>1
    <3> HIDE DEF t, u
    <3> QED
      BY <1>4, <3>1
  <2>3. u = [i \in 1 .. n + 1 |-> u[i]]
    BY <1>1
  <2>4. Append(t, x) = [i \in 1 .. n + 1 |-> Append(t, x)[i]]
    <3> HIDE DEF t
    <3> DEFINE z == Append(t, x)
    <3>1. z \in Seq(Seq(Pushes)) /\ Len(z) = n + 1
      BY <1>2, <1>4
    <3> HIDE DEF z
    <3>2. z = [i \in 1 .. n + 1 |-> z[i]]
      BY <3>1
    <3> QED
      BY <3>2 DEF z
  <2> HIDE DEF t, u
  <2> QED
    BY <2>1, <2>2, <2>3, <2>4
<1>8. Axia!Decoded(s) = Axia!FlattenSeq(t) /\ Axia!Decoded(r) = Axia!FlattenSeq(u)
  BY DEF Axia!Decoded, LineOf
<1> HIDE DEF t, u, x, r
<1>9. Axia!FlattenSeq(Append(t, x)) = Axia!FlattenSeq(t) \o x
  BY <1>2, <1>4, FlatAppend
<1> QED
  BY <1>7, <1>8, <1>9 DEF x, r

-----------------------------------------------------------------------------
(* The loop over the symbols of one recv.                                  *)

\* The recursion behind Consumed.
Loops(n, f) ==
    f = [i \in 0 .. n |-> IF i = 0 THEN [line |-> line, out |-> emitted]
                                   ELSE Axia!Consume(f[i - 1], wire[i])]

LEMMA ConsumedIs ==
    ASSUME NEW n
    PROVE  Axia!Consumed(n) = (CHOOSE f : Loops(n, f))[n]
BY DEF Axia!Consumed, Loops

LEMMA LoopExists ==
    ASSUME NEW n \in Nat
    PROVE  \E f : Loops(n, f)
<1> DEFINE K == {k \in 0 .. n : \E f : Loops(k, f)}
<1>1. 0 \in K
  <2> DEFINE f == [i \in 0 .. 0 |-> [line |-> line, out |-> emitted]]
  <2>1. f = [i \in 0 .. 0 |-> IF i = 0 THEN [line |-> line, out |-> emitted]
                                       ELSE Axia!Consume(f[i - 1], wire[i])]
    OBVIOUS
  <2> HIDE DEF f
  <2>2. Loops(0, f)
    BY <2>1 DEF Loops
  <2> QED
    BY <2>2
<1>2. ASSUME NEW k \in 1 .. n, k - 1 \in K PROVE k \in K
  <2>1. PICK f : Loops(k - 1, f)
    BY <1>2
  <2> DEFINE G(i) == IF i = 0 THEN [line |-> line, out |-> emitted]
                              ELSE Axia!Consume(f[i - 1], wire[i])
             g == [i \in 0 .. k |-> G(i)]
  <2>2. \A i \in 0 .. k - 1 : f[i] = G(i)
    BY <2>1 DEF Loops
  <2>3. ASSUME NEW i \in 0 .. k, i # 0 PROVE g[i - 1] = f[i - 1]
    <3>1. i - 1 \in 0 .. k - 1 /\ i - 1 \in 0 .. k
      BY <2>3
    <3> QED
      BY <2>2, <3>1
  <2>4. g = [i \in 0 .. k |-> IF i = 0 THEN [line |-> line, out |-> emitted]
                                       ELSE Axia!Consume(g[i - 1], wire[i])]
    BY <2>3
  <2> HIDE DEF g
  <2>5. Loops(k, g)
    BY <2>4 DEF Loops
  <2> QED
    BY <2>5
<1> HIDE DEF K
<1>3. \A k \in 1 .. n : k - 1 \in K => k \in K
  BY <1>2
<1>4. \A k \in 0 .. n : k \in K
  BY <1>1, <1>3, UpTo
<1> QED
  BY <1>4 DEF K

\* Buffer and commands of a stream received.
ReadUp(s, st) ==
    /\ st.line = Axia!LineTo(s, Len(s) + 1) /\ st.line \in Seq(Axia!Symbols \ {Nl})
    /\ Len(st.line) <= MaxLine
    /\ st.out = Axia!Decoded(s) /\ st.out \in Seq(Pushes)

\* One symbol more.
LEMMA OneSymbol ==
    ASSUME NEW s \in Seq(Axia!Symbols), NEW c \in Axia!Symbols, NEW st, ReadUp(s, st)
    PROVE  ReadUp(Append(s, c), Axia!Consume(st, c))
<1> DEFINE next == Axia!Consume(st, c)
<1>1. next.line = Axia!NextLine(st.line, c)
      /\ next.out = IF c = Nl /\ st.line # <<>> THEN st.out \o Axia!Commands(st.line) ELSE st.out
  BY DEF Axia!Consume
<1> HIDE DEF next
<1>2. MaxLine \in Nat \ {0}
  BY SizeAssumption DEF Axia!Sizes
<1>3. /\ st.line = Axia!LineTo(s, Len(s) + 1) /\ st.line \in Seq(Axia!Symbols \ {Nl})
      /\ Len(st.line) <= MaxLine /\ st.out = Axia!Decoded(s) /\ st.out \in Seq(Pushes)
  BY DEF ReadUp
<1>4. next.line \in Seq(Axia!Symbols \ {Nl}) /\ Len(next.line) <= MaxLine
  BY <1>1, <1>2, <1>3 DEF Axia!NextLine
<1>5. next.line = Axia!LineTo(Append(s, c), Len(Append(s, c)) + 1)
  <2>1. PICK a \in Nat : a = Len(s) + 1
    OBVIOUS
  <2>2. PICK b \in Nat : b = Len(s) + 2
    OBVIOUS
  <2>3. Axia!LineTo(Append(s, c), b) = Axia!NextLine(Axia!LineTo(s, a), c)
    BY <2>1, <2>2, LineGrows
  <2>4. b = Len(Append(s, c)) + 1
    BY <2>2
  <2> QED
    BY <1>1, <1>3, <2>1, <2>3, <2>4
<1>6. Axia!Decoded(Append(s, c)) = st.out \o (IF c = Nl THEN Axia!Commands(st.line) ELSE <<>>)
  BY <1>3, DecodedGrows
<1>7. Axia!Commands(st.line) \in Seq(Pushes) /\ (st.line = <<>> => Axia!Commands(st.line) = <<>>)
  BY CommandsTyped, EmptyLine
<1>8. \A x \in Seq(Pushes) : st.out \o x \in Seq(Pushes) /\ st.out \o <<>> = st.out
  BY <1>3
<1>9. next.out = Axia!Decoded(Append(s, c)) /\ next.out \in Seq(Pushes)
  BY <1>1, <1>3, <1>6, <1>7, <1>8
<1> QED
  BY <1>4, <1>5, <1>9 DEF ReadUp, next

LEMMA ConcatAppend ==
    ASSUME NEW V, NEW s \in Seq(V), NEW t \in Seq(V), NEW c \in V
    PROVE  s \o Append(t, c) = Append(s \o t, c)
<1> DEFINE p == s \o Append(t, c)
           q == Append(s \o t, c)
           n == Len(s) + Len(t) + 1
<1>1. p \in Seq(V) /\ q \in Seq(V) /\ Len(p) = n /\ Len(q) = n
  OBVIOUS
<1>2. \A i \in 1 .. n : p[i] = q[i]
  OBVIOUS
<1> HIDE DEF p, q, n
<1>3. p = [i \in 1 .. n |-> p[i]] /\ q = [i \in 1 .. n |-> q[i]]
  BY <1>1
<1>4. p = q
  BY <1>2, <1>3
<1> QED
  BY <1>4 DEF p, q

\* The symbols of one recv, however many.
LEMMA OneRecv ==
    ASSUME NEW n \in Nat, wire \in Seq(Axia!Symbols), n <= Len(wire), whole \in Seq(Axia!Symbols),
           ReadUp(whole, [line |-> line, out |-> emitted])
    PROVE  ReadUp(whole \o SubSeq(wire, 1, n), Axia!Consumed(n))
<1> DEFINE f == CHOOSE g : Loops(n, g)
           R(k) == whole \o SubSeq(wire, 1, k)
           K == {k \in 0 .. n : ReadUp(R(k), f[k])}
<1>1. Loops(n, f) /\ Axia!Consumed(n) = f[n]
  BY LoopExists, ConsumedIs
<1> HIDE DEF f
<1>2. f[0] = [line |-> line, out |-> emitted]
  BY <1>1 DEF Loops
<1>3. \A k \in 1 .. n : f[k] = Axia!Consume(f[k - 1], wire[k])
  BY <1>1 DEF Loops
<1>4. 0 \in K
  <2>1. R(0) = whole
    OBVIOUS
  <2> HIDE DEF R
  <2> QED
    BY <1>2, <2>1
<1>5. ASSUME NEW k \in 1 .. n, k - 1 \in K PROVE k \in K
  <2> DEFINE s == R(k - 1)
             c == wire[k]
  <2>1. s \in Seq(Axia!Symbols) /\ c \in Axia!Symbols
    OBVIOUS
  <2>2. R(k) = Append(s, c)
    <3> DEFINE t == SubSeq(wire, 1, k - 1)
    <3>1. SubSeq(wire, 1, k) = Append(t, c) /\ t \in Seq(Axia!Symbols)
      OBVIOUS
    <3> HIDE DEF t, c
    <3>2. whole \o Append(t, c) = Append(whole \o t, c)
      BY <2>1, <3>1, ConcatAppend
    <3> QED
      BY <3>1, <3>2 DEF t
  <2>3. ReadUp(s, f[k - 1])
    BY <1>5
  <2> HIDE DEF s, c, R
  <2>4. ReadUp(Append(s, c), Axia!Consume(f[k - 1], c))
    BY <2>1, <2>3, OneSymbol
  <2>5. f[k] = Axia!Consume(f[k - 1], c)
    BY <1>3 DEF c
  <2>6. k \in 0 .. n
    OBVIOUS
  <2> QED
    BY <2>2, <2>4, <2>5, <2>6
<1> HIDE DEF K
<1>6. \A k \in 1 .. n : k - 1 \in K => k \in K
  BY <1>5
<1>7. \A k \in 0 .. n : k \in K
  BY <1>4, <1>6, UpTo
<1> QED
  BY <1>1, <1>7 DEF K

-----------------------------------------------------------------------------
(* A session of the console, and the theorem of both.                      *)

\* Between two calls of recv the buffer holds the line under way, cut to its size.
LinesIInv ==
    /\ Axia!TypeOK /\ Axia!StreamDecoded /\ Axia!IndicatorsShow
    /\ line = Axia!LineTo(whole, Len(whole) + 1)

LEMMA EmptyStream == Axia!LineTo(<<>>, 1) = <<>>
<1> DEFINE from == CHOOSE j \in 1 .. 1 : Axia!Begins(<<>>, 1, j)
<1>1. Axia!Begins(<<>>, 1, 1)
  BY DEF Axia!Begins
<1>2. from = 1
  BY <1>1
<1>3. Axia!LineTo(<<>>, 1) = SubSeq(<<>>, from, IF 1 - from > MaxLine THEN from + MaxLine - 1 ELSE 1 - 1)
  BY DEF Axia!LineTo
<1> HIDE DEF from
<1> QED
  BY <1>2, <1>3, SizeAssumption DEF Axia!Sizes

LEMMA LinesStart == Axia!Init => LinesIInv
<1> SUFFICES ASSUME Axia!Init PROVE LinesIInv
  OBVIOUS
<1>1. Axia!TypeOK
  BY SizeAssumption DEF Axia!Init, Axia!TypeOK, Axia!States, Axia!Sizes
<1>2. Axia!IndicatorsShow
  BY AlphabetAssumption DEF Axia!Init, Axia!IndicatorsShow, Axia!Alphabet
<1>3. whole = <<>> /\ line = <<>> /\ emitted = <<>> /\ Len(whole) + 1 = 1
  BY DEF Axia!Init
<1> QED
  BY <1>1, <1>2, <1>3, EmptyStream, DecodedEmpty DEF LinesIInv, Axia!StreamDecoded

LEMMA LinesStep ==
    ASSUME LinesIInv, [Axia!Next]_session
    PROVE  LinesIInv'
<1>0. /\ Axia!TypeOK /\ Axia!StreamDecoded /\ Axia!IndicatorsShow
      /\ line = Axia!LineTo(whole, Len(whole) + 1)
  BY DEF LinesIInv
<1>1. ASSUME NEW n \in 1 .. MaxChunk, Axia!Pump(n)
      PROVE  LinesIInv'
  <2>1. /\ n \in Nat /\ n <= Len(wire) /\ wire \in Seq(Axia!Symbols) /\ whole \in Seq(Axia!Symbols)
    BY <1>0, <1>1 DEF Axia!Pump, Axia!TypeOK
  <2>2. ReadUp(whole, [line |-> line, out |-> emitted])
    BY <1>0 DEF ReadUp, Axia!TypeOK, Axia!StreamDecoded, Pushes
  <2>3. ReadUp(whole \o SubSeq(wire, 1, n), Axia!Consumed(n))
    BY <2>1, <2>2, OneRecv
  <2>4. /\ line' = Axia!Consumed(n).line /\ emitted' = Axia!Consumed(n).out
        /\ whole' = whole \o SubSeq(wire, 1, n) /\ wire' = SubSeq(wire, n + 1, Len(wire))
        /\ pins' = pins /\ state' = state
    BY <1>1 DEF Axia!Pump
  <2>5. /\ line' = Axia!LineTo(whole', Len(whole') + 1) /\ line' \in Seq(Axia!Symbols \ {Nl})
        /\ Len(line') <= MaxLine
        /\ emitted' = Axia!Decoded(whole') /\ emitted' \in Seq(Pushes)
    BY <2>3, <2>4 DEF ReadUp
  <2>6. whole' \in Seq(Axia!Symbols) /\ wire' \in Seq(Axia!Symbols)
    BY <2>1, <2>4
  <2>7. Axia!TypeOK'
    BY <1>0, <2>4, <2>5, <2>6 DEF Axia!TypeOK, Pushes
  <2>8. Axia!StreamDecoded'
    BY <2>5 DEF Axia!StreamDecoded, Axia!Decoded, Axia!LineTo, Axia!Begins
  <2>9. line' = Axia!LineTo(whole, Len(whole) + 1)'
    BY <2>5 DEF Axia!LineTo, Axia!Begins
  <2> QED
    BY <1>0, <2>4, <2>7, <2>8, <2>9 DEF LinesIInv, Axia!IndicatorsShow
<1>2. ASSUME Axia!Reconnect
      PROVE  LinesIInv'
  <2>1. /\ wire' = <<>> /\ whole' = <<>> /\ emitted' = <<>> /\ line' = <<>>
        /\ pins' = pins /\ state' = state
    BY <1>2 DEF Axia!Reconnect, Axia!FreshLine
  <2>2. Axia!TypeOK'
    BY <1>0, <2>1, SizeAssumption DEF Axia!TypeOK, Axia!Sizes
  <2>3. Axia!StreamDecoded'
    BY <2>1, DecodedEmpty DEF Axia!StreamDecoded
  <2>4. line' = Axia!LineTo(whole, Len(whole) + 1)'
    <3>1. Len(whole') + 1 = 1
      BY <2>1
    <3> QED
      BY <2>1, <3>1, EmptyStream
  <2> QED
    BY <1>0, <2>1, <2>2, <2>3, <2>4 DEF LinesIInv, Axia!IndicatorsShow
<1>3. ASSUME NEW s \in Lines, Axia!Say(s)
      PROVE  LinesIInv'
  <2>1. s \in Seq(Axia!Symbols)
    BY AlphabetAssumption DEF Axia!Alphabet
  <2>2. Nl \in Axia!Symbols
    BY DEF Axia!Symbols
  <2>3. wire' = wire \o Append(s, Nl) /\ UNCHANGED <<whole, line, emitted, pins, state>>
    BY <1>3 DEF Axia!Say
  <2>4. wire' \in Seq(Axia!Symbols)
    BY <1>0, <2>1, <2>2, <2>3 DEF Axia!TypeOK
  <2>5. Axia!TypeOK'
    BY <1>0, <2>3, <2>4 DEF Axia!TypeOK
  <2> QED
    BY <1>0, <2>3, <2>5 DEF LinesIInv, Axia!StreamDecoded, Axia!IndicatorsShow
<1>4. ASSUME NEW st \in Axia!States, Axia!SetState(st)
      PROVE  LinesIInv'
  <2>1. /\ state' = st /\ UNCHANGED <<wire, whole, line, emitted>>
        /\ pins' = [i \in Axia!PinIndex |-> IF Axia!GpoPins(st)[i] = X THEN pins[i]
                                                                       ELSE Axia!GpoPins(st)[i]]
    BY <1>4 DEF Axia!SetState
  <2>2. Pins \in Nat /\ Pins >= 2 /\ h # l /\ X \notin {h, l}
    BY SizeAssumption, AlphabetAssumption DEF Axia!Sizes, Axia!Alphabet
  <2>3. 1 \in Axia!PinIndex /\ 2 \in Axia!PinIndex
    BY <2>2 DEF Axia!PinIndex
  <2>4. ASSUME NEW i \in Axia!PinIndex
        PROVE  Axia!GpoPins(st)[i] = IF i = 1 THEN Axia!Drive(st = "on_air")
                                     ELSE IF i = 2 THEN Axia!Drive(Axia!PreviewLit(st)) ELSE X
    BY DEF Axia!GpoPins, Axia!OtherPin
  <2>5. Axia!Drive(st = "on_air") \in {h, l} /\ Axia!Drive(Axia!PreviewLit(st)) \in {h, l}
    BY DEF Axia!Drive
  <2>6. pins'[1] = Axia!Drive(st = "on_air") /\ pins'[2] = Axia!Drive(Axia!PreviewLit(st))
    BY <2>1, <2>2, <2>3, <2>4, <2>5
  <2>7. pins' \in [Axia!PinIndex -> {h, l}]
    <3>1. ASSUME NEW i \in Axia!PinIndex
          PROVE  (IF Axia!GpoPins(st)[i] = X THEN pins[i] ELSE Axia!GpoPins(st)[i]) \in {h, l}
      BY <1>0, <2>4, <2>5 DEF Axia!TypeOK
    <3> QED
      BY <2>1, <3>1
  <2>8. Axia!IndicatorsShow'
    BY <2>1, <2>2, <2>6 DEF Axia!IndicatorsShow, Axia!Drive, Axia!PreviewLit
  <2>9. Axia!TypeOK'
    BY <1>0, <2>1, <2>7 DEF Axia!TypeOK
  <2> QED
    BY <1>0, <2>1, <2>8, <2>9 DEF LinesIInv, Axia!StreamDecoded
<1>5. CASE UNCHANGED session
  BY <1>0, <1>5 DEF session, LinesIInv, Axia!TypeOK, Axia!StreamDecoded, Axia!IndicatorsShow
<1> QED
  BY <1>1, <1>2, <1>3, <1>4, <1>5 DEF Axia!Next

\* ConsoleAgrees of every behaviour: the statuses of every controller reach the window in turn and
\* the last of them is the one its listener is in; the commands of a session are those of its
\* complete lines wherever recv cuts the stream; the indicators are those of the mode last pushed.
THEOREM ConsoleAlwaysAgrees == BothSpec => []ConsoleAgrees
<1> DEFINE Inv == IInv /\ StatusInTurn /\ LinesIInv
<1>1. BothInit => Inv
  <2>1. Init => StatusInTurn
    BY DEF Init, StatusInTurn, InTurn, StatusAt
  <2> QED
    BY <2>1, Start, LinesStart DEF BothInit
<1>2. Inv /\ [BothNext]_<<vars, session>> => Inv'
  <2> SUFFICES ASSUME Inv, [BothNext]_<<vars, session>> PROVE Inv'
    OBVIOUS
  <2>1. [Next]_vars /\ [Axia!Next]_session
    BY DEF BothNext, vars, session
  <2>2. IInv'
    BY <2>1, TypeStep, LifeStep DEF IInv, LifeInv
  <2> QED
    BY <2>1, <2>2, StatusStep, LinesStep
<1>3. Inv => ConsoleAgrees
  BY DEF LinesIInv, ConsoleAgrees, Axia!ConsoleAgrees
<1> QED
  BY <1>1, <1>2, <1>3, PTL DEF BothSpec
=============================================================================
