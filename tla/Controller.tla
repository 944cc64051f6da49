----------------------------- MODULE Controller -----------------------------
(***************************************************************************)
(* Channel control sources: the generic core (controller.c) with its       *)
(* listener thread and reconnect loop, the socket side of the Axia backend *)
(* (axia.c) and the bridge to the window (controller_bridge.c).            *)
(*                                                                         *)
(* A controller is a pair <<channel, generation>>: restart_controller      *)
(* stops, frees and replaces the controller of a channel, and the idle     *)
(* callbacks its listener queued may outlive it.  Descriptors are numbers  *)
(* the system hands out again after a close.  Loads and stores of          *)
(* running, connected and sockfd are steps of their own; they are taken as *)
(* sequentially consistent.                                                *)
(***************************************************************************)
EXTENDS Integers, Sequences

CONSTANTS
    Chans,          \* the channels that have a control source
    MaxGen,         \* bound: controllers created per channel
    Fds,            \* the descriptors sockets are given
    None,           \* no descriptor, no controller
    Modes,          \* channel modes: idle, preview, queued, on air
    Idle,           \* the mode a channel starts in
    Faults,         \* what the network does: "gone" (peer closes), "lost" (link dies silently)
    InitialDelay,   \* RECONNECT_INITIAL_DELAY_MS in 100 ms chunks
    MaxDelay,       \* RECONNECT_MAX_DELAY_MS in 100 ms chunks
    MaxQueue        \* bound: callbacks pending when the network may add one

ASSUME GenAssumption == MaxGen \in Nat \ {0}
ASSUME DelayAssumption == /\ InitialDelay \in Nat \ {0}
                          /\ MaxDelay \in Nat
                          /\ InitialDelay <= MaxDelay
ASSUME ModeAssumption == Idle \in Modes
ASSUME NoneAssumption == None \notin Fds /\ None \notin Chans \X (1 .. MaxGen)
ASSUME FaultAssumption == Faults \subseteq {"gone", "lost"}

VARIABLES
    ctl,        \* per controller: the controller_t and its axia_ctx_t
    sock,       \* per descriptor: whose session it is and the state of the link
    main,       \* where the main thread is in set_state, stop or restart
    slot,       \* UiWindow.controllers: the generation in use, 0 for NULL
    queue,      \* callbacks pending on the main context, oldest first
    shown       \* per channel: is the device marked valid, and the channel's mode

vars == <<ctl, sock, main, slot, queue, shown>>

Ctls == Chans \X (1 .. MaxGen)
ListenerPCs == {"none", "check", "tcp", "session", "announce", "up", "loop", "recv",
                "leave", "close", "down", "backoff", "sleep", "exit"}
Links == {"free", "up", "lost", "dying", "gone", "shut"}
AtRest == [op |-> "rest", c |-> None, fd |-> None]

Controllers == [life : {"none", "live", "freed"}, running : BOOLEAN, connected : BOOLEAN,
                pc : ListenerPCs, sockfd : Fds \cup {None}, delay : InitialDelay .. MaxDelay,
                left : 0 .. MaxDelay]
Sockets == [owner : Ctls \cup {None}, link : Links]
MainPlaces == [op : {"rest", "read", "send", "failed", "wake", "shutdown", "join", "free", "create"},
               c : Ctls \cup Chans \cup {None}, fd : Fds \cup {None}]
Callbacks == [c : Ctls, what : {"command", "up", "down"}]
Strips == [valid : BOOLEAN, mode : Modes]

TypeOK ==
    /\ ctl \in [Ctls -> Controllers]
    /\ sock \in [Fds -> Sockets]
    /\ main \in MainPlaces
    /\ slot \in [Chans -> 0 .. MaxGen]
    /\ queue \in Seq(Callbacks)
    /\ shown \in [Chans -> Strips]

\* A controller_t as controller_core_new and axia's constructor leave it.
NewController(life, pc) ==
    [life |-> life, running |-> life = "live", connected |-> FALSE, pc |-> pc,
     sockfd |-> None, delay |-> InitialDelay, left |-> 0]

Free == [owner |-> None, link |-> "free"]

Init ==
    /\ ctl = [c \in Ctls |-> NewController("none", "none")]
    /\ sock = [f \in Fds |-> Free]
    /\ main = AtRest
    /\ slot = [ch \in Chans |-> 0]
    /\ queue = <<>>
    /\ shown = [ch \in Chans |-> [valid |-> TRUE, mode |-> Idle]]

-----------------------------------------------------------------------------
(* The listener thread of controller c.                                    *)

\* Fault: a status is posted but its place in the order is lost.
PostFirst(c, what) == queue' = <<[c |-> c, what |-> what]>> \o queue

At(c, label) == ctl[c].pc = label
Goto(c, label) == ctl' = [ctl EXCEPT ![c].pc = label]
Post(c, what) == queue' = Append(queue, [c |-> c, what |-> what])

SendFails(f) == sock[f].link \in {"gone", "shut"}
SendWorks(f) == sock[f].link \in {"up", "lost", "dying", "gone"}
\* Data sent over a dead link is what makes the system give the link up.
Sent(f) == IF sock[f].link = "lost" THEN [sock EXCEPT ![f].link = "dying"] ELSE sock

\* Fault: a failed session leaves its socket open.
NotClosed(c) == sock

Closed(c) == IF ctl[c].sockfd = None THEN sock ELSE [sock EXCEPT ![ctl[c].sockfd] = Free]

\* while (running): start a session or let the thread end.
Check(c) ==
    /\ At(c, "check")
    /\ Goto(c, IF ctl[c].running THEN "tcp" ELSE "exit")
    /\ UNCHANGED <<sock, main, slot, queue, shown>>

\* tcp_connect reaches the console; its descriptor is any the system has free.
TcpConnects(c) ==
    /\ At(c, "tcp")
    /\ Len(queue) < MaxQueue
    /\ \E f \in Fds :
          /\ sock[f] = Free
          /\ sock' = [sock EXCEPT ![f] = [owner |-> c, link |-> "up"]]
          /\ ctl' = [ctl EXCEPT ![c].sockfd = f, ![c].pc = "session"]
    /\ UNCHANGED <<main, slot, queue, shown>>

\* Refused, unreachable or no answer within two seconds.
TcpFails(c) ==
    /\ At(c, "tcp")
    /\ Goto(c, "backoff")
    /\ UNCHANGED <<sock, main, slot, queue, shown>>

\* LOGIN, ADD GPI and ADD GPO are all sent.
Subscribed(c) ==
    /\ At(c, "session")
    /\ SendWorks(ctl[c].sockfd)
    /\ sock' = Sent(ctl[c].sockfd)
    /\ Goto(c, "announce")
    /\ UNCHANGED <<main, slot, queue, shown>>

\* One of them is not: axia_connect closes the socket and reports failure.
SubscribeFails(c) ==
    /\ At(c, "session")
    /\ SendFails(ctl[c].sockfd)
    /\ sock' = Closed(c)
    /\ ctl' = [ctl EXCEPT ![c].sockfd = None, ![c].pc = "backoff"]
    /\ UNCHANGED <<main, slot, queue, shown>>

Announce(c) ==
    /\ At(c, "announce")
    /\ ctl' = [ctl EXCEPT ![c].delay = InitialDelay, ![c].connected = TRUE, ![c].pc = "up"]
    /\ UNCHANGED <<sock, main, slot, queue, shown>>

PostUp(c) ==
    /\ At(c, "up")
    /\ Post(c, "up")
    /\ Goto(c, "loop")
    /\ UNCHANGED <<sock, main, slot, shown>>

\* while (running && connected)
Stays(c) == ctl[c].running /\ ctl[c].connected

ReadLoop(c) ==
    /\ At(c, "loop")
    /\ Goto(c, IF Stays(c) THEN "recv" ELSE "leave")
    /\ UNCHANGED <<sock, main, slot, queue, shown>>

\* recv returns bytes; the lines among them may hold a button press.
RecvData(c) ==
    /\ At(c, "recv")
    /\ sock[ctl[c].sockfd].link = "up"
    /\ Len(queue) < MaxQueue
    /\ \/ Post(c, "command")
       \/ UNCHANGED queue
    /\ Goto(c, "loop")
    /\ UNCHANGED <<sock, main, slot, shown>>

\* recv returns 0 or an error.
AfterEnd(c) == "leave"

RecvEnds(c) ==
    /\ At(c, "recv")
    /\ sock[ctl[c].sockfd].link \in {"gone", "shut"}
    /\ Goto(c, AfterEnd(c))
    /\ UNCHANGED <<sock, main, slot, queue, shown>>

Leave(c) ==
    /\ At(c, "leave")
    /\ ctl' = [ctl EXCEPT ![c].connected = FALSE, ![c].pc = "close"]
    /\ UNCHANGED <<sock, main, slot, queue, shown>>

Disconnect(c) ==
    /\ At(c, "close")
    /\ sock' = Closed(c)
    /\ ctl' = [ctl EXCEPT ![c].sockfd = None, ![c].pc = "down"]
    /\ UNCHANGED <<main, slot, queue, shown>>

PostDown(c) ==
    /\ At(c, "down")
    /\ Post(c, "down")
    /\ Goto(c, "check")
    /\ UNCHANGED <<sock, main, slot, shown>>

\* Fault: the attempt after a failed one does not look at running.
BackoffRetries(c) ==
    /\ At(c, "backoff")
    /\ ctl' = IF ctl[c].running
                THEN [ctl EXCEPT ![c].left = ctl[c].delay, ![c].pc = "sleep"]
                ELSE [ctl EXCEPT ![c].pc = "tcp"]
    /\ UNCHANGED <<sock, main, slot, queue, shown>>

\* exponential_backoff_sleep: chunks of 100 ms while running, then the delay doubles.
Backoff(c) ==
    /\ At(c, "backoff")
    /\ ctl' = IF ctl[c].running
                THEN [ctl EXCEPT ![c].left = ctl[c].delay, ![c].pc = "sleep"]
                ELSE [ctl EXCEPT ![c].pc = "check"]
    /\ UNCHANGED <<sock, main, slot, queue, shown>>

Doubled(d) == IF 2 * d > MaxDelay THEN MaxDelay ELSE 2 * d

SleepChunk(c) ==
    /\ At(c, "sleep")
    /\ ctl' = IF ctl[c].left > 0 /\ ctl[c].running
                THEN [ctl EXCEPT ![c].left = @ - 1]
                ELSE [ctl EXCEPT ![c].left = 0, ![c].delay = Doubled(@), ![c].pc = "check"]
    /\ UNCHANGED <<sock, main, slot, queue, shown>>

ListenerStep(c) ==
    \/ Check(c)         \/ TcpConnects(c)       \/ TcpFails(c)      \/ Subscribed(c)
    \/ SubscribeFails(c) \/ Announce(c)         \/ PostUp(c)        \/ ReadLoop(c)
    \/ RecvEnds(c)      \/ Leave(c)             \/ Disconnect(c)    \/ PostDown(c)
    \/ Backoff(c)       \/ SleepChunk(c)

-----------------------------------------------------------------------------
(* The network.                                                            *)

Drop(f) ==
    /\ sock[f].link = "up"
    /\ \E fault \in Faults : sock' = [sock EXCEPT ![f].link = fault]
    /\ UNCHANGED <<ctl, main, slot, queue, shown>>

\* Retransmission of what was sent over a dead link times out.
GiveUp(f) ==
    /\ sock[f].link = "dying"
    /\ sock' = [sock EXCEPT ![f].link = "gone"]
    /\ UNCHANGED <<ctl, main, slot, queue, shown>>

-----------------------------------------------------------------------------
(* The main thread.                                                        *)

Chan(c) == c[1]
Current(ch) == <<ch, slot[ch]>>

\* on_channel_mode_changed: without a connected controller the indicators are left alone.
Mirror(ch) ==
    IF slot[ch] = 0 \/ ~ctl[Current(ch)].connected
      THEN AtRest
      ELSE [op |-> "read", c |-> Current(ch), fd |-> None]

\* The channel strip changes mode: the user, the end of a track, a command.
ChangeMode(ch, m) ==
    /\ main = AtRest
    /\ m # shown[ch].mode
    /\ shown' = [shown EXCEPT ![ch].mode = m]
    /\ main' = Mirror(ch)
    /\ UNCHANGED <<ctl, sock, slot, queue>>

\* invoke_command_on_main_thread: what the channel strip makes of it is its own affair.
DispatchCommand ==
    /\ main = AtRest
    /\ queue # <<>>
    /\ Head(queue).what = "command"
    /\ LET ch == Chan(Head(queue).c) IN
         \E m \in Modes : /\ shown' = [shown EXCEPT ![ch].mode = m]
                          /\ main' = IF m = shown[ch].mode THEN AtRest ELSE Mirror(ch)
    /\ queue' = Tail(queue)
    /\ UNCHANGED <<ctl, sock, slot>>

\* invoke_status_on_main_thread and on_controller_status.
DispatchStatus ==
    /\ main = AtRest
    /\ queue # <<>>
    /\ Head(queue).what \in {"up", "down"}
    /\ shown' = [shown EXCEPT ![Chan(Head(queue).c)].valid = Head(queue).what = "up"]
    /\ queue' = Tail(queue)
    /\ UNCHANGED <<ctl, sock, main, slot>>

\* axia_set_state reads the descriptor ...
ReadFd ==
    /\ main.op = "read"
    /\ main' = [main EXCEPT !.op = "send", !.fd = ctl[main.c].sockfd]
    /\ UNCHANGED <<ctl, sock, slot, queue, shown>>

\* ... and sends: to its console, to whoever has the number now, or to no one.
SendState ==
    /\ main.op = "send"
    /\ main.fd # None
    /\ sock[main.fd] # Free
    /\ SendWorks(main.fd)
    /\ sock' = Sent(main.fd)
    /\ main' = AtRest
    /\ UNCHANGED <<ctl, slot, queue, shown>>

SendStateFails ==
    /\ main.op = "send"
    /\ IF main.fd = None THEN TRUE ELSE sock[main.fd] = Free \/ SendFails(main.fd)
    /\ main' = [main EXCEPT !.op = "failed", !.fd = None]
    /\ UNCHANGED <<ctl, sock, slot, queue, shown>>

\* controller_set_channel_state: the store that is meant to make the listener reconnect.
MarkDropped ==
    /\ main.op = "failed"
    /\ ctl' = [ctl EXCEPT ![main.c].connected = FALSE]
    /\ main' = AtRest
    /\ UNCHANGED <<sock, slot, queue, shown>>

\* restart_controller (and ui_window_dispose): stop the controller there is.
StopController(ch) ==
    /\ main = AtRest
    /\ slot[ch] # 0
    /\ ctl' = [ctl EXCEPT ![Current(ch)].running = FALSE]
    /\ main' = [op |-> "wake", c |-> Current(ch), fd |-> None]
    /\ UNCHANGED <<sock, slot, queue, shown>>

\* restart_controller on a channel that has none.
Configure(ch) ==
    /\ main = AtRest
    /\ slot[ch] = 0
    /\ main' = [op |-> "create", c |-> ch, fd |-> None]
    /\ UNCHANGED <<ctl, sock, slot, queue, shown>>

\* axia_wake reads the descriptor ...
Wake ==
    /\ main.op = "wake"
    /\ main' = [main EXCEPT !.op = IF ctl[main.c].sockfd = None THEN "join" ELSE "shutdown",
                            !.fd = ctl[main.c].sockfd]
    /\ UNCHANGED <<ctl, sock, slot, queue, shown>>

\* Fault: the blocked read is not interrupted.
NotShut(f) == sock

\* ... and shuts down the socket that has the number now.
Shut(f) == IF sock[f] = Free THEN sock ELSE [sock EXCEPT ![f].link = "shut"]

Shutdown ==
    /\ main.op = "shutdown"
    /\ sock' = Shut(main.fd)
    /\ main' = [main EXCEPT !.op = "join", !.fd = None]
    /\ UNCHANGED <<ctl, slot, queue, shown>>

\* pthread_join returns once the listener has; then the socket and the flag.
Joinable(c) == ctl[c].pc = "exit"

Join ==
    /\ main.op = "join"
    /\ Joinable(main.c)
    /\ sock' = Closed(main.c)
    /\ ctl' = [ctl EXCEPT ![main.c].sockfd = None, ![main.c].connected = FALSE]
    /\ main' = [main EXCEPT !.op = "free"]
    /\ UNCHANGED <<slot, queue, shown>>

\* controller_destroy: the handle is freed and the slot cleared.
Destroy ==
    /\ main.op = "free"
    /\ ctl' = [ctl EXCEPT ![main.c].life = "freed"]
    /\ slot' = [slot EXCEPT ![Chan(main.c)] = 0]
    /\ main' = [op |-> "create", c |-> Chan(main.c), fd |-> None]
    /\ UNCHANGED <<sock, queue, shown>>

\* A new address: the controller is created, wired and started.
StartController ==
    /\ main.op = "create"
    /\ \E g \in 1 .. MaxGen :
          /\ ctl[<<main.c, g>>].life = "none"
          /\ \A h \in 1 .. g - 1 : ctl[<<main.c, h>>].life # "none"
          /\ ctl' = [ctl EXCEPT ![<<main.c, g>>] = NewController("live", "check")]
          /\ slot' = [slot EXCEPT ![main.c] = g]
    /\ main' = AtRest
    /\ UNCHANGED <<sock, queue, shown>>

\* No address, an address that is not one, or no thread: the channel has no controller.
LeaveWithout ==
    /\ main.op = "create"
    /\ main' = AtRest
    /\ UNCHANGED <<ctl, sock, slot, queue, shown>>

MainStep ==
    \/ DispatchCommand  \/ DispatchStatus   \/ ReadFd   \/ SendState    \/ SendStateFails
    \/ MarkDropped      \/ Wake             \/ Shutdown \/ Join         \/ Destroy
    \/ StartController  \/ LeaveWithout

Next ==
    \/ MainStep
    \/ \E ch \in Chans : \/ StopController(ch)
                         \/ Configure(ch)
                         \/ \E m \in Modes : ChangeMode(ch, m)
    \/ \E c \in Ctls : ListenerStep(c) \/ RecvData(c)
    \/ \E f \in Fds : Drop(f) \/ GiveUp(f)

Spec == Init /\ [][Next]_vars

\* Threads are scheduled and a system call that can return does; the console need not speak,
\* the user need not act, and the network need not fail.  GLib runs every ready source of a
\* priority in each iteration, so the user's events do not starve the queued callbacks.
Fairness ==
    /\ WF_vars(MainStep)
    /\ SF_vars(DispatchCommand \/ DispatchStatus)
    /\ \A c \in Ctls : WF_vars(ListenerStep(c))
    /\ \A f \in Fds : WF_vars(GiveUp(f))

FairSpec == Spec /\ Fairness

-----------------------------------------------------------------------------
(* Properties.                                                             *)

\* Every open socket is the session of exactly the controller that holds its descriptor, also
\* after a failed LOGIN or ADD, a drop, a stop and a restart: nothing is leaked or closed twice.
SocketsAccounted ==
    /\ \A f \in Fds : sock[f] # Free => ctl[sock[f].owner].sockfd = f
    /\ \A c \in Ctls : ctl[c].sockfd # None => sock[ctl[c].sockfd].owner = c

\* What set_state relies on when it finds connected set: there is a session behind it.
ConnectedHasSocket == \A c \in Ctls : ctl[c].connected => ctl[c].sockfd # None

\* A freed controller has no thread left that could touch it, and no channel refers to it.
FreedIsQuiet ==
    \A c \in Ctls : ctl[c].life = "freed" =>
        /\ ctl[c].pc = "exit" /\ ctl[c].sockfd = None /\ ~ctl[c].running
        /\ slot[Chan(c)] # c[2]

\* Sockets, flags and handles of all controllers agree, through drops, failed sends, stops that
\* meet a listener anywhere in its loop, and restarts.
SessionsSound == TypeOK /\ SocketsAccounted /\ ConnectedHasSocket /\ FreedIsQuiet

\* The statuses of c in queue q alternate, and the last of them says whether it is in a session.
StatusAt(q, c) == {i \in DOMAIN q : q[i].c = c /\ q[i].what # "command"}
InTurn(q, c, inSession) ==
    \A i \in StatusAt(q, c) :
        /\ \A j \in StatusAt(q, c) :
              i < j /\ (\A k \in StatusAt(q, c) : k <= i \/ j <= k) => q[i].what # q[j].what
        /\ (\A k \in StatusAt(q, c) : k <= i) => (q[i].what = "up" <=> inSession)

\* The status callbacks of a controller that are still pending alternate, and the last of them
\* is the one its listener is in: connected from the announcement until the drop is posted.
InSession == {"loop", "recv", "leave", "close", "down"}
StatusInTurn == \A c \in Ctls : InTurn(queue, c, ctl[c].pc \in InSession)

\* controller_stop returns: the listener ends wherever stop finds it, connecting, sleeping
\* or blocked in recv on a socket that was opened while stop was running.
StopEnds == main.op = "join" ~> main.op # "join"

\* A controller that stays connected is shown as available in the end, whatever callbacks of
\* its predecessors were still pending when it was created.
ConnectedIsShown ==
    \A c \in Ctls : ctl[c].connected ~> shown[Chan(c)].valid \/ ~ctl[c].connected

\* Stopping a controller ends, and what its sessions announce is shown.
SessionsEnd == StopEnds /\ ConnectedIsShown
=============================================================================
