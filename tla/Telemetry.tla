----------------------------- MODULE Telemetry -----------------------------
(***************************************************************************)
(* What the window learns from the audio side: each thread of PipeWire     *)
(* updates the position snapshot and publishes events, one after the other *)
(* (player.c), and a frame of the performance view reads the snapshot and  *)
(* then drains the ring (perf_view.c).                                     *)
(***************************************************************************)
EXTENDS EventRing

CONSTANTS
    Retries,    \* SEQLOCK_MAX_RETRIES
    Reordered,  \* may the relaxed odd store become visible after data it precedes?
    MaxWrites   \* bound: snapshots written

Bounds == Sizes /\ Retries \in Nat \ {0} /\ MaxWrites \in Nat /\ Reordered \in BOOLEAN

VARIABLES
    seq, snap,  \* of PositionSeqlock
    writes,     \* ... snapshots begun
    newest,     \* ... the newest one finished
    update,     \* ... per thread, where it is in player_update_position_snap
    frame       \* ... the frame's read of the snapshot

Position == INSTANCE PositionSeqlock WITH published <- newest, writer <- update, reader <- frame

position == <<seq, snap, writes, newest, update, frame>>

TelemetryInit == Init /\ Position!Init

(* A thread of the audio side does one thing at a time.                    *)
Updates(t) == writer[t].pc = "rest" /\ Position!Update(t) /\ UNCHANGED vars
Publishes(t) == update[t].pc = "rest" /\ Publish(t) /\ UNCHANGED position

(* perf_view's update: the snapshot, the events, and the next frame.       *)
Looks == Position!Look /\ UNCHANGED vars
Drains == frame.pc = "done" /\ Drain /\ UNCHANGED position
NextFrame == reader.pc = "rest" /\ Position!NextFrame /\ UNCHANGED vars

TelemetryNext ==
    \/ \E t \in Writers : Updates(t) \/ Publishes(t)
    \/ Looks \/ Drains \/ NextFrame

TelemetrySpec == TelemetryInit /\ [][TelemetryNext]_<<vars, position>>

-----------------------------------------------------------------------------
(* Properties; SkipsOnlyOverwritten is that of EventRing.                   *)

\* The view is given whole events, of each thread in the order it published
\* them, and the number of the snapshot is even between updates: otherwise
\* every later read would fail.
ReadingsSound ==
    /\ TypeOK /\ OnlyWholeEvents /\ InOrder
    /\ Position!TypeOK /\ Position!EvenAtRest

\* A snapshot a frame accepts is of one write: position, sample count and
\* speed belong together (the seqlock contract of struct audio_player); and it
\* is no older than the newest one when the accepted attempt began.
AcceptedSound == Position!AcceptedWhole /\ Position!AcceptedFresh
=============================================================================
