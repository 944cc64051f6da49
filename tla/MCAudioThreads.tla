--------------------------- MODULE MCAudioThreads ---------------------------
(***************************************************************************)
(* Instance of AudioPlayer and of Telemetry for TLC: two players of one    *)
(* album, tracks 1, 2, ... in order; and what one audio thread tells the   *)
(* window.  They have no state in common: a behaviour follows one of them, *)
(* its `part'.                                                             *)
(***************************************************************************)
EXTENDS AudioPlayer, TLC

CONSTANTS Empty, Torn, Writers, Size, Word, Max, Overlap, MaxEvents, Retries, Reordered, MaxWrites

VARIABLES part,
          slots, write, read, writer, count, reader, published, delivered,  \* of EventRing
          seq, snap, writes, newest, update, frame                          \* of Telemetry

Readings == INSTANCE Telemetry

ASSUME ReadingsAssumption == Readings!Bounds

readings == <<slots, write, read, writer, count, reader, published, delivered,
              seq, snap, writes, newest, update, frame>>

PlayerSymmetry == Permutations(Players)

AudioInit == part \in {"players", "readings"} /\ Init /\ Readings!TelemetryInit

AudioNext ==
    /\ UNCHANGED part
    /\ \/ part = "players" /\ Next /\ UNCHANGED readings
       \/ part = "readings" /\ Readings!TelemetryNext /\ UNCHANGED vars

AudioSpec == AudioInit /\ [][AudioNext]_<<part, vars, readings>>

-----------------------------------------------------------------------------
(* Properties *)

\* What the window learns from the audio threads is whole, in order and current.
ReadingsSound == Readings!ReadingsSound /\ Readings!AcceptedSound
SkipsOnlyOverwritten == Readings!SkipsOnlyOverwritten
=============================================================================
