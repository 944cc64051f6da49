---------------------------- MODULE MCController ----------------------------
(***************************************************************************)
(* Instance of Controller and of AxiaLines for TLC: two controllers of a   *)
(* channel, one after the other, on two descriptors; and the bytes of one  *)
(* session, on three pins, with lines of every kind the parser tells apart *)
(* and a buffer shorter than the longest of them.                          *)
(*                                                                         *)
(* Sessions and bytes have no state in common, so that each is followed    *)
(* while the other has not begun.                                          *)
(***************************************************************************)
EXTENDS Controller

CONSTANTS
    Own, Other, H, h, L, l, Sp, Nl, Junk, X, Pins, MaxLine, MaxChunk, Lines, MaxLines

VARIABLES wire, whole, line, emitted, pins, state   \* of AxiaLines

Axia == INSTANCE AxiaLines

ASSUME SizeAssumption == Axia!Sizes
ASSUME AlphabetAssumption == Axia!Alphabet

session == <<wire, whole, line, emitted, pins, state>>

MCLines == {
    <<>>,                           \* blank line, also the second half of CRLF
    <<Own, L, h, h>>,               \* pin 1 pressed
    <<Own, Sp, L, L, h>>,           \* both pressed, blanks after the port
    <<Sp, Own, h, L, l, Sp>>,       \* pin 2 pressed, blanks around
    <<Own, H, l, h>>,               \* pin 1 released, pin 2 steady low
    <<Own, l, l, l>>,               \* the dump after ADD GPI
    <<Other, L, L, L>>,             \* another channel's port
    <<Own, L, L>>,                  \* too few pins
    <<Own, L, L, h, h>>,            \* too many pins
    <<Own, L, h, h, Sp, Sp, Junk>>, \* longer than the buffer
    <<Junk, L, L, L>> }

BothInit == Init /\ Axia!Init
BothNext ==
    \/ Axia!Init /\ pins[Pins] = h /\ Next /\ UNCHANGED session
    \/ Init /\ Axia!Next /\ UNCHANGED vars
BothSpec == BothInit /\ [][BothNext]_<<vars, session>> /\ Fairness

\* What the two ends of a session are told: the window hears the statuses in turn, and for every cut
\* of the stream into results of recv the commands are those of the complete lines and the console has
\* the pins of the state last pushed.
ConsoleAgrees == StatusInTurn /\ Axia!ConsoleAgrees
=============================================================================
