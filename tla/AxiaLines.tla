----------------------------- MODULE AxiaLines ------------------------------
(***************************************************************************)
(* The wire side of the Axia backend (axia.c): axia_pump reassembles the   *)
(* lines of a TCP stream across recv boundaries and decodes GPI            *)
(* notifications into commands; axia_set_state drives the indicator pins.  *)
(*                                                                         *)
(* The stream is a sequence of symbols.  Own and Other stand for "GPI n "  *)
(* with the channel's port or another port, H h L l are pin characters,    *)
(* Sp is a blank, Nl ends a line, Junk is any other character.  A port has *)
(* Pins pins, the first two are the on-air and the preview pin.            *)
(***************************************************************************)
EXTENDS Integers, Sequences, SequencesExt

CONSTANTS
    Own, Other, H, h, L, l, Sp, Nl, Junk,   \* symbols of the stream
    X,              \* in a GPO command: leave the pin as it is
    Pins,           \* AXIA_GPIO_PINS
    MaxLine,        \* LWRP_MAX_LINE - 1: symbols the line buffer holds
    MaxChunk,       \* symbols one recv returns
    Lines,          \* what a console sends: sequences of symbols
    MaxLines        \* bound: lines sent per session

States == {"idle", "preview", "queued", "on_air"}

VARIABLES
    wire,       \* symbols sent in this session and not yet received
    whole,      \* all symbols received in this session
    line,       \* line_buffer[0 .. line_pos - 1]
    emitted,    \* the commands of this session
    pins,       \* the pins of the channel's GPO port as the console has them
    state       \* the state the application last pushed

vars == <<wire, whole, line, emitted, pins, state>>

PinSymbols == {H, h, L, l}
Symbols == {Own, Other, Sp, Nl, Junk} \cup PinSymbols
PinIndex == 1 .. Pins

\* Assumed by the module that instantiates this one.
Sizes == Pins \in Nat /\ Pins >= 2 /\ MaxLine \in Nat \ {0} /\ MaxChunk \in Nat \ {0}
Alphabet == Lines \subseteq Seq(Symbols \ {Nl}) /\ h # l /\ X \notin {h, l}

-----------------------------------------------------------------------------
(* axia_protocol_parse_gpi and the emit conditions of axia_pump.           *)

\* A line without the blanks around it.
Trimmed(s) ==
    LET solid == {i \in DOMAIN s : s[i] # Sp}
    IN  IF solid = {} THEN <<>>
        ELSE SubSeq(s, CHOOSE i \in solid : \A j \in solid : i <= j,
                       CHOOSE i \in solid : \A j \in solid : i >= j)

\* The prefix, any blanks, exactly Pins pin characters and nothing else.
IsGpi(s) ==
    LET t == Trimmed(s)
        rest == IF t = <<>> THEN <<>> ELSE Trimmed(Tail(t))
    IN  /\ t # <<>>
        /\ t[1] \in {Own, Other}
        /\ Len(rest) = Pins
        /\ \A i \in PinIndex : rest[i] \in PinSymbols

PinsOf(s) == Trimmed(Tail(Trimmed(s)))

\* A button press: the pin went low just now.
Pressed(p) == p = L

\* The commands of one line.
Commands(s) ==
    IF IsGpi(s) /\ Trimmed(s)[1] = Own
      THEN (IF Pressed(PinsOf(s)[1]) THEN <<"play_pause">> ELSE <<>>)
              \o (IF Pressed(PinsOf(s)[2]) THEN <<"preview_toggle">> ELSE <<>>)
      ELSE <<>>

-----------------------------------------------------------------------------
(* axia_pump.                                                              *)

\* What the buffer holds after symbol c: an end of line empties it, a full buffer drops c.
NextLine(ln, c) ==
    IF c = Nl THEN <<>> ELSE IF Len(ln) < MaxLine THEN Append(ln, c) ELSE ln

\* One symbol: the reassembly loop's state is the buffer and what has been emitted.
Consume(st, c) ==
    [line |-> NextLine(st.line, c),
     out  |-> IF c = Nl /\ st.line # <<>> THEN st.out \o Commands(st.line) ELSE st.out]

\* The loop over the n symbols of one recv.
Consumed(n) ==
    LET st[i \in 0 .. n] == IF i = 0 THEN [line |-> line, out |-> emitted]
                                     ELSE Consume(st[i - 1], wire[i])
    IN  st[n]

\* One recv of n symbols.
Pump(n) ==
    /\ n \in 1 .. MaxChunk
    /\ n <= Len(wire)
    /\ line' = Consumed(n).line
    /\ emitted' = Consumed(n).out
    /\ whole' = whole \o SubSeq(wire, 1, n)
    /\ wire' = SubSeq(wire, n + 1, Len(wire))
    /\ UNCHANGED <<pins, state>>

\* axia_connect: no partial line survives from the session before.
FreshLine == <<>>

\* The connection drops anywhere in the stream and a new session starts.
Reconnect ==
    /\ wire' = <<>>
    /\ whole' = <<>>
    /\ emitted' = <<>>
    /\ line' = FreshLine
    /\ UNCHANGED <<pins, state>>

\* The console sends a line.  CRLF and LF are the same here: an empty line is nothing.
Say(s) ==
    /\ Len(SelectSeq(whole \o wire, LAMBDA c : c = Nl)) < MaxLines
    /\ wire' = wire \o Append(s, Nl)
    /\ UNCHANGED <<whole, line, emitted, pins, state>>

-----------------------------------------------------------------------------
(* axia_set_state.                                                         *)

\* The pins of the port that are not the channel's indicators.
OtherPin == X

PreviewLit(st) == st = "preview"

\* Active low: a lit indicator is driven low.
Drive(lit) == IF lit THEN l ELSE h

GpoPins(st) ==
    [i \in PinIndex |-> CASE i = 1 -> Drive(st = "on_air")
                          [] i = 2 -> Drive(PreviewLit(st))
                          [] OTHER -> OtherPin]

SetState(st) ==
    /\ st # state
    /\ state' = st
    /\ pins' = [i \in PinIndex |-> IF GpoPins(st)[i] = X THEN pins[i] ELSE GpoPins(st)[i]]
    /\ UNCHANGED <<wire, whole, line, emitted>>

Init ==
    /\ wire = <<>> /\ whole = <<>> /\ line = <<>> /\ emitted = <<>>
    /\ pins \in [PinIndex -> {h, l}]
    /\ pins[1] = h /\ pins[2] = h
    /\ state = "idle"

Next ==
    \/ \E n \in 1 .. MaxChunk : Pump(n)
    \/ Reconnect
    \/ \E s \in Lines : Say(s)
    \/ \E st \in States : SetState(st)

Spec == Init /\ [][Next]_vars

-----------------------------------------------------------------------------
(* Properties.                                                             *)

\* The buffer never outgrows line_buffer and never holds an end of line.
TypeOK ==
    /\ wire \in Seq(Symbols) /\ whole \in Seq(Symbols)
    /\ line \in Seq(Symbols \ {Nl}) /\ Len(line) <= MaxLine
    /\ emitted \in Seq({"play_pause", "preview_toggle"})
    /\ pins \in [PinIndex -> {h, l}]
    /\ state \in States

\* The line of stream s that ends before place i, cut to what the buffer holds.
Begins(s, i, from) ==
    /\ \A k \in from .. i - 1 : s[k] # Nl
    /\ from > 1 => s[from - 1] = Nl
LineTo(s, i) ==
    LET from == CHOOSE j \in 1 .. i : Begins(s, i, j)
    IN  SubSeq(s, from, IF i - from > MaxLine THEN from + MaxLine - 1 ELSE i - 1)

\* The commands of the complete lines of a stream.
Decoded(s) == FlattenSeq([i \in DOMAIN s |-> IF s[i] = Nl THEN Commands(LineTo(s, i)) ELSE <<>>])

\* Whatever recv boundaries the stream was cut at, and whatever an earlier session left
\* unfinished, the commands emitted are those of the complete lines of this session.
StreamDecoded == emitted = Decoded(whole)

\* The console shows what was pushed: on-air and preview exclude each other.
IndicatorsShow == (pins[1] = l <=> state = "on_air") /\ (pins[2] = l <=> state = "preview")

\* Lines and indicators of a session are those of its stream and of the last mode pushed, within
\* the buffer, however recv cuts the stream.
ConsoleAgrees == TypeOK /\ StreamDecoded /\ IndicatorsShow
=============================================================================
