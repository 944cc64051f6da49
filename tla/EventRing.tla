----------------------------- MODULE EventRing -----------------------------
(***************************************************************************)
(* The ring of fault events the audio side publishes and the performance   *)
(* view drains (telemetry.c).  An event is copied in two halves, by the    *)
(* thread that publishes it and by the reader, so a copy of a slot that    *)
(* changes meanwhile is torn.  Indices are unsigned and wrap.              *)
(***************************************************************************)
EXTENDS Integers, Sequences

CONSTANTS
    Writers,    \* threads that publish: the RT data loop, the PipeWire main loop
    Size,       \* AUDIO_EVENT_RING_SIZE
    Word,       \* the number of values of an index, 2^32
    Max,        \* events a drain takes at most
    Empty,      \* a slot as calloc leaves it
    Torn,       \* parts of two events
    Overlap,    \* may an event be written while a drain takes from a full ring?
    MaxEvents   \* bound: events published

Sizes ==
    /\ Size \in Nat \ {0} /\ Max \in Nat \ {0}
    /\ Word \in Nat /\ Word > Size /\ Word % Size = 0
    /\ MaxEvents \in Nat /\ Overlap \in BOOLEAN
    /\ Empty # Torn /\ {Empty, Torn} \cap (Writers \X Nat) = {}

VARIABLES
    slots,      \* pl->events
    write, read,\* pl->event_write, pl->event_read
    writer,     \* per thread: where it is in publish_event, and its index
    count,      \* per thread: the number of its current event
    reader,     \* where the view is in get_events: indices, copied events, half a copy
    published,  \* the events whose index was advanced past, in that order
    delivered   \* the events handed to the view

vars == <<slots, write, read, writer, count, reader, published, delivered>>

Indices == 0 .. Word - 1
Events == Writers \X (1 .. MaxEvents)
Contents == Events \cup {Empty, Torn}
Quiet == [pc |-> "rest", w |-> 0, r |-> 0, n |-> 0, half |-> Empty]

TypeOK ==
    /\ slots \in [0 .. Size - 1 -> Contents]
    /\ write \in Indices /\ read \in Indices
    /\ writer \in [Writers -> [pc : {"rest", "fill", "store"}, w : Indices]]
    /\ count \in [Writers -> 0 .. MaxEvents]
    /\ reader \in [pc : {"rest", "copy", "half"}, w : Indices, r : Indices, n : 0 .. Max,
                   half : Contents]
    /\ published \in Seq(Events)
    /\ delivered \in Seq(Contents)

Init ==
    /\ slots = [i \in 0 .. Size - 1 |-> Empty]
    /\ write = 0
    /\ read = 0
    /\ writer = [t \in Writers |-> [pc |-> "rest", w |-> 0]]
    /\ count = [t \in Writers |-> 0]
    /\ reader = Quiet
    /\ published = <<>>
    /\ delivered = <<>>

Slot(i) == i % Size
Succ(i) == (i + 1) % Word
Behind(w, r) == (w - r) % Word      \* unsigned subtraction
Total == Len(published)

-----------------------------------------------------------------------------
(* audio_pipeline_publish_event.                                           *)

\* The index while the slot is being written.
Bumped(w) == write

\* With Overlap = FALSE the slot about to be written is none a drain is taking.
MayStart == Overlap \/ reader.pc = "rest" \/ Behind(write, reader.r) < Size
MayDrain == Overlap \/ Behind(write, read) < Size \/ \A t \in Writers : writer[t].pc = "rest"

Begin(t) ==
    /\ writer[t].pc = "rest"
    /\ Total < MaxEvents /\ count[t] < MaxEvents
    /\ MayStart
    /\ writer' = [writer EXCEPT ![t] = [pc |-> "fill", w |-> write]]
    /\ count' = [count EXCEPT ![t] = @ + 1]
    /\ slots' = [slots EXCEPT ![Slot(write)] = Torn]
    /\ write' = Bumped(write)
    /\ UNCHANGED <<read, reader, published, delivered>>

Fill(t) ==
    /\ writer[t].pc = "fill"
    /\ slots' = [slots EXCEPT ![Slot(writer[t].w)] = <<t, count[t]>>]
    /\ writer' = [writer EXCEPT ![t].pc = "store"]
    /\ UNCHANGED <<write, read, count, reader, published, delivered>>

\* The release store of the index loaded in Begin, plus one.
Store(t) ==
    /\ writer[t].pc = "store"
    /\ write' = Succ(writer[t].w)
    /\ published' = Append(published, <<t, count[t]>>)
    /\ writer' = [writer EXCEPT ![t].pc = "rest"]
    /\ UNCHANGED <<slots, read, count, reader, delivered>>

-----------------------------------------------------------------------------
(* audio_pipeline_get_events.                                              *)

\* Fault: one slot too many is taken for readable.
OldestOffByOne(w) == (w - Size - 1) % Word

Oldest(w) == (w - Size) % Word

\* The indices are loaded; of a ring that was lapped the last Size remain.
Load ==
    /\ reader.pc = "rest"
    /\ MayDrain
    /\ reader' = [Quiet EXCEPT !.pc = "copy", !.w = write,
                               !.r = IF Behind(write, read) > Size THEN Oldest(write) ELSE read]
    /\ UNCHANGED <<slots, write, read, writer, count, published, delivered>>

RoomFor(n) == n < Max

More == reader.r < reader.w /\ RoomFor(reader.n)

CopyHalf ==
    /\ reader.pc = "copy"
    /\ More
    /\ reader' = [reader EXCEPT !.pc = "half", !.half = slots[Slot(reader.r)]]
    /\ UNCHANGED <<slots, write, read, writer, count, published, delivered>>

CopyRest ==
    /\ reader.pc = "half"
    /\ LET now == slots[Slot(reader.r)] IN
          delivered' = Append(delivered, IF now = reader.half THEN now ELSE Torn)
    /\ reader' = [reader EXCEPT !.pc = "copy", !.r = Succ(reader.r), !.n = @ + 1]
    /\ UNCHANGED <<slots, write, read, writer, count, published>>

\* Fault: what did not fit is taken for read.
ReadToAll(r) == reader.w

ReadTo(r) == r

Finish ==
    /\ reader.pc = "copy"
    /\ ~More
    /\ read' = ReadTo(reader.r)
    /\ reader' = Quiet
    /\ UNCHANGED <<slots, write, writer, count, published, delivered>>

Publish(t) == Begin(t) \/ Fill(t) \/ Store(t)
Drain == Load \/ CopyHalf \/ CopyRest \/ Finish

Next == (\E t \in Writers : Publish(t)) \/ Drain

Spec == Init /\ [][Next]_vars

-----------------------------------------------------------------------------
(* Properties.                                                             *)

\* What a drain hands out is a whole event whose index was published before:
\* "a reader that acquire-observes the new index is guaranteed to see the
\* populated slot" (audio_pipeline_publish_event).
OnlyWholeEvents == \A i \in DOMAIN delivered : \E j \in DOMAIN published :
                                                  delivered[i] = published[j]

\* No event is handed out twice or before an older one of its thread, however
\* drains, their limit and overflows of the ring follow each other.
InOrder ==
    \A i, j \in DOMAIN delivered :
        i < j /\ delivered[i] \in Events /\ delivered[j] \in Events
              /\ delivered[i][1] = delivered[j][1]
           => delivered[i][2] < delivered[j][2]

\* A drain passes over an event only if the ring overflowed past it; what did
\* not fit into the caller's buffer is kept for the next one.  (Of one writer,
\* before the indices wrap, the index of an event is its place in published.)
SkipsOnlyOverwritten ==
    [][\A n \in read .. read' - 1 :
          \/ \E i \in DOMAIN delivered : delivered[i] = published[n + 1]
          \/ Total - n > Size]_vars
=============================================================================
