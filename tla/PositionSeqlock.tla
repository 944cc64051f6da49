-------------------------- MODULE PositionSeqlock --------------------------
(***************************************************************************)
(* The position snapshot of a player: player_update_position_snap writes   *)
(* it under a sequence number that is odd meanwhile, and                   *)
(* audio_pipeline_get_player_display reads it without a lock.  A snapshot  *)
(* is its number in the order of the calls, written and read in two        *)
(* halves.                                                                 *)
(***************************************************************************)
EXTENDS Integers

CONSTANTS
    Writers,    \* the RT callback; the main thread, which holds the loop lock
    Retries,    \* SEQLOCK_MAX_RETRIES
    Reordered,  \* may the relaxed odd store become visible after data it precedes?
    MaxWrites   \* bound: snapshots written

VARIABLES
    seq,        \* p->position_seq
    snap,       \* p->position_snap, two halves
    writes,     \* snapshots begun
    published,  \* the newest snapshot whose write has finished
    writer,     \* per thread: where it is, the number loaded, its snapshot
    reader      \* the window's frame update

vars == <<seq, snap, writes, published, writer, reader>>

Halves == {"a", "b"}
Zero == [h \in Halves |-> 0]
Fresh == [pc |-> "seq1", attempt |-> 1, seq1 |-> 0, out |-> Zero, since |-> 0, accepted |-> FALSE]
Odd(n) == n % 2 = 1

TypeOK ==
    /\ seq \in Nat
    /\ snap \in [Halves -> 0 .. MaxWrites]
    /\ writes \in 0 .. MaxWrites /\ published \in 0 .. MaxWrites
    /\ writer \in [Writers -> [pc : {"rest", "a", "b", "store"}, s : Nat, v : 0 .. MaxWrites,
                               marked : BOOLEAN]]
    /\ reader \in [pc : {"seq1", "a", "b", "seq2", "done"}, attempt : 1 .. Retries, seq1 : Nat,
                   out : [Halves -> 0 .. MaxWrites], since : 0 .. MaxWrites, accepted : BOOLEAN]

Init ==
    /\ seq = 0
    /\ snap = Zero
    /\ writes = 0
    /\ published = 0
    /\ writer = [t \in Writers |-> [pc |-> "rest", s |-> 0, v |-> 0, marked |-> FALSE]]
    /\ reader = Fresh

-----------------------------------------------------------------------------
(* player_update_position_snap.                                            *)

LoadSeq(t) ==
    /\ writer[t].pc = "rest"
    /\ writes < MaxWrites
    /\ writes' = writes + 1
    /\ writer' = [writer EXCEPT ![t] = [pc |-> "a", s |-> seq, v |-> writes + 1,
                                        marked |-> FALSE]]
    /\ UNCHANGED <<seq, snap, published, reader>>

\* Fault: the mark keeps the number even.
MarkEven(s) == s

Mark(s) == s + 1

\* The leading store: "writing in progress".
StoreOdd(t) ==
    /\ writer[t].pc # "rest"
    /\ ~writer[t].marked
    /\ seq' = Mark(writer[t].s)
    /\ writer' = [writer EXCEPT ![t].marked = TRUE]
    /\ UNCHANGED <<snap, writes, published, reader>>

\* In program order the data follows the mark; the relaxed store does not say so.
InOrder(t) == writer[t].marked \/ Reordered

WriteHalf(t) ==
    \E h \in Halves :
        /\ writer[t].pc = h
        /\ InOrder(t)
        /\ snap' = [snap EXCEPT ![h] = writer[t].v]
        /\ writer' = [writer EXCEPT ![t].pc = IF h = "a" THEN "b" ELSE "store"]
        /\ UNCHANGED <<seq, writes, published, reader>>

Done(s) == s + 2

\* The trailing release store.
StoreDone(t) ==
    /\ writer[t].pc = "store"
    /\ writer[t].marked
    /\ seq' = Done(writer[t].s)
    /\ published' = IF writer[t].v > published THEN writer[t].v ELSE published
    /\ writer' = [writer EXCEPT ![t].pc = "rest"]
    /\ UNCHANGED <<snap, writes, reader>>

-----------------------------------------------------------------------------
(* audio_pipeline_get_player_display.                                      *)

AttemptsLeft(n) == n < Retries

Retry == IF AttemptsLeft(reader.attempt)
         THEN [reader EXCEPT !.pc = "seq1", !.attempt = @ + 1]
         ELSE [reader EXCEPT !.pc = "done"]

\* seq1; odd: try again.
ReadSeq1 ==
    /\ reader.pc = "seq1"
    /\ reader' = IF Odd(seq) THEN Retry ELSE [reader EXCEPT !.pc = "a", !.seq1 = seq,
                                                                 !.since = published]
    /\ UNCHANGED <<seq, snap, writes, published, writer>>

\* Fault: a retry compares the numbers again but keeps the first copy.
CopiedOnce(h) == IF reader.attempt = 1 \/ reader.out[h] = 0 THEN snap[h] ELSE reader.out[h]

Copied(h) == snap[h]

CopyHalf ==
    \E h \in Halves :
        /\ reader.pc = h
        /\ reader' = [reader EXCEPT !.out[h] = Copied(h), !.pc = IF h = "a" THEN "b" ELSE "seq2"]
        /\ UNCHANGED <<seq, snap, writes, published, writer>>

\* seq2; the same number: the snapshot is taken.
ReadSeq2 ==
    /\ reader.pc = "seq2"
    /\ reader' = IF seq = reader.seq1 THEN [reader EXCEPT !.pc = "done", !.accepted = TRUE]
                                      ELSE Retry
    /\ UNCHANGED <<seq, snap, writes, published, writer>>

\* The next frame.
NextFrame ==
    /\ reader.pc = "done"
    /\ reader' = [Fresh EXCEPT !.since = published]
    /\ UNCHANGED <<seq, snap, writes, published, writer>>

Update(t) == LoadSeq(t) \/ StoreOdd(t) \/ WriteHalf(t) \/ StoreDone(t)
Look == ReadSeq1 \/ CopyHalf \/ ReadSeq2

Next == (\E t \in Writers : Update(t)) \/ Look \/ NextFrame

Spec == Init /\ [][Next]_vars

-----------------------------------------------------------------------------
(* Properties.                                                             *)

\* A snapshot the reader accepts is of one write: position, sample count and
\* speed belong together (the seqlock contract of struct audio_player).
AcceptedWhole == reader.accepted => reader.out["a"] = reader.out["b"]

\* It is no older than the newest snapshot when the accepted attempt began: a
\* retry takes a new copy.
AcceptedFresh == reader.accepted => \A h \in Halves : reader.out[h] >= reader.since

\* Between writes the number is even: otherwise every later read fails.
EvenAtRest == (\A t \in Writers : writer[t].pc = "rest") => ~Odd(seq)
=============================================================================
