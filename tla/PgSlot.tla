-------------------------------- MODULE PgSlot --------------------------------
(***************************************************************************)
(* One slot of the PostgreSQL backend (mb_pg_backend.c): a session with    *)
(* the MusicBrainz mirror, one with the AcoustID database, and a           *)
(* kept-alive connection to acoustid-index (mb_pg_acoustid.c).  A session  *)
(* is of use once its search path, its batch function and its prepared     *)
(* statements are there; all of them belong to the session.  Servers go    *)
(* and come back, answers come late.                                       *)
(***************************************************************************)
EXTENDS Integers, Sequences

CONSTANTS
    MaxLookups,     \* fingerprint lookups of the slot
    MaxDrops        \* times a server drops what it has

VARIABLES
    mb, acoustid,   \* the sessions: open, and set up
    client,         \* the slot has an AcoustID client and a connection to the index
    fd, alive,      \* the connection to the index: a socket is there, and is of use
    wire,           \* answers on their way in that socket
    op,             \* the operation in hand
    asked, answer,  \* number of the lookup in hand, and of the one whose answer was read
    result,         \* of the last operation
    drops

vars == <<mb, acoustid, client, fd, alive, wire, op, asked, answer, result, drops>>

socket == <<fd, alive, wire>>

Session(open) == [open |-> open, ready |-> open]

\* Without a first session there is no backend; without a second, or an index, the slot works on.  The
\* index is connected to if it can be.
Create ==
    /\ mb = Session(TRUE)
    /\ client \in BOOLEAN /\ acoustid = Session(client)
    /\ fd \in BOOLEAN /\ alive = fd

Init ==
    /\ Create
    /\ wire = <<>> /\ op = "none" /\ asked = 0 /\ answer = 0 /\ result = "none" /\ drops = 0

-----------------------------------------------------------------------------
(* Sessions *)

BatchFetch ==
    /\ op = "none"
    /\ result' = IF mb.open /\ mb.ready THEN "ok" ELSE "internal"
    /\ UNCHANGED <<mb, acoustid, client, socket, op, asked, answer, drops>>

IsrcLookup ==
    /\ op = "none"
    /\ result' = IF mb.open /\ mb.ready THEN "ok" ELSE "unavailable"
    /\ UNCHANGED <<mb, acoustid, client, socket, op, asked, answer, drops>>

\* PQreset opens new sessions, if the servers take them, in which nothing is set up.
Reset ==
    /\ op = "none"
    /\ \E up, up2 \in BOOLEAN:
        /\ mb' = [open |-> up, ready |-> FALSE]
        /\ acoustid' = [open |-> up2 /\ client, ready |-> FALSE]
        /\ result' = IF up /\ (client => up2) THEN "reset" ELSE "none"
    /\ UNCHANGED <<client, socket, op, asked, answer, drops>>

-----------------------------------------------------------------------------
(* A fingerprint lookup: index, AcoustID, mirror *)

\* The slot is without the service, or the fingerprint cannot be decoded.
LookupRefused ==
    /\ op = "none"
    /\ result' = IF client THEN "internal" ELSE "unavailable"
    /\ UNCHANGED <<mb, acoustid, client, socket, op, asked, answer, drops>>

\* http_conn_ensure: a socket that is of no use any more is closed, with all that was on its way in
\* it, and a new one connected.
Ensured(keep) == IF keep THEN wire ELSE <<>>

\* The request goes out, if need be on a new connection, twice at most.
Post ==
    /\ op = "none" /\ client /\ asked < MaxLookups
    /\ asked' = asked + 1
    /\ \/ /\ \E keep \in BOOLEAN:           \* the socket of before, or a new one
             /\ keep => fd /\ alive
             /\ wire' = Append(Ensured(keep), asked')
          /\ fd' = TRUE /\ alive' = TRUE
          /\ op' = "receive" /\ UNCHANGED result
       \/ /\ fd' = FALSE /\ alive' = FALSE /\ wire' = <<>>      \* it cannot be connected
          /\ op' = "none" /\ result' = "unavailable"
    /\ UNCHANGED <<mb, acoustid, client, answer, drops>>

\* Fault: what was on its way stays with the connection when nothing came for ten seconds.
NothingCameKept ==
    /\ op = "receive"
    /\ op' = "none" /\ result' = "unavailable"
    /\ UNCHANGED <<mb, acoustid, client, socket, asked, answer, drops>>

\* Nothing comes for ten seconds, or the answer breaks off: the socket is of no use any more.
NothingCame ==
    /\ op = "receive"
    /\ alive' = FALSE
    /\ op' = "none" /\ result' = "unavailable"
    /\ UNCHANGED <<mb, acoustid, client, fd, wire, asked, answer, drops>>

\* The next answer in the socket is read; the server may have it closed, or not said where the answer
\* ends.
Received ==
    /\ op = "receive" /\ wire # <<>>
    /\ answer' = Head(wire)
    /\ wire' = Tail(wire)
    /\ alive' \in BOOLEAN
    /\ \/ op' = "acoustid" /\ UNCHANGED result
       \/ op' = "none" /\ result' = "ok"        \* no match in the index
    /\ UNCHANGED <<mb, acoustid, client, fd, asked, drops>>

QueryAcoustid ==
    /\ op = "acoustid"
    /\ IF acoustid.open /\ acoustid.ready
       THEN op' = "mirror" /\ UNCHANGED result
       ELSE op' = "none" /\ result' = "unavailable"
    /\ UNCHANGED <<mb, acoustid, client, socket, asked, answer, drops>>

QueryMirror ==
    /\ op = "mirror"
    /\ op' = "none"
    /\ result' = IF mb.open /\ mb.ready THEN "ok" ELSE "unavailable"
    /\ UNCHANGED <<mb, acoustid, client, socket, asked, answer, drops>>

Drop ==
    /\ drops < MaxDrops
    /\ drops' = drops + 1
    /\ \/ mb' = Session(FALSE) /\ UNCHANGED <<acoustid, wire>>
       \/ acoustid' = Session(FALSE) /\ UNCHANGED <<mb, wire>>
       \/ wire' = <<>> /\ UNCHANGED <<mb, acoustid>>
    /\ UNCHANGED <<client, fd, alive, op, asked, answer, result>>

Next ==
    \/ BatchFetch \/ IsrcLookup \/ Reset \/ LookupRefused
    \/ Post \/ NothingCame \/ Received \/ QueryAcoustid \/ QueryMirror
    \/ Drop

Spec == Init /\ [][Next]_vars

-----------------------------------------------------------------------------
(* Properties *)

\* The answer read for a fingerprint is the index's answer to it: one that comes after it was given
\* up is never taken for the answer to the next.
AnswerIsOwn == op \in {"acoustid", "mirror"} => answer = asked

\* A failed fetch is made once more after a reconnect: the new session can serve it.
RetryCanSucceed == [][result = "reset" /\ BatchFetch => result' = "ok" \/ ~mb.open]_vars
=============================================================================
