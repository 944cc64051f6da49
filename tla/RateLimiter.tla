----------------------------- MODULE RateLimiter -----------------------------
(***************************************************************************)
(* The limiter every request to a public web service passes                *)
(* (rate_limiter_wait in mb_http_backend.c).  The threads that prefetch,   *)
(* retry and fingerprint share it; one that comes too early sleeps without *)
(* the lock, and takes it again to put down the time.  Time is counted in  *)
(* ticks from the first request on.                                        *)
(***************************************************************************)
EXTENDS Integers

CONSTANTS
    Threads,
    Interval,       \* min_interval_us
    MaxTime

VARIABLES
    now,
    last,           \* last_us: of the last request let through
    until,          \* when a sleeping thread gets up, -1 for one that does not sleep
    sent            \* when a thread last was let through

vars == <<now, last, until, sent>>

Init ==
    /\ now = 0 /\ last = -Interval
    /\ until = [t \in Threads |-> -1]
    /\ sent = [t \in Threads |-> -Interval]

Tick == now < MaxTime /\ now' = now + 1 /\ UNCHANGED <<last, until, sent>>

\* Fault: only those who did not have to wait are put down.
LetThroughUnstamped(t) ==
    /\ last' = IF until[t] = -1 THEN now ELSE last
    /\ sent' = [sent EXCEPT ![t] = now]

LetThrough(t) == last' = now /\ sent' = [sent EXCEPT ![t] = now]

\* Under the lock: go, or sleep for what is missing.
Wait(t) ==
    /\ until[t] = -1
    /\ IF now < last + Interval
       THEN until' = [until EXCEPT ![t] = last + Interval] /\ UNCHANGED <<last, sent>>
       ELSE LetThrough(t) /\ UNCHANGED until
    /\ UNCHANGED now

\* Under the lock again, without another look at what happened meanwhile.
Wake(t) ==
    /\ until[t] # -1 /\ now >= until[t]
    /\ LetThrough(t)
    /\ until' = [until EXCEPT ![t] = -1]
    /\ UNCHANGED now

Next == Tick \/ \E t \in Threads: Wait(t) \/ Wake(t)

Spec == Init /\ [][Next]_vars

-----------------------------------------------------------------------------
(* Properties *)

\* A thread's own requests are an interval apart, however the others come in between: in an interval
\* there are no more requests than threads.
OwnSpaced == [][\A t \in Threads: sent'[t] # sent[t] => sent'[t] - sent[t] >= Interval]_vars

\* The limit is for the process: whoever sends them, two requests are an interval apart.
Spaced == \A t, u \in Threads:
    t # u /\ sent[t] >= 0 /\ sent[u] >= sent[t] => sent[u] >= sent[t] + Interval
=============================================================================
