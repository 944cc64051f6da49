---------------------------- MODULE LibrarySlots ----------------------------
(***************************************************************************)
(* The in-memory library cache (library_cache.c): one slot of entity       *)
(* arrays per library, filled by a warming thread, replaced by a refresh   *)
(* thread that builds a shadow and swaps it in, cleared, added and removed *)
(* by the main thread, which joins the threads it cancels.  The indexer    *)
(* commits to a library's database and asks for a refresh afterwards.      *)
(*                                                                         *)
(* The content of a slot is the version of the database it was read from,  *)
(* the version its arrays were sized for, and how many of the loading      *)
(* phases have run.  Every version adds rows: an array sized for an older  *)
(* version drops them.                                                     *)
(***************************************************************************)
EXTENDS Integers, Sequences, SequencesExt

CONSTANTS
    Libs,       \* bitmap indices
    First,      \* the libraries the cache is created with, a sequence
    Threads,    \* thread identities
    None,       \* no thread
    OpenFails,  \* may a database that exists fail to open?
    MaxVersion, \* bound: versions of a database
    MaxOps      \* bound: reconnects, clears, additions and removals

ASSUME LibsAssumption ==
    First \in Seq(Libs) /\ IsInjective(First) /\ None \notin Threads
ASSUME BoundAssumption ==
    MaxVersion \in Nat \ {0} /\ MaxOps \in Nat /\ OpenFails \in BOOLEAN

VARIABLES
    slots,      \* cache->slots: libraries by position
    map,        \* cache->bitmap_map: a position, or 0
    state,      \* warm_state
    warmThread, \* warm_thread
    cancel,     \* warm_cancel
    live,       \* the content of the slot's arrays
    uiDb,       \* is slot->db open?
    warmDb,     \* is slot->db_warm open?
    thr,        \* the warming and refresh threads
    lock,       \* who holds cache->lock
    main,       \* what the main thread is doing
    idles,      \* warming_complete_idle callbacks queued
    views,      \* the contents the views were last filled from
    db,         \* version of each library's database, 0 when there is none
    unsent,     \* commits no LIBRARY_UPDATED has reported yet
    due,        \* the debounced refresh of each library
    ops         \* operations so far

slotVars == <<slots, map, state, warmThread, cancel, live, uiDb, warmDb>>
vars == <<slots, map, state, warmThread, cancel, live, uiDb, warmDb, thr, lock,
          main, idles, views, db, unsent, due, ops>>

Phases == 5     \* artists, albums, tracks, credits, relationships
Versions == 0 .. MaxVersion
Contents == [ver : Versions, cap : Versions, parts : 0 .. Phases]
Sized(v) == [ver |-> 0, cap |-> v, parts |-> 0]
Whole(c) == c.parts = Phases
Truncated(c) == c.cap < c.ver

Off == [pc |-> "off", kind |-> "warm", lib |-> None, valid |-> TRUE,
        shadow |-> Sized(0)]
AtLoop == [at |-> "loop", op |-> "none", lib |-> None, todo |-> <<>>]

PCs == {"off", "open", "alloc", "artists", "albums", "tracks", "credits", "relate", "swap",
        "vocab", "index", "indexing", "ready", "drain", "ended"}
Running(t) == thr[t].pc \notin {"off", "ended"}

TypeOK ==
    /\ slots \in Seq(Libs)
    /\ map \in [Libs -> 0 .. Len(slots)]
    /\ state \in [Libs -> {"IDLE", "WARMING", "READY", "REFRESHING"}]
    /\ warmThread \in [Libs -> Threads \cup {None}]
    /\ cancel \in [Libs -> BOOLEAN]
    /\ live \in [Libs -> Contents] /\ views \in [Libs -> Contents]
    /\ uiDb \in [Libs -> BOOLEAN] /\ warmDb \in [Libs -> BOOLEAN]
    /\ thr \in [Threads -> [pc : PCs, kind : {"warm", "cow"}, lib : Libs \cup {None},
                            valid : BOOLEAN, shadow : Contents]]
    /\ lock \in Threads \cup {None}
    /\ main.at \in {"warm", "loop", "join", "act", "index", "indexing",
                    "destroy", "gone"}
    /\ idles \in Nat
    /\ db \in [Libs -> Versions]
    /\ unsent \in [Libs -> BOOLEAN]
    /\ due \in [Libs -> {"no", "empty", "rows"}]
    /\ ops \in 0 .. MaxOps

Init ==
    /\ db \in [Libs -> 0 .. 1]
    /\ slots = First
    /\ map = [l \in Libs |-> IF l \in ToSet(First) THEN CHOOSE i \in DOMAIN First : First[i] = l
                             ELSE 0]
    /\ state = [l \in Libs |-> "IDLE"]
    /\ warmThread = [l \in Libs |-> None]
    /\ cancel = [l \in Libs |-> FALSE]
    /\ uiDb = [l \in Libs |-> l \in ToSet(First) /\ db[l] > 0]
    /\ warmDb = uiDb
    /\ live = [l \in Libs |-> Sized(IF uiDb[l] THEN db[l] ELSE 0)]
    /\ thr = [t \in Threads |-> Off]
    /\ lock = None
    /\ main = [AtLoop EXCEPT !.at = "warm", !.op = "startup", !.todo = First]
    /\ idles = 0
    /\ views = live
    /\ unsent = [l \in Libs |-> FALSE]
    /\ due = [l \in Libs |-> "no"]
    /\ ops = 0

-----------------------------------------------------------------------------
(* The indexer *)

\* A transaction of the indexer, or of another process, adds rows.
Commit(l) ==
    /\ db[l] < MaxVersion
    /\ db' = [db EXCEPT ![l] = @ + 1]
    /\ unsent' = [unsent EXCEPT ![l] = TRUE]
    /\ UNCHANGED <<slotVars, thr, lock, main, idles, views, due, ops>>

\* LIBRARY_UPDATED carries the rows since the last one, perhaps none; the
\* debounce merges it with what is due already.
Updated(l) ==
    /\ db[l] > 0
    /\ unsent' = [unsent EXCEPT ![l] = FALSE]
    /\ due' = [due EXCEPT ![l] = IF unsent[l] \/ @ = "rows" THEN "rows" ELSE "empty"]
    /\ UNCHANGED <<slotVars, thr, lock, main, idles, views, db, ops>>

-----------------------------------------------------------------------------
(* The warming and refresh threads *)

Mine(l) == warmThread[l] # None
NewThread(t, kind, pc, l) ==
    /\ thr[t].pc = "off"
    /\ thr' = [thr EXCEPT ![t] = [Off EXCEPT !.pc = pc, !.kind = kind, !.lib = l]]
    /\ warmThread' = [warmThread EXCEPT ![l] = t]

\* What the thread is loading into: the slot itself, or the shadow.
Target(t) == IF thr[t].kind = "warm" THEN live[thr[t].lib] ELSE thr[t].shadow
Loaded(t, c, pc) ==
    IF thr[t].kind = "warm"
    THEN /\ live' = [live EXCEPT ![thr[t].lib] = c]
         /\ thr' = [thr EXCEPT ![t].pc = pc]
    ELSE /\ thr' = [thr EXCEPT ![t].pc = pc, ![t].shadow = c]
         /\ UNCHANGED live

\* A cancelled thread leaves the state of its slot as it is.
AfterCancel == "ended"
Checked(t, next) == IF cancel[thr[t].lib] THEN AfterCancel ELSE next

Opened(t, l) == db[l] > 0
Open(t) == LET l == thr[t].lib IN
    /\ thr[t].pc = "open"
    /\ \/ /\ Opened(t, l)
          /\ warmDb' = [warmDb EXCEPT ![l] = TRUE]
          /\ thr' = [thr EXCEPT ![t].pc = "alloc"]
       \/ /\ OpenFails \/ ~Opened(t, l)
          /\ warmDb' = [warmDb EXCEPT ![l] = FALSE]
          /\ thr' = [thr EXCEPT ![t].pc = "ended"]
    /\ UNCHANGED <<slots, map, state, warmThread, cancel, live, uiDb, lock, main, idles,
                   views, db, unsent, due, ops>>

Alloc(t) == LET l == thr[t].lib IN
    /\ thr[t].pc = "alloc"
    /\ thr' = [thr EXCEPT ![t].shadow = Sized(db[l]), ![t].pc = Checked(t, "artists")]
    /\ UNCHANGED <<slotVars, lock, main, idles, views, db, unsent, due, ops>>

\* The transaction begins with the artists and reads one version throughout.
Artists(t) ==
    /\ thr[t].pc = "artists"
    /\ Loaded(t, [Target(t) EXCEPT !.ver = db[thr[t].lib], !.parts = 1], Checked(t, "albums"))
    /\ UNCHANGED <<slots, map, state, warmThread, cancel, uiDb, warmDb, lock, main, idles,
                   views, db, unsent, due, ops>>

Albums(t) ==
    /\ thr[t].pc = "albums"
    /\ Loaded(t, [Target(t) EXCEPT !.parts = 2], Checked(t, "tracks"))
    /\ UNCHANGED <<slots, map, state, warmThread, cancel, uiDb, warmDb, lock, main, idles,
                   views, db, unsent, due, ops>>

\* Only the warming thread looks at the flag between tracks and credits.
Tracks(t) ==
    /\ thr[t].pc = "tracks"
    /\ Loaded(t, [Target(t) EXCEPT !.parts = 3],
              IF thr[t].kind = "warm" THEN Checked(t, "credits") ELSE "credits")
    /\ UNCHANGED <<slots, map, state, warmThread, cancel, uiDb, warmDb, lock, main, idles,
                   views, db, unsent, due, ops>>

Credits(t) ==
    /\ thr[t].pc = "credits"
    /\ Loaded(t, [Target(t) EXCEPT !.parts = 4], Checked(t, "relate"))
    /\ UNCHANGED <<slots, map, state, warmThread, cancel, uiDb, warmDb, lock, main, idles,
                   views, db, unsent, due, ops>>

\* After the relationships only the refresh thread still looks at the flag.
Relate(t) ==
    /\ thr[t].pc = "relate"
    /\ Loaded(t, [Target(t) EXCEPT !.parts = Phases],
              IF thr[t].kind = "warm" THEN "vocab" ELSE Checked(t, "swap"))
    /\ UNCHANGED <<slots, map, state, warmThread, cancel, uiDb, warmDb, lock, main, idles,
                   views, db, unsent, due, ops>>

\* Fault: the main thread holds cache->lock while it joins
FreeOfMain == lock = None /\ main.at # "join"
LockFree == lock = None
\* Fault: the swap is left out
KeptOld(t) == live[thr[t].lib]
Installed(t) == thr[t].shadow
Swap(t) == LET l == thr[t].lib IN
    /\ thr[t].pc = "swap"
    /\ LockFree
    /\ lock' = t
    /\ live' = [live EXCEPT ![l] = Installed(t)]
    /\ UNCHANGED main
    /\ thr' = [thr EXCEPT ![t].pc = "index"]
    /\ UNCHANGED <<slots, map, state, warmThread, cancel, uiDb, warmDb, idles, views, db,
                   unsent, due, ops>>

\* build_search_vocab_slot; the terms themselves are left out.
Vocab(t) ==
    /\ thr[t].pc = "vocab"
    /\ thr' = [thr EXCEPT ![t].pc = IF thr[t].kind = "warm" THEN "index" ELSE "ready"]
    /\ UNCHANGED <<slotVars, lock, main, idles, views, db, unsent, due, ops>>

\* build_mbid_indices frees the indices, reads every slot and installs new
\* ones.  The warming thread does it without the lock.
Index(t) ==
    /\ thr[t].pc = "index"
    /\ thr' = [thr EXCEPT ![t].pc = "indexing"]
    /\ UNCHANGED <<slotVars, lock, main, idles, views, db, unsent, due, ops>>

Indexed(t) ==
    /\ thr[t].pc = "indexing"
    /\ lock' = IF lock = t THEN None ELSE lock
    /\ thr' = [thr EXCEPT ![t].pc = IF thr[t].kind = "warm" THEN "ready" ELSE "vocab"]
    /\ UNCHANGED <<slotVars, main, idles, views, db, unsent, due, ops>>

Announced(t) == idles + 1
Ready(t) == LET l == thr[t].lib IN
    /\ thr[t].pc = "ready"
    /\ state' = [state EXCEPT ![l] = "READY"]
    /\ idles' = Announced(t)
    /\ thr' = [thr EXCEPT ![t].pc = IF thr[t].kind = "warm" THEN "ended" ELSE "drain",
                          ![t].shadow = Sized(0)]
    /\ UNCHANGED <<slots, map, warmThread, cancel, live, uiDb, warmDb, lock, main, views,
                   db, unsent, due, ops>>

Drain(t) ==
    /\ thr[t].pc = "drain"
    /\ UNCHANGED main
    /\ thr' = [thr EXCEPT ![t].pc = "ended"]
    /\ UNCHANGED <<slotVars, lock, idles, views, db, unsent, due, ops>>

ThreadStep(t) ==
    Open(t) \/ Alloc(t) \/ Artists(t) \/ Albums(t) \/ Tracks(t) \/ Credits(t) \/ Relate(t)
    \/ Swap(t) \/ Vocab(t) \/ Index(t) \/ Indexed(t) \/ Ready(t) \/ Drain(t)

-----------------------------------------------------------------------------
(* The main thread *)

Known(l) == map[l] # 0      \* bitmap_to_slot finds a slot
Others == <<thr, lock, idles, views, db, unsent, due>>

\* cancel_and_join_slot_warming, slot after slot: set the flag, join, clear it.
\* It passes over the slots in front that have no thread.
ToJoin(targets) ==
    IF \A i \in DOMAIN targets : ~Mine(targets[i]) THEN <<>>
    ELSE LET first == CHOOSE i \in DOMAIN targets :
                        Mine(targets[i]) /\ \A j \in 1 .. i - 1 : ~Mine(targets[j])
         IN  SubSeq(targets, first, Len(targets))
Flagged(op, todo, base) ==
    IF op # "await" /\ todo # <<>> /\ Mine(Head(todo))
    THEN [base EXCEPT ![Head(todo)] = TRUE] ELSE base

Start(op, l, targets) == LET todo == ToJoin(targets) IN
    /\ main.at = "loop"
    /\ main' = [main EXCEPT !.at = IF todo = <<>> THEN "act" ELSE "join", !.op = op, !.lib = l,
                            !.todo = todo]
    /\ cancel' = Flagged(op, todo, cancel)

Join == LET l == Head(main.todo)
            rest == ToJoin(Tail(main.todo)) IN
    /\ main.at = "join"
    /\ thr[warmThread[l]].pc = "ended"
    /\ thr' = [thr EXCEPT ![warmThread[l]] = Off]
    /\ warmThread' = [warmThread EXCEPT ![l] = None]
    /\ cancel' = Flagged(main.op, rest, [cancel EXCEPT ![l] = FALSE])
    /\ main' = [main EXCEPT !.todo = rest, !.at = IF rest = <<>> THEN "act" ELSE @]
    /\ UNCHANGED <<slots, map, state, live, uiDb, warmDb, lock, idles, views, db, unsent,
                   due, ops>>

\* The debounce timer: an empty change set needs no refresh.
DueRefresh(l) ==
    /\ due[l] # "no"
    /\ due' = [due EXCEPT ![l] = "no"]
    /\ IF Known(l) /\ due[l] = "rows"
       THEN Start("refresh", l, <<l>>)
       ELSE main.at = "loop" /\ UNCHANGED <<main, cancel>>
    /\ UNCHANGED <<slots, map, state, warmThread, live, uiDb, warmDb, thr, lock, idles,
                   views, db, unsent, ops>>

Acting(op) == main.at = "act" /\ main.op = op

MayRefresh(l) == state[l] \in {"READY", "IDLE"}
Refresh == LET l == main.lib IN
    /\ Acting("refresh")
    /\ main' = AtLoop
    /\ IF MayRefresh(l)
       THEN /\ state' = [state EXCEPT ![l] = "REFRESHING"]
            /\ \E t \in Threads : NewThread(t, "cow", "open", l)
       ELSE UNCHANGED <<state, thr, warmThread>>
    /\ UNCHANGED <<slots, map, cancel, live, uiDb, warmDb, lock, idles, views, db, unsent,
                   due, ops>>

\* library_cache_warm_slot
WarmNext == LET l == Head(main.todo) IN
    /\ main.at = "warm"
    /\ IF main.todo = <<>>
       THEN main' = AtLoop /\ UNCHANGED <<state, thr, warmThread>>
       ELSE /\ main' = [main EXCEPT !.todo = Tail(@)]
            /\ IF warmDb[l] /\ state[l] = "IDLE"
               THEN /\ state' = [state EXCEPT ![l] = "WARMING"]
                    /\ \E t \in Threads : NewThread(t, "warm", "artists", l)
               ELSE UNCHANGED <<state, thr, warmThread>>
    /\ UNCHANGED <<slots, map, cancel, live, uiDb, warmDb, lock, idles, views, db, unsent,
                   due, ops>>

\* ensure_slot_db_open, free_slot_arrays and allocate_slot_arrays of the
\* slots in ls, whose state goes back to IDLE.
Opens(l) == uiDb[l] \/ db[l] > 0
Emptied(ls) ==
    /\ uiDb' = [l \in Libs |-> IF l \in ls THEN Opens(l) ELSE uiDb[l]]
    /\ warmDb' = [l \in Libs |-> IF l \in ls /\ ~uiDb[l] THEN Opens(l) ELSE warmDb[l]]
    /\ live' = [l \in Libs |-> IF l \in ls THEN Sized(IF Opens(l) THEN db[l] ELSE 0) ELSE live[l]]
    /\ state' = [l \in Libs |-> IF l \in ls THEN "IDLE" ELSE state[l]]

Limited == ops < MaxOps /\ ops' = ops + 1

\* A library is reachable again: clear_slot, then warm_slot.
Reconnect(l) ==
    /\ Known(l) /\ Limited
    /\ Start("reconnect", l, <<l>>)
    /\ UNCHANGED <<slots, map, state, warmThread, live, uiDb, warmDb, Others>>
ClearSlot ==
    /\ Acting("reconnect")
    /\ Emptied({main.lib})
    /\ main' = [main EXCEPT !.at = "index"]
    /\ UNCHANGED <<slots, map, warmThread, cancel, Others, ops>>

\* library_cache_clear, followed by start_warming as documented.
Clear ==
    /\ Limited
    /\ Start("clear", None, slots)
    /\ UNCHANGED <<slots, map, state, warmThread, live, uiDb, warmDb, Others>>
ClearAll ==
    /\ Acting("clear")
    /\ Emptied(ToSet(slots))
    /\ main' = [main EXCEPT !.at = "warm", !.todo = slots]
    /\ UNCHANGED <<slots, map, warmThread, cancel, Others, ops>>

\* build_mbid_indices on the main thread; clear_slot's caller then warms.
MainIndex ==
    /\ main.at = "index"
    /\ main' = [main EXCEPT !.at = "indexing"]
    /\ UNCHANGED <<slotVars, Others, ops>>
MainIndexed ==
    /\ main.at = "indexing"
    /\ main' = IF main.op = "reconnect" THEN [main EXCEPT !.at = "warm", !.todo = <<main.lib>>]
               ELSE AtLoop
    /\ UNCHANGED <<slotVars, Others, ops>>

\* Threads that hold a pointer into the array of slots when it moves.
Moved(ls) == thr' = [t \in Threads |-> IF Running(t) /\ thr[t].lib \in ls
                                       THEN [thr[t] EXCEPT !.valid = FALSE] ELSE thr[t]]
\* Fault: the slots that moved down are not registered again.
NotShifted(s) == [l \in Libs |-> IF l \notin ToSet(s) THEN 0
                                 ELSE IF Known(l) THEN map[l] ELSE Len(s)]
Registered(s) == [l \in Libs |-> IF l \in ToSet(s) THEN CHOOSE i \in DOMAIN s : s[i] = l ELSE 0]

AddSlot(l) ==
    /\ ~Known(l) /\ Limited
    /\ Start("add", l, slots)
    /\ UNCHANGED <<slots, map, state, warmThread, live, uiDb, warmDb, Others>>
Added == LET l == main.lib IN
    /\ Acting("add")
    /\ slots' = Append(slots, l)
    /\ Moved(Libs)
    /\ map' = Registered(slots')
    /\ uiDb' = [uiDb EXCEPT ![l] = db[l] > 0]
    /\ warmDb' = [warmDb EXCEPT ![l] = db[l] > 0]
    /\ live' = [live EXCEPT ![l] = Sized(db[l])]
    /\ state' = [state EXCEPT ![l] = "IDLE"]
    /\ main' = AtLoop
    /\ UNCHANGED <<warmThread, cancel, lock, idles, views, db, unsent, due, ops>>

RemoveSlot(l) ==
    /\ Known(l) /\ Limited
    /\ Start("remove", l, slots)
    /\ UNCHANGED <<slots, map, state, warmThread, live, uiDb, warmDb, Others>>
Removed == LET l == main.lib IN
    /\ Acting("remove")
    /\ slots' = RemoveAt(slots, map[l])
    /\ Moved(ToSet(SubSeq(slots, map[l], Len(slots))))
    /\ map' = Registered(slots')
    /\ uiDb' = [uiDb EXCEPT ![l] = FALSE]
    /\ warmDb' = [warmDb EXCEPT ![l] = FALSE]
    /\ live' = [live EXCEPT ![l] = Sized(0)]
    /\ state' = [state EXCEPT ![l] = "IDLE"]
    /\ main' = [main EXCEPT !.at = "index"]
    /\ UNCHANGED <<warmThread, cancel, lock, idles, views, db, unsent, due, ops>>

\* library_cache_await_slot: a join without the flag.
Await(l) ==
    /\ Known(l) /\ Mine(l)
    /\ Start("await", l, <<l>>)
    /\ UNCHANGED <<slots, map, state, warmThread, live, uiDb, warmDb, Others, ops>>
Awaited ==
    /\ Acting("await")
    /\ main' = AtLoop
    /\ UNCHANGED <<slotVars, Others, ops>>

\* Every slot is joined, freed and closed before the next one is cancelled.
Destroy ==
    /\ main.at = "loop"
    /\ main' = [main EXCEPT !.at = "destroy", !.todo = slots]
    /\ cancel' = Flagged("destroy", slots, cancel)
    /\ UNCHANGED <<slots, map, state, warmThread, live, uiDb, warmDb, Others, ops>>
DestroyNext == LET l == Head(main.todo) IN
    /\ main.at = "destroy"
    /\ IF main.todo = <<>>
       THEN /\ main' = [main EXCEPT !.at = "gone"]
            /\ slots' = <<>>
            /\ map' = Registered(<<>>)
            /\ UNCHANGED <<thr, warmThread, cancel, live, uiDb, warmDb>>
       ELSE /\ Mine(l) => thr[warmThread[l]].pc = "ended"
            /\ thr' = [t \in Threads |-> IF t = warmThread[l] THEN Off ELSE thr[t]]
            /\ warmThread' = [warmThread EXCEPT ![l] = None]
            /\ cancel' = Flagged("destroy", Tail(main.todo), [cancel EXCEPT ![l] = FALSE])
            /\ live' = [live EXCEPT ![l] = Sized(0)]
            /\ uiDb' = [uiDb EXCEPT ![l] = FALSE]
            /\ warmDb' = [warmDb EXCEPT ![l] = FALSE]
            /\ main' = [main EXCEPT !.todo = Tail(@)]
            /\ UNCHANGED <<slots, map>>
    /\ UNCHANGED <<state, lock, idles, views, db, unsent, due, ops>>

\* warming_complete_idle: the window fills its views again.
ReadyIdle ==
    /\ main.at = "loop" /\ idles > 0
    /\ idles' = idles - 1
    /\ views' = live
    /\ UNCHANGED <<slotVars, thr, lock, main, db, unsent, due, ops>>

MainStep == Join \/ Refresh \/ WarmNext \/ ClearSlot \/ ClearAll \/ MainIndex \/ MainIndexed
            \/ Added \/ Removed \/ Awaited \/ DestroyNext
Request(l) == Reconnect(l) \/ AddSlot(l) \/ RemoveSlot(l) \/ Await(l)

Next ==
    \/ \E l \in Libs : Commit(l) \/ Updated(l) \/ DueRefresh(l) \/ Request(l)
    \/ \E t \in Threads : ThreadStep(t)
    \/ MainStep \/ ReadyIdle \/ Clear \/ Destroy

Spec == Init /\ [][Next]_vars

Fairness ==
    /\ \A t \in Threads : WF_vars(ThreadStep(t))
    /\ WF_vars(MainStep)
    /\ SF_vars(ReadyIdle)
    /\ \A l \in Libs : SF_vars(DueRefresh(l)) /\ WF_vars(unsent[l] /\ Updated(l))
FairSpec == Spec /\ Fairness

-----------------------------------------------------------------------------
(* Properties *)

\* Every thread that runs is the one its slot names, so that whoever clears,
\* moves or destroys the slot can join it, and a slot has one writer.
RunningIsJoinable ==
    \A t \in Threads : Running(t) => warmThread[thr[t].lib] = t

\* A slot that says IDLE or READY has no thread that still writes it: a thread
\* that is cancelled or fails leaves WARMING or REFRESHING behind.
SettledHasNoWriter ==
    \A t \in Threads : thr[t].pc \notin {"off", "ended", "drain"} =>
        state[thr[t].lib] = IF thr[t].kind = "warm" THEN "WARMING" ELSE "REFRESHING"

\* Whoever clears, moves or destroys a slot can tell from the slot who writes it.
WritersKnown == TypeOK /\ RunningIsJoinable /\ SettledHasNoWriter

\* Readers of a READY slot find every phase of one snapshot, never the rows a
\* cancelled warming left.
ReadyIsWhole == \A l \in ToSet(slots) :
    state[l] = "READY" /\ main.at # "destroy" => Whole(live[l])

\* A thread's LibrarySlot* stays good: the array of slots never moves under
\* a thread, and the bitmap map finds every slot where it is.
SlotsStayPut ==
    /\ \A t \in Threads : Running(t) => thr[t].valid
    /\ \A l \in ToSet(slots) : map[l] \in DOMAIN slots /\ slots[map[l]] = l

\* Threads and the slots they write find each other, wherever slots are moved to.
SlotsSound == WritersKnown /\ SlotsStayPut

Quiet(l) == ~Mine(l) \/ thr[warmThread[l]].pc = "ended"
Reported(l) == ~unsent[l] /\ due[l] = "no" /\ main.at = "loop"

\* When everything the indexer committed has been reported and handled, a
\* READY slot shows it all: no commit is lost between the snapshot a thread
\* reads, the change sets the timer merges and the threads it cancels.
ReadyIsCurrent == \A l \in ToSet(slots) :
    Quiet(l) /\ Reported(l) /\ state[l] = "READY" => live[l].ver = db[l] /\ ~Truncated(live[l])

\* What a READY slot serves is one snapshot, and the last one once everything is reported.
ReadySound == ReadyIsWhole /\ ReadyIsCurrent

\* The views are filled again after a slot has become ready, with what it holds.
ReadyIsShown == \A l \in Libs :
    state[l] = "READY" ~> views[l] = live[l] \/ state[l] # "READY" \/ main.at = "gone"

\* The main thread is never stuck in a join: a thread it cancels ends, also
\* the one that waits for the lock.
MainReturns == main.at = "join" ~> main.at \notin {"join", "act"}

\* A refresh reaches the views, and whoever waits for one gets on.
RefreshesEnd == ReadyIsShown /\ MainReturns

\* LIBRARY_CACHE.md: "The MBID indices are rebuilt under cache->lock", so by
\* one thread at a time.
IndexBuiltAlone ==
    /\ \A t, u \in Threads : thr[t].pc = "indexing" /\ thr[u].pc = "indexing" => t = u
    /\ main.at = "indexing" => \A t \in Threads : thr[t].pc # "indexing"
=============================================================================
