------------------------- MODULE LibrarySlotsProofs -------------------------
(***************************************************************************)
(* What is proved of three parts of MCLibrary.  Of LibrarySlots, for any   *)
(* libraries, threads, versions and operations: threads and the slots they *)
(* write find each other wherever slots are moved to (SlotsSound), and     *)
(* what a READY slot serves is one snapshot, the last one when all is      *)
(* reported (ReadySound).  Of Artists, for any names, ids, tracks and      *)
(* albums: rows stay distinct and findable, and whoever keeps a row's id   *)
(* finds the row (ArtistsSound).  Of LibraryCard, for any number of scans, *)
(* rebuilds and loads: the card follows its scans (CardSound).             *)
(*                                                                         *)
(* Order: sequences of libraries; the inductive invariant of the slots;    *)
(* the steps of the indexer, of the threads and of the main thread, which  *)
(* all go through the joins; the theorems on slots; the artists, from      *)
(* finding a row to the writer of a scan; the card, a lemma for each step. *)
(***************************************************************************)
EXTENDS MCLibrary, FiniteSetTheorems, SequenceTheorems, WellFoundedInduction, TLAPS

-----------------------------------------------------------------------------
(* Sequences of libraries *)

LEMMA LeastOf ==
  ASSUME NEW n \in Nat, NEW K, K \subseteq 1 .. n, K # {}
  PROVE  \E k \in K : \A j \in 1 .. k - 1 : j \notin K
<1> DEFINE S == 1 .. n  F == {1 .. k : k \in K}
<1>1. IsFiniteSet(S) /\ F \subseteq SUBSET S /\ F # {}
  <2>1. IsFiniteSet(S)
    <3>1. 1 \in Int /\ n \in Int
      OBVIOUS
    <3>. QED BY <3>1, FS_Interval
  <2>2. ASSUME NEW k \in K PROVE 1 .. k \subseteq S
    <3>1. k \in 1 .. n
      OBVIOUS
    <3>. QED BY <3>1
  <2>3. F \subseteq SUBSET S /\ F # {}
    BY <2>2
  <2>. QED BY <2>1, <2>3
<1>2. IsWellFoundedOn(StrictSubsetOrdering(S), SUBSET S)
  BY <1>1, FS_StrictSubsetOrderingWellFounded, FS_FiniteSubsetsOfFinite
<1>3. PICK T \in F : \A U \in F : <<U, T>> \notin StrictSubsetOrdering(S)
  <2> HIDE DEF F, S
  <2>. QED BY <1>1, <1>2, WFMin
<1>4. PICK k \in K : T = 1 .. k
  OBVIOUS
<1>5. ASSUME NEW j \in 1 .. k - 1, j \in K PROVE FALSE
  <2>1. 1 .. j \in F /\ 1 .. j \subseteq T /\ 1 .. j # T
    BY SMTT(30), <1>4, <1>5
  <2>. QED BY <1>1, <1>3, <2>1 DEF StrictSubsetOrdering
<1>. QED BY <1>5

LEMMA InSeq ==
  ASSUME NEW s \in Seq(Libs)
  PROVE  /\ ToSet(s) \subseteq Libs /\ DOMAIN s = 1 .. Len(s) /\ Len(s) \in Nat
         /\ \A i \in DOMAIN s : s[i] \in ToSet(s)
         /\ \A l \in ToSet(s) : \E i \in DOMAIN s : s[i] = l
BY DEF ToSet

LEMMA EmptySet == ToSet(<<>>) = {} /\ IsInjective(<<>>) /\ <<>> \in Seq(Libs)
BY DEF ToSet, IsInjective

LEMMA SuffixFacts ==
  ASSUME NEW s \in Seq(Libs), IsInjective(s), NEW k \in DOMAIN s
  PROVE  LET r == SubSeq(s, k, Len(s)) IN
         /\ r \in Seq(Libs) /\ r # <<>> /\ IsInjective(r) /\ Head(r) = s[k]
         /\ ToSet(r) \subseteq ToSet(s)
         /\ \A i \in DOMAIN s : i >= k => s[i] \in ToSet(r)
<1> DEFINE r == SubSeq(s, k, Len(s))
<1>1. Len(s) \in Nat /\ DOMAIN s = 1 .. Len(s) /\ k \in 1 .. Len(s)
  OBVIOUS
<1>2. /\ r \in Seq(Libs) /\ Len(r) = Len(s) - k + 1
      /\ \A i \in 1 .. Len(s) - k + 1 : r[i] = s[k + i - 1]
  <2>1. \A i \in k .. Len(s) : s[i] \in Libs
    BY <1>1
  <2>. HIDE DEF r
  <2>. QED BY <1>1, <2>1, SubSeqProperties DEF r
<1> HIDE DEF r
<1>3. DOMAIN r = 1 .. Len(s) - k + 1 /\ r # <<>> /\ Head(r) = s[k]
  BY <1>1, <1>2
<1>4. IsInjective(r)
  <2> SUFFICES ASSUME NEW i \in DOMAIN r, NEW j \in DOMAIN r, r[i] = r[j] PROVE i = j
    BY DEF IsInjective
  <2>1. k + i - 1 \in DOMAIN s /\ k + j - 1 \in DOMAIN s /\ s[k + i - 1] = s[k + j - 1]
    <3>1. i \in 1 .. Len(s) - k + 1 /\ j \in 1 .. Len(s) - k + 1
      BY <1>3
    <3>2. k + i - 1 \in 1 .. Len(s) /\ k + j - 1 \in 1 .. Len(s)
      BY <1>1, <3>1
    <3>3. r[i] = s[k + i - 1] /\ r[j] = s[k + j - 1]
      BY <1>2, <3>1
    <3>. QED BY <1>1, <3>2, <3>3
  <2>2. k + i - 1 = k + j - 1
    BY <2>1 DEF IsInjective
  <2>. QED BY <1>1, <1>3, <2>2
<1>5. ToSet(r) \subseteq ToSet(s)
  BY <1>1, <1>2, <1>3 DEF ToSet
<1>6. ASSUME NEW i \in DOMAIN s, i >= k PROVE s[i] \in ToSet(r)
  <2>1. i - k + 1 \in DOMAIN r /\ r[i - k + 1] = s[i]
    BY SMTT(30), <1>1, <1>2, <1>3, <1>6
  <2>. QED BY <2>1 DEF ToSet
<1>. QED BY <1>2, <1>3, <1>4, <1>5, <1>6 DEF r

\* What is left to join: all that have a thread, the first of them in front.
LEMMA ToJoinFacts ==
  ASSUME NEW s \in Seq(Libs), IsInjective(s)
  PROVE  /\ ToJoin(s) \in Seq(Libs) /\ IsInjective(ToJoin(s)) /\ ToSet(ToJoin(s)) \subseteq ToSet(s)
         /\ \A l \in ToSet(s) : Mine(l) => l \in ToSet(ToJoin(s))
         /\ ToJoin(s) # <<>> => Mine(Head(ToJoin(s)))
<1>1. CASE \A i \in DOMAIN s : ~Mine(s[i])
  <2>1. ToJoin(s) = <<>>
    BY <1>1 DEF ToJoin
  <2>. QED BY <1>1, <2>1, EmptySet, InSeq
<1>2. CASE ~\A i \in DOMAIN s : ~Mine(s[i])
  <2> DEFINE K == {i \in DOMAIN s : Mine(s[i])}
             First1(i) == Mine(s[i]) /\ \A j \in 1 .. i - 1 : ~Mine(s[j])
             k == CHOOSE i \in DOMAIN s : First1(i)
  <2>1. \E i \in DOMAIN s : First1(i)
    <3>1. K \subseteq 1 .. Len(s) /\ K # {} /\ Len(s) \in Nat
      BY <1>2
    <3>2. PICK i \in K : \A j \in 1 .. i - 1 : j \notin K
      <4> HIDE DEF K
      <4>. QED BY <3>1, LeastOf
    <3>3. \A j \in 1 .. i - 1 : j \in DOMAIN s
      BY <3>1
    <3>. QED BY <3>2, <3>3
  <2>2. k \in DOMAIN s /\ First1(k)
    <3> HIDE DEF First1
    <3>. QED BY <2>1
  <2>3. ToJoin(s) = SubSeq(s, k, Len(s))
    BY <1>2 DEF ToJoin
  <2> HIDE DEF k
  <2>4. \A i \in DOMAIN s : Mine(s[i]) => i >= k
    BY <2>2
  <2>. QED BY <2>2, <2>3, <2>4, SuffixFacts, InSeq
<1>. QED BY <1>1, <1>2

LEMMA TailFacts ==
  ASSUME NEW s \in Seq(Libs), IsInjective(s), s # <<>>
  PROVE  /\ Head(s) \in ToSet(s) /\ Head(s) \in Libs /\ Tail(s) \in Seq(Libs) /\ IsInjective(Tail(s))
         /\ ToSet(Tail(s)) = ToSet(s) \ {Head(s)}
<1>1. /\ Head(s) = s[1] /\ 1 \in DOMAIN s /\ DOMAIN s = 1 .. Len(s) /\ Len(s) \in Nat \ {0}
      /\ Tail(s) \in Seq(Libs) /\ DOMAIN Tail(s) = 1 .. Len(s) - 1
      /\ \A i \in 1 .. Len(s) - 1 : Tail(s)[i] = s[i + 1]
  BY HeadTailProperties
<1>2. IsInjective(Tail(s))
  BY <1>1 DEF IsInjective
<1>3. ToSet(Tail(s)) \subseteq ToSet(s) \ {Head(s)}
  BY <1>1 DEF IsInjective, ToSet
<1>4. ASSUME NEW l \in ToSet(s) \ {Head(s)} PROVE l \in ToSet(Tail(s))
  <2>1. PICK i \in DOMAIN s : s[i] = l
    BY DEF ToSet
  <2>2. i - 1 \in DOMAIN Tail(s) /\ Tail(s)[i - 1] = l
    BY <1>1, <1>4, <2>1
  <2>. QED BY <2>2 DEF ToSet
<1>. QED BY <1>1, <1>2, <1>3, <1>4, InSeq

LEMMA AppendFacts ==
  ASSUME NEW s \in Seq(Libs), IsInjective(s), NEW l \in Libs, l \notin ToSet(s)
  PROVE  /\ Append(s, l) \in Seq(Libs) /\ IsInjective(Append(s, l))
         /\ ToSet(Append(s, l)) = ToSet(s) \cup {l}
<1> DEFINE a == Append(s, l)
<1>1. /\ a \in Seq(Libs) /\ DOMAIN a = 1 .. Len(s) + 1 /\ DOMAIN s = 1 .. Len(s) /\ Len(s) \in Nat
      /\ \A i \in 1 .. Len(s) : a[i] = s[i]
      /\ a[Len(s) + 1] = l
  BY AppendProperties
<1> HIDE DEF a
<1>2. \A i \in 1 .. Len(s) : a[i] \in ToSet(s)
  BY <1>1 DEF ToSet
<1>3. IsInjective(a)
  BY <1>1, <1>2 DEF IsInjective
<1>4. ToSet(a) = ToSet(s) \cup {l}
  BY SMTT(30), <1>1 DEF ToSet
<1>. QED BY <1>1, <1>3, <1>4 DEF a

LEMMA RemoveFacts ==
  ASSUME NEW s \in Seq(Libs), IsInjective(s), NEW k \in DOMAIN s
  PROVE  /\ RemoveAt(s, k) \in Seq(Libs) /\ IsInjective(RemoveAt(s, k))
         /\ ToSet(RemoveAt(s, k)) = ToSet(s) \ {s[k]}
<1> DEFINE a == SubSeq(s, 1, k - 1)  b == SubSeq(s, k + 1, Len(s))  r == a \o b
<1>1. Len(s) \in Nat /\ DOMAIN s = 1 .. Len(s) /\ k \in 1 .. Len(s) /\ \A i \in DOMAIN s : s[i] \in Libs
  OBVIOUS
<1>2. /\ a \in Seq(Libs) /\ Len(a) = k - 1
      /\ \A i \in 1 .. k - 1 : a[i] = s[i]
  <2>1. \A i \in 1 .. k - 1 : s[i] \in Libs
    BY <1>1
  <2>2. 1 \in Int /\ k - 1 \in Int
    BY <1>1
  <2>3. /\ a \in Seq(Libs) /\ Len(a) = IF 1 <= k - 1 THEN k - 1 - 1 + 1 ELSE 0
        /\ \A i \in 1 .. k - 1 - 1 + 1 : a[i] = s[1 + i - 1]
    BY <2>1, <2>2, SubSeqProperties
  <2>. HIDE DEF a
  <2>. QED BY <1>1, <2>3
<1>3. /\ b \in Seq(Libs) /\ Len(b) = Len(s) - k
      /\ \A i \in 1 .. Len(s) - k : b[i] = s[k + i]
  <2>1. \A i \in k + 1 .. Len(s) : s[i] \in Libs
    BY <1>1
  <2>2. k + 1 \in Int /\ Len(s) \in Int
    BY <1>1
  <2>3. /\ b \in Seq(Libs) /\ Len(b) = IF k + 1 <= Len(s) THEN Len(s) - (k + 1) + 1 ELSE 0
        /\ \A i \in 1 .. Len(s) - (k + 1) + 1 : b[i] = s[k + 1 + i - 1]
    BY <2>1, <2>2, SubSeqProperties
  <2>. HIDE DEF b
  <2>4. Len(b) = Len(s) - k
    BY <1>1, <2>3
  <2>5. ASSUME NEW i \in 1 .. Len(s) - k PROVE b[i] = s[k + i]
    <3>1. i \in 1 .. Len(s) - (k + 1) + 1 /\ k + 1 + i - 1 = k + i
      BY <1>1
    <3>2. b[i] = s[k + 1 + i - 1]
      BY <2>3, <3>1
    <3>. QED BY <3>1, <3>2
  <2>. QED BY <2>3, <2>4, <2>5
<1> HIDE DEF a, b
<1>4. /\ r \in Seq(Libs) /\ Len(r) = Len(s) - 1
      /\ \A i \in 1 .. Len(s) - 1 : r[i] = IF i <= k - 1 THEN a[i] ELSE b[i - (k - 1)]
  <2>1. /\ r \in Seq(Libs) /\ Len(r) = Len(a) + Len(b)
        /\ \A i \in 1 .. Len(a) + Len(b) : r[i] = IF i <= Len(a) THEN a[i] ELSE b[i - Len(a)]
    BY <1>2, <1>3, ConcatProperties
  <2>2. Len(a) + Len(b) = Len(s) - 1
    BY <1>1, <1>2, <1>3
  <2> HIDE DEF r
  <2>. QED BY SMTT(30), <1>2, <2>1, <2>2
<1> HIDE DEF r
<1>5. /\ DOMAIN r = 1 .. Len(s) - 1
      /\ \A i \in 1 .. Len(s) - 1 : r[i] = IF i < k THEN s[i] ELSE s[i + 1]
  <2>1. DOMAIN r = 1 .. Len(s) - 1
    BY <1>4
  <2>2. ASSUME NEW i \in 1 .. Len(s) - 1 PROVE r[i] = IF i < k THEN s[i] ELSE s[i + 1]
    <3>1. CASE i < k
      <4>1. i \in 1 .. k - 1 /\ i <= k - 1
        BY <1>1, <3>1
      <4>. QED BY <1>2, <1>4, <3>1, <4>1
    <3>2. CASE ~(i < k)
      <4>1. ~(i <= k - 1) /\ i - (k - 1) \in 1 .. Len(s) - k /\ k + (i - (k - 1)) = i + 1
        BY <1>1, <3>2
      <4>2. r[i] = b[i - (k - 1)]
        BY <1>4, <4>1
      <4>3. b[i - (k - 1)] = s[k + (i - (k - 1))]
        BY <1>3, <4>1
      <4>. QED BY <3>2, <4>1, <4>2, <4>3
    <3>. QED BY <3>1, <3>2
  <2>. QED BY <2>1, <2>2
<1>6. IsInjective(r)
  <2> DEFINE at(i) == IF i < k THEN i ELSE i + 1
  <2> SUFFICES ASSUME NEW i \in DOMAIN r, NEW j \in DOMAIN r, r[i] = r[j] PROVE i = j
    BY DEF IsInjective
  <2>1. at(i) \in DOMAIN s /\ at(j) \in DOMAIN s
    BY <1>1, <1>5
  <2>2. s[at(i)] = s[at(j)]
    BY <1>5
  <2>3. at(i) = at(j)
    <3> HIDE DEF at
    <3>. QED BY <2>1, <2>2 DEF IsInjective
  <2>. QED BY <1>1, <1>5, <2>3
<1>7. ToSet(r) \subseteq ToSet(s) \ {s[k]}
  BY SMTT(30), <1>1, <1>5 DEF IsInjective, ToSet
<1>8. ASSUME NEW l \in ToSet(s) \ {s[k]} PROVE l \in ToSet(r)
  <2>1. PICK i \in DOMAIN s : s[i] = l /\ i # k
    BY DEF ToSet
  <2>2. CASE i < k
    BY <1>1, <1>5, <2>1, <2>2 DEF ToSet
  <2>3. CASE i > k
    <3>1. i - 1 \in DOMAIN r /\ r[i - 1] = l
      BY <1>1, <1>5, <2>1, <2>3
    <3>. QED BY <3>1 DEF ToSet
  <2>. QED BY <1>1, <2>1, <2>2, <2>3
<1>. QED BY <1>4, <1>6, <1>7, <1>8 DEF RemoveAt, a, b, r

LEMMA RegisteredFacts ==
  ASSUME NEW s \in Seq(Libs)
  PROVE  /\ Registered(s) \in [Libs -> 0 .. Len(s)]
         /\ \A l \in Libs : Registered(s)[l] # 0 <=> l \in ToSet(s)
         /\ \A l \in ToSet(s) : Registered(s)[l] \in DOMAIN s /\ s[Registered(s)[l]] = l
<1>1. ASSUME NEW l \in Libs, l \in ToSet(s)
      PROVE  Registered(s)[l] \in DOMAIN s /\ s[Registered(s)[l]] = l
  BY <1>1, InSeq DEF Registered
<1>2. \A l \in Libs : l \notin ToSet(s) => Registered(s)[l] = 0
  BY DEF Registered
<1>3. Registered(s) = [l \in Libs |-> Registered(s)[l]]
  BY DEF Registered
<1>4. \A l \in Libs : Registered(s)[l] \in 0 .. Len(s)
  BY <1>1, <1>2, InSeq
<1>5. \A i \in DOMAIN s : i # 0
  BY InSeq
<1>6. Registered(s) \in [Libs -> 0 .. Len(s)]
  BY <1>3, <1>4
<1>. QED BY <1>1, <1>2, <1>5, <1>6, InSeq
-----------------------------------------------------------------------------
(* The inductive invariant *)

MainPlaces == {"warm", "loop", "join", "act", "index", "indexing", "destroy", "gone"}
Operations == {"startup", "none", "refresh", "reconnect", "clear", "add", "remove", "await"}
OneLib == {"refresh", "reconnect", "await"}

Thread == [pc : PCs, kind : {"warm", "cow"}, lib : Libs \cup {None}, valid : BOOLEAN,
           shadow : Contents]

\* The main thread's operation, with the libraries it has before it.
MainTyped == main \in [at : MainPlaces, op : Operations, lib : Libs \cup {None}, todo : Seq(Libs)]

\* Every library is in one slot at most, and the map knows which.
Placed ==
    /\ IsInjective(slots)
    /\ \A l \in Libs : map[l] # 0 <=> l \in ToSet(slots)
    /\ \A l \in ToSet(slots) : map[l] \in DOMAIN slots /\ slots[map[l]] = l

\* A thread, ended or not, is the one its slot names until it is joined.
Named ==
    /\ \A t \in Threads : thr[t].pc # "off" => thr[t].lib \in Libs /\ warmThread[thr[t].lib] = t
    /\ \A l \in Libs : Mine(l) => /\ thr[warmThread[l]].pc # "off" /\ thr[warmThread[l]].lib = l
                                  /\ l \in ToSet(slots)

\* What an operation still has to join is all that has a thread among its targets.
Targets == IF main.op \in OneLib THEN {main.lib} ELSE Libs
Left == ToSet(main.todo)
Joining ==
    /\ IsInjective(main.todo) /\ Left \subseteq ToSet(slots)
    /\ main.at = "warm" => \A l \in Left : ~Mine(l)
    /\ main.at = "join" => main.todo # <<>> /\ Mine(Head(main.todo))
    /\ main.at = "act" => main.todo = <<>>
    /\ main.at \in {"join", "act"} =>
         /\ main.op \notin {"none", "startup"}
         /\ main.op \in OneLib \cup {"remove"} => main.lib \in ToSet(slots)
         /\ main.op = "add" => main.lib \in Libs \ ToSet(slots)
         /\ \A l \in Targets : Mine(l) => l \in Left
    /\ main.at \in {"index", "indexing"} /\ main.op = "reconnect" =>
         main.lib \in ToSet(slots) /\ ~Mine(main.lib)
    /\ main.at = "destroy" => \A l \in Libs : Mine(l) => l \in Left
    /\ main.at = "gone" => slots = <<>>

Stays == \A t \in Threads : Running(t) => thr[t].valid

WriterAt(t) ==
    thr[t].pc \notin {"off", "ended", "drain"} =>
        state[thr[t].lib] = IF thr[t].kind = "warm" THEN "WARMING" ELSE "REFRESHING"

\* How far a thread has come: whether the arrays it has loaded, or swapped in, are whole.
AfterLoad == {"vocab", "index", "indexing", "ready", "drain"}
LoadingAt(t) ==
    /\ thr[t].kind = "warm" => thr[t].pc \notin {"open", "alloc", "swap", "drain"}
    /\ thr[t].pc \in AfterLoad => Whole(live[thr[t].lib])
    /\ thr[t].pc = "swap" => Whole(thr[t].shadow)

\* A commit that some later step still has to react to.
Pending(l) ==
    \/ unsent[l] \/ due[l] = "rows"
    \/ main.op = "refresh" /\ main.lib = l /\ main.at \in {"join", "act"}
Fresh(c, l) == c.ver = db[l] /\ c.cap = db[l]

\* Unless one is pending, what a thread loads is the last version ...
CurrentAt(t) ==
    thr[t].pc # "off" /\ ~Pending(thr[t].lib) =>
        /\ thr[t].pc = "artists" => Target(t).cap = db[thr[t].lib]
        /\ thr[t].pc \in {"albums", "tracks", "credits", "relate"} => Fresh(Target(t), thr[t].lib)
        /\ thr[t].pc = "swap" => Fresh(thr[t].shadow, thr[t].lib)
        /\ thr[t].pc \in AfterLoad => Fresh(live[thr[t].lib], thr[t].lib)

\* ... what a READY slot serves too, and an IDLE one has room for it.
SettledAt(l) ==
    /\ state[l] = "READY" => Whole(live[l])
    /\ ~Pending(l) => /\ state[l] = "IDLE" => live[l].cap = db[l]
                      /\ state[l] = "READY" => Fresh(live[l], l)

Loading == \A t \in Threads : WriterAt(t) /\ LoadingAt(t) /\ CurrentAt(t)
Settled == main.at # "destroy" => \A l \in ToSet(slots) : SettledAt(l)

Structure == MainTyped /\ Placed /\ Named /\ Joining /\ Stays
IInv == TypeOK /\ Structure /\ Loading /\ Settled
-----------------------------------------------------------------------------
(* What the steps of the threads have in common *)

LEMMA TypedThread ==
  ASSUME TypeOK
  PROVE  /\ thr \in [Threads -> Thread] /\ live \in [Libs -> Contents] /\ db \in [Libs -> Versions]
         /\ slots \in Seq(Libs) /\ None \notin Threads
BY LibsAssumption DEF TypeOK, Thread

LEMMA OnlyThread ==
  ASSUME IInv, NEW t \in Threads, NEW u \in Threads \ {t}, thr[t].pc # "off", thr[u].pc # "off"
  PROVE  thr[u].lib # thr[t].lib /\ thr[u].lib \in Libs /\ thr[t].lib \in Libs
BY DEF IInv, Structure, Named

\* A step of thread t concerns its own record, and content and state of its own slot.
LEMMA ThreadStepKeeps ==
  ASSUME IInv, TypeOK', NEW t \in Threads, NEW l, l = thr[t].lib, Running(t),
         UNCHANGED <<slots, map, warmThread, main, db, unsent, due>>,
         \A u \in Threads \ {t} : thr'[u] = thr[u],
         thr'[t].kind = thr[t].kind, thr'[t].lib = l, thr'[t].valid = thr[t].valid,
         thr'[t].pc # "off",
         \A m \in Libs \ {l} : live'[m] = live[m] /\ state'[m] = state[m],
         WriterAt(t)', LoadingAt(t)', CurrentAt(t)', SettledAt(l)'
  PROVE  IInv'
<1> USE DEF IInv, Structure
<1>1. thr[t].pc # "off" /\ l \in Libs
  BY DEF Running, Named
<1>2. MainTyped' /\ Placed' /\ Named' /\ Joining'
  <2>1. MainTyped' /\ Placed'
    BY DEF MainTyped, Placed
  <2>2. Joining'
    BY DEF Joining, Targets, Left, Mine
  <2>3. \A u \in Threads : /\ thr'[u].lib = thr[u].lib
                           /\ thr'[u].pc # "off" <=> thr[u].pc # "off"
    BY <1>1
  <2>4. \A m \in Libs : Mine(m) => warmThread[m] \in Threads
    BY DEF TypeOK, Mine
  <2>5. Named'
    BY <2>3, <2>4 DEF Named, Mine
  <2>. QED BY <2>1, <2>2, <2>5
<1>3. Stays'
  BY DEF Stays, Running
<1>4. ASSUME NEW u \in Threads \ {t} PROVE WriterAt(u)' /\ LoadingAt(u)' /\ CurrentAt(u)'
  <2>1. CASE thr[u].pc = "off"
    BY <2>1 DEF Loading, WriterAt, LoadingAt, CurrentAt, AfterLoad
  <2>2. CASE thr[u].pc # "off"
    <3>1. thr[u].lib # l /\ thr[u].lib \in Libs
      BY <1>1, <2>2, OnlyThread
    <3>2. WriterAt(u)' /\ LoadingAt(u)'
      BY SMTT(30), <3>1 DEF Loading, WriterAt, LoadingAt
    <3>3. CurrentAt(u)'
      BY <3>1 DEF Loading, CurrentAt, Pending, Target, Fresh
    <3>. QED BY <3>2, <3>3
  <2>. QED BY SMTT(30), <2>1, <2>2
<1>5. Loading'
  BY <1>4 DEF Loading
<1>6. Settled'
  <2>1. ASSUME NEW m \in ToSet(slots), m # l, SettledAt(m) PROVE SettledAt(m)'
    <3>1. m \in Libs
      BY TypedThread, InSeq
    <3>. QED BY <2>1, <3>1 DEF SettledAt, Pending, Fresh
  <2>. QED BY <2>1 DEF Settled
<1>. QED BY <1>2, <1>3, <1>5, <1>6

\* A phase of loading, into the slot or into the shadow.
LEMMA LoadedEffect ==
  ASSUME TypeOK, NEW t \in Threads, NEW l \in Libs, l = thr[t].lib,
         NEW c \in Contents, NEW pc \in PCs, Loaded(t, c, pc)
  PROVE  /\ thr' \in [Threads -> Thread] /\ live' \in [Libs -> Contents]
         /\ \A u \in Threads \ {t} : thr'[u] = thr[u]
         /\ thr'[t].kind = thr[t].kind /\ thr'[t].lib = l /\ thr'[t].valid = thr[t].valid
         /\ thr'[t].pc = pc
         /\ \A m \in Libs \ {l} : live'[m] = live[m]
         /\ IF thr[t].kind = "warm" THEN live'[l] = c ELSE thr'[t].shadow = c /\ live' = live
<1>1. thr \in [Threads -> Thread] /\ thr[t] \in Thread /\ live \in [Libs -> Contents]
  BY TypedThread
<1>2. CASE thr[t].kind = "warm"
  <2>1. live' = [live EXCEPT ![l] = c] /\ thr' = [thr EXCEPT ![t].pc = pc]
    BY <1>2 DEF Loaded
  <2>2. thr' = [thr EXCEPT ![t] = [thr[t] EXCEPT !.pc = pc]]
    BY <1>1, <2>1
  <2>3. [thr[t] EXCEPT !.pc = pc] \in Thread
    BY <1>1 DEF Thread
  <2>. QED BY <1>1, <1>2, <2>1, <2>2, <2>3 DEF Thread
<1>3. CASE thr[t].kind # "warm"
  <2>1. thr' = [thr EXCEPT ![t].pc = pc, ![t].shadow = c] /\ live' = live
    BY <1>3 DEF Loaded
  <2>2. thr' = [thr EXCEPT ![t] = [thr[t] EXCEPT !.pc = pc, !.shadow = c]]
    BY <1>1, <2>1
  <2>3. [thr[t] EXCEPT !.pc = pc, !.shadow = c] \in Thread
    BY <1>1 DEF Thread
  <2>. QED BY <1>1, <1>3, <2>1, <2>2, <2>3 DEF Thread
<1>. QED BY <1>2, <1>3

LoadPlaces == {"artists", "albums", "tracks", "credits", "relate"}
\* Where a phase leads to: the next one, the end, or for the last what follows the arrays.
LEMMA LoadStep ==
  ASSUME IInv, NEW t \in Threads, NEW l, l = thr[t].lib, thr[t].pc \in LoadPlaces,
         NEW c \in Contents,
         NEW pc \in {"albums", "tracks", "credits", "relate", "vocab", "swap", "ended"},
         Loaded(t, c, pc), pc = "vocab" => thr[t].kind = "warm", pc = "swap" => thr[t].kind = "cow",
         pc \in {"vocab", "swap"} => Whole(c),
         ~Pending(l) => Fresh(c, l),
         UNCHANGED <<slots, map, state, warmThread, cancel, uiDb, warmDb, lock, main, idles,
                     views, db, unsent, due, ops>>
  PROVE  IInv'
<1>1. Running(t) /\ l \in Libs /\ pc \in PCs /\ TypeOK /\ thr[t].kind \in {"warm", "cow"}
  BY TypedThread DEF Running, LoadPlaces, IInv, Structure, Named, PCs, Thread
<1>2. /\ thr' \in [Threads -> Thread] /\ live' \in [Libs -> Contents]
      /\ \A u \in Threads \ {t} : thr'[u] = thr[u]
      /\ thr'[t].kind = thr[t].kind /\ thr'[t].lib = l /\ thr'[t].valid = thr[t].valid
      /\ thr'[t].pc = pc
      /\ \A m \in Libs \ {l} : live'[m] = live[m]
      /\ IF thr[t].kind = "warm" THEN live'[l] = c ELSE thr'[t].shadow = c /\ live' = live
  BY <1>1, LoadedEffect
<1>3. TypeOK'
  BY <1>1, <1>2 DEF TypeOK, Thread
<1>4. state[l] = IF thr[t].kind = "warm" THEN "WARMING" ELSE "REFRESHING"
  BY DEF IInv, Loading, WriterAt, LoadPlaces
<1>5. WriterAt(t)'
  BY <1>2, <1>4 DEF WriterAt
<1>6. LoadingAt(t)'
  BY <1>1, <1>2 DEF LoadingAt, AfterLoad
<1>7. CurrentAt(t)'
  <2>1. Pending(l)' <=> Pending(l)
    BY DEF Pending
  <2>2. Fresh(c, l) => Target(t)'.cap = db[l] /\ Target(t)'.ver = db[l]
    BY <1>1, <1>2 DEF Target, Fresh
  <2>. QED BY <1>1, <1>2, <2>1, <2>2 DEF CurrentAt, AfterLoad, Fresh
<1>8. SettledAt(l)'
  BY <1>4 DEF SettledAt
<1>. QED BY <1>1, <1>2, <1>3, <1>5, <1>6, <1>7, <1>8, ThreadStepKeeps
-----------------------------------------------------------------------------
(* The steps of the threads *)

LEMMA Writing ==
  ASSUME IInv, NEW t \in Threads, Running(t)
  PROVE  /\ thr[t] \in Thread /\ thr[t].lib \in Libs /\ thr[t].pc # "off"
         /\ Target(t) \in Contents /\ live[thr[t].lib] \in Contents /\ db[thr[t].lib] \in Versions
         /\ thr[t].kind \in {"warm", "cow"}
BY TypedThread DEF IInv, Structure, Named, Running, Thread, Target

LEMMA ContentFacts ==
  ASSUME NEW c \in Contents
  PROVE  /\ \A v \in Versions, n \in 0 .. Phases : [c EXCEPT !.ver = v, !.parts = n] \in Contents
         /\ \A n \in 0 .. Phases : /\ [c EXCEPT !.parts = n] \in Contents
                                   /\ [c EXCEPT !.parts = n].ver = c.ver
                                   /\ [c EXCEPT !.parts = n].cap = c.cap
                                   /\ [c EXCEPT !.parts = n].parts = n
BY Zenon DEF Contents, Phases

LEMMA ArtistsStep ==
  ASSUME IInv, NEW t \in Threads, Artists(t)
  PROVE  IInv'
<1> DEFINE l == thr[t].lib
           c == [Target(t) EXCEPT !.ver = db[l], !.parts = 1]
<1>1. /\ thr[t].pc = "artists" /\ Running(t)
      /\ Loaded(t, c, Checked(t, "albums"))
      /\ UNCHANGED <<slots, map, state, warmThread, cancel, uiDb, warmDb, lock, main, idles,
                     views, db, unsent, due, ops>>
  BY DEF Artists, Running
<1>2. c \in Contents
  <2>1. Target(t) \in Contents /\ db[l] \in Versions
    BY <1>1, Writing
  <2>2. 1 \in 0 .. Phases
    BY DEF Phases
  <2>. QED BY <2>1, <2>2, ContentFacts
<1>3. Checked(t, "albums") \in {"albums", "ended"}
  BY DEF Checked, AfterCancel
<1>4. ~Pending(l) => Fresh(c, l)
  <2>1. ~Pending(l) => Target(t).cap = db[l]
    BY <1>1 DEF IInv, Loading, CurrentAt
  <2>. QED BY <1>1, <2>1, Writing DEF Fresh, Contents
<1> HIDE DEF c
<1>. QED BY <1>1, <1>2, <1>3, <1>4, LoadStep DEF LoadPlaces

\* A phase after the first keeps versions, and only the last one ends with whole arrays.
LEMMA LaterStep ==
  ASSUME IInv, NEW t \in Threads, NEW n \in 2 .. Phases,
         NEW pc \in {"albums", "tracks", "credits", "relate", "vocab", "swap", "ended"},
         thr[t].pc \in {"albums", "tracks", "credits", "relate"},
         Loaded(t, [Target(t) EXCEPT !.parts = n], pc),
         pc = "vocab" => thr[t].kind = "warm", pc = "swap" => thr[t].kind = "cow",
         pc \in {"vocab", "swap"} => n = Phases,
         UNCHANGED <<slots, map, state, warmThread, cancel, uiDb, warmDb, lock, main, idles,
                     views, db, unsent, due, ops>>
  PROVE  IInv'
<1> DEFINE l == thr[t].lib
           c == [Target(t) EXCEPT !.parts = n]
<1>1. Running(t) /\ Target(t) \in Contents /\ n \in 0 .. Phases
  BY Writing DEF Running, Phases
<1>2. c \in Contents /\ c.ver = Target(t).ver /\ c.cap = Target(t).cap /\ c.parts = n
  BY <1>1, ContentFacts
<1>3. ~Pending(l) => Fresh(Target(t), l)
  BY <1>1 DEF IInv, Loading, CurrentAt, Running
<1> HIDE DEF c
<1>4. (~Pending(l) => Fresh(c, l)) /\ (pc \in {"vocab", "swap"} => Whole(c))
  BY <1>2, <1>3 DEF Fresh, Whole
<1>5. Loaded(t, c, pc)
  BY DEF c
<1>. QED BY <1>2, <1>4, <1>5, LoadStep DEF LoadPlaces

LEMMA PhaseStep ==
  ASSUME IInv, NEW t \in Threads, Albums(t) \/ Tracks(t) \/ Credits(t) \/ Relate(t)
  PROVE  IInv'
<1>1. thr[t].pc \in {"albums", "tracks", "credits", "relate"} => thr[t].kind \in {"warm", "cow"}
  BY TypedThread DEF IInv, Thread
<1>2. \A pc \in PCs : Checked(t, pc) \in {pc, "ended"}
  BY DEF Checked, AfterCancel
<1>3. CASE Albums(t)
  <2>1. Checked(t, "tracks") \in {"tracks", "ended"}
    BY <1>2 DEF PCs
  <2>2. 2 \in 2 .. Phases
    BY DEF Phases
  <2>3. /\ thr[t].pc = "albums" /\ Loaded(t, [Target(t) EXCEPT !.parts = 2], Checked(t, "tracks"))
        /\ UNCHANGED <<slots, map, state, warmThread, cancel, uiDb, warmDb, lock, main, idles,
                       views, db, unsent, due, ops>>
    BY <1>3 DEF Albums
  <2>. QED BY <2>1, <2>2, <2>3, LaterStep
<1>4. CASE Tracks(t)
  <2> DEFINE pc == IF thr[t].kind = "warm" THEN Checked(t, "credits") ELSE "credits"
  <2>1. pc \in {"credits", "ended"}
    BY <1>2 DEF PCs
  <2>2. thr[t].pc = "tracks" /\ Loaded(t, [Target(t) EXCEPT !.parts = 3], pc)
        /\ UNCHANGED <<slots, map, state, warmThread, cancel, uiDb, warmDb, lock, main, idles,
                       views, db, unsent, due, ops>>
    BY <1>4 DEF Tracks
  <2>3. 3 \in 2 .. Phases
    BY DEF Phases
  <2> HIDE DEF pc
  <2>. QED BY <2>1, <2>2, <2>3, LaterStep
<1>5. CASE Credits(t)
  <2>1. Checked(t, "relate") \in {"relate", "ended"}
    BY <1>2 DEF PCs
  <2>2. 4 \in 2 .. Phases
    BY DEF Phases
  <2>3. /\ thr[t].pc = "credits" /\ Loaded(t, [Target(t) EXCEPT !.parts = 4], Checked(t, "relate"))
        /\ UNCHANGED <<slots, map, state, warmThread, cancel, uiDb, warmDb, lock, main, idles,
                       views, db, unsent, due, ops>>
    BY <1>5 DEF Credits
  <2>. QED BY <2>1, <2>2, <2>3, LaterStep
<1>6. CASE Relate(t)
  <2> DEFINE pc == IF thr[t].kind = "warm" THEN "vocab" ELSE Checked(t, "swap")
  <2>1. /\ thr[t].pc = "relate" /\ Loaded(t, [Target(t) EXCEPT !.parts = Phases], pc)
        /\ UNCHANGED <<slots, map, state, warmThread, cancel, uiDb, warmDb, lock, main, idles,
                       views, db, unsent, due, ops>>
    BY <1>6 DEF Relate
  <2>2. /\ pc \in {"vocab", "swap", "ended"}
        /\ pc = "vocab" => thr[t].kind = "warm"
        /\ pc = "swap" => thr[t].kind = "cow"
    BY <1>1, <1>2, <2>1 DEF PCs
  <2>3. Phases \in 2 .. Phases
    BY DEF Phases
  <2> HIDE DEF pc
  <2>. QED BY <2>1, <2>2, <2>3, LaterStep
<1>. QED BY <1>3, <1>4, <1>5, <1>6

LEMMA OpenStep ==
  ASSUME IInv, NEW t \in Threads, Open(t)
  PROVE  IInv'
<1> DEFINE l == thr[t].lib
<1>1. /\ thr[t].pc = "open" /\ Running(t)
      /\ UNCHANGED <<slots, map, state, warmThread, cancel, live, uiDb, lock, main, idles,
                     views, db, unsent, due, ops>>
  BY DEF Open, Running
<1>2. PICK pc \in {"alloc", "ended"}, b \in BOOLEAN :
        thr' = [thr EXCEPT ![t].pc = pc] /\ warmDb' = [warmDb EXCEPT ![l] = b]
  BY DEF Open
<1>3. /\ TypeOK /\ thr \in [Threads -> Thread] /\ thr[t] \in Thread /\ l \in Libs /\ thr[t].kind = "cow"
      /\ WriterAt(t) /\ SettledHasNoWriter
  BY <1>1, Writing, TypedThread DEF IInv, Loading, LoadingAt, SettledHasNoWriter, WriterAt
<1>4. /\ thr' \in [Threads -> Thread]
      /\ \A u \in Threads \ {t} : thr'[u] = thr[u]
      /\ thr'[t].kind = "cow" /\ thr'[t].lib = l /\ thr'[t].valid = thr[t].valid /\ thr'[t].pc = pc
  BY <1>2, <1>3 DEF Thread, PCs
<1>5. TypeOK'
  BY <1>1, <1>2, <1>3, <1>4 DEF TypeOK, Thread
<1>6. WriterAt(t)' /\ LoadingAt(t)' /\ CurrentAt(t)'
  BY <1>1, <1>3, <1>4 DEF WriterAt, LoadingAt, CurrentAt, AfterLoad
<1>7. SettledAt(l)'
  BY SMTT(30), <1>1, <1>3, <1>4 DEF SettledAt, WriterAt
<1>. QED BY <1>1, <1>3, <1>4, <1>5, <1>6, <1>7, ThreadStepKeeps

LEMMA AllocStep ==
  ASSUME IInv, NEW t \in Threads, Alloc(t)
  PROVE  IInv'
<1> DEFINE l == thr[t].lib
<1>1. /\ thr[t].pc = "alloc" /\ Running(t)
      /\ thr' = [thr EXCEPT ![t].shadow = Sized(db[l]), ![t].pc = Checked(t, "artists")]
      /\ UNCHANGED <<slotVars, lock, main, idles, views, db, unsent, due, ops>>
  BY DEF Alloc, Running
<1>2. /\ TypeOK /\ thr \in [Threads -> Thread] /\ thr[t] \in Thread /\ l \in Libs /\ thr[t].kind = "cow"
      /\ WriterAt(t) /\ db[l] \in Versions /\ 0 \in Versions
  BY <1>1, Writing, TypedThread, BoundAssumption DEF IInv, Loading, LoadingAt, Versions
<1>3. Checked(t, "artists") \in {"artists", "ended"}
  BY DEF Checked, AfterCancel
<1>4. Sized(db[l]) \in Contents /\ Sized(db[l]).cap = db[l]
  BY <1>2 DEF Sized, Contents, Phases
<1>5. /\ thr' \in [Threads -> Thread]
      /\ \A u \in Threads \ {t} : thr'[u] = thr[u]
      /\ thr'[t].kind = "cow" /\ thr'[t].lib = l /\ thr'[t].valid = thr[t].valid
      /\ thr'[t].pc \in {"artists", "ended"} /\ thr'[t].shadow = Sized(db[l])
  <2>1. thr' = [thr EXCEPT ![t] = [thr[t] EXCEPT !.shadow = Sized(db[l]), !.pc = Checked(t, "artists")]]
    BY <1>1, <1>2
  <2>. QED BY <2>1, <1>2, <1>3, <1>4 DEF Thread, PCs
<1>6. TypeOK'
  BY <1>1, <1>2, <1>5 DEF TypeOK, Thread, slotVars
<1>7. WriterAt(t)' /\ LoadingAt(t)'
  BY SMTT(30), <1>1, <1>2, <1>5 DEF WriterAt, LoadingAt, AfterLoad, slotVars
<1>8. CurrentAt(t)'
  BY <1>1, <1>4, <1>5 DEF CurrentAt, AfterLoad, slotVars, Target
<1>9. SettledAt(l)'
  BY <1>1, <1>2 DEF SettledAt, WriterAt, slotVars
<1>. QED BY <1>1, <1>2, <1>5, <1>6, <1>7, <1>8, <1>9, ThreadStepKeeps DEF slotVars

LEMMA SwapStep ==
  ASSUME IInv, NEW t \in Threads, Swap(t)
  PROVE  IInv'
<1> DEFINE l == thr[t].lib
<1>1. /\ thr[t].pc = "swap" /\ Running(t) /\ lock' = t
      /\ live' = [live EXCEPT ![l] = thr[t].shadow]
      /\ thr' = [thr EXCEPT ![t].pc = "index"]
      /\ UNCHANGED <<slots, map, state, warmThread, cancel, uiDb, warmDb, main, idles, views, db,
                     unsent, due, ops>>
  BY DEF Swap, Running, Installed
<1>2. /\ TypeOK /\ thr \in [Threads -> Thread] /\ thr[t] \in Thread /\ l \in Libs /\ thr[t].kind = "cow"
      /\ live \in [Libs -> Contents]
      /\ WriterAt(t) /\ LoadingAt(t) /\ CurrentAt(t)
  BY <1>1, Writing, TypedThread DEF IInv, Loading, LoadingAt
<1>3. /\ thr' \in [Threads -> Thread] /\ live' \in [Libs -> Contents]
      /\ \A u \in Threads \ {t} : thr'[u] = thr[u]
      /\ thr'[t].kind = "cow" /\ thr'[t].lib = l /\ thr'[t].valid = thr[t].valid
      /\ thr'[t].pc = "index" /\ live'[l] = thr[t].shadow
      /\ \A m \in Libs \ {l} : live'[m] = live[m]
  BY <1>1, <1>2 DEF Thread, PCs
<1>4. TypeOK'
  BY <1>1, <1>2, <1>3 DEF TypeOK, Thread
<1>5. WriterAt(t)' /\ LoadingAt(t)'
  BY <1>1, <1>2, <1>3 DEF WriterAt, LoadingAt, AfterLoad
<1>6. CurrentAt(t)'
  BY <1>1, <1>2, <1>3 DEF CurrentAt, AfterLoad, Pending, Fresh
<1>7. SettledAt(l)'
  BY <1>1, <1>2 DEF SettledAt, WriterAt
<1>. QED BY <1>1, <1>2, <1>3, <1>4, <1>5, <1>6, <1>7, ThreadStepKeeps

\* After the swap, or the last phase of a warming: the vocabulary and the indices.
LEMMA AfterStep ==
  ASSUME IInv, NEW t \in Threads, Vocab(t) \/ Index(t) \/ Indexed(t)
  PROVE  IInv'
<1> DEFINE l == thr[t].lib
           R == {"vocab", "index", "indexing", "ready"}
<1>1. PICK pc \in R : thr' = [thr EXCEPT ![t].pc = pc]
  BY DEF Vocab, Index, Indexed
<1>2. /\ thr[t].pc \in R /\ Running(t)
      /\ UNCHANGED <<slots, map, state, warmThread, cancel, live, uiDb, warmDb, main, idles, views,
                     db, unsent, due, ops>>
      /\ lock' \in {lock, None}
  BY DEF Vocab, Index, Indexed, Running, slotVars
<1>3. /\ TypeOK /\ thr \in [Threads -> Thread] /\ thr[t] \in Thread /\ l \in Libs
      /\ WriterAt(t) /\ LoadingAt(t) /\ CurrentAt(t)
  BY <1>2, Writing, TypedThread DEF IInv, Loading
<1>4. /\ thr' \in [Threads -> Thread]
      /\ \A u \in Threads \ {t} : thr'[u] = thr[u]
      /\ thr'[t].kind = thr[t].kind /\ thr'[t].lib = l /\ thr'[t].valid = thr[t].valid
      /\ thr'[t].pc = pc
  BY <1>1, <1>3 DEF Thread, PCs
<1>5. TypeOK'
  BY <1>2, <1>3, <1>4 DEF TypeOK, Thread
<1>6. WriterAt(t)' /\ LoadingAt(t)'
  BY SMTT(30), <1>2, <1>3, <1>4 DEF WriterAt, LoadingAt, AfterLoad
<1>7. CurrentAt(t)'
  BY <1>2, <1>3, <1>4 DEF CurrentAt, AfterLoad, Pending, Fresh
<1>8. SettledAt(l)'
  BY <1>2, <1>3, <1>4 DEF SettledAt, WriterAt
<1>. QED BY <1>2, <1>3, <1>4, <1>5, <1>6, <1>7, <1>8, ThreadStepKeeps

LEMMA ReadyStep ==
  ASSUME IInv, NEW t \in Threads, Ready(t)
  PROVE  IInv'
<1> DEFINE l == thr[t].lib
           pc == IF thr[t].kind = "warm" THEN "ended" ELSE "drain"
<1>1. /\ thr[t].pc = "ready" /\ Running(t)
      /\ state' = [state EXCEPT ![l] = "READY"] /\ idles' = idles + 1
      /\ thr' = [thr EXCEPT ![t].pc = pc, ![t].shadow = Sized(0)]
      /\ UNCHANGED <<slots, map, warmThread, cancel, live, uiDb, warmDb, lock, main, views,
                     db, unsent, due, ops>>
  BY DEF Ready, Running, Announced
<1>2. /\ TypeOK /\ thr \in [Threads -> Thread] /\ thr[t] \in Thread /\ l \in Libs
      /\ LoadingAt(t) /\ CurrentAt(t) /\ 0 \in Versions /\ thr[t].kind \in {"warm", "cow"}
  BY <1>1, Writing, TypedThread, BoundAssumption DEF IInv, Loading, Versions
<1>3. pc \in {"ended", "drain"} /\ (pc = "drain" => thr[t].kind = "cow") /\ Sized(0) \in Contents
  BY <1>2 DEF Sized, Contents, Phases
<1>4. /\ thr' \in [Threads -> Thread]
      /\ \A u \in Threads \ {t} : thr'[u] = thr[u]
      /\ thr'[t].kind = thr[t].kind /\ thr'[t].lib = l /\ thr'[t].valid = thr[t].valid
      /\ thr'[t].pc = pc
  <2>1. thr' = [thr EXCEPT ![t] = [thr[t] EXCEPT !.pc = pc, !.shadow = Sized(0)]]
    BY <1>1, <1>2
  <2> HIDE DEF pc
  <2>. QED BY <2>1, <1>2, <1>3 DEF Thread, PCs
<1> HIDE DEF pc
<1>5. TypeOK'
  BY <1>1, <1>2, <1>4 DEF TypeOK, Thread
<1>6. state' \in [Libs -> {"IDLE", "WARMING", "READY", "REFRESHING"}] /\ state'[l] = "READY"
      /\ \A m \in Libs \ {l} : state'[m] = state[m]
  BY <1>1, <1>2 DEF TypeOK
<1>7. WriterAt(t)' /\ LoadingAt(t)'
  BY SMTT(30), <1>1, <1>2, <1>3, <1>4 DEF WriterAt, LoadingAt, AfterLoad
<1>8. CurrentAt(t)'
  BY SMTT(30), <1>1, <1>2, <1>3, <1>4 DEF CurrentAt, AfterLoad, Pending, Fresh
<1>9. SettledAt(l)'
  BY SMTT(30), <1>1, <1>2, <1>6 DEF SettledAt, LoadingAt, CurrentAt, AfterLoad, Pending, Fresh
<1>. QED BY <1>1, <1>2, <1>3, <1>4, <1>5, <1>6, <1>7, <1>8, <1>9, ThreadStepKeeps

LEMMA DrainStep ==
  ASSUME IInv, NEW t \in Threads, Drain(t)
  PROVE  IInv'
<1> DEFINE l == thr[t].lib
<1>1. /\ thr[t].pc = "drain" /\ Running(t)
      /\ thr' = [thr EXCEPT ![t].pc = "ended"]
      /\ UNCHANGED <<slotVars, main, lock, idles, views, db, unsent, due, ops>>
  BY DEF Drain, Running
<1>2. /\ TypeOK /\ thr \in [Threads -> Thread] /\ thr[t] \in Thread /\ l \in Libs
      /\ LoadingAt(t) /\ CurrentAt(t)
  BY <1>1, Writing, TypedThread DEF IInv, Loading
<1>3. /\ thr' \in [Threads -> Thread]
      /\ \A u \in Threads \ {t} : thr'[u] = thr[u]
      /\ thr'[t].kind = thr[t].kind /\ thr'[t].lib = l /\ thr'[t].valid = thr[t].valid
      /\ thr'[t].pc = "ended"
  BY <1>1, <1>2 DEF Thread, PCs
<1>4. TypeOK'
  BY <1>1, <1>2, <1>3 DEF TypeOK, Thread, slotVars
<1>5. WriterAt(t)' /\ LoadingAt(t)' /\ CurrentAt(t)'
  BY <1>3 DEF WriterAt, LoadingAt, CurrentAt, AfterLoad
<1>6. SettledAt(l)'
  BY <1>1, <1>2 DEF SettledAt, LoadingAt, CurrentAt, AfterLoad, Pending, Fresh, slotVars
<1>. QED BY <1>1, <1>2, <1>3, <1>4, <1>5, <1>6, ThreadStepKeeps DEF slotVars
-----------------------------------------------------------------------------
(* Steps that leave slots and threads as they are *)

LEMMA HasSlot ==
  ASSUME IInv
  PROVE  /\ \A t \in Threads : thr[t].pc # "off" => thr[t].lib \in ToSet(slots)
         /\ ToSet(slots) \subseteq Libs
         /\ \A l \in Libs : Mine(l) => /\ warmThread[l] \in Threads /\ l \in ToSet(slots)
                                       /\ thr[warmThread[l]].lib = l /\ thr[warmThread[l]].pc # "off"
<1>1. slots \in Seq(Libs) /\ None \notin Threads /\ Named /\ TypeOK
  BY TypedThread DEF IInv, Structure
<1>2. \A t \in Threads : thr[t].pc # "off" => Mine(thr[t].lib) /\ thr[t].lib \in Libs
  BY <1>1 DEF Named, Mine
<1>3. \A l \in Libs : Mine(l) => warmThread[l] \in Threads
  BY <1>1 DEF Mine, TypeOK
<1>. QED BY SMTT(30), <1>1, <1>2, <1>3, InSeq DEF Named

\* Every commit that was pending still is, and every new one is.
LEMMA SlotsKept ==
  ASSUME IInv, TypeOK', MainTyped', Joining', UNCHANGED <<slots, map, state, warmThread, thr, live>>,
         \A l \in ToSet(slots) : ~Pending(l)' => ~Pending(l) /\ db'[l] = db[l],
         main.at = "destroy" => main'.at = "destroy"
  PROVE  IInv'
<1> USE DEF IInv, Structure
<1>1. Placed' /\ Named' /\ Stays'
  BY DEF Placed, Named, Stays, Mine, Running
<1>2. ASSUME NEW t \in Threads PROVE WriterAt(t)' /\ LoadingAt(t)' /\ CurrentAt(t)'
  <2>1. WriterAt(t)' /\ LoadingAt(t)'
    BY DEF Loading, WriterAt, LoadingAt, AfterLoad
  <2>2. PICK l : l = thr[t].lib
    BY SMTT(30)
  <2>3. CASE thr[t].pc # "off" /\ ~Pending(l)'
    <3>1. ~Pending(l) /\ db'[l] = db[l]
      BY <2>2, <2>3, HasSlot
    <3>. QED BY <2>1, <2>2, <2>3, <3>1 DEF Loading, CurrentAt, Target, Fresh, AfterLoad
  <2>4. CASE ~(thr[t].pc # "off" /\ ~Pending(l)')
    BY <2>1, <2>2, <2>4 DEF CurrentAt
  <2>. QED BY SMTT(30), <2>3, <2>4, <2>1
<1>3. Settled'
  <2>1. ASSUME NEW l \in ToSet(slots), SettledAt(l) PROVE SettledAt(l)'
    BY <2>1 DEF SettledAt, Fresh
  <2>. QED BY <2>1 DEF Settled
<1>. QED BY <1>1, <1>2, <1>3 DEF Loading

LEMMA JoiningKept ==
  ASSUME IInv, UNCHANGED <<slots, warmThread, main>>
  PROVE  MainTyped' /\ Joining'
BY DEF IInv, Structure, MainTyped, Joining, Targets, Left, Mine

LEMMA CommitStep ==
  ASSUME IInv, NEW l \in Libs, Commit(l)
  PROVE  IInv'
<1>1. /\ db[l] < MaxVersion /\ db' = [db EXCEPT ![l] = @ + 1] /\ unsent' = [unsent EXCEPT ![l] = TRUE]
      /\ UNCHANGED <<slots, map, state, warmThread, cancel, live, uiDb, warmDb, thr, lock, main, idles,
                     views, due, ops>>
  BY DEF Commit, slotVars
<1>2. TypeOK'
  <2>1. TypeOK /\ db[l] + 1 \in Versions
    BY SMTT(30), <1>1, BoundAssumption DEF IInv, TypeOK, Versions
  <2>. QED BY <1>1, <2>1 DEF TypeOK
<1>3. \A m \in ToSet(slots) : ~Pending(m)' => ~Pending(m) /\ db'[m] = db[m]
  BY <1>1, HasSlot DEF Pending, IInv, TypeOK
<1>. QED BY <1>1, <1>2, <1>3, JoiningKept, SlotsKept

LEMMA UpdatedStep ==
  ASSUME IInv, NEW l \in Libs, Updated(l)
  PROVE  IInv'
<1>1. /\ unsent' = [unsent EXCEPT ![l] = FALSE]
      /\ due' = [due EXCEPT ![l] = IF unsent[l] \/ due[l] = "rows" THEN "rows" ELSE "empty"]
      /\ UNCHANGED <<slots, map, state, warmThread, cancel, live, uiDb, warmDb, thr, lock, main, idles,
                     views, db, ops>>
  BY DEF Updated, slotVars
<1>2. TypeOK'
  BY <1>1 DEF IInv, TypeOK
<1>3. \A m \in ToSet(slots) : ~Pending(m)' => ~Pending(m) /\ db'[m] = db[m]
  BY <1>1, HasSlot DEF Pending, IInv, TypeOK
<1>. QED BY <1>1, <1>2, <1>3, JoiningKept, SlotsKept

LEMMA ReadyIdleStep ==
  ASSUME IInv, ReadyIdle
  PROVE  IInv'
<1>1. /\ idles > 0 /\ idles' = idles - 1 /\ views' = live
      /\ UNCHANGED <<slots, map, state, warmThread, cancel, live, uiDb, warmDb, thr, lock, main, db,
                     unsent, due, ops>>
  BY DEF ReadyIdle, slotVars
<1>2. TypeOK'
  BY <1>1 DEF IInv, TypeOK
<1>3. \A m \in ToSet(slots) : ~Pending(m)' => ~Pending(m) /\ db'[m] = db[m]
  BY <1>1 DEF Pending
<1>. QED BY <1>1, <1>2, <1>3, JoiningKept, SlotsKept
-----------------------------------------------------------------------------
(* The main thread: operations that join *)

LEMMA FlaggedType ==
  ASSUME NEW op, NEW todo \in Seq(Libs), NEW base \in [Libs -> BOOLEAN]
  PROVE  Flagged(op, todo, base) \in [Libs -> BOOLEAN]
BY DEF Flagged

LEMMA StartStep ==
  ASSUME IInv, NEW op \in Operations \ {"none", "startup"}, NEW l \in Libs \cup {None},
         NEW targets \in Seq(Libs), IsInjective(targets), ToSet(targets) \subseteq ToSet(slots),
         op \in OneLib => l \in ToSet(targets),
         op \notin OneLib => ToSet(targets) = ToSet(slots),
         op = "remove" => l \in ToSet(slots), op = "add" => l \in Libs \ ToSet(slots),
         Start(op, l, targets), ops' \in 0 .. MaxOps, due' \in [Libs -> {"no", "empty", "rows"}],
         UNCHANGED <<slots, map, state, warmThread, live, uiDb, warmDb, thr, lock, idles, views, db,
                     unsent>>,
         \A m \in Libs : due[m] = "rows" /\ due'[m] # "rows" => op = "refresh" /\ m = l
  PROVE  IInv'
<1> DEFINE todo == ToJoin(targets)
<1>1. /\ main.at = "loop" /\ cancel' = Flagged(op, todo, cancel)
      /\ main' = [main EXCEPT !.at = IF todo = <<>> THEN "act" ELSE "join", !.op = op, !.lib = l,
                              !.todo = todo]
  BY DEF Start
<1>2. /\ todo \in Seq(Libs) /\ IsInjective(todo) /\ ToSet(todo) \subseteq ToSet(targets)
      /\ \A m \in ToSet(targets) : Mine(m) => m \in ToSet(todo)
      /\ todo # <<>> => Mine(Head(todo))
  BY ToJoinFacts
<1> HIDE DEF todo
<1>3. TypeOK /\ MainTyped
  BY DEF IInv, Structure
<1>4. /\ main'.at \in {"act", "join"} /\ (main'.at = "act" <=> todo = <<>>)
      /\ main'.op = op /\ main'.lib = l /\ main'.todo = todo
      /\ MainTyped'
  BY <1>1, <1>2, <1>3 DEF MainTyped, MainPlaces
<1>5. TypeOK'
  <2>1. cancel' \in [Libs -> BOOLEAN]
    BY <1>1, <1>2, <1>3, FlaggedType DEF TypeOK
  <2>2. main'.at \in {"warm", "loop", "join", "act", "index", "indexing", "destroy", "gone"}
    BY <1>4
  <2>. QED BY <1>3, <2>1, <2>2 DEF TypeOK
<1>6. Joining'
  <2>1. \A m \in Libs : Mine(m) => m \in ToSet(slots)
    BY HasSlot
  <2>2. ASSUME NEW m \in Targets', Mine(m)' PROVE m \in Left'
    <3>1. m \in ToSet(targets)
      BY SMTT(30), <1>4, <2>1, <2>2, HasSlot DEF Targets, Mine
    <3>. QED BY SMTT(30), <1>2, <1>4, <2>2, <3>1 DEF Left, Mine
  <2>3. l \in ToSet(targets) => l \in ToSet(slots)
    OBVIOUS
  <2>4. /\ IsInjective(main'.todo) /\ Left' \subseteq ToSet(slots)' /\ main'.at \in {"join", "act"}
        /\ main'.at = "join" => main'.todo # <<>> /\ Mine(Head(main.todo))'
        /\ main'.at = "act" => main'.todo = <<>>
    BY <1>2, <1>4 DEF Left, Mine
  <2>5. /\ main'.op \notin {"none", "startup"}
        /\ main'.op \in OneLib \cup {"remove"} => main'.lib \in ToSet(slots)'
        /\ main'.op = "add" => main'.lib \in Libs \ ToSet(slots)'
    BY <1>4, <2>3
  <2>. QED BY <2>2, <2>4, <2>5 DEF Joining
<1>7. \A m \in ToSet(slots) : ~Pending(m)' => ~Pending(m) /\ db'[m] = db[m]
  BY <1>1, <1>4, HasSlot DEF Pending
<1>. QED BY <1>1, <1>4, <1>5, <1>6, <1>7, SlotsKept

LEMMA OneTarget ==
  ASSUME NEW l \in Libs
  PROVE  <<l>> \in Seq(Libs) /\ IsInjective(<<l>>) /\ ToSet(<<l>>) = {l}
BY DEF ToSet, IsInjective

LEMMA RequestStep ==
  ASSUME IInv, NEW l \in Libs, Request(l)
  PROVE  IInv'
<1>1. /\ TypeOK /\ Placed /\ slots \in Seq(Libs) /\ IsInjective(slots) /\ (Known(l) <=> l \in ToSet(slots))
      /\ <<l>> \in Seq(Libs) /\ IsInjective(<<l>>) /\ ToSet(<<l>>) = {l}
  BY OneTarget DEF IInv, Structure, Placed, Known, TypeOK
<1>2. Limited => ops' \in 0 .. MaxOps
  BY <1>1, BoundAssumption DEF Limited, TypeOK
<1>3. due \in [Libs -> {"no", "empty", "rows"}] /\ ops \in 0 .. MaxOps
  BY <1>1 DEF TypeOK
<1>4. CASE Reconnect(l)
  <2>1. /\ Known(l) /\ Limited /\ Start("reconnect", l, <<l>>)
        /\ UNCHANGED <<slots, map, state, warmThread, live, uiDb, warmDb, thr, lock, idles, views, db,
                       unsent, due>>
    BY <1>4 DEF Reconnect, Others
  <2>. QED BY <1>1, <1>2, <1>3, <2>1, StartStep DEF Operations, OneLib
<1>5. CASE AddSlot(l)
  <2>1. /\ ~Known(l) /\ Limited /\ Start("add", l, slots)
        /\ UNCHANGED <<slots, map, state, warmThread, live, uiDb, warmDb, thr, lock, idles, views, db,
                       unsent, due>>
    BY <1>5 DEF AddSlot, Others
  <2>. QED BY <1>1, <1>2, <1>3, <2>1, StartStep DEF Operations, OneLib
<1>6. CASE RemoveSlot(l)
  <2>1. /\ Known(l) /\ Limited /\ Start("remove", l, slots)
        /\ UNCHANGED <<slots, map, state, warmThread, live, uiDb, warmDb, thr, lock, idles, views, db,
                       unsent, due>>
    BY <1>6 DEF RemoveSlot, Others
  <2>. QED BY <1>1, <1>2, <1>3, <2>1, StartStep DEF Operations, OneLib
<1>7. CASE Await(l)
  <2>1. /\ Known(l) /\ Start("await", l, <<l>>)
        /\ UNCHANGED <<slots, map, state, warmThread, live, uiDb, warmDb, thr, lock, idles, views, db,
                       unsent, due, ops>>
    BY <1>7 DEF Await, Others
  <2>. QED BY <1>1, <1>3, <2>1, StartStep DEF Operations, OneLib
<1>. QED BY SMTT(30), <1>4, <1>5, <1>6, <1>7 DEF Request

LEMMA ClearRequestStep ==
  ASSUME IInv, Clear
  PROVE  IInv'
<1>1. slots \in Seq(Libs) /\ IsInjective(slots)
  BY TypedThread DEF IInv, Structure, Placed
<1>2. /\ Limited /\ Start("clear", None, slots)
      /\ UNCHANGED <<slots, map, state, warmThread, live, uiDb, warmDb, thr, lock, idles, views, db,
                     unsent, due>>
  BY DEF Clear, Others
<1>3. ops' \in 0 .. MaxOps /\ due \in [Libs -> {"no", "empty", "rows"}]
  BY <1>2, BoundAssumption DEF Limited, IInv, TypeOK
<1>. QED BY <1>1, <1>2, <1>3, StartStep DEF Operations, OneLib

LEMMA DueRefreshStep ==
  ASSUME IInv, NEW l \in Libs, DueRefresh(l)
  PROVE  IInv'
<1>1. /\ TypeOK /\ (Known(l) <=> l \in ToSet(slots))
      /\ <<l>> \in Seq(Libs) /\ IsInjective(<<l>>) /\ ToSet(<<l>>) = {l}
  BY OneTarget DEF IInv, Structure, Placed, Known
<1>2. /\ due' = [due EXCEPT ![l] = "no"]
      /\ UNCHANGED <<slots, map, state, warmThread, live, uiDb, warmDb, thr, lock, idles, views, db,
                     unsent, ops>>
      /\ IF Known(l) /\ due[l] = "rows" THEN Start("refresh", l, <<l>>)
         ELSE UNCHANGED <<main, cancel>>
  BY DEF DueRefresh
<1>3. /\ due' \in [Libs -> {"no", "empty", "rows"}] /\ ops' \in 0 .. MaxOps
      /\ \A m \in Libs \ {l} : due'[m] = due[m]
  BY <1>1, <1>2 DEF TypeOK
<1>4. CASE Known(l) /\ due[l] = "rows"
  <2>1. Start("refresh", l, <<l>>) /\ l \in ToSet(slots)
    BY <1>1, <1>2, <1>4
  <2>2. \A m \in Libs : due[m] = "rows" /\ due'[m] # "rows" => m = l
    BY <1>3
  <2>3. UNCHANGED <<slots, map, state, warmThread, live, uiDb, warmDb, thr, lock, idles, views, db,
                    unsent>>
    BY <1>2
  <2>. QED BY <1>1, <1>3, <2>1, <2>2, <2>3, StartStep DEF Operations, OneLib
<1>5. CASE ~(Known(l) /\ due[l] = "rows")
  <2>1. UNCHANGED <<main, cancel>>
    BY <1>2, <1>5
  <2>2. TypeOK'
    BY <1>1, <1>2, <1>3, <2>1 DEF TypeOK
  <2>3. ASSUME NEW m \in ToSet(slots) PROVE ~Pending(m)' => ~Pending(m) /\ db'[m] = db[m]
    <3>1. due[m] = "rows" => due'[m] = "rows"
      BY SMTT(30), <1>1, <1>3, <1>5, HasSlot
    <3>. QED BY <1>2, <2>1, <3>1 DEF Pending
  <2>. QED BY <1>2, <2>1, <2>2, <2>3, JoiningKept, SlotsKept
<1>. QED BY <1>4, <1>5

LEMMA JoinStep ==
  ASSUME IInv, Join
  PROVE  IInv'
<1> USE DEF IInv, Structure
<1>1. PICK l, t, rest : /\ l = Head(main.todo) /\ t = warmThread[l]
                        /\ rest = ToJoin(Tail(main.todo))
  OBVIOUS
<1>2. /\ main.at = "join" /\ thr[t].pc = "ended" /\ thr' = [thr EXCEPT ![t] = Off]
      /\ warmThread' = [warmThread EXCEPT ![l] = None]
      /\ cancel' = Flagged(main.op, rest, [cancel EXCEPT ![l] = FALSE])
      /\ main' = [main EXCEPT !.todo = rest, !.at = IF rest = <<>> THEN "act" ELSE @]
      /\ UNCHANGED <<slots, map, state, live, uiDb, warmDb, lock, idles, views, db, unsent, due, ops>>
  BY <1>1 DEF Join
<1>3. /\ main.todo # <<>> /\ main.todo \in Seq(Libs) /\ IsInjective(main.todo) /\ Mine(l)
  BY <1>1, <1>2 DEF Joining, MainTyped
<1>4. /\ l \in Libs /\ l \in Left /\ Tail(main.todo) \in Seq(Libs) /\ IsInjective(Tail(main.todo))
      /\ ToSet(Tail(main.todo)) = Left \ {l}
  BY <1>1, <1>3, TailFacts DEF Left
<1>5. /\ rest \in Seq(Libs) /\ IsInjective(rest) /\ ToSet(rest) \subseteq Left \ {l}
      /\ \A m \in Left \ {l} : Mine(m) => m \in ToSet(rest)
      /\ rest # <<>> => Mine(Head(rest)) /\ Head(rest) \in ToSet(rest)
  <2>1. /\ rest \in Seq(Libs) /\ IsInjective(rest) /\ ToSet(rest) \subseteq Left \ {l}
        /\ \A m \in Left \ {l} : Mine(m) => m \in ToSet(rest)
        /\ rest # <<>> => Mine(Head(rest))
    BY <1>1, <1>4, ToJoinFacts
  <2>. QED BY <2>1, TailFacts
<1>6. t \in Threads /\ thr[t].lib = l /\ l \in ToSet(slots)
  BY <1>1, <1>3, <1>4, HasSlot
<1>7. /\ main'.at = IF rest = <<>> THEN "act" ELSE "join"
      /\ main'.op = main.op /\ main'.lib = main.lib /\ main'.todo = rest /\ MainTyped'
  BY <1>2, <1>5 DEF MainTyped, MainPlaces
<1>8. /\ \A u \in Threads \ {t} : thr'[u] = thr[u]
      /\ thr'[t] = Off /\ Off \in Thread /\ thr' \in [Threads -> Thread]
      /\ warmThread' \in [Libs -> Threads \cup {None}]
      /\ warmThread'[l] = None /\ \A m \in Libs \ {l} : warmThread'[m] = warmThread[m]
  <2>1. thr \in [Threads -> Thread] /\ warmThread \in [Libs -> Threads \cup {None}]
    BY TypedThread DEF TypeOK
  <2>2. Off \in Thread
    BY BoundAssumption DEF Off, Thread, PCs, Sized, Contents, Versions, Phases
  <2>. QED BY <1>2, <1>4, <1>6, <2>1, <2>2
<1>9. TypeOK'
  <2>1. [cancel EXCEPT ![l] = FALSE] \in [Libs -> BOOLEAN]
    BY <1>4 DEF TypeOK
  <2>2. cancel' \in [Libs -> BOOLEAN]
    BY <1>2, <1>5, <2>1, FlaggedType
  <2>. QED BY <1>2, <1>7, <1>8, <2>2 DEF TypeOK, Thread
<1>10. ~Mine(l)' /\ \A m \in Libs \ {l} : Mine(m)' <=> Mine(m)
  BY <1>8 DEF Mine
<1>11. Placed'
  BY <1>2 DEF Placed
<1>12. Named'
  <2>1. ASSUME NEW u \in Threads, thr'[u].pc # "off"
        PROVE  thr'[u].lib \in Libs /\ warmThread'[thr'[u].lib] = u
    <3>1. u # t /\ thr'[u] = thr[u]
      BY <1>8, <2>1 DEF Off
    <3>2. thr[u].lib # l /\ thr[u].lib \in Libs /\ warmThread[thr[u].lib] = u
      BY <1>1, <2>1, <3>1 DEF Named
    <3>. QED BY <1>8, <3>1, <3>2
  <2>2. ASSUME NEW m \in Libs, Mine(m)'
        PROVE  thr'[warmThread'[m]].pc # "off" /\ thr'[warmThread'[m]].lib = m /\ m \in ToSet(slots)'
    <3>1. m # l /\ Mine(m) /\ warmThread'[m] = warmThread[m]
      BY SMTT(30), <1>8, <1>10, <2>2
    <3>2. warmThread[m] \in Threads \ {t} /\ thr[warmThread[m]].lib = m
          /\ thr[warmThread[m]].pc # "off" /\ m \in ToSet(slots)
      BY SMTT(30), <1>6, <3>1, HasSlot
    <3>. QED BY SMTT(30), <1>2, <1>8, <3>1, <3>2
  <2>. QED BY <2>1, <2>2 DEF Named
<1>13. Joining'
  <2>1. Left' = ToSet(rest) /\ Targets' = Targets
    BY <1>7 DEF Left, Targets
  <2>2. rest # <<>> => Mine(Head(rest))'
    BY SMTT(30), <1>5, <1>10, InSeq
  <2>3. ASSUME NEW m \in Targets', Mine(m)' PROVE m \in Left'
    <3>1. main.lib \in ToSet(slots) \/ main.op \notin OneLib
      BY <1>2 DEF Joining
    <3>2. m \in Libs
      BY <2>1, <2>3, <3>1, HasSlot DEF Targets
    <3>3. m # l /\ Mine(m)
      BY <1>10, <2>3, <3>2
    <3>4. m \in Left
      BY <1>2, <2>1, <2>3, <3>3 DEF Joining
    <3>. QED BY <1>5, <2>1, <3>3, <3>4
  <2>4. /\ main.op \notin {"none", "startup"}
        /\ main.op \in OneLib \cup {"remove"} => main.lib \in ToSet(slots)
        /\ main.op = "add" => main.lib \in Libs \ ToSet(slots)
        /\ Left \subseteq ToSet(slots)
    BY <1>2 DEF Joining
  <2>5. /\ IsInjective(main'.todo) /\ Left' \subseteq ToSet(slots)' /\ main'.at \in {"join", "act"}
        /\ main'.at = "join" => main'.todo # <<>> /\ Mine(Head(main.todo))'
        /\ main'.at = "act" => main'.todo = <<>>
    BY <1>2, <1>5, <1>7, <2>1, <2>2, <2>4 DEF Mine
  <2>6. /\ main'.op \notin {"none", "startup"}
        /\ main'.op \in OneLib \cup {"remove"} => main'.lib \in ToSet(slots)'
        /\ main'.op = "add" => main'.lib \in Libs \ ToSet(slots)'
    BY <1>2, <1>7, <2>4
  <2>. QED BY <2>3, <2>5, <2>6 DEF Joining
<1>14. Stays'
  BY <1>8 DEF Stays, Running, Off
<1>15. \A m : Pending(m)' <=> Pending(m)
  BY <1>2, <1>7 DEF Pending
<1>16. Loading'
  <2>1. ASSUME NEW u \in Threads \ {t} PROVE WriterAt(u)' /\ LoadingAt(u)' /\ CurrentAt(u)'
    <3>1. thr'[u] = thr[u] /\ state' = state /\ live' = live /\ db' = db
      BY <1>2, <1>8
    <3>2. WriterAt(u)' /\ LoadingAt(u)'
      BY SMTT(30), <3>1 DEF Loading, WriterAt, LoadingAt, AfterLoad
    <3>3. CurrentAt(u)'
      BY <1>15, <3>1 DEF Loading, CurrentAt, AfterLoad, Target, Fresh
    <3>. QED BY <3>2, <3>3
  <2>2. WriterAt(t)' /\ LoadingAt(t)' /\ CurrentAt(t)'
    BY <1>8 DEF WriterAt, LoadingAt, CurrentAt, AfterLoad, Off
  <2>. QED BY <2>1, <2>2 DEF Loading
<1>17. Settled'
  BY <1>2, <1>15 DEF Settled, SettledAt, Fresh
<1>. QED BY <1>7, <1>9, <1>11, <1>12, <1>13, <1>14, <1>16, <1>17
-----------------------------------------------------------------------------
(* The main thread: threads that start *)

\* A thread for a slot that has none.
LEMMA NewThreadStep ==
  ASSUME IInv, TypeOK', MainTyped', Joining', NEW t \in Threads, NEW l \in ToSet(slots), ~Mine(l),
         NEW kind, NEW pc, \/ kind = "cow" /\ pc = "open"
                           \/ kind = "warm" /\ pc = "artists" /\ (~Pending(l)' => live[l].cap = db[l]),
         NewThread(t, kind, pc, l),
         state' = [state EXCEPT ![l] = IF kind = "warm" THEN "WARMING" ELSE "REFRESHING"],
         UNCHANGED <<slots, map, live, db, unsent, due>>, main.at # "destroy",
         \A m \in ToSet(slots) \ {l} : ~Pending(m)' => ~Pending(m)
  PROVE  IInv'
<1> USE DEF IInv, Structure
<1>1. /\ thr[t].pc = "off" /\ thr' = [thr EXCEPT ![t] = [Off EXCEPT !.pc = pc, !.kind = kind, !.lib = l]]
      /\ warmThread' = [warmThread EXCEPT ![l] = t]
  BY DEF NewThread
<1>2. l \in Libs /\ TypeOK /\ None \notin Threads
  BY SMTT(30), HasSlot, TypedThread
<1>3. /\ \A u \in Threads \ {t} : thr'[u] = thr[u]
      /\ thr'[t].pc = pc /\ thr'[t].kind = kind /\ thr'[t].lib = l /\ thr'[t].valid
      /\ warmThread'[l] = t /\ \A m \in Libs \ {l} : warmThread'[m] = warmThread[m]
      /\ state'[l] = IF kind = "warm" THEN "WARMING" ELSE "REFRESHING"
      /\ \A m \in Libs \ {l} : state'[m] = state[m]
  BY <1>1, <1>2 DEF TypeOK, Off
<1>4. Placed'
  BY DEF Placed
<1>5. ASSUME NEW u \in Threads \ {t}, thr[u].pc # "off" PROVE thr[u].lib \in ToSet(slots) \ {l}
  BY SMTT(30), <1>2, <1>5, HasSlot DEF Named, Mine
<1>6. Named'
  <2>1. ASSUME NEW u \in Threads, thr'[u].pc # "off"
        PROVE  thr'[u].lib \in Libs /\ warmThread'[thr'[u].lib] = u
    <3>1. CASE u = t
      BY <1>2, <1>3, <3>1
    <3>2. CASE u # t
      BY SMTT(30), <1>3, <1>5, <2>1, <3>2 DEF Named
    <3>. QED BY <3>1, <3>2
  <2>2. ASSUME NEW m \in Libs, Mine(m)'
        PROVE  thr'[warmThread'[m]].pc # "off" /\ thr'[warmThread'[m]].lib = m /\ m \in ToSet(slots)'
    <3>1. CASE m = l
      BY <1>3, <3>1
    <3>2. CASE m # l
      <4>1. Mine(m) /\ warmThread'[m] = warmThread[m]
        BY <1>3, <2>2, <3>2 DEF Mine
      <4>2. warmThread[m] \in Threads \ {t}
        BY <1>1, <4>1, HasSlot
      <4>. QED BY <1>3, <4>1, <4>2, HasSlot
    <3>. QED BY <3>1, <3>2
  <2>. QED BY <2>1, <2>2 DEF Named
<1>7. Stays'
  BY <1>3 DEF Stays, Running
<1>8. ASSUME NEW u \in Threads \ {t} PROVE WriterAt(u)' /\ LoadingAt(u)' /\ CurrentAt(u)'
  <2>1. CASE thr[u].pc = "off"
    BY SMTT(30), <1>3, <1>8, <2>1 DEF Loading, WriterAt, LoadingAt, CurrentAt, AfterLoad
  <2>2. CASE thr[u].pc # "off"
    <3>1. PICK m \in ToSet(slots) \ {l} : m = thr[u].lib
      BY <1>5, <1>8, <2>2
    <3>2. thr'[u] = thr[u] /\ state'[m] = state[m] /\ (~Pending(m)' => ~Pending(m))
      BY SMTT(30), <1>3, <1>8, <3>1, HasSlot
    <3>3. WriterAt(u)' /\ LoadingAt(u)'
      BY SMTT(30), <3>1, <3>2 DEF Loading, WriterAt, LoadingAt
    <3>4. CurrentAt(u)'
      BY <3>1, <3>2 DEF Loading, CurrentAt, Target, Fresh
    <3>. QED BY <3>3, <3>4
  <2>. QED BY SMTT(30), <2>1, <2>2
<1>9. WriterAt(t)' /\ LoadingAt(t)' /\ CurrentAt(t)'
  BY <1>3 DEF WriterAt, LoadingAt, CurrentAt, AfterLoad, Target
<1>10. Settled'
  <2>1. SettledAt(l)'
    BY <1>3 DEF SettledAt
  <2>2. ASSUME NEW m \in ToSet(slots) \ {l} PROVE SettledAt(m)'
    <3>1. SettledAt(m) /\ state'[m] = state[m] /\ (~Pending(m)' => ~Pending(m))
      BY <1>3, HasSlot DEF Settled
    <3>. QED BY <3>1 DEF SettledAt, Fresh
  <2>. QED BY <2>1, <2>2 DEF Settled
<1>. QED BY <1>4, <1>6, <1>7, <1>8, <1>9, <1>10 DEF Loading

LEMMA NewThreadTyped ==
  ASSUME TypeOK, NEW t \in Threads, NEW l \in Libs, NEW kind \in {"warm", "cow"},
         NEW pc \in {"open", "artists"}, NewThread(t, kind, pc, l)
  PROVE  /\ thr' \in [Threads -> Thread] /\ warmThread' \in [Libs -> Threads \cup {None}]
<1>1. [Off EXCEPT !.pc = pc, !.kind = kind, !.lib = l] \in Thread
  <2>1. Sized(0) \in Contents
    BY BoundAssumption DEF Sized, Contents, Versions, Phases
  <2>. QED BY <2>1 DEF Off, Thread, PCs
<1>. QED BY <1>1, TypedThread DEF NewThread, TypeOK

LEMMA AtLoopTyped == AtLoop \in [at : MainPlaces, op : Operations, lib : Libs \cup {None}, todo : Seq(Libs)]
BY EmptySet DEF AtLoop, MainPlaces, Operations

LEMMA LoopJoins ==
  ASSUME main' = AtLoop
  PROVE  Joining' /\ MainTyped'
<1>1. main'.at = "loop" /\ main'.todo = <<>> /\ main'.op = "none"
  BY DEF AtLoop
<1>2. MainTyped'
  BY AtLoopTyped DEF MainTyped
<1>3. IsInjective(main'.todo) /\ Left' = {}
  BY <1>1, EmptySet DEF Left
<1>. QED BY <1>1, <1>2, <1>3 DEF Joining

LEMMA RefreshStep ==
  ASSUME IInv, Refresh
  PROVE  IInv'
<1> DEFINE l == main.lib
<1>1. /\ main.at = "act" /\ main.op = "refresh" /\ main' = AtLoop
      /\ UNCHANGED <<slots, map, cancel, live, uiDb, warmDb, lock, idles, views, db, unsent, due, ops>>
  BY DEF Refresh, Acting
<1>2. /\ TypeOK /\ l \in ToSet(slots) /\ l \in Libs /\ ~Mine(l) /\ Settled
  BY <1>1, HasSlot, EmptySet DEF IInv, Structure, Joining, Targets, OneLib, Left
<1>3. main'.at = "loop" /\ MainTyped' /\ Joining'
  BY <1>1, LoopJoins DEF AtLoop
<1>4. \A m \in ToSet(slots) \ {l} : ~Pending(m)' => ~Pending(m)
  BY <1>1, <1>3 DEF Pending
<1>5. CASE MayRefresh(l)
  <2>1. PICK t \in Threads : NewThread(t, "cow", "open", l)
    BY <1>5 DEF Refresh
  <2>2. state' = [state EXCEPT ![l] = "REFRESHING"]
    BY <1>5 DEF Refresh
  <2>3. TypeOK'
    <3>1. thr' \in [Threads -> Thread] /\ warmThread' \in [Libs -> Threads \cup {None}]
      BY <1>2, <2>1, NewThreadTyped
    <3>2. state' \in [Libs -> {"IDLE", "WARMING", "READY", "REFRESHING"}]
      BY <1>2, <2>2 DEF TypeOK
    <3>. QED BY <1>1, <1>2, <1>3, <3>1, <3>2 DEF TypeOK, Thread
  <2>. QED BY <1>1, <1>2, <1>3, <1>4, <2>1, <2>2, <2>3, NewThreadStep
<1>6. CASE ~MayRefresh(l)
  <2> USE DEF IInv, Structure
  <2>1. UNCHANGED <<state, thr, warmThread>> /\ state[l] \notin {"READY", "IDLE"}
    BY <1>6 DEF Refresh, MayRefresh
  <2>2. TypeOK'
    BY <1>1, <1>2, <1>3, <2>1 DEF TypeOK
  <2>3. Placed' /\ Named' /\ Stays'
    BY <1>1, <2>1 DEF Placed, Named, Stays, Mine, Running
  <2>4. ASSUME NEW u \in Threads PROVE WriterAt(u)' /\ LoadingAt(u)' /\ CurrentAt(u)'
    <3>1. WriterAt(u)' /\ LoadingAt(u)'
      BY SMTT(30), <1>1, <2>1 DEF Loading, WriterAt, LoadingAt, AfterLoad
    <3>2. CASE thr[u].pc # "off"
      <4>1. thr[u].lib \in ToSet(slots) \ {l}
        BY <1>2, <3>2, HasSlot, TypedThread DEF Named, Mine
      <4>. QED BY <1>1, <1>4, <2>1, <3>1, <4>1 DEF Loading, CurrentAt, Target, Fresh, AfterLoad
    <3>3. CASE thr[u].pc = "off"
      BY <2>1, <3>1, <3>3 DEF CurrentAt
    <3>. QED BY <3>1, <3>2, <3>3
  <2>5. Settled'
    <3>1. ASSUME NEW m \in ToSet(slots) PROVE SettledAt(m)'
      <4>1. SettledAt(m)
        BY <1>1 DEF Settled
      <4>2. CASE m = l
        BY <2>1, <4>2 DEF SettledAt
      <4>3. CASE m # l
        BY <1>1, <1>4, <2>1, <4>1, <4>3 DEF SettledAt, Fresh
      <4>. QED BY <4>2, <4>3
    <3>. QED BY <1>1, <3>1 DEF Settled
  <2>. QED BY <1>3, <2>2, <2>3, <2>4, <2>5 DEF Loading
<1>. QED BY <1>5, <1>6

LEMMA WarmStep ==
  ASSUME IInv, WarmNext
  PROVE  IInv'
<1>1. /\ main.at = "warm"
      /\ UNCHANGED <<slots, map, cancel, live, uiDb, warmDb, lock, idles, views, db, unsent, due, ops>>
  BY DEF WarmNext
<1>2. TypeOK /\ MainTyped /\ Joining /\ Settled
  BY DEF IInv, Structure
<1>3. CASE main.todo = <<>>
  <2>1. main' = AtLoop /\ UNCHANGED <<state, thr, warmThread>>
    BY <1>3 DEF WarmNext
  <2>2. main'.at = "loop" /\ MainTyped' /\ Joining'
    BY <2>1, LoopJoins DEF AtLoop
  <2>3. TypeOK'
    BY <1>1, <1>2, <2>1, <2>2 DEF TypeOK
  <2>4. \A m \in ToSet(slots) : ~Pending(m)' => ~Pending(m) /\ db'[m] = db[m]
    BY <1>1 DEF Pending
  <2>. QED BY <1>1, <2>1, <2>2, <2>3, <2>4, SlotsKept
<1>4. CASE main.todo # <<>>
  <2>1. PICK l : l = Head(main.todo)
    OBVIOUS
  <2>2. /\ main.todo \in Seq(Libs) /\ IsInjective(main.todo) /\ Left \subseteq ToSet(slots)
        /\ \A m \in Left : ~Mine(m)
    BY <1>1, <1>2 DEF MainTyped, Joining
  <2>3. /\ l \in Left /\ l \in Libs /\ Tail(main.todo) \in Seq(Libs) /\ IsInjective(Tail(main.todo))
        /\ ToSet(Tail(main.todo)) = Left \ {l}
    BY SMTT(30), <1>4, <2>1, <2>2, TailFacts DEF Left
  <2>4. main' = [main EXCEPT !.todo = Tail(main.todo)]
    BY <1>4 DEF WarmNext
  <2>5. /\ main'.at = "warm" /\ main'.op = main.op /\ main'.lib = main.lib
        /\ main'.todo = Tail(main.todo) /\ MainTyped' /\ Left' = Left \ {l}
    BY <1>1, <1>2, <2>3, <2>4 DEF MainTyped, Left
  <2>6. \A m : Pending(m)' <=> Pending(m)
    BY <1>1, <2>5 DEF Pending
  <2>7. CASE warmDb[l] /\ state[l] = "IDLE"
    <3>1. state' = [state EXCEPT ![l] = "WARMING"]
      BY <1>4, <2>1, <2>7 DEF WarmNext
    <3>2. PICK t \in Threads : NewThread(t, "warm", "artists", l)
      BY <1>4, <2>1, <2>7 DEF WarmNext
    <3>3. thr' \in [Threads -> Thread] /\ warmThread' \in [Libs -> Threads \cup {None}]
      BY <1>2, <2>3, <3>2, NewThreadTyped
    <3>4. state' \in [Libs -> {"IDLE", "WARMING", "READY", "REFRESHING"}]
      BY <1>2, <3>1 DEF TypeOK
    <3>5. TypeOK'
      BY <1>1, <1>2, <2>5, <3>3, <3>4 DEF TypeOK, Thread
    <3>6. \A m \in Left' : ~Mine(m)'
      <4>1. \A m \in Left \ {l} : m \in Libs /\ warmThread'[m] = warmThread[m]
        BY <1>2, <2>2, <2>3, <3>2, HasSlot DEF NewThread, TypeOK
      <4>. QED BY <2>2, <2>5, <4>1 DEF Mine
    <3>7. Joining'
      BY <1>1, <2>2, <2>3, <2>5, <3>6 DEF Joining
    <3>8. ~Pending(l)' => live[l].cap = db[l]
      BY <1>1, <1>2, <2>2, <2>3, <2>6, <2>7 DEF Settled, SettledAt
    <3>9. l \in ToSet(slots) /\ ~Mine(l)
      BY <2>2, <2>3
    <3>. QED BY <1>1, <2>5, <2>6, <3>1, <3>2, <3>5, <3>7, <3>8, <3>9, NewThreadStep
  <2>8. CASE ~(warmDb[l] /\ state[l] = "IDLE")
    <3>1. UNCHANGED <<state, thr, warmThread>>
      BY SMTT(30), <1>4, <2>1, <2>8 DEF WarmNext
    <3>2. TypeOK'
      BY <1>1, <1>2, <2>5, <3>1 DEF TypeOK
    <3>3. Joining'
      BY <1>1, <2>2, <2>3, <2>5, <3>1 DEF Joining, Mine
    <3>4. \A m \in ToSet(slots) : ~Pending(m)' => ~Pending(m) /\ db'[m] = db[m]
      BY <1>1, <2>6
    <3>. QED BY <1>1, <2>5, <3>1, <3>2, <3>3, <3>4, SlotsKept
  <2>. QED BY <2>7, <2>8
<1>. QED BY <1>3, <1>4
-----------------------------------------------------------------------------
(* The main thread: slots that are emptied, added, removed and freed *)

LEMMA SizedTyped ==
  ASSUME TypeOK, NEW v \in Versions
  PROVE  Sized(v) \in Contents /\ Sized(v).cap = v
BY BoundAssumption DEF Sized, Contents, Phases, Versions

\* Slots without a thread are emptied: what they have room for is the last version.
LEMMA EmptiedStep ==
  ASSUME IInv, TypeOK', MainTyped', Joining', NEW ls, ls \subseteq ToSet(slots),
         \A l \in ls : ~Mine(l), Emptied(ls),
         UNCHANGED <<slots, map, warmThread, thr, db>>, main.at # "destroy",
         \A m \in ToSet(slots) : ~Pending(m)' => ~Pending(m)
  PROVE  IInv'
<1> USE DEF IInv, Structure
<1>1. TypeOK /\ ToSet(slots) \subseteq Libs /\ None \notin Threads
  BY HasSlot, TypedThread
<1>2. ASSUME NEW l \in Libs
      PROVE  /\ l \in ls => state'[l] = "IDLE" /\ live'[l].cap = db[l]
             /\ l \notin ls => state'[l] = state[l] /\ live'[l] = live[l]
  <2>1. /\ live'[l] = IF l \in ls THEN Sized(IF Opens(l) THEN db[l] ELSE 0) ELSE live[l]
        /\ state'[l] = IF l \in ls THEN "IDLE" ELSE state[l]
    BY DEF Emptied
  <2>2. db[l] \in Nat /\ (~Opens(l) => db[l] = 0)
    BY <1>1 DEF Opens, TypeOK, Versions
  <2>. QED BY <2>1, <2>2 DEF Sized
<1>3. Placed' /\ Named' /\ Stays'
  BY DEF Placed, Named, Stays, Mine, Running
<1>4. ASSUME NEW u \in Threads PROVE WriterAt(u)' /\ LoadingAt(u)' /\ CurrentAt(u)'
  <2>1. CASE thr[u].pc = "off"
    BY <2>1 DEF Loading, WriterAt, LoadingAt, CurrentAt, AfterLoad
  <2>2. CASE thr[u].pc # "off"
    <3>1. PICK m \in ToSet(slots) \ ls : m = thr[u].lib
      BY <1>1, <2>2, HasSlot DEF Named, Mine
    <3>2. state'[m] = state[m] /\ live'[m] = live[m] /\ (~Pending(m)' => ~Pending(m))
      BY <1>1, <1>2
    <3>3. WriterAt(u)' /\ LoadingAt(u)'
      BY SMTT(30), <3>1, <3>2 DEF Loading, WriterAt, LoadingAt
    <3>4. CurrentAt(u)'
      BY <3>1, <3>2 DEF Loading, CurrentAt, Target, Fresh
    <3>. QED BY SMTT(30), <3>3, <3>4
  <2>. QED BY <2>1, <2>2
<1>5. Settled'
  <2>1. ASSUME NEW m \in ToSet(slots) PROVE SettledAt(m)'
    <3>1. SettledAt(m) /\ m \in Libs
      BY <1>1 DEF Settled
    <3>2. CASE m \in ls
      BY <1>2, <3>1, <3>2 DEF SettledAt
    <3>3. CASE m \notin ls
      BY <1>2, <3>1, <3>3 DEF SettledAt, Fresh
    <3>. QED BY <3>2, <3>3
  <2>. QED BY <2>1 DEF Settled
<1>. QED BY SMTT(30), <1>3, <1>4, <1>5 DEF Loading

LEMMA EmptiedTyped ==
  ASSUME TypeOK, NEW ls, Emptied(ls)
  PROVE  /\ uiDb' \in [Libs -> BOOLEAN] /\ warmDb' \in [Libs -> BOOLEAN]
         /\ live' \in [Libs -> Contents]
         /\ state' \in [Libs -> {"IDLE", "WARMING", "READY", "REFRESHING"}]
<1>1. \A l \in Libs : Opens(l) \in BOOLEAN
  BY DEF Opens
<1>2. \A l \in Libs : Sized(IF Opens(l) THEN db[l] ELSE 0) \in Contents
  BY BoundAssumption DEF Sized, Contents, Phases, Versions, TypeOK
<1>. QED BY <1>1, <1>2 DEF Emptied, TypeOK

LEMMA ClearStep ==
  ASSUME IInv, ClearSlot \/ ClearAll
  PROVE  IInv'
<1>1. TypeOK /\ MainTyped /\ Joining /\ IsInjective(slots) /\ slots \in Seq(Libs)
  BY TypedThread DEF IInv, Structure, Placed
<1>2. CASE ClearSlot
  <2>1. /\ main.at = "act" /\ main.op = "reconnect" /\ Emptied({main.lib})
        /\ main' = [main EXCEPT !.at = "index"]
        /\ UNCHANGED <<slots, map, warmThread, cancel, thr, lock, idles, views, db, unsent, due, ops>>
    BY <1>2 DEF ClearSlot, Acting, Others
  <2>2. main.lib \in ToSet(slots) /\ ~Mine(main.lib) /\ main.todo = <<>>
    BY <1>1, <2>1, EmptySet DEF Joining, Targets, OneLib, Left
  <2>3. /\ main'.at = "index" /\ main'.op = "reconnect" /\ main'.lib = main.lib /\ main'.todo = <<>>
        /\ MainTyped'
    BY SMTT(30), <1>1, <2>1, <2>2 DEF MainTyped, MainPlaces
  <2>4. TypeOK'
    BY SMTT(30), <1>1, <2>1, <2>3, EmptiedTyped DEF TypeOK
  <2>5. Joining'
    BY <2>1, <2>2, <2>3, EmptySet DEF Joining, Left, Mine
  <2>6. \A m \in ToSet(slots) : ~Pending(m)' => ~Pending(m)
    BY <2>1 DEF Pending
  <2>. QED BY <2>1, <2>2, <2>3, <2>4, <2>5, <2>6, EmptiedStep
<1>3. CASE ClearAll
  <2>1. /\ main.at = "act" /\ main.op = "clear" /\ Emptied(ToSet(slots))
        /\ main' = [main EXCEPT !.at = "warm", !.todo = slots]
        /\ UNCHANGED <<slots, map, warmThread, cancel, thr, lock, idles, views, db, unsent, due, ops>>
    BY <1>3 DEF ClearAll, Acting, Others
  <2>2. \A l \in ToSet(slots) : ~Mine(l)
    BY <1>1, <2>1, HasSlot, EmptySet DEF Joining, Targets, OneLib, Left
  <2>3. /\ main'.at = "warm" /\ main'.op = "clear" /\ main'.todo = slots /\ MainTyped'
    BY <1>1, <2>1 DEF MainTyped, MainPlaces
  <2>4. TypeOK'
    BY <1>1, <2>1, <2>3, EmptiedTyped DEF TypeOK
  <2>5. Joining'
    BY SMTT(30), <1>1, <2>1, <2>2, <2>3 DEF Joining, Left, Mine
  <2>6. \A m \in ToSet(slots) : ~Pending(m)' => ~Pending(m)
    BY <2>1 DEF Pending
  <2>. QED BY <2>1, <2>2, <2>3, <2>4, <2>5, <2>6, EmptiedStep
<1>. QED BY <1>2, <1>3

LEMMA MainStaysStep ==
  ASSUME IInv, MainIndex \/ MainIndexed \/ Awaited \/ Destroy
  PROVE  IInv'
<1>1. /\ TypeOK /\ MainTyped /\ Joining /\ IsInjective(slots) /\ slots \in Seq(Libs)
      /\ UNCHANGED <<slots, map, state, warmThread, live, uiDb, warmDb, thr, lock, idles, views, db,
                     unsent, due, ops>>
  BY TypedThread DEF IInv, Structure, Placed, MainIndex, MainIndexed, Awaited, Destroy, slotVars, Others
<1>2. CASE MainIndex
  <2>1. main.at = "index" /\ main' = [main EXCEPT !.at = "indexing"] /\ cancel' = cancel
    BY <1>2 DEF MainIndex, slotVars
  <2>2. /\ main'.at = "indexing" /\ main'.op = main.op /\ main'.lib = main.lib /\ main'.todo = main.todo
        /\ MainTyped'
    BY <1>1, <2>1 DEF MainTyped, MainPlaces
  <2>3. TypeOK'
    BY <1>1, <2>1, <2>2 DEF TypeOK
  <2>4. Joining'
    BY <1>1, <2>1, <2>2 DEF Joining, Left, Mine
  <2>5. \A m \in ToSet(slots) : ~Pending(m)' => ~Pending(m) /\ db'[m] = db[m]
    BY <1>1, <2>1 DEF Pending
  <2>. QED BY <1>1, <2>1, <2>2, <2>3, <2>4, <2>5, SlotsKept
<1>3. CASE MainIndexed /\ main.op = "reconnect"
  <2>1. /\ main.at = "indexing" /\ main' = [main EXCEPT !.at = "warm", !.todo = <<main.lib>>]
        /\ cancel' = cancel
    BY <1>3 DEF MainIndexed, slotVars
  <2>2. main.lib \in ToSet(slots) /\ ~Mine(main.lib) /\ main.lib \in Libs
    BY SMTT(30), <1>1, <1>3, <2>1, HasSlot DEF Joining
  <2>3. /\ main'.at = "warm" /\ main'.op = "reconnect" /\ main'.todo = <<main.lib>> /\ MainTyped'
    BY <1>1, <1>3, <2>1, <2>2, OneTarget DEF MainTyped, MainPlaces
  <2>4. TypeOK'
    BY SMTT(30), <1>1, <2>1, <2>3 DEF TypeOK
  <2>5. Joining'
    BY <1>1, <2>1, <2>2, <2>3, OneTarget DEF Joining, Left, Mine
  <2>6. \A m \in ToSet(slots) : ~Pending(m)' => ~Pending(m) /\ db'[m] = db[m]
    BY <1>1, <2>1 DEF Pending
  <2>. QED BY <1>1, <2>1, <2>3, <2>4, <2>5, <2>6, SlotsKept
<1>4. CASE (MainIndexed /\ main.op # "reconnect") \/ Awaited
  <2>1. main' = AtLoop /\ main.at \in {"indexing", "act"} /\ cancel' = cancel
        /\ (main.at = "act" => main.op = "await")
    BY <1>4 DEF MainIndexed, Awaited, Acting, slotVars
  <2>2. MainTyped' /\ Joining' /\ main'.at = "loop"
    BY <2>1, LoopJoins DEF AtLoop
  <2>3. TypeOK'
    BY SMTT(30), <1>1, <2>1, <2>2 DEF TypeOK
  <2>4. \A m \in ToSet(slots) : ~Pending(m)' => ~Pending(m) /\ db'[m] = db[m]
    BY <1>1, <2>1 DEF Pending
  <2>. QED BY <1>1, <2>1, <2>2, <2>3, <2>4, SlotsKept
<1>5. CASE Destroy
  <2>1. /\ main.at = "loop" /\ main' = [main EXCEPT !.at = "destroy", !.todo = slots]
        /\ cancel' = Flagged("destroy", slots, cancel)
    BY <1>5 DEF Destroy
  <2>2. main'.at = "destroy" /\ main'.todo = slots /\ MainTyped'
    BY <1>1, <2>1 DEF MainTyped, MainPlaces
  <2>3. TypeOK'
    <3>1. cancel' \in [Libs -> BOOLEAN]
      BY <1>1, <2>1, FlaggedType DEF TypeOK
    <3>. QED BY <1>1, <2>2, <3>1 DEF TypeOK
  <2>4. Joining'
    BY <1>1, <2>2, HasSlot DEF Joining, Left, Mine
  <2>5. \A m \in ToSet(slots) : ~Pending(m)' => ~Pending(m) /\ db'[m] = db[m]
    BY <1>1, <2>1 DEF Pending
  <2>. QED BY <1>1, <2>1, <2>2, <2>3, <2>4, <2>5, SlotsKept
<1>. QED BY SMTT(30), <1>2, <1>3, <1>4, <1>5

LEMMA AllJoined ==
  ASSUME IInv, main.at = "act", main.op \in {"add", "remove"}
  PROVE  /\ \A l \in Libs : ~Mine(l)
         /\ \A t \in Threads : thr[t].pc = "off"
         /\ main.lib \in Libs /\ main.todo = <<>>
         /\ main.op = "add" => main.lib \notin ToSet(slots)
         /\ main.op = "remove" => main.lib \in ToSet(slots)
<1>1. \A l \in Libs : ~Mine(l)
  BY EmptySet DEF IInv, Structure, Joining, Targets, OneLib, Left
<1>2. \A t \in Threads : thr[t].pc = "off"
  BY <1>1, TypedThread DEF IInv, Structure, Named, Mine
<1>. QED BY SMTT(30), <1>1, <1>2, HasSlot DEF IInv, Structure, Joining, OneLib

\* The array of slots changes only when no thread is left.
LEMMA SlotsChange ==
  ASSUME IInv, main.at = "act", main.op \in {"add", "remove"},
         slots' \in Seq(Libs), IsInjective(slots'), map' = Registered(slots'),
         thr' = thr, UNCHANGED <<warmThread, cancel, lock, idles, views, db, unsent, due, ops>>,
         uiDb' \in [Libs -> BOOLEAN], warmDb' \in [Libs -> BOOLEAN], live' \in [Libs -> Contents],
         state' \in [Libs -> {"IDLE", "WARMING", "READY", "REFRESHING"}],
         main'.at \in {"loop", "index"}, main'.todo = <<>>, main'.op # "reconnect", MainTyped',
         \A m \in ToSet(slots') : \/ m \in ToSet(slots) /\ state'[m] = state[m] /\ live'[m] = live[m]
                                  \/ state'[m] = "IDLE" /\ live'[m].cap = db[m]
  PROVE  IInv'
<1> USE DEF IInv, Structure
<1>1. /\ \A l \in Libs : ~Mine(l)
      /\ \A t \in Threads : thr[t].pc = "off"
  BY AllJoined
<1>2. TypeOK'
  <2>1. map' \in [Libs -> 0 .. Len(slots')]
    <3>1. PICK s \in Seq(Libs) : s = slots'
      OBVIOUS
    <3>. QED BY <3>1, RegisteredFacts
  <2>. QED BY <2>1 DEF TypeOK
<1>3. Placed'
  <2>1. PICK s \in Seq(Libs) : s = slots' /\ map' = Registered(s)
    OBVIOUS
  <2>. QED BY <2>1, RegisteredFacts DEF Placed
<1>4. Named' /\ Stays'
  BY <1>1 DEF Named, Stays, Running, Mine
<1>5. Joining'
  BY SMTT(30), <1>1, EmptySet DEF Joining, Left, Mine
<1>6. Loading'
  BY <1>1 DEF Loading, WriterAt, LoadingAt, CurrentAt, AfterLoad
<1>7. Settled'
  <2>1. ASSUME NEW m \in ToSet(slots') PROVE SettledAt(m)'
    <3>1. Pending(m)' <=> Pending(m)
      BY DEF Pending
    <3>2. m \in ToSet(slots) => SettledAt(m)
      BY DEF Settled
    <3>. QED BY <3>1, <3>2 DEF SettledAt, Fresh
  <2>. QED BY <2>1 DEF Settled
<1>. QED BY <1>2, <1>3, <1>4, <1>5, <1>6, <1>7

LEMMA NoneMoved ==
  ASSUME IInv, main.at = "act", main.op \in {"add", "remove"}, NEW ls, Moved(ls)
  PROVE  thr' = thr
<1>1. \A t \in Threads : ~Running(t)
  BY AllJoined DEF Running
<1>2. thr' = [t \in Threads |-> thr[t]]
  BY <1>1 DEF Moved
<1>. QED BY <1>2, TypedThread DEF IInv

LEMMA AddedStep ==
  ASSUME IInv, Added
  PROVE  IInv'
<1>1. PICK l : l = main.lib
  OBVIOUS
<1>2. /\ main.at = "act" /\ main.op = "add" /\ slots' = Append(slots, l) /\ Moved(Libs)
      /\ map' = Registered(slots') /\ main' = AtLoop
      /\ uiDb' = [uiDb EXCEPT ![l] = db[l] > 0] /\ warmDb' = [warmDb EXCEPT ![l] = db[l] > 0]
      /\ live' = [live EXCEPT ![l] = Sized(db[l])] /\ state' = [state EXCEPT ![l] = "IDLE"]
      /\ UNCHANGED <<warmThread, cancel, lock, idles, views, db, unsent, due, ops>>
  BY <1>1 DEF Added, Acting
<1>3. /\ TypeOK /\ slots \in Seq(Libs) /\ IsInjective(slots) /\ l \in Libs /\ l \notin ToSet(slots)
      /\ db[l] \in Versions /\ db[l] \in Nat
  BY <1>1, <1>2, AllJoined, TypedThread DEF IInv, Structure, Placed, Versions
<1>4. thr' = thr
  BY <1>2, NoneMoved
<1>5. slots' \in Seq(Libs) /\ IsInjective(slots') /\ ToSet(slots') = ToSet(slots) \cup {l}
  BY <1>2, <1>3, AppendFacts
<1>6. Sized(db[l]) \in Contents /\ Sized(db[l]).cap = db[l]
  BY <1>3, SizedTyped
<1>7. /\ uiDb' \in [Libs -> BOOLEAN] /\ warmDb' \in [Libs -> BOOLEAN] /\ live' \in [Libs -> Contents]
      /\ state' \in [Libs -> {"IDLE", "WARMING", "READY", "REFRESHING"}]
      /\ state'[l] = "IDLE" /\ live'[l].cap = db[l]
      /\ \A m \in Libs \ {l} : state'[m] = state[m] /\ live'[m] = live[m]
  BY <1>2, <1>3, <1>6 DEF TypeOK
<1>8. main'.at = "loop" /\ main'.todo = <<>> /\ main'.op # "reconnect" /\ MainTyped'
  BY <1>2, LoopJoins DEF AtLoop
<1>9. \A m \in ToSet(slots') : \/ m \in ToSet(slots) /\ state'[m] = state[m] /\ live'[m] = live[m]
                               \/ state'[m] = "IDLE" /\ live'[m].cap = db[m]
  BY <1>3, <1>5, <1>7, HasSlot
<1>. QED BY <1>2, <1>4, <1>5, <1>7, <1>8, <1>9, SlotsChange

LEMMA RemovedStep ==
  ASSUME IInv, Removed
  PROVE  IInv'
<1>1. PICK l : l = main.lib
  OBVIOUS
<1>2. /\ main.at = "act" /\ main.op = "remove" /\ slots' = RemoveAt(slots, map[l])
      /\ Moved(ToSet(SubSeq(slots, map[l], Len(slots))))
      /\ map' = Registered(slots') /\ main' = [main EXCEPT !.at = "index"]
      /\ uiDb' = [uiDb EXCEPT ![l] = FALSE] /\ warmDb' = [warmDb EXCEPT ![l] = FALSE]
      /\ live' = [live EXCEPT ![l] = Sized(0)] /\ state' = [state EXCEPT ![l] = "IDLE"]
      /\ UNCHANGED <<warmThread, cancel, lock, idles, views, db, unsent, due, ops>>
  BY <1>1 DEF Removed, Acting
<1>3. /\ TypeOK /\ slots \in Seq(Libs) /\ IsInjective(slots) /\ l \in Libs /\ l \in ToSet(slots)
      /\ map[l] \in DOMAIN slots /\ slots[map[l]] = l /\ MainTyped /\ main.todo = <<>>
  BY <1>1, <1>2, AllJoined, TypedThread DEF IInv, Structure, Placed
<1>4. thr' = thr
  BY <1>2, NoneMoved
<1>5. slots' \in Seq(Libs) /\ IsInjective(slots') /\ ToSet(slots') = ToSet(slots) \ {l}
  BY <1>2, <1>3, RemoveFacts
<1>6. Sized(0) \in Contents
  BY <1>3, SizedTyped, BoundAssumption DEF Versions
<1>7. /\ uiDb' \in [Libs -> BOOLEAN] /\ warmDb' \in [Libs -> BOOLEAN] /\ live' \in [Libs -> Contents]
      /\ state' \in [Libs -> {"IDLE", "WARMING", "READY", "REFRESHING"}]
      /\ \A m \in Libs \ {l} : state'[m] = state[m] /\ live'[m] = live[m]
  BY <1>2, <1>3, <1>6 DEF TypeOK
<1>8. main'.at = "index" /\ main'.todo = <<>> /\ main'.op # "reconnect" /\ MainTyped'
  BY <1>2, <1>3 DEF MainTyped, MainPlaces
<1>9. \A m \in ToSet(slots') : \/ m \in ToSet(slots) /\ state'[m] = state[m] /\ live'[m] = live[m]
                               \/ state'[m] = "IDLE" /\ live'[m].cap = db[m]
  BY <1>5, <1>7, HasSlot
<1>. QED BY <1>2, <1>4, <1>5, <1>7, <1>8, <1>9, SlotsChange

LEMMA DestroyStep ==
  ASSUME IInv, DestroyNext
  PROVE  IInv'
<1> USE DEF IInv, Structure
<1>1. /\ main.at = "destroy" /\ UNCHANGED <<state, lock, idles, views, db, unsent, due, ops>>
      /\ TypeOK /\ MainTyped /\ Joining
  BY DEF DestroyNext
<1>2. CASE main.todo = <<>>
  <2>1. /\ main' = [main EXCEPT !.at = "gone"] /\ slots' = <<>> /\ map' = Registered(<<>>)
        /\ UNCHANGED <<thr, warmThread, cancel, live, uiDb, warmDb>>
    BY <1>2 DEF DestroyNext
  <2>2. main'.at = "gone" /\ main'.todo = <<>> /\ MainTyped'
    BY SMTT(30), <1>1, <1>2, <2>1 DEF MainTyped, MainPlaces
  <2>3. \A l \in Libs : ~Mine(l)
    BY <1>1, <1>2, EmptySet DEF Joining, Left
  <2>4. \A t \in Threads : thr[t].pc = "off"
    BY <2>3, TypedThread DEF Named, Mine
  <2>5. TypeOK'
    BY <1>1, <2>1, <2>2, RegisteredFacts, EmptySet DEF TypeOK
  <2>6. Placed'
    BY <2>1, RegisteredFacts, EmptySet DEF Placed
  <2>7. Named' /\ Stays' /\ Loading'
    BY <2>1, <2>3, <2>4 DEF Named, Stays, Running, Mine, Loading, WriterAt, LoadingAt, CurrentAt, AfterLoad
  <2>8. Joining' /\ Settled'
    BY <2>1, <2>2, EmptySet DEF Joining, Left, Settled
  <2>. QED BY <2>2, <2>5, <2>6, <2>7, <2>8
<1>3. CASE main.todo # <<>>
  <2>1. PICK l : l = Head(main.todo)
    OBVIOUS
  <2>2. /\ Mine(l) => thr[warmThread[l]].pc = "ended"
        /\ thr' = [t \in Threads |-> IF t = warmThread[l] THEN Off ELSE thr[t]]
        /\ warmThread' = [warmThread EXCEPT ![l] = None]
        /\ cancel' = Flagged("destroy", Tail(main.todo), [cancel EXCEPT ![l] = FALSE])
        /\ live' = [live EXCEPT ![l] = Sized(0)]
        /\ uiDb' = [uiDb EXCEPT ![l] = FALSE] /\ warmDb' = [warmDb EXCEPT ![l] = FALSE]
        /\ main' = [main EXCEPT !.todo = Tail(main.todo)]
        /\ UNCHANGED <<slots, map>>
    BY SMTT(30), <1>3, <2>1 DEF DestroyNext
  <2>3. main.todo \in Seq(Libs) /\ IsInjective(main.todo) /\ Left \subseteq ToSet(slots)
    BY <1>1 DEF MainTyped, Joining
  <2>4. /\ l \in Left /\ l \in Libs /\ Tail(main.todo) \in Seq(Libs) /\ IsInjective(Tail(main.todo))
        /\ ToSet(Tail(main.todo)) = Left \ {l}
    BY SMTT(30), <1>3, <2>1, <2>3, TailFacts DEF Left
  <2>5. /\ main'.at = "destroy" /\ main'.todo = Tail(main.todo) /\ Left' = Left \ {l} /\ MainTyped'
    BY <1>1, <2>2, <2>4 DEF MainTyped, Left
  <2>6. Off \in Thread /\ Sized(0) \in Contents
    BY BoundAssumption DEF Off, Thread, PCs, Sized, Contents, Versions, Phases
  <2>7. /\ thr' \in [Threads -> Thread] /\ live' \in [Libs -> Contents]
        /\ warmThread' \in [Libs -> Threads \cup {None}] /\ ~Mine(l)'
        /\ \A m \in Libs \ {l} : warmThread'[m] = warmThread[m] /\ live'[m] = live[m]
        /\ \A t \in Threads : thr'[t] = IF t = warmThread[l] THEN Off ELSE thr[t]
    BY SMTT(30), <1>1, <2>2, <2>4, <2>6, TypedThread DEF TypeOK, Mine
  <2>8. TypeOK'
    <3>1. [cancel EXCEPT ![l] = FALSE] \in [Libs -> BOOLEAN]
      BY <1>1, <2>4 DEF TypeOK
    <3>2. cancel' \in [Libs -> BOOLEAN]
      BY <2>2, <2>4, <3>1, FlaggedType
    <3>. QED BY <1>1, <2>2, <2>5, <2>7, <3>2 DEF TypeOK, Thread
  <2>9. Placed'
    BY <2>2 DEF Placed
  <2>10. ASSUME NEW t \in Threads, thr'[t].pc # "off"
         PROVE  /\ thr'[t] = thr[t] /\ thr[t].lib \in Libs \ {l} /\ warmThread[thr[t].lib] = t
                /\ thr[t].pc # "off"
    <3>1. t # warmThread[l] /\ thr'[t] = thr[t]
      BY <2>7, <2>10 DEF Off
    <3>. QED BY <2>10, <3>1 DEF Named
  <2>11. Named'
    <3>1. ASSUME NEW m \in Libs, Mine(m)'
          PROVE  /\ thr'[warmThread'[m]].pc # "off" /\ thr'[warmThread'[m]].lib = m
                 /\ m \in ToSet(slots)'
      <4>1. m # l /\ Mine(m) /\ warmThread'[m] = warmThread[m]
        BY <2>7, <3>1 DEF Mine
      <4>2. warmThread[m] \in Threads /\ thr[warmThread[m]].lib = m /\ thr[warmThread[m]].pc # "off"
            /\ m \in ToSet(slots)
        BY <4>1, HasSlot
      <4>3. warmThread[l] = warmThread[m] => Mine(l)
        BY <4>1 DEF Mine
      <4>4. warmThread[m] # warmThread[l]
        BY <2>4, <4>1, <4>2, <4>3, HasSlot
      <4>. QED BY <2>2, <2>7, <4>1, <4>2, <4>4
    <3>. QED BY SMTT(30), <2>7, <2>10, <3>1 DEF Named
  <2>12. Stays'
    BY <2>10 DEF Stays, Running
  <2>13. \A m \in Libs : Mine(m)' => m \in Left'
    <3>1. \A m \in Libs : Mine(m)' => m # l /\ Mine(m)
      BY <2>7 DEF Mine
    <3>2. \A m \in Libs : Mine(m) => m \in Left
      BY <1>1 DEF Joining
    <3>. QED BY <2>5, <3>1, <3>2
  <2>14. Joining'
    BY <2>2, <2>3, <2>4, <2>5, <2>13 DEF Joining
  <2>15. ASSUME NEW t \in Threads PROVE WriterAt(t)' /\ LoadingAt(t)' /\ CurrentAt(t)'
    <3>1. CASE thr'[t].pc = "off"
      <4>1. CASE t = warmThread[l]
        BY <2>7, <4>1 DEF WriterAt, LoadingAt, CurrentAt, AfterLoad, Off
      <4>2. CASE t # warmThread[l]
        BY <2>7, <3>1, <4>2 DEF Loading, WriterAt, LoadingAt, CurrentAt, AfterLoad
      <4>. QED BY <4>1, <4>2
    <3>2. CASE thr'[t].pc # "off"
      <4>1. PICK m \in Libs \ {l} : m = thr[t].lib
        BY <2>10, <3>2
      <4>2. thr'[t] = thr[t] /\ live'[m] = live[m] /\ (Pending(m)' <=> Pending(m))
        BY <1>1, <2>5, <2>7, <2>10, <3>2 DEF Pending
      <4>3. WriterAt(t)' /\ LoadingAt(t)'
        BY SMTT(30), <1>1, <4>1, <4>2 DEF Loading, WriterAt, LoadingAt
      <4>4. CurrentAt(t)'
        BY <1>1, <4>1, <4>2 DEF Loading, CurrentAt, Target, Fresh
      <4>. QED BY <4>3, <4>4
    <3>. QED BY <3>1, <3>2
  <2>16. Settled'
    BY <2>5 DEF Settled
  <2>. QED BY <2>5, <2>8, <2>9, <2>11, <2>12, <2>14, <2>15, <2>16 DEF Loading
<1>. QED BY <1>2, <1>3
-----------------------------------------------------------------------------
(* Theorems *)

LEMMA InitHolds ==
  ASSUME Init
  PROVE  IInv
<1> USE DEF Init
<1>1. First \in Seq(Libs) /\ IsInjective(First) /\ ToSet(First) \subseteq Libs /\ None \notin Threads
  BY LibsAssumption, InSeq
<1>2. map = Registered(First) /\ slots = First
  BY DEF Registered
<1>3. db \in [Libs -> Versions] /\ \A l \in Libs : db[l] \in Nat
  BY BoundAssumption DEF Versions
<1>4. /\ live \in [Libs -> Contents]
      /\ \A l \in ToSet(First) : live[l].cap = db[l]
  <2>1. \A l \in Libs : Sized(IF uiDb[l] THEN db[l] ELSE 0) \in Contents
    BY <1>3, BoundAssumption DEF Sized, Contents, Versions, Phases
  <2>2. \A l \in ToSet(First) : uiDb[l] <=> db[l] > 0
    BY <1>1
  <2>3. ASSUME NEW l \in ToSet(First) PROVE (IF uiDb[l] THEN db[l] ELSE 0) = db[l]
    <3>1. db[l] \in Nat
      BY <1>1, <1>3
    <3>2. CASE db[l] > 0
      BY <2>2, <3>2
    <3>3. CASE ~(db[l] > 0)
      <4>1. db[l] = 0
        BY <3>1, <3>3
      <4>2. ~uiDb[l]
        BY <2>2, <3>3
      <4>. QED BY <4>1, <4>2
    <3>. QED BY <3>2, <3>3
  <2>. QED BY <1>1, <2>1, <2>3 DEF Sized
<1>5. Off \in Thread
  BY BoundAssumption DEF Off, Thread, PCs, Sized, Contents, Versions, Phases
<1>6. main.at = "warm" /\ main.op = "startup" /\ main.todo = First /\ MainTyped
  BY <1>1, AtLoopTyped DEF AtLoop, MainTyped, MainPlaces, Operations
<1>7. TypeOK
  <2>1. map \in [Libs -> 0 .. Len(slots)]
    BY <1>1, <1>2, RegisteredFacts
  <2>2. thr \in [Threads -> Thread]
    BY <1>5
  <2>3. uiDb \in [Libs -> BOOLEAN] /\ warmDb \in [Libs -> BOOLEAN] /\ ops \in 0 .. MaxOps
    BY BoundAssumption
  <2>. QED BY <1>1, <1>3, <1>4, <1>6, <2>1, <2>2, <2>3 DEF TypeOK, Thread
<1>8. Placed
  BY <1>1, <1>2, RegisteredFacts DEF Placed
<1>9. Named /\ Stays /\ Loading
  BY DEF Named, Stays, Loading, WriterAt, LoadingAt, CurrentAt, AfterLoad, Off, Running, Mine
<1>10. Joining
  BY <1>1, <1>6 DEF Joining, Left, Mine
<1>11. Settled
  <2>1. \A l \in ToSet(First) : state[l] = "IDLE" /\ live[l].cap = db[l]
    BY <1>1, <1>4
  <2>. QED BY <2>1 DEF Settled, SettledAt
<1>. QED BY <1>6, <1>7, <1>8, <1>9, <1>10, <1>11 DEF IInv, Structure

LEMMA NextKeeps ==
  ASSUME IInv, [Next]_vars
  PROVE  IInv'
<1>1. CASE \E l \in Libs : Commit(l) \/ Updated(l) \/ DueRefresh(l) \/ Request(l)
  BY <1>1, CommitStep, UpdatedStep, DueRefreshStep, RequestStep
<1>2. CASE \E t \in Threads : ThreadStep(t)
  BY <1>2, OpenStep, AllocStep, ArtistsStep, PhaseStep, SwapStep, AfterStep, ReadyStep, DrainStep
     DEF ThreadStep
<1>3. CASE MainStep
  BY <1>3, JoinStep, RefreshStep, WarmStep, ClearStep, MainStaysStep, AddedStep, RemovedStep,
     DestroyStep DEF MainStep
<1>4. CASE ReadyIdle \/ Destroy
  BY <1>4, ReadyIdleStep, MainStaysStep
<1>5. CASE Clear
  BY <1>5, ClearRequestStep
<1>6. CASE UNCHANGED vars
  <2>1. TypeOK' /\ \A m \in ToSet(slots) : ~Pending(m)' => ~Pending(m) /\ db'[m] = db[m]
    BY <1>6 DEF vars, IInv, TypeOK, Pending
  <2>. QED BY SMTT(30), <1>6, <2>1, JoiningKept, SlotsKept DEF vars
<1>. QED BY <1>1, <1>2, <1>3, <1>4, <1>5, <1>6 DEF Next

(* The invariant of slots, threads, joins and versions that carries the    *)
(* theorems below.                                                         *)
THEOREM Invariance == Spec => []IInv
BY InitHolds, NextKeeps, PTL DEF Spec

(* Every running thread is the one its slot names and the slot's state     *)
(* says what it does, no slot moves under a thread, and the map finds      *)
(* every slot, whatever is added, removed, cleared and refreshed.          *)
THEOREM SlotsAlwaysSound == Spec => []SlotsSound
<1>1. IInv => SlotsSound
  <2>1. IInv => RunningIsJoinable /\ SettledHasNoWriter
    BY DEF IInv, Structure, Named, Loading, WriterAt, RunningIsJoinable, SettledHasNoWriter, Running
  <2>2. IInv => SlotsStayPut
    BY DEF IInv, Structure, Placed, Stays, SlotsStayPut
  <2>. QED BY <2>1, <2>2 DEF SlotsSound, WritersKnown, IInv
<1>. QED BY <1>1, Invariance, PTL

(* A READY slot serves one whole snapshot, and the last one once all that  *)
(* was committed has been reported and handled.                            *)
THEOREM ReadyAlwaysSound == Spec => []ReadySound
<1>1. IInv => ReadySound
  <2>1. IInv => ReadyIsWhole
    BY DEF IInv, Settled, SettledAt, ReadyIsWhole
  <2>2. ASSUME IInv, NEW l \in ToSet(slots), Reported(l), state[l] = "READY"
        PROVE  live[l].ver = db[l] /\ ~Truncated(live[l])
    <3>1. l \in Libs /\ db[l] \in Nat
      BY <2>2, HasSlot DEF IInv, TypeOK, Versions
    <3>2. Fresh(live[l], l)
      BY <2>2 DEF IInv, Settled, SettledAt, Reported, Pending
    <3>. QED BY <3>1, <3>2 DEF Fresh, Truncated
  <2>. QED BY <2>1, <2>2 DEF ReadySound, ReadyIsCurrent
<1>. QED BY <1>1, Invariance, PTL
-----------------------------------------------------------------------------
(* The artists of a database: finding the first of some row ids, and a free one *)

Numbered(ids) == \E k \in Nat : ids \subseteq 1 .. k

LEMMA FirstIdIn ==
  ASSUME NEW ids, Numbered(ids)
  PROVE  /\ ids = {} => People!FirstId(ids) = 0
         /\ ids # {} => People!FirstId(ids) \in ids
         /\ People!FirstId(ids) \in Nat /\ ids \subseteq Nat \ {0}
<1>1. PICK n \in Nat : ids \subseteq 1 .. n
  BY DEF Numbered
<1>2. ASSUME ids # {} PROVE People!Min(ids) \in ids
  <2>1. PICK k \in ids : \A j \in 1 .. k - 1 : j \notin ids
    BY <1>1, <1>2, LeastOf
  <2>2. \A j \in ids : k <= j
    BY <1>1, <2>1
  <2>. QED BY <2>1, <2>2 DEF People!Min
<1>3. ids \subseteq Nat \ {0}
  BY <1>1
<1>. QED BY <1>2, <1>3 DEF People!FirstId

LEMMA LastId ==
  ASSUME NEW ids, Numbered(ids)
  PROVE  /\ People!Max(ids \cup {0}) \in Nat /\ \A j \in ids : j <= People!Max(ids \cup {0})
         /\ ids # {} => \E j \in ids : \A i \in ids : j >= i
<1>1. PICK n \in Nat : ids \subseteq 1 .. n
  BY DEF Numbered
<1> DEFINE Over == {k \in 1 .. n + 1 : \A j \in ids : j < k}
<1>2. Over \subseteq 1 .. n + 1 /\ n + 1 \in Over /\ n + 1 \in Nat
  BY <1>1
<1>3. PICK k \in Over : \A j \in 1 .. k - 1 : j \notin Over
  <2>1. Over # {}
    BY <1>2
  <2> HIDE DEF Over
  <2>. QED BY <1>2, <2>1, LeastOf
<1>4. k \in 1 .. n + 1 /\ \A j \in ids : j < k
  BY <1>3
<1>5. k - 1 \in ids \cup {0}
  <2>1. SUFFICES ASSUME k # 1, k - 1 \notin ids PROVE FALSE
    BY <1>4
  <2>2. k - 1 \in 1 .. k - 1 /\ k - 1 \in 1 .. n + 1
    BY <1>4, <2>1
  <2>3. \A j \in ids : j < k - 1
    BY <1>1, <1>4, <2>1
  <2>. QED BY <1>3, <2>2, <2>3
<1>6. \A j \in ids \cup {0} : k - 1 >= j
  BY <1>1, <1>4
<1>7. \A j \in ids \cup {0} : j \in Int
  BY <1>1
<1>8. /\ People!Max(ids \cup {0}) \in ids \cup {0}
      /\ \A j \in ids \cup {0} : People!Max(ids \cup {0}) >= j
  BY <1>5, <1>6 DEF People!Max
<1>9. ids \cup {0} \subseteq Nat
  BY <1>1
<1> DEFINE top == People!Max(ids \cup {0})
<1>10. top \in ids \cup {0} /\ top \in Nat /\ \A j \in ids : top >= j /\ j \in Nat
  BY <1>8, <1>9
<1> HIDE DEF top
<1>11. \A j \in ids : j <= top
  BY <1>10
<1>12. ASSUME NEW j \in ids PROVE top \in ids
  <2>1. j \in Nat \ {0} /\ top >= j
    BY <1>10, FirstIdIn
  <2>2. top # 0
    BY <1>10, <2>1
  <2>. QED BY <1>10, <2>2
<1>13. ids # {} => \E j \in ids : \A i \in ids : j >= i
  BY <1>10, <1>12
<1>. QED BY <1>10, <1>11, <1>13 DEF top

LEMMA GreatestId ==
  ASSUME NEW ids, Numbered(ids), ids # {}
  PROVE  People!Max(ids) \in ids
BY LastId DEF People!Max

-----------------------------------------------------------------------------
(* The tables as every step leaves them *)

Owners == Mbids \cup {None}
RowSet == [name : Spellings, mbid : Owners]

Kept(s) ==
    /\ s = [rows |-> s.rows, index |-> s.index, credits |-> s.credits, album |-> s.album]
    /\ Numbered(DOMAIN s.rows) /\ s.rows \in [DOMAIN s.rows -> RowSet]
    /\ s.credits \in [TrackIds -> SUBSET Nat] /\ s.album \in [AlbumIds -> Nat]
    /\ s.index = [i \in DOMAIN s.rows |-> s.rows[i].name]
    /\ \A i, j \in DOMAIN s.rows : i # j =>
          /\ Fold[s.rows[i].name] # Fold[s.rows[j].name]
          /\ s.rows[i].mbid = None \/ s.rows[i].mbid # s.rows[j].mbid

LiveIn(s) ==
    /\ \A t \in TrackIds : s.credits[t] \subseteq DOMAIN s.rows
    /\ \A al \in AlbumIds : s.album[al] \in DOMAIN s.rows \cup {0}
CacheIn(c, s) == \A f \in DOMAIN c : c[f] \in DOMAIN s.rows

PeopleInv ==
    /\ Kept(artist_tables) /\ LiveIn(artist_tables)
    /\ artist_cache # None => CacheIn(artist_cache, artist_tables)

LEMMA LiveIsReferred ==
  ASSUME NEW s
  PROVE  /\ LiveIn(s) => People!Referred(s) \ {0} \subseteq DOMAIN s.rows
         /\ \A t \in TrackIds : s.credits[t] \subseteq People!Referred(s)
         /\ \A al \in AlbumIds : s.album[al] \in People!Referred(s)
<1> DEFINE credited == UNION {s.credits[t] : t \in TrackIds}
           named == {s.album[al] : al \in AlbumIds}
<1>1. \A i : i \in credited <=> \E t \in TrackIds : i \in s.credits[t]
  OBVIOUS
<1>2. \A i : i \in named <=> \E al \in AlbumIds : i = s.album[al]
  OBVIOUS
<1>3. People!Referred(s) = credited \cup named
  BY DEF People!Referred
<1> HIDE DEF credited, named
<1>. QED BY <1>1, <1>2, <1>3 DEF LiveIn

LEMMA RowKept ==
  ASSUME NEW s, Kept(s), NEW i \in DOMAIN s.rows
  PROVE  /\ s.rows[i] \in RowSet /\ s.rows[i].name \in Spellings /\ s.rows[i].mbid \in Owners
         /\ i \in Nat \ {0}
BY FirstIdIn DEF Kept, RowSet

\* What follows of t when rows are only added to s or given another name or id.
Grown(s, t) ==
    /\ Kept(t) /\ DOMAIN s.rows \subseteq DOMAIN t.rows
    /\ t.credits = s.credits /\ t.album = s.album

LEMMA GrownSame ==
  ASSUME NEW s, Kept(s)
  PROVE  Grown(s, s)
BY DEF Grown

LEMMA GrownOn ==
  ASSUME NEW s, NEW t, NEW u, Grown(s, t), Grown(t, u)
  PROVE  Grown(s, u)
BY DEF Grown

\* One row of s is new or another in t.
Altered(s, t, i, row) ==
    /\ Grown(s, t) /\ DOMAIN t.rows = DOMAIN s.rows \cup {i} /\ t.rows[i] = row
    /\ \A j \in DOMAIN s.rows \ {i} : t.rows[j] = s.rows[j]

LEMMA PutKept ==
  ASSUME NEW s, Kept(s), NEW i \in Nat \ {0}, NEW n \in Spellings, NEW m \in Owners,
         People!Admits(s, i, n, m)
  PROVE  Altered(s, People!Put(s, i, n, m), i, [name |-> n, mbid |-> m])
<1> DEFINE D == DOMAIN s.rows \cup {i}
           rows == [j \in D |-> IF j = i THEN [name |-> n, mbid |-> m] ELSE s.rows[j]]
           index == [j \in D |-> IF j = i THEN n ELSE s.index[j]]
           t == People!Put(s, i, n, m)
<1>1. DOMAIN s.index = DOMAIN s.rows /\ \A j \in DOMAIN s.rows : s.index[j] = s.rows[j].name
  BY DEF Kept
<1>2. t = [rows |-> rows, index |-> index, credits |-> s.credits, album |-> s.album]
  <2>1. rows = People!Entered(s.rows, i, People!Row(n, m))
    BY DEF People!Entered, People!Row
  <2>2. index = People!Entered(s.index, i, n)
    BY <1>1 DEF People!Entered
  <2>3. t = [s EXCEPT !.rows = rows, !.index = index]
    BY <2>1, <2>2 DEF People!Put
  <2> HIDE DEF rows, index, t
  <2>. QED BY <2>3 DEF Kept
<1>3. /\ DOMAIN rows = D /\ rows[i] = [name |-> n, mbid |-> m]
      /\ \A j \in DOMAIN s.rows \ {i} : rows[j] = s.rows[j]
  OBVIOUS
<1>4. rows \in [D -> RowSet]
  <2>1. ASSUME NEW j \in D PROVE rows[j] \in RowSet
    BY RowKept DEF RowSet
  <2>. QED BY <2>1
<1>5. index = [j \in D |-> rows[j].name]
  <2>1. ASSUME NEW j \in D PROVE index[j] = rows[j].name
    BY <1>1
  <2>. QED BY <2>1
<1>6. Numbered(D)
  <2>1. PICK k \in Nat : DOMAIN s.rows \subseteq 1 .. k
    BY DEF Kept, Numbered
  <2>2. D \subseteq 1 .. (IF i <= k THEN k ELSE i)
    BY <2>1
  <2>. QED BY <2>1, <2>2 DEF Numbered
<1>7. ASSUME NEW j \in DOMAIN s.rows, j # i
      PROVE  /\ Fold[s.rows[j].name] # Fold[n]
             /\ m = None \/ s.rows[j].mbid # m
  BY SMTT(30), <1>7 DEF People!Admits, People!Named, People!WithMbid, People!Ids
<1>8. ASSUME NEW j \in D, NEW k \in D, j # k
      PROVE  /\ Fold[rows[j].name] # Fold[rows[k].name]
             /\ rows[j].mbid = None \/ rows[j].mbid # rows[k].mbid
  <2>1. CASE j # i /\ k # i
    BY SMTT(30), <1>3, <1>8, <2>1 DEF Kept
  <2>2. CASE j = i
    <3>1. k # i /\ k \in DOMAIN s.rows
      BY <1>8, <2>2
    <3>. QED BY <1>3, <1>7, <2>2, <3>1
  <2>3. CASE k = i
    <3>1. j # i /\ j \in DOMAIN s.rows
      BY <1>8, <2>3
    <3>2. rows[k].mbid = m /\ rows[j].mbid = s.rows[j].mbid
      BY <1>3, <2>3, <3>1
    <3>. QED BY <1>3, <1>7, <2>3, <3>1, <3>2
  <2>. QED BY SMTT(30), <2>1, <2>2, <2>3
<1> HIDE DEF rows, index, D
<1>9. Kept(t)
  <2>1. s.credits \in [TrackIds -> SUBSET Nat] /\ s.album \in [AlbumIds -> Nat]
    BY DEF Kept
  <2>2. t.rows = rows /\ t.index = index /\ t.credits = s.credits /\ t.album = s.album
    BY <1>2
  <2> HIDE DEF t
  <2>. QED BY <1>2, <1>3, <1>4, <1>5, <1>6, <1>8, <2>1, <2>2 DEF Kept
<1>. QED BY <1>2, <1>3, <1>9 DEF Grown, D, Altered

LEMMA OwnerOfPut ==
  ASSUME NEW s, Kept(s), NEW i \in Nat \ {0}, NEW n \in Spellings, NEW m \in Mbids,
         People!Admits(s, i, n, m)
  PROVE  People!WithMbid(People!Put(s, i, n, m), m) = {i}
<1> DEFINE t == People!Put(s, i, n, m)
<1>1. m \in Owners /\ m # None
  BY NamesAssumption DEF Owners
<1>2. /\ DOMAIN t.rows = DOMAIN s.rows \cup {i} /\ t.rows[i].mbid = m
      /\ \A j \in DOMAIN s.rows \ {i} : t.rows[j] = s.rows[j]
  <2>1. Altered(s, t, i, [name |-> n, mbid |-> m])
    BY <1>1, PutKept
  <2> HIDE DEF t
  <2>. QED BY <2>1 DEF Altered
<1>3. \A j \in DOMAIN s.rows \ {i} : s.rows[j].mbid # m
  BY <1>1 DEF People!Admits, People!WithMbid, People!Ids
<1> HIDE DEF t
<1>4. \A j \in DOMAIN t.rows : t.rows[j].mbid = m <=> j = i
  BY <1>2, <1>3
<1>5. People!WithMbid(t, m) = {i}
  BY <1>2, <1>4 DEF People!WithMbid, People!Ids
<1>. QED BY <1>5 DEF t

-----------------------------------------------------------------------------
(* Looking up an artist, or making a row *)

Got(s, r) ==
    /\ r = [s |-> r.s, id |-> r.id] /\ Grown(s, r.s)
    /\ r.id \in Nat /\ r.id \in DOMAIN r.s.rows \cup {0}

LEMMA FoundGot ==
  ASSUME NEW s, Kept(s), NEW i \in DOMAIN s.rows
  PROVE  Got(s, [s |-> s, id |-> i])
<1>1. i \in Nat
  BY RowKept
<1>2. Grown(s, s)
  BY GrownSame
<1>. QED BY <1>1, <1>2 DEF Got

LEMMA PutGot ==
  ASSUME NEW s, Kept(s), NEW i \in Nat \ {0}, NEW n \in Spellings, NEW m \in Owners,
         People!Admits(s, i, n, m)
  PROVE  Got(s, [s |-> People!Put(s, i, n, m), id |-> i])
<1> DEFINE t == People!Put(s, i, n, m)
<1>1. Grown(s, t) /\ i \in DOMAIN t.rows
  <2>1. Altered(s, t, i, [name |-> n, mbid |-> m])
    BY PutKept
  <2> HIDE DEF t
  <2>. QED BY <2>1 DEF Altered
<1> HIDE DEF t
<1>2. Got(s, [s |-> t, id |-> i])
  BY <1>1 DEF Got
<1>. QED BY <1>2 DEF t

FreeId(s) == People!Max(People!Ids(s) \cup {0}) + 1

LEMMA IdIsFree ==
  ASSUME NEW s, Kept(s)
  PROVE  FreeId(s) \in Nat \ {0} /\ FreeId(s) \notin DOMAIN s.rows
<1> DEFINE top == People!Max(DOMAIN s.rows \cup {0})
<1>1. top \in Nat /\ \A j \in DOMAIN s.rows : j <= top
  BY LastId DEF Kept
<1>2. FreeId(s) = top + 1
  BY DEF FreeId, People!Ids
<1> HIDE DEF top
<1>3. ASSUME top + 1 \in DOMAIN s.rows PROVE FALSE
  BY <1>1, <1>3
<1>. QED BY <1>1, <1>2, <1>3

LEMMA Inserted ==
  ASSUME NEW s, Kept(s), NEW n \in Spellings, NEW m \in Owners
  PROVE  LET r == People!Insert(s, n, m) IN
         \/ r = [s |-> s, id |-> 0]
         \/ /\ r = [s |-> People!Put(s, FreeId(s), n, m), id |-> FreeId(s)]
            /\ People!Admits(s, FreeId(s), n, m)
BY DEF People!Insert, FreeId

LEMMA InsertGot ==
  ASSUME NEW s, Kept(s), NEW n \in Spellings, NEW m \in Owners
  PROVE  Got(s, People!Insert(s, n, m))
<1> DEFINE r == People!Insert(s, n, m)
<1>1. CASE r = [s |-> s, id |-> 0]
  <2>1. Grown(s, s)
    BY GrownSame
  <2>2. Got(s, [s |-> s, id |-> 0])
    BY <2>1 DEF Got
  <2>. QED BY <1>1, <2>2
<1>2. CASE /\ r = [s |-> People!Put(s, FreeId(s), n, m), id |-> FreeId(s)]
           /\ People!Admits(s, FreeId(s), n, m)
  <2>1. FreeId(s) \in Nat \ {0}
    BY IdIsFree
  <2>2. Got(s, [s |-> People!Put(s, FreeId(s), n, m), id |-> FreeId(s)])
    BY <1>2, <2>1, PutGot
  <2>. QED BY <1>2, <2>2
<1>. QED BY <1>1, <1>2, Inserted

LEMMA FirstOf ==
  ASSUME NEW s, Kept(s), NEW ids, ids \subseteq DOMAIN s.rows, ids # {}
  PROVE  People!FirstId(ids) \in ids /\ People!FirstId(ids) \in DOMAIN s.rows
<1>1. Numbered(ids)
  BY DEF Kept, Numbered
<1>. QED BY <1>1, FirstIdIn

LEMMA PlainGot ==
  ASSUME NEW s, Kept(s), NEW n \in Spellings
  PROVE  Got(s, People!Plain(s, n))
<1> DEFINE named == People!Named(s, n)
<1>1. named \subseteq DOMAIN s.rows /\ None \in Owners
  BY DEF People!Named, People!Ids, Owners
<1>2. CASE named # {}
  <2>1. People!FirstId(named) \in DOMAIN s.rows
    <3> HIDE DEF named
    <3>. QED BY <1>1, <1>2, FirstOf
  <2>2. Got(s, [s |-> s, id |-> People!FirstId(named)])
    BY <2>1, FoundGot
  <2>. QED BY <1>2, <2>2 DEF People!Plain
<1>3. CASE named = {}
  <2>1. Got(s, People!Insert(s, n, None))
    BY <1>1, InsertGot
  <2>. QED BY <1>3, <2>1 DEF People!Plain
<1>. QED BY <1>2, <1>3

\* Which rows have the id; in SQL nothing equals NULL.
OwnerOf(s, m) == IF m = None THEN {} ELSE People!WithMbid(s, m)

\* The four ways an artist is answered: the row that has the id; a row that gets the name and the
\* id; a row that stays as it is because the table does not admit the change; a new row or none.
Answers(s, n, m, r) ==
    \/ OwnerOf(s, m) # {} /\ r = [s |-> s, id |-> People!FirstId(OwnerOf(s, m))]
    \/ /\ OwnerOf(s, m) = {}
       /\ \E i \in DOMAIN s.rows :
             /\ s.rows[i].mbid = None \/ m = None
             /\ Normal[s.rows[i].name] = Normal[n]
             /\ r.id = i
             /\ \/ r = [s |-> s, id |-> i]
                \/ People!Admits(s, i, n, m) /\ r = [s |-> People!Put(s, i, n, m), id |-> i]
    \/ OwnerOf(s, m) = {} /\ r = People!Insert(s, n, m)

\* Merging finds nobody to merge with: no row has the id when it is tried.
LEMMA MergesNobody ==
  ASSUME NEW s, NEW i, NEW n, NEW m, OwnerOf(s, m) = {}
  PROVE  People!Merge(s, i, n, m) = [s |-> s, id |-> i]
<1>1. People!Named(s, n) \cap (IF m = None THEN {} ELSE People!WithMbid(s, m)) = {}
  BY DEF OwnerOf
<1>2. People!FirstId({}) = 0
  BY DEF People!FirstId
<1>. QED BY <1>1, <1>2 DEF People!Merge

LEMMA IsAnswered ==
  ASSUME NEW s, Kept(s), NEW n \in Spellings, NEW m \in Owners
  PROVE  Answers(s, n, m, People!GetOrCreate(s, n, m))
<1> DEFINE owner == OwnerOf(s, m)
           claimable == People!Claimable(s, n, m)
           similar == People!Similar(s, n)
           r == People!GetOrCreate(s, n, m)
           c == People!FirstId(claimable)
           k == People!FirstId(similar)
<1>1. CASE owner # {}
  BY <1>1 DEF People!GetOrCreate, Answers, OwnerOf
<1>2. CASE owner = {} /\ claimable # {}
  <2>1. claimable \subseteq DOMAIN s.rows
    BY DEF People!Claimable, People!Named, People!Ids
  <2>2. c \in claimable /\ c \in DOMAIN s.rows
    <3> HIDE DEF claimable
    <3>. QED BY <1>2, <2>1, FirstOf
  <2>3. Fold[s.rows[c].name] = Fold[n] /\ s.rows[c].mbid \in {None, m}
    <3> HIDE DEF c
    <3>. QED BY <2>2 DEF People!Claimable, People!Named
  <2>4. Normal[s.rows[c].name] = Normal[n]
    BY SMTT(30), <2>2, <2>3, RowKept, NamesAssumption
  <2>5. s.rows[c].mbid = None \/ m = None
    <3>1. m # None => c \notin People!WithMbid(s, m)
      BY <1>2 DEF OwnerOf
    <3> HIDE DEF c
    <3>. QED BY <2>2, <2>3, <3>1 DEF People!WithMbid, People!Ids
  <2>6. r = [s |-> People!Renamed(s, c, n, m), id |-> c]
    BY <1>2 DEF People!GetOrCreate, OwnerOf
  <2> HIDE DEF c, r, owner
  <2>7. \/ r = [s |-> s, id |-> c]
        \/ People!Admits(s, c, n, m) /\ r = [s |-> People!Put(s, c, n, m), id |-> c]
    BY <2>6 DEF People!Renamed
  <2>8. r.id = c
    BY <2>6
  <2>. QED BY <1>2, <2>2, <2>4, <2>5, <2>7, <2>8 DEF Answers, owner, r
<1>3. CASE owner = {} /\ claimable = {} /\ similar # {}
  <2>1. similar \subseteq DOMAIN s.rows
    BY DEF People!Similar, People!WithMbid, People!Ids
  <2>2. k \in similar /\ k \in DOMAIN s.rows
    <3> HIDE DEF similar
    <3>. QED BY <1>3, <2>1, FirstOf
  <2>3. Normal[s.rows[k].name] = Normal[n] /\ s.rows[k].mbid = None
    <3> HIDE DEF k
    <3>. QED BY <2>2 DEF People!Similar, People!WithMbid
  <2>4. r = People!RenameOrMerge(s, k, n, m)
    BY <1>3 DEF People!GetOrCreate, OwnerOf
  <2> HIDE DEF k, r
  <2>5. \/ r = [s |-> s, id |-> k]
        \/ People!Admits(s, k, n, m) /\ r = [s |-> People!Put(s, k, n, m), id |-> k]
    BY <1>3, <2>4, MergesNobody DEF People!RenameOrMerge
  <2> HIDE DEF owner
  <2>6. r.id = k
    BY <2>5
  <2>. QED BY <1>3, <2>2, <2>3, <2>5, <2>6 DEF Answers, owner, r
<1>4. CASE owner = {} /\ claimable = {} /\ similar = {}
  <2>1. r = People!Insert(s, n, m)
    BY <1>4 DEF People!GetOrCreate, OwnerOf
  <2>. QED BY <1>4, <2>1 DEF Answers
<1>. QED BY <1>1, <1>2, <1>3, <1>4

LEMMA GetOrCreateGot ==
  ASSUME NEW s, Kept(s), NEW n \in Spellings, NEW m \in Owners
  PROVE  Got(s, People!GetOrCreate(s, n, m))
<1> DEFINE r == People!GetOrCreate(s, n, m)
           owner == OwnerOf(s, m)
<1>1. Answers(s, n, m, r)
  BY IsAnswered
<1> HIDE DEF r
<1>2. CASE owner # {} /\ r = [s |-> s, id |-> People!FirstId(owner)]
  <2>1. owner \subseteq DOMAIN s.rows
    BY DEF OwnerOf, People!WithMbid, People!Ids
  <2>2. People!FirstId(owner) \in DOMAIN s.rows
    <3> HIDE DEF owner
    <3>. QED BY <1>2, <2>1, FirstOf
  <2>. QED BY <1>2, <2>2, FoundGot DEF r
<1>3. ASSUME NEW i \in DOMAIN s.rows,
             \/ r = [s |-> s, id |-> i]
             \/ People!Admits(s, i, n, m) /\ r = [s |-> People!Put(s, i, n, m), id |-> i]
      PROVE  Got(s, r)
  <2>1. i \in Nat \ {0}
    BY RowKept
  <2>2. Got(s, [s |-> s, id |-> i])
    BY FoundGot
  <2>3. People!Admits(s, i, n, m) => Got(s, [s |-> People!Put(s, i, n, m), id |-> i])
    BY <2>1, PutGot
  <2>. QED BY <1>3, <2>2, <2>3
<1>4. CASE r = People!Insert(s, n, m)
  <2>1. Got(s, People!Insert(s, n, m))
    BY SMTT(30), InsertGot
  <2>. QED BY <1>4, <2>1 DEF r
<1>. QED BY <1>1, <1>2, <1>3, <1>4 DEF Answers, r

\* Whoever asks for an artist of MusicBrainz is answered by a row of that artist or of nobody yet,
\* and again by the same.
LEMMA AnswersFitKept ==
  ASSUME NEW s, Kept(s), NEW n \in Spellings, NEW m \in Mbids
  PROVE  LET r == People!GetOrCreate(s, n, m) IN
         r.id > 0 =>
            /\ \/ r.s.rows[r.id].mbid = m
               \/ r.s.rows[r.id].mbid = None /\ Normal[r.s.rows[r.id].name] = Normal[n]
            /\ People!GetOrCreate(r.s, n, m) = r
<1> DEFINE r == People!GetOrCreate(s, n, m)
           owner == OwnerOf(s, m)
<1>1. Answers(s, n, m, r) /\ m # None /\ m \in Owners
  BY IsAnswered, NamesAssumption DEF Owners
<1>2. ASSUME r.s = s PROVE People!GetOrCreate(r.s, n, m) = r
  BY <1>2
<1>3. ASSUME NEW i \in Nat \ {0}, People!Admits(s, i, n, m),
             r = [s |-> People!Put(s, i, n, m), id |-> i]
      PROVE  r.s.rows[r.id].mbid = m /\ People!GetOrCreate(r.s, n, m) = r
  <2> DEFINE t == People!Put(s, i, n, m)
  <2>1. t.rows[i].mbid = m /\ People!WithMbid(t, m) = {i}
    <3>1. Altered(s, t, i, [name |-> n, mbid |-> m])
      BY <1>1, <1>3, PutKept
    <3>2. People!WithMbid(t, m) = {i}
      BY <1>1, <1>3, OwnerOfPut
    <3> HIDE DEF t
    <3>. QED BY <3>1, <3>2 DEF Altered
  <2>2. People!FirstId({i}) = i
    <3>1. Numbered({i})
      <4>1. {i} \subseteq 1 .. i
        OBVIOUS
      <4>. QED BY <4>1 DEF Numbered
    <3>. QED BY <3>1, FirstIdIn
  <2> HIDE DEF t
  <2>3. People!GetOrCreate(t, n, m) = [s |-> t, id |-> i]
    BY <1>1, <2>1, <2>2 DEF People!GetOrCreate
  <2> HIDE DEF r
  <2>. QED BY <1>3, <2>1, <2>3 DEF t
<1> HIDE DEF r
<1>4. CASE owner # {} /\ r = [s |-> s, id |-> People!FirstId(owner)]
  <2>1. owner = {j \in DOMAIN s.rows : s.rows[j].mbid = m}
    BY <1>1 DEF OwnerOf, People!WithMbid, People!Ids
  <2>2. People!FirstId(owner) \in owner
    <3> HIDE DEF owner
    <3>. QED BY <1>4, <2>1, FirstOf
  <2> HIDE DEF owner
  <2>3. r.s = s /\ r.s.rows[r.id].mbid = m
    BY SMTT(30), <1>4, <2>1, <2>2
  <2>. QED BY <1>2, <2>3 DEF r
<1>5. ASSUME NEW i \in DOMAIN s.rows, s.rows[i].mbid = None, Normal[s.rows[i].name] = Normal[n],
             \/ r = [s |-> s, id |-> i]
             \/ People!Admits(s, i, n, m) /\ r = [s |-> People!Put(s, i, n, m), id |-> i]
      PROVE  /\ \/ r.s.rows[r.id].mbid = m
                \/ r.s.rows[r.id].mbid = None /\ Normal[r.s.rows[r.id].name] = Normal[n]
             /\ People!GetOrCreate(r.s, n, m) = r
  <2>1. i \in Nat \ {0}
    BY RowKept
  <2>2. CASE r = [s |-> s, id |-> i]
    BY <1>2, <1>5, <2>2 DEF r
  <2>3. CASE People!Admits(s, i, n, m) /\ r = [s |-> People!Put(s, i, n, m), id |-> i]
    BY SMTT(30), <1>3, <2>1, <2>3 DEF r
  <2>. QED BY <1>5, <2>2, <2>3
<1>6. CASE r = People!Insert(s, n, m)
  <2>1. FreeId(s) \in Nat \ {0}
    BY IdIsFree
  <2>2. CASE r = [s |-> s, id |-> 0]
    <3>1. ~(r.id > 0)
      BY <2>2
    <3>. QED BY <3>1 DEF r
  <2>3. CASE /\ r = [s |-> People!Put(s, FreeId(s), n, m), id |-> FreeId(s)]
             /\ People!Admits(s, FreeId(s), n, m)
    <3>1. r.s.rows[r.id].mbid = m /\ People!GetOrCreate(r.s, n, m) = r
      BY SMTT(30), <1>3, <2>1, <2>3 DEF r
    <3>. QED BY <3>1 DEF r
  <2>. QED BY <1>1, <1>6, <2>2, <2>3, Inserted
<1>7. \/ owner # {} /\ r = [s |-> s, id |-> People!FirstId(owner)]
      \/ \E i \in DOMAIN s.rows :
            /\ s.rows[i].mbid = None /\ Normal[s.rows[i].name] = Normal[n]
            /\ \/ r = [s |-> s, id |-> i]
               \/ People!Admits(s, i, n, m) /\ r = [s |-> People!Put(s, i, n, m), id |-> i]
      \/ r = People!Insert(s, n, m)
  BY <1>1 DEF Answers, r
<1>. QED BY <1>4, <1>5, <1>6, <1>7 DEF r

-----------------------------------------------------------------------------
(* Credits, one after the other *)

LEMMA CacheGrows ==
  ASSUME NEW c, NEW s, NEW t, CacheIn(c, s), Grown(s, t)
  PROVE  CacheIn(c, t)
BY DEF CacheIn, Grown

LEMMA CacheEntered ==
  ASSUME NEW c, NEW s, CacheIn(c, s), NEW f, NEW i \in DOMAIN s.rows
  PROVE  CacheIn(People!Entered(c, f, i), s)
BY DEF CacheIn, People!Entered

LookedUp(s, r) ==
    /\ Grown(s, r.s) /\ CacheIn(r.c, r.s)
    /\ r.id \in Nat /\ r.id \in DOMAIN r.s.rows \cup {0}

\* What is found or made is remembered, what the cache answers is known.
LEMMA Remembered ==
  ASSUME NEW s, NEW c, CacheIn(c, s), NEW r, Got(s, r), NEW f
  PROVE  /\ LookedUp(s, [s |-> r.s, id |-> r.id,
                         c |-> IF r.id > 0 THEN People!Entered(c, f, r.id) ELSE c])
         /\ LookedUp(s, [s |-> r.s, c |-> c, id |-> r.id])
<1>1. CacheIn(c, r.s)
  BY CacheGrows DEF Got
<1>2. r.id > 0 => r.id \in DOMAIN r.s.rows
  BY DEF Got
<1>3. r.id > 0 => CacheIn(People!Entered(c, f, r.id), r.s)
  BY <1>1, <1>2, CacheEntered
<1>. QED BY <1>1, <1>3 DEF Got, LookedUp

LEMMA Answered ==
  ASSUME NEW s, Kept(s), NEW c, CacheIn(c, s), NEW f \in DOMAIN c
  PROVE  LookedUp(s, [s |-> s, c |-> c, id |-> c[f]])
<1>1. c[f] \in DOMAIN s.rows /\ c[f] \in Nat
  BY RowKept DEF CacheIn
<1>2. Grown(s, s)
  BY GrownSame
<1>. QED BY <1>1, <1>2 DEF LookedUp

LEMMA CachedLookup ==
  ASSUME NEW s, Kept(s), NEW c, CacheIn(c, s), NEW n \in Spellings
  PROVE  LookedUp(s, People!Cached(s, c, n))
<1>1. CASE Fold[n] \in DOMAIN c
  <2>1. People!Cached(s, c, n) = [s |-> s, c |-> c, id |-> c[Fold[n]]]
    BY <1>1 DEF People!Cached
  <2>2. LookedUp(s, [s |-> s, c |-> c, id |-> c[Fold[n]]])
    BY <1>1, Answered
  <2>. QED BY <2>1, <2>2
<1>2. CASE Fold[n] \notin DOMAIN c
  <2> DEFINE r == People!Plain(s, n)
             u == [s |-> r.s, id |-> r.id,
                   c |-> IF r.id > 0 THEN People!Entered(c, Fold[n], r.id) ELSE c]
  <2>1. People!Cached(s, c, n) = u
    BY <1>2 DEF People!Cached
  <2>2. Got(s, r)
    BY PlainGot
  <2>3. LookedUp(s, u)
    <3> HIDE DEF r
    <3>. QED BY <2>2, Remembered
  <2>. QED BY <2>1, <2>3
<1>. QED BY <1>1, <1>2

LEMMA TaggedLookup ==
  ASSUME NEW s, Kept(s), NEW c, CacheIn(c, s), NEW credit \in RowSet
  PROVE  LookedUp(s, People!Tagged(s, c, credit))
<1>1. credit.name \in Spellings /\ credit.mbid \in Owners
  BY DEF RowSet
<1>2. CASE credit.mbid = None
  <2>1. LookedUp(s, People!Cached(s, c, credit.name))
    BY <1>1, CachedLookup
  <2>. QED BY <1>2, <2>1 DEF People!Tagged
<1>3. CASE credit.mbid # None
  <2> DEFINE r == People!GetOrCreate(s, credit.name, credit.mbid)
  <2>1. People!Tagged(s, c, credit) = [s |-> r.s, c |-> c, id |-> r.id]
    BY <1>3 DEF People!Tagged
  <2>2. Got(s, r)
    BY <1>1, GetOrCreateGot
  <2>3. LookedUp(s, [s |-> r.s, c |-> c, id |-> r.id])
    <3> HIDE DEF r
    <3>. QED BY <2>2, Remembered
  <2>. QED BY <2>1, <2>3
<1>. QED BY <1>2, <1>3

LEMMA ReleasedLookup ==
  ASSUME NEW s, Kept(s), NEW c, CacheIn(c, s), NEW credit \in RowSet
  PROVE  LookedUp(s, People!Released(s, c, credit))
<1>1. credit.name \in Spellings /\ credit.mbid \in Owners
  BY DEF RowSet
<1>2. CASE credit.mbid \in DOMAIN c
  <2>1. People!Released(s, c, credit) = [s |-> s, c |-> c, id |-> c[credit.mbid]]
    BY <1>2 DEF People!Released
  <2>2. LookedUp(s, [s |-> s, c |-> c, id |-> c[credit.mbid]])
    BY <1>2, Answered
  <2>. QED BY <2>1, <2>2
<1>3. CASE credit.mbid \notin DOMAIN c
  <2> DEFINE r == People!GetOrCreate(s, credit.name, credit.mbid)
             u == [s |-> r.s, id |-> r.id,
                   c |-> IF r.id > 0 THEN People!Entered(c, credit.mbid, r.id) ELSE c]
  <2>1. People!Released(s, c, credit) = u
    BY <1>3 DEF People!Released
  <2>2. Got(s, r)
    BY <1>1, GetOrCreateGot
  <2>3. LookedUp(s, u)
    <3> HIDE DEF r
    <3>. QED BY <2>2, Remembered
  <2>. QED BY <2>1, <2>3
<1>. QED BY <1>2, <1>3

\* What Credited keeps after some of the credits, and its step.
SoFar(s, acc) ==
    /\ Grown(s, acc.s) /\ CacheIn(acc.c, acc.s)
    /\ acc.ids \subseteq DOMAIN acc.s.rows
CreditOne(acc, credit, released) ==
    LET r == IF released THEN People!Released(acc.s, acc.c, credit)
                         ELSE People!Tagged(acc.s, acc.c, credit)
    IN [s |-> r.s, c |-> r.c, ids |-> acc.ids \cup ({r.id} \ {0})]

LEMMA OneMore ==
  ASSUME NEW s, NEW acc, SoFar(s, acc), NEW credit \in RowSet, NEW released \in BOOLEAN
  PROVE  SoFar(s, CreditOne(acc, credit, released))
<1> DEFINE r == IF released THEN People!Released(acc.s, acc.c, credit)
                            ELSE People!Tagged(acc.s, acc.c, credit)
           u == [s |-> r.s, c |-> r.c, ids |-> acc.ids \cup ({r.id} \ {0})]
<1>1. Kept(acc.s) /\ CacheIn(acc.c, acc.s)
  BY DEF SoFar, Grown
<1>2. LookedUp(acc.s, r)
  <2>1. LookedUp(acc.s, People!Released(acc.s, acc.c, credit))
    BY <1>1, ReleasedLookup
  <2>2. LookedUp(acc.s, People!Tagged(acc.s, acc.c, credit))
    BY <1>1, TaggedLookup
  <2>. QED BY <2>1, <2>2
<1>3. CreditOne(acc, credit, released) = u
  BY DEF CreditOne
<1> HIDE DEF r
<1>4. Grown(s, r.s)
  BY <1>2, GrownOn DEF SoFar, LookedUp
<1>5. acc.ids \cup ({r.id} \ {0}) \subseteq DOMAIN r.s.rows
  BY <1>2 DEF SoFar, LookedUp, Grown
<1>6. SoFar(s, u)
  BY <1>2, <1>4, <1>5 DEF SoFar, LookedUp
<1>. QED BY <1>3, <1>6

\* Of a set of subsets of a finite set one has none of the others in it.
HasSmallest(F) == \E T \in F : \A U \in F : U \subseteq T => U = T

LEMMA SmallestOf ==
  ASSUME NEW n \in Nat, NEW S, S \subseteq 1 .. n, NEW F, F \subseteq SUBSET S, F # {}
  PROVE  HasSmallest(F)
<1>1. IsFiniteSet(S)
  <2>1. 1 \in Int /\ n \in Int
    OBVIOUS
  <2>2. IsFiniteSet(1 .. n)
    BY <2>1, FS_Interval
  <2>. QED BY <2>2, FS_Subset
<1>2. IsWellFoundedOn(StrictSubsetOrdering(S), SUBSET S)
  BY <1>1, FS_StrictSubsetOrderingWellFounded, FS_FiniteSubsetsOfFinite
<1>3. PICK T \in F : \A U \in F : <<U, T>> \notin StrictSubsetOrdering(S)
  BY <1>2, WFMin
<1>. QED BY <1>3 DEF StrictSubsetOrdering, HasSmallest

\* The recursion behind FoldLeft, and a function that obeys it on the subsets of S.
Run(list, released, base, g, u) ==
    IF u = {} THEN base
    ELSE CreditOne(g[u \ {People!Max(u)}], list[People!Max(u)], released)
Runs(list, released, base, g, S) == g = [u \in SUBSET S |-> Run(list, released, base, g, u)]

LEMMA LastIn ==
  ASSUME NEW n \in Nat, NEW u, u \subseteq 1 .. n, u # {}
  PROVE  People!Max(u) \in u
BY GreatestId DEF Numbered

LEMMA RunsAgree ==
  ASSUME NEW n \in Nat, NEW list, NEW released, NEW base,
         NEW S \in SUBSET (1 .. n), NEW T \in SUBSET (1 .. n),
         NEW g, Runs(list, released, base, g, S), NEW h, Runs(list, released, base, h, T),
         NEW u \in SUBSET S, u \in SUBSET T
  PROVE  g[u] = h[u]
<1> DEFINE Differ == {w \in SUBSET u : g[w] # h[w]}
<1>1. SUFFICES ASSUME Differ # {} PROVE FALSE
  OBVIOUS
<1>2. PICK w \in Differ : \A v \in Differ : v \subseteq w => v = w
  <2>1. u \subseteq 1 .. n /\ Differ \subseteq SUBSET u
    OBVIOUS
  <2>2. HasSmallest(Differ)
    <3> HIDE DEF Differ
    <3>. QED BY <1>1, <2>1, SmallestOf
  <2>. QED BY <2>2 DEF HasSmallest
<1>3. /\ g[w] = Run(list, released, base, g, w) /\ h[w] = Run(list, released, base, h, w)
      /\ w \in SUBSET u
  BY <1>2 DEF Runs
<1>4. CASE w = {}
  BY SMTT(30), <1>2, <1>3, <1>4 DEF Run
<1>5. CASE w # {}
  <2>1. People!Max(w) \in w
    BY <1>3, <1>5, LastIn
  <2>2. w \ {People!Max(w)} \in SUBSET u /\ w \ {People!Max(w)} \subseteq w /\ w \ {People!Max(w)} # w
    BY <1>3, <2>1
  <2>3. g[w \ {People!Max(w)}] = h[w \ {People!Max(w)}]
    BY <1>2, <2>2
  <2>. QED BY SMTT(30), <1>2, <1>3, <1>5, <2>3 DEF Run
<1>. QED BY <1>4, <1>5

LEMMA RunsExist ==
  ASSUME NEW n \in Nat, NEW list, NEW released, NEW base
  PROVE  \E g : Runs(list, released, base, g, 1 .. n)
<1> DEFINE Lacking == {T \in SUBSET (1 .. n) : ~\E g : Runs(list, released, base, g, T)}
<1>1. SUFFICES ASSUME Lacking # {} PROVE FALSE
  BY DEF Lacking
<1>2. PICK T \in Lacking : \A U \in Lacking : U \subseteq T => U = T
  <2>1. Lacking \subseteq SUBSET (1 .. n) /\ 1 .. n \subseteq 1 .. n
    OBVIOUS
  <2>2. HasSmallest(Lacking)
    <3> HIDE DEF Lacking
    <3>. QED BY <1>1, <2>1, SmallestOf
  <2>. QED BY <2>2 DEF HasSmallest
<1>3. T \in SUBSET (1 .. n) /\ ~\E g : Runs(list, released, base, g, T)
  BY <1>2
<1> DEFINE On(u) == CHOOSE g : Runs(list, released, base, g, u)
           Less(u) == u \ {People!Max(u)}
           Value(u) == IF u = {} THEN base
                       ELSE CreditOne(On(Less(u))[Less(u)], list[People!Max(u)], released)
           g == [u \in SUBSET T |-> Value(u)]
<1>4. ASSUME NEW u \in SUBSET T, u # T
      PROVE  Runs(list, released, base, On(u), u)
  <2>1. \E h : Runs(list, released, base, h, u)
    BY <1>2, <1>3, <1>4
  <2>. QED BY <2>1
<1>5. ASSUME NEW u \in SUBSET T, u # {}
      PROVE  g[Less(u)] = On(Less(u))[Less(u)]
  <2> DEFINE r == Less(u)
  <2>1. r \in SUBSET T /\ r # T /\ r \in SUBSET (1 .. n)
    BY <1>3, <1>5, LastIn
  <2>2. Runs(list, released, base, On(r), r)
    BY <1>4, <2>1
  <2> HIDE DEF r
  <2>3. On(r)[r] = Run(list, released, base, On(r), r)
    BY <2>2 DEF Runs
  <2>4. CASE r = {}
    BY <2>1, <2>3, <2>4 DEF Run, r
  <2>5. CASE r # {}
    <3> DEFINE q == Less(r)
    <3>1. q \in SUBSET r /\ q \in SUBSET T /\ q # T /\ q \in SUBSET (1 .. n)
      BY <2>1, <2>5, LastIn
    <3>2. Runs(list, released, base, On(q), q)
      BY <1>4, <3>1
    <3>3. q \in SUBSET q
      OBVIOUS
    <3>4. PICK v, w : v = On(r) /\ w = On(q)
      OBVIOUS
    <3> HIDE DEF q, On
    <3>5. Runs(list, released, base, v, r) /\ Runs(list, released, base, w, q)
      BY <2>2, <3>2, <3>4
    <3>6. v[q] = w[q]
      <4>1. r \in SUBSET (1 .. n) /\ q \in SUBSET (1 .. n) /\ q \in SUBSET r
        BY <2>1, <3>1
      <4> HIDE DEF g
      <4>. QED BY <3>3, <3>5, <4>1, RunsAgree
    <3>7. Run(list, released, base, v, r) = CreditOne(v[q], list[People!Max(r)], released)
      BY <2>5 DEF Run, q
    <3>8. g[r] = CreditOne(w[q], list[People!Max(r)], released)
      BY <2>1, <2>5, <3>4 DEF q
    <3> HIDE DEF g
    <3>. QED BY <2>3, <3>4, <3>6, <3>7, <3>8 DEF r
  <2>. QED BY <2>4, <2>5 DEF r
<1>6. ASSUME NEW u \in SUBSET T PROVE g[u] = Run(list, released, base, g, u)
  <2>1. g[u] = Value(u)
    OBVIOUS
  <2>2. CASE u = {}
    BY <2>1, <2>2 DEF Run
  <2>3. CASE u # {}
    <3>1. g[Less(u)] = On(Less(u))[Less(u)]
      BY <1>5, <2>3
    <3>2. g[u] = CreditOne(On(Less(u))[Less(u)], list[People!Max(u)], released)
      BY <2>1, <2>3
    <3> HIDE DEF g, On
    <3>. QED BY SMTT(30), <2>3, <3>1, <3>2 DEF Run
  <2>. QED BY <2>2, <2>3
<1>7. Runs(list, released, base, g, T)
  <2> HIDE DEF g
  <2>1. g = [u \in SUBSET T |-> g[u]]
    BY DEF g
  <2>. QED BY <1>6, <2>1 DEF Runs
<1>. QED BY <1>3, <1>7

LEMMA RunsStay ==
  ASSUME NEW n \in Nat, NEW list, \A k \in 1 .. n : list[k] \in RowSet, NEW released \in BOOLEAN,
         NEW s, NEW base, SoFar(s, base), NEW g, Runs(list, released, base, g, 1 .. n)
  PROVE  SoFar(s, g[1 .. n])
<1> DEFINE Outside == {u \in SUBSET (1 .. n) : ~SoFar(s, g[u])}
<1>1. SUFFICES ASSUME Outside # {} PROVE FALSE
  OBVIOUS
<1>2. PICK u \in Outside : \A w \in Outside : w \subseteq u => w = u
  <2>1. Outside \subseteq SUBSET (1 .. n) /\ 1 .. n \subseteq 1 .. n
    OBVIOUS
  <2>2. HasSmallest(Outside)
    <3> HIDE DEF Outside
    <3>. QED BY <1>1, <2>1, SmallestOf
  <2>. QED BY <2>2 DEF HasSmallest
<1>3. g[u] = Run(list, released, base, g, u) /\ u \in SUBSET (1 .. n) /\ ~SoFar(s, g[u])
  BY <1>2 DEF Runs
<1>4. u # {}
  BY <1>3 DEF Run
<1> DEFINE k == People!Max(u)  r == u \ {k}
<1>5. k \in u /\ k \in 1 .. n
  BY <1>3, <1>4, LastIn
<1>6. r \in SUBSET (1 .. n) /\ r \subseteq u /\ r # u
  BY <1>3, <1>5
<1>7. SoFar(s, g[r])
  <2> HIDE DEF k, r
  <2>. QED BY <1>2, <1>6
<1>8. g[u] = CreditOne(g[r], list[k], released)
  BY <1>3, <1>4 DEF Run
<1> HIDE DEF k, r
<1>. QED BY <1>3, <1>5, <1>7, <1>8, OneMore

LEMMA CreditedIsRun ==
  ASSUME NEW s, NEW c, NEW list, NEW released
  PROVE  LET base == [s |-> s, c |-> c, ids |-> {}] IN
         People!Credited(s, c, list, released)
            = (CHOOSE g : Runs(list, released, base, g, DOMAIN list))[DOMAIN list]
BY DEF People!Credited, People!FoldLeft, People!MapThenFoldSet, Runs, Run, CreditOne

LEMMA CreditedKept ==
  ASSUME NEW s, Kept(s), NEW c, CacheIn(c, s), NEW n \in Nat, NEW list \in [1 .. n -> RowSet],
         NEW released \in BOOLEAN
  PROVE  SoFar(s, People!Credited(s, c, list, released))
<1> DEFINE base == [s |-> s, c |-> c, ids |-> {}]
           g == CHOOSE h : Runs(list, released, base, h, 1 .. n)
<1>1. SoFar(s, base)
  BY GrownSame DEF SoFar
<1>2. DOMAIN list = 1 .. n /\ \A k \in 1 .. n : list[k] \in RowSet
  OBVIOUS
<1>3. People!Credited(s, c, list, released) = g[1 .. n]
  BY <1>2, CreditedIsRun
<1> HIDE DEF base
<1>4. Runs(list, released, base, g, 1 .. n)
  <2>1. \E h : Runs(list, released, base, h, 1 .. n)
    BY RunsExist
  <2>. QED BY <2>1
<1> HIDE DEF g
<1>5. SoFar(s, g[1 .. n])
  BY <1>1, <1>2, <1>4, RunsStay
<1>. QED BY <1>3, <1>5

-----------------------------------------------------------------------------
(* The steps of a database *)

LEMMA CreditLists ==
  ASSUME NEW mbids, mbids \subseteq Owners
  PROVE  /\ People!Credits(mbids) \subseteq RowSet
         /\ \A list \in People!CreditLists(mbids) : \E n \in Nat : list \in [1 .. n -> RowSet]
<1>1. People!Credits(mbids) \subseteq RowSet
  BY DEF People!Credits, RowSet
<1>2. ASSUME NEW list \in People!CreditLists(mbids)
      PROVE  \E n \in Nat : list \in [1 .. n -> RowSet]
  <2>1. PICK n \in 0 .. MaxCredits : list \in [1 .. n -> People!Credits(mbids)]
    BY DEF People!CreditLists, People!SeqOf
  <2>2. n \in Nat
    BY NamesAssumption
  <2>. QED BY <1>1, <2>1, <2>2
<1>. QED BY <1>1, <1>2

\* An album and a track refer to other artists.
Referring(s, al, i, t, ids) == [s EXCEPT !.album[al] = i, !.credits[t] = ids]

LEMMA Written ==
  ASSUME NEW s, Kept(s), LiveIn(s), NEW t \in TrackIds, NEW al \in AlbumIds,
         NEW ids, ids \subseteq DOMAIN s.rows, NEW i \in DOMAIN s.rows \cup {0},
         NEW u, u = Referring(s, al, i, t, ids)
  PROVE  Kept(u) /\ LiveIn(u) /\ u.rows = s.rows
<1> DEFINE album == [s.album EXCEPT ![al] = i]
           credits == [s.credits EXCEPT ![t] = ids]
<1>1. i \in Nat /\ ids \subseteq Nat
  BY RowKept
<1>2. s.credits \in [TrackIds -> SUBSET Nat] /\ s.album \in [AlbumIds -> Nat]
  BY DEF Kept
<1>3. credits \in [TrackIds -> SUBSET Nat] /\ album \in [AlbumIds -> Nat]
  BY <1>1, <1>2
<1>4. /\ \A v \in TrackIds : credits[v] \subseteq DOMAIN s.rows
      /\ \A v \in AlbumIds : album[v] \in DOMAIN s.rows \cup {0}
  BY <1>2 DEF LiveIn
<1>5. u = [s EXCEPT !.album = album, !.credits = credits]
  BY DEF Referring
<1> HIDE DEF album, credits
<1>6. u = [rows |-> s.rows, index |-> s.index, credits |-> credits, album |-> album]
  BY <1>5 DEF Kept
<1>7. u.rows = s.rows /\ u.index = s.index /\ u.credits = credits /\ u.album = album
  BY <1>6
<1>8. Kept(u)
  BY <1>3, <1>6, <1>7 DEF Kept
<1>. QED BY <1>4, <1>7, <1>8 DEF LiveIn

LEMMA LiveGrows ==
  ASSUME NEW s, NEW t, LiveIn(s), Grown(s, t)
  PROVE  Kept(t) /\ LiveIn(t)
BY DEF LiveIn, Grown

LEMMA PeopleBegin ==
  ASSUME People!Init
  PROVE  PeopleInv
<1> DEFINE s == artist_tables
<1>1. /\ s = [rows |-> <<>>, index |-> <<>>,
              credits |-> [t \in TrackIds |-> {}], album |-> [al \in AlbumIds |-> 0]]
      /\ artist_cache = None
  BY DEF People!Init
<1>2. DOMAIN <<>> = {} /\ <<>> \in [{} -> RowSet] /\ <<>> = [i \in {} |-> 0]
  OBVIOUS
<1>3. \A f : <<>> = [i \in DOMAIN <<>> |-> f[i].name]
  BY <1>2
<1>4. Numbered({})
  BY DEF Numbered
<1> HIDE DEF s
<1>5. /\ s.rows = <<>> /\ s.index = <<>>
      /\ s.credits \in [TrackIds -> SUBSET Nat] /\ s.album \in [AlbumIds -> Nat]
      /\ \A t \in TrackIds : s.credits[t] = {}
      /\ \A al \in AlbumIds : s.album[al] = 0
  BY <1>1
<1>6. s = [rows |-> s.rows, index |-> s.index, credits |-> s.credits, album |-> s.album]
  BY <1>1
<1>7. Kept(s)
  BY <1>2, <1>3, <1>4, <1>5, <1>6 DEF Kept
<1>8. LiveIn(s)
  BY SMTT(30), <1>2, <1>5 DEF LiveIn
<1>. QED BY <1>1, <1>7, <1>8 DEF PeopleInv, s

LEMMA ScanBeginsKeeps ==
  ASSUME PeopleInv, People!ScanBegins
  PROVE  PeopleInv'
<1> DEFINE s == artist_tables
           called(f) == {i \in DOMAIN s.rows : Fold[s.rows[i].name] = f}
<1>1. /\ artist_tables' = s
      /\ artist_cache' = [f \in {Fold[s.rows[i].name] : i \in DOMAIN s.rows} |->
                             People!FirstId(called(f))]
  BY DEF People!ScanBegins, People!Ids
<1>2. ASSUME NEW j \in DOMAIN s.rows
      PROVE  People!FirstId(called(Fold[s.rows[j].name])) \in DOMAIN s.rows
  <2> DEFINE ids == called(Fold[s.rows[j].name])
  <2>1. ids \subseteq DOMAIN s.rows /\ ids # {} /\ Kept(s)
    BY DEF PeopleInv
  <2> HIDE DEF ids
  <2>2. People!FirstId(ids) \in DOMAIN s.rows
    BY <2>1, FirstOf
  <2>. QED BY <2>2 DEF ids
<1> HIDE DEF called
<1>3. CacheIn(artist_cache', s)
  BY <1>1, <1>2 DEF CacheIn
<1>. QED BY <1>1, <1>3 DEF PeopleInv

LEMMA FinishKeeps ==
  ASSUME PeopleInv, People!Finish
  PROVE  PeopleInv'
<1> DEFINE s == artist_tables
           u == artist_tables'
           alive == DOMAIN s.rows \cap People!Referred(s)
           rows == [i \in alive |-> s.rows[i]]
           index == [i \in alive |-> s.index[i]]
<1>1. Kept(s) /\ LiveIn(s)
  BY DEF PeopleInv
<1>2. /\ DOMAIN s.index = DOMAIN s.rows /\ \A i \in DOMAIN s.rows : s.index[i] = s.rows[i].name
      /\ alive \subseteq DOMAIN s.rows
  BY <1>1 DEF Kept
<1>3. /\ u = [s EXCEPT !.rows = rows, !.index = [i \in DOMAIN s.index \cap alive |-> s.index[i]]]
      /\ artist_cache' = None
  BY DEF People!Finish, People!Ids
<1>4. DOMAIN s.index \cap alive = alive
  BY <1>2
<1>5. /\ \A t \in TrackIds : s.credits[t] \subseteq alive
      /\ \A al \in AlbumIds : s.album[al] \in alive \cup {0}
  BY <1>1, LiveIsReferred DEF LiveIn
<1> HIDE DEF alive
<1>6. DOMAIN rows = alive /\ rows \in [alive -> RowSet] /\ \A i \in alive : rows[i] = s.rows[i]
  BY <1>1, <1>2 DEF Kept
<1>7. index = [i \in alive |-> rows[i].name]
  BY <1>2
<1>8. Numbered(alive)
  BY <1>1, <1>2 DEF Kept, Numbered
<1>9. \A i, j \in alive : i # j =>
         /\ Fold[rows[i].name] # Fold[rows[j].name]
         /\ rows[i].mbid = None \/ rows[i].mbid # rows[j].mbid
  BY <1>1, <1>2, <1>6 DEF Kept
<1>10. u = [s EXCEPT !.rows = rows, !.index = index]
  BY <1>3, <1>4
<1> HIDE DEF rows, index
<1>11. u = [rows |-> rows, index |-> index, credits |-> s.credits, album |-> s.album]
  BY <1>1, <1>10 DEF Kept
<1> HIDE DEF u, s
<1>12. u.rows = rows /\ u.index = index /\ u.credits = s.credits /\ u.album = s.album
  BY <1>11
<1>13. s.credits \in [TrackIds -> SUBSET Nat] /\ s.album \in [AlbumIds -> Nat]
  BY <1>1 DEF Kept
<1>14. Kept(u)
  BY <1>6, <1>7, <1>8, <1>9, <1>11, <1>12, <1>13 DEF Kept
<1>15. LiveIn(u)
  BY <1>5, <1>6, <1>12 DEF LiveIn
<1>. QED BY <1>3, <1>14, <1>15 DEF PeopleInv, u

LEMMA DeleteAlbumKeeps ==
  ASSUME PeopleInv, NEW al \in AlbumIds, NEW t \in TrackIds, People!DeleteAlbum(al, t)
  PROVE  PeopleInv'
<1> DEFINE s == artist_tables
           u == artist_tables'
<1>1. u = Referring(s, al, 0, t, {}) /\ artist_cache' = artist_cache
  BY DEF People!DeleteAlbum, Referring
<1>2. Kept(s) /\ LiveIn(s)
  BY DEF PeopleInv
<1> HIDE DEF s, u
<1>3. {} \subseteq DOMAIN s.rows /\ 0 \in DOMAIN s.rows \cup {0}
  OBVIOUS
<1>4. Kept(u) /\ LiveIn(u) /\ u.rows = s.rows
  BY <1>1, <1>2, <1>3, Written
<1>. QED BY <1>1, <1>4 DEF PeopleInv, CacheIn, s, u

LEMMA WriteAlbumKeeps ==
  ASSUME PeopleInv, NEW al \in AlbumIds, NEW t \in TrackIds, NEW artist \in RowSet,
         NEW n \in Nat, NEW list \in [1 .. n -> RowSet], People!WriteAlbum(al, t, artist, list)
  PROVE  PeopleInv'
<1> DEFINE s == artist_tables
           u == artist_tables'
           first == People!Tagged(s, artist_cache, artist)
           all == People!Credited(first.s, first.c, list, FALSE)
           ids == IF all.ids = {} THEN all.s.credits[t] ELSE all.ids
<1>1. Kept(s) /\ LiveIn(s) /\ CacheIn(artist_cache, s)
  BY DEF PeopleInv, People!WriteAlbum
<1>2. LookedUp(s, first)
  BY <1>1, TaggedLookup
<1>3. SoFar(first.s, all)
  <2>1. Kept(first.s) /\ CacheIn(first.c, first.s)
    <3> HIDE DEF first
    <3>. QED BY <1>2 DEF LookedUp, Grown
  <2>2. PICK no \in BOOLEAN : no = FALSE
    OBVIOUS
  <2> HIDE DEF first
  <2>3. SoFar(first.s, People!Credited(first.s, first.c, list, no))
    BY <2>1, CreditedKept
  <2>. QED BY <2>2, <2>3
<1>4. \/ u = s /\ artist_cache' = artist_cache
      \/ u = first.s /\ artist_cache' = first.c
      \/ u = Referring(all.s, al, first.id, t, ids) /\ artist_cache' = all.c
  BY DEF People!WriteAlbum, People!vars, Referring
<1>5. CASE u = s /\ artist_cache' = artist_cache
  BY <1>5 DEF PeopleInv
<1> HIDE DEF s, first, all
<1>6. Grown(s, first.s) /\ Kept(first.s) /\ LiveIn(first.s) /\ CacheIn(first.c, first.s)
  BY <1>1, <1>2, LiveGrows DEF LookedUp
<1>7. Grown(first.s, all.s) /\ Kept(all.s) /\ LiveIn(all.s) /\ CacheIn(all.c, all.s)
  BY <1>3, <1>6, LiveGrows DEF SoFar
<1>8. CASE u = first.s /\ artist_cache' = first.c
  BY <1>6, <1>8 DEF PeopleInv
<1>9. CASE u = Referring(all.s, al, first.id, t, ids) /\ artist_cache' = all.c
  <2>1. first.id \in DOMAIN all.s.rows \cup {0}
    BY <1>2, <1>7 DEF LookedUp, Grown
  <2>2. ids \subseteq DOMAIN all.s.rows
    BY <1>3, <1>7 DEF SoFar, LiveIn
  <2> HIDE DEF ids, u
  <2>3. Kept(u) /\ LiveIn(u) /\ u.rows = all.s.rows
    BY <1>7, <1>9, <2>1, <2>2, Written
  <2>4. CacheIn(artist_cache', u)
    BY <1>7, <1>9, <2>3 DEF CacheIn
  <2>. QED BY <2>3, <2>4 DEF PeopleInv, u
<1>. QED BY SMTT(30), <1>4, <1>5, <1>8, <1>9

LEMMA ResolveKeeps ==
  ASSUME PeopleInv, NEW al \in AlbumIds, NEW t \in TrackIds, NEW artist \in RowSet,
         NEW n \in Nat, NEW list \in [1 .. n -> RowSet], People!Resolve(al, t, artist, list)
  PROVE  PeopleInv'
<1> DEFINE s == artist_tables
           u == artist_tables'
           first == People!Released(s, <<>>, artist)
           all == People!Credited(first.s, first.c, list, TRUE)
           id == IF first.id > 0 THEN first.id ELSE all.s.album[al]
<1>1. Kept(s) /\ LiveIn(s)
  BY DEF PeopleInv
<1>2. LookedUp(s, first)
  <2>1. CacheIn(<<>>, s)
    BY DEF CacheIn
  <2>. QED BY <1>1, <2>1, ReleasedLookup
<1>3. SoFar(first.s, all)
  <2>1. Kept(first.s) /\ CacheIn(first.c, first.s)
    <3> HIDE DEF first
    <3>. QED BY <1>2 DEF LookedUp, Grown
  <2>2. PICK yes \in BOOLEAN : yes = TRUE
    OBVIOUS
  <2> HIDE DEF first
  <2>3. SoFar(first.s, People!Credited(first.s, first.c, list, yes))
    BY <2>1, CreditedKept
  <2>. QED BY <2>2, <2>3
<1>4. /\ u = Referring(all.s, al, id, t, all.ids)
      /\ artist_cache = None /\ artist_cache' = artist_cache
  BY DEF People!Resolve, Referring
<1> HIDE DEF s, first, all
<1>5. Grown(s, first.s) /\ Kept(first.s) /\ LiveIn(first.s)
  BY <1>1, <1>2, LiveGrows DEF LookedUp
<1>6. Grown(first.s, all.s) /\ Kept(all.s) /\ LiveIn(all.s)
  BY SMTT(30), <1>3, <1>5, LiveGrows DEF SoFar
<1>7. id \in DOMAIN all.s.rows \cup {0}
  BY <1>2, <1>6 DEF LookedUp, LiveIn, Grown
<1>8. all.ids \subseteq DOMAIN all.s.rows
  BY <1>3 DEF SoFar
<1> HIDE DEF id, u
<1>9. Kept(u) /\ LiveIn(u)
  BY <1>4, <1>6, <1>7, <1>8, Written
<1>. QED BY <1>4, <1>9 DEF PeopleInv, u

LEMMA PeopleStep ==
  ASSUME PeopleInv, [People!Next]_(People!vars)
  PROVE  PeopleInv'
<1>1. Mbids \cup {None} \subseteq Owners /\ Mbids \subseteq Owners
  BY DEF Owners
<1>2. CASE People!ScanBegins
  BY <1>2, ScanBeginsKeeps
<1>3. CASE People!Finish
  BY <1>3, FinishKeeps
<1>4. ASSUME NEW al \in AlbumIds, NEW t \in TrackIds, People!DeleteAlbum(al, t) PROVE PeopleInv'
  BY <1>4, DeleteAlbumKeeps
<1>5. ASSUME NEW al \in AlbumIds, NEW t \in TrackIds,
             NEW artist \in People!Credits(Mbids \cup {None}),
             NEW list \in People!CreditLists(Mbids \cup {None}),
             People!WriteAlbum(al, t, artist, list)
      PROVE  PeopleInv'
  <2> DEFINE mbids == Mbids \cup {None}
  <2>1. artist \in People!Credits(mbids) /\ list \in People!CreditLists(mbids) /\ mbids \subseteq Owners
    BY <1>1
  <2> HIDE DEF mbids
  <2>2. artist \in RowSet /\ \E n \in Nat : list \in [1 .. n -> RowSet]
    BY <2>1, CreditLists
  <2>. QED BY <1>5, <2>2, WriteAlbumKeeps
<1>6. ASSUME NEW al \in AlbumIds, NEW t \in TrackIds,
             NEW artist \in People!Credits(Mbids), NEW list \in People!CreditLists(Mbids),
             People!Resolve(al, t, artist, list)
      PROVE  PeopleInv'
  <2>1. artist \in RowSet /\ \E n \in Nat : list \in [1 .. n -> RowSet]
    BY <1>1, CreditLists
  <2>. QED BY <1>6, <2>1, ResolveKeeps
<1>7. CASE UNCHANGED People!vars
  <2>1. artist_tables' = artist_tables /\ artist_cache' = artist_cache
    BY <1>7 DEF People!vars
  <2>. QED BY <2>1 DEF PeopleInv
<1>. QED BY <1>2, <1>3, <1>4, <1>5, <1>6, <1>7 DEF People!Next

LEMMA PeopleAreSound ==
  ASSUME PeopleInv
  PROVE  People!ArtistsSound
<1> DEFINE s == artist_tables
<1>1. Kept(s) /\ LiveIn(s) /\ (artist_cache # None => CacheIn(artist_cache, s))
  BY DEF PeopleInv
<1>2. People!ReferencesLive
  BY <1>1, LiveIsReferred DEF People!ReferencesLive, CacheIn, People!Ids
<1>3. People!ArtistsIndexed
  BY <1>1 DEF People!ArtistsIndexed, Kept, People!Ids
<1>4. People!RowsDistinct
  BY <1>1 DEF People!RowsDistinct, Kept, People!Ids
<1>5. People!AnswersFit
  BY <1>1, AnswersFitKept DEF People!AnswersFit
<1>. QED BY SMTT(30), <1>2, <1>3, <1>4, <1>5 DEF People!ArtistsSound

(* Whatever the tags and the releases of a library say, its artists are    *)
(* distinct rows that can be found under their names, what albums, tracks  *)
(* and the writer's cache refer to is there, and whoever asks for an       *)
(* artist of MusicBrainz gets that artist or one that is nobody's yet.     *)
THEOREM ArtistsAlwaysSound == People!Spec => []People!ArtistsSound
<1>1. People!Spec => []PeopleInv
  BY PeopleBegin, PeopleStep, PTL DEF People!Spec
<1>. QED BY <1>1, PeopleAreSound, PTL

-----------------------------------------------------------------------------
(* The card of a library: what it may hold *)

Statuses == {"waiting", "startup", "active", "complete", "skipped", "error"}
RowSets == [0 .. 6 -> Statuses]
CardSet ==
    [rows : RowSets, pulse : BOOLEAN, hide : BOOLEAN, revealed : BOOLEAN, shown_toast : BOOLEAN,
     pending_toast : BOOLEAN, stats : {"none", "current", "old"}]
Reports ==
    [phase : {"scanning", "metadata", "finalize", "artwork", "fingerprint", "resolve", "artist_art",
              "artist_bio"},
     dirs : Nat, files : Nat, albums : Nat, albums_done : Nat, prints : Nat, prints_done : Nat,
     arts : Nat, downloaded : Nat, bios : Nat, fetched : Nat,
     pg_error : BOOLEAN, acoustid_error : BOOLEAN, fanart_error : BOOLEAN]

Walking  == {"metadata", "finalized"}
Drawing  == {"updated", "drawing", "drawn"}
Matching == {"resolve", "resolved", "described"}
Fetching == {"art", "fetched", "shown", "redrawing", "redrawn", "bios"}
Stages   == {"none", "scanning"} \cup Walking \cup Drawing \cup Matching \cup Fetching

CardTyped ==
    /\ stage \in Stages /\ report \in Reports /\ resolving \in BOOLEAN
    /\ loads \in Seq({"before", "after"})
    /\ newest_shown \in BOOLEAN /\ late \in BOOLEAN /\ rebuilt \in BOOLEAN /\ succeeded \in BOOLEAN
    /\ scans \in Nat /\ rebuilds \in Nat /\ toasts \in Nat
    /\ card # None => card \in CardSet

\* The phase of the last report of a stage.
Phased(st, phase) ==
    /\ st = "scanning" => phase = "scanning"
    /\ st = "metadata" => phase = "metadata"
    /\ st \in {"finalized", "updated"} => phase = "finalize"
    /\ st = "drawing" => phase = "artwork"
    /\ st = "drawn" => phase \in {"finalize", "artwork"}
    /\ st \in Matching => phase \in {"fingerprint", "resolve"}
    /\ st \in {"art", "fetched", "shown"} => phase = "artist_art"
    /\ st \in {"redrawing", "redrawn"} => phase = "artwork"
    /\ st = "bios" => phase = "artist_bio"

StageInv ==
    /\ Phased(stage, report.phase)
    /\ stage \in Matching => resolving
    /\ stage = "resolve" /\ report.albums = 0 => report.prints = 0

Final(row) == row \in {"complete", "skipped", "error"}

\* What the rows of a card say in a stage, in which nothing but the worker's reports has come to it.
RowsAt(st, q, rows) ==
    /\ rows[0] # "error" /\ rows[1] # "error" /\ rows[2] # "error"
    /\ rows[3] # "error" /\ rows[4] # "error" /\ rows[5] # "error"
    /\ rows[0] # "waiting"
    /\ st = "scanning" => rows[0] = "active" /\ rows[1] = "waiting"
    /\ st \in {"scanning"} \cup Walking => rows[2] = "waiting" /\ (rows[1] # "waiting" => Final(rows[0]))
    /\ st \in {"scanning"} \cup Walking \cup Drawing => rows[3] = "waiting" /\ rows[4] = "waiting"
    /\ st \notin Fetching => rows[5] = "waiting"
    /\ st \in Drawing \cup Matching \cup Fetching => Final(rows[0]) /\ Final(rows[1])
    /\ st \in Matching => Final(rows[2])
    /\ st \in Fetching => (resolving => Final(rows[2])) /\ Final(rows[3]) /\ Final(rows[4])
    /\ Final(rows[0]) => (rows[0] = "complete" <=> q.dirs > 0)
    /\ Final(rows[1]) => (rows[1] = "complete" <=> q.files > 0)
    /\ rows[3] = "complete" => q.prints > 0
    /\ rows[4] = "complete" => resolving

RowsInv == card # None /\ ~rebuilt /\ stage # "none" => RowsAt(stage, report, card.rows)

\* What they say after a scan that succeeded.
WordsAt(q, rows) ==
    /\ Final(rows[0]) /\ Final(rows[1]) /\ (resolving => Final(rows[2]))
    /\ Final(rows[3]) /\ Final(rows[4]) /\ Final(rows[5]) /\ Final(rows[6])
    /\ rows[0] = "complete" <=> q.dirs > 0
    /\ rows[1] = "complete" <=> q.files > 0
    /\ rows[2] # "error"
    /\ rows[3] = "error" <=> q.acoustid_error
    /\ rows[4] = "error" <=> q.pg_error
    /\ rows[5] = "error" <=> q.fanart_error
    /\ rows[3] = "complete" => q.prints > 0
    /\ rows[4] = "complete" => resolving
WordsInv == card # None /\ succeeded /\ stage = "none" /\ ~rebuilt => WordsAt(report, card.rows)

\* Who may still show a toast has a scan or a card of its own for it.
ToastInv ==
    /\ toasts <= scans + rebuilds
    /\ card # None =>
          toasts + (IF card.pending_toast THEN 1 ELSE 0)
                 + (IF stage # "none" /\ ~card.shown_toast THEN 1 ELSE 0) <= scans + rebuilds

\* Either the load that was asked for last has been shown, or it is the last and reads what is there.
StatsInv ==
    card # None /\ stage = "none" /\ scans + rebuilds > 0 =>
        \/ newest_shown /\ (late \/ card.stats = "current")
        \/ ~newest_shown /\ loads # <<>> /\ loads[Len(loads)] = "after"

CardInv ==
    /\ CardTyped /\ StageInv /\ RowsInv /\ WordsInv /\ ToastInv /\ StatsInv
    /\ Card!PanelAndTimers

-----------------------------------------------------------------------------
(* What the panel does to the rows *)

LEMMA RowTyped ==
  ASSUME NEW row \in Statuses, NEW n \in Nat
  PROVE  /\ Card!Startup(row) \in Statuses /\ Card!Activate(row) \in Statuses
         /\ Card!Skip(row) \in Statuses /\ Card!Finalize(row, n) \in Statuses
         /\ Card!Closed(row, n) \in Statuses /\ Card!Queried(row, n) \in Statuses
BY DEF Statuses, Card!Startup, Card!Activate, Card!Skip, Card!Finalize, Card!Closed, Card!Queried,
       Card!Finals

LEMMA ReportTyped ==
  ASSUME NEW q \in Reports
  PROVE  /\ q.dirs \in Nat /\ q.files \in Nat /\ q.albums \in Nat /\ q.albums_done \in Nat
         /\ q.prints \in Nat /\ q.prints_done \in Nat /\ q.arts \in Nat /\ q.downloaded \in Nat
         /\ q.bios \in Nat /\ q.fetched \in Nat
         /\ q.pg_error \in BOOLEAN /\ q.acoustid_error \in BOOLEAN /\ q.fanart_error \in BOOLEAN
BY DEF Reports


\* What each report does to the rows; those that a report does not name stay.
LEMMA PanelScanning ==
  ASSUME NEW rows \in RowSets, NEW q \in Reports, q.phase = "scanning"
  PROVE  Card!PanelRows(rows, q)
            = [rows EXCEPT ![0] = IF rows[0] = "waiting" THEN Card!Activate(rows[0]) ELSE rows[0]]
BY DEF Card!PanelRows

LEMMA PanelMetadata ==
  ASSUME NEW rows \in RowSets, NEW q \in Reports, q.phase = "metadata"
  PROVE  Card!PanelRows(rows, q)
            = [rows EXCEPT ![0] = Card!Finalize(rows[0], q.dirs),
                           ![1] = IF q.files = 0 THEN Card!Skip(rows[1])
                                  ELSE IF rows[1] = "waiting" THEN Card!Activate(rows[1]) ELSE rows[1]]
BY DEF Card!PanelRows, RowSets

LEMMA PanelArtwork ==
  ASSUME NEW rows \in RowSets, NEW q \in Reports, q.phase = "artwork"
  PROVE  Card!PanelRows(rows, q)
            = [rows EXCEPT ![1] = Card!Finalize(rows[1], q.files),
                           ![2] = IF q.albums = 0 THEN Card!Skip(rows[2])
                                  ELSE IF rows[2] = "waiting" THEN Card!Activate(rows[2]) ELSE rows[2]]
BY DEF Card!PanelRows, RowSets

LEMMA PanelFingerprint ==
  ASSUME NEW rows \in RowSets, NEW q \in Reports, q.phase = "fingerprint"
  PROVE  LET r == Card!PanelRows(rows, q) IN
         /\ r \in RowSets
         /\ r[0] = rows[0] /\ r[1] = rows[1] /\ r[2] = Card!Finalize(rows[2], q.albums) /\ r[5] = rows[5]
         /\ r[3] \in {Card!Activate(rows[3]), Card!Startup(rows[3]), Card!Skip(rows[3])}
         /\ r[4] \in {rows[4], Card!Startup(rows[4])}
<1> DEFINE r == Card!PanelRows(rows, q)
           two == Card!Finalize(rows[2], q.albums)
<1>1. \A k \in 0 .. 6 : rows[k] \in Statuses
  BY DEF RowSets
<1>2. /\ 2 \in 0 .. 6 /\ 3 \in 0 .. 6 /\ 4 \in 0 .. 6 /\ DOMAIN rows = 0 .. 6
      /\ rows \in [0 .. 6 -> Statuses]
  BY DEF RowSets
<1>3. /\ two \in Statuses /\ Card!Activate(rows[3]) \in Statuses /\ Card!Startup(rows[3]) \in Statuses
      /\ Card!Skip(rows[3]) \in Statuses /\ Card!Startup(rows[4]) \in Statuses
  BY <1>1, <1>2, RowTyped, ReportTyped
<1>4. r = Card!Fingerprinted(rows, q)
  BY DEF Card!PanelRows
<1>5. \/ r = [[rows EXCEPT ![2] = two] EXCEPT ![3] = Card!Activate(rows[3])]
      \/ r = [[rows EXCEPT ![2] = two] EXCEPT ![3] = Card!Startup(rows[3]), ![4] = Card!Startup(rows[4])]
      \/ r = [[rows EXCEPT ![2] = two] EXCEPT ![3] = Card!Skip(rows[3])]
  BY <1>2, <1>4, ReportTyped DEF Card!Fingerprinted
<1> HIDE DEF r, two
<1>6. /\ r \in RowSets /\ r[0] = rows[0] /\ r[1] = rows[1] /\ r[2] = two /\ r[5] = rows[5]
      /\ r[3] \in {Card!Activate(rows[3]), Card!Startup(rows[3]), Card!Skip(rows[3])}
      /\ r[4] \in {rows[4], Card!Startup(rows[4])}
  BY <1>2, <1>3, <1>5 DEF RowSets
<1>. QED BY <1>6 DEF r, two

LEMMA PanelResolve ==
  ASSUME NEW rows \in RowSets, NEW q \in Reports, q.phase = "resolve"
  PROVE  LET r == Card!PanelRows(rows, q) IN
         /\ r \in RowSets
         /\ r[0] = rows[0] /\ r[1] = rows[1] /\ r[2] = Card!Finalize(rows[2], q.albums) /\ r[5] = rows[5]
         /\ \/ q.prints > 0 /\ r[3] = Card!Finalize(rows[3], q.prints)
            \/ r[3] \in {Card!Skip(rows[3]), Card!Activate(rows[3])}
         /\ r[4] = Card!Activate(rows[4])
<1> DEFINE r == Card!PanelRows(rows, q)
           two == Card!Finalize(rows[2], q.albums)
           three == IF q.prints > 0 /\ q.prints_done >= q.prints /\ rows[3] = "active"
                    THEN Card!Finalize(rows[3], q.prints)
                    ELSE IF q.prints = 0 THEN Card!Skip(rows[3]) ELSE Card!Activate(rows[3])
           four == Card!Activate(rows[4])
<1>1. \A k \in 0 .. 6 : rows[k] \in Statuses
  BY DEF RowSets
<1>2. /\ 2 \in 0 .. 6 /\ 3 \in 0 .. 6 /\ 4 \in 0 .. 6 /\ DOMAIN rows = 0 .. 6
      /\ rows \in [0 .. 6 -> Statuses]
  BY DEF RowSets
<1>3. two \in Statuses /\ three \in Statuses /\ four \in Statuses
  BY <1>1, <1>2, RowTyped, ReportTyped
<1>4. r = [rows EXCEPT ![2] = two, ![3] = three, ![4] = four]
  BY <1>2 DEF Card!PanelRows, Card!ResolvedRows
<1>5. \/ q.prints > 0 /\ three = Card!Finalize(rows[3], q.prints)
      \/ three \in {Card!Skip(rows[3]), Card!Activate(rows[3])}
  OBVIOUS
<1> HIDE DEF r, two, three, four
<1>6. /\ r \in RowSets /\ r[0] = rows[0] /\ r[1] = rows[1] /\ r[2] = two /\ r[5] = rows[5]
      /\ r[3] = three /\ r[4] = four
  BY <1>2, <1>3, <1>4 DEF RowSets
<1>. QED BY <1>5, <1>6 DEF r, two, four

LEMMA PanelArtistArt ==
  ASSUME NEW rows \in RowSets, NEW q \in Reports, q.phase = "artist_art"
  PROVE  LET r == Card!PanelRows(rows, q) IN
         /\ r \in RowSets
         /\ r[0] = rows[0] /\ r[1] = rows[1] /\ r[2] = rows[2]
         /\ \/ q.prints > 0 /\ r[3] = Card!Closed(rows[3], q.prints)
            \/ r[3] = Card!Skip(rows[3])
         /\ r[4] = Card!Closed(rows[4], q.albums_done) /\ r[5] = Card!Queried(rows[5], q.arts)
<1> DEFINE r == Card!PanelRows(rows, q)
           three == IF q.prints > 0 THEN Card!Closed(rows[3], q.prints) ELSE Card!Skip(rows[3])
           four == Card!Closed(rows[4], q.albums_done)
           five == Card!Queried(rows[5], q.arts)
<1>1. \A k \in 0 .. 6 : rows[k] \in Statuses
  BY DEF RowSets
<1>2. /\ 3 \in 0 .. 6 /\ 4 \in 0 .. 6 /\ 5 \in 0 .. 6 /\ DOMAIN rows = 0 .. 6
      /\ rows \in [0 .. 6 -> Statuses]
  BY DEF RowSets
<1>3. three \in Statuses /\ four \in Statuses /\ five \in Statuses
  BY <1>1, <1>2, RowTyped, ReportTyped
<1>4. r = [rows EXCEPT ![3] = three, ![4] = four, ![5] = five]
  BY <1>2 DEF Card!PanelRows
<1>5. \/ q.prints > 0 /\ three = Card!Closed(rows[3], q.prints)
      \/ three = Card!Skip(rows[3])
  OBVIOUS
<1> HIDE DEF r, three, four, five
<1>6. /\ r \in RowSets /\ r[0] = rows[0] /\ r[1] = rows[1] /\ r[2] = rows[2]
      /\ r[3] = three /\ r[4] = four /\ r[5] = five
  BY <1>2, <1>3, <1>4 DEF RowSets
<1>. QED BY <1>5, <1>6 DEF r, four, five

LEMMA PanelArtistBio ==
  ASSUME NEW rows \in RowSets, NEW q \in Reports, q.phase = "artist_bio"
  PROVE  LET r == Card!PanelRows(rows, q) IN
         /\ r \in RowSets
         /\ r[0] = rows[0] /\ r[1] = rows[1] /\ r[2] = rows[2]
         /\ r[3] = Card!Closed(rows[3], 0) /\ r[4] = Card!Closed(rows[4], 0)
         /\ r[5] = Card!Closed(rows[5], 0)
<1> DEFINE r == Card!PanelRows(rows, q)
           at(k) == IF k \in 3 .. 5 THEN Card!Closed(rows[k], 0)
                    ELSE IF k = 6 THEN Card!Queried(rows[k], q.bios) ELSE rows[k]
<1>1. \A k \in 0 .. 6 : rows[k] \in Statuses
  BY DEF RowSets
<1>2. r = [k \in 0 .. 6 |-> at(k)]
  BY DEF Card!PanelRows, Card!PhaseRows
<1>3. \A k \in 0 .. 6 : at(k) \in Statuses
  <2>1. TAKE k \in 0 .. 6
  <2>2. Card!Closed(rows[k], 0) \in Statuses /\ Card!Queried(rows[k], q.bios) \in Statuses
    BY <1>1, RowTyped, ReportTyped
  <2>. QED BY <1>1, <2>2
<1>4. /\ at(0) = rows[0] /\ at(1) = rows[1] /\ at(2) = rows[2]
      /\ at(3) = Card!Closed(rows[3], 0) /\ at(4) = Card!Closed(rows[4], 0)
      /\ at(5) = Card!Closed(rows[5], 0)
  OBVIOUS
<1> HIDE DEF r, at
<1>5. /\ r \in RowSets /\ r[0] = at(0) /\ r[1] = at(1) /\ r[2] = at(2) /\ r[3] = at(3)
      /\ r[4] = at(4) /\ r[5] = at(5)
  BY <1>2, <1>3 DEF RowSets
<1>. QED BY <1>4, <1>5 DEF r

LEMMA PanelFinalize ==
  ASSUME NEW rows \in RowSets, NEW q \in Reports, q.phase = "finalize"
  PROVE  Card!PanelRows(rows, q) = rows
BY DEF Card!PanelRows

-----------------------------------------------------------------------------
(* The rows stay in turn under the reports *)

\* The phase in which a stage of the worker is.
LEMMA PhaseOfStage ==
  ASSUME NEW st \in Stages, st # "none", NEW phase, Phased(st, phase)
  PROVE  /\ phase = "scanning" <=> st = "scanning"
         /\ phase = "metadata" <=> st = "metadata"
         /\ phase = "finalize" => st \in {"finalized", "updated", "drawn"}
         /\ phase = "artwork" => st \in {"drawing", "drawn", "redrawing", "redrawn"}
         /\ phase \in {"fingerprint", "resolve"} <=> st \in Matching
         /\ phase = "artist_art" <=> st \in {"art", "fetched", "shown"}
         /\ phase = "artist_bio" <=> st = "bios"
BY DEF Stages, Walking, Drawing, Matching, Fetching, Phased

\* Any report of the worker, or none, where it is.
LEMMA PanelTurn ==
  ASSUME NEW rows \in RowSets, NEW q \in Reports, NEW st \in Stages, st # "none",
         Phased(st, q.phase), RowsAt(st, q, rows), resolving \in BOOLEAN,
         st \in Matching => resolving
  PROVE  Card!PanelRows(rows, q) \in RowSets /\ RowsAt(st, q, Card!PanelRows(rows, q))
<1> DEFINE r == Card!PanelRows(rows, q)
<1>1. /\ rows[0] \in Statuses /\ rows[1] \in Statuses /\ rows[2] \in Statuses /\ rows[3] \in Statuses
      /\ rows[4] \in Statuses /\ rows[5] \in Statuses
      /\ 0 \in 0 .. 6 /\ 1 \in 0 .. 6 /\ 2 \in 0 .. 6
      /\ rows \in [0 .. 6 -> Statuses] /\ DOMAIN rows = 0 .. 6
  BY DEF RowSets
<1>2. /\ q.dirs \in Nat /\ q.files \in Nat /\ q.albums \in Nat /\ q.albums_done \in Nat
      /\ q.prints \in Nat /\ q.arts \in Nat
  BY ReportTyped
<1>3. CASE q.phase = "scanning"
  <2> DEFINE zero == IF rows[0] = "waiting" THEN Card!Activate(rows[0]) ELSE rows[0]
  <2>1. zero = rows[0]
    BY DEF RowsAt
  <2>2. r = [rows EXCEPT ![0] = zero]
    BY <1>3, PanelScanning
  <2> HIDE DEF zero
  <2>3. [rows EXCEPT ![0] = zero] = rows
    BY <1>1, <2>1
  <2>. QED BY <2>2, <2>3
<1>4. CASE q.phase = "metadata"
  <2> DEFINE zero == Card!Finalize(rows[0], q.dirs)
             one == IF q.files = 0 THEN Card!Skip(rows[1])
                    ELSE IF rows[1] = "waiting" THEN Card!Activate(rows[1]) ELSE rows[1]
  <2>1. st = "metadata"
    BY <1>4, PhaseOfStage
  <2>2. zero \in Statuses /\ one \in Statuses
    BY <1>1, <1>2, RowTyped
  <2>3. /\ Final(zero) /\ zero # "error" /\ zero # "waiting" /\ (zero = "complete" <=> q.dirs > 0)
    BY <1>1, <1>2 DEF RowsAt, Final, Card!Finalize, Card!Finals
  <2>4. one # "error" /\ (Final(one) => (one = "complete" <=> q.files > 0))
    BY <1>1, <1>2 DEF RowsAt, Final, Card!Skip, Card!Activate, Card!Finals
  <2>5. r = [rows EXCEPT ![0] = zero, ![1] = one]
    BY <1>4, PanelMetadata
  <2> HIDE DEF zero, one, r
  <2>6. /\ r \in RowSets /\ r[0] = zero /\ r[1] = one /\ r[2] = rows[2] /\ r[3] = rows[3]
        /\ r[4] = rows[4] /\ r[5] = rows[5]
    BY <1>1, <2>2, <2>5 DEF RowSets
  <2>7. RowsAt(st, q, r)
    BY <2>1, <2>3, <2>4, <2>6 DEF RowsAt, Walking, Drawing, Matching, Fetching
  <2>. QED BY <2>6, <2>7 DEF r
<1>5. CASE q.phase = "artwork"
  <2> DEFINE one == Card!Finalize(rows[1], q.files)
             two == IF q.albums = 0 THEN Card!Skip(rows[2])
                    ELSE IF rows[2] = "waiting" THEN Card!Activate(rows[2]) ELSE rows[2]
  <2>1. st \in {"drawing", "drawn", "redrawing", "redrawn"}
    BY <1>5, PhaseOfStage
  <2>2. one \in Statuses /\ two \in Statuses
    BY <1>1, <1>2, RowTyped
  <2>3. one = rows[1]
    BY <2>1 DEF RowsAt, Final, Card!Finalize, Card!Finals, Drawing, Fetching
  <2>4. two # "error" /\ (Final(rows[2]) => Final(two))
    BY <1>1, <1>2 DEF RowsAt, Final, Card!Skip, Card!Activate, Card!Finals
  <2>5. r = [rows EXCEPT ![1] = one, ![2] = two]
    BY <1>5, PanelArtwork
  <2> HIDE DEF one, two, r
  <2>6. /\ r \in RowSets /\ r[0] = rows[0] /\ r[1] = one /\ r[2] = two /\ r[3] = rows[3]
        /\ r[4] = rows[4] /\ r[5] = rows[5]
    BY SMTT(30), <1>1, <2>2, <2>5 DEF RowSets
  <2>7. RowsAt(st, q, r)
    BY <2>1, <2>3, <2>4, <2>6 DEF RowsAt, Walking, Drawing, Matching, Fetching
  <2>. QED BY <2>6, <2>7 DEF r
<1>6. CASE q.phase = "fingerprint"
  <2>1. st \in Matching
    BY <1>6, PhaseOfStage
  <2>2. /\ r \in RowSets
        /\ r[0] = rows[0] /\ r[1] = rows[1] /\ r[2] = Card!Finalize(rows[2], q.albums) /\ r[5] = rows[5]
        /\ r[3] \in {Card!Activate(rows[3]), Card!Startup(rows[3]), Card!Skip(rows[3])}
        /\ r[4] \in {rows[4], Card!Startup(rows[4])}
    BY <1>6, PanelFingerprint
  <2> HIDE DEF r
  <2>3. r[2] = rows[2]
    BY <2>1, <2>2 DEF RowsAt, Final, Card!Finalize, Card!Finals
  <2>4. r[3] # "error" /\ (r[3] = "complete" => rows[3] = "complete")
    BY <1>1, <2>2 DEF RowsAt, Card!Activate, Card!Startup, Card!Skip, Card!Finals
  <2>5. r[4] # "error" /\ (r[4] = "complete" => rows[4] = "complete")
    BY <1>1, <2>2 DEF RowsAt, Card!Startup
  <2>6. RowsAt(st, q, r)
    BY <2>1, <2>2, <2>3, <2>4, <2>5 DEF RowsAt, Walking, Drawing, Matching, Fetching
  <2>. QED BY <2>2, <2>6 DEF r
<1>7. CASE q.phase = "resolve"
  <2>1. st \in Matching
    BY <1>7, PhaseOfStage
  <2>2. /\ r \in RowSets
        /\ r[0] = rows[0] /\ r[1] = rows[1] /\ r[2] = Card!Finalize(rows[2], q.albums) /\ r[5] = rows[5]
        /\ \/ q.prints > 0 /\ r[3] = Card!Finalize(rows[3], q.prints)
           \/ r[3] \in {Card!Skip(rows[3]), Card!Activate(rows[3])}
        /\ r[4] = Card!Activate(rows[4])
    BY <1>7, PanelResolve
  <2> HIDE DEF r
  <2>3. r[2] = rows[2]
    BY <2>1, <2>2 DEF RowsAt, Final, Card!Finalize, Card!Finals
  <2>4. r[3] # "error" /\ (r[3] = "complete" => rows[3] = "complete" \/ q.prints > 0)
    BY <1>1, <2>2 DEF RowsAt, Card!Activate, Card!Finalize, Card!Skip, Card!Finals
  <2>5. r[4] # "error" /\ (r[4] = "complete" => rows[4] = "complete")
    BY <1>1, <2>2 DEF RowsAt, Card!Activate
  <2>6. RowsAt(st, q, r)
    BY <2>1, <2>2, <2>3, <2>4, <2>5 DEF RowsAt, Walking, Drawing, Matching, Fetching
  <2>. QED BY <2>2, <2>6 DEF r
<1>8. CASE q.phase = "artist_art"
  <2>1. st \in {"art", "fetched", "shown"}
    BY <1>8, PhaseOfStage
  <2>2. /\ r \in RowSets
        /\ r[0] = rows[0] /\ r[1] = rows[1] /\ r[2] = rows[2]
        /\ \/ q.prints > 0 /\ r[3] = Card!Closed(rows[3], q.prints)
           \/ r[3] = Card!Skip(rows[3])
        /\ r[4] = Card!Closed(rows[4], q.albums_done) /\ r[5] = Card!Queried(rows[5], q.arts)
    BY <1>8, PanelArtistArt
  <2> HIDE DEF r
  <2>3. Final(rows[3]) /\ Final(rows[4])
    BY <2>1 DEF RowsAt, Fetching
  <2>4. r[3] = rows[3] /\ r[4] = rows[4]
    BY <2>2, <2>3 DEF Final, Card!Closed, Card!Skip, Card!Finals
  <2>5. r[5] # "error"
    BY <1>1, <2>2 DEF RowsAt, Card!Queried, Card!Startup, Card!Activate
  <2>6. RowsAt(st, q, r)
    BY <2>1, <2>2, <2>4, <2>5 DEF RowsAt, Walking, Drawing, Matching, Fetching
  <2>. QED BY <2>2, <2>6 DEF r
<1>9. CASE q.phase = "artist_bio"
  <2>1. st = "bios"
    BY <1>9, PhaseOfStage
  <2>2. /\ r \in RowSets
        /\ r[0] = rows[0] /\ r[1] = rows[1] /\ r[2] = rows[2]
        /\ r[3] = Card!Closed(rows[3], 0) /\ r[4] = Card!Closed(rows[4], 0)
        /\ r[5] = Card!Closed(rows[5], 0)
    BY <1>9, PanelArtistBio
  <2> HIDE DEF r
  <2>3. Final(rows[3]) /\ Final(rows[4])
    BY <2>1 DEF RowsAt, Fetching
  <2>4. r[3] = rows[3] /\ r[4] = rows[4]
    BY <2>2, <2>3 DEF Final, Card!Closed, Card!Skip, Card!Finals
  <2>5. r[5] # "error"
    BY <1>1, <2>2 DEF RowsAt, Card!Closed, Card!Finalize, Card!Skip, Card!Finals
  <2>6. RowsAt(st, q, r)
    BY <2>1, <2>2, <2>4, <2>5 DEF RowsAt, Walking, Drawing, Matching, Fetching
  <2>. QED BY <2>2, <2>6 DEF r
<1>10. CASE q.phase = "finalize"
  BY <1>10, PanelFinalize
<1>11. q.phase \in {"scanning", "metadata", "finalize", "artwork", "fingerprint", "resolve", "artist_art",
                    "artist_bio"}
  BY DEF Reports
<1>. QED BY <1>3, <1>4, <1>5, <1>6, <1>7, <1>8, <1>9, <1>10, <1>11

\* phase_resolve, after the artwork.
LEMMA MatchingBegins ==
  ASSUME NEW rows \in RowSets, NEW q \in Reports, NEW old \in Reports, NEW st \in Drawing,
         RowsAt(st, old, rows), resolving,
         q.phase = "fingerprint", q.dirs = old.dirs, q.files = old.files
  PROVE  Card!PanelRows(rows, q) \in RowSets /\ RowsAt("resolve", q, Card!PanelRows(rows, q))
<1> DEFINE r == Card!PanelRows(rows, q)
<1>1. rows[2] \in Statuses
  BY DEF RowSets
<1>2. q.albums \in Nat
  BY ReportTyped
<1>3. /\ r \in RowSets
      /\ r[0] = rows[0] /\ r[1] = rows[1] /\ r[2] = Card!Finalize(rows[2], q.albums) /\ r[5] = rows[5]
      /\ r[3] \in {Card!Activate(rows[3]), Card!Startup(rows[3]), Card!Skip(rows[3])}
      /\ r[4] \in {rows[4], Card!Startup(rows[4])}
  BY PanelFingerprint
<1> HIDE DEF r
<1>4. rows[3] = "waiting" /\ rows[4] = "waiting" /\ rows[5] = "waiting"
  BY DEF RowsAt, Drawing, Fetching
<1>5. Final(r[2]) /\ r[2] # "error"
  BY <1>1, <1>3 DEF RowsAt, Final, Card!Finalize, Card!Finals
<1>6. /\ r[3] \in {"active", "startup", "skipped"} /\ r[4] \in {"waiting", "startup"}
  BY <1>3, <1>4 DEF Card!Activate, Card!Startup, Card!Skip, Card!Finals
<1>7. RowsAt("resolve", q, r)
  BY <1>3, <1>4, <1>5, <1>6 DEF RowsAt, Walking, Drawing, Matching, Fetching
<1>. QED BY <1>3, <1>7 DEF r

\* phase_artist_art, after the artwork or the resolver.
LEMMA FetchingBegins ==
  ASSUME NEW rows \in RowSets, NEW q \in Reports, NEW old \in Reports,
         NEW st \in Drawing \cup Matching, RowsAt(st, old, rows), resolving \in BOOLEAN,
         st \in Drawing => ~resolving, st \in Matching => resolving,
         q.phase = "artist_art", q.dirs = old.dirs, q.files = old.files, q.prints = old.prints
  PROVE  Card!PanelRows(rows, q) \in RowSets /\ RowsAt("art", q, Card!PanelRows(rows, q))
<1> DEFINE r == Card!PanelRows(rows, q)
<1>1. rows[3] \in Statuses /\ rows[4] \in Statuses
  BY DEF RowSets
<1>2. q.prints \in Nat /\ q.albums_done \in Nat /\ q.arts \in Nat
  BY ReportTyped
<1>3. /\ r \in RowSets
      /\ r[0] = rows[0] /\ r[1] = rows[1] /\ r[2] = rows[2]
      /\ \/ q.prints > 0 /\ r[3] = Card!Closed(rows[3], q.prints)
         \/ r[3] = Card!Skip(rows[3])
      /\ r[4] = Card!Closed(rows[4], q.albums_done) /\ r[5] = Card!Queried(rows[5], q.arts)
  BY PanelArtistArt
<1> HIDE DEF r
<1>4. rows[5] = "waiting" /\ rows[3] # "error" /\ rows[4] # "error"
  BY DEF RowsAt, Drawing, Matching, Fetching
<1>5. /\ Final(r[3]) /\ r[3] # "error" /\ (r[3] = "complete" => q.prints > 0)
  BY <1>1, <1>2, <1>3, <1>4 DEF RowsAt, Final, Card!Closed, Card!Finalize, Card!Skip, Card!Finals
<1>6. Final(r[4]) /\ r[4] # "error"
  BY <1>1, <1>2, <1>3, <1>4 DEF Final, Card!Closed, Card!Finalize, Card!Skip, Card!Finals
<1>7. r[4] = "complete" => resolving
  <2>1. SUFFICES ASSUME ~resolving PROVE r[4] # "complete"
    OBVIOUS
  <2>2. rows[4] = "waiting"
    BY <2>1 DEF RowsAt
  <2>. QED BY <1>3, <2>2 DEF Card!Closed, Card!Skip, Card!Finals
<1>8. r[5] # "error"
  BY <1>3, <1>4 DEF Card!Queried, Card!Startup, Card!Activate
<1>9. RowsAt("art", q, r)
  BY <1>3, <1>5, <1>6, <1>7, <1>8 DEF RowsAt, Walking, Drawing, Matching, Fetching
<1>. QED BY <1>3, <1>9 DEF r

\* phase_artist_bios, after the artists' pictures and what they brought.
LEMMA BiosBegin ==
  ASSUME NEW rows \in RowSets, NEW q \in Reports, NEW old \in Reports, NEW st \in Fetching,
         RowsAt(st, old, rows), resolving \in BOOLEAN,
         q.phase = "artist_bio", q.dirs = old.dirs, q.files = old.files, q.prints = old.prints
  PROVE  Card!PanelRows(rows, q) \in RowSets /\ RowsAt("bios", q, Card!PanelRows(rows, q))
<1>1. RowsAt("bios", q, rows)
  BY DEF RowsAt, Walking, Drawing, Matching, Fetching
<1>2. Phased("bios", q.phase) /\ "bios" \in Stages /\ "bios" \notin Matching
  BY DEF Phased, Stages, Matching, Fetching
<1>. QED BY <1>1, <1>2, PanelTurn

-----------------------------------------------------------------------------
(* What the handlers do to a card *)

Owed(c) == (IF c.pending_toast THEN 1 ELSE 0) + (IF ~c.shown_toast THEN 1 ELSE 0)

\* The parts of a card
LEMMA CardFields ==
  ASSUME NEW c \in CardSet
  PROVE  /\ c.rows \in RowSets /\ c.pulse \in BOOLEAN /\ c.hide \in BOOLEAN /\ c.revealed \in BOOLEAN
         /\ c.shown_toast \in BOOLEAN /\ c.pending_toast \in BOOLEAN
         /\ c.stats \in {"none", "current", "old"}
         /\ c.rows \in [0 .. 6 -> Statuses] /\ DOMAIN c.rows = 0 .. 6
BY DEF CardSet, RowSets

\* update_card_phase_panel
LEMMA PanelCard ==
  ASSUME NEW c \in CardSet, NEW q \in Reports, Card!PanelRows(c.rows, q) \in RowSets
  PROVE  LET d == Card!Panel(c, q) IN
         /\ d \in CardSet /\ d.rows = Card!PanelRows(c.rows, q)
         /\ d.hide = c.hide /\ d.revealed = c.revealed /\ Owed(d) = Owed(c)
<1> DEFINE rows == Card!PanelRows(c.rows, q)
           pulse == Card!Pulses(c, q)
           d == Card!Panel(c, q)
<1>1. pulse \in BOOLEAN
  BY CardFields, ReportTyped DEF Card!Pulses
<1>2. d = [c EXCEPT !.rows = rows, !.pulse = pulse]
  BY DEF Card!Panel
<1> HIDE DEF rows, pulse, d
<1>3. /\ d \in CardSet /\ d.rows = rows /\ d.hide = c.hide /\ d.revealed = c.revealed
      /\ d.pending_toast = c.pending_toast /\ d.shown_toast = c.shown_toast
  BY <1>1, <1>2 DEF CardSet, rows
<1>4. Owed(d) = Owed(c)
  BY <1>3 DEF Owed
<1>. QED BY <1>3, <1>4 DEF rows, d

\* on_indexer_library_updated
LEMMA UpdatedFacts ==
  ASSUME NEW c \in CardSet, NEW q \in Reports
  PROVE  LET d == Card!UpdatedCard(c, q) IN
         /\ d \in CardSet /\ d.hide = c.hide /\ d.revealed = c.revealed /\ Owed(d) <= Owed(c)
         /\ d.rows[0] = Card!Finalize(c.rows[0], q.dirs) /\ d.rows[1] = Card!Finalize(c.rows[1], q.files)
         /\ d.rows[2] = c.rows[2] /\ d.rows[3] = c.rows[3] /\ d.rows[4] = c.rows[4]
         /\ d.rows[5] = c.rows[5]
<1> DEFINE zero == Card!Finalize(c.rows[0], q.dirs)
           one == Card!Finalize(c.rows[1], q.files)
           rows == [c.rows EXCEPT ![0] = zero, ![1] = one]
           pending == c.pending_toast \/ ~c.shown_toast
           d == Card!UpdatedCard(c, q)
<1>1. /\ c.rows \in [0 .. 6 -> Statuses] /\ 0 \in 0 .. 6 /\ 1 \in 0 .. 6
      /\ c.rows[0] \in Statuses /\ c.rows[1] \in Statuses
  BY CardFields
<1>2. zero \in Statuses /\ one \in Statuses
  BY <1>1, ReportTyped, RowTyped
<1>3. d = [c EXCEPT !.pulse = FALSE, !.rows = rows, !.stats = "none", !.pending_toast = pending,
                    !.shown_toast = TRUE]
  BY DEF Card!UpdatedCard
<1>4. pending \in BOOLEAN /\ (pending => c.pending_toast \/ ~c.shown_toast)
  BY CardFields
<1> HIDE DEF zero, one, pending, d
<1>5. /\ rows \in RowSets
      /\ rows[0] = zero /\ rows[1] = one /\ rows[2] = c.rows[2] /\ rows[3] = c.rows[3]
      /\ rows[4] = c.rows[4] /\ rows[5] = c.rows[5]
  BY <1>1, <1>2 DEF RowSets
<1> HIDE DEF rows
<1>6. /\ d \in CardSet /\ d.rows = rows /\ d.hide = c.hide /\ d.revealed = c.revealed
      /\ d.pending_toast = pending /\ d.shown_toast = TRUE
  BY <1>3, <1>4, <1>5 DEF CardSet
<1>7. Owed(d) <= Owed(c)
  BY <1>4, <1>6, CardFields DEF Owed
<1>. QED BY <1>5, <1>6, <1>7 DEF zero, one, d

\* on_indexer_artwork_updated
LEMMA DrawnFacts ==
  ASSUME NEW c \in CardSet, NEW q \in Reports
  PROVE  LET d == Card!DrawnCard(c, q) IN
         /\ d \in CardSet /\ d.hide = c.hide /\ d.revealed = c.revealed /\ Owed(d) = Owed(c)
         /\ d.rows[2] = Card!Finalize(c.rows[2], q.albums)
         /\ d.rows[0] = c.rows[0] /\ d.rows[1] = c.rows[1] /\ d.rows[3] = c.rows[3]
         /\ d.rows[4] = c.rows[4] /\ d.rows[5] = c.rows[5]
<1> DEFINE two == Card!Finalize(c.rows[2], q.albums)
           rows == [c.rows EXCEPT ![2] = two]
           d == Card!DrawnCard(c, q)
<1>1. c.rows \in [0 .. 6 -> Statuses] /\ 2 \in 0 .. 6 /\ c.rows[2] \in Statuses
  BY CardFields
<1>2. two \in Statuses
  BY <1>1, ReportTyped, RowTyped
<1>3. d = [c EXCEPT !.rows = rows]
  BY DEF Card!DrawnCard
<1> HIDE DEF two, d
<1>4. /\ rows \in RowSets
      /\ rows[2] = two /\ rows[0] = c.rows[0] /\ rows[1] = c.rows[1] /\ rows[3] = c.rows[3]
      /\ rows[4] = c.rows[4] /\ rows[5] = c.rows[5]
  BY <1>1, <1>2 DEF RowSets
<1> HIDE DEF rows
<1>5. /\ d \in CardSet /\ d.rows = rows /\ d.hide = c.hide /\ d.revealed = c.revealed
      /\ d.pending_toast = c.pending_toast /\ d.shown_toast = c.shown_toast
  BY <1>3, <1>4 DEF CardSet
<1>6. Owed(d) = Owed(c)
  BY <1>5 DEF Owed
<1>. QED BY <1>4, <1>5, <1>6 DEF two, d

\* on_indexer_started
LEMMA StartedFacts ==
  ASSUME NEW c \in CardSet
  PROVE  LET d == Card!StartedCard(c) IN
         /\ d \in CardSet /\ ~d.hide /\ d.revealed /\ ~d.shown_toast
         /\ d.pending_toast = c.pending_toast
         /\ d.rows[0] = "active" /\ d.rows[1] = "waiting" /\ d.rows[2] = "waiting"
         /\ d.rows[3] = "waiting" /\ d.rows[4] = "waiting" /\ d.rows[5] = "waiting"
<1> DEFINE at(k) == IF k < 6 THEN "waiting" ELSE c.rows[k]
           reset == [k \in 0 .. 6 |-> at(k)]
           rows == [reset EXCEPT ![0] = "active"]
           d == Card!StartedCard(c)
<1>1. \A k \in 0 .. 6 : at(k) \in Statuses
  BY CardFields DEF Statuses
<1>2. /\ at(0) = "waiting" /\ at(1) = "waiting" /\ at(2) = "waiting" /\ at(3) = "waiting"
      /\ at(4) = "waiting" /\ at(5) = "waiting"
  OBVIOUS
<1>3. Card!ResetRows(c.rows) = reset
  BY DEF Card!ResetRows, Card!PhaseRows
<1>4. /\ reset \in RowSets /\ reset[0] = "waiting" /\ reset[1] = "waiting" /\ reset[2] = "waiting"
      /\ reset[3] = "waiting" /\ reset[4] = "waiting" /\ reset[5] = "waiting"
  BY <1>1, <1>2 DEF RowSets
<1> HIDE DEF at, reset
<1>5. "active" \in Statuses
  BY DEF Statuses
<1>6. /\ rows \in RowSets /\ rows[0] = "active" /\ rows[1] = "waiting" /\ rows[2] = "waiting"
      /\ rows[3] = "waiting" /\ rows[4] = "waiting" /\ rows[5] = "waiting"
  BY <1>4, <1>5 DEF RowSets
<1>7. Card!Activate(reset[0]) = "active"
  BY <1>4 DEF Card!Activate
<1>8. d = [c EXCEPT !.hide = FALSE, !.shown_toast = FALSE, !.revealed = TRUE, !.pulse = TRUE,
                    !.rows = rows]
  BY <1>3, <1>7 DEF Card!StartedCard
<1> HIDE DEF rows, d
<1>9. /\ d \in CardSet /\ ~d.hide /\ d.revealed /\ ~d.shown_toast
      /\ d.pending_toast = c.pending_toast /\ d.rows = rows
  BY <1>6, <1>8 DEF CardSet
<1>. QED BY <1>6, <1>9 DEF d

\* on_indexer_done
LEMMA DoneFacts ==
  ASSUME NEW c \in CardSet, NEW q \in Reports, NEW success \in BOOLEAN
  PROVE  LET d == Card!DoneCard(c, q, success) IN
         /\ d \in CardSet /\ d.hide /\ ~d.pulse /\ d.revealed = c.revealed
         /\ d.pending_toast = c.pending_toast /\ d.shown_toast = c.shown_toast
         /\ success =>
              /\ d.rows[0] = c.rows[0] /\ d.rows[1] = c.rows[1] /\ d.rows[2] = c.rows[2]
              /\ d.rows[3] = IF q.acoustid_error THEN "error" ELSE Card!Finalize(c.rows[3], q.prints)
              /\ d.rows[4] = IF q.pg_error THEN "error" ELSE Card!Finalize(c.rows[4], q.albums_done)
              /\ d.rows[5] = IF q.fanart_error THEN "error" ELSE Card!Finalize(c.rows[5], q.downloaded)
              /\ d.rows[6] = Card!Finalize(c.rows[6], q.fetched)
<1> DEFINE three == IF q.acoustid_error THEN "error" ELSE Card!Finalize(c.rows[3], q.prints)
           four == IF q.pg_error THEN "error" ELSE Card!Finalize(c.rows[4], q.albums_done)
           five == IF q.fanart_error THEN "error" ELSE Card!Finalize(c.rows[5], q.downloaded)
           six == Card!Finalize(c.rows[6], q.fetched)
           at(k) == IF k >= 3 THEN "error" ELSE c.rows[k]
           failed == [k \in 0 .. 6 |-> at(k)]
           ended == [c.rows EXCEPT ![3] = three, ![4] = four, ![5] = five, ![6] = six]
           rows == IF ~success THEN failed ELSE ended
           d == Card!DoneCard(c, q, success)
<1>1. /\ c.rows \in [0 .. 6 -> Statuses] /\ 3 \in 0 .. 6 /\ 4 \in 0 .. 6 /\ 5 \in 0 .. 6 /\ 6 \in 0 .. 6
      /\ c.rows[3] \in Statuses /\ c.rows[4] \in Statuses /\ c.rows[5] \in Statuses
      /\ c.rows[6] \in Statuses
  BY CardFields
<1>2. "error" \in Statuses
  BY DEF Statuses
<1>3. three \in Statuses /\ four \in Statuses /\ five \in Statuses /\ six \in Statuses
  BY <1>1, <1>2, ReportTyped, RowTyped
<1>4. \A k \in 0 .. 6 : at(k) \in Statuses
  BY <1>1, <1>2
<1>5. d = [c EXCEPT !.pulse = FALSE, !.hide = TRUE, !.stats = "none", !.rows = rows]
  BY DEF Card!DoneCard, Card!PhaseRows
<1> HIDE DEF three, four, five, six, at, d
<1>6. failed \in RowSets
  BY <1>4 DEF RowSets
<1>7. /\ ended \in RowSets /\ ended[0] = c.rows[0] /\ ended[1] = c.rows[1] /\ ended[2] = c.rows[2]
      /\ ended[3] = three /\ ended[4] = four /\ ended[5] = five /\ ended[6] = six
  BY <1>1, <1>3 DEF RowSets
<1> HIDE DEF failed, ended
<1>8. rows \in RowSets /\ (success => rows = ended)
  BY <1>6, <1>7
<1> HIDE DEF rows
<1>9. /\ d \in CardSet /\ d.hide /\ ~d.pulse /\ d.revealed = c.revealed
      /\ d.pending_toast = c.pending_toast /\ d.shown_toast = c.shown_toast /\ d.rows = rows
  BY <1>5, <1>8 DEF CardSet
<1>. QED BY <1>7, <1>8, <1>9 DEF three, four, five, six, d

\* A card made anew
LEMMA NewFacts ==
  /\ Card!NewCard \in CardSet /\ ~Card!NewCard.pulse /\ ~Card!NewCard.hide /\ ~Card!NewCard.revealed
  /\ ~Card!NewCard.pending_toast /\ ~Card!NewCard.shown_toast
<1> DEFINE rows == [k \in 0 .. 6 |-> "waiting"]
<1>1. rows \in RowSets
  BY DEF RowSets, Statuses
<1>2. Card!NewCard = [rows |-> rows, pulse |-> FALSE, hide |-> FALSE, revealed |-> FALSE,
                      shown_toast |-> FALSE, pending_toast |-> FALSE, stats |-> "none"]
  BY DEF Card!NewCard, Card!PhaseRows
<1> HIDE DEF rows
<1>. QED BY <1>1, <1>2 DEF CardSet

-----------------------------------------------------------------------------
(* What a step of the worker within a scan keeps *)

LEMMA PanelTyped ==
  ASSUME NEW rows \in RowSets, NEW q \in Reports
  PROVE  Card!PanelRows(rows, q) \in RowSets
<1> DEFINE zero == IF rows[0] = "waiting" THEN Card!Activate(rows[0]) ELSE rows[0]
           fin0 == Card!Finalize(rows[0], q.dirs)
           one == IF q.files = 0 THEN Card!Skip(rows[1])
                  ELSE IF rows[1] = "waiting" THEN Card!Activate(rows[1]) ELSE rows[1]
           fin1 == Card!Finalize(rows[1], q.files)
           two == IF q.albums = 0 THEN Card!Skip(rows[2])
                  ELSE IF rows[2] = "waiting" THEN Card!Activate(rows[2]) ELSE rows[2]
<1>1. /\ rows[0] \in Statuses /\ rows[1] \in Statuses /\ rows[2] \in Statuses
      /\ rows \in [0 .. 6 -> Statuses]
  BY DEF RowSets
<1>2. /\ zero \in Statuses /\ fin0 \in Statuses /\ one \in Statuses /\ fin1 \in Statuses
      /\ two \in Statuses
  BY <1>1, ReportTyped, RowTyped
<1>3. q.phase = "scanning" => Card!PanelRows(rows, q) = [rows EXCEPT ![0] = zero]
  BY PanelScanning
<1>4. q.phase = "metadata" => Card!PanelRows(rows, q) = [rows EXCEPT ![0] = fin0, ![1] = one]
  BY PanelMetadata
<1>5. q.phase = "artwork" => Card!PanelRows(rows, q) = [rows EXCEPT ![1] = fin1, ![2] = two]
  BY PanelArtwork
<1> HIDE DEF zero, fin0, one, fin1, two
<1>6. q.phase \in {"scanning", "metadata", "artwork"} => Card!PanelRows(rows, q) \in RowSets
  BY <1>1, <1>2, <1>3, <1>4, <1>5 DEF RowSets
<1>7. q.phase \in {"scanning", "metadata", "finalize", "artwork", "fingerprint", "resolve", "artist_art",
                   "artist_bio"}
  BY DEF Reports
<1>. QED
  BY <1>6, <1>7, PanelFinalize, PanelFingerprint, PanelResolve, PanelArtistArt, PanelArtistBio

\* A card that was changed as the worker's reports change it.
Follows(c, d) ==
    d \in CardSet /\ d.hide = c.hide /\ d.revealed = c.revealed /\ Owed(d) <= Owed(c)

LEMMA FollowsItself ==
  ASSUME NEW c \in CardSet
  PROVE  Follows(c, c) /\ Owed(c) \in Nat
BY CardFields DEF Follows, Owed

SameEntry ==
    /\ resolving' = resolving /\ scans' = scans /\ rebuilds' = rebuilds /\ rebuilt' = rebuilt
    /\ toasts' = toasts /\ succeeded' = succeeded

LoadsTyped == loads \in Seq({"before", "after"}) /\ newest_shown \in BOOLEAN /\ late \in BOOLEAN

\* A step of the worker from one stage of a scan to the next.
Turn ==
    /\ stage # "none" /\ stage' \in Stages \ {"none"} /\ report' \in Reports /\ StageInv'
    /\ SameEntry /\ LoadsTyped'
    /\ card' # None =>
          /\ card # None /\ Follows(card, card')
          /\ ~rebuilt => RowsAt(stage', report', card'.rows)

LEMMA TurnKeeps ==
  ASSUME CardInv, Turn
  PROVE  CardInv'
<1>1. /\ stage # "none" /\ stage' \in Stages /\ stage' # "none" /\ report' \in Reports /\ StageInv'
      /\ LoadsTyped'
  BY DEF Turn
<1>2. /\ resolving' = resolving /\ scans' = scans /\ rebuilds' = rebuilds /\ rebuilt' = rebuilt
      /\ toasts' = toasts /\ succeeded' = succeeded
  BY DEF Turn, SameEntry
<1>3. ASSUME card' # None
      PROVE  /\ card # None /\ card' \in CardSet /\ card'.hide = card.hide
             /\ card'.revealed = card.revealed /\ Owed(card') <= Owed(card)
             /\ ~rebuilt => RowsAt(stage', report', card'.rows)
  BY <1>3 DEF Turn, Follows
<1>4. CardTyped /\ ToastInv /\ Card!PanelAndTimers
  BY DEF CardInv
<1>5. CardTyped'
  BY SMTT(30), <1>1, <1>2, <1>3, <1>4 DEF CardTyped, LoadsTyped
<1>6. RowsInv'
  BY <1>2, <1>3 DEF RowsInv, RowsAt, Final
<1>7. WordsInv' /\ StatsInv'
  BY <1>1 DEF WordsInv, StatsInv
<1>8. ToastInv'
  <2>1. toasts \in Nat /\ scans \in Nat /\ rebuilds \in Nat /\ toasts <= scans + rebuilds
    BY <1>4 DEF CardTyped, ToastInv
  <2>2. toasts' <= scans' + rebuilds'
    BY <1>2, <2>1
  <2>3. ASSUME card' # None
        PROVE  toasts' + (IF card'.pending_toast THEN 1 ELSE 0)
                 + (IF stage' # "none" /\ ~card'.shown_toast THEN 1 ELSE 0) <= scans' + rebuilds'
    <3>1. card # None /\ card \in CardSet /\ card' \in CardSet /\ Owed(card') <= Owed(card)
      BY <1>3, <1>4, <2>3 DEF CardTyped
    <3>2. Owed(card) \in Nat /\ Owed(card') \in Nat
      BY <3>1, FollowsItself
    <3>3. toasts + Owed(card) <= scans + rebuilds
      BY <1>1, <1>4, <2>1, <3>1 DEF ToastInv, Owed
    <3>4. toasts + Owed(card') <= scans + rebuilds
      BY <2>1, <3>1, <3>2, <3>3
    <3>. QED BY SMTT(30), <1>1, <1>2, <2>1, <3>4 DEF Owed
  <2>. QED BY <2>2, <2>3 DEF ToastInv
<1>9. Card!PanelAndTimers'
  <2>1. card' # None => card'.revealed = card.revealed /\ card'.hide = card.hide /\ card # None
    BY <1>3
  <2>. QED BY SMTT(30), <1>1, <1>2, <1>4, <2>1 DEF Card!PanelAndTimers
<1>. QED BY <1>1, <1>5, <1>6, <1>7, <1>8, <1>9 DEF CardInv

\* What the invariant says of a card while the worker is in a scan.
LEMMA InScan ==
  ASSUME CardInv, stage # "none"
  PROVE  /\ stage \in Stages /\ report \in Reports /\ resolving \in BOOLEAN /\ LoadsTyped
         /\ Phased(stage, report.phase) /\ (stage \in Matching => resolving)
         /\ (stage = "resolve" /\ report.albums = 0 => report.prints = 0)
         /\ card # None => /\ card \in CardSet /\ card.rows \in RowSets
                           /\ ~rebuilt => RowsAt(stage, report, card.rows)
<1>1. CardTyped /\ StageInv /\ RowsInv
  BY DEF CardInv
<1>2. card # None => card \in CardSet
  BY <1>1 DEF CardTyped
<1>. QED BY <1>1, <1>2, CardFields DEF CardTyped, StageInv, RowsInv, LoadsTyped

\* A report that is dropped, or a step without one.
LEMMA QuietTurn ==
  ASSUME CardInv, stage # "none", stage' \in Stages \ {"none"}, report' \in Reports, StageInv',
         SameEntry, LoadsTyped', card' = card,
         \A rows \in RowSets :
            RowsAt(stage, report, rows) => RowsAt(stage', report', rows)
  PROVE  Turn
BY InScan, FollowsItself DEF Turn

\* The loads stay, or may have read before the commit.
LEMMA LoadsStay ==
  ASSUME LoadsTyped, Card!NoLoad
  PROVE  LoadsTyped'
BY DEF LoadsTyped, Card!NoLoad

LEMMA LoadsCommitted ==
  ASSUME LoadsTyped, loads' = Card!Commit, UNCHANGED <<newest_shown, late>>
  PROVE  LoadsTyped'
<1>1. Card!Commit \in Seq({"before", "after"})
  BY DEF LoadsTyped, Card!Commit
<1>. QED BY <1>1 DEF LoadsTyped

LEMMA LoadsGrow ==
  ASSUME LoadsTyped, Card!LoadStats
  PROVE  LoadsTyped'
<1>1. "after" \in {"before", "after"}
  OBVIOUS
<1>2. loads \in Seq({"before", "after"})
  BY DEF LoadsTyped
<1>3. Append(loads, "after") \in Seq({"before", "after"})
  BY <1>1, <1>2
<1>. QED BY <1>3 DEF LoadsTyped, Card!LoadStats

-----------------------------------------------------------------------------
(* The steps of the worker within a scan *)

\* notify_progress_throttled
LEMMA ReportTurn ==
  ASSUME CardInv, Card!Report
  PROVE  Turn
<1> DEFINE d == Card!Panel(card, report)
<1>1. /\ stage # "none" /\ card # None /\ card' = d
      /\ stage' = stage /\ report' = report /\ resolving' = resolving
  BY DEF Card!Report
<1>2. SameEntry /\ Card!NoLoad
  BY DEF Card!Report, Card!SameBounds, SameEntry
<1>3. /\ stage \in Stages /\ report \in Reports /\ resolving \in BOOLEAN /\ LoadsTyped
      /\ Phased(stage, report.phase) /\ (stage \in Matching => resolving)
      /\ card \in CardSet /\ card.rows \in RowSets
      /\ ~rebuilt => RowsAt(stage, report, card.rows)
  BY <1>1, InScan
<1>4. /\ d \in CardSet /\ d.rows = Card!PanelRows(card.rows, report)
      /\ d.hide = card.hide /\ d.revealed = card.revealed /\ Owed(d) = Owed(card)
  BY SMTT(30), <1>3, PanelTyped, PanelCard
<1>5. Owed(card) \in Nat
  BY <1>3, FollowsItself
<1> HIDE DEF d
<1>6. Follows(card, d)
  BY <1>4, <1>5 DEF Follows
<1>7. ~rebuilt => RowsAt(stage, report, d.rows)
  BY <1>1, <1>3, <1>4, PanelTurn
<1>8. StageInv'
  BY <1>1 DEF CardInv, StageInv
<1>9. RowsAt(stage, report, d.rows) => RowsAt(stage', report', card'.rows)
  BY <1>1
<1>. QED BY <1>1, <1>2, <1>3, <1>6, <1>7, <1>8, <1>9, LoadsStay DEF Turn

\* What an unreported advance of the worker says.
LEMMA Advanced ==
  ASSUME NEW from, NEW to, NEW q, Card!Advance(from, to, q, FALSE)
  PROVE  stage = from /\ stage' = to /\ report' = q /\ card' = card /\ SameEntry
BY DEF Card!Advance, Card!Handle, Card!SameBounds, SameEntry

\* phase_scan and phase_metadata
LEMMA ScanDirsTurn ==
  ASSUME CardInv, NEW n \in 0 .. 1, NEW m \in 0 .. n, Card!ScanDirs(n, m)
  PROVE  Turn
<1> DEFINE q == [report EXCEPT !.phase = "metadata", !.dirs = n, !.files = m]
<1>1. /\ stage = "scanning" /\ stage' = "metadata" /\ report' = q /\ card' = card /\ SameEntry
      /\ Card!NoLoad
  BY Advanced DEF Card!ScanDirs
<1>2. report \in Reports /\ LoadsTyped
  BY <1>1, InScan
<1>3. n \in Nat /\ m \in Nat
  OBVIOUS
<1>4. q \in Reports /\ q.phase = "metadata" /\ q.prints = report.prints
  BY <1>2, <1>3 DEF Reports
<1> HIDE DEF q
<1>5. StageInv'
  BY <1>1, <1>4 DEF StageInv, Phased, Walking, Drawing, Matching, Fetching
<1>6. stage' \in Stages \ {"none"} /\ stage # "none"
  BY <1>1 DEF Stages, Walking
<1>7. ASSUME NEW rows \in RowSets, RowsAt("scanning", report, rows)
      PROVE  RowsAt("metadata", q, rows)
  BY <1>4, <1>7 DEF RowsAt, Final, Walking, Drawing, Matching, Fetching
<1>8. SameEntry => resolving' = resolving
  BY DEF SameEntry
<1>9. \A rows \in RowSets : RowsAt(stage, report, rows) => RowsAt(stage', report', rows)
  BY SMTT(30), <1>1, <1>7, <1>8 DEF RowsAt, Final
<1>. QED BY <1>1, <1>2, <1>4, <1>5, <1>6, <1>9, LoadsStay, QuietTurn

\* Within the walk, the artwork, the resolver or the artists the rows say the same.
Within(st, to) ==
    \/ st \in Walking /\ to \in Walking
    \/ st \in Drawing /\ to \in Drawing
    \/ st \in Matching /\ to \in Matching
    \/ st \in Fetching /\ to \in Fetching

LEMMA SameClass ==
  ASSUME NEW st, NEW to, NEW q, NEW r, NEW rows, RowsAt(st, q, rows),
         Within(st, to),
         r.dirs = q.dirs, r.files = q.files, r.prints = q.prints
  PROVE  RowsAt(to, r, rows)
BY DEF RowsAt, Final, Within, Walking, Drawing, Matching, Fetching

\* A step without a report within the walk, the artwork, the resolver or the artists.
LEMMA QuietInClass ==
  ASSUME CardInv, stage # "none", report' \in Reports, StageInv', SameEntry, LoadsTyped', card' = card,
         Within(stage, stage'),
         report'.dirs = report.dirs, report'.files = report.files, report'.prints = report.prints
  PROVE  Turn
<1>1. \A rows \in RowSets : RowsAt(stage, report, rows) => RowsAt(stage', report', rows)
  BY SameClass
<1>2. stage' \in Stages \ {"none"}
  BY DEF Stages, Within, Walking, Drawing, Matching, Fetching
<1>. QED BY <1>1, <1>2, QuietTurn

\* phase_finalize
LEMMA FinalizeTurn ==
  ASSUME CardInv, Card!FinalizeScan
  PROVE  Turn
<1> DEFINE q == [report EXCEPT !.phase = "finalize"]
<1>1. /\ stage = "metadata" /\ stage' = "finalized" /\ report' = q /\ card' = card /\ SameEntry
      /\ loads' = Card!Commit /\ UNCHANGED <<newest_shown, late>>
  BY Advanced DEF Card!FinalizeScan
<1>2. report \in Reports /\ LoadsTyped
  BY <1>1, InScan
<1>3. /\ q \in Reports /\ q.phase = "finalize" /\ q.dirs = report.dirs /\ q.files = report.files
      /\ q.prints = report.prints
  BY <1>2 DEF Reports
<1> HIDE DEF q
<1>4. StageInv'
  BY <1>1, <1>3 DEF StageInv, Phased, Walking, Drawing, Matching, Fetching
<1>5. LoadsTyped'
  BY <1>1, <1>2, LoadsCommitted
<1>6. Within(stage, stage')
  BY <1>1 DEF Within, Walking
<1>. QED BY <1>1, <1>3, <1>4, <1>5, <1>6, QuietInClass

\* phase_artwork
LEMMA DrawTurn ==
  ASSUME CardInv, NEW from, NEW to,
         (from = "updated" /\ to = "drawing") \/ (from \in {"fetched", "shown"} /\ to = "redrawing"),
         Card!DrawAlbums(from, to)
  PROVE  Turn
<1> DEFINE q == [report EXCEPT !.phase = "artwork", !.albums = 1, !.albums_done = 0]
<1>1. /\ stage = from /\ stage' = to /\ report' = q /\ card' = card /\ SameEntry /\ Card!NoLoad
  BY Advanced DEF Card!DrawAlbums
<1>2. stage # "none"
  BY <1>1
<1>3. report \in Reports /\ LoadsTyped
  BY <1>2, InScan
<1>4. /\ q \in Reports /\ q.phase = "artwork" /\ q.dirs = report.dirs /\ q.files = report.files
      /\ q.prints = report.prints
  BY <1>3 DEF Reports
<1> HIDE DEF q
<1>5. StageInv'
  BY <1>1, <1>4 DEF StageInv, Phased, Walking, Drawing, Matching, Fetching
<1>6. Within(stage, stage')
  BY <1>1 DEF Within, Drawing, Fetching
<1>. QED BY <1>1, <1>2, <1>3, <1>4, <1>5, <1>6, LoadsStay, QuietInClass

\* The albums are drawn.
LEMMA AlbumsDrawnTurn ==
  ASSUME CardInv, Card!AlbumsDrawn
  PROVE  Turn
<1>1. /\ stage \in {"drawing", "redrawing"} /\ stage' = stage /\ card' = card /\ SameEntry /\ Card!NoLoad
  BY DEF Card!AlbumsDrawn, Card!SameBounds, SameEntry
<1>2. stage # "none"
  BY <1>1
<1>3. report \in Reports /\ LoadsTyped
  BY <1>2, InScan
<1>4. /\ report' \in Reports /\ report'.phase = report.phase /\ report'.dirs = report.dirs
      /\ report'.files = report.files /\ report'.prints = report.prints
      /\ report'.albums = report.albums
  BY <1>3 DEF Card!AlbumsDrawn, Reports
<1>5. StageInv'
  BY <1>1, <1>4 DEF CardInv, StageInv, SameEntry
<1>6. Within(stage, stage')
  BY <1>1 DEF Within, Drawing, Fetching
<1>. QED BY <1>1, <1>2, <1>3, <1>4, <1>5, <1>6, LoadsStay, QuietInClass

\* Artists are asked for, pictures downloaded.
LEMMA ArtistArtTurn ==
  ASSUME CardInv, Card!ArtistArt
  PROVE  Turn
<1>1. /\ stage \in {"art"} /\ stage' = stage /\ card' = card /\ SameEntry /\ Card!NoLoad
  BY DEF Card!ArtistArt, Card!SameBounds, SameEntry
<1>2. stage # "none"
  BY SMTT(30), <1>1
<1>3. report \in Reports /\ LoadsTyped
  BY <1>2, InScan
<1>4. /\ report' \in Reports /\ report'.phase = report.phase /\ report'.dirs = report.dirs
      /\ report'.files = report.files /\ report'.prints = report.prints
      /\ report'.albums = report.albums
  <2>1. PICK n \in {report.downloaded, 1} : report' = [report EXCEPT !.arts = 1, !.downloaded = n]
    BY DEF Card!ArtistArt
  <2>2. n \in Nat
    BY <1>3, ReportTyped
  <2>. QED BY <1>3, <2>1, <2>2 DEF Reports
<1>5. StageInv'
  BY <1>1, <1>4 DEF CardInv, StageInv, SameEntry
<1>6. Within(stage, stage')
  BY <1>1 DEF Within, Drawing, Fetching
<1>. QED BY <1>1, <1>2, <1>3, <1>4, <1>5, <1>6, LoadsStay, QuietInClass

\* Biographies are asked for.
LEMMA BiosTurn ==
  ASSUME CardInv, Card!Bios
  PROVE  Turn
<1>1. /\ stage \in {"bios"} /\ stage' = stage /\ card' = card /\ SameEntry /\ Card!NoLoad
  BY DEF Card!Bios, Card!SameBounds, SameEntry
<1>2. stage # "none"
  BY <1>1
<1>3. report \in Reports /\ LoadsTyped
  BY <1>2, InScan
<1>4. /\ report' \in Reports /\ report'.phase = report.phase /\ report'.dirs = report.dirs
      /\ report'.files = report.files /\ report'.prints = report.prints
      /\ report'.albums = report.albums
  BY <1>3 DEF Card!Bios, Reports
<1>5. StageInv'
  BY <1>1, <1>4 DEF CardInv, StageInv, SameEntry
<1>6. Within(stage, stage')
  BY <1>1 DEF Within, Drawing, Fetching
<1>. QED BY <1>1, <1>2, <1>3, <1>4, <1>5, <1>6, LoadsStay, QuietInClass

\* The artists have all been asked for.
LEMMA EndArtTurn ==
  ASSUME CardInv, NEW failed \in BOOLEAN, Card!EndArtistArt(failed)
  PROVE  Turn
<1> DEFINE q == [report EXCEPT !.fanart_error = failed]
<1>1. /\ stage = "art" /\ stage' = "fetched" /\ report' = q /\ card' = card /\ SameEntry
      /\ Card!NoLoad
  BY Advanced DEF Card!EndArtistArt
<1>2. report \in Reports /\ LoadsTyped /\ Phased(stage, report.phase)
  BY <1>1, InScan
<1>3. /\ q \in Reports /\ q.phase = report.phase /\ q.dirs = report.dirs /\ q.files = report.files
      /\ q.prints = report.prints
  BY <1>2 DEF Reports
<1> HIDE DEF q
<1>4. StageInv'
  BY <1>1, <1>2, <1>3 DEF StageInv, Phased, Walking, Drawing, Matching, Fetching
<1>5. Within(stage, stage')
  BY <1>1 DEF Within, Fetching
<1>. QED BY <1>1, <1>2, <1>3, <1>4, <1>5, LoadsStay, QuietInClass

\* on_mb_resolver_progress
LEMMA ResolvingTurn ==
  ASSUME CardInv, Card!Resolving
  PROVE  Turn
<1>1. /\ stage = "resolve" /\ stage' = stage /\ card' = card /\ SameEntry /\ Card!NoLoad
      /\ report.albums > 0
  BY DEF Card!Resolving, Card!SameBounds, SameEntry
<1>2. report \in Reports /\ LoadsTyped /\ resolving
  BY <1>1, InScan DEF Matching
<1>3. PICK phase \in {"fingerprint", "resolve"}, n \in {report.albums_done, 1},
           m \in {report.prints_done, report.prints} :
         report' = [report EXCEPT !.phase = phase, !.albums_done = n, !.prints_done = m]
  BY DEF Card!Resolving
<1>4. n \in Nat /\ m \in Nat /\ report.albums \in Nat
  BY <1>2, ReportTyped
<1>5. /\ report' \in Reports /\ report'.phase = phase /\ report'.dirs = report.dirs
      /\ report'.files = report.files /\ report'.prints = report.prints
      /\ report'.albums = report.albums
  BY <1>2, <1>3, <1>4 DEF Reports
<1>6. StageInv'
  BY <1>1, <1>2, <1>4, <1>5 DEF StageInv, Phased, SameEntry, Walking, Drawing, Matching, Fetching
<1>7. Within(stage, stage')
  BY <1>1 DEF Within, Matching
<1>. QED BY <1>1, <1>2, <1>5, <1>6, <1>7, LoadsStay, QuietInClass

\* The resolver has ended.
LEMMA EndResolveTurn ==
  ASSUME CardInv, Card!EndResolve
  PROVE  Turn
<1> DEFINE wanted == report.prints > 0
           none == report.albums = 0
<1>0. wanted \in BOOLEAN /\ none \in BOOLEAN
  OBVIOUS
<1> HIDE DEF wanted, none
<1>1. PICK offline \in {FALSE, wanted}, failed \in {FALSE, none} :
         Card!Advance("resolve", "resolved",
                      [report EXCEPT !.acoustid_error = offline, !.pg_error = failed], FALSE)
  BY DEF Card!EndResolve, wanted, none
<1> DEFINE q == [report EXCEPT !.acoustid_error = offline, !.pg_error = failed]
<1>2. /\ stage = "resolve" /\ stage' = "resolved" /\ report' = q /\ card' = card /\ SameEntry
  BY <1>1, Advanced
<1>3. loads' = Card!Commit /\ UNCHANGED <<newest_shown, late>>
  BY DEF Card!EndResolve
<1>4. /\ report \in Reports /\ LoadsTyped /\ resolving /\ Phased(stage, report.phase)
  BY <1>2, InScan DEF Matching
<1>5. offline \in BOOLEAN /\ failed \in BOOLEAN
  BY <1>0
<1>6. /\ q \in Reports /\ q.phase = report.phase /\ q.dirs = report.dirs /\ q.files = report.files
      /\ q.prints = report.prints
  BY <1>4, <1>5 DEF Reports
<1> HIDE DEF q
<1>7. StageInv'
  BY <1>2, <1>4, <1>6 DEF StageInv, Phased, SameEntry, Walking, Drawing, Matching, Fetching
<1>8. LoadsTyped'
  BY <1>3, <1>4, LoadsCommitted
<1>9. Within(stage, stage')
  BY <1>2 DEF Within, Matching
<1>. QED BY <1>2, <1>6, <1>7, <1>8, <1>9, QuietInClass

\* mb_resolver_run has triaged the albums: fingerprints are wanted, none is there yet.
LEMMA TriageTurn ==
  ASSUME CardInv, NEW prints \in 0 .. 1, Card!Triage(prints)
  PROVE  Turn
<1> DEFINE q == [report EXCEPT !.albums = 1, !.prints = prints]
<1>1. /\ stage = "resolve" /\ stage' = "resolve" /\ report' = q /\ card' = card /\ SameEntry
      /\ report.albums = 0 /\ Card!NoLoad
  BY Advanced DEF Card!Triage
<1>2. /\ report \in Reports /\ LoadsTyped /\ resolving /\ Phased(stage, report.phase)
      /\ report.prints = 0
  BY <1>1, InScan DEF Matching
<1>3. prints \in Nat
  OBVIOUS
<1>4. /\ q \in Reports /\ q.phase = report.phase /\ q.dirs = report.dirs /\ q.files = report.files
      /\ q.albums = 1
  BY <1>2, <1>3 DEF Reports
<1> HIDE DEF q
<1>5. StageInv'
  BY <1>1, <1>2, <1>4 DEF StageInv, Phased, SameEntry, Walking, Drawing, Matching, Fetching
<1>6. stage' \in Stages \ {"none"} /\ stage # "none"
  BY <1>1 DEF Stages, Matching
<1>7. ASSUME NEW rows \in RowSets, RowsAt("resolve", report, rows)
      PROVE  RowsAt("resolve", q, rows)
  BY <1>2, <1>4, <1>7 DEF RowsAt, Final
<1>8. \A rows \in RowSets : RowsAt(stage, report, rows) => RowsAt(stage', report', rows)
  BY <1>1, <1>7
<1>. QED BY <1>1, <1>2, <1>4, <1>5, <1>6, <1>8, LoadsStay, QuietTurn

\* What a step says in which a handler finds the card.
LEMMA Handled ==
  ASSUME CardInv, stage # "none", stage' \in Stages \ {"none"}, report' \in Reports, StageInv',
         SameEntry, LoadsTyped', NEW d, Card!Handle(d),
         card # None => Follows(card, d),
         card # None /\ ~rebuilt => RowsAt(stage', report', d.rows)
  PROVE  Turn
<1>1. card' # None => card # None /\ card' = d
  BY DEF Card!Handle
<1>2. ASSUME card' # None
      PROVE  card # None /\ Follows(card, card') /\ (~rebuilt => RowsAt(stage', report', card'.rows))
  BY <1>1, <1>2
<1>. QED BY <1>2 DEF Turn

\* INDEXER_LIBRARY_UPDATED after the scan and after the resolver
LEMMA LibraryUpdatedTurn ==
  ASSUME CardInv, NEW from, NEW to,
         (from = "finalized" /\ to = "updated") \/ (from = "resolved" /\ to = "described"),
         Card!LibraryUpdated(from, to)
  PROVE  Turn
<1> DEFINE d == Card!UpdatedCard(card, report)
<1>1. /\ stage = from /\ stage' = to /\ report' = report /\ Card!Handle(d) /\ SameEntry
      /\ Card!LoadStats
  BY DEF Card!LibraryUpdated, Card!SameBounds, SameEntry
<1>2. stage # "none" /\ stage' \in Stages \ {"none"}
  BY <1>1 DEF Stages, Drawing, Matching
<1>3. /\ report \in Reports /\ LoadsTyped /\ Phased(stage, report.phase)
      /\ stage \in Matching => resolving
      /\ card # None => /\ card \in CardSet /\ card.rows \in RowSets
                        /\ ~rebuilt => RowsAt(stage, report, card.rows)
  BY <1>2, InScan
<1>4. StageInv'
  BY <1>1, <1>3 DEF StageInv, SameEntry, Phased, Walking, Drawing, Matching, Fetching
<1>5. card # None =>
         /\ d \in CardSet /\ d.hide = card.hide /\ d.revealed = card.revealed /\ Owed(d) <= Owed(card)
         /\ d.rows[0] = Card!Finalize(card.rows[0], report.dirs)
         /\ d.rows[1] = Card!Finalize(card.rows[1], report.files)
         /\ d.rows[2] = card.rows[2] /\ d.rows[3] = card.rows[3] /\ d.rows[4] = card.rows[4]
         /\ d.rows[5] = card.rows[5]
  BY <1>3, UpdatedFacts
<1>6. card # None => Follows(card, d)
  BY <1>5 DEF Follows
<1> HIDE DEF d
<1>7. ASSUME card # None, ~rebuilt
      PROVE  RowsAt(to, report, d.rows)
  <2>1. RowsAt(from, report, card.rows)
    BY <1>1, <1>3, <1>7
  <2>2. /\ card.rows[0] \in Statuses /\ card.rows[1] \in Statuses
        /\ report.dirs \in Nat /\ report.files \in Nat
    BY <1>3, <1>7, ReportTyped DEF RowSets
  <2>3. /\ Final(d.rows[0]) /\ d.rows[0] \notin {"error", "waiting"}
        /\ (d.rows[0] = "complete" <=> report.dirs > 0)
    BY SMTT(30), <1>5, <1>7, <2>1, <2>2 DEF RowsAt, Final, Card!Finalize, Card!Finals
  <2>4. /\ Final(d.rows[1]) /\ d.rows[1] # "error"
        /\ (d.rows[1] = "complete" <=> report.files > 0)
    BY <1>5, <1>7, <2>1, <2>2 DEF RowsAt, Final, Card!Finalize, Card!Finals
  <2>. QED BY <1>5, <1>7, <2>1, <2>3, <2>4 DEF RowsAt, Walking, Drawing, Matching, Fetching
<1>8. card # None /\ ~rebuilt => RowsAt(stage', report', d.rows)
  BY <1>1, <1>7
<1>. QED BY <1>1, <1>2, <1>3, <1>4, <1>6, <1>8, LoadsGrow, Handled

\* INDEXER_ARTWORK_UPDATED
LEMMA ArtworkUpdatedTurn ==
  ASSUME CardInv, NEW from, NEW to,
         \/ from \in {"updated", "drawing"} /\ to = "drawn"
         \/ from = "fetched" /\ to = "shown"
         \/ from = "redrawing" /\ to = "redrawn",
         Card!ArtworkUpdated(from, to)
  PROVE  Turn
<1> DEFINE d == Card!DrawnCard(card, report)
<1>1. /\ stage = from /\ stage' = to /\ report' = report /\ Card!Handle(d) /\ SameEntry
      /\ Card!NoLoad
  BY DEF Card!ArtworkUpdated, Card!SameBounds, SameEntry
<1>2. stage # "none" /\ stage' \in Stages \ {"none"} /\ Within(from, to)
  BY <1>1 DEF Stages, Within, Drawing, Fetching
<1>3. /\ report \in Reports /\ LoadsTyped /\ Phased(stage, report.phase)
      /\ card # None => /\ card \in CardSet /\ card.rows \in RowSets
                        /\ ~rebuilt => RowsAt(stage, report, card.rows)
  BY <1>2, InScan
<1>4. StageInv'
  BY <1>1, <1>3 DEF StageInv, SameEntry, Phased, Walking, Drawing, Matching, Fetching
<1>5. card # None =>
         /\ d \in CardSet /\ d.hide = card.hide /\ d.revealed = card.revealed /\ Owed(d) = Owed(card)
         /\ d.rows[2] = Card!Finalize(card.rows[2], report.albums)
         /\ d.rows[0] = card.rows[0] /\ d.rows[1] = card.rows[1] /\ d.rows[3] = card.rows[3]
         /\ d.rows[4] = card.rows[4] /\ d.rows[5] = card.rows[5]
  BY <1>3, DrawnFacts
<1>6. card # None => Follows(card, d)
  BY <1>3, <1>5, FollowsItself DEF Follows
<1> HIDE DEF d
<1>7. ASSUME card # None, ~rebuilt
      PROVE  RowsAt(to, report, d.rows)
  <2>1. RowsAt(to, report, card.rows)
    BY <1>1, <1>2, <1>3, <1>7, SameClass
  <2>2. card.rows[2] \in Statuses
    BY <1>3, <1>7 DEF RowSets
  <2>3. /\ d.rows[2] # "error" /\ (Final(card.rows[2]) => Final(d.rows[2]))
    BY <1>5, <1>7, <2>1, <2>2 DEF RowsAt, Final, Card!Finalize, Card!Finals
  <2>4. to \in Drawing \cup Fetching
    BY DEF Drawing, Fetching
  <2>. QED BY <1>5, <1>7, <2>1, <2>3, <2>4 DEF RowsAt, Walking, Drawing, Matching, Fetching
<1>8. card # None /\ ~rebuilt => RowsAt(stage', report', d.rows)
  BY <1>1, <1>7
<1>. QED BY <1>1, <1>2, <1>3, <1>4, <1>6, <1>8, LoadsStay, Handled

\* A step of the worker whose report, of a phase that begins, is not dropped.
LEMMA BegunTurn ==
  ASSUME CardInv, NEW from, from # "none", NEW to \in Stages \ {"none"}, NEW q \in Reports,
         Card!Advance(from, to, q, TRUE), Card!NoLoad, StageInv',
         card # None /\ ~rebuilt => RowsAt(to, q, Card!PanelRows(card.rows, q))
  PROVE  Turn
<1> DEFINE d == Card!Panel(card, q)
<1>1. stage = from /\ stage' = to /\ report' = q /\ Card!Handle(d) /\ SameEntry
  BY DEF Card!Advance, Card!SameBounds, SameEntry
<1>2. /\ LoadsTyped
      /\ card # None => card \in CardSet /\ card.rows \in RowSets
  BY <1>1, InScan
<1>3. card # None =>
         /\ d \in CardSet /\ d.rows = Card!PanelRows(card.rows, q)
         /\ d.hide = card.hide /\ d.revealed = card.revealed /\ Owed(d) = Owed(card)
  BY <1>2, PanelTyped, PanelCard
<1> HIDE DEF d
<1>4. card # None => Follows(card, d)
  BY <1>2, <1>3, FollowsItself DEF Follows
<1>5. card # None /\ ~rebuilt => RowsAt(stage', report', d.rows)
  BY <1>1, <1>3
<1>. QED BY <1>1, <1>2, <1>4, <1>5, LoadsStay, Handled

\* phase_resolve
LEMMA BeginResolveTurn ==
  ASSUME CardInv, NEW from \in Drawing, Card!BeginResolve(from)
  PROVE  Turn
<1> DEFINE q == [report EXCEPT !.phase = "fingerprint", !.albums = 0, !.albums_done = 0,
                               !.prints = 0, !.prints_done = 0]
<1>1. Card!Advance(from, "resolve", q, TRUE) /\ Card!NoLoad /\ resolving
  BY DEF Card!BeginResolve
<1>2. stage = from /\ stage' = "resolve" /\ report' = q /\ SameEntry
  BY <1>1 DEF Card!Advance, Card!SameBounds, SameEntry
<1>3. from # "none" /\ "resolve" \in Stages \ {"none"}
  BY DEF Stages, Drawing, Matching
<1>4. /\ report \in Reports
      /\ card # None => /\ card.rows \in RowSets
                        /\ ~rebuilt => RowsAt(from, report, card.rows)
  BY <1>2, <1>3, InScan
<1>5. /\ q \in Reports /\ q.phase = "fingerprint" /\ q.dirs = report.dirs /\ q.files = report.files
      /\ q.prints = 0
  BY <1>4 DEF Reports
<1> HIDE DEF q
<1>6. StageInv'
  BY <1>1, <1>2, <1>5 DEF StageInv, SameEntry, Phased, Walking, Drawing, Matching, Fetching
<1>7. card # None /\ ~rebuilt => RowsAt("resolve", q, Card!PanelRows(card.rows, q))
  BY <1>1, <1>4, <1>5, MatchingBegins
<1>. QED BY <1>1, <1>3, <1>5, <1>6, <1>7, BegunTurn

\* phase_artist_art
LEMMA BeginArtistArtTurn ==
  ASSUME CardInv, NEW from, (from \in Drawing /\ ~resolving) \/ from = "described",
         Card!BeginArtistArt(from)
  PROVE  Turn
<1> DEFINE q == [report EXCEPT !.phase = "artist_art", !.arts = 0, !.downloaded = 0,
                               !.fanart_error = FALSE]
<1>1. Card!Advance(from, "art", q, TRUE) /\ Card!NoLoad
  BY DEF Card!BeginArtistArt
<1>2. stage = from /\ stage' = "art" /\ report' = q /\ SameEntry
  BY <1>1 DEF Card!Advance, Card!SameBounds, SameEntry
<1>3. /\ from # "none" /\ from \in Drawing \cup Matching /\ "art" \in Stages \ {"none"}
      /\ (from \in Drawing => ~resolving)
  BY DEF Stages, Drawing, Matching, Fetching
<1>4. /\ report \in Reports /\ resolving \in BOOLEAN /\ (from \in Matching => resolving)
      /\ card # None => /\ card.rows \in RowSets
                        /\ ~rebuilt => RowsAt(from, report, card.rows)
  BY <1>2, <1>3, InScan
<1>5. /\ q \in Reports /\ q.phase = "artist_art" /\ q.dirs = report.dirs /\ q.files = report.files
      /\ q.prints = report.prints
  BY <1>4 DEF Reports
<1> HIDE DEF q
<1>6. StageInv'
  BY <1>2, <1>5 DEF StageInv, Phased, Walking, Drawing, Matching, Fetching
<1>7. card # None /\ ~rebuilt => RowsAt("art", q, Card!PanelRows(card.rows, q))
  BY SMTT(30), <1>3, <1>4, <1>5, FetchingBegins
<1>. QED BY <1>1, <1>3, <1>5, <1>6, <1>7, BegunTurn

\* phase_artist_bios
LEMMA BeginBiosTurn ==
  ASSUME CardInv, NEW from \in {"fetched", "shown", "redrawing", "redrawn"}, Card!BeginBios(from)
  PROVE  Turn
<1> DEFINE q == [report EXCEPT !.phase = "artist_bio", !.bios = 0, !.fetched = 0]
<1>1. Card!Advance(from, "bios", q, TRUE) /\ Card!NoLoad
  BY DEF Card!BeginBios
<1>2. stage = from /\ stage' = "bios" /\ report' = q
  BY <1>1 DEF Card!Advance
<1>3. from # "none" /\ from \in Fetching /\ "bios" \in Stages \ {"none"}
  BY DEF Stages, Fetching
<1>4. /\ report \in Reports /\ resolving \in BOOLEAN
      /\ card # None => /\ card.rows \in RowSets
                        /\ ~rebuilt => RowsAt(from, report, card.rows)
  BY <1>2, <1>3, InScan
<1>5. /\ q \in Reports /\ q.phase = "artist_bio" /\ q.dirs = report.dirs /\ q.files = report.files
      /\ q.prints = report.prints
  BY <1>4 DEF Reports
<1> HIDE DEF q
<1>6. StageInv'
  BY <1>2, <1>5 DEF StageInv, Phased, Walking, Drawing, Matching, Fetching
<1>7. card # None /\ ~rebuilt => RowsAt("bios", q, Card!PanelRows(card.rows, q))
  BY <1>3, <1>4, <1>5, BiosBegin
<1>. QED BY <1>1, <1>3, <1>5, <1>6, <1>7, BegunTurn

-----------------------------------------------------------------------------
(* The steps that begin or end a scan *)

LEMMA NoProgressTyped ==
  Card!NoProgress \in Reports /\ Card!NoProgress.phase = "scanning" /\ Card!NoProgress.prints = 0
BY DEF Card!NoProgress, Reports

\* indexer_scan
LEMMA BeginKeeps ==
  ASSUME CardInv, Card!Begin
  PROVE  CardInv'
<1> DEFINE d == Card!StartedCard(card)
<1>1. /\ stage = "none" /\ scans' = scans + 1 /\ stage' = "scanning" /\ report' = Card!NoProgress
      /\ card' = IF card = None THEN None ELSE d
      /\ rebuilt' = FALSE /\ succeeded' = FALSE
      /\ loads' = loads /\ newest_shown' = newest_shown /\ late' = late
      /\ resolving' = resolving /\ rebuilds' = rebuilds /\ toasts' = toasts
  BY DEF Card!Begin, Card!Handle, Card!NoLoad
<1>2. CardTyped /\ ToastInv
  BY DEF CardInv
<1>3. card # None => card \in CardSet
  BY <1>2 DEF CardTyped
<1>4. card # None =>
         /\ d \in CardSet /\ ~d.hide /\ d.revealed /\ ~d.shown_toast
         /\ d.pending_toast = card.pending_toast
         /\ d.rows[0] = "active" /\ d.rows[1] = "waiting" /\ d.rows[2] = "waiting"
         /\ d.rows[3] = "waiting" /\ d.rows[4] = "waiting" /\ d.rows[5] = "waiting"
  BY <1>3, StartedFacts
<1> HIDE DEF d
<1>5. "scanning" \in Stages
  BY DEF Stages
<1>6. CardTyped'
  <2>1. card' # None => card' \in CardSet
    BY <1>1, <1>4
  <2>2. scans \in Nat
    BY <1>2 DEF CardTyped
  <2>3. scans' \in Nat
    BY <1>1, <2>2
  <2>4. rebuilt' \in BOOLEAN /\ succeeded' \in BOOLEAN
    BY <1>1
  <2>. QED BY <1>1, <1>2, <1>5, <2>1, <2>3, <2>4, NoProgressTyped DEF CardTyped
<1>7. StageInv'
  BY <1>1, NoProgressTyped DEF StageInv, Phased, Walking, Drawing, Matching, Fetching
<1>8. RowsInv'
  BY <1>1, <1>4 DEF RowsInv, RowsAt, Final, Walking, Drawing, Matching, Fetching
<1>9. WordsInv' /\ StatsInv'
  BY <1>1 DEF WordsInv, StatsInv
<1>10. ToastInv'
  <2>1. toasts \in Nat /\ scans \in Nat /\ rebuilds \in Nat
    BY <1>2 DEF CardTyped
  <2>2. card # None => /\ card.pending_toast \in BOOLEAN
                       /\ toasts + (IF card.pending_toast THEN 1 ELSE 0) <= scans + rebuilds
    BY <1>1, <1>2, <1>3, <2>1, CardFields DEF ToastInv
  <2>. QED BY <1>1, <1>2, <1>4, <2>1, <2>2 DEF ToastInv
<1>11. Card!PanelAndTimers'
  BY <1>1, <1>4 DEF Card!PanelAndTimers
<1>. QED BY <1>6, <1>7, <1>8, <1>9, <1>10, <1>11 DEF CardInv

LEMMA StillOwed ==
  ASSUME NEW s \in Nat, NEW r \in Nat, NEW t \in Nat, NEW more \in {s, s + 1}, t <= s + r
  PROVE  t <= more + r
OBVIOUS

\* What the rows say when a scan has succeeded.
DoneWords(q, success) ==
    card # None /\ success /\ ~rebuilt' => WordsAt(q, Card!DoneCard(card, q, success).rows)

\* What on_indexer_done leaves: the card hides its panel soon and waits for its statistics.
LEMMA DoneKeeps ==
  ASSUME CardInv, NEW q \in Reports, NEW success \in BOOLEAN, Card!Done(q, success),
         scans' \in {scans, scans + 1}, rebuilds' = rebuilds, toasts' = toasts,
         rebuilt' \in BOOLEAN, resolving' = resolving,
         DoneWords(q, success)
  PROVE  CardInv'
<1> DEFINE d == Card!DoneCard(card, q, success)
<1>1. /\ stage' = "none" /\ card' = IF card = None THEN None ELSE d
      /\ report' = IF success THEN q ELSE Card!NoProgress
      /\ Card!LoadStats /\ succeeded' = success
  BY DEF Card!Done, Card!Handle
<1>2. CardTyped /\ ToastInv /\ Card!PanelAndTimers
  BY DEF CardInv
<1>3. card # None => card \in CardSet
  BY <1>2 DEF CardTyped
<1>4. card # None =>
         /\ d \in CardSet /\ d.hide /\ ~d.pulse /\ d.revealed = card.revealed
         /\ d.pending_toast = card.pending_toast /\ d.shown_toast = card.shown_toast
  BY <1>3, DoneFacts
<1>5. card # None /\ success /\ ~rebuilt' => WordsAt(q, d.rows)
  BY DEF DoneWords
<1> HIDE DEF d
<1>6. LoadsTyped'
  BY <1>1, <1>2, LoadsGrow DEF CardTyped, LoadsTyped
<1>7. "none" \in Stages
  BY DEF Stages
<1>8. CardTyped'
  <2>1. card' # None => card' \in CardSet
    BY <1>1, <1>4
  <2>2. scans \in Nat
    BY <1>2 DEF CardTyped
  <2>3. scans' \in Nat
    BY <2>2
  <2>4. succeeded' \in BOOLEAN /\ report' \in Reports
    BY <1>1, NoProgressTyped
  <2>. QED BY <1>1, <1>2, <1>6, <1>7, <2>1, <2>3, <2>4 DEF CardTyped, LoadsTyped
<1>9. StageInv' /\ RowsInv'
  BY <1>1 DEF StageInv, RowsInv, Phased, Walking, Drawing, Matching, Fetching
<1>10. WordsInv'
  BY <1>1, <1>5 DEF WordsInv, WordsAt, Final
<1>11. ToastInv'
  <2>1. toasts \in Nat /\ scans \in Nat /\ rebuilds \in Nat
    BY <1>2 DEF CardTyped
  <2>2. card # None => /\ card.pending_toast \in BOOLEAN
                       /\ toasts + (IF card.pending_toast THEN 1 ELSE 0) <= scans + rebuilds
    <3>1. SUFFICES ASSUME card # None
                   PROVE  /\ card.pending_toast \in BOOLEAN
                          /\ toasts + (IF card.pending_toast THEN 1 ELSE 0) <= scans + rebuilds
      OBVIOUS
    <3>2. card.pending_toast \in BOOLEAN /\ card.shown_toast \in BOOLEAN
      BY <1>3, <3>1, CardFields
    <3>. QED BY <1>2, <2>1, <3>1, <3>2 DEF ToastInv
  <2>3. toasts <= scans + rebuilds
    BY <1>2 DEF ToastInv
  <2>5. scans' \in {scans, scans + 1} /\ rebuilds' = rebuilds /\ toasts' = toasts
    OBVIOUS
  <2>6. toasts' <= scans' + rebuilds'
    BY <2>1, <2>3, <2>5, StillOwed
  <2>7. ASSUME card' # None
        PROVE  toasts' + (IF card'.pending_toast THEN 1 ELSE 0)
                 + (IF stage' # "none" /\ ~card'.shown_toast THEN 1 ELSE 0) <= scans' + rebuilds'
    <3> DEFINE t == toasts + (IF card.pending_toast THEN 1 ELSE 0)
    <3>1. card # None /\ card'.pending_toast = card.pending_toast /\ stage' = "none"
      BY <1>1, <1>4, <2>7
    <3>2. t \in Nat /\ t <= scans + rebuilds
      BY <2>1, <2>2, <3>1
    <3>3. toasts' + (IF card'.pending_toast THEN 1 ELSE 0)
            + (IF stage' # "none" /\ ~card'.shown_toast THEN 1 ELSE 0) = t + 0
      BY <2>5, <3>1
    <3>4. t + 0 = t
      BY <3>2
    <3> HIDE DEF t
    <3>5. t <= scans' + rebuilds'
      BY <2>1, <2>5, <3>2, StillOwed
    <3>. QED BY <3>3, <3>4, <3>5
  <2>. QED BY <2>6, <2>7 DEF ToastInv
<1>12. StatsInv'
  <2>1. SUFFICES ASSUME card' # None
                 PROVE  ~newest_shown' /\ loads' # <<>> /\ loads'[Len(loads')] = "after"
    BY DEF StatsInv
  <2>2. card # None
    BY <1>1, <2>1
  <2>3. loads' = Append(loads, "after") /\ newest_shown' = FALSE
    BY <1>1, <2>2 DEF Card!LoadStats
  <2>4. loads \in Seq({"before", "after"})
    BY <1>2 DEF CardTyped
  <2>. QED BY <2>3, <2>4
<1>13. Card!PanelAndTimers'
  BY <1>1, <1>4 DEF Card!PanelAndTimers
<1>. QED BY <1>8, <1>9, <1>10, <1>11, <1>12, <1>13 DEF CardInv

LEMMA FailToOpenKeeps ==
  ASSUME CardInv, Card!FailToOpen
  PROVE  CardInv'
<1>1. /\ scans' = scans + 1 /\ Card!Done(Card!NoProgress, FALSE) /\ rebuilt' = FALSE
      /\ resolving' = resolving /\ rebuilds' = rebuilds /\ toasts' = toasts
  BY DEF Card!FailToOpen
<1>2. scans \in Nat
  BY DEF CardInv, CardTyped
<1>3. PICK success \in BOOLEAN : success = FALSE
  OBVIOUS
<1>4. Card!Done(Card!NoProgress, success)
  BY <1>1, <1>3
<1>5. scans' \in {scans, scans + 1} /\ rebuilt' \in BOOLEAN
  BY <1>1
<1>6. DoneWords(Card!NoProgress, success)
  BY <1>3 DEF DoneWords
<1>. QED BY <1>1, <1>3, <1>4, <1>5, <1>6, NoProgressTyped, DoneKeeps

LEMMA CancelledKeeps ==
  ASSUME CardInv, Card!Cancelled
  PROVE  CardInv'
<1>1. /\ Card!Done(report, FALSE) /\ scans' = scans /\ rebuilt' = rebuilt
      /\ resolving' = resolving /\ rebuilds' = rebuilds /\ toasts' = toasts
  BY DEF Card!Cancelled
<1>2. scans \in Nat /\ rebuilt \in BOOLEAN /\ report \in Reports
  BY DEF CardInv, CardTyped
<1>3. PICK success \in BOOLEAN : success = FALSE
  OBVIOUS
<1>4. Card!Done(report, success) /\ DoneWords(report, success)
  BY <1>1, <1>3 DEF DoneWords
<1>. QED BY <1>1, <1>2, <1>4, DoneKeeps

\* INDEXER_COMPLETED: every row has its last word.
LEMMA CompletedKeeps ==
  ASSUME CardInv, NEW n \in 0 .. 1, Card!Completed(n)
  PROVE  CardInv'
<1> DEFINE q == [report EXCEPT !.phase = "finalize", !.fetched = n]
<1>1. /\ stage = "bios" /\ Card!Done(q, TRUE) /\ scans' = scans /\ rebuilt' = rebuilt
      /\ resolving' = resolving /\ rebuilds' = rebuilds /\ toasts' = toasts
  BY DEF Card!Completed
<1>2. /\ scans \in Nat /\ rebuilt \in BOOLEAN /\ report \in Reports
  BY DEF CardInv, CardTyped
<1>3. /\ card # None => /\ card \in CardSet /\ card.rows \in RowSets
                        /\ ~rebuilt => RowsAt("bios", report, card.rows)
      /\ resolving \in BOOLEAN
  BY <1>1, InScan
<1>4. n \in Nat
  OBVIOUS
<1>5. /\ q \in Reports /\ q.dirs = report.dirs /\ q.files = report.files /\ q.prints = report.prints
  BY <1>2, <1>4 DEF Reports
<1> HIDE DEF q
<1>6. PICK success \in BOOLEAN : success = TRUE
  OBVIOUS
<1> DEFINE d == Card!DoneCard(card, q, success)
<1>7. ASSUME card # None, ~rebuilt
      PROVE  WordsAt(q, d.rows)
  <2>1. RowsAt("bios", report, card.rows)
    BY <1>3, <1>7
  <2>2. /\ d.rows[0] = card.rows[0] /\ d.rows[1] = card.rows[1] /\ d.rows[2] = card.rows[2]
        /\ d.rows[3] = IF q.acoustid_error THEN "error" ELSE Card!Finalize(card.rows[3], q.prints)
        /\ d.rows[4] = IF q.pg_error THEN "error" ELSE Card!Finalize(card.rows[4], q.albums_done)
        /\ d.rows[5] = IF q.fanart_error THEN "error" ELSE Card!Finalize(card.rows[5], q.downloaded)
        /\ d.rows[6] = Card!Finalize(card.rows[6], q.fetched)
    BY <1>3, <1>5, <1>6, <1>7, DoneFacts
  <2> HIDE DEF d
  <2>3. /\ card.rows[0] \in Statuses /\ card.rows[1] \in Statuses /\ card.rows[2] \in Statuses
        /\ card.rows[5] \in Statuses /\ card.rows[6] \in Statuses
    BY <1>3, <1>7 DEF RowSets
  <2>4. /\ q.downloaded \in Nat /\ q.fetched \in Nat
        /\ q.acoustid_error \in BOOLEAN /\ q.pg_error \in BOOLEAN /\ q.fanart_error \in BOOLEAN
    BY <1>5, ReportTyped
  <2>5. /\ Final(card.rows[0]) /\ Final(card.rows[1]) /\ (resolving => Final(card.rows[2]))
        /\ Final(card.rows[3]) /\ Final(card.rows[4])
        /\ card.rows[2] # "error" /\ card.rows[3] # "error" /\ card.rows[4] # "error"
        /\ card.rows[5] # "error"
        /\ (card.rows[0] = "complete" <=> q.dirs > 0) /\ (card.rows[1] = "complete" <=> q.files > 0)
        /\ (card.rows[3] = "complete" => q.prints > 0) /\ (card.rows[4] = "complete" => resolving)
    BY <1>5, <2>1 DEF RowsAt, Drawing, Matching, Fetching
  <2>6. /\ d.rows[3] = IF q.acoustid_error THEN "error" ELSE card.rows[3]
        /\ d.rows[4] = IF q.pg_error THEN "error" ELSE card.rows[4]
    BY <2>2, <2>5 DEF Final, Card!Finalize, Card!Finals
  <2>7. /\ Final(d.rows[5]) /\ Final(d.rows[6])
        /\ (d.rows[5] = "error" <=> q.fanart_error)
    BY <2>2, <2>3, <2>4, <2>5 DEF Final, Card!Finalize, Card!Finals
  <2>. QED BY <2>2, <2>4, <2>5, <2>6, <2>7 DEF WordsAt, Final
<1>8. DoneWords(q, success)
  BY <1>1, <1>7 DEF DoneWords
<1>9. Card!Done(q, success)
  BY <1>1, <1>6
<1>. QED BY <1>1, <1>2, <1>5, <1>8, <1>9, DoneKeeps

-----------------------------------------------------------------------------
(* The steps of the main thread *)

\* on_card_hide_progress
LEMMA HideProgressKeeps ==
  ASSUME CardInv, Card!HideProgress
  PROVE  CardInv'
<1> DEFINE d == [card EXCEPT !.hide = FALSE, !.revealed = FALSE]
<1>1. /\ card # None /\ card.hide /\ card' = d
      /\ loads' = loads /\ newest_shown' = newest_shown /\ late' = late
      /\ scans' = scans /\ rebuilds' = rebuilds /\ rebuilt' = rebuilt /\ toasts' = toasts
      /\ stage' = stage /\ report' = report /\ resolving' = resolving /\ succeeded' = succeeded
  BY DEF Card!HideProgress, Card!NoLoad, Card!SameBounds
<1>2. CardTyped /\ StageInv /\ RowsInv /\ WordsInv /\ ToastInv /\ StatsInv /\ Card!PanelAndTimers
  BY DEF CardInv
<1>3. card \in CardSet
  BY <1>1, <1>2 DEF CardTyped
<1>4. /\ d \in CardSet /\ d.rows = card.rows /\ d.pulse = card.pulse /\ ~d.hide /\ ~d.revealed
      /\ d.shown_toast = card.shown_toast /\ d.pending_toast = card.pending_toast
      /\ d.stats = card.stats
  BY <1>3 DEF CardSet
<1> HIDE DEF d
<1>5. CardTyped'
  BY <1>1, <1>2, <1>4 DEF CardTyped
<1>6. StageInv'
  BY <1>1, <1>2 DEF StageInv
<1>7. RowsInv'
  BY SMTT(30), <1>1, <1>2, <1>4 DEF RowsInv, RowsAt, Final
<1>8. WordsInv'
  BY <1>1, <1>2, <1>4 DEF WordsInv, WordsAt, Final
<1>9. ToastInv'
  BY <1>1, <1>2, <1>4 DEF ToastInv
<1>10. StatsInv'
  BY <1>1, <1>2, <1>4 DEF StatsInv
<1>11. Card!PanelAndTimers'
  BY <1>1, <1>2, <1>4 DEF Card!PanelAndTimers
<1>. QED BY <1>5, <1>6, <1>7, <1>8, <1>9, <1>10, <1>11 DEF CardInv

\* libs_free and libs_load
LEMMA RebuildKeeps ==
  ASSUME CardInv, Card!Rebuild
  PROVE  CardInv'
<1> DEFINE d == Card!NewCard
           scanning == stage # "none"
<1>1. /\ rebuilds' = rebuilds + 1 /\ card' = d /\ rebuilt' = scanning
      /\ loads' = Append(loads, "after") /\ newest_shown' = FALSE /\ late' = FALSE
      /\ succeeded' = FALSE /\ stage' = stage /\ report' = report /\ resolving' = resolving
      /\ scans' = scans /\ toasts' = toasts
  BY DEF Card!Rebuild
<1>2. CardTyped /\ StageInv /\ ToastInv
  BY DEF CardInv
<1>3. /\ d \in CardSet /\ ~d.pulse /\ ~d.hide /\ ~d.revealed /\ ~d.pending_toast /\ ~d.shown_toast
  BY NewFacts
<1>4. scanning \in BOOLEAN /\ (scanning <=> stage # "none")
  OBVIOUS
<1> HIDE DEF d, scanning
<1>5. loads \in Seq({"before", "after"})
  BY <1>2 DEF CardTyped
<1>6. /\ loads' \in Seq({"before", "after"}) /\ loads' # <<>> /\ loads'[Len(loads')] = "after"
  BY <1>1, <1>5
<1>7. rebuilds' \in Nat
  BY <1>1, <1>2 DEF CardTyped
<1>8. CardTyped'
  BY <1>1, <1>2, <1>3, <1>4, <1>6, <1>7 DEF CardTyped
<1>9. StageInv'
  BY <1>1, <1>2 DEF StageInv
<1>10. RowsInv' /\ WordsInv'
  BY <1>1, <1>4 DEF RowsInv, WordsInv
<1>11. ToastInv'
  <2>1. toasts \in Nat /\ scans \in Nat /\ rebuilds \in Nat /\ toasts <= scans + rebuilds
    BY <1>2 DEF CardTyped, ToastInv
  <2>. QED BY <1>1, <1>3, <2>1 DEF ToastInv
<1>12. StatsInv'
  BY <1>1, <1>6 DEF StatsInv
<1>13. Card!PanelAndTimers'
  BY SMTT(30), <1>1, <1>3, <1>4 DEF Card!PanelAndTimers
<1>. QED BY <1>8, <1>9, <1>10, <1>11, <1>12, <1>13 DEF CardInv

\* on_remove
LEMMA RemoveCardKeeps ==
  ASSUME CardInv, Card!RemoveCard
  PROVE  CardInv'
<1>1. /\ card' = None
      /\ loads' = loads /\ newest_shown' = newest_shown /\ late' = late
      /\ scans' = scans /\ rebuilds' = rebuilds /\ rebuilt' = rebuilt /\ toasts' = toasts
      /\ stage' = stage /\ report' = report /\ resolving' = resolving /\ succeeded' = succeeded
  BY DEF Card!RemoveCard, Card!NoLoad, Card!SameBounds
<1>. QED
  BY <1>1 DEF CardInv, CardTyped, StageInv, RowsInv, WordsInv, ToastInv, StatsInv, Card!PanelAndTimers

\* What is left of the loads when one has ended: the last of them, if it was not the one.
LEMMA LoadsLeft ==
  ASSUME NEW S, NEW s \in Seq(S), NEW k \in DOMAIN s
  PROVE  LET r == RemoveAt(s, k) IN
         /\ r \in Seq(S)
         /\ k # Len(s) => r # <<>> /\ r[Len(r)] = s[Len(s)]
<1> DEFINE a == SubSeq(s, 1, k - 1)  b == SubSeq(s, k + 1, Len(s))  r == a \o b
<1>1. Len(s) \in Nat /\ DOMAIN s = 1 .. Len(s) /\ k \in 1 .. Len(s) /\ \A i \in DOMAIN s : s[i] \in S
  OBVIOUS
<1>2. a \in Seq(S) /\ Len(a) = k - 1
  <2>1. \A i \in 1 .. k - 1 : s[i] \in S
    BY <1>1
  <2>2. 1 \in Int /\ k - 1 \in Int
    BY <1>1
  <2>3. /\ a \in Seq(S) /\ Len(a) = IF 1 <= k - 1 THEN k - 1 - 1 + 1 ELSE 0
    BY <2>1, <2>2, SubSeqProperties
  <2>. HIDE DEF a
  <2>. QED BY <1>1, <2>3
<1>3. /\ b \in Seq(S) /\ Len(b) = Len(s) - k
      /\ k # Len(s) => b[Len(s) - k] = s[Len(s)]
  <2>1. \A i \in k + 1 .. Len(s) : s[i] \in S
    BY <1>1
  <2>2. k + 1 \in Int /\ Len(s) \in Int
    BY <1>1
  <2>3. /\ b \in Seq(S) /\ Len(b) = IF k + 1 <= Len(s) THEN Len(s) - (k + 1) + 1 ELSE 0
        /\ \A i \in 1 .. Len(s) - (k + 1) + 1 : b[i] = s[k + 1 + i - 1]
    BY <2>1, <2>2, SubSeqProperties
  <2>. HIDE DEF b
  <2>4. Len(b) = Len(s) - k
    BY <1>1, <2>3
  <2>5. ASSUME k # Len(s) PROVE b[Len(s) - k] = s[Len(s)]
    <3>1. Len(s) - k \in 1 .. Len(s) - (k + 1) + 1 /\ k + 1 + (Len(s) - k) - 1 = Len(s)
      BY <1>1, <2>5
    <3>2. b[Len(s) - k] = s[k + 1 + (Len(s) - k) - 1]
      BY <2>3, <3>1
    <3>. QED BY <3>1, <3>2
  <2>. QED BY <2>3, <2>4, <2>5
<1> HIDE DEF a, b
<1>4. /\ r \in Seq(S) /\ Len(r) = Len(a) + Len(b)
      /\ \A i \in 1 .. Len(a) + Len(b) : r[i] = IF i <= Len(a) THEN a[i] ELSE b[i - Len(a)]
  BY <1>2, <1>3, ConcatProperties
<1>5. r = RemoveAt(s, k)
  BY DEF RemoveAt, a, b
<1> HIDE DEF r
<1>6. Len(r) = Len(s) - 1
  BY <1>1, <1>2, <1>3, <1>4
<1>7. ASSUME k # Len(s) PROVE r # <<>> /\ r[Len(r)] = s[Len(s)]
  <2>1. Len(s) - 1 \in 1 .. Len(a) + Len(b) /\ ~(Len(s) - 1 <= Len(a)) /\ Len(s) - 1 - Len(a) = Len(s) - k
    BY <1>1, <1>2, <1>3, <1>7
  <2>2. r[Len(s) - 1] = b[Len(s) - k]
    BY <1>4, <2>1
  <2>3. Len(r) # 0
    BY <1>1, <1>6, <1>7
  <2>. QED BY <1>3, <1>6, <1>7, <2>2, <2>3
<1>. QED BY <1>4, <1>5, <1>7

\* lib_stats_done: the statistics, of whichever load, and the toast that waited for them.
LEMMA ShowStatsKeeps ==
  ASSUME CardInv, NEW k \in DOMAIN loads, Card!ShowStats(k)
  PROVE  CardInv'
<1> DEFINE newest == ~newest_shown /\ k = Len(loads)
           known == {"current"} \cup (IF loads[k] = "before" THEN {"old"} ELSE {})
<1>1. /\ newest_shown' = (newest_shown \/ newest) /\ late' = (late \/ newest_shown)
      /\ loads' = RemoveAt(loads, k)
      /\ toasts' = IF card # None /\ card.pending_toast THEN toasts + 1 ELSE toasts
      /\ stage' = stage /\ report' = report /\ resolving' = resolving /\ scans' = scans
      /\ rebuilds' = rebuilds /\ rebuilt' = rebuilt /\ succeeded' = succeeded
  BY DEF Card!ShowStats, Card!RemoveAt, RemoveAt
<1>2. PICK stats \in known : card' = IF card = None THEN None
                                     ELSE [card EXCEPT !.stats = stats, !.pending_toast = FALSE]
  BY DEF Card!ShowStats, Card!Handle
<1> DEFINE d == [card EXCEPT !.stats = stats, !.pending_toast = FALSE]
<1>3. CardTyped /\ StageInv /\ RowsInv /\ WordsInv /\ ToastInv /\ StatsInv /\ Card!PanelAndTimers
  BY DEF CardInv
<1>4. /\ loads \in Seq({"before", "after"}) /\ newest_shown \in BOOLEAN /\ late \in BOOLEAN
      /\ card # None => card \in CardSet
  BY <1>3 DEF CardTyped
<1>5. loads[k] \in {"before", "after"}
  BY <1>4
<1>6. /\ stats \in {"none", "current", "old"}
      /\ loads[k] = "after" => stats = "current"
  BY <1>5
<1>7. newest \in BOOLEAN /\ (newest <=> ~newest_shown /\ k = Len(loads))
  BY <1>4
<1> HIDE DEF known, newest
<1>8. card # None =>
         /\ d \in CardSet /\ d.rows = card.rows /\ d.pulse = card.pulse /\ d.hide = card.hide
         /\ d.revealed = card.revealed /\ d.shown_toast = card.shown_toast /\ ~d.pending_toast
         /\ d.stats = stats
  BY <1>4, <1>6 DEF CardSet
<1>9. card' # None => card # None /\ card' = d
  BY <1>2
<1> HIDE DEF d
<1>10. /\ loads' \in Seq({"before", "after"})
       /\ k # Len(loads) => loads' # <<>> /\ loads'[Len(loads')] = loads[Len(loads)]
  BY <1>1, <1>4, LoadsLeft
<1>11. newest_shown' \in BOOLEAN /\ late' \in BOOLEAN
  BY <1>1, <1>4, <1>7
<1>12. toasts' \in Nat
  BY <1>1, <1>3 DEF CardTyped
<1>13. CardTyped'
  <2>1. card' # None => card' \in CardSet
    BY <1>8, <1>9
  <2>. QED BY <1>1, <1>3, <1>10, <1>11, <1>12, <2>1 DEF CardTyped
<1>14. StageInv'
  BY SMTT(30), <1>1, <1>3 DEF StageInv
<1>15. RowsInv'
  BY <1>1, <1>3, <1>8, <1>9 DEF RowsInv, RowsAt, Final
<1>16. WordsInv'
  BY <1>1, <1>3, <1>8, <1>9 DEF WordsInv, WordsAt, Final
<1>17. ToastInv'
  <2>1. toasts \in Nat /\ scans \in Nat /\ rebuilds \in Nat /\ toasts <= scans + rebuilds
    BY <1>3 DEF CardTyped, ToastInv
  <2>2. CASE card = None
    <3>1. card' = None
      BY <1>2, <2>2
    <3>. QED BY <1>1, <2>1, <2>2, <3>1 DEF ToastInv
  <2>3. CASE card # None
    <3>1. card.pending_toast \in BOOLEAN /\ card.shown_toast \in BOOLEAN
      BY <1>4, <2>3, CardFields
    <3>2. toasts + (IF card.pending_toast THEN 1 ELSE 0)
            + (IF stage # "none" /\ ~card.shown_toast THEN 1 ELSE 0) <= scans + rebuilds
      BY <1>3, <2>3 DEF ToastInv
    <3>3. toasts' = toasts + (IF card.pending_toast THEN 1 ELSE 0)
      BY <1>1, <2>1, <2>3, <3>1
    <3>4. card' # None => ~card'.pending_toast /\ card'.shown_toast = card.shown_toast
      BY <1>8, <1>9
    <3>5. toasts' <= scans' + rebuilds'
      BY <1>1, <2>1, <3>1, <3>2, <3>3
    <3>6. card' # None =>
             toasts' + (IF card'.pending_toast THEN 1 ELSE 0)
               + (IF stage' # "none" /\ ~card'.shown_toast THEN 1 ELSE 0) <= scans' + rebuilds'
      BY <1>1, <2>1, <3>1, <3>2, <3>3, <3>4
    <3>. QED BY <3>5, <3>6 DEF ToastInv
  <2>. QED BY <2>2, <2>3
<1>18. StatsInv'
  <2> SUFFICES ASSUME card' # None, stage' = "none", scans' + rebuilds' > 0
               PROVE  \/ newest_shown' /\ (late' \/ card'.stats = "current")
                      \/ ~newest_shown' /\ loads' # <<>> /\ loads'[Len(loads')] = "after"
    BY DEF StatsInv
  <2>1. card # None /\ card'.stats = stats
    BY <1>8, <1>9
  <2>2. \/ newest_shown /\ (late \/ card.stats = "current")
        \/ ~newest_shown /\ loads # <<>> /\ loads[Len(loads)] = "after"
    BY <1>1, <1>3, <2>1 DEF StatsInv
  <2>3. CASE newest_shown
    BY <1>1, <2>3
  <2>4. CASE ~newest_shown /\ k = Len(loads)
    BY <1>1, <1>6, <1>7, <2>1, <2>2, <2>4
  <2>5. CASE ~newest_shown /\ k # Len(loads)
    BY <1>1, <1>7, <1>10, <2>2, <2>5
  <2>. QED BY <2>3, <2>4, <2>5
<1>19. Card!PanelAndTimers'
  BY <1>1, <1>3, <1>8, <1>9 DEF Card!PanelAndTimers
<1>. QED BY <1>13, <1>14, <1>15, <1>16, <1>17, <1>18, <1>19 DEF CardInv

-----------------------------------------------------------------------------
(* The invariant of a card *)

LEMMA CardStarts ==
  ASSUME Card!Init
  PROVE  CardInv
<1>1. /\ card = Card!NewCard /\ stage = "none" /\ report = Card!NoProgress /\ resolving \in BOOLEAN
      /\ loads = <<>> /\ newest_shown = TRUE /\ late = FALSE
      /\ scans = 0 /\ rebuilds = 0 /\ rebuilt = FALSE /\ toasts = 0 /\ succeeded = FALSE
  BY DEF Card!Init
<1>2. /\ card \in CardSet /\ ~card.pulse /\ ~card.hide /\ ~card.revealed
      /\ ~card.pending_toast /\ ~card.shown_toast
  BY <1>1, NewFacts
<1>3. "none" \in Stages /\ <<>> \in Seq({"before", "after"})
  BY DEF Stages
<1>4. scans \in Nat /\ rebuilds \in Nat /\ toasts \in Nat
  BY <1>1
<1>5. newest_shown \in BOOLEAN /\ late \in BOOLEAN /\ rebuilt \in BOOLEAN /\ succeeded \in BOOLEAN
  BY <1>1
<1>6. CardTyped
  BY <1>1, <1>2, <1>3, <1>4, <1>5, NoProgressTyped DEF CardTyped
<1>7. StageInv /\ RowsInv /\ WordsInv
  BY <1>1, NoProgressTyped DEF StageInv, RowsInv, WordsInv, Phased, Walking, Drawing, Matching, Fetching
<1>8. ToastInv /\ StatsInv
  BY <1>1, <1>2 DEF ToastInv, StatsInv
<1>9. Card!PanelAndTimers
  BY <1>1, <1>2 DEF Card!PanelAndTimers
<1>. QED BY <1>6, <1>7, <1>8, <1>9 DEF CardInv

LEMMA WorkerKeeps ==
  ASSUME CardInv, Card!Worker
  PROVE  CardInv'
<1>1. CASE Card!Begin
  BY <1>1, BeginKeeps
<1>2. CASE Card!FailToOpen
  BY <1>2, FailToOpenKeeps
<1>3. CASE Card!Cancelled
  BY <1>3, CancelledKeeps
<1>4. CASE Card!Report
  BY <1>4, ReportTurn, TurnKeeps
<1>5. CASE \E n \in 0 .. 1 : \E m \in 0 .. n : Card!ScanDirs(n, m)
  BY <1>5, ScanDirsTurn, TurnKeeps
<1>6. CASE Card!FinalizeScan
  BY <1>6, FinalizeTurn, TurnKeeps
<1>7. CASE Card!LibraryUpdated("finalized", "updated") \/ Card!LibraryUpdated("resolved", "described")
  BY <1>7, LibraryUpdatedTurn, TurnKeeps
<1>8. CASE Card!DrawAlbums("updated", "drawing")
  BY <1>8, DrawTurn, TurnKeeps
<1>9. CASE Card!AlbumsDrawn
  BY <1>9, AlbumsDrawnTurn, TurnKeeps
<1>10. CASE \E from \in {"updated", "drawing"} : Card!ArtworkUpdated(from, "drawn")
  <2>1. PICK from \in {"updated", "drawing"} : Card!ArtworkUpdated(from, "drawn")
    BY <1>10
  <2>2. Turn
    BY <2>1, ArtworkUpdatedTurn
  <2>. QED BY <2>2, TurnKeeps
<1>11. CASE \E from \in {"updated", "drawing", "drawn"} :
               Card!BeginResolve(from) \/ (~resolving /\ Card!BeginArtistArt(from))
  <2>1. PICK from \in Drawing : Card!BeginResolve(from) \/ (~resolving /\ Card!BeginArtistArt(from))
    BY <1>11 DEF Drawing
  <2>2. Turn
    BY <2>1, BeginResolveTurn, BeginArtistArtTurn
  <2>. QED BY <2>2, TurnKeeps
<1>12. CASE \E prints \in 0 .. 1 : Card!Triage(prints)
  BY <1>12, TriageTurn, TurnKeeps
<1>13. CASE Card!Resolving
  BY <1>13, ResolvingTurn, TurnKeeps
<1>14. CASE Card!EndResolve
  BY <1>14, EndResolveTurn, TurnKeeps
<1>15. CASE Card!BeginArtistArt("described")
  BY <1>15, BeginArtistArtTurn, TurnKeeps
<1>16. CASE Card!ArtistArt
  BY <1>16, ArtistArtTurn, TurnKeeps
<1>17. CASE \E failed \in BOOLEAN : Card!EndArtistArt(failed)
  BY <1>17, EndArtTurn, TurnKeeps
<1>18. CASE Card!ArtworkUpdated("fetched", "shown") \/ Card!ArtworkUpdated("redrawing", "redrawn")
  BY <1>18, ArtworkUpdatedTurn, TurnKeeps
<1>19. CASE \E from \in {"fetched", "shown"} : Card!DrawAlbums(from, "redrawing")
  <2>1. PICK from \in {"fetched", "shown"} : Card!DrawAlbums(from, "redrawing")
    BY <1>19
  <2>2. Turn
    BY <2>1, DrawTurn
  <2>. QED BY <2>2, TurnKeeps
<1>20. CASE \E from \in {"fetched", "shown", "redrawing", "redrawn"} : Card!BeginBios(from)
  BY <1>20, BeginBiosTurn, TurnKeeps
<1>21. CASE Card!Bios
  BY <1>21, BiosTurn, TurnKeeps
<1>22. CASE \E n \in 0 .. 1 : Card!Completed(n)
  BY <1>22, CompletedKeeps
<1>. QED
  BY <1>1, <1>2, <1>3, <1>4, <1>5, <1>6, <1>7, <1>8, <1>9, <1>10, <1>11, <1>12, <1>13, <1>14, <1>15,
     <1>16, <1>17, <1>18, <1>19, <1>20, <1>21, <1>22 DEF Card!Worker

LEMMA CardStays ==
  ASSUME CardInv, UNCHANGED Card!vars
  PROVE  CardInv'
<1>1. /\ card' = card /\ stage' = stage /\ report' = report /\ resolving' = resolving /\ loads' = loads
      /\ newest_shown' = newest_shown /\ late' = late /\ scans' = scans /\ rebuilds' = rebuilds
      /\ rebuilt' = rebuilt /\ toasts' = toasts /\ succeeded' = succeeded
  BY DEF Card!vars, Card!ghosts
<1>2. CardTyped'
  BY <1>1 DEF CardInv, CardTyped
<1>3. StageInv' /\ ToastInv' /\ StatsInv' /\ Card!PanelAndTimers'
  BY <1>1 DEF CardInv, StageInv, ToastInv, StatsInv, Card!PanelAndTimers
<1>4. RowsInv' /\ WordsInv'
  BY <1>1 DEF CardInv, RowsInv, WordsInv, RowsAt, WordsAt, Final
<1>. QED BY <1>2, <1>3, <1>4 DEF CardInv

LEMMA CardKeeps ==
  ASSUME CardInv, [Card!Next]_(Card!vars)
  PROVE  CardInv'
<1>1. CASE Card!Worker
  BY <1>1, WorkerKeeps
<1>2. CASE \E k \in DOMAIN loads : Card!ShowStats(k)
  BY <1>2, ShowStatsKeeps
<1>3. CASE Card!HideProgress
  BY <1>3, HideProgressKeeps
<1>4. CASE Card!Rebuild
  BY <1>4, RebuildKeeps
<1>5. CASE Card!RemoveCard
  BY <1>5, RemoveCardKeeps
<1>6. CASE UNCHANGED Card!vars
  BY <1>6, CardStays
<1>. QED BY <1>1, <1>2, <1>3, <1>4, <1>5, <1>6 DEF Card!Next

\* What the invariant says to the user: the rows are in turn, have their last word after a scan that
\* succeeded, and the statistics are of the database as it is.
LEMMA CardInvSound ==
  ASSUME CardInv
  PROVE  Card!CardSound
<1>1. CardTyped /\ StageInv /\ RowsInv /\ WordsInv /\ ToastInv /\ StatsInv /\ Card!PanelAndTimers
  BY DEF CardInv
<1>2. Card!RowsInTurn
  <2>1. SUFFICES ASSUME card # None, ~rebuilt, stage # "none"
                 PROVE  /\ card.rows[1] # "waiting" => card.rows[0] \in Card!Finals
                        /\ card.rows[2] # "waiting" => card.rows[1] \in Card!Finals
                        /\ card.rows[3] # "waiting" /\ resolving => card.rows[2] \in Card!Finals
                        /\ card.rows[5] # "waiting" =>
                              card.rows[3] \in Card!Finals /\ card.rows[4] \in Card!Finals
    BY DEF Card!RowsInTurn
  <2>2. RowsAt(stage, report, card.rows) /\ stage \in Stages
    BY <1>1, <2>1 DEF RowsInv, CardTyped
  <2>. QED
    BY <2>1, <2>2 DEF RowsAt, Final, Stages, Walking, Drawing, Matching, Fetching, Card!Finals
<1>3. Card!LastWords
  <2>1. SUFFICES ASSUME card # None, succeeded, stage = "none", ~rebuilt
                 PROVE  LET rows == card.rows
                        IN  /\ \A k \in Card!PhaseRows : (k = 2 => resolving) => rows[k] \in Card!Finals
                            /\ rows[0] = "complete" <=> report.dirs > 0
                            /\ rows[1] = "complete" <=> report.files > 0
                            /\ rows[2] # "error"
                            /\ rows[3] = "error" <=> report.acoustid_error
                            /\ rows[4] = "error" <=> report.pg_error
                            /\ rows[5] = "error" <=> report.fanart_error
                            /\ rows[3] = "complete" => report.prints > 0
                            /\ rows[4] = "complete" => resolving
    BY DEF Card!LastWords
  <2>2. WordsAt(report, card.rows)
    BY <1>1, <2>1 DEF WordsInv
  <2>3. ASSUME NEW k \in Card!PhaseRows, k = 2 => resolving
        PROVE  card.rows[k] \in Card!Finals
    <3>1. k = 0 \/ k = 1 \/ k = 2 \/ k = 3 \/ k = 4 \/ k = 5 \/ k = 6
      BY DEF Card!PhaseRows
    <3>. QED BY <2>2, <2>3, <3>1 DEF WordsAt, Final, Card!Finals
  <2>. QED BY <2>2, <2>3 DEF WordsAt
<1>4. Card!StatsAreCurrent
  BY <1>1 DEF StatsInv, Card!StatsAreCurrent
<1>5. Card!OneToast
  BY <1>1 DEF ToastInv, Card!OneToast
<1>. QED BY <1>1, <1>2, <1>3, <1>4, <1>5 DEF Card!CardSound

\* The card of a library (indexer_bridge.c) follows its scans: whatever the throttle drops, however
\* scans, loads of statistics, rebuilds, the hiding of the panel and the removal of the library mix, and
\* however many there are of them.
THEOREM CardAlwaysSound == Card!Spec => []Card!CardSound
<1>1. Card!Init => CardInv
  BY CardStarts
<1>2. CardInv /\ [Card!Next]_(Card!vars) => CardInv'
  BY CardKeeps
<1>3. CardInv => Card!CardSound
  BY CardInvSound
<1>. QED BY <1>1, <1>2, <1>3, PTL DEF Card!Spec
=============================================================================
