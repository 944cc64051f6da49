-------------------------- MODULE AudioCacheProofs --------------------------
(***************************************************************************)
(* What is proved of AudioCache for every set of tracks, finite set of     *)
(* buffers, memory limit and pool size: the inductive invariant IInv and   *)
(* its consequences, with or without preemption between a worker's         *)
(* publication and its cleanup; and, without preemption there, that        *)
(* memory_used is exact, that an eviction does all it can, and that the    *)
(* cache implements TrackCache.  Then of the other end of a channel, for   *)
(* every set of strips and album: that what the strips show and ask of     *)
(* their players follows what it is about.                                 *)
(***************************************************************************)
EXTENDS MCChannels, SequenceTheorems, FiniteSetTheorems, WellFoundedInduction, TLAPS

(* Removing position i of a sequence shifts what is behind it.             *)
LEMMA RemoveAtProperties ==
  ASSUME NEW S, NEW s \in Seq(S), NEW i \in 1..Len(s)
  PROVE  /\ RemoveAt(s, i) \in Seq(S)
         /\ Len(RemoveAt(s, i)) = Len(s) - 1
         /\ \A j \in 1..(Len(s) - 1) :
              RemoveAt(s, i)[j] = IF j < i THEN s[j] ELSE s[j + 1]
<1> DEFINE a == SubSeq(s, 1, i - 1)
           c == SubSeq(s, i + 1, Len(s))
<1>1. /\ Len(s) \in Nat
      /\ \A j \in 1..Len(s) : s[j] \in S
  BY LenProperties, ElementOfSeq
<1>2. /\ a \in Seq(S) /\ Len(a) = i - 1
      /\ \A j \in 1..(i - 1) : a[j] = s[j]
  <2>1. \A j \in 1..(i - 1) : s[j] \in S
    BY <1>1
  <2>2. /\ a \in Seq(S)
        /\ Len(a) = IF 1 <= i - 1 THEN i - 1 - 1 + 1 ELSE 0
        /\ \A j \in 1..(i - 1 - 1 + 1) : a[j] = s[1 + j - 1]
    BY <1>1, <2>1, SubSeqProperties
  <2>. QED BY <1>1, <2>2
<1>3. /\ c \in Seq(S) /\ Len(c) = Len(s) - i
      /\ \A j \in 1..(Len(s) - i) : c[j] = s[i + j]
  <2>1. \A j \in (i + 1)..Len(s) : s[j] \in S
    BY <1>1
  <2>2. /\ c \in Seq(S)
        /\ Len(c) = IF i + 1 <= Len(s) THEN Len(s) - (i + 1) + 1 ELSE 0
        /\ \A j \in 1..(Len(s) - (i + 1) + 1) : c[j] = s[(i + 1) + j - 1]
    BY <1>1, <2>1, SubSeqProperties
  <2>. QED BY <1>1, <2>2
<1> HIDE DEF a, c
<1>4. /\ a \o c \in Seq(S)
      /\ Len(a \o c) = Len(a) + Len(c)
      /\ \A j \in 1..(Len(a) + Len(c)) :
           (a \o c)[j] = IF j <= Len(a) THEN a[j] ELSE c[j - Len(a)]
  BY <1>2, <1>3, ConcatProperties
<1>5. RemoveAt(s, i) = a \o c
  BY DEF RemoveAt, a, c
<1>6. ASSUME NEW j \in 1..(Len(s) - 1)
      PROVE  (a \o c)[j] = IF j < i THEN s[j] ELSE s[j + 1]
  <2>1. CASE j < i
    BY <1>1, <1>2, <1>3, <1>4, <2>1
  <2>2. CASE j >= i
    <3>1. j - Len(a) \in 1..(Len(s) - i) /\ i + (j - Len(a)) = j + 1
      BY <1>1, <1>2, <2>2
    <3>2. j \in 1..(Len(a) + Len(c)) /\ ~(j <= Len(a))
      BY <1>1, <1>2, <1>3, <2>2
    <3>3. (a \o c)[j] = c[j - Len(a)]
      BY <1>4, <3>2
    <3>4. c[j - Len(a)] = s[i + (j - Len(a))]
      BY <1>3, <3>1
    <3>. QED BY <2>2, <3>1, <3>3, <3>4
  <2>3. j < i \/ j >= i
    BY <1>1
  <2>. QED BY <2>1, <2>2, <2>3
<1>. QED BY <1>1, <1>2, <1>3, <1>4, <1>5, <1>6

(* The same list without the element at i, as a set; distinctness is kept. *)
LEMMA RemoveAtSet ==
  ASSUME NEW S, NEW s \in Seq(S), NEW i \in 1..Len(s), IsInjective(s)
  PROVE  /\ IsInjective(RemoveAt(s, i))
         /\ ToSet(RemoveAt(s, i)) = ToSet(s) \ {s[i]}
<1> DEFINE r == RemoveAt(s, i)
<1>1. /\ r \in Seq(S) /\ Len(r) = Len(s) - 1 /\ Len(s) \in Nat
      /\ DOMAIN s = 1..Len(s) /\ DOMAIN r = 1..(Len(s) - 1)
      /\ \A j \in 1..(Len(s) - 1) : r[j] = IF j < i THEN s[j] ELSE s[j + 1]
  BY RemoveAtProperties, LenProperties
<1>2. \A p, q \in 1..Len(s) : s[p] = s[q] => p = q
  BY <1>1 DEF IsInjective
<1> HIDE DEF r
<1>3. \A p, q \in 1..(Len(s) - 1) : r[p] = r[q] => p = q
  <2> SUFFICES ASSUME NEW p \in 1..(Len(s) - 1), NEW q \in 1..(Len(s) - 1),
                      r[p] = r[q]
               PROVE  p = q
    OBVIOUS
  <2> DEFINE P == IF p < i THEN p ELSE p + 1
             Q == IF q < i THEN q ELSE q + 1
  <2>1. P \in 1..Len(s) /\ Q \in 1..Len(s) /\ s[P] = s[Q]
    BY <1>1
  <2>2. P = Q
    BY <1>2, <2>1
  <2>. QED BY <2>2, <1>1
<1>4. ASSUME NEW p \in 1..(Len(s) - 1)
      PROVE  r[p] \in ToSet(s) \ {s[i]}
  <2>1. CASE p < i
    <3>1. r[p] = s[p] /\ p \in 1..Len(s) /\ p # i
      BY <1>1, <2>1
    <3>2. s[p] # s[i]
      BY <1>2, <3>1
    <3>. QED BY <1>1, <3>1, <3>2 DEF ToSet
  <2>2. CASE ~(p < i)
    <3>1. r[p] = s[p + 1] /\ p + 1 \in 1..Len(s) /\ p + 1 # i
      BY <1>1, <2>2
    <3>2. s[p + 1] # s[i]
      BY <1>2, <3>1
    <3>. QED BY <1>1, <3>1, <3>2 DEF ToSet
  <2>. QED BY <2>1, <2>2
<1>5. ASSUME NEW q \in 1..Len(s), q # i
      PROVE  \E p \in 1..(Len(s) - 1) : r[p] = s[q]
  <2>1. CASE q < i
    <3>1. q \in 1..(Len(s) - 1) /\ r[q] = s[q]
      BY <1>1, <2>1
    <3>. QED BY <3>1
  <2>2. CASE q > i
    <3>1. q - 1 \in 1..(Len(s) - 1) /\ r[q - 1] = s[q]
      BY <1>1, <2>2
    <3>. QED BY <3>1
  <2>. QED BY <1>1, <1>5, <2>1, <2>2
<1>6. ToSet(r) = {r[p] : p \in 1..(Len(s) - 1)}
  BY <1>1 DEF ToSet
<1>7. ToSet(s) = {s[q] : q \in 1..Len(s)}
  BY <1>1 DEF ToSet
<1>8. ToSet(r) = ToSet(s) \ {s[i]}
  <2>1. ToSet(r) \subseteq ToSet(s) \ {s[i]}
    BY <1>4, <1>6
  <2>2. ASSUME NEW x \in ToSet(s) \ {s[i]}
        PROVE  x \in ToSet(r)
    <3>1. PICK q \in 1..Len(s) : x = s[q]
      BY <1>7
    <3>2. q # i
      BY <3>1
    <3>. QED BY <1>5, <1>6, <3>1, <3>2
  <2>. QED BY <2>1, <2>2
<1>9. IsInjective(r)
  BY <1>1, <1>3 DEF IsInjective
<1>. QED BY <1>8, <1>9 DEF r
-----------------------------------------------------------------------------
(* Pushing an element that is not in the list.                             *)
LEMMA PushProperties ==
  ASSUME NEW S, NEW s \in Seq(S), NEW b \in S, IsInjective(s), b \notin ToSet(s)
  PROVE  /\ <<b>> \o s \in Seq(S)
         /\ Len(<<b>> \o s) = Len(s) + 1
         /\ IsInjective(<<b>> \o s)
         /\ ToSet(<<b>> \o s) = ToSet(s) \cup {b}
<1> DEFINE r == <<b>> \o s
<1>1. Len(s) \in Nat /\ DOMAIN s = 1..Len(s)
  BY LenProperties
<1>2. <<b>> \in Seq(S) /\ Len(<<b>>) = 1 /\ <<b>>[1] = b
  OBVIOUS
<1>3. /\ r \in Seq(S) /\ Len(r) = 1 + Len(s)
      /\ \A i \in 1..(1 + Len(s)) : r[i] = IF i <= 1 THEN <<b>>[i] ELSE s[i - 1]
  BY <1>2, ConcatProperties
<1> HIDE DEF r
<1>4. DOMAIN r = 1..(1 + Len(s))
  BY <1>3, LenProperties
<1>5. r[1] = b /\ \A i \in 1..Len(s) : r[i + 1] = s[i]
  <2>1. r[1] = b
    BY <1>1, <1>2, <1>3
  <2>2. ASSUME NEW i \in 1..Len(s) PROVE r[i + 1] = s[i]
    <3>1. i + 1 \in 1..(1 + Len(s)) /\ ~(i + 1 <= 1) /\ (i + 1) - 1 = i
      BY <1>1
    <3>. QED BY <1>3, <3>1
  <2>. QED BY <2>1, <2>2
<1>6. \A i \in 1..(1 + Len(s)) : i = 1 \/ \E j \in 1..Len(s) : i = j + 1
  <2> SUFFICES ASSUME NEW i \in 1..(1 + Len(s)), i # 1
               PROVE  i - 1 \in 1..Len(s) /\ i = (i - 1) + 1
    OBVIOUS
  <2>. QED BY <1>1
<1>7. \A i \in 1..Len(s) : s[i] \in ToSet(s) /\ s[i] # b
  BY <1>1 DEF ToSet
<1>8. IsInjective(r)
  <2> SUFFICES ASSUME NEW p \in 1..(1 + Len(s)), NEW q \in 1..(1 + Len(s)), r[p] = r[q]
               PROVE  p = q
    BY <1>4 DEF IsInjective
  <2>1. CASE p = 1 /\ q = 1
    BY <2>1
  <2>2. ASSUME NEW j \in 1..Len(s), p = j + 1, q = 1 PROVE FALSE
    BY <1>5, <1>7, <2>2
  <2>3. ASSUME NEW j \in 1..Len(s), q = j + 1, p = 1 PROVE FALSE
    BY <1>5, <1>7, <2>3
  <2>4. ASSUME NEW j \in 1..Len(s), NEW k \in 1..Len(s), p = j + 1, q = k + 1
        PROVE  p = q
    <3>1. s[j] = s[k]
      BY <1>5, <2>4
    <3>2. j = k
      BY <1>1, <3>1 DEF IsInjective
    <3>. QED BY <2>4, <3>2
  <2>. QED BY <1>6, <2>1, <2>2, <2>3, <2>4
<1>9. ToSet(r) = ToSet(s) \cup {b}
  <2>1. ToSet(r) = {r[i] : i \in 1..(1 + Len(s))} /\ ToSet(s) = {s[i] : i \in 1..Len(s)}
    BY <1>1, <1>4 DEF ToSet
  <2>2. ASSUME NEW x \in ToSet(r) PROVE x \in ToSet(s) \cup {b}
    BY SMTT(30), <1>5, <1>6, <2>1
  <2>3. b \in ToSet(r)
    <3>1. 1 \in 1..(1 + Len(s))
      BY <1>1
    <3>. QED BY <1>5, <2>1, <3>1
  <2>4. ASSUME NEW x \in ToSet(s) PROVE x \in ToSet(r)
    <3>1. PICK i \in 1..Len(s) : x = s[i]
      BY <2>1
    <3>2. i + 1 \in 1..(1 + Len(s)) /\ r[i + 1] = x
      BY <1>1, <1>5, <3>1
    <3>. QED BY <2>1, <3>2
  <2>. QED BY <2>2, <2>3, <2>4
<1>. QED BY <1>3, <1>8, <1>9, <1>1 DEF r

(* Appending to and taking from the queue of tasks.                        *)
LEMMA AppendQueue ==
  ASSUME NEW S, NEW s \in Seq(S), NEW b \in S, IsInjective(s), b \notin ToSet(s)
  PROVE  /\ Append(s, b) \in Seq(S)
         /\ IsInjective(Append(s, b))
         /\ \A i \in DOMAIN Append(s, b) :
              Append(s, b)[i] = b \/ (i \in DOMAIN s /\ Append(s, b)[i] = s[i])
<1> DEFINE r == Append(s, b)
<1>1. /\ Len(s) \in Nat /\ DOMAIN s = 1..Len(s)
      /\ r \in Seq(S) /\ Len(r) = Len(s) + 1
      /\ \A i \in 1..Len(s) : r[i] = s[i]
      /\ r[Len(s) + 1] = b
  BY LenProperties, AppendProperties
<1> HIDE DEF r
<1>2. DOMAIN r = 1..(Len(s) + 1)
  BY <1>1, LenProperties
<1>3. \A i \in 1..Len(s) : s[i] # b
  BY <1>1 DEF ToSet
<1>4. \A i \in 1..(Len(s) + 1) : i \in 1..Len(s) \/ i = Len(s) + 1
  BY <1>1
<1>5. \A p, q \in 1..Len(s) : s[p] = s[q] => p = q
  BY <1>1 DEF IsInjective
<1>6. IsInjective(r)
  BY <1>1, <1>2, <1>3, <1>4, <1>5 DEF IsInjective
<1>7. ASSUME NEW i \in DOMAIN r
      PROVE  r[i] = b \/ (i \in DOMAIN s /\ r[i] = s[i])
  BY <1>1, <1>2, <1>4
<1>8. /\ r \in Seq(S)
      /\ IsInjective(r)
      /\ \A i \in DOMAIN r : r[i] = b \/ (i \in DOMAIN s /\ r[i] = s[i])
  BY <1>1, <1>6, <1>7
<1>. QED BY <1>8, Zenon DEF r

LEMMA TailQueue ==
  ASSUME NEW S, NEW s \in Seq(S), s # <<>>, IsInjective(s)
  PROVE  /\ Tail(s) \in Seq(S)
         /\ IsInjective(Tail(s))
         /\ Head(s) \in S /\ 1 \in DOMAIN s /\ s[1] = Head(s)
         /\ \A i \in DOMAIN Tail(s) :
              /\ i + 1 \in DOMAIN s /\ Tail(s)[i] = s[i + 1]
              /\ Tail(s)[i] # Head(s)
<1> DEFINE r == Tail(s)
<1>1. /\ Len(s) \in Nat \ {0} /\ DOMAIN s = 1..Len(s)
      /\ r \in Seq(S) /\ Len(r) = Len(s) - 1 /\ Head(s) \in S
      /\ \A i \in 1..Len(r) : r[i] = s[i + 1]
  BY LenProperties, HeadTailProperties, EmptySeq
<1>2. Head(s) = s[1]
  OBVIOUS
<1> HIDE DEF r
<1>3. DOMAIN r = 1..(Len(s) - 1)
  BY <1>1, LenProperties
<1>4. \A i \in 1..(Len(s) - 1) : i + 1 \in 1..Len(s) /\ i + 1 # 1 /\ r[i] = s[i + 1]
  BY <1>1
<1>5. \A p, q \in 1..Len(s) : s[p] = s[q] => p = q
  BY <1>1 DEF IsInjective
<1>6. \A i \in 1..(Len(s) - 1) : r[i] # s[1]
  BY <1>1, <1>4, <1>5
<1>7. ASSUME NEW p \in 1..(Len(s) - 1), NEW q \in 1..(Len(s) - 1), r[p] = r[q]
      PROVE  p = q
  <2>1. p + 1 = q + 1
    BY <1>4, <1>5, <1>7
  <2>. QED BY <1>1, <2>1
<1>8. IsInjective(r)
  BY <1>3, <1>7 DEF IsInjective
<1>. QED BY <1>1, <1>2, <1>3, <1>4, <1>6, <1>8 DEF r
-----------------------------------------------------------------------------
(* A cached buffer has a place in the list, and unlinking it from there    *)
(* takes it, and nothing else, out of the list.                            *)
LEMMA UnlinkedProperties ==
  ASSUME TypeOK, ListMatchesTable, NEW t \in Tracks, Present(t)
  PROVE  LET b == index[t] IN
         /\ b \in Buffers /\ b \in ToSet(lru)
         /\ Unlinked(b) \in Seq(Buffers)
         /\ IsInjective(Unlinked(b))
         /\ ToSet(Unlinked(b)) = ToSet(lru) \ {b}
         /\ Touched(b) \in Seq(Buffers)
         /\ Len(Touched(b)) = Len(lru)
         /\ IsInjective(Touched(b))
         /\ ToSet(Touched(b)) = ToSet(lru)
<1> DEFINE b == index[t]
<1>1. b \in Buffers /\ b \in ToSet(lru) /\ lru \in Seq(Buffers) /\ IsInjective(lru)
  BY DEF TypeOK, ListMatchesTable, Present
<1> HIDE DEF b
<1>2. DOMAIN lru = 1..Len(lru) /\ Len(lru) \in Nat
  BY <1>1, LenProperties
<1>3. PositionOf(b) \in 1..Len(lru) /\ lru[PositionOf(b)] = b
  BY <1>1, <1>2 DEF PositionOf, ToSet
<1>4. /\ Unlinked(b) \in Seq(Buffers)
      /\ Len(Unlinked(b)) = Len(lru) - 1
      /\ IsInjective(Unlinked(b))
      /\ ToSet(Unlinked(b)) = ToSet(lru) \ {b}
  BY <1>1, <1>3, RemoveAtProperties, RemoveAtSet DEF Unlinked
<1>5. /\ Touched(b) \in Seq(Buffers)
      /\ Len(Touched(b)) = Len(Unlinked(b)) + 1
      /\ IsInjective(Touched(b))
      /\ ToSet(Touched(b)) = ToSet(Unlinked(b)) \cup {b}
  BY <1>1, <1>4, PushProperties DEF Touched
<1>6. ToSet(Touched(b)) = ToSet(lru) /\ Len(Touched(b)) = Len(lru)
  BY <1>1, <1>2, <1>4, <1>5
<1>. QED BY <1>1, <1>4, <1>5, <1>6 DEF b

(* Distinct tracks have distinct buffers.                                  *)
LEMMA OneTrackPerBuffer ==
  ASSUME ListMatchesTable, NEW t \in Tracks, NEW u \in Tracks,
         Present(t), index[t] = index[u]
  PROVE  t = u
BY DEF ListMatchesTable, Present

(* The invariant survives a step that moves no buffer into or out of the   *)
(* cache and changes no lock.                                              *)
SameCache ==
  /\ index' = index
  /\ IsInjective(lru') /\ ToSet(lru') = ToSet(lru)
  /\ \A t \in Tracks : Present(t) =>
       /\ buf'[index[t]].track = buf[index[t]].track
       /\ buf'[index[t]].locks = buf[index[t]].locks

LEMMA SameCacheList ==
  ASSUME ListMatchesTable, SameCache
  PROVE  ListMatchesTable'
BY DEF ListMatchesTable, SameCache, Present

LEMMA SameCacheHolders ==
  ASSUME HoldersCovered, SameCache, UNCHANGED <<held, timer>>,
         Alive' => Alive
  PROVE  HoldersCovered'
BY DEF HoldersCovered, SameCache, Present, Owed, Alive

(* What a step of the walks or of a worker must do for the invariant.      *)
LEMMA SameCacheStep ==
  ASSUME IInv, SameCache, UNCHANGED <<held, timer>>, Alive' => Alive,
         TypeOK', CallOrder', OneWorker'
  PROVE  IInv'
BY SameCacheList, SameCacheHolders DEF IInv
-----------------------------------------------------------------------------
(* Type correctness, one step per action.                                  *)
LEMMA TypeInit == Init => TypeOK
<1> SUFFICES ASSUME Init PROVE TypeOK
  OBVIOUS
<1>1. PICK u \in Tracks : u = CHOOSE t \in Tracks : TRUE
  BY CacheAssumption
<1>2. Blank \in Flags
  BY <1>1 DEF Blank, NewBuffer, Flags
<1>3. <<>> \in Seq(Buffers)
  BY EmptySeq
<1>. QED BY <1>2, <1>3, CacheAssumption DEF Init, TypeOK, Phases, NoWalk, Ready

LEMMA NewBufferType == \A t \in Tracks : NewBuffer(t) \in Flags
BY DEF NewBuffer, Flags

LEMMA BlankType == Blank \in Flags
<1>1. PICK u \in Tracks : u = CHOOSE t \in Tracks : TRUE
  BY CacheAssumption
<1>. QED BY <1>1, NewBufferType DEF Blank

LEMMA FreedType ==
  ASSUME TypeOK, NEW b \in Buffers
  PROVE  Freed(b) \in [Buffers -> Flags]
BY BlankType DEF Freed, TypeOK

(* The fields the actions update keep their types.                         *)
LEMMA BufferUpdates ==
  ASSUME NEW f \in [Buffers -> Flags], NEW b \in Buffers, NEW n \in Nat
  PROVE  /\ [f EXCEPT ![b].locks = n] \in [Buffers -> Flags]
         /\ [f EXCEPT ![b].mem = n] \in [Buffers -> Flags]
         /\ [f EXCEPT ![b].fresh = TRUE] \in [Buffers -> Flags]
         /\ [f EXCEPT ![b].failed = TRUE] \in [Buffers -> Flags]
         /\ [f EXCEPT ![b].cancelled = TRUE] \in [Buffers -> Flags]
         /\ [f EXCEPT ![b].mem = n, ![b].fresh = TRUE, ![b].complete = TRUE]
              \in [Buffers -> Flags]
         /\ [f EXCEPT ![b].mem = n, ![b].fresh = TRUE, ![b].failed = TRUE]
              \in [Buffers -> Flags]
<1>1. f[b] \in Flags
  OBVIOUS
<1>2. /\ [f[b] EXCEPT !.locks = n] \in Flags
      /\ [f[b] EXCEPT !.mem = n] \in Flags
      /\ [f[b] EXCEPT !.fresh = TRUE] \in Flags
      /\ [f[b] EXCEPT !.failed = TRUE] \in Flags
      /\ [f[b] EXCEPT !.cancelled = TRUE] \in Flags
  BY <1>1 DEF Flags
<1>3. [f[b] EXCEPT !.mem = n, !.fresh = TRUE, !.complete = TRUE] \in Flags
  BY <1>1 DEF Flags
<1>4. [f[b] EXCEPT !.mem = n, !.fresh = TRUE, !.failed = TRUE] \in Flags
  BY <1>1 DEF Flags
<1>5. /\ [f EXCEPT ![b].locks = n] \in [Buffers -> Flags]
      /\ [f EXCEPT ![b].mem = n] \in [Buffers -> Flags]
      /\ [f EXCEPT ![b].fresh = TRUE] \in [Buffers -> Flags]
      /\ [f EXCEPT ![b].failed = TRUE] \in [Buffers -> Flags]
      /\ [f EXCEPT ![b].cancelled = TRUE] \in [Buffers -> Flags]
  BY <1>2
<1>6. [f EXCEPT ![b].mem = n, ![b].fresh = TRUE, ![b].complete = TRUE]
        \in [Buffers -> Flags]
  BY <1>3
<1>7. [f EXCEPT ![b].mem = n, ![b].fresh = TRUE, ![b].failed = TRUE]
        \in [Buffers -> Flags]
  BY <1>4
<1>. QED BY <1>5, <1>6, <1>7

(* Only the lock operations change a lock count, and no update the track.  *)
LEMMA KeepsTrackAndLocks ==
  ASSUME NEW f \in [Buffers -> Flags], NEW b \in Buffers, NEW n,
         NEW g \in {f, [f EXCEPT ![b].mem = n], [f EXCEPT ![b].fresh = TRUE],
                    [f EXCEPT ![b].failed = TRUE], [f EXCEPT ![b].cancelled = TRUE],
                    [f EXCEPT ![b].mem = n, ![b].fresh = TRUE, ![b].complete = TRUE],
                    [f EXCEPT ![b].mem = n, ![b].fresh = TRUE, ![b].failed = TRUE]},
         NEW c \in Buffers
  PROVE  g[c].track = f[c].track /\ g[c].locks = f[c].locks
<1>1. f[b] \in Flags /\ f[c] \in Flags
  OBVIOUS
<1>2. CASE c # b
  BY <1>2
<1>3. CASE c = b
  <2>1. g[b] \in {f[b], [f[b] EXCEPT !.mem = n], [f[b] EXCEPT !.fresh = TRUE],
                  [f[b] EXCEPT !.failed = TRUE], [f[b] EXCEPT !.cancelled = TRUE],
                  [f[b] EXCEPT !.mem = n, !.fresh = TRUE, !.complete = TRUE],
                  [f[b] EXCEPT !.mem = n, !.fresh = TRUE, !.failed = TRUE]}
    OBVIOUS
  <2>2. g[b].track = f[b].track /\ g[b].locks = f[b].locks
    BY <1>1, <2>1 DEF Flags
  <2>. QED BY <1>3, <2>2
<1>. QED BY <1>2, <1>3

(* Nor do these updates touch the final flags.                             *)
LEMMA KeepsFinalFlags ==
  ASSUME NEW f \in [Buffers -> Flags], NEW b \in Buffers, NEW n, NEW g,
         \/ g = f
         \/ g = [f EXCEPT ![b].locks = n]
         \/ g = [f EXCEPT ![b].fresh = TRUE]
         \/ g = [f EXCEPT ![b].cancelled = TRUE]
  PROVE  \A c \in Buffers : /\ g[c].complete = f[c].complete
                            /\ g[c].failed = f[c].failed
<1> SUFFICES ASSUME NEW c \in Buffers
             PROVE  g[c].complete = f[c].complete /\ g[c].failed = f[c].failed
  OBVIOUS
<1>1. f[b] \in Flags /\ f[c] \in Flags
  OBVIOUS
<1>2. CASE c # b
  BY <1>2
<1>3. CASE c = b
  <2>1. g[b] \in {f[b], [f[b] EXCEPT !.locks = n], [f[b] EXCEPT !.fresh = TRUE],
                  [f[b] EXCEPT !.cancelled = TRUE]}
    OBVIOUS
  <2>2. g[b].complete = f[b].complete /\ g[b].failed = f[b].failed
    BY <1>1, <2>1 DEF Flags
  <2>. QED BY <1>3, <2>2
<1>. QED BY <1>2, <1>3

LEMMA ReleaseType ==
  ASSUME TypeOK, NEW t \in Tracks, Release(t)
  PROVE  buf' \in [Buffers -> Flags]
<1>1. CASE Present(t) /\ buf[index[t]].locks > 0
  <2>1. index[t] \in Buffers
    BY <1>1 DEF Present, TypeOK
  <2>2. buf \in [Buffers -> Flags] /\ buf[index[t]].locks - 1 \in Nat
    BY <1>1, <2>1 DEF Flags, TypeOK
  <2>3. buf' = [buf EXCEPT ![index[t]].locks = buf[index[t]].locks - 1]
    BY <1>1 DEF Release
  <2>. QED BY <2>1, <2>2, <2>3, BufferUpdates
<1>2. CASE ~(Present(t) /\ buf[index[t]].locks > 0)
  BY <1>2 DEF Release, TypeOK
<1>. QED BY <1>1, <1>2

(* size_t arithmetic stays in range.                                       *)
LEMMA WrapType ==
  ASSUME NEW x \in Int, NEW M \in Nat \ {0}
  PROVE  x % M \in 0..(M - 1)
OBVIOUS

LEMMA TypeStep ==
  ASSUME TypeOK, ListMatchesTable, CallOrder, Next
  PROVE  TypeOK'
<1> USE CacheAssumption DEF TypeOK
<1>1. ASSUME NEW t \in Tracks, Load(t) PROVE TypeOK'
  <2>1. CASE Present(t)
    <3>1. index[t] \in Buffers
      BY <2>1 DEF Present
    <3>2. Unlinked(index[t]) \in Seq(Buffers) /\ Touched(index[t]) \in Seq(Buffers)
      BY <2>1, UnlinkedProperties
    <3>3. Freed(index[t]) \in [Buffers -> Flags]
      BY <3>1, FreedType
    <3>4. buf' \in [Buffers -> Flags]
      <4>1. [buf EXCEPT ![index[t]].fresh = TRUE] \in [Buffers -> Flags]
        BY <3>1, BufferUpdates
      <4>. QED BY <1>1, <2>1, <3>3, <4>1 DEF Load
    <3>5. lru' \in Seq(Buffers)
      BY <1>1, <2>1, <3>2 DEF Load
    <3>6. index' \in [Tracks -> Buffers \cup {NoBuffer}]
      BY <1>1 DEF Load
    <3>7. main' = [at |-> "loaded", track |-> t] \/ main' = [at |-> "insert", track |-> t]
      BY <1>1 DEF Load
    <3>8. main' \in [at: {"ready", "insert", "loaded"},
                    track: Tracks \cup {NoBuffer}]
      BY <3>7
    <3>. QED BY <1>1, <3>4, <3>5, <3>6, <3>8 DEF Load
  <2>2. CASE ~Present(t)
    <3>1. /\ main' = [at |-> "insert", track |-> t]
          /\ index' = [index EXCEPT ![t] = NoBuffer]
          /\ lru' = lru /\ buf' = buf
          /\ UNCHANGED <<used, tasks, phase, walk, held, timer, life>>
      BY <1>1, <2>2 DEF Load
    <3>. QED BY <3>1
  <2>. QED BY <2>1, <2>2
<1>2. ASSUME NEW b \in Buffers, LoadInsert(b) PROVE TypeOK'
  <2>1. main.track \in Tracks
    BY <1>2 DEF LoadInsert, CallOrder
  <2>2. <<b>> \o lru \in Seq(Buffers) /\ Append(tasks, b) \in Seq(Buffers)
    BY ConcatProperties, AppendProperties
  <2>3. NewBuffer(main.track) \in Flags
    BY <2>1, NewBufferType
  <2>. QED BY <1>2, <2>1, <2>2, <2>3 DEF LoadInsert, Phases
<1>3. ASSUME LoadFails \/ LoadOnly PROVE TypeOK'
  BY <1>3 DEF LoadFails, LoadOnly, Ready
<1>4. ASSUME Lock PROVE TypeOK'
  <2>1. main.track \in Tracks
    BY <1>4 DEF Lock, CallOrder
  <2>2. CASE Present(main.track)
    <3>1. index[main.track] \in Buffers
      BY <2>1, <2>2 DEF Present
    <3>2. buf' \in [Buffers -> Flags] /\ held' \in [Tracks -> Nat]
      <4>1. buf[index[main.track]].locks + 1 \in Nat
        BY <3>1 DEF Flags
      <4>2. buf' = [buf EXCEPT ![index[main.track]].locks
                                 = buf[index[main.track]].locks + 1]
            /\ held' = [held EXCEPT ![main.track] = held[main.track] + 1]
        BY <1>4, <2>2 DEF Lock
      <4>3. buf' \in [Buffers -> Flags]
        BY <3>1, <4>1, <4>2, BufferUpdates
      <4>. QED BY SMTT(30), <2>1, <4>2, <4>3
    <3>. QED BY <1>4, <2>2, <3>2 DEF Lock, Ready
  <2>3. CASE ~Present(main.track)
    BY <1>4, <2>3 DEF Lock, Ready
  <2>. QED BY <2>2, <2>3
<1>5. ASSUME NEW t \in Tracks, UnlockNow(t) PROVE TypeOK'
  <2>1. buf' \in [Buffers -> Flags]
    BY <1>5, ReleaseType DEF UnlockNow
  <2>2. held' \in [Tracks -> Nat]
    BY <1>5 DEF UnlockNow
  <2>. QED BY <1>5, <2>1, <2>2 DEF UnlockNow, Release
<1>6. ASSUME NEW t \in Tracks, UnlockDeferred(t) PROVE TypeOK'
  BY SMTT(30), <1>6 DEF UnlockDeferred
<1>7. ASSUME NEW t \in Tracks, UnlockTimer(t) PROVE TypeOK'
  <2>1. buf' \in [Buffers -> Flags]
    BY <1>7, ReleaseType DEF UnlockTimer
  <2>. QED BY <1>7, <2>1 DEF UnlockTimer, Release
<1>8. ASSUME NEW t \in Tracks, GetLocked(t) PROVE TypeOK'
  <2>1. CASE Present(t)
    <3>1. index[t] \in Buffers
      BY <2>1 DEF Present
    <3>2. Touched(index[t]) \in Seq(Buffers)
      BY <2>1, UnlinkedProperties
    <3>3. buf' \in [Buffers -> Flags]
      <4>1. [buf EXCEPT ![index[t]].fresh = TRUE] \in [Buffers -> Flags]
        BY <3>1, BufferUpdates
      <4>2. buf' = buf \/ buf' = [buf EXCEPT ![index[t]].fresh = TRUE]
        BY <1>8 DEF GetLocked
      <4>. QED BY <4>1, <4>2
    <3>. QED BY <1>8, <3>2, <3>3 DEF GetLocked
  <2>2. CASE ~Present(t)
    BY <1>8, <2>2 DEF GetLocked
  <2>. QED BY <2>1, <2>2
<1>9. ASSUME NEW t \in Tracks, CancelLoad(t) PROVE TypeOK'
  BY ZenonT(60), <1>9 DEF CancelLoad, Present, Flags
<1>10. ASSUME TimePasses PROVE TypeOK'
  BY ZenonT(60), <1>10 DEF TimePasses, Flags
<1>11. ASSUME SweepBegin PROVE TypeOK'
  <2>1. Len(lru) \in Nat
    BY LenProperties
  <2>. QED BY <1>11, <2>1 DEF SweepBegin
<1>12. ASSUME WalkSkip \/ WalkEnd PROVE TypeOK'
  BY SMTT(30), <1>12 DEF WalkSkip, WalkEnd, WalkOn, NoWalk
<1>13. ASSUME WalkReclaim PROVE TypeOK'
  <2> DEFINE b == lru[walk.pos]
  <2>1. walk.pos \in 1..Len(lru) /\ Len(lru) \in Nat
    BY <1>13, LenProperties DEF WalkReclaim, WalkOn, CallOrder
  <2>2. b \in Buffers
    BY <2>1, ElementOfSeq
  <2>3. Freed(b) \in [Buffers -> Flags]
    BY <2>2, FreedType
  <2>4. RemoveAt(lru, walk.pos) \in Seq(Buffers)
    BY <2>1, RemoveAtProperties
  <2>5. buf[b].mem \in Nat
    BY <2>2 DEF Flags
  <2>6. used' \in 0..(Modulus - 1)
    <3>1. used - buf[b].mem \in Int
      BY SMTT(30), <2>5
    <3>2. used' = (used - buf[b].mem) % Modulus
      BY <1>13 DEF WalkReclaim
    <3>. QED BY <3>1, <3>2, WrapType
  <2> HIDE DEF b
  <2>7. /\ walk' = [walk EXCEPT !.pos = @ - 1]
        /\ index' = [index EXCEPT ![buf[b].track] = NoBuffer]
        /\ lru' = RemoveAt(lru, walk.pos) /\ buf' = Freed(b)
        /\ UNCHANGED <<tasks, phase, main, held, timer, life>>
    BY <1>13 DEF WalkReclaim, b
  <2>8. walk' \in [kind: {"none", "evict", "sweep"}, pos: Nat]
    <3>1. walk.pos - 1 \in Nat
      BY <2>1
    <3>. QED BY <2>7, <3>1
  <2>9. index' \in [Tracks -> Buffers \cup {NoBuffer}]
    BY <2>7
  <2>. QED BY <2>3, <2>4, <2>6, <2>7, <2>8, <2>9
<1>14. ASSUME Start PROVE TypeOK'
  BY <1>14, HeadTailProperties DEF Start, Phases
<1>15. ASSUME NEW b \in Buffers, Allocate(b) PROVE TypeOK'
  <2>1. Size[buf[b].track] + 1 \in Nat
    BY DEF Flags
  <2>2. buf' = [buf EXCEPT ![b].mem = Size[buf[b].track] + 1]
    BY <1>15 DEF Allocate
  <2>3. buf' \in [Buffers -> Flags]
    BY <2>1, <2>2, BufferUpdates
  <2>. QED BY <1>15, <2>3 DEF Allocate
<1>16. ASSUME NEW b \in Buffers, DecodeError(b) \/ DecodeStop(b) PROVE TypeOK'
  <2>1. CASE DecodeError(b)
    <3>1. buf' \in [Buffers -> Flags]
      BY ZenonT(60), <2>1 DEF DecodeError, Flags
    <3>. QED BY <2>1, <3>1 DEF DecodeError, Phases
  <2>2. CASE DecodeStop(b)
    BY <2>2 DEF DecodeStop, Phases
  <2>. QED BY <1>16, <2>1, <2>2
<1>17. ASSUME NEW b \in Buffers, Publish(b) PROVE TypeOK'
  <2>1. Size[buf[b].track] \in Nat
    BY DEF Flags
  <2>3. buf' \in [Buffers -> Flags]
    BY <1>17, <2>1, BufferUpdates DEF Publish
  <2>. QED BY <1>17, <2>3 DEF Publish, Phases
<1>18. ASSUME NEW b \in Buffers, CleanupDone(b) PROVE TypeOK'
  <2>1. Len(lru) \in Nat
    BY LenProperties
  <2>2. buf[b].mem \in Nat
    BY DEF Flags
  <2>3. used' \in 0..(Modulus - 1)
    <3>1. used + buf[b].mem \in Int
      BY <2>2
    <3>2. used' = (used + buf[b].mem) % Modulus
      BY <1>18 DEF CleanupDone
    <3>. QED BY <3>1, <3>2, WrapType
  <2>. QED BY <1>18, <2>1, <2>3 DEF CleanupDone, Phases
<1>19. ASSUME NEW b \in Buffers, CleanupFailed(b) PROVE TypeOK'
  <2>1. buf' \in [Buffers -> Flags]
    <3>1. 0 \in Nat
      OBVIOUS
    <3>. QED BY <1>19, <3>1, BufferUpdates DEF CleanupFailed
  <2>. QED BY <1>19, <2>1 DEF CleanupFailed, Phases
<1>20. ASSUME NEW b \in Buffers, CleanupFreed(b) PROVE TypeOK'
  <2>1. Len(lru) \in Nat
    BY LenProperties
  <2>2. buf[b].mem \in Nat
    BY DEF Flags
  <2>3. (used + buf[b].mem) % Modulus \in 0..(Modulus - 1)
    <3>1. used + buf[b].mem \in Int
      BY <2>2
    <3>. QED BY <3>1, WrapType
  <2>. QED BY <1>20, <2>1, <2>3, BlankType DEF CleanupFreed, Phases
<1>21. ASSUME DestroyBegin PROVE TypeOK'
  <2>1. <<>> \in Seq(Buffers)
    BY EmptySeq
  <2>2. buf' \in [Buffers -> Flags]
    <3> SUFFICES ASSUME NEW b \in Buffers
                 PROVE  (IF Cached(b) /\ ~buf[b].complete
                         THEN [buf[b] EXCEPT !.cancelled = TRUE] ELSE buf[b])
                        \in Flags
      BY <1>21 DEF DestroyBegin
    <3>1. buf[b] \in Flags
      OBVIOUS
    <3>. QED BY <3>1 DEF Flags
  <2>. QED BY <1>21, <2>1, <2>2 DEF DestroyBegin, Phases
<1>22. ASSUME DestroyEnd PROVE TypeOK'
  <2>1. <<>> \in Seq(Buffers)
    BY EmptySeq
  <2>. QED BY <1>22, <2>1, BlankType DEF DestroyEnd
<1>. QED
  BY <1>1, <1>2, <1>3, <1>4, <1>5, <1>6, <1>7, <1>8, <1>9, <1>10, <1>11, <1>12,
     <1>13, <1>14, <1>15, <1>16, <1>17, <1>18, <1>19, <1>20, <1>21, <1>22
  DEF Next, Client, Walk, Decode, Cleanup
-----------------------------------------------------------------------------
(* The list, the table, the holders: the actions that move no buffer.      *)
QuietStep ==
  \/ LoadFails \/ LoadOnly \/ TimePasses \/ SweepBegin \/ Start
  \/ WalkSkip \/ WalkEnd \/ DestroyBegin
  \/ \E t \in Tracks : GetLocked(t) \/ CancelLoad(t)
  \/ \E b \in Buffers : Decode(b) \/ Cleanup(b)

LEMMA QuietSame ==
  ASSUME TypeOK, ListMatchesTable, QuietStep
  PROVE  /\ SameCache /\ UNCHANGED <<held, timer>>
         /\ Alive' => Alive
<1> USE DEF SameCache, Alive
<1>0. IsInjective(lru)
  BY DEF ListMatchesTable
<1>1. CASE LoadFails \/ LoadOnly \/ SweepBegin \/ Start \/ WalkSkip \/ WalkEnd
  BY <1>0, <1>1 DEF LoadFails, LoadOnly, SweepBegin, Start, WalkSkip, WalkEnd
<1>2. CASE TimePasses
  <2>1. \A b \in Buffers : buf'[b].track = buf[b].track /\ buf'[b].locks = buf[b].locks
    BY <1>2 DEF TimePasses, TypeOK, Flags
  <2>. QED BY <1>0, <1>2, <2>1 DEF TimePasses, TypeOK, Present
<1>3. CASE DestroyBegin
  <2>1. ASSUME NEW b \in Buffers
        PROVE  buf'[b].track = buf[b].track /\ buf'[b].locks = buf[b].locks
    <3>1. buf[b] \in Flags
      BY DEF TypeOK
    <3>2. buf'[b] = buf[b] \/ buf'[b] = [buf[b] EXCEPT !.cancelled = TRUE]
      BY <1>3 DEF DestroyBegin
    <3>. QED BY <3>1, <3>2 DEF Flags
  <2>2. UNCHANGED <<index, lru, held, timer>> /\ Alive
    BY <1>3 DEF DestroyBegin, MainIdle, InCall
  <2>. QED BY <1>0, <2>1, <2>2 DEF TypeOK, Present
<1>4. ASSUME NEW t \in Tracks, GetLocked(t)
      PROVE  SameCache /\ UNCHANGED <<held, timer>> /\ (Alive' => Alive)
  <2>1. UNCHANGED <<index, held, timer>> /\ Alive
    BY <1>4 DEF GetLocked, MainIdle, InCall
  <2>2. CASE Present(t)
    <3>1. index[t] \in Buffers
      BY <2>2 DEF TypeOK, Present
    <3>2. \/ buf' = buf /\ lru' = lru
          \/ buf' = [buf EXCEPT ![index[t]].fresh = TRUE] /\ lru' = Touched(index[t])
      BY <1>4 DEF GetLocked
    <3>3. \A b \in Buffers : buf'[b].track = buf[b].track /\ buf'[b].locks = buf[b].locks
      <4>1. CASE buf' = buf
        BY <4>1
      <4>2. CASE buf' = [buf EXCEPT ![index[t]].fresh = TRUE]
        BY <3>1, <4>2, KeepsTrackAndLocks DEF TypeOK
      <4>. QED BY <3>2, <4>1, <4>2
    <3>4. IsInjective(lru') /\ ToSet(lru') = ToSet(lru)
      BY <1>0, <2>2, <3>2, UnlinkedProperties
    <3>. QED BY <2>1, <3>3, <3>4 DEF TypeOK, Present
  <2>3. CASE ~Present(t)
    BY <1>0, <1>4, <2>1, <2>3 DEF GetLocked
  <2>. QED BY <2>2, <2>3
<1>5. ASSUME NEW t \in Tracks, CancelLoad(t)
      PROVE  SameCache /\ UNCHANGED <<held, timer>> /\ (Alive' => Alive)
  <2>1. index[t] \in Buffers
    BY <1>5 DEF CancelLoad, Present, TypeOK
  <2>2. UNCHANGED <<index, lru, held, timer, life>>
    BY <1>5 DEF CancelLoad
  <2>3. \A b \in Buffers : buf'[b].track = buf[b].track /\ buf'[b].locks = buf[b].locks
    BY <1>5, <2>1 DEF CancelLoad, TypeOK, Flags
  <2>. QED BY <1>0, <2>2, <2>3 DEF TypeOK, Present
<1>6. ASSUME NEW b \in Buffers, Decode(b) \/ CleanupDone(b) \/ CleanupFailed(b)
      PROVE  SameCache /\ UNCHANGED <<held, timer>> /\ (Alive' => Alive)
  <2>1. UNCHANGED <<index, lru, held, timer, life>>
    BY <1>6 DEF Decode, Allocate, DecodeError, DecodeStop, Publish, CleanupDone,
                CleanupFailed
  <2>2. \A c \in Buffers : buf'[c].track = buf[c].track /\ buf'[c].locks = buf[c].locks
    <3>1. CASE Allocate(b)
      BY <3>1, KeepsTrackAndLocks DEF Allocate, TypeOK
    <3>4. CASE DecodeError(b)
      BY <3>4, KeepsTrackAndLocks DEF DecodeError, TypeOK
    <3>5. CASE DecodeStop(b) \/ CleanupDone(b)
      BY <3>5 DEF DecodeStop, CleanupDone
    <3>2. CASE Publish(b)
      BY <3>2, KeepsTrackAndLocks DEF Publish, TypeOK
    <3>3. CASE CleanupFailed(b)
      BY <3>3, KeepsTrackAndLocks DEF CleanupFailed, TypeOK
    <3>. QED BY <1>6, <3>1, <3>2, <3>3, <3>4, <3>5 DEF Decode
  <2>. QED BY <1>0, <2>1, <2>2 DEF TypeOK, Present
<1>7. ASSUME NEW b \in Buffers, CleanupFreed(b)
      PROVE  SameCache /\ UNCHANGED <<held, timer>> /\ (Alive' => Alive)
  <2>1. UNCHANGED <<index, lru, held, timer>> /\ Alive
    BY <1>7 DEF CleanupFreed
  <2>2. \A c \in Buffers : c # b => buf'[c] = buf[c]
    BY <1>7 DEF CleanupFreed, TypeOK
  <2>3. \A t \in Tracks : Present(t) => index[t] \in Buffers /\ index[t] # b
    BY <1>7 DEF CleanupFreed, Cached, Present, TypeOK
  <2>. QED BY <1>0, <2>1, <2>2, <2>3
<1>. QED BY <1>1, <1>2, <1>3, <1>4, <1>5, <1>6, <1>7 DEF QuietStep, Cleanup
-----------------------------------------------------------------------------
(* A buffer that leaves the cache: its track has no holder, the list and   *)
(* the table lose the same entry.                                          *)
LEMMA LeavesCache ==
  ASSUME TypeOK, ListMatchesTable, HoldersCovered,
         NEW t \in Tracks, Present(t), buf[index[t]].locks = 0,
         index' = [index EXCEPT ![t] = NoBuffer],
         IsInjective(lru'), ToSet(lru') = ToSet(lru) \ {index[t]},
         buf' = Freed(index[t]), UNCHANGED <<held, timer, life>>
  PROVE  ListMatchesTable' /\ HoldersCovered'
<1>1. ASSUME NEW u \in Tracks, u # t, Present(u)
      PROVE  index[u] # index[t] /\ buf'[index[u]] = buf[index[u]]
  <2>1. index[u] # index[t]
    BY <1>1, OneTrackPerBuffer
  <2>2. index[u] \in Buffers
    BY <1>1 DEF TypeOK, Present
  <2>. QED BY <2>1, <2>2 DEF Freed, TypeOK
<1>2. ListMatchesTable'
  <2>1. {index'[u] : u \in Tracks} \ {NoBuffer}
          = ({index[u] : u \in Tracks} \ {NoBuffer}) \ {index[t]}
    BY <1>1 DEF TypeOK, Present
  <2>2. \A u \in Tracks : Present(u)' => buf'[index'[u]].track = u
    BY <1>1 DEF ListMatchesTable, TypeOK, Present
  <2>. QED BY <2>1, <2>2 DEF ListMatchesTable
<1>3. HoldersCovered'
  <2> SUFFICES ASSUME life \in {"up", "closing"}, NEW u \in Tracks, Owed(u)' > 0
               PROVE  Present(u)' /\ buf'[index'[u]].locks >= Owed(u)'
    BY DEF HoldersCovered
  <2>1. Owed(u)' = Owed(u)
    BY DEF Owed
  <2>2. Present(u) /\ buf[index[u]].locks >= Owed(u)
    BY <2>1 DEF HoldersCovered
  <2>3. u # t
    <3>1. Owed(u) \in Nat
      BY DEF Owed, TypeOK
    <3>. QED BY <2>1, <2>2, <3>1
  <2>. QED BY <1>1, <2>1, <2>2, <2>3 DEF Present, TypeOK
<1>. QED BY <1>2, <1>3

(* A lock count that changes with the claims on its track.                 *)
LEMMA LockChange ==
  ASSUME TypeOK, ListMatchesTable, HoldersCovered, NEW t \in Tracks, Present(t),
         NEW n \in Nat, buf' = [buf EXCEPT ![index[t]].locks = n],
         n >= Owed(t)', \A u \in Tracks : u # t => Owed(u)' = Owed(u),
         UNCHANGED <<index, lru, life>>
  PROVE  ListMatchesTable' /\ HoldersCovered'
<1>1. index[t] \in Buffers
  BY DEF TypeOK, Present
<1>2. buf'[index[t]].locks = n
  BY <1>1 DEF TypeOK, Flags
<1>3. \A c \in Buffers : c # index[t] => buf'[c] = buf[c]
  BY <1>1 DEF TypeOK
<1>4. buf'[index[t]].track = buf[index[t]].track
  <2>1. buf[index[t]] \in Flags
    BY <1>1 DEF TypeOK
  <2>. QED BY <1>1, <2>1 DEF TypeOK, Flags
<1>5. \A u \in Tracks : Present(u) => index[u] \in Buffers
  BY DEF TypeOK, Present
<1>6. \A u \in Tracks : Present(u) => buf'[index[u]].track = u
  BY <1>3, <1>4, <1>5 DEF ListMatchesTable
<1>7. ListMatchesTable'
  BY <1>6 DEF ListMatchesTable, Present
<1>8. ASSUME life \in {"up", "closing"}, NEW u \in Tracks, Owed(u)' > 0
      PROVE  Present(u)' /\ buf'[index'[u]].locks >= Owed(u)'
  <2>1. CASE u = t
    BY <1>2, <2>1 DEF Present
  <2>2. CASE u # t
    <3>1. Owed(u)' = Owed(u)
      BY <2>2
    <3>2. Present(u) /\ buf[index[u]].locks >= Owed(u)
      BY <1>8, <3>1 DEF HoldersCovered
    <3>3. index[u] # index[t]
      BY <2>2, <3>2, OneTrackPerBuffer
    <3>. QED BY <1>3, <1>5, <3>1, <3>2, <3>3 DEF Present
  <2>. QED BY <2>1, <2>2
<1>. QED BY <1>7, <1>8 DEF HoldersCovered

(* A claim given back never finds the count at zero.                       *)
LEMMA ReleaseCovered ==
  ASSUME TypeOK, ListMatchesTable, HoldersCovered, NEW t \in Tracks,
         life = "up", Owed(t) > 0, Release(t),
         Owed(t)' = Owed(t) - 1,
         \A u \in Tracks : u # t => Owed(u)' = Owed(u),
         UNCHANGED <<index, lru>>
  PROVE  ListMatchesTable' /\ HoldersCovered' /\ life' = life
<1>1. Present(t) /\ buf[index[t]].locks >= Owed(t)
  BY DEF HoldersCovered
<1>2. index[t] \in Buffers /\ Owed(t) \in Nat
  BY <1>1 DEF Present, TypeOK, Owed
<1>3. buf[index[t]].locks \in Nat
  BY <1>2 DEF TypeOK, Flags
<1>4. /\ buf' = [buf EXCEPT ![index[t]].locks = buf[index[t]].locks - 1]
      /\ life' = life
  BY <1>1, <1>2, <1>3 DEF Release
<1>5. buf[index[t]].locks - 1 \in Nat /\ buf[index[t]].locks - 1 >= Owed(t)'
  BY <1>1, <1>2, <1>3
<1>. QED BY <1>1, <1>4, <1>5, LockChange

LEMMA CacheStep ==
  ASSUME IInv, Next
  PROVE  ListMatchesTable' /\ HoldersCovered'
<1> USE DEF IInv
<1>a. ASSUME NEW t \in Tracks PROVE Owed(t) \in Nat
  BY DEF Owed, TypeOK
<1>1. ASSUME NEW t \in Tracks, Load(t) PROVE ListMatchesTable' /\ HoldersCovered'
  <2>1. UNCHANGED <<held, timer, life>>
    BY <1>1 DEF Load
  <2>2. CASE Present(t) /\ ~Retried(index[t])
    <3>1. index[t] \in Buffers
      BY <2>2 DEF TypeOK, Present
    <3>2. /\ lru' = Touched(index[t]) /\ index' = index
          /\ buf' = [buf EXCEPT ![index[t]].fresh = TRUE]
      BY <1>1, <2>2 DEF Load
    <3>3. \A b \in Buffers : buf'[b].track = buf[b].track /\ buf'[b].locks = buf[b].locks
      BY <3>1, <3>2, KeepsTrackAndLocks DEF TypeOK
    <3>4. IsInjective(lru') /\ ToSet(lru') = ToSet(lru)
      BY <2>2, <3>2, UnlinkedProperties
    <3>5. SameCache
      BY <3>2, <3>3, <3>4 DEF SameCache, TypeOK, Present
    <3>. QED BY <2>1, <3>5, SameCacheList, SameCacheHolders DEF Alive
  <2>3. CASE Present(t) /\ Retried(index[t])
    <3>1. /\ lru' = Unlinked(index[t]) /\ buf' = Freed(index[t])
          /\ index' = [index EXCEPT ![t] = NoBuffer]
      BY <1>1, <2>3 DEF Load, Retried
    <3>2. IsInjective(lru') /\ ToSet(lru') = ToSet(lru) \ {index[t]}
      BY <2>3, <3>1, UnlinkedProperties
    <3>. QED BY <2>1, <2>3, <3>1, <3>2, LeavesCache DEF Retried
  <2>4. CASE ~Present(t)
    <3>1. lru' = lru /\ buf' = buf /\ index' = index
      BY <1>1, <2>4 DEF Load, TypeOK, Present
    <3>. QED BY <2>1, <3>1 DEF ListMatchesTable, HoldersCovered, Present, Owed
  <2>. QED BY <2>2, <2>3, <2>4
<1>2. ASSUME NEW b \in Buffers, LoadInsert(b) PROVE ListMatchesTable' /\ HoldersCovered'
  <2> DEFINE t == main.track
  <2>1. t \in Tracks /\ ~Present(t)
    BY <1>2 DEF LoadInsert, CallOrder
  <2>2. /\ index' = [index EXCEPT ![t] = b] /\ lru' = <<b>> \o lru
        /\ buf' = [buf EXCEPT ![b] = NewBuffer(t)]
        /\ UNCHANGED <<held, timer, life>> /\ ~Cached(b)
    BY <1>2 DEF LoadInsert
  <2> HIDE DEF t
  <2>3. \A u \in Tracks : index[u] # b
    BY <2>2 DEF Cached
  <2>4. IsInjective(lru') /\ ToSet(lru') = ToSet(lru) \cup {b}
    <3>1. b \notin ToSet(lru)
      BY <2>3 DEF ListMatchesTable
    <3>. QED BY <2>2, <3>1, PushProperties DEF ListMatchesTable, TypeOK
  <2>5. index[t] = NoBuffer /\ b # NoBuffer
    BY <2>1, CacheAssumption DEF Present
  <2>6. {index'[u] : u \in Tracks} \ {NoBuffer}
          = ({index[u] : u \in Tracks} \ {NoBuffer}) \cup {b}
    BY <2>1, <2>2, <2>5 DEF TypeOK
  <2>7. \A u \in Tracks : Present(u)' => buf'[index'[u]].track = u
    <3> SUFFICES ASSUME NEW u \in Tracks, Present(u)' PROVE buf'[index'[u]].track = u
      OBVIOUS
    <3>1. CASE u = t
      BY <2>1, <2>2, <3>1 DEF TypeOK, NewBuffer
    <3>2. CASE u # t
      BY <2>1, <2>2, <2>3, <3>2 DEF TypeOK, Present, ListMatchesTable
    <3>. QED BY <3>1, <3>2
  <2>8. HoldersCovered'
    <3> SUFFICES ASSUME life \in {"up", "closing"}, NEW u \in Tracks, Owed(u)' > 0
                 PROVE  Present(u)' /\ buf'[index'[u]].locks >= Owed(u)'
      BY <2>2 DEF HoldersCovered
    <3>1. Owed(u)' = Owed(u)
      BY <2>2 DEF Owed
    <3>2. Present(u) /\ buf[index[u]].locks >= Owed(u) /\ u # t
      BY <2>1, <3>1 DEF HoldersCovered
    <3>. QED BY <2>2, <2>3, <3>1, <3>2 DEF Present, TypeOK
  <2>9. ToSet(lru') = {index'[u] : u \in Tracks} \ {NoBuffer}
    BY <2>4, <2>6 DEF ListMatchesTable
  <2>10. ListMatchesTable'
    BY <2>4, <2>7, <2>9 DEF ListMatchesTable
  <2>. QED BY <2>8, <2>10
<1>3. ASSUME Lock PROVE ListMatchesTable' /\ HoldersCovered'
  <2>1. PICK t \in Tracks : t = main.track
    BY <1>3 DEF Lock, CallOrder
  <2>2. CASE Present(t)
    <3>1. /\ buf' = [buf EXCEPT ![index[t]].locks = buf[index[t]].locks + 1]
          /\ held' = [held EXCEPT ![t] = held[t] + 1]
          /\ UNCHANGED <<index, lru, timer, life>> /\ life = "up"
      BY <1>3, <2>1, <2>2 DEF Lock, InCall
    <3>2. index[t] \in Buffers
      BY <2>1, <2>2 DEF Present, TypeOK
    <3>3. buf[index[t]].locks \in Nat
      BY <3>2 DEF TypeOK, Flags
    <3>4. Owed(t)' = Owed(t) + 1 /\ \A u \in Tracks : u # t => Owed(u)' = Owed(u)
      BY <2>1, <3>1 DEF Owed, TypeOK
    <3>5. buf[index[t]].locks >= Owed(t)
      BY <1>a, <2>1, <3>1, <3>3 DEF HoldersCovered
    <3>6. /\ buf[index[t]].locks + 1 \in Nat
          /\ buf[index[t]].locks + 1 >= Owed(t)'
      BY <1>a, <2>1, <3>3, <3>4, <3>5
    <3>. QED BY <2>1, <2>2, <3>1, <3>4, <3>6, LockChange
  <2>3. CASE ~Present(t)
    BY <1>3, <2>1, <2>3 DEF Lock, ListMatchesTable, HoldersCovered, Present
  <2>. QED BY <2>2, <2>3
<1>4. ASSUME NEW t \in Tracks, UnlockNow(t) PROVE ListMatchesTable' /\ HoldersCovered'
  <2>1. /\ held[t] > 0 /\ held' = [held EXCEPT ![t] = held[t] - 1]
        /\ UNCHANGED <<index, lru, timer>> /\ life = "up" /\ Release(t)
    BY <1>4 DEF UnlockNow, MainIdle, InCall
  <2>2. /\ Owed(t)' = Owed(t) - 1 /\ Owed(t) > 0
        /\ \A u \in Tracks : u # t => Owed(u)' = Owed(u)
    BY <2>1 DEF Owed, TypeOK
  <2>. QED BY <2>1, <2>2, ReleaseCovered
<1>5. ASSUME NEW t \in Tracks, UnlockTimer(t) PROVE ListMatchesTable' /\ HoldersCovered'
  <2>1. /\ timer[t] /\ timer' = [timer EXCEPT ![t] = FALSE]
        /\ UNCHANGED <<index, lru, held>> /\ life = "up" /\ Release(t)
    BY <1>5 DEF UnlockTimer, MainIdle, InCall
  <2>2. /\ Owed(t)' = Owed(t) - 1 /\ Owed(t) > 0
        /\ \A u \in Tracks : u # t => Owed(u)' = Owed(u)
    BY <2>1 DEF Owed, TypeOK
  <2>. QED BY <2>1, <2>2, ReleaseCovered
<1>6. ASSUME NEW t \in Tracks, UnlockDeferred(t) PROVE ListMatchesTable' /\ HoldersCovered'
  <2>1. /\ held[t] > 0 /\ held' = [held EXCEPT ![t] = held[t] - 1]
        /\ timer' = [timer EXCEPT ![t] = TRUE]
        /\ UNCHANGED <<index, lru, buf, life>>
    BY <1>6 DEF UnlockDeferred
  <2>2. /\ Owed(t)' <= Owed(t) /\ Owed(t)' \in Nat /\ Owed(t) > 0
        /\ \A u \in Tracks : u # t => Owed(u)' = Owed(u)
    BY <2>1 DEF Owed, TypeOK
  <2>3. ListMatchesTable'
    BY <2>1 DEF ListMatchesTable, Present
  <2>4. ASSUME life \in {"up", "closing"}, NEW u \in Tracks, Owed(u)' > 0
        PROVE  Present(u)' /\ buf'[index'[u]].locks >= Owed(u)'
    <3>1. Owed(u) > 0 /\ Owed(u)' <= Owed(u)
      BY <1>a, <2>2, <2>4
    <3>2. Present(u) /\ buf[index[u]].locks >= Owed(u)
      BY <2>4, <3>1 DEF HoldersCovered
    <3>3. buf[index[u]].locks \in Nat
      BY <3>2 DEF Present, TypeOK, Flags
    <3>4. Owed(u)' \in Nat
      BY <1>a, <2>2, <2>4
    <3>. QED BY <1>a, <2>1, <3>1, <3>2, <3>3, <3>4 DEF Present
  <2>. QED BY <2>1, <2>3, <2>4 DEF HoldersCovered
<1>7. ASSUME WalkReclaim PROVE ListMatchesTable' /\ HoldersCovered'
  <2> DEFINE b == lru[walk.pos]
             t == buf[b].track
  <2>1. /\ ~InUse(b) /\ index' = [index EXCEPT ![t] = NoBuffer]
        /\ lru' = RemoveAt(lru, walk.pos) /\ buf' = Freed(b)
        /\ UNCHANGED <<held, timer, life>>
    BY <1>7 DEF WalkReclaim
  <2>2. walk.pos \in 1..Len(lru) /\ lru \in Seq(Buffers) /\ IsInjective(lru)
    BY <1>7, LenProperties
    DEF WalkReclaim, WalkOn, CallOrder, TypeOK, ListMatchesTable
  <2>3. b \in ToSet(lru)
    BY <2>2, LenProperties DEF ToSet
  <2>4. t \in Tracks /\ Present(t) /\ index[t] = b
    BY <2>3 DEF ListMatchesTable, Present
  <2>5. b \in Buffers
    BY <2>4 DEF TypeOK, Present
  <2>6. buf[b].locks = 0
    <3>1. buf[b].locks \in Nat
      BY <2>5 DEF TypeOK, Flags
    <3>. QED BY <2>1, <3>1 DEF InUse
  <2>7. IsInjective(lru') /\ ToSet(lru') = ToSet(lru) \ {b}
    BY <2>1, <2>2, RemoveAtSet
  <2>. QED BY <2>1, <2>4, <2>6, <2>7, LeavesCache
<1>8. ASSUME DestroyEnd PROVE ListMatchesTable' /\ HoldersCovered'
  <2>1. /\ index' = [t \in Tracks |-> NoBuffer] /\ lru' = <<>> /\ life' = "gone"
    BY <1>8 DEF DestroyEnd
  <2>2. IsInjective(<<>>) /\ ToSet(<<>>) = {}
    BY DEF IsInjective, ToSet
  <2>3. {index'[t] : t \in Tracks} \ {NoBuffer} = {}
    BY <2>1
  <2>4. \A t \in Tracks : ~Present(t)'
    BY <2>1 DEF Present
  <2>. QED BY <2>1, <2>2, <2>3, <2>4 DEF ListMatchesTable, HoldersCovered
<1>9. CASE QuietStep
  BY <1>9, QuietSame, SameCacheList, SameCacheHolders
<1>. QED
  BY <1>1, <1>2, <1>3, <1>4, <1>5, <1>6, <1>7, <1>8, <1>9
  DEF Next, Client, Walk, QuietStep
-----------------------------------------------------------------------------
LEMMA CallOrderStep ==
  ASSUME IInv, Next
  PROVE  CallOrder'
<1> USE DEF CallOrder, IInv
<1>0. lru \in Seq(Buffers) /\ Len(lru) \in Nat /\ walk.pos \in Nat
  BY LenProperties DEF TypeOK
<1>1. ASSUME NEW t \in Tracks, Load(t) PROVE CallOrder'
  <2>1. walk' = NoWalk
    BY <1>1 DEF Load, MutexFree
  <2>2. Len(lru') \in Nat
    <3>1. lru' \in Seq(Buffers)
      BY <1>1, TypeStep DEF TypeOK, Next, Client
    <3>. QED BY <3>1, LenProperties
  <2>3. \/ main' = [at |-> "loaded", track |-> t]
        \/ main' = [at |-> "insert", track |-> t] /\ index' = [index EXCEPT ![t] = NoBuffer]
    BY <1>1 DEF Load
  <2>. QED BY <2>1, <2>2, <2>3 DEF NoWalk, Present, TypeOK
<1>2. ASSUME NEW b \in Buffers, LoadInsert(b) PROVE CallOrder'
  <2>1. walk' = NoWalk /\ main' = [main EXCEPT !.at = "loaded"] /\ main.at = "insert"
    BY <1>2 DEF LoadInsert, MutexFree
  <2>2. Len(lru') \in Nat
    BY <1>0, <1>2, ConcatProperties DEF LoadInsert
  <2>3. main'.at = "loaded" /\ main'.track = main.track
    BY <2>1 DEF TypeOK
  <2>. QED BY <2>1, <2>2, <2>3 DEF NoWalk
<1>3. ASSUME LoadFails \/ LoadOnly \/ Lock PROVE CallOrder'
  BY <1>3 DEF LoadFails, LoadOnly, Lock, Ready
<1>4. ASSUME NEW t \in Tracks,
             \/ UnlockNow(t) \/ UnlockDeferred(t) \/ UnlockTimer(t) \/ CancelLoad(t)
      PROVE  CallOrder'
  BY <1>4 DEF UnlockNow, UnlockDeferred, UnlockTimer, CancelLoad, Present
<1>5. ASSUME NEW t \in Tracks, GetLocked(t) PROVE CallOrder'
  <2>1. walk' = NoWalk /\ main' = main /\ index' = index
    BY <1>5 DEF GetLocked, MutexFree
  <2>2. Len(lru') \in Nat
    <3>1. lru' \in Seq(Buffers)
      BY <1>5, TypeStep DEF TypeOK, Next, Client
    <3>. QED BY <3>1, LenProperties
  <2>. QED BY <2>1, <2>2 DEF NoWalk, Present
<1>6. ASSUME TimePasses \/ Start \/ DestroyBegin \/ \E b \in Buffers : Decode(b)
      PROVE  CallOrder'
  BY <1>6 DEF TimePasses, Start, DestroyBegin, Decode, Allocate, DecodeError,
              DecodeStop, Publish, Present
<1>7. ASSUME SweepBegin \/ \E b \in Buffers : CleanupDone(b)
      PROVE  CallOrder'
  BY <1>0, <1>7 DEF SweepBegin, CleanupDone, Present
<1>8. ASSUME \E b \in Buffers : CleanupFailed(b) \/ CleanupFreed(b)
      PROVE  CallOrder'
  BY <1>0, <1>8 DEF CleanupFailed, CleanupFreed, Present
<1>9. ASSUME WalkSkip PROVE CallOrder'
  <2>1. walk.pos > 0 /\ walk' = [walk EXCEPT !.pos = walk.pos - 1]
        /\ UNCHANGED <<main, index, lru>>
    BY <1>9 DEF WalkSkip, WalkOn
  <2>2. walk'.pos = walk.pos - 1 /\ walk'.kind = walk.kind
    BY <2>1 DEF TypeOK
  <2>3. walk.kind # "none"
    BY <2>1 DEF NoWalk
  <2>. QED BY <1>0, <2>1, <2>2, <2>3 DEF Present
<1>10. ASSUME WalkReclaim PROVE CallOrder'
  <2>1. /\ walk.pos > 0 /\ walk' = [walk EXCEPT !.pos = walk.pos - 1]
        /\ lru' = RemoveAt(lru, walk.pos) /\ main' = main
        /\ index' = [index EXCEPT ![buf[lru[walk.pos]].track] = NoBuffer]
    BY <1>10 DEF WalkReclaim, WalkOn
  <2>2. walk'.pos = walk.pos - 1 /\ walk'.kind = walk.kind
    BY <2>1 DEF TypeOK
  <2>3. walk.kind # "none"
    BY <2>1 DEF NoWalk
  <2>4. Len(lru') = Len(lru) - 1
    BY <1>0, <2>1, RemoveAtProperties
  <2>5. main.at = "insert" => ~Present(main.track)'
    BY <2>1 DEF Present, TypeOK
  <2>. QED BY <1>0, <2>1, <2>2, <2>3, <2>4, <2>5 DEF Present
<1>11. ASSUME WalkEnd PROVE CallOrder'
  BY <1>0, <1>11 DEF WalkEnd, NoWalk, Present
<1>12. ASSUME DestroyEnd PROVE CallOrder'
  <2>1. walk' = NoWalk /\ main' = main /\ lru' = <<>> /\ index' = [t \in Tracks |-> NoBuffer]
    BY <1>12 DEF DestroyEnd, MutexFree
  <2>. QED BY <2>1 DEF NoWalk, Present
<1>. QED
  BY <1>1, <1>2, <1>3, <1>4, <1>5, <1>6, <1>7, <1>8, <1>9, <1>10, <1>11, <1>12
  DEF Next, Client, Walk, Cleanup

(* The final flags follow the worker's phase.                              *)
FlagsFollow(b) ==
  /\ buf[b].complete => phase[b] \in {"publishing", "idle"}
  /\ buf[b].failed => phase[b] \in {"failing", "idle"}

LEMMA OneWorkerStep ==
  ASSUME IInv, Next
  PROVE  OneWorker'
<1> USE DEF IInv
<1>0. /\ tasks \in Seq(Buffers) /\ IsInjective(tasks)
      /\ \A i \in DOMAIN tasks : phase[tasks[i]] = "queued" /\ tasks[i] \in Buffers
      /\ \A b \in Buffers : FlagsFollow(b)
  BY LenProperties, ElementOfSeq DEF OneWorker, TypeOK, FlagsFollow
(* A step that leaves the queue alone and moves no phase into or out of    *)
(* "queued".                                                               *)
<1>a. ASSUME tasks' = tasks,
             \A b \in Buffers : phase[b] = "queued" => phase'[b] = "queued",
             \A b \in Buffers : FlagsFollow(b)'
      PROVE  OneWorker'
  BY <1>0, <1>a DEF OneWorker, FlagsFollow
(* A step that touches neither the queue, nor phases, nor final flags      *)
(* (blanking a freed buffer clears them).                                  *)
<1>b. ASSUME tasks' = tasks, phase' = phase,
             \A b \in Buffers : /\ buf'[b].complete => buf[b].complete
                                /\ buf'[b].failed => buf[b].failed
      PROVE  OneWorker'
  <2>1. ASSUME NEW b \in Buffers PROVE FlagsFollow(b)'
    <3>1. FlagsFollow(b) /\ phase'[b] = phase[b]
      BY <1>0, <1>b
    <3>2. /\ buf'[b].complete => buf[b].complete
          /\ buf'[b].failed => buf[b].failed
      BY <1>b, Zenon
    <3>. QED BY <3>1, <3>2, Zenon DEF FlagsFollow
  <2>. QED BY <1>a, <1>b, <2>1
<1>c. ~Blank.complete /\ ~Blank.failed
  BY DEF Blank, NewBuffer
<1>d. ASSUME NEW c \in Buffers, buf' = Freed(c)
      PROVE  \A b \in Buffers : /\ buf'[b].complete => buf[b].complete
                                /\ buf'[b].failed => buf[b].failed
  <2>1. ASSUME NEW b \in Buffers PROVE buf'[b] = buf[b] \/ buf'[b] = Blank
    BY <1>d DEF Freed, TypeOK
  <2>. QED BY <1>c, <2>1
<1>1. ASSUME NEW t \in Tracks, Load(t) PROVE OneWorker'
  <2>1. tasks' = tasks /\ phase' = phase
    BY <1>1 DEF Load
  <2>2. CASE buf' = buf
    BY <1>b, <2>1, <2>2
  <2>3. CASE Present(t) /\ buf' = [buf EXCEPT ![index[t]].fresh = TRUE]
    <3>1. \A b \in Buffers : buf'[b].complete = buf[b].complete /\ buf'[b].failed = buf[b].failed
      BY <2>3 DEF TypeOK, Flags, Present
    <3>. QED BY <1>b, <2>1, <3>1
  <2>4. CASE Present(t) /\ buf' = Freed(index[t])
    BY <1>b, <1>d, <2>1, <2>4 DEF Present, TypeOK
  <2>. QED BY <1>1, <2>2, <2>3, <2>4 DEF Load
<1>2. ASSUME NEW b \in Buffers, LoadInsert(b) PROVE OneWorker'
  <2>1. /\ tasks' = Append(tasks, b) /\ phase' = [phase EXCEPT ![b] = "queued"]
        /\ buf' = [buf EXCEPT ![b] = NewBuffer(main.track)] /\ phase[b] = "idle"
    BY <1>2 DEF LoadInsert
  <2>2. b \notin ToSet(tasks)
    BY <1>0, <2>1 DEF ToSet
  <2>3. /\ IsInjective(tasks')
        /\ \A i \in DOMAIN tasks' :
             tasks'[i] = b \/ (i \in DOMAIN tasks /\ tasks'[i] = tasks[i])
    BY <1>0, <2>1, <2>2, AppendQueue
  <2>4. \A c \in Buffers : phase'[c] = IF c = b THEN "queued" ELSE phase[c]
    BY <2>1 DEF TypeOK
  <2>5. \A i \in DOMAIN tasks' : phase'[tasks'[i]] = "queued"
    BY <1>0, <2>3, <2>4
  <2>6. \A c \in Buffers : FlagsFollow(c)'
    BY <1>0, <2>1, <2>4 DEF FlagsFollow, NewBuffer, TypeOK
  <2>. QED BY <2>3, <2>5, <2>6 DEF OneWorker, FlagsFollow
<1>3. ASSUME LoadFails \/ LoadOnly \/ SweepBegin \/ WalkSkip \/ WalkEnd
      PROVE  OneWorker'
  BY <1>3, <1>b DEF LoadFails, LoadOnly, SweepBegin, WalkSkip, WalkEnd
<1>4. ASSUME Lock PROVE OneWorker'
  <2>1. tasks' = tasks /\ phase' = phase
        /\ (buf' = buf \/ (Present(main.track) /\
             buf' = [buf EXCEPT ![index[main.track]].locks = buf[index[main.track]].locks + 1]))
    BY <1>4 DEF Lock
  <2>2. main.track \in Tracks
    BY <1>4 DEF Lock, CallOrder
  <2>3. \A b \in Buffers : buf'[b].complete = buf[b].complete /\ buf'[b].failed = buf[b].failed
    <3>1. CASE buf' = buf
      BY <3>1
    <3>2. CASE buf' # buf
      <4>1. index[main.track] \in Buffers
        BY <2>1, <2>2, <3>2 DEF Present, TypeOK
      <4>2. \/ buf' = buf
            \/ buf' = [buf EXCEPT ![index[main.track]].locks = buf[index[main.track]].locks + 1]
            \/ buf' = [buf EXCEPT ![index[main.track]].fresh = TRUE]
            \/ buf' = [buf EXCEPT ![index[main.track]].cancelled = TRUE]
        BY <2>1, <3>2
      <4>3. buf \in [Buffers -> Flags]
        BY DEF TypeOK
      <4>. QED BY <4>1, <4>2, <4>3, KeepsFinalFlags
    <3>. QED BY <3>1, <3>2
  <2>. QED BY <1>b, <2>1, <2>3
<1>5. ASSUME NEW t \in Tracks,
             UnlockNow(t) \/ UnlockTimer(t) \/ UnlockDeferred(t) \/ CancelLoad(t)
      PROVE  OneWorker'
  <2>1. tasks' = tasks /\ phase' = phase
    BY <1>5 DEF UnlockNow, UnlockTimer, UnlockDeferred, CancelLoad
  <2>2. \/ buf' = buf
        \/ Present(t) /\ buf' = [buf EXCEPT ![index[t]].locks = buf[index[t]].locks - 1]
        \/ Present(t) /\ buf' = [buf EXCEPT ![index[t]].cancelled = TRUE]
    BY <1>5 DEF UnlockNow, UnlockTimer, UnlockDeferred, CancelLoad, Release
  <2>3. \A b \in Buffers : buf'[b].complete = buf[b].complete /\ buf'[b].failed = buf[b].failed
    <3>1. CASE buf' = buf
      BY <3>1
    <3>2. CASE buf' # buf
      <4>1. index[t] \in Buffers
        BY <2>2, <3>2 DEF Present, TypeOK
      <4>2. \/ buf' = buf
            \/ buf' = [buf EXCEPT ![index[t]].locks = buf[index[t]].locks - 1]
            \/ buf' = [buf EXCEPT ![index[t]].fresh = TRUE]
            \/ buf' = [buf EXCEPT ![index[t]].cancelled = TRUE]
        BY <2>2, <3>2
      <4>3. buf \in [Buffers -> Flags]
        BY DEF TypeOK
      <4>. QED BY <4>1, <4>2, <4>3, KeepsFinalFlags
    <3>. QED BY <3>1, <3>2
  <2>. QED BY <1>b, <2>1, <2>3
<1>6. ASSUME NEW t \in Tracks, GetLocked(t) PROVE OneWorker'
  <2>1. tasks' = tasks /\ phase' = phase
    BY <1>6 DEF GetLocked
  <2>2. \/ buf' = buf
        \/ Present(t) /\ buf' = [buf EXCEPT ![index[t]].fresh = TRUE]
    BY <1>6 DEF GetLocked
  <2>3. \A b \in Buffers : buf'[b].complete = buf[b].complete /\ buf'[b].failed = buf[b].failed
    <3>1. CASE buf' = buf
      BY <3>1
    <3>2. CASE buf' # buf
      <4>1. index[t] \in Buffers
        BY <2>2, <3>2 DEF Present, TypeOK
      <4>2. \/ buf' = buf
            \/ buf' = [buf EXCEPT ![index[t]].locks = buf[index[t]].locks - 1]
            \/ buf' = [buf EXCEPT ![index[t]].fresh = TRUE]
            \/ buf' = [buf EXCEPT ![index[t]].cancelled = TRUE]
        BY <2>2, <3>2
      <4>3. buf \in [Buffers -> Flags]
        BY DEF TypeOK
      <4>. QED BY <4>1, <4>2, <4>3, KeepsFinalFlags
    <3>. QED BY <3>1, <3>2
  <2>. QED BY <1>b, <2>1, <2>3
<1>7. ASSUME TimePasses PROVE OneWorker'
  <2>1. \A b \in Buffers : buf'[b].complete = buf[b].complete /\ buf'[b].failed = buf[b].failed
    BY <1>7 DEF TimePasses, TypeOK, Flags
  <2>. QED BY <1>7, <1>b, <2>1 DEF TimePasses
<1>8. ASSUME WalkReclaim PROVE OneWorker'
  <2>1. tasks' = tasks /\ phase' = phase /\ buf' = Freed(lru[walk.pos])
    BY <1>8 DEF WalkReclaim
  <2>2. lru[walk.pos] \in Buffers
    BY <1>8, LenProperties, ElementOfSeq DEF WalkReclaim, WalkOn, CallOrder, TypeOK
  <2>. QED BY <1>b, <1>d, <2>1, <2>2
<1>9. ASSUME Start PROVE OneWorker'
  <2>1. /\ tasks # <<>> /\ tasks' = Tail(tasks) /\ buf' = buf
        /\ phase' = [phase EXCEPT ![Head(tasks)] = "decoding"]
    BY <1>9 DEF Start
  <2>2. /\ IsInjective(tasks') /\ Head(tasks) \in Buffers
        /\ 1 \in DOMAIN tasks /\ tasks[1] = Head(tasks)
        /\ \A i \in DOMAIN tasks' :
             /\ i + 1 \in DOMAIN tasks /\ tasks'[i] = tasks[i + 1]
             /\ tasks'[i] # Head(tasks)
    BY <1>0, <2>1, TailQueue
  <2>3. phase[Head(tasks)] = "queued"
    BY <1>0, <2>2
  <2>4. \A c \in Buffers : phase'[c] = IF c = Head(tasks) THEN "decoding" ELSE phase[c]
    BY <2>1, <2>2 DEF TypeOK
  <2>5. \A i \in DOMAIN tasks' : phase'[tasks'[i]] = "queued"
    BY <1>0, <2>2, <2>4
  <2>6. \A c \in Buffers : FlagsFollow(c)'
    BY <1>0, <2>1, <2>3, <2>4 DEF FlagsFollow
  <2>. QED BY <2>2, <2>5, <2>6 DEF OneWorker, FlagsFollow
<1>10. ASSUME NEW b \in Buffers, Decode(b) \/ Cleanup(b) PROVE OneWorker'
  <2>1. tasks' = tasks /\ phase[b] # "queued"
    BY <1>10 DEF Decode, Cleanup, Allocate, DecodeError, DecodeStop, Publish,
                 CleanupDone, CleanupFailed, CleanupFreed, InWindow
  <2>2. \A c \in Buffers : c # b => phase'[c] = phase[c] /\ buf'[c] = buf[c]
    BY <1>10 DEF Decode, Cleanup, Allocate, DecodeError, DecodeStop, Publish,
                 CleanupDone, CleanupFailed, CleanupFreed, TypeOK
  <2>3. FlagsFollow(b)'
    <3>0. FlagsFollow(b) /\ buf[b] \in Flags /\ buf \in [Buffers -> Flags]
          /\ phase \in [Buffers -> Phases]
      BY <1>0 DEF TypeOK
    <3>1. CASE Allocate(b)
      <4>1. buf'[b].complete = buf[b].complete /\ buf'[b].failed = buf[b].failed
        BY <3>0, <3>1 DEF Allocate, Flags
      <4>. QED BY <3>0, <3>1, <4>1 DEF Allocate, FlagsFollow
    <3>2. CASE DecodeError(b)
      <4>1. buf'[b].complete = buf[b].complete /\ phase'[b] = "failing"
        BY <3>0, <3>2 DEF DecodeError, Flags
      <4>. QED BY <3>0, <3>2, <4>1 DEF DecodeError, FlagsFollow
    <3>3. CASE DecodeStop(b)
      BY <3>0, <3>3 DEF DecodeStop, FlagsFollow
    <3>4. CASE Publish(b)
      <4>1. buf'[b].failed = buf[b].failed /\ phase'[b] = "publishing"
        BY <3>0, <3>4 DEF Publish, Flags
      <4>. QED BY <3>0, <3>4, <4>1 DEF Publish, FlagsFollow
    <3>5. CASE Cleanup(b)
      <4>1. phase'[b] = "idle"
        BY <3>0, <3>5 DEF Cleanup, CleanupDone, CleanupFailed, CleanupFreed
      <4>. QED BY <4>1 DEF FlagsFollow
    <3>. QED BY <1>10, <3>1, <3>2, <3>3, <3>4, <3>5 DEF Decode
  <2>4. \A c \in Buffers : FlagsFollow(c)'
    BY <1>0, <2>2, <2>3 DEF FlagsFollow
  <2>5. \A c \in Buffers : phase[c] = "queued" => phase'[c] = "queued"
    BY <2>1, <2>2
  <2>. QED BY <1>a, <2>1, <2>4, <2>5
<1>11. ASSUME DestroyBegin PROVE OneWorker'
  <2>1. tasks' = <<>>
    BY <1>11 DEF DestroyBegin
  <2>2. ASSUME NEW b \in Buffers
        PROVE  /\ buf'[b].complete = buf[b].complete /\ buf'[b].failed = buf[b].failed
               /\ phase'[b] = IF phase[b] = "queued" THEN "idle" ELSE phase[b]
    <3>1. buf[b] \in Flags
      BY DEF TypeOK
    <3>2. buf'[b] = buf[b] \/ buf'[b] = [buf[b] EXCEPT !.cancelled = TRUE]
      BY <1>11 DEF DestroyBegin
    <3>3. buf'[b].complete = buf[b].complete /\ buf'[b].failed = buf[b].failed
      BY <3>1, <3>2 DEF Flags
    <3>. QED BY <1>11, <3>3 DEF DestroyBegin
  <2>3. \A b \in Buffers : FlagsFollow(b)'
    BY <1>0, <2>2 DEF FlagsFollow
  <2>4. IsInjective(<<>>) /\ DOMAIN <<>> = {}
    BY DEF IsInjective
  <2>. QED BY <2>1, <2>3, <2>4 DEF OneWorker, FlagsFollow
<1>12. ASSUME DestroyEnd PROVE OneWorker'
  <2>1. tasks' = tasks /\ phase' = phase /\ buf' = [b \in Buffers |-> Blank]
    BY <1>12 DEF DestroyEnd
  <2>. QED BY <1>b, <1>c, <2>1
<1>. QED
  BY <1>1, <1>2, <1>3, <1>4, <1>5, <1>6, <1>7, <1>8, <1>9, <1>10, <1>11, <1>12
  DEF Next, Client, Walk
-----------------------------------------------------------------------------
LEMMA InvInit == Init => IInv
<1> SUFFICES ASSUME Init PROVE IInv
  OBVIOUS
<1>1. TypeOK
  BY TypeInit
<1>2. ListMatchesTable
  <2>1. IsInjective(<<>>) /\ ToSet(<<>>) = {}
    BY DEF IsInjective, ToSet
  <2>2. {index[t] : t \in Tracks} \ {NoBuffer} = {} /\ \A t \in Tracks : ~Present(t)
    BY DEF Init, Present
  <2>. QED BY <2>1, <2>2 DEF Init, ListMatchesTable
<1>3. CallOrder
  BY DEF Init, CallOrder, Ready, NoWalk
<1>4. OneWorker
  <2>1. IsInjective(<<>>) /\ DOMAIN <<>> = {}
    BY DEF IsInjective
  <2>2. ~Blank.complete /\ ~Blank.failed
    BY DEF Blank, NewBuffer
  <2>. QED BY <2>1, <2>2 DEF Init, OneWorker
<1>5. HoldersCovered
  <2>1. \A t \in Tracks : Owed(t) = 0
    BY DEF Init, Owed
  <2>. QED BY <2>1 DEF HoldersCovered
<1>. QED BY <1>1, <1>2, <1>3, <1>4, <1>5 DEF IInv

LEMMA InvStep == IInv /\ [Next]_vars => IInv'
<1>1. ASSUME IInv, Next PROVE IInv'
  BY <1>1, TypeStep, CacheStep, CallOrderStep, OneWorkerStep DEF IInv
<1>2. ASSUME IInv, UNCHANGED vars PROVE IInv'
  BY <1>2 DEF vars, IInv, TypeOK, ListMatchesTable, CallOrder, OneWorker,
              HoldersCovered, Present, Owed
<1>. QED BY <1>1, <1>2

(* The invariant that carries the theorems below.                          *)
THEOREM Invariance == Spec => []IInv
<1>1. Init => IInv
  BY InvInit
<1>2. IInv /\ [Next]_vars => IInv'
  BY InvStep
<1>. QED BY <1>1, <1>2, PTL DEF Spec

(* Every variable of the cache keeps its type; memory_used stays a size_t  *)
(* however reclaims and completions interleave.                            *)
THEOREM TypeCorrectness == Spec => []TypeOK
<1>1. IInv => TypeOK
  BY DEF IInv
<1>. QED BY <1>1, Invariance, PTL

(* No unlock, immediate or by timer, ever finds its track missing or its   *)
(* lock_count at zero: cache_unlock_now never aborts for a client that     *)
(* gives back only what it took.                                           *)
THEOREM HoldersAlwaysCovered == Spec => []HoldersCovered
<1>1. IInv => HoldersCovered
  BY DEF IInv
<1>. QED BY <1>1, Invariance, PTL

(* The hash table and the LRU list describe the same set of buffers in     *)
(* every reachable state.                                                  *)
THEOREM ListAlwaysMatches == Spec => []ListMatchesTable
<1>1. IInv => ListMatchesTable
  BY DEF IInv
<1>. QED BY <1>1, Invariance, PTL
-----------------------------------------------------------------------------
(* What a held track's buffer may see of one step.                         *)
LEMMA HeldStep ==
  ASSUME IInv, IInv', Next, NEW t \in Tracks,
         held[t] > 0, held'[t] > 0, life' = "up"
  PROVE  /\ index'[t] = index[t]
         /\ Status(t) \in {"ready", "failed"} => Status(t)' = Status(t)
<1> USE DEF IInv
<1> DEFINE b == index[t]
<1>1. Alive
  BY Zenon DEF Next, Client, Walk, Decode, Cleanup, Load, LoadInsert, LoadFails, LoadOnly,
         Lock, UnlockNow, UnlockDeferred, UnlockTimer, GetLocked, CancelLoad,
         TimePasses, SweepBegin, DestroyBegin, DestroyEnd, WalkSkip, WalkReclaim,
         WalkEnd, WalkOn, Start, Allocate, DecodeError, DecodeStop, Publish,
         CleanupDone, CleanupFailed, CleanupFreed, MainIdle, InCall, Alive
<1>2. Owed(t) > 0 /\ Owed(t)' > 0
  BY SMTT(30) DEF Owed, TypeOK
<1>3. /\ Present(t) /\ buf[b].locks >= Owed(t)
      /\ Present(t)'
  BY <1>1, <1>2 DEF HoldersCovered, Alive
<1>4. b \in Buffers /\ b # NoBuffer /\ buf[b].locks > 0 /\ Cached(b)
  <2>1. b \in Buffers
    BY <1>3 DEF Present, TypeOK
  <2>2. buf[b].locks \in Nat
    BY <2>1 DEF TypeOK, Flags
  <2>3. Owed(t) \in Nat
    BY SMTT(30) DEF TypeOK, Owed
  <2>4. buf[b].locks > 0
    BY <1>2, <1>3, <2>2, <2>3
  <2>. QED BY <1>3, <2>1, <2>4 DEF Present, Cached
<1>5. index'[t] = b
  <2>1. ASSUME NEW c \in Buffers, LoadInsert(c) PROVE index'[t] = b
    <3>1. main.track # t
      BY <1>3, <2>1 DEF LoadInsert, CallOrder
    <3>. QED BY <2>1, <3>1 DEF LoadInsert, TypeOK
  <2>2. ASSUME ~\E c \in Buffers : LoadInsert(c)
        PROVE  \/ index' = index
               \/ \E u \in Tracks : index' = [index EXCEPT ![u] = NoBuffer]
    <3>1. ASSUME NEW u \in Tracks, Load(u)
          PROVE  index' = index \/ index' = [index EXCEPT ![u] = NoBuffer]
      BY <3>1 DEF Load
    <3>2. ASSUME WalkReclaim
          PROVE  index' = [index EXCEPT ![buf[lru[walk.pos]].track] = NoBuffer]
                 /\ buf[lru[walk.pos]].track \in Tracks
      <4>1. lru[walk.pos] \in Buffers
        BY <3>2, LenProperties, ElementOfSeq DEF WalkReclaim, WalkOn, CallOrder, TypeOK
      <4>. QED BY <3>2, <4>1 DEF WalkReclaim, TypeOK, Flags
    <3>3. ~DestroyEnd
      BY DEF DestroyEnd
    <3>. QED
      BY Zenon, <2>2, <3>1, <3>2, <3>3
      DEF Next, Client, Walk, Decode, Cleanup, LoadFails, LoadOnly,
          Lock, UnlockNow, UnlockDeferred, UnlockTimer, GetLocked, CancelLoad,
          TimePasses, SweepBegin, DestroyBegin, WalkSkip,
          WalkEnd, Start, Allocate, DecodeError, DecodeStop, Publish,
          CleanupDone, CleanupFailed, CleanupFreed
  <2>. QED BY <1>3, <2>1, <2>2 DEF Present, TypeOK
<1>6. /\ buf[b] \in Flags /\ FlagsFollow(b) /\ phase[b] \in Phases
  BY <1>4 DEF OneWorker, FlagsFollow, TypeOK
<1> HIDE DEF b
(* The final flags of a held buffer never fall, and failed never rises     *)
(* after complete.                                                         *)
<1> DEFINE FlagsStay == /\ buf[b].failed => buf'[b].failed
                        /\ buf[b].complete => buf'[b].complete
                        /\ buf[b].complete /\ ~buf[b].failed => ~buf'[b].failed
<1>7. ASSUME buf'[b].failed = buf[b].failed, buf'[b].complete = buf[b].complete
      PROVE  FlagsStay
  BY <1>7
<1>8. ASSUME buf' = buf PROVE FlagsStay
  BY <1>8
<1>9. ASSUME NEW c \in Buffers, NEW n,
             \/ buf' = [buf EXCEPT ![c].locks = n]
             \/ buf' = [buf EXCEPT ![c].fresh = TRUE]
             \/ buf' = [buf EXCEPT ![c].cancelled = TRUE]
      PROVE  FlagsStay
  <2>1. buf \in [Buffers -> Flags]
    BY DEF TypeOK
  <2>2. buf'[b].complete = buf[b].complete /\ buf'[b].failed = buf[b].failed
    BY <1>4, <1>9, <2>1, KeepsFinalFlags
  <2>. QED BY <1>7, <2>2
<1>10. ASSUME NEW c \in Buffers, c # b, buf' = Freed(c)
       PROVE  FlagsStay
  BY <1>4, <1>10 DEF Freed, TypeOK
<1>11. ASSUME NEW u \in Tracks, Load(u) PROVE FlagsStay
  <2>1. CASE Present(u) /\ ~Retried(index[u])
    BY <1>9, <1>11, <2>1 DEF Load, Retried, Present, TypeOK
  <2>2. CASE Present(u) /\ Retried(index[u])
    <3>1. index[u] # b /\ index[u] \in Buffers /\ buf' = Freed(index[u])
      BY <1>4, <1>11, <2>2 DEF Load, Retried, Present, TypeOK
    <3>. QED BY <1>10, <3>1
  <2>3. CASE ~Present(u)
    BY <1>8, <1>11, <2>3 DEF Load
  <2>. QED BY <2>1, <2>2, <2>3
<1>12. ASSUME NEW c \in Buffers, LoadInsert(c) PROVE FlagsStay
  <2>1. c # b /\ buf' = [buf EXCEPT ![c] = NewBuffer(main.track)]
    BY <1>4, <1>12 DEF LoadInsert
  <2>. QED BY <1>4, <2>1 DEF TypeOK
<1>13. ASSUME Lock PROVE FlagsStay
  <2>1. main.track \in Tracks
    BY <1>13 DEF Lock, CallOrder
  <2>2. CASE Present(main.track)
    <3>1. /\ index[main.track] \in Buffers
          /\ buf' = [buf EXCEPT ![index[main.track]].locks
                                  = buf[index[main.track]].locks + 1]
      BY <1>13, <2>1, <2>2 DEF Lock, Present, TypeOK
    <3>. QED BY <1>9, <3>1
  <2>3. CASE ~Present(main.track)
    BY <1>8, <1>13, <2>3 DEF Lock
  <2>. QED BY <2>2, <2>3
<1>14. ASSUME NEW u \in Tracks, UnlockNow(u) \/ UnlockTimer(u) PROVE FlagsStay
  <2>1. \/ buf' = buf
        \/ /\ index[u] \in Buffers
           /\ buf' = [buf EXCEPT ![index[u]].locks = buf[index[u]].locks - 1]
    BY <1>14 DEF UnlockNow, UnlockTimer, Release, Present, TypeOK
  <2>. QED BY <1>8, <1>9, <2>1
<1>15. ASSUME NEW u \in Tracks, GetLocked(u) \/ CancelLoad(u) PROVE FlagsStay
  <2>1. \/ buf' = buf
        \/ /\ index[u] \in Buffers
           /\ \/ buf' = [buf EXCEPT ![index[u]].fresh = TRUE]
              \/ buf' = [buf EXCEPT ![index[u]].cancelled = TRUE]
    BY <1>15 DEF GetLocked, CancelLoad, Present, TypeOK
  <2>. QED BY <1>8, <1>9, <2>1
<1>16. ASSUME \/ LoadFails \/ LoadOnly \/ SweepBegin \/ WalkSkip \/ WalkEnd \/ Start
              \/ \E u \in Tracks : UnlockDeferred(u)
              \/ \E c \in Buffers : DecodeStop(c) \/ CleanupDone(c)
       PROVE  FlagsStay
  BY <1>8, <1>16 DEF LoadFails, LoadOnly, SweepBegin, WalkSkip, WalkEnd, Start,
                     UnlockDeferred, DecodeStop, CleanupDone
<1>17. ASSUME TimePasses PROVE FlagsStay
  <2>1. buf'[b] = [buf[b] EXCEPT !.fresh = FALSE]
    BY <1>4, <1>17 DEF TimePasses
  <2>2. buf'[b].complete = buf[b].complete /\ buf'[b].failed = buf[b].failed
    BY <1>6, <2>1 DEF Flags
  <2>. QED BY <1>7, <2>2
<1>18. ASSUME WalkReclaim PROVE FlagsStay
  <2>1. lru[walk.pos] \in Buffers
    BY <1>18, LenProperties, ElementOfSeq DEF WalkReclaim, WalkOn, CallOrder, TypeOK
  <2>2. ~InUse(lru[walk.pos]) /\ buf' = Freed(lru[walk.pos])
    BY <1>18 DEF WalkReclaim
  <2>3. lru[walk.pos] # b
    BY <1>4, <2>2 DEF InUse
  <2>. QED BY <1>10, <2>1, <2>2, <2>3
<1>19. ASSUME NEW c \in Buffers, Allocate(c) \/ DecodeError(c) \/ Publish(c) \/ CleanupFailed(c)
       PROVE  FlagsStay
  <2>1. CASE c # b
    <3>1. buf'[b] = buf[b]
      BY <1>4, <1>19, <2>1 DEF Allocate, DecodeError, Publish, CleanupFailed, TypeOK
    <3>. QED BY <1>7, <3>1
  <2>2. CASE c = b
    <3>0. buf \in [Buffers -> Flags]
      BY DEF TypeOK
    <3>1. CASE Allocate(c)
      <4>1. buf'[b].complete = buf[b].complete /\ buf'[b].failed = buf[b].failed
        BY <1>4, <1>6, <2>2, <3>0, <3>1 DEF Allocate, Flags
      <4>. QED BY <1>7, <4>1
    <3>2. CASE DecodeError(c)
      <4>1. buf'[b].complete = buf[b].complete /\ buf'[b].failed = TRUE
        BY <1>4, <1>6, <2>2, <3>0, <3>2 DEF DecodeError, Flags
      <4>2. ~buf[b].complete
        BY <1>6, <2>2, <3>2 DEF DecodeError, FlagsFollow
      <4>. QED BY <4>1, <4>2
    <3>3. CASE Publish(c)
      <4>1. buf'[b].complete = TRUE /\ buf'[b].failed = buf[b].failed
        BY <1>4, <1>6, <2>2, <3>0, <3>3 DEF Publish, Flags
      <4>. QED BY <4>1
    <3>4. CASE CleanupFailed(c)
      <4>1. buf'[b].complete = buf[b].complete /\ buf'[b].failed = TRUE
        BY <1>4, <1>6, <2>2, <3>0, <3>4 DEF CleanupFailed, Flags
      <4>2. ~buf[b].complete
        BY <1>6, <2>2, <3>4 DEF CleanupFailed, FlagsFollow
      <4>. QED BY <4>1, <4>2
    <3>. QED BY <1>19, <3>1, <3>2, <3>3, <3>4
  <2>. QED BY <2>1, <2>2
<1>20. ASSUME NEW c \in Buffers, CleanupFreed(c) PROVE FlagsStay
  <2>1. c # b /\ buf' = [buf EXCEPT ![c] = Blank]
    BY <1>4, <1>20 DEF CleanupFreed
  <2>. QED BY <1>4, <2>1 DEF TypeOK
<1>21. ASSUME DestroyBegin PROVE FlagsStay
  BY <1>21 DEF DestroyBegin
<1>22. ~DestroyEnd
  BY DEF DestroyEnd
<1>23. FlagsStay
  <2> HIDE DEF FlagsStay
  <2>. QED
    BY <1>11, <1>12, <1>13, <1>14, <1>15, <1>16, <1>17, <1>18, <1>19, <1>20, <1>21, <1>22
    DEF Next, Client, Walk, Decode, Cleanup
<1>24. buf[b].failed \in BOOLEAN /\ buf[b].complete \in BOOLEAN
  BY <1>6 DEF Flags
<1>25. Status(t) \in {"ready", "failed"} => Status(t)' = Status(t)
  BY <1>3, <1>5, <1>23, <1>24 DEF Status, b
<1>. QED BY <1>5, <1>25 DEF b

(* While a client keeps its lock on a track, the buffer behind the track   *)
(* does not change and a final status, once visible, stays: eviction, the  *)
(* TTL sweep, a second load, cancel_load and late workers leave it alone.  *)
THEOREM HeldBufferAlwaysStays == Spec => HeldBufferStays
<1> DEFINE Stays == \A t \in Tracks :
                      held[t] > 0 /\ held'[t] > 0 /\ life' = "up" =>
                        /\ index'[t] = index[t]
                        /\ Status(t) \in {"ready", "failed"} => Status(t)' = Status(t)
<1>1. IInv /\ IInv' /\ [Next]_vars => [Stays]_vars
  BY HeldStep
<1>2. Spec => [][Next]_vars
  BY DEF Spec
<1> HIDE DEF Stays
<1>3. Spec => [][Stays]_vars
  BY <1>1, <1>2, Invariance, PTL
<1>. QED BY <1>3 DEF Stays, HeldBufferStays
-----------------------------------------------------------------------------

(* Every non-empty set of subsets of a finite set has a member none of     *)
(* whose proper subsets is in it: the principle behind the lemmas on sums. *)
LEMMA SmallestSubset ==
  ASSUME NEW S, IsFiniteSet(S), NEW F, F \subseteq SUBSET S, F # {}
  PROVE  \E T \in F : \A U \in F : U \subseteq T => U = T
<1>1. IsWellFoundedOn(StrictSubsetOrdering(S), SUBSET S)
  BY FS_StrictSubsetOrderingWellFounded, FS_FiniteSubsetsOfFinite
<1>2. PICK T \in F : \A U \in F : <<U, T>> \notin StrictSubsetOrdering(S)
  BY <1>1, WFMin
<1>. QED BY <1>2 DEF StrictSubsetOrdering

(* The recursion behind SumFunctionOnSet, and a function that obeys it.     *)
Chosen(s) == CHOOSE x \in s : TRUE
Adds(f, g, s) == IF s = {} THEN 0 ELSE f[Chosen(s)] + g[s \ {Chosen(s)}]
SumsUp(f, g, S) == g = [s \in SUBSET S |-> Adds(f, g, s)]

LEMMA SumDef ==
  ASSUME NEW f, NEW S
  PROVE  SumFunctionOnSet(f, S) = (CHOOSE g : SumsUp(f, g, S))[S]
BY DEF SumFunctionOnSet, FoldFunctionOnSet, MapThenFoldSet, SumsUp, Adds, Chosen

LEMMA ChosenIn == \A s : s # {} => Chosen(s) \in s
BY DEF Chosen

(* Two functions that obey it agree where both are defined.                *)
LEMMA SumsAgree ==
  ASSUME NEW f, NEW S, IsFiniteSet(S), NEW T, IsFiniteSet(T),
         NEW g, SumsUp(f, g, S), NEW h, SumsUp(f, h, T),
         NEW s \in SUBSET S, s \in SUBSET T
  PROVE  g[s] = h[s]
<1> DEFINE Differ == {u \in SUBSET s : g[u] # h[u]}
<1>1. IsFiniteSet(s)
  BY FS_Subset
<1>2. SUFFICES ASSUME Differ # {} PROVE FALSE
  OBVIOUS
<1>3. PICK u \in Differ : \A w \in Differ : w \subseteq u => w = u
  <2>. HIDE <1>2
  <2>1. Differ \subseteq SUBSET s
    OBVIOUS
  <2> HIDE DEF Differ
  <2>. QED BY <1>1, <1>2, <2>1, SmallestSubset
<1>4. /\ g[u] = Adds(f, g, u) /\ h[u] = Adds(f, h, u)
      /\ u \in SUBSET s
  BY <1>3 DEF SumsUp
<1>5. CASE u = {}
  BY <1>3, <1>4, <1>5 DEF Adds
<1>6. CASE u # {}
  <2>1. Chosen(u) \in u
    BY <1>6, ChosenIn
  <2>2. u \ {Chosen(u)} \in SUBSET s /\ u \ {Chosen(u)} \subseteq u /\ u \ {Chosen(u)} # u
    BY <1>4, <2>1
  <2>3. g[u \ {Chosen(u)}] = h[u \ {Chosen(u)}]
    BY <1>3, <2>2
  <2>. QED BY <1>3, <1>4, <1>6, <2>3 DEF Adds
<1>. QED BY <1>5, <1>6

(* On every finite set there is one.                                       *)
LEMMA SumsExist ==
  ASSUME NEW f, NEW S, IsFiniteSet(S)
  PROVE  \E g : SumsUp(f, g, S)
<1> DEFINE Lacking == {T \in SUBSET S : ~\E g : SumsUp(f, g, T)}
<1>1. SUFFICES ASSUME Lacking # {} PROVE FALSE
  OBVIOUS
<1>2. PICK T \in Lacking : \A U \in Lacking : U \subseteq T => U = T
  <2>1. Lacking \subseteq SUBSET S
    OBVIOUS
  <2> HIDE DEF Lacking
  <2>. QED BY <1>1, <2>1, SmallestSubset
<1>3. T \in SUBSET S /\ IsFiniteSet(T) /\ ~\E g : SumsUp(f, g, T)
  BY <1>2, FS_Subset
<1> DEFINE On(s) == CHOOSE g : SumsUp(f, g, s)
           Rest(s) == IF s = {} THEN 0 ELSE f[Chosen(s)] + On(s \ {Chosen(s)})[s \ {Chosen(s)}]
           g == [s \in SUBSET T |-> Rest(s)]
<1>4. ASSUME NEW s \in SUBSET T, s # T
      PROVE  SumsUp(f, On(s), s)
  <2>1. \E h : SumsUp(f, h, s)
    BY <1>2, <1>3, <1>4
  <2>. QED BY <2>1
<1>5. ASSUME NEW s \in SUBSET T, s # {}
      PROVE  g[s \ {Chosen(s)}] = On(s \ {Chosen(s)})[s \ {Chosen(s)}]
  <2> DEFINE r == s \ {Chosen(s)}
  <2>1. r \in SUBSET T /\ r # T /\ IsFiniteSet(r)
    BY <1>3, <1>5, ChosenIn, FS_Subset
  <2>2. SumsUp(f, On(r), r)
    BY <1>4, <2>1
  <2> HIDE DEF r
  <2>3. On(r)[r] = Adds(f, On(r), r)
    BY <2>2 DEF SumsUp
  <2>4. CASE r = {}
    BY <2>1, <2>3, <2>4 DEF Adds, r
  <2>5. CASE r # {}
    <3> DEFINE q == r \ {Chosen(r)}
    <3>1. q \in SUBSET r /\ q \in SUBSET T /\ q # T /\ IsFiniteSet(q)
      BY <2>1, <2>5, ChosenIn, FS_Subset
    <3>2. SumsUp(f, On(q), q)
      BY <1>4, <3>1
    <3> HIDE DEF q, On
    <3>3. On(r)[q] = On(q)[q]
      BY <2>1, <2>2, <3>1, <3>2, SumsAgree
    <3>. QED BY <2>1, <2>3, <2>5, <3>3 DEF Adds, r, q
  <2>. QED BY <2>4, <2>5 DEF r
<1>6. ASSUME NEW s \in SUBSET T PROVE g[s] = Adds(f, g, s)
  <2>1. g[s] = Rest(s)
    OBVIOUS
  <2>2. CASE s = {}
    BY <2>1, <2>2 DEF Adds
  <2>3. CASE s # {}
    <3>1. g[s \ {Chosen(s)}] = On(s \ {Chosen(s)})[s \ {Chosen(s)}]
      BY <1>5, <2>3
    <3>2. g[s] = f[Chosen(s)] + On(s \ {Chosen(s)})[s \ {Chosen(s)}]
      BY <2>1, <2>3
    <3> HIDE DEF g, On
    <3>. QED BY <2>3, <3>1, <3>2 DEF Adds
  <2>. QED BY <2>2, <2>3
<1>7. SumsUp(f, g, T)
  <2> HIDE DEF g
  <2>1. g = [s \in SUBSET T |-> g[s]]
    BY DEF g
  <2>. QED BY <1>6, <2>1 DEF SumsUp
<1>. QED BY <1>3, <1>7

(* What SumFunctionOnSet computes: nothing for no summand, and the chosen  *)
(* summand beside the sum of the others.                                   *)
LEMMA SumStep ==
  ASSUME NEW f, NEW S, IsFiniteSet(S)
  PROVE  SumFunctionOnSet(f, S) =
           IF S = {} THEN 0
           ELSE f[Chosen(S)] + SumFunctionOnSet(f, S \ {Chosen(S)})
<1> DEFINE On(s) == CHOOSE g : SumsUp(f, g, s)
<1>1. \A s : IsFiniteSet(s) => SumsUp(f, On(s), s)
  BY SumsExist
<1> HIDE DEF On
<1>2. \A s : SumFunctionOnSet(f, s) = On(s)[s]
  BY SumDef DEF On
<1>3. On(S)[S] = Adds(f, On(S), S)
  BY <1>1 DEF SumsUp
<1>4. CASE S = {}
  BY <1>2, <1>3, <1>4 DEF Adds
<1>5. CASE S # {}
  <2> DEFINE r == S \ {Chosen(S)}
  <2>1. IsFiniteSet(r) /\ r \in SUBSET S /\ r \in SUBSET r
    BY FS_Subset
  <2>2. SumsUp(f, On(r), r) /\ SumsUp(f, On(S), S)
    BY <1>1, <2>1
  <2> HIDE DEF r
  <2>3. On(S)[r] = On(r)[r]
    BY <2>1, <2>2, SumsAgree
  <2>. QED BY <1>2, <1>3, <1>5, <2>3 DEF Adds, r
<1>. QED BY <1>4, <1>5

(* A sum of naturals is a natural.                                         *)
LEMMA SumType ==
  ASSUME NEW S, IsFiniteSet(S), NEW f, \A x \in S : f[x] \in Nat
  PROVE  SumFunctionOnSet(f, S) \in Nat
<1> DEFINE Wrong == {T \in SUBSET S : SumFunctionOnSet(f, T) \notin Nat}
<1>1. SUFFICES ASSUME Wrong # {} PROVE FALSE
  OBVIOUS
<1>2. PICK T \in Wrong : \A U \in Wrong : U \subseteq T => U = T
  <2>1. Wrong \subseteq SUBSET S
    OBVIOUS
  <2> HIDE DEF Wrong
  <2>. QED BY <1>1, <2>1, SmallestSubset
<1>3. IsFiniteSet(T) /\ T \in SUBSET S
  BY <1>2, FS_Subset
<1>4. T # {}
  BY <1>2, <1>3, SumStep
<1>5. Chosen(T) \in T
  BY <1>4, ChosenIn
<1>6. SumFunctionOnSet(f, T \ {Chosen(T)}) \in Nat
  BY <1>2, <1>3, <1>5
<1>7. SumFunctionOnSet(f, T) = f[Chosen(T)] + SumFunctionOnSet(f, T \ {Chosen(T)})
  BY <1>3, <1>4, SumStep
<1>8. f[Chosen(T)] \in Nat
  BY <1>3, <1>5
<1>. QED BY <1>2, <1>6, <1>7, <1>8

(* Any summand can be taken out first.                                     *)
LEMMA SumRemove ==
  ASSUME NEW S, IsFiniteSet(S), NEW f, \A x \in S : f[x] \in Nat, NEW y \in S
  PROVE  SumFunctionOnSet(f, S) = f[y] + SumFunctionOnSet(f, S \ {y})
<1> DEFINE Sum(T) == SumFunctionOnSet(f, T)
           Wrong == {T \in SUBSET S : \E x \in T : Sum(T) # f[x] + Sum(T \ {x})}
<1>1. SUFFICES ASSUME Wrong # {} PROVE FALSE
  OBVIOUS
<1>2. PICK T \in Wrong : \A U \in Wrong : U \subseteq T => U = T
  <2>1. Wrong \subseteq SUBSET S
    OBVIOUS
  <2> HIDE DEF Wrong
  <2>. QED BY <1>1, <2>1, SmallestSubset
<1>3. IsFiniteSet(T) /\ T \in SUBSET S
  BY <1>2, FS_Subset
<1>4. PICK x \in T : Sum(T) # f[x] + Sum(T \ {x})
  BY <1>2
<1> DEFINE c == Chosen(T)
<1>5. c \in T
  BY <1>4, ChosenIn
<1> HIDE DEF c
<1>6. Sum(T) = f[c] + Sum(T \ {c})
  BY <1>3, <1>4, SumStep DEF c
<1>7. x # c
  BY <1>4, <1>6
<1>8. T \ {c} \notin Wrong /\ T \ {x} \notin Wrong
  BY <1>2, <1>4, <1>5
<1>9. Sum(T \ {c}) = f[x] + Sum((T \ {c}) \ {x})
  BY <1>3, <1>4, <1>7, <1>8
<1>10. Sum(T \ {x}) = f[c] + Sum((T \ {x}) \ {c})
  BY <1>3, <1>5, <1>7, <1>8
<1>11. (T \ {c}) \ {x} = (T \ {x}) \ {c}
  OBVIOUS
<1>12. IsFiniteSet((T \ {x}) \ {c})
  BY <1>3, FS_RemoveElement
<1> HIDE DEF Sum, Wrong
<1>13. Sum((T \ {x}) \ {c}) \in Nat /\ f[x] \in Nat /\ f[c] \in Nat
  BY <1>3, <1>4, <1>5, <1>12, SumType DEF Sum
<1>. QED BY <1>4, <1>6, <1>9, <1>10, <1>11, <1>13

(* Summands that are zero may be left out, and the sum of the rest sees    *)
(* only their values.                                                      *)
LEMMA SumSame ==
  ASSUME NEW S, IsFiniteSet(S), NEW T \in SUBSET S, NEW f, NEW g,
         \A x \in S : f[x] \in Nat,
         \A x \in S \ T : f[x] = 0, \A x \in T : g[x] = f[x]
  PROVE  SumFunctionOnSet(f, S) = SumFunctionOnSet(g, T)
<1> DEFINE Sum(U) == SumFunctionOnSet(f, U)
           Wrong == {U \in SUBSET S : Sum(U) # SumFunctionOnSet(g, U \cap T)}
<1>1. SUFFICES ASSUME Wrong # {} PROVE FALSE
  <2>1. S \cap T = T
    OBVIOUS
  <2>. QED BY <2>1
<1>2. PICK U \in Wrong : \A W \in Wrong : W \subseteq U => W = U
  <2>1. Wrong \subseteq SUBSET S
    OBVIOUS
  <2> HIDE DEF Wrong
  <2>. QED BY <1>1, <2>1, SmallestSubset
<1>3. IsFiniteSet(U) /\ U \in SUBSET S /\ IsFiniteSet(U \cap T)
  BY <1>2, FS_Subset
<1>4. U # {}
  BY <1>2, <1>3, SumStep
<1>5. PICK x \in U : TRUE
  BY <1>4
<1>6. Sum(U) = f[x] + Sum(U \ {x})
  BY <1>3, <1>5, SumRemove
<1>7. Sum(U \ {x}) = SumFunctionOnSet(g, (U \ {x}) \cap T)
  BY <1>2, <1>3, <1>5
<1>8. Sum(U \ {x}) \in Nat
  BY <1>3, FS_RemoveElement, SumType
<1>9. CASE x \in T
  <2>1. (U \ {x}) \cap T = (U \cap T) \ {x} /\ x \in U \cap T
    BY <1>5, <1>9
  <2>2. SumFunctionOnSet(g, U \cap T) = g[x] + SumFunctionOnSet(g, (U \cap T) \ {x})
    BY <1>3, <2>1, SumRemove
  <2>. QED BY <1>2, <1>6, <1>7, <1>9, <2>1, <2>2
<1>10. CASE x \notin T
  <2>1. (U \ {x}) \cap T = U \cap T /\ f[x] = 0
    BY <1>3, <1>5, <1>10
  <2>. QED BY <1>2, <1>6, <1>7, <1>8, <2>1
<1>. QED BY <1>9, <1>10

(* Summands moved along an injection, and made no smaller, to a larger set. *)
LEMMA SumBound ==
  ASSUME NEW S, IsFiniteSet(S), NEW R, IsFiniteSet(R), NEW f, NEW g, NEW to \in [S -> R],
         \A x \in S : f[x] \in Nat, \A y \in R : g[y] \in Nat,
         \A x \in S : f[x] <= g[to[x]], \A x, z \in S : to[x] = to[z] => x = z
  PROVE  SumFunctionOnSet(f, S) <= SumFunctionOnSet(g, R)
<1> DEFINE Rest(U) == R \ {to[x] : x \in S \ U}
           Wrong == {U \in SUBSET S : ~(SumFunctionOnSet(f, U) <= SumFunctionOnSet(g, Rest(U)))}
<1>1. SUFFICES ASSUME Wrong # {} PROVE FALSE
  <2>1. Rest(S) = R
    OBVIOUS
  <2>. QED BY <2>1
<1>2. PICK U \in Wrong : \A W \in Wrong : W \subseteq U => W = U
  <2>1. Wrong \subseteq SUBSET S
    OBVIOUS
  <2> HIDE DEF Wrong
  <2>. QED BY <1>1, <2>1, SmallestSubset
<1>3. IsFiniteSet(U) /\ U \in SUBSET S /\ IsFiniteSet(Rest(U))
  BY <1>2, FS_Subset
<1>4. SumFunctionOnSet(g, Rest(U)) \in Nat
  BY <1>3, SumType
<1>5. U # {}
  <2> SUFFICES ASSUME U = {} PROVE FALSE
    OBVIOUS
  <2>1. SumFunctionOnSet(f, U) = 0
    BY <1>3, SumStep
  <2> HIDE DEF Rest
  <2>. QED BY <1>2, <1>4, <2>1
<1>6. PICK x \in U : TRUE
  BY <1>5
<1>7. SumFunctionOnSet(f, U) = f[x] + SumFunctionOnSet(f, U \ {x})
  BY <1>3, <1>6, SumRemove
<1>8. SumFunctionOnSet(f, U \ {x}) <= SumFunctionOnSet(g, Rest(U \ {x}))
  BY <1>2, <1>3, <1>6
<1>9. Rest(U \ {x}) = Rest(U) \ {to[x]} /\ to[x] \in Rest(U)
  BY <1>3, <1>6
<1>10. SumFunctionOnSet(g, Rest(U)) = g[to[x]] + SumFunctionOnSet(g, Rest(U) \ {to[x]})
  BY <1>3, <1>9, SumRemove
<1>11. /\ SumFunctionOnSet(f, U \ {x}) \in Nat
       /\ SumFunctionOnSet(g, Rest(U) \ {to[x]}) \in Nat
       /\ f[x] \in Nat /\ g[to[x]] \in Nat /\ f[x] <= g[to[x]]
  BY <1>3, <1>6, FS_RemoveElement, SumType
<1> HIDE DEF Rest
<1>12. SumFunctionOnSet(f, U) <= SumFunctionOnSet(g, Rest(U))
  <2>1. SumFunctionOnSet(f, U \ {x}) <= SumFunctionOnSet(g, Rest(U) \ {to[x]})
    BY <1>8, <1>9
  <2> DEFINE less == SumFunctionOnSet(f, U \ {x})
             more == SumFunctionOnSet(g, Rest(U) \ {to[x]})
  <2>2. less \in Nat /\ more \in Nat /\ less <= more
    BY <1>11, <2>1
  <2>3. SumFunctionOnSet(f, U) = f[x] + less /\ SumFunctionOnSet(g, Rest(U)) = g[to[x]] + more
    BY <1>7, <1>10
  <2> HIDE DEF less, more
  <2>4. f[x] + less <= g[to[x]] + more
    BY <1>11, <2>2
  <2>. QED BY <2>3, <2>4
<1>. QED BY <1>2, <1>12 DEF Rest
-----------------------------------------------------------------------------
(* Without preemption between a worker's final store and its cleanup.      *)
(*                                                                         *)
(* What a walk takes out of the cache, and what a second load drops, is a  *)
(* buffer nobody has locked and no worker is busy with.                    *)
LEMMA ReclaimEffect ==
  ASSUME IInv, WalkReclaim
  PROVE  LET b == lru[walk.pos]
             t == buf[b].track
         IN  /\ walk.pos \in 1..Len(lru) /\ walk # NoWalk
             /\ b \in Buffers /\ t \in Tracks /\ Present(t) /\ index[t] = b
             /\ buf[b].locks = 0 /\ (buf[b].complete \/ buf[b].failed)
             /\ ~Preemptible => phase[b] = "idle"
             /\ index' = [index EXCEPT ![t] = NoBuffer] /\ buf' = Freed(b)
             /\ phase' = phase /\ used' = (used - buf[b].mem) % Modulus
<1> USE DEF IInv
<1> DEFINE b == lru[walk.pos]
           t == buf[b].track
<1>1. walk.pos \in 1..Len(lru) /\ lru \in Seq(Buffers) /\ walk # NoWalk
  BY LenProperties DEF WalkReclaim, WalkOn, CallOrder, TypeOK, NoWalk
<1>2. b \in ToSet(lru)
  BY <1>1, LenProperties DEF ToSet
<1>3. t \in Tracks /\ Present(t) /\ index[t] = b
  BY <1>2 DEF ListMatchesTable, Present
<1>4. b \in Buffers
  BY <1>3 DEF TypeOK, Present
<1>5. buf[b].locks = 0 /\ (buf[b].complete \/ buf[b].failed)
  <2>1. buf[b].locks \in Nat
    BY <1>4 DEF TypeOK, Flags
  <2>. QED BY <2>1 DEF InUse, WalkReclaim
<1>6. ASSUME ~Preemptible PROVE phase[b] = "idle"
  <2>1. ~InWindow(b)
    BY <1>4, <1>6 DEF WalkReclaim, WalkOn, Calm
  <2>. QED BY <1>4, <1>5, <2>1 DEF OneWorker, InWindow
<1>7. /\ index' = [index EXCEPT ![t] = NoBuffer] /\ buf' = Freed(b)
      /\ phase' = phase /\ used' = (used - buf[b].mem) % Modulus
  BY DEF WalkReclaim
<1>. QED BY <1>1, <1>3, <1>4, <1>5, <1>6, <1>7

LEMMA RetryEffect ==
  ASSUME IInv, NEW t \in Tracks, Load(t), Present(t), Retried(index[t])
  PROVE  /\ index[t] \in Buffers /\ buf[index[t]].failed /\ buf[index[t]].locks = 0
         /\ ~Preemptible => phase[index[t]] = "idle"
         /\ index' = [index EXCEPT ![t] = NoBuffer] /\ buf' = Freed(index[t])
         /\ UNCHANGED <<used, phase, walk, life>>
<1> USE DEF IInv
<1>1. index[t] \in Buffers
  BY DEF Present, TypeOK
<1>2. buf[index[t]].failed /\ buf[index[t]].locks = 0
  BY DEF Retried
<1>3. ASSUME ~Preemptible PROVE phase[index[t]] = "idle"
  <2>1. ~InWindow(index[t])
    BY <1>1, <1>3 DEF Load, MainIdle, InCall, Calm
  <2>. QED BY <1>1, <1>2, <2>1 DEF OneWorker, InWindow
<1>. QED BY <1>1, <1>2, <1>3 DEF Load

(* A buffer that leaves the table takes no other with it.                  *)
LEMMA OthersCached ==
  ASSUME TypeOK, ListMatchesTable, NEW t \in Tracks, Present(t),
         index' = [index EXCEPT ![t] = NoBuffer],
         NEW c \in Buffers
  PROVE  Cached(c)' <=> Cached(c) /\ c # index[t]
<1>1. NoBuffer \notin Buffers
  BY CacheAssumption
<1>2. ASSUME NEW u \in Tracks, index'[u] = c PROVE Cached(c) /\ c # index[t]
  <2>1. u # t /\ index[u] = c
    BY <1>1, <1>2 DEF TypeOK
  <2>2. index[t] # c
    BY <2>1, OneTrackPerBuffer
  <2>. QED BY <2>1, <2>2 DEF Cached
<1>3. ASSUME NEW u \in Tracks, index[u] = c, c # index[t] PROVE Cached(c)'
  BY <1>3 DEF Cached, TypeOK
<1>. QED BY <1>2, <1>3 DEF Cached

(* A worker's buffer stays in the cache until the worker has cleaned up    *)
(* after itself, and nothing else is under way while one is about to.      *)
WorkersInside ==
  ~Preemptible /\ Alive =>
    /\ \A b \in Buffers : phase[b] # "idle" => Cached(b)
    /\ \A b \in Buffers : InWindow(b) => MutexFree
    /\ \A b, c \in Buffers : InWindow(b) /\ InWindow(c) => b = c

(* Steps that leave the table alone and change no phase, or the phase of   *)
(* one buffer.                                                             *)
LEMMA InsideKept ==
  ASSUME WorkersInside, Alive, UNCHANGED <<index, phase>>, ~Preemptible,
         MutexFree => MutexFree' \/ Calm
  PROVE  WorkersInside'
BY DEF WorkersInside, Cached, InWindow, MutexFree, Calm

LEMMA InsidePhase ==
  ASSUME TypeOK, WorkersInside, Alive, index' = index, ~Preemptible, NEW b \in Buffers,
         phase[b] # "idle", NEW p \in Phases, phase' = [phase EXCEPT ![b] = p],
         \/ p \notin {"publishing", "failing"} /\ (Calm \/ InWindow(b))
         \/ Calm /\ MutexFree /\ walk' = walk
  PROVE  WorkersInside'
<1>1. \A c \in Buffers : Cached(c)' <=> Cached(c)
  BY DEF Cached
<1>2. \A c \in Buffers : c # b => (InWindow(c)' <=> InWindow(c))
  BY DEF InWindow, TypeOK
<1>3. phase'[b] = p
  BY DEF TypeOK
<1>4. \A c \in Buffers : c # b => ~InWindow(c)
  BY DEF Calm, WorkersInside
<1>5. \A c \in Buffers : InWindow(c)' => c = b /\ MutexFree /\ walk' = walk
  BY <1>2, <1>3, <1>4 DEF InWindow
<1>6. \A c \in Buffers : phase'[c] # "idle" => Cached(c)'
  BY <1>1 DEF WorkersInside, TypeOK
<1>. QED BY <1>5, <1>6 DEF WorkersInside, MutexFree

LEMMA InsideStep ==
  ASSUME IInv, WorkersInside, ~Preemptible, Next
  PROVE  WorkersInside'
<1> USE DEF IInv
<1> SUFFICES ASSUME Alive' PROVE WorkersInside'
  BY DEF WorkersInside
<1>1. ASSUME NEW t \in Tracks, Load(t) PROVE WorkersInside'
  <2>1. Alive /\ Calm /\ UNCHANGED <<phase, walk>>
    BY <1>1 DEF Load, MainIdle, InCall, Alive
  <2>2. CASE Present(t) /\ Retried(index[t])
    <3>1. /\ phase[index[t]] = "idle" /\ index[t] \in Buffers
          /\ index' = [index EXCEPT ![t] = NoBuffer]
      BY <1>1, <2>2, RetryEffect
    <3>2. \A c \in Buffers : Cached(c)' <=> Cached(c) /\ c # index[t]
      BY <2>2, <3>1, OthersCached
    <3>. QED BY <2>1, <3>1, <3>2 DEF WorkersInside, InWindow, MutexFree
  <2>3. CASE ~(Present(t) /\ Retried(index[t]))
    <3>1. index' = index
      BY <1>1, <2>3 DEF Load, Present, TypeOK
    <3>. QED BY <2>1, <3>1, InsideKept
  <2>. QED BY <2>2, <2>3
<1>2. ASSUME NEW b \in Buffers, LoadInsert(b) PROVE WorkersInside'
  <2>1. /\ Alive /\ Calm /\ walk' = walk /\ main.track \in Tracks
        /\ index' = [index EXCEPT ![main.track] = b]
        /\ phase' = [phase EXCEPT ![b] = "queued"]
    BY <1>2 DEF LoadInsert, InCall, Alive, CallOrder
  <2>2. ~Present(main.track)
    BY <1>2 DEF LoadInsert, CallOrder
  <2>3. \A c \in Buffers : Cached(c) => Cached(c)'
    BY <2>1, <2>2, CacheAssumption DEF Cached, Present, TypeOK
  <2>4. Cached(b)'
    BY <2>1 DEF Cached, TypeOK
  <2>5. \A c \in Buffers : InWindow(c)' => InWindow(c)
    BY <2>1 DEF InWindow, TypeOK
  <2>. QED BY <2>1, <2>3, <2>4, <2>5 DEF WorkersInside, MutexFree, TypeOK
<1>3. ASSUME WalkReclaim PROVE WorkersInside'
  <2> DEFINE b == lru[walk.pos]
             t == buf[b].track
  <2>1. /\ b \in Buffers /\ t \in Tracks /\ Present(t) /\ index[t] = b /\ phase[b] = "idle"
        /\ index' = [index EXCEPT ![t] = NoBuffer] /\ phase' = phase
    BY <1>3, ReclaimEffect
  <2> HIDE DEF b, t
  <2>2. \A c \in Buffers : Cached(c)' <=> Cached(c) /\ c # b
    BY <2>1, OthersCached
  <2>3. Alive /\ Calm
    BY <1>3 DEF WalkReclaim, WalkOn
  <2>. QED BY <2>1, <2>2, <2>3 DEF WorkersInside, InWindow, Calm
<1>4. ASSUME \/ LoadFails \/ LoadOnly \/ Lock \/ TimePasses \/ SweepBegin \/ WalkSkip
             \/ WalkEnd
             \/ \E t \in Tracks : UnlockNow(t) \/ UnlockDeferred(t) \/ UnlockTimer(t)
                                  \/ GetLocked(t) \/ CancelLoad(t)
             \/ \E b \in Buffers : Allocate(b)
      PROVE  WorkersInside'
  <2>1. Alive /\ Calm /\ UNCHANGED <<index, phase>>
    BY <1>4 DEF LoadFails, LoadOnly, Lock, TimePasses, SweepBegin, WalkSkip, WalkEnd, WalkOn,
                UnlockNow, UnlockDeferred, UnlockTimer, GetLocked, CancelLoad, Allocate,
                MainIdle, InCall, Alive
  <2>. QED BY <2>1, InsideKept
<1>5. ASSUME Start PROVE WorkersInside'
  <2>1. Head(tasks) \in Buffers /\ phase[Head(tasks)] = "queued"
    <3>1. 1 \in DOMAIN tasks /\ tasks[1] = Head(tasks) /\ Head(tasks) \in Buffers
      BY <1>5, TailQueue DEF Start, OneWorker, TypeOK
    <3>. QED BY <3>1 DEF OneWorker
  <2>. QED BY <1>5, <2>1, InsidePhase DEF Start, Phases
<1>6. ASSUME NEW b \in Buffers, DecodeError(b) \/ DecodeStop(b) \/ Publish(b)
      PROVE  WorkersInside'
  <2>1. CASE DecodeError(b)
    BY <2>1, InsidePhase DEF DecodeError, Phases
  <2>2. CASE DecodeStop(b)
    <3>1. CASE buf[b].cancelled
      BY <2>2, <3>1, InsidePhase DEF DecodeStop, Phases
    <3>2. CASE ~buf[b].cancelled
      BY <2>2, <3>2, InsidePhase DEF DecodeStop, Phases
    <3>. QED BY <3>1, <3>2
  <2>3. CASE Publish(b)
    BY <2>3, InsidePhase DEF Publish, Phases
  <2>. QED BY <1>6, <2>1, <2>2, <2>3
<1>7. ASSUME NEW b \in Buffers, Cleanup(b) PROVE WorkersInside'
  <2>1. /\ InWindow(b) /\ index' = index /\ Alive
        /\ phase' = [phase EXCEPT ![b] = "idle"]
    BY <1>7 DEF Cleanup, CleanupDone, CleanupFailed, CleanupFreed
  <2>2. phase[b] # "idle"
    BY <2>1 DEF InWindow
  <2>. QED BY <2>1, <2>2, InsidePhase DEF Phases
<1>8. ASSUME DestroyBegin PROVE WorkersInside'
  <2>1. /\ Alive /\ Calm /\ index' = index /\ walk' = walk
        /\ phase' = [b \in Buffers |-> IF phase[b] = "queued" THEN "idle" ELSE phase[b]]
    BY <1>8 DEF DestroyBegin, MainIdle, InCall, Alive
  <2>2. \A b \in Buffers : /\ phase'[b] # "idle" => phase[b] # "idle"
                           /\ ~InWindow(b)'
    BY <2>1 DEF Calm, InWindow
  <2>. QED BY <2>1, <2>2 DEF WorkersInside, Cached
<1>9. ~DestroyEnd
  BY DEF DestroyEnd, Alive
<1>. QED
  BY <1>1, <1>2, <1>3, <1>4, <1>5, <1>6, <1>7, <1>8, <1>9
  DEF Next, Client, Walk, Decode

(* No step is taken any more once the cache is destroyed or has aborted.   *)
LEMMA OnlyAlive ==
  ASSUME Next
  PROVE  Alive
BY Zenon DEF Next, Client, Walk, Decode, Cleanup, Load, LoadInsert, LoadFails, LoadOnly,
       Lock, UnlockNow, UnlockDeferred, UnlockTimer, GetLocked, CancelLoad,
       TimePasses, SweepBegin, DestroyBegin, DestroyEnd, WalkSkip, WalkReclaim,
       WalkEnd, WalkOn, Start, Allocate, DecodeError, DecodeStop, Publish,
       CleanupDone, CleanupFailed, CleanupFreed, MainIdle, InCall, Alive

(* While the cache is being destroyed nothing is queued any more.          *)
NothingQueued ==
  life \in {"closing", "gone"} => tasks = <<>> /\ \A b \in Buffers : phase[b] # "queued"

LEMMA QuietStepEnd ==
  ASSUME IInv, NothingQueued, DestroyedQuiet, Next
  PROVE  NothingQueued' /\ DestroyedQuiet'
<1> USE DEF IInv
<1>1. Alive /\ life # "gone"
  BY OnlyAlive DEF Alive
<1>2. CASE DestroyBegin
  <2>1. life' = "closing" /\ tasks' = <<>>
        /\ phase' = [b \in Buffers |-> IF phase[b] = "queued" THEN "idle" ELSE phase[b]]
    BY <1>2 DEF DestroyBegin
  <2>. QED BY <2>1 DEF NothingQueued, DestroyedQuiet
<1>3. CASE DestroyEnd
  <2>1. /\ life = "closing" /\ life' = "gone" /\ walk = NoWalk /\ Running = {}
        /\ timer' = [t \in Tracks |-> FALSE] /\ UNCHANGED <<tasks, phase, walk>>
    BY <1>3 DEF DestroyEnd, MutexFree
  <2>2. \A b \in Buffers : phase[b] = "idle"
    BY <2>1 DEF Running, NothingQueued
  <2>. QED BY <2>1, <2>2 DEF NothingQueued, DestroyedQuiet
<1>4. CASE ~DestroyBegin /\ ~DestroyEnd
  <2>1. life' = life \/ life' = "aborted"
    BY Zenon, <1>4 DEF Next, Client, Walk, Decode, Cleanup, Load, LoadInsert, LoadFails, LoadOnly,
       Lock, UnlockNow, UnlockDeferred, UnlockTimer, GetLocked, CancelLoad,
       TimePasses, SweepBegin, WalkSkip, WalkReclaim, WalkEnd, Start, Allocate, DecodeError,
       DecodeStop, Publish, CleanupDone, CleanupFailed, CleanupFreed, Release
  <2> SUFFICES ASSUME life = "closing", life' = "closing" PROVE NothingQueued'
    BY <1>1, <2>1 DEF NothingQueued, DestroyedQuiet
  <2>2. tasks = <<>> /\ \A b \in Buffers : phase[b] # "queued"
    BY DEF NothingQueued
  <2>3. UNCHANGED tasks
    BY Zenon, <1>4, <2>2 DEF Next, Client, Walk, Decode, Cleanup, Load, LoadInsert, LoadFails, LoadOnly,
       Lock, UnlockNow, UnlockDeferred, UnlockTimer, GetLocked, CancelLoad,
       TimePasses, SweepBegin, WalkSkip, WalkReclaim, WalkEnd, Start, Allocate, DecodeError,
       DecodeStop, Publish, CleanupDone, CleanupFailed, CleanupFreed, InCall
  <2>4. \/ phase' = phase
        \/ \E b \in Buffers, p \in Phases \ {"queued"} : phase' = [phase EXCEPT ![b] = p]
    <3>1. \/ phase' = phase
          \/ \E b \in Buffers : Decode(b) \/ Cleanup(b)
      BY <1>4, <2>2 DEF Next, Client, Walk, Load, LoadInsert, LoadFails, LoadOnly,
       Lock, UnlockNow, UnlockDeferred, UnlockTimer, GetLocked, CancelLoad,
       TimePasses, SweepBegin, WalkSkip, WalkReclaim, WalkEnd, Start, InCall
    <3>2. ASSUME NEW b \in Buffers, Decode(b) \/ Cleanup(b)
          PROVE  phase' = phase \/ \E p \in Phases \ {"queued"} : phase' = [phase EXCEPT ![b] = p]
      BY <3>2 DEF Decode, Cleanup, Allocate, DecodeError, DecodeStop, Publish, CleanupDone,
                  CleanupFailed, CleanupFreed, Phases
    <3>. QED BY <3>1, <3>2
  <2>. QED BY <2>2, <2>3, <2>4 DEF NothingQueued, TypeOK
<1>. QED BY <1>2, <1>3, <1>4

(* audio_cache_destroy frees nothing a worker, a walk or a timer could     *)
(* still touch, with and without preemption.                               *)
THEOREM DestroyedAlwaysQuiet == Spec => []DestroyedQuiet
<1> DEFINE Inv == NothingQueued /\ DestroyedQuiet
<1>1. Init => Inv
  BY DEF Init, NothingQueued, DestroyedQuiet
<1>2. IInv /\ Inv /\ [Next]_vars => Inv'
  <2>1. ASSUME UNCHANGED vars, Inv PROVE Inv'
    BY <2>1 DEF vars, NothingQueued, DestroyedQuiet
  <2>. QED BY <2>1, QuietStepEnd
<1>3. Inv => DestroyedQuiet
  OBVIOUS
<1> HIDE DEF Inv
<1>. QED BY <1>1, <1>2, <1>3, Invariance, PTL DEF Spec
-----------------------------------------------------------------------------
(* What an eviction has walked past stays in use until it ends.            *)
PassedInUse ==
  ~Preemptible /\ walk.kind = "evict" =>
    \A i \in DOMAIN lru : i > walk.pos => InUse(lru[i])

LEMMA PassedStep ==
  ASSUME IInv, PassedInUse, ~Preemptible, Next
  PROVE  PassedInUse'
<1> USE DEF IInv
<1>1. lru \in Seq(Buffers) /\ Len(lru) \in Nat /\ DOMAIN lru = 1..Len(lru)
      /\ \A i \in 1..Len(lru) : lru[i] \in Buffers
  BY LenProperties, ElementOfSeq DEF TypeOK
<1> SUFFICES ASSUME walk'.kind = "evict" PROVE PassedInUse'
  BY DEF PassedInUse
<1>2. CASE walk.kind # "evict"
  <2>1. \E b \in Buffers : CleanupDone(b) \/ CleanupFreed(b)
    <3>1. \/ walk' = walk
          \/ walk' = [walk EXCEPT !.pos = walk.pos - 1]
          \/ walk' = NoWalk
          \/ walk' = [kind |-> "sweep", pos |-> Len(lru)]
          \/ \E b \in Buffers : CleanupDone(b) \/ CleanupFreed(b)
      BY Zenon DEF Next, Client, Walk, Decode, Cleanup, Load, LoadInsert, LoadFails, LoadOnly,
         Lock, UnlockNow, UnlockDeferred, UnlockTimer, GetLocked, CancelLoad,
         TimePasses, SweepBegin, DestroyBegin, DestroyEnd, WalkSkip, WalkReclaim, WalkEnd, Start,
         Allocate, DecodeError, DecodeStop, Publish, CleanupFailed
    <3>. QED BY <1>2, <3>1 DEF TypeOK, NoWalk
  <2>2. lru' = lru /\ walk'.pos = Len(lru)
    BY <1>2, <2>1 DEF CleanupDone, CleanupFreed, TypeOK
  <2>. QED BY <1>1, <2>2 DEF PassedInUse
<1>3. CASE walk.kind = "evict"
  <2>1. ~MutexFree /\ \A i \in 1..Len(lru) : i > walk.pos => InUse(lru[i])
    BY <1>1, <1>3 DEF PassedInUse, MutexFree, NoWalk
  <2>2. ASSUME NEW b, WalkReclaim, b = lru[walk.pos] PROVE PassedInUse'
    <3>1. /\ walk.pos \in 1..Len(lru) /\ IsInjective(lru) /\ b \in Buffers
          /\ lru' = RemoveAt(lru, walk.pos) /\ walk'.pos = walk.pos - 1
          /\ buf' = Freed(b)
      BY <2>2, ReclaimEffect DEF WalkReclaim, TypeOK, ListMatchesTable
    <3>2. /\ DOMAIN lru' = 1..(Len(lru) - 1)
          /\ \A j \in 1..(Len(lru) - 1) :
               lru'[j] = IF j < walk.pos THEN lru[j] ELSE lru[j + 1]
      <4>1. lru' \in Seq(Buffers) /\ Len(lru') = Len(lru) - 1
        BY Zenon, <1>1, <3>1, RemoveAtProperties
      <4>2. DOMAIN lru' = 1..Len(lru')
        BY <4>1, LenProperties
      <4>. QED BY <1>1, <3>1, <4>1, <4>2, RemoveAtProperties
    <3>3. ASSUME NEW j \in 1..(Len(lru) - 1), j > walk.pos - 1
          PROVE  InUse(lru[j])'
      <4>1. j + 1 \in 1..Len(lru) /\ j + 1 > walk.pos /\ lru'[j] = lru[j + 1]
        BY <1>1, <3>1, <3>2, <3>3
      <4>2. lru[j + 1] # b /\ lru[j + 1] \in Buffers
        BY <1>1, <2>2, <3>1, <4>1 DEF IsInjective
      <4>3. buf'[lru[j + 1]] = buf[lru[j + 1]]
        BY <3>1, <4>2 DEF Freed, TypeOK
      <4>4. InUse(lru[j + 1])
        BY <2>1, <4>1
      <4>. QED BY <4>1, <4>3, <4>4 DEF InUse
    <3>. QED BY <1>1, <3>1, <3>2, <3>3 DEF PassedInUse
  <2>3. ASSUME WalkSkip PROVE PassedInUse'
    <3>1. InUse(lru[walk.pos]) /\ walk'.pos = walk.pos - 1 /\ UNCHANGED <<lru, buf>> /\ walk.pos \in Nat
      BY <2>3 DEF WalkSkip, TypeOK
    <3>2. \A i \in 1..Len(lru) : i > walk.pos - 1 => i > walk.pos \/ i = walk.pos
      BY <1>1, <3>1
    <3>3. \A i \in 1..Len(lru) : InUse(lru[i]) => InUse(lru[i])'
      BY <3>1 DEF InUse
    <3>. QED BY <1>1, <2>1, <3>1, <3>2, <3>3 DEF PassedInUse
  <2>4. ASSUME UNCHANGED <<lru, walk>>,
               \A c \in Buffers : InUse(c) => InUse(c)'
        PROVE  PassedInUse'
    <3>1. \A i \in 1..Len(lru) : InUse(lru[i]) => InUse(lru[i])'
      BY <1>1, <2>4 DEF InUse
    <3>. QED BY <1>1, <2>1, <2>4, <3>1 DEF PassedInUse
  <2>5. ASSUME \/ LoadOnly \/ Start \/ \E t \in Tracks : UnlockDeferred(t)
               \/ \E b \in Buffers : DecodeStop(b)
        PROVE  PassedInUse'
    <3>1. UNCHANGED <<lru, walk, buf>>
      BY <2>1, <2>5 DEF LoadOnly, Start, UnlockDeferred, DecodeStop
    <3>. QED BY <2>4, <3>1 DEF InUse
  <2>6. ASSUME TimePasses PROVE PassedInUse'
    <3>1. UNCHANGED <<lru, walk>> /\ buf' = [b \in Buffers |-> [buf[b] EXCEPT !.fresh = FALSE]]
      BY <2>6 DEF TimePasses
    <3>2. \A b \in Buffers : InUse(b)' <=> InUse(b)
      BY <3>1 DEF InUse, TypeOK, Flags
    <3>. QED BY <2>4, <3>1, <3>2
  <2>7. ASSUME NEW b \in Buffers, Allocate(b) PROVE PassedInUse'
    <3>1. UNCHANGED <<lru, walk>> /\ buf' = [buf EXCEPT ![b].mem = Size[buf[b].track] + 1]
      BY <2>7 DEF Allocate
    <3>2. ASSUME NEW c \in Buffers PROVE InUse(c)' <=> InUse(c)
      <4>1. buf[c] \in Flags /\ buf[b] \in Flags
        BY DEF TypeOK
      <4>. QED BY <3>1, <4>1 DEF InUse, TypeOK, Flags
    <3>. QED BY <2>4, <3>1, <3>2
  <2>8. ~WalkEnd
    BY DEF WalkEnd, NoWalk
  <2>. QED
    BY Zenon, <2>1, <2>2, <2>3, <2>5, <2>6, <2>7, <2>8
    DEF Next, Client, Walk, Decode, Cleanup, Load, LoadInsert, LoadFails,
        Lock, UnlockNow, UnlockTimer, GetLocked, CancelLoad, MainIdle,
        SweepBegin, DestroyBegin, DestroyEnd, DecodeError, Publish,
        CleanupDone, CleanupFailed, CleanupFreed
<1>. QED BY <1>2, <1>3

(* When the eviction of a worker ends, the cache is within its limit or    *)
(* every buffer left is in use.                                            *)
LEMMA EvictionEnds ==
  ASSUME IInv, PassedInUse, ~Preemptible, Next, walk.kind = "evict", walk' = NoWalk
  PROVE  used <= Limit \/ \A i \in DOMAIN lru : InUse(lru[i])
<1> USE DEF IInv
<1>1. walk.pos \in Nat /\ ~MutexFree /\ walk # NoWalk
  BY DEF TypeOK, MutexFree, NoWalk
<1>2. WalkEnd
  BY Zenon, <1>1 DEF Next, Client, Walk, Decode, Cleanup, Load, LoadInsert, LoadFails, LoadOnly,
       Lock, UnlockNow, UnlockDeferred, UnlockTimer, GetLocked, CancelLoad, MainIdle,
       TimePasses, SweepBegin, DestroyBegin, DestroyEnd, WalkSkip, WalkReclaim, Start,
       Allocate, DecodeError, DecodeStop, Publish, CleanupDone, CleanupFailed, CleanupFreed,
       TypeOK, NoWalk
<1>3. walk.pos = 0 \/ ~Over
  BY <1>1, <1>2 DEF WalkEnd, WalkOn
<1>4. CASE walk.pos = 0
  <2>1. \A i \in DOMAIN lru : i > 0
    BY LenProperties DEF TypeOK
  <2>. QED BY <1>4, <2>1 DEF PassedInUse
<1>5. CASE ~Over
  BY <1>5, CacheAssumption DEF Over, TypeOK
<1>. QED BY <1>3, <1>4, <1>5

THEOREM EvictionAlwaysEnough ==
  ASSUME ~Preemptible
  PROVE  Spec => EvictionEnough
<1> DEFINE Enough == walk.kind = "evict" /\ walk' = NoWalk =>
                       used <= Limit \/ \A i \in DOMAIN lru : InUse(lru[i])
<1>1. Init => PassedInUse
  BY DEF Init, PassedInUse, NoWalk
<1>2. IInv /\ PassedInUse /\ [Next]_vars => PassedInUse'
  <2>1. ASSUME UNCHANGED vars, PassedInUse PROVE PassedInUse'
    BY <2>1 DEF vars, PassedInUse, InUse
  <2>. QED BY <2>1, PassedStep
<1>3. IInv /\ PassedInUse /\ [Next]_vars => [Enough]_vars
  BY EvictionEnds
<1>4. Spec => [][Next]_vars
  BY DEF Spec
<1> HIDE DEF Enough
<1>5. Spec => [][Enough]_vars
  BY <1>1, <1>2, <1>3, <1>4, Invariance, PTL DEF Spec
<1>. QED BY <1>5 DEF Enough, EvictionEnough
-----------------------------------------------------------------------------
(* Steps of clients and walks that move no buffer and decode nothing: the  *)
(* memory, the track and the final flags of every buffer stay.             *)
LightStep ==
  \/ LoadFails \/ LoadOnly \/ Lock \/ TimePasses \/ SweepBegin \/ WalkSkip \/ WalkEnd
  \/ \E t \in Tracks : UnlockNow(t) \/ UnlockDeferred(t) \/ UnlockTimer(t)
                       \/ GetLocked(t) \/ CancelLoad(t)
  \/ \E t \in Tracks : Load(t) /\ ~(Present(t) /\ Retried(index[t]))

SameBuffer(c) == /\ buf'[c].mem = buf[c].mem /\ buf'[c].track = buf[c].track
                 /\ buf'[c].complete = buf[c].complete /\ buf'[c].failed = buf[c].failed

LEMMA UpdateSame ==
  ASSUME TypeOK, NEW b \in Buffers, NEW n,
         \/ buf' = [buf EXCEPT ![b].locks = n]
         \/ buf' = [buf EXCEPT ![b].fresh = TRUE]
         \/ buf' = [buf EXCEPT ![b].cancelled = TRUE]
  PROVE  \A c \in Buffers : SameBuffer(c)
<1> SUFFICES ASSUME NEW c \in Buffers PROVE SameBuffer(c)
  OBVIOUS
<1>1. buf[b] \in Flags /\ buf[c] \in Flags /\ buf \in [Buffers -> Flags]
  BY DEF TypeOK
<1>2. \/ buf'[c] = buf[c]
      \/ buf'[c] = [buf[c] EXCEPT !.locks = n]
      \/ buf'[c] = [buf[c] EXCEPT !.fresh = TRUE]
      \/ buf'[c] = [buf[c] EXCEPT !.cancelled = TRUE]
  BY <1>1
<1>. QED BY <1>1, <1>2 DEF SameBuffer, Flags

LEMMA LightEffect ==
  ASSUME IInv, LightStep
  PROVE  UNCHANGED <<index, phase, used>> /\ \A c \in Buffers : SameBuffer(c)
<1> USE DEF IInv
<1>1. UNCHANGED <<index, phase, used>>
  BY DEF LightStep, LoadFails, LoadOnly, Lock, TimePasses, SweepBegin, WalkSkip, WalkEnd,
         UnlockNow, UnlockDeferred, UnlockTimer, GetLocked, CancelLoad, Load, Present, TypeOK
<1>2. ASSUME buf' = buf PROVE \A c \in Buffers : SameBuffer(c)
  BY <1>2 DEF SameBuffer
<1>3. CASE TimePasses
  <2>1. buf' = [b \in Buffers |-> [buf[b] EXCEPT !.fresh = FALSE]]
    BY <1>3 DEF TimePasses
  <2>2. ASSUME NEW c \in Buffers PROVE SameBuffer(c)
    <3>1. buf[c] \in Flags /\ buf'[c] = [buf[c] EXCEPT !.fresh = FALSE]
      BY <2>1 DEF TypeOK
    <3>. QED BY <3>1 DEF SameBuffer, Flags
  <2>. QED BY <1>1, <2>2
<1>4. CASE LoadFails \/ LoadOnly \/ SweepBegin \/ WalkSkip \/ WalkEnd
           \/ \E t \in Tracks : UnlockDeferred(t)
  BY <1>2, <1>4 DEF LoadFails, LoadOnly, SweepBegin, WalkSkip, WalkEnd, UnlockDeferred
<1>5. ASSUME NEW t \in Tracks,
             UnlockNow(t) \/ UnlockTimer(t) \/ GetLocked(t) \/ CancelLoad(t)
             \/ (Load(t) /\ ~(Present(t) /\ Retried(index[t])))
             \/ (Lock /\ t = main.track)
      PROVE  \A c \in Buffers : SameBuffer(c)
  <2>1. \/ buf' = buf
        \/ /\ Present(t)
           /\ \/ buf' = [buf EXCEPT ![index[t]].locks = buf[index[t]].locks - 1]
              \/ buf' = [buf EXCEPT ![index[t]].locks = buf[index[t]].locks + 1]
              \/ buf' = [buf EXCEPT ![index[t]].fresh = TRUE]
              \/ buf' = [buf EXCEPT ![index[t]].cancelled = TRUE]
    BY <1>5 DEF UnlockNow, UnlockTimer, Release, GetLocked, CancelLoad, Load, Lock
  <2>2. Present(t) => index[t] \in Buffers
    BY DEF Present, TypeOK
  <2>. QED BY <1>2, <2>1, <2>2, UpdateSame
<1>6. Lock => main.track \in Tracks
  BY DEF Lock, CallOrder
<1>. QED BY <1>1, <1>3, <1>4, <1>5, <1>6 DEF LightStep

(* What the memory of a buffer is at each stage of its decode.             *)
MemoryKnown ==
  ~Preemptible /\ Alive =>
    \A b \in Buffers :
      /\ phase[b] = "queued" => buf[b].mem = 0
      /\ phase[b] = "publishing" => buf[b].mem = Size[buf[b].track]
      /\ phase[b] = "idle" /\ Cached(b) => buf[b].mem \in {0, Size[buf[b].track]}
      /\ phase[b] = "idle" /\ Cached(b) /\ buf[b].failed => buf[b].mem = 0

LEMMA KnownKept ==
  ASSUME MemoryKnown, ~Preemptible, Alive, phase' = phase,
         \A c \in Buffers : Cached(c)' => Cached(c),
         \A c \in Buffers : phase[c] # "idle" \/ Cached(c)' => SameBuffer(c)
  PROVE  MemoryKnown'
BY DEF MemoryKnown, SameBuffer

LEMMA KnownOne ==
  ASSUME TypeOK, MemoryKnown, ~Preemptible, Alive, NEW b \in Buffers,
         NEW p \in Phases, phase' = [phase EXCEPT ![b] = p],
         \A c \in Buffers : c # b => buf'[c] = buf[c] /\ (Cached(c)' <=> Cached(c)),
         p = "queued" => buf'[b].mem = 0,
         p = "publishing" => buf'[b].mem = Size[buf'[b].track],
         p = "idle" => buf'[b].mem \in {0, Size[buf'[b].track]},
         p = "idle" /\ buf'[b].failed => buf'[b].mem = 0
  PROVE  MemoryKnown'
<1>1. \A c \in Buffers : phase'[c] = IF c = b THEN p ELSE phase[c]
  BY DEF TypeOK
<1>2. ASSUME NEW c \in Buffers
      PROVE  /\ phase'[c] = "queued" => buf'[c].mem = 0
             /\ phase'[c] = "publishing" => buf'[c].mem = Size[buf'[c].track]
             /\ phase'[c] = "idle" /\ Cached(c)' => buf'[c].mem \in {0, Size[buf'[c].track]}
             /\ phase'[c] = "idle" /\ Cached(c)' /\ buf'[c].failed => buf'[c].mem = 0
  <2>1. CASE c = b
    BY <1>1, <2>1
  <2>2. CASE c # b
    BY <1>1, <2>2 DEF MemoryKnown
  <2>. QED BY <2>1, <2>2
<1>. QED BY <1>2 DEF MemoryKnown

LEMMA KnownStep ==
  ASSUME IInv, WorkersInside, MemoryKnown, ~Preemptible, Next
  PROVE  MemoryKnown'
<1> USE DEF IInv
<1>0. Alive
  BY OnlyAlive
<1> SUFFICES ASSUME Alive' PROVE MemoryKnown'
  BY DEF MemoryKnown
<1>1. CASE LightStep
  <2>1. UNCHANGED <<index, phase, used>> /\ \A c \in Buffers : SameBuffer(c)
    BY <1>1, LightEffect
  <2>2. \A c \in Buffers : Cached(c)' <=> Cached(c)
    BY <2>1 DEF Cached
  <2>. QED BY <1>0, <2>1, <2>2, KnownKept
<1>2. ASSUME NEW t \in Tracks, Present(t), index' = [index EXCEPT ![t] = NoBuffer],
             phase' = phase, buf' = Freed(index[t]), phase[index[t]] = "idle"
      PROVE  MemoryKnown'
  <2>1. index[t] \in Buffers
    BY <1>2 DEF Present, TypeOK
  <2>2. \A c \in Buffers : Cached(c)' <=> Cached(c) /\ c # index[t]
    BY <1>2, OthersCached
  <2>3. \A c \in Buffers : c # index[t] => buf'[c] = buf[c]
    BY <1>2, <2>1 DEF Freed, TypeOK
  <2>4. \A c \in Buffers : c # index[t] => SameBuffer(c)
    BY <2>3 DEF SameBuffer
  <2>. QED BY <1>0, <1>2, <2>2, <2>4, KnownKept
<1>3. ASSUME NEW t \in Tracks, Load(t), Present(t), Retried(index[t]) PROVE MemoryKnown'
  BY <1>2, <1>3, RetryEffect
<1>4. CASE WalkReclaim
  BY <1>2, <1>4, ReclaimEffect
<1>5. ASSUME NEW b \in Buffers, LoadInsert(b) PROVE MemoryKnown'
  <2>1. /\ main.track \in Tracks /\ ~Present(main.track)
        /\ index' = [index EXCEPT ![main.track] = b]
        /\ phase' = [phase EXCEPT ![b] = "queued"]
        /\ buf' = [buf EXCEPT ![b] = NewBuffer(main.track)]
    BY <1>5 DEF LoadInsert, CallOrder
  <2>2. \A c \in Buffers : c # b => buf'[c] = buf[c] /\ (Cached(c)' <=> Cached(c))
    BY <2>1, CacheAssumption DEF Cached, Present, TypeOK
  <2>3. buf'[b].mem = 0
    BY <2>1 DEF NewBuffer, TypeOK
  <2>. QED BY <1>0, <2>1, <2>2, <2>3, KnownOne DEF Phases
<1>6. ASSUME NEW b \in Buffers, NEW p \in Phases, index' = index,
             phase' = [phase EXCEPT ![b] = p], p \notin {"queued", "publishing", "idle"},
             \A c \in Buffers : c # b => buf'[c] = buf[c]
      PROVE  MemoryKnown'
  <2>1. \A c \in Buffers : Cached(c)' <=> Cached(c)
    BY <1>6 DEF Cached
  <2>. QED BY <1>0, <1>6, <2>1, KnownOne
<1>7. CASE Start
  <2>1. Head(tasks) \in Buffers
    BY <1>7, TailQueue DEF Start, OneWorker, TypeOK
  <2>. QED BY <1>6, <1>7, <2>1 DEF Start, Phases
<1>8. ASSUME NEW b \in Buffers, Allocate(b) \/ DecodeError(b) \/ DecodeStop(b)
      PROVE  MemoryKnown'
  <2>1. \A c \in Buffers : c # b => buf'[c] = buf[c]
    BY <1>8 DEF Allocate, DecodeError, DecodeStop, TypeOK
  <2>2. index' = index
    BY <1>8 DEF Allocate, DecodeError, DecodeStop
  <2>3. phase' = [phase EXCEPT ![b] = "decoding"] \/ phase' = [phase EXCEPT ![b] = "failing"]
        \/ phase' = [phase EXCEPT ![b] = "decoded"]
    BY <1>8 DEF Allocate, DecodeError, DecodeStop, TypeOK
  <2>. QED BY <1>6, <2>1, <2>2, <2>3 DEF Phases
<1>9. ASSUME NEW b \in Buffers, Publish(b) PROVE MemoryKnown'
  <2>1. /\ index' = index /\ phase' = [phase EXCEPT ![b] = "publishing"]
        /\ buf' = [buf EXCEPT ![b].mem = Size[buf[b].track], ![b].fresh = TRUE,
                              ![b].complete = TRUE]
    BY <1>9 DEF Publish
  <2>2. buf[b] \in Flags /\ buf \in [Buffers -> Flags]
    BY DEF TypeOK
  <2>3. buf'[b].mem = Size[buf'[b].track] /\ \A c \in Buffers : c # b => buf'[c] = buf[c]
    BY <2>1, <2>2 DEF Flags
  <2>4. \A c \in Buffers : Cached(c)' <=> Cached(c)
    BY <2>1 DEF Cached
  <2>. QED BY <1>0, <2>1, <2>3, <2>4, KnownOne DEF Phases
<1>10. ASSUME NEW b \in Buffers, Cleanup(b) PROVE MemoryKnown'
  <2>1. Cached(b) /\ ~CleanupFreed(b)
    BY <1>0, <1>10 DEF Cleanup, InWindow, WorkersInside, CleanupFreed
  <2>2. index' = index /\ phase' = [phase EXCEPT ![b] = "idle"]
    BY <1>10, <2>1 DEF Cleanup, CleanupDone, CleanupFailed
  <2>3. \A c \in Buffers : Cached(c)' <=> Cached(c)
    BY <2>2 DEF Cached
  <2>4. CASE CleanupDone(b)
    <3>1. buf' = buf /\ buf[b].mem = Size[buf[b].track] /\ ~buf[b].failed
      BY <1>0, <2>4 DEF CleanupDone, MemoryKnown, OneWorker
    <3>. QED BY <1>0, <2>2, <2>3, <3>1, KnownOne DEF Phases
  <2>5. CASE CleanupFailed(b)
    <3>1. buf' = [buf EXCEPT ![b].mem = 0, ![b].fresh = TRUE, ![b].failed = TRUE]
      BY <2>5 DEF CleanupFailed
    <3>2. buf[b] \in Flags /\ buf \in [Buffers -> Flags]
      BY DEF TypeOK
    <3>3. buf'[b].mem = 0 /\ \A c \in Buffers : c # b => buf'[c] = buf[c]
      BY <3>1, <3>2 DEF Flags
    <3>. QED BY <1>0, <2>2, <2>3, <3>3, KnownOne DEF Phases
  <2>. QED BY <1>10, <2>1, <2>4, <2>5 DEF Cleanup
<1>11. CASE DestroyBegin
  <2>1. /\ index' = index
        /\ phase' = [b \in Buffers |-> IF phase[b] = "queued" THEN "idle" ELSE phase[b]]
        /\ buf' = [b \in Buffers |->
                     IF Cached(b) /\ ~buf[b].complete
                     THEN [buf[b] EXCEPT !.cancelled = TRUE] ELSE buf[b]]
    BY <1>11 DEF DestroyBegin
  <2>2. ASSUME NEW c \in Buffers PROVE SameBuffer(c)
    <3>1. buf[c] \in Flags /\ (buf'[c] = buf[c] \/ buf'[c] = [buf[c] EXCEPT !.cancelled = TRUE])
      BY <2>1 DEF TypeOK
    <3>. QED BY <3>1 DEF SameBuffer, Flags
  <2>3. \A c \in Buffers : Cached(c)' <=> Cached(c)
    BY <2>1 DEF Cached
  <2>. QED BY <1>0, <2>1, <2>2, <2>3 DEF MemoryKnown, SameBuffer
<1>12. ~DestroyEnd
  BY DEF DestroyEnd, Alive
<1>. QED
  BY <1>1, <1>3, <1>4, <1>5, <1>7, <1>8, <1>9, <1>10, <1>11, <1>12
  DEF Next, Client, Walk, Decode, LightStep

(* The memory of the buffers that count, and the assumption that a size_t  *)
(* can hold the decoded memory of all tracks there are.                    *)
Memory == [b \in Buffers |-> buf[b].mem]
Counted == {b \in Buffers : Cached(b) /\ phase[b] = "idle"}
TracksFit == IsFiniteSet(Tracks) /\ SumFunctionOnSet(Size, Tracks) < Modulus

Accounted == ~Preemptible /\ Alive => used = SumFunctionOnSet(Memory, Counted)

LEMMA CountedFinite == TypeOK => /\ Counted \in SUBSET Buffers /\ IsFiniteSet(Counted)
                                 /\ \A b \in Buffers : Memory[b] \in Nat
BY CacheAssumption, FS_Subset DEF Counted, TypeOK, Memory, Flags

(* Every track counts once at most: the sum stays below the modulus.       *)
MemoryFits ==
  ~Preemptible /\ TracksFit /\ Alive => SumFunctionOnSet(Memory, Counted) < Modulus

LEMMA CountedFits ==
  ASSUME TypeOK, ListMatchesTable, MemoryKnown
  PROVE  MemoryFits
<1> SUFFICES ASSUME ~Preemptible, TracksFit, Alive
             PROVE  SumFunctionOnSet(Memory, Counted) < Modulus
  BY DEF MemoryFits
<1> DEFINE to == [b \in Counted |-> buf[b].track]
<1>1. to \in [Counted -> Tracks]
  BY DEF Counted, TypeOK, Flags
<1>2. \A b \in Counted : Size[to[b]] \in Nat /\ Memory[b] <= Size[to[b]]
  <2> SUFFICES ASSUME NEW b \in Counted PROVE Size[to[b]] \in Nat /\ Memory[b] <= Size[to[b]]
    OBVIOUS
  <2>1. Memory[b] \in {0, Size[to[b]]}
    BY DEF Counted, MemoryKnown, Memory
  <2>2. Size[to[b]] \in Nat
    BY <1>1, CacheAssumption
  <2>. QED BY <2>1, <2>2
<1>3. \A b, c \in Counted : to[b] = to[c] => b = c
  <2> SUFFICES ASSUME NEW b \in Counted, NEW c \in Counted, buf[b].track = buf[c].track
               PROVE  b = c
    OBVIOUS
  <2>1. PICK t \in Tracks, u \in Tracks : index[t] = b /\ index[u] = c
    BY DEF Counted, Cached
  <2>2. b # NoBuffer /\ c # NoBuffer
    BY CacheAssumption DEF Counted
  <2>3. buf[b].track = t /\ buf[c].track = u
    BY <2>1, <2>2 DEF ListMatchesTable, Present
  <2>. QED BY <2>1, <2>3
<1>4. \A t \in Tracks : Size[t] \in Nat
  BY CacheAssumption
<1>5. \A b \in Counted : Memory[b] \in Nat
  BY CountedFinite
<1> HIDE DEF to
<1>6. SumFunctionOnSet(Memory, Counted) <= SumFunctionOnSet(Size, Tracks)
  BY <1>1, <1>2, <1>3, <1>4, <1>5, CountedFinite, SumBound DEF TracksFit
<1>7. /\ SumFunctionOnSet(Memory, Counted) \in Nat
      /\ SumFunctionOnSet(Size, Tracks) \in Nat
  BY <1>4, <1>5, CountedFinite, SumType DEF TracksFit
<1>. QED BY <1>6, <1>7, CacheAssumption DEF TracksFit

(* What counts grows or shrinks by buffers without memory.                 *)
LEMMA AccountKept ==
  ASSUME TypeOK, TypeOK', Accounted, Alive, used' = used, ~Preemptible,
         \A c \in Counted : c \in Counted' => buf'[c].mem = buf[c].mem,
         \A c \in Counted \ Counted' : buf[c].mem = 0,
         \A c \in Counted' \ Counted : buf'[c].mem = 0
  PROVE  Accounted'
<1> DEFINE Both == Counted \cap Counted'
<1>1. /\ Counted \in SUBSET Buffers /\ Counted' \in SUBSET Buffers
      /\ IsFiniteSet(Counted) /\ IsFiniteSet(Counted')
      /\ \A b \in Buffers : Memory[b] \in Nat /\ Memory'[b] \in Nat
  <2>1. /\ Counted' \in SUBSET Buffers /\ IsFiniteSet(Counted')
        /\ \A b \in Buffers : Memory'[b] \in Nat
    BY CacheAssumption, FS_Subset DEF Counted, TypeOK, Memory, Flags
  <2>. QED BY <2>1, CountedFinite
<1>2. /\ \A c \in Both : Memory'[c] = Memory[c]
      /\ \A c \in Counted \ Both : Memory[c] = 0
      /\ \A c \in Counted' \ Both : Memory'[c] = 0
  BY <1>1 DEF Memory
<1>3. Both \in SUBSET Counted /\ Both \in SUBSET Counted'
  OBVIOUS
<1>4. SumFunctionOnSet(Memory, Counted) = SumFunctionOnSet(Memory, Both)
  BY <1>1, <1>2, <1>3, SumSame
<1>5. SumFunctionOnSet(Memory', Counted') = SumFunctionOnSet(Memory, Both)
  BY <1>1, <1>2, <1>3, SumSame
<1>. QED BY <1>4, <1>5 DEF Accounted

(* One buffer of the cache comes to count, or ceases to.                   *)
LEMMA AccountOne ==
  ASSUME TypeOK, NEW S, S \in SUBSET Counted, NEW b \in Counted \ S, Counted \ {b} = S
  PROVE  SumFunctionOnSet(Memory, Counted) = buf[b].mem + SumFunctionOnSet(Memory, S)
<1>1. \A c \in Counted : Memory[c] \in Nat
  BY CountedFinite
<1>2. SumFunctionOnSet(Memory, Counted) = Memory[b] + SumFunctionOnSet(Memory, Counted \ {b})
  BY <1>1, CountedFinite, SumRemove
<1>. QED BY <1>2 DEF Memory, Counted

LEMMA AccountStep ==
  ASSUME IInv, IInv', WorkersInside, MemoryKnown, MemoryFits, MemoryFits', Accounted,
         TracksFit, ~Preemptible, Next
  PROVE  Accounted'
<1> USE DEF IInv
<1>0. Alive
  BY OnlyAlive
<1> SUFFICES ASSUME Alive' PROVE Accounted'
  BY DEF Accounted
<1>1. CASE LightStep
  <2>1. UNCHANGED <<index, phase, used>> /\ \A c \in Buffers : SameBuffer(c)
    BY <1>1, LightEffect
  <2>2. Counted' = Counted
    BY <2>1 DEF Counted, Cached
  <2>3. \A c \in Counted : buf'[c].mem = buf[c].mem
    BY <2>1 DEF SameBuffer, Counted
  <2>. QED BY <1>0, <2>1, <2>2, <2>3, AccountKept
<1>2. ASSUME NEW t \in Tracks, Load(t), Present(t), Retried(index[t]) PROVE Accounted'
  <2> DEFINE b == index[t]
  <2>1. /\ b \in Buffers /\ buf[b].failed /\ phase[b] = "idle"
        /\ index' = [index EXCEPT ![t] = NoBuffer] /\ buf' = Freed(b)
        /\ used' = used /\ phase' = phase
    BY <1>2, RetryEffect
  <2>2. \A c \in Buffers : Cached(c)' <=> Cached(c) /\ c # b
    BY <1>2, <2>1, OthersCached
  <2>3. Counted' = Counted \ {b}
    BY <2>1, <2>2 DEF Counted
  <2>4. Cached(b)
    BY DEF Cached
  <2>5. buf[b].mem = 0
    BY <1>0, <2>1, <2>4 DEF MemoryKnown
  <2> HIDE DEF b
  <2>6. \A c \in Buffers : c # b => buf'[c] = buf[c]
    BY <2>1 DEF Freed, TypeOK
  <2>. QED BY <1>0, <2>1, <2>3, <2>5, <2>6, AccountKept DEF Counted
<1>3. CASE WalkReclaim
  <2> DEFINE b == lru[walk.pos]
             t == buf[b].track
  <2>1. /\ b \in Buffers /\ t \in Tracks /\ Present(t) /\ index[t] = b /\ phase[b] = "idle"
        /\ index' = [index EXCEPT ![t] = NoBuffer] /\ phase' = phase
        /\ buf' = Freed(b) /\ used' = (used - buf[b].mem) % Modulus
    BY <1>3, ReclaimEffect
  <2> HIDE DEF b, t
  <2>2. \A c \in Buffers : Cached(c)' <=> Cached(c) /\ c # b
    BY <2>1, OthersCached
  <2>3. Counted' = Counted \ {b} /\ b \in Counted
    BY <2>1, <2>2 DEF Counted, Cached
  <2>4. SumFunctionOnSet(Memory, Counted) = buf[b].mem + SumFunctionOnSet(Memory, Counted')
    BY <2>3, AccountOne
  <2>5. /\ Counted' \in SUBSET Buffers /\ IsFiniteSet(Counted') /\ IsFiniteSet(Counted)
        /\ \A c \in Buffers : Memory[c] \in Nat /\ Memory'[c] \in Nat
    BY <2>3, CountedFinite, FS_Subset, CacheAssumption DEF Memory, TypeOK, Flags
  <2>6. \A c \in Counted' : Memory'[c] = Memory[c]
    BY <2>1, <2>3 DEF Memory, Freed, TypeOK, Counted
  <2>7. SumFunctionOnSet(Memory, Counted') = SumFunctionOnSet(Memory', Counted')
    BY <2>5, <2>6, SumSame
  <2>8. /\ SumFunctionOnSet(Memory, Counted') \in Nat /\ buf[b].mem \in Nat
        /\ SumFunctionOnSet(Memory, Counted) < Modulus
    BY <1>0, <2>1, <2>5, SumType DEF MemoryFits, TypeOK, Flags
  <2>9. used = buf[b].mem + SumFunctionOnSet(Memory, Counted')
    BY <1>0, <2>4 DEF Accounted
  <2> DEFINE rest == SumFunctionOnSet(Memory, Counted')
  <2> HIDE DEF rest
  <2>10. used - buf[b].mem = rest /\ rest \in 0..(Modulus - 1)
    BY <2>4, <2>8, <2>9, CacheAssumption DEF rest
  <2>11. rest % Modulus = rest
    BY <2>10, CacheAssumption
  <2>. QED BY <2>1, <2>7, <2>10, <2>11 DEF Accounted, rest
<1>4. ASSUME UNCHANGED <<used, index>>, NEW b \in Buffers, NEW p \in Phases \ {"idle"},
             phase' = [phase EXCEPT ![b] = p], phase[b] # "idle",
             \A c \in Buffers : c # b => buf'[c] = buf[c]
      PROVE  Accounted'
  <2>1. Counted' = Counted /\ b \notin Counted
    BY <1>4 DEF Counted, Cached, TypeOK
  <2>. QED BY <1>0, <1>4, <2>1, AccountKept DEF Counted
<1>5. ASSUME NEW b \in Buffers, LoadInsert(b) PROVE Accounted'
  <2>1. /\ main.track \in Tracks /\ ~Present(main.track) /\ ~Cached(b)
        /\ index' = [index EXCEPT ![main.track] = b] /\ used' = used
        /\ phase' = [phase EXCEPT ![b] = "queued"]
        /\ buf' = [buf EXCEPT ![b] = NewBuffer(main.track)]
    BY <1>5 DEF LoadInsert, CallOrder
  <2>2. \A c \in Buffers : c # b => buf'[c] = buf[c] /\ (Cached(c)' <=> Cached(c))
    BY <2>1, CacheAssumption DEF Cached, Present, TypeOK
  <2>3. Counted' = Counted /\ b \notin Counted
    BY <2>1, <2>2 DEF Counted, TypeOK
  <2>. QED BY <1>0, <2>1, <2>2, <2>3, AccountKept DEF Counted
<1>6. CASE Start
  <2>1. Head(tasks) \in Buffers /\ phase[Head(tasks)] = "queued"
    <3>1. 1 \in DOMAIN tasks /\ tasks[1] = Head(tasks) /\ Head(tasks) \in Buffers
      BY <1>6, TailQueue DEF Start, OneWorker, TypeOK
    <3>. QED BY <3>1 DEF OneWorker
  <2>. QED BY <1>4, <1>6, <2>1 DEF Start, Phases
<1>7. ASSUME NEW b \in Buffers, Decode(b) PROVE Accounted'
  <2>1. /\ UNCHANGED <<index, used>> /\ phase[b] # "idle"
        /\ \A c \in Buffers : c # b => buf'[c] = buf[c]
    BY <1>7 DEF Decode, Allocate, DecodeError, DecodeStop, Publish, TypeOK
  <2>2. \E p \in Phases \ {"idle"} : phase' = [phase EXCEPT ![b] = p]
    <3>1. CASE Allocate(b)
      BY <3>1 DEF Allocate, Phases, TypeOK
    <3>2. CASE ~Allocate(b)
      BY <1>7, <3>2 DEF Decode, DecodeError, DecodeStop, Publish, Phases
    <3>. QED BY <3>1, <3>2
  <2>. QED BY <1>4, <2>1, <2>2
<1>8. ASSUME NEW b \in Buffers, Cleanup(b) PROVE Accounted'
  <2>1. Cached(b) /\ ~CleanupFreed(b) /\ InWindow(b)
    BY <1>0, <1>8 DEF Cleanup, InWindow, WorkersInside, CleanupFreed
  <2>2. index' = index /\ phase' = [phase EXCEPT ![b] = "idle"]
    BY <1>8, <2>1 DEF Cleanup, CleanupDone, CleanupFailed
  <2>3. Counted' = Counted \cup {b} /\ b \notin Counted
    BY SMTT(30), <2>1, <2>2 DEF Counted, Cached, InWindow, TypeOK
  <2>4. CASE CleanupFailed(b)
    <3>1. /\ buf' = [buf EXCEPT ![b].mem = 0, ![b].fresh = TRUE, ![b].failed = TRUE]
          /\ used' = used
      BY <2>4 DEF CleanupFailed
    <3>2. buf[b] \in Flags /\ buf \in [Buffers -> Flags]
      BY DEF TypeOK
    <3>3. buf'[b].mem = 0 /\ \A c \in Buffers : c # b => buf'[c] = buf[c]
      BY <3>1, <3>2 DEF Flags
    <3>. QED BY <1>0, <2>3, <3>1, <3>3, AccountKept DEF Counted
  <2>5. CASE CleanupDone(b)
    <3>1. buf' = buf /\ used' = (used + buf[b].mem) % Modulus
      BY <2>5 DEF CleanupDone
    <3>2. /\ IsFiniteSet(Counted') /\ \A c \in Buffers : Memory[c] \in Nat
      BY <2>3, CountedFinite, FS_AddElement
    <3>3. SumFunctionOnSet(Memory, Counted')
            = Memory[b] + SumFunctionOnSet(Memory, Counted' \ {b})
      BY <2>3, <3>2, SumRemove DEF Counted
    <3>4. Counted' \ {b} = Counted /\ Memory' = Memory /\ Memory[b] = buf[b].mem
      BY <2>3, <3>1 DEF Memory
    <3>5. SumFunctionOnSet(Memory', Counted') < Modulus
      BY DEF MemoryFits
    <3>6. used = SumFunctionOnSet(Memory, Counted)
      BY <1>0 DEF Accounted
    <3> DEFINE total == SumFunctionOnSet(Memory', Counted')
    <3>7. used + buf[b].mem = total /\ total \in 0..(Modulus - 1)
      <4>1. total = buf[b].mem + used
        BY <3>3, <3>4, <3>6
      <4>2. buf[b].mem \in Nat /\ used \in Nat
        BY <3>2, <3>4, CacheAssumption DEF TypeOK
      <4> HIDE DEF total
      <4>3. total \in Nat /\ used + buf[b].mem = total
        BY <4>1, <4>2
      <4>4. total < Modulus
        BY <3>5 DEF total
      <4>. QED BY <4>3, <4>4, CacheAssumption
    <3> HIDE DEF total
    <3>8. total % Modulus = total
      BY <3>7, CacheAssumption
    <3>. QED BY <3>1, <3>7, <3>8 DEF Accounted, total
  <2>. QED BY <1>8, <2>1, <2>4, <2>5 DEF Cleanup
<1>9. CASE DestroyBegin
  <2>1. /\ UNCHANGED <<index, used>>
        /\ phase' = [b \in Buffers |-> IF phase[b] = "queued" THEN "idle" ELSE phase[b]]
        /\ buf' = [b \in Buffers |->
                     IF Cached(b) /\ ~buf[b].complete
                     THEN [buf[b] EXCEPT !.cancelled = TRUE] ELSE buf[b]]
    BY <1>9 DEF DestroyBegin
  <2>2. ASSUME NEW c \in Buffers PROVE buf'[c].mem = buf[c].mem
    <3>1. buf[c] \in Flags /\ (buf'[c] = buf[c] \/ buf'[c] = [buf[c] EXCEPT !.cancelled = TRUE])
      BY <2>1 DEF TypeOK
    <3>. QED BY <3>1 DEF Flags
  <2>3. /\ Counted \in SUBSET Counted' /\ Counted' \in SUBSET Buffers
        /\ \A c \in Counted' \ Counted : phase[c] = "queued"
    BY <2>1 DEF Counted, Cached
  <2>4. \A c \in Counted' \ Counted : buf'[c].mem = 0
    BY <1>0, <2>2, <2>3 DEF MemoryKnown
  <2>. QED BY <1>0, <2>1, <2>2, <2>3, <2>4, AccountKept
<1>10. ~DestroyEnd
  BY DEF DestroyEnd, Alive
<1>. QED
  BY <1>1, <1>2, <1>3, <1>5, <1>6, <1>7, <1>8, <1>9, <1>10
  DEF Next, Client, Walk, LightStep

(* memory_used is the memory of the decoded buffers in the cache, whatever *)
(* the interleaving of decodes, evictions, sweeps and retries: what one    *)
(* worker adds exactly one reclaim takes away, and the arithmetic of       *)
(* size_t never wraps as long as all decoded tracks would fit in memory.   *)
THEOREM MemoryAlwaysAccounted ==
  ASSUME ~Preemptible, TracksFit
  PROVE  Spec => []MemoryAccounted
<1>1. Init => WorkersInside /\ MemoryKnown /\ Accounted
  <2> SUFFICES ASSUME Init PROVE WorkersInside /\ MemoryKnown /\ Accounted
    OBVIOUS
  <2>1. \A b \in Buffers : ~Cached(b) /\ phase[b] = "idle"
    BY CacheAssumption DEF Init, Cached
  <2>2. Counted = {}
    BY <2>1 DEF Counted
  <2>3. SumFunctionOnSet(Memory, {}) = 0
    BY FS_EmptySet, SumStep
  <2>. QED BY <2>1, <2>2, <2>3 DEF Init, WorkersInside, MemoryKnown, Accounted, InWindow
<1>2. IInv /\ WorkersInside /\ [Next]_vars => WorkersInside'
  <2>1. ASSUME UNCHANGED vars, WorkersInside PROVE WorkersInside'
    BY <2>1 DEF vars, WorkersInside, Alive, Cached, InWindow, MutexFree
  <2>. QED BY <2>1, InsideStep
<1>3. IInv /\ WorkersInside /\ MemoryKnown /\ [Next]_vars => MemoryKnown'
  <2>1. ASSUME UNCHANGED vars, MemoryKnown PROVE MemoryKnown'
    BY <2>1 DEF vars, MemoryKnown, Alive, Cached
  <2>. QED BY <2>1, KnownStep
<1>4. IInv /\ MemoryKnown => MemoryFits
  BY CountedFits DEF IInv
<1>5. IInv /\ IInv' /\ WorkersInside /\ MemoryKnown /\ MemoryFits /\ MemoryFits' /\ Accounted
        /\ [Next]_vars => Accounted'
  <2>1. ASSUME UNCHANGED vars, Accounted PROVE Accounted'
    <3>1. Memory' = Memory /\ Counted' = Counted
      BY <2>1 DEF vars, Memory, Counted, Cached
    <3>. QED BY <2>1, <3>1 DEF vars, Accounted, Alive
  <2>. QED BY <2>1, AccountStep
<1>6. Accounted => MemoryAccounted
  BY DEF Accounted, MemoryAccounted, Alive, Memory, Counted
<1>. QED BY <1>1, <1>2, <1>3, <1>4, <1>5, <1>6, Invariance, PTL DEF Spec
-----------------------------------------------------------------------------
(* What TrackCache sees of a track, and how one step changes it.            *)
LockCount(t) == IF Present(t) THEN buf[index[t]].locks ELSE 0
SeenSame(t) == Status(t)' = Status(t) /\ LockCount(t)' = LockCount(t)

LEMMA SeenFields ==
  ASSUME NEW t, index'[t] = index[t],
         Present(t) => /\ buf'[index[t]].locks = buf[index[t]].locks
                       /\ buf'[index[t]].complete = buf[index[t]].complete
                       /\ buf'[index[t]].failed = buf[index[t]].failed
  PROVE  SeenSame(t)
BY DEF SeenSame, Status, LockCount, Present

(* What a step may do to a buffer without its track looking different.      *)
SeenFieldsSame(c) == /\ buf'[c].locks = buf[c].locks
                     /\ buf'[c].complete = buf[c].complete
                     /\ buf'[c].failed = buf[c].failed

LEMMA UnseenFields ==
  ASSUME TypeOK, NEW b \in Buffers, NEW n,
         \/ buf' = buf
         \/ buf' = [buf EXCEPT ![b].mem = n]
         \/ buf' = [buf EXCEPT ![b].fresh = TRUE]
         \/ buf' = [buf EXCEPT ![b].cancelled = TRUE]
  PROVE  \A c \in Buffers : SeenFieldsSame(c)
<1> SUFFICES ASSUME NEW c \in Buffers PROVE SeenFieldsSame(c)
  OBVIOUS
<1>1. buf[b] \in Flags /\ buf[c] \in Flags
  BY DEF TypeOK
<1>2. CASE c # b
  <2>1. buf'[c] = buf[c]
    BY <1>2 DEF TypeOK
  <2>. QED BY <2>1 DEF SeenFieldsSame
<1>3. CASE c = b
  <2>1. \/ buf'[b] = buf[b]
        \/ buf'[b] = [buf[b] EXCEPT !.mem = n]
        \/ buf'[b] = [buf[b] EXCEPT !.fresh = TRUE]
        \/ buf'[b] = [buf[b] EXCEPT !.cancelled = TRUE]
    BY DEF TypeOK
  <2>. QED BY <1>1, <1>3, <2>1 DEF SeenFieldsSame, Flags
<1>. QED BY <1>2, <1>3

LEMMA ApiStutters ==
  ASSUME \A t \in Tracks : SeenSame(t), timer' = timer, Alive' = Alive
  PROVE  UNCHANGED Api!cacheVars
<1>1. [t \in Tracks |-> Status(t)]' = [t \in Tracks |-> Status(t)]
  BY DEF SeenSame
<1>2. [t \in Tracks |-> LockCount(t)]' = [t \in Tracks |-> LockCount(t)]
  BY DEF SeenSame
<1>. QED BY <1>1, <1>2 DEF Api!cacheVars, LockCount

(* One track changes, the others look as before.                           *)
LEMMA SeenAs ==
  ASSUME NEW t \in Tracks, \A u \in Tracks : u # t => SeenSame(u)
  PROVE  /\ [u \in Tracks |-> Status(u)]'
              = [[u \in Tracks |-> Status(u)] EXCEPT ![t] = Status(t)']
         /\ [u \in Tracks |-> LockCount(u)]'
              = [[u \in Tracks |-> LockCount(u)] EXCEPT ![t] = LockCount(t)']
BY DEF SeenSame

(* A step that touches only the buffer of one track.                       *)
LEMMA OthersSeen ==
  ASSUME TypeOK, ListMatchesTable, NEW t \in Tracks,
         \A u \in Tracks : u # t => index'[u] = index[u],
         \A c \in Buffers : c # index[t] /\ Cached(c) => buf'[c] = buf[c]
  PROVE  \A u \in Tracks : u # t => SeenSame(u)
<1> SUFFICES ASSUME NEW u \in Tracks, u # t PROVE SeenSame(u)
  OBVIOUS
<1>1. Present(u) => index[u] \in Buffers /\ Cached(index[u]) /\ index[u] # index[t]
  BY OneTrackPerBuffer DEF Present, TypeOK, Cached
<1>. QED BY <1>1, SeenFields

LEMMA ApiReclaims ==
  ASSUME TypeOK, ListMatchesTable, NEW t \in Tracks, Present(t), Alive,
         buf[index[t]].locks = 0, buf[index[t]].complete \/ buf[index[t]].failed,
         index' = [index EXCEPT ![t] = NoBuffer], buf' = Freed(index[t]),
         UNCHANGED <<timer, life>>
  PROVE  Api!Reclaim(t)
<1>1. index[t] \in Buffers
  BY DEF Present, TypeOK
<1>2. /\ \A c \in Buffers : c # index[t] => buf'[c] = buf[c]
      /\ index'[t] = NoBuffer /\ \A u \in Tracks : u # t => index'[u] = index[u]
  BY <1>1 DEF Freed, TypeOK
<1>3. \A u \in Tracks : u # t => SeenSame(u)
  BY <1>2, OthersSeen
<1>4. Status(t)' = "absent" /\ LockCount(t)' = 0
  BY <1>2 DEF Status, LockCount, Present
<1>5. Status(t) \in {"ready", "failed"} /\ LockCount(t) = 0
  BY <1>1 DEF Status, LockCount
<1>6. [u \in Tracks |-> LockCount(u)]' = [u \in Tracks |-> LockCount(u)]
  BY <1>3, <1>4, <1>5 DEF SeenSame
<1>7. [u \in Tracks |-> Status(u)]'
        = [[u \in Tracks |-> Status(u)] EXCEPT ![t] = "absent"]
  BY <1>3, <1>4, SeenAs
<1>. QED BY <1>5, <1>6, <1>7 DEF Api!Reclaim, LockCount, Alive

(* The final flag of a buffer in the cache: its track is resolved.         *)
LEMMA ApiResolves ==
  ASSUME TypeOK, ListMatchesTable, NEW b \in Buffers, Cached(b), Alive,
         ~buf[b].complete, ~buf[b].failed, buf'[b].complete \/ buf'[b].failed,
         buf'[b].locks = buf[b].locks, \A c \in Buffers : c # b => buf'[c] = buf[c],
         UNCHANGED <<index, timer, life>>
  PROVE  \E t \in Tracks : Api!Resolve(t)
<1>1. PICK t \in Tracks : index[t] = b
  BY DEF Cached
<1>2. Present(t)
  BY <1>1, CacheAssumption DEF Present
<1>3. \A u \in Tracks : u # t => SeenSame(u)
  BY <1>1, OthersSeen
<1>4. Status(t) = "loading" /\ Status(t)' \in {"ready", "failed"}
  BY <1>1, <1>2 DEF Status, Present
<1>5. LockCount(t)' = LockCount(t)
  BY <1>1, <1>2 DEF LockCount, Present
<1>6. [u \in Tracks |-> LockCount(u)]' = [u \in Tracks |-> LockCount(u)]
  BY <1>3, <1>5 DEF SeenSame
<1>7. [u \in Tracks |-> Status(u)]'
        = [[u \in Tracks |-> Status(u)] EXCEPT ![t] = Status(t)']
  BY <1>3, SeenAs
<1>. QED BY <1>4, <1>6, <1>7 DEF Api!Resolve, LockCount, Alive

(* A lock count changes, the status does not.                              *)
LEMMA SeenLocks ==
  ASSUME TypeOK, ListMatchesTable, NEW t \in Tracks, Present(t), NEW n,
         buf' = [buf EXCEPT ![index[t]].locks = n], index' = index
  PROVE  /\ [u \in Tracks |-> Status(u)]' = [u \in Tracks |-> Status(u)]
         /\ [u \in Tracks |-> LockCount(u)]'
              = [[u \in Tracks |-> LockCount(u)] EXCEPT ![t] = n]
<1>1. index[t] \in Buffers /\ buf[index[t]] \in Flags
  BY DEF Present, TypeOK
<1>2. /\ buf'[index[t]].locks = n
      /\ buf'[index[t]].complete = buf[index[t]].complete
      /\ buf'[index[t]].failed = buf[index[t]].failed
      /\ \A c \in Buffers : c # index[t] => buf'[c] = buf[c]
  BY <1>1 DEF TypeOK, Flags
<1>3. \A u \in Tracks : u # t => SeenSame(u)
  BY <1>2, OthersSeen
<1>4. Status(t)' = Status(t) /\ LockCount(t)' = n
  BY <1>2 DEF Status, LockCount, Present
<1>. QED BY <1>3, <1>4, SeenAs DEF SeenSame

LEMMA ApiReleases ==
  ASSUME TypeOK, ListMatchesTable, NEW t \in Tracks, Release(t), index' = index,
         life = "up"
  PROVE  Api!Drop(t) /\ [u \in Tracks |-> Status(u)]' = [u \in Tracks |-> Status(u)]
<1> DEFINE count == [u \in Tracks |-> LockCount(u)]
<1>1. CASE Present(t) /\ buf[index[t]].locks > 0
  <2>1. buf' = [buf EXCEPT ![index[t]].locks = buf[index[t]].locks - 1] /\ life' = life
    BY <1>1 DEF Release
  <2>2. /\ count' = [count EXCEPT ![t] = buf[index[t]].locks - 1]
        /\ [u \in Tracks |-> Status(u)]' = [u \in Tracks |-> Status(u)]
    BY <1>1, <2>1, SeenLocks
  <2>. QED BY <1>1, <2>1, <2>2 DEF Api!Drop, LockCount, Alive
<1>2. CASE ~(Present(t) /\ buf[index[t]].locks > 0)
  <2>1. buf' = buf /\ life' = "aborted"
    BY <1>2 DEF Release
  <2>2. \A u \in Tracks : SeenSame(u)
    BY <2>1, SeenFields
  <2>3. count' = count /\ [u \in Tracks |-> Status(u)]' = [u \in Tracks |-> Status(u)]
    BY <2>2 DEF SeenSame
  <2>4. ~(count[t] > 0)
    BY <1>2 DEF LockCount
  <2>. QED BY <2>1, <2>3, <2>4 DEF Api!Drop, LockCount, Alive
<1>. QED BY <1>1, <1>2
-----------------------------------------------------------------------------
(* Each step of the cache is a step of TrackCache, or one it does not see.  *)

LEMMA AllUnseen ==
  ASSUME TypeOK, index' = index, \A c \in Buffers : SeenFieldsSame(c),
         timer' = timer, Alive' = Alive
  PROVE  UNCHANGED Api!cacheVars
<1>1. \A t \in Tracks : Present(t) => index[t] \in Buffers
  BY DEF TypeOK, Present
<1>. QED BY <1>1, SeenFields, ApiStutters DEF SeenFieldsSame

LEMMA ApiLoad ==
  ASSUME IInv, NEW t \in Tracks, Load(t)
  PROVE  Api!Reclaim(t) \/ UNCHANGED Api!cacheVars
<1> USE DEF IInv
<1>1. Alive /\ UNCHANGED <<timer, life>>
  BY DEF Load, MainIdle, InCall, Alive
<1>2. CASE Present(t) /\ Retried(index[t])
  BY <1>1, <1>2, RetryEffect, ApiReclaims
<1>3. CASE ~(Present(t) /\ Retried(index[t]))
  <2>1. index' = index
    BY <1>3 DEF Load, TypeOK, Present
  <2>2. buf' = buf \/ (Present(t) /\ buf' = [buf EXCEPT ![index[t]].fresh = TRUE])
    BY <1>3 DEF Load
  <2>3. Present(t) => index[t] \in Buffers
    BY DEF Present, TypeOK
  <2>4. \A c \in Buffers : SeenFieldsSame(c)
    BY <2>2, <2>3, UnseenFields DEF SeenFieldsSame
  <2>. QED BY <1>1, <2>1, <2>4, AllUnseen DEF Alive
<1>. QED BY <1>2, <1>3

LEMMA ApiInsert ==
  ASSUME IInv, NEW b \in Buffers, LoadInsert(b)
  PROVE  \E t \in Tracks : Api!Insert(t)
<1> USE DEF IInv
<1>1. PICK t \in Tracks :
        /\ ~Present(t) /\ ~Cached(b) /\ Alive /\ UNCHANGED <<timer, life>>
        /\ index' = [index EXCEPT ![t] = b] /\ buf' = [buf EXCEPT ![b] = NewBuffer(t)]
  BY DEF LoadInsert, InCall, Alive, CallOrder
<1>2. /\ index'[t] = b /\ \A u \in Tracks : u # t => index'[u] = index[u]
      /\ buf'[b] = NewBuffer(t) /\ \A c \in Buffers : c # b => buf'[c] = buf[c]
  BY <1>1 DEF TypeOK
<1>3. \A u \in Tracks : u # t => SeenSame(u)
  BY <1>1, <1>2, OthersSeen
<1>4. Status(t) = "absent" /\ LockCount(t) = 0
  BY <1>1 DEF Status, LockCount
<1>5. b # NoBuffer
  BY CacheAssumption
<1>6. Status(t)' = "loading" /\ LockCount(t)' = 0
  <2>1. /\ buf'[b].locks = 0 /\ ~buf'[b].complete /\ ~buf'[b].failed
    BY <1>2 DEF NewBuffer
  <2>. QED BY <1>2, <1>5, <2>1 DEF Status, LockCount, Present
<1>7. [u \in Tracks |-> LockCount(u)]' = [u \in Tracks |-> LockCount(u)]
  <2>1. \A u \in Tracks : LockCount(u)' = LockCount(u)
    BY <1>1, <1>3, <1>4, <1>6 DEF SeenSame
  <2>. QED BY <2>1
<1>8. [u \in Tracks |-> Status(u)]'
        = [[u \in Tracks |-> Status(u)] EXCEPT ![t] = "loading"]
  BY <1>1, <1>3, <1>6, SeenAs
<1>. QED BY <1>1, <1>4, <1>7, <1>8 DEF Api!Insert, LockCount, Alive

LEMMA ApiLock ==
  ASSUME IInv, Lock
  PROVE  \E t \in Tracks : Api!TakeLock(t)
<1> USE DEF IInv
<1> DEFINE count == [u \in Tracks |-> LockCount(u)]
<1>1. PICK t \in Tracks : t = main.track /\ life = "up" /\ UNCHANGED <<index, timer>>
  BY DEF Lock, InCall, CallOrder
<1>2. CASE Present(t)
  <2>1. buf' = [buf EXCEPT ![index[t]].locks = buf[index[t]].locks + 1] /\ life' = life
    BY <1>1, <1>2 DEF Lock
  <2>2. /\ count' = [count EXCEPT ![t] = buf[index[t]].locks + 1]
        /\ [u \in Tracks |-> Status(u)]' = [u \in Tracks |-> Status(u)]
    BY <1>1, <1>2, <2>1, SeenLocks
  <2>3. Status(t) # "absent"
    BY <1>2 DEF Status
  <2>. QED BY <1>1, <1>2, <2>1, <2>2, <2>3 DEF Api!TakeLock, LockCount, Alive
<1>3. CASE ~Present(t)
  <2>1. life' = "aborted" /\ buf' = buf
    BY <1>1, <1>3 DEF Lock
  <2>2. \A u \in Tracks : SeenSame(u)
    BY <1>1, <2>1, SeenFields
  <2>3. count' = count /\ [u \in Tracks |-> Status(u)]' = [u \in Tracks |-> Status(u)]
    BY <2>2 DEF SeenSame
  <2>4. Status(t) = "absent"
    BY <1>3 DEF Status
  <2>. QED BY <1>1, <2>1, <2>3, <2>4 DEF Api!TakeLock, LockCount, Alive
<1>. QED BY <1>2, <1>3

LEMMA ApiUnlock ==
  ASSUME IInv, NEW t \in Tracks
  PROVE  /\ UnlockNow(t) => Api!DropNow(t)
         /\ UnlockDeferred(t) => Api!DropLater(t)
         /\ UnlockTimer(t) => Api!TimerFires(t)
<1> USE DEF IInv
<1>1. ASSUME UnlockNow(t) PROVE Api!DropNow(t)
  <2>1. life = "up" /\ Release(t) /\ UNCHANGED <<index, timer>>
    BY <1>1 DEF UnlockNow, MainIdle, InCall
  <2>. QED BY <2>1, ApiReleases DEF Api!DropNow, Alive
<1>2. ASSUME UnlockDeferred(t) PROVE Api!DropLater(t)
  <2>1. life = "up" /\ UNCHANGED <<index, buf, life>> /\ timer' = [timer EXCEPT ![t] = TRUE]
    BY <1>2 DEF UnlockDeferred, MainIdle, InCall
  <2>2. \A u \in Tracks : SeenSame(u)
    BY <2>1, SeenFields
  <2>3. /\ [u \in Tracks |-> LockCount(u)]' = [u \in Tracks |-> LockCount(u)]
        /\ [u \in Tracks |-> Status(u)]' = [u \in Tracks |-> Status(u)]
    BY <2>2 DEF SeenSame
  <2>. QED BY <2>1, <2>3 DEF Api!DropLater, LockCount, Alive
<1>3. ASSUME UnlockTimer(t) PROVE Api!TimerFires(t)
  <2>1. /\ life = "up" /\ Release(t) /\ UNCHANGED index
        /\ timer[t] /\ timer' = [timer EXCEPT ![t] = FALSE]
    BY <1>3 DEF UnlockTimer, MainIdle, InCall
  <2>. QED BY <2>1, ApiReleases DEF Api!TimerFires, Alive
<1>. QED BY <1>1, <1>2, <1>3

LEMMA ApiDecode ==
  ASSUME IInv, WorkersInside, ~Preemptible, NEW b \in Buffers, Decode(b) \/ Cleanup(b)
  PROVE  (\E t \in Tracks : Api!Resolve(t)) \/ UNCHANGED Api!cacheVars
<1> USE DEF IInv
<1>1. Alive /\ UNCHANGED <<index, timer>> /\ phase[b] # "idle" /\ buf[b] \in Flags
  BY DEF Decode, Cleanup, Allocate, DecodeError, DecodeStop, Publish, CleanupDone,
         CleanupFailed, CleanupFreed, InWindow, TypeOK
<1>2. Cached(b)
  BY <1>1 DEF WorkersInside
<1>4. CASE Allocate(b) \/ DecodeStop(b) \/ CleanupDone(b)
  <2>1. /\ life' = life
        /\ buf' = buf \/ buf' = [buf EXCEPT ![b].mem = Size[buf[b].track] + 1]
    BY <1>4 DEF Allocate, DecodeStop, CleanupDone
  <2>2. \A c \in Buffers : SeenFieldsSame(c)
    BY <2>1, UnseenFields
  <2>. QED BY <1>1, <2>1, <2>2, AllUnseen DEF Alive
<1>5. CASE DecodeError(b) \/ Publish(b) \/ CleanupFailed(b)
  <2>1. /\ life' = life
        /\ \/ buf' = [buf EXCEPT ![b].failed = TRUE]
           \/ buf' = [buf EXCEPT ![b].mem = Size[buf[b].track],
                                 ![b].fresh = TRUE, ![b].complete = TRUE]
           \/ buf' = [buf EXCEPT ![b].mem = 0, ![b].fresh = TRUE, ![b].failed = TRUE]
    BY <1>5 DEF DecodeError, Publish, CleanupFailed
  <2>2. /\ buf'[b].locks = buf[b].locks /\ (buf'[b].complete \/ buf'[b].failed)
        /\ \A c \in Buffers : c # b => buf'[c] = buf[c]
    BY <1>1, <2>1 DEF TypeOK, Flags
  <2>3. ~buf[b].complete
    BY <1>5 DEF DecodeError, Publish, CleanupFailed, OneWorker
  <2>4. CASE ~buf[b].failed
    BY <1>1, <1>2, <2>1, <2>2, <2>3, <2>4, ApiResolves
  <2>5. CASE buf[b].failed
    <3>1. CleanupFailed(b)
      BY <1>5, <2>5 DEF DecodeError, Publish, OneWorker
    <3>2. buf' = [buf EXCEPT ![b].mem = 0, ![b].fresh = TRUE, ![b].failed = TRUE]
      BY <3>1 DEF CleanupFailed
    <3>3. buf'[b].complete = buf[b].complete /\ buf'[b].failed = buf[b].failed
      BY <1>1, <2>5, <3>2 DEF TypeOK, Flags
    <3>4. \A c \in Buffers : SeenFieldsSame(c)
      BY <2>2, <3>3 DEF SeenFieldsSame
    <3>. QED BY <1>1, <2>1, <3>4, AllUnseen DEF Alive
  <2>. QED BY <2>4, <2>5
<1>. QED BY <1>2, <1>4, <1>5 DEF Decode, Cleanup, CleanupFreed

LEMMA ApiDestroy ==
  ASSUME IInv, DestroyEnd
  PROVE  Api!Destroy
<1>1. /\ Alive /\ ~Alive' /\ timer' = [t \in Tracks |-> FALSE]
      /\ index' = [t \in Tracks |-> NoBuffer]
  BY DEF DestroyEnd, Alive
<1>2. \A t \in Tracks : Status(t)' = "absent" /\ LockCount(t)' = 0
  BY <1>1 DEF Status, LockCount, Present
<1>. QED BY <1>1, <1>2 DEF Api!Destroy, LockCount

LEMMA ApiUnseen ==
  ASSUME IInv,
         \/ LoadFails \/ LoadOnly \/ TimePasses \/ SweepBegin \/ WalkSkip \/ WalkEnd
         \/ Start \/ DestroyBegin \/ \E t \in Tracks : GetLocked(t) \/ CancelLoad(t)
  PROVE  UNCHANGED Api!cacheVars
<1> USE DEF IInv
<1>1. index' = index /\ timer' = timer
  BY DEF LoadFails, LoadOnly, TimePasses, SweepBegin, WalkSkip, WalkEnd, Start, DestroyBegin,
         GetLocked, CancelLoad
<1>2. ASSUME NEW t \in Tracks, GetLocked(t)
      PROVE  /\ Present(t) /\ life' = life /\ buf' = [buf EXCEPT ![index[t]].fresh = TRUE]
  <2>1. life = "up" /\ Owed(t) > 0
    BY <1>2 DEF GetLocked, MainIdle, InCall, Owed, TypeOK
  <2>2. Present(t) /\ buf[index[t]].locks > 0
    BY <2>1 DEF HoldersCovered, Owed, TypeOK, Flags, Present
  <2>. QED BY <1>2, <2>2 DEF GetLocked, TypeOK, Flags, Present
<1>3. Alive' = Alive
  <2>1. CASE \E t \in Tracks : GetLocked(t) \/ CancelLoad(t)
    BY <1>2, <2>1 DEF CancelLoad, Alive
  <2>2. CASE LoadFails \/ LoadOnly \/ TimePasses \/ SweepBegin \/ WalkSkip \/ WalkEnd \/ Start
    BY <2>2 DEF LoadFails, LoadOnly, TimePasses, SweepBegin, WalkSkip, WalkEnd, Start, Alive
  <2>3. CASE DestroyBegin
    BY <2>3 DEF DestroyBegin, MainIdle, InCall, Alive
  <2>. QED BY <2>1, <2>2, <2>3
<1>4. \A c \in Buffers : SeenFieldsSame(c)
  <2>1. CASE \E t \in Tracks : GetLocked(t) \/ CancelLoad(t)
    <3>1. PICK t \in Tracks : /\ Present(t)
                              /\ \/ buf' = [buf EXCEPT ![index[t]].fresh = TRUE]
                                 \/ buf' = [buf EXCEPT ![index[t]].cancelled = TRUE]
      BY <1>2, <2>1 DEF CancelLoad
    <3>2. index[t] \in Buffers
      BY <3>1 DEF Present, TypeOK
    <3>. QED BY <3>1, <3>2, UnseenFields
  <2>2. CASE TimePasses \/ DestroyBegin
    <3> SUFFICES ASSUME NEW c \in Buffers PROVE SeenFieldsSame(c)
      OBVIOUS
    <3>1. buf[c] \in Flags
      BY DEF TypeOK
    <3>2. \/ buf'[c] = buf[c] \/ buf'[c] = [buf[c] EXCEPT !.fresh = FALSE]
          \/ buf'[c] = [buf[c] EXCEPT !.cancelled = TRUE]
      BY <2>2 DEF TimePasses, DestroyBegin
    <3>. QED BY <3>1, <3>2 DEF SeenFieldsSame, Flags
  <2>3. CASE LoadFails \/ LoadOnly \/ SweepBegin \/ WalkSkip \/ WalkEnd \/ Start
    BY <2>3 DEF SeenFieldsSame, LoadFails, LoadOnly, SweepBegin, WalkSkip, WalkEnd, Start
  <2>. QED BY <2>1, <2>2, <2>3
<1>. QED BY <1>1, <1>3, <1>4, AllUnseen

LEMMA ApiStep ==
  ASSUME IInv, WorkersInside, ~Preemptible, Next
  PROVE  Api!CacheNext \/ UNCHANGED Api!cacheVars
<1>1. ASSUME WalkReclaim PROVE \E t \in Tracks : Api!Reclaim(t)
  <2>1. Alive /\ UNCHANGED <<timer, life>>
    BY <1>1 DEF WalkReclaim, WalkOn
  <2>. QED BY <1>1, <2>1, ReclaimEffect, ApiReclaims DEF IInv
<1>2. (\E t \in Tracks : Api!Insert(t) \/ Api!Resolve(t) \/ Api!Reclaim(t) \/ Api!TakeLock(t)
                         \/ Api!DropNow(t) \/ Api!DropLater(t) \/ Api!TimerFires(t))
       \/ Api!Destroy => Api!CacheNext
  BY DEF Api!CacheNext
<1>3. ASSUME Client PROVE Api!CacheNext \/ UNCHANGED Api!cacheVars
  <2>1. CASE \E t \in Tracks : Load(t) \/ UnlockNow(t) \/ UnlockDeferred(t) \/ UnlockTimer(t)
    BY <1>2, <2>1, ApiLoad, ApiUnlock
  <2>2. CASE (\E b \in Buffers : LoadInsert(b)) \/ Lock \/ DestroyEnd
    BY <1>2, <2>2, ApiInsert, ApiLock, ApiDestroy
  <2>3. CASE \/ LoadFails \/ LoadOnly \/ TimePasses \/ SweepBegin \/ DestroyBegin
             \/ \E t \in Tracks : GetLocked(t) \/ CancelLoad(t)
    BY <2>3, ApiUnseen
  <2>. QED BY <1>3, <2>1, <2>2, <2>3 DEF Client
<1>. QED BY <1>1, <1>2, <1>3, ApiDecode, ApiUnseen DEF Next, Walk

(* The cache implements TrackCache: to its callers every load, decode,     *)
(* eviction, sweep, lock and unlock is one indivisible step on the status  *)
(* and the lock count of one track, whatever the workers interleave.       *)
THEOREM CacheImplementsApi ==
  ASSUME ~Preemptible
  PROVE  Spec => ImplementsApi
<1>1. Init => WorkersInside /\ Api!CacheInit
  <2> SUFFICES ASSUME Init PROVE WorkersInside /\ Api!CacheInit
    OBVIOUS
  <2>1. \A t \in Tracks : Status(t) = "absent" /\ LockCount(t) = 0
    BY DEF Init, Status, LockCount, Present
  <2>2. \A b \in Buffers : phase[b] = "idle"
    BY DEF Init
  <2>3. WorkersInside
    BY <2>2 DEF WorkersInside, InWindow
  <2>. QED BY <2>1, <2>3 DEF Init, Api!CacheInit, LockCount, Alive
<1>2. IInv /\ WorkersInside /\ [Next]_vars => WorkersInside'
  <2>1. ASSUME UNCHANGED vars, WorkersInside PROVE WorkersInside'
    BY <2>1 DEF vars, WorkersInside, Alive, Cached, InWindow, MutexFree
  <2>. QED BY <2>1, InsideStep
<1>3. IInv /\ WorkersInside /\ [Next]_vars => [Api!CacheNext]_Api!cacheVars
  <2>1. ASSUME UNCHANGED vars PROVE UNCHANGED Api!cacheVars
    <3>1. \A t \in Tracks : SeenSame(t)
      BY <2>1, SeenFields DEF vars
    <3>. QED BY <2>1, <3>1, ApiStutters DEF vars, Alive
  <2>. QED BY <2>1, ApiStep
<1>. QED BY <1>1, <1>2, <1>3, Invariance, PTL DEF Spec, ImplementsApi, Api!CacheSpec

-----------------------------------------------------------------------------
(* A strip and its player                                                  *)

Titles == 0 .. LastTrack
PlayStates == {"stopped", "playing", "paused"}
StripModes == {"idle", "preview", "queued", "on_air"}
StripRecords ==
    [track : Titles, device : BOOLEAN, mode : StripModes, preview : BOOLEAN, repeat : BOOLEAN,
     autoplay : BOOLEAN, next_label : Titles \cup {Strips!Repeating},
     sensitive : SUBSET {"play", "stop", "end", "seek", "queue"}, skips : SUBSET {"prev", "next"},
     seen : PlayStates, focused : BOOLEAN, refused : BOOLEAN, state : PlayStates, current : Titles,
     buffer : BOOLEAN, pending : BOOLEAN, active : BOOLEAN, end_mode : {"stop", "repeat", "autoplay"},
     next : Titles, next_ready : BOOLEAN, advance : BOOLEAN, old : BOOLEAN]

\* The switches show the end of a track, and the label what comes then.
SwitchesShow(x) ==
    /\ x.repeat <=> x.end_mode = "repeat"
    /\ x.autoplay <=> x.end_mode = "autoplay"
    /\ x.track # 0 => x.next_label = IF x.end_mode = "repeat" THEN Strips!Repeating
                                     ELSE Strips!TrackAfter(x.track)

\* What is out of the operator's hands is locked.
Locked(x) ==
    /\ x.mode \in Strips!Broadcast => x.sensitive \cap {"stop", "seek"} = {} /\ x.skips = {}
    /\ x.mode = "on_air" => "play" \notin x.sensitive

PreviewShows(x) == x.preview <=> x.mode = "preview"

\* The player: the track it goes on to is the one that follows, and a decode is waited for or done.
PlayerKnows(x) ==
    /\ x.old => x.advance
    /\ x.next # 0 /\ x.current # 0 => x.next = Strips!TrackAfter(x.current)
    /\ x.buffer => ~x.pending
    /\ x.pending \/ x.buffer => x.current # 0
    /\ x.next_ready => x.next # 0

\* The track that is shown is the player's, but for what DisplayFollows allows; an advance that waits
\* for its decode began with the track that was shown.
StripShows(x) ==
    /\ x.current \notin {0, x.track} =>
              x.advance \/ x.refused \/ (x.pending /\ x.current = Strips!TrackAfter(x.track))
    /\ x.advance /\ ~x.old => x.current \in {0, x.track} \/ x.refused
    /\ x.pending => x.current = x.track \/ x.refused \/ x.current = Strips!TrackAfter(x.track)
    /\ x.current = 0 /\ x.next # 0 => x.refused \/ ~x.advance

Panel(x) == SwitchesShow(x) /\ Locked(x)
Player(x) == PlayerKnows(x) /\ StripShows(x)
StripSound(x) == x \in StripRecords /\ Panel(x) /\ PreviewShows(x) /\ Player(x)

Begun(x) == x.track # 0 \/ x.current # 0 \/ x.next # 0

\* What one half of a strip is made of.
SamePanel(x, y) ==
    /\ y.track = x.track /\ y.mode = x.mode /\ y.preview = x.preview /\ y.repeat = x.repeat
    /\ y.autoplay = x.autoplay /\ y.next_label = x.next_label /\ y.end_mode = x.end_mode
    /\ y.sensitive = x.sensitive /\ y.skips = x.skips /\ y.focused = x.focused
SamePlayer(x, y) ==
    /\ y.current = x.current /\ y.next = x.next /\ y.next_ready = x.next_ready
    /\ y.pending = x.pending /\ y.buffer = x.buffer /\ y.advance = x.advance /\ y.old = x.old
    /\ y.refused = x.refused

LEMMA PanelKept ==
    ASSUME NEW x, NEW y, SamePanel(x, y)
    PROVE  (Panel(x) => Panel(y)) /\ (PreviewShows(x) => PreviewShows(y))
BY DEF SamePanel, Panel, SwitchesShow, Locked, PreviewShows

LEMMA PlayerKept ==
    ASSUME NEW x, NEW y, SamePlayer(x, y), y.track = x.track
    PROVE  (Player(x) => Player(y)) /\ (Begun(y) <=> Begun(x))
BY DEF SamePlayer, Player, PlayerKnows, StripShows, Begun

\* The tracks before and after one.
LEMMA TracksAround ==
    ASSUME NEW t \in Titles
    PROVE  /\ Strips!TrackAfter(t) \in Titles /\ Strips!TrackBefore(t) \in Titles
           /\ Strips!TrackAfter(t) # 0 => t # 0
           /\ Strips!TrackBefore(t) # 0 => t # 0
           /\ Strips!TrackAfter(0) = 0
BY StripsAssumption DEF Strips!TrackAfter, Strips!TrackBefore, Titles, Strips!AlbumTracks

-----------------------------------------------------------------------------
(* What a strip shows                                                      *)

\* x and y differ in what is drawn.
Redrawn(x, y) ==
    /\ y \in StripRecords /\ SamePlayer(x, y)
    /\ y.focused = x.focused /\ y.device = x.device /\ y.seen = x.seen /\ y.state = x.state
    /\ y.active = x.active /\ y.track = x.track /\ y.preview = x.preview /\ y.repeat = x.repeat
    /\ y.autoplay = x.autoplay /\ y.end_mode = x.end_mode

LEMMA ButtonsDrawn ==
    ASSUME NEW x \in StripRecords, NEW state \in PlayStates
    PROVE  /\ Redrawn(x, Strips!Buttons(x, state))
           /\ Strips!Buttons(x, state).mode = x.mode
           /\ Strips!Buttons(x, state).next_label = x.next_label
           /\ Strips!Buttons(x, state).skips = x.skips
           /\ x.mode \in Strips!Broadcast => Strips!Buttons(x, state).sensitive \cap {"stop", "seek"} = {}
           /\ x.mode = "on_air" => "play" \notin Strips!Buttons(x, state).sensitive
<1> DEFINE s == {b \in DOMAIN Strips!Rules : Strips!Rules[b] \subseteq Strips!Holds(x, state)}
           y == [x EXCEPT !.sensitive = s]
<1>1. s \in SUBSET {"play", "stop", "end", "seek", "queue"}
  BY DEF Strips!Rules
<1>2. x.mode \in Strips!Broadcast => s \cap {"stop", "seek"} = {}
  <2>1. x.mode = "queued" => "not_queued" \notin Strips!Holds(x, state)
    BY DEF Strips!Holds
  <2>2. x.mode = "on_air" => "not_on_air" \notin Strips!Holds(x, state)
    BY DEF Strips!Holds
  <2>3. \A b \in {"stop", "seek"} : {"not_queued", "not_on_air"} \subseteq Strips!Rules[b]
    BY DEF Strips!Rules
  <2> QED
    BY <2>1, <2>2, <2>3 DEF Strips!Broadcast
<1>3. x.mode = "on_air" => "play" \notin s
  <2>1. x.mode = "on_air" => "not_on_air" \notin Strips!Holds(x, state)
    BY DEF Strips!Holds
  <2> QED
    BY <2>1 DEF Strips!Rules
<1>4. Strips!Buttons(x, state) = y
  BY DEF Strips!Buttons
<1> HIDE DEF s
<1>5. y \in StripRecords
  BY <1>1 DEF StripRecords
<1>6. y.sensitive = s /\ y.mode = x.mode /\ y.next_label = x.next_label /\ y.skips = x.skips
  BY DEF StripRecords
<1>7. Redrawn(x, y)
  BY <1>5 DEF Redrawn, SamePlayer, StripRecords
<1> QED
  BY <1>2, <1>3, <1>4, <1>6, <1>7

LEMMA AlbumDrawn ==
    ASSUME NEW x \in StripRecords
    PROVE  /\ Redrawn(x, Strips!Album(x))
           /\ Strips!Album(x).mode = x.mode
           /\ Strips!Album(x).sensitive = x.sensitive
           /\ x.mode \in Strips!Broadcast => Strips!Album(x).skips = {}
           /\ x.track # 0 => Strips!Album(x).next_label = IF x.end_mode = "repeat" THEN Strips!Repeating
                                                          ELSE Strips!TrackAfter(x.track)
<1> DEFINE lab == IF x.track = 0 THEN 0
                  ELSE IF x.end_mode = "repeat" THEN Strips!Repeating ELSE Strips!TrackAfter(x.track)
           sk == IF x.mode \in Strips!Broadcast THEN {}
                 ELSE {b \in {"prev", "next"} :
                         (IF b = "prev" THEN Strips!TrackBefore(x.track)
                          ELSE Strips!TrackAfter(x.track)) # 0}
           y == [x EXCEPT !.next_label = lab, !.skips = sk]
<1>1. x.track \in Titles
  BY DEF StripRecords
<1>2. lab \in Titles \cup {Strips!Repeating}
  BY <1>1, TracksAround DEF Titles
<1>3. sk \in SUBSET {"prev", "next"}
  OBVIOUS
<1>4. Strips!Album(x) = y
  BY DEF Strips!Album
<1>5. x.mode \in Strips!Broadcast => sk = {}
  OBVIOUS
<1>6. x.track # 0 => lab = IF x.end_mode = "repeat" THEN Strips!Repeating
                           ELSE Strips!TrackAfter(x.track)
  OBVIOUS
<1> HIDE DEF lab, sk
<1>7. y \in StripRecords
  BY <1>2, <1>3 DEF StripRecords
<1>8. y.next_label = lab /\ y.skips = sk /\ y.mode = x.mode /\ y.sensitive = x.sensitive
  BY DEF StripRecords
<1>9. Redrawn(x, y)
  BY <1>7 DEF Redrawn, SamePlayer, StripRecords
<1> QED
  BY <1>4, <1>5, <1>6, <1>8, <1>9

\* set_mode: the mode, and what follows it.
LEMMA ModeSet ==
    ASSUME NEW x \in StripRecords, NEW mode \in StripModes, Panel(x)
    PROVE  LET y == Strips!InMode(x, mode) IN
           /\ y \in StripRecords /\ SamePlayer(x, y) /\ Panel(y)
           /\ y.focused = x.focused /\ y.device = x.device /\ y.seen = x.seen /\ y.state = x.state
           /\ y.active = x.active /\ y.track = x.track /\ y.preview = x.preview
           /\ y.mode = mode
<1> DEFINE z == [x EXCEPT !.mode = mode]
           b == Strips!Buttons(z, z.seen)
           y == Strips!InMode(x, mode)
<1>1. CASE x.mode = mode
  BY <1>1 DEF Strips!InMode, SamePlayer
<1>2. CASE x.mode # mode
  <2>1. /\ z \in StripRecords /\ SamePlayer(x, z) /\ z.mode = mode /\ z.seen = x.seen
        /\ z.focused = x.focused /\ z.device = x.device /\ z.state = x.state /\ z.active = x.active
        /\ z.track = x.track /\ z.preview = x.preview /\ z.repeat = x.repeat
        /\ z.autoplay = x.autoplay /\ z.end_mode = x.end_mode
    BY DEF StripRecords, SamePlayer
  <2>2. y = Strips!Album(Strips!Buttons(z, x.seen)) /\ x.seen \in PlayStates
    BY <1>2 DEF Strips!InMode, StripRecords
  <2> HIDE DEF z, y
  <2> DEFINE c == Strips!Buttons(z, x.seen)
  <2>3. /\ Redrawn(z, c) /\ c.mode = mode
        /\ mode \in Strips!Broadcast => c.sensitive \cap {"stop", "seek"} = {}
        /\ mode = "on_air" => "play" \notin c.sensitive
    BY <2>1, <2>2, ButtonsDrawn
  <2> HIDE DEF c
  <2>4. c \in StripRecords
    BY <2>3 DEF Redrawn
  <2>5. y = Strips!Album(c)
    BY <2>2 DEF c
  <2>6. /\ Redrawn(c, y) /\ y.mode = mode /\ y.sensitive = c.sensitive
        /\ mode \in Strips!Broadcast => y.skips = {}
        /\ c.track # 0 => y.next_label = IF c.end_mode = "repeat" THEN Strips!Repeating
                                         ELSE Strips!TrackAfter(c.track)
    BY <2>3, <2>4, <2>5, AlbumDrawn
  <2>7. SamePlayer(x, y)
    BY <2>1, <2>3, <2>6 DEF Redrawn, SamePlayer
  <2>8. Panel(y)
    BY <2>1, <2>3, <2>6 DEF Panel, SwitchesShow, Locked, Redrawn
  <2> QED
    BY <2>1, <2>3, <2>6, <2>7, <2>8 DEF Redrawn, y
<1> QED
  BY <1>1, <1>2

\* A strip keeps what it is sound by, its focus, and as long as nothing was loaded there is nothing.
Kept(x, y) == StripSound(y) /\ y.focused = x.focused /\ (Begun(y) => Begun(x))

LEMMA InModeKeeps ==
    ASSUME NEW x \in StripRecords, NEW mode \in StripModes, Panel(x), Player(x),
           x.preview <=> mode = "preview"
    PROVE  Kept(x, Strips!InMode(x, mode))
<1> DEFINE y == Strips!InMode(x, mode)
<1>1. /\ y \in StripRecords /\ SamePlayer(x, y) /\ Panel(y)
      /\ y.focused = x.focused /\ y.track = x.track /\ y.preview = x.preview /\ y.mode = mode
  BY ModeSet
<1> HIDE DEF y
<1>2. Player(y) /\ (Begun(y) <=> Begun(x))
  BY <1>1, PlayerKept
<1>3. PreviewShows(y)
  BY <1>1 DEF PreviewShows
<1> QED
  BY <1>1, <1>2, <1>3 DEF Kept, StripSound, y

LEMMA KeptKept ==
    ASSUME NEW x, NEW y, NEW z, Kept(x, y), Kept(y, z)
    PROVE  Kept(x, z)
BY DEF Kept

LEMMA KeptItself == ASSUME NEW x, StripSound(x) PROVE Kept(x, x)
BY DEF Kept

\* Only the player's state, its streams, what was last drawn or the device changes.
LEMMA AsideKeeps ==
    ASSUME NEW x, StripSound(x), NEW y \in StripRecords, SamePanel(x, y), SamePlayer(x, y)
    PROVE  Kept(x, y)
<1>1. Panel(y) /\ PreviewShows(y)
  BY PanelKept DEF StripSound
<1>2. y.track = x.track /\ y.focused = x.focused
  BY DEF SamePanel
<1>3. Player(y) /\ (Begun(y) <=> Begun(x))
  BY <1>2, PlayerKept DEF StripSound
<1> QED
  BY <1>1, <1>2, <1>3 DEF Kept, StripSound

LEMMA StateKeeps ==
    ASSUME NEW x, StripSound(x), NEW state \in PlayStates
    PROVE  Kept(x, [x EXCEPT !.state = state])
<1> DEFINE y == [x EXCEPT !.state = state]
<1>1. x \in StripRecords
  BY DEF StripSound
<1>2. y \in StripRecords /\ SamePanel(x, y) /\ SamePlayer(x, y)
  BY <1>1 DEF StripRecords, SamePanel, SamePlayer
<1> HIDE DEF y
<1> QED
  BY <1>2, AsideKeeps DEF y

LEMMA PlayedKeeps == ASSUME NEW x, StripSound(x) PROVE Kept(x, Strips!Played(x))
<1>1. "playing" \in PlayStates
  BY DEF PlayStates
<1>2. Kept(x, [x EXCEPT !.state = "playing"])
  BY <1>1, StateKeeps
<1> QED
  BY <1>2, KeptItself DEF Strips!Played

LEMMA StoppedKeeps == ASSUME NEW x, StripSound(x) PROVE Kept(x, Strips!Stopped(x))
<1>1. "stopped" \in PlayStates
  BY DEF PlayStates
<1> QED
  BY <1>1, StateKeeps DEF Strips!Stopped

LEMMA ToggledKeeps == ASSUME NEW x, StripSound(x) PROVE Kept(x, Strips!Toggled(x))
<1>1. "paused" \in PlayStates
  BY DEF PlayStates
<1>2. Kept(x, [x EXCEPT !.state = "paused"])
  BY <1>1, StateKeeps
<1> QED
  BY <1>2, PlayedKeeps DEF Strips!Toggled

-----------------------------------------------------------------------------
(* The player of a strip                                                   *)

\* The fields a preload leaves alone.
SamePlace(x, y) ==
    /\ y.current = x.current /\ y.pending = x.pending /\ y.buffer = x.buffer
    /\ y.advance = x.advance /\ y.old = x.old /\ y.refused = x.refused

LEMMA PreloadedIs ==
    ASSUME NEW x \in StripRecords
    PROVE  LET y == Strips!Preloaded(x) IN
           /\ y \in StripRecords /\ SamePanel(x, y) /\ SamePlace(x, y)
           /\ \/ y = x
              \/ y.next = Strips!TrackAfter(x.current) /\ y.next # 0 /\ ~y.next_ready
<1> DEFINE n == Strips!TrackAfter(x.current)
           z == [x EXCEPT !.next = n, !.next_ready = FALSE]
<1>1. n \in Titles
  BY TracksAround DEF StripRecords
<1> HIDE DEF n
<1>2. z \in StripRecords /\ SamePanel(x, z) /\ SamePlace(x, z) /\ z.next = n /\ ~z.next_ready
  BY <1>1 DEF StripRecords, SamePanel, SamePlace
<1>3. x \in StripRecords /\ SamePanel(x, x) /\ SamePlace(x, x)
  BY DEF SamePanel, SamePlace
<1>4. Strips!Preloaded(x) = x \/ (Strips!Preloaded(x) = z /\ n # 0)
  BY DEF Strips!Preloaded, n
<1> HIDE DEF z
<1> QED
  BY <1>2, <1>3, <1>4 DEF n

\* The player's stream takes track t: it waits for its decode and knows what follows, or nothing.
LEMMA TrackSet ==
    ASSUME NEW x \in StripRecords, NEW t \in Strips!AlbumTracks, x.active
    PROVE  LET y == Strips!SetTrack(x, t) IN
           /\ y \in StripRecords /\ SamePanel(x, y)
           /\ y.current = t /\ y.pending /\ ~y.buffer /\ ~y.next_ready
           /\ y.advance = x.advance /\ y.old = x.old
           /\ y.next \in {0, Strips!TrackAfter(t)}
           /\ y.refused <=> x.refused /\ t # x.track
<1> DEFINE z == [x EXCEPT !.current = t, !.buffer = FALSE, !.pending = TRUE, !.next = 0,
                          !.next_ready = FALSE, !.refused = @ /\ t # x.track]
<1>0. t \in Titles
  BY StripsAssumption DEF Titles, Strips!AlbumTracks
<1>1. z \in StripRecords
  <2> DEFINE d == (x.refused /\ t # x.track)
             w == [x EXCEPT !.current = t, !.next = 0, !.refused = d]
  <2>1. 0 \in Titles /\ d \in BOOLEAN
    BY StripsAssumption DEF Titles
  <2>2. z = [w EXCEPT !.buffer = FALSE, !.pending = TRUE, !.next_ready = FALSE]
    BY DEF StripRecords
  <2> HIDE DEF d
  <2>3. w \in StripRecords
    BY <1>0, <2>1 DEF StripRecords
  <2> HIDE DEF z, w
  <2> QED
    BY ZenonT(60), <2>2, <2>3 DEF StripRecords
<1>2. /\ SamePanel(x, z) /\ z.current = t /\ z.pending /\ ~z.buffer /\ ~z.next_ready /\ z.next = 0
      /\ z.advance = x.advance /\ z.old = x.old /\ (z.refused <=> x.refused /\ t # x.track)
  BY DEF StripRecords, SamePanel
<1>3. Strips!SetTrack(x, t) = Strips!Preloaded(z)
  BY DEF Strips!SetTrack
<1> HIDE DEF z
<1> DEFINE y == Strips!Preloaded(z)
<1>4. /\ y \in StripRecords /\ SamePanel(z, y) /\ SamePlace(z, y)
      /\ y = z \/ (y.next = Strips!TrackAfter(z.current) /\ y.next # 0 /\ ~y.next_ready)
  BY <1>1, PreloadedIs
<1> HIDE DEF y
<1> QED
  BY <1>2, <1>3, <1>4 DEF SamePanel, SamePlace, y

\* Without a stream the player refuses.
LEMMA TrackRefused ==
    ASSUME NEW x \in StripRecords, NEW t, ~x.active
    PROVE  LET y == Strips!SetTrack(x, t) IN
           /\ y \in StripRecords /\ SamePanel(x, y)
           /\ y.current = x.current /\ y.pending = x.pending /\ y.buffer = x.buffer
           /\ y.next = x.next /\ y.next_ready = x.next_ready
           /\ y.advance = x.advance /\ y.old = x.old
           /\ y.refused <=> x.refused \/ t = x.track
<1> DEFINE y == [x EXCEPT !.refused = @ \/ t = x.track]
<1>1. y \in StripRecords
  BY DEF StripRecords
<1>2. /\ SamePanel(x, y) /\ y.current = x.current /\ y.pending = x.pending /\ y.buffer = x.buffer
      /\ y.next = x.next /\ y.next_ready = x.next_ready /\ y.advance = x.advance /\ y.old = x.old
      /\ (y.refused <=> x.refused \/ t = x.track)
  BY DEF StripRecords, SamePanel
<1>3. Strips!SetTrack(x, t) = y
  BY DEF Strips!SetTrack
<1> HIDE DEF y
<1> QED
  BY <1>1, <1>2, <1>3

\* A track that is shown is given to the player.
LEMMA ShownIsSet ==
    ASSUME NEW x \in StripRecords, NEW t \in Strips!AlbumTracks, t = x.track, PlayerKnows(x)
    PROVE  LET y == Strips!SetTrack(x, t) IN
           y \in StripRecords /\ SamePanel(x, y) /\ Player(y)
<1> DEFINE y == Strips!SetTrack(x, t)
<1>0. t # 0
  BY StripsAssumption DEF Strips!AlbumTracks
<1>1. CASE x.active
  <2>1. /\ y \in StripRecords /\ SamePanel(x, y)
        /\ y.current = t /\ y.pending /\ ~y.buffer /\ ~y.next_ready
        /\ y.advance = x.advance /\ y.old = x.old
        /\ y.next \in {0, Strips!TrackAfter(t)}
    BY <1>1, TrackSet
  <2> HIDE DEF y
  <2>2. y.track = t
    BY <2>1 DEF SamePanel
  <2>3. PlayerKnows(y)
    BY <1>0, <2>1 DEF PlayerKnows
  <2>4. StripShows(y)
    BY <1>0, <2>1, <2>2 DEF StripShows
  <2> QED
    BY <2>1, <2>3, <2>4 DEF Player, y
<1>2. CASE ~x.active
  <2>1. /\ y \in StripRecords /\ SamePanel(x, y)
        /\ y.current = x.current /\ y.pending = x.pending /\ y.buffer = x.buffer
        /\ y.next = x.next /\ y.next_ready = x.next_ready
        /\ y.advance = x.advance /\ y.old = x.old
        /\ y.refused
    BY <1>2, TrackRefused
  <2> HIDE DEF y
  <2>2. PlayerKnows(y)
    BY <2>1 DEF PlayerKnows
  <2>3. StripShows(y)
    BY <2>1 DEF StripShows
  <2> QED
    BY <2>1, <2>2, <2>3 DEF Player, y
<1> QED
  BY <1>1, <1>2

\* Another track is shown.
LEMMA Retitled ==
    ASSUME NEW x \in StripRecords, Panel(x), PreviewShows(x), NEW t \in Titles
    PROVE  LET y == Strips!Album([x EXCEPT !.track = t]) IN
           /\ y \in StripRecords /\ SamePlayer(x, y) /\ Panel(y) /\ PreviewShows(y)
           /\ y.track = t /\ y.focused = x.focused /\ y.seen = x.seen /\ y.mode = x.mode
           /\ y.active = x.active
<1> DEFINE z == [x EXCEPT !.track = t]
<1>1. /\ z \in StripRecords /\ SamePlayer(x, z) /\ z.track = t /\ z.mode = x.mode
      /\ z.focused = x.focused /\ z.seen = x.seen /\ z.preview = x.preview /\ z.repeat = x.repeat
      /\ z.autoplay = x.autoplay /\ z.end_mode = x.end_mode /\ z.sensitive = x.sensitive
      /\ z.active = x.active
  BY DEF StripRecords, SamePlayer
<1> HIDE DEF z
<1> DEFINE y == Strips!Album(z)
<1>2. /\ Redrawn(z, y) /\ y.mode = z.mode /\ y.sensitive = z.sensitive
      /\ z.mode \in Strips!Broadcast => y.skips = {}
      /\ z.track # 0 => y.next_label = IF z.end_mode = "repeat" THEN Strips!Repeating
                                       ELSE Strips!TrackAfter(z.track)
  BY <1>1, AlbumDrawn
<1> HIDE DEF y
<1>3. SamePlayer(x, y)
  BY <1>1, <1>2 DEF Redrawn, SamePlayer
<1>4. Panel(y)
  BY <1>1, <1>2 DEF Redrawn, Panel, SwitchesShow, Locked
<1>5. PreviewShows(y)
  BY <1>1, <1>2 DEF Redrawn, PreviewShows
<1> QED
  BY <1>1, <1>2, <1>3, <1>4, <1>5 DEF Redrawn, y, z

\* A track is chosen on the strip.
LEMMA ChosenKeeps ==
    ASSUME NEW x \in StripRecords, Panel(x), PreviewShows(x), PlayerKnows(x),
           NEW t \in Strips!AlbumTracks
    PROVE  LET y == Strips!Chosen(x, t) IN StripSound(y) /\ y.focused = x.focused
<1> DEFINE z == Strips!Album([x EXCEPT !.track = t])
           y == Strips!SetTrack(z, t)
<1>0. t \in Titles
  BY StripsAssumption DEF Titles, Strips!AlbumTracks
<1>1. /\ z \in StripRecords /\ SamePlayer(x, z) /\ Panel(z) /\ PreviewShows(z)
      /\ z.track = t /\ z.focused = x.focused
  BY <1>0, Retitled
<1> HIDE DEF z
<1>2. PlayerKnows(z)
  BY <1>1 DEF SamePlayer, PlayerKnows
<1>3. y \in StripRecords /\ SamePanel(z, y) /\ Player(y)
  BY <1>1, <1>2, ShownIsSet
<1>4. Strips!Chosen(x, t) = y
  BY DEF Strips!Chosen, z
<1> HIDE DEF y
<1>5. Panel(y) /\ PreviewShows(y)
  BY <1>1, <1>3, PanelKept
<1>6. y.focused = x.focused
  BY <1>1, <1>3 DEF SamePanel
<1> QED
  BY <1>3, <1>4, <1>5, <1>6 DEF StripSound

LEMMA AlbumTitles ==
    /\ \A t \in Titles : t # 0 => t \in Strips!AlbumTracks
    /\ \A t \in Strips!AlbumTracks : t \in Titles /\ t # 0
BY StripsAssumption DEF Titles, Strips!AlbumTracks

\* A skip, from whatever is shown: needed too of a player that has just given a track up.
LEMMA NextTrackKeeps ==
    ASSUME NEW x \in StripRecords, Panel(x), PreviewShows(x), PlayerKnows(x),
           Strips!TrackAfter(x.track) = 0 => StripShows(x)
    PROVE  Kept(x, Strips!NextTrack(x))
<1>1. x.track \in Titles
  BY DEF StripRecords
<1>2. CASE Strips!TrackAfter(x.track) = 0
  <2>1. StripSound(x)
    BY <1>2 DEF StripSound, Player
  <2> QED
    BY <1>2, <2>1, KeptItself DEF Strips!NextTrack
<1>3. CASE Strips!TrackAfter(x.track) # 0
  <2> DEFINE t == Strips!TrackAfter(x.track)
  <2>1. t \in Strips!AlbumTracks /\ x.track # 0
    BY <1>1, <1>3, TracksAround, AlbumTitles
  <2>2. Strips!NextTrack(x) = Strips!Chosen(x, t)
    BY <1>3 DEF Strips!NextTrack
  <2> HIDE DEF t
  <2> DEFINE y == Strips!Chosen(x, t)
  <2>3. StripSound(y) /\ y.focused = x.focused
    BY <2>1, ChosenKeeps
  <2> HIDE DEF y
  <2> QED
    BY <2>1, <2>2, <2>3 DEF Kept, Begun, y
<1> QED
  BY <1>2, <1>3

LEMMA PreviousTrackKeeps ==
    ASSUME NEW x, StripSound(x), NEW late \in BOOLEAN
    PROVE  Kept(x, Strips!PreviousTrack(x, late))
<1>1. x \in StripRecords /\ Panel(x) /\ PreviewShows(x) /\ PlayerKnows(x) /\ x.track \in Titles
  BY DEF StripSound, Player, StripRecords
<1>2. CASE late \/ Strips!TrackBefore(x.track) = 0
  BY <1>2, KeptItself DEF Strips!PreviousTrack
<1>3. CASE ~(late \/ Strips!TrackBefore(x.track) = 0)
  <2> DEFINE t == Strips!TrackBefore(x.track)
  <2>1. t \in Strips!AlbumTracks /\ x.track # 0
    BY <1>1, <1>3, TracksAround, AlbumTitles
  <2>2. Strips!PreviousTrack(x, late) = Strips!Chosen(x, t)
    BY <1>3 DEF Strips!PreviousTrack
  <2> HIDE DEF t
  <2> DEFINE y == Strips!Chosen(x, t)
  <2>3. StripSound(y) /\ y.focused = x.focused
    BY <1>1, <2>1, ChosenKeeps
  <2> HIDE DEF y
  <2> QED
    BY <2>1, <2>2, <2>3 DEF Kept, Begun, y
<1> QED
  BY <1>2, <1>3

\* A track of the library is loaded.
LEMMA LoadedKeeps ==
    ASSUME NEW x, StripSound(x), NEW t \in Strips!AlbumTracks
    PROVE  LET y == Strips!Loaded(x, t) IN StripSound(y) /\ y.focused = x.focused
<1> DEFINE z == Strips!Album([x EXCEPT !.track = t])
           b == Strips!Buttons(z, z.seen)
           y == Strips!SetTrack(b, t)
<1>0. x \in StripRecords /\ Panel(x) /\ PreviewShows(x) /\ PlayerKnows(x) /\ t \in Titles
  BY AlbumTitles DEF StripSound, Player
<1>1. /\ z \in StripRecords /\ SamePlayer(x, z) /\ Panel(z) /\ PreviewShows(z)
      /\ z.track = t /\ z.focused = x.focused
  BY <1>0, Retitled
<1>2. Strips!Loaded(x, t) = y
  BY DEF Strips!Loaded
<1> HIDE DEF z
<1>3. z.seen \in PlayStates
  BY <1>1 DEF StripRecords
<1>4. /\ Redrawn(z, b) /\ b.mode = z.mode /\ b.next_label = z.next_label /\ b.skips = z.skips
      /\ z.mode \in Strips!Broadcast => b.sensitive \cap {"stop", "seek"} = {}
      /\ z.mode = "on_air" => "play" \notin b.sensitive
  BY <1>1, <1>3, ButtonsDrawn
<1> HIDE DEF b
<1>5. b \in StripRecords /\ b.track = t /\ b.focused = x.focused
  BY <1>1, <1>4 DEF Redrawn
<1>6. Panel(b) /\ PreviewShows(b)
  BY <1>1, <1>4 DEF Redrawn, Panel, SwitchesShow, Locked, PreviewShows
<1>7. PlayerKnows(b)
  BY <1>0, <1>1, <1>4 DEF Redrawn, SamePlayer, PlayerKnows
<1>8. y \in StripRecords /\ SamePanel(b, y) /\ Player(y)
  BY <1>5, <1>7, ShownIsSet
<1> HIDE DEF y
<1>9. Panel(y) /\ PreviewShows(y) /\ y.focused = x.focused
  BY <1>5, <1>6, <1>8, PanelKept DEF SamePanel
<1> QED
  BY <1>2, <1>8, <1>9 DEF StripSound

\* The window is told of the player's track.
LEMMA ShownKeeps ==
    ASSUME NEW x \in StripRecords, Panel(x), PreviewShows(x), PlayerKnows(x),
           x.current = 0 /\ x.next # 0 => ~x.advance
    PROVE  LET y == Strips!Shown(x) IN
           /\ StripSound(y) /\ y.focused = x.focused /\ (Begun(y) => Begun(x))
           /\ y.track = x.current /\ y.current = x.current /\ y.advance = x.advance
<1> DEFINE r == [x EXCEPT !.refused = FALSE]
           y == Strips!Album([r EXCEPT !.track = x.current])
<1>1. /\ r \in StripRecords /\ SamePanel(x, r) /\ r.current = x.current /\ r.next = x.next
      /\ r.next_ready = x.next_ready /\ r.pending = x.pending /\ r.buffer = x.buffer
      /\ r.advance = x.advance /\ r.old = x.old /\ ~r.refused
  BY DEF StripRecords, SamePanel
<1>2. x.current \in Titles /\ [x EXCEPT !.track = x.current, !.refused = FALSE]
                                 = [r EXCEPT !.track = x.current]
  BY DEF StripRecords
<1>3. Strips!Shown(x) = y
  BY <1>2 DEF Strips!Shown
<1> HIDE DEF r
<1>4. Panel(r) /\ PreviewShows(r)
  BY <1>1, PanelKept
<1>5. /\ y \in StripRecords /\ SamePlayer(r, y) /\ Panel(y) /\ PreviewShows(y)
      /\ y.track = x.current /\ y.focused = r.focused
  BY <1>1, <1>2, <1>4, Retitled
<1> HIDE DEF y
<1>6. PlayerKnows(y)
  BY <1>1, <1>5 DEF SamePlayer, PlayerKnows
<1>7. StripShows(y)
  BY <1>1, <1>5 DEF SamePlayer, StripShows
<1>8. Begun(y) => Begun(x)
  BY <1>1, <1>5 DEF Begun, SamePlayer
<1> QED
  BY <1>1, <1>3, <1>5, <1>6, <1>7, <1>8 DEF StripSound, Player, SamePanel, SamePlayer

\* What is kept of x by a change of the player alone.
LEMMA PlayerMoves ==
    ASSUME NEW x, StripSound(x), NEW y \in StripRecords, SamePanel(x, y), Player(y),
           Begun(y) => Begun(x)
    PROVE  Kept(x, y)
BY PanelKept DEF Kept, StripSound, SamePanel

\* The poll finds a decode done, or failed.
LEMMA PolledKeeps ==
    ASSUME NEW x, StripSound(x), NEW decoded \in BOOLEAN
    PROVE  Kept(x, Strips!Polled(x, decoded))
<1>1. /\ x \in StripRecords /\ Panel(x) /\ PreviewShows(x) /\ PlayerKnows(x) /\ StripShows(x)
      /\ x.track \in Titles /\ x.current \in Titles
  BY DEF StripSound, Player, StripRecords
<1>2. CASE ~(x.pending /\ decoded)
  <2>1. Strips!Polled(x, decoded) = x
    BY <1>2 DEF Strips!Polled
  <2> QED
    BY <2>1, KeptItself
<1>3. CASE x.pending /\ decoded /\ x.current \in Undecodable
  <2> DEFINE z == [x EXCEPT !.pending = FALSE, !.current = 0]
  <2>1. 0 \in Titles
    BY StripsAssumption DEF Titles
  <2>2. /\ z \in StripRecords /\ SamePanel(x, z) /\ z.current = 0 /\ ~z.pending /\ z.next = x.next
        /\ z.next_ready = x.next_ready /\ z.buffer = x.buffer /\ z.advance = x.advance
        /\ z.old = x.old /\ z.refused = x.refused
    BY <1>1, <2>1 DEF StripRecords, SamePanel
  <2>3. Strips!Polled(x, decoded) = Strips!NextTrack(z)
    BY <1>3 DEF Strips!Polled
  <2> HIDE DEF z
  <2>4. Panel(z) /\ PreviewShows(z) /\ z.track = x.track
    BY <1>1, <2>2, PanelKept DEF SamePanel
  <2>5. PlayerKnows(z)
    BY <1>1, <1>3, <2>2 DEF PlayerKnows
  <2>6. Strips!TrackAfter(z.track) = 0 => StripShows(z)
    <3> SUFFICES ASSUME Strips!TrackAfter(x.track) = 0 PROVE StripShows(z)
      BY <2>4
    <3>1. x.current # 0
      BY <1>1, <1>3 DEF PlayerKnows
    <3>2. x.current = x.track \/ x.refused
      BY <1>1, <1>3, <3>1 DEF StripShows
    <3>3. x.next # 0 => x.refused
      BY <1>1, <3>1, <3>2 DEF PlayerKnows
    <3> QED
      BY <2>2, <3>3 DEF StripShows
  <2> DEFINE y == Strips!NextTrack(z)
  <2>7. Kept(z, y)
    BY <2>2, <2>4, <2>5, <2>6, NextTrackKeeps
  <2>8. Begun(z) => Begun(x)
    BY <2>2, <2>4 DEF Begun
  <2> HIDE DEF y
  <2> QED
    BY <2>2, <2>3, <2>7, <2>8 DEF Kept, SamePanel, y
<1>4. CASE x.pending /\ decoded /\ x.current \notin Undecodable
  <2> DEFINE z == [x EXCEPT !.pending = FALSE, !.buffer = TRUE]
  <2>2. /\ z \in StripRecords /\ SamePanel(x, z) /\ z.current = x.current /\ ~z.pending
        /\ z.next = x.next /\ z.next_ready = x.next_ready /\ z.buffer /\ z.advance = x.advance
        /\ z.old = x.old /\ z.refused = x.refused
    BY <1>1 DEF StripRecords, SamePanel
  <2>3. Strips!Polled(x, decoded) = Strips!Shown(z)
    BY <1>4 DEF Strips!Polled
  <2> HIDE DEF z
  <2>4. Panel(z) /\ PreviewShows(z) /\ z.track = x.track
    BY <1>1, <2>2, PanelKept DEF SamePanel
  <2>5. x.current # 0
    BY <1>1, <1>4 DEF PlayerKnows
  <2>6. PlayerKnows(z)
    BY <1>1, <2>2, <2>5 DEF PlayerKnows
  <2> DEFINE y == Strips!Shown(z)
  <2>7. StripSound(y) /\ y.focused = z.focused /\ (Begun(y) => Begun(z))
    BY <2>2, <2>4, <2>5, <2>6, ShownKeeps
  <2>8. Begun(z) => Begun(x)
    BY <2>2, <2>4 DEF Begun
  <2> HIDE DEF y
  <2> QED
    BY <2>2, <2>3, <2>7, <2>8 DEF Kept, SamePanel, y
<1> QED
  BY <1>2, <1>3, <1>4

LEMMA AttachedKeeps ==
    ASSUME NEW x, StripSound(x), NEW ready \in BOOLEAN
    PROVE  Kept(x, Strips!Attached(x, ready))
<1> DEFINE z == [x EXCEPT !.next_ready = TRUE]
<1>1. x \in StripRecords /\ PlayerKnows(x) /\ StripShows(x)
  BY DEF StripSound, Player
<1>2. /\ z \in StripRecords /\ SamePanel(x, z) /\ z.current = x.current /\ z.pending = x.pending
      /\ z.next = x.next /\ z.buffer = x.buffer /\ z.advance = x.advance
      /\ z.old = x.old /\ z.refused = x.refused
  BY <1>1 DEF StripRecords, SamePanel
<1>3. Strips!Attached(x, ready) = x \/ (Strips!Attached(x, ready) = z /\ x.next # 0)
  BY DEF Strips!Attached
<1> HIDE DEF z
<1>4. ASSUME x.next # 0 PROVE Kept(x, z)
  <2>1. z.track = x.track
    BY <1>2 DEF SamePanel
  <2>2. Player(z)
    BY <1>1, <1>2, <1>4, <2>1 DEF Player, PlayerKnows, StripShows
  <2>3. Begun(z) => Begun(x)
    BY <1>2, <2>1 DEF Begun
  <2> QED
    BY <1>2, <2>2, <2>3, PlayerMoves
<1> QED
  BY <1>3, <1>4, KeptItself

\* The window takes an advance.
LEMMA AdvancedKeeps ==
    ASSUME NEW x, StripSound(x)
    PROVE  Kept(x, Strips!Advanced(x))
<1> DEFINE z == [x EXCEPT !.advance = FALSE, !.old = FALSE]
           y == Strips!Advanced(x)
<1>1. /\ x \in StripRecords /\ Panel(x) /\ PreviewShows(x) /\ PlayerKnows(x) /\ StripShows(x)
      /\ x.track \in Titles /\ x.current \in Titles /\ x.next \in Titles
  BY DEF StripSound, Player, StripRecords
<1>2. /\ z \in StripRecords /\ SamePanel(x, z) /\ z.current = x.current /\ z.pending = x.pending
      /\ z.next = x.next /\ z.next_ready = x.next_ready /\ z.buffer = x.buffer /\ ~z.advance
      /\ ~z.old /\ z.refused = x.refused /\ z.active = x.active
  BY <1>1 DEF StripRecords, SamePanel
<1>3. ASSUME ~x.advance PROVE y = x
  BY <1>3 DEF Strips!Advanced
<1>a. ASSUME x.advance, ~x.old, ~x.buffer
      PROVE  y = IF x.next = 0 THEN z ELSE Strips!SetTrack(z, x.next)
  BY <1>a DEF Strips!Advanced
<1>b. ASSUME x.advance, x.old \/ x.buffer
      PROVE  y = Strips!Shown(Strips!Preloaded(z))
  BY <1>b DEF Strips!Advanced
<1> SUFFICES Kept(x, y)
  OBVIOUS
<1> HIDE DEF z, y
<1>4. Panel(z) /\ PreviewShows(z) /\ z.track = x.track /\ PlayerKnows(z)
  BY <1>1, <1>2, PanelKept DEF SamePanel, PlayerKnows
<1>5. Begun(z) <=> Begun(x)
  BY <1>2, <1>4 DEF Begun
<1>6. CASE ~x.advance
  BY <1>3, <1>6, KeptItself
<1>7. CASE x.advance /\ ~x.old /\ ~x.buffer /\ (x.next = 0 \/ ~x.active)
  <2>1. StripShows(z)
    BY <1>1, <1>2, <1>4, <1>7 DEF StripShows
  <2>2. CASE x.next = 0
    <3>1. y = z /\ Player(z)
      BY <1>a, <1>4, <1>7, <2>1, <2>2 DEF Player
    <3> QED
      BY <1>2, <1>5, <3>1, PlayerMoves
  <2>3. CASE x.next # 0
    <3> DEFINE w == Strips!SetTrack(z, x.next)
    <3>1. /\ w \in StripRecords /\ SamePanel(z, w)
          /\ w.current = z.current /\ w.pending = z.pending /\ w.buffer = z.buffer
          /\ w.next = z.next /\ w.next_ready = z.next_ready
          /\ w.advance = z.advance /\ w.old = z.old
          /\ w.refused <=> z.refused \/ x.next = z.track
      BY <1>2, <1>7, <2>3, TrackRefused
    <3>2. y = w
      BY <1>a, <1>7, <2>3
    <3> HIDE DEF w
    <3>3. SamePanel(x, w) /\ w.track = x.track
      BY <1>2, <3>1 DEF SamePanel
    <3>4. PlayerKnows(w)
      BY <1>4, <3>1 DEF PlayerKnows
    <3>5. StripShows(w)
      BY <1>2, <1>4, <2>1, <3>1, <3>3 DEF StripShows
    <3>6. Begun(w) => Begun(x)
      BY <1>2, <3>1, <3>3 DEF Begun
    <3> QED
      BY <3>1, <3>2, <3>3, <3>4, <3>5, <3>6, PlayerMoves DEF Player
  <2> QED
    BY <2>2, <2>3
<1>8. CASE x.advance /\ ~x.old /\ ~x.buffer /\ x.next # 0 /\ x.active
  <2> DEFINE w == Strips!SetTrack(z, x.next)
  <2>0. x.next \in Strips!AlbumTracks
    BY <1>1, <1>8, AlbumTitles
  <2>1. /\ w \in StripRecords /\ SamePanel(z, w)
        /\ w.current = x.next /\ w.pending /\ ~w.buffer /\ ~w.next_ready
        /\ w.advance = z.advance /\ w.old = z.old
        /\ w.next \in {0, Strips!TrackAfter(x.next)}
        /\ w.refused <=> z.refused /\ x.next # z.track
    BY <1>2, <1>8, <2>0, TrackSet
  <2>2. y = w
    BY <1>a, <1>8
  <2> HIDE DEF w
  <2>3. SamePanel(x, w) /\ w.track = x.track
    BY <1>2, <2>1 DEF SamePanel
  <2>4. PlayerKnows(w)
    BY <1>2, <1>8, <2>1 DEF PlayerKnows
  <2>5. x.refused \/ x.next = Strips!TrackAfter(x.track)
    BY <1>1, <1>8 DEF StripShows, PlayerKnows
  <2>6. StripShows(w)
    BY <1>2, <1>4, <1>8, <2>1, <2>3, <2>5 DEF StripShows
  <2>7. Begun(w) => Begun(x)
    BY <1>8 DEF Begun
  <2> QED
    BY <2>1, <2>2, <2>3, <2>4, <2>6, <2>7, PlayerMoves DEF Player
<1>9. CASE x.advance /\ (x.old \/ x.buffer)
  <2> DEFINE p == Strips!Preloaded(z)
             w == Strips!Shown(p)
  <2>1. /\ p \in StripRecords /\ SamePanel(z, p) /\ SamePlace(z, p)
        /\ p = z \/ (p.next = Strips!TrackAfter(z.current) /\ p.next # 0 /\ ~p.next_ready)
    BY <1>2, PreloadedIs
  <2>2. y = w
    BY <1>b, <1>9
  <2> HIDE DEF p
  <2>3. Panel(p) /\ PreviewShows(p) /\ p.focused = x.focused /\ p.track = x.track
    BY <1>2, <1>4, <2>1, PanelKept DEF SamePanel
  <2>4. PlayerKnows(p)
    BY <1>4, <2>1 DEF SamePlace, PlayerKnows
  <2>5. StripSound(w) /\ w.focused = p.focused /\ (Begun(w) => Begun(p))
    BY <1>2, <2>1, <2>3, <2>4, ShownKeeps DEF SamePlace
  <2>6. Begun(p) => Begun(x)
    BY <1>1, <1>2, <2>1, <2>3, TracksAround DEF Begun, SamePlace
  <2> HIDE DEF w
  <2> QED
    BY <2>2, <2>3, <2>5, <2>6 DEF Kept
<1> QED
  BY <1>1, <1>6, <1>7, <1>8, <1>9 DEF PlayerKnows, StripRecords

\* A track ends on the audio thread.
Ended(x) ==
    LET state == IF x.end_mode = "stop" THEN "stopped" ELSE x.state
    IN  IF x.next_ready
        THEN [x EXCEPT !.current = x.next, !.next = 0, !.next_ready = FALSE,
                       !.advance = TRUE, !.old = TRUE, !.state = state]
        ELSE IF x.next # 0
        THEN [x EXCEPT !.buffer = FALSE, !.advance = TRUE, !.state = state]
        ELSE Strips!Stopped(x)

LEMMA EndedKeeps ==
    ASSUME NEW x, StripSound(x), x.buffer
    PROVE  Kept(x, Ended(x))
<1> DEFINE state == IF x.end_mode = "stop" THEN "stopped" ELSE x.state
           z == [x EXCEPT !.current = x.next, !.next = 0, !.next_ready = FALSE,
                          !.advance = TRUE, !.old = TRUE, !.state = state]
           w == [x EXCEPT !.buffer = FALSE, !.advance = TRUE, !.state = state]
<1>1. /\ x \in StripRecords /\ PlayerKnows(x) /\ StripShows(x) /\ x.next \in Titles
      /\ x.current # 0 /\ ~x.pending
  BY DEF StripSound, Player, PlayerKnows, StripRecords
<1>2. state \in PlayStates
  BY <1>1 DEF StripRecords, PlayStates
<1>3. Ended(x) = IF x.next_ready THEN z ELSE IF x.next # 0 THEN w ELSE Strips!Stopped(x)
  BY DEF Ended
<1> HIDE DEF state
<1>4. ASSUME x.next_ready PROVE Kept(x, z)
  <2> DEFINE p == [x EXCEPT !.current = x.next, !.next = 0, !.state = state]
  <2>1. 0 \in Titles
    BY StripsAssumption DEF Titles
  <2>2. p \in StripRecords
    BY <1>1, <1>2, <2>1 DEF StripRecords
  <2>3. z = [p EXCEPT !.next_ready = FALSE, !.advance = TRUE, !.old = TRUE]
    BY <1>1 DEF StripRecords
  <2>4. /\ p.track = x.track /\ SamePanel(x, p) /\ p.current = x.next /\ p.pending = x.pending
        /\ p.next = 0 /\ p.buffer = x.buffer /\ p.refused = x.refused
    BY <1>1 DEF StripRecords, SamePanel
  <2> HIDE DEF z, p
  <2>5. /\ z \in StripRecords /\ SamePanel(p, z) /\ z.current = p.current /\ z.pending = p.pending
        /\ z.next = p.next /\ z.buffer = p.buffer /\ ~z.next_ready /\ z.advance /\ z.old
        /\ z.refused = p.refused
    BY <2>2, <2>3 DEF StripRecords, SamePanel
  <2>6. SamePanel(x, z)
    BY <2>4, <2>5 DEF SamePanel
  <2>7. Player(z)
    BY <1>1, <1>4, <2>4, <2>5 DEF Player, PlayerKnows, StripShows
  <2>8. Begun(z) => Begun(x)
    BY <1>1 DEF Begun
  <2> QED
    BY <2>5, <2>6, <2>7, <2>8, PlayerMoves
<1>5. ASSUME x.next # 0 PROVE Kept(x, w)
  <2>1. /\ w \in StripRecords /\ SamePanel(x, w) /\ w.current = x.current /\ w.pending = x.pending
        /\ w.next = x.next /\ ~w.buffer /\ w.next_ready = x.next_ready /\ w.advance /\ w.old = x.old
        /\ w.refused = x.refused /\ w.track = x.track
    BY ZenonT(60), <1>1, <1>2 DEF StripRecords, SamePanel
  <2> HIDE DEF w
  <2>2. PlayerKnows(w)
    BY <1>1, <2>1 DEF PlayerKnows
  <2>3. StripShows(w)
    BY <1>1, <2>1 DEF StripShows
  <2>4. Begun(w) => Begun(x)
    BY <1>1 DEF Begun
  <2> QED
    BY <2>1, <2>2, <2>3, <2>4, PlayerMoves DEF Player
<1> HIDE DEF z, w
<1> QED
  BY <1>3, <1>4, <1>5, StoppedKeeps

\* The streams come up or go down.
LEMMA StreamsKeep ==
    ASSUME NEW x, StripSound(x)
    PROVE  /\ Kept(x, [Strips!Stopped(x) EXCEPT !.active = FALSE])
           /\ Kept(x, [x EXCEPT !.active = TRUE])
<1> DEFINE s == Strips!Stopped(x)
           y == [s EXCEPT !.active = FALSE]
           z == [x EXCEPT !.active = TRUE]
<1>1. x \in StripRecords
  BY DEF StripSound
<1>2. Kept(x, s) /\ s \in StripRecords
  BY StoppedKeeps DEF Kept, StripSound
<1>3. z \in StripRecords /\ SamePanel(x, z) /\ SamePlayer(x, z)
  BY <1>1 DEF StripRecords, SamePanel, SamePlayer
<1> HIDE DEF s, z
<1>4. y \in StripRecords /\ SamePanel(s, y) /\ SamePlayer(s, y)
  BY <1>2 DEF StripRecords, SamePanel, SamePlayer
<1> HIDE DEF y
<1>5. Kept(s, y) /\ Kept(x, z)
  BY <1>2, <1>3, <1>4, AsideKeeps DEF Kept
<1> QED
  BY <1>2, <1>5, KeptKept DEF s, y, z

\* The device and what was last drawn are neither the panel's nor the player's.
LEMMA DeviceKeeps ==
    ASSUME NEW x, StripSound(x), NEW valid \in BOOLEAN
    PROVE  Kept(x, [x EXCEPT !.device = valid])
<1> DEFINE y == [x EXCEPT !.device = valid]
<1>1. x \in StripRecords
  BY DEF StripSound
<1>2. y \in StripRecords /\ SamePanel(x, y) /\ SamePlayer(x, y)
  BY <1>1 DEF StripRecords, SamePanel, SamePlayer
<1> HIDE DEF y
<1> QED
  BY <1>2, AsideKeeps DEF y

LEMMA FrameKeeps ==
    ASSUME NEW x, StripSound(x)
    PROVE  Kept(x, [Strips!Buttons(x, x.state) EXCEPT !.seen = x.state])
<1> DEFINE b == Strips!Buttons(x, x.state)
           y == [b EXCEPT !.seen = x.state]
<1>1. x \in StripRecords /\ x.state \in PlayStates /\ Panel(x) /\ PreviewShows(x) /\ Player(x)
  BY DEF StripSound, StripRecords
<1>2. /\ Redrawn(x, b) /\ b.mode = x.mode /\ b.next_label = x.next_label /\ b.skips = x.skips
      /\ x.mode \in Strips!Broadcast => b.sensitive \cap {"stop", "seek"} = {}
      /\ x.mode = "on_air" => "play" \notin b.sensitive
  BY <1>1, ButtonsDrawn
<1> HIDE DEF b
<1>3. b \in StripRecords /\ b.focused = x.focused /\ b.track = x.track
  BY <1>2 DEF Redrawn
<1>4. Panel(b) /\ PreviewShows(b)
  BY <1>1, <1>2 DEF Redrawn, Panel, SwitchesShow, Locked, PreviewShows
<1>5. Player(b) /\ (Begun(b) <=> Begun(x))
  BY <1>1, <1>2, <1>3, PlayerKept DEF Redrawn
<1>6. Kept(x, b) /\ StripSound(b)
  BY <1>3, <1>4, <1>5 DEF Kept, StripSound
<1>7. y \in StripRecords /\ SamePanel(b, y) /\ SamePlayer(b, y)
  BY <1>1, <1>3 DEF StripRecords, SamePanel, SamePlayer
<1> HIDE DEF y
<1>8. Kept(b, y)
  BY <1>6, <1>7, AsideKeeps
<1> QED
  BY <1>6, <1>8, KeptKept DEF b, y

-----------------------------------------------------------------------------
(* The buttons of a strip                                                  *)

LEMMA Modes == {"idle", "preview", "queued", "on_air"} = StripModes /\ Strips!Broadcast = {"queued", "on_air"}
BY DEF StripModes, Strips!Broadcast

LEMMA PlayKeeps == ASSUME NEW x, StripSound(x) PROVE Kept(x, Strips!Play(x))
<1>1. x \in StripRecords /\ Panel(x) /\ Player(x) /\ PreviewShows(x)
  BY DEF StripSound
<1>2. ASSUME x.mode = "queued" PROVE Kept(x, Strips!InMode(x, "on_air"))
  <2>1. x.preview <=> "on_air" = "preview"
    BY <1>1, <1>2 DEF PreviewShows
  <2> QED
    BY <1>1, <2>1, Modes, InModeKeeps
<1> DEFINE z == IF x.mode = "queued" THEN Strips!InMode(x, "on_air") ELSE x
<1>3. Kept(x, z)
  BY <1>2, KeptItself
<1>4. Strips!Play(x) = IF x.state = "playing" THEN x ELSE Strips!Played(z)
  BY DEF Strips!Play
<1> HIDE DEF z
<1>5. Kept(z, Strips!Played(z))
  BY <1>3, PlayedKeeps DEF Kept
<1>6. Kept(x, Strips!Played(z))
  BY <1>3, <1>5, KeptKept
<1> QED
  BY <1>4, <1>6, KeptItself

LEMMA StopKeeps == ASSUME NEW x, StripSound(x) PROVE Kept(x, Strips!Stop(x))
<1> DEFINE s == Strips!Stopped(x)
<1>1. Kept(x, s)
  BY StoppedKeeps
<1>2. s.mode = x.mode
  BY DEF Strips!Stopped, StripSound, StripRecords
<1>3. Strips!Stop(x) = IF x.state = "stopped" THEN x
                       ELSE IF x.mode \in Strips!Broadcast THEN Strips!InMode(s, "idle") ELSE s
  BY DEF Strips!Stop
<1> HIDE DEF s
<1>4. ASSUME x.mode \in Strips!Broadcast PROVE Kept(x, Strips!InMode(s, "idle"))
  <2>1. s \in StripRecords /\ Panel(s) /\ Player(s) /\ (s.preview <=> "idle" = "preview")
    BY <1>1, <1>2, <1>4, Modes DEF Kept, StripSound, PreviewShows
  <2>2. Kept(s, Strips!InMode(s, "idle"))
    BY <2>1, Modes, InModeKeeps
  <2> QED
    BY <1>1, <2>2, KeptKept
<1> QED
  BY <1>1, <1>3, <1>4, KeptItself

\* Pressing play tries a track again that the player did not take.
LEMMA AgainKeeps ==
    ASSUME NEW x, StripSound(x), x.track # 0
    PROVE  Kept(x, Strips!SetTrack(x, x.track))
<1> DEFINE y == Strips!SetTrack(x, x.track)
<1>1. x \in StripRecords /\ PlayerKnows(x) /\ x.track \in Strips!AlbumTracks
  BY AlbumTitles DEF StripSound, Player, StripRecords
<1>2. y \in StripRecords /\ SamePanel(x, y) /\ Player(y)
  BY <1>1, ShownIsSet
<1>3. Begun(x)
  BY DEF Begun
<1> HIDE DEF y
<1> QED
  BY <1>2, <1>3, PlayerMoves DEF y

\* The preview is turned over, and the mode with it.
LEMMA PreviewSet ==
    ASSUME NEW x, StripSound(x), NEW yes \in BOOLEAN
    PROVE  LET y == [x EXCEPT !.preview = yes] IN
           /\ y \in StripRecords /\ Panel(y) /\ Player(y) /\ y.mode = x.mode /\ y.preview = yes
           /\ y.focused = x.focused /\ (Begun(y) => Begun(x))
<1> DEFINE y == [x EXCEPT !.preview = yes]
<1>1. x \in StripRecords /\ Panel(x) /\ Player(x)
  BY DEF StripSound
<1>2. /\ y \in StripRecords /\ SamePlayer(x, y) /\ y.mode = x.mode /\ y.preview = yes
      /\ y.focused = x.focused /\ y.track = x.track /\ y.repeat = x.repeat
      /\ y.autoplay = x.autoplay /\ y.next_label = x.next_label /\ y.end_mode = x.end_mode
      /\ y.sensitive = x.sensitive /\ y.skips = x.skips
  BY <1>1 DEF StripRecords, SamePlayer
<1> HIDE DEF y
<1>3. Panel(y)
  BY <1>1, <1>2 DEF Panel, SwitchesShow, Locked
<1>4. Player(y) /\ (Begun(y) <=> Begun(x))
  BY <1>1, <1>2, PlayerKept
<1> QED
  BY <1>2, <1>3, <1>4 DEF y

LEMMA PreviewModeKeeps ==
    ASSUME NEW x, StripSound(x), NEW yes \in BOOLEAN, NEW mode \in StripModes,
           yes <=> mode = "preview"
    PROVE  Kept(x, Strips!InMode([x EXCEPT !.preview = yes], mode))
<1> DEFINE y == [x EXCEPT !.preview = yes]
<1>1. /\ y \in StripRecords /\ Panel(y) /\ Player(y) /\ y.preview = yes
      /\ y.focused = x.focused /\ (Begun(y) => Begun(x))
  BY PreviewSet
<1> HIDE DEF y
<1> DEFINE z == Strips!InMode(y, mode)
<1>2. Kept(y, z)
  BY <1>1, InModeKeeps
<1> HIDE DEF z
<1> QED
  BY <1>1, <1>2 DEF Kept, y, z

\* The switch is off already where the mode is not preview.
LEMMA PreviewStaysOff ==
    ASSUME NEW x, StripSound(x), x.mode # "preview"
    PROVE  Kept(x, [x EXCEPT !.preview = FALSE])
<1> DEFINE y == [x EXCEPT !.preview = FALSE]
<1>1. /\ y \in StripRecords /\ Panel(y) /\ Player(y) /\ y.mode = x.mode /\ y.preview = FALSE
      /\ y.focused = x.focused /\ (Begun(y) => Begun(x))
  BY PreviewSet
<1> HIDE DEF y
<1> QED
  BY <1>1 DEF Kept, StripSound, PreviewShows, y

LEMMA PreviewOnKeeps == ASSUME NEW x, StripSound(x) PROVE Kept(x, Strips!PreviewOn(x))
<1>1. Kept(x, Strips!InMode([x EXCEPT !.preview = TRUE], "preview"))
  BY Modes, PreviewModeKeeps
<1>2. x.mode \in Strips!Broadcast => Kept(x, [x EXCEPT !.preview = FALSE])
  BY Modes, PreviewStaysOff
<1> QED
  BY <1>1, <1>2 DEF Strips!PreviewOn

LEMMA PreviewOffKeeps == ASSUME NEW x, StripSound(x) PROVE Kept(x, Strips!PreviewOff(x))
<1>1. Kept(x, Strips!InMode([x EXCEPT !.preview = FALSE], "idle"))
  BY Modes, PreviewModeKeeps
<1>2. x.mode # "preview" => Kept(x, [x EXCEPT !.preview = FALSE])
  BY PreviewStaysOff
<1> QED
  BY <1>1, <1>2 DEF Strips!PreviewOff

\* What comes at the end of a track is chosen; the label is drawn anew, or says it already.
LEMMA EndModeIs ==
    ASSUME NEW x, StripSound(x), NEW button \in {"repeat", "autoplay"}
    PROVE  LET y == Strips!EndMode(x, button) IN
           /\ y \in StripRecords /\ SamePlayer(x, y) /\ Locked(y) /\ PreviewShows(y) /\ Player(y)
           /\ (y.repeat <=> y.end_mode = "repeat") /\ (y.autoplay <=> y.end_mode = "autoplay")
           /\ y.focused = x.focused /\ y.track = x.track /\ y.next_label = x.next_label
           /\ button = "autoplay" => y.end_mode # "repeat"
           /\ Begun(y) => Begun(x)
<1> DEFINE m == IF x.repeat \/ x.autoplay THEN "stop" ELSE button
           r == (m = "repeat")
           a == (m = "autoplay")
           y == [x EXCEPT !.end_mode = m, !.repeat = r, !.autoplay = a]
<1>1. x \in StripRecords /\ Panel(x) /\ PreviewShows(x) /\ Player(x)
  BY DEF StripSound
<1>2. m \in {"stop", "repeat", "autoplay"} /\ (button = "autoplay" => m # "repeat")
  OBVIOUS
<1>3. Strips!EndMode(x, button) = y
  BY DEF Strips!EndMode
<1>0. r \in BOOLEAN /\ a \in BOOLEAN /\ (r <=> m = "repeat") /\ (a <=> m = "autoplay")
  OBVIOUS
<1> HIDE DEF m, r, a
<1>4. /\ y \in StripRecords /\ SamePlayer(x, y) /\ y.mode = x.mode /\ y.preview = x.preview
      /\ y.sensitive = x.sensitive /\ y.skips = x.skips /\ y.focused = x.focused
      /\ y.track = x.track /\ y.next_label = x.next_label
      /\ y.end_mode = m /\ y.repeat = r /\ y.autoplay = a
  BY ZenonT(60), <1>1, <1>2, <1>0 DEF StripRecords, SamePlayer
<1> HIDE DEF y
<1>5. Locked(y) /\ PreviewShows(y)
  BY <1>1, <1>4 DEF Panel, Locked, PreviewShows
<1>6. Player(y) /\ (Begun(y) <=> Begun(x))
  BY <1>1, <1>4, PlayerKept
<1> QED
  BY <1>2, <1>3, <1>0, <1>4, <1>5, <1>6

LEMMA EndModeShown ==
    ASSUME NEW x, StripSound(x), NEW button \in {"repeat", "autoplay"}
    PROVE  Kept(x, Strips!Album(Strips!EndMode(x, button)))
<1> DEFINE z == Strips!EndMode(x, button)
           y == Strips!Album(z)
<1>1. /\ z \in StripRecords /\ SamePlayer(x, z) /\ Locked(z) /\ PreviewShows(z) /\ Player(z)
      /\ (z.repeat <=> z.end_mode = "repeat") /\ (z.autoplay <=> z.end_mode = "autoplay")
      /\ z.focused = x.focused /\ (Begun(z) => Begun(x))
  BY EndModeIs
<1> HIDE DEF z
<1>2. /\ Redrawn(z, y) /\ y.mode = z.mode /\ y.sensitive = z.sensitive
      /\ z.mode \in Strips!Broadcast => y.skips = {}
      /\ z.track # 0 => y.next_label = IF z.end_mode = "repeat" THEN Strips!Repeating
                                       ELSE Strips!TrackAfter(z.track)
  BY <1>1, AlbumDrawn
<1> HIDE DEF y
<1>3. Panel(y) /\ PreviewShows(y)
  BY <1>1, <1>2 DEF Redrawn, Panel, SwitchesShow, Locked, PreviewShows
<1>4. Player(y) /\ (Begun(y) <=> Begun(z))
  BY <1>1, <1>2, PlayerKept DEF Redrawn
<1>5. y \in StripRecords /\ y.focused = x.focused
  BY <1>1, <1>2 DEF Redrawn
<1> QED
  BY <1>1, <1>3, <1>4, <1>5 DEF Kept, StripSound, y, z

LEMMA AutoplayKeeps ==
    ASSUME NEW x, StripSound(x)
    PROVE  LET y == Strips!EndMode(x, "autoplay")
           IN  Kept(x, IF x.repeat THEN Strips!Album(y) ELSE y)
<1> DEFINE y == Strips!EndMode(x, "autoplay")
<1>1. Kept(x, Strips!Album(y))
  BY EndModeShown
<1>2. /\ y \in StripRecords /\ SamePlayer(x, y) /\ Locked(y) /\ PreviewShows(y) /\ Player(y)
      /\ (y.repeat <=> y.end_mode = "repeat") /\ (y.autoplay <=> y.end_mode = "autoplay")
      /\ y.focused = x.focused /\ y.track = x.track /\ y.next_label = x.next_label
      /\ y.end_mode # "repeat" /\ (Begun(y) => Begun(x))
  BY EndModeIs
<1> HIDE DEF y
<1>3. ASSUME ~x.repeat PROVE Kept(x, y)
  <2>1. SwitchesShow(x)
    BY DEF StripSound, Panel
  <2>2. SwitchesShow(y)
    BY <1>2, <1>3, <2>1 DEF SwitchesShow
  <2> QED
    BY <1>2, <2>2 DEF Kept, StripSound, Panel
<1> QED
  BY <1>1, <1>3 DEF y

\* A channel is queued, put on air, or taken back.
LEMMA QueuedKeeps ==
    ASSUME NEW x, StripSound(x), NEW double_click \in BOOLEAN
    PROVE  Kept(x, Strips!Queued(x, double_click))
<1>1. x \in StripRecords /\ Panel(x) /\ Player(x) /\ PreviewShows(x) /\ x.mode \in StripModes
  BY DEF StripSound, StripRecords
<1>2. ASSUME x.mode \in Strips!Broadcast PROVE Kept(x, Strips!InMode(x, "idle"))
  <2>1. x.preview <=> "idle" = "preview"
    BY <1>1, <1>2, Modes DEF PreviewShows
  <2> QED
    BY <1>1, <2>1, Modes, InModeKeeps
<1> DEFINE z == IF x.mode = "preview" THEN Strips!PreviewOff(x) ELSE x
           m == IF x.state = "playing" THEN "on_air" ELSE "queued"
<1>3. Kept(x, z) /\ m \in StripModes /\ m # "preview"
  BY PreviewOffKeeps, KeptItself, Modes
<1>4. ~z.preview
  <2>1. CASE x.mode = "preview"
    <3> DEFINE off == [x EXCEPT !.preview = FALSE]
    <3>1. off \in StripRecords /\ Panel(off) /\ off.preview = FALSE
      BY PreviewSet
    <3> HIDE DEF off
    <3>2. Strips!InMode(off, "idle").preview = off.preview
      BY <3>1, Modes, ModeSet
    <3> QED
      BY <2>1, <3>1, <3>2 DEF Strips!PreviewOff, off
  <2>2. CASE x.mode # "preview"
    BY <1>1, <2>2 DEF PreviewShows
  <2> QED
    BY <2>1, <2>2
<1>5. Strips!Queued(x, double_click)
         = IF ~x.device THEN x
           ELSE IF x.mode \in Strips!Broadcast
           THEN IF double_click THEN Strips!InMode(x, "idle") ELSE x
           ELSE Strips!InMode(z, m)
  BY DEF Strips!Queued
<1> HIDE DEF z, m
<1>6. Kept(z, Strips!InMode(z, m))
  BY <1>3, <1>4, InModeKeeps DEF Kept, StripSound
<1>7. Kept(x, Strips!InMode(z, m))
  BY <1>3, <1>6, KeptKept
<1> QED
  BY <1>2, <1>5, <1>7, KeptItself

-----------------------------------------------------------------------------
(* The strips of the window                                                *)

\* A strip in the window: it has the focus as the window has it, and only while it is in the
\* operator's hands; once it has a track the frames are drawn.
StripInWindow(c) ==
    LET x == channels[c] IN
    /\ StripSound(x)
    /\ x.focused <=> focused_channel = c
    /\ x.focused => x.mode \notin Strips!Broadcast
    /\ Begun(x) => update_tick

StripsIInv ==
    /\ channels \in [Channels -> StripRecords]
    /\ focused_channel \in Channels \cup {NoBuffer}
    /\ update_tick \in BOOLEAN
    /\ \A c \in Channels : StripInWindow(c)

LEMMA FocusSet ==
    ASSUME NEW x, StripSound(x), NEW f \in BOOLEAN
    PROVE  LET y == [x EXCEPT !.focused = f] IN
           StripSound(y) /\ y.focused = f /\ y.mode = x.mode /\ (Begun(y) <=> Begun(x))
<1> DEFINE y == [x EXCEPT !.focused = f]
<1>1. x \in StripRecords /\ Panel(x) /\ Player(x) /\ PreviewShows(x)
  BY DEF StripSound
<1>2. /\ y \in StripRecords /\ SamePlayer(x, y) /\ y.mode = x.mode /\ y.preview = x.preview
      /\ y.focused = f /\ y.track = x.track /\ y.repeat = x.repeat
      /\ y.autoplay = x.autoplay /\ y.next_label = x.next_label /\ y.end_mode = x.end_mode
      /\ y.sensitive = x.sensitive /\ y.skips = x.skips
  BY <1>1 DEF StripRecords, SamePlayer
<1> HIDE DEF y
<1>3. Panel(y) /\ PreviewShows(y)
  BY <1>1, <1>2 DEF Panel, SwitchesShow, Locked, PreviewShows
<1>4. Player(y) /\ (Begun(y) <=> Begun(x))
  BY <1>1, <1>2, PlayerKept
<1> QED
  BY <1>2, <1>3, <1>4 DEF StripSound, y

\* A step of one strip, with what the window makes of it.
LEMMA StripBecomes ==
    ASSUME StripsIInv, NEW c \in Channels, NEW x, StripSound(x), x.focused = channels[c].focused,
           Strips!Becomes(c, x), update_tick' \in BOOLEAN, update_tick => update_tick',
           Begun(x) => update_tick'
    PROVE  StripsIInv'
<1> DEFINE loses == /\ focused_channel = c
                    /\ x.mode \in Strips!Broadcast /\ x.mode # channels[c].mode
           f == (x.focused /\ ~loses)
           y == [x EXCEPT !.focused = f]
<1>1. /\ channels' = [channels EXCEPT ![c] = y]
      /\ focused_channel' = IF loses THEN NoBuffer ELSE focused_channel
  BY DEF Strips!Becomes, StripSound, StripRecords
<1>2. StripInWindow(c) /\ NoBuffer \notin Channels
  BY StripsAssumption DEF StripsIInv
<1>3. f \in BOOLEAN
  OBVIOUS
<1>4. f => x.mode \notin Strips!Broadcast
  BY <1>2 DEF StripInWindow
<1>5. f <=> focused_channel' = c
  BY <1>1, <1>2 DEF StripInWindow
<1>6. \A d \in Channels \ {c} : focused_channel = d <=> focused_channel' = d
  BY <1>1, <1>2
<1>7. focused_channel' \in Channels \cup {NoBuffer}
  BY <1>1 DEF StripsIInv
<1> HIDE DEF f, loses
<1>8. StripSound(y) /\ y.focused = f /\ y.mode = x.mode /\ (Begun(y) <=> Begun(x))
  BY <1>3, FocusSet
<1> HIDE DEF y
<1>9. y \in StripRecords
  BY <1>8 DEF StripSound
<1>10. channels' \in [Channels -> StripRecords] /\ channels'[c] = y
       /\ \A d \in Channels \ {c} : channels'[d] = channels[d]
  BY <1>1, <1>9 DEF StripsIInv
<1>11. StripInWindow(c)'
  BY <1>4, <1>5, <1>8, <1>10 DEF StripInWindow
<1>12. ASSUME NEW d \in Channels \ {c} PROVE StripInWindow(d)'
  BY <1>6, <1>10 DEF StripInWindow, StripsIInv
<1> QED
  BY <1>7, <1>10, <1>11, <1>12 DEF StripsIInv

LEMMA StripKept ==
    ASSUME StripsIInv, NEW c \in Channels, NEW x, Kept(channels[c], x), Strips!Becomes(c, x),
           UNCHANGED update_tick
    PROVE  StripsIInv'
<1>1. Begun(channels[c]) => update_tick
  BY DEF StripsIInv, StripInWindow
<1>2. update_tick' \in BOOLEAN
  BY DEF StripsIInv
<1> QED
  BY <1>1, <1>2, StripBecomes DEF Kept

LEMMA StripIsSound ==
    ASSUME StripsIInv, NEW c \in Channels
    PROVE  StripSound(channels[c]) /\ channels[c] \in StripRecords
BY DEF StripsIInv, StripInWindow, StripSound

LEMMA PollStep ==
    ASSUME StripsIInv, NEW c \in Channels, Strips!Poll(c)
    PROVE  StripsIInv'
<1> DEFINE x == channels[c]
<1>1. StripSound(x) /\ x \in StripRecords
  BY StripIsSound
<1>2. PICK decoded \in {FALSE, x.pending}, ready \in {FALSE, x.pending \/ x.next # 0} :
         Strips!Becomes(c, Strips!Advanced(Strips!Attached(Strips!Polled(x, decoded), ready)))
         /\ UNCHANGED update_tick
  BY DEF Strips!Poll
<1>3. decoded \in BOOLEAN /\ ready \in BOOLEAN
  BY <1>1 DEF StripRecords
<1> HIDE DEF x
<1> DEFINE p == Strips!Polled(x, decoded)
<1>4. Kept(x, p) /\ StripSound(p)
  BY <1>1, <1>3, PolledKeeps DEF Kept
<1> HIDE DEF p
<1> DEFINE a == Strips!Attached(p, ready)
<1>5. Kept(x, a) /\ StripSound(a)
  BY <1>3, <1>4, AttachedKeeps, KeptKept DEF Kept
<1> HIDE DEF a
<1> DEFINE y == Strips!Advanced(a)
<1>6. Kept(a, y)
  BY <1>5, AdvancedKeeps
<1> HIDE DEF y
<1>7. Kept(x, y)
  BY <1>5, <1>6, KeptKept
<1>8. Strips!Becomes(c, y) /\ UNCHANGED update_tick
  BY <1>2 DEF y, a, p
<1> QED
  BY <1>7, <1>8, StripKept DEF x

LEMMA PlayPauseStep ==
    ASSUME StripsIInv, NEW c \in Channels, Strips!PlayPause(c)
    PROVE  StripsIInv'
<1> DEFINE x == channels[c]
           again == IF x.track # 0 /\ x.current = 0 THEN Strips!SetTrack(x, x.track) ELSE x
           y == IF x.mode = "queued" THEN Strips!Play(x)
                ELSE IF x.mode = "on_air" THEN x
                ELSE IF x.current = 0 /\ x.track # 0 /\ ~x.active THEN again
                ELSE Strips!Toggled(again)
<1>1. StripSound(x)
  BY StripIsSound
<1>2. Strips!Becomes(c, y) /\ UNCHANGED update_tick
  BY DEF Strips!PlayPause, Strips!Press
<1> HIDE DEF x
<1>3. Kept(x, again) /\ StripSound(again)
  BY <1>1, AgainKeeps, KeptItself DEF Kept
<1> HIDE DEF again
<1>4. Kept(x, Strips!Toggled(again))
  BY <1>3, ToggledKeeps, KeptKept
<1>5. Kept(x, y)
  BY <1>1, <1>3, <1>4, PlayKeeps, KeptItself
<1> HIDE DEF y
<1> QED
  BY <1>2, <1>5, StripKept DEF x

LEMMA SkipStep ==
    ASSUME StripsIInv, NEW c \in Channels, Strips!Skip(c) \/ Strips!NextLabel(c)
    PROVE  StripsIInv'
<1> DEFINE x == channels[c]
<1>1. StripSound(x) /\ x \in StripRecords
  BY StripIsSound
<1>2. Kept(x, Strips!NextTrack(x))
  BY <1>1, NextTrackKeeps DEF StripSound, Player
<1>3. \A late \in BOOLEAN : Kept(x, Strips!PreviousTrack(x, late))
  BY <1>1, PreviousTrackKeeps
<1>4. /\ \/ Strips!Becomes(c, Strips!NextTrack(x))
         \/ \E late \in BOOLEAN : Strips!Becomes(c, Strips!PreviousTrack(x, late))
      /\ UNCHANGED update_tick
  BY DEF Strips!Skip, Strips!NextLabel
<1> QED
  BY <1>2, <1>3, <1>4, StripKept

LEMMA PressStep ==
    ASSUME StripsIInv, NEW c \in Channels,
           \/ Strips!StopPressed(c) \/ Strips!Preview(c) \/ Strips!Repeat(c) \/ Strips!Autoplay(c)
           \/ \E yes \in BOOLEAN : Strips!Queue(c, yes)
    PROVE  StripsIInv'
<1> DEFINE x == channels[c]
           m == Strips!EndMode(x, "autoplay")
<1>1. StripSound(x)
  BY StripIsSound
<1>2. CASE Strips!StopPressed(c)
  BY <1>1, <1>2, StopKeeps, StripKept DEF Strips!StopPressed, Strips!Press
<1>3. CASE Strips!Preview(c)
  <2> DEFINE y == IF x.preview THEN Strips!PreviewOff(x) ELSE Strips!PreviewOn(x)
  <2>1. Kept(x, y)
    BY <1>1, PreviewOnKeeps, PreviewOffKeeps
  <2>2. Strips!Becomes(c, y) /\ UNCHANGED update_tick
    BY <1>3 DEF Strips!Preview, Strips!Press
  <2> HIDE DEF y
  <2> QED
    BY <2>1, <2>2, StripKept
<1>4. CASE Strips!Repeat(c)
  <2>1. Kept(x, Strips!Album(Strips!EndMode(x, "repeat")))
    BY <1>1, EndModeShown
  <2> QED
    BY <1>4, <2>1, StripKept DEF Strips!Repeat, Strips!Press
<1>5. CASE Strips!Autoplay(c)
  <2> DEFINE y == IF x.repeat THEN Strips!Album(m) ELSE m
  <2>1. Kept(x, y)
    BY <1>1, AutoplayKeeps
  <2>2. Strips!Becomes(c, y) /\ UNCHANGED update_tick
    BY <1>5 DEF Strips!Autoplay, Strips!Press
  <2> HIDE DEF y
  <2> QED
    BY <2>1, <2>2, StripKept
<1>6. CASE \E yes \in BOOLEAN : Strips!Queue(c, yes)
  <2>1. PICK yes \in BOOLEAN : Strips!Queue(c, yes)
    BY <1>6
  <2>2. Kept(x, Strips!Queued(x, yes))
    BY <1>1, QueuedKeeps
  <2> QED
    BY <2>1, <2>2, StripKept DEF Strips!Queue, Strips!Press
<1> QED
  BY <1>2, <1>3, <1>4, <1>5, <1>6

LEMMA CommandStep ==
    ASSUME StripsIInv, NEW c \in Channels,
           NEW command \in {"play_pause", "preview", "on_air", "skip"}, Strips!Command(c, command)
    PROVE  StripsIInv'
<1> DEFINE x == channels[c]
           s == IF x.state = "playing" THEN Strips!Stop(x) ELSE Strips!Play(x)
           p == IF x.mode = "preview" THEN Strips!PreviewOff(x) ELSE Strips!PreviewOn(x)
<1>1. StripSound(x) /\ x \in StripRecords
  BY StripIsSound
<1>2. Kept(x, s) /\ Kept(x, p) /\ Kept(x, Strips!Play(x)) /\ Kept(x, Strips!NextTrack(x))
  BY <1>1, StopKeeps, PlayKeeps, PreviewOnKeeps, PreviewOffKeeps, NextTrackKeeps
     DEF StripSound, Player
<1>3. /\ \/ Strips!Becomes(c, s) \/ Strips!Becomes(c, p) \/ Strips!Becomes(c, Strips!Play(x))
         \/ Strips!Becomes(c, Strips!NextTrack(x))
      /\ UNCHANGED update_tick
  BY DEF Strips!Command
<1> HIDE DEF s, p
<1> QED
  BY <1>2, <1>3, StripKept

\* The pipeline, the devices and the frames.
LEMMA BelowStep ==
    ASSUME StripsIInv, NEW c \in Channels,
           \/ Strips!Device(c) \/ Strips!TrackEnds(c) \/ Strips!Streams(c) \/ Strips!Frame(c)
           \/ \E yes \in BOOLEAN : Strips!FunctionKey(c, yes)
    PROVE  StripsIInv'
<1> DEFINE x == channels[c]
<1>1. StripSound(x)
  BY StripIsSound
<1>2. CASE Strips!Device(c)
  <2>1. PICK valid \in BOOLEAN : Strips!DeviceState(c, valid)
    BY <1>2 DEF Strips!Device, Strips!ControllerStatus, Strips!DevicesListed, Strips!DeviceChosen
  <2> DEFINE y == [x EXCEPT !.device = valid]
  <2>2. Kept(x, y)
    BY <1>1, DeviceKeeps
  <2>3. Strips!Becomes(c, y) /\ UNCHANGED update_tick
    BY <2>1 DEF Strips!DeviceState
  <2> HIDE DEF y
  <2> QED
    BY <2>2, <2>3, StripKept
<1>3. CASE Strips!TrackEnds(c)
  <2>1. Kept(x, Ended(x))
    BY <1>1, <1>3, EndedKeeps DEF Strips!TrackEnds
  <2>2. Strips!Becomes(c, Ended(x)) /\ UNCHANGED update_tick
    BY <1>3 DEF Strips!TrackEnds, Ended
  <2> QED
    BY <2>1, <2>2, StripKept
<1>4. CASE Strips!Streams(c)
  <2> DEFINE y == [Strips!Stopped(x) EXCEPT !.active = FALSE]
             z == [x EXCEPT !.active = TRUE]
  <2>1. Kept(x, y) /\ Kept(x, z)
    BY <1>1, StreamsKeep
  <2>2. (Strips!Becomes(c, y) \/ Strips!Becomes(c, z)) /\ UNCHANGED update_tick
    BY <1>4 DEF Strips!Streams
  <2> HIDE DEF y, z
  <2> QED
    BY <2>1, <2>2, StripKept
<1>5. CASE Strips!Frame(c)
  <2> DEFINE y == [Strips!Buttons(x, x.state) EXCEPT !.seen = x.state]
  <2>1. Kept(x, y)
    BY <1>1, FrameKeeps
  <2>2. Strips!Becomes(c, y) /\ UNCHANGED update_tick
    BY <1>5 DEF Strips!Frame
  <2> HIDE DEF y
  <2> QED
    BY <2>1, <2>2, StripKept
<1>6. CASE \E yes \in BOOLEAN : Strips!FunctionKey(c, yes)
  <2>1. (Strips!Becomes(c, Strips!Stopped(x)) \/ Strips!Becomes(c, Strips!Played(x)))
        /\ UNCHANGED update_tick
    BY <1>6 DEF Strips!FunctionKey
  <2> QED
    BY <1>1, <2>1, StoppedKeeps, PlayedKeeps, StripKept
<1> QED
  BY <1>2, <1>3, <1>4, <1>5, <1>6

LEMMA LoadStep ==
    ASSUME StripsIInv, NEW c \in Channels, NEW t \in Strips!AlbumTracks, Strips!Load(c, t)
    PROVE  StripsIInv'
<1> DEFINE y == Strips!Loaded(channels[c], t)
<1>1. StripSound(y) /\ y.focused = channels[c].focused
  BY StripIsSound, LoadedKeeps
<1>2. Strips!Becomes(c, y) /\ update_tick' = TRUE
  BY DEF Strips!Load
<1> HIDE DEF y
<1> QED
  BY <1>1, <1>2, StripBecomes

LEMMA FocusStep ==
    ASSUME StripsIInv, NEW c \in Channels, Strips!Focus(c)
    PROVE  StripsIInv'
<1> DEFINE new(d) == [channels[d] EXCEPT !.focused = (d = focused_channel')]
<1>1. /\ channels[c].mode \notin Strips!Broadcast
      /\ focused_channel' \in {NoBuffer, c}
      /\ channels' = [d \in Channels |-> new(d)]
      /\ update_tick' = update_tick
  BY DEF Strips!Focus, Strips!Active
<1>2. NoBuffer \notin Channels
  BY StripsAssumption
<1>3. ASSUME NEW d \in Channels PROVE StripInWindow(d)' /\ channels'[d] \in StripRecords
  <2> DEFINE x == channels[d]
             f == (d = focused_channel')
             y == [x EXCEPT !.focused = f]
  <2>1. StripSound(x) /\ (Begun(x) => update_tick)
    BY DEF StripsIInv, StripInWindow
  <2>2. f \in BOOLEAN /\ (f <=> focused_channel' = d) /\ (f => d = c)
    BY <1>1, <1>2
  <2>3. channels'[d] = y
    BY <1>1
  <2> HIDE DEF f
  <2>4. StripSound(y) /\ y.focused = f /\ y.mode = x.mode /\ (Begun(y) <=> Begun(x))
    BY <2>1, <2>2, FocusSet
  <2> HIDE DEF y
  <2>5. y \in StripRecords
    BY <2>4 DEF StripSound
  <2> QED
    BY <1>1, <2>1, <2>2, <2>3, <2>4, <2>5 DEF StripInWindow
<1>4. channels' \in [Channels -> StripRecords]
  BY <1>1, <1>3
<1> QED
  BY <1>1, <1>3, <1>4 DEF StripsIInv

LEMMA StripsStep ==
    ASSUME StripsIInv, Strips!Next
    PROVE  StripsIInv'
<1>1. Followed \subseteq Channels
  BY StripsAssumption
<1>2. CASE \E c \in Channels : Strips!Focus(c)
  BY <1>2, FocusStep
<1>3. CASE \E t \in Strips!AlbumTracks : Strips!Activate(t)
  BY <1>1, <1>3, LoadStep DEF Strips!Activate
<1>4. CASE \E c \in Followed :
              \/ Strips!PlayPause(c) \/ Strips!StopPressed(c) \/ Strips!Preview(c) \/ Strips!Repeat(c)
              \/ Strips!Autoplay(c) \/ Strips!NextLabel(c) \/ Strips!Skip(c) \/ Strips!Device(c)
              \/ Strips!Poll(c) \/ Strips!TrackEnds(c) \/ Strips!Streams(c) \/ Strips!Frame(c)
  BY <1>1, <1>4, PlayPauseStep, PressStep, SkipStep, BelowStep, PollStep
<1>5. CASE \E c \in Followed : \E t \in Strips!AlbumTracks : Strips!Load(c, t)
  BY <1>1, <1>5, LoadStep
<1>6. CASE \E c \in Followed : \E yes \in BOOLEAN : Strips!Queue(c, yes) \/ Strips!FunctionKey(c, yes)
  BY <1>1, <1>6, PressStep, BelowStep
<1>7. CASE \E c \in Followed : \E command \in {"play_pause", "preview", "on_air", "skip"} :
              Strips!Command(c, command)
  BY <1>1, <1>7, CommandStep
<1> QED
  BY <1>2, <1>3, <1>4, <1>5, <1>6, <1>7 DEF Strips!Next

LEMMA StripsStart == Strips!Init => StripsIInv
<1> SUFFICES ASSUME Strips!Init PROVE StripsIInv
  OBVIOUS
<1> DEFINE w(a) == [track |-> 0, device |-> TRUE, mode |-> "idle", preview |-> FALSE,
             repeat |-> FALSE, autoplay |-> TRUE, next_label |-> 0,
             sensitive |-> DOMAIN Strips!Rules,
             skips |-> {}, seen |-> "stopped", focused |-> FALSE, refused |-> FALSE,
             state |-> "stopped", current |-> 0, buffer |-> FALSE, pending |-> FALSE,
             active |-> a, end_mode |-> "autoplay", next |-> 0, next_ready |-> FALSE,
             advance |-> FALSE, old |-> FALSE]
<1>1. PICK a \in BOOLEAN : channels = [c \in Channels |-> w(a)]
  BY DEF Strips!Init
<1>2. focused_channel = NoBuffer /\ update_tick = FALSE /\ NoBuffer \notin Channels
  BY StripsAssumption DEF Strips!Init
<1>3. DOMAIN Strips!Rules = {"play", "stop", "end", "seek", "queue"} /\ 0 \in Titles
  BY StripsAssumption DEF Strips!Rules, Titles
<1>4. w(a) \in StripRecords
  BY <1>3 DEF StripRecords, StripModes, PlayStates
<1>5. StripSound(w(a)) /\ ~Begun(w(a)) /\ ~w(a).focused
  BY <1>4 DEF StripSound, Panel, SwitchesShow, Locked, PreviewShows, Player, PlayerKnows, StripShows,
              Begun, Strips!Broadcast
<1> HIDE DEF w
<1> QED
  BY <1>1, <1>2, <1>4, <1>5 DEF StripsIInv, StripInWindow

LEMMA StripsFollow == ASSUME StripsIInv PROVE Strips!StripsSound
<1> SUFFICES ASSUME NEW c \in Channels
             PROVE  LET x == channels[c] IN
                    /\ x.preview <=> x.mode = "preview"
                    /\ SwitchesShow(x) /\ Locked(x)
                    /\ x.focused <=> focused_channel = c
                    /\ x.focused => x.mode \notin Strips!Broadcast
                    /\ x.current \notin {0, x.track} =>
                         x.advance \/ x.refused
                         \/ (x.pending /\ x.current = Strips!TrackAfter(x.track))
                    /\ x.track # 0 => update_tick
  BY DEF Strips!StripsSound, Strips!ButtonsFollow, Strips!BroadcastIsLocked, Strips!FocusSound,
         Strips!DisplayFollows, SwitchesShow, Locked
<1>1. StripInWindow(c)
  BY DEF StripsIInv
<1> QED
  BY <1>1 DEF StripInWindow, StripSound, Panel, PreviewShows, Player, StripShows, Begun

-----------------------------------------------------------------------------
(* The controls of a strip                                                 *)

\* The controls by themselves, and what makes them inductive: only a track that ended is taken as an
\* advance, one that is decoded is the one that is shown unless the player went on by itself, and the
\* strip knows no length that the player does not.
ControlRecords ==
    /\ strip \in [track : Nat, length : BOOLEAN, estimate : BOOLEAN, deferred : Nat,
                  shuttle_mode : {"off", "keylock", "pitched"}, slider : Controls!Slider,
                  scale : BOOLEAN, locked : BOOLEAN]
    /\ player \in [current : Nat, buffer : BOOLEAN, pending : BOOLEAN, length : BOOLEAN,
                   ends : BOOLEAN, speed : {"off", "keylock", "pitched"} \X Controls!Slider]
    /\ missed \in BOOLEAN /\ lost \in BOOLEAN /\ moved_on \in BOOLEAN
ControlsIInv ==
    /\ ControlRecords /\ Controls!ControlsSound
    /\ player.ends => moved_on
    /\ player.pending /\ ~moved_on => player.current = strip.track
    /\ strip.length => player.length

LEMMA SpeedIs ==
    ASSUME NEW slider \in Controls!Slider, NEW mode \in {"off", "keylock", "pitched"}
    PROVE  Controls!SpeedOf(slider, mode) \in {"off", "keylock", "pitched"} \X Controls!Slider
BY DEF Controls!SpeedOf, Controls!Slider

\* A change of the slider or of its mode.
Shuttles(slider, mode, scale) ==
    /\ strip' = [strip EXCEPT !.slider = slider, !.shuttle_mode = mode, !.scale = scale]
    /\ Controls!SetSpeed(Controls!SpeedOf(slider, mode))

LEMMA ShuttleStep ==
    ASSUME ControlsIInv, NEW slider \in Controls!Slider, NEW mode \in {"off", "keylock", "pitched"},
           NEW scale \in BOOLEAN, strip.locked => ~scale,
           Shuttles(slider, mode, scale)
    PROVE  ControlsIInv'
<1> DEFINE speed == Controls!SpeedOf(slider, mode)
<1>1. speed \in {"off", "keylock", "pitched"} \X Controls!Slider
  BY SpeedIs
<1>2. /\ player' = IF player.buffer THEN [player EXCEPT !.speed = speed] ELSE player
      /\ missed' = ~player.buffer /\ lost' = lost /\ moved_on' = moved_on
  BY DEF Shuttles, Controls!SetSpeed
<1>3. /\ strip'.slider = slider /\ strip'.shuttle_mode = mode /\ strip'.scale = scale
      /\ strip'.track = strip.track /\ strip'.length = strip.length
      /\ strip'.deferred = strip.deferred /\ strip'.locked = strip.locked
  BY DEF Shuttles, ControlsIInv, ControlRecords
<1>4. missed' \/ player'.speed = Controls!SpeedOf(strip'.slider, strip'.shuttle_mode)
  BY <1>2, <1>3 DEF ControlsIInv, ControlRecords
<1> HIDE DEF speed
<1>5. /\ player'.current = player.current /\ player'.buffer = player.buffer
      /\ player'.pending = player.pending /\ player'.length = player.length
      /\ player'.ends = player.ends
  BY <1>2 DEF ControlsIInv, ControlRecords
<1>6. ControlRecords'
  <2>1. strip' \in [track : Nat, length : BOOLEAN, estimate : BOOLEAN, deferred : Nat,
                    shuttle_mode : {"off", "keylock", "pitched"}, slider : Controls!Slider,
                    scale : BOOLEAN, locked : BOOLEAN]
    BY DEF Shuttles, ControlsIInv, ControlRecords
  <2>2. player' \in [current : Nat, buffer : BOOLEAN, pending : BOOLEAN, length : BOOLEAN,
                     ends : BOOLEAN, speed : {"off", "keylock", "pitched"} \X Controls!Slider]
    BY <1>1, <1>2 DEF ControlsIInv, ControlRecords
  <2>3. missed' \in BOOLEAN /\ lost' \in BOOLEAN /\ moved_on' \in BOOLEAN
    BY <1>2 DEF ControlsIInv, ControlRecords
  <2> QED
    BY <2>1, <2>2, <2>3 DEF ControlRecords
<1> QED
  BY <1>2, <1>3, <1>4, <1>5, <1>6
     DEF ControlsIInv, Controls!ControlsSound, Controls!SpeedFollows, Controls!SeeksFollow,
         Controls!ScaleLocked

\* A track is chosen.
LEMMA ChooseStep ==
    ASSUME ControlsIInv, NEW t \in Nat, NEW known \in BOOLEAN, NEW scale \in BOOLEAN,
           strip.locked => ~scale, Controls!Choose(t, known, scale)
    PROVE  ControlsIInv'
<1>1. /\ strip' = [strip EXCEPT !.track = t, !.estimate = known, !.deferred = 0,
                                !.length = player.length, !.scale = scale]
      /\ player' = [player EXCEPT !.current = t, !.buffer = FALSE, !.pending = TRUE, !.ends = FALSE]
      /\ moved_on' = FALSE /\ lost' = FALSE /\ missed' = missed
  BY DEF Controls!Choose
<1>2. /\ strip'.track = t /\ strip'.deferred = 0 /\ strip'.length = player.length
      /\ strip'.scale = scale /\ strip'.slider = strip.slider /\ strip'.locked = strip.locked
      /\ strip'.shuttle_mode = strip.shuttle_mode
  BY <1>1 DEF ControlsIInv, ControlRecords
<1>3. /\ player'.current = t /\ player'.speed = player.speed /\ player'.length = player.length
      /\ player'.ends = FALSE
  BY <1>1 DEF ControlsIInv, ControlRecords
<1>4. ControlRecords'
  BY <1>1 DEF ControlsIInv, ControlRecords
<1> QED
  BY <1>1, <1>2, <1>3, <1>4
     DEF ControlsIInv, Controls!ControlsSound, Controls!SpeedFollows, Controls!SeeksFollow,
         Controls!ScaleLocked

LEMMA MoveSliderStep ==
    ASSUME ControlsIInv, NEW v \in Controls!Slider, Controls!MoveSlider(v)
    PROVE  ControlsIInv'
<1>1. strip' = [strip EXCEPT !.slider = v, !.shuttle_mode = strip.shuttle_mode, !.scale = strip.scale]
  BY DEF Controls!MoveSlider, ControlsIInv, ControlRecords
<1>2. Controls!SetSpeed(Controls!SpeedOf(v, strip.shuttle_mode))
  BY DEF Controls!MoveSlider, Controls!ValueChanged
<1>3. /\ strip.shuttle_mode \in {"off", "keylock", "pitched"} /\ strip.scale \in BOOLEAN
      /\ strip.locked => ~strip.scale
  BY DEF ControlsIInv, ControlRecords, Controls!ControlsSound, Controls!ScaleLocked
<1>4. Shuttles(v, strip.shuttle_mode, strip.scale)
  BY <1>1, <1>2 DEF Shuttles
<1> QED
  BY <1>3, <1>4, ShuttleStep

LEMMA ResetSliderStep ==
    ASSUME ControlsIInv, Controls!ResetSlider
    PROVE  ControlsIInv'
<1>1. strip' = [strip EXCEPT !.slider = 0, !.shuttle_mode = strip.shuttle_mode, !.scale = strip.scale]
  BY DEF Controls!ResetSlider, ControlsIInv, ControlRecords
<1>2. Controls!SpeedOf(0, "off") = Controls!SpeedOf(0, strip.shuttle_mode) /\ 0 \in Controls!Slider
  BY DEF Controls!SpeedOf, Controls!Slider
<1>3. Controls!SetSpeed(Controls!SpeedOf(0, strip.shuttle_mode))
  BY <1>2 DEF Controls!ResetSlider
<1>4. /\ strip.shuttle_mode \in {"off", "keylock", "pitched"} /\ strip.scale \in BOOLEAN
      /\ strip.locked => ~strip.scale
  BY DEF ControlsIInv, ControlRecords, Controls!ControlsSound, Controls!ScaleLocked
<1>5. Shuttles(0, strip.shuttle_mode, strip.scale)
  BY <1>1, <1>3 DEF Shuttles
<1> QED
  BY <1>2, <1>4, <1>5, ShuttleStep

LEMMA ClickShuttleModeStep ==
    ASSUME ControlsIInv, Controls!ClickShuttleMode
    PROVE  ControlsIInv'
<1> DEFINE mode == Controls!NextShuttle[strip.shuttle_mode]
           slider == IF mode = "off" THEN 0 ELSE strip.slider
           scale == (mode # "off" /\ ~strip.locked)
<1>1. mode \in {"off", "keylock", "pitched"}
  BY DEF ControlsIInv, ControlRecords, Controls!NextShuttle
<1>2. slider \in Controls!Slider /\ scale \in BOOLEAN /\ (strip.locked => ~scale)
  BY DEF ControlsIInv, ControlRecords, Controls!Slider
<1>3. Shuttles(slider, mode, scale)
  BY DEF Shuttles, Controls!ClickShuttleMode, ControlsIInv, ControlRecords
<1> HIDE DEF mode, slider, scale
<1> QED
  BY <1>1, <1>2, <1>3, ShuttleStep

\* A channel is taken out of the operator's hands, or given back.
LEMMA RefreshStep ==
    ASSUME ControlsIInv, NEW yes \in BOOLEAN, Controls!Refresh(yes)
    PROVE  ControlsIInv'
<1> DEFINE s == (~yes /\ strip.track # 0)
<1>1. strip' = [strip EXCEPT !.locked = yes, !.scale = s] /\ UNCHANGED <<player, missed, lost, moved_on>>
  BY DEF Controls!Refresh
<1>2. s \in BOOLEAN /\ (yes => ~s)
  OBVIOUS
<1> HIDE DEF s
<1>3. ControlRecords'
  BY <1>1, <1>2 DEF ControlsIInv, ControlRecords
<1>4. /\ strip'.track = strip.track /\ strip'.length = strip.length
      /\ strip'.deferred = strip.deferred /\ strip'.slider = strip.slider
      /\ strip'.shuttle_mode = strip.shuttle_mode /\ strip'.scale = s
      /\ strip'.locked = yes
  BY <1>1 DEF ControlsIInv, ControlRecords
<1> QED
  BY <1>1, <1>2, <1>3, <1>4
     DEF ControlsIInv, Controls!ControlsSound, Controls!SpeedFollows, Controls!SeeksFollow,
         Controls!ScaleLocked

\* The seeks and the frames.
LEMMA SeekStep ==
    ASSUME ControlsIInv,
           Controls!SeekBar \/ Controls!SkipSeconds \/ Controls!Frame
    PROVE  ControlsIInv'
<1> USE DEF ControlsIInv, Controls!ControlsSound, Controls!SpeedFollows, Controls!SeeksFollow,
            Controls!ScaleLocked
<1>1. CASE Controls!SeekBar
  <2>1. UNCHANGED <<player, missed, moved_on>>
    BY <1>1 DEF Controls!SeekBar
  <2>2. CASE strip.length
    <3>1. strip' = strip /\ lost' = ~player.buffer
      BY <1>1, <2>2 DEF Controls!SeekBar, Controls!Seek
    <3>2. ControlRecords'
      BY <2>1, <3>1 DEF ControlRecords
    <3> QED
      BY <2>1, <2>2, <3>1, <3>2
  <2>3. CASE ~strip.length
    <3>1. /\ strip' = IF strip.estimate THEN [strip EXCEPT !.deferred = strip.track] ELSE strip
          /\ lost' = FALSE
      BY <1>1, <2>3 DEF Controls!SeekBar
    <3>2. ControlRecords'
      BY <2>1, <3>1 DEF ControlRecords
    <3>3. /\ strip'.track = strip.track /\ strip'.length = strip.length
          /\ strip'.deferred \in {strip.deferred, strip.track} /\ strip'.slider = strip.slider
          /\ strip'.shuttle_mode = strip.shuttle_mode /\ strip'.scale = strip.scale
          /\ strip'.locked = strip.locked
      BY <3>1 DEF ControlRecords
    <3> QED
      BY <2>1, <3>1, <3>2, <3>3
  <2> QED
    BY <2>2, <2>3
<1>2. CASE Controls!SkipSeconds
  <2>1. UNCHANGED <<strip, player, missed, moved_on>> /\ player.length /\ lost' = ~player.buffer
    BY <1>2 DEF Controls!SkipSeconds, Controls!Seek
  <2>2. ControlRecords'
    BY <2>1 DEF ControlRecords
  <2> QED
    BY <2>1, <2>2
<1>3. CASE Controls!Frame
  <2> DEFINE e == (strip.estimate /\ ~player.length)
             d == IF player.length THEN 0 ELSE strip.deferred
  <2>1. /\ strip' = [strip EXCEPT !.length = player.length, !.estimate = e, !.deferred = d]
        /\ UNCHANGED <<player, missed, moved_on>>
        /\ lost' \in {lost, ~player.buffer}
        /\ lost' # lost => player.length
    BY <1>3 DEF Controls!Frame, Controls!Seek, ControlRecords
  <2>2. e \in BOOLEAN /\ d \in Nat /\ d \in {0, strip.deferred}
    BY DEF ControlRecords
  <2> HIDE DEF e, d
  <2>3. ControlRecords'
    BY <2>1, <2>2 DEF ControlRecords
  <2>4. /\ strip'.track = strip.track /\ strip'.length = player.length
        /\ strip'.deferred = d /\ strip'.slider = strip.slider
        /\ strip'.shuttle_mode = strip.shuttle_mode /\ strip'.scale = strip.scale
        /\ strip'.locked = strip.locked
    BY <2>1 DEF ControlRecords
  <2> QED
    BY <2>1, <2>2, <2>3, <2>4
<1> QED
  BY <1>1, <1>2, <1>3

\* The player attaches a track, ends it and goes on.
LEMMA PlayerStep ==
    ASSUME ControlsIInv,
           Controls!Attach \/ Controls!Advance \/ \E yes \in BOOLEAN : Controls!EndTrack(yes)
    PROVE  ControlsIInv'
<1> USE DEF ControlsIInv, Controls!ControlsSound, Controls!SpeedFollows, Controls!SeeksFollow,
            Controls!ScaleLocked
<1>1. CASE Controls!Attach
  <2>1. /\ player.pending
        /\ player' = [player EXCEPT !.pending = FALSE, !.buffer = TRUE, !.length = TRUE]
        /\ strip' = [strip EXCEPT !.track = player.current, !.length = TRUE]
        /\ UNCHANGED <<missed, lost, moved_on>>
    BY <1>1 DEF Controls!Attach
  <2>2. ControlRecords'
    BY <2>1 DEF ControlRecords
  <2>3. /\ strip'.track = player.current /\ strip'.deferred = strip.deferred
        /\ strip'.slider = strip.slider /\ strip'.shuttle_mode = strip.shuttle_mode
        /\ strip'.scale = strip.scale /\ strip'.locked = strip.locked
        /\ player'.speed = player.speed /\ player'.length /\ ~player'.pending
        /\ player'.ends = player.ends
    BY <2>1 DEF ControlRecords
  <2> QED
    BY <2>1, <2>2, <2>3
<1>2. CASE Controls!Advance
  <2>0. moved_on /\ UNCHANGED <<missed, lost, moved_on>>
    BY <1>2 DEF Controls!Advance
  <2>1. CASE player.buffer
    <3>1. /\ player' = [player EXCEPT !.ends = FALSE]
          /\ strip' = [strip EXCEPT !.track = player.current, !.length = player.length]
      BY <1>2, <2>1 DEF Controls!Advance
    <3>2. ControlRecords'
      BY <2>0, <3>1 DEF ControlRecords
    <3>3. /\ strip'.length = player.length
          /\ strip'.slider = strip.slider /\ strip'.shuttle_mode = strip.shuttle_mode
          /\ strip'.scale = strip.scale /\ strip'.locked = strip.locked
          /\ player'.speed = player.speed /\ player'.length = player.length
      BY <3>1 DEF ControlRecords
    <3> QED
      BY <2>0, <3>2, <3>3
  <2>2. CASE ~player.buffer
    <3> DEFINE n == player.current + 1
    <3>1. /\ player' = [player EXCEPT !.ends = FALSE, !.current = n, !.pending = TRUE]
          /\ strip' = strip /\ n \in Nat
      BY <1>2, <2>2 DEF Controls!Advance, ControlRecords
    <3> HIDE DEF n
    <3>2. ControlRecords'
      BY <2>0, <3>1 DEF ControlRecords
    <3>3. player'.speed = player.speed /\ player'.length = player.length
      BY <3>1 DEF ControlRecords
    <3> QED
      BY <2>0, <3>1, <3>2, <3>3
  <2> QED
    BY <2>1, <2>2
<1>3. CASE \E yes \in BOOLEAN : Controls!EndTrack(yes)
  <2> DEFINE n == player.current + 1
  <2>1. /\ \/ player' = [player EXCEPT !.current = n, !.ends = TRUE]
           \/ player' = [player EXCEPT !.buffer = FALSE, !.ends = TRUE]
        /\ moved_on' = TRUE /\ UNCHANGED <<strip, missed, lost>> /\ n \in Nat
    BY <1>3 DEF Controls!EndTrack, ControlRecords
  <2> HIDE DEF n
  <2>2. ControlRecords'
    BY <2>1 DEF ControlRecords
  <2>3. player'.speed = player.speed /\ player'.length = player.length
    BY <2>1 DEF ControlRecords
  <2> QED
    BY <2>1, <2>2, <2>3
<1> QED
  BY <1>1, <1>2, <1>3

LEMMA ControlsStep ==
    ASSUME ControlsIInv, Controls!Next
    PROVE  ControlsIInv'
<1>1. /\ strip.track \in Nat /\ strip.scale \in BOOLEAN /\ (strip.locked => ~strip.scale)
      /\ LastTrack \in Nat
  BY StripsAssumption DEF ControlsIInv, ControlRecords, Controls!ControlsSound, Controls!ScaleLocked
<1>2. ASSUME NEW yes \in BOOLEAN, NEW t \in 1 .. LastTrack, Controls!Load(t, yes)
      PROVE  ControlsIInv'
  <2>1. PICK scale \in BOOLEAN : scale = TRUE
    OBVIOUS
  <2>2. ~strip.locked /\ Controls!Choose(t, yes, TRUE)
    BY <1>2 DEF Controls!Load
  <2>3. Controls!Choose(t, yes, scale)
    BY <2>1, <2>2, Zenon
  <2>4. t \in Nat
    BY <1>1
  <2> QED
    BY <2>2, <2>3, <2>4, ChooseStep
<1>3. ASSUME NEW yes \in BOOLEAN, NEW t \in 1 .. LastTrack, Controls!Step(t, yes)
      PROVE  ControlsIInv'
  BY <1>1, <1>3, ChooseStep DEF Controls!Step
<1>4. ASSUME NEW yes \in BOOLEAN, Controls!Fail(yes)
      PROVE  ControlsIInv'
  <2>1. PICK t \in Nat : t = strip.track + 1
    BY <1>1
  <2> QED
    BY <1>1, <1>4, <2>1, ChooseStep DEF Controls!Fail
<1> QED
  BY <1>2, <1>3, <1>4, MoveSliderStep, ResetSliderStep, ClickShuttleModeStep, RefreshStep, SeekStep, PlayerStep
     DEF Controls!Next

LEMMA ControlsStart == Controls!Init => ControlsIInv
<1> SUFFICES ASSUME Controls!Init PROVE ControlsIInv
  OBVIOUS
<1>1. strip \in [track : Nat, length : BOOLEAN, estimate : BOOLEAN, deferred : Nat,
                shuttle_mode : {"off", "keylock", "pitched"}, slider : Controls!Slider,
                scale : BOOLEAN, locked : BOOLEAN]
  BY DEF Controls!Init, Controls!Slider
<1>2. <<"off", 0>> \in {"off", "keylock", "pitched"} \X Controls!Slider
  BY DEF Controls!Slider
<1>3. player \in [current : Nat, buffer : BOOLEAN, pending : BOOLEAN, length : BOOLEAN,
                 ends : BOOLEAN, speed : {"off", "keylock", "pitched"} \X Controls!Slider]
  BY <1>2 DEF Controls!Init
<1>4. Controls!SpeedOf(strip.slider, strip.shuttle_mode) = <<"off", 0>>
  BY DEF Controls!Init, Controls!SpeedOf
<1>5. player.speed = <<"off", 0>> /\ ~player.ends /\ ~player.pending
  BY DEF Controls!Init
<1>6. strip.deferred = 0 /\ ~strip.locked /\ ~strip.length /\ ~missed /\ ~lost /\ ~moved_on
      /\ missed \in BOOLEAN /\ lost \in BOOLEAN /\ moved_on \in BOOLEAN
  BY DEF Controls!Init
<1> QED
  BY <1>1, <1>3, <1>4, <1>5, <1>6
     DEF ControlsIInv, ControlRecords, Controls!ControlsSound, Controls!SpeedFollows,
         Controls!SeeksFollow, Controls!ScaleLocked

-----------------------------------------------------------------------------

\* What a strip shows follows what it is about, however the tracks end, fail and are chosen, the
\* streams come and go, the devices change, and keys, buttons and controller take turns: its buttons
\* and its track the player and the mode, its focus the window, its seeks and its speed the track that
\* plays.
THEOREM ChannelsAlwaysFollow == PartsSpec => []ChannelsFollow
<1> DEFINE Inv == StripsIInv /\ ControlsIInv
<1>1. PartsInit => Inv
  BY StripsStart, ControlsStart DEF PartsInit
<1>2. Inv /\ [PartsNext]_<<part, vars, strips, controls>> => Inv'
  <2> SUFFICES ASSUME Inv, [PartsNext]_<<part, vars, strips, controls>> PROVE Inv'
    OBVIOUS
  <2>1. UNCHANGED strips => StripsIInv'
    BY DEF strips, StripsIInv, StripInWindow
  <2>2. UNCHANGED controls => ControlsIInv'
    BY DEF controls, ControlsIInv, ControlRecords, Controls!ControlsSound, Controls!SpeedFollows,
           Controls!SeeksFollow, Controls!ScaleLocked
  <2>3. \/ UNCHANGED <<strips, controls>>
        \/ Strips!Next /\ UNCHANGED controls
        \/ Controls!Next /\ UNCHANGED strips
    BY DEF PartsNext
  <2> QED
    BY <2>1, <2>2, <2>3, StripsStep, ControlsStep
<1>3. Inv => ChannelsFollow
  BY StripsFollow DEF ChannelsFollow, ControlsIInv
<1> QED
  BY <1>1, <1>2, <1>3, PTL DEF PartsSpec

=============================================================================
