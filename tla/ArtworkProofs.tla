---------------------------- MODULE ArtworkProofs ----------------------------
(***************************************************************************)
(* Theorems about the four parts of MCArtwork, for any albums, artists,    *)
(* libraries, windows, workers, limits and sizes of cache: what the        *)
(* properties of the run say holds in every behaviour of PartsSpec, which  *)
(* is the run's specification without its fairness.                        *)
(*                                                                         *)
(* Each part has an inductive invariant of its own, and a step of another  *)
(* part leaves its variables alone (PartsMove).  The manager's follows a   *)
(* request by its number (RequestsCounted) and a load by its key           *)
(* (LoadsCounted); so the first sections are about how often something     *)
(* occurs in a sequence that loses its head or gains an element.  That of  *)
(* the atlas of albums says what the builder has taken over of the file    *)
(* (AtlasCarried, AtlasPromoted) and what is still to be told (AtlasTold); *)
(* that of the artists, who holds the lock and what was read under it; of  *)
(* the biographies, which results are still to come (BioCounted) and what  *)
(* an open transaction holds (BioUnwritten, BioRight).                     *)
(***************************************************************************)
EXTENDS MCArtwork, FiniteSetTheorems, FunctionTheorems, SequenceTheorems,
        WellFoundedInduction, TLAPS

\* The numbers from 1 to n are n.
LEMMA IntervalSize ==
  ASSUME NEW n \in Nat
  PROVE  IsFiniteSet(1 .. n) /\ Cardinality(1 .. n) = n
<1>1. CASE n = 0
  <2>1. 1 .. n = {}
    BY <1>1
  <2>. QED BY <1>1, <2>1, FS_EmptySet
<1>2. CASE n # 0
  <2>1. 1 \in Int /\ n \in Int /\ ~(1 > n) /\ n - 1 + 1 = n
    BY <1>2
  <2>2. IsFiniteSet(1 .. n) /\ Cardinality(1 .. n) = IF 1 > n THEN 0 ELSE n - 1 + 1
    BY <2>1, FS_Interval
  <2>. QED BY <2>1, <2>2
<1>. QED BY <1>1, <1>2

-----------------------------------------------------------------------------
(* How often a member of X is in a sequence *)

Occurs(list, X) == Cardinality({j \in DOMAIN list : list[j] \in X})

LEMMA OccursType ==
  ASSUME NEW S, NEW list \in Seq(S), NEW X
  PROVE  /\ IsFiniteSet({j \in DOMAIN list : list[j] \in X})
         /\ Occurs(list, X) \in Nat /\ Occurs(list, X) <= Len(list)
         /\ Occurs(list, X) = 0 <=> \A j \in DOMAIN list : list[j] \notin X
<1> DEFINE at == {j \in DOMAIN list : list[j] \in X}
<1>1. IsFiniteSet(1 .. Len(list)) /\ Cardinality(1 .. Len(list)) = Len(list) /\ Len(list) \in Nat
  <2>1. Len(list) \in Nat
    OBVIOUS
  <2>. QED BY <2>1, IntervalSize
<1>2. at \in SUBSET (1 .. Len(list))
  OBVIOUS
<1>3. IsFiniteSet(at) /\ Cardinality(at) <= Len(list) /\ Cardinality(at) \in Nat
  <2> HIDE DEF at
  <2>. QED BY <1>1, <1>2, FS_Subset, FS_CardinalityType
<1>4. Cardinality(at) = 0 <=> at = {}
  <2> HIDE DEF at
  <2>. QED BY <1>3, FS_EmptySet
<1>. QED BY <1>3, <1>4 DEF Occurs

\* Bijections keep the size of a finite set.
LEMMA SameSize ==
  ASSUME NEW S, NEW T, IsFiniteSet(S), NEW f, f \in [S -> T],
         \A x, y \in S : f[x] = f[y] => x = y, \A y \in T : \E x \in S : f[x] = y
  PROVE  IsFiniteSet(T) /\ Cardinality(T) = Cardinality(S)
<1>1. f \in Bijection(S, T)
  BY DEF Bijection, Injection, Surjection, IsInjective
<1>2. ExistsBijection(S, T)
  BY <1>1 DEF ExistsBijection
<1>. QED BY <1>2, FS_Bijection

LEMMA OccursConcat ==
  ASSUME NEW S, NEW one \in Seq(S), NEW two \in Seq(S), NEW X
  PROVE  Occurs(one \o two, X) = Occurs(one, X) + Occurs(two, X)
<1> DEFINE n == Len(one)
           A == {j \in DOMAIN one : one[j] \in X}
           B == {j \in DOMAIN two : two[j] \in X}
           C == {j \in DOMAIN (one \o two) : (one \o two)[j] \in X}
           D == {j \in C : j > n}
           f == [j \in B |-> j + n]
<1>1. /\ DOMAIN one = 1 .. n /\ DOMAIN two = 1 .. Len(two) /\ n \in Nat /\ Len(two) \in Nat
      /\ DOMAIN (one \o two) = 1 .. n + Len(two)
      /\ \A j \in 1 .. n : (one \o two)[j] = one[j]
      /\ \A j \in 1 .. Len(two) : (one \o two)[j + n] = two[j]
  <2>1. /\ DOMAIN one = 1 .. n /\ DOMAIN two = 1 .. Len(two) /\ n \in Nat /\ Len(two) \in Nat
        /\ one \o two \in Seq(S) /\ Len(one \o two) = n + Len(two)
    BY ConcatProperties
  <2>2. \A i \in 1 .. n + Len(two) : (one \o two)[i] = IF i <= n THEN one[i] ELSE two[i - n]
    BY ConcatProperties
  <2>3. ASSUME NEW j \in 1 .. Len(two) PROVE (one \o two)[j + n] = two[j]
    <3>1. j + n \in 1 .. n + Len(two) /\ ~(j + n <= n) /\ j + n - n = j
      BY <2>1
    <3>. QED BY <2>2, <3>1
  <2>4. ASSUME NEW j \in 1 .. n PROVE (one \o two)[j] = one[j]
    <3>1. j \in 1 .. n + Len(two) /\ j <= n
      BY <2>1
    <3>. QED BY <2>2, <3>1
  <2>5. DOMAIN (one \o two) = 1 .. n + Len(two)
    BY <2>1
  <2>. QED BY <2>1, <2>3, <2>4, <2>5
<1>2. IsFiniteSet(A) /\ IsFiniteSet(B)
  BY OccursType
<1>3. f \in [B -> D]
  <2>1. ASSUME NEW j \in B PROVE j + n \in D
    <3>1. j \in 1 .. Len(two) /\ j + n \in 1 .. n + Len(two) /\ j + n > n
      BY <1>1
    <3>. QED BY <1>1, <3>1
  <2>. QED BY <2>1
<1>4. \A x, y \in B : f[x] = f[y] => x = y
  BY <1>1
<1>5. ASSUME NEW y \in D PROVE \E x \in B : f[x] = y
  <2>1. y - n \in 1 .. Len(two) /\ y - n + n = y
    BY <1>1
  <2>2. (one \o two)[y - n + n] = two[y - n]
    BY <1>1, <2>1
  <2>3. y - n \in B
    BY <1>1, <2>1, <2>2
  <2>. QED BY <2>1, <2>3
<1>6. IsFiniteSet(D) /\ Cardinality(D) = Cardinality(B)
  <2> HIDE DEF B, D, f
  <2>. QED BY <1>2, <1>3, <1>4, <1>5, SameSize
<1>7. C = A \union D /\ A \intersect D = {}
  <2>1. ASSUME NEW j \in C, j <= n PROVE j \in A
    BY <1>1, <2>1
  <2>2. ASSUME NEW j \in A PROVE j \in C /\ j \notin D
    <3>1. j \in 1 .. n /\ j \in 1 .. n + Len(two) /\ ~(j > n)
      BY <1>1
    <3>. QED BY <1>1, <3>1
  <2>3. \A j \in C : j <= n \/ j > n
    BY <1>1
  <2>. QED BY <2>1, <2>2, <2>3
<1>8. Cardinality(C) = Cardinality(A) + Cardinality(B)
  <2> HIDE DEF A, B, C, D
  <2>1. Cardinality(A \union D) = Cardinality(A) + Cardinality(D) - Cardinality({})
    BY <1>2, <1>6, <1>7, FS_Union
  <2>2. Cardinality({}) = 0 /\ Cardinality(A) \in Nat /\ Cardinality(D) \in Nat
    BY <1>2, <1>6, FS_EmptySet, FS_CardinalityType
  <2>. QED BY <1>6, <1>7, <2>1, <2>2
<1>. QED BY <1>8 DEF Occurs

LEMMA OccursSmall ==
  ASSUME NEW e, NEW X
  PROVE  Occurs(<<>>, X) = 0 /\ Occurs(<<e>>, X) = (IF e \in X THEN 1 ELSE 0)
<1>1. {j \in DOMAIN <<>> : <<>>[j] \in X} = {}
  OBVIOUS
<1>2. {j \in DOMAIN <<e>> : <<e>>[j] \in X} = (IF e \in X THEN {1} ELSE {})
  OBVIOUS
<1>. QED BY <1>1, <1>2, FS_EmptySet, FS_Singleton DEF Occurs

LEMMA OccursAppend ==
  ASSUME NEW S, NEW list \in Seq(S), NEW e \in S, NEW X
  PROVE  Occurs(Append(list, e), X) = Occurs(list, X) + (IF e \in X THEN 1 ELSE 0)
<1>1. Append(list, e) = list \o <<e>> /\ <<e>> \in Seq(S)
  BY AppendIsConcat
<1>2. Occurs(list \o <<e>>, X) = Occurs(list, X) + Occurs(<<e>>, X)
  BY <1>1, OccursConcat
<1>3. Occurs(<<e>>, X) = (IF e \in X THEN 1 ELSE 0)
  BY OccursSmall
<1>. QED BY <1>1, <1>2, <1>3

LEMMA OccursTail ==
  ASSUME NEW S, NEW list \in Seq(S), list # <<>>, NEW X
  PROVE  /\ Head(list) \in S /\ Tail(list) \in Seq(S)
         /\ Occurs(list, X) = (IF Head(list) \in X THEN 1 ELSE 0) + Occurs(Tail(list), X)
<1>1. /\ Head(list) \in S /\ Tail(list) \in Seq(S) /\ <<Head(list)>> \in Seq(S)
      /\ list = <<Head(list)>> \o Tail(list)
  <2>1. Len(list) \in Nat \ {0} /\ Head(list) = list[1]
    OBVIOUS
  <2>2. 1 \in 1 .. Len(list) /\ Len(list) \in 1 .. Len(list)
    BY <2>1
  <2>3. SubSeq(list, 1, Len(list)) = <<list[1]>> \o SubSeq(list, 1 + 1, Len(list))
    BY <2>2, SubSeqRecursiveFirst
  <2>4. SubSeq(list, 1, Len(list)) = list /\ Tail(list) = SubSeq(list, 2, Len(list))
    BY SubSeqFull, TailIsSubSeq
  <2>5. Head(list) \in S /\ Tail(list) \in Seq(S)
    BY HeadTailProperties
  <2>. QED BY <2>1, <2>3, <2>4, <2>5
<1>2. Occurs(<<Head(list)>> \o Tail(list), X) = Occurs(<<Head(list)>>, X) + Occurs(Tail(list), X)
  BY <1>1, OccursConcat
<1>3. Occurs(<<Head(list)>>, X) = (IF Head(list) \in X THEN 1 ELSE 0)
  BY OccursSmall
<1>. QED BY <1>1, <1>2, <1>3

\* Positions up to a chosen one number the chosen ones in their order.
LEMMA Ranks ==
  ASSUME NEW n \in Nat, NEW picked, picked \subseteq 1 .. n
  PROVE  LET rank == [j \in picked |-> Cardinality({i \in picked : i <= j})]
             size == Cardinality(picked)
         IN  /\ IsFiniteSet(picked) /\ size \in 0 .. n
             /\ rank \in [picked -> 1 .. size]
             /\ \A x, y \in picked : rank[x] = rank[y] => x = y
             /\ \A k \in 1 .. size : \E j \in picked : rank[j] = k
<1> DEFINE upto(j) == {i \in picked : i <= j}
           size == Cardinality(picked)
           rank == [j \in picked |-> Cardinality(upto(j))]
<1>1. IsFiniteSet(picked) /\ size \in 0 .. n
  <2>1. n \in Nat
    OBVIOUS
  <2>2. IsFiniteSet(1 .. n) /\ Cardinality(1 .. n) = n
    BY <2>1, IntervalSize
  <2>3. IsFiniteSet(picked) /\ size <= n /\ size \in Nat
    BY <2>2, FS_Subset, FS_CardinalityType
  <2> HIDE DEF size
  <2>. QED BY <2>3
<1>2. ASSUME NEW j \in picked
      PROVE  upto(j) \in SUBSET picked /\ IsFiniteSet(upto(j)) /\ Cardinality(upto(j)) \in 1 .. size
  <2>1. upto(j) \in SUBSET picked /\ j \in upto(j)
    OBVIOUS
  <2> HIDE DEF upto
  <2>2. IsFiniteSet(upto(j)) /\ Cardinality(upto(j)) <= size /\ Cardinality(upto(j)) \in Nat
    BY <1>1, <2>1, FS_Subset, FS_CardinalityType
  <2>3. Cardinality(upto(j)) # 0
    BY <2>1, <2>2, FS_EmptySet
  <2>. QED BY <1>1, <2>1, <2>2, <2>3
<1>3. ASSUME NEW x \in picked, NEW y \in picked, x < y
      PROVE  Cardinality(upto(x)) # Cardinality(upto(y))
  <2>0. x \in Int /\ y \in Int /\ picked \subseteq Int
    OBVIOUS
  <2>1. upto(x) \in SUBSET upto(y) /\ y \in upto(y) /\ y \notin upto(x)
    <3>1. \A i \in Int : i <= x => i <= y
      BY <1>3, <2>0
    <3>2. ~(y <= x) /\ y <= y
      BY <1>3, <2>0
    <3>. QED BY <2>0, <3>1, <3>2
  <2> HIDE DEF upto
  <2>. QED BY <1>2, <2>1, FS_Subset
<1>4. ASSUME NEW x \in picked, NEW y \in picked, rank[x] = rank[y] PROVE x = y
  <2>1. x < y \/ y < x \/ x = y
    OBVIOUS
  <2>2. Cardinality(upto(x)) = Cardinality(upto(y))
    BY <1>4
  <2> HIDE DEF upto, rank
  <2>. QED BY <1>3, <2>1, <2>2
<1>5. rank \in [picked -> 1 .. size]
  <2> HIDE DEF upto
  <2>. QED BY <1>2
<1>6. IsFiniteSet(1 .. size) /\ Cardinality(1 .. size) = size
  <2>1. size \in Nat
    BY <1>1
  <2> HIDE DEF size
  <2>. QED BY <2>1, IntervalSize
<1>7. \A k \in 1 .. size : \E j \in picked : rank[j] = k
  <2>1. rank \in Injection(picked, 1 .. size)
    <3> HIDE DEF rank
    <3>. QED BY <1>4, <1>5 DEF Injection, IsInjective
  <2>2. rank \in Surjection(picked, 1 .. size)
    <3> HIDE DEF rank, size
    <3>. QED BY <1>1, <1>6, <2>1, FS_Injection DEF size
  <2> HIDE DEF rank, size
  <2>. QED BY <2>2 DEF Surjection
<1>. QED BY <1>1, <1>4, <1>5, <1>7

-----------------------------------------------------------------------------
(* The manager: types *)

Pics == {None} \cup [key : Keys \cup [type : {"fullsize"}, id : Albums], version : Nat]
Entry == [id : Albums \cup Artists, picture : Pics, count : Nat]
Looking == [at : {"look", "read"}, key : Keys, moves : Nat \cup {None}]
Holding == [at : {"take"}, key : Keys, picture : Pics]
Complete == [key : Keys, picture : Pics, requests : SUBSET (1 .. MaxRequests)]

LoadTypes ==
    /\ pending \in [Keys -> {None} \cup SUBSET (1 .. MaxRequests)]
    /\ tasks \in Seq(Keys)
    /\ worker \in [Workers -> {Idle, Ended} \cup Looking \cup Holding]
    /\ posted \in Seq(Complete)

RequestTypes ==
    /\ request \in Seq([widget : Widgets, key : Keys]) /\ Len(request) <= MaxRequests
    /\ answered \in Seq(Nat) /\ Len(answered) = Len(request)

LibraryTypes ==
    /\ changes \in 0 .. MaxChanges
    /\ version \in [Libraries -> 0 .. changes \cup {None}]
    /\ artistAtlas \in Nat /\ moves \in Nat
    /\ main \in {"run", "join", "drain", "freed"}

CacheTypes ==
    /\ cache \in [{"album", "artist"} -> Seq(Entry)]
    /\ \A t \in {"album", "artist"} : Len(cache[t]) <= MaxEntries

-----------------------------------------------------------------------------
(* The manager: the inductive invariant *)

Answering(r) == {lc \in Complete : r \in lc.requests}
Loading(k) == {n \in Workers : worker[n] \notin {Idle, Ended} /\ worker[n].key = k}
Waits(r) == IF pending[request[r].key] # None /\ r \in pending[request[r].key] THEN 1 ELSE 0

\* A load that is pending is in the queue or in the hands of one worker.
LoadsCounted ==
    main = "run" =>
        \A k \in Keys :
            Occurs(tasks, {k}) + Cardinality(Loading(k)) = IF pending[k] = None THEN 0 ELSE 1

\* Only requests wait, each for its own key.
WaitingKnown ==
    /\ \A k \in Keys : pending[k] # None =>
          \A r \in pending[k] : r \in 1 .. Len(request) /\ request[r].key = k
    /\ \A j \in DOMAIN posted : posted[j].requests \subseteq 1 .. Len(request)

RequestsCounted ==
    main # "freed" =>
        \A r \in 1 .. Len(request) : answered[r] + Waits(r) + Occurs(posted, Answering(r)) = 1

\* Once the workers are joined they have ended, and once all is freed no callback is left.
EndsInOrder ==
    /\ main \in {"drain", "freed"} => \A n \in Workers : worker[n] = Ended
    /\ main = "freed" => posted = <<>>

ManagerIInv ==
    /\ LoadTypes /\ RequestTypes /\ LibraryTypes /\ CacheTypes
    /\ LoadsCounted /\ WaitingKnown /\ RequestsCounted /\ EndsInOrder
-----------------------------------------------------------------------------
(* The manager: the types of loads, requests and libraries *)

LEMMA NoneApart ==
  ASSUME NEW S, S \subseteq 1 .. MaxRequests
  PROVE  S # None
BY RequestsAssumption

LEMMA KeysAre ==
  /\ \A k \in Keys : k.type \in {"album", "artist", "fullsize"}
  /\ \A k \in Keys : k.type # "fullsize" => k.type \in {"album", "artist"}
  /\ \A k \in Keys : k.type = "album" => k.id \in Albums
  /\ \A k \in Keys : k.type = "artist" => k.id \in Artists
  /\ \A k \in Keys : k.type # "fullsize" => k.id \in Albums \cup Artists
BY DEF Keys

LEMMA GetTypes ==
  ASSUME LoadTypes, RequestTypes, LibraryTypes, NEW w \in Widgets, NEW k \in Keys, Get(w, k)
  PROVE  (LoadTypes /\ RequestTypes /\ LibraryTypes)'
<1> DEFINE n == Len(request)  ask == [widget |-> w, key |-> k]
<1>1. /\ n \in Nat /\ n + 1 \in 1 .. MaxRequests /\ n + 1 <= MaxRequests
      /\ ask \in [widget : Widgets, key : Keys]
  BY RequestsAssumption DEF RequestTypes, Get
<1>2. request' = Append(request, ask) /\ UNCHANGED <<worker, posted, lib, main>>
  BY DEF Get
<1>3. request' \in Seq([widget : Widgets, key : Keys]) /\ Len(request') = n + 1
  BY <1>1, <1>2 DEF RequestTypes
<1>4. LibraryTypes'
  BY <1>2 DEF LibraryTypes, lib
<1>5. CASE Cached(k.type, k.id)
  <2>1. answered' = Append(answered, 1) /\ UNCHANGED <<pending, tasks>>
    BY <1>5 DEF Get, Hit
  <2>2. answered' \in Seq(Nat) /\ Len(answered') = Len(answered) + 1
    BY <2>1 DEF RequestTypes
  <2>. QED BY <1>1, <1>2, <1>3, <1>4, <2>1, <2>2 DEF LoadTypes, RequestTypes
<1>6. CASE ~Cached(k.type, k.id)
  <2>1. /\ answered' = Append(answered, 0)
        /\ pending' = [pending EXCEPT ![k] = (IF @ = None THEN {} ELSE @) \cup {n + 1}]
        /\ tasks' = IF pending[k] = None THEN Append(tasks, k) ELSE tasks
    BY <1>6 DEF Get, QueueLoad
  <2>2. answered' \in Seq(Nat) /\ Len(answered') = Len(answered) + 1
    BY <2>1 DEF RequestTypes
  <2>3. (IF pending[k] = None THEN {} ELSE pending[k]) \cup {n + 1} \in SUBSET (1 .. MaxRequests)
    BY <1>1 DEF LoadTypes
  <2>4. pending' \in [Keys -> {None} \cup SUBSET (1 .. MaxRequests)]
    <3> HIDE DEF n
    <3>. QED BY <2>1, <2>3 DEF LoadTypes
  <2>5. tasks' \in Seq(Keys)
    BY <2>1 DEF LoadTypes
  <2>. QED BY <1>1, <1>2, <1>3, <1>4, <2>2, <2>4, <2>5 DEF LoadTypes, RequestTypes
<1>. QED BY <1>5, <1>6

LEMMA PopTypes ==
  ASSUME LoadTypes, RequestTypes, LibraryTypes, NEW n \in Workers, Pop(n)
  PROVE  (LoadTypes /\ RequestTypes /\ LibraryTypes)'
<1>1. UNCHANGED <<pending, posted, request, answered, lib, main>>
  BY DEF Pop, seen
<1>2. (RequestTypes /\ LibraryTypes)'
  BY <1>1 DEF RequestTypes, LibraryTypes, lib
<1>3. tasks' \in Seq(Keys) /\ worker' \in [Workers -> {Idle, Ended} \cup Looking \cup Holding]
  <2>1. CASE tasks # <<>> /\ ~Shutdown
    <3>1. Head(tasks) \in Keys /\ Tail(tasks) \in Seq(Keys)
      BY <2>1 DEF LoadTypes
    <3>2. tasks' = Tail(tasks)
      BY <2>1 DEF Pop
    <3>3. \/ worker' = worker
          \/ worker' = [worker EXCEPT ![n] =
                           [at |-> IF Head(tasks).type = "fullsize" THEN "look" ELSE "read",
                            key |-> Head(tasks), moves |-> None]]
      BY <2>1 DEF Pop
    <3>4. [at |-> IF Head(tasks).type = "fullsize" THEN "look" ELSE "read",
           key |-> Head(tasks), moves |-> None] \in Looking
      BY <3>1 DEF Looking
    <3>. QED BY <3>1, <3>2, <3>3, <3>4 DEF LoadTypes
  <2>2. CASE Shutdown
    BY <2>2 DEF Pop, LoadTypes
  <2>. QED BY <2>1, <2>2 DEF Pop
<1>. QED BY <1>1, <1>2, <1>3 DEF LoadTypes

LEMMA AtIs ==
  ASSUME LoadTypes, NEW n \in Workers
  PROVE  /\ worker[n].at \in {"look", "read"} => worker[n] \in Looking
         /\ worker[n].at = "take" => worker[n] \in Holding
         /\ worker[n] = Idle <=> worker[n].at = "idle"
         /\ worker[n] = Ended <=> worker[n].at = "ended"
         /\ worker[n] \notin {Idle, Ended} => worker[n].key \in Keys
BY DEF LoadTypes, Looking, Holding, Idle, Ended

LEMMA LookTypes ==
  ASSUME LoadTypes, RequestTypes, LibraryTypes, NEW n \in Workers, Look(n)
  PROVE  /\ (LoadTypes /\ RequestTypes /\ LibraryTypes)'
         /\ worker' = [worker EXCEPT ![n] = worker'[n]]
         /\ worker'[n].at = "read" /\ worker'[n].key = worker[n].key
<1>1. UNCHANGED <<pending, tasks, posted, request, answered, lib, main>>
  BY DEF Look, seen
<1>2. (RequestTypes /\ LibraryTypes)'
  BY <1>1 DEF RequestTypes, LibraryTypes, lib
<1>3. worker[n] \in Looking
  BY AtIs DEF Look
<1>4. worker' = [worker EXCEPT ![n] = [at |-> "read", key |-> worker[n].key, moves |-> moves]]
  BY DEF Look
<1>5. [at |-> "read", key |-> worker[n].key, moves |-> moves] \in Looking
  BY <1>3 DEF Looking, LibraryTypes
<1>. QED BY <1>1, <1>2, <1>4, <1>5 DEF LoadTypes

LEMMA ReadTypes ==
  ASSUME LoadTypes, RequestTypes, LibraryTypes, NEW n \in Workers, Read(n)
  PROVE  /\ (LoadTypes /\ RequestTypes /\ LibraryTypes)'
         /\ worker' = [worker EXCEPT ![n] = worker'[n]]
         /\ worker'[n].at = "take" /\ worker'[n].key = worker[n].key
<1>1. UNCHANGED <<pending, tasks, posted, request, answered, lib, main>>
  BY DEF Read, seen
<1>2. (RequestTypes /\ LibraryTypes)'
  BY <1>1 DEF RequestTypes, LibraryTypes, lib
<1>3. worker[n] \in Looking /\ worker[n].key \in Keys
  BY AtIs DEF Read, Looking
<1>4. PICK p \in Finds(worker[n].key, worker[n].moves) :
        worker' = [worker EXCEPT ![n] = [at |-> "take", key |-> worker[n].key, picture |-> p]]
  BY DEF Read
<1>5. p \in Pics
  <2> DEFINE k == worker[n].key
             v == IF k.type = "artist" THEN artistAtlas ELSE version[LibraryOf[k.id]]
  <2>1. v = None \/ v \in Nat
    <3>1. CASE k.type = "artist"
      BY <3>1 DEF LibraryTypes
    <3>2. CASE k.type # "artist"
      <4>1. k.id \in Albums \cup Detailed
        BY <1>3, <3>2 DEF Keys
      <4>. QED BY <1>3, <3>2, <4>1, CacheAssumption DEF LibraryTypes
    <3>. QED BY <3>1, <3>2
  <2>2. \/ p = None
        \/ v # None /\ p = [key |-> k, version |-> v]
        \/ \E x \in Albums : p = [key |-> [type |-> "fullsize", id |-> x], version |-> 0]
    BY <1>4 DEF Finds, Picture, Key
  <2>. QED BY <1>3, <2>1, <2>2 DEF Pics
<1>6. [at |-> "take", key |-> worker[n].key, picture |-> p] \in Holding
  BY <1>3, <1>5 DEF Holding
<1>. QED BY <1>1, <1>2, <1>4, <1>6 DEF LoadTypes

LEMMA TakeTypes ==
  ASSUME LoadTypes, RequestTypes, LibraryTypes, NEW n \in Workers, Take(n)
  PROVE  (LoadTypes /\ RequestTypes /\ LibraryTypes)'
<1>1. UNCHANGED <<tasks, request, answered, lib, main>>
  BY DEF Take, seen
<1>2. (RequestTypes /\ LibraryTypes)'
  BY <1>1 DEF RequestTypes, LibraryTypes, lib
<1>3. worker[n] \in Holding /\ worker[n].key \in Keys
  BY AtIs DEF Take, Holding
<1>4. pending' \in [Keys -> {None} \cup SUBSET (1 .. MaxRequests)]
  BY <1>3 DEF Take, LoadTypes
<1>5. posted' \in Seq(Complete)
  <2>1. CASE pending[worker[n].key] = None
    BY <2>1 DEF Take, LoadTypes
  <2>2. CASE pending[worker[n].key] # None
    <3> DEFINE lc == [key |-> worker[n].key, picture |-> worker[n].picture,
                      requests |-> pending[worker[n].key]]
    <3>1. lc \in Complete
      BY <1>3, <2>2 DEF Complete, Holding, LoadTypes
    <3>2. posted' = Append(posted, lc)
      BY <2>2 DEF Take
    <3>. QED BY <3>1, <3>2 DEF LoadTypes
  <2>. QED BY <2>1, <2>2
<1>6. worker' \in [Workers -> {Idle, Ended} \cup Looking \cup Holding]
  BY DEF Take, LoadTypes
<1>. QED BY <1>1, <1>2, <1>4, <1>5, <1>6 DEF LoadTypes

LEMMA CompleteTypes ==
  ASSUME LoadTypes, RequestTypes, LibraryTypes, CompleteOnMain
  PROVE  (LoadTypes /\ RequestTypes /\ LibraryTypes)'
<1>1. UNCHANGED <<pending, tasks, worker, request, lib, main>> /\ posted # <<>>
  BY DEF CompleteOnMain
<1>2. posted' \in Seq(Complete)
  BY <1>1 DEF CompleteOnMain, LoadTypes
<1>3. /\ DOMAIN request = 1 .. Len(request) /\ Len(request) \in Nat
      /\ answered' = [r \in 1 .. Len(request) |->
                        answered[r] + IF r \in Head(posted).requests THEN 1 ELSE 0]
  BY DEF CompleteOnMain, Requests, RequestTypes
<1>4. \A r \in 1 .. Len(request) : answered'[r] \in Nat
  BY <1>3 DEF RequestTypes
<1>5. answered' \in Seq(Nat) /\ Len(answered') = Len(request)
  BY <1>3, <1>4
<1>6. (RequestTypes)'
  BY <1>1, <1>5 DEF RequestTypes
<1>. QED BY <1>1, <1>2, <1>6 DEF LoadTypes, LibraryTypes, lib

LEMMA OtherTypes ==
  ASSUME LoadTypes, RequestTypes, LibraryTypes,
         \/ \E w \in Widgets : DestroyWidget(w)
         \/ \E l \in Libraries : ReloadLibraryAtlas(l) \/ RemoveLibrary(l) \/ AddLibrary(l)
         \/ ReloadArtistAtlas \/ Free \/ Joined \/ Freed \/ UNCHANGED vars
  PROVE  (LoadTypes /\ RequestTypes /\ LibraryTypes)'
<1>1. request' = request /\ answered' = answered /\ worker' = worker /\ posted' = posted
  BY DEF DestroyWidget, ReloadLibraryAtlas, RemoveLibrary, AddLibrary, ReloadArtistAtlas, Free, Joined,
     Freed, vars, work, seen
<1>2. RequestTypes'
  BY <1>1 DEF RequestTypes
<1>3. LoadTypes'
  <2>1. CASE Freed
    BY <1>1, <2>1 DEF Freed, LoadTypes
  <2>2. CASE ~Freed
    <3>1. pending' = pending /\ tasks' = tasks
      BY <2>2 DEF DestroyWidget, ReloadLibraryAtlas, RemoveLibrary, AddLibrary, ReloadArtistAtlas, Free,
         Joined, vars, work
    <3>. QED BY <1>1, <3>1 DEF LoadTypes
  <2>. QED BY <2>1, <2>2
<1>4. ASSUME Changing
      PROVE  /\ changes' \in 0 .. MaxChanges /\ 1 \in 0 .. changes'
             /\ \A l \in Libraries : version[l] \in 0 .. changes' \cup {None}
             /\ \A l \in Libraries : version[l] # None => version[l] + 1 \in 0 .. changes'
             /\ artistAtlas + 1 \in Nat /\ moves + 1 \in Nat
  <2>1. changes \in Nat /\ changes' = changes + 1 /\ changes + 1 <= MaxChanges
    BY <1>4, RequestsAssumption DEF Changing, LibraryTypes
  <2>2. \A l \in Libraries : version[l] = None \/ (version[l] \in Nat /\ version[l] <= changes)
    BY <2>1 DEF LibraryTypes
  <2>. QED BY <2>1, <2>2, RequestsAssumption DEF LibraryTypes
<1>5. LibraryTypes'
  <2>1. CASE \E w \in Widgets : DestroyWidget(w)
    <3>1. Changing /\ UNCHANGED <<version, artistAtlas, moves, main>>
      BY <2>1 DEF DestroyWidget
    <3>. QED BY <1>4, <3>1 DEF LibraryTypes
  <2>2. ASSUME NEW l \in Libraries, ReloadLibraryAtlas(l) PROVE LibraryTypes'
    <3>1. /\ Changing /\ UNCHANGED <<artistAtlas, moves, main>> /\ version[l] # None
          /\ version' = [version EXCEPT ![l] = version[l] + 1]
      BY <2>2 DEF ReloadLibraryAtlas, LibraryTypes
    <3>. QED BY <1>4, <3>1 DEF LibraryTypes
  <2>3. ASSUME NEW l \in Libraries, RemoveLibrary(l) PROVE LibraryTypes'
    <3>1. /\ Changing /\ UNCHANGED <<artistAtlas, main>> /\ moves' = moves + 1
          /\ version' = [version EXCEPT ![l] = None]
      BY <2>3 DEF RemoveLibrary
    <3>. QED BY <1>4, <3>1 DEF LibraryTypes
  <2>4. ASSUME NEW l \in Libraries, AddLibrary(l) PROVE LibraryTypes'
    <3>1. /\ Changing /\ UNCHANGED <<artistAtlas, main>> /\ moves' = moves + 1
          /\ version' = [version EXCEPT ![l] = 1]
      BY <2>4 DEF AddLibrary
    <3>. QED BY <1>4, <3>1 DEF LibraryTypes
  <2>5. CASE ReloadArtistAtlas
    <3>1. Changing /\ UNCHANGED <<version, moves, main>> /\ artistAtlas' = artistAtlas + 1
      BY <2>5 DEF ReloadArtistAtlas
    <3>. QED BY <1>4, <3>1 DEF LibraryTypes
  <2>6. CASE Free \/ Joined \/ Freed \/ UNCHANGED vars
    BY <2>6 DEF Free, Joined, Freed, vars, lib, LibraryTypes
  <2>. QED BY <2>1, <2>2, <2>3, <2>4, <2>5, <2>6
<1>. QED BY <1>2, <1>3, <1>5

LEMMA TypesStep ==
  ASSUME LoadTypes, RequestTypes, LibraryTypes, [Next]_vars
  PROVE  (LoadTypes /\ RequestTypes /\ LibraryTypes)'
<1>1. CASE \E w \in Widgets, k \in Keys : Get(w, k)
  BY <1>1, GetTypes
<1>2. CASE \E n \in Workers : WorkerStep(n)
  BY <1>2, PopTypes, LookTypes, ReadTypes, TakeTypes DEF WorkerStep
<1>3. CASE CompleteOnMain
  BY <1>3, CompleteTypes
<1>. QED BY <1>1, <1>2, <1>3, OtherTypes DEF Next
-----------------------------------------------------------------------------
(* The manager: loads *)

Busy(it, k) == it \notin {Idle, Ended} /\ it.key = k

\* When one worker changes, so may the number of workers that have a key.
LEMMA LoadingUpdate ==
  ASSUME LoadTypes, NEW n \in Workers, NEW it, worker' = [worker EXCEPT ![n] = it], NEW k
  PROVE  /\ Cardinality(Loading(k)) \in Nat
         /\ Busy(worker[n], k) => Cardinality(Loading(k)) >= 1
         /\ Cardinality(Loading(k)') = Cardinality(Loading(k))
                 - (IF Busy(worker[n], k) THEN 1 ELSE 0) + (IF Busy(it, k) THEN 1 ELSE 0)
<1> DEFINE rest == Loading(k) \ {n}
<1>1. IsFiniteSet(rest) /\ n \notin rest /\ Cardinality(rest) \in Nat
  <2>1. rest \in SUBSET Workers
    BY DEF Loading
  <2> HIDE DEF rest
  <2>2. IsFiniteSet(rest) /\ Cardinality(rest) \in Nat
    BY <2>1, RequestsAssumption, FS_Subset, FS_CardinalityType
  <2>. QED BY <2>2 DEF rest
<1>2. Loading(k) = IF Busy(worker[n], k) THEN rest \cup {n} ELSE rest
  BY DEF Loading, Busy
<1>3. Loading(k)' = IF Busy(it, k) THEN rest \cup {n} ELSE rest
  <2>1. Loading(k)' = {m \in Workers : Busy(worker'[m], k)}
    BY DEF Loading, Busy
  <2>2. worker'[n] = it /\ \A m \in Workers \ {n} : worker'[m] = worker[m]
    BY DEF LoadTypes
  <2>3. rest = {m \in Workers \ {n} : Busy(worker[m], k)}
    BY DEF Loading, Busy
  <2> HIDE DEF rest
  <2>. QED BY <2>1, <2>2, <2>3
<1>4. Cardinality(rest \cup {n}) = Cardinality(rest) + 1
  <2> HIDE DEF rest
  <2>. QED BY <1>1, FS_AddElement
<1> HIDE DEF rest
<1>. QED BY <1>1, <1>2, <1>3, <1>4

LEMMA LoadingFinite ==
  ASSUME NEW k
  PROVE  Cardinality(Loading(k)) \in Nat
<1>1. Loading(k) \in SUBSET Workers
  BY DEF Loading
<1>. QED BY <1>1, RequestsAssumption, FS_Subset, FS_CardinalityType

LEMMA TaskCount ==
  ASSUME LoadTypes, NEW k
  PROVE  Occurs(tasks, {k}) \in Nat
BY OccursType DEF LoadTypes

LEMMA LoadsGet ==
  ASSUME LoadTypes, RequestTypes, LoadsCounted, NEW w \in Widgets, NEW k \in Keys, Get(w, k)
  PROVE  LoadsCounted'
<1>1. UNCHANGED <<worker, main>>
  BY DEF Get
<1>2. CASE Cached(k.type, k.id)
  BY <1>1, <1>2 DEF Get, Hit, LoadsCounted, Loading
<1>3. CASE ~Cached(k.type, k.id)
  <2> DEFINE joined == (IF pending[k] = None THEN {} ELSE pending[k]) \cup {Len(request) + 1}
  <2>1. /\ pending' = [pending EXCEPT ![k] = joined]
        /\ tasks' = IF pending[k] = None THEN Append(tasks, k) ELSE tasks
        /\ Len(request) < MaxRequests
    BY <1>3 DEF Get, QueueLoad
  <2>2. joined \subseteq 1 .. MaxRequests
    BY <2>1, RequestsAssumption DEF LoadTypes, RequestTypes
  <2>3. joined # None
    BY <2>2, NoneApart
  <2> HIDE DEF joined
  <2>4. pending'[k] # None /\ \A other \in Keys \ {k} : pending'[other] = pending[other]
    BY <2>1, <2>3 DEF LoadTypes
  <2>5. ASSUME main' = "run", NEW other \in Keys
        PROVE  Occurs(tasks', {other}) + Cardinality(Loading(other)')
                 = IF pending'[other] = None THEN 0 ELSE 1
    <3>1. /\ Occurs(tasks, {other}) + Cardinality(Loading(other))
                = IF pending[other] = None THEN 0 ELSE 1
          /\ Loading(other)' = Loading(other)
      BY <1>1, <2>5 DEF LoadsCounted, Loading
    <3>2. tasks \in Seq(Keys) /\ Occurs(tasks, {other}) \in Nat /\ Cardinality(Loading(other)) \in Nat
      BY TaskCount, LoadingFinite DEF LoadTypes
    <3>3. Occurs(Append(tasks, k), {other}) = Occurs(tasks, {other}) + (IF k = other THEN 1 ELSE 0)
      BY <3>2, OccursAppend
    <3>. QED BY <2>1, <2>4, <3>1, <3>2, <3>3
  <2>. QED BY <2>5 DEF LoadsCounted
<1>. QED BY <1>2, <1>3

LEMMA LoadsPop ==
  ASSUME LoadTypes, RequestTypes, LoadsCounted, NEW n \in Workers, Pop(n)
  PROVE  LoadsCounted'
<1> SUFFICES ASSUME main' = "run", NEW k \in Keys
             PROVE  Occurs(tasks', {k}) + Cardinality(Loading(k)')
                      = IF pending'[k] = None THEN 0 ELSE 1
  BY DEF LoadsCounted
<1> DEFINE first == Head(tasks)
           load == [at |-> IF first.type = "fullsize" THEN "look" ELSE "read",
                    key |-> first, moves |-> None]
<1>1. /\ main = "run" /\ pending' = pending /\ tasks # <<>> /\ tasks' = Tail(tasks)
      /\ worker[n] = Idle
      /\ worker' = IF pending[first] = None THEN worker ELSE [worker EXCEPT ![n] = load]
  BY DEF Pop, Shutdown
<1>2. tasks \in Seq(Keys) /\ first \in Keys
  BY <1>1, OccursTail DEF LoadTypes
<1>3. \A other \in Keys : Occurs(tasks, {other})
                            = (IF first = other THEN 1 ELSE 0) + Occurs(Tail(tasks), {other})
  BY <1>1, <1>2, OccursTail
<1>4. \A other \in Keys : /\ Occurs(Tail(tasks), {other}) \in Nat
                          /\ Cardinality(Loading(other)) \in Nat
  <2>1. Tail(tasks) \in Seq(Keys)
    BY <1>1, <1>2, OccursTail
  <2>. QED BY <2>1, OccursType, LoadingFinite
<1>5. \A other \in Keys : Occurs(tasks, {other}) + Cardinality(Loading(other))
                            = IF pending[other] = None THEN 0 ELSE 1
  BY <1>1 DEF LoadsCounted
<1>6. pending[first] # None
  <2> HIDE DEF first
  <2>1. Occurs(tasks, {first}) = 1 + Occurs(Tail(tasks), {first})
    BY <1>2, <1>3
  <2>2. Occurs(Tail(tasks), {first}) \in Nat /\ Cardinality(Loading(first)) \in Nat
    BY <1>2, <1>4
  <2>. QED BY <1>2, <1>5, <2>1, <2>2
<1>7. worker' = [worker EXCEPT ![n] = load]
  BY <1>1, <1>6
<1>8. ~Busy(worker[n], k) /\ (Busy(load, k) <=> first = k)
  BY <1>1 DEF Busy, Idle, Ended
<1> HIDE DEF first, load
<1>9. Cardinality(Loading(k)') = Cardinality(Loading(k)) + (IF first = k THEN 1 ELSE 0)
  <2>1. Cardinality(Loading(k)') = Cardinality(Loading(k))
            - (IF Busy(worker[n], k) THEN 1 ELSE 0) + (IF Busy(load, k) THEN 1 ELSE 0)
    BY <1>7, LoadingUpdate
  <2>2. /\ (IF Busy(worker[n], k) THEN 1 ELSE 0) = 0
        /\ (IF Busy(load, k) THEN 1 ELSE 0) = (IF first = k THEN 1 ELSE 0)
    BY <1>8
  <2>3. Cardinality(Loading(k)) \in Nat
    BY <1>4
  <2>. QED BY <2>1, <2>2, <2>3
<1>10. /\ Occurs(tasks, {k}) = (IF first = k THEN 1 ELSE 0) + Occurs(tasks', {k})
       /\ Occurs(tasks', {k}) \in Nat /\ Cardinality(Loading(k)) \in Nat
       /\ Occurs(tasks, {k}) + Cardinality(Loading(k)) = IF pending'[k] = None THEN 0 ELSE 1
  BY <1>1, <1>3, <1>4, <1>5
<1>. QED BY <1>9, <1>10

LEMMA LoadsMove ==
  ASSUME LoadTypes, RequestTypes, LibraryTypes, LoadsCounted, NEW n \in Workers, Look(n) \/ Read(n)
  PROVE  LoadsCounted'
<1> SUFFICES ASSUME main' = "run", NEW k \in Keys
             PROVE  Occurs(tasks', {k}) + Cardinality(Loading(k)')
                      = IF pending'[k] = None THEN 0 ELSE 1
  BY DEF LoadsCounted
<1>1. /\ worker' = [worker EXCEPT ![n] = worker'[n]]
      /\ worker'[n].at \in {"read", "take"} /\ worker'[n].key = worker[n].key
      /\ worker[n].at \in {"look", "read"}
  BY LookTypes, ReadTypes DEF Look, Read
<1>2. UNCHANGED <<tasks, pending, main>>
  BY DEF Look, Read
<1>3. Busy(worker[n], k) <=> Busy(worker'[n], k)
  BY <1>1 DEF Busy, Idle, Ended
<1>4. Cardinality(Loading(k)') = Cardinality(Loading(k)) /\ Cardinality(Loading(k)) \in Nat
  BY <1>1, <1>3, LoadingUpdate
<1>. QED BY <1>2, <1>4 DEF LoadsCounted

LEMMA LoadsTake ==
  ASSUME LoadTypes, RequestTypes, LoadsCounted, NEW n \in Workers, Take(n)
  PROVE  LoadsCounted'
<1> SUFFICES ASSUME main' = "run", NEW k \in Keys
             PROVE  Occurs(tasks', {k}) + Cardinality(Loading(k)')
                      = IF pending'[k] = None THEN 0 ELSE 1
  BY DEF LoadsCounted
<1>1. /\ worker' = [worker EXCEPT ![n] = Idle] /\ UNCHANGED <<tasks, main>>
      /\ pending' = [pending EXCEPT ![worker[n].key] = None]
      /\ worker[n].at = "take"
  BY DEF Take
<1>2. worker[n].key \in Keys /\ ~Busy(Idle, k) /\ (Busy(worker[n], k) <=> worker[n].key = k)
  BY <1>1, AtIs DEF Busy, Idle, Ended
<1>3. /\ Cardinality(Loading(k)) \in Nat
      /\ Busy(worker[n], k) => Cardinality(Loading(k)) >= 1
      /\ Cardinality(Loading(k)') = Cardinality(Loading(k)) - (IF Busy(worker[n], k) THEN 1 ELSE 0)
  <2>1. /\ Cardinality(Loading(k)) \in Nat
        /\ Busy(worker[n], k) => Cardinality(Loading(k)) >= 1
        /\ Cardinality(Loading(k)') = Cardinality(Loading(k))
               - (IF Busy(worker[n], k) THEN 1 ELSE 0) + (IF Busy(Idle, k) THEN 1 ELSE 0)
    BY <1>1, LoadingUpdate
  <2>. QED BY <1>2, <2>1
<1>4. Occurs(tasks, {k}) \in Nat
  BY TaskCount
<1>5. Occurs(tasks, {k}) + Cardinality(Loading(k)) = IF pending[k] = None THEN 0 ELSE 1
  BY <1>1 DEF LoadsCounted
<1>6. pending'[k] = IF worker[n].key = k THEN None ELSE pending[k]
  BY <1>1 DEF LoadTypes
<1>. QED BY <1>1, <1>2, <1>3, <1>4, <1>5, <1>6

LEMMA LoadsStep ==
  ASSUME LoadTypes, RequestTypes, LibraryTypes, LoadsCounted, [Next]_vars
  PROVE  LoadsCounted'
<1>1. CASE \E w \in Widgets, k \in Keys : Get(w, k)
  BY <1>1, LoadsGet
<1>2. CASE \E n \in Workers : WorkerStep(n)
  BY <1>2, LoadsPop, LoadsMove, LoadsTake DEF WorkerStep
<1>3. CASE \/ \E w \in Widgets : DestroyWidget(w)
           \/ \E l \in Libraries : ReloadLibraryAtlas(l) \/ RemoveLibrary(l) \/ AddLibrary(l)
           \/ ReloadArtistAtlas \/ CompleteOnMain \/ UNCHANGED vars
  <2>1. UNCHANGED <<tasks, worker, pending, main>>
    BY <1>3 DEF DestroyWidget, ReloadLibraryAtlas, RemoveLibrary, AddLibrary, ReloadArtistAtlas,
       CompleteOnMain, vars, work
  <2>. QED BY <2>1 DEF LoadsCounted, Loading
<1>4. CASE Free \/ Joined \/ Freed
  BY <1>4 DEF Free, Joined, Freed, LoadsCounted
<1>. QED BY <1>1, <1>2, <1>3, <1>4 DEF Next
-----------------------------------------------------------------------------
(* The manager: requests *)

LEMMA AnsweringIs ==
  ASSUME NEW r, NEW lc \in Complete
  PROVE  lc \in Answering(r) <=> r \in lc.requests
BY DEF Answering

LEMMA PostedCount ==
  ASSUME LoadTypes, NEW r
  PROVE  /\ Occurs(posted, Answering(r)) \in Nat
         /\ (\A j \in DOMAIN posted : r \notin posted[j].requests) => Occurs(posted, Answering(r)) = 0
<1>1. posted \in Seq(Complete)
  BY DEF LoadTypes
<1>2. \A j \in DOMAIN posted : posted[j] \in Complete
  BY <1>1
<1>3. \A j \in DOMAIN posted : posted[j] \in Answering(r) <=> r \in posted[j].requests
  BY <1>2 DEF Answering
<1>. QED BY <1>1, <1>3, OccursType

LEMMA RequestTyped ==
  ASSUME RequestTypes, NEW r \in 1 .. Len(request)
  PROVE  request[r].key \in Keys /\ answered[r] \in Nat
<1>1. request[r] \in [widget : Widgets, key : Keys]
  <2> DEFINE R == [widget : Widgets, key : Keys]
  <2>1. request \in Seq(R)
    BY DEF RequestTypes
  <2> HIDE DEF R
  <2>2. request[r] \in R
    BY <2>1
  <2>. QED BY <2>2 DEF R
<1>2. answered[r] \in Nat
  BY DEF RequestTypes
<1>. QED BY <1>1, <1>2

LEMMA WaitingGet ==
  ASSUME LoadTypes, RequestTypes, WaitingKnown, RequestsCounted,
         NEW w \in Widgets, NEW k \in Keys, Get(w, k)
  PROVE  WaitingKnown' /\ RequestsCounted'
<1> PICK n \in Nat : n = Len(request)
  BY DEF RequestTypes
<1> DEFINE ask == [widget |-> w, key |-> k]
           joined == (IF pending[k] = None THEN {} ELSE pending[k]) \cup {n + 1}
<1>1. /\ n \in Nat /\ n + 1 \in 1 .. MaxRequests /\ main # "freed" /\ main' = main /\ posted' = posted
      /\ request' = Append(request, ask)
  BY RequestsAssumption DEF RequestTypes, Get, Dispatching
<1>2. /\ Len(request') = n + 1 /\ request'[n + 1].key = k
      /\ \A r \in 1 .. n : request'[r] = request[r]
  BY <1>1 DEF RequestTypes
<1>3. \A other \in Keys : pending[other] # None =>
        \A r \in pending[other] : r \in 1 .. n /\ request'[r].key = other
  BY <1>2 DEF WaitingKnown
<1>4. /\ \A j \in DOMAIN posted : posted[j].requests \subseteq 1 .. n
      /\ \A j \in DOMAIN posted : n + 1 \notin posted[j].requests
  BY <1>1 DEF WaitingKnown
<1>5. Occurs(posted, Answering(n + 1)) = 0
  BY <1>4, PostedCount
<1>6. \A r \in 1 .. n : /\ Occurs(posted, Answering(r)) \in Nat
                        /\ answered[r] + Waits(r) + Occurs(posted, Answering(r)) = 1
                        /\ answered[r] \in Nat
  BY <1>1, PostedCount, RequestTyped DEF RequestsCounted
<1>7. \A r \in 1 .. n : request[r].key \in Keys
  BY RequestTyped
<1> HIDE DEF ask
<1>8. CASE Cached(k.type, k.id)
  <2>1. answered' = Append(answered, 1) /\ UNCHANGED pending
    BY <1>8 DEF Get, Hit
  <2>2. answered'[n + 1] = 1 /\ \A r \in 1 .. n : answered'[r] = answered[r]
    BY <1>1, <2>1 DEF RequestTypes
  <2>3. WaitingKnown'
    BY <1>1, <1>2, <1>3, <1>4, <2>1 DEF WaitingKnown
  <2>4. Waits(n + 1)' = 0
    <3>1. pending[k] # None => n + 1 \notin pending[k]
      BY <1>1, <1>3
    <3>. QED BY <1>2, <2>1, <3>1 DEF Waits
  <2>5. \A r \in 1 .. n : Waits(r)' = Waits(r)
    BY <1>2, <2>1 DEF Waits
  <2>6. ASSUME NEW r \in 1 .. n + 1
        PROVE  answered'[r] + Waits(r)' + Occurs(posted', Answering(r)) = 1
    <3>1. CASE r = n + 1
      BY <1>1, <1>5, <2>2, <2>4, <3>1
    <3>2. CASE r \in 1 .. n
      BY <1>1, <1>6, <2>2, <2>5, <3>2
    <3>. QED BY <1>1, <3>1, <3>2
  <2>. QED BY <1>2, <2>3, <2>6 DEF RequestsCounted, Answering
<1>9. CASE ~Cached(k.type, k.id)
  <2>1. answered' = Append(answered, 0) /\ pending' = [pending EXCEPT ![k] = joined]
    BY <1>9 DEF Get, QueueLoad
  <2>2. answered'[n + 1] = 0 /\ \A r \in 1 .. n : answered'[r] = answered[r]
    BY <1>1, <2>1 DEF RequestTypes
  <2>3. joined # None
    <3>1. joined \subseteq 1 .. MaxRequests
      BY <1>1 DEF LoadTypes
    <3> HIDE DEF joined
    <3>. QED BY <3>1, NoneApart
  <2>4. pending'[k] = joined /\ \A other \in Keys \ {k} : pending'[other] = pending[other]
    BY <2>1 DEF LoadTypes
  <2>5. \A r \in joined : r \in 1 .. n + 1 /\ request'[r].key = k
    BY <1>1, <1>2, <1>3
  <2>6. WaitingKnown'
    <3>1. ASSUME NEW other \in Keys, pending'[other] # None, NEW r \in pending'[other]
          PROVE  r \in 1 .. n + 1 /\ request'[r].key = other
      <4>1. CASE other = k
        BY <2>4, <2>5, <4>1
      <4>2. CASE other # k
        <5>1. r \in 1 .. n /\ request'[r].key = other
          BY <1>3, <2>4, <3>1, <4>2
        <5>. QED BY <1>1, <5>1
      <4>. QED BY <4>1, <4>2
    <3>2. \A j \in DOMAIN posted : posted[j].requests \subseteq 1 .. n + 1
      BY <1>1, <1>4
    <3> HIDE DEF joined
    <3>. QED BY <1>1, <1>2, <3>1, <3>2 DEF WaitingKnown
  <2>7. Waits(n + 1)' = 1
    BY <1>2, <2>3, <2>4 DEF Waits
  <2>8. \A r \in 1 .. n : Waits(r)' = Waits(r)
    <3>1. ASSUME NEW r \in 1 .. n PROVE Waits(r)' = Waits(r)
      <4>1. request'[r].key = request[r].key /\ r # n + 1 /\ request[r].key \in Keys
        BY <1>1, <1>2, <1>7
      <4>2. CASE request[r].key = k
        <5>1. r \in joined <=> pending[k] # None /\ r \in pending[k]
          BY <4>1
        <5>. QED BY <2>3, <2>4, <4>1, <4>2, <5>1 DEF Waits
      <4>3. CASE request[r].key # k
        BY <2>4, <4>1, <4>3 DEF Waits
      <4>. QED BY <4>2, <4>3
    <3>. QED BY <3>1
  <2>9. ASSUME NEW r \in 1 .. n + 1
        PROVE  answered'[r] + Waits(r)' + Occurs(posted', Answering(r)) = 1
    <3>1. CASE r = n + 1
      BY <1>1, <1>5, <2>2, <2>7, <3>1
    <3>2. CASE r \in 1 .. n
      BY <1>1, <1>6, <2>2, <2>8, <3>2
    <3>. QED BY <1>1, <3>1, <3>2
  <2>. QED BY <1>2, <2>6, <2>9 DEF RequestsCounted, Answering
<1>. QED BY <1>8, <1>9

LEMMA WaitingTake ==
  ASSUME LoadTypes, RequestTypes, WaitingKnown, RequestsCounted, NEW n \in Workers, Take(n)
  PROVE  WaitingKnown' /\ RequestsCounted'
<1> DEFINE k == worker[n].key
           lc == [key |-> k, picture |-> worker[n].picture, requests |-> pending[k]]
<1>1. UNCHANGED <<request, answered, main>>
  BY DEF Take, seen
<1>2. k \in Keys /\ worker[n] \in Holding
  BY AtIs DEF Take, Holding
<1>3. pending' = [pending EXCEPT ![k] = None]
  BY DEF Take
<1>4. pending'[k] = None /\ \A other \in Keys \ {k} : pending'[other] = pending[other]
  BY <1>2, <1>3 DEF LoadTypes
<1>5. \A r \in 1 .. Len(request) :
        request[r].key \in Keys /\ answered[r] \in Nat /\ Occurs(posted, Answering(r)) \in Nat
  BY PostedCount, RequestTyped
<1>6. CASE pending[k] = None
  <2>1. posted' = posted
    BY <1>6 DEF Take
  <2>2. \A other \in Keys : pending'[other] = pending[other]
    BY <1>4, <1>6
  <2>3. WaitingKnown'
    BY <1>1, <2>1, <2>2 DEF WaitingKnown
  <2>4. \A r \in 1 .. Len(request) : Waits(r)' = Waits(r)
    BY <1>1, <1>5, <2>2 DEF Waits
  <2>. QED BY <1>1, <2>1, <2>3, <2>4 DEF RequestsCounted, Answering
<1>7. CASE pending[k] # None
  <2>1. posted' = Append(posted, lc) /\ lc.requests = pending[k]
    BY <1>7 DEF Take
  <2>2. lc \in Complete /\ posted \in Seq(Complete)
    BY <1>2, <1>7 DEF Complete, Holding, LoadTypes
  <2>3. \A r \in pending[k] : r \in 1 .. Len(request) /\ request[r].key = k
    BY <1>2, <1>7 DEF WaitingKnown
  <2> HIDE DEF lc, k
  <2>4. WaitingKnown'
    <3>1. \A j \in DOMAIN posted' : posted'[j].requests \subseteq 1 .. Len(request)
      <4>1. ASSUME NEW j \in DOMAIN posted' PROVE posted'[j] = lc \/ \E i \in DOMAIN posted : posted'[j] = posted[i]
        BY <2>1, <2>2
      <4>. QED BY <2>1, <2>3, <4>1 DEF WaitingKnown
    <3>. QED BY <1>1, <1>4, <3>1 DEF WaitingKnown
  <2>5. ASSUME main # "freed", NEW r \in 1 .. Len(request)
        PROVE  answered'[r] + Waits(r)' + Occurs(posted', Answering(r)) = 1
    <3>1. answered[r] + Waits(r) + Occurs(posted, Answering(r)) = 1
      BY <2>5 DEF RequestsCounted
    <3>2. Occurs(posted', Answering(r)) = Occurs(posted, Answering(r)) + (IF r \in pending[k] THEN 1 ELSE 0)
      <4>1. lc \in Answering(r) <=> r \in pending[k]
        BY <2>1, <2>2, AnsweringIs
      <4>2. Occurs(Append(posted, lc), Answering(r))
              = Occurs(posted, Answering(r)) + (IF lc \in Answering(r) THEN 1 ELSE 0)
        BY <2>2, OccursAppend
      <4>. QED BY <2>1, <4>1, <4>2
    <3>3. Waits(r) = Waits(r)' + (IF r \in pending[k] THEN 1 ELSE 0) /\ Waits(r)' \in {0, 1}
      <4>1. CASE request[r].key = k
        BY <1>1, <1>4, <1>7, <4>1 DEF Waits
      <4>2. CASE request[r].key # k
        BY <1>1, <1>4, <1>5, <2>3, <4>2 DEF Waits
      <4>. QED BY <4>1, <4>2
    <3>. QED BY SMTT(30), <1>1, <1>5, <3>1, <3>2, <3>3
  <2>. QED BY <1>1, <2>4, <2>5 DEF RequestsCounted, Answering
<1>. QED BY <1>6, <1>7

LEMMA WaitingComplete ==
  ASSUME LoadTypes, RequestTypes, WaitingKnown, RequestsCounted, CompleteOnMain
  PROVE  WaitingKnown' /\ RequestsCounted'
<1>1. UNCHANGED <<pending, request, main>> /\ posted # <<>> /\ posted' = Tail(posted)
  BY DEF CompleteOnMain
<1>2. /\ posted \in Seq(Complete) /\ Head(posted) \in Complete /\ Tail(posted) \in Seq(Complete)
      /\ \A j \in DOMAIN Tail(posted) : \E i \in DOMAIN posted : Tail(posted)[j] = posted[i]
  <2>1. posted \in Seq(Complete)
    BY DEF LoadTypes
  <2>. QED BY <1>1, <2>1
<1>3. WaitingKnown'
  BY <1>1, <1>2 DEF WaitingKnown
<1>4. \A r \in 1 .. Len(request) :
        answered'[r] = answered[r] + (IF r \in Head(posted).requests THEN 1 ELSE 0)
  BY DEF CompleteOnMain, Requests, RequestTypes
<1>5. ASSUME main # "freed", NEW r \in 1 .. Len(request)
      PROVE  answered'[r] + Waits(r)' + Occurs(posted', Answering(r)) = 1
  <2>1. answered[r] + Waits(r) + Occurs(posted, Answering(r)) = 1
    BY <1>5 DEF RequestsCounted
  <2>2. Head(posted) \in Answering(r) <=> r \in Head(posted).requests
    BY <1>2, AnsweringIs
  <2>3. Occurs(posted, Answering(r))
          = (IF Head(posted) \in Answering(r) THEN 1 ELSE 0) + Occurs(Tail(posted), Answering(r))
    BY <1>1, <1>2, OccursTail
  <2>4. Waits(r)' = Waits(r) /\ Waits(r) \in {0, 1}
    BY <1>1 DEF Waits
  <2>5. answered[r] \in Nat /\ Occurs(Tail(posted), Answering(r)) \in Nat
    <3>1. Occurs(Tail(posted), Answering(r)) \in Nat
      BY <1>2, OccursType
    <3>. QED BY <3>1, RequestTyped
  <2>. QED BY SMTT(30), <1>1, <1>4, <2>1, <2>2, <2>3, <2>4, <2>5
<1>. QED BY <1>1, <1>3, <1>5 DEF RequestsCounted, Answering

LEMMA WaitingStep ==
  ASSUME LoadTypes, RequestTypes, LibraryTypes, WaitingKnown, RequestsCounted, [Next]_vars
  PROVE  WaitingKnown' /\ RequestsCounted'
<1>1. CASE \E w \in Widgets, k \in Keys : Get(w, k)
  BY <1>1, WaitingGet
<1>2. CASE \E n \in Workers : Take(n)
  BY <1>2, WaitingTake
<1>3. CASE CompleteOnMain
  BY <1>3, WaitingComplete
<1>4. CASE Freed
  <2>1. pending' = [k \in Keys |-> None] /\ UNCHANGED <<posted, request>> /\ main' = "freed"
    BY <1>4 DEF Freed, seen
  <2>. QED BY <2>1 DEF WaitingKnown, RequestsCounted
<1>5. CASE \/ \E w \in Widgets : DestroyWidget(w)
           \/ \E n \in Workers : Pop(n) \/ Look(n) \/ Read(n)
           \/ \E l \in Libraries : ReloadLibraryAtlas(l) \/ RemoveLibrary(l) \/ AddLibrary(l)
           \/ ReloadArtistAtlas \/ Free \/ Joined \/ UNCHANGED vars
  <2>1. UNCHANGED <<pending, posted, request, answered>>
    BY <1>5 DEF DestroyWidget, Pop, Look, Read, ReloadLibraryAtlas, RemoveLibrary, AddLibrary,
       ReloadArtistAtlas, Free, Joined, vars, work, seen
  <2>2. main' # "freed" => main # "freed"
    BY <1>5 DEF DestroyWidget, Pop, Look, Read, ReloadLibraryAtlas, RemoveLibrary, AddLibrary,
       ReloadArtistAtlas, Free, Joined, vars
  <2>3. WaitingKnown'
    BY <2>1 DEF WaitingKnown
  <2>4. \A r : Waits(r)' = Waits(r)
    BY <2>1 DEF Waits
  <2>. QED BY <2>1, <2>2, <2>3, <2>4 DEF RequestsCounted, Answering
<1>. QED BY <1>1, <1>2, <1>3, <1>4, <1>5 DEF Next, WorkerStep

LEMMA EndsStep ==
  ASSUME LoadTypes, EndsInOrder, [Next]_vars
  PROVE  EndsInOrder'
<1>1. CASE \E w \in Widgets, k \in Keys : Get(w, k)
  BY <1>1 DEF Get, Dispatching, EndsInOrder
<1>2. CASE \E n \in Workers : WorkerStep(n)
  <2> PICK n \in Workers : WorkerStep(n)
    BY <1>2
  <2>1. worker[n] # Ended /\ main' = main
    BY DEF WorkerStep, Pop, Look, Read, Take, Idle, Ended
  <2>. QED BY <2>1 DEF EndsInOrder
<1>3. CASE CompleteOnMain
  <2>1. main' = main /\ worker' = worker /\ main # "freed"
    BY <1>3 DEF CompleteOnMain, Dispatching
  <2>. QED BY <2>1 DEF EndsInOrder
<1>4. CASE \/ \E w \in Widgets : DestroyWidget(w)
           \/ \E l \in Libraries : ReloadLibraryAtlas(l) \/ RemoveLibrary(l) \/ AddLibrary(l)
           \/ ReloadArtistAtlas \/ UNCHANGED vars
  <2>1. UNCHANGED <<main, worker, posted>>
    BY <1>4 DEF DestroyWidget, ReloadLibraryAtlas, RemoveLibrary, AddLibrary, ReloadArtistAtlas, vars, work
  <2>. QED BY <2>1 DEF EndsInOrder
<1>5. CASE Free \/ Joined \/ Freed
  BY <1>5 DEF Free, Joined, Freed, work, EndsInOrder
<1>. QED BY <1>1, <1>2, <1>3, <1>4, <1>5 DEF Next

-----------------------------------------------------------------------------
(* The manager: the texture cache *)

LEMMA LeastNumber ==
  ASSUME NEW K, K \subseteq Nat, K # {}
  PROVE  \E m \in K : \A j \in K : m <= j
<1>1. PICK c \in K : TRUE
  OBVIOUS
<1> DEFINE S == 0 .. c  F == {0 .. k : k \in K \cap S}
<1>2. IsFiniteSet(S) /\ F \subseteq SUBSET S /\ F # {}
  <2>1. IsFiniteSet(S)
    <3>1. 0 \in Int /\ c \in Int
      OBVIOUS
    <3>. QED BY <3>1, FS_Interval
  <2>2. ASSUME NEW k \in K \cap S PROVE 0 .. k \subseteq S
    <3>1. k \in 0 .. c
      OBVIOUS
    <3>. QED BY <3>1
  <2>3. c \in K \cap S
    OBVIOUS
  <2>. QED BY <2>1, <2>2, <2>3
<1>3. IsWellFoundedOn(StrictSubsetOrdering(S), SUBSET S)
  BY <1>2, FS_StrictSubsetOrderingWellFounded, FS_FiniteSubsetsOfFinite
<1>4. PICK T \in F : \A U \in F : <<U, T>> \notin StrictSubsetOrdering(S)
  <2> HIDE DEF F, S
  <2>. QED BY <1>2, <1>3, WFMin
<1>5. PICK m \in K \cap S : T = 0 .. m
  OBVIOUS
<1>6. ASSUME NEW j \in K, ~(m <= j) PROVE FALSE
  <2>1. j \in K \cap S /\ 0 .. j \subseteq T /\ 0 .. j # T
    <3>1. j \in Nat /\ m \in 0 .. c /\ j < m
      BY <1>6
    <3>2. j \in 0 .. c /\ m \in 0 .. m /\ m \notin 0 .. j
      BY <3>1
    <3>. QED BY <1>5, <3>1, <3>2
  <2>2. 0 .. j \in F /\ 0 .. j \in SUBSET S /\ T \in SUBSET S
    BY <1>2, <2>1
  <2>. QED BY <1>4, <2>1, <2>2 DEF StrictSubsetOrdering
<1>. QED BY <1>6

\* What is picked is as many as the positions found, each from one of them.
LEMMA PickedIs ==
  ASSUME NEW S, NEW entries \in Seq(S), NEW picked, picked \subseteq DOMAIN entries
  PROVE  /\ Picked(entries, picked) \in Seq(S)
         /\ IsFiniteSet(picked) /\ Cardinality(picked) \in Nat
         /\ Len(Picked(entries, picked)) = Cardinality(picked)
         /\ Cardinality(picked) <= Len(entries)
<1> DEFINE n == Len(entries)  size == Cardinality(picked)
           chosen(k) == CHOOSE j \in picked : Cardinality({i \in picked : i <= j}) = k
<1>1. n \in Nat /\ picked \subseteq 1 .. n
  OBVIOUS
<1>2. /\ IsFiniteSet(picked) /\ size \in 0 .. n
      /\ \A k \in 1 .. size : \E j \in picked : Cardinality({i \in picked : i <= j}) = k
  <2> DEFINE rank == [j \in picked |-> Cardinality({i \in picked : i <= j})]
  <2>1. IsFiniteSet(picked) /\ size \in 0 .. n /\ \A k \in 1 .. size : \E j \in picked : rank[j] = k
    <3> HIDE DEF n
    <3>. QED BY <1>1, Ranks
  <2>2. \A j \in picked : rank[j] = Cardinality({i \in picked : i <= j})
    OBVIOUS
  <2> HIDE DEF rank
  <2>. QED BY <2>1, <2>2
<1>3. \A k \in 1 .. size : chosen(k) \in picked
  BY <1>2
<1> HIDE DEF chosen, size
<1>4. \A k \in 1 .. size : entries[chosen(k)] \in S
  BY <1>3
<1>5. Picked(entries, picked) = [k \in 1 .. size |-> entries[chosen(k)]]
  BY DEF Picked, chosen, size
<1>6. size \in Nat /\ size <= n
  BY <1>1, <1>2
<1>7. [k \in 1 .. size |-> entries[chosen(k)]] \in Seq(S)
  BY <1>4, <1>6
<1>8. Len([k \in 1 .. size |-> entries[chosen(k)]]) = size
  BY <1>6
<1>. QED BY <1>2, <1>5, <1>6, <1>7, <1>8 DEF size

\* The entry of an id that is there is left out.
LEMMA WithoutIs ==
  ASSUME NEW entries \in Seq(Entry), NEW x
  PROVE  /\ Without(entries, x) \in Seq(Entry) /\ Len(Without(entries, x)) \in Nat
         /\ Len(Without(entries, x)) <= Len(entries)
         /\ (\E j \in DOMAIN entries : entries[j].id = x) =>
                Len(Without(entries, x)) < Len(entries)
<1> DEFINE rest == {j \in DOMAIN entries : entries[j].id # x}
<1>1. rest \subseteq DOMAIN entries /\ Without(entries, x) = Picked(entries, rest)
  BY DEF Without
<1>2. ASSUME NEW j \in DOMAIN entries, entries[j].id = x PROVE Cardinality(rest) < Len(entries)
  <2>1. rest \subseteq (1 .. Len(entries)) \ {j} /\ j \in 1 .. Len(entries)
    BY <1>2
  <2>2. IsFiniteSet(1 .. Len(entries)) /\ Cardinality(1 .. Len(entries)) = Len(entries) /\ Len(entries) \in Nat
    <3>1. Len(entries) \in Nat
      OBVIOUS
    <3>. QED BY <3>1, IntervalSize
  <2>3. /\ IsFiniteSet((1 .. Len(entries)) \ {j})
        /\ Cardinality((1 .. Len(entries)) \ {j}) = Len(entries) - 1
    <3> DEFINE A == 1 .. Len(entries)
    <3>1. IsFiniteSet(A) /\ Cardinality(A) = Len(entries) /\ j \in A
      BY <2>1, <2>2
    <3> HIDE DEF A
    <3>2. IsFiniteSet(A \ {j}) /\ Cardinality(A \ {j}) = Cardinality(A) - 1
      BY <3>1, FS_RemoveElement
    <3>. QED BY <3>1, <3>2 DEF A
  <2> HIDE DEF rest
  <2>4. Cardinality(rest) <= Cardinality((1 .. Len(entries)) \ {j}) /\ Cardinality(rest) \in Nat
    BY <2>1, <2>3, FS_Subset, FS_CardinalityType
  <2>. QED BY <2>2, <2>3, <2>4
<1> HIDE DEF rest
<1>3. /\ Picked(entries, rest) \in Seq(Entry) /\ Cardinality(rest) \in Nat
      /\ Len(Picked(entries, rest)) = Cardinality(rest) /\ Cardinality(rest) <= Len(entries)
  BY <1>1, PickedIs
<1>. QED BY <1>1, <1>2, <1>3

\* There is always a victim among the entries scanned.
LEMMA VictimIs ==
  ASSUME NEW entries \in Seq(Entry), entries # <<>>
  PROVE  Victim(entries) \in DOMAIN entries
<1> DEFINE n == Len(entries)  scanned == Scanned(entries)
           counts == {entries[j].count : j \in scanned}
<1>1. n \in Nat \ {0} /\ DOMAIN entries = 1 .. n
  OBVIOUS
<1>2. scanned \subseteq 1 .. n /\ n \in scanned
  <2> DEFINE share == (n * 10) \div 100
             scan == IF share < ScanMin THEN ScanMin ELSE share
  <2>1. share \in Int
    BY <1>1
  <2> HIDE DEF share
  <2>2. scan \in Int /\ scan >= 1
    BY <2>1, CacheAssumption
  <2> HIDE DEF scan, n
  <2>3. (IF scan > n THEN 1 ELSE n - scan + 1) \in 1 .. n
    BY <1>1, <2>2
  <2>4. scanned = (IF scan > n THEN 1 ELSE n - scan + 1) .. n
    BY DEF Scanned, scan, share, n
  <2> HIDE DEF scanned
  <2>. QED BY <1>1, <2>3, <2>4
<1> HIDE DEF scanned
<1>3. \A j \in scanned : entries[j] \in Entry /\ entries[j].count \in Nat
  <2>1. \A j \in scanned : entries[j] \in Entry
    BY <1>1, <1>2
  <2>. QED BY <2>1 DEF Entry
<1>4. counts \subseteq Nat /\ counts # {}
  BY <1>2, <1>3
<1>5. PICK least \in counts : \A c \in counts : least <= c
  BY <1>4, LeastNumber
<1> DEFINE rarest == {j \in scanned : entries[j].count = least}
           back == {n - j : j \in rarest}
<1>6. back \subseteq Nat /\ back # {}
  <2>1. ASSUME NEW j \in rarest PROVE n - j \in Nat
    BY <1>1, <1>2
  <2>2. rarest # {}
    OBVIOUS
  <2> HIDE DEF rarest
  <2>. QED BY <2>1, <2>2
<1>7. PICK nearest \in back : \A b \in back : nearest <= b
  <2> HIDE DEF back
  <2>. QED BY <1>6, LeastNumber
<1>8. PICK j \in rarest : nearest = n - j
  OBVIOUS
<1>9. \A i \in scanned : \/ entries[j].count < entries[i].count
                         \/ entries[j].count = entries[i].count /\ j >= i
  <2> SUFFICES ASSUME NEW i \in scanned
               PROVE  \/ entries[j].count < entries[i].count
                      \/ entries[j].count = entries[i].count /\ j >= i
    OBVIOUS
  <2>1. entries[j].count = least /\ entries[i].count \in counts /\ entries[i].count \in Nat
    BY <1>3
  <2>2. least \in Nat /\ least <= entries[i].count
    BY <1>4, <1>5, <2>1
  <2>3. ASSUME entries[i].count = least PROVE j >= i
    <3>1. n - i \in back
      BY <2>3
    <3>2. n - j <= n - i /\ i \in 1 .. n /\ j \in 1 .. n
      BY <1>2, <1>7, <1>8, <3>1
    <3>. QED BY <1>1, <3>2
  <2>. QED BY <2>1, <2>2, <2>3
<1>10. j \in scanned
  OBVIOUS
<1>11. Victim(entries) \in scanned
  <2> HIDE DEF rarest, back, counts
  <2>. QED BY <1>9, <1>10 DEF Victim, scanned
<1> HIDE DEF n
<1>. QED BY <1>1, <1>2, <1>11

LEMMA InsertedIs ==
  ASSUME NEW entries \in Seq(Entry), Len(entries) <= MaxEntries,
         NEW x \in Albums \cup Artists, NEW picture \in Pics
  PROVE  Inserted(entries, x, picture) \in Seq(Entry) /\ Len(Inserted(entries, x, picture)) <= MaxEntries
<1> DEFINE e == [id |-> x, picture |-> picture, count |-> 1]
           more == <<e>> \o entries
<1>1. CASE picture = None \/ Position(entries, x) # {}
  BY <1>1 DEF Inserted
<1>2. CASE ~(picture = None \/ Position(entries, x) # {})
  <2>1. e \in Entry
    BY DEF Entry
  <2> HIDE DEF e
  <2>2. more \in Seq(Entry) /\ Len(more) = 1 + Len(entries) /\ more # <<>> /\ Len(more) \in Nat
    BY <2>1
  <2> HIDE DEF more
  <2>3. Inserted(entries, x, picture) = Evicted(more)
    BY <1>2 DEF Inserted, more, e
  <2>4. CASE Len(more) <= MaxEntries
    BY <2>2, <2>3, <2>4 DEF Evicted
  <2>5. CASE ~(Len(more) <= MaxEntries)
    <3> DEFINE y == more[Victim(more)].id
    <3>1. \E j \in DOMAIN more : more[j].id = y
      BY <2>2, VictimIs
    <3> HIDE DEF y
    <3>2. Without(more, y) \in Seq(Entry) /\ Len(Without(more, y)) \in Nat /\ Len(Without(more, y)) < Len(more)
      BY <2>2, <3>1, WithoutIs
    <3>3. Evicted(more) = Without(more, y)
      BY <2>5 DEF Evicted, y
    <3>. QED BY <2>2, <2>3, <3>2, <3>3, CacheAssumption
  <2>. QED BY <2>4, <2>5
<1>. QED BY <1>1, <1>2

LEMMA TouchedIs ==
  ASSUME NEW entries \in Seq(Entry), NEW j \in DOMAIN entries, Len(entries) <= MaxEntries
  PROVE  Touched(entries, entries[j]) \in Seq(Entry) /\ Len(Touched(entries, entries[j])) <= MaxEntries
<1> DEFINE e == entries[j]  y == e.id
           more == IF e.count < MaxCount THEN e.count + 1 ELSE e.count
           one == <<[e EXCEPT !.count = more]>>  rest == Without(entries, y)
<1>1. e \in Entry
  OBVIOUS
<1>2. more \in Nat
  BY <1>1, CacheAssumption DEF Entry
<1>3. one \in Seq(Entry) /\ Len(one) = 1
  <2> HIDE DEF more, e
  <2>1. [e EXCEPT !.count = more] \in Entry
    BY <1>1, <1>2 DEF Entry
  <2>. QED BY <2>1
<1>4. rest \in Seq(Entry) /\ Len(rest) \in Nat /\ Len(rest) < Len(entries)
  <2>1. \E i \in DOMAIN entries : entries[i].id = y
    OBVIOUS
  <2> HIDE DEF y
  <2>. QED BY <2>1, WithoutIs
<1>5. Touched(entries, e) = one \o rest
  BY DEF Touched
<1> HIDE DEF one, rest
<1>6. one \o rest \in Seq(Entry) /\ Len(one \o rest) = 1 + Len(rest)
  BY ZenonT(60), <1>3, <1>4, ConcatProperties
<1>7. 1 + Len(rest) <= MaxEntries
  BY <1>4, CacheAssumption
<1> HIDE DEF e
<1>. QED BY <1>5, <1>6, <1>7 DEF e

LEMMA EvictLibraryIs ==
  ASSUME NEW entries \in Seq(Entry), Len(entries) <= MaxEntries, NEW l
  PROVE  EvictLibrary(entries, l) \in Seq(Entry) /\ Len(EvictLibrary(entries, l)) <= MaxEntries
<1> DEFINE rest == {j \in DOMAIN entries : LibraryOf[entries[j].id] # l}
<1>1. rest \subseteq DOMAIN entries /\ EvictLibrary(entries, l) = Picked(entries, rest)
  BY DEF EvictLibrary
<1> HIDE DEF rest
<1>2. /\ Picked(entries, rest) \in Seq(Entry) /\ Cardinality(rest) \in Nat
      /\ Len(Picked(entries, rest)) = Cardinality(rest) /\ Cardinality(rest) <= Len(entries)
  BY <1>1, PickedIs
<1>3. Cardinality(rest) <= MaxEntries
  BY <1>2, CacheAssumption
<1>. QED BY <1>1, <1>2, <1>3

LEMMA CacheStep ==
  ASSUME LoadTypes, CacheTypes, [Next]_vars
  PROVE  CacheTypes'
<1> DEFINE Full(s) == s \in Seq(Entry) /\ Len(s) <= MaxEntries
<1>1. /\ cache \in [{"album", "artist"} -> Seq(Entry)] /\ DOMAIN cache = {"album", "artist"}
      /\ \A t \in {"album", "artist"} : Full(cache[t])
      /\ Full(<<>>)
  BY CacheAssumption DEF CacheTypes
<1>2. ASSUME NEW c, c \in [{"album", "artist"} -> Seq(Entry)], cache' = c,
             \A t \in {"album", "artist"} : Full(c[t])
      PROVE  CacheTypes'
  BY <1>2 DEF CacheTypes
<1>3. ASSUME NEW t \in {"album", "artist"}, NEW s, Full(s), cache' = [cache EXCEPT ![t] = s]
      PROVE  CacheTypes'
  <2> DEFINE c == [cache EXCEPT ![t] = s]
  <2>1. c \in [{"album", "artist"} -> Seq(Entry)]
    BY <1>1, <1>3
  <2>2. c[t] = s /\ \A other \in {"album", "artist"} \ {t} : c[other] = cache[other]
    BY <1>1
  <2> HIDE DEF c, Full
  <2>3. \A other \in {"album", "artist"} : Full(c[other])
    BY <1>1, <1>3, <2>2
  <2>. QED BY <1>2, <1>3, <2>1, <2>3 DEF c
<1>4. CASE \E w \in Widgets, k \in Keys : Get(w, k)
  <2> PICK w \in Widgets, k \in Keys : Get(w, k)
    BY <1>4
  <2>1. CASE Cached(k.type, k.id)
    <3> DEFINE j == CHOOSE i \in Position(cache[k.type], k.id) : TRUE
               e == cache[k.type][j]
    <3>1. k.type \in {"album", "artist"} /\ j \in DOMAIN cache[k.type]
      BY <2>1, KeysAre DEF Cached, Position
    <3>2. cache' = [cache EXCEPT ![k.type] = Touched(cache[k.type], e)]
      <4>1. cache' = [cache EXCEPT ![k.type] = Touched(@, EntryOf(k.type, k.id))]
        BY <2>1 DEF Get, Hit
      <4>2. EntryOf(k.type, k.id) = e
        BY DEF EntryOf
      <4> HIDE DEF e
      <4>. QED BY <1>1, <3>1, <4>1, <4>2
    <3> HIDE DEF j
    <3>3. Full(Touched(cache[k.type], e))
      BY <1>1, <3>1, TouchedIs
    <3> HIDE DEF e, Full
    <3>. QED BY <1>3, <3>1, <3>2, <3>3
  <2>2. CASE ~Cached(k.type, k.id)
    BY <2>2 DEF Get, QueueLoad, CacheTypes
  <2>. QED BY <2>1, <2>2
<1>5. CASE CompleteOnMain
  <2> DEFINE lc == Head(posted)
  <2>1. lc.key \in Keys /\ lc.picture \in Pics
    <3>1. posted # <<>> /\ posted \in Seq(Complete)
      BY <1>5 DEF CompleteOnMain, LoadTypes
    <3>2. lc \in Complete
      BY <3>1
    <3> HIDE DEF lc
    <3>. QED BY <3>2 DEF Complete
  <2>2. cache' = IF lc.key.type = "fullsize" THEN cache
                 ELSE [cache EXCEPT ![lc.key.type] = Inserted(@, lc.key.id, lc.picture)]
    BY <1>5 DEF CompleteOnMain
  <2> HIDE DEF lc
  <2>3. CASE lc.key.type = "fullsize"
    BY <2>2, <2>3 DEF CacheTypes
  <2>4. CASE lc.key.type # "fullsize"
    <3>1. lc.key.type \in {"album", "artist"} /\ lc.key.id \in Albums \cup Artists
      BY <2>1, <2>4, KeysAre
    <3>2. cache' = [cache EXCEPT ![lc.key.type] = Inserted(cache[lc.key.type], lc.key.id, lc.picture)]
      BY <1>1, <2>2, <2>4, <3>1
    <3>3. Full(Inserted(cache[lc.key.type], lc.key.id, lc.picture))
      BY <1>1, <2>1, <3>1, InsertedIs
    <3> HIDE DEF Full
    <3>. QED BY <1>3, <3>1, <3>2, <3>3
  <2>. QED BY <2>3, <2>4
<1>6. ASSUME NEW l \in Libraries, ReloadLibraryAtlas(l) PROVE CacheTypes'
  <2>1. cache' = [cache EXCEPT !["album"] = EvictLibrary(cache["album"], l)]
    BY <1>6 DEF ReloadLibraryAtlas
  <2>2. Full(EvictLibrary(cache["album"], l))
    BY <1>1, EvictLibraryIs
  <2> HIDE DEF Full
  <2>. QED BY <1>3, <2>1, <2>2
<1>7. ASSUME NEW l \in Libraries, RemoveLibrary(l) PROVE CacheTypes'
  <2> DEFINE c == [t \in {"album", "artist"} |-> EvictLibrary(cache[t], l)]
  <2>1. cache' = c
    BY <1>1, <1>7 DEF RemoveLibrary
  <2>2. \A t \in {"album", "artist"} : Full(EvictLibrary(cache[t], l))
    BY <1>1, EvictLibraryIs
  <2>3. c \in [{"album", "artist"} -> Seq(Entry)] /\ \A t \in {"album", "artist"} : Full(c[t])
    BY <2>2
  <2> HIDE DEF c, Full
  <2>. QED BY <1>2, <2>1, <2>3
<1>8. CASE ReloadArtistAtlas
  <2>1. cache' = [cache EXCEPT !["artist"] = <<>>]
    BY <1>8 DEF ReloadArtistAtlas
  <2> HIDE DEF Full
  <2>. QED BY <1>1, <1>3, <2>1
<1>9. CASE Freed
  <2> DEFINE c == [t \in {"album", "artist"} |-> <<>>]
  <2>1. cache' = c
    BY <1>1, <1>9 DEF Freed
  <2>2. c \in [{"album", "artist"} -> Seq(Entry)] /\ \A t \in {"album", "artist"} : Full(c[t])
    BY <1>1
  <2> HIDE DEF c, Full
  <2>. QED BY <1>2, <2>1, <2>2
<1>10. CASE \/ \E w \in Widgets : DestroyWidget(w)
            \/ \E n \in Workers : WorkerStep(n)
            \/ \E l \in Libraries : AddLibrary(l)
            \/ Free \/ Joined \/ UNCHANGED vars
  <2>1. UNCHANGED cache
    BY <1>10 DEF DestroyWidget, WorkerStep, Pop, Look, Read, Take, AddLibrary, Free, Joined, vars
  <2>. QED BY <2>1 DEF CacheTypes
<1>. QED BY <1>4, <1>5, <1>6, <1>7, <1>8, <1>9, <1>10 DEF Next

-----------------------------------------------------------------------------
(* The manager: its invariant *)

LEMMA ManagerInit ==
  ASSUME Init
  PROVE  ManagerIInv
<1>1. LoadTypes
  <2>1. pending \in [Keys -> {None} \cup SUBSET (1 .. MaxRequests)]
    BY DEF Init
  <2>2. worker \in [Workers -> {Idle, Ended} \cup Looking \cup Holding]
    BY DEF Init
  <2>. QED BY <2>1, <2>2 DEF Init, LoadTypes
<1>2. RequestTypes
  <2>1. request = <<>> /\ answered = <<>>
    BY DEF Init
  <2>. QED BY <2>1, RequestsAssumption DEF RequestTypes
<1>3. LibraryTypes
  <2>1. changes = 0 /\ artistAtlas = 0 /\ moves = 0 /\ main = "run" /\ version \in [Libraries -> {0, None}]
    BY DEF Init
  <2>2. 0 \in 0 .. MaxChanges /\ 0 \in 0 .. 0
    BY RequestsAssumption
  <2>. QED BY <2>1, <2>2 DEF LibraryTypes
<1>4. CacheTypes
  <2>1. cache = [t \in {"album", "artist"} |-> <<>>]
    BY DEF Init
  <2>. QED BY <2>1, CacheAssumption DEF CacheTypes
<1>5. LoadsCounted
  <2>1. \A k : Loading(k) = {}
    BY DEF Init, Loading
  <2>2. \A k : Occurs(tasks, {k}) = 0
    BY OccursSmall DEF Init
  <2>3. \A k \in Keys : pending[k] = None
    BY DEF Init
  <2>4. Cardinality({}) = 0
    BY FS_EmptySet
  <2>. QED BY <2>1, <2>2, <2>3, <2>4 DEF LoadsCounted
<1>6. WaitingKnown
  <2>1. posted = <<>> /\ \A k \in Keys : pending[k] = None
    BY DEF Init
  <2>. QED BY <2>1 DEF WaitingKnown
<1>7. RequestsCounted
  <2>1. Len(request) = 0
    BY DEF Init
  <2>2. 1 .. Len(request) = {}
    BY <2>1
  <2>. QED BY <2>2 DEF RequestsCounted
<1>8. EndsInOrder
  BY DEF Init, EndsInOrder
<1>. QED BY <1>1, <1>2, <1>3, <1>4, <1>5, <1>6, <1>7, <1>8 DEF ManagerIInv

LEMMA ManagerStep ==
  ASSUME ManagerIInv, [Next]_vars
  PROVE  ManagerIInv'
<1>. QED BY TypesStep, CacheStep, LoadsStep, WaitingStep, EndsStep DEF ManagerIInv

\* What is counted is what the properties count.
LEMMA ManagerImplies ==
  ASSUME ManagerIInv
  PROVE  ManagerSound /\ TypeOK
<1>1. LoadsAccounted
  <2>1. ASSUME NEW k \in Keys
        PROVE  /\ Count({j \in DOMAIN tasks : tasks[j] = k}) = Occurs(tasks, {k})
               /\ Count({n \in Workers : worker[n] \notin {Idle, Ended} /\ worker[n].key = k})
                    = Cardinality(Loading(k))
    BY DEF Count, Occurs, Loading
  <2>. QED BY <2>1 DEF ManagerIInv, LoadsCounted, LoadsAccounted
<1>2. RequestsAccounted
  <2>1. ASSUME NEW r \in Requests
        PROVE  Count({j \in DOMAIN posted : r \in posted[j].requests}) = Occurs(posted, Answering(r))
    <3>1. posted \in Seq(Complete)
      BY DEF ManagerIInv, LoadTypes
    <3>2. \A j \in DOMAIN posted : posted[j] \in Complete
      BY <3>1
    <3>3. {j \in DOMAIN posted : r \in posted[j].requests} = {j \in DOMAIN posted : posted[j] \in Answering(r)}
      BY <3>2 DEF Answering
    <3>. QED BY <3>3 DEF Count, Occurs
  <2>2. \A r \in Requests :
          Waits(r) = IF pending[request[r].key] # None /\ r \in pending[request[r].key] THEN 1 ELSE 0
    BY DEF Waits
  <2>3. Requests = 1 .. Len(request)
    BY DEF ManagerIInv, RequestTypes, Requests
  <2>4. main # "freed" =>
          \A r \in Requests : answered[r] + Waits(r) + Occurs(posted, Answering(r)) = 1
    BY <2>3 DEF ManagerIInv, RequestsCounted
  <2> HIDE DEF Requests
  <2>. QED BY <2>1, <2>2, <2>4 DEF RequestsAccounted
<1>3. FreedIsQuiet
  BY DEF ManagerIInv, EndsInOrder, FreedIsQuiet
<1>4. TypeOK
  <2>1. Requests = 1 .. Len(request) /\ answered \in [Requests -> Nat]
    BY DEF ManagerIInv, RequestTypes, Requests
  <2>2. pending \in [Keys -> {None} \cup SUBSET Requests]
    <3>1. pending \in [Keys -> {None} \cup SUBSET (1 .. MaxRequests)]
      BY DEF ManagerIInv, LoadTypes
    <3>2. \A k \in Keys : pending[k] # None => pending[k] \subseteq 1 .. Len(request)
      BY DEF ManagerIInv, WaitingKnown
    <3>. QED BY <2>1, <3>1, <3>2
  <2>3. \A n \in Workers : worker[n].at \in {"idle", "look", "read", "take", "ended"}
    <3>1. \A n \in Workers : worker[n] \in {Idle, Ended} \cup Looking \cup Holding
      BY DEF ManagerIInv, LoadTypes
    <3>. QED BY <3>1 DEF Idle, Ended, Looking, Holding
  <2>4. version \in [Libraries -> 0 .. MaxChanges \cup {None}]
    <3>1. version \in [Libraries -> 0 .. changes \cup {None}] /\ 0 .. changes \subseteq 0 .. MaxChanges
      BY RequestsAssumption DEF ManagerIInv, LibraryTypes
    <3>. QED BY <3>1
  <2>5. tasks \in Seq(Keys) /\ request \in Seq([widget : Widgets, key : Keys])
    BY DEF ManagerIInv, LoadTypes, RequestTypes
  <2>6. main \in {"run", "join", "drain", "freed"} /\ \A t \in {"album", "artist"} : Len(cache[t]) <= MaxEntries
    BY DEF ManagerIInv, LibraryTypes, CacheTypes
  <2>. QED BY <2>1, <2>2, <2>3, <2>4, <2>5, <2>6 DEF TypeOK
<1>. QED BY <1>1, <1>2, <1>3, <1>4 DEF ManagerSound

\* No load of a picture is lost or made twice, every request is answered exactly once, and when the
\* manager is freed no worker runs and no callback of it is left (artwork_manager.c): for any number of
\* widgets, workers, libraries and requests.
THEOREM ManagerAlwaysSound == PartsSpec => []ManagerSound
<1>1. PartsInit => ManagerIInv
  BY ManagerInit DEF PartsInit
<1>2. ManagerIInv /\ [PartsNext]_<<part, pictures, art, bios, vars>> => ManagerIInv'
  BY ManagerStep DEF PartsNext
<1>3. ManagerIInv => ManagerSound
  BY ManagerImplies
<1>. QED BY <1>1, <1>2, <1>3, PTL DEF PartsSpec

-----------------------------------------------------------------------------
(* The atlas of albums: its invariant *)

Atlases == [art : [Albums -> Seq(Photos)], no_art : SUBSET Albums]
Builders == [art : [Albums -> Seq(Photos)], no_art : SUBSET Albums, dirty : BOOLEAN]
Building == step \in {"pool", "write", "replace"}

AtlasTypes ==
    /\ folder \in [Albums -> Folders] /\ covers \in [Albums -> Photos \cup {None}]
    /\ grouped \subseteq Albums /\ stored \subseteq Albums /\ touched \subseteq Albums
    /\ file \in Atlases \cup {None} /\ built \in Builders
    /\ temp \in {"none", "part", "all"}
    /\ pool \subseteq Albums \X {"changed", "promoted"}
    /\ step \in Pictures!PCs
    /\ again \in BOOLEAN /\ changed \in BOOLEAN /\ stop \in BOOLEAN
    /\ missed \in BOOLEAN /\ failed \in BOOLEAN
    /\ scans \in 0 .. MaxScans /\ events \in 0 .. MaxAtlasEvents

\* The user interface shows what is on disk, but for a change that is still to be told.
AtlasTold == ~missed /\ (step # "tell" \/ ~changed) => shown = file

\* Albums without a picture whose cover has come.
Late(no_art) == {a \in no_art \cap grouped \cap stored : covers[a] \in Pictures!Readable}

\* The builder has taken up all of those, and so has the file unless the scan was disturbed.
AtlasPromoted ==
    /\ Building => Late(built.no_art) = {}
    /\ Building /\ ~built.dirty => built.no_art = Pictures!Loaded.no_art
    /\ step \in {"idle", "tell", "covers"} /\ ~failed => Late(Pictures!Loaded.no_art) = {}

\* The builder holds what the file holds.
AtlasCarried == Building => \A a \in Albums : Pictures!Found(file, a) # {} => built.art[a] # <<>>

AtlasIInv == AtlasTypes /\ AtlasTold /\ AtlasPromoted /\ AtlasCarried

LEMMA AtlasMoves ==
  ASSUME [PartsNext]_<<part, pictures, art, bios, vars>>
  PROVE  Pictures!Next \/ UNCHANGED pictures
BY DEF PartsNext, pictures

LEMMA AtlasInit ==
  ASSUME Pictures!Init
  PROVE  AtlasIInv
<1> USE DEF Pictures!Init
<1>1. built \in Builders
  BY DEF Pictures!NoBuilder, Pictures!Empty, Builders
<1>2. AtlasTypes
  <2>1. scans \in 0 .. MaxScans /\ events \in 0 .. MaxAtlasEvents
    BY PicturesAssumption
  <2>. QED BY <1>1, <2>1 DEF AtlasTypes, Pictures!PCs
<1>3. AtlasTold
  BY DEF AtlasTold
<1>4. AtlasPromoted
  BY DEF AtlasPromoted, Building, Late, Pictures!Loaded, Pictures!Empty
<1>5. AtlasCarried
  BY DEF AtlasCarried, Building
<1>. QED BY <1>2, <1>3, <1>4, <1>5 DEF AtlasIInv

LEMMA LoadedIs ==
  ASSUME AtlasTypes
  PROVE  /\ Pictures!Loaded \in Atlases
         /\ \A a \in Albums : Pictures!Found(file, a) # {} => Pictures!Loaded.art[a] # <<>>
<1>1. CASE file = None
  BY <1>1 DEF Pictures!Loaded, Pictures!Empty, Atlases, Pictures!Found
<1>2. CASE file # None
  <2>1. file \in Atlases /\ Pictures!Loaded = file
    BY <1>2 DEF AtlasTypes, Pictures!Loaded
  <2>2. ASSUME NEW a \in Albums, file.art[a] = <<>> PROVE Pictures!Found(file, a) = {}
    BY <1>2, <2>2 DEF Pictures!Found, Pictures!Range
  <2>. QED BY <2>1, <2>2
<1>. QED BY <1>1, <1>2

\* A run of the artwork phase begins: the builder takes over the atlas without the albums whose cover
\* has come.
LEMMA AtlasBegin ==
  ASSUME AtlasTypes, NEW list \in SUBSET Albums, Pictures!Begin(list),
         UNCHANGED <<file, covers, grouped, stored>>
  PROVE  /\ built' \in Builders /\ pool' \subseteq Albums \X {"changed", "promoted"}
         /\ step' \in {"pool", "write"} /\ changed' = FALSE
         /\ AtlasPromoted' /\ AtlasCarried'
<1> DEFINE old == Pictures!Loaded  promoted == Pictures!Promoted(old.no_art)
<1>1. /\ built' = [art |-> old.art, no_art |-> old.no_art \ promoted, dirty |-> promoted # {}]
      /\ pool' = (list \X {"changed"}) \cup ((promoted \cap stored) \X {"promoted"})
      /\ step' \in {"pool", "write"} /\ changed' = FALSE
  BY DEF Pictures!Begin
<1>2. old \in Atlases /\ \A a \in Albums : Pictures!Found(file, a) # {} => old.art[a] # <<>>
  BY LoadedIs
<1>3. promoted \subseteq old.no_art /\ \A a \in (old.no_art \ promoted) \cap grouped : covers[a] = None
  BY DEF Pictures!Promoted
<1>4. Pictures!Loaded' = old
  BY DEF Pictures!Loaded
<1> HIDE DEF old, promoted
<1>5. built' \in Builders
  BY <1>1, <1>2 DEF Atlases, Builders
<1>6. /\ built'.art = old.art /\ built'.no_art = old.no_art \ promoted
      /\ built'.dirty = (promoted # {})
  BY <1>1
<1>7. AtlasPromoted'
  <2>1. Late(built.no_art)' = {}
    BY <1>3, <1>6, PicturesAssumption DEF Late, Pictures!Readable
  <2>2. ~built'.dirty => built'.no_art = Pictures!Loaded'.no_art
    BY <1>4, <1>6
  <2>. QED BY <1>1, <2>1, <2>2 DEF AtlasPromoted, Building
<1>8. AtlasCarried'
  BY <1>2, <1>6 DEF AtlasCarried, Pictures!Found
<1>9. pool' \subseteq Albums \X {"changed", "promoted"}
  <2>1. promoted \subseteq Albums
    BY <1>2, <1>3 DEF Atlases
  <2>. QED BY <1>1, <2>1
<1>. QED BY <1>1, <1>5, <1>7, <1>8, <1>9

LEMMA AtlasStart ==
  ASSUME AtlasIInv, Pictures!Start
  PROVE  AtlasIInv'
<1>1. /\ scans < MaxScans /\ scans' = scans + 1 /\ stop' = FALSE /\ again' = FALSE /\ failed' = FALSE
      /\ Pictures!Begin(touched) /\ touched' = {} /\ step = "idle"
      /\ UNCHANGED <<folder, covers, grouped, stored, file, temp, shown, missed, events>>
  BY DEF Pictures!Start, Pictures!files
<1>2. AtlasTypes /\ touched \in SUBSET Albums /\ AtlasTold
  BY DEF AtlasIInv, AtlasTypes
<1>3. /\ built' \in Builders /\ pool' \subseteq Albums \X {"changed", "promoted"}
      /\ step' \in {"pool", "write"} /\ changed' = FALSE /\ AtlasPromoted' /\ AtlasCarried'
  BY <1>1, <1>2, AtlasBegin
<1>4. scans' \in 0 .. MaxScans
  BY <1>1, <1>2, PicturesAssumption DEF AtlasTypes
<1>5. AtlasTypes'
  BY <1>1, <1>2, <1>3, <1>4 DEF AtlasTypes, Pictures!PCs
<1>6. AtlasTold'
  BY <1>1, <1>2, <1>3 DEF AtlasTold
<1>. QED BY <1>3, <1>5, <1>6 DEF AtlasIInv

LEMMA AtlasBeginAgain ==
  ASSUME AtlasIInv, Pictures!BeginAgain
  PROVE  AtlasIInv'
<1>1. /\ Pictures!Begin({}) /\ step = "again"
      /\ UNCHANGED <<folder, covers, grouped, stored, touched, file, temp, again, stop, shown, missed,
                     failed, scans, events>>
  BY DEF Pictures!BeginAgain, Pictures!disk, Pictures!files, Pictures!seen
<1>2. AtlasTypes /\ AtlasTold /\ {} \in SUBSET Albums
  BY DEF AtlasIInv
<1>3. /\ built' \in Builders /\ pool' \subseteq Albums \X {"changed", "promoted"}
      /\ step' \in {"pool", "write"} /\ changed' = FALSE /\ AtlasPromoted' /\ AtlasCarried'
  BY <1>1, <1>2, AtlasBegin
<1>4. AtlasTypes'
  BY <1>1, <1>2, <1>3 DEF AtlasTypes, Pictures!PCs
<1>5. AtlasTold'
  BY <1>1, <1>2, <1>3 DEF AtlasTold
<1>. QED BY <1>3, <1>4, <1>5 DEF AtlasIInv

\* What is chosen for an album is a readable picture, and an album for which none is chosen has no
\* readable cover.
LEMMA ChosenIs ==
  ASSUME NEW a
  PROVE  /\ Pictures!Chosen(a) # None => Pictures!Chosen(a) \in Pictures!Readable
         /\ Pictures!Chosen(a) = None => a \notin grouped \/ covers[a] \notin Pictures!Readable
<1>1. None \notin Pictures!Readable
  BY PicturesAssumption DEF Pictures!Readable
<1>. QED BY <1>1 DEF Pictures!Chosen

LEMMA AtlasProcess ==
  ASSUME AtlasIInv, Pictures!Process
  PROVE  AtlasIInv'
<1>1. /\ step = "pool"
      /\ UNCHANGED <<folder, covers, grouped, stored, touched, file, temp, step, again, changed, stop,
                     shown, missed, failed, scans, events>>
  BY DEF Pictures!Process, Pictures!disk, Pictures!files, Pictures!seen
<1>2. PICK item \in pool :
        /\ pool' = pool \ {item}
        /\ built' = IF Pictures!Chosen(item[1]) = None THEN Pictures!WithNoArt(built, item[1])
                    ELSE Pictures!WithPicture(built, item[1], Pictures!Chosen(item[1]))
  BY DEF Pictures!Process
<1> DEFINE a == item[1]  p == Pictures!Chosen(a)
<1>3. AtlasTypes /\ AtlasTold /\ AtlasPromoted /\ AtlasCarried /\ a \in Albums /\ built \in Builders
  BY DEF AtlasIInv, AtlasTypes
<1>4. /\ built.art \in [Albums -> Seq(Photos)] /\ built.no_art \subseteq Albums /\ built.dirty \in BOOLEAN
  BY <1>3 DEF Builders
<1>5. /\ p # None => p \in Photos
      /\ p = None => a \notin grouped \/ covers[a] \notin Pictures!Readable
  BY ChosenIs DEF Pictures!Readable
<1>6. /\ built' \in Builders
      /\ \A x \in Albums : built.art[x] # <<>> => built'.art[x] # <<>>
      /\ built'.no_art \subseteq built.no_art \cup (IF p = None THEN {a} ELSE {})
      /\ ~built'.dirty => ~built.dirty /\ built'.no_art = built.no_art
  <2>1. CASE p = None /\ a \in built.no_art
    BY <1>2, <1>3, <2>1 DEF Pictures!WithNoArt
  <2>2. CASE p = None /\ a \notin built.no_art
    <3>1. built' = [built EXCEPT !.no_art = @ \cup {a}, !.dirty = TRUE]
      BY <1>2, <2>2 DEF Pictures!WithNoArt
    <3>2. built' = [art |-> built.art, no_art |-> built.no_art \cup {a}, dirty |-> TRUE]
      BY <1>3, <3>1 DEF Builders
    <3> HIDE DEF a, p
    <3>. QED BY <1>3, <1>4, <2>2, <3>2 DEF Builders
  <2>3. CASE p # None
    <3>1. built' = [built EXCEPT !.art[a] = Append(@, p)]
      BY <1>2, <2>3 DEF Pictures!WithPicture
    <3> HIDE DEF a, p
    <3>2. built' = [art |-> [built.art EXCEPT ![a] = Append(built.art[a], p)],
                    no_art |-> built.no_art, dirty |-> built.dirty]
      BY <1>3, <1>4, <3>1 DEF Builders
    <3>3. built.art[a] \in Seq(Photos) /\ Append(built.art[a], p) \in Seq(Photos)
          /\ Append(built.art[a], p) # <<>>
      BY SMTT(30), <1>3, <1>4, <1>5, <2>3
    <3>. QED BY <1>3, <1>4, <2>3, <3>2, <3>3 DEF Builders
  <2>. QED BY <2>1, <2>2, <2>3
<1>7. pool' \subseteq Albums \X {"changed", "promoted"}
  BY <1>2, <1>3 DEF AtlasTypes
<1> HIDE DEF a, p
<1>8. AtlasTypes'
  BY <1>1, <1>3, <1>6, <1>7 DEF AtlasTypes
<1>9. AtlasPromoted'
  <2>1. Late(built.no_art)' = {}
    <3>1. Late(built.no_art) = {}
      BY <1>1, <1>3 DEF AtlasPromoted, Building
    <3>. QED BY <1>1, <1>5, <1>6, <3>1 DEF Late
  <2>2. Pictures!Loaded' = Pictures!Loaded
    BY <1>1 DEF Pictures!Loaded
  <2>. QED BY <1>1, <1>3, <1>6, <2>1, <2>2 DEF AtlasPromoted, Building
<1>10. AtlasCarried'
  BY <1>1, <1>3, <1>6 DEF AtlasCarried, Building, Pictures!Found
<1>11. AtlasTold'
  BY <1>1, <1>3 DEF AtlasTold
<1>. QED BY <1>8, <1>9, <1>10, <1>11 DEF AtlasIInv

LEMMA AtlasPoolEnds ==
  ASSUME AtlasIInv, Pictures!PoolEnds
  PROVE  AtlasIInv'
<1>1. /\ step = "pool" /\ pool' = {}
      /\ \/ stop /\ step' = "tell" /\ failed' = TRUE
         \/ step' = "write" /\ failed' = failed
      /\ UNCHANGED <<folder, covers, grouped, stored, touched, file, temp, built, again, changed, stop,
                     shown, missed, scans, events>>
  BY DEF Pictures!PoolEnds, Pictures!disk, Pictures!files
<1>2. AtlasTypes /\ AtlasTold /\ AtlasPromoted /\ AtlasCarried
  BY DEF AtlasIInv
<1>3. AtlasTypes'
  BY <1>1, <1>2 DEF AtlasTypes, Pictures!PCs
<1>4. AtlasTold'
  BY <1>1, <1>2 DEF AtlasTold
<1>5. AtlasPromoted'
  BY <1>1, <1>2 DEF AtlasPromoted, Building, Late, Pictures!Loaded
<1>6. AtlasCarried'
  BY <1>1, <1>2 DEF AtlasCarried, Building, Pictures!Found
<1>. QED BY <1>3, <1>4, <1>5, <1>6 DEF AtlasIInv

LEMMA AtlasWrite ==
  ASSUME AtlasIInv, Pictures!Write
  PROVE  AtlasIInv'
<1>1. /\ step = "write" /\ step' \in {"replace", "tell"}
      /\ step' = "tell" /\ ~failed' => ~built.dirty
      /\ ~failed' => ~failed
      /\ temp' \in {temp, "part"} /\ failed' \in {failed, TRUE}
      /\ UNCHANGED <<folder, covers, grouped, stored, touched, file, built, pool, again, changed, stop,
                     shown, missed, scans>>
      /\ UNCHANGED events \/ (events < MaxAtlasEvents /\ events' = events + 1)
  BY DEF Pictures!Write, Pictures!disk
<1>2. AtlasTypes /\ AtlasTold /\ AtlasPromoted /\ AtlasCarried
  BY DEF AtlasIInv
<1>3. AtlasTypes'
  <2>1. events' \in 0 .. MaxAtlasEvents
    BY <1>1, <1>2, PicturesAssumption DEF AtlasTypes
  <2>. QED BY <1>1, <1>2, <2>1 DEF AtlasTypes, Pictures!PCs
<1>4. AtlasTold'
  BY <1>1, <1>2 DEF AtlasTold
<1>5. AtlasPromoted'
  BY <1>1, <1>2 DEF AtlasPromoted, Building, Late, Pictures!Loaded
<1>6. AtlasCarried'
  BY <1>1, <1>2 DEF AtlasCarried, Building, Pictures!Found
<1>. QED BY <1>3, <1>4, <1>5, <1>6 DEF AtlasIInv

LEMMA AtlasReplace ==
  ASSUME AtlasIInv, Pictures!Replace
  PROVE  /\ AtlasIInv'
         /\ \A a \in Albums : Pictures!Found(file, a) # {} => Pictures!Found(file', a) # {}
<1> DEFINE new == [art |-> built.art, no_art |-> built.no_art]
<1>1. /\ step = "replace" /\ step' = "tell" /\ temp' = "none" /\ file' = new /\ changed' = (file # new)
      /\ UNCHANGED <<folder, covers, grouped, stored, touched, built, pool, again, stop, shown, missed,
                     failed, scans, events>>
  BY DEF Pictures!Replace, Pictures!disk, Pictures!seen
<1>2. AtlasTypes /\ AtlasTold /\ AtlasPromoted /\ AtlasCarried
  BY DEF AtlasIInv
<1>3. new \in Atlases /\ new # None /\ new.no_art = built.no_art /\ new.art = built.art
  BY <1>2, PicturesAssumption DEF AtlasTypes, Atlases, Builders
<1> HIDE DEF new
<1>4. AtlasTypes'
  BY <1>1, <1>2, <1>3 DEF AtlasTypes, Pictures!PCs
<1>5. AtlasTold'
  BY <1>1, <1>2 DEF AtlasTold
<1>6. AtlasPromoted'
  <2>1. Pictures!Loaded' = new
    BY <1>1, <1>3 DEF Pictures!Loaded
  <2>2. Late(built.no_art) = {}
    BY <1>1, <1>2 DEF AtlasPromoted, Building
  <2>. QED BY <1>1, <1>3, <2>1, <2>2 DEF AtlasPromoted, Building, Late
<1>7. AtlasCarried'
  BY <1>1 DEF AtlasCarried, Building
<1>8. ASSUME NEW a \in Albums, Pictures!Found(file, a) # {} PROVE Pictures!Found(file', a) # {}
  <2>1. built.art[a] # <<>> /\ built.art[a] \in Seq(Photos)
    BY <1>1, <1>2, <1>8 DEF AtlasCarried, Building, AtlasTypes, Builders
  <2>2. 1 \in DOMAIN built.art[a]
    BY <2>1
  <2>. QED BY <1>1, <1>3, <2>2 DEF Pictures!Found, Pictures!Range
<1>. QED BY <1>4, <1>5, <1>6, <1>7, <1>8 DEF AtlasIInv

LEMMA AtlasTell ==
  ASSUME AtlasIInv, Pictures!Tell
  PROVE  AtlasIInv'
<1> DEFINE told == changed /\ (again \/ ~stop)
<1>1. /\ step = "tell" /\ step' \in {"idle", "covers"} /\ failed' = (failed \/ stop)
      /\ shown' = (IF told THEN file ELSE shown) /\ missed' = (IF told THEN FALSE ELSE missed \/ changed)
      /\ built' = Pictures!NoBuilder /\ temp' = "none"
      /\ UNCHANGED <<folder, covers, grouped, stored, touched, file, pool, again, changed, stop, scans,
                     events>>
  BY DEF Pictures!Tell, Pictures!Told, Pictures!Opened, Pictures!disk
<1>2. AtlasTypes /\ AtlasTold /\ AtlasPromoted
  BY DEF AtlasIInv
<1>3. AtlasTypes'
  <2>1. built' \in Builders
    BY <1>1 DEF Pictures!NoBuilder, Pictures!Empty, Builders
  <2>2. missed' \in BOOLEAN /\ failed' \in BOOLEAN
    BY <1>1, <1>2 DEF AtlasTypes
  <2>. QED BY <1>1, <1>2, <2>1, <2>2 DEF AtlasTypes, Pictures!PCs
<1>4. AtlasTold'
  BY <1>1, <1>2 DEF AtlasTold
<1>5. AtlasPromoted'
  BY <1>1, <1>2 DEF AtlasPromoted, Building, Late, Pictures!Loaded
<1>6. AtlasCarried'
  BY <1>1 DEF AtlasCarried, Building
<1>. QED BY <1>3, <1>4, <1>5, <1>6 DEF AtlasIInv

LEMMA AtlasFetch ==
  ASSUME AtlasIInv, Pictures!FetchCovers
  PROVE  AtlasIInv'
<1>1. PICK got \in SUBSET Pictures!Missing, p \in Photos :
        /\ covers' = [a \in Albums |-> IF a \in got THEN p ELSE covers[a]]
        /\ IF got = {} \/ stop
             THEN /\ step' = "idle" /\ failed' = (failed \/ got # {})
                  /\ UNCHANGED <<built, pool, changed, again>>
             ELSE step' = "again" /\ again' = TRUE /\ UNCHANGED <<built, pool, changed, failed>>
  BY DEF Pictures!FetchCovers
<1>2. /\ step = "covers"
      /\ UNCHANGED <<folder, grouped, stored, touched, file, temp, stop, shown, missed, scans, events>>
  BY DEF Pictures!FetchCovers, Pictures!files
<1>3. AtlasTypes /\ AtlasTold /\ AtlasPromoted
  BY DEF AtlasIInv
<1>4. AtlasTypes'
  <2>1. covers' \in [Albums -> Photos \cup {None}]
    BY <1>1, <1>3 DEF AtlasTypes
  <2>2. failed' \in BOOLEAN /\ again' \in BOOLEAN /\ step' \in Pictures!PCs
    BY <1>1, <1>3 DEF AtlasTypes, Pictures!PCs
  <2>3. UNCHANGED <<built, pool, changed>>
    BY <1>1
  <2>. QED BY <1>2, <1>3, <2>1, <2>2, <2>3 DEF AtlasTypes
<1>5. AtlasTold'
  BY <1>1, <1>2, <1>3 DEF AtlasTold
<1>6. AtlasPromoted'
  <2>1. CASE got = {}
    <3>1. step' = "idle" /\ failed' = failed
      BY <1>1, <1>3, <2>1 DEF AtlasTypes
    <3>2. \A a \in Albums : covers'[a] = covers[a]
      BY <1>1, <2>1
    <3>3. grouped \subseteq Albums
      BY <1>3 DEF AtlasTypes
    <3>. QED BY <1>2, <1>3, <3>1, <3>2, <3>3 DEF AtlasPromoted, Building, Late, Pictures!Loaded
  <2>2. CASE got # {}
    <3>1. step' = "again" \/ (step' = "idle" /\ failed')
      BY <1>1, <2>2
    <3>. QED BY <3>1 DEF AtlasPromoted, Building
  <2>. QED BY <2>1, <2>2
<1>7. AtlasCarried'
  BY <1>1 DEF AtlasCarried, Building
<1>. QED BY <1>4, <1>5, <1>6, <1>7 DEF AtlasIInv

LEMMA AtlasWorld ==
  ASSUME AtlasIInv, \/ \E a \in Albums : Pictures!ChangeFolder(a)
                    \/ Pictures!Cancel \/ Pictures!Kill \/ UNCHANGED pictures
  PROVE  AtlasIInv'
<1>1. AtlasTypes /\ AtlasTold /\ AtlasPromoted /\ AtlasCarried
  BY DEF AtlasIInv
<1>2. Pictures!Event => events' \in 0 .. MaxAtlasEvents
  BY <1>1, PicturesAssumption DEF Pictures!Event, AtlasTypes
<1>3. ASSUME NEW a \in Albums, Pictures!ChangeFolder(a) PROVE AtlasIInv'
  <2>1. /\ Pictures!Event /\ touched' = touched \cup {a}
        /\ UNCHANGED <<covers, grouped, stored, file, temp, built, pool, step, again, changed, stop, shown,
                       missed, failed, scans>>
    BY <1>3 DEF Pictures!ChangeFolder, Pictures!files, Pictures!run
  <2>2. folder' \in [Albums -> Folders]
    BY <1>1, <1>3 DEF Pictures!ChangeFolder, AtlasTypes
  <2>3. AtlasTypes'
    BY <1>1, <1>2, <2>1, <2>2 DEF AtlasTypes
  <2>4. AtlasTold' /\ AtlasPromoted' /\ AtlasCarried'
    BY <1>1, <2>1 DEF AtlasTold, AtlasPromoted, AtlasCarried, Building, Late, Pictures!Loaded, Pictures!Found
  <2>. QED BY <2>3, <2>4 DEF AtlasIInv
<1>4. CASE Pictures!Cancel
  <2>1. /\ Pictures!Event /\ stop' = TRUE
        /\ UNCHANGED <<folder, covers, grouped, stored, touched, file, temp, built, pool, step, again,
                       changed, shown, missed, failed, scans>>
    BY <1>4 DEF Pictures!Cancel, Pictures!disk, Pictures!files
  <2>2. AtlasTypes'
    BY <1>1, <1>2, <2>1 DEF AtlasTypes
  <2>3. AtlasTold' /\ AtlasPromoted' /\ AtlasCarried'
    BY <1>1, <2>1 DEF AtlasTold, AtlasPromoted, AtlasCarried, Building, Late, Pictures!Loaded, Pictures!Found
  <2>. QED BY <2>2, <2>3 DEF AtlasIInv
<1>5. CASE Pictures!Kill
  <2>1. /\ Pictures!Event /\ built' = Pictures!NoBuilder /\ pool' = {} /\ step' = "idle" /\ stop' = FALSE
        /\ changed' = FALSE /\ again' = FALSE /\ shown' = file /\ missed' = FALSE /\ failed' = TRUE
        /\ UNCHANGED <<folder, covers, grouped, stored, touched, file, temp, scans>>
    BY <1>5 DEF Pictures!Kill, Pictures!Opened, Pictures!disk, Pictures!files
  <2>2. built' \in Builders
    BY <2>1 DEF Pictures!NoBuilder, Pictures!Empty, Builders
  <2>3. AtlasTypes'
    BY <1>1, <1>2, <2>1, <2>2 DEF AtlasTypes, Pictures!PCs
  <2>4. AtlasTold' /\ AtlasPromoted' /\ AtlasCarried'
    BY <2>1 DEF AtlasTold, AtlasPromoted, AtlasCarried, Building
  <2>. QED BY <2>3, <2>4 DEF AtlasIInv
<1>6. CASE UNCHANGED pictures
  <2>1. /\ UNCHANGED <<folder, covers, grouped, stored, touched, file, temp, built, pool, step, again>>
        /\ UNCHANGED <<changed, stop, shown, missed, failed, scans, events>>
    BY <1>6 DEF pictures
  <2>2. AtlasTypes'
    BY <1>1, <2>1 DEF AtlasTypes
  <2>3. AtlasTold' /\ AtlasPromoted' /\ AtlasCarried'
    BY <1>1, <2>1 DEF AtlasTold, AtlasPromoted, AtlasCarried, Building, Late, Pictures!Loaded, Pictures!Found
  <2>. QED BY <2>2, <2>3 DEF AtlasIInv
<1>. QED BY <1>3, <1>4, <1>5, <1>6

LEMMA AtlasStep ==
  ASSUME AtlasIInv, Pictures!Next \/ UNCHANGED pictures
  PROVE  AtlasIInv'
BY AtlasStart, AtlasProcess, AtlasPoolEnds, AtlasWrite, AtlasReplace, AtlasTell, AtlasFetch,
   AtlasBeginAgain, AtlasWorld DEF Pictures!Next, Pictures!ScanStep

LEMMA AtlasImplies ==
  ASSUME AtlasIInv
  PROVE  Pictures!TypeOK /\ Pictures!AtlasSound
<1>1. AtlasTypes /\ AtlasTold /\ AtlasPromoted
  BY DEF AtlasIInv
<1>2. Pictures!TypeOK
  BY <1>1 DEF AtlasTypes, Builders, Pictures!TypeOK
<1>3. Pictures!ShownIsWritten
  BY <1>1 DEF AtlasTold, Pictures!ShownIsWritten
<1>4. Pictures!CoversUsed
  BY <1>1 DEF AtlasPromoted, Late, Pictures!Loaded, Pictures!CoversUsed
<1>. QED BY <1>2, <1>3, <1>4 DEF Pictures!AtlasSound

\* A step of any part keeps the pictures of the atlas on disk.
LEMMA AtlasKeeps ==
  ASSUME AtlasIInv, Pictures!Next \/ UNCHANGED pictures
  PROVE  \A a \in Albums : Pictures!Found(file, a) # {} => Pictures!Found(file', a) # {}
<1>1. CASE Pictures!Replace
  BY <1>1, AtlasReplace
<1>2. CASE ~Pictures!Replace
  <2>1. UNCHANGED file
    BY <1>2 DEF Pictures!Next, Pictures!ScanStep, Pictures!Start, Pictures!Process, Pictures!PoolEnds,
       Pictures!Write, Pictures!Tell, Pictures!FetchCovers, Pictures!BeginAgain, Pictures!ChangeFolder,
       Pictures!Cancel, Pictures!Kill, Pictures!files, pictures
  <2>. QED BY <2>1
<1>. QED BY <1>1, <1>2

-----------------------------------------------------------------------------
(* The pictures of artists: their invariant *)

Drawn == [art : SUBSET Portrayed, no_art : SUBSET Portrayed]
Locked == {"merge", "finish", "rename", "unlock"}

ArtTypes ==
    /\ has \in [Portrayed -> SUBSET Art!Kinds]
    /\ dir \in [Libraries -> [Portrayed -> SUBSET Art!Files]]
    /\ stage \in [Libraries -> Art!PCs]
    /\ left \in [Libraries -> SUBSET Portrayed] /\ todo \in [Libraries -> SUBSET Portrayed]
    /\ halt \in [Libraries -> BOOLEAN] /\ aborted \in [Libraries -> BOOLEAN]
    /\ retries \in [Libraries -> 0 .. MaxRetries + 1] /\ errors \in [Libraries -> 0 .. ErrorLimit]
    /\ atlas \in Drawn /\ merged \in [Libraries -> Drawn] /\ dirty \in [Libraries -> BOOLEAN]
    /\ lock \in Libraries \cup {None} /\ temp_atlas \in Libraries \cup {None}
    /\ phases \in 0 .. MaxPhases /\ mishaps \in 0 .. MaxArtEvents

\* A phase that goes on has not had its limit of errors, nor a request its limit of retries.
ArtLimits ==
    \A l \in Libraries :
        /\ aborted[l] \/ errors[l] < ErrorLimit
        /\ stage[l] = "answer" => ~aborted[l] /\ retries[l] <= MaxRetries

\* Who merges holds the lock, and who has written the temporary file is about to rename it.
ArtLocked ==
    /\ \A l \in Libraries : stage[l] \in Locked => lock = l
    /\ \A l \in Libraries : stage[l] = "rename" => temp_atlas = l
    /\ temp_atlas # None => stage[temp_atlas] = "rename"

ArtApart ==
    /\ atlas.art \cap atlas.no_art = {}
    /\ \A l \in Libraries : merged[l].art \cap merged[l].no_art = {}

\* What is being merged holds the pictures of the atlas as it is.
ArtCarried ==
    \A l \in Libraries : stage[l] \in {"merge", "finish", "rename"} => atlas.art \subseteq merged[l].art

ArtIInv == ArtTypes /\ ArtLimits /\ ArtLocked /\ ArtApart /\ ArtCarried

LEMMA ArtInit ==
  ASSUME Art!Init
  PROVE  ArtIInv
<1> USE DEF Art!Init
<1>1. atlas \in Drawn /\ merged \in [Libraries -> Drawn] /\ atlas.art = {}
      /\ \A l \in Libraries : merged[l].art = {}
  BY DEF Art!Empty, Drawn
<1>2. /\ has \in [Portrayed -> SUBSET Art!Kinds]
      /\ dir \in [Libraries -> [Portrayed -> SUBSET Art!Files]]
      /\ stage \in [Libraries -> Art!PCs]
  BY DEF Art!PCs
<1>3. ArtTypes
  <2>1. phases \in 0 .. MaxPhases /\ mishaps \in 0 .. MaxArtEvents
    BY ArtAssumption
  <2>2. retries \in [Libraries -> 0 .. MaxRetries + 1] /\ errors \in [Libraries -> 0 .. ErrorLimit]
    BY ArtAssumption
  <2>3. /\ left \in [Libraries -> SUBSET Portrayed] /\ todo \in [Libraries -> SUBSET Portrayed]
        /\ halt \in [Libraries -> BOOLEAN] /\ aborted \in [Libraries -> BOOLEAN]
        /\ dirty \in [Libraries -> BOOLEAN] /\ lock = None /\ temp_atlas = None
    OBVIOUS
  <2>. QED BY <1>1, <1>2, <2>1, <2>2, <2>3 DEF ArtTypes
<1>4. ArtLimits
  <2>1. \A l \in Libraries : errors[l] = 0 /\ stage[l] = "idle"
    OBVIOUS
  <2>. QED BY <2>1, ArtAssumption DEF ArtLimits
<1>5. ArtLocked
  BY DEF ArtLocked, Locked
<1>6. ArtApart
  BY <1>1 DEF ArtApart
<1>7. ArtCarried
  BY DEF ArtCarried
<1>. QED BY <1>3, <1>4, <1>5, <1>6, <1>7 DEF ArtIInv

\* Outside of the merge a step of a library leaves the lock, the temporary file and the atlas alone.
LEMMA ArtOutside ==
  ASSUME ArtIInv, NEW l \in Libraries, NEW where, where \notin Locked, stage[l] \notin Locked,
         stage' = [stage EXCEPT ![l] = where], UNCHANGED <<atlas, temp_atlas, lock, merged>>
  PROVE  ArtLocked' /\ ArtApart' /\ ArtCarried'
<1>1. ArtLocked /\ ArtApart /\ ArtCarried /\ stage \in [Libraries -> Art!PCs]
      /\ temp_atlas \in Libraries \cup {None}
  BY DEF ArtIInv, ArtTypes
<1>2. stage'[l] = where /\ \A k \in Libraries \ {l} : stage'[k] = stage[k]
  BY <1>1
<1>3. ArtLocked'
  <2>1. temp_atlas' # None => temp_atlas' \in Libraries \ {l} /\ stage'[temp_atlas'] = "rename"
    BY <1>1, <1>2 DEF ArtLocked, Locked
  <2>2. ASSUME NEW k \in Libraries
        PROVE  /\ stage'[k] \in Locked => lock' = k
               /\ stage'[k] = "rename" => temp_atlas' = k
    BY <1>1, <1>2 DEF ArtLocked, Locked
  <2>. QED BY <2>1, <2>2 DEF ArtLocked
<1>4. ArtApart'
  BY <1>1 DEF ArtApart
<1>5. ArtCarried'
  BY <1>1, <1>2 DEF ArtCarried, Locked
<1>. QED BY <1>3, <1>4, <1>5

LEMMA ArtEvent ==
  ASSUME ArtTypes, UNCHANGED mishaps \/ Art!Event
  PROVE  mishaps' \in 0 .. MaxArtEvents
BY ArtAssumption DEF ArtTypes, Art!Event

LEMMA ArtStart ==
  ASSUME ArtIInv, NEW l \in Libraries, Art!Start(l)
  PROVE  ArtIInv'
<1>1. /\ stage[l] = "idle" /\ phases < MaxPhases /\ phases' = phases + 1
      /\ stage' = [stage EXCEPT ![l] = "filter"] /\ left' = [left EXCEPT ![l] = ArtistsOf[l]]
      /\ todo' = [todo EXCEPT ![l] = {}] /\ halt' = [halt EXCEPT ![l] = FALSE]
      /\ errors' = [errors EXCEPT ![l] = 0] /\ aborted' = [aborted EXCEPT ![l] = FALSE]
      /\ UNCHANGED <<has, dir, atlas, temp_atlas, lock, retries, merged, dirty, mishaps>>
  BY DEF Art!Start, Art!Goto, Art!web, Art!shared
<1>2. ArtTypes /\ ArtLimits
  BY DEF ArtIInv
<1>3. /\ left' \in [Libraries -> SUBSET Portrayed] /\ todo' \in [Libraries -> SUBSET Portrayed]
      /\ halt' \in [Libraries -> BOOLEAN] /\ aborted' \in [Libraries -> BOOLEAN]
      /\ stage' \in [Libraries -> Art!PCs]
  <2>1. "filter" \in Art!PCs
    BY DEF Art!PCs
  <2>2. ArtistsOf[l] \in SUBSET Portrayed
    BY ArtAssumption
  <2>. QED BY <1>1, <1>2, <2>1, <2>2 DEF ArtTypes
<1>4. errors' \in [Libraries -> 0 .. ErrorLimit] /\ phases' \in 0 .. MaxPhases
  <2>1. 0 \in 0 .. ErrorLimit
    BY ArtAssumption
  <2>. QED BY <1>1, <1>2, <2>1, ArtAssumption DEF ArtTypes
<1>5. ArtTypes'
  BY <1>1, <1>2, <1>3, <1>4 DEF ArtTypes
<1>6. ArtLimits'
  <2>1. errors'[l] = 0 /\ stage'[l] = "filter" /\ \A k \in Libraries \ {l} :
          stage'[k] = stage[k] /\ errors'[k] = errors[k] /\ aborted'[k] = aborted[k] /\ retries'[k] = retries[k]
    BY <1>1, <1>2 DEF ArtTypes
  <2>. QED BY <1>2, <2>1, ArtAssumption DEF ArtLimits
<1>7. ArtLocked' /\ ArtApart' /\ ArtCarried'
  BY <1>1, ArtOutside DEF Locked
<1>. QED BY <1>5, <1>6, <1>7 DEF ArtIInv

LEMMA ArtFilter ==
  ASSUME ArtIInv, NEW l \in Libraries, Art!Filter(l)
  PROVE  ArtIInv'
<1>1. /\ stage[l] = "filter"
      /\ UNCHANGED <<has, atlas, temp_atlas, lock, halt, retries, errors, aborted, merged, dirty, phases,
                     mishaps>>
  BY DEF Art!Filter, Art!web, Art!shared, Art!count
<1>2. ArtTypes /\ ArtLimits
  BY DEF ArtIInv
<1>3. PICK where \in {"filter", "fetch"} : stage' = [stage EXCEPT ![l] = where]
  <2>1. CASE Art!Goto(l, "fetch")
    BY <2>1 DEF Art!Goto
  <2>2. CASE stage' = stage
    <3>1. stage' = [stage EXCEPT ![l] = "filter"]
      BY <1>1, <1>2, <2>2 DEF ArtTypes
    <3>. QED BY <3>1
  <2>. QED BY <2>1, <2>2 DEF Art!Filter
<1>4. /\ left' \in [Libraries -> SUBSET Portrayed] /\ todo' \in [Libraries -> SUBSET Portrayed]
      /\ dir' \in [Libraries -> [Portrayed -> SUBSET Art!Files]]
  <2>1. CASE UNCHANGED <<left, todo, dir>>
    BY <1>2, <2>1 DEF ArtTypes
  <2>2. CASE \E x \in left[l] :
            /\ left' = [left EXCEPT ![l] = @ \ {x}]
            /\ \/ UNCHANGED <<dir, todo>>
               \/ /\ \E o \in Art!Donors(l, x) : dir' = [dir EXCEPT ![l][x] = dir[o][x]]
                  /\ UNCHANGED todo
               \/ todo' = [todo EXCEPT ![l] = @ \cup {x}] /\ UNCHANGED dir
    <3> PICK x \in left[l] :
            /\ left' = [left EXCEPT ![l] = @ \ {x}]
            /\ \/ UNCHANGED <<dir, todo>>
               \/ /\ \E o \in Art!Donors(l, x) : dir' = [dir EXCEPT ![l][x] = dir[o][x]]
                  /\ UNCHANGED todo
               \/ todo' = [todo EXCEPT ![l] = @ \cup {x}] /\ UNCHANGED dir
      BY <2>2
    <3>1. x \in Portrayed /\ left' \in [Libraries -> SUBSET Portrayed]
      BY <1>2 DEF ArtTypes
    <3>2. todo' \in [Libraries -> SUBSET Portrayed]
      BY <1>2, <3>1 DEF ArtTypes
    <3>3. dir' \in [Libraries -> [Portrayed -> SUBSET Art!Files]]
      <4>1. CASE UNCHANGED dir
        BY <1>2, <4>1 DEF ArtTypes
      <4>2. ASSUME NEW o \in Art!Donors(l, x), dir' = [dir EXCEPT ![l][x] = dir[o][x]]
            PROVE  dir' \in [Libraries -> [Portrayed -> SUBSET Art!Files]]
        <5>1. o \in Libraries /\ dir[o][x] \in SUBSET Art!Files
          BY <1>2, <3>1 DEF Art!Donors, ArtTypes
        <5>. QED BY <1>2, <3>1, <4>2, <5>1 DEF ArtTypes
      <4>. QED BY <4>1, <4>2
    <3>. QED BY <3>1, <3>2, <3>3
  <2>. QED BY <2>1, <2>2 DEF Art!Filter
<1>5. stage' \in [Libraries -> Art!PCs]
  BY <1>2, <1>3 DEF ArtTypes, Art!PCs
<1>6. ArtTypes'
  BY <1>1, <1>2, <1>4, <1>5 DEF ArtTypes
<1>7. ArtLimits'
  <2>1. stage'[l] = where /\ \A k \in Libraries \ {l} : stage'[k] = stage[k]
    BY <1>2, <1>3 DEF ArtTypes
  <2>. QED BY <1>1, <1>2, <2>1 DEF ArtLimits
<1>8. ArtLocked' /\ ArtApart' /\ ArtCarried'
  BY <1>1, <1>3, ArtOutside DEF Locked
<1>. QED BY <1>6, <1>7, <1>8 DEF ArtIInv

LEMMA ArtFetch ==
  ASSUME ArtIInv, NEW l \in Libraries, Art!FetchNext(l)
  PROVE  ArtIInv'
<1>1. /\ stage[l] = "fetch" /\ (UNCHANGED mishaps \/ Art!Event)
      /\ UNCHANGED <<has, dir, atlas, temp_atlas, lock, left, todo, halt, errors, aborted, merged, dirty,
                     phases>>
  BY DEF Art!FetchNext, Art!web, Art!shared
<1>2. ArtTypes /\ ArtLimits
  BY DEF ArtIInv
<1>3. \/ stage' = [stage EXCEPT ![l] = "lock"] /\ UNCHANGED retries
      \/ ~aborted[l] /\ stage' = [stage EXCEPT ![l] = "answer"] /\ retries' = [retries EXCEPT ![l] = 0]
  BY DEF Art!FetchNext, Art!Goto
<1>4. stage' \in [Libraries -> Art!PCs] /\ retries' \in [Libraries -> 0 .. MaxRetries + 1]
  <2>1. 0 \in 0 .. MaxRetries + 1
    BY ArtAssumption
  <2>. QED BY ZenonT(60), <1>2, <1>3, <2>1 DEF ArtTypes, Art!PCs
<1>5. ArtTypes'
  BY <1>1, <1>2, <1>4, ArtEvent DEF ArtTypes
<1>6. ArtLimits'
  <2>1. \A k \in Libraries \ {l} : stage'[k] = stage[k] /\ retries'[k] = retries[k]
    BY <1>2, <1>3 DEF ArtTypes
  <2>2. stage'[l] = "answer" => ~aborted[l] /\ retries'[l] = 0
    BY <1>2, <1>3 DEF ArtTypes
  <2>. QED BY <1>1, <1>2, <2>1, <2>2, ArtAssumption DEF ArtLimits
<1>7. ArtLocked' /\ ArtApart' /\ ArtCarried'
  <2>1. CASE stage' = [stage EXCEPT ![l] = "lock"]
    BY <1>1, <2>1, ArtOutside DEF Locked
  <2>2. CASE stage' = [stage EXCEPT ![l] = "answer"]
    BY <1>1, <2>2, ArtOutside DEF Locked
  <2>. QED BY <1>3, <2>1, <2>2
<1>. QED BY <1>5, <1>6, <1>7 DEF ArtIInv

LEMMA ArtAnswer ==
  ASSUME ArtIInv, NEW l \in Libraries, Art!Answer(l)
  PROVE  ArtIInv'
<1>1. /\ stage[l] = "answer" /\ (UNCHANGED mishaps \/ Art!Event)
      /\ UNCHANGED <<has, atlas, temp_atlas, lock, left, halt, merged, dirty, phases>>
  BY DEF Art!Answer, Art!web, Art!shared
<1>2. ArtTypes /\ ArtLimits
  BY DEF ArtIInv
<1>3. PICK x \in todo[l] :
        Art!Refused(l, x) \/ Art!Failed(l, x) \/ Art!SlowDown(l, x) \/ Art!NotFound(l, x) \/ Art!Answered(l, x)
  BY DEF Art!Answer
<1>4. x \in Portrayed /\ ~aborted[l] /\ retries[l] <= MaxRetries /\ retries[l] \in Nat
      /\ errors[l] \in Nat /\ errors[l] < ErrorLimit
  BY <1>1, <1>2 DEF ArtTypes, ArtLimits
<1>5. PICK where \in {"answer", "fetch", "save"}, tries \in 0 .. MaxRetries + 1, bad_ones \in 0 .. ErrorLimit,
           over \in BOOLEAN, more \in SUBSET Portrayed, files \in SUBSET Art!Files :
        /\ stage' = [stage EXCEPT ![l] = where] /\ todo' = [todo EXCEPT ![l] = more]
        /\ retries' = [retries EXCEPT ![l] = tries] /\ errors' = [errors EXCEPT ![l] = bad_ones]
        /\ aborted' = [aborted EXCEPT ![l] = over] /\ dir' = [dir EXCEPT ![l][x] = files]
        /\ over \/ bad_ones < ErrorLimit
        /\ where = "answer" => ~over /\ tries <= MaxRetries
  <2>1. /\ stage = [stage EXCEPT ![l] = "answer"] /\ todo = [todo EXCEPT ![l] = todo[l]]
        /\ retries = [retries EXCEPT ![l] = retries[l]] /\ errors = [errors EXCEPT ![l] = errors[l]]
        /\ aborted = [aborted EXCEPT ![l] = FALSE]
    BY <1>1, <1>2, <1>4 DEF ArtTypes
  <2>2. dir = [dir EXCEPT ![l][x] = dir[l][x]] /\ dir[l][x] \in SUBSET Art!Files
        /\ dir[l][x] \cup {"marker"} \in SUBSET Art!Files
    BY <1>2, <1>4 DEF ArtTypes, Art!Files
  <2>3. todo[l] \in SUBSET Portrayed /\ todo[l] \ {x} \in SUBSET Portrayed
    BY <1>2 DEF ArtTypes
  <2>4. /\ retries[l] \in 0 .. MaxRetries + 1 /\ retries[l] + 1 \in 0 .. MaxRetries + 1
        /\ errors[l] \in 0 .. ErrorLimit /\ errors[l] + 1 \in 0 .. ErrorLimit /\ 0 \in 0 .. ErrorLimit
        /\ 0 < ErrorLimit
    BY <1>4, ArtAssumption
  <2>5. CASE Art!Refused(l, x)
    <3>1. /\ stage' = [stage EXCEPT ![l] = "fetch"] /\ aborted' = [aborted EXCEPT ![l] = TRUE]
          /\ UNCHANGED <<dir, todo, errors, retries>>
      BY <2>5 DEF Art!Refused, Art!Goto
    <3>2. /\ retries' = [retries EXCEPT ![l] = retries[l]] /\ errors' = [errors EXCEPT ![l] = errors[l]]
          /\ todo' = [todo EXCEPT ![l] = todo[l]] /\ dir' = [dir EXCEPT ![l][x] = dir[l][x]]
      BY <2>1, <2>2, <3>1
    <3>3. TRUE \in BOOLEAN /\ "fetch" # "answer" /\ "fetch" \in {"answer", "fetch", "save"}
      OBVIOUS
    <3>. QED BY <2>2, <2>3, <2>4, <3>1, <3>2, <3>3
  <2>6. CASE Art!Failed(l, x)
    <3>1. /\ stage' = [stage EXCEPT ![l] = "fetch"]
          /\ aborted' = [aborted EXCEPT ![l] = errors[l] + 1 >= ErrorLimit]
          /\ errors' = [errors EXCEPT ![l] = errors[l] + 1] /\ todo' = [todo EXCEPT ![l] = todo[l] \ {x}]
          /\ UNCHANGED <<dir, retries>>
      BY <2>6 DEF Art!Failed, Art!Goto, Art!Done
    <3>2. (errors[l] + 1 >= ErrorLimit) \in BOOLEAN
          /\ ((errors[l] + 1 >= ErrorLimit) \/ errors[l] + 1 < ErrorLimit)
      BY <1>4, ArtAssumption
    <3>. QED BY <2>1, <2>2, <2>3, <2>4, <3>1, <3>2
  <2>7. CASE Art!SlowDown(l, x) /\ retries[l] < MaxRetries
    <3>1. /\ retries' = [retries EXCEPT ![l] = retries[l] + 1]
          /\ UNCHANGED <<stage, todo, errors, dir, aborted>>
      BY <2>7 DEF Art!SlowDown
    <3>2. retries[l] + 1 <= MaxRetries
      BY <1>4, <2>7, ArtAssumption
    <3>. QED BY ZenonT(60), <1>4, <2>1, <2>2, <2>3, <2>4, <3>1, <3>2
  <2>8. CASE Art!SlowDown(l, x) /\ ~(retries[l] < MaxRetries)
    <3>1. /\ retries' = [retries EXCEPT ![l] = retries[l] + 1] /\ stage' = [stage EXCEPT ![l] = "fetch"]
          /\ todo' = [todo EXCEPT ![l] = todo[l] \ {x}] /\ errors' = [errors EXCEPT ![l] = 0]
          /\ UNCHANGED <<dir, aborted>>
      BY <2>8 DEF Art!SlowDown, Art!Goto, Art!Done
    <3>. QED BY <2>1, <2>2, <2>3, <2>4, <3>1
  <2>9. CASE Art!NotFound(l, x)
    <3>1. /\ dir' = [dir EXCEPT ![l][x] = dir[l][x] \cup {"marker"}] /\ stage' = [stage EXCEPT ![l] = "fetch"]
          /\ todo' = [todo EXCEPT ![l] = todo[l] \ {x}] /\ errors' = [errors EXCEPT ![l] = 0]
          /\ UNCHANGED <<retries, aborted>>
      BY <1>2, <1>4, <2>9 DEF Art!NotFound, Art!Goto, Art!Done, ArtTypes
    <3>. QED BY <2>1, <2>2, <2>3, <2>4, <3>1
  <2>10. CASE Art!Answered(l, x)
    <3>1. /\ stage' = [stage EXCEPT ![l] = "save"] /\ errors' = [errors EXCEPT ![l] = 0]
          /\ UNCHANGED <<dir, todo, retries, aborted>>
      BY <2>10 DEF Art!Answered, Art!Goto
    <3>. QED BY <2>1, <2>2, <2>3, <2>4, <3>1
  <2>. QED BY <1>3, <2>5, <2>6, <2>7, <2>8, <2>9, <2>10
<1>6. ArtTypes'
  <2>1. /\ stage' \in [Libraries -> Art!PCs] /\ todo' \in [Libraries -> SUBSET Portrayed]
        /\ retries' \in [Libraries -> 0 .. MaxRetries + 1] /\ errors' \in [Libraries -> 0 .. ErrorLimit]
        /\ aborted' \in [Libraries -> BOOLEAN]
    BY <1>2, <1>5 DEF ArtTypes, Art!PCs
  <2>2. dir' \in [Libraries -> [Portrayed -> SUBSET Art!Files]]
    BY <1>2, <1>4, <1>5 DEF ArtTypes
  <2>. QED BY <1>1, <1>2, <2>1, <2>2, ArtEvent DEF ArtTypes
<1>7. ArtLimits'
  <2>1. \A k \in Libraries \ {l} : stage'[k] = stage[k] /\ retries'[k] = retries[k]
                                   /\ errors'[k] = errors[k] /\ aborted'[k] = aborted[k]
    BY <1>2, <1>5 DEF ArtTypes
  <2>2. stage'[l] = where /\ retries'[l] = tries /\ errors'[l] = bad_ones /\ aborted'[l] = over
    BY <1>2, <1>5 DEF ArtTypes
  <2>. QED BY <1>2, <1>5, <2>1, <2>2 DEF ArtLimits
<1>8. ArtLocked' /\ ArtApart' /\ ArtCarried'
  BY <1>1, <1>5, ArtOutside DEF Locked
<1>. QED BY <1>6, <1>7, <1>8 DEF ArtIInv

LEMMA ArtSave ==
  ASSUME ArtIInv, NEW l \in Libraries, Art!Save(l)
  PROVE  ArtIInv'
<1>1. /\ stage[l] = "save" /\ (UNCHANGED mishaps \/ Art!Event) /\ stage' = [stage EXCEPT ![l] = "fetch"]
      /\ UNCHANGED <<has, atlas, temp_atlas, lock, left, halt, retries, errors, aborted, merged, dirty, phases>>
  BY DEF Art!Save, Art!Goto, Art!web, Art!shared
<1>2. ArtTypes /\ ArtLimits
  BY DEF ArtIInv
<1>3. PICK x \in todo[l], got \in SUBSET Art!Kinds :
        /\ dir' = [dir EXCEPT ![l][x] = @ \cup IF got = {} THEN {"marker"} ELSE got]
        /\ todo' = [todo EXCEPT ![l] = @ \ {x}]
  BY DEF Art!Save, Art!Done
<1>4. todo' \in [Libraries -> SUBSET Portrayed] /\ stage' \in [Libraries -> Art!PCs]
  BY <1>1, <1>2, <1>3 DEF ArtTypes, Art!PCs
<1>5. dir' \in [Libraries -> [Portrayed -> SUBSET Art!Files]]
  <2>1. x \in Portrayed /\ (IF got = {} THEN {"marker"} ELSE got) \in SUBSET Art!Files
    BY <1>2, <1>3 DEF ArtTypes, Art!Files
  <2>2. dir[l][x] \cup (IF got = {} THEN {"marker"} ELSE got) \in SUBSET Art!Files
    BY <1>2, <2>1 DEF ArtTypes
  <2>3. dir' = [dir EXCEPT ![l][x] = dir[l][x] \cup (IF got = {} THEN {"marker"} ELSE got)]
    BY <1>2, <1>3, <2>1 DEF ArtTypes
  <2>. QED BY <1>2, <2>1, <2>2, <2>3 DEF ArtTypes
<1>6. ArtTypes'
  BY <1>1, <1>2, <1>4, <1>5, ArtEvent DEF ArtTypes
<1>7. ArtLimits'
  <2>1. stage'[l] = "fetch" /\ \A k \in Libraries \ {l} : stage'[k] = stage[k]
    BY <1>1, <1>2 DEF ArtTypes
  <2>. QED BY <1>1, <1>2, <2>1 DEF ArtLimits
<1>8. ArtLocked' /\ ArtApart' /\ ArtCarried'
  BY <1>1, ArtOutside DEF Locked
<1>. QED BY <1>6, <1>7, <1>8 DEF ArtIInv

\* In the merge the library is alone.
LEMMA ArtAlone ==
  ASSUME ArtIInv, NEW l \in Libraries, lock = l \/ lock = None
  PROVE  \A k \in Libraries \ {l} : stage[k] \notin Locked
BY ArtAssumption DEF ArtIInv, ArtLocked

LEMMA ArtLock ==
  ASSUME ArtIInv, NEW l \in Libraries, Art!Lock(l)
  PROVE  ArtIInv'
<1>1. /\ stage[l] = "lock" /\ lock = None /\ lock' = l /\ merged' = [merged EXCEPT ![l] = atlas]
      /\ stage' = [stage EXCEPT ![l] = "merge"]
      /\ UNCHANGED <<has, dir, atlas, temp_atlas, left, todo, halt, retries, errors, aborted, dirty,
                     phases, mishaps>>
  BY DEF Art!Lock, Art!Loaded, Art!Goto, Art!web, Art!count
<1>2. ArtTypes /\ ArtLimits /\ ArtLocked /\ ArtApart /\ ArtCarried
  BY DEF ArtIInv
<1>3. /\ stage'[l] = "merge" /\ merged'[l] = atlas
      /\ \A k \in Libraries \ {l} : stage'[k] = stage[k] /\ merged'[k] = merged[k] /\ stage[k] \notin Locked
  BY <1>1, <1>2, ArtAlone DEF ArtTypes
<1>4. ArtTypes'
  <2>1. stage' \in [Libraries -> Art!PCs] /\ merged' \in [Libraries -> Drawn]
    BY <1>1, <1>2 DEF ArtTypes, Art!PCs
  <2>. QED BY <1>1, <1>2, <2>1 DEF ArtTypes
<1>5. ArtLimits'
  BY <1>1, <1>2, <1>3 DEF ArtLimits
<1>6. ArtLocked'
  <2>1. temp_atlas = None
    BY <1>1, <1>2, <1>3 DEF ArtLocked, ArtTypes, Locked
  <2>. QED BY <1>1, <1>3, <2>1 DEF ArtLocked, Locked
<1>7. ArtApart'
  BY <1>1, <1>2, <1>3 DEF ArtApart
<1>8. ArtCarried'
  BY <1>1, <1>2, <1>3 DEF ArtCarried
<1>. QED BY <1>4, <1>5, <1>6, <1>7, <1>8 DEF ArtIInv

LEMMA ArtMerge ==
  ASSUME ArtIInv, NEW l \in Libraries, Art!Merge(l)
  PROVE  ArtIInv'
<1>1. /\ stage[l] = "merge" /\ (UNCHANGED mishaps \/ Art!Event) /\ stage' = [stage EXCEPT ![l] = "finish"]
      /\ UNCHANGED <<has, dir, atlas, temp_atlas, lock, left, todo, halt, retries, errors, aborted, phases>>
  BY DEF Art!Merge, Art!Goto, Art!web, Art!shared
<1>2. ArtTypes /\ ArtLimits /\ ArtLocked /\ ArtApart /\ ArtCarried
  BY DEF ArtIInv
<1>3. PICK read \in SUBSET ArtistsOf[l], marks \in SUBSET ArtistsOf[l] :
        /\ merged' = [merged EXCEPT ![l] = Art!AddNoArt(Art!AddArt(@, read), marks)]
        /\ dirty' = [dirty EXCEPT ![l] = read \cup marks # {}]
  <2>1. PICK some \in SUBSET ArtistsOf[l] :
          LET arts  == {x \in some : "thumb" \in dir[l][x]}
              marks == {x \in some : "marker" \in dir[l][x]} \ arts
          IN \E read \in SUBSET arts :
              /\ merged' = [merged EXCEPT ![l] = Art!AddNoArt(Art!AddArt(@, read), marks)]
              /\ dirty' = [dirty EXCEPT ![l] = read \cup marks # {}]
    BY DEF Art!Merge
  <2> DEFINE arts == {x \in some : "thumb" \in dir[l][x]}
             signs == {x \in some : "marker" \in dir[l][x]} \ arts
  <2>2. PICK read \in SUBSET arts :
          /\ merged' = [merged EXCEPT ![l] = Art!AddNoArt(Art!AddArt(@, read), signs)]
          /\ dirty' = [dirty EXCEPT ![l] = read \cup signs # {}]
    BY <2>1
  <2>3. read \in SUBSET ArtistsOf[l] /\ signs \in SUBSET ArtistsOf[l]
    OBVIOUS
  <2> HIDE DEF signs, arts
  <2>. QED BY <2>2, <2>3
<1> DEFINE old == merged[l]  new == Art!AddNoArt(Art!AddArt(old, read), marks)
<1>4. old \in Drawn /\ read \subseteq Portrayed /\ marks \subseteq Portrayed
  BY <1>2, <1>3, ArtAssumption DEF ArtTypes
<1>5. new = [art |-> old.art \cup read,
             no_art |-> (old.no_art \ read) \cup (marks \ (old.art \cup read))]
  <2>1. Art!AddArt(old, read) = [art |-> old.art \cup read, no_art |-> old.no_art \ read]
    BY DEF Art!AddArt
  <2>. QED BY <2>1 DEF Art!AddNoArt
<1>6. new \in Drawn /\ old.art \subseteq new.art /\ (old.art \cap old.no_art = {} => new.art \cap new.no_art = {})
  BY <1>4, <1>5 DEF Drawn
<1>7. merged' = [merged EXCEPT ![l] = new]
  BY <1>2, <1>3 DEF ArtTypes
<1> HIDE DEF new, old
<1>8. /\ stage'[l] = "finish" /\ merged'[l] = new
      /\ \A k \in Libraries \ {l} : stage'[k] = stage[k] /\ merged'[k] = merged[k]
  BY <1>1, <1>2, <1>7 DEF ArtTypes
<1>9. ArtTypes'
  <2>1. stage' \in [Libraries -> Art!PCs] /\ merged' \in [Libraries -> Drawn]
    BY <1>1, <1>2, <1>6, <1>7 DEF ArtTypes, Art!PCs
  <2>2. dirty' \in [Libraries -> BOOLEAN]
    BY <1>2, <1>3 DEF ArtTypes
  <2>. QED BY <1>1, <1>2, <2>1, <2>2, ArtEvent DEF ArtTypes
<1>10. ArtLimits'
  BY <1>1, <1>2, <1>8 DEF ArtLimits
<1>11. ArtLocked'
  BY <1>1, <1>2, <1>8, ArtAlone DEF ArtLocked, Locked
<1>12. ArtApart'
  BY <1>1, <1>2, <1>6, <1>8 DEF ArtApart, old
<1>13. ArtCarried'
  BY <1>1, <1>2, <1>6, <1>8 DEF ArtCarried, old
<1>. QED BY <1>9, <1>10, <1>11, <1>12, <1>13 DEF ArtIInv

LEMMA ArtFinish ==
  ASSUME ArtIInv, NEW l \in Libraries, Art!Finish(l)
  PROVE  ArtIInv'
<1>1. /\ stage[l] = "finish" /\ (UNCHANGED mishaps \/ Art!Event)
      /\ \/ temp_atlas' = l /\ stage' = [stage EXCEPT ![l] = "rename"]
         \/ stage' = [stage EXCEPT ![l] = "unlock"] /\ UNCHANGED temp_atlas
      /\ UNCHANGED <<has, dir, atlas, lock, left, todo, halt, retries, errors, aborted, merged, dirty, phases>>
  BY DEF Art!Finish, Art!Goto, Art!web
<1>2. ArtTypes /\ ArtLimits /\ ArtLocked /\ ArtApart /\ ArtCarried
  BY DEF ArtIInv
<1>3. /\ \A k \in Libraries \ {l} : stage'[k] = stage[k] /\ stage[k] \notin Locked
      /\ stage'[l] \in {"rename", "unlock"} /\ lock = l
      /\ stage'[l] = "rename" => temp_atlas' = l
      /\ stage'[l] = "unlock" => temp_atlas' = temp_atlas
  <2>1. lock = l
    BY <1>1, <1>2 DEF ArtLocked, Locked
  <2>. QED BY <1>1, <1>2, <2>1, ArtAlone DEF ArtTypes
<1>4. ArtTypes'
  <2>1. stage' \in [Libraries -> Art!PCs] /\ temp_atlas' \in Libraries \cup {None}
    BY <1>1, <1>2 DEF ArtTypes, Art!PCs
  <2>. QED BY <1>1, <1>2, <2>1, ArtEvent DEF ArtTypes
<1>5. ArtLimits'
  BY <1>1, <1>2, <1>3 DEF ArtLimits
<1>6. ArtLocked'
  <2>1. temp_atlas = None
    BY <1>1, <1>2, <1>3 DEF ArtLocked, ArtTypes, Locked
  <2>. QED BY <1>1, <1>3, <2>1 DEF ArtLocked, Locked
<1>7. ArtApart' /\ ArtCarried'
  BY <1>1, <1>2, <1>3 DEF ArtApart, ArtCarried, Locked
<1>. QED BY <1>4, <1>5, <1>6, <1>7 DEF ArtIInv

LEMMA ArtRename ==
  ASSUME ArtIInv, NEW l \in Libraries, Art!Rename(l)
  PROVE  ArtIInv' /\ atlas.art \subseteq atlas'.art
<1>1. /\ stage[l] = "rename" /\ atlas' = merged[temp_atlas] /\ temp_atlas' = None
      /\ stage' = [stage EXCEPT ![l] = "unlock"]
      /\ UNCHANGED <<has, dir, lock, left, todo, halt, retries, errors, aborted, merged, dirty, phases,
                     mishaps>>
  BY DEF Art!Rename, Art!Goto, Art!web, Art!count
<1>2. ArtTypes /\ ArtLimits /\ ArtLocked /\ ArtApart /\ ArtCarried
  BY DEF ArtIInv
<1>3. lock = l /\ temp_atlas = l /\ atlas.art \subseteq merged[l].art
  BY <1>1, <1>2 DEF ArtLocked, ArtCarried, Locked
<1>4. stage'[l] = "unlock" /\ \A k \in Libraries \ {l} : stage'[k] = stage[k] /\ stage[k] \notin Locked
  BY <1>1, <1>2, <1>3, ArtAlone DEF ArtTypes
<1>5. ArtTypes'
  <2>1. stage' \in [Libraries -> Art!PCs] /\ atlas' \in Drawn
    BY <1>1, <1>2, <1>3 DEF ArtTypes, Art!PCs
  <2>. QED BY <1>1, <1>2, <2>1 DEF ArtTypes
<1>6. ArtLimits'
  BY <1>1, <1>2, <1>4 DEF ArtLimits
<1>7. ArtLocked'
  BY <1>1, <1>3, <1>4 DEF ArtLocked, Locked
<1>8. ArtApart' /\ ArtCarried'
  BY <1>1, <1>2, <1>3, <1>4 DEF ArtApart, ArtCarried, Locked
<1>. QED BY <1>1, <1>3, <1>5, <1>6, <1>7, <1>8 DEF ArtIInv

LEMMA ArtUnlock ==
  ASSUME ArtIInv, NEW l \in Libraries, Art!Unlock(l)
  PROVE  ArtIInv'
<1>1. /\ stage[l] = "unlock" /\ lock' = None /\ merged' = [merged EXCEPT ![l] = Art!Empty]
      /\ dirty' = [dirty EXCEPT ![l] = FALSE] /\ stage' = [stage EXCEPT ![l] = "idle"]
      /\ UNCHANGED <<has, dir, atlas, temp_atlas, left, todo, halt, retries, errors, aborted, phases, mishaps>>
  BY DEF Art!Unlock, Art!Goto, Art!web, Art!count
<1>2. ArtTypes /\ ArtLimits /\ ArtLocked /\ ArtApart /\ ArtCarried
  BY DEF ArtIInv
<1>3. lock = l /\ Art!Empty \in Drawn /\ Art!Empty.art = {}
  BY <1>1, <1>2 DEF ArtLocked, Locked, Art!Empty, Drawn
<1>4. /\ stage'[l] = "idle" /\ merged'[l] = Art!Empty
      /\ \A k \in Libraries \ {l} : stage'[k] = stage[k] /\ stage[k] \notin Locked /\ merged'[k] = merged[k]
  BY <1>1, <1>2, <1>3, ArtAlone DEF ArtTypes
<1>5. ArtTypes'
  <2>1. stage' \in [Libraries -> Art!PCs] /\ merged' \in [Libraries -> Drawn] /\ dirty' \in [Libraries -> BOOLEAN]
    BY <1>1, <1>2, <1>3 DEF ArtTypes, Art!PCs
  <2>. QED BY <1>1, <1>2, <2>1 DEF ArtTypes
<1>6. ArtLimits'
  BY <1>1, <1>2, <1>4 DEF ArtLimits
<1>7. ArtLocked'
  <2>1. temp_atlas = None
    BY <1>1, <1>2, <1>4 DEF ArtLocked, ArtTypes, Locked
  <2>. QED BY <1>1, <1>4, <2>1 DEF ArtLocked, Locked
<1>8. ArtApart' /\ ArtCarried'
  BY <1>1, <1>2, <1>3, <1>4 DEF ArtApart, ArtCarried, Locked
<1>. QED BY <1>5, <1>6, <1>7, <1>8 DEF ArtIInv

LEMMA ArtWorld ==
  ASSUME ArtIInv, (\E l \in Libraries : Art!Cancel(l)) \/ Art!Kill \/ UNCHANGED art
  PROVE  ArtIInv'
<1>1. ArtTypes /\ ArtLimits /\ ArtLocked /\ ArtApart /\ ArtCarried
  BY DEF ArtIInv
<1>2. CASE (\E l \in Libraries : Art!Cancel(l)) \/ UNCHANGED art
  <2>1. /\ UNCHANGED <<has, dir, atlas, temp_atlas, lock, stage, left, todo>>
        /\ UNCHANGED <<retries, errors, aborted, merged, dirty, phases>>
        /\ UNCHANGED mishaps \/ Art!Event
    BY <1>2 DEF Art!Cancel, Art!web, Art!shared, art
  <2>2. halt' \in [Libraries -> BOOLEAN]
    BY <1>1, <1>2 DEF Art!Cancel, art, ArtTypes
  <2>3. ArtTypes'
    BY <1>1, <2>1, <2>2, ArtEvent DEF ArtTypes
  <2>4. ArtLimits' /\ ArtLocked' /\ ArtApart' /\ ArtCarried'
    BY <1>1, <2>1 DEF ArtLimits, ArtLocked, ArtApart, ArtCarried
  <2>. QED BY <2>3, <2>4 DEF ArtIInv
<1>3. CASE Art!Kill
  <2>1. /\ Art!Event /\ stage' = [l \in Libraries |-> "idle"] /\ lock' = None /\ temp_atlas' = None
        /\ merged' = [l \in Libraries |-> Art!Empty] /\ dirty' = [l \in Libraries |-> FALSE]
        /\ UNCHANGED <<has, dir, atlas, left, todo, halt, retries, errors, aborted, phases>>
    BY <1>3 DEF Art!Kill, Art!web
  <2>2. Art!Empty \in Drawn /\ Art!Empty.art = {}
    BY DEF Art!Empty, Drawn
  <2>3. ArtTypes'
    <3>1. stage' \in [Libraries -> Art!PCs] /\ merged' \in [Libraries -> Drawn] /\ dirty' \in [Libraries -> BOOLEAN]
      BY <2>1, <2>2 DEF Art!PCs
    <3>. QED BY <1>1, <2>1, <3>1, ArtEvent DEF ArtTypes
  <2>4. ArtLimits' /\ ArtLocked' /\ ArtCarried'
    BY <1>1, <2>1 DEF ArtLimits, ArtLocked, ArtCarried, Locked
  <2>5. ArtApart'
    BY <1>1, <2>1, <2>2 DEF ArtApart
  <2>. QED BY <2>3, <2>4, <2>5 DEF ArtIInv
<1>. QED BY <1>2, <1>3

LEMMA ArtStep ==
  ASSUME ArtIInv, Art!Next \/ UNCHANGED art
  PROVE  ArtIInv'
BY ArtStart, ArtFilter, ArtFetch, ArtAnswer, ArtSave, ArtLock, ArtMerge, ArtFinish, ArtRename, ArtUnlock,
   ArtWorld DEF Art!Next, Art!Step

LEMMA ArtImplies ==
  ASSUME ArtIInv
  PROVE  Art!TypeOK /\ Art!ArtistsSound
<1>1. ArtTypes /\ ArtLocked /\ ArtApart
  BY DEF ArtIInv
<1>2. Art!TypeOK
  BY <1>1 DEF ArtTypes, Drawn, Art!TypeOK
<1>3. Art!ArtistsSound
  <2>1. temp_atlas # None => lock = temp_atlas
    BY <1>1 DEF ArtTypes, ArtLocked, Locked
  <2>2. \A k, l \in Libraries : {stage[k], stage[l]} \subseteq Locked => k = l
    BY <1>1 DEF ArtLocked
  <2>. QED BY <1>1, <2>1, <2>2 DEF ArtApart, Locked, Art!ArtistsSound
<1>. QED BY <1>2, <1>3

\* A step of any part keeps the pictures of the shared atlas.
LEMMA ArtKeeps ==
  ASSUME ArtIInv, Art!Next \/ UNCHANGED art
  PROVE  atlas.art \subseteq atlas'.art
<1>1. CASE \E l \in Libraries : Art!Rename(l)
  BY <1>1, ArtRename
<1>2. CASE ~\E l \in Libraries : Art!Rename(l)
  <2>1. UNCHANGED atlas
    BY <1>2 DEF Art!Next, Art!Step, Art!Start, Art!Filter, Art!FetchNext, Art!Answer, Art!Save, Art!Lock,
       Art!Merge, Art!Finish, Art!Unlock, Art!Cancel, Art!Kill, Art!shared, art
  <2>. QED BY <2>1
<1>. QED BY <1>1, <1>2

-----------------------------------------------------------------------------
(* Biographies: their invariant *)

Tasks == [artist : Described, request : 1 .. 3, attempt : 1 .. Attempts]
Results == [artist : Described, bio : BOOLEAN, error : BOOLEAN]
Rows == [Described -> Bios!Found \cup {None}]

BioTypes ==
    /\ article \subseteq Described /\ rows \in Rows /\ txn \in Rows \cup {None}
    /\ jobs \subseteq Described /\ busy \in [BioWorkers -> Tasks \cup {None}] /\ found \in Seq(Results)
    /\ bio_main \in {"idle", "consume", "free", "close"}
    /\ asked_for \subseteq Described /\ received \in 0 .. Cardinality(Described)
    /\ streak \in 0 .. ErrorLimit /\ batch \in 0 .. BatchSize
    /\ quit \in BOOLEAN /\ refused \subseteq Described
    /\ runs \in 0 .. MaxRuns /\ slips \in 0 .. MaxBioEvents

\* An artist is in one place at most: with the pool, with one worker, or once in the queue.
BioApart ==
    /\ \A v, w \in BioWorkers :
          busy[v] # None /\ busy[w] # None /\ busy[v].artist = busy[w].artist => v = w
    /\ \A i, j \in DOMAIN found : found[i].artist = found[j].artist => i = j
    /\ \A w \in BioWorkers : busy[w] # None => busy[w].artist \notin jobs
    /\ \A j \in DOMAIN found : found[j].artist \notin jobs
    /\ \A w \in BioWorkers, j \in DOMAIN found : busy[w] # None => busy[w].artist # found[j].artist

\* Between the runs nothing is under way.
BioQuiet ==
    /\ bio_main \in {"idle", "close"} => jobs = {} /\ \A w \in BioWorkers : busy[w] = None
    /\ bio_main = "idle" => found = <<>>

AtWork == {w \in BioWorkers : busy[w] # None}

BioCounted ==
    bio_main = "consume" =>
        /\ streak < ErrorLimit
        /\ ~quit => received + Len(found) + Cardinality(AtWork) + Cardinality(jobs) = Cardinality(asked_for)

\* Whoever is still under way has no row, neither on disk nor in the transaction, and the
\* transaction only holds rows that are not on disk.
Pending(x) ==
    \/ x \in jobs
    \/ \E w \in BioWorkers : busy[w] # None /\ busy[w].artist = x
    \/ \E j \in DOMAIN found : found[j].artist = x

BioUnwritten ==
    /\ \A x \in Described : Pending(x) => rows[x] = None /\ Bios!Contents(txn)[x] = None
    /\ \A x \in Described : Bios!Contents(txn)[x] # None => rows[x] = None

\* Results without a biography, unless the scan is cancelled, and sentinels are right.
Rightly(x) == x \notin article \/ x \in refused

BioRight ==
    /\ ~quit => \A j \in DOMAIN found : ~found[j].bio => Rightly(found[j].artist)
    /\ \A x \in Described : rows[x] = "sentinel" => Rightly(x)
    /\ \A x \in Described : Bios!Contents(txn)[x] = "sentinel" => Rightly(x)

BioIInv == BioTypes /\ BioApart /\ BioQuiet /\ BioCounted /\ BioUnwritten /\ BioRight

LEMMA BioCardinality ==
  ASSUME NEW S
  PROVE  Bios!Cardinality(S) = Cardinality(S)
BY DEF Bios!Cardinality, Cardinality

LEMMA NothingIs ==
  /\ Bios!Nothing \in Rows /\ \A x \in Described : Bios!Nothing[x] = None
  /\ \A x \in Described : Bios!Contents(None)[x] = None /\ Bios!Contents(Bios!Nothing)[x] = None
BY DEF Bios!Nothing, Bios!Contents, Rows

LEMMA ContentsIs ==
  ASSUME NEW t \in Rows \cup {None}
  PROVE  Bios!Contents(t) \in Rows
BY NothingIs DEF Bios!Contents

LEMMA OverIs ==
  ASSUME NEW one \in Rows, NEW two \in Rows
  PROVE  /\ Bios!Over(one, two) \in Rows
         /\ \A x \in Described : Bios!Over(one, two)[x] = IF two[x] = None THEN one[x] ELSE two[x]
BY DEF Bios!Over, Rows

LEMMA BioEvent ==
  ASSUME BioTypes, UNCHANGED slips \/ Bios!Event
  PROVE  slips' \in 0 .. MaxBioEvents
BY BiosAssumption DEF BioTypes, Bios!Event

LEMMA StartedIs ==
  ASSUME Bios!Started
  PROVE  /\ UNCHANGED slips \/ Bios!Event
         /\ txn' \in Rows \cup {None} /\ \A x \in Described : Bios!Contents(txn')[x] = None
BY NothingIs DEF Bios!Started

\* A commit leaves on disk what was there, adds what was in the transaction or nothing of it, and
\* the next transaction is empty.
LEMMA CommitIs ==
  ASSUME NEW committed \in Rows, NEW t \in Rows \cup {None}, Bios!CommitAndBegin(committed, t),
         \A x \in Described : Bios!Contents(t)[x] # None => committed[x] = None
  PROVE  /\ UNCHANGED slips \/ Bios!Event
         /\ rows' \in Rows /\ txn' \in Rows \cup {None}
         /\ \A x \in Described : committed[x] # None => rows'[x] = committed[x]
         /\ \A x \in Described : rows'[x] \in {committed[x], Bios!Contents(t)[x]}
         /\ \A x \in Described : Bios!Contents(txn')[x] = None
<1> DEFINE c == Bios!Contents(t)
<1>1. c \in Rows
  BY ContentsIs
<1>2. CASE rows' = Bios!Over(committed, c) /\ Bios!Started
  <2> HIDE DEF c
  <2>1. /\ rows' \in Rows
        /\ \A x \in Described : rows'[x] = IF c[x] = None THEN committed[x] ELSE c[x]
    BY <1>1, <1>2, OverIs
  <2>. QED BY <1>2, <2>1, StartedIs DEF c
<1>3. CASE Bios!Event /\ rows' = committed /\ txn' = Bios!Nothing
  BY <1>3, NothingIs
<1>. QED BY <1>2, <1>3 DEF Bios!CommitAndBegin

\* A row that is written lands on disk, or in the transaction if there is one.
LEMMA UpsertedIs ==
  ASSUME BioTypes, NEW x \in Described, NEW value \in Bios!Found, rows[x] = None,
         \A y \in Described : Bios!Contents(txn)[y] # None => rows[y] = None
  PROVE  LET after == Bios!Upserted(x, value) IN
         /\ after[1] \in Rows /\ after[2] \in Rows \cup {None}
         /\ \A y \in Described : rows[y] # None => after[1][y] = rows[y]
         /\ \A y \in Described : after[1][y] = rows[y] \/ (y = x /\ after[1][y] = value)
         /\ \A y \in Described : \/ Bios!Contents(after[2])[y] \in {Bios!Contents(txn)[y], None}
                                 \/ y = x /\ Bios!Contents(after[2])[y] = value
         /\ \A y \in Described : Bios!Contents(after[2])[y] # None => after[1][y] = None
<1> DEFINE row == Bios!Row(x, value)  after == Bios!Upserted(x, value)
<1>1. row \in Rows /\ \A y \in Described : row[y] = IF y = x THEN value ELSE None
  BY DEF Bios!Row, Rows
<1>2. rows \in Rows /\ txn \in Rows \cup {None} /\ value # None
  BY BiosAssumption DEF BioTypes
<1> HIDE DEF row
<1>3. CASE txn = None
  <2>1. after = <<Bios!Over(rows, row), None>>
    BY <1>3 DEF Bios!Upserted, row
  <2>2. after[1] = Bios!Over(rows, row) /\ after[2] = None
    BY <2>1
  <2> HIDE DEF after
  <2>3. after[1] \in Rows /\ \A y \in Described : after[1][y] = IF row[y] = None THEN rows[y] ELSE row[y]
    BY <1>1, <1>2, <2>2, OverIs
  <2>4. \A y \in Described : Bios!Contents(after[2])[y] = None
    BY <2>2, NothingIs
  <2>. QED BY <1>1, <1>2, <2>2, <2>3, <2>4 DEF after
<1>4. CASE txn # None
  <2> DEFINE t == Bios!Over(txn, row)
  <2>1. after = <<rows, t>>
    BY <1>4 DEF Bios!Upserted, row
  <2>2. after[1] = rows /\ after[2] = t
    BY <2>1
  <2>3. t \in Rows /\ \A y \in Described : t[y] = IF row[y] = None THEN txn[y] ELSE row[y]
    BY <1>1, <1>2, <1>4, OverIs
  <2> HIDE DEF after, t
  <2>4. Bios!Contents(txn) = txn
    BY <1>4 DEF Bios!Contents
  <2>5. \A y \in Described : Bios!Contents(t)[y] = t[y] \/ Bios!Contents(t)[y] = None
    BY NothingIs DEF Bios!Contents
  <2>6. \A y \in Described : t[y] = txn[y] \/ (y = x /\ t[y] = value)
    BY <1>1, <2>3
  <2>7. \A y \in Described : t[y] # None => rows[y] = None
    BY <2>4, <2>6
  <2>. QED BY <1>2, <2>2, <2>3, <2>4, <2>5, <2>6, <2>7 DEF after
<1>. QED BY <1>3, <1>4

-----------------------------------------------------------------------------
(* Biographies: where the artists are *)

LEMMA AtWorkUpdate ==
  ASSUME BioTypes, NEW w \in BioWorkers, NEW it \in Tasks \cup {None}, busy' = [busy EXCEPT ![w] = it]
  PROVE  /\ Cardinality(AtWork) \in Nat /\ busy' \in [BioWorkers -> Tasks \cup {None}]
         /\ busy'[w] = it /\ \A v \in BioWorkers \ {w} : busy'[v] = busy[v]
         /\ busy[w] # None => Cardinality(AtWork) >= 1
         /\ Cardinality(AtWork') = Cardinality(AtWork) - (IF busy[w] # None THEN 1 ELSE 0)
                                     + (IF it # None THEN 1 ELSE 0)
<1> DEFINE others == {v \in BioWorkers \ {w} : busy[v] # None}
<1>1. /\ busy' \in [BioWorkers -> Tasks \cup {None}]
      /\ busy'[w] = it /\ \A v \in BioWorkers \ {w} : busy'[v] = busy[v]
  BY DEF BioTypes
<1>2. IsFiniteSet(others) /\ w \notin others /\ Cardinality(others) \in Nat
  <2>1. others \in SUBSET BioWorkers /\ w \notin others
    OBVIOUS
  <2> HIDE DEF others
  <2>. QED BY <2>1, BiosAssumption, FS_Subset, FS_CardinalityType
<1>3. AtWork = (IF busy[w] # None THEN others \cup {w} ELSE others)
  BY DEF AtWork
<1>4. AtWork' = (IF it # None THEN others \cup {w} ELSE others)
  BY <1>1 DEF AtWork
<1>5. Cardinality(others \cup {w}) = Cardinality(others) + 1
  <2> HIDE DEF others
  <2>. QED BY <1>2, FS_AddElement
<1> HIDE DEF others
<1>. QED BY <1>1, <1>2, <1>3, <1>4, <1>5

LEMMA BioCounts ==
  ASSUME BioTypes
  PROVE  /\ Cardinality(AtWork) \in Nat /\ Cardinality(jobs) \in Nat /\ Cardinality(asked_for) \in Nat
         /\ Cardinality(asked_for) <= Cardinality(Described) /\ Cardinality(Described) \in Nat
         /\ received \in Nat /\ Len(found) \in Nat
         /\ \A x \in jobs : Cardinality(jobs \ {x}) = Cardinality(jobs) - 1
<1>1. AtWork \in SUBSET BioWorkers
  BY DEF AtWork
<1>2. jobs \in SUBSET Described /\ asked_for \in SUBSET Described /\ received \in Nat /\ Len(found) \in Nat
  BY BiosAssumption, FS_CardinalityType DEF BioTypes
<1>3. IsFiniteSet(jobs)
  BY <1>2, BiosAssumption, FS_Subset
<1>. QED BY <1>1, <1>2, <1>3, BiosAssumption, FS_Subset, FS_CardinalityType, FS_RemoveElement

LEMMA FirstResult ==
  ASSUME BioTypes, found # <<>>
  PROVE  /\ Head(found) \in Results /\ Tail(found) \in Seq(Results) /\ Len(Tail(found)) = Len(found) - 1
         /\ Len(found) \in Nat /\ Len(found) >= 1
         /\ 1 \in DOMAIN found /\ Head(found) = found[1]
         /\ \A j \in DOMAIN Tail(found) : j + 1 \in DOMAIN found /\ Tail(found)[j] = found[j + 1] /\ j \in Nat /\ j # 0
<1>1. found \in Seq(Results)
  BY DEF BioTypes
<1>. QED BY <1>1

\* When results are dropped the rest are where they were.
LEMMA BioDrop ==
  ASSUME BioTypes, BioApart, UNCHANGED <<jobs, busy>>, found # <<>>, found' = Tail(found)
  PROVE  /\ BioApart' /\ found' \in Seq(Results)
         /\ \A x : Pending(x)' => Pending(x) /\ x # Head(found).artist
         /\ \A j \in DOMAIN found' : \E i \in DOMAIN found : found'[j] = found[i]
<1>1. \A j \in DOMAIN found' : j + 1 \in DOMAIN found /\ found'[j] = found[j + 1] /\ j \in Nat /\ j # 0
  BY FirstResult
<1>2. 1 \in DOMAIN found /\ Head(found) = found[1] /\ found' \in Seq(Results)
  BY FirstResult
<1>3. BioApart'
  <2>1. ASSUME NEW i \in DOMAIN found', NEW j \in DOMAIN found', found'[i].artist = found'[j].artist PROVE i = j
    <3>1. i + 1 \in DOMAIN found /\ j + 1 \in DOMAIN found /\ found[i + 1].artist = found[j + 1].artist
      BY <1>1, <2>1
    <3>2. i + 1 = j + 1
      BY <3>1 DEF BioApart
    <3>. QED BY <1>1, <3>2
  <2>. QED BY <1>1, <2>1 DEF BioApart
<1>4. ASSUME NEW x, Pending(x)' PROVE Pending(x) /\ x # Head(found).artist
  <2>1. CASE x \in jobs
    BY <1>2, <2>1 DEF Pending, BioApart
  <2>2. CASE \E w \in BioWorkers : busy[w] # None /\ busy[w].artist = x
    BY <1>2, <2>2 DEF Pending, BioApart
  <2>3. CASE \E j \in DOMAIN found' : found'[j].artist = x
    <3>1. PICK j \in DOMAIN found' : found'[j].artist = x
      BY <2>3
    <3>2. j + 1 \in DOMAIN found /\ found[j + 1].artist = x /\ j + 1 # 1
      BY <1>1, <3>1
    <3>. QED BY <1>2, <3>2 DEF Pending, BioApart
  <2>. QED BY <1>4, <2>1, <2>2, <2>3 DEF Pending
<1>. QED BY <1>1, <1>2, <1>3, <1>4

\* What is under way has no row after a step that leaves rows and transaction alone.
LEMMA BioSameRows ==
  ASSUME BioUnwritten, UNCHANGED <<rows, txn>>, \A x : Pending(x)' => Pending(x)
  PROVE  BioUnwritten'
BY DEF BioUnwritten

-----------------------------------------------------------------------------
(* Biographies: the steps *)

LEMMA BioInit ==
  ASSUME Bios!Init
  PROVE  BioIInv
<1> USE DEF Bios!Init
<1>1. rows \in Rows /\ \A x \in Described : rows[x] = None
  BY DEF Rows
<1>2. /\ Bios!Contents(txn) = Bios!Nothing /\ found \in Seq(Results) /\ DOMAIN found = {} /\ Len(found) = 0
      /\ busy \in [BioWorkers -> Tasks \cup {None}]
  BY DEF Bios!Contents
<1>3. BioTypes
  <2>1. /\ received \in 0 .. Cardinality(Described) /\ streak \in 0 .. ErrorLimit /\ batch \in 0 .. BatchSize
        /\ runs \in 0 .. MaxRuns /\ slips \in 0 .. MaxBioEvents
    BY BiosAssumption, ArtAssumption, FS_CardinalityType
  <2>. QED BY <1>1, <1>2, <2>1 DEF BioTypes
<1>4. BioApart /\ BioQuiet /\ BioCounted
  BY <1>2 DEF BioApart, BioQuiet, BioCounted
<1>5. BioUnwritten
  BY <1>1, <1>2, NothingIs DEF BioUnwritten
<1>6. BioRight
  BY <1>1, <1>2, NothingIs, BiosAssumption DEF BioRight, Bios!Found
<1>. QED BY <1>3, <1>4, <1>5, <1>6 DEF BioIInv

LEMMA BioBegin ==
  ASSUME BioIInv, Bios!Begin
  PROVE  BioIInv' /\ UNCHANGED rows
<1>1. /\ bio_main = "idle" /\ runs < MaxRuns /\ runs' = runs + 1 /\ quit' = FALSE
      /\ asked_for' = {x \in Described : rows[x] = None} /\ received' = 0 /\ streak' = 0 /\ batch' = 0
      /\ UNCHANGED <<article, rows, busy, found, refused>>
  BY DEF Bios!Begin, Bios!ToFetch
<1>2. \/ UNCHANGED <<bio_main, jobs, txn, slips>>
      \/ bio_main' = "consume" /\ jobs' = asked_for' /\ Bios!Started
  BY DEF Bios!Begin
<1>3. BioTypes /\ BioApart /\ BioQuiet /\ BioUnwritten /\ BioRight
  BY DEF BioIInv
<1>4. /\ jobs = {} /\ found = <<>> /\ \A w \in BioWorkers : busy[w] = None
      /\ DOMAIN found = {} /\ Len(found) = 0
  BY <1>1, <1>3 DEF BioQuiet
<1>5. /\ received' \in 0 .. Cardinality(Described) /\ streak' \in 0 .. ErrorLimit /\ batch' \in 0 .. BatchSize
      /\ runs' \in 0 .. MaxRuns /\ asked_for' \subseteq Described /\ jobs' \subseteq Described
  BY <1>1, <1>2, <1>3, BiosAssumption, ArtAssumption, FS_CardinalityType DEF BioTypes
<1>6. txn' \in Rows \cup {None} /\ slips' \in 0 .. MaxBioEvents
  BY <1>2, <1>3, StartedIs, BioEvent DEF BioTypes
<1>7. BioTypes'
  BY <1>1, <1>2, <1>3, <1>5, <1>6 DEF BioTypes
<1>8. BioApart'
  BY <1>1, <1>4 DEF BioApart
<1>9. BioQuiet'
  BY <1>1, <1>2, <1>4 DEF BioQuiet
<1>10. BioCounted'
  <2>1. AtWork' = {} /\ Cardinality({}) = 0
    BY <1>1, <1>4, FS_EmptySet DEF AtWork
  <2>2. Cardinality(asked_for') \in Nat
    BY <1>5, BiosAssumption, FS_Subset, FS_CardinalityType
  <2>3. Cardinality(AtWork') = 0 /\ Len(found') = 0
    BY <1>1, <1>4, <2>1
  <2>4. bio_main' = "consume" => jobs' = asked_for'
    BY <1>1, <1>2
  <2>5. streak' < ErrorLimit
    BY <1>1, ArtAssumption
  <2>6. ASSUME bio_main' = "consume"
        PROVE  received' + Len(found') + Cardinality(AtWork') + Cardinality(jobs') = Cardinality(asked_for')
    <3>1. Cardinality(jobs') = Cardinality(asked_for') /\ received' = 0
      BY <1>1, <2>4, <2>6
    <3> HIDE DEF AtWork
    <3>. QED BY <2>2, <2>3, <3>1
  <2>. QED BY <2>5, <2>6 DEF BioCounted
<1>11. BioUnwritten'
  <2>1. CASE UNCHANGED <<bio_main, jobs, txn, slips>>
    <3>1. \A x : Pending(x)' => Pending(x)
      BY <1>1, <2>1 DEF Pending
    <3>. QED BY <1>1, <1>3, <2>1, <3>1, BioSameRows
  <2>2. CASE jobs' = asked_for' /\ Bios!Started
    <3>1. \A x \in Described : Bios!Contents(txn')[x] = None
      BY <2>2, StartedIs
    <3>2. \A x : Pending(x)' => rows[x] = None
      BY <1>1, <1>4, <2>2 DEF Pending
    <3>. QED BY <1>1, <3>1, <3>2 DEF BioUnwritten
  <2>. QED BY <1>2, <2>1, <2>2
<1>12. BioRight'
  <2>1. \A x \in Described : Bios!Contents(txn')[x] = "sentinel" => Bios!Contents(txn)[x] = "sentinel"
    BY <1>2, StartedIs, BiosAssumption DEF Bios!Found
  <2>. QED BY <1>1, <1>3, <1>4, <2>1 DEF BioRight, Rightly
<1>. QED BY <1>1, <1>7, <1>8, <1>9, <1>10, <1>11, <1>12 DEF BioIInv

LEMMA BioTake ==
  ASSUME BioIInv, NEW w \in BioWorkers, Bios!Take(w)
  PROVE  BioIInv' /\ UNCHANGED rows
<1>1. /\ busy[w] = None
      /\ UNCHANGED <<article, rows, txn, found, bio_main, asked_for, received, streak, batch, quit, refused,
                     runs, slips>>
  BY DEF Bios!Take, Bios!store, Bios!loop, Bios!rest
<1>2. PICK x \in jobs :
        /\ jobs' = jobs \ {x}
        /\ busy' = IF quit THEN busy ELSE [busy EXCEPT ![w] = [artist |-> x, request |-> 1, attempt |-> 1]]
  BY DEF Bios!Take
<1> DEFINE task == [artist |-> x, request |-> 1, attempt |-> 1]
<1>3. BioTypes /\ BioApart /\ BioQuiet /\ BioCounted /\ BioUnwritten /\ BioRight
  BY DEF BioIInv
<1>4. x \in Described /\ task \in Tasks /\ task # None /\ task.artist = x
  <2>1. x \in Described
    BY <1>3 DEF BioTypes
  <2>. QED BY <2>1, BiosAssumption DEF Tasks
<1>5. PICK it \in {None, task} : busy' = [busy EXCEPT ![w] = it] /\ (~quit => it = task)
  <2>1. CASE quit
    BY <1>1, <1>2, <1>3, <2>1 DEF BioTypes
  <2>2. CASE ~quit
    BY <1>2, <2>2
  <2>. QED BY <2>1, <2>2
<1> HIDE DEF task
<1>6. /\ busy' \in [BioWorkers -> Tasks \cup {None}]
      /\ busy'[w] = it /\ \A v \in BioWorkers \ {w} : busy'[v] = busy[v]
      /\ Cardinality(AtWork) \in Nat
      /\ Cardinality(AtWork') = Cardinality(AtWork) + (IF it # None THEN 1 ELSE 0)
  <2>1. it \in Tasks \cup {None}
    BY <1>4, <1>5
  <2>2. /\ busy' \in [BioWorkers -> Tasks \cup {None}] /\ Cardinality(AtWork) \in Nat
        /\ busy'[w] = it /\ \A v \in BioWorkers \ {w} : busy'[v] = busy[v]
        /\ Cardinality(AtWork') = Cardinality(AtWork) - (IF busy[w] # None THEN 1 ELSE 0)
                                     + (IF it # None THEN 1 ELSE 0)
    BY <1>3, <1>5, <2>1, AtWorkUpdate
  <2>. QED BY <1>1, <2>2
<1>7. jobs' \subseteq jobs /\ x \in jobs /\ x \notin jobs' /\ (it # None => it.artist = x)
  BY <1>2, <1>4, <1>5
<1>8. BioTypes'
  BY <1>1, <1>3, <1>6, <1>7 DEF BioTypes
<1>9. BioApart'
  <2>1. ASSUME NEW u \in BioWorkers, NEW v \in BioWorkers, busy'[u] # None, busy'[v] # None,
               busy'[u].artist = busy'[v].artist
        PROVE  u = v
    BY <1>3, <1>6, <1>7, <2>1 DEF BioApart
  <2>2. ASSUME NEW v \in BioWorkers, busy'[v] # None
        PROVE  busy'[v].artist \notin jobs' /\ \A j \in DOMAIN found : busy'[v].artist # found[j].artist
    BY <1>3, <1>6, <1>7, <2>2 DEF BioApart
  <2>. QED BY <1>1, <1>3, <1>7, <2>1, <2>2 DEF BioApart
<1>10. BioQuiet'
  BY <1>1, <1>2, <1>3 DEF BioQuiet
<1>11. BioCounted'
  <2>1. Cardinality(jobs') = Cardinality(jobs) - 1
    BY <1>2, <1>3, BioCounts
  <2>2. ASSUME bio_main = "consume", ~quit
        PROVE  received + Len(found) + Cardinality(AtWork') + Cardinality(jobs') = Cardinality(asked_for)
    <3>1. received + Len(found) + Cardinality(AtWork) + Cardinality(jobs) = Cardinality(asked_for)
      BY <1>3, <2>2 DEF BioCounted
    <3>2. Cardinality(AtWork') = Cardinality(AtWork) + 1
      BY <1>4, <1>5, <1>6, <2>2
    <3>. QED BY <1>3, <2>1, <3>1, <3>2, BioCounts
  <2>. QED BY <1>1, <1>3, <2>2 DEF BioCounted
<1>12. BioUnwritten'
  <2>1. \A y : Pending(y)' => Pending(y)
    BY <1>1, <1>6, <1>7 DEF Pending
  <2>. QED BY <1>1, <1>3, <2>1, BioSameRows
<1>13. BioRight'
  BY <1>1, <1>3 DEF BioRight, Rightly
<1>. QED BY <1>1, <1>8, <1>9, <1>10, <1>11, <1>12, <1>13 DEF BioIInv

\* A request brings the next one or the result, and what has no biography has no article, was refused,
\* or the scan is cancelled.
LEMMA RequestIs ==
  ASSUME BioIInv, NEW w \in BioWorkers, Bios!Request(w)
  PROVE  /\ busy[w] # None /\ busy[w] \in Tasks
         /\ UNCHANGED <<article, rows, txn, jobs, bio_main, asked_for, received, streak, batch, quit, runs>>
         /\ UNCHANGED slips \/ Bios!Event
         /\ refused' \subseteq Described /\ refused \subseteq refused'
         /\ \/ \E it \in Tasks : /\ it.artist = busy[w].artist
                                 /\ busy' = [busy EXCEPT ![w] = it] /\ UNCHANGED found
            \/ \E result \in Results : /\ result.artist = busy[w].artist
                                       /\ busy' = [busy EXCEPT ![w] = None] /\ found' = Append(found, result)
                                       /\ ~result.bio /\ ~quit => result.artist \notin article
                                                                  \/ result.artist \in refused'
<1> DEFINE x == busy[w].artist
<1>1. BioTypes
  BY DEF BioIInv
<1>2. /\ busy[w] # None
      /\ UNCHANGED <<article, rows, txn, jobs, bio_main, asked_for, received, streak, batch, quit, runs>>
      /\ \/ quit /\ Bios!GiveUp(w) /\ UNCHANGED <<refused, slips>>
         \/ Bios!Answered(w) \/ Bios!Refused(w)
  BY DEF Bios!Request, Bios!store, Bios!loop
<1>3. /\ busy[w] \in Tasks /\ x \in Described /\ busy[w].request \in 1 .. 3 /\ busy[w].attempt \in 1 .. Attempts
  <2>1. busy[w] \in Tasks
    BY <1>1, <1>2 DEF BioTypes
  <2>. QED BY <2>1 DEF Tasks
<1>4. ASSUME NEW bio \in BOOLEAN, Bios!Give(w, bio)
      PROVE  \E result \in Results : /\ result.artist = x /\ result.bio = bio
                                     /\ busy' = [busy EXCEPT ![w] = None] /\ found' = Append(found, result)
  <2> DEFINE result == [artist |-> x, bio |-> bio, error |-> ~bio /\ busy[w].request = 1]
  <2>1. result \in Results /\ result.artist = x /\ result.bio = bio
    BY <1>3 DEF Results
  <2>2. busy' = [busy EXCEPT ![w] = None] /\ found' = Append(found, result)
    BY <1>4 DEF Bios!Give
  <2> HIDE DEF result
  <2>. QED BY <2>1, <2>2
<1>5. CASE quit /\ Bios!GiveUp(w) /\ UNCHANGED <<refused, slips>>
  <2>1. Bios!Give(w, FALSE)
    BY <1>5 DEF Bios!GiveUp
  <2>. QED BY <1>1, <1>2, <1>3, <1>4, <1>5, <2>1 DEF BioTypes
<1>6. CASE Bios!Answered(w)
  <2>1. UNCHANGED <<refused, slips>>
    BY <1>6 DEF Bios!Answered
  <2>2. CASE x \in article /\ busy[w].request = 3
    <3>1. Bios!Give(w, TRUE)
      BY <1>6, <2>2 DEF Bios!Answered
    <3>. QED BY <1>1, <1>2, <1>3, <1>4, <2>1, <3>1 DEF BioTypes
  <2>3. CASE x \in article /\ busy[w].request # 3
    <3> DEFINE it == [artist |-> x, request |-> busy[w].request + 1, attempt |-> 1]
    <3>1. it \in Tasks /\ it.artist = x
      BY <1>3, <2>3, BiosAssumption DEF Tasks
    <3>2. busy' = [busy EXCEPT ![w] = it] /\ UNCHANGED found
      BY <1>1, <1>3, <1>6, <2>3 DEF Bios!Answered, BioTypes, Tasks
    <3> HIDE DEF it
    <3>. QED BY <1>1, <1>2, <1>3, <2>1, <3>1, <3>2 DEF BioTypes
  <2>4. CASE x \notin article
    <3> DEFINE result == [artist |-> x, bio |-> FALSE, error |-> FALSE]
    <3>1. result \in Results /\ result.artist = x
      BY <1>3 DEF Results
    <3>2. busy' = [busy EXCEPT ![w] = None] /\ found' = Append(found, result)
      BY <1>6, <2>4 DEF Bios!Answered
    <3> HIDE DEF result
    <3>. QED BY <1>1, <1>2, <1>3, <2>1, <2>4, <3>1, <3>2 DEF BioTypes
  <2>. QED BY <2>2, <2>3, <2>4
<1>7. CASE Bios!Refused(w)
  <2>1. Bios!Event /\ refused' = refused \cup {x} /\ refused' \subseteq Described
    BY <1>1, <1>3, <1>7 DEF Bios!Refused, BioTypes
  <2>2. CASE busy[w].attempt < Attempts /\ busy' = [busy EXCEPT ![w].attempt = @ + 1] /\ UNCHANGED found
    <3> DEFINE it == [busy[w] EXCEPT !.attempt = busy[w].attempt + 1]
    <3>1. it \in Tasks /\ it.artist = x
      BY <1>3, <2>2, BiosAssumption DEF Tasks
    <3>2. busy' = [busy EXCEPT ![w] = it]
      BY <1>1, <2>2 DEF BioTypes
    <3> HIDE DEF it
    <3>. QED BY <1>2, <1>3, <2>1, <2>2, <3>1, <3>2
  <2>3. CASE Bios!GiveUp(w)
    <3>1. Bios!Give(w, FALSE)
      BY <2>3 DEF Bios!GiveUp
    <3>. QED BY <1>2, <1>3, <1>4, <2>1, <3>1
  <2>. QED BY <1>7, <2>2, <2>3 DEF Bios!Refused
<1>. QED BY <1>2, <1>5, <1>6, <1>7

LEMMA BioRequest ==
  ASSUME BioIInv, NEW w \in BioWorkers, Bios!Request(w)
  PROVE  BioIInv' /\ UNCHANGED rows
<1>1. /\ busy[w] # None /\ busy[w] \in Tasks
      /\ UNCHANGED <<article, rows, txn, jobs, bio_main, asked_for, received, streak, batch, quit, runs>>
      /\ slips' \in 0 .. MaxBioEvents /\ refused' \subseteq Described /\ refused \subseteq refused'
  BY RequestIs, BioEvent DEF BioIInv
<1>2. BioTypes /\ BioApart /\ BioQuiet /\ BioCounted /\ BioUnwritten /\ BioRight
  BY DEF BioIInv
<1>3. bio_main \notin {"idle", "close"}
  BY <1>1, <1>2 DEF BioQuiet
<1>4. CASE \E it \in Tasks : /\ it.artist = busy[w].artist
                             /\ busy' = [busy EXCEPT ![w] = it] /\ UNCHANGED found
  <2> PICK it \in Tasks : it.artist = busy[w].artist /\ busy' = [busy EXCEPT ![w] = it] /\ UNCHANGED found
    BY <1>4
  <2>0. it # None
    BY BiosAssumption DEF Tasks
  <2>1. /\ busy' \in [BioWorkers -> Tasks \cup {None}]
        /\ busy'[w] = it /\ \A v \in BioWorkers \ {w} : busy'[v] = busy[v]
        /\ Cardinality(AtWork') = Cardinality(AtWork)
    <3>1. it \in Tasks \cup {None}
      OBVIOUS
    <3>2. /\ busy' \in [BioWorkers -> Tasks \cup {None}] /\ Cardinality(AtWork) \in Nat
          /\ busy'[w] = it /\ \A v \in BioWorkers \ {w} : busy'[v] = busy[v]
          /\ Cardinality(AtWork') = Cardinality(AtWork) - (IF busy[w] # None THEN 1 ELSE 0)
                                     + (IF it # None THEN 1 ELSE 0)
      BY <1>2, <3>1, AtWorkUpdate
    <3>. QED BY <1>1, <2>0, <3>2
  <2>2. BioTypes'
    BY <1>1, <1>2, <2>1 DEF BioTypes
  <2>3. \A v \in BioWorkers : /\ busy'[v] # None <=> busy[v] # None
                              /\ busy'[v].artist = busy[v].artist
    BY <1>1, <2>0, <2>1
  <2>4. BioApart'
    BY <1>1, <1>2, <2>3 DEF BioApart
  <2>5. BioQuiet' /\ BioCounted'
    BY <1>1, <1>2, <1>3, <2>1 DEF BioQuiet, BioCounted
  <2>6. BioUnwritten'
    <3>1. \A x : Pending(x)' => Pending(x)
      BY <1>1, <2>3 DEF Pending
    <3>. QED BY <1>1, <1>2, <3>1, BioSameRows
  <2>7. BioRight'
    BY <1>1, <1>2 DEF BioRight, Rightly
  <2>. QED BY <1>1, <2>2, <2>4, <2>5, <2>6, <2>7 DEF BioIInv
<1>5. CASE \E result \in Results : /\ result.artist = busy[w].artist
                                   /\ busy' = [busy EXCEPT ![w] = None] /\ found' = Append(found, result)
                                   /\ ~result.bio /\ ~quit => result.artist \notin article
                                                              \/ result.artist \in refused'
  <2> PICK result \in Results : /\ result.artist = busy[w].artist
                                /\ busy' = [busy EXCEPT ![w] = None] /\ found' = Append(found, result)
                                /\ ~result.bio /\ ~quit => result.artist \notin article
                                                           \/ result.artist \in refused'
    BY <1>5
  <2> DEFINE n == Len(found)
  <2>1. /\ busy' \in [BioWorkers -> Tasks \cup {None}]
        /\ busy'[w] = None /\ \A v \in BioWorkers \ {w} : busy'[v] = busy[v]
        /\ Cardinality(AtWork) \in Nat /\ Cardinality(AtWork') = Cardinality(AtWork) - 1
    <3>1. None \in Tasks \cup {None}
      OBVIOUS
    <3>2. /\ busy' \in [BioWorkers -> Tasks \cup {None}] /\ Cardinality(AtWork) \in Nat
          /\ busy'[w] = None /\ \A v \in BioWorkers \ {w} : busy'[v] = busy[v]
          /\ Cardinality(AtWork') = Cardinality(AtWork) - (IF busy[w] # None THEN 1 ELSE 0)
                                     + (IF None # None THEN 1 ELSE 0)
      BY <1>2, <3>1, AtWorkUpdate
    <3>. QED BY <1>1, <3>2
  <2>2. /\ found' \in Seq(Results) /\ Len(found') = n + 1 /\ n \in Nat
        /\ DOMAIN found = 1 .. n /\ DOMAIN found' = 1 .. n + 1
        /\ found'[n + 1] = result /\ \A j \in 1 .. n : found'[j] = found[j]
    BY <1>2 DEF BioTypes
  <2> HIDE DEF n
  <2>3. BioTypes'
    BY <1>1, <1>2, <2>1, <2>2 DEF BioTypes
  <2>4. \A j \in 1 .. n + 1 : j \in 1 .. n \/ j = n + 1
    BY <2>2
  <2>5. \A j \in 1 .. n : found[j].artist # result.artist
    BY <1>1, <1>2, <2>2 DEF BioApart
  <2>6. BioApart'
    <3>1. ASSUME NEW u \in BioWorkers, NEW v \in BioWorkers, busy'[u] # None, busy'[v] # None,
                 busy'[u].artist = busy'[v].artist
          PROVE  u = v
      BY <1>2, <2>1, <3>1 DEF BioApart
    <3>2. ASSUME NEW v \in BioWorkers, busy'[v] # None
          PROVE  /\ busy'[v].artist \notin jobs' /\ busy'[v].artist # result.artist
                 /\ \A j \in 1 .. n : busy'[v].artist # found[j].artist
      BY <1>1, <1>2, <2>1, <2>2, <3>2 DEF BioApart
    <3>3. ASSUME NEW i \in 1 .. n + 1, NEW j \in 1 .. n + 1, found'[i].artist = found'[j].artist PROVE i = j
      BY <1>2, <2>2, <2>4, <2>5, <3>3 DEF BioApart
    <3>4. \A j \in 1 .. n + 1 : found'[j].artist \notin jobs'
      BY <1>1, <1>2, <2>2, <2>4 DEF BioApart
    <3>5. ASSUME NEW v \in BioWorkers, NEW j \in 1 .. n + 1, busy'[v] # None
          PROVE  busy'[v].artist # found'[j].artist
      BY <2>2, <2>4, <3>2, <3>5
    <3>. QED BY <2>2, <3>1, <3>2, <3>3, <3>4, <3>5 DEF BioApart
  <2>7. BioQuiet'
    BY <1>1, <1>3 DEF BioQuiet
  <2>8. BioCounted'
    <3>1. ASSUME bio_main = "consume", ~quit
          PROVE  received + Len(found') + Cardinality(AtWork') + Cardinality(jobs) = Cardinality(asked_for)
      <4>1. received + n + Cardinality(AtWork) + Cardinality(jobs) = Cardinality(asked_for)
        BY <1>2, <3>1 DEF BioCounted, n
      <4>2. received \in Nat /\ Cardinality(jobs) \in Nat /\ Cardinality(asked_for) \in Nat
        BY <1>2, BioCounts
      <4>. QED BY <2>1, <2>2, <4>1, <4>2
    <3>. QED BY <1>1, <1>2, <3>1 DEF BioCounted
  <2>9. BioUnwritten'
    <3>1. \A x : Pending(x)' => Pending(x)
      BY <1>1, <2>1, <2>2, <2>4 DEF Pending
    <3>. QED BY <1>1, <1>2, <3>1, BioSameRows
  <2>10. BioRight'
    <3>1. \A x : Rightly(x) => x \notin article' \/ x \in refused'
      BY <1>1 DEF Rightly
    <3>2. ASSUME ~quit', NEW j \in DOMAIN found', ~found'[j].bio
          PROVE  found'[j].artist \notin article' \/ found'[j].artist \in refused'
      <4>1. CASE j = n + 1
        BY <1>1, <2>2, <3>2, <4>1
      <4>2. CASE j \in 1 .. n
        <5>1. found'[j] = found[j] /\ ~found[j].bio /\ j \in DOMAIN found /\ ~quit
          BY <1>1, <2>2, <3>2, <4>2
        <5>2. Rightly(found[j].artist)
          BY <1>2, <5>1 DEF BioRight
        <5>. QED BY <3>1, <5>1, <5>2
      <4>. QED BY <2>2, <2>4, <3>2, <4>1, <4>2
    <3>3. /\ \A x \in Described : rows'[x] = "sentinel" => x \notin article' \/ x \in refused'
          /\ \A x \in Described : Bios!Contents(txn')[x] = "sentinel" => x \notin article' \/ x \in refused'
      BY <1>1, <1>2, <3>1 DEF BioRight
    <3>. QED BY <3>2, <3>3 DEF BioRight, Rightly
  <2>. QED BY <1>1, <2>3, <2>6, <2>7, <2>8, <2>9, <2>10 DEF BioIInv
<1>. QED BY <1>4, <1>5, RequestIs

RowsKept == \A x \in Described : rows[x] # None => rows'[x] = rows[x]

\* Results are dropped, if at all, and what the transaction holds is committed or lost.
LEMMA BioLeft ==
  ASSUME BioIInv, UNCHANGED <<article, jobs, busy, quit, refused>>,
         found' = found \/ (found # <<>> /\ found' = Tail(found)) \/ found' = <<>>,
         \A x \in Described : rows[x] # None => rows'[x] = rows[x],
         \A x \in Described : rows'[x] \in {rows[x], Bios!Contents(txn)[x]},
         \A x \in Described : Bios!Contents(txn')[x] = None
  PROVE  /\ BioApart' /\ BioUnwritten' /\ BioRight' /\ RowsKept
         /\ found' \in Seq(Results)
<1>1. BioTypes /\ BioApart /\ BioUnwritten /\ BioRight
  BY DEF BioIInv
<1>2. /\ BioApart' /\ found' \in Seq(Results) /\ \A x : Pending(x)' => Pending(x)
      /\ \A j \in DOMAIN found' : \E i \in DOMAIN found : found'[j] = found[i]
  <2>1. CASE found' = found
    BY <1>1, <2>1 DEF BioTypes, BioApart, Pending
  <2>2. CASE found # <<>> /\ found' = Tail(found)
    BY <1>1, <2>2, BioDrop
  <2>3. CASE found' = <<>>
    BY <1>1, <2>3 DEF BioApart, Pending
  <2>. QED BY <2>1, <2>2, <2>3
<1>3. BioUnwritten'
  <2>1. ASSUME NEW x \in Described, Pending(x)' PROVE rows'[x] = None
    BY <1>1, <1>2, <2>1 DEF BioUnwritten
  <2>. QED BY <2>1 DEF BioUnwritten
<1>4. BioRight'
  <2>1. \A x : Rightly(x)' = Rightly(x)
    BY DEF Rightly
  <2>2. ASSUME NEW x \in Described, rows'[x] = "sentinel" PROVE Rightly(x)
    BY <1>1, <2>2 DEF BioRight
  <2>3. \A x \in Described : Bios!Contents(txn')[x] # "sentinel"
    BY BiosAssumption DEF Bios!Found
  <2>4. ~quit => \A j \in DOMAIN found' : ~found'[j].bio => Rightly(found'[j].artist)
    BY <1>1, <1>2 DEF BioRight
  <2>. QED BY <2>1, <2>2, <2>3, <2>4 DEF BioRight, Rightly
<1>. QED BY <1>2, <1>3, <1>4 DEF RowsKept

LEMMA BioStopped ==
  ASSUME BioIInv, Bios!Stopped
  PROVE  BioIInv' /\ RowsKept
<1>1. /\ bio_main = "consume" /\ found' = (IF found = <<>> THEN found ELSE Tail(found))
      /\ bio_main' = "free" /\ batch' = 0
      /\ UNCHANGED <<article, jobs, busy, asked_for, received, streak, quit, refused, runs>>
      /\ \/ Bios!CommitAndBegin(rows, txn)
         \/ Bios!Event /\ rows' = Bios!Over(rows, Bios!Contents(txn)) /\ txn' = Bios!Nothing
  BY DEF Bios!Stopped, Bios!Leave
<1>2. BioTypes /\ BioQuiet /\ BioUnwritten
  BY DEF BioIInv
<1>3. /\ UNCHANGED slips \/ Bios!Event
      /\ rows' \in Rows /\ txn' \in Rows \cup {None}
      /\ \A x \in Described : rows[x] # None => rows'[x] = rows[x]
      /\ \A x \in Described : rows'[x] \in {rows[x], Bios!Contents(txn)[x]}
      /\ \A x \in Described : Bios!Contents(txn')[x] = None
  <2>1. rows \in Rows /\ txn \in Rows \cup {None} /\ \A x \in Described : Bios!Contents(txn)[x] # None => rows[x] = None
    BY <1>2 DEF BioTypes, BioUnwritten
  <2>2. CASE Bios!CommitAndBegin(rows, txn)
    BY <2>1, <2>2, CommitIs
  <2>3. CASE Bios!Event /\ rows' = Bios!Over(rows, Bios!Contents(txn)) /\ txn' = Bios!Nothing
    <3> DEFINE c == Bios!Contents(txn)
    <3>1. c \in Rows
      BY <2>1, ContentsIs
    <3> HIDE DEF c
    <3>2. Bios!Over(rows, c) \in Rows /\ \A x \in Described : Bios!Over(rows, c)[x] = IF c[x] = None THEN rows[x] ELSE c[x]
      BY <2>1, <3>1, OverIs
    <3>. QED BY <2>1, <2>3, <3>2, NothingIs DEF c
  <2>. QED BY <1>1, <2>2, <2>3
<1>4. found' = found \/ (found # <<>> /\ found' = Tail(found))
  BY <1>1
<1>5. BioApart' /\ BioUnwritten' /\ BioRight' /\ RowsKept /\ found' \in Seq(Results)
  BY <1>1, <1>3, <1>4, BioLeft
<1>6. BioTypes'
  <2>1. batch' \in 0 .. BatchSize /\ slips' \in 0 .. MaxBioEvents
    BY <1>1, <1>2, <1>3, BioEvent, BiosAssumption
  <2>. QED BY <1>1, <1>2, <1>3, <1>5, <2>1 DEF BioTypes
<1>7. BioQuiet' /\ BioCounted'
  BY <1>1 DEF BioQuiet, BioCounted
<1>. QED BY <1>5, <1>6, <1>7 DEF BioIInv

\* As long as results are received there is one to come for each artist that is counted.
LEMMA BioReceives ==
  ASSUME BioIInv, bio_main = "consume", ~quit, found # <<>>
  PROVE  /\ received + 1 \in 0 .. Cardinality(Described)
         /\ streak + 1 \in 0 .. ErrorLimit
<1>1. BioTypes /\ BioCounted
  BY DEF BioIInv
<1>2. /\ received + Len(found) + Cardinality(AtWork) + Cardinality(jobs) = Cardinality(asked_for)
      /\ streak < ErrorLimit
  BY <1>1 DEF BioCounted
<1>3. Len(found) >= 1 /\ streak \in Nat
  BY <1>1, FirstResult DEF BioTypes
<1>. QED BY <1>1, <1>2, <1>3, BioCounts, ArtAssumption

LEMMA BioAbort ==
  ASSUME BioIInv, Bios!Abort
  PROVE  BioIInv' /\ RowsKept
<1>1. /\ bio_main = "consume" /\ ~quit /\ found # <<>> /\ found' = Tail(found)
      /\ received' = received + 1 /\ streak' = streak + 1
      /\ bio_main' = "free" /\ batch' = 0 /\ Bios!CommitAndBegin(rows, txn)
      /\ UNCHANGED <<article, jobs, busy, asked_for, quit, refused, runs>>
  BY DEF Bios!Abort, Bios!Leave
<1>2. BioTypes /\ BioQuiet /\ BioUnwritten
  BY DEF BioIInv
<1>3. /\ UNCHANGED slips \/ Bios!Event
      /\ rows' \in Rows /\ txn' \in Rows \cup {None}
      /\ \A x \in Described : rows[x] # None => rows'[x] = rows[x]
      /\ \A x \in Described : rows'[x] \in {rows[x], Bios!Contents(txn)[x]}
      /\ \A x \in Described : Bios!Contents(txn')[x] = None
  <2>1. rows \in Rows /\ txn \in Rows \cup {None} /\ \A x \in Described : Bios!Contents(txn)[x] # None => rows[x] = None
    BY <1>2 DEF BioTypes, BioUnwritten
  <2>. QED BY <1>1, <2>1, CommitIs
<1>4. BioApart' /\ BioUnwritten' /\ BioRight' /\ RowsKept /\ found' \in Seq(Results)
  BY <1>1, <1>3, BioLeft
<1>5. BioTypes'
  <2>1. batch' \in 0 .. BatchSize /\ slips' \in 0 .. MaxBioEvents
    BY <1>1, <1>2, <1>3, BioEvent, BiosAssumption
  <2>2. received' \in 0 .. Cardinality(Described) /\ streak' \in 0 .. ErrorLimit
    BY <1>1, BioReceives
  <2>. QED BY <1>1, <1>2, <1>3, <1>4, <2>1, <2>2 DEF BioTypes
<1>6. BioQuiet' /\ BioCounted'
  BY <1>1 DEF BioQuiet, BioCounted
<1>. QED BY <1>4, <1>5, <1>6 DEF BioIInv

LEMMA BioConsume ==
  ASSUME BioIInv, Bios!Consume
  PROVE  BioIInv' /\ RowsKept
<1> DEFINE result == Head(found)  x == result.artist
           value == IF result.bio THEN "bio" ELSE "sentinel"
           after == Bios!Upserted(x, value)
<1>1. /\ bio_main = "consume" /\ ~quit /\ found # <<>> /\ ~Bios!TooMany(result) /\ found' = Tail(found)
      /\ received' = received + 1 /\ streak' = (IF result.error THEN streak + 1 ELSE 0)
      /\ UNCHANGED <<article, jobs, busy, bio_main, asked_for, quit, refused, runs>>
      /\ Bios!Written(result)
  BY DEF Bios!Consume
<1>2. BioTypes /\ BioApart /\ BioQuiet /\ BioCounted /\ BioUnwritten /\ BioRight
  BY DEF BioIInv
<1>3. /\ result \in Results /\ x \in Described /\ 1 \in DOMAIN found /\ result = found[1]
      /\ Len(found') = Len(found) - 1 /\ Len(found) \in Nat
  <2>1. result \in Results /\ 1 \in DOMAIN found /\ result = found[1]
        /\ Len(Tail(found)) = Len(found) - 1 /\ Len(found) \in Nat
    BY <1>1, <1>2, FirstResult
  <2>. QED BY <1>1, <2>1 DEF Results
<1>4. /\ rows[x] = None /\ value \in Bios!Found /\ (value = "sentinel" => Rightly(x))
      /\ \A y \in Described : Bios!Contents(txn)[y] # None => rows[y] = None
  BY <1>1, <1>2, <1>3 DEF Pending, BioUnwritten, BioRight, Bios!Found
<1>5. IF batch + 1 >= BatchSize
      THEN batch' = 0 /\ Bios!CommitAndBegin(after[1], after[2])
      ELSE batch' = batch + 1 /\ rows' = after[1] /\ txn' = after[2] /\ UNCHANGED slips
  BY <1>1 DEF Bios!Written
<1> DEFINE disk1 == after[1]  txn1 == after[2]
<1> HIDE DEF value, x
<1>6. /\ disk1 \in Rows /\ txn1 \in Rows \cup {None}
      /\ \A y \in Described : rows[y] # None => disk1[y] = rows[y]
      /\ \A y \in Described : disk1[y] = rows[y] \/ (y = x /\ disk1[y] = value)
      /\ \A y \in Described : \/ Bios!Contents(txn1)[y] \in {Bios!Contents(txn)[y], None}
                              \/ y = x /\ Bios!Contents(txn1)[y] = value
      /\ \A y \in Described : Bios!Contents(txn1)[y] # None => disk1[y] = None
  BY <1>2, <1>3, <1>4, UpsertedIs
<1> HIDE DEF disk1, txn1, after, result
<1>7. /\ UNCHANGED slips \/ Bios!Event
      /\ rows' \in Rows /\ txn' \in Rows \cup {None} /\ batch' \in 0 .. BatchSize
      /\ \A y \in Described : disk1[y] # None => rows'[y] = disk1[y]
      /\ \A y \in Described : rows'[y] \in {disk1[y], Bios!Contents(txn1)[y]}
      /\ \A y \in Described : Bios!Contents(txn')[y] \in {None, Bios!Contents(txn1)[y]}
      /\ \A y \in Described : Bios!Contents(txn')[y] # None => rows'[y] = None
  <2>1. batch \in 0 .. BatchSize
    BY <1>2 DEF BioTypes
  <2>2. CASE batch + 1 >= BatchSize
    <3>1. batch' = 0 /\ Bios!CommitAndBegin(disk1, txn1)
      BY <1>5, <2>2 DEF disk1, txn1
    <3>2. /\ UNCHANGED slips \/ Bios!Event
          /\ rows' \in Rows /\ txn' \in Rows \cup {None}
          /\ \A y \in Described : disk1[y] # None => rows'[y] = disk1[y]
          /\ \A y \in Described : rows'[y] \in {disk1[y], Bios!Contents(txn1)[y]}
          /\ \A y \in Described : Bios!Contents(txn')[y] = None
      BY <1>6, <3>1, CommitIs
    <3>. QED BY <3>1, <3>2, BiosAssumption
  <2>3. CASE ~(batch + 1 >= BatchSize)
    <3>1. batch' = batch + 1 /\ rows' = disk1 /\ txn' = txn1 /\ UNCHANGED slips
      BY <1>5, <2>3 DEF disk1, txn1
    <3>2. batch' \in 0 .. BatchSize
      BY <2>1, <2>3, <3>1, BiosAssumption
    <3>. QED BY <1>6, <3>1, <3>2
  <2>. QED BY <2>2, <2>3
<1>8. RowsKept
  BY <1>2, <1>6, <1>7 DEF RowsKept, BioTypes, Rows
<1>9. /\ BioApart' /\ found' \in Seq(Results)
      /\ \A y : Pending(y)' => Pending(y) /\ y # x
      /\ \A j \in DOMAIN found' : \E i \in DOMAIN found : found'[j] = found[i]
  <2>1. /\ BioApart' /\ found' \in Seq(Results)
        /\ \A y : Pending(y)' => Pending(y) /\ y # Head(found).artist
        /\ \A j \in DOMAIN found' : \E i \in DOMAIN found : found'[j] = found[i]
    BY <1>1, <1>2, BioDrop
  <2>. QED BY <2>1 DEF x, result
<1>10. BioTypes'
  <2>1. received' \in 0 .. Cardinality(Described) /\ streak + 1 \in 0 .. ErrorLimit /\ 0 \in 0 .. ErrorLimit
    BY <1>1, BioReceives, ArtAssumption
  <2>2. streak' \in 0 .. ErrorLimit /\ slips' \in 0 .. MaxBioEvents
    BY <1>1, <1>2, <1>7, <2>1, BioEvent
  <2>. QED BY <1>1, <1>2, <1>7, <1>9, <2>1, <2>2 DEF BioTypes
<1>11. BioQuiet'
  BY <1>1 DEF BioQuiet
<1>12. BioCounted'
  <2>1. streak' < ErrorLimit
    BY <1>1, <1>2, ArtAssumption DEF Bios!TooMany, BioTypes
  <2>2. received + Len(found) + Cardinality(AtWork) + Cardinality(jobs) = Cardinality(asked_for)
    BY <1>1, <1>2 DEF BioCounted
  <2>3. AtWork' = AtWork
    BY <1>1 DEF AtWork
  <2>4. received' + Len(found') + Cardinality(AtWork) + Cardinality(jobs) = Cardinality(asked_for)
    <3>1. received \in Nat /\ Cardinality(AtWork) \in Nat /\ Cardinality(jobs) \in Nat
          /\ Cardinality(asked_for) \in Nat
      BY <1>2, BioCounts
    <3>. QED BY <1>1, <1>3, <2>2, <3>1
  <2>. QED BY <1>1, <2>1, <2>3, <2>4 DEF BioCounted
<1>13. BioUnwritten'
  <2>1. ASSUME NEW y \in Described, Pending(y)' PROVE rows'[y] = None /\ Bios!Contents(txn')[y] = None
    <3>1. y # x /\ rows[y] = None /\ Bios!Contents(txn)[y] = None
      BY <1>2, <1>9, <2>1 DEF BioUnwritten
    <3>2. disk1[y] = None /\ Bios!Contents(txn1)[y] = None
      BY <1>6, <3>1
    <3>. QED BY <1>7, <3>2
  <2>. QED BY <1>7, <2>1 DEF BioUnwritten
<1>14. BioRight'
  <2>1. \A y : Rightly(y)' = Rightly(y)
    BY <1>1 DEF Rightly
  <2>2. ASSUME NEW y \in Described
        PROVE  /\ disk1[y] = "sentinel" => Rightly(y)
               /\ Bios!Contents(txn1)[y] = "sentinel" => Rightly(y)
    BY <1>2, <1>4, <1>6, BiosAssumption DEF BioRight, Bios!Found
  <2>3. \A y \in Described : /\ rows'[y] = "sentinel" => Rightly(y)
                             /\ Bios!Contents(txn')[y] = "sentinel" => Rightly(y)
    BY <1>7, <2>2, BiosAssumption DEF Bios!Found
  <2>4. ~quit => \A j \in DOMAIN found' : ~found'[j].bio => Rightly(found'[j].artist)
    BY <1>2, <1>9 DEF BioRight
  <2>. QED BY <1>1, <2>1, <2>3, <2>4 DEF BioRight, Rightly
<1>. QED BY <1>8, <1>9, <1>10, <1>11, <1>12, <1>13, <1>14 DEF BioIInv

LEMMA BioClose ==
  ASSUME BioIInv, Bios!Close
  PROVE  BioIInv' /\ RowsKept
<1>1. /\ bio_main = "close" /\ found' = <<>> /\ txn' = None /\ bio_main' = "idle"
      /\ \/ rows' = Bios!Over(rows, Bios!Contents(txn)) /\ UNCHANGED slips
         \/ Bios!Event /\ UNCHANGED rows
      /\ UNCHANGED <<article, jobs, busy, asked_for, received, streak, batch, quit, refused, runs>>
  BY DEF Bios!Close
<1>2. BioTypes /\ BioQuiet /\ BioUnwritten
  BY DEF BioIInv
<1>3. /\ rows' \in Rows
      /\ \A x \in Described : rows[x] # None => rows'[x] = rows[x]
      /\ \A x \in Described : rows'[x] \in {rows[x], Bios!Contents(txn)[x]}
      /\ \A x \in Described : Bios!Contents(txn')[x] = None
  <2> DEFINE c == Bios!Contents(txn)
  <2>1. rows \in Rows /\ c \in Rows /\ \A x \in Described : c[x] # None => rows[x] = None
    BY <1>2, ContentsIs DEF BioTypes, BioUnwritten
  <2>2. rows' = Bios!Over(rows, c) \/ rows' = rows
    BY <1>1
  <2>3. \A x \in Described : Bios!Contents(txn')[x] = None
    BY <1>1, NothingIs
  <2> HIDE DEF c
  <2>4. Bios!Over(rows, c) \in Rows /\ \A x \in Described : Bios!Over(rows, c)[x] = IF c[x] = None THEN rows[x] ELSE c[x]
    BY <2>1, OverIs
  <2>. QED BY <2>1, <2>2, <2>3, <2>4 DEF c
<1>4. BioApart' /\ BioUnwritten' /\ BioRight' /\ RowsKept /\ found' \in Seq(Results)
  BY <1>1, <1>3, BioLeft
<1>5. BioTypes'
  <2>1. slips' \in 0 .. MaxBioEvents
    BY <1>1, <1>2, BioEvent
  <2>. QED BY <1>1, <1>2, <1>3, <1>4, <2>1 DEF BioTypes
<1>6. BioQuiet' /\ BioCounted'
  BY <1>1, <1>2 DEF BioQuiet, BioCounted
<1>. QED BY <1>4, <1>5, <1>6 DEF BioIInv

LEMMA BioWorld ==
  ASSUME BioIInv, Bios!AllReceived \/ Bios!FreePool \/ Bios!Cancel \/ Bios!Kill \/ UNCHANGED bios
  PROVE  BioIInv' /\ RowsKept
<1>1. BioTypes /\ BioApart /\ BioQuiet /\ BioCounted /\ BioUnwritten /\ BioRight
  BY DEF BioIInv
<1>2. CASE Bios!AllReceived \/ Bios!FreePool
  <2>1. /\ bio_main \in {"consume", "free"} /\ jobs' \subseteq jobs
        /\ \/ bio_main' = "free"
           \/ bio_main' = "close" /\ jobs' = {} /\ \A w \in BioWorkers : busy[w] = None
        /\ UNCHANGED <<article, rows, txn, busy, found, asked_for, received, streak, batch, quit, refused,
                       runs, slips>>
    BY <1>2 DEF Bios!AllReceived, Bios!FreePool, Bios!store, Bios!pool, Bios!rest
  <2>2. BioTypes'
    BY <1>1, <2>1 DEF BioTypes
  <2>3. BioApart' /\ BioQuiet' /\ BioCounted' /\ BioRight'
    BY <1>1, <2>1 DEF BioApart, BioQuiet, BioCounted, BioRight, Rightly
  <2>4. BioUnwritten'
    <3>1. \A x : Pending(x)' => Pending(x)
      BY <2>1 DEF Pending
    <3>. QED BY <1>1, <2>1, <3>1, BioSameRows
  <2>. QED BY <2>1, <2>2, <2>3, <2>4 DEF BioIInv, RowsKept
<1>3. CASE Bios!Cancel
  <2>1. /\ quit' = TRUE /\ Bios!Event
        /\ UNCHANGED <<article, rows, txn, jobs, busy, found, bio_main, asked_for, received, streak, batch,
                       refused, runs>>
    BY <1>3 DEF Bios!Cancel, Bios!store, Bios!pool, Bios!loop
  <2>2. BioTypes'
    BY <1>1, <2>1, BioEvent DEF BioTypes
  <2>3. BioApart' /\ BioQuiet' /\ BioCounted' /\ BioRight'
    BY <1>1, <2>1 DEF BioApart, BioQuiet, BioCounted, BioRight, Rightly
  <2>4. BioUnwritten'
    BY <1>1, <2>1, BioSameRows DEF Pending
  <2>. QED BY <2>1, <2>2, <2>3, <2>4 DEF BioIInv, RowsKept
<1>4. CASE Bios!Kill
  <2>1. /\ Bios!Event /\ txn' = None /\ jobs' = {} /\ busy' = [w \in BioWorkers |-> None] /\ found' = <<>>
        /\ bio_main' = "idle"
        /\ UNCHANGED <<article, rows, asked_for, received, streak, batch, quit, refused, runs>>
    BY <1>4 DEF Bios!Kill
  <2>2. /\ \A x : ~Pending(x)' /\ DOMAIN found' = {}
        /\ \A x \in Described : Bios!Contents(txn')[x] = None
    BY <2>1, NothingIs DEF Pending
  <2>3. BioTypes'
    BY <1>1, <2>1, BioEvent DEF BioTypes
  <2>4. BioApart' /\ BioQuiet' /\ BioCounted'
    BY <2>1, <2>2 DEF BioApart, BioQuiet, BioCounted
  <2>5. BioUnwritten'
    BY <2>2 DEF BioUnwritten
  <2>6. BioRight'
    BY <1>1, <2>1, <2>2, BiosAssumption DEF BioRight, Rightly, Bios!Found
  <2>. QED BY <2>1, <2>3, <2>4, <2>5, <2>6 DEF BioIInv, RowsKept
<1>5. CASE UNCHANGED bios
  <2>1. /\ UNCHANGED <<article, rows, txn, jobs, busy, found, bio_main, asked_for, received>>
        /\ UNCHANGED <<streak, batch, quit, refused, runs, slips>>
    BY <1>5 DEF bios
  <2>2. BioTypes'
    BY <1>1, <2>1 DEF BioTypes
  <2>3. BioApart' /\ BioQuiet' /\ BioCounted' /\ BioRight'
    BY <1>1, <2>1 DEF BioApart, BioQuiet, BioCounted, AtWork, BioRight, Rightly
  <2>4. BioUnwritten'
    BY <1>1, <2>1, BioSameRows DEF Pending
  <2>. QED BY <2>1, <2>2, <2>3, <2>4 DEF BioIInv, RowsKept
<1>. QED BY <1>2, <1>3, <1>4, <1>5

LEMMA BioStep ==
  ASSUME BioIInv, Bios!Next \/ UNCHANGED bios
  PROVE  BioIInv' /\ RowsKept
<1>1. UNCHANGED rows => RowsKept
  BY DEF RowsKept
<1>. QED BY <1>1, BioBegin, BioTake, BioRequest, BioStopped, BioAbort, BioConsume, BioClose, BioWorld
   DEF Bios!Next, Bios!MainStep

LEMMA BioImplies ==
  ASSUME BioIInv
  PROVE  Bios!TypeOK /\ Bios!BiosSound
<1>1. BioTypes /\ BioApart /\ BioCounted /\ BioRight
  BY DEF BioIInv
<1>2. Bios!TypeOK
  BY <1>1, BioCardinality DEF BioTypes, Tasks, Results, Rows, Bios!TypeOK
<1>3. Cardinality(Bios!Asked) = Cardinality(AtWork)
  <2> DEFINE f == [w \in AtWork |-> busy[w].artist]
  <2>1. IsFiniteSet(AtWork)
    <3>1. AtWork \in SUBSET BioWorkers
      BY DEF AtWork
    <3>. QED BY <3>1, BiosAssumption, FS_Subset
  <2>2. f \in [AtWork -> Bios!Asked] /\ \A y \in Bios!Asked : \E w \in AtWork : f[w] = y
    BY DEF AtWork, Bios!Asked
  <2>3. \A v, w \in AtWork : f[v] = f[w] => v = w
    BY <1>1 DEF AtWork, BioApart
  <2> HIDE DEF f
  <2>. QED BY <2>1, <2>2, <2>3, SameSize
<1>4. Cardinality(Bios!InResults) = Len(found)
  <2> DEFINE n == Len(found)  f == [j \in 1 .. n |-> found[j].artist]
  <2>1. n \in Nat /\ DOMAIN found = 1 .. n
    BY <1>1 DEF BioTypes
  <2>2. IsFiniteSet(1 .. n) /\ Cardinality(1 .. n) = n
    <3>1. n \in Nat
      BY <2>1
    <3> HIDE DEF n
    <3>. QED BY <3>1, IntervalSize
  <2>3. f \in [1 .. n -> Bios!InResults] /\ \A y \in Bios!InResults : \E j \in 1 .. n : f[j] = y
    BY <2>1 DEF Bios!InResults
  <2>4. \A i, j \in 1 .. n : f[i] = f[j] => i = j
    BY <1>1, <2>1 DEF BioApart
  <2>5. Cardinality(Bios!InResults) = Cardinality(1 .. n)
    <3> HIDE DEF f, n
    <3>. QED BY ZenonT(60), <2>2, <2>3, <2>4, SameSize
  <2>. QED BY <2>2, <2>5
<1>5. jobs \cap Bios!Asked = {} /\ jobs \cap Bios!InResults = {} /\ Bios!Asked \cap Bios!InResults = {}
  BY <1>1 DEF BioApart, Bios!Asked, Bios!InResults
<1>6. Bios!WorkAccounted
  BY <1>1, <1>3, <1>4, <1>5, BioCardinality DEF BioCounted, Bios!WorkAccounted
<1>7. Bios!WrittenOffRightly
  BY <1>1 DEF BioRight, Rightly, Bios!WrittenOffRightly
<1>. QED BY <1>2, <1>6, <1>7 DEF Bios!BiosSound

-----------------------------------------------------------------------------
(* All parts *)

LEMMA PartsMove ==
  ASSUME [PartsNext]_<<part, pictures, art, bios, vars>>
  PROVE  /\ Pictures!Next \/ UNCHANGED pictures
         /\ Art!Next \/ UNCHANGED art
         /\ Bios!Next \/ UNCHANGED bios
         /\ [Next]_vars
BY DEF PartsNext, pictures, art, bios

EnrichmentIInv == AtlasIInv /\ ArtIInv /\ BioIInv /\ ManagerIInv

LEMMA EnrichmentStep ==
  ASSUME EnrichmentIInv, [PartsNext]_<<part, pictures, art, bios, vars>>
  PROVE  EnrichmentIInv'
BY PartsMove, AtlasStep, ArtStep, BioStep, ManagerStep DEF EnrichmentIInv

\* The atlas on screen is the one that was written and downloaded covers are used (artwork.c); one
\* library at a time merges into the shared atlas (artist_atlas.c); the fetch of biographies waits for as
\* many results as there will be, and no artist is written off wrongly (artist_bio.c).
THEOREM EnrichmentAlwaysSound == PartsSpec => []EnrichmentSound
<1>1. PartsInit => EnrichmentIInv
  BY AtlasInit, ArtInit, BioInit, ManagerInit DEF PartsInit, EnrichmentIInv
<1>2. EnrichmentIInv /\ [PartsNext]_<<part, pictures, art, bios, vars>> => EnrichmentIInv'
  BY EnrichmentStep
<1>3. EnrichmentIInv => EnrichmentSound
  BY AtlasImplies, ArtImplies, BioImplies, ManagerImplies DEF EnrichmentIInv, EnrichmentSound
<1>. QED BY <1>1, <1>2, <1>3, PTL DEF PartsSpec

\* No picture leaves an atlas and no row of a biography changes, whatever fails, is cancelled or killed
\* in whatever step.
THEOREM NothingIsEverLost == PartsSpec => NothingIsLost
<1>1. PartsInit => EnrichmentIInv
  BY AtlasInit, ArtInit, BioInit, ManagerInit DEF PartsInit, EnrichmentIInv
<1>2. EnrichmentIInv /\ [PartsNext]_<<part, pictures, art, bios, vars>> => EnrichmentIInv'
  BY EnrichmentStep
<1>3. ASSUME EnrichmentIInv, [PartsNext]_<<part, pictures, art, bios, vars>>
      PROVE  /\ [\A a \in Albums : Pictures!Found(file, a) # {} => Pictures!Found(file', a) # {}]_(Pictures!vars)
             /\ [atlas.art \subseteq atlas'.art]_(Art!vars)
             /\ [\A x \in Described : rows[x] # None => rows'[x] = rows[x]]_(Bios!vars)
  BY <1>3, PartsMove, AtlasKeeps, ArtKeeps, BioStep DEF EnrichmentIInv, RowsKept
<1>. QED BY <1>1, <1>2, <1>3, PTL DEF PartsSpec, NothingIsLost, Pictures!PicturesKept, Art!ArtistsKept,
   Bios!RowsStay
=============================================================================
