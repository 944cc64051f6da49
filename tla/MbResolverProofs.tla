-------------------------- MODULE MbResolverProofs --------------------------
(***************************************************************************)
(* What is proved of the MusicBrainz resolver and of its parts.  Of        *)
(* MbResolver, for any albums, workers, batch size and breaker: every      *)
(* album of a run is in one place and is written once or given up for a    *)
(* reason (AlbumsAccounted), and what is written for it is what was        *)
(* fetched for it (WrittenAsFetched).  Of the parts, for any answers,      *)
(* results and tracks: MatchesSound and RequestsSound of MCMusicBrainz.    *)
(*                                                                         *)
(* Order: how often something is in a sequence; the inductive invariant;   *)
(* what the pieces of a step do; the steps; the theorems; then the slot    *)
(* and the rate limiter, the choice among results, what a fold computes,   *)
(* the vote, the matching of tracks.                                       *)
(***************************************************************************)
EXTENDS MCMusicBrainz, FiniteSetTheorems, FunctionTheorems, SequenceTheorems, WellFoundedInduction, TLAPS

\* The numbers from 1 to n are n.
LEMMA IntervalSize ==
  ASSUME NEW n \in Nat
  PROVE  IsFiniteSet(1 .. n) /\ Cardinality(1 .. n) = n
<1>1. CASE n = 0
  <2>1. 1 .. n = {}
    BY <1>1
  <2>. QED BY <1>1, <2>1, FS_EmptySet
<1>2. CASE n # 0
  <2>1. 1 \in Int /\ n \in Int /\ ~(1 > n) /\ n - 1 + 1 = n
    BY <1>2
  <2>2. IsFiniteSet(1 .. n) /\ Cardinality(1 .. n) = IF 1 > n THEN 0 ELSE n - 1 + 1
    BY <2>1, FS_Interval
  <2>. QED BY <2>1, <2>2
<1>. QED BY <1>1, <1>2

-----------------------------------------------------------------------------
(* How often a member of X is in a sequence *)

Count(list, X) == Cardinality({j \in DOMAIN list : list[j] \in X})

LEMMA CountType ==
  ASSUME NEW S, NEW list \in Seq(S), NEW X
  PROVE  /\ IsFiniteSet({j \in DOMAIN list : list[j] \in X})
         /\ Count(list, X) \in Nat /\ Count(list, X) <= Len(list)
         /\ Count(list, X) = 0 <=> \A j \in DOMAIN list : list[j] \notin X
<1> DEFINE at == {j \in DOMAIN list : list[j] \in X}
<1>1. IsFiniteSet(1 .. Len(list)) /\ Cardinality(1 .. Len(list)) = Len(list) /\ Len(list) \in Nat
  <2>1. Len(list) \in Nat
    OBVIOUS
  <2>. QED BY <2>1, IntervalSize
<1>2. at \in SUBSET (1 .. Len(list))
  OBVIOUS
<1>3. IsFiniteSet(at) /\ Cardinality(at) <= Len(list) /\ Cardinality(at) \in Nat
  <2> HIDE DEF at
  <2>. QED BY <1>1, <1>2, FS_Subset, FS_CardinalityType
<1>4. Cardinality(at) = 0 <=> at = {}
  <2> HIDE DEF at
  <2>. QED BY <1>3, FS_EmptySet
<1>. QED BY <1>3, <1>4 DEF Count

\* Bijections keep the size of a finite set.
LEMMA SameSize ==
  ASSUME NEW S, NEW T, IsFiniteSet(S), NEW f, f \in [S -> T],
         \A x, y \in S : f[x] = f[y] => x = y, \A y \in T : \E x \in S : f[x] = y
  PROVE  IsFiniteSet(T) /\ Cardinality(T) = Cardinality(S)
<1>1. f \in Bijection(S, T)
  BY DEF Bijection, Injection, Surjection, IsInjective
<1>2. ExistsBijection(S, T)
  BY <1>1 DEF ExistsBijection
<1>. QED BY <1>2, FS_Bijection

LEMMA CountConcat ==
  ASSUME NEW S, NEW one \in Seq(S), NEW two \in Seq(S), NEW X
  PROVE  Count(one \o two, X) = Count(one, X) + Count(two, X)
<1> DEFINE n == Len(one)
           A == {j \in DOMAIN one : one[j] \in X}
           B == {j \in DOMAIN two : two[j] \in X}
           C == {j \in DOMAIN (one \o two) : (one \o two)[j] \in X}
           D == {j \in C : j > n}
           f == [j \in B |-> j + n]
<1>1. /\ DOMAIN one = 1 .. n /\ DOMAIN two = 1 .. Len(two) /\ n \in Nat /\ Len(two) \in Nat
      /\ DOMAIN (one \o two) = 1 .. n + Len(two)
      /\ \A j \in 1 .. n : (one \o two)[j] = one[j]
      /\ \A j \in 1 .. Len(two) : (one \o two)[j + n] = two[j]
  <2>1. /\ DOMAIN one = 1 .. n /\ DOMAIN two = 1 .. Len(two) /\ n \in Nat /\ Len(two) \in Nat
        /\ one \o two \in Seq(S) /\ Len(one \o two) = n + Len(two)
    BY ConcatProperties
  <2>2. \A i \in 1 .. n + Len(two) : (one \o two)[i] = IF i <= n THEN one[i] ELSE two[i - n]
    BY ConcatProperties
  <2>3. ASSUME NEW j \in 1 .. Len(two) PROVE (one \o two)[j + n] = two[j]
    <3>1. j + n \in 1 .. n + Len(two) /\ ~(j + n <= n) /\ j + n - n = j
      BY <2>1
    <3>. QED BY <2>2, <3>1
  <2>4. ASSUME NEW j \in 1 .. n PROVE (one \o two)[j] = one[j]
    <3>1. j \in 1 .. n + Len(two) /\ j <= n
      BY <2>1
    <3>. QED BY <2>2, <3>1
  <2>5. DOMAIN (one \o two) = 1 .. n + Len(two)
    BY <2>1
  <2>. QED BY <2>1, <2>3, <2>4, <2>5
<1>2. IsFiniteSet(A) /\ IsFiniteSet(B)
  BY CountType
<1>3. f \in [B -> D]
  <2>1. ASSUME NEW j \in B PROVE j + n \in D
    <3>1. j \in 1 .. Len(two) /\ j + n \in 1 .. n + Len(two) /\ j + n > n
      BY <1>1
    <3>. QED BY <1>1, <3>1
  <2>. QED BY <2>1
<1>4. \A x, y \in B : f[x] = f[y] => x = y
  BY <1>1
<1>5. ASSUME NEW y \in D PROVE \E x \in B : f[x] = y
  <2>1. y - n \in 1 .. Len(two) /\ y - n + n = y
    BY <1>1
  <2>2. (one \o two)[y - n + n] = two[y - n]
    BY <1>1, <2>1
  <2>3. y - n \in B
    BY <1>1, <2>1, <2>2
  <2>. QED BY <2>1, <2>3
<1>6. IsFiniteSet(D) /\ Cardinality(D) = Cardinality(B)
  <2> HIDE DEF B, D, f
  <2>. QED BY <1>2, <1>3, <1>4, <1>5, SameSize
<1>7. C = A \union D /\ A \intersect D = {}
  <2>1. ASSUME NEW j \in C, j <= n PROVE j \in A
    BY <1>1, <2>1
  <2>2. ASSUME NEW j \in A PROVE j \in C /\ j \notin D
    <3>1. j \in 1 .. n /\ j \in 1 .. n + Len(two) /\ ~(j > n)
      BY <1>1
    <3>. QED BY <1>1, <3>1
  <2>3. \A j \in C : j <= n \/ j > n
    BY <1>1
  <2>. QED BY <2>1, <2>2, <2>3
<1>8. Cardinality(C) = Cardinality(A) + Cardinality(B)
  <2> HIDE DEF A, B, C, D
  <2>1. Cardinality(A \union D) = Cardinality(A) + Cardinality(D) - Cardinality({})
    BY <1>2, <1>6, <1>7, FS_Union
  <2>2. Cardinality({}) = 0 /\ Cardinality(A) \in Nat /\ Cardinality(D) \in Nat
    BY <1>2, <1>6, FS_EmptySet, FS_CardinalityType
  <2>. QED BY <1>6, <1>7, <2>1, <2>2
<1>. QED BY <1>8 DEF Count

LEMMA CountSmall ==
  ASSUME NEW e, NEW X
  PROVE  Count(<<>>, X) = 0 /\ Count(<<e>>, X) = (IF e \in X THEN 1 ELSE 0)
<1>1. {j \in DOMAIN <<>> : <<>>[j] \in X} = {}
  OBVIOUS
<1>2. {j \in DOMAIN <<e>> : <<e>>[j] \in X} = (IF e \in X THEN {1} ELSE {})
  OBVIOUS
<1>. QED BY <1>1, <1>2, FS_EmptySet, FS_Singleton DEF Count

LEMMA CountAppend ==
  ASSUME NEW S, NEW list \in Seq(S), NEW e \in S, NEW X
  PROVE  Count(Append(list, e), X) = Count(list, X) + (IF e \in X THEN 1 ELSE 0)
<1>1. Append(list, e) = list \o <<e>> /\ <<e>> \in Seq(S)
  BY AppendIsConcat
<1>2. Count(list \o <<e>>, X) = Count(list, X) + Count(<<e>>, X)
  BY <1>1, CountConcat
<1>3. Count(<<e>>, X) = (IF e \in X THEN 1 ELSE 0)
  BY CountSmall
<1>. QED BY <1>1, <1>2, <1>3

LEMMA CountTail ==
  ASSUME NEW S, NEW list \in Seq(S), list # <<>>, NEW X
  PROVE  /\ Head(list) \in S /\ Tail(list) \in Seq(S)
         /\ Count(list, X) = (IF Head(list) \in X THEN 1 ELSE 0) + Count(Tail(list), X)
<1>1. /\ Head(list) \in S /\ Tail(list) \in Seq(S) /\ <<Head(list)>> \in Seq(S)
      /\ list = <<Head(list)>> \o Tail(list)
  <2>1. Len(list) \in Nat \ {0} /\ Head(list) = list[1]
    OBVIOUS
  <2>2. 1 \in 1 .. Len(list) /\ Len(list) \in 1 .. Len(list)
    BY <2>1
  <2>3. SubSeq(list, 1, Len(list)) = <<list[1]>> \o SubSeq(list, 1 + 1, Len(list))
    BY <2>2, SubSeqRecursiveFirst
  <2>4. SubSeq(list, 1, Len(list)) = list /\ Tail(list) = SubSeq(list, 2, Len(list))
    BY SubSeqFull, TailIsSubSeq
  <2>5. Head(list) \in S /\ Tail(list) \in Seq(S)
    BY HeadTailProperties
  <2>. QED BY <2>1, <2>3, <2>4, <2>5
<1>2. Count(<<Head(list)>> \o Tail(list), X) = Count(<<Head(list)>>, X) + Count(Tail(list), X)
  BY <1>1, CountConcat
<1>3. Count(<<Head(list)>>, X) = (IF Head(list) \in X THEN 1 ELSE 0)
  BY CountSmall
<1>. QED BY <1>1, <1>2, <1>3

LEMMA CountSplit ==
  ASSUME NEW S, NEW list \in Seq(S), NEW n \in 0 .. Len(list), NEW X
  PROVE  LET one == SubSeq(list, 1, n)  two == SubSeq(list, n + 1, Len(list)) IN
         /\ one \in Seq(S) /\ two \in Seq(S) /\ Len(one) = n
         /\ Count(list, X) = Count(one, X) + Count(two, X)
         /\ \A j \in 1 .. n : one[j] = list[j]
<1> DEFINE one == SubSeq(list, 1, n)  two == SubSeq(list, n + 1, Len(list))
<1>1. Len(list) \in Nat /\ n \in Nat /\ \A j \in 1 .. Len(list) : list[j] \in S
  OBVIOUS
<1>2. one \in Seq(S) /\ Len(one) = n /\ \A j \in 1 .. n : one[j] = list[j]
  <2>1. \A i \in 1 .. n : list[i] \in S
    BY <1>1
  <2>2. /\ one \in Seq(S) /\ Len(one) = (IF 1 <= n THEN n - 1 + 1 ELSE 0)
        /\ \A i \in 1 .. n - 1 + 1 : one[i] = list[1 + i - 1]
    <3> HIDE DEF one
    <3>. QED BY <1>1, <2>1, SubSeqProperties DEF one
  <2>3. \A i \in 1 .. n : 1 + i - 1 = i /\ i \in 1 .. n - 1 + 1
    BY <1>1
  <2>. HIDE DEF one
  <2>. QED BY <1>1, <2>2, <2>3
<1>3. two \in Seq(S)
  <2>1. \A i \in n + 1 .. Len(list) : list[i] \in S
    BY <1>1
  <2>2. n + 1 \in Int
    BY <1>1
  <2>. QED BY <1>1, <2>1, <2>2, SubSeqProperties
<1>4. list = one \o two
  <2>1. 1 \in 1 .. Len(list) + 1 /\ n \in 1 - 1 .. Len(list) /\ Len(list) \in n .. Len(list)
    BY <1>1
  <2>2. SubSeq(list, 1, n) \o SubSeq(list, n + 1, Len(list)) = SubSeq(list, 1, Len(list))
    BY <2>1, ConcatAdjacentSubSeq
  <2>. QED BY <2>2, SubSeqFull
<1>. HIDE DEF one, two
<1>5. Count(list, X) = Count(one, X) + Count(two, X)
  BY <1>2, <1>3, <1>4, CountConcat
<1>. QED BY <1>2, <1>3, <1>5 DEF one, two

LEMMA CountOnce ==
  ASSUME NEW S, NEW list \in Seq(S), NEW X, Count(list, X) <= 1,
         NEW i \in DOMAIN list, NEW j \in DOMAIN list, list[i] \in X, list[j] \in X
  PROVE  i = j /\ Count(list, X) = 1
<1> DEFINE at == {k \in DOMAIN list : list[k] \in X}
<1>1. IsFiniteSet(at) /\ Cardinality(at) \in Nat /\ Cardinality(at) <= 1
  BY CountType DEF Count
<1>2. i \in at /\ j \in at
  OBVIOUS
<1>3. Cardinality(at) = 1
  <2> HIDE DEF at
  <2>. QED BY <1>1, <1>2, FS_EmptySet
<1>4. PICK x : at = {x}
  <2> HIDE DEF at
  <2>. QED BY <1>1, <1>3, FS_Singleton
<1>. QED BY <1>2, <1>3, <1>4 DEF Count

\* Positions up to a chosen one number the chosen ones in their order.
LEMMA Ranks ==
  ASSUME NEW n \in Nat, NEW found, found \subseteq 1 .. n
  PROVE  LET rank == [j \in found |-> Cardinality({i \in found : i <= j})]
             size == Cardinality(found)
         IN  /\ IsFiniteSet(found) /\ size \in 0 .. n
             /\ rank \in [found -> 1 .. size]
             /\ \A x, y \in found : rank[x] = rank[y] => x = y
             /\ \A k \in 1 .. size : \E j \in found : rank[j] = k
<1> DEFINE upto(j) == {i \in found : i <= j}
           size == Cardinality(found)
           rank == [j \in found |-> Cardinality(upto(j))]
<1>1. IsFiniteSet(found) /\ size \in 0 .. n
  <2>1. n \in Nat
    OBVIOUS
  <2>2. IsFiniteSet(1 .. n) /\ Cardinality(1 .. n) = n
    BY <2>1, IntervalSize
  <2>3. IsFiniteSet(found) /\ size <= n /\ size \in Nat
    BY <2>2, FS_Subset, FS_CardinalityType
  <2> HIDE DEF size
  <2>. QED BY <2>3
<1>2. ASSUME NEW j \in found
      PROVE  upto(j) \in SUBSET found /\ IsFiniteSet(upto(j)) /\ Cardinality(upto(j)) \in 1 .. size
  <2>1. upto(j) \in SUBSET found /\ j \in upto(j)
    OBVIOUS
  <2> HIDE DEF upto
  <2>2. IsFiniteSet(upto(j)) /\ Cardinality(upto(j)) <= size /\ Cardinality(upto(j)) \in Nat
    BY <1>1, <2>1, FS_Subset, FS_CardinalityType
  <2>3. Cardinality(upto(j)) # 0
    BY <2>1, <2>2, FS_EmptySet
  <2>. QED BY <1>1, <2>1, <2>2, <2>3
<1>3. ASSUME NEW x \in found, NEW y \in found, x < y
      PROVE  Cardinality(upto(x)) # Cardinality(upto(y))
  <2>0. x \in Int /\ y \in Int /\ found \subseteq Int
    OBVIOUS
  <2>1. upto(x) \in SUBSET upto(y) /\ y \in upto(y) /\ y \notin upto(x)
    <3>1. \A i \in Int : i <= x => i <= y
      BY <1>3, <2>0
    <3>2. ~(y <= x) /\ y <= y
      BY <1>3, <2>0
    <3>. QED BY <2>0, <3>1, <3>2
  <2> HIDE DEF upto
  <2>. QED BY <1>2, <2>1, FS_Subset
<1>4. ASSUME NEW x \in found, NEW y \in found, rank[x] = rank[y] PROVE x = y
  <2>1. x < y \/ y < x \/ x = y
    OBVIOUS
  <2>2. Cardinality(upto(x)) = Cardinality(upto(y))
    BY <1>4
  <2> HIDE DEF upto, rank
  <2>. QED BY <1>3, <2>1, <2>2
<1>5. rank \in [found -> 1 .. size]
  <2> HIDE DEF upto
  <2>. QED BY <1>2
<1>6. IsFiniteSet(1 .. size) /\ Cardinality(1 .. size) = size
  <2>1. size \in Nat
    BY <1>1
  <2> HIDE DEF size
  <2>. QED BY <2>1, IntervalSize
<1>7. \A k \in 1 .. size : \E j \in found : rank[j] = k
  <2>1. rank \in Injection(found, 1 .. size)
    <3> HIDE DEF rank
    <3>. QED BY <1>4, <1>5 DEF Injection, IsInjective
  <2>2. rank \in Surjection(found, 1 .. size)
    <3> HIDE DEF rank, size
    <3>. QED BY <1>1, <1>6, <2>1, FS_Injection DEF size
  <2> HIDE DEF rank, size
  <2>. QED BY <2>2 DEF Surjection
<1>. QED BY <1>1, <1>4, <1>5, <1>7

LEMMA CountFilter ==
  ASSUME NEW batch \in Seq(Items), NEW X
  PROVE  /\ WithRelease(batch) \in Seq(Found) /\ Len(WithRelease(batch)) <= Len(batch)
         /\ Count(WithRelease(batch), X) = Count(batch, {it \in X : it.release # None})
         /\ \A j \in DOMAIN WithRelease(batch) : \E k \in DOMAIN batch : WithRelease(batch)[j] = batch[k]
<1> DEFINE found == {j \in DOMAIN batch : batch[j].release # None}
           size == Cardinality(found)
           rank == [j \in found |-> Cardinality({i \in found : i <= j})]
           at(k) == CHOOSE j \in found : Cardinality({i \in found : i <= j}) = k
           list == WithRelease(batch)
           A == {k \in DOMAIN list : list[k] \in X}
           B == {j \in DOMAIN batch : batch[j] \in {it \in X : it.release # None}}
           f == [j \in B |-> rank[j]]
<1>1. Len(batch) \in Nat /\ DOMAIN batch = 1 .. Len(batch)
  OBVIOUS
<1>2. /\ IsFiniteSet(found) /\ size \in 0 .. Len(batch)
      /\ rank \in [found -> 1 .. size]
      /\ \A x, y \in found : rank[x] = rank[y] => x = y
      /\ \A k \in 1 .. size : \E j \in found : rank[j] = k
  <2>1. found \subseteq 1 .. Len(batch)
    OBVIOUS
  <2> HIDE DEF found
  <2>. QED BY <1>1, <2>1, Ranks
<1>3. \A j \in found : rank[j] = Cardinality({i \in found : i <= j})
  OBVIOUS
<1>4. list = [k \in 1 .. size |-> batch[at(k)]]
  BY DEF WithRelease
<1>5. ASSUME NEW k \in 1 .. size PROVE at(k) \in found /\ rank[at(k)] = k
  <2>1. \E j \in found : Cardinality({i \in found : i <= j}) = k
    BY <1>2, <1>3
  <2>2. at(k) \in found /\ Cardinality({i \in found : i <= at(k)}) = k
    <3> HIDE DEF found
    <3>. QED BY <2>1
  <2> HIDE DEF found, rank
  <2>. QED BY <1>3, <2>2
<1>6. \A j \in found : j \in DOMAIN batch /\ batch[j] \in Found
  BY DEF Found
<1> HIDE DEF rank, at
<1>7. list \in Seq(Found) /\ Len(list) = size /\ DOMAIN list = 1 .. size
      /\ \A k \in 1 .. size : list[k] = batch[at(k)]
  <2> HIDE DEF found, size, list
  <2>1. list \in [1 .. size -> Found]
    BY <1>4, <1>5, <1>6
  <2>. QED BY <1>2, <1>4, <2>1
<1>8. IsFiniteSet(B)
  BY CountType
<1>9. f \in [B -> A]
  <2>1. ASSUME NEW j \in B PROVE rank[j] \in A
    <3>1. j \in found /\ rank[j] \in 1 .. size /\ batch[j] \in X
      BY <1>2
    <3>2. at(rank[j]) = j
      <4> HIDE DEF found, size
      <4>. QED BY <1>2, <1>5, <3>1
    <3> HIDE DEF list, size, found
    <3>. QED BY <1>7, <3>1, <3>2
  <2> HIDE DEF A, B
  <2>. QED BY <2>1
<1>10. \A x, y \in B : f[x] = f[y] => x = y
  BY <1>2
<1>11. ASSUME NEW k \in A PROVE \E j \in B : f[j] = k
  <2>1. k \in 1 .. size /\ list[k] = batch[at(k)] /\ list[k] \in X
    <3> HIDE DEF list, size
    <3>. QED BY <1>7
  <2>2. at(k) \in found /\ rank[at(k)] = k
    <3> HIDE DEF found, size
    <3>. QED BY <1>5, <2>1
  <2>3. at(k) \in B
    BY <2>1, <2>2
  <2>. QED BY <2>2, <2>3
<1>12. Cardinality(A) = Cardinality(B)
  <2> HIDE DEF A, B, f
  <2>. QED BY <1>8, <1>9, <1>10, <1>11, SameSize
<1>13. \A j \in DOMAIN list : \E k \in DOMAIN batch : list[j] = batch[k]
  <2> HIDE DEF list, size
  <2>. QED BY <1>5, <1>6, <1>7
<1>14. Len(list) <= Len(batch)
  <2> HIDE DEF list, size
  <2>. QED BY <1>2, <1>7
<1>. QED BY <1>7, <1>12, <1>13, <1>14 DEF Count

\* A set as a sequence has every member once.
LEMMA CountSet ==
  ASSUME NEW S, IsFiniteSet(S)
  PROVE  LET list == SetToSeq(S) IN
         /\ list \in Seq(S) /\ Len(list) = Cardinality(S)
         /\ \A x \in S : \E j \in DOMAIN list : list[j] = x
         /\ \A x : Count(list, {x}) = (IF x \in S THEN 1 ELSE 0)
<1> DEFINE list == SetToSeq(S)  n == Cardinality(S)
<1>1. n \in Nat /\ \E g : g \in [1 .. n -> S] /\ IsInjective(g) /\ g \in Surjection(1 .. n, S)
  <2>1. n \in Nat /\ ExistsBijection(1 .. n, S)
    BY FS_CardinalityType
  <2>2. PICK g : g \in Bijection(1 .. n, S)
    BY <2>1 DEF ExistsBijection
  <2>. QED BY <2>1, <2>2 DEF Bijection, Injection, Surjection, IsInjective
<1>2. list \in [1 .. n -> S] /\ IsInjective(list)
  <2> HIDE DEF n
  <2>. QED BY <1>1 DEF SetToSeq, n
<1>3. list \in Surjection(1 .. n, S)
  <2>1. list \in Injection(1 .. n, S)
    BY <1>2 DEF Injection, IsInjective
  <2>2. Cardinality(1 .. n) = n
    <3>1. n \in Nat
      BY <1>1
    <3> HIDE DEF n
    <3>. QED BY <3>1, IntervalSize
  <2> HIDE DEF list
  <2>. QED BY <2>1, <2>2, FS_Injection
<1> HIDE DEF list, n
<1>4. list \in Seq(S) /\ Len(list) = n /\ DOMAIN list = 1 .. n
  BY <1>1, <1>2
<1>5. \A x \in S : \E j \in DOMAIN list : list[j] = x
  BY <1>3, <1>4 DEF Surjection
<1>6. ASSUME NEW x PROVE Count(list, {x}) = (IF x \in S THEN 1 ELSE 0)
  <2> DEFINE at == {j \in DOMAIN list : list[j] \in {x}}
  <2>1. CASE x \notin S
    <3>1. at = {}
      BY <1>2, <2>1
    <3>. QED BY <2>1, <3>1, FS_EmptySet DEF Count
  <2>2. CASE x \in S
    <3>1. PICK j \in DOMAIN list : list[j] = x
      BY <1>5, <2>2
    <3>2. at = {j}
      BY <1>2, <3>1 DEF IsInjective
    <3>. QED BY <2>2, <3>2, FS_Singleton DEF Count
  <2>. QED BY <2>1, <2>2
<1>. QED BY <1>4, <1>5, <1>6 DEF list, n

-----------------------------------------------------------------------------
(* The inductive invariant *)

\* Which lists are empty at which place of the resolver thread.
NoPrefetchAt ==
    \/ pc \in {"idle", "inline", "fetch", "free", "rest"}
    \/ pc = "write" /\ (writing.next # "loop" \/ failures >= Breaker)
    \/ ~prefetches

PoolDoneAt == pc \in {"idle", "rest"} \/ (pc = "write" /\ writing.next = "rest")

Placed ==
    /\ pc \notin {"join", "fetch"} => hand = <<>> /\ taken = 0
    /\ pc # "write" => writing = NoWriting
    /\ NoPrefetchAt \/ pf.state = "none" => pf = NoPrefetch
    /\ pc \in {"join", "last_join"} => pf.state # "none"
    /\ pc = "fetch" => ~prefetches
    /\ PoolDoneAt => todo = <<>> /\ \A w \in Workers : worker[w] = None
    /\ pc = "idle" => queue = <<>>
    /\ pc = "inline" => inline
    /\ inline => \A w \in Workers : worker[w] = None
    /\ failures >= Breaker => pc \in {"write", "free", "rest", "idle"}

\* Not yet triaged.
AtPool(a) == Count(todo, {a})
AtWorker(a) == Cardinality({w \in Workers : worker[w] = a})
Untriaged == {a \in Albums : AtPool(a) + AtWorker(a) + Times(queue, a) >= 1}

\* total_processed never passes album_count.
Processed == total + taken + Cardinality(Untriaged) <= count

\* fetched says of each list what its table says.
Gathered ==
    /\ \A a \in Albums : db[a].release \in {None, ReleaseOf[a]}
    /\ \A a \in fetched :
        \/ a \in AlbumsOf(writing.list) \/ a \in settled \/ lost[a] # None
        \/ pf.state = "done" /\ a \in AlbumsOf(pf.list)
    /\ \A j \in DOMAIN writing.list :
        writing.list[j].album \in fetched <=> writing.list[j].release \in writing.got
    /\ pf.state = "done" =>
        \A j \in DOMAIN pf.list : pf.list[j].album \in fetched <=> pf.list[j].release \in pf.got

IInv == TypeOK /\ Placed /\ AlbumsAccounted /\ Processed /\ Gathered /\ WrittenAsFetched

-----------------------------------------------------------------------------
(* The pieces of the account of an album *)

\* The items of one album.
Of(a) == {it \in Items : it.album = a}

LEMMA FoundAreItems ==
  ASSUME NEW list \in Seq(Found)
  PROVE  list \in Seq(Items)
<1>1. Found \subseteq Items
  BY DEF Found
<1>. QED BY <1>1, SeqMonotonic

LEMMA TimesCount ==
  ASSUME NEW list \in Seq(Items), NEW a
  PROVE  Times(list, a) = Count(list, Of(a))
<1>1. {j \in DOMAIN list : list[j].album = a} = {j \in DOMAIN list : list[j] \in Of(a)}
  BY DEF Of
<1>. QED BY <1>1 DEF Times, Count

LEMMA TimesFacts ==
  ASSUME NEW list \in Seq(Items), NEW a
  PROVE  /\ Times(list, a) \in Nat
         /\ Times(list, a) = 0 <=> a \notin AlbumsOf(list)
         /\ Times(list, a) <= 1 =>
              \A i, j \in DOMAIN list : list[i].album = a /\ list[j].album = a => i = j
<1>1. Times(list, a) = Count(list, Of(a))
  BY TimesCount
<1>2. Count(list, Of(a)) \in Nat /\ (Count(list, Of(a)) = 0 <=> \A j \in DOMAIN list : list[j] \notin Of(a))
  BY CountType
<1>3. \A j \in DOMAIN list : list[j] \in Of(a) <=> list[j].album = a
  BY DEF Of
<1>4. ASSUME Times(list, a) <= 1, NEW i \in DOMAIN list, NEW j \in DOMAIN list,
             list[i].album = a, list[j].album = a
      PROVE  i = j
  <2>1. list[i] \in Of(a) /\ list[j] \in Of(a)
    BY <1>3, <1>4
  <2>. QED BY <1>1, <1>4, <2>1, CountOnce
<1>5. a \notin AlbumsOf(list) <=> \A j \in DOMAIN list : list[j].album # a
  BY DEF AlbumsOf
<1>6. Times(list, a) = 0 <=> a \notin AlbumsOf(list)
  BY <1>1, <1>2, <1>3, <1>5
<1>. QED BY <1>1, <1>2, <1>4, <1>6

LEMMA NothingTwice ==
  ASSUME NEW a
  PROVE  Times(<<>>, a) = 0 /\ AlbumsOf(<<>>) = {} /\ <<>> \in Seq(Found) /\ <<>> \in Seq(Items)
         /\ <<>> \in Seq(Albums)
<1>1. {j \in DOMAIN <<>> : <<>>[j].album = a} = {}
  OBVIOUS
<1>2. AlbumsOf(<<>>) = {}
  BY DEF AlbumsOf
<1>. QED BY <1>1, <1>2, FS_EmptySet DEF Times

LEMMA TimesAppend ==
  ASSUME NEW list \in Seq(Items), NEW it \in Items, NEW a
  PROVE  /\ Append(list, it) \in Seq(Items)
         /\ Times(Append(list, it), a) = Times(list, a) + (IF it.album = a THEN 1 ELSE 0)
<1>1. Append(list, it) \in Seq(Items)
  OBVIOUS
<1>2. it \in Of(a) <=> it.album = a
  BY DEF Of
<1>3. Count(Append(list, it), Of(a)) = Count(list, Of(a)) + (IF it \in Of(a) THEN 1 ELSE 0)
  BY CountAppend
<1>. QED BY <1>1, <1>2, <1>3, TimesCount

\* The batch is the front of the queue and not empty if the queue is not.
LEMMA BatchFacts ==
  ASSUME queue \in Seq(Items)
  PROVE  /\ BatchOf \in Seq(Items) /\ QueueAfter \in Seq(Items)
         /\ Len(BatchOf) \in Nat
         /\ \A a : Times(queue, a) = Times(BatchOf, a) + Times(QueueAfter, a)
<1> DEFINE n == Min({BatchSize, Len(queue)})
<1>1. BatchSize \in Nat \ {0} /\ Len(queue) \in Nat
  BY BoundsAssumption
<1>2. n \in 0 .. Len(queue)
  <2>1. \E x \in {BatchSize, Len(queue)} : \A y \in {BatchSize, Len(queue)} : x <= y
    BY <1>1
  <2>2. n \in {BatchSize, Len(queue)} /\ \A y \in {BatchSize, Len(queue)} : n <= y
    BY <2>1 DEF Min
  <2>. QED BY <1>1, <2>2
<1> HIDE DEF n
<1>3. BatchOf = SubSeq(queue, 1, n)
  BY DEF BatchOf, n
<1>4. BatchOf \in Seq(Items) /\ Len(BatchOf) = n
  BY <1>2, <1>3, CountSplit
<1>5. QueueAfter = SubSeq(queue, n + 1, Len(queue))
  BY <1>4 DEF QueueAfter
<1>6. QueueAfter \in Seq(Items)
  BY <1>2, <1>5, CountSplit
<1>7. ASSUME NEW a PROVE Times(queue, a) = Times(BatchOf, a) + Times(QueueAfter, a)
  <2>1. Count(queue, Of(a)) = Count(BatchOf, Of(a)) + Count(QueueAfter, Of(a))
    BY <1>2, <1>3, <1>5, CountSplit
  <2>. QED BY <1>4, <1>6, <2>1, TimesCount
<1>. QED BY <1>2, <1>4, <1>6, <1>7

\* Triage parts a batch: what has no release is done with, the rest is to be fetched.
Unmatched(batch) == {it \in ToSet(batch) : it.release = None}
AlbumsUnmatched(batch) == {it.album : it \in Unmatched(batch)}

LEMMA TriageFacts ==
  ASSUME NEW batch \in Seq(Items)
  PROVE  /\ WithRelease(batch) \in Seq(Found)
         /\ AlbumsOf(WithRelease(batch)) \subseteq AlbumsOf(batch)
         /\ AlbumsUnmatched(batch) \subseteq AlbumsOf(batch)
         /\ \A a : Times(batch, a) <= 1 =>
              Times(batch, a) = Times(WithRelease(batch), a)
                                + (IF a \in AlbumsUnmatched(batch) THEN 1 ELSE 0)
<1>1. /\ WithRelease(batch) \in Seq(Found)
      /\ \A j \in DOMAIN WithRelease(batch) : \E k \in DOMAIN batch : WithRelease(batch)[j] = batch[k]
  BY CountFilter
<1>2. AlbumsOf(WithRelease(batch)) \subseteq AlbumsOf(batch)
  BY <1>1 DEF AlbumsOf
<1>3. AlbumsUnmatched(batch) = {batch[k].album : k \in {j \in DOMAIN batch : batch[j].release = None}}
  BY DEF AlbumsUnmatched, Unmatched, ToSet
<1>4. AlbumsUnmatched(batch) \subseteq AlbumsOf(batch)
  BY <1>3 DEF AlbumsOf
<1>5. ASSUME NEW a, Times(batch, a) <= 1
      PROVE  Times(batch, a) = Times(WithRelease(batch), a)
                               + (IF a \in AlbumsUnmatched(batch) THEN 1 ELSE 0)
  <2> DEFINE X == {it \in Of(a) : it.release # None}  list == WithRelease(batch)
  <2>1. /\ Times(list, a) = Count(list, Of(a)) /\ Count(list, Of(a)) = Count(batch, X)
        /\ Times(batch, a) = Count(batch, Of(a))
    BY <1>1, FoundAreItems, TimesCount, CountFilter
  <2>2. /\ Count(batch, X) \in Nat /\ Count(batch, Of(a)) \in Nat
        /\ Count(batch, X) = 0 <=> \A j \in DOMAIN batch : batch[j] \notin X
        /\ Count(batch, Of(a)) = 0 <=> \A j \in DOMAIN batch : batch[j] \notin Of(a)
    BY CountType
  <2>3. ASSUME NEW i \in DOMAIN batch, NEW j \in DOMAIN batch, batch[i] \in Of(a), batch[j] \in Of(a)
        PROVE  i = j /\ Count(batch, Of(a)) = 1
    BY <1>5, <2>1, <2>3, CountOnce
  <2>4. CASE a \notin AlbumsOf(batch)
    <3>1. \A j \in DOMAIN batch : batch[j] \notin Of(a) /\ batch[j] \notin X
      BY <2>4 DEF AlbumsOf, Of
    <3> HIDE DEF X
    <3>. QED BY <1>4, <2>1, <2>2, <2>4, <3>1
  <2>5. CASE a \in AlbumsOf(batch)
    <3>1. PICK j \in DOMAIN batch : batch[j].album = a
      BY <2>5 DEF AlbumsOf
    <3>2. batch[j] \in Of(a)
      BY <3>1 DEF Of
    <3>3. Count(batch, Of(a)) = 1 /\ \A i \in DOMAIN batch : batch[i] \in Of(a) => i = j
      BY <2>3, <3>2
    <3>4. \A i \in DOMAIN batch : batch[i].album = a => batch[i] \in Of(a)
      BY DEF Of
    <3>5. a \in AlbumsUnmatched(batch) <=> batch[j].release = None
      BY <1>3, <3>1, <3>3, <3>4
    <3>6. CASE batch[j].release = None
      <4>1. \A i \in DOMAIN batch : batch[i] \notin X
        BY <3>3, <3>6
      <4> HIDE DEF X
      <4>. QED BY <2>1, <2>2, <3>3, <3>5, <3>6, <4>1
    <3>7. CASE batch[j].release # None
      <4>1. batch[j] \in X
        BY <3>2, <3>7
      <4>2. Count(batch, X) = 1
        <5>1. Count(batch, X) <= 1
          <6> DEFINE at == {i \in DOMAIN batch : batch[i] \in X}
          <6>1. at = {j}
            BY <3>3, <4>1
          <6>2. Cardinality(at) = 1
            <7> HIDE DEF at
            <7>. QED BY <6>1, FS_Singleton
          <6>. QED BY <6>2 DEF Count
        <5>2. Count(batch, X) # 0
          <6> HIDE DEF X
          <6>. QED BY <2>2, <4>1
        <5> HIDE DEF X
        <5>. QED BY <2>2, <5>1, <5>2
      <4> HIDE DEF X
      <4>. QED BY <2>1, <3>3, <3>5, <3>7, <4>2
    <3>. QED BY <3>6, <3>7
  <2>. QED BY <2>4, <2>5
<1>. QED BY <1>1, <1>2, <1>4, <1>5

-----------------------------------------------------------------------------
(* What steps take and give *)

LEMMA ItemTyped ==
  ASSUME NEW a \in Albums, NEW r \in {None, ReleaseOf[a]}, NEW e \in BOOLEAN
  PROVE  Item(a, r, e) \in Items /\ Item(a, r, e).album = a /\ Item(a, r, e).release = r
<1>1. ReleaseOf[a] \in Releases
  BY ReleaseAssumption
<1>2. Item(a, r, e) = [album |-> a, release |-> r, service_error |-> e]
  BY DEF Item
<1>3. Item(a, r, e) \in [album : Albums, release : Releases \union {None}, service_error : BOOLEAN]
  BY <1>1, <1>2
<1>4. Item(a, r, e).album = a /\ Item(a, r, e).release = r
  BY <1>2
<1>. QED BY <1>3, <1>4 DEF Items

LEMMA LookUpItem ==
  ASSUME NEW a \in Albums, NEW l \in Lookups(a)
  PROVE  l.item \in Items /\ l.item.album = a
<1>1. \/ l = [item |-> Item(a, ReleaseOf[a], FALSE), answered |-> FALSE]
      \/ l = [item |-> Item(a, None, FALSE), answered |-> TRUE]
      \/ l = [item |-> Item(a, None, TRUE), answered |-> FALSE]
      \/ l = [item |-> Item(a, None, FALSE), answered |-> FALSE]
  BY DEF Lookups
<1>2. l.item \in {Item(a, ReleaseOf[a], FALSE), Item(a, None, FALSE), Item(a, None, TRUE)}
  <2>1. CASE l = [item |-> Item(a, ReleaseOf[a], FALSE), answered |-> FALSE]
    BY <2>1
  <2>2. CASE l = [item |-> Item(a, None, FALSE), answered |-> TRUE]
    BY <2>2
  <2>3. CASE l = [item |-> Item(a, None, TRUE), answered |-> FALSE]
    BY <2>3
  <2>4. CASE l = [item |-> Item(a, None, FALSE), answered |-> FALSE]
    BY <2>4
  <2>. QED BY <1>1, <2>1, <2>2, <2>3, <2>4
<1>. QED BY <1>2, ItemTyped

LEMMA LookUpFacts ==
  ASSUME queue \in Seq(Items), NEW a \in Albums, LookUp(a)
  PROVE  /\ queue' \in Seq(Items)
         /\ \A x : Times(queue', x) = Times(queue, x) + (IF a = x THEN 1 ELSE 0)
         /\ answered' \in {answered, answered \union {a}}
<1>1. PICK l \in Lookups(a) : queue' = Append(queue, l.item) /\ answered' \in {answered, answered \union {a}}
  BY DEF LookUp
<1>2. l.item \in Items /\ l.item.album = a
  BY LookUpItem
<1>. QED BY <1>1, <1>2, TimesAppend

LEMMA FetchFacts ==
  ASSUME NEW ids \in Seq(Releases), NEW f \in Fetch(http, ids)
  PROVE  f.result \in {"ok", "unavailable", "internal"} /\ f.got \in SUBSET Releases
<1>1. ToSet(ids) \subseteq Releases
  BY DEF ToSet
<1>2. CASE http
  <2>1. CASE f \in [result : {"ok"}, got : SUBSET ToSet(ids)]
    BY <1>1, <2>1
  <2>2. CASE f \in UNION {[result : {"unavailable"}, got : SUBSET {ids[j] : j \in 1 .. k - 1}]
                            : k \in DOMAIN ids}
    <3>1. PICK k \in DOMAIN ids :
            f \in [result : {"unavailable"}, got : SUBSET {ids[j] : j \in 1 .. k - 1}]
      BY <2>2
    <3>2. {ids[j] : j \in 1 .. k - 1} \subseteq Releases
      <4>1. \A j \in 1 .. k - 1 : j \in DOMAIN ids
        OBVIOUS
      <4>. QED BY <4>1
    <3>. QED BY <3>1, <3>2
  <2>. QED BY <1>2, <2>1, <2>2 DEF Fetch, HttpFetch
<1>3. CASE ~http
  BY <1>1, <1>3 DEF Fetch, PgFetch
<1>. QED BY <1>2, <1>3

LEMMA FetchOfList ==
  ASSUME NEW list \in Seq(Found), NEW f \in Fetch(http, ReleaseIds(list))
  PROVE  f.result \in {"ok", "unavailable", "internal"} /\ f.got \in SUBSET Releases
<1>1. \A j \in DOMAIN list : list[j].release \in Releases
  <2>1. \A it \in Found : it.release \in Releases
    BY DEF Found, Items
  <2>. QED BY <2>1
<1>2. ReleaseIds(list) \in Seq(Releases)
  BY <1>1 DEF ReleaseIds
<1>. QED BY <1>2, FetchFacts

LEMMA ListedOnce ==
  ASSUME NEW S \in SUBSET Albums, NEW found \in Seq(Items),
         DOMAIN found = DOMAIN SetToSeq(S),
         \A j \in DOMAIN found : found[j].album = SetToSeq(S)[j]
  PROVE  \A a : Times(found, a) = (IF a \in S THEN 1 ELSE 0)
<1>1. IsFiniteSet(S)
  BY BoundsAssumption, FS_Subset
<1>2. ASSUME NEW a PROVE Times(found, a) = Count(SetToSeq(S), {a})
  <2>1. {j \in DOMAIN found : found[j].album = a} = {j \in DOMAIN SetToSeq(S) : SetToSeq(S)[j] \in {a}}
    OBVIOUS
  <2>. QED BY <2>1 DEF Times, Count
<1>. QED BY <1>1, <1>2, CountSet

\* A run begins with every album it is to resolve waiting or queued.
LEMMA StartFacts ==
  ASSUME IInv, Start
  PROVE  \E S \in SUBSET Albums :
            /\ count' = Cardinality(S)
            /\ todo' \in Seq(Albums) /\ queue' \in Seq(Items)
            /\ \A a \in Albums : /\ AtPool(a)' \in Nat /\ Times(queue', a) \in Nat
                                 /\ AtPool(a)' + Times(queue', a) = (IF a \in S THEN 1 ELSE 0)
<1>1. PICK monthLater \in BOOLEAN, how \in Ways(http') :
        LET unresolved == Unresolved(monthLater)
            tagged     == SetToSeq({a \in unresolved : db[a].release # None})
            untagged   == SetToSeq({a \in unresolved : db[a].release = None})
            found      == [j \in DOMAIN tagged |-> Item(tagged[j], db[tagged[j]].release, FALSE)]
            failed     == [j \in DOMAIN untagged |-> Item(untagged[j], None, TRUE)]
        IN
        /\ count' = Cardinality(unresolved)
        /\ queue' = IF how = "no_pool" THEN found \o failed ELSE found
        /\ todo' = IF how = "no_pool" THEN <<>> ELSE untagged
  BY DEF Start
<1> DEFINE S == Unresolved(monthLater)
           T == {a \in S : db[a].release # None}
           U == {a \in S : db[a].release = None}
           tagged == SetToSeq(T)
           untagged == SetToSeq(U)
           found == [j \in DOMAIN tagged |-> Item(tagged[j], db[tagged[j]].release, FALSE)]
           failed == [j \in DOMAIN untagged |-> Item(untagged[j], None, TRUE)]
<1>2. S \in SUBSET Albums /\ T \in SUBSET Albums /\ U \in SUBSET Albums
  BY DEF Unresolved
<1>3. IsFiniteSet(T) /\ IsFiniteSet(U)
  <2> HIDE DEF T, U
  <2>. QED BY <1>2, BoundsAssumption, FS_Subset
<1>4. tagged \in Seq(T) /\ untagged \in Seq(U) /\ untagged \in Seq(Albums)
      /\ \A x : Count(untagged, {x}) = (IF x \in U THEN 1 ELSE 0)
  <2>1. tagged \in Seq(T) /\ untagged \in Seq(U)
        /\ \A x : Count(untagged, {x}) = (IF x \in U THEN 1 ELSE 0)
    <3> HIDE DEF T, U
    <3>. QED BY <1>3, CountSet
  <2>2. untagged \in Seq(Albums)
    <3> HIDE DEF U, untagged
    <3>. QED BY <1>2, <2>1, SeqMonotonic
  <2>. QED BY <2>1, <2>2
<1>5. found \in Seq(Items) /\ DOMAIN found = DOMAIN tagged
      /\ \A j \in DOMAIN found : found[j].album = tagged[j]
  <2>1. ASSUME NEW j \in DOMAIN tagged
        PROVE  /\ Item(tagged[j], db[tagged[j]].release, FALSE) \in Items
               /\ Item(tagged[j], db[tagged[j]].release, FALSE).album = tagged[j]
    <3>1. tagged[j] \in T
      <4> HIDE DEF T, tagged
      <4>. QED BY <1>4
    <3>2. tagged[j] \in Albums /\ db[tagged[j]].release \in {None, ReleaseOf[tagged[j]]}
      <4> HIDE DEF T, tagged
      <4>. QED BY <1>2, <3>1 DEF IInv, Gathered
    <3> HIDE DEF tagged
    <3>. QED BY <3>2, ItemTyped
  <2>2. DOMAIN tagged = 1 .. Len(tagged) /\ Len(tagged) \in Nat
    <3> HIDE DEF tagged, T
    <3>. QED BY <1>4
  <2>3. found \in [DOMAIN tagged -> Items]
    <3> HIDE DEF tagged, T
    <3>. QED BY <2>1
  <2>4. found \in Seq(Items)
    <3> HIDE DEF tagged, found
    <3>. QED BY <2>2, <2>3
  <2>. QED BY <2>1, <2>4
<1>6. failed \in Seq(Items) /\ DOMAIN failed = DOMAIN untagged
      /\ \A j \in DOMAIN failed : failed[j].album = untagged[j]
  <2>1. ASSUME NEW j \in DOMAIN untagged
        PROVE  /\ Item(untagged[j], None, TRUE) \in Items
               /\ Item(untagged[j], None, TRUE).album = untagged[j]
    <3>1. untagged[j] \in Albums
      <4> HIDE DEF untagged
      <4>. QED BY <1>4
    <3> HIDE DEF untagged
    <3>. QED BY <3>1, ItemTyped
  <2>2. DOMAIN untagged = 1 .. Len(untagged) /\ Len(untagged) \in Nat
    <3> HIDE DEF untagged, U
    <3>. QED BY <1>4
  <2>3. failed \in [DOMAIN untagged -> Items]
    <3> HIDE DEF untagged, U
    <3>. QED BY <2>1
  <2>4. failed \in Seq(Items)
    <3> HIDE DEF untagged, failed
    <3>. QED BY <2>2, <2>3
  <2>. QED BY <2>1, <2>4
<1>7. /\ \A a : Times(found, a) = (IF a \in T THEN 1 ELSE 0)
      /\ \A a : Times(failed, a) = (IF a \in U THEN 1 ELSE 0)
  <2> HIDE DEF T, U, found, failed
  <2>. QED BY <1>2, <1>5, <1>6, ListedOnce DEF tagged, untagged
<1>8. /\ count' = Cardinality(S)
      /\ queue' = IF how = "no_pool" THEN found \o failed ELSE found
      /\ todo' = IF how = "no_pool" THEN <<>> ELSE untagged
  BY <1>1
<1>9. \A a \in Albums : (a \in S <=> a \in T \/ a \in U) /\ ~(a \in T /\ a \in U)
  OBVIOUS
<1> HIDE DEF S, T, U, found, failed, tagged, untagged
<1>10. CASE how = "no_pool"
  <2>1. todo' = <<>> /\ queue' = found \o failed /\ queue' \in Seq(Items) /\ todo' \in Seq(Albums)
    BY <1>5, <1>6, <1>8, <1>10, ConcatProperties
  <2>2. ASSUME NEW a PROVE Times(queue', a) = Times(found, a) + Times(failed, a)
    <3>1. Count(found \o failed, Of(a)) = Count(found, Of(a)) + Count(failed, Of(a))
      BY <1>5, <1>6, CountConcat
    <3>. QED BY <1>5, <1>6, <2>1, <3>1, TimesCount
  <2>3. \A a : AtPool(a)' = 0
    BY <2>1, CountSmall DEF AtPool
  <2>4. ASSUME NEW a \in Albums
        PROVE  Times(queue', a) = (IF a \in S THEN 1 ELSE 0)
    <3>1. Times(queue', a) = (IF a \in T THEN 1 ELSE 0) + (IF a \in U THEN 1 ELSE 0)
      BY <1>7, <2>2
    <3>. QED BY <1>9, <3>1
  <2>. QED BY <1>2, <1>8, <2>1, <2>3, <2>4
<1>11. CASE how # "no_pool"
  <2>1. todo' = untagged /\ queue' = found
    BY <1>8, <1>11
  <2>2. \A a : AtPool(a)' = (IF a \in U THEN 1 ELSE 0)
    BY <1>4, <2>1 DEF AtPool
  <2>3. \A a : Times(queue', a) = (IF a \in T THEN 1 ELSE 0)
    BY <1>7, <2>1
  <2>4. \A a \in Albums : /\ AtPool(a)' \in Nat /\ Times(queue', a) \in Nat
                          /\ AtPool(a)' + Times(queue', a) = (IF a \in S THEN 1 ELSE 0)
    BY <1>9, <2>2, <2>3
  <2>. QED BY <1>2, <1>4, <1>5, <1>8, <2>1, <2>4
<1>. QED BY <1>10, <1>11

-----------------------------------------------------------------------------
(* The lists keep their types *)

Pf == [state : {"none", "running", "done"}, list : Seq(Found),
       result : {"ok", "unavailable", "internal"}, got : SUBSET Releases]
Writing == [list : Seq(Found), got : SUBSET Releases, next : {"loop", "free", "rest"}]

LEMMA PfTyped ==
  ASSUME NEW list \in Seq(Found)
  PROVE  /\ NoPrefetch \in Pf /\ NoWriting \in Writing
         /\ [NoPrefetch EXCEPT !.state = "running", !.list = list] \in Pf
BY NothingTwice DEF Pf, Writing, NoPrefetch, NoWriting

LEMMA SwapTyped ==
  ASSUME ListsTyped, NEW f, NEW got \in SUBSET Releases, Swapped(f, got) \/ Broken(f, got)
  PROVE  hand' \in Seq(Found) /\ taken' \in Nat /\ pf' \in Pf /\ writing' \in Writing
<1>1. /\ hand' = <<>> /\ taken' = 0
      /\ pf' \in {NoPrefetch, [NoPrefetch EXCEPT !.state = "running", !.list = hand]}
      /\ writing' = [list |-> pf.list, got |-> got, next |-> "loop"]
  BY DEF Swapped, Broken
<1>2. pf.list \in Seq(Found) /\ hand \in Seq(Found)
  BY DEF ListsTyped
<1>3. writing' \in Writing
  BY <1>1, <1>2 DEF Writing
<1>. QED BY <1>1, <1>2, <1>3, PfTyped, NothingTwice

LEMMA ListsStep ==
  ASSUME IInv, [Next]_vars
  PROVE  ListsTyped'
<1>1. /\ todo \in Seq(Albums) /\ worker \in [Workers -> Albums \union {None}]
      /\ queue \in Seq(Items) /\ hand \in Seq(Found) /\ taken \in Nat
      /\ pf \in Pf /\ writing \in Writing
  BY DEF IInv, TypeOK, ListsTyped, Pf, Writing
<1>2. /\ pf.list \in Seq(Found) /\ pf.result \in {"ok", "unavailable", "internal"}
      /\ pf.got \in SUBSET Releases
  BY <1>1 DEF Pf
<1> DEFINE Goal == /\ todo' \in Seq(Albums) /\ worker' \in [Workers -> Albums \union {None}]
                   /\ queue' \in Seq(Items) /\ hand' \in Seq(Found) /\ taken' \in Nat
                   /\ pf' \in Pf /\ writing' \in Writing
<1>3. SUFFICES Goal
  BY DEF ListsTyped, Pf, Writing
<1>4. /\ BatchOf \in Seq(Items) /\ QueueAfter \in Seq(Items) /\ Len(BatchOf) \in Nat
      /\ WithRelease(BatchOf) \in Seq(Found)
  BY <1>1, BatchFacts, TriageFacts
<1>5. CASE Start
  BY <1>1, <1>5, StartFacts DEF Start
<1>6. CASE InlineLookup
  <2>1. Head(todo) \in Albums /\ Tail(todo) \in Seq(Albums)
    BY <1>1, <1>6, HeadTailProperties DEF InlineLookup
  <2>2. queue' \in Seq(Items)
    BY <1>1, <1>6, <2>1, LookUpFacts DEF InlineLookup
  <2>. QED BY <1>1, <1>6, <2>1, <2>2 DEF InlineLookup
<1>7. CASE InlineEnds
  BY <1>1, <1>7, NothingTwice DEF InlineEnds
<1>8. ASSUME NEW w \in Workers, WorkerTakes(w) PROVE Goal
  <2>1. Head(todo) \in Albums /\ Tail(todo) \in Seq(Albums)
    BY <1>1, <1>8, HeadTailProperties DEF WorkerTakes
  <2>2. todo' = Tail(todo) /\ (worker' = worker \/ worker' = [worker EXCEPT ![w] = Head(todo)])
        /\ UNCHANGED <<queue, hand, taken, pf, writing>>
    BY <1>8 DEF WorkerTakes
  <2>. QED BY <1>1, <2>1, <2>2
<1>9. ASSUME NEW w \in Workers, WorkerQueues(w) PROVE Goal
  <2>1. worker[w] \in Albums
    BY <1>1, <1>9 DEF WorkerQueues
  <2>2. queue' \in Seq(Items)
    BY <1>1, <1>9, <2>1, LookUpFacts DEF WorkerQueues
  <2>. QED BY <1>1, <1>9, <2>2 DEF WorkerQueues
<1>10. CASE TakeBatch
  <2>1. /\ queue' = QueueAfter /\ UNCHANGED <<todo, worker, writing>>
        /\ pf' \in {pf, [NoPrefetch EXCEPT !.state = "running", !.list = WithRelease(BatchOf)]}
        /\ hand' \in {hand, WithRelease(BatchOf)} /\ taken' \in {taken, Len(BatchOf)}
    BY <1>10 DEF TakeBatch
  <2>. QED BY <1>1, <1>4, <2>1, PfTyped
<1>11. CASE LoopEnds
  BY <1>1, <1>11 DEF LoopEnds, lookups
<1>12. CASE PrefetchThread
  <2>1. PICK f \in Fetch(http, ReleaseIds(pf.list)) :
          pf' = [pf EXCEPT !.state = "done", !.result = f.result, !.got = f.got]
    BY <1>12 DEF PrefetchThread
  <2>2. f.result \in {"ok", "unavailable", "internal"} /\ f.got \in SUBSET Releases
    BY <1>2, FetchOfList
  <2>3. pf' \in Pf
    BY <1>1, <2>1, <2>2 DEF Pf
  <2>. QED BY <1>1, <1>12, <2>3 DEF PrefetchThread, lookups
<1>13. CASE Join
  <2>1. PICK f \in {0, failures + 1}, got \in SUBSET Releases : Swapped(f, got) \/ Broken(f, got)
    <3>1. CASE pf.result = "ok"
      BY <1>2, <1>13, <3>1 DEF Join
    <3>2. CASE pf.result # "ok"
      <4>1. PICK f \in Fetch(http, ReleaseIds(pf.list)) :
              Swapped(0, f.got) \/ Broken(failures + 1, f.got) \/ Swapped(failures + 1, f.got)
        BY <1>13, <3>2 DEF Join
      <4>2. f.got \in SUBSET Releases
        BY <1>2, FetchOfList
      <4>. QED BY <4>1, <4>2
    <3>. QED BY <3>1, <3>2
  <2>2. hand' \in Seq(Found) /\ taken' \in Nat /\ pf' \in Pf /\ writing' \in Writing
    BY <2>1, SwapTyped DEF IInv, TypeOK
  <2>. QED BY <1>1, <1>13, <2>2 DEF Join, lookups
<1>14. CASE FetchInline
  <2>1. PICK f1 \in Fetch(http, ReleaseIds(hand)), f2 \in Fetch(http, ReleaseIds(hand)) :
          writing' = [list |-> hand, got |-> (IF f1.result = "ok" THEN f1 ELSE f2).got, next |-> "loop"]
    BY <1>14 DEF FetchInline
  <2>2. f1.got \in SUBSET Releases /\ f2.got \in SUBSET Releases
    BY <1>1, FetchOfList
  <2>3. writing' \in Writing
    <3>1. (IF f1.result = "ok" THEN f1 ELSE f2).got \in SUBSET Releases
      BY <2>2
    <3>. QED BY <1>1, <2>1, <3>1 DEF Writing
  <2>4. hand' = <<>> /\ taken' = 0 /\ UNCHANGED <<todo, worker, queue, pf>>
    BY <1>14 DEF FetchInline, lookups
  <2>. QED BY <1>1, <2>3, <2>4, NothingTwice
<1>15. CASE LastJoin
  <2>1. PICK f \in {[result |-> pf.result, got |-> pf.got]} \union Fetch(http, ReleaseIds(pf.list)) :
          writing' = [list |-> pf.list, got |-> f.got, next |-> "free"]
    BY <1>15 DEF LastJoin
  <2>2. f.got \in SUBSET Releases
    BY <1>2, FetchOfList
  <2>3. writing' \in Writing /\ pf' = NoPrefetch
    BY <1>2, <1>15, <2>1, <2>2 DEF Writing, LastJoin
  <2>. QED BY <1>1, <1>15, <2>3, PfTyped DEF LastJoin, lookups
<1>16. CASE FreePool
  BY <1>1, <1>16 DEF FreePool, lookups
<1>17. CASE TakeRest
  <2>1. writing' \in Writing
    <3>1. CASE WithRelease(BatchOf) = <<>>
      BY <1>1, <1>17, <3>1 DEF TakeRest
    <3>2. CASE WithRelease(BatchOf) # <<>>
      <4>1. PICK f \in Fetch(http, ReleaseIds(WithRelease(BatchOf))) :
              writing' = [list |-> WithRelease(BatchOf), got |-> f.got, next |-> "rest"]
        BY <1>17, <3>2 DEF TakeRest
      <4>2. f.got \in SUBSET Releases
        BY <1>4, FetchOfList
      <4>. QED BY <1>4, <4>1, <4>2 DEF Writing
    <3>. QED BY <3>1, <3>2
  <2>2. queue' = QueueAfter /\ UNCHANGED <<todo, worker, hand, taken, pf>>
    BY <1>17 DEF TakeRest
  <2>. QED BY <1>1, <1>4, <2>1, <2>2
<1>18. CASE End
  BY <1>1, <1>18, NothingTwice DEF End
<1>19. CASE WriteBatch
  BY <1>1, <1>19, PfTyped, NothingTwice DEF WriteBatch, lookups
<1>20. CASE Cancel
  BY <1>1, <1>20 DEF Cancel, lookups
<1>21. CASE Kill
  BY <1>1, <1>21, PfTyped, NothingTwice DEF Kill
<1>22. CASE UNCHANGED vars
  BY <1>1, <1>22 DEF vars
<1> HIDE DEF Goal
<1>. QED BY <1>5, <1>6, <1>7, <1>8, <1>9, <1>10, <1>11, <1>12, <1>13, <1>14, <1>15, <1>16, <1>17,
            <1>18, <1>19, <1>20, <1>21, <1>22 DEF Next, Resolver, Worker

-----------------------------------------------------------------------------
(* No step but the first of a run and the end of the process loses an      *)
(* album or has it twice                                                   *)

IsSettled(a) == IF a \in settled THEN 1 ELSE 0
IsLost(a) == IF lost[a] # None THEN 1 ELSE 0

LEMMA HoldersSum ==
  ASSUME NEW a
  PROVE  /\ Holders(a) = AtPool(a) + AtWorker(a) + Times(queue, a) + Times(hand, a)
                         + Times(pf.list, a) + Times(writing.list, a) + IsSettled(a) + IsLost(a)
         /\ Holders(a)' = AtPool(a)' + AtWorker(a)' + Times(queue', a) + Times(hand', a)
                          + Times(pf'.list, a) + Times(writing'.list, a) + IsSettled(a)' + IsLost(a)'
<1>1. AtPool(a) = Cardinality({j \in DOMAIN todo : todo[j] = a})
  <2>1. {j \in DOMAIN todo : todo[j] = a} = {j \in DOMAIN todo : todo[j] \in {a}}
    OBVIOUS
  <2>. QED BY <2>1 DEF AtPool, Count
<1>2. AtPool(a)' = Cardinality({j \in DOMAIN todo' : todo'[j] = a})
  <2>1. {j \in DOMAIN todo' : todo'[j] = a} = {j \in DOMAIN todo' : todo'[j] \in {a}}
    OBVIOUS
  <2>. QED BY <2>1 DEF AtPool, Count
<1>3. /\ AtWorker(a) = Cardinality({w \in Workers : worker[w] = a})
      /\ AtWorker(a)' = Cardinality({w \in Workers : worker'[w] = a})
  BY DEF AtWorker
<1>4. /\ Holders(a) = Cardinality({j \in DOMAIN todo : todo[j] = a})
                      + Cardinality({w \in Workers : worker[w] = a}) + Times(queue, a) + Times(hand, a)
                      + Times(pf.list, a) + Times(writing.list, a) + IsSettled(a) + IsLost(a)
      /\ Holders(a)' = Cardinality({j \in DOMAIN todo' : todo'[j] = a})
                       + Cardinality({w \in Workers : worker'[w] = a}) + Times(queue', a) + Times(hand', a)
                       + Times(pf'.list, a) + Times(writing'.list, a) + IsSettled(a)' + IsLost(a)'
  BY DEF Holders, IsSettled, IsLost, Times
<1>. QED BY <1>1, <1>2, <1>3, <1>4

LEMMA Pieces ==
  ASSUME ListsTyped, NEW a
  PROVE  /\ AtPool(a) \in Nat /\ AtWorker(a) \in Nat
         /\ Times(queue, a) \in Nat /\ Times(hand, a) \in Nat
         /\ Times(pf.list, a) \in Nat /\ Times(writing.list, a) \in Nat
         /\ IsSettled(a) \in {0, 1} /\ IsLost(a) \in {0, 1}
         /\ AtPool(a) = 0 <=> \A j \in DOMAIN todo : todo[j] # a
         /\ AtWorker(a) = 0 <=> \A w \in Workers : worker[w] # a
<1>1. todo \in Seq(Albums) /\ queue \in Seq(Items) /\ hand \in Seq(Items)
      /\ pf.list \in Seq(Items) /\ writing.list \in Seq(Items)
  <2>1. hand \in Seq(Found) /\ pf.list \in Seq(Found) /\ writing.list \in Seq(Found)
    BY DEF ListsTyped
  <2>. QED BY <2>1, FoundAreItems DEF ListsTyped
<1>2. AtPool(a) \in Nat /\ (AtPool(a) = 0 <=> \A j \in DOMAIN todo : todo[j] # a)
  BY <1>1, CountType DEF AtPool
<1>3. AtWorker(a) \in Nat /\ (AtWorker(a) = 0 <=> \A w \in Workers : worker[w] # a)
  <2> DEFINE at == {w \in Workers : worker[w] = a}
  <2>1. IsFiniteSet(at) /\ Cardinality(at) \in Nat
    BY BoundsAssumption, FS_Subset, FS_CardinalityType
  <2>2. Cardinality(at) = 0 <=> at = {}
    <3> HIDE DEF at
    <3>. QED BY <2>1, FS_EmptySet
  <2>. QED BY <2>1, <2>2 DEF AtWorker
<1>. QED BY <1>1, <1>2, <1>3, TimesFacts DEF IsSettled, IsLost

\* A worker takes the first album, or gives back the one it has.
LEMMA WorkerTakesOne ==
  ASSUME ListsTyped, NEW w \in Workers, NEW b \in Albums,
         worker[w] = None, worker' = [worker EXCEPT ![w] = b]
  PROVE  \A a \in Albums : AtWorker(a)' = AtWorker(a) + (IF a = b THEN 1 ELSE 0)
<1> SUFFICES ASSUME NEW a \in Albums PROVE AtWorker(a)' = AtWorker(a) + (IF a = b THEN 1 ELSE 0)
  OBVIOUS
<1> DEFINE at == {v \in Workers : worker[v] = a}  after == {v \in Workers : worker'[v] = a}
<1>1. IsFiniteSet(at) /\ Cardinality(at) \in Nat
  BY BoundsAssumption, FS_Subset, FS_CardinalityType
<1>2. a # None /\ w \notin at
  BY NoneAssumption
<1>3. worker \in [Workers -> Albums \union {None}]
  BY DEF ListsTyped
<1>4. after = (IF a = b THEN at \union {w} ELSE at)
  BY <1>2, <1>3
<1>5. Cardinality(after) = Cardinality(at) + (IF a = b THEN 1 ELSE 0)
  <2>1. Cardinality(at \union {w}) = Cardinality(at) + 1
    <3> HIDE DEF at, after
    <3>. QED BY <1>1, <1>2, FS_AddElement
  <2> HIDE DEF at, after
  <2>2. CASE a = b
    BY <1>4, <2>1, <2>2
  <2>3. CASE a # b
    BY <1>1, <1>4, <2>3
  <2>. QED BY <2>2, <2>3
<1>. QED BY <1>5 DEF AtWorker

LEMMA WorkerGivesOne ==
  ASSUME ListsTyped, NEW w \in Workers, worker[w] # None, worker' = [worker EXCEPT ![w] = None]
  PROVE  \A a \in Albums : /\ AtWorker(a)' \in Nat
                           /\ AtWorker(a) = AtWorker(a)' + (IF a = worker[w] THEN 1 ELSE 0)
<1> SUFFICES ASSUME NEW a \in Albums
             PROVE  AtWorker(a)' \in Nat /\ AtWorker(a) = AtWorker(a)' + (IF a = worker[w] THEN 1 ELSE 0)
  OBVIOUS
<1> DEFINE at == {v \in Workers : worker[v] = a}  after == {v \in Workers : worker'[v] = a}
<1>1. IsFiniteSet(after) /\ Cardinality(after) \in Nat
  BY BoundsAssumption, FS_Subset, FS_CardinalityType
<1>2. a # None
  BY NoneAssumption
<1>3. worker \in [Workers -> Albums \union {None}]
  BY DEF ListsTyped
<1>4. w \notin after
  BY <1>2, <1>3
<1>5. at = (IF a = worker[w] THEN after \union {w} ELSE after)
  BY <1>2, <1>3
<1>6. Cardinality(at) = Cardinality(after) + (IF a = worker[w] THEN 1 ELSE 0)
  <2>1. Cardinality(after \union {w}) = Cardinality(after) + 1
    <3> HIDE DEF at, after
    <3>. QED BY <1>1, <1>4, FS_AddElement
  <2> HIDE DEF at, after
  <2>2. CASE a = worker[w]
    BY <1>5, <2>1, <2>2
  <2>3. CASE a # worker[w]
    BY <1>1, <1>5, <2>3
  <2>. QED BY <2>2, <2>3
<1>. QED BY <1>1, <1>6 DEF AtWorker

LEMMA PoolTakesOne ==
  ASSUME ListsTyped, todo # <<>>, todo' = Tail(todo)
  PROVE  /\ Head(todo) \in Albums
         /\ \A a \in Albums : /\ AtPool(a)' \in Nat
                              /\ AtPool(a) = AtPool(a)' + (IF a = Head(todo) THEN 1 ELSE 0)
<1>1. todo \in Seq(Albums)
  BY DEF ListsTyped
<1>2. Head(todo) \in Albums
  BY <1>1, CountTail
<1>3. ASSUME NEW a
      PROVE  AtPool(a)' \in Nat /\ AtPool(a) = AtPool(a)' + (IF a = Head(todo) THEN 1 ELSE 0)
  <2>1. Tail(todo) \in Seq(Albums)
    BY <1>1, CountTail
  <2>2. Count(todo, {a}) = (IF Head(todo) \in {a} THEN 1 ELSE 0) + Count(Tail(todo), {a})
    BY <1>1, CountTail
  <2>3. Count(Tail(todo), {a}) \in Nat
    BY <2>1, CountType
  <2>. QED BY <2>2, <2>3 DEF AtPool
<1>. QED BY <1>2, <1>3

Conserved == \A a \in Albums : Holders(a)' = Holders(a)

\* What a step leaves where it was.
LEMMA PiecesSame ==
  ASSUME NEW a
  PROVE  /\ todo' = todo => AtPool(a)' = AtPool(a)
         /\ worker' = worker => AtWorker(a)' = AtWorker(a)
         /\ settled' = settled => IsSettled(a)' = IsSettled(a)
         /\ lost' = lost => IsLost(a)' = IsLost(a)
         /\ queue' = queue => Times(queue', a) = Times(queue, a)
         /\ hand' = hand => Times(hand', a) = Times(hand, a)
         /\ pf' = pf => Times(pf'.list, a) = Times(pf.list, a)
         /\ writing' = writing => Times(writing'.list, a) = Times(writing.list, a)
BY DEF AtPool, AtWorker, IsSettled, IsLost

LEMMA TakesKeep ==
  ASSUME IInv, ListsTyped', InlineLookup \/ \E w \in Workers : WorkerTakes(w) \/ WorkerQueues(w)
  PROVE  Conserved
<1>1. ListsTyped /\ lost \in [Albums -> Reasons \union {None}] /\ queue \in Seq(Items)
  BY DEF IInv, TypeOK, ListsTyped
<1> SUFFICES ASSUME NEW a \in Albums PROVE Holders(a)' = Holders(a)
  BY DEF Conserved
<1>2. /\ AtPool(a) \in Nat /\ AtWorker(a) \in Nat /\ Times(queue, a) \in Nat
      /\ Times(hand, a) \in Nat /\ Times(pf.list, a) \in Nat /\ Times(writing.list, a) \in Nat
      /\ IsSettled(a) \in Nat /\ IsLost(a) \in {0, 1} /\ Holders(a) <= 1
  BY <1>1, Pieces DEF IInv, AlbumsAccounted
<1>3. /\ Holders(a) = AtPool(a) + AtWorker(a) + Times(queue, a) + Times(hand, a)
                      + Times(pf.list, a) + Times(writing.list, a) + IsSettled(a) + IsLost(a)
      /\ Holders(a)' = AtPool(a)' + AtWorker(a)' + Times(queue', a) + Times(hand', a)
                       + Times(pf'.list, a) + Times(writing'.list, a) + IsSettled(a)' + IsLost(a)'
  BY HoldersSum
<1>4. CASE InlineLookup
  <2>1. /\ todo # <<>> /\ todo' = Tail(todo) /\ LookUp(Head(todo))
        /\ worker' = worker /\ settled' = settled /\ lost' = lost
        /\ hand' = hand /\ pf' = pf /\ writing' = writing
    BY <1>4 DEF InlineLookup
  <2>2. Head(todo) \in Albums /\ AtPool(a)' \in Nat /\ AtPool(a) = AtPool(a)' + (IF a = Head(todo) THEN 1 ELSE 0)
    BY <1>1, <2>1, PoolTakesOne
  <2>3. Times(queue', a) = Times(queue, a) + (IF Head(todo) = a THEN 1 ELSE 0)
    BY <1>1, <2>1, <2>2, LookUpFacts
  <2>4. AtWorker(a)' = AtWorker(a) /\ IsSettled(a)' = IsSettled(a) /\ IsLost(a)' = IsLost(a)
    BY <2>1, PiecesSame
  <2>6. /\ Times(hand', a) = Times(hand, a) /\ Times(pf'.list, a) = Times(pf.list, a)
        /\ Times(writing'.list, a) = Times(writing.list, a)
    BY <2>1, PiecesSame
  <2>. QED BY <1>2, <1>3, <2>2, <2>3, <2>4, <2>6
<1>5. ASSUME NEW w \in Workers, WorkerTakes(w) PROVE Holders(a)' = Holders(a)
  <2>1. /\ todo # <<>> /\ todo' = Tail(todo) /\ worker[w] = None
        /\ settled' = settled /\ queue' = queue
        /\ hand' = hand /\ pf' = pf /\ writing' = writing
    BY <1>5 DEF WorkerTakes
  <2>2. Head(todo) \in Albums /\ AtPool(a)' \in Nat /\ AtPool(a) = AtPool(a)' + (IF a = Head(todo) THEN 1 ELSE 0)
    BY <1>1, <2>1, PoolTakesOne
  <2>3. IsSettled(a)' = IsSettled(a)
    BY <2>1, PiecesSame
  <2>6. /\ Times(hand', a) = Times(hand, a) /\ Times(pf'.list, a) = Times(pf.list, a)
        /\ Times(writing'.list, a) = Times(writing.list, a)
        /\ Times(queue', a) = Times(queue, a)
    BY <2>1, PiecesSame
  <2>4. CASE cancelled
    <3>1. lost' = [lost EXCEPT ![Head(todo)] = "cancel"] /\ worker' = worker
      BY <1>5, <2>4 DEF WorkerTakes
    <3>2. AtWorker(a)' = AtWorker(a)
      BY <3>1, PiecesSame
    <3>3. CASE a = Head(todo)
      <4>1. AtPool(a) >= 1
        BY <1>3, <2>2, <3>3
      <4>2. IsLost(a) = 0
        BY <1>2, <1>3, <4>1
      <4>3. IsLost(a)' = 1
        BY <1>1, <3>1, <3>3, NoneAssumption DEF IsLost, Reasons
      <4>. QED BY <1>2, <1>3, <2>2, <2>3, <2>6, <3>2, <3>3, <4>2, <4>3
    <3>4. CASE a # Head(todo)
      <4>1. IsLost(a)' = IsLost(a)
        BY <1>1, <3>1, <3>4 DEF IsLost
      <4>. QED BY <1>2, <1>3, <2>2, <2>3, <2>6, <3>2, <3>4, <4>1
    <3>. QED BY <3>3, <3>4
  <2>5. CASE ~cancelled
    <3>1. lost' = lost /\ worker' = [worker EXCEPT ![w] = Head(todo)]
      BY <1>5, <2>5 DEF WorkerTakes
    <3>2. AtWorker(a)' = AtWorker(a) + (IF a = Head(todo) THEN 1 ELSE 0)
      BY <1>1, <2>1, <2>2, <3>1, WorkerTakesOne
    <3>3. IsLost(a)' = IsLost(a)
      BY <3>1, PiecesSame
    <3>. QED BY <1>2, <1>3, <2>2, <2>3, <2>6, <3>2, <3>3
  <2>. QED BY <2>4, <2>5
<1>6. ASSUME NEW w \in Workers, WorkerQueues(w) PROVE Holders(a)' = Holders(a)
  <2>1. /\ worker[w] # None /\ LookUp(worker[w]) /\ worker' = [worker EXCEPT ![w] = None]
        /\ todo' = todo /\ settled' = settled /\ lost' = lost
        /\ hand' = hand /\ pf' = pf /\ writing' = writing
    BY <1>6 DEF WorkerQueues
  <2>2. worker[w] \in Albums
    BY <1>1, <2>1 DEF ListsTyped
  <2>3. Times(queue', a) = Times(queue, a) + (IF worker[w] = a THEN 1 ELSE 0)
    BY <1>1, <2>1, <2>2, LookUpFacts
  <2>4. AtWorker(a)' \in Nat /\ AtWorker(a) = AtWorker(a)' + (IF a = worker[w] THEN 1 ELSE 0)
    BY <1>1, <2>1, WorkerGivesOne
  <2>5. AtPool(a)' = AtPool(a) /\ IsSettled(a)' = IsSettled(a) /\ IsLost(a)' = IsLost(a)
    BY <2>1, PiecesSame
  <2>6. /\ Times(hand', a) = Times(hand, a) /\ Times(pf'.list, a) = Times(pf.list, a)
        /\ Times(writing'.list, a) = Times(writing.list, a)
    BY <2>1, PiecesSame
  <2>. QED BY <1>2, <1>3, <2>3, <2>4, <2>5, <2>6
<1>. QED BY <1>4, <1>5, <1>6

\* Those that are given up are not elsewhere afterwards.
LEMMA InlineEndsKeeps ==
  ASSUME IInv, InlineEnds
  PROVE  Conserved
<1>1. ListsTyped /\ lost \in [Albums -> Reasons \union {None}] /\ todo \in Seq(Albums)
  BY DEF IInv, TypeOK, ListsTyped
<1> SUFFICES ASSUME NEW a \in Albums PROVE Holders(a)' = Holders(a)
  BY DEF Conserved
<1>2. /\ AtPool(a) \in Nat /\ AtWorker(a) \in Nat /\ Times(queue, a) \in Nat
      /\ Times(hand, a) \in Nat /\ Times(pf.list, a) \in Nat /\ Times(writing.list, a) \in Nat
      /\ IsSettled(a) \in Nat /\ IsLost(a) \in {0, 1} /\ Holders(a) <= 1
      /\ (AtPool(a) = 0 <=> \A j \in DOMAIN todo : todo[j] # a)
  BY <1>1, Pieces DEF IInv, AlbumsAccounted
<1>7. /\ Holders(a) = AtPool(a) + AtWorker(a) + Times(queue, a) + Times(hand, a)
                      + Times(pf.list, a) + Times(writing.list, a) + IsSettled(a) + IsLost(a)
      /\ Holders(a)' = AtPool(a)' + AtWorker(a)' + Times(queue', a) + Times(hand', a)
                       + Times(pf'.list, a) + Times(writing'.list, a) + IsSettled(a)' + IsLost(a)'
  BY HoldersSum
<1>3. /\ todo' = <<>> /\ lost' = [x \in Albums |-> IF x \in ToSet(todo) THEN "cancel" ELSE lost[x]]
      /\ queue' = queue /\ hand' = hand /\ pf' = pf /\ writing' = writing
      /\ worker' = worker /\ settled' = settled
  BY DEF InlineEnds
<1>4. AtPool(a)' = 0 /\ AtWorker(a)' = AtWorker(a) /\ IsSettled(a)' = IsSettled(a)
  BY <1>3, CountSmall, PiecesSame DEF AtPool
<1>5. CASE a \in ToSet(todo)
  <2>1. AtPool(a) # 0
    BY <1>2, <1>5 DEF ToSet
  <2>2. AtPool(a) = 1 /\ IsLost(a) = 0
    BY <1>2, <2>1, <1>7
  <2>3. IsLost(a)' = 1
    BY <1>3, <1>5, NoneAssumption DEF IsLost, Reasons
  <2>. QED BY SMTT(30), <1>2, <1>3, <1>4, <2>2, <2>3, <1>7
<1>6. CASE a \notin ToSet(todo)
  <2>1. AtPool(a) = 0
    BY <1>2, <1>6 DEF ToSet
  <2>2. IsLost(a)' = IsLost(a)
    BY <1>3, <1>6 DEF IsLost
  <2>. QED BY <1>2, <1>3, <1>4, <2>1, <2>2, <1>7
<1>. QED BY <1>5, <1>6

LEMMA EndKeeps ==
  ASSUME IInv, End
  PROVE  Conserved
<1>1. ListsTyped /\ lost \in [Albums -> Reasons \union {None}] /\ queue \in Seq(Items)
  BY DEF IInv, TypeOK, ListsTyped
<1> SUFFICES ASSUME NEW a \in Albums PROVE Holders(a)' = Holders(a)
  BY DEF Conserved
<1>2. /\ AtPool(a) \in Nat /\ AtWorker(a) \in Nat /\ Times(queue, a) \in Nat
      /\ Times(hand, a) \in Nat /\ Times(pf.list, a) \in Nat /\ Times(writing.list, a) \in Nat
      /\ IsSettled(a) \in Nat /\ IsLost(a) \in {0, 1} /\ Holders(a) <= 1
  BY <1>1, Pieces DEF IInv, AlbumsAccounted
<1>8. Times(queue, a) = 0 <=> a \notin AlbumsOf(queue)
  BY <1>1, TimesFacts
<1>7. /\ Holders(a) = AtPool(a) + AtWorker(a) + Times(queue, a) + Times(hand, a)
                      + Times(pf.list, a) + Times(writing.list, a) + IsSettled(a) + IsLost(a)
      /\ Holders(a)' = AtPool(a)' + AtWorker(a)' + Times(queue', a) + Times(hand', a)
                       + Times(pf'.list, a) + Times(writing'.list, a) + IsSettled(a)' + IsLost(a)'
  BY HoldersSum
<1>3. /\ queue' = <<>>
      /\ lost' = [x \in Albums |-> IF x \in AlbumsOf(queue) THEN "cancel" ELSE lost[x]]
      /\ todo' = todo /\ hand' = hand /\ pf' = pf /\ writing' = writing
      /\ worker' = worker /\ settled' = settled
  BY DEF End
<1>4. /\ Times(queue', a) = 0 /\ AtWorker(a)' = AtWorker(a) /\ IsSettled(a)' = IsSettled(a)
      /\ AtPool(a)' = AtPool(a)
  BY <1>3, NothingTwice, PiecesSame
<1>5. CASE a \in AlbumsOf(queue)
  <2>0. Times(queue, a) # 0
    BY <1>5, <1>8
  <2>1. Times(queue, a) = 1 /\ IsLost(a) = 0
    <3>1. Times(queue, a) >= 1
      BY <1>2, <2>0
    <3>2. IsLost(a) = 0
      BY <1>2, <1>7, <3>1
    <3>3. Times(queue, a) = 1
      BY <1>2, <1>7, <3>1
    <3>. QED BY <3>2, <3>3
  <2>2. IsLost(a)' = 1
    BY <1>3, <1>5, NoneAssumption DEF IsLost, Reasons
  <2>. QED BY SMTT(30), <1>2, <1>3, <1>4, <2>1, <2>2, <1>7
<1>6. CASE a \notin AlbumsOf(queue)
  <2>1. Times(queue, a) = 0
    BY <1>6, <1>8
  <2>2. IsLost(a)' = IsLost(a)
    BY <1>3, <1>6 DEF IsLost
  <2>. QED BY <1>2, <1>3, <1>4, <2>1, <2>2, <1>7
<1>. QED BY <1>5, <1>6

LEMMA Sums ==
  ASSUME IInv, NEW a \in Albums
  PROVE  /\ AtPool(a) \in Nat /\ AtWorker(a) \in Nat /\ Times(queue, a) \in Nat
         /\ Times(hand, a) \in Nat /\ Times(pf.list, a) \in Nat /\ Times(writing.list, a) \in Nat
         /\ IsSettled(a) \in Nat /\ IsLost(a) \in Nat
         /\ AtPool(a) + AtWorker(a) + Times(queue, a) + Times(hand, a) + Times(pf.list, a)
            + Times(writing.list, a) + IsSettled(a) + IsLost(a) <= 1
<1>1. /\ AtPool(a) \in Nat /\ AtWorker(a) \in Nat /\ Times(queue, a) \in Nat
      /\ Times(hand, a) \in Nat /\ Times(pf.list, a) \in Nat /\ Times(writing.list, a) \in Nat
      /\ IsSettled(a) \in Nat /\ IsLost(a) \in Nat
  BY Pieces DEF IInv, TypeOK
<1>2. Holders(a) <= 1
  BY DEF IInv, AlbumsAccounted
<1>3. Holders(a) = AtPool(a) + AtWorker(a) + Times(queue, a) + Times(hand, a) + Times(pf.list, a)
                   + Times(writing.list, a) + IsSettled(a) + IsLost(a)
  BY HoldersSum
<1>. QED BY <1>1, <1>2, <1>3

\* Triage moves what has no release to the settled ones.
LEMMA TriageMoves ==
  ASSUME IInv, Triage(BatchOf), NEW a \in Albums
  PROVE  /\ Times(QueueAfter, a) \in Nat /\ Times(WithRelease(BatchOf), a) \in Nat
         /\ Times(queue, a) + IsSettled(a)
              = Times(QueueAfter, a) + Times(WithRelease(BatchOf), a) + IsSettled(a)'
         /\ settled' = settled \union AlbumsUnmatched(BatchOf)
<1>1. queue \in Seq(Items)
  BY DEF IInv, TypeOK, ListsTyped
<1>2. BatchOf \in Seq(Items) /\ QueueAfter \in Seq(Items)
      /\ Times(queue, a) = Times(BatchOf, a) + Times(QueueAfter, a)
  BY <1>1, BatchFacts
<1>3. WithRelease(BatchOf) \in Seq(Items)
  BY <1>2, TriageFacts, FoundAreItems
<1>4. /\ Times(BatchOf, a) \in Nat /\ Times(QueueAfter, a) \in Nat
      /\ Times(WithRelease(BatchOf), a) \in Nat
  BY <1>2, <1>3, TimesFacts
<1>5. Times(queue, a) + IsSettled(a) <= 1 /\ IsSettled(a) \in Nat
  <2>1. /\ AtPool(a) \in Nat /\ AtWorker(a) \in Nat /\ Times(queue, a) \in Nat
        /\ Times(hand, a) \in Nat /\ Times(pf.list, a) \in Nat /\ Times(writing.list, a) \in Nat
        /\ IsSettled(a) \in Nat /\ IsLost(a) \in Nat
        /\ AtPool(a) + AtWorker(a) + Times(queue, a) + Times(hand, a) + Times(pf.list, a)
           + Times(writing.list, a) + IsSettled(a) + IsLost(a) <= 1
    BY Sums
  <2>. QED BY <2>1
<1>6. Times(BatchOf, a) <= 1
  BY <1>2, <1>4, <1>5
<1>7. settled' = settled \union AlbumsUnmatched(BatchOf)
  BY DEF Triage, AlbumsUnmatched, Unmatched
<1>8. CASE a \in AlbumsUnmatched(BatchOf)
  <2>1. Times(BatchOf, a) = Times(WithRelease(BatchOf), a) + 1
    BY <1>2, <1>6, <1>8, TriageFacts
  <2>2. IsSettled(a)' = 1
    BY <1>7, <1>8 DEF IsSettled
  <2>3. IsSettled(a) = 0
    BY <1>2, <1>4, <1>5, <2>1
  <2>. QED BY <1>2, <1>4, <1>7, <2>1, <2>2, <2>3
<1>9. CASE a \notin AlbumsUnmatched(BatchOf)
  <2>1. Times(BatchOf, a) = Times(WithRelease(BatchOf), a)
    <3>1. Times(BatchOf, a) = Times(WithRelease(BatchOf), a) + 0
      BY <1>2, <1>6, <1>9, TriageFacts
    <3>. QED BY <1>4, <3>1
  <2>2. IsSettled(a)' = IsSettled(a)
    BY <1>7, <1>9 DEF IsSettled
  <2>. QED BY <1>2, <1>4, <1>5, <1>7, <2>1, <2>2
<1>. QED BY <1>8, <1>9

LEMMA BatchKeeps ==
  ASSUME IInv, TakeBatch \/ TakeRest
  PROVE  Conserved
<1> SUFFICES ASSUME NEW a \in Albums PROVE Holders(a)' = Holders(a)
  BY DEF Conserved
<1> DEFINE list == WithRelease(BatchOf)
<1>1. /\ AtPool(a) \in Nat /\ AtWorker(a) \in Nat /\ Times(queue, a) \in Nat
      /\ Times(hand, a) \in Nat /\ Times(pf.list, a) \in Nat /\ Times(writing.list, a) \in Nat
      /\ IsSettled(a) \in Nat /\ IsLost(a) \in Nat
  BY Sums
<1>2. /\ Holders(a) = AtPool(a) + AtWorker(a) + Times(queue, a) + Times(hand, a)
                      + Times(pf.list, a) + Times(writing.list, a) + IsSettled(a) + IsLost(a)
      /\ Holders(a)' = AtPool(a)' + AtWorker(a)' + Times(queue', a) + Times(hand', a)
                       + Times(pf'.list, a) + Times(writing'.list, a) + IsSettled(a)' + IsLost(a)'
  BY HoldersSum
<1>3. Triage(BatchOf) /\ queue' = QueueAfter /\ todo' = todo /\ worker' = worker /\ lost' = lost
  BY DEF TakeBatch, TakeRest
<1>4. /\ Times(QueueAfter, a) \in Nat /\ Times(list, a) \in Nat
      /\ Times(queue, a) + IsSettled(a) = Times(QueueAfter, a) + Times(list, a) + IsSettled(a)'
  BY <1>3, TriageMoves
<1>5. AtPool(a)' = AtPool(a) /\ AtWorker(a)' = AtWorker(a) /\ IsLost(a)' = IsLost(a)
  BY <1>3, PiecesSame
<1>6. Times(<<>>, a) = 0
  BY NothingTwice
<1>14. IsSettled(a)' \in Nat
  BY DEF IsSettled
<1>15. IsSettled(a) \in Nat /\ Times(queue, a) \in Nat
  BY <1>1
<1>7. Times(hand', a) + Times(pf'.list, a) + Times(writing'.list, a)
        = Times(hand, a) + Times(pf.list, a) + Times(writing.list, a) + Times(list, a)
  <2>1. CASE list = <<>>
    <3>1. hand' = hand /\ pf' = pf /\ writing' = writing
      BY <2>1 DEF TakeBatch, TakeRest
    <3>2. Times(hand', a) = Times(hand, a) /\ Times(pf'.list, a) = Times(pf.list, a)
          /\ Times(writing'.list, a) = Times(writing.list, a)
      BY <3>1, PiecesSame
    <3>3. Times(list, a) = 0
      BY <1>6, <2>1
    <3>. QED BY <1>1, <3>2, <3>3
  <2>2. CASE list # <<>> /\ TakeRest
    <3>1. writing = NoWriting /\ writing'.list = list /\ hand' = hand /\ pf' = pf
      <4>1. PICK f : writing' = [list |-> list, got |-> f.got, next |-> "rest"]
        BY <2>2 DEF TakeRest
      <4>2. writing = NoWriting /\ hand' = hand /\ pf' = pf
        BY <2>2 DEF TakeRest, IInv, Placed
      <4>. QED BY <4>1, <4>2
    <3>2. Times(hand', a) = Times(hand, a) /\ Times(pf'.list, a) = Times(pf.list, a)
      BY <3>1, PiecesSame
    <3>3. Times(writing.list, a) = 0 /\ Times(writing'.list, a) = Times(list, a)
      BY <1>6, <3>1 DEF NoWriting
    <3>. QED BY <1>1, <1>4, <3>2, <3>3
  <2>3. CASE list # <<>> /\ TakeBatch /\ pf.state = "none" /\ prefetches
    <3>1. pf'.list = list /\ hand' = hand /\ writing' = writing
      BY <2>3 DEF TakeBatch, NoPrefetch
    <3>2. pf.list = <<>>
      BY <2>3 DEF IInv, Placed, NoPrefetch
    <3>3. Times(hand', a) = Times(hand, a) /\ Times(writing'.list, a) = Times(writing.list, a)
      BY <3>1, PiecesSame
    <3>4. Times(pf.list, a) = 0 /\ Times(pf'.list, a) = Times(list, a)
      BY <1>6, <3>1, <3>2
    <3>. QED BY <1>1, <1>4, <3>3, <3>4
  <2>4. CASE list # <<>> /\ TakeBatch /\ ~(pf.state = "none" /\ prefetches)
    <3>1. hand' = list /\ pf' = pf /\ writing' = writing
      BY <2>4 DEF TakeBatch
    <3>2. hand = <<>>
      BY <2>4 DEF TakeBatch, IInv, Placed
    <3>3. Times(pf'.list, a) = Times(pf.list, a) /\ Times(writing'.list, a) = Times(writing.list, a)
      BY <3>1, PiecesSame
    <3>4. Times(hand, a) = 0 /\ Times(hand', a) = Times(list, a)
      BY <1>6, <3>1, <3>2
    <3>. QED BY <1>1, <1>4, <3>3, <3>4
  <2>. QED BY <2>1, <2>2, <2>3, <2>4
<1>8. Times(hand', a) \in Nat /\ Times(pf'.list, a) \in Nat /\ Times(writing'.list, a) \in Nat
  <2>1. ListsTyped' => /\ hand' \in Seq(Items) /\ pf'.list \in Seq(Items) /\ writing'.list \in Seq(Items)
    <3> SUFFICES ASSUME ListsTyped'
                 PROVE  hand' \in Seq(Items) /\ pf'.list \in Seq(Items) /\ writing'.list \in Seq(Items)
      OBVIOUS
    <3>1. hand' \in Seq(Found) /\ pf'.list \in Seq(Found) /\ writing'.list \in Seq(Found)
      BY DEF ListsTyped
    <3>. QED BY <3>1, FoundAreItems
  <2>2. ListsTyped'
    BY ListsStep DEF Next, Resolver
  <2>. QED BY <2>1, <2>2, TimesFacts
<1> HIDE DEF list
<1>9. Times(queue', a) = Times(QueueAfter, a)
  BY <1>3
<1> DEFINE now == Times(hand, a) + Times(pf.list, a) + Times(writing.list, a)
           next == Times(hand', a) + Times(pf'.list, a) + Times(writing'.list, a)
           rest == AtPool(a) + AtWorker(a) + IsLost(a)
<1>10. now \in Nat /\ next \in Nat /\ rest \in Nat /\ next = now + Times(list, a)
  BY <1>1, <1>7, <1>8
<1>11. Holders(a) = rest + now + Times(queue, a) + IsSettled(a)
  BY <1>1, <1>2
<1>12. Holders(a)' = rest + next + Times(QueueAfter, a) + IsSettled(a)'
  <2>1. Holders(a)' = AtPool(a) + AtWorker(a) + Times(QueueAfter, a) + Times(hand', a)
                      + Times(pf'.list, a) + Times(writing'.list, a) + IsSettled(a)' + IsLost(a)
    BY <1>2, <1>5, <1>9
  <2>. QED BY <1>1, <1>4, <1>8, <1>14, <2>1
<1> HIDE DEF now, next, rest
<1>13. rest + now + Times(queue, a) + IsSettled(a)
         = rest + next + Times(QueueAfter, a) + IsSettled(a)'
  BY <1>4, <1>10, <1>14, <1>15
<1>. QED BY <1>11, <1>12, <1>13

LEMMA OnlyLater ==
  ASSUME IInv, ListsTyped', NEW a \in Albums,
         todo' = todo, worker' = worker, queue' = queue,
         Times(hand', a) + Times(pf'.list, a) + Times(writing'.list, a) + IsSettled(a)' + IsLost(a)'
           = Times(hand, a) + Times(pf.list, a) + Times(writing.list, a) + IsSettled(a) + IsLost(a)
  PROVE  Holders(a)' = Holders(a)
<1> DEFINE then == Times(hand, a) + Times(pf.list, a) + Times(writing.list, a) + IsSettled(a) + IsLost(a)
           early == AtPool(a) + AtWorker(a) + Times(queue, a)
<1>1. /\ AtPool(a) \in Nat /\ AtWorker(a) \in Nat /\ Times(queue, a) \in Nat
      /\ Times(hand, a) \in Nat /\ Times(pf.list, a) \in Nat /\ Times(writing.list, a) \in Nat
      /\ IsSettled(a) \in Nat /\ IsLost(a) \in Nat
  BY Sums
<1>2. IsSettled(a)' \in Nat /\ IsLost(a)' \in Nat
  BY DEF IsSettled, IsLost
<1>3. Times(hand', a) \in Nat /\ Times(pf'.list, a) \in Nat /\ Times(writing'.list, a) \in Nat
  <2>1. hand' \in Seq(Found) /\ pf'.list \in Seq(Found) /\ writing'.list \in Seq(Found)
    BY DEF ListsTyped
  <2>2. hand' \in Seq(Items) /\ pf'.list \in Seq(Items) /\ writing'.list \in Seq(Items)
    BY <2>1, FoundAreItems
  <2>. QED BY <2>2, TimesFacts
<1>4. Holders(a) = AtPool(a) + AtWorker(a) + Times(queue, a) + Times(hand, a)
                   + Times(pf.list, a) + Times(writing.list, a) + IsSettled(a) + IsLost(a)
  BY HoldersSum
<1>5. Holders(a)' = AtPool(a) + AtWorker(a) + Times(queue, a) + Times(hand', a)
                    + Times(pf'.list, a) + Times(writing'.list, a) + IsSettled(a)' + IsLost(a)'
  <2>1. Holders(a)' = AtPool(a)' + AtWorker(a)' + Times(queue', a) + Times(hand', a)
                      + Times(pf'.list, a) + Times(writing'.list, a) + IsSettled(a)' + IsLost(a)'
    BY HoldersSum
  <2>2. AtPool(a)' = AtPool(a) /\ AtWorker(a)' = AtWorker(a) /\ Times(queue', a) = Times(queue, a)
    BY PiecesSame
  <2>. QED BY <2>1, <2>2
<1>6. early \in Nat /\ then \in Nat
  BY <1>1
<1>7. Holders(a) = early + then
  BY <1>1, <1>4
<1>8. Holders(a)' = early + then
  BY <1>1, <1>2, <1>3, <1>5
<1>. QED BY <1>7, <1>8

\* What moves from list to list, one of them empty before and one afterwards.
LEMMA ListMoves ==
  ASSUME IInv, ListsTyped', lookups' = lookups,
         settled' = settled, lost' = lost,
         \/ hand = <<>> /\ hand' = <<>> /\ writing = NoWriting /\ pf' = NoPrefetch /\ writing'.list = pf.list
         \/ hand' = <<>> /\ writing = NoWriting /\ pf'.list = hand /\ writing'.list = pf.list
         \/ hand' = <<>> /\ writing = NoWriting /\ pf' = pf /\ writing'.list = hand
         \/ hand' = hand /\ pf'.list = pf.list /\ writing' = writing
  PROVE  Conserved
<1> SUFFICES ASSUME NEW a \in Albums PROVE Holders(a)' = Holders(a)
  BY DEF Conserved
<1>1. todo' = todo /\ worker' = worker /\ queue' = queue
  BY DEF lookups
<1>2. Times(<<>>, a) = 0
  BY NothingTwice
<1>3. /\ Times(hand, a) \in Nat /\ Times(pf.list, a) \in Nat /\ Times(writing.list, a) \in Nat
  BY Sums
<1>4. Times(hand', a) + Times(pf'.list, a) + Times(writing'.list, a)
       = Times(hand, a) + Times(pf.list, a) + Times(writing.list, a)
  <2>1. CASE hand = <<>> /\ hand' = <<>> /\ writing = NoWriting /\ pf' = NoPrefetch /\ writing'.list = pf.list
    <3>1. Times(hand', a) = 0 /\ Times(hand, a) = 0 /\ Times(writing.list, a) = 0
          /\ Times(pf'.list, a) = 0 /\ Times(writing'.list, a) = Times(pf.list, a)
      BY <1>2, <2>1 DEF NoWriting, NoPrefetch
    <3>. QED BY <1>3, <3>1
  <2>2. CASE hand' = <<>> /\ writing = NoWriting /\ pf'.list = hand /\ writing'.list = pf.list
    <3>1. Times(hand', a) = 0 /\ Times(writing.list, a) = 0
          /\ Times(pf'.list, a) = Times(hand, a) /\ Times(writing'.list, a) = Times(pf.list, a)
      BY <1>2, <2>2 DEF NoWriting
    <3>. QED BY <1>3, <3>1
  <2>3. CASE hand' = <<>> /\ writing = NoWriting /\ pf' = pf /\ writing'.list = hand
    <3>1. Times(hand', a) = 0 /\ Times(writing.list, a) = 0
          /\ Times(pf'.list, a) = Times(pf.list, a) /\ Times(writing'.list, a) = Times(hand, a)
      BY <1>2, <2>3 DEF NoWriting
    <3>. QED BY <1>3, <3>1
  <2>4. CASE hand' = hand /\ pf'.list = pf.list /\ writing' = writing
    <3>1. Times(hand', a) = Times(hand, a) /\ Times(writing'.list, a) = Times(writing.list, a)
          /\ Times(pf'.list, a) = Times(pf.list, a)
      BY <2>4
    <3>. QED BY <3>1
  <2>. QED BY <2>1, <2>2, <2>3, <2>4
<1>5. IsSettled(a)' = IsSettled(a) /\ IsLost(a)' = IsLost(a)
  BY PiecesSame
<1>. QED BY <1>1, <1>4, <1>5, OnlyLater

\* The breaker drops what is in hand.
LEMMA BrokenMoves ==
  ASSUME IInv, ListsTyped', NEW f, NEW got, Broken(f, got), pc = "join",
         lookups' = lookups, settled' = settled
  PROVE  Conserved
<1> SUFFICES ASSUME NEW a \in Albums PROVE Holders(a)' = Holders(a)
  BY DEF Conserved
<1>1. todo' = todo /\ worker' = worker /\ queue' = queue
  BY DEF lookups
<1>2. /\ hand' = <<>> /\ writing = NoWriting /\ pf' = NoPrefetch /\ writing'.list = pf.list
      /\ lost' = [x \in Albums |-> IF x \in AlbumsOf(hand) THEN "breaker" ELSE lost[x]]
  BY DEF Broken, IInv, Placed
<1>3. Times(hand', a) = 0 /\ Times(writing.list, a) = 0
      /\ Times(pf'.list, a) = 0 /\ Times(writing'.list, a) = Times(pf.list, a)
  BY <1>2, NothingTwice DEF NoWriting, NoPrefetch
<1>4. /\ AtPool(a) \in Nat /\ AtWorker(a) \in Nat /\ Times(queue, a) \in Nat
      /\ Times(hand, a) \in Nat /\ Times(pf.list, a) \in Nat /\ Times(writing.list, a) \in Nat
      /\ IsSettled(a) \in Nat /\ IsLost(a) \in Nat
      /\ AtPool(a) + AtWorker(a) + Times(queue, a) + Times(hand, a) + Times(pf.list, a)
         + Times(writing.list, a) + IsSettled(a) + IsLost(a) <= 1
  BY Sums
<1>5. IsSettled(a)' = IsSettled(a)
  BY PiecesSame
<1>6. Times(hand, a) = 0 <=> a \notin AlbumsOf(hand)
  <2>1. hand \in Seq(Found)
    BY DEF IInv, TypeOK, ListsTyped
  <2>. QED BY <2>1, FoundAreItems, TimesFacts
<1>7. IsLost(a)' = Times(hand, a) + IsLost(a)
  <2>1. CASE a \in AlbumsOf(hand)
    <3>1. Times(hand, a) # 0
      BY <1>6, <2>1
    <3>2. Times(hand, a) >= 1
      BY <1>4, <3>1
    <3>3. Times(hand, a) = 1 /\ IsLost(a) = 0
      BY <1>4, <3>2
    <3>4. IsLost(a)' = 1
      BY <1>2, <2>1, NoneAssumption DEF IsLost, Reasons
    <3>. QED BY <3>3, <3>4
  <2>2. CASE a \notin AlbumsOf(hand)
    <3>1. Times(hand, a) = 0
      BY <1>6, <2>2
    <3>2. IsLost(a)' = IsLost(a)
      BY <1>2, <2>2 DEF IsLost
    <3>. QED BY <1>4, <3>1, <3>2
  <2>. QED BY <2>1, <2>2
<1>8. Times(hand', a) + Times(pf'.list, a) + Times(writing'.list, a) + IsSettled(a)' + IsLost(a)'
        = Times(hand, a) + Times(pf.list, a) + Times(writing.list, a) + IsSettled(a) + IsLost(a)
  BY <1>3, <1>4, <1>5, <1>7
<1>. QED BY <1>1, <1>8, OnlyLater

LEMMA WriteMoves ==
  ASSUME IInv, ListsTyped', WriteBatch
  PROVE  Conserved
<1>1. PICK n \in 0 .. Len(writing.list), outcome \in {"committed", "begin_failed", "commit_failed"} :
        LET done == {writing.list[j] : j \in 1 .. n}
            rest == AlbumsOf(writing.list) \ {it.album : it \in done}
        IN
        IF outcome = "committed"
        THEN /\ settled' = settled \union {it.album : it \in done}
             /\ lost' = [a \in Albums |-> IF a \in rest THEN "cancel" ELSE lost[a]]
        ELSE /\ lost' = [a \in Albums |-> IF a \in AlbumsOf(writing.list)
                                          THEN "transaction" ELSE lost[a]]
             /\ settled' = settled
  BY DEF WriteBatch
<1> SUFFICES ASSUME NEW a \in Albums PROVE Holders(a)' = Holders(a)
  BY DEF Conserved
<1> DEFINE done == {writing.list[j] : j \in 1 .. n}
           written == {it.album : it \in done}
<1>2. todo' = todo /\ worker' = worker /\ queue' = queue /\ hand' = hand /\ pf' = pf
      /\ writing' = NoWriting
  BY DEF WriteBatch, lookups
<1>3. Times(hand', a) = Times(hand, a) /\ Times(pf'.list, a) = Times(pf.list, a)
      /\ Times(writing'.list, a) = 0
  BY <1>2, NothingTwice DEF NoWriting
<1>4. /\ AtPool(a) \in Nat /\ AtWorker(a) \in Nat /\ Times(queue, a) \in Nat
      /\ Times(hand, a) \in Nat /\ Times(pf.list, a) \in Nat /\ Times(writing.list, a) \in Nat
      /\ IsSettled(a) \in Nat /\ IsLost(a) \in Nat
      /\ AtPool(a) + AtWorker(a) + Times(queue, a) + Times(hand, a) + Times(pf.list, a)
         + Times(writing.list, a) + IsSettled(a) + IsLost(a) <= 1
  BY Sums
<1>5. writing.list \in Seq(Found)
  BY DEF IInv, TypeOK, ListsTyped
<1>6. Times(writing.list, a) = 0 <=> a \notin AlbumsOf(writing.list)
  BY <1>5, FoundAreItems, TimesFacts
<1>7. written \subseteq AlbumsOf(writing.list)
  <2>1. \A j \in 1 .. n : j \in DOMAIN writing.list
    BY <1>5
  <2>. QED BY <2>1 DEF AlbumsOf
<1>8. IsSettled(a)' + IsLost(a)' = Times(writing.list, a) + IsSettled(a) + IsLost(a)
  <2>1. CASE a \notin AlbumsOf(writing.list)
    <3>1. Times(writing.list, a) = 0
      BY <1>6, <2>1
    <3>2. IsSettled(a)' = IsSettled(a)
      BY <1>1, <1>7, <2>1 DEF IsSettled
    <3>3. IsLost(a)' = IsLost(a)
      BY <1>1, <2>1 DEF IsLost
    <3>. QED BY <1>4, <3>1, <3>2, <3>3
  <2>2. CASE a \in AlbumsOf(writing.list)
    <3>1. Times(writing.list, a) # 0
      BY <1>6, <2>2
    <3>2. Times(writing.list, a) >= 1
      BY <1>4, <3>1
    <3>3. Times(writing.list, a) = 1 /\ IsLost(a) = 0 /\ IsSettled(a) = 0
      <4>1. Times(writing.list, a) + IsSettled(a) + IsLost(a) <= 1
        BY SMTT(30), <1>4
      <4>2. Times(writing.list, a) \in Nat /\ IsSettled(a) \in Nat /\ IsLost(a) \in Nat
        BY <1>4
      <4>. QED BY <3>2, <4>1, <4>2
    <3>4. lost[a] = None /\ a \notin settled
      BY <3>3 DEF IsLost, IsSettled
    <3>5. CASE outcome = "committed" /\ a \in written
      <4>1. a \in settled' /\ lost'[a] = None
        BY <1>1, <3>4, <3>5
      <4>2. IsSettled(a)' = 1 /\ IsLost(a)' = 0
        BY <4>1 DEF IsSettled, IsLost
      <4>. QED BY <3>3, <4>2
    <3>6. CASE ~(outcome = "committed" /\ a \in written)
      <4>1. a \notin settled' /\ lost'[a] \in {"cancel", "transaction"}
        BY <1>1, <2>2, <3>4, <3>6
      <4>2. IsSettled(a)' = 0 /\ IsLost(a)' = 1
        BY <4>1, NoneAssumption DEF IsSettled, IsLost, Reasons
      <4>. QED BY <3>3, <4>2
    <3>. QED BY <3>5, <3>6
  <2>. QED BY <2>1, <2>2
<1>9. Times(hand', a) + Times(pf'.list, a) + Times(writing'.list, a) + IsSettled(a)' + IsLost(a)'
        = Times(hand, a) + Times(pf.list, a) + Times(writing.list, a) + IsSettled(a) + IsLost(a)
  <2>1. IsSettled(a)' \in Nat /\ IsLost(a)' \in Nat
    BY DEF IsSettled, IsLost
  <2>2. Times(hand, a) + Times(pf.list, a) + 0 + IsSettled(a)' + IsLost(a)'
          = Times(hand, a) + Times(pf.list, a) + Times(writing.list, a) + IsSettled(a) + IsLost(a)
    <3>1. /\ Times(hand, a) \in Nat /\ Times(pf.list, a) \in Nat /\ Times(writing.list, a) \in Nat
          /\ IsSettled(a) \in Nat /\ IsLost(a) \in Nat
      BY <1>4
    <3>. QED BY SMTT(30), <1>8, <2>1, <3>1
  <2>. QED BY <1>3, <2>2
<1>. QED BY <1>2, <1>9, OnlyLater

LEMMA JoinOutcome ==
  ASSUME IInv, Join
  PROVE  \E f, got :
           /\ got \in SUBSET Releases
           /\ \/ Swapped(f, got) /\ f \in 0 .. Breaker - 1
              \/ Broken(f, got) /\ f = Breaker
           /\ \/ pf.result = "ok" /\ got = pf.got /\ fetched' = fetched
              \/ fetched' = Refetched(pf.list, got)
<1>1. failures \in 0 .. Breaker /\ failures < Breaker /\ Breaker \in Nat \ {0}
      /\ pf.list \in Seq(Found) /\ pf.got \in SUBSET Releases
  <2>1. failures \in 0 .. Breaker /\ pf.list \in Seq(Found) /\ pf.got \in SUBSET Releases
    BY DEF IInv, TypeOK, ListsTyped
  <2>2. ~(failures >= Breaker)
    BY DEF IInv, Placed, Join
  <2>. QED BY <2>1, <2>2, BoundsAssumption
<1>2. CASE pf.result = "ok"
  <2>1. Swapped(0, pf.got) /\ fetched' = fetched
    BY <1>2 DEF Join
  <2>2. 0 \in 0 .. Breaker - 1
    BY <1>1
  <2>. QED BY <1>1, <1>2, <2>1, <2>2
<1>3. CASE pf.result # "ok"
  <2>1. PICK f \in Fetch(http, ReleaseIds(pf.list)) :
          /\ fetched' = Refetched(pf.list, f.got)
          /\ IF f.result = "ok" THEN Swapped(0, f.got)
             ELSE IF failures + 1 >= Breaker THEN Broken(failures + 1, f.got)
             ELSE Swapped(failures + 1, f.got)
    BY <1>3 DEF Join
  <2>2. f.got \in SUBSET Releases
    BY <1>1, FetchOfList
  <2>3. CASE f.result = "ok"
    <3>1. 0 \in 0 .. Breaker - 1
      BY <1>1
    <3>. QED BY <2>1, <2>2, <2>3, <3>1
  <2>4. CASE f.result # "ok" /\ failures + 1 >= Breaker
    <3>1. failures + 1 = Breaker
      BY <1>1, <2>4
    <3>. QED BY <2>1, <2>2, <2>4, <3>1
  <2>5. CASE f.result # "ok" /\ ~(failures + 1 >= Breaker)
    <3>1. failures + 1 \in 0 .. Breaker - 1
      BY <1>1, <2>5
    <3>. QED BY <2>1, <2>2, <2>5, <3>1
  <2>. QED BY <2>3, <2>4, <2>5
<1>. QED BY <1>2, <1>3

LEMMA HoldersStep ==
  ASSUME IInv, [Next]_vars, ~Start, ~Kill
  PROVE  Conserved /\ count' = count
<1>1. ListsTyped'
  BY ListsStep
<1>2. CASE InlineLookup
  BY <1>1, <1>2, TakesKeep DEF InlineLookup
<1>3. CASE InlineEnds
  BY <1>3, InlineEndsKeeps DEF InlineEnds
<1>4. ASSUME NEW w \in Workers, WorkerTakes(w) \/ WorkerQueues(w) PROVE Conserved /\ count' = count
  <2>1. count' = count
    BY <1>4 DEF WorkerTakes, WorkerQueues
  <2>. QED BY <1>1, <1>4, <2>1, TakesKeep
<1>5. CASE TakeBatch
  BY <1>5, BatchKeeps DEF TakeBatch
<1>6. CASE LoopEnds
  BY <1>1, <1>6, ListMoves DEF LoopEnds, ghosts
<1>7. CASE PrefetchThread
  <2>1. pf'.list = pf.list
    <3>1. PICK f : pf' = [pf EXCEPT !.state = "done", !.result = f.result, !.got = f.got]
      BY <1>7 DEF PrefetchThread
    <3>2. pf \in Pf
      BY DEF IInv, TypeOK, ListsTyped, Pf
    <3>. QED BY <3>1, <3>2 DEF Pf
  <2>. QED BY <1>1, <1>7, <2>1, ListMoves DEF PrefetchThread, ghosts
<1>8. CASE Join
  <2>1. /\ lookups' = lookups /\ count' = count /\ settled' = settled /\ pc = "join"
        /\ writing = NoWriting
    BY <1>8 DEF Join, IInv, Placed
  <2>2. PICK f, got : Swapped(f, got) \/ Broken(f, got)
    BY <1>8, JoinOutcome
  <2>3. CASE Swapped(f, got)
    <3>1. hand' = <<>> /\ pf'.list = hand /\ writing'.list = pf.list /\ lost' = lost
      BY <2>3 DEF Swapped, NoPrefetch
    <3>. QED BY <1>1, <2>1, <3>1, ListMoves
  <2>4. CASE Broken(f, got)
    BY <1>1, <2>1, <2>4, BrokenMoves
  <2>. QED BY <2>2, <2>3, <2>4
<1>9. CASE FetchInline
  <2>1. /\ hand' = <<>> /\ writing = NoWriting /\ pf' = pf /\ lookups' = lookups /\ count' = count
        /\ settled' = settled /\ lost' = lost
    BY <1>9 DEF FetchInline, IInv, Placed, ghosts
  <2>2. writing'.list = hand
    <3>1. PICK got : writing' = [list |-> hand, got |-> got, next |-> "loop"]
      BY <1>9 DEF FetchInline
    <3>. QED BY <3>1
  <2>. QED BY <1>1, <2>1, <2>2, ListMoves
<1>10. CASE LastJoin
  <2>1. /\ hand' = hand /\ hand = <<>> /\ writing = NoWriting /\ pf' = NoPrefetch /\ lookups' = lookups
        /\ count' = count /\ settled' = settled /\ lost' = lost
    BY <1>10 DEF LastJoin, IInv, Placed, ghosts
  <2>2. writing'.list = pf.list
    <3>1. PICK got : writing' = [list |-> pf.list, got |-> got, next |-> "free"]
      BY <1>10 DEF LastJoin
    <3>. QED BY <3>1
  <2>. QED BY <1>1, <2>1, <2>2, ListMoves
<1>11. CASE FreePool
  BY <1>1, <1>11, ListMoves DEF FreePool, ghosts
<1>12. CASE TakeRest
  BY <1>12, BatchKeeps DEF TakeRest
<1>13. CASE End
  BY <1>13, EndKeeps DEF End
<1>14. CASE WriteBatch
  BY <1>1, <1>14, WriteMoves DEF WriteBatch
<1>15. CASE Cancel
  BY <1>1, <1>15, ListMoves DEF Cancel, ghosts
<1>16. CASE UNCHANGED vars
  <2>1. /\ lookups' = lookups /\ settled' = settled /\ lost' = lost /\ hand' = hand /\ pf' = pf
        /\ writing' = writing /\ count' = count
    BY <1>16 DEF vars, lookups, backend
  <2>. QED BY <1>1, <2>1, ListMoves
<1>. QED BY <1>2, <1>3, <1>4, <1>5, <1>6, <1>7, <1>8, <1>9, <1>10, <1>11, <1>12, <1>13, <1>14, <1>15,
            <1>16 DEF Next, Resolver, Worker

-----------------------------------------------------------------------------
(* Where lists are empty *)

LEMMA PlacedStep ==
  ASSUME IInv, [Next]_vars
  PROVE  Placed'
<1> USE DEF IInv, Placed, NoPrefetchAt, PoolDoneAt
<1>1. failures \in 0 .. Breaker /\ Breaker \in Nat \ {0} /\ ListsTyped'
  BY BoundsAssumption, ListsStep DEF TypeOK
<1>2. CASE Start
  <2>1. /\ pc = "idle" /\ pc' \in {"inline", "loop"} /\ (pc' = "inline" => inline') /\ failures' = 0
        /\ UNCHANGED <<worker, hand, taken, pf, writing>>
    BY <1>2 DEF Start
  <2>. QED BY <1>1, <2>1 DEF NoPrefetch
<1>3. CASE InlineLookup
  BY <1>3 DEF InlineLookup, backend
<1>4. CASE InlineEnds
  BY <1>4 DEF InlineEnds, backend
<1>5. ASSUME NEW w \in Workers, WorkerTakes(w) PROVE Placed'
  <2>1. todo # <<>> /\ ~inline /\ pc' = pc /\ inline' = inline
        /\ UNCHANGED <<hand, taken, writing, pf, queue, failures, prefetches>>
    BY <1>5 DEF WorkerTakes, backend
  <2>. QED BY <2>1
<1>6. ASSUME NEW w \in Workers, WorkerQueues(w) PROVE Placed'
  <2>1. worker[w] # None /\ worker' = [worker EXCEPT ![w] = None] /\ todo' = todo /\ pc' = pc
        /\ UNCHANGED <<hand, taken, writing, pf, failures, prefetches, inline>>
    BY <1>6 DEF WorkerQueues, backend
  <2>2. pc # "idle" /\ ~PoolDoneAt /\ ~inline
    BY <2>1
  <2>. QED BY <2>1, <2>2
<1>7. CASE TakeBatch
  BY <1>7 DEF TakeBatch, backend, NoPrefetch
<1>8. CASE LoopEnds
  BY <1>8 DEF LoopEnds, lookups, backend
<1>9. CASE PrefetchThread
  <2>1. pf'.state = "done" /\ pf.state = "running"
    <3>1. PICK f : pf' = [pf EXCEPT !.state = "done", !.result = f.result, !.got = f.got]
      BY <1>9 DEF PrefetchThread
    <3>2. pf \in Pf
      BY DEF TypeOK, ListsTyped, Pf
    <3>. QED BY <1>9, <3>1, <3>2 DEF Pf, PrefetchThread
  <2>2. pf # NoPrefetch
    BY <2>1 DEF NoPrefetch
  <2>. QED BY <1>9, <2>1, <2>2 DEF PrefetchThread, lookups, backend
<1>10. CASE Join
  <2>1. PICK f, got : \/ Swapped(f, got) /\ f \in 0 .. Breaker - 1
                      \/ Broken(f, got) /\ f = Breaker
    BY <1>10, JoinOutcome
  <2>2. /\ pc = "join" /\ pc' = "write" /\ hand' = <<>> /\ taken' = 0 /\ failures' = f
        /\ writing'.next = "loop" /\ UNCHANGED <<todo, worker, queue, inline, prefetches>>
    BY <1>10, <2>1 DEF Join, Swapped, Broken, lookups, backend
  <2>3. prefetches
    BY <2>2 DEF NoPrefetch
  <2>4. CASE Swapped(f, got) /\ f \in 0 .. Breaker - 1
    <3>1. pf'.state = "running" /\ ~(failures' >= Breaker)
      BY <1>1, <2>2, <2>4 DEF Swapped, NoPrefetch
    <3>. QED BY <2>2, <2>3, <3>1
  <2>5. CASE Broken(f, got)
    <3>1. pf' = NoPrefetch
      BY <2>5 DEF Broken
    <3>. QED BY <2>2, <3>1
  <2>. QED BY <2>1, <2>4, <2>5
<1>11. CASE FetchInline
  <2>1. /\ pc' = "write" /\ hand' = <<>> /\ taken' = 0 /\ pf' = pf /\ pf = NoPrefetch
        /\ UNCHANGED <<todo, worker, queue, inline, prefetches>>
    BY <1>11 DEF FetchInline, lookups, backend
  <2>2. writing'.next = "loop"
    <3>1. PICK got : writing' = [list |-> hand, got |-> got, next |-> "loop"]
      BY <1>11 DEF FetchInline
    <3>. QED BY <3>1
  <2>. QED BY <2>1, <2>2
<1>12. CASE LastJoin
  <2>1. /\ pc = "last_join" /\ pc' = "write" /\ hand' = hand /\ taken' = taken /\ pf' = NoPrefetch
        /\ UNCHANGED <<todo, worker, queue, inline, prefetches>>
    BY <1>12 DEF LastJoin, lookups, backend
  <2>2. writing'.next = "free"
    <3>1. PICK got : writing' = [list |-> pf.list, got |-> got, next |-> "free"]
      BY <1>12 DEF LastJoin
    <3>. QED BY <3>1
  <2>. QED BY <2>1, <2>2
<1>13. CASE FreePool
  BY <1>13 DEF FreePool, lookups, backend
<1>14. CASE TakeRest
  <2>1. \/ pc' = pc /\ writing' = writing
        \/ pc' = "write" /\ writing'.next = "rest"
    <3>1. CASE WithRelease(BatchOf) = <<>>
      BY <1>14, <3>1 DEF TakeRest
    <3>2. CASE WithRelease(BatchOf) # <<>>
      <4>1. PICK got : writing' = [list |-> WithRelease(BatchOf), got |-> got, next |-> "rest"]
        BY <1>14, <3>2 DEF TakeRest
      <4>2. pc' = "write"
        BY <1>14, <3>2 DEF TakeRest
      <4>. QED BY <4>1, <4>2
    <3>. QED BY <3>1, <3>2
  <2>2. pc = "rest" /\ UNCHANGED <<todo, worker, hand, taken, pf, failures, inline, prefetches>>
    BY <1>14 DEF TakeRest, backend
  <2>. QED BY <2>1, <2>2
<1>15. CASE End
  BY <1>15 DEF End, backend
<1>16. CASE WriteBatch
  <2>1. /\ pc = "write" /\ writing' = NoWriting /\ pc' = AfterWrite
        /\ UNCHANGED <<todo, worker, queue, hand, taken, pf, failures, inline, prefetches>>
    BY <1>16 DEF WriteBatch, lookups, backend
  <2>2. writing.next \in {"loop", "free", "rest"}
    BY DEF TypeOK, ListsTyped
  <2>. QED BY <1>1, <2>1, <2>2 DEF AfterWrite
<1>17. CASE Cancel
  BY <1>17 DEF Cancel, lookups, backend
<1>18. CASE Kill
  BY <1>1, <1>18, NothingTwice DEF Kill, NoPrefetch
<1>19. CASE UNCHANGED vars
  BY <1>19 DEF vars
<1>. QED BY <1>2, <1>3, <1>4, <1>5, <1>6, <1>7, <1>8, <1>9, <1>10, <1>11, <1>12, <1>13, <1>14, <1>15,
            <1>16, <1>17, <1>18, <1>19 DEF Next, Resolver, Worker

-----------------------------------------------------------------------------
(* Every album of a run stays accounted for *)

\* When nothing runs, only what is written or given up has a place.
LEMMA AtIdle ==
  ASSUME Placed', ListsTyped', pc' = "idle", NEW a \in Albums
  PROVE  Holders(a)' = IsSettled(a)' + IsLost(a)'
<1>1. /\ todo' = <<>> /\ queue' = <<>> /\ hand' = <<>> /\ pf'.list = <<>> /\ writing'.list = <<>>
      /\ \A w \in Workers : worker'[w] = None
  BY DEF Placed, PoolDoneAt, NoPrefetchAt, NoPrefetch, NoWriting
<1>2. AtPool(a)' = 0
  BY <1>1, CountSmall DEF AtPool
<1>3. AtWorker(a)' = 0
  <2>1. {w \in Workers : worker'[w] = a} = {}
    BY <1>1, NoneAssumption
  <2>. QED BY <2>1, FS_EmptySet DEF AtWorker
<1>4. /\ Times(queue', a) = 0 /\ Times(hand', a) = 0 /\ Times(pf'.list, a) = 0
      /\ Times(writing'.list, a) = 0
  BY <1>1, NothingTwice
<1>5. Holders(a)' = AtPool(a)' + AtWorker(a)' + Times(queue', a) + Times(hand', a)
                    + Times(pf'.list, a) + Times(writing'.list, a) + IsSettled(a)' + IsLost(a)'
  BY HoldersSum
<1>6. IsSettled(a)' \in Nat /\ IsLost(a)' \in Nat
  BY DEF IsSettled, IsLost
<1>7. Holders(a)' = 0 + 0 + 0 + 0 + 0 + 0 + IsSettled(a)' + IsLost(a)'
  BY <1>2, <1>3, <1>4, <1>5
<1>. QED BY <1>6, <1>7

LEMMA StartAccounts ==
  ASSUME IInv, Start
  PROVE  /\ \A a \in Albums : Holders(a)' \in {0, 1}
         /\ count' = Cardinality({a \in Albums : Holders(a)' = 1})
         /\ {a \in Albums : Holders(a)' = 1} = {a \in Albums : AtPool(a)' + AtWorker(a)' + Times(queue', a) >= 1}
<1>1. PICK S \in SUBSET Albums :
        /\ count' = Cardinality(S)
        /\ \A a \in Albums : /\ AtPool(a)' \in Nat /\ Times(queue', a) \in Nat
                             /\ AtPool(a)' + Times(queue', a) = (IF a \in S THEN 1 ELSE 0)
  BY StartFacts
<1>2. /\ hand' = <<>> /\ pf'.list = <<>> /\ writing'.list = <<>> /\ \A w \in Workers : worker'[w] = None
      /\ settled' = {} /\ lost' = [a \in Albums |-> None]
  BY DEF Start, IInv, Placed, PoolDoneAt, NoPrefetchAt, NoPrefetch, NoWriting
<1>3. ASSUME NEW a \in Albums
      PROVE  /\ Holders(a)' = (IF a \in S THEN 1 ELSE 0)
             /\ AtPool(a)' + AtWorker(a)' + Times(queue', a) = (IF a \in S THEN 1 ELSE 0)
  <2>1. AtWorker(a)' = 0
    <3>1. {w \in Workers : worker'[w] = a} = {}
      BY <1>2, NoneAssumption
    <3>. QED BY <3>1, FS_EmptySet DEF AtWorker
  <2>2. Times(hand', a) = 0 /\ Times(pf'.list, a) = 0 /\ Times(writing'.list, a) = 0
    BY <1>2, NothingTwice
  <2>3. IsSettled(a)' = 0 /\ IsLost(a)' = 0
    BY <1>2 DEF IsSettled, IsLost
  <2>4. Holders(a)' = AtPool(a)' + AtWorker(a)' + Times(queue', a) + Times(hand', a)
                      + Times(pf'.list, a) + Times(writing'.list, a) + IsSettled(a)' + IsLost(a)'
    BY HoldersSum
  <2>5. Holders(a)' = AtPool(a)' + 0 + Times(queue', a) + 0 + 0 + 0 + 0 + 0
    BY <2>1, <2>2, <2>3, <2>4
  <2>6. /\ AtPool(a)' \in Nat /\ Times(queue', a) \in Nat
        /\ AtPool(a)' + Times(queue', a) = (IF a \in S THEN 1 ELSE 0)
    BY <1>1
  <2>7. Holders(a)' = AtPool(a)' + Times(queue', a)
    BY <2>5, <2>6
  <2>8. AtPool(a)' + AtWorker(a)' + Times(queue', a) = AtPool(a)' + Times(queue', a)
    BY <2>1, <2>6
  <2>. QED BY <2>6, <2>7, <2>8
<1>4. {a \in Albums : Holders(a)' = 1} = S
  <2>1. \A a \in Albums : Holders(a)' = 1 <=> a \in S
    BY <1>3
  <2>. QED BY <2>1
<1>5. {a \in Albums : AtPool(a)' + AtWorker(a)' + Times(queue', a) >= 1} = S
  <2>1. ASSUME NEW a \in Albums
        PROVE  AtPool(a)' + AtWorker(a)' + Times(queue', a) >= 1 <=> a \in S
    <3>1. CASE a \in S
      BY <1>3, <3>1
    <3>2. CASE a \notin S
      BY <1>3, <3>2
    <3>. QED BY <3>1, <3>2
  <2>. QED BY <2>1
<1>6. \A a \in Albums : Holders(a)' \in {0, 1}
  BY <1>3
<1>. QED BY <1>1, <1>4, <1>5, <1>6

LEMMA KillAccounts ==
  ASSUME IInv, Kill
  PROVE  \A a \in Albums : Holders(a)' = 0
<1> SUFFICES ASSUME NEW a \in Albums PROVE Holders(a)' = 0
  OBVIOUS
<1>1. Placed' /\ ListsTyped' /\ pc' = "idle"
  BY PlacedStep, ListsStep DEF Next, Kill
<1>2. Holders(a)' = IsSettled(a)' + IsLost(a)'
  BY <1>1, AtIdle
<1>3. IsSettled(a)' = 0 /\ IsLost(a)' = 0
  BY DEF Kill, IsSettled, IsLost
<1>. QED BY <1>2, <1>3

\* Why albums are given up.
LostFor(a) == /\ lost[a] = "cancel" => cancelled
              /\ lost[a] = "breaker" => failures >= Breaker

LEMMA LostStep ==
  ASSUME IInv, [Next]_vars, ~Start, ~Kill, NEW a \in Albums
  PROVE  LostFor(a)'
<1>1. /\ LostFor(a) /\ (failures >= Breaker => pc \in {"write", "free", "rest", "idle"})
      /\ failures \in Nat /\ Breaker \in Nat
  BY BoundsAssumption DEF IInv, AlbumsAccounted, LostFor, Placed, TypeOK
<1> USE DEF LostFor
<1>2. CASE InlineLookup \/ TakeBatch \/ TakeRest
  BY <1>1, <1>2 DEF InlineLookup, TakeBatch, TakeRest
<1>3. CASE InlineEnds
  <2>1. /\ cancelled' = cancelled /\ failures' = failures /\ (todo = <<>> \/ cancelled)
        /\ lost' = [x \in Albums |-> IF x \in ToSet(todo) THEN "cancel" ELSE lost[x]]
    BY <1>3 DEF InlineEnds
  <2>2. todo = <<>> => ToSet(todo) = {}
    BY DEF ToSet
  <2>3. lost'[a] = lost[a] \/ (cancelled /\ lost'[a] = "cancel")
    BY <2>1, <2>2
  <2>. QED BY <1>1, <2>1, <2>3
<1>4. ASSUME NEW w \in Workers, WorkerTakes(w) PROVE LostFor(a)'
  <2>1. cancelled' = cancelled /\ failures' = failures
    BY <1>4 DEF WorkerTakes
  <2>2. lost' = lost \/ (cancelled /\ lost' = [lost EXCEPT ![Head(todo)] = "cancel"])
    BY <1>4 DEF WorkerTakes
  <2>3. lost'[a] = lost[a] \/ (cancelled /\ lost'[a] = "cancel")
    BY <2>2 DEF IInv, TypeOK
  <2>. QED BY <1>1, <2>1, <2>3
<1>5. ASSUME NEW w \in Workers, WorkerQueues(w) PROVE LostFor(a)'
  BY <1>1, <1>5 DEF WorkerQueues
<1>6. CASE LoopEnds \/ FreePool \/ PrefetchThread \/ LastJoin
  BY <1>1, <1>6 DEF LoopEnds, FreePool, PrefetchThread, LastJoin, ghosts
<1>7. CASE Join
  <2>1. PICK f, got : Swapped(f, got) \/ (Broken(f, got) /\ f = Breaker)
    BY <1>7, JoinOutcome
  <2>2. lost[a] # "breaker" /\ cancelled' = cancelled /\ failures' = f
    BY <1>1, <1>7, <2>1 DEF Join, Swapped, Broken
  <2>3. CASE Swapped(f, got)
    BY <1>1, <2>2, <2>3 DEF Swapped
  <2>4. CASE Broken(f, got) /\ f = Breaker
    <3>1. lost'[a] \in {lost[a], "breaker"} /\ failures' >= Breaker
      BY <1>1, <2>2, <2>4 DEF Broken
    <3>. QED BY <1>1, <2>2, <3>1
  <2>. QED BY <2>1, <2>3, <2>4
<1>8. CASE FetchInline
  <2>1. pc = "fetch" /\ lost' = lost /\ cancelled' = cancelled
    BY <1>8 DEF FetchInline, ghosts
  <2>. QED BY <1>1, <2>1
<1>9. CASE End
  <2>1. /\ cancelled' = cancelled /\ failures' = failures /\ (cancelled \/ queue = <<>>)
        /\ lost' = [x \in Albums |-> IF x \in AlbumsOf(queue) THEN "cancel" ELSE lost[x]]
    BY <1>9 DEF End
  <2>2. queue = <<>> => AlbumsOf(queue) = {}
    BY NothingTwice
  <2>3. lost'[a] = lost[a] \/ (cancelled /\ lost'[a] = "cancel")
    BY <2>1, <2>2
  <2>. QED BY <1>1, <2>1, <2>3
<1>10. CASE WriteBatch
  <2>1. cancelled' = cancelled /\ failures' = failures
    BY <1>10 DEF WriteBatch
  <2>2. lost'[a] \in {lost[a], "transaction"} \/ (cancelled /\ lost'[a] = "cancel")
    <3>1. PICK n \in 0 .. Len(writing.list), outcome \in {"committed", "begin_failed", "commit_failed"} :
            LET done == {writing.list[j] : j \in 1 .. n}
                rest == AlbumsOf(writing.list) \ {it.album : it \in done}
            IN
            /\ ~cancelled => n = Len(writing.list)
            /\ IF outcome = "committed"
               THEN lost' = [x \in Albums |-> IF x \in rest THEN "cancel" ELSE lost[x]]
               ELSE lost' = [x \in Albums |-> IF x \in AlbumsOf(writing.list)
                                              THEN "transaction" ELSE lost[x]]
      BY <1>10 DEF WriteBatch
    <3>2. CASE outcome # "committed"
      BY <3>1, <3>2
    <3>3. CASE outcome = "committed" /\ cancelled
      BY <3>1, <3>3
    <3>4. CASE outcome = "committed" /\ ~cancelled
      <4>1. n = Len(writing.list) /\ writing.list \in Seq(Found)
        BY <3>1, <3>4 DEF IInv, TypeOK, ListsTyped
      <4>2. AlbumsOf(writing.list) \ {it.album : it \in {writing.list[j] : j \in 1 .. n}} = {}
        BY <4>1 DEF AlbumsOf
      <4>. QED BY <3>1, <3>4, <4>2
    <3>. QED BY <3>2, <3>3, <3>4
  <2>. QED BY <1>1, <2>1, <2>2
<1>11. CASE Cancel
  BY <1>1, <1>11 DEF Cancel, ghosts
<1>12. CASE UNCHANGED vars
  BY <1>1, <1>12 DEF vars
<1>. QED BY <1>2, <1>3, <1>4, <1>5, <1>6, <1>7, <1>8, <1>9, <1>10, <1>11, <1>12 DEF Next, Resolver, Worker

\* What is given up stays given up.
LEMMA LostKept ==
  ASSUME IInv, [Next]_vars, ~Start, ~Kill, NEW a \in Albums, lost[a] # None
  PROVE  lost'[a] # None
<1>1. "cancel" # None /\ "breaker" # None /\ "transaction" # None
  BY NoneAssumption DEF Reasons
<1>2. lost \in [Albums -> Reasons \union {None}]
  BY DEF IInv, TypeOK
<1>3. lost' = lost \/ lost'[a] \in {lost[a]} \union Reasons
  <2> USE DEF Reasons
  <2>1. CASE InlineEnds
    BY <2>1 DEF InlineEnds
  <2>2. CASE End
    BY <2>2 DEF End
  <2>3. ASSUME NEW w \in Workers, WorkerTakes(w) PROVE lost' = lost \/ lost'[a] \in {lost[a]} \union Reasons
    <3>1. lost' = lost \/ lost' = [lost EXCEPT ![Head(todo)] = "cancel"]
      BY <2>3 DEF WorkerTakes
    <3>. QED BY <1>2, <3>1
  <2>4. CASE Join
    <3>1. PICK f, got : Swapped(f, got) \/ Broken(f, got)
      BY <2>4, JoinOutcome
    <3>. QED BY <3>1 DEF Swapped, Broken
  <2>5. CASE WriteBatch
    <3>1. PICK n \in 0 .. Len(writing.list), outcome \in {"committed", "begin_failed", "commit_failed"} :
            LET done == {writing.list[j] : j \in 1 .. n}
                rest == AlbumsOf(writing.list) \ {it.album : it \in done}
            IN
            IF outcome = "committed"
            THEN lost' = [x \in Albums |-> IF x \in rest THEN "cancel" ELSE lost[x]]
            ELSE lost' = [x \in Albums |-> IF x \in AlbumsOf(writing.list)
                                           THEN "transaction" ELSE lost[x]]
      BY <2>5 DEF WriteBatch
    <3>. QED BY <3>1
  <2>6. CASE \/ InlineLookup \/ \E w \in Workers : WorkerQueues(w)
             \/ TakeBatch \/ LoopEnds \/ FetchInline \/ LastJoin \/ FreePool \/ TakeRest
             \/ PrefetchThread \/ Cancel \/ UNCHANGED vars
    BY <2>6 DEF InlineLookup, WorkerQueues, TakeBatch, LoopEnds, FetchInline, LastJoin, FreePool, TakeRest,
                PrefetchThread, Cancel, vars, ghosts
  <2>. QED BY <2>1, <2>2, <2>3, <2>4, <2>5, <2>6 DEF Next, Resolver, Worker
<1>. QED BY <1>1, <1>3 DEF Reasons

LEMMA AccountedStep ==
  ASSUME IInv, [Next]_vars
  PROVE  AlbumsAccounted'
<1>1. Placed' /\ ListsTyped'
  BY PlacedStep, ListsStep
<1>2. \A a \in Albums : Holders(a)' <= 1
  <2>1. CASE Start
    <3>1. \A a \in Albums : Holders(a)' \in {0, 1}
      BY <2>1, StartAccounts
    <3>. QED BY <3>1
  <2>2. CASE Kill
    BY <2>2, KillAccounts
  <2>3. CASE ~Start /\ ~Kill
    BY <2>3, HoldersStep DEF Conserved, IInv, AlbumsAccounted
  <2>. QED BY <2>1, <2>2, <2>3
<1>3. Cardinality({a \in Albums : Holders(a)' = 1}) = count'
  <2>1. CASE Start
    BY <2>1, StartAccounts
  <2>2. CASE Kill
    <3>1. {a \in Albums : Holders(a)' = 1} = {} /\ count' = 0
      BY <2>2, KillAccounts DEF Kill
    <3>. QED BY <3>1, FS_EmptySet
  <2>3. CASE ~Start /\ ~Kill
    <3>1. Conserved /\ count' = count
      BY <2>3, HoldersStep
    <3>2. {a \in Albums : Holders(a)' = 1} = {a \in Albums : Holders(a) = 1}
      BY <3>1 DEF Conserved
    <3>. QED BY <3>1, <3>2 DEF IInv, AlbumsAccounted
  <2>. QED BY <2>1, <2>2, <2>3
<1>4. \A a \in Albums : LostFor(a)'
  <2>1. CASE Start \/ Kill
    <3>1. lost' = [a \in Albums |-> None]
      BY Zenon, <2>1 DEF Start, Kill
    <3>. QED BY <3>1, NoneAssumption DEF LostFor, Reasons
  <2>2. CASE ~Start /\ ~Kill
    BY <2>2, LostStep
  <2>. QED BY <2>1, <2>2
<1>5. ASSUME NEW a \in Albums, pc' = "idle", Holders(a)' = 1
      PROVE  a \in settled' \/ lost'[a] # None
  <2>1. IsSettled(a)' + IsLost(a)' = 1
    BY <1>1, <1>5, AtIdle
  <2>. QED BY <2>1 DEF IsSettled, IsLost
<1>. QED BY <1>2, <1>3, <1>4, <1>5 DEF AlbumsAccounted, LostFor

-----------------------------------------------------------------------------
(* total_processed never passes album_count *)

Load(a) == AtPool(a) + AtWorker(a) + Times(queue, a)

LEMMA UntriagedFacts ==
  /\ Untriaged = {a \in Albums : Load(a) >= 1} /\ Untriaged' = {a \in Albums : Load(a)' >= 1}
  /\ IsFiniteSet(Untriaged) /\ Cardinality(Untriaged) \in Nat
  /\ IsFiniteSet(Untriaged') /\ Cardinality(Untriaged') \in Nat
<1>1. Untriaged \in SUBSET Albums /\ Untriaged' \in SUBSET Albums
  BY DEF Untriaged
<1>2. IsFiniteSet(Untriaged) /\ IsFiniteSet(Untriaged')
  BY <1>1, BoundsAssumption, FS_Subset
<1>. QED BY <1>2, FS_CardinalityType DEF Untriaged, Load

LEMMA LoadTyped ==
  ASSUME ListsTyped, ListsTyped', NEW a
  PROVE  /\ Load(a) \in Nat /\ Load(a)' \in Nat
         /\ AtPool(a)' \in Nat /\ AtWorker(a)' \in Nat /\ Times(queue', a) \in Nat
<1>1. AtPool(a) \in Nat /\ AtWorker(a) \in Nat /\ Times(queue, a) \in Nat
  BY Pieces
<1>2. todo' \in Seq(Albums) /\ queue' \in Seq(Items)
  BY DEF ListsTyped
<1>3. AtPool(a)' \in Nat /\ Times(queue', a) \in Nat
  BY <1>2, CountType, TimesFacts DEF AtPool
<1>4. AtWorker(a)' \in Nat
  <2> DEFINE at == {w \in Workers : worker'[w] = a}
  <2>1. at \in SUBSET Workers
    OBVIOUS
  <2>2. Cardinality(at) \in Nat
    <3> HIDE DEF at
    <3>. QED BY <2>1, BoundsAssumption, FS_Subset, FS_CardinalityType
  <2>. QED BY <2>2 DEF AtWorker
<1>. QED BY <1>1, <1>3, <1>4 DEF Load

\* Lookups and what is given up take nothing from the later places.
LEMMA LoadShrinks ==
  ASSUME IInv, ListsTyped', Conserved, hand' = hand, pf' = pf, writing' = writing,
         settled' = settled, \A a \in Albums : lost[a] # None => lost'[a] # None
  PROVE  Untriaged' \subseteq Untriaged
<1>1. ASSUME NEW a \in Albums PROVE Load(a)' <= Load(a)
  <2>1. /\ AtPool(a) \in Nat /\ AtWorker(a) \in Nat /\ Times(queue, a) \in Nat
        /\ Times(hand, a) \in Nat /\ Times(pf.list, a) \in Nat /\ Times(writing.list, a) \in Nat
        /\ IsSettled(a) \in Nat /\ IsLost(a) \in Nat
    BY Sums
  <2>2. /\ Times(hand', a) = Times(hand, a) /\ Times(pf'.list, a) = Times(pf.list, a)
        /\ Times(writing'.list, a) = Times(writing.list, a) /\ IsSettled(a)' = IsSettled(a)
    BY PiecesSame
  <2>3. IsLost(a)' >= IsLost(a) /\ IsLost(a)' \in Nat
    BY DEF IsLost
  <2>4. AtPool(a)' \in Nat /\ AtWorker(a)' \in Nat /\ Times(queue', a) \in Nat
    BY LoadTyped DEF IInv, TypeOK
  <2>5. /\ Holders(a) = AtPool(a) + AtWorker(a) + Times(queue, a) + Times(hand, a)
                        + Times(pf.list, a) + Times(writing.list, a) + IsSettled(a) + IsLost(a)
        /\ Holders(a)' = AtPool(a)' + AtWorker(a)' + Times(queue', a) + Times(hand', a)
                         + Times(pf'.list, a) + Times(writing'.list, a) + IsSettled(a)' + IsLost(a)'
    BY HoldersSum
  <2>6. AtPool(a)' + AtWorker(a)' + Times(queue', a) + Times(hand, a)
          + Times(pf.list, a) + Times(writing.list, a) + IsSettled(a) + IsLost(a)'
        = AtPool(a) + AtWorker(a) + Times(queue, a) + Times(hand, a)
          + Times(pf.list, a) + Times(writing.list, a) + IsSettled(a) + IsLost(a)
    BY <2>2, <2>5 DEF Conserved
  <2>7. AtPool(a)' + AtWorker(a)' + Times(queue', a) <= AtPool(a) + AtWorker(a) + Times(queue, a)
    BY <2>1, <2>3, <2>4, <2>6
  <2>. QED BY <2>7 DEF Load
<1>2. ASSUME NEW a \in Albums, Load(a)' >= 1 PROVE Load(a) >= 1
  <2>1. Load(a) \in Nat /\ Load(a)' \in Nat
    BY LoadTyped DEF IInv, TypeOK
  <2>. QED BY <1>1, <1>2, <2>1
<1>. QED BY <1>2, UntriagedFacts

LEMMA LoadSame ==
  ASSUME lookups' = lookups
  PROVE  Untriaged' \subseteq Untriaged
<1>1. todo' = todo /\ worker' = worker /\ queue' = queue
  BY DEF lookups
<1>. QED BY <1>1 DEF Untriaged, AtPool, AtWorker

\* A batch is of as many albums as it has items, and none of them is left.
LEMMA BatchTriaged ==
  ASSUME IInv, ListsTyped', queue' = QueueAfter, todo' = todo, worker' = worker
  PROVE  /\ Len(BatchOf) \in Nat
         /\ Cardinality(Untriaged') + Len(BatchOf) <= Cardinality(Untriaged)
<1> DEFINE B == AlbumsOf(BatchOf)
<1>1. /\ BatchOf \in Seq(Items) /\ QueueAfter \in Seq(Items) /\ Len(BatchOf) \in Nat
      /\ \A a : Times(queue, a) = Times(BatchOf, a) + Times(QueueAfter, a)
  BY BatchFacts DEF IInv, TypeOK, ListsTyped
<1>2. B \in SUBSET Albums
  <2>1. \A it \in Items : it.album \in Albums
    BY DEF Items
  <2>2. \A j \in DOMAIN BatchOf : BatchOf[j] \in Items
    BY <1>1
  <2>. QED BY <2>1, <2>2 DEF AlbumsOf
<1>3. ASSUME NEW a \in Albums
      PROVE  /\ Times(BatchOf, a) \in Nat /\ Times(BatchOf, a) <= 1
             /\ (Times(BatchOf, a) = 0 <=> a \notin B)
             /\ Load(a)' \in Nat /\ Load(a) = Load(a)' + Times(BatchOf, a) /\ Load(a) <= 1
  <2>1. /\ AtPool(a) \in Nat /\ AtWorker(a) \in Nat /\ Times(queue, a) \in Nat
        /\ AtPool(a) + AtWorker(a) + Times(queue, a) <= 1
    <3>1. /\ AtPool(a) \in Nat /\ AtWorker(a) \in Nat /\ Times(queue, a) \in Nat
          /\ Times(hand, a) \in Nat /\ Times(pf.list, a) \in Nat /\ Times(writing.list, a) \in Nat
          /\ IsSettled(a) \in Nat /\ IsLost(a) \in Nat
          /\ AtPool(a) + AtWorker(a) + Times(queue, a) + Times(hand, a) + Times(pf.list, a)
             + Times(writing.list, a) + IsSettled(a) + IsLost(a) <= 1
      BY Sums
    <3>. QED BY <3>1
  <2>2. /\ Times(BatchOf, a) \in Nat /\ Times(QueueAfter, a) \in Nat
        /\ (Times(BatchOf, a) = 0 <=> a \notin B)
    BY <1>1, TimesFacts
  <2>3. Times(queue, a) = Times(BatchOf, a) + Times(QueueAfter, a)
    BY <1>1
  <2>4. AtPool(a)' = AtPool(a) /\ AtWorker(a)' = AtWorker(a)
    BY PiecesSame
  <2>5. Load(a) = AtPool(a) + AtWorker(a) + Times(queue, a)
        /\ Load(a)' = AtPool(a) + AtWorker(a) + Times(QueueAfter, a)
    BY <2>4 DEF Load
  <2> HIDE DEF B
  <2>. QED BY <2>1, <2>2, <2>3, <2>5
<1>4. Untriaged' \subseteq Untriaged \ B
  <2>1. ASSUME NEW a \in Albums, Load(a)' >= 1 PROVE Load(a) >= 1 /\ a \notin B
    <3> HIDE DEF B
    <3>. QED BY <1>3, <2>1
  <2>. QED BY <2>1, UntriagedFacts
<1>5. B \subseteq Untriaged
  <2>1. ASSUME NEW a \in B PROVE Load(a) >= 1
    <3>1. a \in Albums
      BY <1>2
    <3> HIDE DEF B
    <3>. QED BY <1>3, <3>1
  <2>. QED BY <1>2, <2>1, UntriagedFacts
<1>6. Cardinality(B) = Len(BatchOf) /\ IsFiniteSet(B)
  <2> DEFINE I == 1 .. Len(BatchOf)
             f == [j \in I |-> BatchOf[j].album]
  <2>1. IsFiniteSet(I) /\ Cardinality(I) = Len(BatchOf)
    <3>1. Len(BatchOf) \in Nat
      BY <1>1
    <3>. QED BY <3>1, IntervalSize
  <2>2. DOMAIN BatchOf = I
    BY <1>1
  <2>3. f \in [I -> B]
    BY <2>2 DEF AlbumsOf
  <2>4. \A y \in B : \E x \in I : f[x] = y
    BY <2>2 DEF AlbumsOf
  <2>5. ASSUME NEW x \in I, NEW y \in I, f[x] = f[y] PROVE x = y
    <3>1. BatchOf[x].album \in Albums /\ BatchOf[x].album = BatchOf[y].album
      BY <1>2, <2>2, <2>5 DEF AlbumsOf
    <3>2. Times(BatchOf, BatchOf[x].album) <= 1
      BY <1>3, <3>1
    <3>. QED BY <1>1, <2>2, <3>1, <3>2, TimesFacts
  <2> HIDE DEF I, f, B
  <2>. QED BY <2>1, <2>3, <2>4, <2>5, SameSize
<1>7. Cardinality(Untriaged') <= Cardinality(Untriaged) - Cardinality(B)
  <2> HIDE DEF B
  <2>1. IsFiniteSet(Untriaged \ B) /\ Cardinality(Untriaged \ B) = Cardinality(Untriaged) - Cardinality(B)
    <3>1. Untriaged \intersect B = B
      BY <1>5
    <3>2. Cardinality(Untriaged \ B) = Cardinality(Untriaged) - Cardinality(Untriaged \intersect B)
          /\ IsFiniteSet(Untriaged \ B)
      BY UntriagedFacts, FS_Difference
    <3>. QED BY <3>1, <3>2
  <2>2. Cardinality(Untriaged') <= Cardinality(Untriaged \ B)
    BY <1>4, <2>1, FS_Subset
  <2>. QED BY <2>1, <2>2
<1>. QED BY <1>1, <1>6, <1>7, UntriagedFacts

LEMMA Unprocessed ==
  ASSUME IInv
  PROVE  /\ total \in Nat /\ taken \in Nat /\ count \in Nat
         /\ total + taken + Cardinality(Untriaged) <= count
<1>1. count \in 0 .. Cardinality(Albums) /\ total \in 0 .. count /\ taken \in Nat
      /\ total + taken + Cardinality(Untriaged) <= count
  BY DEF IInv, TypeOK, ListsTyped, Processed
<1>2. Cardinality(Albums) \in Nat
  BY BoundsAssumption, FS_CardinalityType
<1>. QED BY <1>1, <1>2

LEMMA ProcessedStep ==
  ASSUME IInv, [Next]_vars
  PROVE  Processed' /\ total' \in Nat
<1>1. /\ total \in Nat /\ taken \in Nat /\ count \in Nat
      /\ total + taken + Cardinality(Untriaged) <= count
  BY Unprocessed
<1>2. /\ IsFiniteSet(Untriaged) /\ Cardinality(Untriaged) \in Nat /\ Cardinality(Untriaged') \in Nat
  BY UntriagedFacts
<1>3. ListsTyped' /\ ListsTyped
  BY ListsStep DEF IInv, TypeOK
\* Most steps leave the sum alone, and triage nothing.
<1>4. ASSUME Untriaged' \subseteq Untriaged, count' = count, total' \in Nat,
             total' + taken' = total + taken
      PROVE  Processed' /\ total' \in Nat
  <2>1. Cardinality(Untriaged') <= Cardinality(Untriaged)
    BY <1>2, <1>4, FS_Subset
  <2>2. taken' \in Nat
    BY <1>3 DEF ListsTyped
  <2>3. total' + taken' + Cardinality(Untriaged') <= count'
    <3>1. total' \in Nat /\ total' + taken' = total + taken /\ count' = count
      BY <1>4
    <3>2. ASSUME NEW t \in Nat, NEW k \in Nat, NEW u \in Nat, NEW v \in Nat, v <= u,
                 t + k = total + taken
          PROVE  t + k + v <= total + taken + u
      BY <1>1, <3>2
    <3>3. total' + taken' + Cardinality(Untriaged') <= total + taken + Cardinality(Untriaged)
      BY <1>2, <2>1, <2>2, <3>1, <3>2
    <3>4. total + taken + Cardinality(Untriaged) <= count' /\ total + taken \in Nat
      BY <1>1, <3>1
    <3>5. total' + taken' \in Nat
      BY <3>1, <3>4
    <3>6. ASSUME NEW x \in Nat, NEW y \in Nat, NEW z \in Nat, NEW n \in Nat, x <= y + z, y + z <= n
          PROVE  x <= n
      BY <3>6
    <3>7. total' + taken' + Cardinality(Untriaged') \in Nat
      BY <1>2, <3>5
    <3>. QED BY <1>1, <1>2, <3>1, <3>3, <3>4, <3>6, <3>7
  <2>. QED BY <1>4, <2>3 DEF Processed
<1>5. CASE Start
  <2>1. total' = 0 /\ taken' = 0
    BY <1>5 DEF Start, IInv, Placed
  <2>2. count' = Cardinality(Untriaged')
    BY <1>5, StartAccounts DEF Untriaged
  <2>3. total' + taken' + Cardinality(Untriaged') <= count'
    BY <1>2, <2>1, <2>2
  <2>. QED BY <2>1, <2>3 DEF Processed
<1>6. CASE Kill
  <2>1. total' = 0 /\ taken' = 0 /\ count' = 0 /\ todo' = <<>> /\ queue' = <<>>
        /\ worker' = [w \in Workers |-> None]
    BY <1>6 DEF Kill
  <2>2. ASSUME NEW a \in Albums PROVE Load(a)' = 0
    <3>1. AtPool(a)' = 0 /\ Times(queue', a) = 0
      BY <2>1, CountSmall, NothingTwice DEF AtPool
    <3>2. {w \in Workers : worker'[w] = a} = {}
      BY <2>1, NoneAssumption
    <3>3. AtWorker(a)' = 0
      BY <3>2, FS_EmptySet DEF AtWorker
    <3>. QED BY <3>1, <3>3 DEF Load
  <2>3. Untriaged' = {}
    BY <2>2, UntriagedFacts
  <2>4. Cardinality(Untriaged') = 0
    BY <2>3, FS_EmptySet
  <2>. QED BY <2>1, <2>4 DEF Processed
<1>7. CASE ~Start /\ ~Kill
  <2>1. Conserved /\ count' = count
    BY <1>7, HoldersStep
  <2>2. CASE InlineLookup \/ InlineEnds \/ End \/ \E w \in Workers : Worker(w)
    <3>1. /\ hand' = hand /\ pf' = pf /\ writing' = writing /\ settled' = settled
          /\ total' = total /\ taken' = taken
      BY <2>2 DEF InlineLookup, InlineEnds, End, Worker, WorkerTakes, WorkerQueues
    <3>2. \A a \in Albums : lost[a] # None => lost'[a] # None
      BY <1>7, LostKept
    <3>3. Untriaged' \subseteq Untriaged
      BY <1>3, <2>1, <3>1, <3>2, LoadShrinks
    <3>. QED BY <1>1, <1>4, <2>1, <3>1, <3>3
  <2>3. CASE TakeBatch
    <3>1. queue' = QueueAfter /\ todo' = todo /\ worker' = worker /\ pc = "loop"
          /\ \/ taken' = Len(BatchOf) /\ total' = total
             \/ taken' = taken /\ total' = total + Len(BatchOf)
      BY <2>3 DEF TakeBatch
    <3>2. taken = 0
      BY <3>1 DEF IInv, Placed
    <3>3. Len(BatchOf) \in Nat /\ Cardinality(Untriaged') + Len(BatchOf) <= Cardinality(Untriaged)
      BY <1>3, <3>1, BatchTriaged
    <3>4. total' + taken' = total + Len(BatchOf) /\ total' \in Nat /\ taken' \in Nat
      BY <1>1, <3>1, <3>2, <3>3
    <3>5. total' + taken' + Cardinality(Untriaged') <= count'
      BY SMTT(30), <1>1, <1>2, <2>1, <3>2, <3>3, <3>4
    <3>. QED BY <3>4, <3>5 DEF Processed
  <2>4. CASE TakeRest
    <3>1. queue' = QueueAfter /\ todo' = todo /\ worker' = worker /\ total' = total /\ taken' = taken
      BY <2>4 DEF TakeRest
    <3>2. Len(BatchOf) \in Nat /\ Cardinality(Untriaged') + Len(BatchOf) <= Cardinality(Untriaged)
      BY <1>3, <3>1, BatchTriaged
    <3>3. total' + taken' + Cardinality(Untriaged') <= count'
      BY <1>1, <1>2, <2>1, <3>1, <3>2
    <3>. QED BY <1>1, <3>1, <3>3 DEF Processed
  <2>5. CASE Join
    <3>1. PICK f, got : Swapped(f, got) \/ Broken(f, got)
      BY <2>5, JoinOutcome
    <3>2. total' = total + taken /\ taken' = 0 /\ lookups' = lookups
      BY <2>5, <3>1 DEF Swapped, Broken, Join
    <3>. QED BY <1>1, <1>4, <2>1, <3>2, LoadSame
  <2>6. CASE FetchInline
    <3>1. total' = total + taken /\ taken' = 0 /\ lookups' = lookups
      BY <2>6 DEF FetchInline
    <3>. QED BY <1>1, <1>4, <2>1, <3>1, LoadSame
  <2>7. CASE LoopEnds \/ PrefetchThread \/ LastJoin \/ FreePool \/ WriteBatch \/ Cancel \/ UNCHANGED vars
    <3>1. total' = total /\ taken' = taken /\ lookups' = lookups
      BY <2>7 DEF LoopEnds, PrefetchThread, LastJoin, FreePool, WriteBatch, Cancel, vars, lookups, backend
    <3>. QED BY <1>1, <1>4, <2>1, <3>1, LoadSame
  <2>. QED BY <1>7, <2>2, <2>3, <2>4, <2>5, <2>6, <2>7 DEF Next, Resolver
<1>. QED BY <1>5, <1>6, <1>7

-----------------------------------------------------------------------------
(* What is written is what was fetched *)

\* An album that is in one place is in no other.
LEMMA Apart ==
  ASSUME IInv, NEW a \in Albums
  PROVE  /\ a \in AlbumsOf(queue) => /\ a \notin AlbumsOf(writing.list) /\ a \notin AlbumsOf(pf.list)
                                     /\ a \notin settled /\ lost[a] = None
         /\ a \in AlbumsOf(hand) => a \notin settled
         /\ a \in AlbumsOf(pf.list) => a \notin AlbumsOf(writing.list) /\ a \notin settled
         /\ a \in AlbumsOf(writing.list) => a \notin settled
<1>1. /\ Times(queue, a) \in Nat /\ Times(hand, a) \in Nat
      /\ Times(pf.list, a) \in Nat /\ Times(writing.list, a) \in Nat
      /\ IsSettled(a) \in Nat /\ IsLost(a) \in Nat
      /\ Times(queue, a) + Times(hand, a) + Times(pf.list, a)
         + Times(writing.list, a) + IsSettled(a) + IsLost(a) <= 1
  <2>1. /\ AtPool(a) \in Nat /\ AtWorker(a) \in Nat /\ Times(queue, a) \in Nat
        /\ Times(hand, a) \in Nat /\ Times(pf.list, a) \in Nat /\ Times(writing.list, a) \in Nat
        /\ IsSettled(a) \in Nat /\ IsLost(a) \in Nat
        /\ AtPool(a) + AtWorker(a) + Times(queue, a) + Times(hand, a) + Times(pf.list, a)
           + Times(writing.list, a) + IsSettled(a) + IsLost(a) <= 1
    BY Sums
  <2>. QED BY <2>1
<1>2. queue \in Seq(Items) /\ hand \in Seq(Items) /\ pf.list \in Seq(Items) /\ writing.list \in Seq(Items)
  BY FoundAreItems DEF IInv, TypeOK, ListsTyped
<1>3. /\ (a \in AlbumsOf(queue) <=> Times(queue, a) >= 1)
      /\ (a \in AlbumsOf(hand) <=> Times(hand, a) >= 1)
      /\ (a \in AlbumsOf(pf.list) <=> Times(pf.list, a) >= 1)
      /\ (a \in AlbumsOf(writing.list) <=> Times(writing.list, a) >= 1)
  <2>1. ASSUME NEW n \in Nat PROVE n = 0 <=> ~(n >= 1)
    OBVIOUS
  <2>. QED BY <1>1, <1>2, <2>1, TimesFacts
<1>4. (a \in settled <=> IsSettled(a) >= 1) /\ (lost[a] # None <=> IsLost(a) >= 1)
  BY DEF IsSettled, IsLost
<1>5. CASE Times(queue, a) >= 1
  <2>1. ~(Times(pf.list, a) >= 1) /\ ~(Times(writing.list, a) >= 1) /\ ~(IsSettled(a) >= 1) /\ ~(IsLost(a) >= 1)
        /\ ~(Times(hand, a) >= 1)
    BY <1>1, <1>5
  <2>. QED BY <1>3, <1>4, <2>1
<1>6. CASE ~(Times(queue, a) >= 1)
  <2>1. Times(hand, a) >= 1 => ~(IsSettled(a) >= 1)
    BY <1>1
  <2>2. Times(pf.list, a) >= 1 => ~(IsSettled(a) >= 1) /\ ~(Times(writing.list, a) >= 1)
    BY <1>1
  <2>3. Times(writing.list, a) >= 1 => ~(IsSettled(a) >= 1)
    BY <1>1
  <2>. QED BY <1>3, <1>4, <1>6, <2>1, <2>2, <2>3
<1>. QED BY <1>5, <1>6

LEMMA ListAlbums ==
  ASSUME NEW list \in Seq(Found)
  PROVE  /\ AlbumsOf(list) \subseteq Albums
         /\ \A j \in DOMAIN list : list[j].release = ReleaseOf[list[j].album]
<1>1. \A j \in DOMAIN list : list[j] \in Found
  OBVIOUS
<1>2. \A it \in Found : it.album \in Albums /\ it.release = ReleaseOf[it.album]
  BY DEF Found, Items
<1>. QED BY <1>1, <1>2 DEF AlbumsOf

\* A fetch settles what fetched says of the albums it was for, and of no other.
Says(list, got, now) ==
    /\ \A j \in DOMAIN list : list[j].album \in now <=> list[j].release \in got
    /\ \A a : a \notin AlbumsOf(list) => (a \in now <=> a \in fetched)

LEMMA RefetchedSays ==
  ASSUME NEW list \in Seq(Found), NEW got
  PROVE  /\ Says(list, got, Refetched(list, got))
         /\ fetched \subseteq Albums => Refetched(list, got) \subseteq Albums
<1> DEFINE now == Refetched(list, got)
           came == {list[j].album : j \in {k \in DOMAIN list : list[k].release \in got}}
<1>1. now = (fetched \ AlbumsOf(list)) \union came
  BY DEF Refetched
<1>2. came \subseteq AlbumsOf(list) /\ AlbumsOf(list) \subseteq Albums
  BY ListAlbums DEF AlbumsOf
<1>3. ASSUME NEW j \in DOMAIN list PROVE list[j].album \in now <=> list[j].release \in got
  <2>1. list[j].album \in AlbumsOf(list)
    BY DEF AlbumsOf
  <2>2. ASSUME list[j].album \in came PROVE list[j].release \in got
    <3>1. PICK k \in DOMAIN list : list[k].release \in got /\ list[k].album = list[j].album
      BY <2>2
    <3>. QED BY <3>1, ListAlbums
  <2>. QED BY <1>1, <2>1, <2>2
<1>4. \A a : a \notin AlbumsOf(list) => (a \in now <=> a \in fetched)
  BY <1>1, <1>2
<1>5. fetched \subseteq Albums => now \subseteq Albums
  BY <1>1, <1>2
<1>. QED BY <1>3, <1>4, <1>5 DEF Says

\* What triage says of the albums it is done with.
LEMMA TriageSays ==
  ASSUME IInv, Triage(BatchOf), NEW a \in Albums
  PROVE  /\ db'[a].release = db[a].release
         /\ a \notin AlbumsUnmatched(BatchOf) => db'[a] = db[a]
         /\ a \in AlbumsUnmatched(BatchOf) =>
              db'[a].status \in {"failed", "no_match"} /\ a \notin fetched /\ a \notin settled
         /\ db'[a] \in [status : {"pending", "resolved", "no_match", "failed"}, release : Releases \union {None}]
<1> DEFINE Row == [status : {"pending", "resolved", "no_match", "failed"}, release : Releases \union {None}]
<1>1. db[a] \in Row /\ queue \in Seq(Items)
  BY DEF IInv, TypeOK, ListsTyped
<1>2. db'[a] = IF \E it \in Unmatched(BatchOf) : it.album = a
               THEN [db[a] EXCEPT !.status = IF (CHOOSE it \in Unmatched(BatchOf) : it.album = a).service_error
                                             THEN "failed" ELSE "no_match"]
               ELSE db[a]
  BY DEF Triage, Unmatched
<1>3. a \in AlbumsUnmatched(BatchOf) <=> \E it \in Unmatched(BatchOf) : it.album = a
  BY DEF AlbumsUnmatched
<1>4. CASE a \notin AlbumsUnmatched(BatchOf)
  BY <1>1, <1>2, <1>3, <1>4
<1>5. CASE a \in AlbumsUnmatched(BatchOf)
  <2>1. db'[a] \in {[db[a] EXCEPT !.status = "failed"], [db[a] EXCEPT !.status = "no_match"]}
    BY <1>2, <1>3, <1>5
  <2>2. db'[a] \in Row /\ db'[a].release = db[a].release /\ db'[a].status \in {"failed", "no_match"}
    BY <1>1, <2>1
  <2>3. a \in AlbumsOf(queue)
    <3>1. BatchOf \in Seq(Items) /\ QueueAfter \in Seq(Items)
          /\ Times(queue, a) = Times(BatchOf, a) + Times(QueueAfter, a)
      BY <1>1, BatchFacts
    <3>2. a \in AlbumsOf(BatchOf)
      BY <1>5, <3>1, TriageFacts
    <3>3. Times(BatchOf, a) # 0 /\ Times(BatchOf, a) \in Nat /\ Times(QueueAfter, a) \in Nat
      BY <3>1, <3>2, TimesFacts
    <3>4. Times(queue, a) # 0
      BY <3>1, <3>3
    <3>. QED BY <1>1, <3>4, TimesFacts
  <2>4. a \notin settled /\ a \notin fetched
    BY <2>3, Apart DEF IInv, Gathered
  <2>. QED BY <1>5, <2>2, <2>4
<1>. QED BY <1>4, <1>5

\* The list that is written next is the one that was fetched.
LEMMA WritesFetched ==
  ASSUME IInv, \A a \in Albums : lost[a] # None => lost'[a] # None,
         NEW list \in Seq(Found), NEW got, Says(list, got, fetched'),
         writing = NoWriting, writing'.list = list, writing'.got = got,
         pf'.state # "done", pf.state = "done" => list = pf.list,
         \A a \in settled' : a \notin AlbumsOf(list),
         \A a \in settled' : \/ a \in settled /\ db'[a] = db[a]
                             \/ db'[a].status \in {"failed", "no_match"} /\ a \notin fetched,
         settled \subseteq settled', settled' \subseteq Albums, fetched' \subseteq Albums,
         \A a \in Albums : db'[a].release = db[a].release
  PROVE  Gathered' /\ WrittenAsFetched'
<1>1. \A a \in Albums : db'[a].release \in {None, ReleaseOf[a]}
  BY DEF IInv, Gathered
<1>2. ASSUME NEW a \in fetched'
      PROVE  a \in AlbumsOf(writing'.list) \/ a \in settled' \/ lost'[a] # None
  <2>1. CASE a \in AlbumsOf(list)
    BY <2>1
  <2>2. CASE a \notin AlbumsOf(list)
    <3>1. a \in fetched /\ a \in Albums
      BY <1>2, <2>2 DEF Says
    <3>2. AlbumsOf(writing.list) = {}
      BY NothingTwice DEF NoWriting
    <3>3. a \in settled \/ lost[a] # None
      BY <2>2, <3>1, <3>2 DEF IInv, Gathered
    <3>. QED BY <3>1, <3>3
  <2>. QED BY <2>1, <2>2
<1>3. \A j \in DOMAIN writing'.list :
        writing'.list[j].album \in fetched' <=> writing'.list[j].release \in writing'.got
  BY DEF Says
<1>4. Gathered'
  BY <1>1, <1>2, <1>3 DEF Gathered, AlbumsOf
<1>5. ASSUME NEW a \in settled'
      PROVE  /\ db'[a].status = "resolved" => a \in fetched' /\ db'[a].release = ReleaseOf[a]
             /\ db'[a].status = "failed" /\ a \notin Trackless => a \notin fetched'
  <2>1. a \in fetched' <=> a \in fetched
    BY <1>5 DEF Says
  <2>2. CASE a \in settled /\ db'[a] = db[a]
    BY <2>1, <2>2 DEF IInv, WrittenAsFetched
  <2>3. CASE db'[a].status \in {"failed", "no_match"} /\ a \notin fetched
    BY <2>1, <2>3
  <2>. QED BY <1>5, <2>2, <2>3
<1>. QED BY <1>4, <1>5 DEF WrittenAsFetched

\* One transaction.
LEMMA WriteSays ==
  ASSUME IInv, WriteBatch
  PROVE  /\ Gathered' /\ WrittenAsFetched' /\ settled' \subseteq Albums
         /\ \A a \in Albums : db'[a] \in [status : {"pending", "resolved", "no_match", "failed"},
                                          release : Releases \union {None}]
<1> DEFINE Row == [status : {"pending", "resolved", "no_match", "failed"}, release : Releases \union {None}]
<1>1. PICK n \in 0 .. Len(writing.list), outcome \in {"committed", "begin_failed", "commit_failed"} :
        LET done == {writing.list[j] : j \in 1 .. n}
            rest == AlbumsOf(writing.list) \ {it.album : it \in done}
        IN
        IF outcome = "committed"
        THEN /\ db' = [a \in Albums |->
                         IF \E it \in done: it.album = a
                         THEN Written(CHOOSE it \in done: it.album = a) ELSE db[a]]
             /\ settled' = settled \union {it.album : it \in done}
             /\ lost' = [a \in Albums |-> IF a \in rest THEN "cancel" ELSE lost[a]]
        ELSE /\ lost' = [a \in Albums |-> IF a \in AlbumsOf(writing.list)
                                          THEN "transaction" ELSE lost[a]]
             /\ db' = db /\ settled' = settled
  BY DEF WriteBatch
<1> DEFINE done == {writing.list[j] : j \in 1 .. n}
           written == {it.album : it \in done}
<1>2. writing' = NoWriting /\ fetched' = fetched /\ pf' = pf
  BY DEF WriteBatch
<1>3. /\ writing.list \in Seq(Found) /\ settled \subseteq Albums /\ fetched \subseteq Albums
      /\ db \in [Albums -> Row] /\ lost \in [Albums -> Reasons \union {None}]
  BY DEF IInv, TypeOK, ListsTyped
<1>4. \A j \in 1 .. n : j \in DOMAIN writing.list
  BY <1>3
<1>5. written \subseteq AlbumsOf(writing.list) /\ AlbumsOf(writing.list) \subseteq Albums
  BY <1>3, <1>4, ListAlbums DEF AlbumsOf
\* What a committed transaction writes for an album.
<1>6. ASSUME NEW a \in written, outcome = "committed"
      PROVE  /\ db'[a] \in Row /\ db'[a].release \in {None, ReleaseOf[a]}
             /\ db'[a].status = "resolved" => a \in fetched /\ db'[a].release = ReleaseOf[a]
             /\ db'[a].status = "failed" /\ a \notin Trackless => a \notin fetched
  <2> DEFINE it == CHOOSE x \in done : x.album = a
  <2>1. it \in done /\ it.album = a
    OBVIOUS
  <2>2. a \in Albums /\ db'[a] = Written(it)
    <3>1. a \in Albums /\ \E x \in done : x.album = a
      BY <1>5
    <3>. QED BY <1>1, <1>6, <3>1
  <2> HIDE DEF it
  <2>3. PICK j \in DOMAIN writing.list : it = writing.list[j]
    BY <1>4, <2>1
  <2>4. it.release = ReleaseOf[a] /\ (a \in fetched <=> it.release \in writing.got)
    <3>1. writing.list[j].release = ReleaseOf[writing.list[j].album]
      BY <1>3, ListAlbums
    <3>2. writing.list[j].album \in fetched <=> writing.list[j].release \in writing.got
      BY DEF IInv, Gathered
    <3>. QED BY <2>1, <2>3, <3>1, <3>2
  <2>5. ReleaseOf[a] \in Releases
    BY <2>2, ReleaseAssumption
  <2>6. CASE it.release \in writing.got /\ it.album \notin Trackless
    <3>1. db'[a] = [status |-> "resolved", release |-> it.release]
      BY <2>2, <2>6 DEF Written
    <3>. QED BY <2>4, <2>5, <2>6, <3>1
  <2>7. CASE ~(it.release \in writing.got /\ it.album \notin Trackless)
    <3>1. db'[a] = [db[a] EXCEPT !.status = "failed"]
      BY <2>1, <2>2, <2>7 DEF Written
    <3>2. db[a] \in Row /\ db[a].release \in {None, ReleaseOf[a]}
      BY <1>3, <2>2 DEF IInv, Gathered
    <3>3. db'[a] \in Row /\ db'[a].release = db[a].release /\ db'[a].status = "failed"
      BY <3>1, <3>2
    <3>. QED BY <2>1, <2>4, <2>7, <3>2, <3>3
  <2>. QED BY <2>6, <2>7
<1>7. ASSUME NEW a \in Albums, ~(outcome = "committed" /\ a \in written)
      PROVE  db'[a] = db[a]
  <2>1. CASE outcome = "committed"
    <3>1. ~\E x \in done : x.album = a
      BY <1>7, <2>1
    <3>. QED BY <1>1, <2>1, <3>1
  <2>2. CASE outcome # "committed"
    BY <1>1, <2>2
  <2>. QED BY <2>1, <2>2
<1>8. settled' = (IF outcome = "committed" THEN settled \union written ELSE settled)
  BY <1>1
<1> HIDE DEF written, done
<1>9. ASSUME NEW a \in Albums PROVE db'[a] \in Row /\ db'[a].release \in {None, ReleaseOf[a]}
  <2>1. db[a] \in Row /\ db[a].release \in {None, ReleaseOf[a]}
    BY <1>3 DEF IInv, Gathered
  <2>. QED BY <1>6, <1>7, <2>1
<1>10. ASSUME NEW a \in fetched
       PROVE  a \in settled' \/ lost'[a] # None \/ (pf'.state = "done" /\ a \in AlbumsOf(pf'.list))
  <2>1. a \in Albums /\ (\/ a \in AlbumsOf(writing.list) \/ a \in settled \/ lost[a] # None
                         \/ pf.state = "done" /\ a \in AlbumsOf(pf.list))
    BY <1>3 DEF IInv, Gathered
  <2>2. "cancel" # None /\ "transaction" # None
    BY NoneAssumption DEF Reasons
  <2>3. a \in AlbumsOf(writing.list) => a \in settled' \/ lost'[a] # None
    BY <1>1, <2>1, <2>2 DEF written, done
  <2>4. lost[a] # None => lost'[a] # None
    BY <1>1, <2>1, <2>2
  <2>. QED BY <1>2, <1>8, <2>1, <2>3, <2>4
<1>11. ASSUME NEW a \in settled'
       PROVE  /\ db'[a].status = "resolved" => a \in fetched /\ db'[a].release = ReleaseOf[a]
              /\ db'[a].status = "failed" /\ a \notin Trackless => a \notin fetched
  <2>1. CASE outcome = "committed" /\ a \in written
    BY <1>6, <2>1
  <2>2. CASE ~(outcome = "committed" /\ a \in written)
    <3>1. a \in settled /\ a \in Albums
      BY <1>3, <1>8, <1>11, <2>2
    <3>2. db'[a] = db[a]
      BY <1>7, <2>2, <3>1
    <3>. QED BY <3>1, <3>2 DEF IInv, WrittenAsFetched
  <2>. QED BY <2>1, <2>2
<1>12. Gathered'
  <2>1. DOMAIN writing'.list = {}
    BY <1>2 DEF NoWriting
  <2>2. pf'.state = "done" =>
          \A j \in DOMAIN pf'.list : pf'.list[j].album \in fetched' <=> pf'.list[j].release \in pf'.got
    BY <1>2 DEF IInv, Gathered
  <2>3. \A a \in fetched' :
          \/ a \in settled' \/ lost'[a] # None
          \/ pf'.state = "done" /\ a \in {pf'.list[j].album : j \in DOMAIN pf'.list}
    BY <1>2, <1>10 DEF AlbumsOf
  <2>. QED BY <1>9, <2>1, <2>2, <2>3 DEF Gathered, AlbumsOf
<1>13. WrittenAsFetched'
  BY <1>2, <1>11 DEF WrittenAsFetched
<1>14. settled' \subseteq Albums
  BY <1>3, <1>5, <1>8
<1>. QED BY <1>9, <1>12, <1>13, <1>14

LEMMA SaysStep ==
  ASSUME IInv, [Next]_vars
  PROVE  /\ Gathered' /\ WrittenAsFetched' /\ settled' \subseteq Albums /\ fetched' \subseteq Albums
         /\ \A a \in Albums : db'[a] \in [status : {"pending", "resolved", "no_match", "failed"},
                                          release : Releases \union {None}]
<1> DEFINE Row == [status : {"pending", "resolved", "no_match", "failed"}, release : Releases \union {None}]
           Goal == /\ Gathered' /\ WrittenAsFetched' /\ settled' \subseteq Albums /\ fetched' \subseteq Albums
                   /\ \A a \in Albums : db'[a] \in Row
<1>1. /\ hand \in Seq(Found) /\ pf \in Pf /\ writing \in Writing /\ pf.list \in Seq(Found)
      /\ settled \subseteq Albums /\ fetched \subseteq Albums /\ db \in [Albums -> Row]
      /\ WrittenAsFetched /\ Gathered
  BY DEF IInv, TypeOK, ListsTyped, Pf, Writing
<1>2. CASE Start \/ Kill
  <2>1. settled' = {} /\ fetched' = {} /\ db' = db /\ writing'.list = <<>> /\ pf'.state = "none"
    <3>1. NoPrefetch.state = "none" /\ NoWriting.list = <<>>
      BY DEF NoPrefetch, NoWriting
    <3>2. CASE Start
      <4>1. /\ pc = "idle" /\ settled' = {} /\ fetched' = {} /\ db' = db
            /\ writing' = writing /\ pf' = pf
        BY <3>2 DEF Start
      <4>. QED BY <3>1, <4>1 DEF IInv, Placed, NoPrefetchAt
    <3>3. CASE Kill
      BY <3>1, <3>3 DEF Kill
    <3>. QED BY <1>2, <3>2, <3>3
  <2>. QED BY <1>1, <2>1 DEF Gathered, WrittenAsFetched
<1>3. CASE ~Start /\ ~Kill
  <2>1. \A a \in Albums : lost[a] # None => lost'[a] # None
    BY <1>3, LostKept
  <2>2. CASE UNCHANGED <<db, writing, pf, fetched, settled>>
    BY <1>1, <2>1, <2>2 DEF Gathered, WrittenAsFetched, AlbumsOf
  <2>3. CASE InlineLookup \/ InlineEnds \/ LoopEnds \/ FreePool \/ End \/ Cancel \/ UNCHANGED vars
             \/ \E w \in Workers : Worker(w)
    <3>1. UNCHANGED <<db, writing, pf, fetched, settled>>
      BY <2>3 DEF InlineLookup, InlineEnds, LoopEnds, FreePool, End, Cancel, vars, Worker, WorkerTakes,
                  WorkerQueues, ghosts
    <3>. QED BY <2>2, <3>1
  <2>4. CASE TakeBatch \/ TakeRest
    <3> DEFINE list == WithRelease(BatchOf)
    <3>1. Triage(BatchOf) /\ BatchOf \in Seq(Items) /\ list \in Seq(Found)
      BY <2>4, BatchFacts, TriageFacts DEF TakeBatch, TakeRest, IInv, TypeOK, ListsTyped
    <3>2. settled' = settled \union AlbumsUnmatched(BatchOf)
      BY <3>1 DEF Triage, AlbumsUnmatched, Unmatched
    <3>3. AlbumsUnmatched(BatchOf) \subseteq AlbumsOf(BatchOf) /\ AlbumsOf(BatchOf) \subseteq Albums
          /\ AlbumsOf(BatchOf) \subseteq AlbumsOf(queue) /\ AlbumsOf(list) \subseteq AlbumsOf(BatchOf)
      <4>1. \A it \in Items : it.album \in Albums
        BY DEF Items
      <4>2. AlbumsOf(BatchOf) \subseteq Albums
        BY <3>1, <4>1 DEF AlbumsOf
      <4>3. ASSUME NEW a \in AlbumsOf(BatchOf) PROVE a \in AlbumsOf(queue)
        <5>1. queue \in Seq(Items)
          BY DEF IInv, TypeOK, ListsTyped
        <5>2. /\ BatchOf \in Seq(Items) /\ QueueAfter \in Seq(Items)
              /\ Times(queue, a) = Times(BatchOf, a) + Times(QueueAfter, a)
          BY <5>1, BatchFacts
        <5>3. Times(BatchOf, a) # 0 /\ Times(BatchOf, a) \in Nat /\ Times(QueueAfter, a) \in Nat
          BY <5>2, <4>3, TimesFacts
        <5>4. Times(queue, a) # 0
          BY <5>2, <5>3
        <5>. QED BY <5>1, <5>4, TimesFacts
      <4>. QED BY <3>1, <4>2, <4>3, TriageFacts
    <3>4. ASSUME NEW a \in Albums
          PROVE  /\ db'[a].release = db[a].release /\ db'[a] \in Row
                 /\ a \notin AlbumsUnmatched(BatchOf) => db'[a] = db[a]
                 /\ a \in AlbumsUnmatched(BatchOf) =>
                      db'[a].status \in {"failed", "no_match"} /\ a \notin fetched /\ a \notin settled
      BY <3>1, TriageSays
    <3>5. \A a \in settled' : \/ a \in settled /\ db'[a] = db[a]
                              \/ db'[a].status \in {"failed", "no_match"} /\ a \notin fetched
      BY <1>1, <3>2, <3>3, <3>4
    <3>6. settled' \subseteq Albums /\ settled \subseteq settled'
      BY <1>1, <3>2, <3>3
    <3>7. CASE fetched' = fetched /\ writing' = writing /\ (pf' = pf \/ (pf.state = "none" /\ pf'.state = "running"))
      <4>1. WrittenAsFetched'
        <5>1. ASSUME NEW a \in settled'
              PROVE  /\ db'[a].status = "resolved" => a \in fetched' /\ db'[a].release = ReleaseOf[a]
                     /\ db'[a].status = "failed" /\ a \notin Trackless => a \notin fetched'
          BY <1>1, <3>5, <3>7, <5>1 DEF WrittenAsFetched
        <5>. QED BY <5>1 DEF WrittenAsFetched
      <4>2. \A a \in Albums : db'[a].release \in {None, ReleaseOf[a]}
        BY <1>1, <3>4 DEF Gathered
      <4>3. \A a \in fetched' :
              \/ a \in AlbumsOf(writing'.list) \/ a \in settled' \/ lost'[a] # None
              \/ pf'.state = "done" /\ a \in AlbumsOf(pf'.list)
        <5>1. ASSUME NEW a \in fetched'
              PROVE  \/ a \in AlbumsOf(writing'.list) \/ a \in settled' \/ lost'[a] # None
                     \/ pf'.state = "done" /\ a \in AlbumsOf(pf'.list)
          <6>1. a \in fetched /\ a \in Albums
            BY <1>1, <3>7, <5>1
          <6>2. \/ a \in AlbumsOf(writing.list) \/ a \in settled \/ lost[a] # None
                \/ pf.state = "done" /\ a \in AlbumsOf(pf.list)
            BY <1>1, <6>1 DEF Gathered
          <6>. QED BY <2>1, <3>6, <3>7, <6>1, <6>2
        <5>. QED BY <5>1
      <4>4. \A j \in DOMAIN writing'.list :
              writing'.list[j].album \in fetched' <=> writing'.list[j].release \in writing'.got
        BY <1>1, <3>7 DEF Gathered
      <4>5. pf'.state = "done" =>
              \A j \in DOMAIN pf'.list : pf'.list[j].album \in fetched' <=> pf'.list[j].release \in pf'.got
        BY <1>1, <3>7 DEF Gathered
      <4>6. Gathered'
        BY <4>2, <4>3, <4>4, <4>5 DEF Gathered, AlbumsOf
      <4>. QED BY <1>1, <3>4, <3>6, <3>7, <4>1, <4>6
    <3>8. CASE TakeBatch
      <4>1. /\ fetched' = fetched /\ writing' = writing
            /\ pf' = pf \/ (pf.state = "none" /\ pf' = [NoPrefetch EXCEPT !.state = "running", !.list = list])
        BY <3>8 DEF TakeBatch
      <4>2. [NoPrefetch EXCEPT !.state = "running", !.list = list].state = "running"
        BY DEF NoPrefetch
      <4>. QED BY <3>7, <4>1, <4>2
    <3>9. CASE TakeRest /\ list = <<>>
      BY <3>7, <3>9 DEF TakeRest
    <3>10. CASE TakeRest /\ list # <<>>
      <4>1. PICK f : /\ fetched' = Refetched(list, f.got)
                     /\ writing' = [list |-> list, got |-> f.got, next |-> "rest"]
        BY <3>10 DEF TakeRest
      <4>2. writing = NoWriting /\ pf' = pf /\ pf = NoPrefetch
        BY <3>10 DEF TakeRest, IInv, Placed, NoPrefetchAt
      <4>3. Says(list, f.got, fetched') /\ fetched' \subseteq Albums
        BY <1>1, <3>1, <4>1, RefetchedSays
      <4>4. writing'.list = list /\ writing'.got = f.got /\ pf'.state # "done" /\ pf.state # "done"
        BY <4>1, <4>2 DEF NoPrefetch
      <4>5. ASSUME NEW a \in settled' PROVE a \notin AlbumsOf(list)
        <5>1. CASE a \in settled
          <6>1. a \in Albums /\ a \notin AlbumsOf(queue)
            BY <1>1, <5>1, Apart
          <6>. QED BY <3>3, <6>1
        <5>2. CASE a \in AlbumsUnmatched(BatchOf)
          <6>1. Times(BatchOf, a) <= 1 /\ Times(BatchOf, a) \in Nat
            <7>1. a \in Albums
              BY <3>3, <5>2
            <7>2. Times(queue, a) = Times(BatchOf, a) + Times(QueueAfter, a)
                  /\ Times(BatchOf, a) \in Nat /\ Times(QueueAfter, a) \in Nat
              BY BatchFacts, TimesFacts DEF IInv, TypeOK, ListsTyped
            <7>3. Times(queue, a) <= 1
              <8>1. /\ AtPool(a) \in Nat /\ AtWorker(a) \in Nat /\ Times(queue, a) \in Nat
                    /\ Times(hand, a) \in Nat /\ Times(pf.list, a) \in Nat /\ Times(writing.list, a) \in Nat
                    /\ IsSettled(a) \in Nat /\ IsLost(a) \in Nat
                    /\ AtPool(a) + AtWorker(a) + Times(queue, a) + Times(hand, a) + Times(pf.list, a)
                       + Times(writing.list, a) + IsSettled(a) + IsLost(a) <= 1
                BY <7>1, Sums
              <8>. QED BY <8>1
            <7>. QED BY <7>2, <7>3
          <6>2. Times(BatchOf, a) = Times(list, a) + 1
            BY <3>1, <5>2, <6>1, TriageFacts
          <6>3. list \in Seq(Items) /\ Times(list, a) \in Nat
            BY <3>1, FoundAreItems, TimesFacts
          <6>4. Times(list, a) = 0
            BY <6>1, <6>2, <6>3
          <6>. QED BY <6>3, <6>4, TimesFacts
        <5>. QED BY <3>2, <4>5, <5>1, <5>2
      <4>6. \A a \in settled' : a \notin AlbumsOf(list)
        BY <4>5
      <4>7. \A a \in Albums : db'[a].release = db[a].release
        BY <3>4
      <4>8. Gathered' /\ WrittenAsFetched'
        BY <2>1, <3>1, <3>5, <3>6, <4>2, <4>3, <4>4, <4>6, <4>7, WritesFetched
      <4>. QED BY <3>4, <3>6, <4>3, <4>8
    <3>. QED BY <2>4, <3>8, <3>9, <3>10
  <2>5. CASE PrefetchThread
    <3>1. PICK f : /\ pf' = [pf EXCEPT !.state = "done", !.result = f.result, !.got = f.got]
                   /\ fetched' = Refetched(pf.list, f.got)
      BY <2>5 DEF PrefetchThread
    <3>2. pf.state = "running" /\ db' = db /\ settled' = settled /\ writing' = writing
      BY <2>5 DEF PrefetchThread, ghosts
    <3>3. pf'.state = "done" /\ pf'.list = pf.list /\ pf'.got = f.got
      BY <1>1, <3>1 DEF Pf
    <3>4. Says(pf.list, f.got, fetched') /\ fetched' \subseteq Albums
      BY <1>1, <3>1, RefetchedSays
    <3>5. ASSUME NEW a \in fetched'
          PROVE  a \in AlbumsOf(writing.list) \/ a \in settled \/ lost'[a] # None \/ a \in AlbumsOf(pf.list)
      <4>1. CASE a \notin AlbumsOf(pf.list)
        <5>1. a \in fetched /\ a \in Albums
          BY <1>1, <3>4, <3>5, <4>1 DEF Says
        <5>. QED BY <1>1, <2>1, <4>1, <5>1 DEF Gathered
      <4>. QED BY <4>1
    <3>6. ASSUME NEW j \in DOMAIN writing.list
          PROVE  writing.list[j].album \in fetched' <=> writing.list[j].release \in writing.got
      <4>1. writing.list[j].album \in AlbumsOf(writing.list) /\ writing.list \in Seq(Found)
        BY <1>1 DEF AlbumsOf, Writing
      <4>2. writing.list[j].album \in Albums
        BY <4>1, ListAlbums
      <4>3. writing.list[j].album \notin AlbumsOf(pf.list)
        BY <4>1, <4>2, Apart
      <4>. QED BY <1>1, <3>4, <4>3 DEF Says, Gathered
    <3>7. Gathered'
      <4>1. \A a \in fetched' :
              \/ a \in {writing'.list[j].album : j \in DOMAIN writing'.list} \/ a \in settled' \/ lost'[a] # None
              \/ pf'.state = "done" /\ a \in {pf'.list[j].album : j \in DOMAIN pf'.list}
        BY <3>2, <3>3, <3>5 DEF AlbumsOf
      <4>2. \A j \in DOMAIN pf'.list : pf'.list[j].album \in fetched' <=> pf'.list[j].release \in pf'.got
        BY <3>3, <3>4 DEF Says
      <4>3. \A a \in Albums : db'[a].release \in {None, ReleaseOf[a]}
        BY <1>1, <3>2 DEF Gathered
      <4>. QED BY <3>2, <3>6, <4>1, <4>2, <4>3 DEF Gathered, AlbumsOf
    <3>8. ASSUME NEW a \in settled PROVE a \in fetched' <=> a \in fetched
      <4>1. a \in Albums
        BY <1>1
      <4>2. a \notin AlbumsOf(pf.list)
        BY <3>8, <4>1, Apart
      <4>. QED BY <3>4, <4>2 DEF Says
    <3>9. WrittenAsFetched'
      BY <1>1, <3>2, <3>8 DEF WrittenAsFetched
    <3>. QED BY <1>1, <3>2, <3>4, <3>7, <3>9
  <2>6. CASE Join \/ FetchInline \/ LastJoin
    <3>1. PICK list, got :
            /\ list \in Seq(Found) /\ Says(list, got, fetched') /\ fetched' \subseteq Albums
            /\ writing'.list = list /\ writing'.got = got /\ pf'.state # "done"
            /\ pf.state = "done" => list = pf.list
            /\ list \in {pf.list, hand}
      <4>1. CASE Join
        <5>1. PICK f, got : /\ Swapped(f, got) \/ Broken(f, got)
                            /\ \/ got = pf.got /\ fetched' = fetched
                               \/ fetched' = Refetched(pf.list, got)
          BY <4>1, JoinOutcome
        <5>2. writing' = [list |-> pf.list, got |-> got, next |-> "loop"] /\ pf'.state # "done"
          <6>1. /\ writing' = [list |-> pf.list, got |-> got, next |-> "loop"]
                /\ pf' \in {NoPrefetch, [NoPrefetch EXCEPT !.state = "running", !.list = hand]}
            BY <5>1 DEF Swapped, Broken
          <6>2. NoPrefetch.state # "done"
                /\ [NoPrefetch EXCEPT !.state = "running", !.list = hand].state # "done"
            BY DEF NoPrefetch
          <6>. QED BY <6>1, <6>2
        <5>3. pf.state = "done"
          BY <4>1 DEF Join
        <5>4. Says(pf.list, pf.got, fetched)
          BY <1>1, <5>3 DEF Says, Gathered
        <5>5. Says(pf.list, got, fetched') /\ fetched' \subseteq Albums
          BY <1>1, <5>1, <5>4, RefetchedSays
        <5>. QED BY <1>1, <5>2, <5>3, <5>5
      <4>2. CASE FetchInline
        <5>1. PICK got : /\ fetched' = Refetched(hand, got)
                         /\ writing' = [list |-> hand, got |-> got, next |-> "loop"]
          BY <4>2 DEF FetchInline
        <5>2. pf' = pf /\ pf = NoPrefetch
          BY <4>2 DEF FetchInline, IInv, Placed, NoPrefetchAt
        <5>3. pf'.state # "done" /\ pf.state # "done"
          BY <5>2 DEF NoPrefetch
        <5>. QED BY <1>1, <5>1, <5>3, RefetchedSays
      <4>3. CASE LastJoin
        <5>1. PICK got : /\ fetched' = Refetched(pf.list, got)
                         /\ writing' = [list |-> pf.list, got |-> got, next |-> "free"]
          BY <4>3 DEF LastJoin
        <5>2. pf'.state # "done"
          BY <4>3 DEF LastJoin, NoPrefetch
        <5>. QED BY <1>1, <5>1, <5>2, RefetchedSays
      <4>. QED BY <2>6, <4>1, <4>2, <4>3
    <3>2. settled' = settled /\ db' = db /\ writing = NoWriting
      BY <2>6 DEF Join, FetchInline, LastJoin, ghosts, IInv, Placed
    <3>3. \A a \in settled' : a \notin AlbumsOf(list)
      BY <1>1, <3>1, <3>2, Apart
    <3>4. Gathered' /\ WrittenAsFetched'
      BY <1>1, <2>1, <3>1, <3>2, <3>3, WritesFetched
    <3>. QED BY <1>1, <3>1, <3>2, <3>4
  <2>7. CASE WriteBatch
    <3>1. fetched' = fetched
      BY <2>7 DEF WriteBatch
    <3>. QED BY <1>1, <2>7, <3>1, WriteSays
  <2>. QED BY <1>3, <2>3, <2>4, <2>5, <2>6, <2>7 DEF Next, Resolver
<1>. QED BY <1>2, <1>3

-----------------------------------------------------------------------------
(* The theorems *)

LEMMA TypeStep ==
  ASSUME IInv, [Next]_vars
  PROVE  TypeOK'
<1>1. /\ pc \in {"idle", "inline", "loop", "join", "fetch", "last_join", "free", "rest", "write"}
      /\ cancelled \in BOOLEAN /\ inline \in BOOLEAN /\ http \in BOOLEAN /\ prefetches \in BOOLEAN
      /\ runs \in 0 .. MaxRuns /\ failures \in 0 .. Breaker
      /\ answered \subseteq Albums /\ lost \in [Albums -> Reasons \union {None}]
      /\ db \in [Albums -> [status : {"pending", "resolved", "no_match", "failed"},
                            release : Releases \union {None}]]
      /\ writing.next \in {"loop", "free", "rest"} /\ Breaker \in Nat \ {0} /\ MaxRuns \in Nat
      /\ todo \in Seq(Albums) /\ queue \in Seq(Items) /\ worker \in [Workers -> Albums \union {None}]
  BY BoundsAssumption DEF IInv, TypeOK, ListsTyped
<1>2. ListsTyped'
  BY ListsStep
<1>3. count' \in 0 .. Cardinality(Albums) /\ total' \in 0 .. count'
  <2>1. Processed' /\ total' \in Nat /\ AlbumsAccounted'
    BY ProcessedStep, AccountedStep
  <2>2. taken' \in Nat /\ Cardinality(Untriaged') \in Nat /\ Cardinality(Albums) \in Nat
    BY <1>2, UntriagedFacts, BoundsAssumption, FS_CardinalityType DEF ListsTyped
  <2>3. count' \in Nat /\ count' <= Cardinality(Albums)
    <3> DEFINE S == {a \in Albums : Holders(a)' = 1}
    <3>1. S \in SUBSET Albums /\ Cardinality(S) = count'
      BY <2>1 DEF AlbumsAccounted
    <3> HIDE DEF S
    <3>2. Cardinality(S) \in Nat /\ Cardinality(S) <= Cardinality(Albums)
      BY <3>1, BoundsAssumption, FS_Subset, FS_CardinalityType
    <3>. QED BY <3>1, <3>2
  <2>4. total' + taken' + Cardinality(Untriaged') <= count'
    BY <2>1 DEF Processed
  <2>5. total' <= count'
    <3>1. ASSUME NEW x \in Nat, NEW y \in Nat, NEW z \in Nat, NEW n \in Nat, x + y + z <= n
          PROVE  x <= n
      BY <3>1
    <3>. QED BY <2>1, <2>2, <2>3, <2>4, <3>1
  <2>. QED BY <2>1, <2>2, <2>3, <2>5
<1>4. db' \in [Albums -> [status : {"pending", "resolved", "no_match", "failed"},
                          release : Releases \union {None}]]
      /\ settled' \subseteq Albums /\ fetched' \subseteq Albums
  <2>1. db' = db \/ db' = [a \in Albums |-> db'[a]]
    <3>1. CASE TakeBatch \/ TakeRest
      BY <3>1 DEF TakeBatch, TakeRest, Triage
    <3>2. CASE WriteBatch
      <4>1. PICK n \in 0 .. Len(writing.list) :
              LET done == {writing.list[j] : j \in 1 .. n} IN
              \/ db' = [a \in Albums |-> IF \E it \in done: it.album = a
                                         THEN Written(CHOOSE it \in done: it.album = a) ELSE db[a]]
              \/ db' = db
        BY <3>2 DEF WriteBatch
      <4>. QED BY <4>1
    <3>3. CASE ~TakeBatch /\ ~TakeRest /\ ~WriteBatch
      BY Zenon, <3>3 DEF Next, Resolver, Worker, Start, InlineLookup, InlineEnds, WorkerTakes, WorkerQueues, LoopEnds,
                  PrefetchThread, Join, FetchInline, LastJoin, FreePool, End, Cancel, Kill, vars, ghosts
    <3>. QED BY <3>1, <3>2, <3>3
  <2>2. /\ settled' \subseteq Albums /\ fetched' \subseteq Albums
        /\ \A a \in Albums : db'[a] \in [status : {"pending", "resolved", "no_match", "failed"},
                                         release : Releases \union {None}]
    BY SaysStep
  <2>. QED BY <1>1, <2>1, <2>2
<1>5. lost' \in [Albums -> Reasons \union {None}]
  <2>1. ASSUME NEW why \in Reasons, NEW S PROVE [a \in Albums |-> IF a \in S THEN why ELSE lost[a]]
                                                  \in [Albums -> Reasons \union {None}]
    BY <1>1
  <2>2. [a \in Albums |-> None] \in [Albums -> Reasons \union {None}]
    OBVIOUS
  <2>3. "cancel" \in Reasons /\ "breaker" \in Reasons /\ "transaction" \in Reasons
    BY DEF Reasons
  <2>4. CASE Start \/ Kill
    BY Zenon, <2>2, <2>4 DEF Start, Kill
  <2>5. CASE InlineEnds
    BY <2>1, <2>3, <2>5 DEF InlineEnds
  <2>6. CASE End
    BY <2>1, <2>3, <2>6 DEF End
  <2>7. ASSUME NEW w \in Workers, WorkerTakes(w) PROVE lost' \in [Albums -> Reasons \union {None}]
    <3>1. lost' = lost \/ lost' = [lost EXCEPT ![Head(todo)] = "cancel"]
      BY <2>7 DEF WorkerTakes
    <3>. QED BY <1>1, <2>3, <3>1
  <2>8. CASE Join
    <3>1. PICK f, got : Swapped(f, got) \/ Broken(f, got)
      BY <2>8, JoinOutcome
    <3>2. lost' = lost \/ lost' = [a \in Albums |-> IF a \in AlbumsOf(hand) THEN "breaker" ELSE lost[a]]
      BY <3>1 DEF Swapped, Broken
    <3>. QED BY <1>1, <2>1, <2>3, <3>2
  <2>9. CASE WriteBatch
    <3>1. \E S : \/ lost' = [a \in Albums |-> IF a \in S THEN "cancel" ELSE lost[a]]
                 \/ lost' = [a \in Albums |-> IF a \in S THEN "transaction" ELSE lost[a]]
      BY <2>9 DEF WriteBatch
    <3>2. PICK S : \/ lost' = [a \in Albums |-> IF a \in S THEN "cancel" ELSE lost[a]]
                   \/ lost' = [a \in Albums |-> IF a \in S THEN "transaction" ELSE lost[a]]
      BY <3>1
    <3>3. [a \in Albums |-> IF a \in S THEN "cancel" ELSE lost[a]] \in [Albums -> Reasons \union {None}]
      BY <2>1, <2>3
    <3>4. [a \in Albums |-> IF a \in S THEN "transaction" ELSE lost[a]] \in [Albums -> Reasons \union {None}]
      BY <2>1, <2>3
    <3>. QED BY <3>2, <3>3, <3>4
  <2>10. CASE \/ InlineLookup \/ \E w \in Workers : WorkerQueues(w)
              \/ TakeBatch \/ LoopEnds \/ FetchInline \/ LastJoin \/ FreePool \/ TakeRest
              \/ PrefetchThread \/ Cancel \/ UNCHANGED vars
    BY <1>1, <2>10 DEF InlineLookup, WorkerQueues, TakeBatch, LoopEnds, FetchInline, LastJoin, FreePool,
                       TakeRest, PrefetchThread, Cancel, vars, ghosts
  <2>. QED BY <2>4, <2>5, <2>6, <2>7, <2>8, <2>9, <2>10 DEF Next, Resolver, Worker
<1>6. answered' \subseteq Albums
  <2>1. CASE InlineLookup
    <3>1. Head(todo) \in Albums /\ LookUp(Head(todo))
      BY <1>1, <2>1, HeadTailProperties DEF InlineLookup
    <3>. QED BY <1>1, <3>1, LookUpFacts
  <2>2. ASSUME NEW w \in Workers, WorkerQueues(w) PROVE answered' \subseteq Albums
    <3>1. worker[w] \in Albums /\ LookUp(worker[w])
      BY <1>1, <2>2 DEF WorkerQueues
    <3>. QED BY <1>1, <3>1, LookUpFacts
  <2>3. CASE ~InlineLookup /\ ~\E w \in Workers : WorkerQueues(w)
    <3>1. answered' \in {answered, {}}
      BY Zenon, <2>3 DEF Next, Resolver, Worker, Start, InlineEnds, WorkerTakes, TakeBatch, LoopEnds, FreePool,
                  TakeRest, WriteBatch, PrefetchThread, Join, FetchInline, LastJoin, End, Cancel, Kill,
                  vars, lookups
    <3>. QED BY <1>1, <3>1
  <2>. QED BY <2>1, <2>2, <2>3
<1>7. failures' \in 0 .. Breaker
  <2>1. CASE Join
    <3>1. PICK f, got : \/ Swapped(f, got) /\ f \in 0 .. Breaker - 1
                        \/ Broken(f, got) /\ f = Breaker
      BY <2>1, JoinOutcome
    <3>. QED BY <1>1, <3>1 DEF Swapped, Broken
  <2>2. CASE FetchInline
    <3>1. failures' \in {0, failures + 1} /\ ~(failures >= Breaker)
      BY <2>2 DEF FetchInline, IInv, Placed
    <3>. QED BY <1>1, <3>1
  <2>3. CASE ~Join /\ ~FetchInline
    <3>1. failures' \in {failures, 0}
      BY Zenon, <2>3 DEF Next, Resolver, Worker, Start, InlineLookup, InlineEnds, WorkerTakes, WorkerQueues, TakeBatch,
                  LoopEnds, FreePool, TakeRest, WriteBatch, PrefetchThread, LastJoin, End, Cancel, Kill, vars
    <3>. QED BY <1>1, <3>1
  <2>. QED BY <2>1, <2>2, <2>3
<1>8. runs' \in 0 .. MaxRuns /\ cancelled' \in BOOLEAN /\ inline' \in BOOLEAN
      /\ http' \in BOOLEAN /\ prefetches' \in BOOLEAN
  <2>1. CASE Start
    <3>1. runs' = runs + 1 /\ runs < MaxRuns /\ cancelled' = FALSE /\ http' \in BOOLEAN
          /\ prefetches' \in BOOLEAN /\ inline' \in BOOLEAN
      BY <2>1 DEF Start
    <3>2. runs + 1 \in 0 .. MaxRuns
      <4>1. runs \in 0 .. MaxRuns /\ MaxRuns \in Nat /\ runs < MaxRuns
        BY <1>1, <3>1
      <4>. QED BY <4>1
    <3>. QED BY <3>1, <3>2
  <2>2. CASE ~Start
    <3>1. runs' = runs /\ cancelled' \in {cancelled, TRUE} /\ backend' = backend
      BY <2>2 DEF Next, Resolver, Worker, InlineLookup, InlineEnds, WorkerTakes, WorkerQueues, TakeBatch,
                  LoopEnds, FreePool, TakeRest, WriteBatch, PrefetchThread, Join, FetchInline, LastJoin,
                  End, Cancel, Kill, vars, lookups, backend
    <3>. QED BY <1>1, <3>1 DEF backend
  <2>. QED BY <2>1, <2>2
<1>9. pc' \in {"idle", "inline", "loop", "join", "fetch", "last_join", "free", "rest", "write"}
  <2>1. CASE WriteBatch
    BY <1>1, <2>1 DEF WriteBatch, AfterWrite
  <2>2. CASE Join
    <3>1. PICK f, got : Swapped(f, got) \/ Broken(f, got)
      BY <2>2, JoinOutcome
    <3>. QED BY <3>1 DEF Swapped, Broken
  <2>3. CASE ~WriteBatch /\ ~Join
    BY Zenon, <1>1, <2>3 DEF Next, Resolver, Worker, Start, InlineLookup, InlineEnds, WorkerTakes, WorkerQueues,
                      TakeBatch, LoopEnds, FreePool, TakeRest, PrefetchThread, FetchInline, LastJoin, End,
                      Cancel, Kill, vars
  <2>. QED BY <2>1, <2>2, <2>3
<1>. QED BY <1>2, <1>3, <1>4, <1>5, <1>6, <1>7, <1>8, <1>9 DEF TypeOK

LEMMA InvInit ==
  ASSUME Init
  PROVE  IInv
<1>1. /\ queue = <<>> /\ todo = <<>> /\ hand = <<>> /\ taken = 0 /\ pf = NoPrefetch /\ writing = NoWriting
      /\ worker = [w \in Workers |-> None] /\ pc = "idle" /\ count = 0 /\ total = 0 /\ failures = 0
      /\ settled = {} /\ lost = [a \in Albums |-> None] /\ fetched = {} /\ answered = {}
  BY DEF Init
<1>2. \A a \in Albums : /\ db[a] \in [status : {"pending", "resolved", "no_match", "failed"},
                                      release : Releases \union {None}]
                        /\ db[a].release \in {None, ReleaseOf[a]}
  <2>1. \A a \in Albums : ReleaseOf[a] \in Releases
    BY ReleaseAssumption
  <2>. QED BY <2>1 DEF Init
<1>3. Cardinality(Albums) \in Nat /\ Breaker \in Nat \ {0} /\ MaxRuns \in Nat
  BY BoundsAssumption, FS_CardinalityType
<1>4. ListsTyped
  <2>1. pf \in Pf /\ writing \in Writing /\ hand \in Seq(Found) /\ queue \in Seq(Items) /\ todo \in Seq(Albums)
    BY <1>1, NothingTwice, PfTyped
  <2>. QED BY <1>1, <2>1 DEF ListsTyped, Pf, Writing
<1>5. TypeOK
  <2>1. db \in [Albums -> [status : {"pending", "resolved", "no_match", "failed"},
                           release : Releases \union {None}]]
    BY <1>2 DEF Init
  <2>2. cancelled \in BOOLEAN /\ inline \in BOOLEAN /\ http \in BOOLEAN /\ prefetches \in BOOLEAN /\ runs = 0
    BY DEF Init
  <2>3. lost \in [Albums -> Reasons \union {None}]
    BY <1>1
  <2>. QED BY <1>1, <1>3, <1>4, <2>1, <2>2, <2>3 DEF TypeOK
<1>6. Placed
  BY <1>1, <1>3 DEF Placed
<1>7. ASSUME NEW a \in Albums PROVE Holders(a) = 0 /\ Load(a) = 0
  <2>1. AtPool(a) = 0 /\ Times(queue, a) = 0 /\ Times(hand, a) = 0 /\ Times(pf.list, a) = 0
        /\ Times(writing.list, a) = 0
    BY <1>1, CountSmall, NothingTwice DEF AtPool, NoPrefetch, NoWriting
  <2>2. {w \in Workers : worker[w] = a} = {}
    BY <1>1, NoneAssumption
  <2>3. AtWorker(a) = 0
    BY <2>2, FS_EmptySet DEF AtWorker
  <2>4. IsSettled(a) = 0 /\ IsLost(a) = 0
    BY <1>1 DEF IsSettled, IsLost
  <2>5. Holders(a) = AtPool(a) + AtWorker(a) + Times(queue, a) + Times(hand, a)
                     + Times(pf.list, a) + Times(writing.list, a) + IsSettled(a) + IsLost(a)
    BY HoldersSum
  <2>. QED BY <2>1, <2>3, <2>4, <2>5 DEF Load
<1>8. AlbumsAccounted
  <2>1. {a \in Albums : Holders(a) = 1} = {}
    BY <1>7
  <2>2. \A a \in Albums : lost[a] # "cancel" /\ lost[a] # "breaker"
    BY <1>1, NoneAssumption DEF Reasons
  <2>3. Cardinality({a \in Albums : Holders(a) = 1}) = count
    BY <1>1, <2>1, FS_EmptySet
  <2>. QED BY <1>7, <2>2, <2>3 DEF AlbumsAccounted
<1>9. Processed
  <2>1. Untriaged = {}
    BY <1>7, UntriagedFacts
  <2>. QED BY <1>1, <2>1, FS_EmptySet DEF Processed
<1>10. Gathered
  BY <1>1, <1>2 DEF Gathered, NoPrefetch, NoWriting
<1>11. WrittenAsFetched
  BY <1>1 DEF WrittenAsFetched
<1>. QED BY <1>5, <1>6, <1>8, <1>9, <1>10, <1>11 DEF IInv

\* The inductive invariant holds throughout.
THEOREM Invariance == Spec => []IInv
<1>1. Init => IInv
  BY InvInit
<1>2. IInv /\ [Next]_vars => IInv'
  BY TypeStep, PlacedStep, AccountedStep, ProcessedStep, SaysStep DEF IInv
<1>. QED BY <1>1, <1>2, PTL DEF Spec

\* The variables keep their types, and never more albums are counted as processed than the run has.
THEOREM TypeCorrectness == Spec => []TypeOK
<1>1. IInv => TypeOK
  BY DEF IInv
<1>. QED BY <1>1, Invariance, PTL

\* Every album of a run is in one place, and is written once or given up for a reason.
THEOREM AlbumsAlwaysAccounted == Spec => []AlbumsAccounted
<1>1. IInv => AlbumsAccounted
  BY DEF IInv
<1>. QED BY <1>1, Invariance, PTL

\* What is written for an album is what was fetched for it.
THEOREM AlwaysWrittenAsFetched == Spec => []WrittenAsFetched
<1>1. IInv => WrittenAsFetched
  BY DEF IInv
<1>. QED BY <1>1, Invariance, PTL
-----------------------------------------------------------------------------
(* The slot of a backend and the rate limiter *)

\* While nothing is awaited a connection that is of use is empty, and what comes is the answer to the
\* lookup in hand.
SlotIInv ==
    /\ asked \in Nat /\ wire \in Seq(Nat)
    /\ op # "receive" /\ alive => wire = <<>>
    /\ op = "receive" => wire = <<>> \/ wire = <<asked>>
    /\ Slot!AnswerIsOwn

LEMMA SlotInit == Slot!Init => SlotIInv
BY DEF Slot!Init, SlotIInv, Slot!AnswerIsOwn

LEMMA SlotStep ==
  ASSUME SlotIInv, [Slot!Next]_slot
  PROVE  SlotIInv'
<1> USE DEF SlotIInv, Slot!AnswerIsOwn
<1>1. CASE Slot!BatchFetch \/ Slot!IsrcLookup \/ Slot!Reset \/ Slot!LookupRefused
  BY <1>1 DEF Slot!BatchFetch, Slot!IsrcLookup, Slot!Reset, Slot!LookupRefused, Slot!socket
<1>2. CASE Slot!Post
  <2>1. asked' \in Nat /\ op = "none"
    BY <1>2 DEF Slot!Post
  <2>2. CASE op' = "receive" /\ \E keep \in BOOLEAN : /\ keep => fd /\ alive
                                                    /\ wire' = Append(Slot!Ensured(keep), asked')
    <3>1. PICK keep \in BOOLEAN : (keep => fd /\ alive) /\ wire' = Append(Slot!Ensured(keep), asked')
      BY <2>2
    <3>2. Slot!Ensured(keep) = <<>>
      BY <2>1, <3>1 DEF Slot!Ensured
    <3>3. wire' = <<asked'>> /\ wire' \in Seq(Nat)
      BY <2>1, <3>1, <3>2
    <3>. QED BY <2>1, <2>2, <3>3
  <2>3. CASE op' = "none" /\ wire' = <<>>
    BY <2>1, <2>3
  <2>. QED BY <1>2, <2>2, <2>3 DEF Slot!Post
<1>3. CASE Slot!NothingCame
  BY <1>3 DEF Slot!NothingCame
<1>4. CASE Slot!Received
  <2>1. wire = <<asked>>
    BY <1>4 DEF Slot!Received
  <2>2. answer' = asked /\ wire' = <<>> /\ asked' = asked /\ op' \in {"acoustid", "none"}
    BY <1>4, <2>1 DEF Slot!Received
  <2>. QED BY <2>2
<1>5. CASE Slot!QueryAcoustid \/ Slot!QueryMirror
  BY <1>5 DEF Slot!QueryAcoustid, Slot!QueryMirror, Slot!socket
<1>6. CASE Slot!Drop
  <2>1. /\ wire' = wire \/ wire' = <<>>
        /\ op' = op /\ asked' = asked /\ answer' = answer /\ alive' = alive
    BY <1>6 DEF Slot!Drop
  <2>2. CASE wire' = wire
    BY <2>1, <2>2
  <2>3. CASE wire' = <<>>
    <3>1. <<>> \in Seq(Nat)
      OBVIOUS
    <3>. QED BY <2>1, <2>3, <3>1
  <2>. QED BY <2>1, <2>2, <2>3
<1>7. CASE UNCHANGED slot
  BY <1>7 DEF slot
<1>. QED BY <1>1, <1>2, <1>3, <1>4, <1>5, <1>6, <1>7 DEF Slot!Next

\* A thread that sleeps gets up an interval after its last request at the earliest: whoever came
\* between had to wait for that one too.
LimiterIInv ==
    /\ clock \in Int /\ last \in Int /\ until \in [Threads -> Int] /\ sent \in [Threads -> Int]
    /\ last <= clock
    /\ \A t \in Threads : sent[t] <= last /\ (until[t] # -1 => until[t] >= sent[t] + Interval)

LEMMA LimiterInit == Limiter!Init => LimiterIInv
BY LimiterAssumption DEF Limiter!Init, LimiterIInv

LEMMA LimiterStep ==
  ASSUME LimiterIInv, [Limiter!Next]_limiter
  PROVE  /\ LimiterIInv'
         /\ \A t \in Threads : sent'[t] # sent[t] => sent'[t] - sent[t] >= Interval
<1> USE LimiterAssumption DEF LimiterIInv
<1>1. CASE Limiter!Tick
  BY <1>1 DEF Limiter!Tick
<1>2. ASSUME NEW t \in Threads, Limiter!Wait(t)
      PROVE  /\ LimiterIInv'
             /\ \A u \in Threads : sent'[u] # sent[u] => sent'[u] - sent[u] >= Interval
  <2>1. CASE clock < last + Interval
    <3>1. /\ UNCHANGED <<clock, last, sent>> /\ until' = [until EXCEPT ![t] = last + Interval]
      BY <1>2, <2>1 DEF Limiter!Wait
    <3>2. sent[t] <= last /\ sent[t] \in Int /\ last \in Int
      OBVIOUS
    <3>. QED BY <3>1, <3>2
  <2>2. CASE ~(clock < last + Interval)
    <3>1. /\ UNCHANGED <<clock, until>> /\ last' = clock /\ sent' = [sent EXCEPT ![t] = clock]
          /\ until[t] = -1
      BY <1>2, <2>2 DEF Limiter!Wait, Limiter!LetThrough
    <3>2. sent[t] <= last /\ sent[t] \in Int /\ last + Interval <= clock
      BY <2>2
    <3>. QED BY <3>1, <3>2
  <2>. QED BY <2>1, <2>2
<1>3. ASSUME NEW t \in Threads, Limiter!Wake(t)
      PROVE  /\ LimiterIInv'
             /\ \A u \in Threads : sent'[u] # sent[u] => sent'[u] - sent[u] >= Interval
  <2>1. /\ clock' = clock /\ last' = clock /\ sent' = [sent EXCEPT ![t] = clock]
        /\ until' = [until EXCEPT ![t] = -1] /\ until[t] # -1 /\ clock >= until[t]
    BY <1>3 DEF Limiter!Wake, Limiter!LetThrough
  <2>2. clock >= sent[t] + Interval /\ sent[t] \in Int
    BY <2>1
  <2>. QED BY <2>1, <2>2
<1>4. CASE UNCHANGED limiter
  BY <1>4 DEF limiter
<1>. QED BY <1>1, <1>2, <1>3, <1>4 DEF Limiter!Next

\* A step is one of the part that is followed, and leaves the variables of the others alone.
LEMMA PartsMove ==
  ASSUME [AllNext]_<<part, vars, voting, searching, matching, slot, limiter>>
  PROVE  /\ [Vote!Next]_voting /\ [Choice!Next]_searching /\ [Tracks!Next]_matching
         /\ [Slot!Next]_slot /\ [Limiter!Next]_limiter
BY DEF AllNext

\* RequestsSound: the answer read for a fingerprint is the one to it, on a connection that outlives
\* lookups that were given up (mb_pg_acoustid.c); and a thread's requests to a public service are an
\* interval apart (rate_limiter_wait in mb_http_backend.c).
THEOREM RequestsAlwaysSound == AllSpec => RequestsSound
<1>1. AllInit => SlotIInv /\ LimiterIInv
  BY SlotInit, LimiterInit DEF AllInit
<1>2. /\ SlotIInv /\ LimiterIInv /\ [AllNext]_<<part, vars, voting, searching, matching, slot, limiter>>
         => /\ SlotIInv' /\ LimiterIInv'
            /\ [\A t \in Threads : sent'[t] # sent[t] => sent'[t] - sent[t] >= Interval]_(Limiter!vars)
  BY PartsMove, SlotStep, LimiterStep
<1>3. SlotIInv => Slot!AnswerIsOwn
  BY DEF SlotIInv
<1>. QED BY <1>1, <1>2, <1>3, PTL DEF AllSpec, RequestsSound, Limiter!OwnSpaced
-----------------------------------------------------------------------------
(* The choice among the results of a search *)

Looked == {k \in DOMAIN results : k < place}

\* While the results are looked at, the one in hand has its score, in the public search the highest of
\* those looked at; afterwards it has passed the threshold, or there is none.
ChoiceIInv ==
    /\ http_search \in BOOLEAN /\ results \in Seq(Candidates) /\ place \in Nat \ {0}
    /\ chosen \in Candidates \cup {None} /\ best_score \in Int /\ searched \in BOOLEAN
    /\ ~searched /\ chosen = None => best_score = -1
    /\ chosen # None => best_score = Choice!ScoreOf(chosen)
    /\ http_search /\ (~searched \/ chosen # None) =>
          \A k \in Looked : Choice!HttpScore(results[k]) <= best_score
    /\ searched /\ chosen # None => best_score >= Choice!Threshold /\ Looked = DOMAIN results

LEMMA ScoreType ==
  ASSUME NEW d \in Candidates
  PROVE  /\ d \in [title : 0 .. 100, artist : 0 .. 100, tracks : 0 .. 100, rest : 0 .. 100,
                   single : BOOLEAN, relevance : 0 .. 100]
         /\ Choice!HttpScore(d) \in Int /\ Choice!PgScore(d) \in Int
         /\ Choice!ScoreOf(d) \in Int /\ d # None
<1>1. d \in [title : 0 .. 100, artist : 0 .. 100, tracks : 0 .. 100, rest : 0 .. 100,
             single : BOOLEAN, relevance : 0 .. 100] /\ d # None
  BY ChoiceAssumption
<1>2. /\ d.title \in Int /\ d.artist \in Int /\ d.tracks \in Int /\ d.rest \in Int /\ d.relevance \in Int
      /\ (IF d.single THEN 500 ELSE 0) \in Int
  BY <1>1
<1>3. Choice!HttpScore(d) \in Int /\ Choice!PgScore(d) \in Int
  BY <1>2 DEF Choice!HttpScore, Choice!PgScore
<1>. QED BY <1>1, <1>3 DEF Choice!ScoreOf

Percent == 0 .. 100
Bonus(d) == IF d.single THEN 500 ELSE 0
WebParts(d) == 30 * d.artist + 20 * d.tracks + Bonus(d)
MirrorParts(d) == 500 + 6 * d.artist + 5 * d.tracks + 9 * d.rest

LEMMA AtMostWhole ==
  ASSUME NEW parts \in Nat, NEW share \in Percent
  PROVE  parts * share <= parts * 100 /\ parts * share \in Int
BY DEF Percent

LEMMA WebBound ==
  ASSUME NEW x \in Percent, NEW y \in Percent, NEW z \in 0 .. 500
  PROVE  /\ 30 * x + 20 * y + z \in Nat
         /\ 30 * x + 20 * y + z >= 55 * 100 => x = 100 /\ y = 100
<1>1. /\ x \in Int /\ 0 <= x /\ x <= 100 /\ y \in Int /\ 0 <= y /\ y <= 100
      /\ z \in Int /\ 0 <= z /\ z <= 500
  BY DEF Percent
<1>. QED BY <1>1

LEMMA MirrorBound ==
  ASSUME NEW x \in Percent, NEW y \in Percent, NEW z \in Percent
  PROVE  500 + 6 * x + 5 * y + 9 * z \in Nat /\ 500 + 6 * x + 5 * y + 9 * z <= 25 * 100
<1>1. /\ x \in Int /\ 0 <= x /\ x <= 100 /\ y \in Int /\ 0 <= y /\ y <= 100
      /\ z \in Int /\ 0 <= z /\ z <= 100
  BY DEF Percent
<1>. QED BY <1>1

LEMMA PartsType ==
  ASSUME NEW d \in Candidates
  PROVE  /\ WebParts(d) \in Nat /\ (WebParts(d) >= 55 * 100 => d.artist = 100 /\ d.tracks = 100)
         /\ MirrorParts(d) \in Nat /\ MirrorParts(d) <= 25 * 100
         /\ d.relevance \in Percent
<1> DEFINE x == d.artist  y == d.tracks  z == d.rest  w == Bonus(d)
<1>1. x \in Percent /\ y \in Percent /\ z \in Percent /\ d.relevance \in Percent
  BY ScoreType DEF Percent
<1>2. w \in 0 .. 500
  BY DEF Bonus
<1>3. WebParts(d) = 30 * x + 20 * y + w /\ MirrorParts(d) = 500 + 6 * x + 5 * y + 9 * z
  BY DEF WebParts, MirrorParts
<1> HIDE DEF x, y, z, w
<1>4. /\ 30 * x + 20 * y + w \in Nat
      /\ 30 * x + 20 * y + w >= 55 * 100 => x = 100 /\ y = 100
  BY ZenonT(60), <1>1, <1>2, WebBound
<1>5. 500 + 6 * x + 5 * y + 9 * z \in Nat /\ 500 + 6 * x + 5 * y + 9 * z <= 25 * 100
  BY <1>1, MirrorBound
<1>6. WebParts(d) \in Nat /\ (WebParts(d) >= 55 * 100 => x = 100 /\ y = 100)
  BY <1>3, <1>4
<1>7. MirrorParts(d) \in Nat /\ MirrorParts(d) <= 25 * 100
  BY <1>3, <1>5
<1>. QED BY <1>1, <1>6, <1>7 DEF x, y

\* Nothing that has nothing of the title passes the mirror's threshold, and the public one only with
\* everything else as it should be.
LEMMA TitleCounts ==
  ASSUME NEW d \in Candidates, d.title = 0, Choice!ScoreOf(d) >= Choice!Threshold
  PROVE  http_search /\ d.artist = 100 /\ d.tracks = 100
<1>1. /\ d.artist \in Int /\ d.tracks \in Int /\ d.rest \in Int /\ d.relevance \in Int
      /\ Bonus(d) \in Int
  BY ScoreType DEF Bonus
<1>2. Choice!HttpScore(d) = WebParts(d) * d.relevance
  <2>1. 50 * d.title + 30 * d.artist + 20 * d.tracks + Bonus(d) = WebParts(d)
    BY <1>1 DEF WebParts
  <2>. QED BY <2>1 DEF Choice!HttpScore, Bonus
<1>3. Choice!PgScore(d) = MirrorParts(d) * d.relevance
  <2>1. 17 * d.title + 10 * 50 + 6 * d.artist + 5 * d.tracks + 9 * d.rest = MirrorParts(d)
    BY <1>1 DEF MirrorParts
  <2>. QED BY <2>1 DEF Choice!PgScore
<1>4. /\ WebParts(d) * d.relevance <= WebParts(d) * 100 /\ WebParts(d) * d.relevance \in Int
      /\ MirrorParts(d) * d.relevance <= MirrorParts(d) * 100 /\ MirrorParts(d) * d.relevance \in Int
  BY PartsType, AtMostWhole
<1>5. CASE http_search
  <2>1. WebParts(d) * d.relevance >= 55 * 100 * 100
    BY <1>2, <1>5 DEF Choice!ScoreOf, Choice!Threshold, Choice!HttpThreshold
  <2>2. WebParts(d) >= 55 * 100
    BY <1>4, <2>1, PartsType
  <2>. QED BY <1>5, <2>2, PartsType
<1>6. CASE ~http_search
  <2>1. MirrorParts(d) * d.relevance >= 60 * 47 * 100
    BY <1>3, <1>6 DEF Choice!ScoreOf, Choice!Threshold, Choice!PgThreshold
  <2>2. MirrorParts(d) \in Nat /\ MirrorParts(d) <= 25 * 100
    BY PartsType
  <2>. QED BY <1>4, <2>1, <2>2
<1>. QED BY <1>5, <1>6

LEMMA ChosenOfSearch == ChoiceIInv => Choice!ChosenFits
<1> SUFFICES ASSUME ChoiceIInv, searched, chosen # None
             PROVE  /\ http_search => \A k \in DOMAIN results :
                          Choice!Better(results[k], chosen) =>
                            Choice!HttpScore(results[k]) <= Choice!HttpScore(chosen)
                    /\ chosen.title = 0 => http_search /\ chosen.artist = 100 /\ chosen.tracks = 100
  BY DEF Choice!ChosenFits
<1>1. /\ chosen \in Candidates /\ best_score = Choice!ScoreOf(chosen) /\ best_score >= Choice!Threshold
      /\ Looked = DOMAIN results
      /\ http_search => \A k \in Looked : Choice!HttpScore(results[k]) <= best_score
  BY DEF ChoiceIInv
<1>2. http_search => best_score = Choice!HttpScore(chosen)
  BY <1>1 DEF Choice!ScoreOf
<1>. QED BY <1>1, <1>2, TitleCounts

LEMMA ChoiceInit == Choice!Init => ChoiceIInv
<1>. SUFFICES ASSUME Choice!Init PROVE ChoiceIInv
  OBVIOUS
<1>1. /\ http_search \in BOOLEAN /\ results = <<>> /\ place = 1 /\ chosen = None /\ best_score = -1
      /\ searched = TRUE
  BY DEF Choice!Init
<1>. QED BY <1>1 DEF ChoiceIInv, Looked

LEMMA ChoiceStep ==
  ASSUME ChoiceIInv, [Choice!Next]_searching
  PROVE  ChoiceIInv'
<1>0. /\ http_search \in BOOLEAN /\ results \in Seq(Candidates) /\ place \in Nat \ {0}
      /\ chosen \in Candidates \cup {None} /\ best_score \in Int /\ searched \in BOOLEAN
  BY DEF ChoiceIInv
<1>1. CASE Choice!Search
  <2>1. /\ results' \in Choice!SeqOf(Candidates, MaxResults) /\ http_search' = http_search
        /\ place' = 1 /\ chosen' = None /\ best_score' = -1 /\ searched' = FALSE
    BY <1>1 DEF Choice!Search
  <2>2. results' \in Seq(Candidates) /\ DOMAIN results' = 1 .. Len(results')
    <3>1. PICK m \in 0 .. MaxResults : results' \in [1 .. m -> Candidates]
      BY <2>1 DEF Choice!SeqOf
    <3>2. m \in Nat
      BY <3>1, ChoiceAssumption
    <3>. QED BY <3>1, <3>2
  <2>3. Looked' = {}
    BY <2>1, <2>2 DEF Looked
  <2>4. \A k \in Looked' : Choice!HttpScore(results[k])' <= best_score'
    BY <2>3
  <2>5. place' \in Nat \ {0} /\ chosen' = None /\ best_score' = -1 /\ best_score' \in Int
    BY <2>1
  <2>6. ~searched' /\ searched' \in BOOLEAN /\ http_search' \in BOOLEAN
    BY <1>0, <2>1
  <2>. QED BY <2>2, <2>4, <2>5, <2>6 DEF ChoiceIInv
<1>2. CASE Choice!Look
  <2>1. /\ ~searched /\ place <= Len(results) /\ place' = place + 1
        /\ http_search' = http_search /\ results' = results /\ searched' = searched
        /\ \/ /\ Choice!ScoreOf(results[place]) > best_score
              /\ chosen' = results[place] /\ best_score' = Choice!ScoreOf(results[place])
           \/ /\ Choice!ScoreOf(results[place]) <= best_score \/ ~http_search
              /\ UNCHANGED <<chosen, best_score>>
    BY <1>2 DEF Choice!Look
  <2>2. \A k \in Looked' : k \in Looked \/ k = place
    BY <1>0, <2>1 DEF Looked
  <2>3. \A k \in DOMAIN results : results[k] \in Candidates
    BY <1>0
  <2>4. http_search => \A k \in DOMAIN results :
            Choice!ScoreOf(results[k]) = Choice!HttpScore(results[k])
    BY DEF Choice!ScoreOf
  <2>5. \A d \in Candidates : Choice!ScoreOf(d)' = Choice!ScoreOf(d)
    BY <2>1 DEF Choice!ScoreOf
  <2>6. \A k \in Looked' : k \in DOMAIN results
    BY <2>1 DEF Looked
  <2>7. http_search => \A k \in Looked : Choice!HttpScore(results[k]) <= best_score
    BY <2>1 DEF ChoiceIInv
  <2>8. \A k \in DOMAIN results : Choice!HttpScore(results[k]) \in Int
    BY <2>3, ScoreType
  <2>9. CASE /\ Choice!ScoreOf(results[place]) > best_score
             /\ chosen' = results[place] /\ best_score' = Choice!ScoreOf(results[place])
    <3>1. place \in DOMAIN results /\ results[place] \in Candidates
      BY <1>0, <2>1
    <3>2. /\ chosen' \in Candidates /\ best_score' \in Int /\ best_score' > best_score
          /\ best_score' = (Choice!ScoreOf(chosen))'
      BY <2>5, <2>9, <3>1, ScoreType
    <3>3. chosen' # None
      BY <3>2, ScoreType
    <3>4. http_search => \A k \in Looked' : Choice!HttpScore(results[k]) <= best_score'
      <4> SUFFICES ASSUME http_search, NEW k \in Looked'
                   PROVE  Choice!HttpScore(results[k]) <= best_score'
        OBVIOUS
      <4>1. CASE k = place
        <5>1. Choice!HttpScore(results[place]) = best_score'
          BY <2>4, <2>9, <3>1
        <5>. QED BY <3>2, <4>1, <5>1
      <4>2. CASE k \in Looked
        <5>1. Choice!HttpScore(results[k]) <= best_score /\ Choice!HttpScore(results[k]) \in Int
          BY <2>6, <2>7, <2>8, <4>2
        <5>. QED BY <1>0, <3>2, <5>1
      <4>. QED BY <2>2, <4>1, <4>2
    <3>. QED BY <1>0, <2>1, <3>2, <3>3, <3>4 DEF ChoiceIInv
  <2>10. CASE /\ Choice!ScoreOf(results[place]) <= best_score \/ ~http_search
              /\ UNCHANGED <<chosen, best_score>>
    <3>1. place \in DOMAIN results /\ results[place] \in Candidates
      BY <1>0, <2>1
    <3>2. http_search => \A k \in Looked' : Choice!HttpScore(results[k]) <= best_score'
      BY <1>0, <2>2, <2>4, <2>6, <2>7, <2>8, <2>10, <3>1
    <3>3. chosen # None => best_score' = (Choice!ScoreOf(chosen))'
      BY <1>0, <2>1, <2>5, <2>10 DEF ChoiceIInv
    <3>. QED BY <1>0, <2>1, <2>10, <3>2, <3>3 DEF ChoiceIInv
  <2>. QED BY <2>1, <2>9, <2>10
<1>3. CASE Choice!Accept
  <2>1. /\ ~searched /\ place > Len(results) /\ searched' = TRUE
        /\ chosen' = IF best_score < Choice!Threshold THEN None ELSE chosen
        /\ http_search' = http_search /\ results' = results /\ place' = place
        /\ best_score' = best_score
    BY <1>3 DEF Choice!Accept
  <2>2. Choice!Threshold \in Int /\ Choice!Threshold' = Choice!Threshold
    BY <2>1 DEF Choice!Threshold, Choice!HttpThreshold, Choice!PgThreshold
  <2>3. Looked = DOMAIN results /\ Looked' = DOMAIN results
    <3>1. DOMAIN results = 1 .. Len(results) /\ Len(results) \in Nat /\ place \in Int
      BY <1>0
    <3>2. \A k \in DOMAIN results : k < place
      BY <2>1, <3>1
    <3>. QED BY <2>1, <3>2 DEF Looked
  <2>4. \A d \in Candidates : Choice!ScoreOf(d)' = Choice!ScoreOf(d)
    BY <2>1 DEF Choice!ScoreOf
  <2>5. CASE best_score < Choice!Threshold
    BY <1>0, <2>1, <2>5 DEF ChoiceIInv
  <2>6. CASE ~(best_score < Choice!Threshold)
    <3>1. chosen' = chosen /\ best_score >= Choice!Threshold
      BY <1>0, <2>1, <2>2, <2>6
    <3>. QED BY <1>0, <2>1, <2>2, <2>3, <2>4, <3>1 DEF ChoiceIInv
  <2>. QED BY <2>5, <2>6
<1>4. CASE Choice!Hand
  <2>1. /\ results' = <<>> /\ place' = 1 /\ chosen' = None /\ best_score' = -1
        /\ http_search' = http_search /\ searched' = searched /\ searched
    BY <1>4 DEF Choice!Hand
  <2>. QED BY <1>0, <2>1 DEF ChoiceIInv
<1>5. CASE UNCHANGED searching
  <2>1. UNCHANGED <<http_search, results, place, chosen, best_score, searched>>
    BY <1>5 DEF searching
  <2>. QED BY <2>1 DEF ChoiceIInv, Looked, Choice!ScoreOf, Choice!Threshold
<1>. QED BY <1>1, <1>2, <1>3, <1>4, <1>5 DEF Choice!Next
-----------------------------------------------------------------------------
(* What FoldLeft computes: the last of the states that begin with its base *)

\* Of a set of subsets of a finite set one has none of the others in it.
HasSmallest(F) == \E T \in F : \A U \in F : U \subseteq T => U = T

LEMMA SmallestSubset ==
  ASSUME NEW S, IsFiniteSet(S), NEW F, F \subseteq SUBSET S, F # {}
  PROVE  HasSmallest(F)
<1>1. IsWellFoundedOn(StrictSubsetOrdering(S), SUBSET S)
  BY FS_StrictSubsetOrderingWellFounded, FS_FiniteSubsetsOfFinite
<1>2. PICK T \in F : \A U \in F : <<U, T>> \notin StrictSubsetOrdering(S)
  BY <1>1, WFMin
<1>. QED BY <1>2 DEF StrictSubsetOrdering, HasSmallest

LEMMA FiniteInterval ==
  ASSUME NEW m \in Int, NEW n \in Int
  PROVE  IsFiniteSet(m .. n)
BY FS_Interval

LEMMA Greatest ==
  ASSUME NEW n \in Nat, NEW K, K \subseteq 1 .. n, K # {}
  PROVE  \E k \in K : \A j \in K : k >= j
<1> DEFINE S == 1 .. n  F == {k + 1 .. n : k \in K}
<1>1. IsFiniteSet(S) /\ F \subseteq SUBSET S /\ F # {}
  <2>1. IsFiniteSet(S)
    <3>1. 1 \in Int /\ n \in Int
      OBVIOUS
    <3>. QED BY <3>1, FiniteInterval
  <2>2. ASSUME NEW k \in K PROVE k + 1 .. n \subseteq S
    <3>1. k \in 1 .. n
      OBVIOUS
    <3>. QED BY <3>1
  <2>. QED BY <2>1, <2>2
<1>2. PICK T \in F : \A U \in F : U \subseteq T => U = T
  <2>1. HasSmallest(F)
    <3> HIDE DEF F, S
    <3>. QED BY <1>1, SmallestSubset
  <2>. QED BY <2>1 DEF HasSmallest
<1>3. PICK k \in K : T = k + 1 .. n
  OBVIOUS
<1>4. ASSUME NEW j \in K, ~(k >= j) PROVE FALSE
  <2>1. k \in 1 .. n /\ j \in 1 .. n /\ j > k
    BY <1>4
  <2>2. j + 1 .. n \in F /\ j + 1 .. n \subseteq T /\ j \in T /\ j \notin j + 1 .. n
    BY <1>3, <2>1
  <2>. QED BY <1>2, <2>2
<1>. QED BY <1>4

\* Induction up to a number.
LEMMA UpTo ==
  ASSUME NEW n \in Nat, NEW K, 0 \in K, \A k \in 1 .. n : k - 1 \in K => k \in K
  PROVE  \A k \in 0 .. n : k \in K
<1> DEFINE S == 0 .. n  F == {0 .. k : k \in (0 .. n) \ K}
<1> SUFFICES ASSUME NEW b \in 0 .. n, b \notin K PROVE FALSE
  OBVIOUS
<1>1. IsFiniteSet(S) /\ F \subseteq SUBSET S /\ F # {}
  <2>1. IsFiniteSet(S)
    <3>1. 0 \in Int /\ n \in Int
      OBVIOUS
    <3>. QED BY <3>1, FiniteInterval
  <2>2. ASSUME NEW k \in 0 .. n PROVE 0 .. k \subseteq S
    OBVIOUS
  <2>. QED BY <2>1, <2>2
<1>2. PICK T \in F : \A U \in F : U \subseteq T => U = T
  <2>1. HasSmallest(F)
    <3> HIDE DEF F, S
    <3>. QED BY <1>1, SmallestSubset
  <2>. QED BY <2>1 DEF HasSmallest
<1>3. PICK k \in (0 .. n) \ K : T = 0 .. k
  OBVIOUS
<1>4. k \in 1 .. n /\ k - 1 \in 0 .. n
  BY <1>3
<1>5. k - 1 \notin K
  BY <1>3, <1>4
<1>6. 0 .. k - 1 \in F /\ 0 .. k - 1 \subseteq T /\ k \in T /\ k \notin 0 .. k - 1
  BY <1>3, <1>4, <1>5
<1>. QED BY <1>2, <1>6

Top(s) == CHOOSE x \in s : \A y \in s : x >= y

LEMMA TopIn ==
  ASSUME NEW n \in Nat, NEW s, s \subseteq 1 .. n, s # {}
  PROVE  Top(s) \in s /\ \A y \in s : Top(s) >= y
<1>1. \E x \in s : \A y \in s : x >= y
  BY Greatest
<1>. QED BY <1>1 DEF Top

LEMMA TopOfPrefix ==
  ASSUME NEW n \in Nat, NEW k \in 1 .. n
  PROVE  /\ 1 .. k # {} /\ 1 .. k \in SUBSET (1 .. n) /\ Top(1 .. k) = k
         /\ (1 .. k) \ {Top(1 .. k)} = 1 .. k - 1
<1>1. 1 .. k # {} /\ 1 .. k \in SUBSET (1 .. n) /\ k \in 1 .. k
  OBVIOUS
<1>2. Top(1 .. k) \in 1 .. k /\ \A y \in 1 .. k : Top(1 .. k) >= y
  BY <1>1, TopIn
<1>3. Top(1 .. k) = k
  <2>1. Top(1 .. k) >= k
    BY <1>1, <1>2
  <2>. QED BY <1>2, <2>1
<1>4. (1 .. k) \ {k} = 1 .. k - 1
  OBVIOUS
<1>. QED BY <1>1, <1>3, <1>4

\* The recursion behind FoldLeft with the step F, and a function that obeys it.
Stepped(F, base, g, s) == IF s = {} THEN base ELSE F[<<g[s \ {Top(s)}], Top(s)>>]
Obeys(F, base, g, S) == g = [s \in SUBSET S |-> Stepped(F, base, g, s)]

Within(n, S) == n \in Nat /\ S \in SUBSET (1 .. n)

LEMMA FoldsAgree ==
  ASSUME NEW n, NEW F, NEW base,
         NEW S, Within(n, S), NEW T, Within(n, T),
         NEW g, Obeys(F, base, g, S), NEW h, Obeys(F, base, h, T),
         NEW s \in SUBSET S, s \in SUBSET T
  PROVE  g[s] = h[s]
<1> DEFINE Differ == {u \in SUBSET s : g[u] # h[u]}
<1>1. IsFiniteSet(s)
  <2>1. IsFiniteSet(1 .. n) /\ s \subseteq 1 .. n
    <3>1. 1 \in Int /\ n \in Int
      BY DEF Within
    <3>. QED BY <3>1, FiniteInterval DEF Within
  <2>. QED BY <2>1, FS_Subset
<1>2. SUFFICES ASSUME Differ # {} PROVE FALSE
  OBVIOUS
<1>3. PICK u \in Differ : \A w \in Differ : w \subseteq u => w = u
  <2>1. Differ \subseteq SUBSET s
    OBVIOUS
  <2>2. HasSmallest(Differ)
    <3> HIDE DEF Differ
    <3>. QED BY <1>1, <1>2, <2>1, SmallestSubset
  <2>. QED BY <2>2 DEF HasSmallest
<1>4. /\ g[u] = Stepped(F, base, g, u) /\ h[u] = Stepped(F, base, h, u)
      /\ u \in SUBSET s
  BY <1>3 DEF Obeys
<1>5. CASE u = {}
  BY <1>3, <1>4, <1>5 DEF Stepped
<1>6. CASE u # {}
  <2>1. Top(u) \in u
    BY <1>4, <1>6, TopIn DEF Within
  <2>2. u \ {Top(u)} \in SUBSET s /\ u \ {Top(u)} \subseteq u /\ u \ {Top(u)} # u
    BY <1>4, <2>1
  <2>3. g[u \ {Top(u)}] = h[u \ {Top(u)}]
    BY <1>3, <2>2
  <2>. QED BY <1>3, <1>4, <1>6, <2>3 DEF Stepped
<1>. QED BY <1>5, <1>6

LEMMA FoldsExist ==
  ASSUME NEW n \in Nat, NEW F, NEW base
  PROVE  \E g : Obeys(F, base, g, 1 .. n)
<1> DEFINE Lacking == {T \in SUBSET (1 .. n) : ~\E g : Obeys(F, base, g, T)}
<1>1. SUFFICES ASSUME Lacking # {} PROVE FALSE
  BY DEF Lacking
<1>2. PICK T \in Lacking : \A U \in Lacking : U \subseteq T => U = T
  <2>1. Lacking \subseteq SUBSET (1 .. n) /\ IsFiniteSet(1 .. n)
    <3>1. 1 \in Int /\ n \in Int
      OBVIOUS
    <3>. QED BY <3>1, FiniteInterval
  <2>2. HasSmallest(Lacking)
    <3> HIDE DEF Lacking
    <3>. QED BY <1>1, <2>1, SmallestSubset
  <2>. QED BY <2>2 DEF HasSmallest
<1>3. T \in SUBSET (1 .. n) /\ ~\E g : Obeys(F, base, g, T)
  BY <1>2
<1> DEFINE On(s) == CHOOSE g : Obeys(F, base, g, s)
           Rest(s) == IF s = {} THEN base ELSE F[<<On(s \ {Top(s)})[s \ {Top(s)}], Top(s)>>]
           g == [s \in SUBSET T |-> Rest(s)]
<1>4. ASSUME NEW s \in SUBSET T, s # T
      PROVE  Obeys(F, base, On(s), s)
  <2>1. \E h : Obeys(F, base, h, s)
    BY <1>2, <1>3, <1>4
  <2>. QED BY <2>1
<1>5. ASSUME NEW s \in SUBSET T, s # {}
      PROVE  g[s \ {Top(s)}] = On(s \ {Top(s)})[s \ {Top(s)}]
  <2> DEFINE r == s \ {Top(s)}
  <2>1. r \in SUBSET T /\ r # T /\ r \in SUBSET (1 .. n)
    BY <1>3, <1>5, TopIn
  <2>2. Obeys(F, base, On(r), r)
    BY <1>4, <2>1
  <2> HIDE DEF r
  <2>3. On(r)[r] = Stepped(F, base, On(r), r)
    BY <2>2 DEF Obeys
  <2>4. CASE r = {}
    BY <2>1, <2>3, <2>4 DEF Stepped, r
  <2>5. CASE r # {}
    <3> DEFINE q == r \ {Top(r)}
    <3>1. q \in SUBSET r /\ q \in SUBSET T /\ q # T /\ q \in SUBSET (1 .. n)
      BY <2>1, <2>5, TopIn
    <3>2. Obeys(F, base, On(q), q)
      BY <1>4, <3>1
    <3>3. q \in SUBSET q
      OBVIOUS
    <3>4. Within(n, r) /\ Within(n, q)
      BY <2>1, <3>1 DEF Within
    <3> HIDE DEF q, On
    <3>5. q \in SUBSET r
      BY <3>1
    <3>6. On(r)[q] = On(q)[q]
      BY <2>2, <3>2, <3>3, <3>4, <3>5, FoldsAgree
    <3>. QED BY <2>1, <2>3, <2>5, <3>6 DEF Stepped, r, q
  <2>. QED BY <2>4, <2>5 DEF r
<1>6. ASSUME NEW s \in SUBSET T PROVE g[s] = Stepped(F, base, g, s)
  <2>1. g[s] = Rest(s)
    OBVIOUS
  <2>2. CASE s = {}
    BY <2>1, <2>2 DEF Stepped
  <2>3. CASE s # {}
    <3>1. g[s \ {Top(s)}] = On(s \ {Top(s)})[s \ {Top(s)}]
      BY <1>5, <2>3
    <3>2. g[s] = F[<<On(s \ {Top(s)})[s \ {Top(s)}], Top(s)>>]
      BY <2>1, <2>3
    <3> HIDE DEF g, On
    <3>. QED BY <2>3, <3>1, <3>2 DEF Stepped
  <2>. QED BY <2>2, <2>3
<1>7. Obeys(F, base, g, T)
  <2> HIDE DEF g
  <2>1. g = [s \in SUBSET T |-> g[s]]
    BY DEF g
  <2>. QED BY <1>6, <2>1 DEF Obeys
<1>. QED BY <1>3, <1>7

\* If the step stays within V so does such a function.
LEMMA FoldsStay ==
  ASSUME NEW n \in Nat, NEW V, NEW F \in [V \X (1 .. n) -> V], NEW base \in V,
         NEW g, Obeys(F, base, g, 1 .. n)
  PROVE  \A s \in SUBSET (1 .. n) : g[s] \in V
<1> DEFINE Outside == {s \in SUBSET (1 .. n) : g[s] \notin V}
<1>1. SUFFICES ASSUME Outside # {} PROVE FALSE
  OBVIOUS
<1>2. PICK s \in Outside : \A u \in Outside : u \subseteq s => u = s
  <2>1. Outside \subseteq SUBSET (1 .. n) /\ IsFiniteSet(1 .. n)
    <3>1. 1 \in Int /\ n \in Int
      OBVIOUS
    <3>. QED BY <3>1, FiniteInterval
  <2>2. HasSmallest(Outside)
    <3> HIDE DEF Outside
    <3>. QED BY <1>1, <2>1, SmallestSubset
  <2>. QED BY <2>2 DEF HasSmallest
<1>3. g[s] = Stepped(F, base, g, s) /\ s \in SUBSET (1 .. n)
  BY <1>2 DEF Obeys
<1>4. s # {}
  BY <1>2, <1>3 DEF Stepped
<1>5. Top(s) \in s
  BY <1>3, <1>4, TopIn
<1>6. g[s \ {Top(s)}] \in V
  BY <1>2, <1>3, <1>5
<1>7. g[s] = F[<<g[s \ {Top(s)}], Top(s)>>]
  BY <1>3, <1>4 DEF Stepped
<1>8. Top(s) \in 1 .. n
  BY <1>3, <1>5
<1>. QED BY <1>2, <1>6, <1>7, <1>8

LEMMA FoldsGive ==
  ASSUME NEW n \in Nat, NEW V, NEW F \in [V \X (1 .. n) -> V], NEW base \in V
  PROVE  \E g : Obeys(F, base, g, 1 .. n) /\ \A s \in SUBSET (1 .. n) : g[s] \in V
<1>1. PICK g : Obeys(F, base, g, 1 .. n)
  BY FoldsExist
<1>2. \A s \in SUBSET (1 .. n) : g[s] \in V
  BY <1>1, FoldsStay
<1>. QED BY <1>1, <1>2
-----------------------------------------------------------------------------
(* The vote on a release *)

Votes == [rg : [Groups -> Nat], rel : [Releases -> Nat], pick : [Groups -> Releases \cup {None}],
          best : Groups \cup {None}]
Tallies == [seen : SUBSET Groups, votes : Votes]

LEMMA VoteTyped ==
  ASSUME NEW t \in Tallies, NEW r \in Releases
  PROVE  Vote!Vote(t, r) \in Tallies
<1> DEFINE g == GroupOf[r]
           v == t.votes
           new == g \notin t.seen
           rg == [v.rg EXCEPT ![g] = IF new THEN @ + 1 ELSE @]
           rel == [v.rel EXCEPT ![r] = @ + 1]
           pick == [v.pick EXCEPT ![g] = IF @ = None \/ rel[r] > rel[@] THEN r ELSE @]
           lead == IF new /\ rg[g] > Vote!Lead(v) THEN g ELSE v.best
<1>1. g \in Groups /\ v \in Votes /\ t.seen \subseteq Groups
  BY VoteAssumption DEF Tallies
<1>2. rg \in [Groups -> Nat] /\ rel \in [Releases -> Nat]
  BY <1>1 DEF Votes
<1>3. pick \in [Groups -> Releases \cup {None}]
  BY <1>1 DEF Votes
<1>4. lead \in Groups \cup {None}
  BY <1>1 DEF Votes
<1>5. Vote!Vote(t, r) = [seen |-> t.seen \cup {g},
                         votes |-> [rg |-> rg, rel |-> rel, pick |-> pick, best |-> lead]]
  BY DEF Vote!Vote
<1> HIDE DEF rg, rel, pick, lead, g
<1>. QED BY <1>1, <1>2, <1>3, <1>4, <1>5 DEF Tallies, Votes

VoteRec(list, base, g, s) ==
    IF s = {} THEN base ELSE Vote!Vote(g[s \ {Top(s)}], list[Top(s)])
VoteRuns(list, base, g) == g = [s \in SUBSET DOMAIN list |-> VoteRec(list, base, g, s)]

LEMMA TallyIsFold ==
  ASSUME NEW list
  PROVE  Vote!Tally(list) =
            (CHOOSE g : VoteRuns(list, [seen |-> {}, votes |-> votes], g))[DOMAIN list].votes
BY DEF Vote!Tally, Vote!FoldLeft, Vote!MapThenFoldSet, Vote!Max, VoteRuns, VoteRec, Top

LEMMA VotesRun ==
  ASSUME NEW list \in Seq(Releases), NEW base \in Tallies
  PROVE  \E g : VoteRuns(list, base, g)
<1> DEFINE n == Len(list)
           F == [p \in Tallies \X (1 .. n) |-> Vote!Vote(p[1], list[p[2]])]
<1>1. n \in Nat /\ DOMAIN list = 1 .. n /\ \A k \in 1 .. n : list[k] \in Releases
  OBVIOUS
<1>2. F \in [Tallies \X (1 .. n) -> Tallies]
  <2>1. ASSUME NEW p \in Tallies \X (1 .. n)
        PROVE  Vote!Vote(p[1], list[p[2]]) \in Tallies
    <3>1. p[1] \in Tallies /\ p[2] \in 1 .. n
      OBVIOUS
    <3>. QED BY <1>1, <3>1, VoteTyped
  <2>. QED BY <2>1
<1>3. ASSUME NEW x \in Tallies, NEW k \in 1 .. n
      PROVE  F[<<x, k>>] = Vote!Vote(x, list[k])
  OBVIOUS
<1> HIDE DEF F, n
<1>4. PICK g : Obeys(F, base, g, 1 .. n) /\ \A s \in SUBSET (1 .. n) : g[s] \in Tallies
  BY <1>1, <1>2, FoldsGive
<1>5. ASSUME NEW s \in SUBSET (1 .. n)
      PROVE  Stepped(F, base, g, s) = VoteRec(list, base, g, s)
  <2>1. CASE s = {}
    BY <2>1 DEF Stepped, VoteRec
  <2>2. CASE s # {}
    <3>1. Top(s) \in s /\ s \ {Top(s)} \in SUBSET (1 .. n)
      BY <1>1, <2>2, TopIn
    <3>2. Top(s) \in 1 .. n /\ g[s \ {Top(s)}] \in Tallies
      BY <1>4, <3>1
    <3>3. F[<<g[s \ {Top(s)}], Top(s)>>] = Vote!Vote(g[s \ {Top(s)}], list[Top(s)])
      BY <1>3, <3>2
    <3>. QED BY <2>2, <3>3 DEF Stepped, VoteRec
  <2>. QED BY <2>1, <2>2
<1>6. g = [s \in SUBSET (1 .. n) |-> Stepped(F, base, g, s)]
  BY <1>4 DEF Obeys
<1>7. g = [s \in SUBSET (1 .. n) |-> VoteRec(list, base, g, s)]
  BY <1>5, <1>6
<1>. QED BY <1>1, <1>7 DEF VoteRuns

\* The tally result by result.
LEMMA TallyRun ==
  ASSUME NEW list \in Seq(Releases), votes \in Votes
  PROVE  \E h \in [0 .. Len(list) -> Tallies] :
            /\ h[0] = [seen |-> {}, votes |-> votes]
            /\ \A k \in 1 .. Len(list) : h[k] = Vote!Vote(h[k - 1], list[k])
            /\ Vote!Tally(list) = h[Len(list)].votes
<1> DEFINE n == Len(list)
           base == [seen |-> {}, votes |-> votes]
           g == CHOOSE f : VoteRuns(list, base, f)
           h == [k \in 0 .. n |-> g[1 .. k]]
<1>1. n \in Nat /\ DOMAIN list = 1 .. n /\ \A k \in 1 .. n : list[k] \in Releases
  OBVIOUS
<1>2. base \in Tallies
  BY DEF Tallies
<1>3. VoteRuns(list, base, g)
  <2> HIDE DEF base
  <2>1. \E f : VoteRuns(list, base, f)
    BY <1>2, VotesRun
  <2>. QED BY <2>1
<1>4. Vote!Tally(list) = g[1 .. n].votes
  BY <1>1, TallyIsFold
<1> HIDE DEF n, base, g
<1>5. \A s \in SUBSET (1 .. n) : g[s] = VoteRec(list, base, g, s)
  BY <1>1, <1>3 DEF VoteRuns
<1>6. h[0] = base
  <2>1. h[0] = g[{}] /\ {} \in SUBSET (1 .. n)
    <3>1. 1 .. 0 = {} /\ 0 \in 0 .. n
      BY <1>1
    <3>. QED BY <3>1
  <2>. QED BY <1>5, <2>1 DEF VoteRec
<1>7. ASSUME NEW k \in 1 .. n PROVE h[k] = Vote!Vote(h[k - 1], list[k])
  <2>1. h[k] = g[1 .. k] /\ h[k - 1] = g[1 .. k - 1]
    BY <1>1
  <2>2. g[1 .. k] = VoteRec(list, base, g, 1 .. k)
    BY <1>1, <1>5, TopOfPrefix
  <2>3. VoteRec(list, base, g, 1 .. k) = Vote!Vote(g[(1 .. k) \ {Top(1 .. k)}], list[Top(1 .. k)])
    BY <1>1, TopOfPrefix DEF VoteRec
  <2>4. Top(1 .. k) = k /\ (1 .. k) \ {Top(1 .. k)} = 1 .. k - 1
    BY <1>1, TopOfPrefix
  <2>. QED BY <2>1, <2>2, <2>3, <2>4
<1>8. Vote!Tally(list) = h[n].votes
  <2>1. h[n] = g[1 .. n]
    BY <1>1
  <2>. QED BY <1>4, <2>1
<1>9. h \in [0 .. n -> Tallies]
  <2> DEFINE K == {k \in 0 .. n : h[k] \in Tallies}
  <2>1. 0 \in K
    BY <1>1, <1>2, <1>6
  <2>2. \A k \in 1 .. n : k - 1 \in K => k \in K
    <3>1. \A k \in 1 .. n : k \in 0 .. n
      BY <1>1
    <3> HIDE DEF h
    <3>2. \A k \in 1 .. n : h[k - 1] \in Tallies => h[k] \in Tallies
      BY <1>1, <1>7, VoteTyped
    <3>. QED BY <3>1, <3>2
  <2> HIDE DEF K
  <2>3. \A k \in 0 .. n : k \in K
    BY <1>1, <2>1, <2>2, UpTo
  <2>4. \A k \in 0 .. n : h[k] \in Tallies
    BY <2>3 DEF K
  <2>5. h = [k \in 0 .. n |-> h[k]]
    OBVIOUS
  <2> HIDE DEF h
  <2>. QED BY <2>4, <2>5
<1> HIDE DEF h
<1>. QED BY <1>6, <1>7, <1>8, <1>9 DEF n, base

\* What every vote keeps: the leading group has the most votes, the release picked for a group is one
\* of it and has the most, and a group that has votes has a release picked.
Ranked(v) ==
    /\ \A g \in Groups : v.rg[g] <= Vote!Lead(v)
    /\ \A r \in Releases : v.rel[r] > 0 =>
          v.pick[GroupOf[r]] # None /\ v.rel[r] <= v.rel[v.pick[GroupOf[r]]]
    /\ \A g \in Groups : v.pick[g] # None => GroupOf[v.pick[g]] = g
    /\ \A g \in Groups : v.rg[g] > 0 => v.pick[g] # None

\* An answer gives each group one vote at most, and only to those it names.
OneEach(t, v, list) ==
    /\ t.seen \subseteq {GroupOf[r] : r \in Vote!ToSet(list)}
    /\ \A g \in Groups : t.votes.rg[g] = v.rg[g] + (IF g \in t.seen THEN 1 ELSE 0)

LEMMA VoteEffect ==
  ASSUME NEW t \in Tallies, NEW r \in Releases
  PROVE  LET g == GroupOf[r]
             v == t.votes
             w == Vote!Vote(t, r).votes
         IN /\ g \in Groups /\ v \in Votes /\ w \in Votes
            /\ Vote!Vote(t, r).seen = t.seen \cup {g}
            /\ \A u \in Groups : w.rg[u] = v.rg[u] + (IF u = g /\ g \notin t.seen THEN 1 ELSE 0)
            /\ \A q \in Releases : w.rel[q] = v.rel[q] + (IF q = r THEN 1 ELSE 0)
            /\ \A u \in Groups : u # g => w.pick[u] = v.pick[u]
            /\ w.pick[g] = IF v.pick[g] = None \/ w.rel[r] > w.rel[v.pick[g]] THEN r ELSE v.pick[g]
            /\ w.best = IF g \notin t.seen /\ w.rg[g] > Vote!Lead(v) THEN g ELSE v.best
<1> DEFINE g == GroupOf[r]
           v == t.votes
           new == g \notin t.seen
           rg == [v.rg EXCEPT ![g] = IF new THEN @ + 1 ELSE @]
           rel == [v.rel EXCEPT ![r] = @ + 1]
           pick == [v.pick EXCEPT ![g] = IF @ = None \/ rel[r] > rel[@] THEN r ELSE @]
           lead == IF new /\ rg[g] > Vote!Lead(v) THEN g ELSE v.best
           w == Vote!Vote(t, r).votes
<1>1. g \in Groups /\ v \in Votes /\ t.seen \subseteq Groups
  BY VoteAssumption DEF Tallies
<1>2. Vote!Vote(t, r) = [seen |-> t.seen \cup {g},
                         votes |-> [rg |-> rg, rel |-> rel, pick |-> pick, best |-> lead]]
  BY DEF Vote!Vote
<1>3. Vote!Vote(t, r) \in Tallies
  BY VoteTyped
<1>4. w \in Votes
  BY <1>3 DEF Tallies
<1>5. w.rg = rg /\ w.rel = rel /\ w.pick = pick /\ w.best = lead /\ Vote!Vote(t, r).seen = t.seen \cup {g}
  <2> HIDE DEF rg, rel, pick, lead, g
  <2>. QED BY <1>2
<1>6. /\ v.rg \in [Groups -> Nat] /\ v.rel \in [Releases -> Nat]
      /\ v.pick \in [Groups -> Releases \cup {None}]
  BY <1>1 DEF Votes
<1>7. \A u \in Groups : w.rg[u] = v.rg[u] + (IF u = g /\ g \notin t.seen THEN 1 ELSE 0)
  <2> SUFFICES ASSUME NEW u \in Groups
               PROVE  rg[u] = v.rg[u] + (IF u = g /\ g \notin t.seen THEN 1 ELSE 0)
    BY <1>5
  <2>1. rg[u] = IF u = g /\ new THEN v.rg[u] + 1 ELSE v.rg[u]
    BY <1>1, <1>6
  <2>2. v.rg[u] \in Nat
    BY <1>6
  <2>. QED BY <2>1, <2>2
<1>8. \A q \in Releases : w.rel[q] = v.rel[q] + (IF q = r THEN 1 ELSE 0)
  <2> SUFFICES ASSUME NEW q \in Releases PROVE rel[q] = v.rel[q] + (IF q = r THEN 1 ELSE 0)
    BY <1>5
  <2>1. v.rel[q] \in Nat
    BY <1>6
  <2>. QED BY <1>6, <2>1
<1>9. \A u \in Groups : u # g => w.pick[u] = v.pick[u]
  <2> HIDE DEF rel, g
  <2>. QED BY <1>5, <1>6
<1>10. w.pick[g] = IF v.pick[g] = None \/ w.rel[r] > w.rel[v.pick[g]] THEN r ELSE v.pick[g]
  <2> HIDE DEF rel, g
  <2>. QED BY <1>1, <1>5, <1>6
<1>11. w.best = IF g \notin t.seen /\ w.rg[g] > Vote!Lead(v) THEN g ELSE v.best
  BY <1>5
<1> HIDE DEF rg, rel, pick, lead, new
<1>. QED BY <1>1, <1>4, <1>5, <1>7, <1>8, <1>9, <1>10, <1>11

LEMMA VoteRanks ==
  ASSUME NEW t \in Tallies, Ranked(t.votes), NEW r \in Releases
  PROVE  Ranked(Vote!Vote(t, r).votes)
<1> DEFINE g == GroupOf[r]
           v == t.votes
           w == Vote!Vote(t, r).votes
<1>1. /\ g \in Groups /\ v \in Votes /\ w \in Votes
      /\ \A u \in Groups : w.rg[u] = v.rg[u] + (IF u = g /\ g \notin t.seen THEN 1 ELSE 0)
      /\ \A q \in Releases : w.rel[q] = v.rel[q] + (IF q = r THEN 1 ELSE 0)
      /\ \A u \in Groups : u # g => w.pick[u] = v.pick[u]
      /\ w.pick[g] = IF v.pick[g] = None \/ w.rel[r] > w.rel[v.pick[g]] THEN r ELSE v.pick[g]
      /\ w.best = IF g \notin t.seen /\ w.rg[g] > Vote!Lead(v) THEN g ELSE v.best
  BY VoteEffect
<1>2. Ranked(v)
  OBVIOUS
<1> HIDE DEF v, w, g
<1>3. /\ \A u \in Groups : v.rg[u] \in Nat /\ w.rg[u] \in Nat
      /\ \A q \in Releases : v.rel[q] \in Nat /\ w.rel[q] \in Nat
      /\ \A u \in Groups : /\ v.pick[u] \in Releases \cup {None}
                           /\ w.pick[u] \in Releases \cup {None}
      /\ v.best \in Groups \cup {None} /\ w.best \in Groups \cup {None}
  BY <1>1 DEF Votes
<1>4. /\ Vote!Lead(v) = (IF v.best = None THEN 0 ELSE v.rg[v.best]) /\ Vote!Lead(v) \in Nat
      /\ Vote!Lead(w) = (IF w.best = None THEN 0 ELSE w.rg[w.best]) /\ Vote!Lead(w) \in Nat
  BY <1>3 DEF Vote!Lead
<1>5. None \notin Groups /\ None \notin Releases /\ g = GroupOf[r] /\ GroupOf \in [Releases -> Groups]
  BY VoteAssumption, ReleaseAssumption DEF g
<1>6. \A u \in Groups : w.rg[u] <= Vote!Lead(w)
  <2> SUFFICES ASSUME NEW u \in Groups PROVE w.rg[u] <= Vote!Lead(w)
    OBVIOUS
  <2>1. v.rg[u] <= Vote!Lead(v) /\ v.rg[g] <= Vote!Lead(v) /\ v.rg[u] \in Nat /\ v.rg[g] \in Nat
    BY <1>1, <1>2, <1>3 DEF Ranked
  <2>2. CASE g \notin t.seen /\ w.rg[g] > Vote!Lead(v)
    <3>1. w.best = g
      BY <1>1, <2>2
    <3>2. Vote!Lead(w) = w.rg[g]
      BY <1>1, <1>4, <1>5, <3>1
    <3>3. u # g => w.rg[u] = v.rg[u]
      BY <1>1, <1>3
    <3>. QED BY <1>1, <1>3, <1>4, <2>1, <2>2, <3>2, <3>3
  <2>3. CASE ~(g \notin t.seen /\ w.rg[g] > Vote!Lead(v))
    <3>1. w.best = v.best
      BY <1>1, <2>3
    <3>2. v.best # None => w.rg[v.best] >= v.rg[v.best]
      BY <1>1, <1>3
    <3>3. Vote!Lead(w) >= Vote!Lead(v)
      BY <1>4, <3>1, <3>2
    <3>4. CASE u = g /\ g \notin t.seen
      <4>1. w.rg[u] <= Vote!Lead(v)
        BY <1>3, <1>4, <2>3, <3>4
      <4>. QED BY <1>3, <1>4, <3>3, <4>1
    <3>5. CASE ~(u = g /\ g \notin t.seen)
      <4>1. w.rg[u] = v.rg[u]
        BY <1>1, <1>3, <3>5
      <4>. QED BY <1>3, <1>4, <2>1, <3>3, <4>1
    <3>. QED BY <3>4, <3>5
  <2>. QED BY <2>2, <2>3
<1>7. \A u \in Groups : w.pick[u] # None => GroupOf[w.pick[u]] = u
  BY <1>1, <1>2, <1>5 DEF Ranked
<1>8. w.pick[g] # None /\ \A u \in Groups : v.pick[u] # None => w.pick[u] # None
  <2>1. r # None
    BY <1>5
  <2>. QED BY <1>1, <2>1
<1>9. \A u \in Groups : w.rg[u] > 0 => w.pick[u] # None
  <2> SUFFICES ASSUME NEW u \in Groups, w.rg[u] > 0 PROVE w.pick[u] # None
    OBVIOUS
  <2>1. CASE u = g
    BY <1>8, <2>1
  <2>2. CASE u # g
    <3>1. w.rg[u] = v.rg[u]
      BY <1>1, <1>3, <2>2
    <3>. QED BY <1>2, <1>8, <3>1 DEF Ranked
  <2>. QED BY <2>1, <2>2
<1>10. ASSUME NEW q \in Releases, w.rel[q] > 0
       PROVE  w.pick[GroupOf[q]] # None /\ w.rel[q] <= w.rel[w.pick[GroupOf[q]]]
  <2>1. GroupOf[q] \in Groups
    BY <1>5
  <2>2. CASE GroupOf[q] # g
    <3>1. q # r
      BY <1>5, <2>2
    <3>2. w.rel[q] = v.rel[q] /\ w.pick[GroupOf[q]] = v.pick[GroupOf[q]]
      BY <1>1, <1>3, <2>1, <2>2, <3>1
    <3>3. v.pick[GroupOf[q]] # None /\ v.rel[q] <= v.rel[v.pick[GroupOf[q]]]
      BY <1>2, <1>10, <3>2 DEF Ranked
    <3>4. v.pick[GroupOf[q]] \in Releases
      BY <1>3, <2>1, <3>3
    <3>5. w.rel[v.pick[GroupOf[q]]] >= v.rel[v.pick[GroupOf[q]]]
      BY <1>1, <1>3, <3>4
    <3>. QED BY <1>3, <3>2, <3>3, <3>4, <3>5
  <2>3. CASE GroupOf[q] = g
    <3>1. q # r => w.rel[q] = v.rel[q]
      BY <1>1, <1>3
    <3>2. v.rel[q] > 0 => v.pick[g] # None /\ v.rel[q] <= v.rel[v.pick[g]]
      BY <1>2, <2>3 DEF Ranked
    <3>3. w.pick[g] # None
      BY <1>8
    <3>4. CASE v.pick[g] = None
      <4>1. q = r /\ w.pick[g] = r
        BY <1>1, <1>10, <3>1, <3>2, <3>4
      <4>. QED BY <1>3, <2>3, <3>3, <4>1
    <3>5. CASE v.pick[g] # None
      <4> DEFINE p == v.pick[g]
      <4>1. p \in Releases
        BY <1>1, <1>3, <3>5
      <4>2. /\ v.rel[p] \in Nat /\ w.rel[p] \in Nat /\ w.rel[p] >= v.rel[p]
            /\ w.rel[q] \in Nat /\ v.rel[q] \in Nat /\ w.rel[r] \in Nat
        BY <1>1, <1>3, <4>1
      <4>3. w.pick[g] = IF w.rel[r] > w.rel[p] THEN r ELSE p
        BY <1>1, <3>5
      <4>4. q # r => w.rel[q] <= w.rel[p]
        BY <3>1, <3>2, <4>2
      <4> HIDE DEF p
      <4>5. CASE w.rel[r] > w.rel[p]
        BY <2>3, <3>3, <4>2, <4>3, <4>4, <4>5
      <4>6. CASE ~(w.rel[r] > w.rel[p])
        BY <2>3, <3>3, <4>2, <4>3, <4>4, <4>6
      <4>. QED BY <4>5, <4>6
    <3>. QED BY <3>4, <3>5
  <2>. QED BY <2>2, <2>3
<1>. QED BY <1>6, <1>7, <1>9, <1>10 DEF Ranked, w

\* The leads are in order, no group has more votes than fingerprints have named it and one, and what
\* is found by fingerprints is settled last.
VoteIInv ==
    /\ votes \in Votes /\ Ranked(votes)
    /\ prints \in Nat /\ named \in [isrc : SUBSET Groups, print : [Groups -> Nat]]
    /\ vote_at \in {"tracks", "tags", "isrc"} => votes = Vote!NoVotes
    /\ \A g \in Groups : votes.rg[g] <= named.print[g] + 1
    /\ tier = "acoustid" => vote_at = "done"
    /\ Vote!MostAgree

LEMMA TallyEffect ==
  ASSUME NEW list \in Seq(Releases), votes \in Votes, Ranked(votes)
  PROVE  /\ Vote!Tally(list) \in Votes /\ Ranked(Vote!Tally(list))
         /\ \A g \in Groups :
              Vote!Tally(list).rg[g] <=
                votes.rg[g] + (IF \E r \in Vote!ToSet(list) : GroupOf[r] = g THEN 1 ELSE 0)
<1> DEFINE n == Len(list)
<1>1. PICK h \in [0 .. n -> Tallies] :
            /\ h[0] = [seen |-> {}, votes |-> votes]
            /\ \A k \in 1 .. n : h[k] = Vote!Vote(h[k - 1], list[k])
            /\ Vote!Tally(list) = h[n].votes
  BY TallyRun
<1>2. n \in Nat /\ DOMAIN list = 1 .. n /\ \A k \in 1 .. n : list[k] \in Releases
  OBVIOUS
<1>3. \A k \in 1 .. n : list[k] \in Vote!ToSet(list)
  BY DEF Vote!ToSet
<1> DEFINE Fine(t) == Ranked(t.votes) /\ OneEach(t, votes, list)
           K == {k \in 0 .. n : Fine(h[k])}
<1> HIDE DEF n
<1>4. 0 \in K
  <2>1. h[0].votes = votes /\ h[0].seen = {}
    BY <1>1
  <2>2. \A g \in Groups : votes.rg[g] = votes.rg[g] + 0
    BY DEF Votes
  <2>3. OneEach(h[0], votes, list)
    BY <2>1, <2>2 DEF OneEach
  <2>. QED BY <1>2, <2>1, <2>3
<1>5. ASSUME NEW k \in 1 .. n, Fine(h[k - 1])
      PROVE  Fine(h[k])
  <2> DEFINE t == h[k - 1]
             r == list[k]
             g == GroupOf[r]
  <2>1. t \in Tallies /\ r \in Releases /\ r \in Vote!ToSet(list) /\ h[k] = Vote!Vote(t, r)
    BY <1>1, <1>2, <1>3
  <2>2. Ranked(t.votes) /\ OneEach(t, votes, list)
    BY <1>5
  <2> HIDE DEF t, r
  <2>3. Ranked(h[k].votes)
    BY <2>1, <2>2, VoteRanks
  <2>4. /\ g \in Groups /\ h[k].seen = t.seen \cup {g}
        /\ \A u \in Groups : h[k].votes.rg[u] =
                t.votes.rg[u] + (IF u = g /\ g \notin t.seen THEN 1 ELSE 0)
    BY <2>1, VoteEffect
  <2>5. h[k].seen \subseteq {GroupOf[q] : q \in Vote!ToSet(list)}
    BY <2>1, <2>2, <2>4 DEF OneEach
  <2>6. \A u \in Groups : h[k].votes.rg[u] = votes.rg[u] + (IF u \in h[k].seen THEN 1 ELSE 0)
    <3> SUFFICES ASSUME NEW u \in Groups
                 PROVE  h[k].votes.rg[u] = votes.rg[u] + (IF u \in h[k].seen THEN 1 ELSE 0)
      OBVIOUS
    <3>1. t.votes.rg[u] = votes.rg[u] + (IF u \in t.seen THEN 1 ELSE 0) /\ votes.rg[u] \in Nat
      BY <2>2 DEF OneEach, Votes
    <3>2. h[k].votes.rg[u] = t.votes.rg[u] + (IF u = g /\ g \notin t.seen THEN 1 ELSE 0)
      BY <2>4
    <3>3. u \in h[k].seen <=> u \in t.seen \/ u = g
      BY <2>4
    <3> HIDE DEF g
    <3>. QED BY <3>1, <3>2, <3>3
  <2>. QED BY <2>3, <2>5, <2>6 DEF OneEach
<1>6. \A k \in 1 .. n : k - 1 \in K => k \in K
  <2>1. \A k \in 1 .. n : k \in 0 .. n
    BY <1>2
  <2> HIDE DEF Fine
  <2>2. \A k \in 1 .. n : Fine(h[k - 1]) => Fine(h[k])
    BY <1>5
  <2>. QED BY <2>1, <2>2
<1> HIDE DEF K
<1>7. \A k \in 0 .. n : k \in K
  BY <1>2, <1>4, <1>6, UpTo
<1>8. n \in 0 .. n
  BY <1>2
<1>9. Fine(h[n]) /\ h[n] \in Tallies
  BY <1>1, <1>7, <1>8 DEF K
<1>10. /\ Ranked(Vote!Tally(list)) /\ Vote!Tally(list) \in Votes
       /\ h[n].seen \subseteq {GroupOf[r] : r \in Vote!ToSet(list)}
       /\ \A g \in Groups : Vote!Tally(list).rg[g] = votes.rg[g] + (IF g \in h[n].seen THEN 1 ELSE 0)
  BY <1>1, <1>9 DEF OneEach, Tallies
<1>11. ASSUME NEW g \in Groups
       PROVE  Vote!Tally(list).rg[g] <=
                votes.rg[g] + (IF \E r \in Vote!ToSet(list) : GroupOf[r] = g THEN 1 ELSE 0)
  <2>1. g \in h[n].seen => \E r \in Vote!ToSet(list) : GroupOf[r] = g
    BY <1>10
  <2>2. Vote!Tally(list).rg[g] = votes.rg[g] + (IF g \in h[n].seen THEN 1 ELSE 0) /\ votes.rg[g] \in Nat
    BY <1>10 DEF Votes
  <2>. QED BY <2>1, <2>2
<1>. QED BY <1>10, <1>11

LEMMA AnswerLists ==
  ASSUME NEW web \in BOOLEAN
  PROVE  /\ \A a \in Vote!Isrc(web) : a.list \in Seq(Releases)
         /\ \A a \in Vote!Fingerprints(web) : a.list \in Seq(Releases)
<1>1. \A list \in Vote!Answers : list \in Seq(Releases)
  <2> SUFFICES ASSUME NEW list \in Vote!Answers PROVE list \in Seq(Releases)
    OBVIOUS
  <2>1. PICK m \in 0 .. MaxAnswer : list \in [1 .. m -> Releases]
    BY DEF Vote!Answers, Vote!SeqOf
  <2>2. m \in Nat
    BY <2>1, VoteAssumption
  <2>. QED BY <2>1, <2>2
<1>2. <<>> \in Seq(Releases)
  OBVIOUS
<1>3. \A res : Vote!Failure(res).list \in Seq(Releases)
  BY <1>2 DEF Vote!Failure
<1>4. \A list \in Vote!Answers : Vote!Answer(list).list \in Seq(Releases)
  BY <1>1 DEF Vote!Answer
<1>. QED BY <1>3, <1>4 DEF Vote!Isrc, Vote!Fingerprints, Vote!HttpIsrc, Vote!PgIsrc,
                           Vote!HttpFingerprint, Vote!PgFingerprint

LEMMA NoVotesRanked == Vote!NoVotes \in Votes /\ Ranked(Vote!NoVotes)
<1>1. Vote!NoVotes \in Votes
  BY DEF Vote!NoVotes, Votes
<1>2. /\ \A g \in Groups : Vote!NoVotes.rg[g] = 0 /\ Vote!NoVotes.pick[g] = None
      /\ \A r \in Releases : Vote!NoVotes.rel[r] = 0
      /\ Vote!Lead(Vote!NoVotes) = 0
  BY DEF Vote!NoVotes, Vote!Lead
<1>. QED BY <1>1, <1>2 DEF Ranked

LEMMA VoteInit == Vote!Init => VoteIInv
<1> SUFFICES ASSUME Vote!Init PROVE VoteIInv
  OBVIOUS
<1>1. /\ votes = Vote!NoVotes /\ prints = 0 /\ tier = "none"
      /\ named = [isrc |-> {}, print |-> [g \in Groups |-> 0]]
  BY DEF Vote!Init
<1>2. \A g \in Groups : votes.rg[g] <= named.print[g] + 1
  BY <1>1 DEF Vote!NoVotes
<1>. QED BY <1>1, <1>2, NoVotesRanked DEF VoteIInv, Vote!MostAgree

LEMMA IsrcVote ==
  ASSUME VoteIInv, Vote!IsrcLookup
  PROVE  VoteIInv'
<1>0. /\ votes \in Votes /\ Ranked(votes) /\ prints \in Nat
      /\ named \in [isrc : SUBSET Groups, print : [Groups -> Nat]]
      /\ vote_at = "isrc" /\ votes = Vote!NoVotes /\ tier # "acoustid"
      /\ \A g \in Groups : votes.rg[g] <= named.print[g] + 1
  BY DEF VoteIInv, Vote!IsrcLookup
<1>1. vote_at' = "solr" /\ prints' = prints
  BY DEF Vote!IsrcLookup
<1>2. CASE UNCHANGED <<votes, best, tier, named>>
  BY <1>0, <1>1, <1>2 DEF VoteIInv, Vote!MostAgree
<1>3. CASE \E a \in Vote!Isrc(http_vote) :
              LET v == Vote!Tally(a.list) IN
              /\ votes' = v
              /\ named' = [named EXCEPT !.isrc = {GroupOf[r] : r \in Vote!ToSet(a.list)}]
              /\ IF a.list # <<>> /\ Vote!Confident(v, tags.isrcs)
                 THEN best' = Vote!Pick(v) /\ tier' = "isrc"
                 ELSE UNCHANGED <<best, tier>>
  <2>1. PICK a \in Vote!Isrc(http_vote) :
              /\ votes' = Vote!Tally(a.list)
              /\ named' = [named EXCEPT !.isrc = {GroupOf[r] : r \in Vote!ToSet(a.list)}]
              /\ tier' = "isrc" \/ tier' = tier
    BY <1>3
  <2>2. a.list \in Seq(Releases)
    BY AnswerLists DEF Vote!Isrc
  <2>3. /\ votes' \in Votes /\ Ranked(votes')
        /\ \A g \in Groups : votes'.rg[g] <=
              votes.rg[g] + (IF \E r \in Vote!ToSet(a.list) : GroupOf[r] = g THEN 1 ELSE 0)
    BY <1>0, <2>1, <2>2, TallyEffect
  <2>4. named'.print = named.print /\ named' \in [isrc : SUBSET Groups, print : [Groups -> Nat]]
    <3>1. \A r \in Vote!ToSet(a.list) : r \in Releases
      BY <2>2 DEF Vote!ToSet
    <3>2. {GroupOf[r] : r \in Vote!ToSet(a.list)} \in SUBSET Groups
      BY <3>1, VoteAssumption
    <3>. QED BY <1>0, <2>1, <3>2
  <2>5. \A g \in Groups : votes'.rg[g] <= named'.print[g] + 1
    <3> SUFFICES ASSUME NEW g \in Groups PROVE votes'.rg[g] <= named.print[g] + 1
      BY <2>4
    <3>1. votes.rg[g] = 0 /\ named.print[g] \in Nat /\ votes'.rg[g] \in Nat
      BY <1>0, <2>3 DEF Vote!NoVotes, Votes
    <3>2. votes'.rg[g] <= votes.rg[g] + 1
      BY <2>3, <3>1
    <3>. QED BY <3>1, <3>2
  <2>6. tier' # "acoustid"
    BY <1>0, <2>1
  <2>7. Ranked(votes)'
    BY <2>3 DEF Ranked
  <2>. QED BY <1>0, <1>1, <2>3, <2>4, <2>5, <2>6, <2>7 DEF VoteIInv, Vote!MostAgree
<1>. QED BY <1>2, <1>3 DEF Vote!IsrcLookup

LEMMA PrintVote ==
  ASSUME VoteIInv, Vote!Fingerprint
  PROVE  VoteIInv'
<1>0. /\ votes \in Votes /\ Ranked(votes) /\ prints \in Nat
      /\ named \in [isrc : SUBSET Groups, print : [Groups -> Nat]]
      /\ vote_at = "prints" /\ tier # "acoustid"
      /\ \A g \in Groups : votes.rg[g] <= named.print[g] + 1
  BY DEF VoteIInv, Vote!Fingerprint
<1>1. tier' = tier /\ best' = best
  BY DEF Vote!Fingerprint
<1>2. CASE Vote!Undecoded
  BY <1>0, <1>1, <1>2 DEF VoteIInv, Vote!MostAgree, Vote!Undecoded
<1>3. CASE \E a \in Vote!Fingerprints(http_vote) :
          /\ prints' = prints + 1
          /\ votes' = Vote!Tally(a.list)
          /\ named' = [named EXCEPT !.print =
                [g \in Groups |-> IF \E r \in Vote!ToSet(a.list): GroupOf[r] = g
                                  THEN @[g] + 1 ELSE @[g]]]
          /\ vote_at' \in {"decide", vote_at}
  <2>1. PICK a \in Vote!Fingerprints(http_vote) :
          /\ prints' = prints + 1
          /\ votes' = Vote!Tally(a.list)
          /\ named' = [named EXCEPT !.print =
                [g \in Groups |-> IF \E r \in Vote!ToSet(a.list): GroupOf[r] = g
                                  THEN @[g] + 1 ELSE @[g]]]
          /\ vote_at' \in {"decide", vote_at}
    BY <1>3
  <2>2. a.list \in Seq(Releases)
    BY AnswerLists DEF Vote!Fingerprints
  <2>3. /\ votes' \in Votes /\ Ranked(votes')
        /\ \A g \in Groups : votes'.rg[g] <=
              votes.rg[g] + (IF \E r \in Vote!ToSet(a.list) : GroupOf[r] = g THEN 1 ELSE 0)
    BY <1>0, <2>1, <2>2, TallyEffect
  <2>4. /\ named' \in [isrc : SUBSET Groups, print : [Groups -> Nat]]
        /\ \A g \in Groups : named'.print[g] =
              named.print[g] + (IF \E r \in Vote!ToSet(a.list) : GroupOf[r] = g THEN 1 ELSE 0)
    <3> DEFINE pr == [g \in Groups |-> IF \E r \in Vote!ToSet(a.list): GroupOf[r] = g
                                       THEN named.print[g] + 1 ELSE named.print[g]]
    <3>1. \A g \in Groups : named.print[g] \in Nat
      BY <1>0
    <3>2. pr \in [Groups -> Nat]
      BY <3>1
    <3>3. \A g \in Groups : pr[g] =
              named.print[g] + (IF \E r \in Vote!ToSet(a.list) : GroupOf[r] = g THEN 1 ELSE 0)
      BY <3>1
    <3>4. named' = [named EXCEPT !.print = pr]
      BY <2>1
    <3> HIDE DEF pr
    <3>. QED BY <1>0, <3>2, <3>3, <3>4
  <2>5. \A g \in Groups : votes'.rg[g] <= named'.print[g] + 1
    <3> SUFFICES ASSUME NEW g \in Groups PROVE votes'.rg[g] <= named'.print[g] + 1
      OBVIOUS
    <3> DEFINE more == IF \E r \in Vote!ToSet(a.list) : GroupOf[r] = g THEN 1 ELSE 0
    <3>1. /\ votes.rg[g] \in Nat /\ votes'.rg[g] \in Nat /\ named.print[g] \in Nat
          /\ votes.rg[g] <= named.print[g] + 1
      BY <1>0, <2>3 DEF Votes
    <3>2. votes'.rg[g] <= votes.rg[g] + more /\ named'.print[g] = named.print[g] + more /\ more \in Nat
      BY <2>3, <2>4
    <3> HIDE DEF more
    <3>. QED BY <3>1, <3>2
  <2>6. Ranked(votes)'
    BY <2>3 DEF Ranked
  <2>7. vote_at' \notin {"tracks", "tags", "isrc"} /\ prints' \in Nat
    BY <1>0, <2>1
  <2>. QED BY <1>0, <1>1, <2>3, <2>4, <2>5, <2>6, <2>7 DEF VoteIInv, Vote!MostAgree
<1>. QED BY <1>2, <1>3 DEF Vote!Fingerprint

LEMMA DecideVote ==
  ASSUME VoteIInv, Vote!Decide
  PROVE  VoteIInv'
<1>0. /\ votes \in Votes /\ Ranked(votes) /\ prints \in Nat
      /\ named \in [isrc : SUBSET Groups, print : [Groups -> Nat]]
      /\ vote_at = "decide" /\ tier # "acoustid"
      /\ \A g \in Groups : votes.rg[g] <= named.print[g] + 1
  BY DEF VoteIInv, Vote!Decide
<1>1. vote_at' = "done" /\ votes' = votes /\ prints' = prints /\ named' = named
  BY DEF Vote!Decide
<1>2. CASE UNCHANGED <<best, tier>>
  BY <1>0, <1>1, <1>2 DEF VoteIInv, Vote!MostAgree, Ranked
<1>3. CASE /\ prints > 0 /\ Vote!Lead(votes) > 0 /\ Vote!Accepted
           /\ best' = Vote!Pick(votes) /\ tier' = "acoustid"
  <2>1. /\ votes.best \in Groups /\ Vote!Lead(votes) = votes.rg[votes.best]
        /\ Vote!Lead(votes) \in Nat
    BY <1>0, <1>3 DEF Vote!Lead, Votes
  <2>2. best' = votes.pick[votes.best] /\ GroupOf[best'] = votes.best
    BY <1>0, <1>3, <2>1 DEF Ranked, Vote!Pick
  <2>3. Vote!Lead(votes) <= named.print[votes.best] + 1 /\ named.print[votes.best] \in Nat
    BY <1>0, <2>1
  <2>4. prints > 1 => 100 * Vote!Lead(votes) >= 80 * prints
    BY <1>0, <1>3 DEF Vote!Accepted, Vote!Confident
  <2>5. prints > 1 => 100 * (named.print[GroupOf[best']] + 1) >= 80 * prints
    BY <1>0, <2>1, <2>2, <2>3, <2>4
  <2>6. Vote!MostAgree'
    BY <1>1, <2>5 DEF Vote!MostAgree
  <2>. QED BY <1>0, <1>1, <2>6 DEF VoteIInv, Ranked
<1>. QED BY <1>2, <1>3 DEF Vote!Decide

LEMMA VoteStep ==
  ASSUME VoteIInv, [Vote!Next]_voting
  PROVE  VoteIInv'
<1>1. CASE Vote!IsrcLookup
  BY <1>1, IsrcVote
<1>2. CASE Vote!Fingerprint
  BY <1>2, PrintVote
<1>3. CASE Vote!Decide
  BY <1>3, DecideVote
<1>4. CASE Vote!LoadTracks \/ Vote!ReadTags \/ Vote!FingerprintsEnd \/ Vote!Cancel
  <2>1. /\ votes' = votes /\ prints' = prints /\ named' = named /\ tier' = tier /\ best' = best
        /\ vote_at' \in {"tracks", "tags", "isrc"} => vote_at \in {"tracks", "tags", "isrc"}
        /\ vote_at = "done" => vote_at' = "done"
    BY <1>4 DEF Vote!LoadTracks, Vote!ReadTags, Vote!FingerprintsEnd, Vote!Cancel
  <2>. QED BY <2>1 DEF VoteIInv, Vote!MostAgree, Ranked
<1>5. CASE Vote!SolrSearch
  <2>1. /\ votes' = votes /\ prints' = prints /\ named' = named /\ vote_at' = "prints"
        /\ vote_at = "solr" /\ tier' \in {tier, "solr"}
    BY <1>5 DEF Vote!SolrSearch
  <2>2. tier' # "acoustid"
    BY <2>1 DEF VoteIInv
  <2>. QED BY <2>1, <2>2 DEF VoteIInv, Vote!MostAgree, Ranked
<1>6. CASE Vote!Return
  <2>1. /\ votes' = Vote!NoVotes /\ prints' = 0 /\ tier' = "none"
        /\ named' = [isrc |-> {}, print |-> [g \in Groups |-> 0]]
    BY <1>6 DEF Vote!Return
  <2>2. \A g \in Groups : votes'.rg[g] <= named'.print[g] + 1
    BY <2>1 DEF Vote!NoVotes
  <2>3. votes' \in Votes /\ Ranked(votes')
    BY <2>1, NoVotesRanked
  <2>4. Ranked(votes)'
    BY <2>3 DEF Ranked
  <2>. QED BY <2>1, <2>2, <2>3, <2>4 DEF VoteIInv, Vote!MostAgree
<1>7. CASE UNCHANGED voting
  BY <1>7 DEF voting, VoteIInv, Vote!MostAgree, Ranked
<1>. QED BY <1>1, <1>2, <1>3, <1>4, <1>5, <1>6, <1>7 DEF Vote!Next

LEMMA VoteSound == VoteIInv => Vote!MatchSound
<1>1. ASSUME VoteIInv, NEW r \in Releases, votes.rel[r] > 0
      PROVE  GroupOf[r] \in Groups /\ GroupOf[votes.pick[GroupOf[r]]] = GroupOf[r]
  BY <1>1, VoteAssumption DEF VoteIInv, Ranked
<1>. QED BY <1>1 DEF VoteIInv, Ranked, Vote!MatchSound, Vote!LeadersLead
-----------------------------------------------------------------------------
(* Which recording is which track *)

LEMMA Least ==
  ASSUME NEW n \in Nat, NEW K, K \subseteq 1 .. n, K # {}
  PROVE  \E k \in K : \A j \in K : k <= j
<1> DEFINE S == 1 .. n  F == {1 .. k : k \in K}
<1>1. IsFiniteSet(S) /\ F \subseteq SUBSET S /\ F # {}
  <2>1. IsFiniteSet(S)
    <3>1. 1 \in Int /\ n \in Int
      OBVIOUS
    <3>. QED BY <3>1, FiniteInterval
  <2>2. ASSUME NEW k \in K PROVE 1 .. k \subseteq S
    <3>1. k \in 1 .. n
      OBVIOUS
    <3>. QED BY <3>1
  <2>. QED BY <2>1, <2>2
<1>2. PICK T \in F : \A U \in F : U \subseteq T => U = T
  <2>1. HasSmallest(F)
    <3> HIDE DEF F, S
    <3>. QED BY <1>1, SmallestSubset
  <2>. QED BY <2>1 DEF HasSmallest
<1>3. PICK k \in K : T = 1 .. k
  OBVIOUS
<1>4. ASSUME NEW j \in K, ~(k <= j) PROVE FALSE
  <2>1. k \in 1 .. n /\ j \in 1 .. n /\ j < k
    BY <1>4
  <2>2. 1 .. j \in F /\ 1 .. j \subseteq T /\ k \in T /\ k \notin 1 .. j
    BY <1>3, <2>1
  <2>. QED BY <1>2, <2>2
<1>. QED BY <1>4

LEMMA MinIn ==
  ASSUME NEW n \in Nat, NEW K, K \subseteq 1 .. n, K # {}
  PROVE  Tracks!Min(K) \in K
<1>1. \E k \in K : \A j \in K : k <= j
  BY Least
<1>. QED BY <1>1 DEF Tracks!Min

LEMMA MinOfTwo ==
  ASSUME NEW x \in Nat, NEW y \in Nat
  PROVE  Tracks!Min({x, y}) \in {x, y} /\ Tracks!Min({x, y}) <= x /\ Tracks!Min({x, y}) <= y
<1>1. \E k \in {x, y} : \A j \in {x, y} : k <= j
  <2>1. CASE x <= y
    BY <2>1
  <2>2. CASE y <= x
    BY <2>2
  <2>. QED BY <2>1, <2>2
<1>. QED BY <1>1 DEF Tracks!Min

RecCount == Len(recordings)
TrackCount == Len(local)
PairsOf(n, m) == [rec : 1 .. n, track : 1 .. m, exact : BOOLEAN]
Pairs == PairsOf(RecCount, TrackCount)

Agree(r, t) == recordings[r].position = local[t].position /\ local[t].position > 0

\* No recording and no track has two matches, and the sure ones agree.
Fair(ms) ==
    /\ Cardinality(Tracks!UsedRecs(ms)) = Len(ms) /\ Cardinality(Tracks!UsedTracks(ms)) = Len(ms)
    /\ \A j \in DOMAIN ms : ms[j].exact => Agree(ms[j].rec, ms[j].track)

\* The first k recordings have had their turn.
Covered(ms, k) ==
    \A r \in 1 .. k, t \in 1 .. TrackCount : Agree(r, t) =>
        \E j \in DOMAIN ms : ms[j].exact /\ (ms[j].rec = r \/ ms[j].track = t)

TracksIInv ==
    /\ phase \in {"loaded", "exact", "done"}
    /\ recordings \in Seq(Tracks!Track) /\ local \in Seq(Tracks!Track)
    /\ matches \in Seq(Pairs) /\ Fair(matches)
    /\ phase = "loaded" => matches = <<>>
    /\ phase # "loaded" => Covered(matches, RecCount)

LEMMA UsedOfAppend ==
  ASSUME NEW n \in Nat, NEW m \in Nat,
         NEW ms \in Seq(PairsOf(n, m)), NEW x \in PairsOf(n, m)
  PROVE  /\ Append(ms, x) \in Seq(PairsOf(n, m))
         /\ Len(Append(ms, x)) = Len(ms) + 1 /\ Len(ms) \in Nat
         /\ DOMAIN Append(ms, x) = DOMAIN ms \cup {Len(ms) + 1}
         /\ \A j \in DOMAIN ms : Append(ms, x)[j] = ms[j]
         /\ Append(ms, x)[Len(ms) + 1] = x
         /\ Tracks!UsedRecs(Append(ms, x)) = Tracks!UsedRecs(ms) \cup {x.rec}
         /\ Tracks!UsedTracks(Append(ms, x)) = Tracks!UsedTracks(ms) \cup {x.track}
<1>1. /\ Append(ms, x) \in Seq(PairsOf(n, m)) /\ Len(Append(ms, x)) = Len(ms) + 1 /\ Len(ms) \in Nat
      /\ DOMAIN ms = 1 .. Len(ms) /\ DOMAIN Append(ms, x) = 1 .. Len(ms) + 1
      /\ \A j \in 1 .. Len(ms) : Append(ms, x)[j] = ms[j]
      /\ Append(ms, x)[Len(ms) + 1] = x
  OBVIOUS
<1>2. 1 .. Len(ms) + 1 = (1 .. Len(ms)) \cup {Len(ms) + 1}
  BY <1>1
<1>3. Tracks!UsedRecs(Append(ms, x)) = Tracks!UsedRecs(ms) \cup {x.rec}
  BY <1>1, <1>2 DEF Tracks!UsedRecs
<1>4. Tracks!UsedTracks(Append(ms, x)) = Tracks!UsedTracks(ms) \cup {x.track}
  BY <1>1, <1>2 DEF Tracks!UsedTracks
<1>. QED BY <1>1, <1>2, <1>3, <1>4

LEMMA UsedTypes ==
  ASSUME NEW n \in Nat, NEW m \in Nat,
         NEW ms \in Seq(PairsOf(n, m))
  PROVE  /\ Tracks!UsedRecs(ms) \subseteq 1 .. n /\ IsFiniteSet(Tracks!UsedRecs(ms))
         /\ Tracks!UsedTracks(ms) \subseteq 1 .. m /\ IsFiniteSet(Tracks!UsedTracks(ms))
<1>0. \A j \in DOMAIN ms : ms[j] \in PairsOf(n, m)
  OBVIOUS
<1>1. \A j \in DOMAIN ms : ms[j].rec \in 1 .. n /\ ms[j].track \in 1 .. m
  BY <1>0 DEF PairsOf
<1>2. Tracks!UsedRecs(ms) \subseteq 1 .. n /\ Tracks!UsedTracks(ms) \subseteq 1 .. m
  BY <1>1 DEF Tracks!UsedRecs, Tracks!UsedTracks
<1>3. IsFiniteSet(1 .. n) /\ IsFiniteSet(1 .. m)
  <2>1. 1 \in Int /\ n \in Int /\ m \in Int
    OBVIOUS
  <2>. QED BY <2>1, FiniteInterval
<1>. QED BY <1>2, <1>3, FS_Subset

\* A match more, of a recording and a track that have none.
LEMMA FairAppend ==
  ASSUME RecCount \in Nat, TrackCount \in Nat, NEW ms \in Seq(Pairs), Fair(ms), NEW x \in Pairs,
         x.rec \notin Tracks!UsedRecs(ms), x.track \notin Tracks!UsedTracks(ms),
         x.exact => Agree(x.rec, x.track)
  PROVE  Append(ms, x) \in Seq(Pairs) /\ Fair(Append(ms, x))
<1>1. /\ Append(ms, x) \in Seq(Pairs)
      /\ Len(Append(ms, x)) = Len(ms) + 1 /\ Len(ms) \in Nat
      /\ DOMAIN Append(ms, x) = DOMAIN ms \cup {Len(ms) + 1}
      /\ \A j \in DOMAIN ms : Append(ms, x)[j] = ms[j]
      /\ Append(ms, x)[Len(ms) + 1] = x
      /\ Tracks!UsedRecs(Append(ms, x)) = Tracks!UsedRecs(ms) \cup {x.rec}
      /\ Tracks!UsedTracks(Append(ms, x)) = Tracks!UsedTracks(ms) \cup {x.track}
  BY UsedOfAppend DEF Pairs
<1>2. IsFiniteSet(Tracks!UsedRecs(ms)) /\ IsFiniteSet(Tracks!UsedTracks(ms))
  BY UsedTypes DEF Pairs
<1>3. /\ Cardinality(Tracks!UsedRecs(ms) \cup {x.rec}) = Cardinality(Tracks!UsedRecs(ms)) + 1
      /\ Cardinality(Tracks!UsedTracks(ms) \cup {x.track}) = Cardinality(Tracks!UsedTracks(ms)) + 1
  BY <1>2, FS_AddElement
<1>4. \A j \in DOMAIN Append(ms, x) :
        Append(ms, x)[j].exact => Agree(Append(ms, x)[j].rec, Append(ms, x)[j].track)
  BY <1>1 DEF Fair
<1>. QED BY <1>1, <1>3, <1>4 DEF Fair

LEMMA CoveredStays ==
  ASSUME NEW ms, NEW k, Covered(ms, k), NEW longer,
         \A j \in DOMAIN ms : j \in DOMAIN longer /\ longer[j] = ms[j]
  PROVE  Covered(longer, k)
BY DEF Covered

\* One recording of the exact pass.
LEMMA ExactStep ==
  ASSUME RecCount \in Nat, TrackCount \in Nat, NEW k \in 1 .. RecCount,
         recordings[k].position \in Int,
         NEW ms \in Seq(Pairs), Fair(ms), Covered(ms, k - 1),
         Tracks!UsedRecs(ms) \subseteq 1 .. k - 1, \A j \in DOMAIN ms : ms[j].exact
  PROVE  LET new == Tracks!ExactFor(ms, k)
         IN /\ new \in Seq(Pairs) /\ Fair(new) /\ Covered(new, k)
            /\ Tracks!UsedRecs(new) \subseteq 1 .. k /\ \A j \in DOMAIN new : new[j].exact
<1> DEFINE free == {t \in DOMAIN local \ Tracks!UsedTracks(ms) :
                      local[t].position > 0 /\ local[t].position = recordings[k].position}
           idle == recordings[k].position <= 0 \/ free = {} \/ Len(ms) >= Tracks!MaxMatches
           x == Tracks!Match(k, Tracks!Min(free), TRUE)
           new == Tracks!ExactFor(ms, k)
<1>1. DOMAIN local = 1 .. TrackCount /\ k \in Nat /\ k >= 1 /\ k <= RecCount
  BY DEF TrackCount
<1>2. new = IF idle THEN ms ELSE Append(ms, x)
  BY DEF Tracks!ExactFor
<1>3. /\ Tracks!UsedRecs(ms) \subseteq 1 .. k - 1 /\ IsFiniteSet(Tracks!UsedRecs(ms))
      /\ Tracks!UsedTracks(ms) \subseteq 1 .. TrackCount /\ IsFiniteSet(Tracks!UsedTracks(ms))
  BY UsedTypes DEF Pairs
<1>4. Len(ms) \in Nat /\ k \notin Tracks!UsedRecs(ms)
  <2>1. k \notin 1 .. k - 1
    BY <1>1
  <2>. QED BY <1>3, <2>1
<1>5. ASSUME NEW t \in 1 .. TrackCount, Agree(k, t), t \notin Tracks!UsedTracks(ms)
      PROVE  ~idle
  <2>1. t \in free
    BY <1>1, <1>5 DEF Agree
  <2>2. recordings[k].position > 0
    BY <1>5 DEF Agree
  <2>3. Len(ms) <= k - 1
    <3>1. IsFiniteSet(1 .. k - 1) /\ Cardinality(1 .. k - 1) = k - 1
      <4> DEFINE p == k - 1
      <4>1. p \in Nat
        BY <1>1
      <4> HIDE DEF p
      <4>2. IsFiniteSet(1 .. p) /\ Cardinality(1 .. p) = p
        BY <4>1, IntervalSize
      <4>. QED BY <4>2 DEF p
    <3>2. Cardinality(Tracks!UsedRecs(ms)) <= Cardinality(1 .. k - 1)
      BY <1>3, <3>1, FS_Subset
    <3>. QED BY <3>1, <3>2 DEF Fair
  <2>4. Len(ms) <= TrackCount - 1
    <3>1. IsFiniteSet(1 .. TrackCount) /\ Cardinality(1 .. TrackCount) = TrackCount
      BY IntervalSize
    <3>2. /\ IsFiniteSet((1 .. TrackCount) \ {t})
          /\ Cardinality((1 .. TrackCount) \ {t}) = Cardinality(1 .. TrackCount) - 1
      BY <1>5, <3>1, FS_RemoveElement
    <3>3. Tracks!UsedTracks(ms) \subseteq (1 .. TrackCount) \ {t}
      BY <1>3, <1>5
    <3>4. Cardinality(Tracks!UsedTracks(ms)) <= Cardinality((1 .. TrackCount) \ {t})
      BY <3>2, <3>3, FS_Subset
    <3>. QED BY <3>1, <3>2, <3>4 DEF Fair
  <2>5. Tracks!MaxMatches \in {RecCount, TrackCount}
    BY MinOfTwo DEF Tracks!MaxMatches, RecCount, TrackCount
  <2>6. Len(ms) < Tracks!MaxMatches
    BY <1>1, <1>4, <2>3, <2>4, <2>5
  <2>7. recordings[k].position \in Int /\ Tracks!MaxMatches \in Nat
    BY <2>5
  <2> HIDE DEF free
  <2>8. free # {} /\ ~(recordings[k].position <= 0) /\ ~(Len(ms) >= Tracks!MaxMatches)
    BY <1>4, <2>1, <2>2, <2>6, <2>7
  <2>. QED BY <2>8
<1>6. CASE idle
  <2>1. new = ms
    BY <1>2, <1>6
  <2>2. Covered(ms, k)
    <3> SUFFICES ASSUME NEW r \in 1 .. k, NEW t \in 1 .. TrackCount, Agree(r, t)
                 PROVE  \E j \in DOMAIN ms : ms[j].exact /\ (ms[j].rec = r \/ ms[j].track = t)
      BY DEF Covered
    <3>1. CASE r # k
      <4>1. r \in 1 .. k - 1
        BY <1>1, <3>1
      <4>. QED BY <4>1 DEF Covered
    <3>2. CASE r = k
      <4>1. t \in Tracks!UsedTracks(ms)
        BY <1>5, <1>6, <3>2
      <4>. QED BY <4>1 DEF Tracks!UsedTracks
    <3>. QED BY <3>1, <3>2
  <2>3. Tracks!UsedRecs(ms) \subseteq 1 .. k
    <3>1. 1 .. k - 1 \subseteq 1 .. k
      BY <1>1
    <3>. QED BY <1>3, <3>1
  <2>. QED BY <2>1, <2>2, <2>3
<1>7. CASE ~idle
  <2>1. new = Append(ms, x)
    BY <1>2, <1>7
  <2>2. free # {} /\ free \subseteq 1 .. TrackCount
    BY <1>1, <1>7
  <2>3. Tracks!Min(free) \in free
    <3> HIDE DEF free
    <3>. QED BY <2>2, MinIn
  <2>4. /\ x.rec = k /\ x.track \in 1 .. TrackCount /\ x.track \notin Tracks!UsedTracks(ms) /\ x.exact
        /\ x \in Pairs /\ Agree(x.rec, x.track)
    <3>1. x = [rec |-> k, track |-> Tracks!Min(free), exact |-> TRUE]
      BY DEF Tracks!Match
    <3>2. /\ Tracks!Min(free) \in 1 .. TrackCount /\ Tracks!Min(free) \notin Tracks!UsedTracks(ms)
          /\ Agree(k, Tracks!Min(free))
      BY <1>1, <2>3 DEF Agree
    <3> HIDE DEF x, free
    <3>. QED BY <1>1, <3>1, <3>2 DEF Pairs, PairsOf
  <2> HIDE DEF x, new
  <2>5. new \in Seq(Pairs) /\ Fair(new)
    BY <1>4, <2>1, <2>4, FairAppend
  <2>6. /\ DOMAIN new = DOMAIN ms \cup {Len(ms) + 1} /\ \A j \in DOMAIN ms : new[j] = ms[j]
        /\ new[Len(ms) + 1] = x /\ Tracks!UsedRecs(new) = Tracks!UsedRecs(ms) \cup {x.rec}
    BY <2>1, <2>4, UsedOfAppend DEF Pairs
  <2>7. Covered(new, k - 1)
    BY <2>6, CoveredStays
  <2>8. Covered(new, k)
    <3> SUFFICES ASSUME NEW r \in 1 .. k, NEW t \in 1 .. TrackCount, Agree(r, t)
                 PROVE  \E j \in DOMAIN new : new[j].exact /\ (new[j].rec = r \/ new[j].track = t)
      BY DEF Covered
    <3>1. CASE r # k
      <4>1. r \in 1 .. k - 1
        BY <1>1, <3>1
      <4>. QED BY <2>7, <4>1 DEF Covered
    <3>2. CASE r = k
      BY <2>4, <2>6, <3>2
    <3>. QED BY <3>1, <3>2
  <2>9. Tracks!UsedRecs(new) \subseteq 1 .. k
    <3>1. 1 .. k - 1 \subseteq 1 .. k /\ k \in 1 .. k
      BY <1>1
    <3>. QED BY <1>3, <2>4, <2>6, <3>1
  <2>10. \A j \in DOMAIN new : new[j].exact
    BY <2>4, <2>6
  <2>. QED BY <2>5, <2>8, <2>9, <2>10 DEF new
<1>. QED BY <1>6, <1>7

\* One recording of the guessing pass.
LEMMA FuzzyStep ==
  ASSUME RecCount \in Nat, TrackCount \in Nat, NEW k \in 1 .. RecCount,
         NEW ms \in Seq(Pairs), Fair(ms), Covered(ms, RecCount)
  PROVE  LET new == Tracks!FuzzyFor(ms, k)
         IN new \in Seq(Pairs) /\ Fair(new) /\ Covered(new, RecCount)
<1> DEFINE free == DOMAIN local \ Tracks!UsedTracks(ms)
           better == {t \in free : /\ Tracks!Score(k, t) > 50
                                   /\ \A u \in free : Tracks!Score(k, u) <= Tracks!Score(k, t)}
           idle == k \in Tracks!UsedRecs(ms) \/ better = {} \/ Len(ms) >= Tracks!MaxMatches
           x == Tracks!Match(k, Tracks!Min(better), FALSE)
           new == Tracks!FuzzyFor(ms, k)
<1>1. DOMAIN local = 1 .. TrackCount
  BY DEF TrackCount
<1>2. new = IF idle THEN ms ELSE Append(ms, x)
  BY DEF Tracks!FuzzyFor
<1>3. CASE idle
  BY <1>2, <1>3
<1>4. CASE ~idle
  <2>1. new = Append(ms, x)
    BY <1>2, <1>4
  <2>2. better # {} /\ better \subseteq free /\ free \subseteq 1 .. TrackCount
    BY <1>1, <1>4
  <2>3. Tracks!Min(better) \in 1 .. TrackCount /\ Tracks!Min(better) \notin Tracks!UsedTracks(ms)
    <3>1. Tracks!Min(better) \in better
      <4> HIDE DEF better
      <4>. QED BY <2>2, MinIn
    <3>. QED BY <2>2, <3>1
  <2>4. /\ x.rec = k /\ x.track = Tracks!Min(better) /\ ~x.exact /\ x \in Pairs
        /\ k \notin Tracks!UsedRecs(ms)
    <3>1. x = [rec |-> k, track |-> Tracks!Min(better), exact |-> FALSE]
      BY DEF Tracks!Match
    <3>2. k \notin Tracks!UsedRecs(ms)
      BY <1>4
    <3> HIDE DEF x, better
    <3>. QED BY <2>3, <3>1, <3>2 DEF Pairs, PairsOf
  <2> HIDE DEF x, new, better
  <2>5. new \in Seq(Pairs) /\ Fair(new)
    BY <2>1, <2>3, <2>4, FairAppend
  <2>6. \A j \in DOMAIN ms : j \in DOMAIN new /\ new[j] = ms[j]
    BY <2>1, <2>4, UsedOfAppend DEF Pairs
  <2>7. Covered(new, RecCount)
    BY <2>6, CoveredStays
  <2>. QED BY <2>5, <2>7 DEF new
<1>. QED BY <1>3, <1>4

Pass(sure, ms, r) == IF sure THEN Tracks!ExactFor(ms, r) ELSE Tracks!FuzzyFor(ms, r)

LEMMA PassTyped ==
  ASSUME RecCount \in Nat, TrackCount \in Nat, NEW sure \in BOOLEAN, NEW k \in 1 .. RecCount,
         NEW ms \in Seq(Pairs)
  PROVE  Pass(sure, ms, k) \in Seq(Pairs)
<1>1. DOMAIN local = 1 .. TrackCount
  BY DEF TrackCount
<1>2. ASSUME NEW K, K \subseteq 1 .. TrackCount, K # {}, NEW certain \in BOOLEAN
      PROVE  Append(ms, Tracks!Match(k, Tracks!Min(K), certain)) \in Seq(Pairs)
  <2>1. Tracks!Min(K) \in 1 .. TrackCount
    BY <1>2, MinIn
  <2>2. Tracks!Match(k, Tracks!Min(K), certain) \in Pairs
    BY <2>1 DEF Tracks!Match, Pairs, PairsOf
  <2>. QED BY <2>2
<1>3. CASE sure
  <2> DEFINE free == {t \in DOMAIN local \ Tracks!UsedTracks(ms) :
                        local[t].position > 0 /\ local[t].position = recordings[k].position}
             idle == recordings[k].position <= 0 \/ free = {} \/ Len(ms) >= Tracks!MaxMatches
  <2>1. Tracks!ExactFor(ms, k) =
          IF idle THEN ms ELSE Append(ms, Tracks!Match(k, Tracks!Min(free), TRUE))
    BY DEF Tracks!ExactFor
  <2>2. free \subseteq 1 .. TrackCount
    BY <1>1
  <2>3. ~idle => free # {}
    OBVIOUS
  <2> HIDE DEF free, idle
  <2>4. ~idle => Append(ms, Tracks!Match(k, Tracks!Min(free), TRUE)) \in Seq(Pairs)
    BY <1>2, <2>2, <2>3
  <2>. QED BY <1>3, <2>1, <2>4 DEF Pass
<1>4. CASE ~sure
  <2> DEFINE free == DOMAIN local \ Tracks!UsedTracks(ms)
             better == {t \in free : /\ Tracks!Score(k, t) > 50
                                     /\ \A u \in free : Tracks!Score(k, u) <= Tracks!Score(k, t)}
             idle == k \in Tracks!UsedRecs(ms) \/ better = {} \/ Len(ms) >= Tracks!MaxMatches
  <2>1. Tracks!FuzzyFor(ms, k) =
          IF idle THEN ms ELSE Append(ms, Tracks!Match(k, Tracks!Min(better), FALSE))
    BY DEF Tracks!FuzzyFor
  <2>2. better \subseteq 1 .. TrackCount
    BY <1>1
  <2>3. ~idle => better # {}
    OBVIOUS
  <2> HIDE DEF better, idle
  <2>4. ~idle => Append(ms, Tracks!Match(k, Tracks!Min(better), FALSE)) \in Seq(Pairs)
    BY <1>2, <2>2, <2>3
  <2>. QED BY <1>4, <2>1, <2>4 DEF Pass
<1>. QED BY <1>3, <1>4

ExactRec(g, s) ==
    IF s = {} THEN <<>> ELSE Tracks!ExactFor(g[s \ {Top(s)}], Tracks!Indices(recordings)[Top(s)])
FuzzyRec(g, s) ==
    IF s = {} THEN matches
    ELSE Tracks!FuzzyFor(g[s \ {Top(s)}], Tracks!Indices(recordings)[Top(s)])
PassRec(sure, base, g, s) ==
    IF s = {} THEN base
    ELSE Pass(sure, g[s \ {Top(s)}], Tracks!Indices(recordings)[Top(s)])
Turns == DOMAIN Tracks!Indices(recordings)
ExactRuns(g) == g = [s \in SUBSET Turns |-> ExactRec(g, s)]
FuzzyRuns(g) == g = [s \in SUBSET Turns |-> FuzzyRec(g, s)]
PassRuns(sure, base, g) == g = [s \in SUBSET Turns |-> PassRec(sure, base, g, s)]

LEMMA PassesAreFolds ==
  /\ Tracks!FoldLeft(Tracks!ExactFor, <<>>, Tracks!Indices(recordings)) = (CHOOSE g : ExactRuns(g))[Turns]
  /\ Tracks!FoldLeft(Tracks!FuzzyFor, matches, Tracks!Indices(recordings))
        = (CHOOSE g : FuzzyRuns(g))[Turns]
BY DEF Tracks!FoldLeft, Tracks!MapThenFoldSet, Tracks!Max, ExactRuns, FuzzyRuns, ExactRec, FuzzyRec,
       Top, Turns

LEMMA TurnsAre ==
  ASSUME recordings \in Seq(Tracks!Track)
  PROVE  /\ RecCount \in Nat /\ Turns = 1 .. RecCount
         /\ \A k \in 1 .. RecCount : Tracks!Indices(recordings)[k] = k
BY DEF Turns, RecCount, Tracks!Indices

LEMMA PassRunsAre ==
  \A g : (ExactRuns(g) <=> PassRuns(TRUE, <<>>, g)) /\ (FuzzyRuns(g) <=> PassRuns(FALSE, matches, g))
<1>1. \A g, s : ExactRec(g, s) = PassRec(TRUE, <<>>, g, s) /\ FuzzyRec(g, s) = PassRec(FALSE, matches, g, s)
  BY DEF ExactRec, FuzzyRec, PassRec, Pass
<1>. QED BY <1>1 DEF ExactRuns, FuzzyRuns, PassRuns

LEMMA PassRun ==
  ASSUME recordings \in Seq(Tracks!Track), TrackCount \in Nat,
         NEW sure \in BOOLEAN, NEW base \in Seq(Pairs)
  PROVE  \E g : PassRuns(sure, base, g)
<1> DEFINE n == RecCount
           V == Seq(Pairs)
           F == [p \in V \X (1 .. n) |-> Pass(sure, p[1], p[2])]
<1>1. n \in Nat /\ Turns = 1 .. n /\ \A k \in 1 .. n : Tracks!Indices(recordings)[k] = k
  BY TurnsAre
<1>2. F \in [V \X (1 .. n) -> V]
  <2>1. ASSUME NEW p \in V \X (1 .. n)
        PROVE  Pass(sure, p[1], p[2]) \in V
    <3>1. p[1] \in Seq(Pairs) /\ p[2] \in 1 .. RecCount
      OBVIOUS
    <3> HIDE DEF V
    <3>. QED BY <1>1, <3>1, PassTyped DEF V
  <2> HIDE DEF V
  <2>. QED BY <2>1
<1>3. base \in V
  OBVIOUS
<1> HIDE DEF V
<1>4. ASSUME NEW y \in V, NEW k \in 1 .. n
      PROVE  F[<<y, k>>] = Pass(sure, y, k)
  OBVIOUS
<1> HIDE DEF F, n
<1>5. PICK g : Obeys(F, base, g, 1 .. n) /\ \A s \in SUBSET (1 .. n) : g[s] \in V
  BY <1>1, <1>2, <1>3, FoldsGive
<1>6. ASSUME NEW s \in SUBSET (1 .. n)
      PROVE  Stepped(F, base, g, s) = PassRec(sure, base, g, s)
  <2>1. CASE s = {}
    BY <2>1 DEF Stepped, PassRec
  <2>2. CASE s # {}
    <3>1. Top(s) \in s /\ s \ {Top(s)} \in SUBSET (1 .. n)
      BY <1>1, <2>2, TopIn
    <3>2. Top(s) \in 1 .. n /\ g[s \ {Top(s)}] \in V
      BY <1>5, <3>1
    <3>3. F[<<g[s \ {Top(s)}], Top(s)>>] = Pass(sure, g[s \ {Top(s)}], Tracks!Indices(recordings)[Top(s)])
      BY <1>1, <1>4, <3>2
    <3>. QED BY <2>2, <3>3 DEF Stepped, PassRec
  <2>. QED BY <2>1, <2>2
<1>7. g = [s \in SUBSET (1 .. n) |-> Stepped(F, base, g, s)]
  BY <1>5 DEF Obeys
<1>8. g = [s \in SUBSET (1 .. n) |-> PassRec(sure, base, g, s)]
  BY <1>6, <1>7
<1>. QED BY <1>1, <1>8 DEF PassRuns

\* What a pass keeps turn by turn it keeps.
LEMMA PassKeeps ==
  ASSUME recordings \in Seq(Tracks!Track), TrackCount \in Nat,
         NEW sure \in BOOLEAN, NEW base \in Seq(Pairs), NEW g, PassRuns(sure, base, g),
         NEW Good, <<base, 0>> \in Good,
         \A k \in 1 .. RecCount : \A ms \in Seq(Pairs) :
            <<ms, k - 1>> \in Good => <<Pass(sure, ms, k), k>> \in Good
  PROVE  g[Turns] \in Seq(Pairs) /\ <<g[Turns], RecCount>> \in Good
<1> DEFINE n == RecCount
           K == {k \in 0 .. n : g[1 .. k] \in Seq(Pairs) /\ <<g[1 .. k], k>> \in Good}
<1>1. n \in Nat /\ Turns = 1 .. n /\ \A k \in 1 .. n : Tracks!Indices(recordings)[k] = k
  BY TurnsAre
<1>2. \A s \in SUBSET (1 .. n) : g[s] = PassRec(sure, base, g, s)
  BY <1>1 DEF PassRuns
<1>3. 0 \in K
  <2>1. 1 .. 0 = {} /\ 0 \in 0 .. n /\ {} \in SUBSET (1 .. n)
    BY <1>1
  <2>2. g[{}] = base
    BY <1>2, <2>1 DEF PassRec
  <2>. QED BY <2>1, <2>2
<1>4. ASSUME NEW k \in 1 .. n, k - 1 \in K
      PROVE  k \in K
  <2>1. g[1 .. k] = PassRec(sure, base, g, 1 .. k)
    BY <1>1, <1>2, TopOfPrefix
  <2>2. 1 .. k # {} /\ Top(1 .. k) = k /\ (1 .. k) \ {Top(1 .. k)} = 1 .. k - 1
    BY <1>1, TopOfPrefix
  <2>3. g[1 .. k] = Pass(sure, g[1 .. k - 1], k)
    BY <1>1, <2>1, <2>2 DEF PassRec
  <2>4. g[1 .. k - 1] \in Seq(Pairs) /\ <<g[1 .. k - 1], k - 1>> \in Good
    BY <1>4
  <2>5. g[1 .. k] \in Seq(Pairs)
    BY <1>1, <2>3, <2>4, PassTyped
  <2>6. <<g[1 .. k], k>> \in Good
    BY <2>3, <2>4
  <2>7. k \in 0 .. n
    BY <1>1
  <2>. QED BY <2>5, <2>6, <2>7
<1> HIDE DEF K
<1>5. \A k \in 1 .. n : k - 1 \in K => k \in K
  BY <1>4
<1>6. \A k \in 0 .. n : k \in K
  BY <1>1, <1>3, <1>5, UpTo
<1>7. n \in K
  BY <1>1, <1>6
<1>. QED BY <1>1, <1>7 DEF K

LEMMA NoneFair ==
  /\ <<>> \in Seq(Pairs) /\ Fair(<<>>) /\ Covered(<<>>, 0)
  /\ Tracks!UsedRecs(<<>>) = {} /\ DOMAIN <<>> = {}
<1>1. Tracks!UsedRecs(<<>>) = {} /\ Tracks!UsedTracks(<<>>) = {} /\ Len(<<>>) = 0 /\ DOMAIN <<>> = {}
  BY DEF Tracks!UsedRecs, Tracks!UsedTracks
<1>2. Cardinality({}) = 0
  BY FS_EmptySet
<1>3. 1 .. 0 = {}
  OBVIOUS
<1>4. Covered(<<>>, 0)
  BY <1>3 DEF Covered
<1>5. <<>> \in Seq(Pairs)
  OBVIOUS
<1>6. Fair(<<>>)
  <2> DEFINE none == <<>>
  <2>1. Tracks!UsedRecs(none) = {} /\ Tracks!UsedTracks(none) = {} /\ Len(none) = 0 /\ DOMAIN none = {}
    BY <1>1
  <2> HIDE DEF none
  <2>2. Fair(none)
    BY <1>2, <2>1 DEF Fair
  <2>. QED BY <2>2 DEF none
<1>. QED BY <1>1, <1>4, <1>5, <1>6

LEMMA TracksInit == Tracks!Init => TracksIInv
<1> SUFFICES ASSUME Tracks!Init PROVE TracksIInv
  OBVIOUS
<1>1. phase = "loaded" /\ recordings = <<>> /\ local = <<>> /\ matches = <<>>
  BY DEF Tracks!Init
<1>. QED BY <1>1, NoneFair DEF TracksIInv

LEMMA SomeRecordings ==
  ASSUME NEW list \in Tracks!SeqOf(Tracks!Track, MaxRecordings)
  PROVE  list \in Seq(Tracks!Track)
<1>1. PICK m \in 0 .. MaxRecordings : list \in [1 .. m -> Tracks!Track]
  BY DEF Tracks!SeqOf
<1>2. m \in Nat
  BY <1>1, TracksAssumption
<1>. QED BY <1>1, <1>2

LEMMA ExactPassKeeps ==
  ASSUME TracksIInv, Tracks!ExactPass
  PROVE  matches' \in Seq(Pairs) /\ Fair(matches') /\ Covered(matches', RecCount)
<1> DEFINE c == CHOOSE g : ExactRuns(g)
           Good == {p \in Seq(Pairs) \X (0 .. RecCount) :
                      /\ Fair(p[1]) /\ Covered(p[1], p[2])
                      /\ Tracks!UsedRecs(p[1]) \subseteq 1 .. p[2]
                      /\ \A j \in DOMAIN p[1] : p[1][j].exact}
<1>1. recordings \in Seq(Tracks!Track) /\ local \in Seq(Tracks!Track)
  BY DEF TracksIInv
<1>2. /\ RecCount \in Nat /\ TrackCount \in Nat
      /\ \A k \in 1 .. RecCount : recordings[k].position \in Int
  <2>1. \A k \in 1 .. RecCount : recordings[k] \in Tracks!Track
    BY <1>1 DEF RecCount
  <2>2. \A q \in Tracks!Track : q.position \in Positions
    BY DEF Tracks!Track
  <2>3. RecCount \in Nat /\ TrackCount \in Nat
    BY <1>1 DEF RecCount, TrackCount
  <2>. QED BY <2>1, <2>2, <2>3, TracksAssumption
<1>3. matches' = c[Turns]
  BY PassesAreFolds DEF Tracks!ExactPass
<1>4. PassRuns(TRUE, <<>>, c)
  <2>1. \E g : PassRuns(TRUE, <<>>, g)
    BY <1>1, <1>2, NoneFair, PassRun
  <2>2. \E g : ExactRuns(g)
    BY <2>1, PassRunsAre
  <2>3. ExactRuns(c)
    BY <2>2
  <2> HIDE DEF c
  <2>. QED BY <2>3, PassRunsAre
<1>5. <<<<>>, 0>> \in Good
  <2> DEFINE none == <<>>
  <2>1. /\ none \in Seq(Pairs) /\ Fair(none) /\ Covered(none, 0)
        /\ Tracks!UsedRecs(none) = {} /\ DOMAIN none = {}
    BY NoneFair
  <2>2. 0 \in 0 .. RecCount
    BY <1>2
  <2> HIDE DEF none
  <2>3. <<none, 0>> \in Good
    BY <2>1, <2>2
  <2>. QED BY <2>3 DEF none
<1>6. \A k \in 1 .. RecCount : \A ms \in Seq(Pairs) :
            <<ms, k - 1>> \in Good => <<Pass(TRUE, ms, k), k>> \in Good
  <2> SUFFICES ASSUME NEW k \in 1 .. RecCount, NEW ms \in Seq(Pairs), <<ms, k - 1>> \in Good
               PROVE  <<Pass(TRUE, ms, k), k>> \in Good
    OBVIOUS
  <2>1. /\ Fair(ms) /\ Covered(ms, k - 1) /\ Tracks!UsedRecs(ms) \subseteq 1 .. k - 1
        /\ \A j \in DOMAIN ms : ms[j].exact
    OBVIOUS
  <2> DEFINE new == Tracks!ExactFor(ms, k)
  <2>2. /\ new \in Seq(Pairs) /\ Fair(new) /\ Covered(new, k)
        /\ Tracks!UsedRecs(new) \subseteq 1 .. k /\ \A j \in DOMAIN new : new[j].exact
    BY <1>2, <2>1, ExactStep
  <2>3. Pass(TRUE, ms, k) = new /\ k \in 0 .. RecCount
    BY <1>2 DEF Pass
  <2> HIDE DEF new
  <2>. QED BY <2>2, <2>3
<1> HIDE DEF c, Good
<1>7. c[Turns] \in Seq(Pairs) /\ <<c[Turns], RecCount>> \in Good
  BY <1>1, <1>2, <1>4, <1>5, <1>6, NoneFair, PassKeeps
<1>. QED BY <1>3, <1>7 DEF Good

LEMMA FuzzyPassKeeps ==
  ASSUME TracksIInv, Tracks!FuzzyPass
  PROVE  matches' \in Seq(Pairs) /\ Fair(matches') /\ Covered(matches', RecCount)
<1> DEFINE c == CHOOSE g : FuzzyRuns(g)
           Good == {p \in Seq(Pairs) \X (0 .. RecCount) : Fair(p[1]) /\ Covered(p[1], RecCount)}
<1>1. /\ recordings \in Seq(Tracks!Track) /\ local \in Seq(Tracks!Track)
      /\ matches \in Seq(Pairs) /\ Fair(matches) /\ Covered(matches, RecCount)
  BY DEF TracksIInv, Tracks!FuzzyPass
<1>2. RecCount \in Nat /\ TrackCount \in Nat
  BY <1>1 DEF RecCount, TrackCount
<1>3. matches' = c[Turns]
  BY PassesAreFolds DEF Tracks!FuzzyPass
<1>4. PassRuns(FALSE, matches, c)
  <2>1. \E g : PassRuns(FALSE, matches, g)
    BY <1>1, <1>2, PassRun
  <2>2. \E g : FuzzyRuns(g)
    BY <2>1, PassRunsAre
  <2>3. FuzzyRuns(c)
    BY <2>2
  <2> HIDE DEF c
  <2>. QED BY <2>3, PassRunsAre
<1>5. <<matches, 0>> \in Good
  BY <1>1, <1>2
<1>6. \A k \in 1 .. RecCount : \A ms \in Seq(Pairs) :
            <<ms, k - 1>> \in Good => <<Pass(FALSE, ms, k), k>> \in Good
  <2> SUFFICES ASSUME NEW k \in 1 .. RecCount, NEW ms \in Seq(Pairs), <<ms, k - 1>> \in Good
               PROVE  <<Pass(FALSE, ms, k), k>> \in Good
    OBVIOUS
  <2>1. Fair(ms) /\ Covered(ms, RecCount)
    OBVIOUS
  <2> DEFINE new == Tracks!FuzzyFor(ms, k)
  <2>2. new \in Seq(Pairs) /\ Fair(new) /\ Covered(new, RecCount)
    BY <1>2, <2>1, FuzzyStep
  <2>3. Pass(FALSE, ms, k) = new /\ k \in 0 .. RecCount
    BY <1>2 DEF Pass
  <2> HIDE DEF new
  <2>. QED BY <2>2, <2>3
<1> HIDE DEF c, Good
<1>7. c[Turns] \in Seq(Pairs) /\ <<c[Turns], RecCount>> \in Good
  BY <1>1, <1>2, <1>4, <1>5, <1>6, PassKeeps
<1>. QED BY <1>3, <1>7 DEF Good

LEMMA TracksStep ==
  ASSUME TracksIInv, [Tracks!Next]_matching
  PROVE  TracksIInv'
<1>0. /\ phase \in {"loaded", "exact", "done"}
      /\ recordings \in Seq(Tracks!Track) /\ local \in Seq(Tracks!Track)
      /\ matches \in Seq(Pairs) /\ Fair(matches)
      /\ phase = "loaded" => matches = <<>>
      /\ phase # "loaded" => Covered(matches, RecCount)
  BY DEF TracksIInv
<1>1. CASE Tracks!Load
  <2>1. phase' = "loaded" /\ matches' = <<>> /\ recordings' \in Seq(Tracks!Track) /\ local' \in Seq(Tracks!Track)
    BY <1>0, <1>1, SomeRecordings DEF Tracks!Load
  <2>2. <<>> \in Seq(Pairs') /\ Fair(<<>>)'
    <3>1. Tracks!UsedRecs(<<>>) = {} /\ Tracks!UsedTracks(<<>>) = {} /\ Len(<<>>) = 0 /\ DOMAIN <<>> = {}
      BY DEF Tracks!UsedRecs, Tracks!UsedTracks
    <3>2. Cardinality({}) = 0
      BY FS_EmptySet
    <3>. QED BY <3>1, <3>2 DEF Fair
  <2>3. Fair(matches)'
    BY <2>1, <2>2 DEF Fair
  <2>. QED BY <2>1, <2>2, <2>3 DEF TracksIInv
<1>2. CASE Tracks!ExactPass
  <2>1. recordings' = recordings /\ local' = local /\ phase' = "exact"
    BY <1>2 DEF Tracks!ExactPass
  <2>2. matches' \in Seq(Pairs) /\ Fair(matches') /\ Covered(matches', RecCount)
    BY <1>2, ExactPassKeeps
  <2>. QED BY <1>0, <2>1, <2>2 DEF TracksIInv, Pairs, RecCount, TrackCount, Fair, Covered, Agree
<1>3. CASE Tracks!FuzzyPass
  <2>1. recordings' = recordings /\ local' = local /\ phase' = "done"
    BY <1>3 DEF Tracks!FuzzyPass
  <2>2. matches' \in Seq(Pairs) /\ Fair(matches') /\ Covered(matches', RecCount)
    BY <1>3, FuzzyPassKeeps
  <2>. QED BY <1>0, <2>1, <2>2 DEF TracksIInv, Pairs, RecCount, TrackCount, Fair, Covered, Agree
<1>4. CASE Tracks!Free
  <2>1. phase' = "loaded" /\ matches' = <<>> /\ recordings' = <<>> /\ local' = <<>>
    BY <1>4 DEF Tracks!Free
  <2>2. <<>> \in Seq(Pairs') /\ Fair(<<>>)'
    <3>1. Tracks!UsedRecs(<<>>) = {} /\ Tracks!UsedTracks(<<>>) = {} /\ Len(<<>>) = 0 /\ DOMAIN <<>> = {}
      BY DEF Tracks!UsedRecs, Tracks!UsedTracks
    <3>2. Cardinality({}) = 0
      BY FS_EmptySet
    <3>. QED BY <3>1, <3>2 DEF Fair
  <2>3. Fair(matches)'
    BY <2>1, <2>2 DEF Fair
  <2>. QED BY <2>1, <2>2, <2>3 DEF TracksIInv
<1>5. CASE UNCHANGED matching
  BY <1>0, <1>5 DEF matching, TracksIInv, Pairs, RecCount, TrackCount, Fair, Covered, Agree
<1>. QED BY <1>1, <1>2, <1>3, <1>4, <1>5 DEF Tracks!Next

LEMMA TracksSound == TracksIInv => Tracks!MatchesSound
<1> SUFFICES ASSUME TracksIInv PROVE Tracks!MatchesSound
  OBVIOUS
<1>1. /\ recordings \in Seq(Tracks!Track) /\ local \in Seq(Tracks!Track)
      /\ Fair(matches)
      /\ phase # "loaded" => Covered(matches, RecCount)
  BY DEF TracksIInv
<1>2. DOMAIN recordings = 1 .. RecCount /\ DOMAIN local = 1 .. TrackCount
  BY <1>1 DEF RecCount, TrackCount
<1>3. /\ Cardinality(Tracks!UsedRecs(matches)) = Len(matches)
      /\ Cardinality(Tracks!UsedTracks(matches)) = Len(matches)
      /\ \A k \in DOMAIN matches : matches[k].exact =>
            /\ recordings[matches[k].rec].position = local[matches[k].track].position
            /\ local[matches[k].track].position > 0
  BY <1>1 DEF Fair, Agree
<1>4. phase # "loaded" => \A r \in DOMAIN recordings, t \in DOMAIN local :
        recordings[r].position = local[t].position /\ local[t].position > 0 =>
            \E k \in DOMAIN matches : matches[k].exact /\ (matches[k].rec = r \/ matches[k].track = t)
  BY <1>1, <1>2 DEF Covered, Agree
<1>5. \A S : Tracks!Cardinality(S) = Cardinality(S)
  BY DEF Tracks!Cardinality, Tracks!IsFiniteSet, Cardinality, IsFiniteSet
<1>. QED BY <1>3, <1>4, <1>5 DEF Tracks!MatchesSound
-----------------------------------------------------------------------------
\* MatchesSound: of the votes the leads are in order and a release taken from fingerprints is one that
\* most of them named (tally_votes, find_release_by_fingerprint); the release chosen among the results
\* of a search is not bettered by one that falls short of it nowhere (mb_solr_search_release,
\* mb_http_solr_search); and no recording or track is matched twice, nor a pair that agrees left to
\* guessing (match_tracks): for every answer, list of results and set of tracks.
THEOREM MatchesAlwaysSound == AllSpec => []MatchesSound
<1>1. AllInit => VoteIInv /\ ChoiceIInv /\ TracksIInv
  BY VoteInit, ChoiceInit, TracksInit DEF AllInit
<1>2. VoteIInv /\ ChoiceIInv /\ TracksIInv
        /\ [AllNext]_<<part, vars, voting, searching, matching, slot, limiter>>
        => VoteIInv' /\ ChoiceIInv' /\ TracksIInv'
  <2> SUFFICES ASSUME VoteIInv, ChoiceIInv, TracksIInv,
                      [AllNext]_<<part, vars, voting, searching, matching, slot, limiter>>
               PROVE  VoteIInv' /\ ChoiceIInv' /\ TracksIInv'
    OBVIOUS
  <2>1. [Vote!Next]_voting /\ [Choice!Next]_searching /\ [Tracks!Next]_matching
    BY PartsMove
  <2>. QED BY <2>1, VoteStep, ChoiceStep, TracksStep
<1>3. VoteIInv /\ ChoiceIInv /\ TracksIInv => MatchesSound
  BY VoteSound, ChosenOfSearch, TracksSound DEF MatchesSound
<1>. QED BY <1>1, <1>2, <1>3, PTL DEF AllSpec
=============================================================================
