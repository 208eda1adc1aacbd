---------------------------- MODULE ArraysProofs ----------------------------
(***************************************************************************)
(* What array_remove returns, for every array and every PID.  ArrayRemove  *)
(* is defined by ranks, so the facts rest on one lemma: the ranks of the   *)
(* kept positions are exactly 1..n (an injection between finite sets of    *)
(* the same size is a surjection).                                         *)
(***************************************************************************)
EXTENDS Arrays, FiniteSetTheorems, TLAPS

(* A set of positions is finite and no larger than the array. *)
LEMMA KeptFinite ==
  ASSUME NEW S, NEW s \in Seq(S), NEW x
  PROVE  /\ IsFiniteSet(Kept(s, x))
         /\ Kept(s, x) \subseteq 1..Len(s)
         /\ Cardinality(Kept(s, x)) \in Nat
         /\ Cardinality(Kept(s, x)) <= Len(s)
<1>1. /\ IsFiniteSet(1..Len(s))
      /\ Cardinality(1..Len(s)) = Len(s)
  BY FS_Interval, Len(s) \in Nat
<1>2. Kept(s, x) \in SUBSET (1..Len(s))
  BY DEF Kept
<1>3. QED
  BY <1>1, <1>2, FS_Subset, FS_CardinalityType

(* The rank of a position in a finite set of integers grows strictly with  *)
(* the position, and lies between 1 and the size of the set.               *)
LEMMA RankRange ==
  ASSUME NEW I \in SUBSET Int, IsFiniteSet(I), NEW i \in I
  PROVE  Rank(I, i) \in 1..Cardinality(I)
<1> DEFINE below == {j \in I : j <= i}
<1>1. /\ IsFiniteSet(below)
      /\ Cardinality(below) <= Cardinality(I)
      /\ Cardinality(below) \in Nat
      /\ Cardinality(I) \in Nat
  BY FS_Subset, FS_CardinalityType
<1>2. i \in below
  OBVIOUS
<1>3. Cardinality(below) # 0
  BY <1>1, <1>2, FS_EmptySet
<1>4. QED
  BY <1>1, <1>3 DEF Rank

(* A later member of a finite set of positions has a larger rank. *)
LEMMA RankGrows ==
  ASSUME NEW I \in SUBSET Int, IsFiniteSet(I), NEW i \in I, NEW k \in I, i < k
  PROVE  Rank(I, i) < Rank(I, k)
<1> DEFINE low == {j \in I : j <= i}
           high == {j \in I : j <= k}
<1>1. low \in SUBSET high /\ k \in high /\ k \notin low
  <2>1. \A j \in I : j <= i => j <= k
    <3> TAKE j \in I
    <3>1. i \in Int /\ j \in Int /\ k \in Int
      OBVIOUS
    <3>2. QED
      BY <3>1
  <2>2. k <= k /\ ~(k <= i)
    <3>1. i \in Int /\ k \in Int
      OBVIOUS
    <3>2. QED
      BY <3>1
  <2>3. QED
    BY <2>1, <2>2, Zenon
<1>2. IsFiniteSet(high)
  BY FS_Subset
<1>3. /\ Cardinality(low) <= Cardinality(high)
      /\ Cardinality(low) # Cardinality(high)
      /\ Cardinality(low) \in Nat /\ Cardinality(high) \in Nat
  BY <1>1, <1>2, FS_Subset, FS_CardinalityType
<1>4. QED
  BY <1>3 DEF Rank

(* Every number up to the size of a finite set of integers is the rank of  *)
(* one of its members.                                                     *)
LEMMA RankOnto ==
  ASSUME NEW I \in SUBSET Int, IsFiniteSet(I), NEW n \in 1..Cardinality(I)
  PROVE  \E i \in I : Rank(I, i) = n
<1> DEFINE T == 1..Cardinality(I)
           f == [i \in I |-> Rank(I, i)]
<1>1. f \in [I -> T]
  BY RankRange
<1>2. ASSUME NEW i \in I, NEW k \in I, f[i] = f[k]
      PROVE  i = k
  <2>1. Rank(I, i) = Rank(I, k) /\ Rank(I, i) \in Nat
    BY <1>2, RankRange
  <2>2. ~(i < k) /\ ~(k < i)
    BY <2>1, RankGrows, RankRange
  <2>3. QED
    BY <2>2
<1>3. f \in Injection(I, T)
  BY <1>1, <1>2 DEF Injection, IsInjective
<1>4. Cardinality(I) \in Nat
  BY FS_CardinalityType
<1>5. IsFiniteSet(T) /\ Cardinality(T) = Cardinality(I)
  BY <1>4, FS_Interval
<1>6. f \in Surjection(I, T)
  BY <1>3, <1>5, FS_Injection
<1>7. QED
  BY <1>6 DEF Surjection

(* array_remove keeps the members of S, all of them in a shorter or equal  *)
(* array, and loses x and nothing else.                                    *)
LEMMA ArrayRemoveElement ==
  ASSUME NEW S, NEW s \in Seq(S), NEW x, NEW n \in 1..Cardinality(Kept(s, x))
  PROVE  \E i \in Kept(s, x) : /\ Rank(Kept(s, x), i) = n
                                /\ ArrayRemove(s, x)[n] = s[i]
<1> DEFINE keep == Kept(s, x)
           i == CHOOSE k \in keep : Rank(keep, k) = n
<1>1. keep \in SUBSET Int /\ IsFiniteSet(keep)
  BY KeptFinite
<1>2. \E k \in keep : Rank(keep, k) = n
  BY <1>1, RankOnto
<1>3. i \in keep /\ Rank(keep, i) = n
  BY <1>2
<1>4. ArrayRemove(s, x)[n] = s[i]
  BY DEF ArrayRemove
<1>5. QED
  BY <1>3, <1>4

(* array_remove yields an array over the same PIDs that is no longer. *)
LEMMA ArrayRemoveType ==
  ASSUME NEW S, NEW s \in Seq(S), NEW x
  PROVE  /\ ArrayRemove(s, x) \in Seq(S)
         /\ Len(ArrayRemove(s, x)) = Cardinality(Kept(s, x))
         /\ Len(ArrayRemove(s, x)) <= Len(s)
<1> DEFINE n == Cardinality(Kept(s, x))
           t == ArrayRemove(s, x)
<1>1. n \in Nat /\ n <= Len(s)
  BY KeptFinite
<1>2. \A k \in 1..n : t[k] \in S
  BY ArrayRemoveElement, KeptFinite
<1>3. DOMAIN t = 1..n /\ t = [k \in 1..n |-> t[k]]
  BY DEF ArrayRemove
<1>4. t \in Seq(S) /\ Len(t) = n
  <2> HIDE DEF t, n
  <2> QED BY <1>1, <1>2, <1>3
<1>5. QED
  BY <1>1, <1>4

(* array_remove loses x and no other member. *)
LEMMA ArrayRemoveMembers ==
  ASSUME NEW S, NEW s \in Seq(S), NEW x
  PROVE  Members(ArrayRemove(s, x)) = Members(s) \ {x}
<1> DEFINE keep == Kept(s, x)
           t == ArrayRemove(s, x)
<1>1. DOMAIN t = 1..Cardinality(keep)
  BY DEF ArrayRemove
<1>2. ASSUME NEW n \in 1..Cardinality(keep)
      PROVE  t[n] \in Members(s) \ {x}
  <2>1. PICK i \in keep : t[n] = s[i]
    BY ArrayRemoveElement
  <2>2. QED
    BY <2>1 DEF Kept, Members
<1>3. ASSUME NEW y \in Members(s) \ {x}
      PROVE  y \in Members(t)
  <2>1. PICK i \in keep : s[i] = y
    BY DEF Members, Kept
  <2>2. keep \in SUBSET Int /\ IsFiniteSet(keep)
    BY KeptFinite
  <2>3. Rank(keep, i) \in 1..Cardinality(keep)
    BY <2>2, RankRange
  <2>4. PICK k \in keep : /\ Rank(keep, k) = Rank(keep, i)
                          /\ t[Rank(keep, i)] = s[k]
    BY <2>3, ArrayRemoveElement
  <2>5. ~(i < k) /\ ~(k < i)
    BY <2>2, <2>3, <2>4, RankGrows, RankRange
  <2>6. i = k
    BY <2>2, <2>5
  <2>7. QED
    BY <1>1, <2>1, <2>3, <2>4, <2>6 DEF Members
<1>4. QED
  BY <1>1, <1>2, <1>3 DEF Members

(* A finite set of integers that is not empty has a least member. *)
LEMMA LeastMember ==
  ASSUME NEW I \in SUBSET Int, IsFiniteSet(I), I # {}
  PROVE  \E i \in I : \A j \in I : i <= j
<1>1. Cardinality(I) # 0 /\ Cardinality(I) \in Nat
  BY FS_EmptySet, FS_CardinalityType
<1>2. PICK i \in I : Rank(I, i) = 1
  BY <1>1, RankOnto
<1>3. ASSUME NEW j \in I
      PROVE  i <= j
  <2>1. Rank(I, j) \in Nat \ {0}
    BY <1>1, RankRange
  <2>2. ~(j < i)
    BY <1>2, <2>1, RankGrows
  <2>3. QED
    BY <2>2
<1>4. QED
  BY <1>3

(* Some position of a list comes first among the ones that are of interest. *)
LEMMA FirstPosition ==
  ASSUME NEW S, NEW list \in Seq(S), NEW I \in SUBSET DOMAIN list, I # {}
  PROVE  \E i \in I : \A j \in 1..(i - 1) : j \in DOMAIN list /\ j \notin I
<1>1. IsFiniteSet(1..Len(list)) /\ Len(list) \in Nat
  BY FS_Interval
<1>2. I \in SUBSET Int /\ I \in SUBSET (1..Len(list))
  OBVIOUS
<1>3. IsFiniteSet(I)
  BY <1>1, <1>2, FS_Subset
<1>4. PICK i \in I : \A j \in I : i <= j
  BY <1>2, <1>3, LeastMember
<1>5. QED
  BY <1>1, <1>2, <1>4

(* The first member of s that is of interest is also the first one in what *)
(* array_remove leaves, if the removed value is of no interest.            *)
LEMMA ArrayRemoveFirst ==
  ASSUME NEW S, NEW s \in Seq(S), NEW x, NEW P, x \notin P,
         NEW i \in DOMAIN s, s[i] \in P, \A j \in 1..(i - 1) : s[j] \notin P
  PROVE  \E n \in DOMAIN ArrayRemove(s, x) :
           /\ ArrayRemove(s, x)[n] = s[i]
           /\ \A m \in 1..(n - 1) : ArrayRemove(s, x)[m] \notin P
<1> DEFINE keep == Kept(s, x)
<1>0. PICK n : n = Rank(keep, i)
  OBVIOUS
<1>1. /\ keep \in SUBSET Int /\ IsFiniteSet(keep) /\ Cardinality(keep) \in Nat
      /\ keep \subseteq 1..Len(s) /\ DOMAIN s = 1..Len(s)
  BY KeptFinite
<1>2. i \in keep
  BY DEF Kept
<1>3. n \in 1..Cardinality(keep) /\ DOMAIN ArrayRemove(s, x) = 1..Cardinality(keep)
  BY <1>0, <1>1, <1>2, RankRange DEF ArrayRemove
<1>4. ArrayRemove(s, x)[n] = s[i]
  <2>0. \A m \in 1..Cardinality(keep) :
          \E k \in keep : Rank(keep, k) = m /\ ArrayRemove(s, x)[m] = s[k]
    BY ArrayRemoveElement
  <2>1. PICK k \in keep : Rank(keep, k) = n /\ ArrayRemove(s, x)[n] = s[k]
    BY <1>3, <2>0, Zenon
  <2>2. ~(i < k) /\ ~(k < i)
    BY <1>0, <1>1, <1>2, <1>3, <2>1, RankGrows
  <2>3. QED
    BY <1>1, <1>2, <2>1, <2>2
<1>5. ASSUME NEW m \in 1..(n - 1)
      PROVE  ArrayRemove(s, x)[m] \notin P
  <2>1. m \in 1..Cardinality(keep) /\ m < n
    BY <1>1, <1>3
  <2>2. PICK k \in keep : Rank(keep, k) = m /\ ArrayRemove(s, x)[m] = s[k]
    BY <2>1, ArrayRemoveElement
  <2>3. ~(i < k) /\ i # k
    BY <1>0, <1>1, <1>2, <1>3, <2>1, <2>2, RankGrows
  <2>4. k \in 1..(i - 1)
    BY <1>1, <1>2, <2>2, <2>3
  <2>5. QED
    BY <2>2, <2>4
<1>6. QED
  BY <1>3, <1>4, <1>5

(* The candidate for the ownership is a member other than the owner, and   *)
(* there is one exactly if some other player is there.                     *)
LEMMA FirstOtherMember ==
  ASSUME NEW S, NEW s \in Seq(S), NEW x, NEW none
  PROVE  /\ Kept(s, x) # {} => FirstOther(s, x, none) \in Members(s) \ {x}
         /\ Kept(s, x) = {} => FirstOther(s, x, none) = none
         /\ Kept(s, x) # {} <=> Members(s) \ {x} # {}
<1>1. ASSUME Kept(s, x) # {}
      PROVE  \E i \in Kept(s, x) : \A j \in Kept(s, x) : i <= j
  <2>1. Kept(s, x) \in SUBSET Int /\ IsFiniteSet(Kept(s, x))
    BY KeptFinite
  <2>2. QED
    BY <1>1, <2>1, LeastMember
<1>2. ASSUME Kept(s, x) # {}
      PROVE  FirstOther(s, x, none) \in Members(s) \ {x}
  <2> DEFINE first == CHOOSE i \in Kept(s, x) : \A j \in Kept(s, x) : i <= j
  <2>1. first \in Kept(s, x)
    BY <1>1, <1>2
  <2>2. FirstOther(s, x, none) = s[first]
    BY <1>2 DEF FirstOther
  <2>3. QED
    BY <2>1, <2>2 DEF Kept, Members
<1>3. QED
  BY <1>2 DEF FirstOther, Kept, Members

(* What comes first stays first, unless it is what array_remove removes. *)
LEMMA ArrayRemoveHead ==
  ASSUME NEW S, NEW s \in Seq(S), s # <<>>, NEW x, Head(s) # x
  PROVE  ArrayRemove(s, x) # <<>> /\ Head(ArrayRemove(s, x)) = Head(s)
<1> DEFINE t == ArrayRemove(s, x)
           P == Members(s) \ {x}
<1>1. 1 \in DOMAIN s /\ s[1] = Head(s) /\ s[1] \in P /\ x \notin P
  BY DEF Members
<1>2. \A j \in 1..(1 - 1) : s[j] \notin P
  OBVIOUS
<1>3. PICK n \in DOMAIN t : t[n] = s[1] /\ \A m \in 1..(n - 1) : t[m] \notin P
  <2> HIDE DEF P
  <2> QED BY <1>1, <1>2, ArrayRemoveFirst
<1>4. t \in Seq(S) /\ Members(t) = P
  BY ArrayRemoveType, ArrayRemoveMembers
<1>5. \A m \in DOMAIN t : t[m] \in P
  BY <1>4 DEF Members
<1>6. n = 1
  <2> HIDE DEF t, P
  <2>1. n \in 1..Len(t) /\ Len(t) \in Nat /\ DOMAIN t = 1..Len(t)
    BY <1>4
  <2>2. QED
    BY <1>3, <1>5, <2>1
<1>7. t # <<>> /\ Head(t) = Head(s)
  <2> HIDE DEF t
  <2> QED BY <1>1, <1>3, <1>4, <1>6
<1>8. QED
  BY <1>7

(* Without the old owner, the first participant is the candidate. *)
LEMMA FirstOtherHead ==
  ASSUME NEW S, NEW s \in Seq(S), s # <<>>, NEW x, x \notin Members(s), NEW none
  PROVE  FirstOther(s, x, none) = Head(s)
<1>1. Kept(s, x) = 1..Len(s) /\ Len(s) \in Nat /\ Len(s) >= 1
  BY DEF Kept, Members
<1>2. (CHOOSE i \in Kept(s, x) : \A j \in Kept(s, x) : i <= j) = 1
  BY <1>1
<1>3. QED
  BY <1>1, <1>2 DEF FirstOther
=============================================================================
