--------------------------- MODULE QueriesProofs ---------------------------
(***************************************************************************)
(* What HyruleWarriorsGetRankings answers, for every leaderboard: any      *)
(* players, scores, times, groups and ties.  A rank is a number of rows    *)
(* ahead, so the facts rest on two: being ahead is a strict weak order,    *)
(* and fewer rows are ahead of a row than of any row behind it.            *)
(***************************************************************************)
EXTENDS RankingQueries, RankingProofs, ArraysProofs

(* A set of natural numbers that is not empty has a least one. *)
LEMMA LeastNumber ==
  ASSUME NEW S \in SUBSET Nat, S # {}
  PROVE  \E m \in S : \A n \in S : m <= n
<1>1. PICK n \in S : TRUE
  OBVIOUS
<1>2. PICK T : T = {m \in S : m <= n}
  OBVIOUS
<1>3. T \in SUBSET Nat /\ T # {} /\ (\A m \in T : m <= n) /\ n \in Nat
  <2>1. n \in Nat /\ n <= n
    BY <1>1
  <2>2. n \in T
    BY <1>2, <2>1
  <2>3. QED
    BY <1>2, <2>1, <2>2
<1>4. IsFiniteSet(T)
  BY <1>3, FS_BoundedSetOfNaturals
<1>5. T \in SUBSET Int
  BY <1>3
<1>6. PICK m \in T : \A i \in T : m <= i
  BY <1>3, <1>4, <1>5, LeastMember
<1>7. QED
  BY <1>2, <1>6

(* The ORDER BY of three columns. *)
Lexicographic(a1, a2, a3, b1, b2, b3) ==
  a1 < b1 \/ (a1 = b1 /\ (a2 < b2 \/ (a2 = b2 /\ a3 < b3)))

(* Precedes compares column by column. *)
LEMMA PrecedesColumns ==
  ASSUME NEW a1 \in Int, NEW a2 \in Int, NEW a3 \in Int,
         NEW b1 \in Int, NEW b2 \in Int, NEW b3 \in Int
  PROVE  Precedes(<<a1, a2, a3>>, <<b1, b2, b3>>) <=> Lexicographic(a1, a2, a3, b1, b2, b3)
<1>1. PICK a, b : a = <<a1, a2, a3>> /\ b = <<b1, b2, b3>>
  OBVIOUS
<1>2. /\ DOMAIN a = {1, 2, 3} /\ a[1] = a1 /\ a[2] = a2 /\ a[3] = a3
      /\ b[1] = b1 /\ b[2] = b2 /\ b[3] = b3
  BY <1>1
<1>3. 1..(1 - 1) = {} /\ 1..(2 - 1) = {1} /\ 1..(3 - 1) = {1, 2}
  OBVIOUS
<1>4. Precedes(a, b) <=> \/ a[1] < b[1]
                         \/ a[2] < b[2] /\ a[1] = b[1]
                         \/ a[3] < b[3] /\ a[1] = b[1] /\ a[2] = b[2]
  BY <1>2, <1>3 DEF Precedes
<1>5. QED
  BY <1>1, <1>2, <1>4 DEF Lexicographic

-----------------------------------------------------------------------------
(* Being ahead. *)

(* A row of a category. *)
RowOf(c, k) == k \in Keys /\ k.category = c /\ rankings[k].score # NoScore

(* The columns it is ranked by. *)
LEMMA RankedColumns ==
  ASSUME TypeOK, NEW c, NEW k, RowOf(c, k)
  PROVE  /\ rankings[k].score \in Nat /\ rankings[k].updated_at \in Nat
         /\ k.owner \in Nat /\ k.unique \in Nat /\ k.category = c
<1>1. rankings[k] \in Row /\ k \in Keys
  BY DEF TypeOK, RowOf
<1>2. rankings[k].score \in Nat \cup {NoScore} /\ rankings[k].updated_at \in 0..MaxTime
  BY <1>1 DEF Row
<1>3. k.owner \in Players /\ k.unique \in UniqueIDs
  BY <1>1 DEF Keys
<1>4. rankings[k].score \in Nat /\ k.category = c
  BY <1>2 DEF RowOf
<1>5. k.owner \in Nat /\ k.unique \in Nat
  BY <1>3, ScoresAssumption
<1>6. rankings[k].updated_at \in Nat
  BY <1>2, ScoresAssumption
<1>7. QED
  BY <1>4, <1>5, <1>6

(* Who is ahead, column by column. *)
LEMMA AheadColumns ==
  ASSUME TypeOK, NEW c, NEW j, RowOf(c, j), NEW k, RowOf(c, k), NEW ordinal
  PROVE  Ahead(j, k, ordinal) <=>
           \/ Better(categories[c], rankings[j].score, rankings[k].score)
           \/ /\ ordinal /\ rankings[j].score = rankings[k].score
              /\ Lexicographic(rankings[j].updated_at, j.owner, j.unique,
                               rankings[k].updated_at, k.owner, k.unique)
<1>1. /\ rankings[j].updated_at \in Int /\ j.owner \in Int /\ j.unique \in Int
      /\ rankings[k].updated_at \in Int /\ k.owner \in Int /\ k.unique \in Int
      /\ k.category = c
  BY RankedColumns
<1>2. Precedes(Ties(j), Ties(k)) <=>
        Lexicographic(rankings[j].updated_at, j.owner, j.unique,
                      rankings[k].updated_at, k.owner, k.unique)
  BY <1>1, PrecedesColumns DEF Ties
<1>3. QED
  BY <1>1, <1>2 DEF Ahead

(* A strict weak order, and a total one when ranks are ordinal. *)
LEMMA AheadOrders ==
  ASSUME TypeOK, NEW c, NEW i, RowOf(c, i), NEW j, RowOf(c, j), NEW k, RowOf(c, k),
         NEW ordinal
  PROVE  /\ ~Ahead(k, k, ordinal)
         /\ Ahead(i, j, ordinal) /\ Ahead(j, k, ordinal) => Ahead(i, k, ordinal)
         /\ Ahead(i, k, ordinal) => Ahead(i, j, ordinal) \/ Ahead(j, k, ordinal)
         /\ ordinal /\ ~Ahead(j, k, ordinal) /\ ~Ahead(k, j, ordinal) => j = k
<1>1. PICK si, sj, sk : si = rankings[i].score /\ sj = rankings[j].score /\ sk = rankings[k].score
  OBVIOUS
<1>2. PICK ti, tj, tk : /\ ti = rankings[i].updated_at /\ tj = rankings[j].updated_at
                        /\ tk = rankings[k].updated_at
  OBVIOUS
<1>3. /\ si \in Nat /\ sj \in Nat /\ sk \in Nat /\ ti \in Nat /\ tj \in Nat /\ tk \in Nat
      /\ i.owner \in Nat /\ j.owner \in Nat /\ k.owner \in Nat
      /\ i.unique \in Nat /\ j.unique \in Nat /\ k.unique \in Nat
  BY <1>1, <1>2, RankedColumns
<1>4. PICK o : o = categories[c]
  OBVIOUS
<1>5. /\ Ahead(i, j, ordinal) <=>
           \/ Better(o, si, sj)
           \/ /\ ordinal /\ si = sj
              /\ Lexicographic(ti, i.owner, i.unique, tj, j.owner, j.unique)
      /\ Ahead(j, k, ordinal) <=>
           \/ Better(o, sj, sk)
           \/ /\ ordinal /\ sj = sk
              /\ Lexicographic(tj, j.owner, j.unique, tk, k.owner, k.unique)
      /\ Ahead(k, j, ordinal) <=>
           \/ Better(o, sk, sj)
           \/ /\ ordinal /\ sk = sj
              /\ Lexicographic(tk, k.owner, k.unique, tj, j.owner, j.unique)
      /\ Ahead(i, k, ordinal) <=>
           \/ Better(o, si, sk)
           \/ /\ ordinal /\ si = sk
              /\ Lexicographic(ti, i.owner, i.unique, tk, k.owner, k.unique)
      /\ Ahead(k, k, ordinal) <=>
           \/ Better(o, sk, sk)
           \/ /\ ordinal /\ sk = sk
              /\ Lexicographic(tk, k.owner, k.unique, tk, k.owner, k.unique)
  BY <1>1, <1>2, <1>4, AheadColumns
<1>6. ~Ahead(k, k, ordinal)
  BY <1>3, <1>5 DEF Better, Lexicographic
<1>7. Ahead(i, j, ordinal) /\ Ahead(j, k, ordinal) => Ahead(i, k, ordinal)
  BY <1>3, <1>5 DEF Better, Lexicographic
<1>8. Ahead(i, k, ordinal) => Ahead(i, j, ordinal) \/ Ahead(j, k, ordinal)
  BY <1>3, <1>5 DEF Better, Lexicographic
<1>9. ordinal /\ ~Ahead(j, k, ordinal) /\ ~Ahead(k, j, ordinal) => j = k
  <2>1. SUFFICES ASSUME ordinal, ~Ahead(j, k, ordinal), ~Ahead(k, j, ordinal)
                 PROVE  j = k
    OBVIOUS
  <2>2. sj = sk
    <3>1. ~Better(o, sj, sk) /\ ~Better(o, sk, sj)
      BY <1>5, <2>1
    <3>2. QED
      BY <1>3, <3>1 DEF Better
  <2>3. /\ ~Lexicographic(tj, j.owner, j.unique, tk, k.owner, k.unique)
        /\ ~Lexicographic(tk, k.owner, k.unique, tj, j.owner, j.unique)
    BY <1>5, <2>1, <2>2
  <2>4. j.owner = k.owner /\ j.unique = k.unique
    BY <1>3, <2>3 DEF Lexicographic
  <2>5. j.category = k.category /\ j \in Keys /\ k \in Keys
    BY DEF RowOf
  <2>6. QED
    BY <2>4, <2>5 DEF Keys
<1>10. QED
  BY <1>6, <1>7, <1>8, <1>9

-----------------------------------------------------------------------------
(* Ranks. *)

(* Finitely many rows of one category. *)
Board(c, base) == IsFiniteSet(base) /\ \A k \in base : RowOf(c, k)

RowsAhead(k, base, ordinal) == {j \in base : Ahead(j, k, ordinal)}

(* A rank is a positive number, and the rows ahead are those of a smaller  *)
(* rank.                                                                   *)
LEMMA RanksOrder ==
  ASSUME TypeOK, NEW c, NEW base, Board(c, base), NEW ordinal,
         NEW j \in base, NEW k \in base
  PROVE  /\ RankingOrder(k, base, ordinal) \in Nat \ {0}
         /\ Ahead(j, k, ordinal) <=> RankingOrder(j, base, ordinal) < RankingOrder(k, base, ordinal)
<1>1. PICK A : A = RowsAhead(j, base, ordinal)
  OBVIOUS
<1>2. PICK B : B = RowsAhead(k, base, ordinal)
  OBVIOUS
<1>3. A \in SUBSET base /\ B \in SUBSET base
  BY <1>1, <1>2 DEF RowsAhead
<1>4. /\ IsFiniteSet(A) /\ Cardinality(A) \in Nat
      /\ IsFiniteSet(B) /\ Cardinality(B) \in Nat
  BY <1>3, FS_Subset, FS_CardinalityType DEF Board
<1>5. /\ RankingOrder(j, base, ordinal) = 1 + Cardinality(A)
      /\ RankingOrder(k, base, ordinal) = 1 + Cardinality(B)
  BY <1>1, <1>2 DEF RankingOrder, RowsAhead
<1>6. ASSUME NEW x \in base, NEW y \in base, Ahead(x, y, ordinal),
             NEW X, NEW Y, X = RowsAhead(x, base, ordinal), Y = RowsAhead(y, base, ordinal)
      PROVE  X \in SUBSET Y /\ X # Y
  <2>1. RowOf(c, x) /\ RowOf(c, y)
    BY DEF Board
  <2>2. ~Ahead(x, x, ordinal)
    BY <2>1, AheadOrders
  <2>3. x \in Y /\ x \notin X
    BY <1>6, <2>2 DEF RowsAhead
  <2>4. ASSUME NEW i \in X
        PROVE  i \in Y
    <3>1. i \in base /\ Ahead(i, x, ordinal) /\ RowOf(c, i)
      BY <1>6 DEF RowsAhead, Board
    <3>2. Ahead(i, y, ordinal)
      BY <1>6, <2>1, <3>1, AheadOrders
    <3>3. QED
      BY <1>6, <3>1, <3>2 DEF RowsAhead
  <2>5. QED
    BY <2>3, <2>4
<1>7. ASSUME Ahead(j, k, ordinal)
      PROVE  Cardinality(A) < Cardinality(B)
  <2>1. A \in SUBSET B /\ A # B
    BY <1>1, <1>2, <1>6, <1>7
  <2>2. Cardinality(A) <= Cardinality(B) /\ Cardinality(A) # Cardinality(B)
    BY <1>4, <2>1, FS_Subset
  <2>3. QED
    BY <1>4, <2>2
<1>8. ASSUME ~Ahead(j, k, ordinal)
      PROVE  Cardinality(B) <= Cardinality(A)
  <2>1. ASSUME NEW i \in B
        PROVE  i \in A
    <3>1. i \in base /\ Ahead(i, k, ordinal) /\ RowOf(c, i) /\ RowOf(c, j) /\ RowOf(c, k)
      BY <1>2 DEF RowsAhead, Board
    <3>2. Ahead(i, j, ordinal)
      BY <1>8, <3>1, AheadOrders
    <3>3. QED
      BY <1>1, <3>1, <3>2 DEF RowsAhead
  <2>2. B \in SUBSET A
    BY <2>1
  <2>3. QED
    BY <1>4, <2>2, FS_Subset
<1>9. RankingOrder(k, base, ordinal) \in Nat \ {0}
  BY <1>4, <1>5
<1>10. Ahead(j, k, ordinal) <=> RankingOrder(j, base, ordinal) < RankingOrder(k, base, ordinal)
  BY <1>4, <1>5, <1>7, <1>8
<1>11. QED
  BY <1>9, <1>10

(* No two rows have the same ordinal rank. *)
LEMMA OrdinalRanks ==
  ASSUME TypeOK, NEW c, NEW base, Board(c, base), NEW ordinal,
         NEW j \in base, NEW k \in base,
         RankingOrder(j, base, ordinal) = RankingOrder(k, base, ordinal)
  PROVE  ordinal => j = k
<1>1. PICK m, n : m = RankingOrder(j, base, ordinal) /\ n = RankingOrder(k, base, ordinal)
  OBVIOUS
<1>2. m \in Nat /\ m = n
  BY <1>1, RanksOrder
<1>3. Ahead(j, k, ordinal) <=> m < n
  BY <1>1, RanksOrder
<1>4. Ahead(k, j, ordinal) <=> n < m
  BY <1>1, RanksOrder
<1>5. ~Ahead(j, k, ordinal) /\ ~Ahead(k, j, ordinal)
  BY <1>2, <1>3, <1>4
<1>6. RowOf(c, j) /\ RowOf(c, k)
  BY DEF Board
<1>7. QED
  BY <1>5, <1>6, AheadOrders

(* Some row is first. *)
LEMMA SomeoneLeads ==
  ASSUME TypeOK, NEW c, NEW base, Board(c, base), base # {}, NEW ordinal
  PROVE  \E k \in base : RankingOrder(k, base, ordinal) = 1
<1>1. PICK S : S = {RankingOrder(k, base, ordinal) : k \in base}
  OBVIOUS
<1>2. S \in SUBSET Nat /\ S # {}
  BY <1>1, RanksOrder
<1>3. PICK m \in S : \A n \in S : m <= n
  BY <1>2, LeastNumber
<1>4. PICK k \in base : RankingOrder(k, base, ordinal) = m
  BY <1>1
<1>5. RowsAhead(k, base, ordinal) = {}
  <2>1. ASSUME NEW j \in RowsAhead(k, base, ordinal)
        PROVE  FALSE
    <3>1. j \in base /\ Ahead(j, k, ordinal)
      BY DEF RowsAhead
    <3>2. /\ RankingOrder(j, base, ordinal) < m
          /\ RankingOrder(j, base, ordinal) \in Nat /\ m \in Nat
      BY <1>4, <3>1, RanksOrder
    <3>3. RankingOrder(j, base, ordinal) \in S
      BY <1>1, <3>1
    <3>4. QED
      BY <1>3, <3>2, <3>3
  <2>2. QED
    BY <2>1
<1>6. RankingOrder(k, base, ordinal) = 1 + 0
  BY <1>5, FS_EmptySet DEF RankingOrder, RowsAhead
<1>7. QED
  BY <1>6

(* Ranks leave gaps at ties, but a rank counts the rows before it: no more *)
(* than h rows have one of the h ranks before that of k.                   *)
LEMMA FewInWindow ==
  ASSUME TypeOK, NEW c, NEW base, Board(c, base), NEW ordinal, NEW k \in base,
         NEW h \in Nat, NEW D \in SUBSET base,
         \A j \in D : /\ RankingOrder(j, base, ordinal) < RankingOrder(k, base, ordinal)
                      /\ RankingOrder(k, base, ordinal) - RankingOrder(j, base, ordinal) <= h
  PROVE  IsFiniteSet(D) /\ Cardinality(D) \in Nat /\ Cardinality(D) <= h
<1>1. IsFiniteSet(D) /\ Cardinality(D) \in Nat
  BY FS_Subset, FS_CardinalityType DEF Board
<1>2. CASE D = {}
  BY <1>1, <1>2, FS_EmptySet
<1>3. CASE D # {}
  <2>1. PICK S : S = {RankingOrder(j, base, ordinal) : j \in D}
    OBVIOUS
  <2>2. S \in SUBSET Nat /\ S # {}
    BY <1>3, <2>1, RanksOrder
  <2>3. PICK m \in S : \A n \in S : m <= n
    BY <2>2, LeastNumber
  <2>4. PICK d \in D : RankingOrder(d, base, ordinal) = m
    BY <2>1
  <2>5. PICK A : A = RowsAhead(d, base, ordinal)
    OBVIOUS
  <2>6. PICK B : B = RowsAhead(k, base, ordinal)
    OBVIOUS
  <2>7. A \in SUBSET base /\ B \in SUBSET base
    BY <2>5, <2>6 DEF RowsAhead
  <2>8. /\ IsFiniteSet(A) /\ Cardinality(A) \in Nat
        /\ IsFiniteSet(B) /\ Cardinality(B) \in Nat
    BY <2>7, FS_Subset, FS_CardinalityType DEF Board
  <2>9. m = 1 + Cardinality(A) /\ RankingOrder(k, base, ordinal) = 1 + Cardinality(B)
    BY <2>4, <2>5, <2>6 DEF RankingOrder, RowsAhead
  <2>10. ASSUME NEW j \in D
         PROVE  j \in B /\ j \notin A
    <3>1. Ahead(j, k, ordinal)
      BY RanksOrder
    <3>2. RankingOrder(j, base, ordinal) \in Nat /\ m <= RankingOrder(j, base, ordinal) /\ m \in Nat
      BY <2>1, <2>2, <2>3, RanksOrder
    <3>3. ~Ahead(j, d, ordinal)
      BY <2>4, <3>2, RanksOrder
    <3>4. QED
      BY <2>5, <2>6, <3>1, <3>3 DEF RowsAhead
  <2>11. A \in SUBSET B
    <3>1. ASSUME NEW i \in A
          PROVE  i \in B
      <4>1. i \in base /\ Ahead(i, d, ordinal) /\ Ahead(d, k, ordinal)
        BY <2>5, <2>6, <2>10 DEF RowsAhead
      <4>2. RowOf(c, i) /\ RowOf(c, d) /\ RowOf(c, k)
        BY <4>1 DEF Board
      <4>3. Ahead(i, k, ordinal)
        BY <4>1, <4>2, AheadOrders
      <4>4. QED
        BY <2>6, <4>1, <4>3 DEF RowsAhead
    <3>2. QED
      BY <3>1
  <2>12. D \cup A \in SUBSET B /\ D \cap A = {}
    BY <2>10, <2>11
  <2>13. Cardinality(D) + Cardinality(A) <= Cardinality(B)
    <3>1. Cardinality(D \cup A) = Cardinality(D) + Cardinality(A) - 0
      BY <1>1, <2>8, <2>12, FS_Union, FS_EmptySet
    <3>2. Cardinality(D \cup A) <= Cardinality(B)
      BY <2>8, <2>12, FS_Subset
    <3>3. QED
      BY <1>1, <2>8, <3>1, <3>2
  <2>14. (1 + Cardinality(B)) - (1 + Cardinality(A)) <= h
    BY <2>4, <2>9
  <2>15. QED
    BY <1>1, <2>8, <2>13, <2>14
<1>4. QED
  BY <1>2, <1>3

-----------------------------------------------------------------------------
(* Lists. *)

(* The rows a query selects, the rank of each, and those listed before it. *)
RowsOf(c, q) == Selected(q, Base(c, q.group))
OrderOf(c, q, k) == RankingOrder(k, Base(c, q.group), q.ordinal)
Before(c, q, k) ==
  {j \in RowsOf(c, q) :
     Lexicographic(OrderOf(c, q, j), j.owner, j.unique, OrderOf(c, q, k), k.owner, k.unique)}

(* The rows of a category are a board, of which a query selects some. *)
LEMMA BaseBoard ==
  ASSUME IsFiniteSet(Stored), NEW c, NEW group
  PROVE  Board(c, Base(c, group))
<1>1. Base(c, group) \in SUBSET Stored
  BY DEF Base
<1>2. IsFiniteSet(Base(c, group))
  BY <1>1, FS_Subset
<1>3. \A k \in Base(c, group) : RowOf(c, k)
  BY DEF Base, Stored, RowOf
<1>4. QED
  BY <1>2, <1>3 DEF Board

(* A query selects rows of its board. *)
LEMMA SelectedRows ==
  ASSUME IsFiniteSet(Stored), NEW c, NEW q, q.mode \in {0, 1, 2, 4}
  PROVE  /\ RowsOf(c, q) \in SUBSET Base(c, q.group)
         /\ IsFiniteSet(RowsOf(c, q)) /\ Cardinality(RowsOf(c, q)) \in Nat
<1>1. RowsOf(c, q) \in SUBSET Base(c, q.group)
  BY DEF RowsOf, Selected, Near, OwnRows
<1>2. IsFiniteSet(Base(c, q.group))
  BY BaseBoard DEF Board
<1>3. QED
  BY <1>1, <1>2, FS_Subset, FS_CardinalityType

(* A selected row is in the list, with its rank and behind those that come *)
(* before it, if the list is long enough; nothing else is in the list.     *)
LEMMA Listed ==
  ASSUME TypeOK, IsFiniteSet(Stored), NEW c, NEW q, q.mode \in {0, 1, 2, 4}, Offset(q) = 0,
         Limit(q) \in Nat
  PROVE  /\ \A k \in RowsOf(c, q) :
              1 + Cardinality(Before(c, q, k)) \in 1..Limit(q) =>
                [key |-> k, order |-> OrderOf(c, q, k), position |-> 1 + Cardinality(Before(c, q, k))]
                  \in GetRankings(c, q).list
         /\ \A e \in GetRankings(c, q).list : e.key \in RowsOf(c, q) /\ e.order = OrderOf(c, q, e.key)
<1>1. PICK base : base = Base(c, q.group)
  OBVIOUS
<1>2. PICK rows : rows = Selected(q, base)
  OBVIOUS
<1>3. PICK sort : sort = [k \in rows |-> SortKey(k, rows, base, q.ordinal)]
  OBVIOUS
<1>4. PICK position :
        position = [k \in rows |-> 1 + Cardinality({j \in rows : Precedes(sort[j], sort[k])})]
  OBVIOUS
<1>5. PICK page : page = {k \in rows : position[k] \in (Offset(q) + 1)..(Offset(q) + Limit(q))}
  OBVIOUS
<1>6. GetRankings(c, q).list
        = {[key |-> k, order |-> sort[k][1], position |-> position[k]] : k \in page}
  BY <1>1, <1>2, <1>3, <1>4, <1>5 DEF GetRankings
<1>7. rows = RowsOf(c, q) /\ rows \in SUBSET base /\ Board(c, base)
  BY <1>1, <1>2, SelectedRows, BaseBoard DEF RowsOf
<1>8. ASSUME NEW k \in rows
      PROVE  /\ sort[k] = <<OrderOf(c, q, k), k.owner, k.unique>>
             /\ OrderOf(c, q, k) \in Int /\ k.owner \in Int /\ k.unique \in Int
  <2>1. sort[k] = <<OrderOf(c, q, k), k.owner, k.unique>>
    BY <1>1, <1>3 DEF SortKey, OrderOf
  <2>2. OrderOf(c, q, k) \in Int
    BY <1>1, <1>7, RanksOrder DEF OrderOf
  <2>3. k.owner \in Int /\ k.unique \in Int
    BY <1>7, RankedColumns DEF Board
  <2>4. QED
    BY <2>1, <2>2, <2>3
<1>9. ASSUME NEW k \in rows
      PROVE  position[k] = 1 + Cardinality(Before(c, q, k)) /\ sort[k][1] = OrderOf(c, q, k)
  <2>1. ASSUME NEW j \in rows
        PROVE  Precedes(sort[j], sort[k]) <=>
                 Lexicographic(OrderOf(c, q, j), j.owner, j.unique,
                               OrderOf(c, q, k), k.owner, k.unique)
    <3>1. PICK a, b : a = OrderOf(c, q, j) /\ b = OrderOf(c, q, k)
      OBVIOUS
    <3>2. /\ sort[j] = <<a, j.owner, j.unique>> /\ a \in Int /\ j.owner \in Int /\ j.unique \in Int
          /\ sort[k] = <<b, k.owner, k.unique>> /\ b \in Int /\ k.owner \in Int /\ k.unique \in Int
      BY <1>8, <3>1
    <3>3. Precedes(<<a, j.owner, j.unique>>, <<b, k.owner, k.unique>>) <=>
            Lexicographic(a, j.owner, j.unique, b, k.owner, k.unique)
      BY <3>2, PrecedesColumns
    <3>4. QED
      BY <3>1, <3>2, <3>3
  <2>2. {j \in rows : Precedes(sort[j], sort[k])} = Before(c, q, k)
    BY <1>7, <2>1 DEF Before
  <2>3. QED
    BY <1>4, <1>8, <2>2
<1>10. ASSUME NEW k \in rows, 1 + Cardinality(Before(c, q, k)) \in 1..Limit(q)
       PROVE  [key |-> k, order |-> OrderOf(c, q, k), position |-> 1 + Cardinality(Before(c, q, k))]
                \in GetRankings(c, q).list
  <2>1. Offset(q) + 1 = 1 /\ Offset(q) + Limit(q) = Limit(q)
    OBVIOUS
  <2>2. k \in page
    BY <1>5, <1>9, <1>10, <2>1
  <2>3. QED
    BY <1>6, <1>9, <2>2
<1>11. ASSUME NEW e \in GetRankings(c, q).list
       PROVE  e.key \in rows /\ e.order = OrderOf(c, q, e.key)
  <2>1. PICK k \in page : e = [key |-> k, order |-> sort[k][1], position |-> position[k]]
    BY <1>6
  <2>2. k \in rows /\ e.key = k /\ e.order = sort[k][1]
    BY <1>5, <2>1
  <2>3. QED
    BY <1>9, <2>2
<1>12. QED
  BY <1>7, <1>10, <1>11

(* The first of the selected rows of one rank comes right after those of a *)
(* smaller rank.                                                           *)
LEMMA FirstOfRank ==
  ASSUME TypeOK, IsFiniteSet(Stored), NEW c, NEW q, q.mode \in {0, 1, 2, 4},
         NEW k \in RowsOf(c, q)
  PROVE  \E r \in RowsOf(c, q) :
           /\ OrderOf(c, q, r) = OrderOf(c, q, k)
           /\ Before(c, q, r) = {j \in RowsOf(c, q) : OrderOf(c, q, j) < OrderOf(c, q, k)}
<1>1. PICK o : o = OrderOf(c, q, k)
  OBVIOUS
<1>2. PICK S : S = {j \in RowsOf(c, q) : OrderOf(c, q, j) = o}
  OBVIOUS
<1>3. ASSUME NEW j \in RowsOf(c, q)
      PROVE  j.owner \in Nat /\ j.unique \in Nat /\ OrderOf(c, q, j) \in Nat
  <2>1. j \in Base(c, q.group) /\ Board(c, Base(c, q.group))
    BY SelectedRows, BaseBoard
  <2>2. QED
    BY <2>1, RankedColumns, RanksOrder DEF OrderOf, Board
<1>4. k \in S /\ S \in SUBSET RowsOf(c, q)
  BY <1>1, <1>2
<1>5. PICK m \in {j.owner : j \in S} : \A n \in {j.owner : j \in S} : m <= n
  <2>1. {j.owner : j \in S} \in SUBSET Nat /\ {j.owner : j \in S} # {}
    BY <1>3, <1>4
  <2>2. QED
    BY <2>1, LeastNumber
<1>6. PICK T : T = {j \in S : j.owner = m}
  OBVIOUS
<1>7. PICK u \in {j.unique : j \in T} : \A n \in {j.unique : j \in T} : u <= n
  <2>1. {j.unique : j \in T} \in SUBSET Nat /\ {j.unique : j \in T} # {}
    BY <1>3, <1>4, <1>5, <1>6
  <2>2. QED
    BY <2>1, LeastNumber
<1>8. PICK r \in T : r.unique = u
  OBVIOUS
<1>9. r \in RowsOf(c, q) /\ OrderOf(c, q, r) = o /\ r.owner = m
  BY <1>2, <1>6, <1>8
<1>10. ASSUME NEW j \in RowsOf(c, q)
       PROVE  Lexicographic(OrderOf(c, q, j), j.owner, j.unique, o, r.owner, r.unique)
                <=> OrderOf(c, q, j) < o
  <2>1. /\ j.owner \in Nat /\ j.unique \in Nat /\ OrderOf(c, q, j) \in Nat
        /\ r.owner \in Nat /\ r.unique \in Nat /\ o \in Nat
    BY <1>1, <1>3, <1>9
  <2>2. CASE OrderOf(c, q, j) # o
    BY <2>1, <2>2 DEF Lexicographic
  <2>3. CASE OrderOf(c, q, j) = o
    <3>1. j \in S /\ r.owner <= j.owner
      BY <1>2, <1>5, <1>9, <2>3
    <3>2. j.owner = r.owner => r.unique <= j.unique
      BY <1>6, <1>7, <1>8, <1>9, <3>1
    <3>3. QED
      BY <2>1, <2>3, <3>1, <3>2 DEF Lexicographic
  <2>4. QED
    BY <2>2, <2>3
<1>11. Before(c, q, r) = {j \in RowsOf(c, q) : OrderOf(c, q, j) < o}
  BY <1>9, <1>10 DEF Before
<1>12. QED
  BY <1>1, <1>9, <1>11

-----------------------------------------------------------------------------
(* The answers. *)

(* Uploads store one row at a time, so the tables stay finite. *)
LEMMA StoredFinite == Spec => []IsFiniteSet(Stored)
<1>1. Init => IsFiniteSet(Stored)
  <2> SUFFICES ASSUME Init
               PROVE  IsFiniteSet(Stored)
    OBVIOUS
  <2>1. Stored = {}
    BY DEF Init, Stored, NoRow
  <2>2. QED
    BY <2>1, FS_EmptySet
<1>2. IInv /\ IsFiniteSet(Stored) /\ [Next]_vars => IsFiniteSet(Stored)'
  <2> SUFFICES ASSUME IInv, IsFiniteSet(Stored), [Next]_vars
               PROVE  IsFiniteSet(Stored')
    OBVIOUS
  <2>1. ASSUME NEW w \in Workers, Commit(w)
        PROVE  IsFiniteSet(Stored')
    <3>1. PICK k : k = tx[w].upload.key
      OBVIOUS
    <3>2. rankings \in [Keys -> Row] /\ \A j \in Keys : j # k => rankings'[j] = rankings[j]
      BY <2>1, <3>1 DEF Commit, IInv, TypeOK
    <3>3. Stored' \in SUBSET (Stored \cup {k})
      BY <3>2 DEF Stored
    <3>4. IsFiniteSet(Stored \cup {k})
      BY FS_AddElement
    <3>5. QED
      BY <3>3, <3>4, FS_Subset
  <2>2. CASE UNCHANGED rankings
    <3>1. Stored' = Stored
      BY <2>2 DEF Stored
    <3>2. QED
      BY <3>1
  <2>3. QED
    BY <2>1, <2>2 DEF Next, Tick, Restart, UploadScore, InsertCategory, UpsertScore, Rollback, vars
<1>3. QED
  BY <1>1, <1>2, Invariance, PTL DEF Spec

(* The first row of every leaderboard is the best score anybody uploaded,  *)
(* provided that the players used the order of the category; with ties and *)
(* however many players there are.                                         *)
THEOREM BestLeads == Spec => []BestUploadLeads
<1>1. IInv /\ IsFiniteSet(Stored) => BestUploadLeads
  <2> SUFFICES ASSUME IInv, IsFiniteSet(Stored), NEW c \in Categories, NEW mine,
                      mine = {k \in Stored : k.category = c}, mine # {}, mine \subseteq uniform
               PROVE  \E e \in Whole(c).list :
                        /\ e.position = 1 /\ e.order = 1
                        /\ \A k \in mine : ~Better(categories[c], best[k], rankings[e.key].score)
    BY DEF BestUploadLeads
  <2>1. PICK q : q = [mode |-> 0, owner |-> CHOOSE p \in Players : TRUE, unique |-> 0,
                      group |-> <<255, 0>>, ordinal |-> FALSE, offset |-> 0, length |-> 0]
    OBVIOUS
  <2>2. /\ q.mode = 0 /\ Offset(q) = 0 /\ Limit(q) = MaxRows /\ q.group = <<255, 0>>
        /\ MaxRows \in Nat \ {0} /\ Whole(c) = GetRankings(c, q) /\ TypeOK
    BY <2>1, QueryAssumption DEF Offset, Limit, Whole, IInv
  <2>3. Base(c, q.group) = mine /\ RowsOf(c, q) = mine /\ Board(c, mine)
    <3>1. Base(c, q.group) = mine
      BY <2>2 DEF Base
    <3>2. RowsOf(c, q) = mine
      BY <2>2, <3>1 DEF RowsOf, Selected
    <3>3. QED
      BY <3>1, <3>2, BaseBoard
  <2>4. \A k \in mine : OrderOf(c, q, k) = RankingOrder(k, mine, q.ordinal)
    BY <2>3 DEF OrderOf
  <2>5. PICK k \in mine : OrderOf(c, q, k) = 1
    BY <2>2, <2>3, <2>4, SomeoneLeads
  <2>6. PICK r \in mine : OrderOf(c, q, r) = 1 /\ Before(c, q, r) = {j \in mine : OrderOf(c, q, j) < 1}
    BY <2>2, <2>3, <2>5, FirstOfRank
  <2>7. \A j \in mine : OrderOf(c, q, j) \in Nat \ {0}
    BY <2>2, <2>3, <2>4, RanksOrder
  <2>8. Before(c, q, r) = {}
    BY <2>6, <2>7
  <2>9. 1 + Cardinality(Before(c, q, r)) = 1
    BY <2>8, FS_EmptySet
  <2>10. 1 \in 1..Limit(q)
    BY <2>2
  <2>11. [key |-> r, order |-> 1, position |-> 1] \in GetRankings(c, q).list
    <3>1. \A j \in RowsOf(c, q) :
            1 + Cardinality(Before(c, q, j)) \in 1..Limit(q) =>
              [key |-> j, order |-> OrderOf(c, q, j), position |-> 1 + Cardinality(Before(c, q, j))]
                \in GetRankings(c, q).list
      BY <2>2, Listed
    <3>2. QED
      BY <2>3, <2>6, <2>9, <2>10, <3>1
  <2>12. ASSUME NEW j \in mine
         PROVE  ~Better(categories[c], best[j], rankings[r].score)
    <3>1. ~Ahead(j, r, q.ordinal)
      <4>1. Ahead(j, r, q.ordinal) <=> OrderOf(c, q, j) < OrderOf(c, q, r)
        BY <2>2, <2>3, <2>4, RanksOrder
      <4>2. QED
        BY <2>6, <2>7, <4>1
    <3>2. r.category = c /\ rankings[j].score = best[j]
      BY DEF IInv, UniformRow
    <3>3. QED
      BY <3>1, <3>2 DEF Ahead
  <2>13. PICK e : e = [key |-> r, order |-> 1, position |-> 1]
    OBVIOUS
  <2>14. e \in Whole(c).list /\ e.position = 1 /\ e.order = 1 /\ e.key = r
    BY <2>2, <2>11, <2>13
  <2>15. QED
    BY <2>12, <2>14
<1>2. QED
  BY <1>1, StoredFinite, Invariance, PTL

(* Half of a limit, on both sides. *)
LEMMA HalfLimit ==
  ASSUME NEW limit \in Nat \ {0}
  PROVE  limit \div 2 \in Nat /\ 1 + (limit \div 2) <= limit
OBVIOUS

(* Whoever asks for the ranking around itself is shown its rank, and with  *)
(* ordinal ranks its own row: among the rows no further ahead than half of *)
(* the length, there are never so many that LIMIT cuts its rank off.       *)
THEOREM CallerIsShown == Spec => []NearShowsCaller
<1>1. IInv /\ IsFiniteSet(Stored) => NearShowsCaller
  <2> SUFFICES ASSUME IInv, IsFiniteSet(Stored), NEW c \in Categories,
                      NEW q \in Queries, q.mode = 1, q.offset = 0,
                      NEW base, base = Base(c, q.group), OwnRows(q, base) # {}
               PROVE  \E e \in GetRankings(c, q).list :
                        e.order = OwnOrder(q, base) /\ (q.ordinal => e.key \in OwnRows(q, base))
    BY DEF NearShowsCaller
  <2>1. /\ TypeOK /\ Board(c, base) /\ Offset(q) = 0 /\ q.mode \in {0, 1, 2, 4}
        /\ OwnRows(q, base) \in SUBSET base /\ RowsOf(c, q) = Near(q, base)
    BY BaseBoard DEF IInv, Offset, OwnRows, RowsOf, Selected
  <2>2. Limit(q) \in Nat \ {0}
    <3>1. q.length \in Lengths /\ Lengths \subseteq 0..MaxRows /\ MaxRows \in Nat \ {0}
      BY QueryAssumption DEF Queries
    <3>2. q.length \in Nat
      <4>1. q.length \in 0..MaxRows
        BY <3>1
      <4>2. QED
        BY <3>1, <4>1
    <3>3. QED
      BY <3>1, <3>2 DEF Limit
  <2>3. PICK h : h = Limit(q) \div 2
    OBVIOUS
  <2>4. h \in Nat /\ 1 + h <= Limit(q)
    BY <2>2, <2>3, HalfLimit
  <2>5. PICK S : S = {RankingOrder(k, base, q.ordinal) : k \in OwnRows(q, base)}
    OBVIOUS
  <2>6. S \in SUBSET Nat /\ S # {}
    BY <2>1, <2>5, RanksOrder
  <2>7. PICK m \in S : \A n \in S : m <= n
    BY <2>6, LeastNumber
  <2>8. OwnOrder(q, base) \in S
    BY <2>5, <2>7 DEF OwnOrder, Min
  <2>9. PICK k \in OwnRows(q, base) : RankingOrder(k, base, q.ordinal) = OwnOrder(q, base)
    BY <2>5, <2>8
  <2>10. PICK own : own = OwnOrder(q, base)
    OBVIOUS
  <2>11. \A j \in base : RankingOrder(j, base, q.ordinal) \in Nat /\ own \in Nat
    BY <2>1, <2>6, <2>8, <2>10, RanksOrder
  <2>12. \A j : j \in Near(q, base) <=>
                  j \in base /\ RankingOrder(j, base, q.ordinal) - own \in -h..h
    BY <2>3, <2>10 DEF Near
  <2>13. k \in RowsOf(c, q) /\ OrderOf(c, q, k) = own
    <3>1. k \in base /\ own - own \in -h..h
      BY <2>1, <2>4, <2>11
    <3>2. QED
      BY <2>1, <2>9, <2>10, <2>12, <3>1 DEF OrderOf
  <2>14. PICK r \in RowsOf(c, q) :
           /\ OrderOf(c, q, r) = own
           /\ Before(c, q, r) = {j \in RowsOf(c, q) : OrderOf(c, q, j) < own}
    BY <2>1, <2>13, FirstOfRank
  <2>15. PICK D : D = Before(c, q, r)
    OBVIOUS
  <2>16. ASSUME NEW j \in D
         PROVE  /\ j \in base
                /\ RankingOrder(j, base, q.ordinal) < RankingOrder(k, base, q.ordinal)
                /\ RankingOrder(k, base, q.ordinal) - RankingOrder(j, base, q.ordinal) <= h
    <3>1. j \in Near(q, base) /\ RankingOrder(j, base, q.ordinal) < own
      BY <2>1, <2>14, <2>15 DEF OrderOf
    <3>2. j \in base /\ RankingOrder(j, base, q.ordinal) - own \in -h..h
      BY <2>12, <3>1
    <3>3. RankingOrder(j, base, q.ordinal) \in Nat /\ own \in Nat
      BY <2>11, <3>2
    <3>4. own - RankingOrder(j, base, q.ordinal) <= h
      BY <2>4, <3>2, <3>3
    <3>5. QED
      BY <2>9, <2>10, <3>1, <3>2, <3>4
  <2>17. Cardinality(D) \in Nat /\ Cardinality(D) <= h
    <3>1. D \in SUBSET base /\ k \in base
      BY <2>1, <2>16
    <3>2. QED
      BY <2>1, <2>4, <2>16, <3>1, FewInWindow
  <2>18. 1 + Cardinality(Before(c, q, r)) \in 1..Limit(q)
    BY <2>2, <2>4, <2>15, <2>17
  <2>19. PICK e : e = [key |-> r, order |-> OrderOf(c, q, r),
                       position |-> 1 + Cardinality(Before(c, q, r))]
    OBVIOUS
  <2>20. e \in GetRankings(c, q).list /\ e.key = r /\ e.order = own
    <3>1. [key |-> r, order |-> OrderOf(c, q, r), position |-> 1 + Cardinality(Before(c, q, r))]
            \in GetRankings(c, q).list
      BY <2>1, <2>2, <2>18, Listed
    <3>2. QED
      BY <2>14, <2>19, <3>1
  <2>21. ASSUME q.ordinal
         PROVE  r \in OwnRows(q, base)
    <3>1. r \in base /\ k \in base
      BY <2>1, <2>12, <2>14
    <3>2. RankingOrder(r, base, q.ordinal) = RankingOrder(k, base, q.ordinal)
      BY <2>9, <2>10, <2>14 DEF OrderOf
    <3>3. r = k
      BY <2>1, <2>21, <3>1, <3>2, OrdinalRanks
    <3>4. QED
      BY <2>9, <3>3
  <2>22. QED
    BY <2>10, <2>20, <2>21
<1>2. QED
  BY <1>1, StoredFinite, Invariance, PTL

(* A row is shown with the same rank in every mode, and is in the whole    *)
(* list, on leaderboards of up to maxRankingRows rows; the rows of a       *)
(* larger one that come behind them cannot be listed.                      *)
THEOREM SameRankEverywhere ==
  ASSUME IsFiniteSet(Keys), Cardinality(Keys) <= MaxRows
  PROVE  Spec => []RanksAgree
<1>1. IInv /\ IsFiniteSet(Stored) => RanksAgree
  <2> SUFFICES ASSUME IInv, IsFiniteSet(Stored), NEW c \in Categories,
                      NEW q \in Queries, q.mode # 0, q.offset = 0,
                      NEW e \in GetRankings(c, q).list
               PROVE  \E s \in GetRankings(c, [q EXCEPT !.mode = 0, !.length = 0]).list :
                         s.key = e.key /\ s.order = e.order
    BY DEF RanksAgree
  <2>1. PICK all : all = [q EXCEPT !.mode = 0, !.length = 0]
    OBVIOUS
  <2>2. /\ q.mode \in {0, 1, 2, 4} /\ all.mode = 0 /\ all.length = 0 /\ all.offset = 0
        /\ all.group = q.group /\ all.ordinal = q.ordinal /\ q.length \in Lengths
    BY <2>1 DEF Queries
  <2>3. /\ TypeOK /\ Offset(q) = 0 /\ Offset(all) = 0 /\ MaxRows \in Nat
        /\ Limit(q) \in Nat /\ Limit(all) = MaxRows
    <3>1. Lengths \subseteq 0..MaxRows /\ MaxRows \in Nat
      BY QueryAssumption
    <3>2. q.length \in Nat
      <4>1. q.length \in 0..MaxRows
        BY <2>2, <3>1
      <4>2. QED
        BY <3>1, <4>1
    <3>3. QED
      BY <2>2, <3>1, <3>2 DEF IInv, Offset, Limit
  <2>4. PICK k : k = e.key
    OBVIOUS
  <2>5. k \in RowsOf(c, q) /\ e.order = OrderOf(c, q, k)
    BY <2>2, <2>3, <2>4, Listed
  <2>6. PICK base : base = Base(c, q.group)
    OBVIOUS
  <2>7. RowsOf(c, all) = base /\ k \in base /\ Board(c, base)
    BY <2>2, <2>5, <2>6, SelectedRows, BaseBoard DEF RowsOf, Selected
  <2>8. OrderOf(c, all, k) = e.order /\ OrderOf(c, all, k) \in Nat
    <3>1. OrderOf(c, all, k) = RankingOrder(k, base, q.ordinal) /\ e.order = OrderOf(c, all, k)
      BY <2>2, <2>5, <2>6 DEF OrderOf
    <3>2. QED
      BY <2>3, <2>7, <3>1, RanksOrder
  <2>9. PICK D : D = Before(c, all, k)
    OBVIOUS
  <2>10. D \in SUBSET base /\ k \notin D
    <3>1. k.owner \in Nat /\ k.unique \in Nat
      BY <2>3, <2>7, RankedColumns DEF Board
    <3>2. QED
      BY <2>7, <2>8, <2>9, <3>1 DEF Before, Lexicographic
  <2>11. 1 + Cardinality(D) \in 1..MaxRows
    <3>1. base \in SUBSET Keys
      BY <2>6 DEF Base, Stored
    <3>2. IsFiniteSet(D) /\ Cardinality(D) \in Nat
      BY <2>7, <2>10, FS_Subset, FS_CardinalityType DEF Board
    <3>3. IsFiniteSet(D \cup {k}) /\ Cardinality(D \cup {k}) = Cardinality(D) + 1
      BY <2>10, <3>2, FS_AddElement
    <3>4. D \cup {k} \in SUBSET Keys
      BY <2>7, <2>10, <3>1
    <3>5. Cardinality(D \cup {k}) <= Cardinality(Keys) /\ Cardinality(Keys) \in Nat
      BY <3>4, FS_Subset, FS_CardinalityType
    <3>6. QED
      BY <2>3, <3>2, <3>3, <3>5
  <2>12. PICK s : s = [key |-> k, order |-> OrderOf(c, all, k),
                       position |-> 1 + Cardinality(Before(c, all, k))]
    OBVIOUS
  <2>13. s \in GetRankings(c, all).list /\ s.key = k /\ s.order = e.order
    BY <2>2, <2>3, <2>7, <2>8, <2>9, <2>11, <2>12, Listed
  <2>14. QED
    BY <2>1, <2>4, <2>13
<1>2. QED
  BY <1>1, StoredFinite, Invariance, PTL
=============================================================================
