--------------------------- MODULE RankingQueries ---------------------------
(***************************************************************************)
(* The reads of the Ranking protocol: HyruleWarriorsGetRankings is one     *)
(* SELECT, so it sees one committed state; GetRanking and the CachedTopX   *)
(* methods wrap it.  A query is a record:                                  *)
(*   mode       0 range, 1 near, 2 friends, 4 user                         *)
(*   owner      the player it is about, unique its score's unique ID or 0  *)
(*   group      <<index, byte>>; the index 255 stands for no filter        *)
(*   ordinal    whether equal scores get different ranks                   *)
(*   offset, length   the part of the list that is wanted                  *)
(* Queries with another mode, group index or order calculation are refused *)
(* and the list is the set of its rows, each with its position.            *)
(***************************************************************************)
EXTENDS Ranking, FiniteSetsExt

CONSTANTS
  Groups,   \* group filters of the queries
  MaxRows,  \* maxRankingRows, 1000
  Lengths   \* lengths of the queries; a byte on the wire

ASSUME QueryAssumption ==
  Groups \subseteq Nat \X Nat /\ MaxRows \in Nat \ {0} /\ Lengths \subseteq 0..MaxRows

Queries ==
  [mode : {0, 1, 2, 4}, owner : Players, unique : UniqueIDs \cup {0}, group : Groups,
   ordinal : BOOLEAN, offset : 0..Cardinality(Keys), length : Lengths]

Stored == {k \in Keys : rankings[k].score # NoScore}

(* The rows of category c in a group. *)
Base(c, group) ==
  {k \in Stored : /\ k.category = c
                  /\ group[1] # 255 => /\ Len(rankings[k].groups) > group[1]
                                       /\ rankings[k].groups[group[1] + 1] = group[2]}

(* The ORDER BY of RANK(), and the tie breakers ROW_NUMBER() adds. *)
Precedes(a, b) == \E i \in DOMAIN a : a[i] < b[i] /\ \A h \in 1..(i - 1) : a[h] = b[h]

Ties(k) == <<rankings[k].updated_at, k.owner, k.unique>>

Ahead_Ascending(j, k, ordinal) ==
  \/ rankings[j].score < rankings[k].score
  \/ ordinal /\ rankings[j].score = rankings[k].score /\ Precedes(Ties(j), Ties(k))

Ahead(j, k, ordinal) ==
  \/ Better(categories[k.category], rankings[j].score, rankings[k].score)
  \/ ordinal /\ rankings[j].score = rankings[k].score /\ Precedes(Ties(j), Ties(k))

RankingOrder(k, rows, ordinal) == 1 + Cardinality({j \in rows : Ahead(j, k, ordinal)})

OwnRows(q, base) == {k \in base : k.owner = q.owner /\ q.unique \in {0, k.unique}}

OwnOrder(q, base) == Min({RankingOrder(k, base, q.ordinal) : k \in OwnRows(q, base)})

Limit(q) == IF q.length = 0 THEN MaxRows ELSE q.length

(* Near: as far from the best row of the owner as half of the length. *)
Near_Wide(q, base) ==
  {k \in base : /\ OwnRows(q, base) # {}
                /\ RankingOrder(k, base, q.ordinal) - OwnOrder(q, base) \in -Limit(q)..Limit(q)}

Near(q, base) ==
  {k \in base : /\ OwnRows(q, base) # {}
                /\ RankingOrder(k, base, q.ordinal) - OwnOrder(q, base)
                     \in -(Limit(q) \div 2)..(Limit(q) \div 2)}

Selected(q, base) ==
  CASE q.mode = 0 -> base
    [] q.mode = 1 -> Near(q, base)
    [] q.mode \in {2, 4} -> OwnRows(q, base)

(* ORDER BY ranking_order, owner_pid, unique_id OFFSET offset LIMIT limit: *)
(* the ranking order is the one among all rows of the base.                *)
SortKey_Selected(k, rows, base, ordinal) ==
  <<RankingOrder(k, rows, ordinal), k.owner, k.unique>>

SortKey(k, rows, base, ordinal) == <<RankingOrder(k, base, ordinal), k.owner, k.unique>>

Offset(q) == IF q.mode = 0 THEN q.offset ELSE 0

GetRankings(c, q) ==
  LET base == Base(c, q.group)
      rows == Selected(q, base)
      sort == [k \in rows |-> SortKey(k, rows, base, q.ordinal)]
      position == [k \in rows |-> 1 + Cardinality({j \in rows : Precedes(sort[j], sort[k])})]
      page == {k \in rows : position[k] \in (Offset(q) + 1)..(Offset(q) + Limit(q))}
  IN  [list |-> {[key |-> k, order |-> sort[k][1], position |-> position[k]] : k \in page},
       totalCount |-> IF page = {} THEN 0 ELSE Cardinality(rows)]

-----------------------------------------------------------------------------
(* Properties of every answer the server can give. A SELECT sees committed *)
(* rows only, and a rollback or a restart leaves those as they are: so the *)
(* states without an open transaction show every answer.                   *)

Quiet == \A w \in Workers : tx[w].pc = "idle"

Whole(c) == GetRankings(c, [mode |-> 0, owner |-> CHOOSE p \in Players : TRUE, unique |-> 0,
                            group |-> <<255, 0>>, ordinal |-> FALSE, offset |-> 0, length |-> 0])

(* The head of a leaderboard is the best score: if every player has used   *)
(* the order of the category, nobody in it has ever uploaded a better one  *)
(* (since a replacement) than the row in the first position.               *)
BestUploadLeads ==
  Quiet => \A c \in Categories :
    LET mine == {k \in Stored : k.category = c} IN
    mine # {} /\ mine \subseteq uniform =>
      \E r \in Whole(c).list : /\ r.position = 1 /\ r.order = 1
                               /\ \A k \in mine : ~Better(categories[c], best[k], rankings[r.key].score)

(* A player that asks for the ranking around itself finds itself in it, if *)
(* ranks are ordinal; else it finds its rank, held by one of those that    *)
(* have the same score: LIMIT may cut off the player's own row, never all  *)
(* rows of its rank.                                                       *)
NearShowsCaller ==
  Quiet => \A c \in Categories, q \in {r \in Queries : r.mode = 1 /\ r.offset = 0} :
    LET base == Base(c, q.group) IN
    OwnRows(q, base) # {} =>
      \E r \in GetRankings(c, q).list :
         r.order = OwnOrder(q, base) /\ (q.ordinal => r.key \in OwnRows(q, base))

(* A row is shown with the rank it has in the whole list, in every mode. *)
RanksAgree ==
  Quiet => \A c \in Categories, q \in {r \in Queries : r.mode # 0 /\ r.offset = 0} :
    LET whole == GetRankings(c, [q EXCEPT !.mode = 0, !.length = 0]).list IN
    \A r \in GetRankings(c, q).list : \E s \in whole : s.key = r.key /\ s.order = r.order
=============================================================================
