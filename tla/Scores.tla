------------------------------- MODULE Scores -------------------------------
(***************************************************************************)
(* The scores of the Ranking protocol: the rows of                         *)
(* hyrulewarriors_rankings and what uploading a score makes of one.        *)
(*                                                                         *)
(* The columns param and update_mode are written and never read, and are   *)
(* left out.  Uploads with an order or update mode above 1 are refused     *)
(* before anything happens.                                                *)
(***************************************************************************)
EXTENDS Integers, Sequences, FiniteSets

CONSTANTS
  Players,        \* principal IDs, numbers
  UniqueIDs,      \* unique IDs of scores, numbers other than 0
  Categories,
  Uploads,        \* scores clients upload
  MaxTime         \* bound: seconds that pass

Keys == [owner : Players, unique : UniqueIDs, category : Categories]

(* order_by is 0 when low scores are better and 1 when high ones are;      *)
(* update_mode 1 replaces the score unconditionally.                       *)
Upload == [key : Keys, score : Nat, order_by : {0, 1}, update_mode : {0, 1}, groups : Seq(Nat)]

ASSUME ScoresAssumption ==
  /\ Players \subseteq Nat \ {0} /\ UniqueIDs \subseteq Nat \ {0}
  /\ Uploads \subseteq Upload /\ Uploads # {}
  /\ MaxTime \in Nat

(* The order of a category that has no row yet. *)
NoOrder == -1
Orders == {NoOrder, 0, 1}

(* Rows. A key without a row has the score NoScore. *)
NoScore == -1
Row == [score : Nat \cup {NoScore}, order_by : {0, 1}, groups : Seq(Nat), updated_at : 0..MaxTime]
NoRow == [score |-> NoScore, order_by |-> 1, groups |-> <<>>, updated_at |-> 0]

(* A score s that is better than t in the given order. *)
Better(order, s, t) == IF order = 1 THEN s > t ELSE s < t

(* The WHERE of INSERT ... ON CONFLICT DO UPDATE, and what it leaves of r. *)
Replaces(r, u) ==
  \/ r.score = NoScore
  \/ u.update_mode = 1
  \/ Better(r.order_by, u.score, r.score)

Upsert_Later(r, u, now) ==
  IF Replaces(r, u)
    THEN [score |-> u.score, order_by |-> u.order_by, groups |-> u.groups, updated_at |-> now + 1]
    ELSE r

Upsert(r, u, now) ==
  IF Replaces(r, u)
    THEN [score |-> u.score, order_by |-> u.order_by, groups |-> u.groups, updated_at |-> now]
    ELSE r
=============================================================================
