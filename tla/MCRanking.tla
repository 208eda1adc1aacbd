----------------------------- MODULE MCRanking -----------------------------
(* Values of the constants of Ranking and RankingQueries for TLC. *)
EXTENDS RankingQueries

CONSTANTS w1, w2

Score(p, u, s, order, mode, groups) ==
  [key |-> [owner |-> p, unique |-> u, category |-> 1], score |-> s, order_by |-> order,
   update_mode |-> mode, groups |-> groups]

(* Player 1 improves one of its two scores; player 2 replaces its score by *)
(* one in the other order.                                                 *)
RankingUploads ==
  {Score(1, 1, 0, 1, 0, <<1>>), Score(1, 1, 1, 1, 0, <<1>>), Score(1, 2, 1, 1, 0, <<>>),
   Score(2, 1, 1, 1, 0, <<2>>), Score(2, 1, 0, 0, 1, <<2>>)}

GroupFilters == {<<255, 0>>, <<0, 1>>}
=============================================================================
