---------------------------- MODULE Leaderboard ----------------------------
(***************************************************************************)
(* What uploading a score promises, without statements, transactions or    *)
(* locks: the first upload to a category fixes its order, every upload is  *)
(* compared with the score that is there, and both happen at once.         *)
(***************************************************************************)
EXTENDS Scores

VARIABLES
  orders,  \* the order of each category
  board    \* the row of each key

Init == orders = [c \in Categories |-> NoOrder] /\ board = [k \in Keys |-> NoRow]

Submit(u, now) ==
  /\ orders' = [orders EXCEPT ![u.key.category] = IF @ = NoOrder THEN u.order_by ELSE @]
  /\ board' = [board EXCEPT ![u.key] = Upsert(@, u, now)]

Next == \E u \in Uploads, now \in 0..MaxTime : Submit(u, now)

Spec == Init /\ [][Next]_<<orders, board>>
=============================================================================
