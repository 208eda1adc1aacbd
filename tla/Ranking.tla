------------------------------ MODULE Ranking ------------------------------
(***************************************************************************)
(* Uploading scores with the Ranking protocol: the scores and the order of *)
(* each category, in PostgreSQL.  An upload is one transaction of two      *)
(* statements (READ COMMITTED): the category's order is inserted if        *)
(* the category is new, then the score is inserted or, on conflict,        *)
(* replaced under a condition.  Workers are the goroutines of the requests *)
(* and interleave between the statements; what a transaction wrote is seen *)
(* by others once it commits, and a second writer of the same row waits.   *)
(***************************************************************************)
EXTENDS Scores

CONSTANTS
  Workers,        \* uploads that can run at the same time
  Faults          \* whether a statement may fail

ASSUME RankingAssumption == Faults \in BOOLEAN

(* A worker's transaction: the statement it executes next, its upload with *)
(* the time taken at the start, the category row it has inserted and the   *)
(* score row it has locked, with the version it leaves there.              *)
Statements == {"InsertCategory", "UpsertScore", "Commit"}

Tx == [pc : Statements \cup {"idle"}, upload : Upload, now : 0..MaxTime,
       inserted : BOOLEAN, locks : BOOLEAN, row : Row]

VARIABLES
  categories,  \* order of each category, committed
  rankings,    \* the row of each key, committed
  clock,       \* time.Now().Unix()
  tx,          \* the transaction of each worker
  best,        \* history: the best score of each key since its last replacement
  uniform      \* history: keys only uploaded in their category's order since then

vars == <<categories, rankings, clock, tx, best, uniform>>

TypeOK ==
  /\ categories \in [Categories -> Orders]
  /\ rankings \in [Keys -> Row]
  /\ clock \in 0..MaxTime
  /\ tx \in [Workers -> Tx]
  /\ best \in [Keys -> Nat \cup {NoScore}]
  /\ uniform \subseteq Keys

Idle == CHOOSE t \in [pc : {"idle"}, upload : Uploads, now : {0}, inserted : {FALSE},
                      locks : {FALSE}, row : {NoRow}] : TRUE

Init ==
  /\ categories = [c \in Categories |-> NoOrder]
  /\ rankings = [k \in Keys |-> NoRow]
  /\ clock = 0
  /\ tx = [w \in Workers |-> Idle]
  /\ best = [k \in Keys |-> NoScore]
  /\ uniform = {}

Tick ==
  /\ clock < MaxTime
  /\ clock' = clock + 1
  /\ UNCHANGED <<categories, rankings, tx, best, uniform>>

-----------------------------------------------------------------------------
(* UploadScore *)

UploadScore(w, u) ==
  /\ tx[w].pc = "idle"
  /\ tx' = [tx EXCEPT ![w] = [pc |-> "InsertCategory", upload |-> u, now |-> clock,
                              inserted |-> FALSE, locks |-> FALSE, row |-> NoRow]]
  /\ UNCHANGED <<categories, rankings, clock, best, uniform>>

(* INSERT ... ON CONFLICT DO NOTHING waits for another transaction that    *)
(* has inserted the same category and has not ended.                       *)
CategoryFree_Always(w) == TRUE

CategoryFree(w) ==
  \A v \in Workers \ {w} :
    ~(tx[v].inserted /\ tx[v].upload.key.category = tx[w].upload.key.category)

InsertCategory(w) ==
  /\ tx[w].pc = "InsertCategory"
  /\ CategoryFree(w)
  /\ tx' = [tx EXCEPT ![w].pc = "UpsertScore",
                      ![w].inserted = categories[tx[w].upload.key.category] = NoOrder]
  /\ UNCHANGED <<categories, rankings, clock, best, uniform>>

RowFree_Always(w) == TRUE

RowFree(w) == \A v \in Workers \ {w} : ~(tx[v].locks /\ tx[v].upload.key = tx[w].upload.key)

(* The row is locked also when the condition leaves it as it is. *)
UpsertScore(w) ==
  /\ tx[w].pc = "UpsertScore"
  /\ RowFree(w)
  /\ tx' = [tx EXCEPT ![w].pc = "Commit", ![w].locks = TRUE,
                      ![w].row = Upsert(rankings[tx[w].upload.key], tx[w].upload, tx[w].now)]
  /\ UNCHANGED <<categories, rankings, clock, best, uniform>>

(* History: what best and uniform become when u is committed. *)
Restarts(u) == rankings[u.key].score = NoScore \/ u.update_mode = 1

NewBest(u, order) ==
  IF Restarts(u) \/ Better(order, u.score, best[u.key]) THEN u.score ELSE best[u.key]

NewUniform(u, order) ==
  IF u.order_by = order /\ (Restarts(u) \/ u.key \in uniform)
    THEN uniform \cup {u.key} ELSE uniform \ {u.key}

(* The order of the category once transaction t has committed. *)
OrderAfter_Lost(t) == categories[t.upload.key.category]

OrderAfter(t) == IF t.inserted THEN t.upload.order_by ELSE categories[t.upload.key.category]

Commit(w) ==
  LET t == tx[w]  k == tx[w].upload.key IN
  /\ t.pc = "Commit"
  /\ categories' = [categories EXCEPT ![k.category] = OrderAfter(t)]
  /\ rankings' = [rankings EXCEPT ![k] = t.row]
  /\ best' = [best EXCEPT ![k] = NewBest(t.upload, OrderAfter(t))]
  /\ uniform' = NewUniform(t.upload, OrderAfter(t))
  /\ tx' = [tx EXCEPT ![w] = Idle]
  /\ UNCHANGED clock

(* A statement or the commit fails; the deferred Rollback ends the         *)
(* transaction and gives its locks back.                                   *)
Rollback_Missing(w) ==
  /\ Faults
  /\ tx[w].pc \in Statements
  /\ tx' = [tx EXCEPT ![w].pc = "idle"]
  /\ UNCHANGED <<categories, rankings, clock, best, uniform>>

Rollback(w) ==
  /\ Faults
  /\ tx[w].pc \in Statements
  /\ tx' = [tx EXCEPT ![w] = Idle]
  /\ UNCHANGED <<categories, rankings, clock, best, uniform>>

(* The process ends and starts again: every open transaction is undone. *)
Restart ==
  /\ tx' = [w \in Workers |-> Idle]
  /\ UNCHANGED <<categories, rankings, clock, best, uniform>>

-----------------------------------------------------------------------------
Step(w) == InsertCategory(w) \/ UpsertScore(w) \/ Commit(w)

Next ==
  \/ \E w \in Workers :
       \/ \E u \in Uploads : UploadScore(w, u)
       \/ InsertCategory(w) \/ UpsertScore(w) \/ Commit(w) \/ Rollback(w)
  \/ Tick
  \/ Restart

Spec == Init /\ [][Next]_vars

(* A statement that is not waiting completes, and PostgreSQL grants a lock *)
(* to its waiters in turn, so a statement that can go on again and again   *)
(* goes on.                                                                *)
FairSpec == Spec /\ \A w \in Workers : SF_vars(Step(w))

-----------------------------------------------------------------------------
(* Properties *)

Atomic == INSTANCE Leaderboard WITH orders <- categories, board <- rankings

(* Uploads are atomic: what interleaved, failing and interrupted           *)
(* transactions leave in the two tables is what the same uploads leave     *)
(* when they happen one at a time, in the order of their commits.          *)
ImplementsLeaderboard == Atomic!Spec

(* The leaderboard never loses a player's best score: however the uploads  *)
(* of several requests interleave, fail or are cut off by a restart, the   *)
(* row holds the best score committed since it was created or replaced     *)
(* unconditionally. This needs that all of them name the category's order: *)
(* the WHERE clause goes by the order in the row, which any upload that    *)
(* wins overwrites, and the ranking by the order of the category.          *)
BestScoreKept == \A k \in uniform : rankings[k].score = best[k]

(* The order a category is ranked by is there before its first score and   *)
(* never changes, although two first uploads may race with different       *)
(* orders and either may be rolled back.                                   *)
CategoriesComplete ==
  \A k \in Keys : rankings[k].score # NoScore => categories[k.category] # NoOrder

(* See CategoriesComplete. *)
OrderNeverChanges ==
  [][\A c \in Categories : categories[c] # NoOrder => categories'[c] = categories[c]]_vars

(* The transaction of w waits for that of v. *)
WaitsFor(w, v) ==
  /\ v # w
  /\ \/ /\ tx[w].pc = "InsertCategory" /\ tx[v].inserted
        /\ tx[v].upload.key.category = tx[w].upload.key.category
     \/ tx[w].pc = "UpsertScore" /\ tx[v].locks /\ tx[v].upload.key = tx[w].upload.key

(* The statements of an open transaction in order; idle counts as 0. *)
Progress(pc) ==
  CASE pc = "InsertCategory" -> 1 [] pc = "UpsertScore" -> 2 [] pc = "Commit" -> 3 [] OTHER -> 0

(* A transaction only ever waits for one that is open and has got further: *)
(* the waits of any number of uploads, for category rows and score rows    *)
(* mixed, form no cycle, so PostgreSQL never has to kill one of them, and  *)
(* nobody waits for a lock that a failed upload has left behind.           *)
WaitsForFurther ==
  \A v, w \in Workers : WaitsFor(w, v) => Progress(tx[v].pc) > Progress(tx[w].pc)

(* Every upload ends: no failure leaves a transaction open that others     *)
(* wait for, and no two wait for each other.                               *)
UploadsEnd == \A w \in Workers : tx[w].pc # "idle" ~> tx[w].pc = "idle"
=============================================================================
