--------------------------- MODULE RankingProofs ---------------------------
(***************************************************************************)
(* Uploads are atomic and keep the best score, for any number of players,  *)
(* categories and concurrent uploads.  The invariant says what the locks   *)
(* give: two open transactions have not inserted the same category nor     *)
(* locked the same row, so what a transaction has computed from the tables *)
(* is still up to date when it commits.                                    *)
(***************************************************************************)
EXTENDS Ranking, TLAPS

Category(w) == tx[w].upload.key.category

(* One transaction: it writes only what it has locked, computed from the   *)
(* committed tables as they still are.                                     *)
TxCurrent(w) ==
  LET t == tx[w] IN
  /\ t.upload \in Uploads
  /\ t.pc \in {"idle", "InsertCategory"} => ~t.inserted
  /\ t.pc \in {"UpsertScore", "Commit"} => (t.inserted <=> categories[Category(w)] = NoOrder)
  /\ t.locks <=> t.pc = "Commit"
  /\ t.pc = "Commit" => t.row = Upsert(rankings[t.upload.key], t.upload, t.now)

Exclusive(v, w) ==
  /\ ~(tx[v].inserted /\ tx[w].inserted /\ Category(v) = Category(w))
  /\ ~(tx[v].locks /\ tx[w].locks /\ tx[v].upload.key = tx[w].upload.key)

(* The rows whose uploads all used the order of the category. *)
UniformRow(k) ==
  /\ rankings[k].score # NoScore
  /\ rankings[k].order_by = categories[k.category]
  /\ rankings[k].score = best[k]

IInv ==
  /\ TypeOK
  /\ \A w \in Workers : TxCurrent(w)
  /\ \A v, w \in Workers : v # w => Exclusive(v, w)
  /\ CategoriesComplete
  /\ \A k \in uniform : UniformRow(k)

-----------------------------------------------------------------------------
(* The empty row is a row. *)
LEMMA NoRowType == NoRow \in Row
  BY ScoresAssumption DEF NoRow, Row, NoScore

(* A worker without a request has a transaction that holds nothing. *)
LEMMA IdleType ==
  /\ Idle \in Tx
  /\ Idle.pc = "idle" /\ Idle.upload \in Uploads /\ ~Idle.inserted /\ ~Idle.locks
<1> DEFINE Rest == [pc : {"idle"}, upload : Uploads, now : {0}, inserted : {FALSE},
                    locks : {FALSE}, row : {NoRow}]
<1>1. PICK u \in Uploads : TRUE
  BY ScoresAssumption
<1>2. [pc |-> "idle", upload |-> u, now |-> 0, inserted |-> FALSE, locks |-> FALSE,
       row |-> NoRow] \in Rest
  OBVIOUS
<1>3. Idle \in Rest
  BY <1>2 DEF Idle
<1>4. Idle \in Tx
  <2>1. 0 \in 0..MaxTime /\ Idle.upload \in Upload /\ Idle.row \in Row
    BY <1>3, ScoresAssumption, NoRowType
  <2>2. Idle.pc \in Statements \cup {"idle"}
    BY <1>3
  <2>3. Idle = [pc |-> Idle.pc, upload |-> Idle.upload, now |-> 0, inserted |-> FALSE,
                locks |-> FALSE, row |-> Idle.row]
    BY <1>3
  <2>4. ASSUME NEW p \in Statements \cup {"idle"}, NEW x \in Upload, NEW r \in Row
        PROVE  [pc |-> p, upload |-> x, now |-> 0, inserted |-> FALSE, locks |-> FALSE,
                row |-> r] \in Tx
    BY <2>1, Zenon DEF Tx
  <2> QED
    BY <2>1, <2>2, <2>3, <2>4
<1> QED
  BY <1>3, <1>4

(* The upsert leaves a row with a score, and it takes the new score        *)
(* whenever there was none or the upload insists.                          *)
LEMMA UpsertType ==
  ASSUME NEW r \in Row, NEW u \in Uploads, NEW now \in 0..MaxTime
  PROVE  /\ Upsert(r, u, now) \in Row
         /\ Upsert(r, u, now).score # NoScore
  BY ScoresAssumption DEF Upsert, Replaces, Row, Upload, NoScore

(* The invariant holds of the empty tables. *)
LEMMA InitInv == Init => IInv
<1> SUFFICES ASSUME Init PROVE IInv
  OBVIOUS
<1>1. TypeOK
  BY IdleType, NoRowType, ScoresAssumption DEF Init, TypeOK, Orders
<1>2. ASSUME NEW w \in Workers PROVE TxCurrent(w)
  BY IdleType DEF Init, TxCurrent
<1>3. ASSUME NEW v \in Workers, NEW w \in Workers PROVE Exclusive(v, w)
  BY IdleType DEF Init, Exclusive
<1>4. CategoriesComplete
  BY DEF Init, CategoriesComplete, NoRow
<1> QED
  BY <1>1, <1>2, <1>3, <1>4 DEF IInv, Init

-----------------------------------------------------------------------------
(* Only one worker w moves, and the tables do not change: the invariant is *)
(* kept if w's new transaction is current and excludes the others'.        *)
LEMMA OneMoves ==
  ASSUME IInv, NEW w \in Workers, NEW t \in Tx,
         tx' = [tx EXCEPT ![w] = t],
         UNCHANGED <<categories, rankings, clock, best, uniform>>,
         TxCurrent(w)',
         \A v \in Workers \ {w} : Exclusive(v, w)'
  PROVE  IInv'
<1>1. TypeOK'
  BY DEF IInv, TypeOK
<1>2. ASSUME NEW v \in Workers \ {w} PROVE tx'[v] = tx[v]
  BY DEF IInv, TypeOK
<1>3. ASSUME NEW v \in Workers PROVE TxCurrent(v)'
  BY <1>2 DEF IInv, TxCurrent, Category
<1>4. ASSUME NEW v \in Workers, NEW x \in Workers, v # x PROVE Exclusive(v, x)'
  <2>1. CASE v # w /\ x # w
    BY <2>1, <1>2, <1>4 DEF IInv, Exclusive, Category
  <2>2. CASE x = w
    BY <2>2, <1>4
  <2>3. CASE v = w
    <3>1. Exclusive(x, w)'
      BY <2>3, <1>4
    <3> QED
      BY <3>1, <2>3 DEF Exclusive
  <2> QED
    BY <2>1, <2>2, <2>3
<1>5. CategoriesComplete' /\ \A k \in uniform' : UniformRow(k)'
  BY DEF IInv, CategoriesComplete, UniformRow
<1> QED
  BY <1>1, <1>3, <1>4, <1>5 DEF IInv

(* The steps of a worker that only read the tables. *)
LEMMA ReadSteps ==
  ASSUME IInv, NEW w \in Workers,
         \/ \E u \in Uploads : UploadScore(w, u)
         \/ InsertCategory(w) \/ UpsertScore(w) \/ Rollback(w)
  PROVE  IInv'
<1> DEFINE t == tx[w]
<1>0. t \in Tx /\ TxCurrent(w) /\ tx \in [Workers -> Tx] /\ clock \in 0..MaxTime
  BY DEF IInv, TypeOK
<1>1. ASSUME NEW u \in Uploads, UploadScore(w, u) PROVE IInv'
  <2> DEFINE new == [pc |-> "InsertCategory", upload |-> u, now |-> clock,
                     inserted |-> FALSE, locks |-> FALSE, row |-> NoRow]
  <2>1. u \in Upload /\ NoRow \in Row
    BY ScoresAssumption, NoRowType
  <2>2. new \in Tx
    BY <1>0, <2>1, Zenon DEF Tx, Statements
  <2>3. tx' = [tx EXCEPT ![w] = new] /\ tx'[w] = new
    BY <1>1, <1>0 DEF UploadScore
  <2>4. TxCurrent(w)' /\ \A v \in Workers \ {w} : Exclusive(v, w)'
    BY <2>3 DEF TxCurrent, Exclusive
  <2> QED
    BY <1>1, <2>2, <2>3, <2>4, OneMoves DEF UploadScore
<1>2. ASSUME InsertCategory(w) PROVE IInv'
  <2> DEFINE new == [t EXCEPT !.pc = "UpsertScore",
                              !.inserted = categories[t.upload.key.category] = NoOrder]
  <2>1. new \in Tx /\ tx' = [tx EXCEPT ![w] = new] /\ tx'[w] = new
    BY <1>2, <1>0 DEF InsertCategory, Tx, Statements
  <2>2. TxCurrent(w)'
    BY <2>1, <1>0, <1>2 DEF TxCurrent, Category, InsertCategory, Tx
  <2>3. ASSUME NEW v \in Workers \ {w} PROVE Exclusive(v, w)'
    <3>1. ~tx'[w].locks /\ tx'[w].upload = tx[w].upload /\ tx'[v] = tx[v]
      BY <2>1, <1>0, <1>2 DEF TxCurrent, InsertCategory, Tx
    <3> QED
      BY <3>1, <1>2 DEF Exclusive, Category, InsertCategory, CategoryFree
  <2> QED
    BY <1>2, <2>1, <2>2, <2>3, OneMoves DEF InsertCategory
<1>3. ASSUME UpsertScore(w) PROVE IInv'
  <2> DEFINE row == Upsert(rankings[t.upload.key], t.upload, t.now)
             new == [t EXCEPT !.pc = "Commit", !.locks = TRUE, !.row = row]
  <2>1. rankings[t.upload.key] \in Row /\ t.upload \in Uploads /\ t.now \in 0..MaxTime
    BY <1>0, ScoresAssumption DEF IInv, TypeOK, TxCurrent, Tx, Upload
  <2>2. row \in Row
    BY <2>1, UpsertType
  <2>3. new \in Tx /\ tx' = [tx EXCEPT ![w] = new] /\ tx'[w] = new
    BY <1>3, <1>0, <2>2 DEF UpsertScore, Tx, Statements
  <2>4. TxCurrent(w)'
    BY <2>3, <1>0, <1>3 DEF TxCurrent, Category, UpsertScore, Tx
  <2>5. ASSUME NEW v \in Workers \ {w} PROVE Exclusive(v, w)'
    <3>1. /\ tx'[w].inserted = tx[w].inserted /\ tx'[w].upload = tx[w].upload
          /\ tx'[v] = tx[v] /\ Exclusive(v, w)
      BY <2>3, <1>0 DEF IInv, Tx
    <3> QED
      BY <3>1, <1>3 DEF Exclusive, Category, UpsertScore, RowFree
  <2> QED
    BY <1>3, <2>3, <2>4, <2>5, OneMoves DEF UpsertScore
<1>4. ASSUME Rollback(w) PROVE IInv'
  <2>1. tx' = [tx EXCEPT ![w] = Idle] /\ tx'[w] = Idle
    BY <1>4, <1>0 DEF Rollback
  <2>2. TxCurrent(w)' /\ \A v \in Workers \ {w} : Exclusive(v, w)'
    BY <2>1, IdleType DEF TxCurrent, Exclusive
  <2> QED
    BY <1>4, <2>1, <2>2, IdleType, OneMoves DEF Rollback
<1> QED
  BY <1>1, <1>2, <1>3, <1>4

(* A commit is an atomic submission: what the transaction writes is what   *)
(* the upload makes of the tables as they are at that moment.              *)
LEMMA CommitSubmits ==
  ASSUME IInv, NEW w \in Workers, Commit(w)
  PROVE  LET u == tx[w].upload IN
         /\ u \in Uploads /\ tx[w].now \in 0..MaxTime
         /\ categories' = [categories EXCEPT ![u.key.category] = IF @ = NoOrder THEN u.order_by ELSE @]
         /\ rankings' = [rankings EXCEPT ![u.key] = Upsert(@, u, tx[w].now)]
<1>1. tx[w] \in Tx /\ TxCurrent(w) /\ categories \in [Categories -> Orders]
  BY DEF IInv, TypeOK
<1>2. rankings' = [rankings EXCEPT ![tx[w].upload.key]
                     = Upsert(rankings[tx[w].upload.key], tx[w].upload, tx[w].now)]
  BY <1>1 DEF Commit, TxCurrent
<1>3. OrderAfter(tx[w]) = IF categories[Category(w)] = NoOrder THEN tx[w].upload.order_by
                                                               ELSE categories[Category(w)]
  BY <1>1 DEF Commit, TxCurrent, OrderAfter, Category
<1> QED
  BY <1>1, <1>2, <1>3 DEF Commit, TxCurrent, Category, Tx

(* Committing keeps the invariant. *)
LEMMA CommitInv ==
  ASSUME IInv, NEW w \in Workers, Commit(w)
  PROVE  IInv'
<1> DEFINE t == tx[w]
           u == tx[w].upload
           k == tx[w].upload.key
           o == OrderAfter(tx[w])
           row == Upsert(rankings[k], u, t.now)
<1>1. /\ t \in Tx /\ TxCurrent(w) /\ tx \in [Workers -> Tx] /\ t.now \in 0..MaxTime
      /\ u \in Uploads /\ u \in Upload /\ k \in Keys /\ k.category \in Categories
      /\ rankings[k] \in Row /\ rankings \in [Keys -> Row]
      /\ categories \in [Categories -> Orders] /\ best \in [Keys -> Nat \cup {NoScore}]
      /\ uniform \subseteq Keys
  <2>1. t \in Tx /\ TxCurrent(w)
    BY DEF IInv, TypeOK
  <2>2. u \in Uploads /\ u \in Upload /\ t.now \in 0..MaxTime
    BY <2>1, ScoresAssumption DEF TxCurrent, Tx
  <2>3. k \in Keys /\ k.category \in Categories
    BY <2>2 DEF Upload, Keys
  <2> QED
    BY <2>1, <2>2, <2>3 DEF IInv, TypeOK
<1>2. /\ categories' = [categories EXCEPT ![k.category] = o]
      /\ rankings' = [rankings EXCEPT ![k] = row]
      /\ best' = [best EXCEPT ![k] = NewBest(u, o)]
      /\ uniform' = NewUniform(u, o)
      /\ tx' = [tx EXCEPT ![w] = Idle]
      /\ clock' = clock
  BY <1>1 DEF Commit, TxCurrent
<1>3. o \in {0, 1} /\ (categories[k.category] # NoOrder => o = categories[k.category])
  BY <1>1 DEF Commit, TxCurrent, OrderAfter, Category, Orders, Upload, NoOrder
<1>4. row \in Row /\ row.score # NoScore
  BY <1>1, UpsertType
<1>5. TypeOK'
  <2>1. NewBest(u, o) \in Nat \cup {NoScore} /\ NewUniform(u, o) \subseteq Keys
    BY <1>1 DEF NewBest, NewUniform, Upload
  <2> QED
    BY <2>1, <1>1, <1>2, <1>3, <1>4, IdleType DEF IInv, TypeOK, Orders
<1>6. /\ tx'[w] = Idle
      /\ \A v \in Workers \ {w} : tx'[v] = tx[v]
  BY <1>1, <1>2
<1>7. ASSUME NEW v \in Workers PROVE TxCurrent(v)'
  <2>1. CASE v = w
    BY <2>1, <1>6, IdleType DEF TxCurrent
  <2>2. CASE v # w
    <3>1. TxCurrent(v) /\ Exclusive(v, w) /\ tx[v] \in Tx /\ tx'[v] = tx[v]
      BY <2>2, <1>6 DEF IInv, TypeOK
    <3>2. tx[v].upload.key \in Keys /\ Category(v) \in Categories
      BY <3>1, ScoresAssumption DEF TxCurrent, Category, Upload, Keys
    <3>3. tx[v].pc = "Commit" => rankings'[tx[v].upload.key] = rankings[tx[v].upload.key]
      BY <3>1, <3>2, <1>1, <1>2 DEF TxCurrent, Exclusive, Commit
    <3>4. tx[v].pc \in {"UpsertScore", "Commit"} =>
            (tx[v].inserted <=> categories'[Category(v)] = NoOrder)
      <4>1. CASE Category(v) = k.category
        <5>1. tx[v].inserted => ~tx[w].inserted
          BY <3>1, <4>1 DEF Exclusive, Category
        <5>2. categories'[k.category] # NoOrder
          BY <1>1, <1>2, <1>3 DEF NoOrder
        <5>3. tx[v].inserted /\ tx[v].pc \in {"UpsertScore", "Commit"} => FALSE
          BY <3>1, <4>1, <5>1, <1>1 DEF TxCurrent, Category, Commit
        <5> QED
          BY <4>1, <5>2, <5>3
      <4>2. CASE Category(v) # k.category
        BY <4>2, <3>1, <3>2, <1>1, <1>2 DEF TxCurrent
      <4> QED
        BY <4>1, <4>2
    <3> QED
      BY <3>1, <3>3, <3>4 DEF TxCurrent, Category
  <2> QED
    BY <2>1, <2>2
<1>8. ASSUME NEW v \in Workers, NEW x \in Workers, v # x PROVE Exclusive(v, x)'
  <2>1. Exclusive(v, x)
    BY <1>8 DEF IInv
  <2> QED
    BY <2>1, <1>6, IdleType DEF Exclusive, Category
<1>9. CategoriesComplete'
  <2> SUFFICES ASSUME NEW j \in Keys, rankings'[j].score # NoScore
               PROVE  categories'[j.category] # NoOrder
    BY DEF CategoriesComplete
  <2>1. j.category \in Categories
    BY DEF Keys
  <2>2. CASE j.category = k.category
    BY <2>2, <1>1, <1>2, <1>3 DEF NoOrder
  <2>3. CASE j.category # k.category
    <3>1. j # k
      BY <2>3
    <3>2. rankings'[j] = rankings[j] /\ categories'[j.category] = categories[j.category]
      BY <3>1, <2>1, <2>3, <1>1, <1>2
    <3> QED
      BY <3>2 DEF IInv, CategoriesComplete
  <2> QED
    BY <2>2, <2>3
<1>10. ASSUME NEW j \in uniform' PROVE UniformRow(j)'
  <2>1. j \in Keys /\ j.category \in Categories
    BY <1>5, <1>10 DEF TypeOK, Keys
  <2>2. CASE j # k
    <3>1. j \in uniform
      BY <2>2, <1>2, <1>10 DEF NewUniform
    <3>2. UniformRow(j) /\ categories[j.category] # NoOrder
      BY <3>1, <2>1 DEF IInv, UniformRow, CategoriesComplete
    <3>3. rankings'[j] = rankings[j] /\ best'[j] = best[j]
      BY <2>1, <2>2, <1>1, <1>2
    <3>4. categories'[j.category] = categories[j.category]
      BY <2>1, <3>2, <1>1, <1>2, <1>3
    <3> QED
      BY <3>2, <3>3, <3>4 DEF UniformRow
  <2>3. CASE j = k
    <3>1. u.order_by = o /\ (Restarts(u) \/ k \in uniform)
      BY <2>3, <1>2, <1>10 DEF NewUniform
    <3>2. rankings'[k] = row /\ categories'[k.category] = o /\ best'[k] = NewBest(u, o)
      BY <1>1, <1>2
    <3>3. CASE Restarts(u)
      <4>1. row.score = u.score /\ row.order_by = u.order_by
        BY <3>3 DEF Restarts, Upsert, Replaces
      <4>2. NewBest(u, o) = u.score
        BY <3>3 DEF NewBest
      <4> QED
        BY <2>3, <3>1, <3>2, <4>1, <4>2, <1>4 DEF UniformRow
    <3>4. CASE ~Restarts(u)
      <4>1. UniformRow(k) /\ categories[k.category] # NoOrder
        BY <3>1, <3>4, <1>1 DEF IInv, UniformRow, CategoriesComplete
      <4>2. rankings[k].order_by = o /\ rankings[k].score = best[k]
        BY <4>1, <1>3 DEF UniformRow
      <4>3. Replaces(rankings[k], u) <=> Better(o, u.score, best[k])
        BY <3>4, <4>2 DEF Replaces, Restarts
      <4>4. row.score = NewBest(u, o) /\ row.order_by = o
        BY <3>1, <3>4, <4>2, <4>3 DEF Upsert, NewBest
      <4> QED
        BY <2>3, <3>2, <4>4, <1>4 DEF UniformRow
    <3> QED
      BY <3>3, <3>4
  <2> QED
    BY <2>2, <2>3
<1> QED
  BY <1>5, <1>7, <1>8, <1>9, <1>10 DEF IInv

(* Every step keeps the invariant. *)
LEMMA NextInv == IInv /\ [Next]_vars => IInv'
<1> SUFFICES ASSUME IInv, [Next]_vars PROVE IInv'
  OBVIOUS
<1>1. ASSUME NEW w \in Workers,
             \/ \E u \in Uploads : UploadScore(w, u)
             \/ InsertCategory(w) \/ UpsertScore(w) \/ Rollback(w)
      PROVE  IInv'
  BY <1>1, ReadSteps
<1>2. ASSUME NEW w \in Workers, Commit(w) PROVE IInv'
  BY <1>2, CommitInv
<1>3. CASE Tick
  <2>1. TypeOK'
    BY <1>3, ScoresAssumption DEF IInv, TypeOK, Tick
  <2>2. /\ \A w \in Workers : TxCurrent(w)'
        /\ \A v, w \in Workers : v # w => Exclusive(v, w)'
    BY <1>3 DEF IInv, Tick, TxCurrent, Exclusive, Category
  <2> QED
    BY <1>3, <2>1, <2>2 DEF IInv, Tick, CategoriesComplete, UniformRow
<1>4. CASE Restart
  <2>1. \A w \in Workers : tx'[w] = Idle
    BY <1>4 DEF Restart
  <2>2. TypeOK'
    BY <1>4, IdleType DEF IInv, TypeOK, Restart
  <2>3. /\ \A w \in Workers : TxCurrent(w)'
        /\ \A v, w \in Workers : v # w => Exclusive(v, w)'
    BY <2>1, IdleType DEF TxCurrent, Exclusive
  <2> QED
    BY <1>4, <2>2, <2>3 DEF IInv, Restart, CategoriesComplete, UniformRow
<1>5. CASE UNCHANGED vars
  BY <1>5 DEF vars, IInv, TypeOK, TxCurrent, Exclusive, Category, CategoriesComplete, UniformRow
<1> QED
  BY <1>1, <1>2, <1>3, <1>4, <1>5 DEF Next

-----------------------------------------------------------------------------
(* The invariant holds in every reachable state. *)
THEOREM Invariance == Spec => []IInv
  BY InitInv, NextInv, PTL DEF Spec

(* Rows, orders and transactions are well formed whatever interleaves. *)
THEOREM TypeCorrect == Spec => []TypeOK
<1>1. IInv => TypeOK
  BY DEF IInv
<1> QED
  BY <1>1, Invariance, PTL

(* The row of a key whose uploads used the category's order holds the best *)
(* of them.                                                                *)
THEOREM BestScoreIsKept == Spec => []BestScoreKept
<1>1. IInv => BestScoreKept
  BY DEF IInv, UniformRow, BestScoreKept
<1> QED
  BY <1>1, Invariance, PTL

(* No score is stored in a category without an order. *)
THEOREM EveryScoreHasOrder == Spec => []CategoriesComplete
<1>1. IInv => CategoriesComplete
  BY DEF IInv
<1> QED
  BY <1>1, Invariance, PTL

(* The order of a category never changes once it is there. *)
THEOREM OrderFixed == Spec => OrderNeverChanges
<1> DEFINE Fixed == \A c \in Categories : categories[c] # NoOrder => categories'[c] = categories[c]
<1>1. IInv /\ [Next]_vars => [Fixed]_vars
  <2> SUFFICES ASSUME IInv, Next PROVE Fixed
    OBVIOUS
  <2>1. ASSUME NEW w \in Workers, Commit(w) PROVE Fixed
    BY <2>1, CommitSubmits DEF IInv, TypeOK
  <2>2. CASE UNCHANGED categories
    BY <2>2
  <2> QED
    BY <2>1, <2>2 DEF Next, Tick, Restart, UploadScore, InsertCategory, UpsertScore, Rollback
<1> QED
  BY <1>1, Invariance, PTL DEF Spec, OrderNeverChanges

(* Uploads wait for each other in one direction only.  The locks of a      *)
(* transaction tell how far it has got: the row of a new category is       *)
(* written by the first statement and the score by the second, whatever    *)
(* fails, is rolled back or is cut off.                                    *)
THEOREM WaitsGoForward == Spec => []WaitsForFurther
<1>1. IInv => WaitsForFurther
  <2> SUFFICES ASSUME IInv, NEW v \in Workers, NEW w \in Workers, WaitsFor(w, v)
               PROVE  Progress(tx[v].pc) > Progress(tx[w].pc)
    BY DEF WaitsForFurther
  <2>1. tx[v] \in Tx /\ TxCurrent(v)
    BY DEF IInv, TypeOK
  <2>2. CASE tx[w].pc = "InsertCategory" /\ tx[v].inserted
    <3>1. tx[v].pc \in {"UpsertScore", "Commit"}
      BY <2>1, <2>2 DEF TxCurrent, Tx, Statements
    <3>2. QED
      BY <2>2, <3>1 DEF Progress
  <2>3. CASE tx[w].pc = "UpsertScore" /\ tx[v].locks
    <3>1. tx[v].pc = "Commit"
      BY <2>1, <2>3 DEF TxCurrent
    <3>2. QED
      BY <2>3, <3>1 DEF Progress
  <2>4. QED
    BY <2>2, <2>3 DEF WaitsFor
<1>2. QED
  BY <1>1, Invariance, PTL

(* Of any uploads, one that has got furthest waits for none of the others. *)
LEMMA FurthestWaitsForNone ==
  ASSUME WaitsForFurther, NEW W \in SUBSET Workers, W # {}
  PROVE  \E w \in W : \A v \in W : ~WaitsFor(w, v)
<1>1. \A pc : Progress(pc) \in 0..3
  BY DEF Progress
<1>2. \A w \in W : Progress(tx[w].pc) \in 0..3
  BY <1>1
<1>3. PICK w \in W : \A v \in W : Progress(tx[v].pc) <= Progress(tx[w].pc)
  <2>1. CASE \E w \in W : Progress(tx[w].pc) = 3
    BY <1>2, <2>1
  <2>2. CASE \E w \in W : Progress(tx[w].pc) = 2 /\ \A v \in W : Progress(tx[v].pc) # 3
    BY <1>2, <2>2
  <2>3. CASE \E w \in W : /\ Progress(tx[w].pc) = 1
                          /\ \A v \in W : Progress(tx[v].pc) \notin {2, 3}
    BY <1>2, <2>3
  <2>4. CASE \A v \in W : Progress(tx[v].pc) \notin {1, 2, 3}
    BY <1>2, <2>4
  <2>5. QED
    BY <2>1, <2>2, <2>3, <2>4
<1>4. ASSUME NEW v \in W
      PROVE  ~WaitsFor(w, v)
  BY <1>2, <1>3 DEF WaitsForFurther
<1>5. QED
  BY <1>4

(* The next statement of w has to wait. *)
Blocked(w) ==
  \/ tx[w].pc = "InsertCategory" /\ ~CategoryFree(w)
  \/ tx[w].pc = "UpsertScore" /\ ~RowFree(w)

Open == {w \in Workers : tx[w].pc # "idle"}

(* As long as an upload is open, one that is open can execute its next     *)
(* statement: no number of uploads block each other, and none is blocked   *)
(* by an upload that failed.  This is what UploadsEnd rests on.            *)
THEOREM SomeUploadGoesOn == Spec => [](Open # {} => \E w \in Open : ~Blocked(w))
<1>1. WaitsForFurther => (Open # {} => \E w \in Open : ~Blocked(w))
  <2> SUFFICES ASSUME WaitsForFurther, Open # {}
               PROVE  \E w \in Open : ~Blocked(w)
    OBVIOUS
  <2>1. PICK w \in Open : \A v \in Open : ~WaitsFor(w, v)
    BY FurthestWaitsForNone DEF Open
  <2>2. ASSUME NEW v \in Workers, WaitsFor(w, v)
        PROVE  FALSE
    <3>1. tx[v].pc = "idle"
      BY <2>1, <2>2 DEF Open
    <3>2. Progress("idle") > Progress(tx[w].pc)
      BY <2>1, <2>2, <3>1 DEF WaitsForFurther, Open
    <3>3. QED
      BY <3>2 DEF Progress
  <2>3. ~Blocked(w)
    BY <2>2 DEF Blocked, WaitsFor, CategoryFree, RowFree
  <2>4. QED
    BY <2>1, <2>3
<1>2. QED
  BY <1>1, WaitsGoForward, PTL

(* The transactions implement atomic uploads: the two tables go through    *)
(* the states of Leaderboard.                                              *)
THEOREM UploadsAreAtomic == Spec => ImplementsLeaderboard
<1>1. Init => Atomic!Init
  BY DEF Init, Atomic!Init, Atomic!Keys, Keys, Atomic!NoOrder, NoOrder, Atomic!NoRow, NoRow,
         Atomic!NoScore, NoScore
<1>2. IInv /\ [Next]_vars => [Atomic!Next]_<<categories, rankings>>
  <2> SUFFICES ASSUME IInv, [Next]_vars
               PROVE  Atomic!Next \/ UNCHANGED <<categories, rankings>>
    OBVIOUS
  <2>1. ASSUME NEW w \in Workers, Commit(w) PROVE Atomic!Next
    <3>1. tx[w].upload \in Uploads /\ tx[w].now \in 0..MaxTime
      BY <2>1, CommitSubmits
    <3>2. \A r, u, now : Atomic!Upsert(r, u, now) = Upsert(r, u, now)
      BY DEF Atomic!Upsert, Upsert, Atomic!Replaces, Replaces, Atomic!Better, Better,
             Atomic!NoScore, NoScore
    <3>3. Atomic!NoOrder = NoOrder
      BY DEF Atomic!NoOrder, NoOrder
    <3>4. Atomic!Submit(tx[w].upload, tx[w].now)
      BY <2>1, <3>2, <3>3, CommitSubmits DEF Atomic!Submit
    <3> QED
      BY <3>1, <3>4 DEF Atomic!Next
  <2> QED
    BY <2>1 DEF Next, Tick, Restart, UploadScore, InsertCategory, UpsertScore, Rollback, vars
<1> QED
  BY <1>1, <1>2, Invariance, PTL DEF Spec, ImplementsLeaderboard, Atomic!Spec
=============================================================================
