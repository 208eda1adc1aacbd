--------------------------- MODULE DataStoreProofs ---------------------------
(***************************************************************************)
(* What the handlers of the DataStore protocol promise although they run   *)
(* without a lock, for any number of players, requests and objects.  The   *)
(* argument rests on what no step takes back: a row keeps its size, owner  *)
(* and permissions, a published object stays published and a withdrawn one *)
(* withdrawn, and an upload of the right size has happened for ever.  So   *)
(* whatever a request has found out stays true until it acts on it, except *)
(* the size of the upload, which the model remembers in matched.           *)
(***************************************************************************)
EXTENDS DataStoreReads, ArraysProofs

(* The object a request has in hand, the one of Worker w being This(w). *)
InHand(r) == r.ids[r.i]

Published(d) == Exists(d) /\ objects[d].upload_completed

Withdrawn(d) == Exists(d) /\ objects[d].deleted

(* What a request has found out when it comes to the call it makes next.   *)
RequestInv(r) ==
  /\ r \in Worker
  /\ r.pc \in Calls => r.i \in 1..Len(r.ids)
  /\ r.pc \in {"GetObjectInfo", "GetObjectOwner", "Delete"} => Len(r.ids) = 1
  /\ r.pc \in {"StatObject", "UpdateCompleted"} =>
       r.isSuccess /\ \A j \in 1..(r.i - 1) : Published(r.ids[j])
  /\ r.pc = "UpdateCompleted" =>
       /\ Exists(InHand(r))
       /\ r.stat = objects[InHand(r)].size => InHand(r) \in matched
  /\ r.pc = "Delete" =>
       Exists(InHand(r)) /\ ~r.isSuccess /\ objects[InHand(r)].owner = r.caller
  /\ r.pc = "Change" =>
       /\ Exists(InHand(r)) /\ r.modifies # {}
       /\ Allowed(objects[InHand(r)].owner, r.caller, objects[InHand(r)].delete_permission)
  /\ r.pc = "ok" =>
       \A i \in DOMAIN r.ids : IF r.isSuccess THEN Published(r.ids[i]) ELSE Withdrawn(r.ids[i])

(* What is in the bucket belongs to a row, and counts as an upload of the  *)
(* right size if it has that size.                                         *)
BucketInv ==
  /\ bucket \in [DataIDs -> Sizes \cup {NoSize}]
  /\ urls \subseteq DOMAIN objects
  /\ matched \subseteq DataIDs
  /\ \A d \in DataIDs : bucket[d] # NoSize =>
       Exists(d) /\ (bucket[d] = objects[d].size => d \in matched)
  /\ \A d \in matched : bucket[d] # NoSize

RowsInv ==
  /\ objects \in Seq(Object) /\ Len(objects) <= MaxObjects
  /\ recent \in Seq(DataIDs)
  /\ PublishedHadItsSize

WorkersInv ==
  /\ worker \in [Workers -> Worker]
  /\ \A w \in Workers : RequestInv(worker[w])

IInv == RowsInv /\ BucketInv /\ WorkersInv

(* What no step takes back. *)
RowsKept ==
  /\ \A d \in DOMAIN objects :
       /\ d \in DOMAIN objects'
       /\ objects'[d].size = objects[d].size /\ objects'[d].owner = objects[d].owner
       /\ objects'[d].delete_permission = objects[d].delete_permission
       /\ objects[d].upload_completed => objects'[d].upload_completed
       /\ objects[d].deleted => objects'[d].deleted
  /\ matched \subseteq matched'

-----------------------------------------------------------------------------
(* The rows there are have data IDs. *)
LEMMA RowIDs ==
  ASSUME RowsInv
  PROVE  /\ DOMAIN objects = 1..Len(objects) /\ Len(objects) \in Nat
         /\ DOMAIN objects \subseteq DataIDs
         /\ \A d \in DOMAIN objects : objects[d] \in Object /\ objects[d].size \in Sizes
<1>1. \A o \in Object : o.size \in Sizes
  BY DEF Object
<1>2. objects \in Seq(Object) /\ Len(objects) <= MaxObjects /\ MaxObjects \in Nat
  BY DataStoreAssumption DEF RowsInv
<1>3. DOMAIN objects = 1..Len(objects) /\ Len(objects) \in Nat
  BY <1>2
<1>4. \A d \in DOMAIN objects : objects[d] \in Object
  BY <1>2
<1> QED
  BY <1>1, <1>2, <1>3, <1>4 DEF DataIDs

(* What a request has found out stays true as long as no row takes         *)
(* anything back.                                                          *)
LEMMA RequestKept ==
  ASSUME RowsKept, NEW r, RequestInv(r)
  PROVE  RequestInv(r)'
<1>1. \A d : Exists(d) => Exists(d)'
  BY DEF RowsKept, Exists
<1>2. \A d : /\ Published(d) => Published(d)'
             /\ Withdrawn(d) => Withdrawn(d)'
  BY DEF RowsKept, Exists, Published, Withdrawn
<1>3. \A d : Exists(d) => /\ objects'[d].size = objects[d].size
                          /\ objects'[d].owner = objects[d].owner
                          /\ objects'[d].delete_permission = objects[d].delete_permission
  BY DEF RowsKept, Exists
<1>4. matched \subseteq matched'
  BY DEF RowsKept
<1> QED
  BY <1>1, <1>2, <1>3, <1>4 DEF RequestInv, InHand

(* Steps that leave the workers alone keep what they have found out. *)
LEMMA SameWorkers ==
  ASSUME WorkersInv, RowsKept, worker' = worker
  PROVE  WorkersInv'
<1>1. \A r : RequestInv(r) => RequestInv(r)'
  BY RequestKept
<1> QED
  BY <1>1 DEF WorkersInv, RequestInv

(* In a step of worker w only its own request has to be looked at. *)
LEMMA OneWorker ==
  ASSUME WorkersInv, RowsKept, NEW w \in Workers, NEW r, worker' = [worker EXCEPT ![w] = r],
         RequestInv(r)'
  PROVE  WorkersInv'
<1>1. \A q : RequestInv(q) => RequestInv(q)'
  BY RequestKept
<1>2. r \in Worker
  BY DEF RequestInv
<1>3. worker' \in [Workers -> Worker]
  BY <1>2 DEF WorkersInv
<1>4. ASSUME NEW v \in Workers PROVE RequestInv(worker[v])'
  <2>1. CASE v = w
    <3>1. worker'[v] = r
      BY <2>1 DEF WorkersInv
    <3> QED
      BY <3>1 DEF RequestInv
  <2>2. CASE v # w
    <3>1. worker'[v] = worker[v] /\ RequestInv(worker[v])
      BY <2>2 DEF WorkersInv
    <3>2. RequestInv(worker[v])'
      BY <3>1, <1>1
    <3> QED
      BY <3>1, <3>2 DEF RequestInv
  <2> QED
    BY <2>1, <2>2
<1> QED
  BY <1>3, <1>4 DEF WorkersInv

(* Where nothing changes but the workers, only the request of the worker   *)
(* has to be looked at.                                                    *)
LEMMA WorkerStep ==
  ASSUME IInv, NEW w \in Workers, NEW r, worker' = [worker EXCEPT ![w] = r],
         UNCHANGED <<objects, recent, bucket, urls, matched>>, RequestInv(r)'
  PROVE  IInv'
<1>1. RowsKept
  BY DEF RowsKept
<1>2. RowsInv' /\ BucketInv'
  BY DEF IInv, RowsInv, BucketInv, PublishedHadItsSize, Exists
<1> QED
  BY <1>1, <1>2, OneWorker DEF IInv

(* A row that is replaced by one that takes nothing back. *)
LEMMA RowReplaced ==
  ASSUME RowsInv, BucketInv, NEW d \in DOMAIN objects, NEW o \in Object,
         objects' = [objects EXCEPT ![d] = o],
         o.size = objects[d].size, o.owner = objects[d].owner,
         o.delete_permission = objects[d].delete_permission,
         objects[d].upload_completed => o.upload_completed, objects[d].deleted => o.deleted,
         o.upload_completed => objects[d].upload_completed \/ d \in matched,
         recent' \in Seq(DataIDs), UNCHANGED <<bucket, urls, matched>>
  PROVE  RowsKept /\ RowsInv' /\ BucketInv'
<1>1. objects \in Seq(Object) /\ Len(objects) <= MaxObjects
  BY DEF RowsInv
<1>2. /\ objects' \in Seq(Object) /\ Len(objects') = Len(objects)
      /\ DOMAIN objects' = DOMAIN objects
      /\ objects'[d] = o /\ \A e \in DOMAIN objects : e # d => objects'[e] = objects[e]
  BY <1>1
<1>3. RowsKept
  BY <1>2 DEF RowsKept
<1>4. PublishedHadItsSize'
  BY <1>2 DEF RowsInv, PublishedHadItsSize
<1>5. RowsInv'
  BY <1>1, <1>2, <1>4 DEF RowsInv
<1>6. \A e \in DOMAIN objects : objects'[e].size = objects[e].size
  BY <1>2
<1>7. BucketInv'
  BY <1>2, <1>6 DEF BucketInv, Exists
<1> QED
  BY <1>3, <1>5, <1>7

(* An UPDATE puts its row somewhere among the others. *)
LEMMA TouchType ==
  ASSUME RowsInv, NEW d \in DataIDs, Touch(d)
  PROVE  recent' \in Seq(DataIDs)
<1>1. ArrayRemove(recent, d) \in Seq(DataIDs)
  BY ArrayRemoveType DEF RowsInv
<1> QED
  BY <1>1 DEF Touch

-----------------------------------------------------------------------------
(* Posting and uploading *)

(* A new row is not published, and nothing is in the bucket for it. *)
LEMMA InsertInv ==
  ASSUME IInv, NEW p \in Players, NEW post \in Posts, InsertObject(NewObject(p, post)),
         urls' \subseteq urls \cup {Len(objects) + 1}, UNCHANGED <<bucket, worker, matched>>
  PROVE  IInv'
<1>1. PICK o : o = NewObject(p, post)
  OBVIOUS
<1>2. o \in Object /\ ~o.upload_completed
  BY <1>1, DataStoreAssumption DEF NewObject, Post, Object
<1>3. /\ objects \in Seq(Object) /\ Len(objects) < MaxObjects /\ MaxObjects \in Nat
      /\ objects' = Append(objects, o)
  BY <1>1, DataStoreAssumption DEF IInv, RowsInv, InsertObject
<1>4. /\ objects' \in Seq(Object) /\ Len(objects') <= MaxObjects
      /\ DOMAIN objects' = DOMAIN objects \cup {Len(objects) + 1}
      /\ objects'[Len(objects) + 1] = o
      /\ \A d \in DOMAIN objects : objects'[d] = objects[d]
  BY <1>2, <1>3
<1>5. RowsKept
  BY <1>4 DEF RowsKept
<1>6. recent' \in Seq(DataIDs)
  <2>1. Len(objects) + 1 \in DataIDs
    BY <1>3 DEF DataIDs
  <2> QED
    BY <2>1, TouchType DEF InsertObject, IInv
<1>7. RowsInv'
  BY <1>2, <1>4, <1>6 DEF IInv, RowsInv, PublishedHadItsSize
<1>8. BucketInv'
  BY <1>4 DEF IInv, BucketInv, Exists
<1> QED
  BY <1>5, <1>7, <1>8, SameWorkers DEF IInv

(* What is uploaded counts if it has the size of the row. *)
LEMMA UploadInv ==
  ASSUME IInv, NEW d \in DataIDs, NEW size \in Sizes, Upload(d, size)
  PROVE  IInv'
<1>1. d \in DOMAIN objects /\ size # NoSize
  BY DataStoreAssumption DEF IInv, BucketInv, Upload, NoSize
<1>2. RowsKept
  BY DEF Upload, RowsKept
<1>3. RowsInv'
  BY DEF Upload, IInv, RowsInv, PublishedHadItsSize
<1>4. bucket' = [bucket EXCEPT ![d] = size] /\ matched' \subseteq matched \cup {d} /\ matched \subseteq matched'
      /\ (size = objects[d].size => d \in matched') /\ objects' = objects /\ urls' = urls
  BY DEF Upload
<1>5. BucketInv'
  BY <1>1, <1>4 DEF IInv, BucketInv, Exists
<1> QED
  BY <1>2, <1>3, <1>5, SameWorkers DEF IInv, Upload

(* A presigned URL that expires takes nothing from the tables or the bucket. *)
LEMMA ExpireInv ==
  ASSUME IInv, NEW d \in DataIDs, Expire(d)
  PROVE  IInv'
<1>1. RowsKept
  BY DEF Expire, RowsKept
<1>2. RowsInv' /\ BucketInv'
  BY DEF Expire, IInv, RowsInv, BucketInv, PublishedHadItsSize, Exists
<1> QED
  BY <1>1, <1>2, SameWorkers DEF IInv, Expire

-----------------------------------------------------------------------------
(* Requests *)

(* An idle worker knows nothing. *)
LEMMA IdleType == Idle \in Worker /\ Idle.pc = "idle"
<1> DEFINE R == [pc : {"idle"}, op : Ops, caller : Players, ids : {<<>>}, i : {1},
                 stat : {NoSize}, isSuccess : {FALSE}, modifies : {{}}, value : Values]
<1>1. PICK p \in Players, v \in Values : TRUE
  BY DataStoreAssumption
<1>2. [pc |-> "idle", op |-> "ChangeMeta", caller |-> p, ids |-> <<>>, i |-> 1,
       stat |-> NoSize, isSuccess |-> FALSE, modifies |-> {}, value |-> v] \in R
  BY DEF Ops
<1>3. Idle \in R
  BY <1>2 DEF Idle
<1> HIDE DEF R
<1>4. <<>> \in Seq(DataIDs) /\ 1 \in Nat
  OBVIOUS
<1> QED
  BY <1>3, <1>4 DEF R, Worker, Calls, Ends

(* A worker without a request promises nothing. *)
LEMMA IdleInv == RequestInv(Idle) /\ RequestInv(Idle)'
  BY IdleType DEF RequestInv, Calls

(* The fields of a request. *)
LEMMA RequestType ==
  ASSUME NEW r \in Worker
  PROVE  /\ r.pc \in Calls \cup Ends /\ r.caller \in Players /\ r.ids \in Seq(DataIDs) /\ r.i \in Nat
         /\ r.stat \in Sizes \cup {NoSize} /\ r.isSuccess \in BOOLEAN
         /\ r.modifies \in SUBSET ColumnNames /\ r.value \in Values
  BY Zenon DEF Worker

PCs == Calls \cup Ends

(* The set of requests, with its program counters under one name. *)
LEMMA WorkerSet ==
  Worker = [pc : PCs, op : Ops, caller : Players, ids : Seq(DataIDs), i : Nat,
            stat : Sizes \cup {NoSize}, isSuccess : BOOLEAN, modifies : SUBSET ColumnNames,
            value : Values]
  BY DEF Worker, PCs

(* A request that goes on changes nothing but its program counter. *)
LEMMA AtType ==
  ASSUME NEW r \in Worker, NEW pc \in Calls \cup Ends, pc # "idle"
  PROVE  /\ At(r, pc) \in Worker /\ At(r, pc).pc = pc /\ At(r, pc).caller = r.caller
         /\ At(r, pc).ids = r.ids /\ At(r, pc).i = r.i /\ At(r, pc).isSuccess = r.isSuccess
         /\ At(r, pc).modifies = r.modifies /\ At(r, pc).stat = r.stat
         /\ At(r, pc).value = r.value
<1>1. At(r, pc) = [r EXCEPT !.pc = pc] /\ pc \in PCs
  BY DEF At, PCs
<1> QED
  BY <1>1, WorkerSet

(* A request that starts knows nothing of its object yet. *)
LEMMA StartInv ==
  ASSUME IInv, NEW w \in Workers, NEW op \in Ops, NEW pc \in Calls \cup Ends, NEW p \in Players,
         NEW ids \in Seq(DataIDs), NEW isSuccess \in BOOLEAN, NEW modifies \in SUBSET ColumnNames,
         NEW value \in Values, Start(w, op, pc, p, ids, isSuccess, modifies, value),
         \/ pc = "GetObjectInfo" /\ Len(ids) = 1
         \/ pc = "StatObject" /\ ids # <<>> /\ isSuccess
         \/ pc = "ok" /\ ids = <<>>
  PROVE  IInv'
<1>1. PICK r : r = [pc |-> pc, op |-> op, caller |-> p, ids |-> ids, i |-> 1, stat |-> NoSize,
                    isSuccess |-> isSuccess, modifies |-> modifies, value |-> value]
  OBVIOUS
<1>2. r \in Worker
  BY <1>1 DEF Worker
<1>3. /\ r.pc = pc /\ r.ids = ids /\ r.i = 1 /\ r.isSuccess = isSuccess
  BY <1>1
<1>6. /\ ids # <<>> => 1 \in 1..Len(ids)
      /\ ids = <<>> => DOMAIN ids = {}
      /\ Len(ids) = 1 => 1 \in 1..Len(ids)
      /\ 1..(1 - 1) = {}
  <2>1. Len(ids) \in Nat /\ (ids # <<>> => Len(ids) # 0)
    OBVIOUS
  <2>2. ids = <<>> => DOMAIN ids = {}
    OBVIOUS
  <2>3. 1..(1 - 1) = {}
    OBVIOUS
  <2>4. PICK n \in Nat : n = Len(ids)
    BY <2>1
  <2>5. (n # 0 => 1 \in 1..n) /\ (n = 1 => 1 \in 1..n)
    OBVIOUS
  <2> QED
    BY <2>1, <2>2, <2>3, <2>4, <2>5, Zenon
<1>4. RequestInv(r)'
  BY <1>2, <1>3, <1>6 DEF RequestInv, Calls
<1>5. worker' = [worker EXCEPT ![w] = r] /\ UNCHANGED <<objects, recent, bucket, urls, matched>>
  BY <1>1 DEF Start
<1> QED
  BY <1>4, <1>5, WorkerStep

(* The handlers that take up a request start it with nothing checked yet. *)
LEMMA StartsInv ==
  ASSUME IInv, NEW w \in Workers, NEW p \in Players,
         \/ \E d \in DataIDs, isSuccess \in BOOLEAN : CompletePostObject(w, p, d, isSuccess)
         \/ \E ids \in Batches : CompletePostObjects(w, p, ids)
         \/ \E d \in DataIDs, m \in Modifications, v \in Values : ChangeMeta(w, p, d, m, v)
  PROVE  IInv'
<1>1. worker[w].value \in Values
  BY RequestType DEF IInv, WorkersInv
<1>2. /\ {"CompletePostObject", "CompletePostObjects", "ChangeMeta"} \subseteq Ops
      /\ {"GetObjectInfo", "StatObject", "ok"} \subseteq Calls \cup Ends
  BY DEF Ops, Calls, Ends
<1>3. \A d \in DataIDs : <<d>> \in Seq(DataIDs) /\ Len(<<d>>) = 1
  OBVIOUS
<1>4. ASSUME NEW d \in DataIDs, NEW isSuccess \in BOOLEAN, CompletePostObject(w, p, d, isSuccess)
      PROVE  IInv'
  BY <1>1, <1>2, <1>3, <1>4, StartInv DEF CompletePostObject
<1>5. ASSUME NEW ids \in Batches, CompletePostObjects(w, p, ids)
      PROVE  IInv'
  <2>1. ids \in Seq(DataIDs)
    BY DataStoreAssumption
  <2>2. CASE ids = <<>>
    <3>1. Start(w, "CompletePostObjects", "ok", p, ids, TRUE, {}, worker[w].value)
      BY <1>5, <2>2 DEF CompletePostObjects
    <3> QED
      BY <1>1, <1>2, <2>1, <2>2, <3>1, StartInv
  <2>3. CASE ids # <<>>
    <3>1. Start(w, "CompletePostObjects", "StatObject", p, ids, TRUE, {}, worker[w].value)
      BY <1>5, <2>3 DEF CompletePostObjects
    <3> QED
      BY <1>1, <1>2, <2>1, <2>3, <3>1, StartInv
  <2> QED
    BY <2>2, <2>3
<1>6. ASSUME NEW d \in DataIDs, NEW m \in Modifications, NEW v \in Values, ChangeMeta(w, p, d, m, v)
      PROVE  IInv'
  <2>1. m \in SUBSET ColumnNames
    BY DataStoreAssumption
  <2> QED
    BY <1>2, <1>3, <1>6, <2>1, StartInv DEF ChangeMeta
<1> QED
  BY <1>4, <1>5, <1>6

(* A request goes on with a call whose promise it already fulfils. *)
LEMMA GotoInv ==
  ASSUME IInv, NEW w \in Workers, NEW pc \in Calls \cup Ends, Goto(w, pc),
         pc = "idle" \/ RequestInv(At(worker[w], pc))
  PROVE  IInv'
<1>1. PICK r : r = At(worker[w], pc)
  OBVIOUS
<1>2. worker' = [worker EXCEPT ![w] = r] /\ UNCHANGED <<objects, recent, bucket, urls, matched>>
  BY <1>1 DEF Goto
<1>3. RequestInv(r)
  BY <1>1, IdleInv DEF At
<1>4. RequestInv(r)'
  BY <1>2, <1>3 DEF RequestInv, Exists, Published, Withdrawn
<1> QED
  BY <1>2, <1>4, WorkerStep

(* A call that fails ends the request, or moves it to the next check. *)
LEMMA CallFailsInv ==
  ASSUME IInv, NEW w \in Workers, CallFails(w)
  PROVE  IInv'
<1>1. worker[w] \in Worker /\ RequestInv(worker[w]) /\ worker[w].pc \in Calls
  BY DEF IInv, WorkersInv, CallFails
<1>2. CASE Goto(w, "idle")
  BY <1>2, GotoInv DEF Ends
<1>3. CASE Goto(w, "GetObjectOwner") /\ worker[w].pc = "GetObjectInfo"
  <2>1. "GetObjectOwner" \in Calls \cup Ends
    BY DEF Calls
  <2>2. RequestInv(At(worker[w], "GetObjectOwner"))
    BY <1>1, <1>3, <2>1, AtType DEF RequestInv, InHand
  <2> QED
    BY <1>3, <2>1, <2>2, GotoInv
<1> QED
  BY <1>2, <1>3 DEF CallFails

(* What GetObjectInfoByDataID finds is still so when the request goes on. *)
LEMMA GetObjectInfoInv ==
  ASSUME IInv, NEW w \in Workers, GetObjectInfo(w)
  PROVE  IInv'
<1>1. /\ worker[w] \in Worker /\ RequestInv(worker[w]) /\ worker[w].pc = "GetObjectInfo"
      /\ InHand(worker[w]) = This(w) /\ worker[w].pc \in Calls
  BY DEF IInv, WorkersInv, GetObjectInfo, InHand, This, Calls
<1>2. {"idle", "uploaded", "GetObjectOwner", "Change"} \subseteq Calls \cup Ends
  BY DEF Calls, Ends
<1>3. CASE Goto(w, "idle")
  BY <1>2, <1>3, GotoInv
<1>4. CASE Goto(w, "uploaded")
  <2>1. At(worker[w], "uploaded") \in Worker /\ At(worker[w], "uploaded").pc = "uploaded"
    BY <1>1, <1>2, AtType
  <2>2. RequestInv(At(worker[w], "uploaded"))
    BY <2>1 DEF RequestInv, Calls
  <2> QED
    BY <1>2, <1>4, <2>2, GotoInv
<1>5. CASE Goto(w, "GetObjectOwner")
  <2>1. RequestInv(At(worker[w], "GetObjectOwner"))
    BY <1>1, <1>2, AtType DEF RequestInv, InHand
  <2> QED
    BY <1>2, <1>5, <2>1, GotoInv
<1>6. CASE /\ Goto(w, "Change") /\ Exists(This(w)) /\ ChangeAllowed(w)
           /\ worker[w].modifies # {}
  <2>1. /\ At(worker[w], "Change") \in Worker /\ At(worker[w], "Change").pc = "Change"
        /\ At(worker[w], "Change").modifies # {}
        /\ At(worker[w], "Change").caller = worker[w].caller
        /\ At(worker[w], "Change").i = worker[w].i /\ At(worker[w], "Change").ids = worker[w].ids
    BY <1>1, <1>2, <1>6, AtType
  <2>2. RequestInv(At(worker[w], "Change"))
    BY <1>1, <1>6, <2>1 DEF RequestInv, InHand, ChangeAllowed
  <2> QED
    BY <1>2, <1>6, <2>2, GotoInv
<1> QED
  BY <1>3, <1>4, <1>5, <1>6 DEF GetObjectInfo, AfterChange, Found

(* Only the owner gets past this call. *)
LEMMA GetObjectOwnerInv ==
  ASSUME IInv, NEW w \in Workers, GetObjectOwner(w)
  PROVE  IInv'
<1>1. /\ worker[w] \in Worker /\ RequestInv(worker[w]) /\ worker[w].pc = "GetObjectOwner"
      /\ InHand(worker[w]) = This(w) /\ worker[w].pc \in Calls
  BY DEF IInv, WorkersInv, GetObjectOwner, InHand, This, Calls
<1>2. {"idle", "StatObject", "Delete"} \subseteq Calls \cup Ends
  BY DEF Calls, Ends
<1>3. CASE Goto(w, "idle")
  BY <1>2, <1>3, GotoInv
<1>4. CASE Goto(w, "StatObject") /\ worker[w].isSuccess
  <2>1. 1..(worker[w].i - 1) = {}
    <3>1. worker[w].i \in 1..Len(worker[w].ids) /\ Len(worker[w].ids) = 1
      BY <1>1 DEF RequestInv
    <3> QED
      BY <3>1
  <2>2. PICK r : r = At(worker[w], "StatObject")
    OBVIOUS
  <2>3. /\ r \in Worker /\ r.pc = "StatObject" /\ r.isSuccess
        /\ r.i = worker[w].i /\ r.ids = worker[w].ids
    BY <1>1, <1>2, <1>4, <2>2, AtType
  <2>4. r.i \in 1..Len(r.ids)
    BY <1>1, <2>3 DEF RequestInv
  <2>5. RequestInv(r)
    BY <2>1, <2>3, <2>4 DEF RequestInv
  <2> QED
    BY <1>2, <1>4, <2>2, <2>5, GotoInv
<1>5. CASE /\ Goto(w, "Delete") /\ ~worker[w].isSuccess
           /\ Exists(This(w)) /\ objects[This(w)].owner = worker[w].caller
  <2>1. RequestInv(At(worker[w], "Delete"))
    BY <1>1, <1>2, <1>5, AtType DEF RequestInv, InHand
  <2> QED
    BY <1>2, <1>5, <2>1, GotoInv
<1> QED
  BY <1>3, <1>4, <1>5 DEF GetObjectOwner, AfterOwner

(* The object that a request has in hand has a data ID. *)
LEMMA InHandType ==
  ASSUME NEW r, RequestInv(r), r.pc \in Calls
  PROVE  InHand(r) \in DataIDs /\ r.ids \in Seq(DataIDs) /\ r.i \in 1..Len(r.ids)
<1>1. r.ids \in Seq(DataIDs) /\ r.i \in 1..Len(r.ids)
  BY RequestType DEF RequestInv
<1> QED
  BY <1>1 DEF InHand

(* The size S3 gives is that of an upload. *)
LEMMA StatObjectInv ==
  ASSUME IInv, NEW w \in Workers, StatObject(w)
  PROVE  IInv'
<1>1. /\ worker[w] \in Worker /\ RequestInv(worker[w]) /\ worker[w].pc = "StatObject"
      /\ InHand(worker[w]) = This(w) /\ worker[w].pc \in Calls
  BY DEF IInv, WorkersInv, StatObject, InHand, This, Calls
<1>2. UNCHANGED <<objects, recent, bucket, urls, matched>>
  BY DEF StatObject
<1>3. CASE bucket[This(w)] = NoSize
  <2>1. PICK r : r = Idle
    OBVIOUS
  <2>2. worker' = [worker EXCEPT ![w] = r] /\ RequestInv(r)'
    BY <1>3, <2>1, IdleInv DEF StatObject
  <2> QED
    BY <1>2, <2>2, WorkerStep
<1>4. CASE bucket[This(w)] # NoSize
  <2>1. This(w) \in DataIDs /\ worker[w].i \in 1..Len(worker[w].ids)
    BY <1>1, InHandType
  <2>2. PICK size : size = bucket[This(w)]
    OBVIOUS
  <2>3. /\ size \in Sizes \cup {NoSize} /\ Exists(This(w))
        /\ size = objects[This(w)].size => This(w) \in matched
    BY <1>4, <2>1, <2>2 DEF IInv, BucketInv
  <2>4. PICK r : r = [worker[w] EXCEPT !.stat = size, !.pc = "UpdateCompleted"]
    OBVIOUS
  <2>5. "UpdateCompleted" \in PCs
    BY DEF PCs, Calls
  <2>6. /\ r \in Worker /\ r.pc = "UpdateCompleted" /\ r.stat = size
        /\ r.ids = worker[w].ids /\ r.i = worker[w].i /\ r.isSuccess = worker[w].isSuccess
    BY <1>1, <2>3, <2>4, <2>5, WorkerSet
  <2>7. InHand(r) = This(w)
    BY <2>6 DEF InHand, This
  <2>8. RequestInv(r)
    BY <1>1, <2>1, <2>3, <2>6, <2>7 DEF RequestInv
  <2>9. RequestInv(r)'
    BY <1>2, <2>8 DEF RequestInv, Exists, Published, Withdrawn
  <2>10. worker' = [worker EXCEPT ![w] = r]
    BY <1>4, <2>2, <2>4 DEF StatObject
  <2> QED
    BY <1>2, <2>9, <2>10, WorkerStep
<1> QED
  BY <1>3, <1>4

(* A batch goes on to its next object when the one in hand is published.   *)
LEMMA NextObjectInv ==
  ASSUME NEW q, RequestInv(q), RowsKept, q.pc = "UpdateCompleted", Published(InHand(q))',
         NEW r, r = NextObject(q)
  PROVE  RequestInv(r)'
<1>1. /\ q \in Worker /\ q.ids \in Seq(DataIDs) /\ q.i \in 1..Len(q.ids) /\ q.isSuccess
      /\ \A j \in 1..(q.i - 1) : Published(q.ids[j])
  BY InHandType DEF RequestInv, Calls
<1>2. DOMAIN q.ids = 1..Len(q.ids) /\ Len(q.ids) \in Nat
  BY <1>1
<1>3. \A d : Published(d) => Published(d)'
  BY DEF RowsKept, Published, Exists
<1>4. \A j \in 1..q.i : Published(q.ids[j])'
  <2> TAKE j \in 1..q.i
  <2>1. CASE j = q.i
    BY <2>1 DEF InHand, Published, Exists
  <2>2. CASE j # q.i
    <3>1. j \in 1..(q.i - 1)
      BY <1>1, <2>2
    <3> QED
      BY <1>1, <1>3, <3>1
  <2> QED
    BY <2>1, <2>2
<1>5. "ok" \in PCs /\ "StatObject" \in PCs
  BY DEF PCs, Calls, Ends
<1>6. CASE q.i = Len(q.ids)
  <2>1. r = [q EXCEPT !.pc = "ok"]
    BY <1>6 DEF NextObject
  <2>2. r \in Worker /\ r.pc = "ok" /\ r.ids = q.ids /\ r.isSuccess = q.isSuccess
    BY <1>1, <1>5, <2>1, WorkerSet
  <2> QED
    BY <1>1, <1>2, <1>4, <1>6, <2>2 DEF RequestInv, Calls
<1>7. CASE q.i # Len(q.ids)
  <2>1. r = [q EXCEPT !.pc = "StatObject", !.i = q.i + 1]
    BY <1>7 DEF NextObject
  <2>2. q.i + 1 \in Nat /\ q.i + 1 \in 1..Len(q.ids) /\ (q.i + 1) - 1 = q.i
    BY <1>1, <1>2, <1>7
  <2>3. /\ r \in Worker /\ r.pc = "StatObject" /\ r.ids = q.ids /\ r.isSuccess = q.isSuccess
        /\ r.i = q.i + 1
    BY <1>1, <1>5, <2>1, <2>2, WorkerSet
  <2>4. r.i - 1 = q.i /\ r.i \in 1..Len(r.ids)
    BY <2>2, <2>3
  <2> QED
    BY <1>1, <1>4, <2>3, <2>4 DEF RequestInv
<1> QED
  BY <1>6, <1>7

(* A row is published only after the size S3 gave was that of the row. *)
LEMMA UpdateCompletedInv ==
  ASSUME IInv, NEW w \in Workers, UpdateCompleted(w)
  PROVE  IInv'
<1>1. PICK q : q = worker[w]
  OBVIOUS
<1>2. /\ q \in Worker /\ RequestInv(q) /\ q.pc = "UpdateCompleted" /\ q.pc \in Calls
      /\ InHand(q) = This(w) /\ Exists(InHand(q))
      /\ q.stat = objects[InHand(q)].size => InHand(q) \in matched
  BY <1>1 DEF IInv, WorkersInv, UpdateCompleted, RequestInv, InHand, This, Calls
<1>3. CASE Exists(This(w)) /\ SizesAgree(w)
  <2>1. PICK d \in DOMAIN objects : d = InHand(q)
    BY <1>2 DEF Exists
  <2>2. d \in matched /\ objects \in Seq(Object) /\ objects[d] \in Object
    BY <1>1, <1>2, <1>3, <2>1, RowIDs DEF SizesAgree, IInv, RowsInv
  <2>3. PICK o : o = [objects[d] EXCEPT !.upload_completed = TRUE]
    OBVIOUS
  <2>4. /\ o \in Object /\ o.upload_completed /\ o.size = objects[d].size
        /\ o.owner = objects[d].owner /\ o.delete_permission = objects[d].delete_permission
        /\ o.deleted = objects[d].deleted
    BY <2>2, <2>3 DEF Object
  <2>5. PICK r : r = NextObject(q)
    OBVIOUS
  <2>6. /\ objects' = [objects EXCEPT ![d] = o] /\ worker' = [worker EXCEPT ![w] = r]
        /\ UNCHANGED <<recent, bucket, urls, matched>>
    BY <1>1, <1>2, <1>3, <2>1, <2>3, <2>5 DEF UpdateCompleted
  <2>7. recent' \in Seq(DataIDs)
    BY <2>6 DEF IInv, RowsInv
  <2>8. RowsKept /\ RowsInv' /\ BucketInv'
    BY <2>2, <2>4, <2>6, <2>7, RowReplaced DEF IInv
  <2>9. Published(InHand(q))'
    <3>1. d \in DOMAIN objects' /\ objects'[d] = o
      BY <2>2, <2>6
    <3> QED
      BY <2>1, <2>4, <3>1 DEF Published, Exists, InHand
  <2>10. RequestInv(r)'
    BY <1>2, <2>5, <2>8, <2>9, NextObjectInv
  <2> QED
    BY <2>6, <2>8, <2>10, OneWorker DEF IInv
<1>4. CASE ~(Exists(This(w)) /\ SizesAgree(w))
  <2>1. PICK r : r = Idle
    OBVIOUS
  <2>2. /\ worker' = [worker EXCEPT ![w] = r] /\ RequestInv(r)'
        /\ UNCHANGED <<objects, recent, bucket, urls, matched>>
    BY <1>4, <2>1, IdleInv DEF UpdateCompleted
  <2> QED
    BY <2>2, WorkerStep
<1> QED
  BY <1>3, <1>4

(* The row of the request, its only one, is withdrawn. *)
LEMMA MarkDeletedInv ==
  ASSUME IInv, NEW w \in Workers, MarkDeleted(w)
  PROVE  IInv'
<1>1. PICK q : q = worker[w]
  OBVIOUS
<1>2. /\ q \in Worker /\ RequestInv(q) /\ q.pc = "Delete" /\ q.pc \in Calls
      /\ InHand(q) = This(w) /\ Exists(InHand(q)) /\ ~q.isSuccess /\ Len(q.ids) = 1
  BY <1>1 DEF IInv, WorkersInv, MarkDeleted, RequestInv, InHand, This, Calls
<1>3. PICK d \in DOMAIN objects : d = InHand(q)
  BY <1>2 DEF Exists
<1>4. objects \in Seq(Object) /\ objects[d] \in Object
  BY RowIDs DEF IInv, RowsInv
<1>5. PICK o : o = [objects[d] EXCEPT !.deleted = TRUE]
  OBVIOUS
<1>6. /\ o \in Object /\ o.deleted /\ o.size = objects[d].size
      /\ o.owner = objects[d].owner /\ o.delete_permission = objects[d].delete_permission
      /\ o.upload_completed = objects[d].upload_completed
  BY <1>4, <1>5 DEF Object
<1>7. PICK r : r = [q EXCEPT !.pc = "ok"]
  OBVIOUS
<1>8. /\ objects' = [objects EXCEPT ![d] = o] /\ worker' = [worker EXCEPT ![w] = r]
      /\ UNCHANGED <<recent, bucket, urls, matched>>
  BY <1>1, <1>2, <1>3, <1>5, <1>7 DEF MarkDeleted
<1>9. recent' \in Seq(DataIDs)
  BY <1>8 DEF IInv, RowsInv
<1>10. RowsKept /\ RowsInv' /\ BucketInv'
  BY <1>6, <1>8, <1>9, RowReplaced DEF IInv
<1>11. "ok" \in PCs
  BY DEF PCs, Ends
<1>12. r \in Worker /\ r.pc = "ok" /\ r.ids = q.ids /\ ~r.isSuccess
  BY <1>2, <1>7, <1>11, WorkerSet
<1>13. \A i \in DOMAIN r.ids : r.ids[i] = d
  <2>1. q.i \in 1..Len(q.ids) /\ q.ids \in Seq(DataIDs)
    BY <1>2, InHandType
  <2>2. DOMAIN q.ids = 1..1 /\ q.i = 1
    BY <1>2, <2>1
  <2> QED
    BY <1>3, <1>12, <2>2 DEF InHand
<1>14. d \in DOMAIN objects' /\ objects'[d].deleted
  BY <1>4, <1>6, <1>8
<1>15. RequestInv(r)'
  BY <1>12, <1>13, <1>14 DEF RequestInv, Withdrawn, Exists, Calls
<1> QED
  BY <1>8, <1>10, <1>15, OneWorker DEF IInv

(* The column that is written next is one of those still to be written. *)
LEMMA NextColumn ==
  ASSUME NEW todo \in SUBSET ColumnNames, todo # {}
  PROVE  Columns[CHOOSE i \in DOMAIN Columns :
                   Columns[i] \in todo /\ \A j \in 1..(i - 1) : Columns[j] \notin todo] \in todo
<1> DEFINE I == {i \in DOMAIN Columns : Columns[i] \in todo}
<1>1. Columns \in Seq(ColumnNames)
  <2>1. Columns \in Seq({"period", "meta_binary", "data_type"})
    BY DEF Columns
  <2>2. \A i \in DOMAIN Columns : Columns[i] \in ColumnNames
    BY DEF ColumnNames
  <2> HIDE DEF Columns
  <2> QED
    BY <2>1, <2>2
<1>2. I # {} /\ I \in SUBSET DOMAIN Columns
  BY DEF ColumnNames
<1>3. PICK i \in I : \A j \in 1..(i - 1) : j \in DOMAIN Columns /\ j \notin I
  BY <1>1, <1>2, FirstPosition
<1>4. i \in DOMAIN Columns /\ Columns[i] \in todo /\ \A j \in 1..(i - 1) : Columns[j] \notin todo
  BY <1>3
<1> QED
  BY <1>4

(* ChangeColumn writes one column of the row the request has in hand. *)
LEMMA ChangeColumnData ==
  ASSUME IInv, NEW w \in Workers, ChangeColumn(w)
  PROVE  \E d \in DOMAIN objects, c \in worker[w].modifies, o \in Object :
           /\ d = This(w) /\ objects' = [objects EXCEPT ![d] = o]
           /\ o = [objects[d] EXCEPT !.columns = [objects[d].columns EXCEPT ![c] = worker[w].value]]
           /\ o.size = objects[d].size /\ o.owner = objects[d].owner
           /\ o.permission = objects[d].permission
           /\ o.delete_permission = objects[d].delete_permission
           /\ o.upload_completed = objects[d].upload_completed
           /\ o.deleted = objects[d].deleted
           /\ o.persistence_slot_id = objects[d].persistence_slot_id
           /\ worker' = [worker EXCEPT ![w] =
                At([worker[w] EXCEPT !.modifies = worker[w].modifies \ {c}],
                   AfterChange(worker[w].modifies \ {c}))]
           /\ Touch(d) /\ UNCHANGED <<bucket, urls, matched>>
<1>1. /\ worker[w] \in Worker /\ RequestInv(worker[w]) /\ worker[w].pc = "Change"
      /\ InHand(worker[w]) = This(w)
  BY DEF IInv, WorkersInv, ChangeColumn, InHand, This
<1>2. /\ Exists(This(w)) /\ worker[w].modifies # {}
      /\ worker[w].modifies \in SUBSET ColumnNames /\ worker[w].value \in Values
  BY <1>1, RequestType DEF RequestInv
<1>3. PICK d \in DOMAIN objects : d = This(w)
  BY <1>2 DEF Exists
<1>4. PICK c : c = Columns[CHOOSE i \in DOMAIN Columns :
                     /\ Columns[i] \in worker[w].modifies
                     /\ \A j \in 1..(i - 1) : Columns[j] \notin worker[w].modifies]
  OBVIOUS
<1>5. c \in worker[w].modifies /\ c \in ColumnNames
  BY <1>2, <1>4, NextColumn
<1>6. objects[d] \in Object /\ objects[d].columns \in [ColumnNames -> Values]
  BY RowIDs DEF IInv, Object
<1>7. PICK columns \in [ColumnNames -> Values] :
        columns = [objects[d].columns EXCEPT ![c] = worker[w].value]
  BY <1>2, <1>5, <1>6
<1>8. PICK o : o = [objects[d] EXCEPT !.columns = columns]
  OBVIOUS
<1>9. /\ o \in Object /\ o.size = objects[d].size /\ o.owner = objects[d].owner
      /\ o.permission = objects[d].permission
      /\ o.delete_permission = objects[d].delete_permission
      /\ o.upload_completed = objects[d].upload_completed
      /\ o.deleted = objects[d].deleted
      /\ o.persistence_slot_id = objects[d].persistence_slot_id
  BY <1>6, <1>8 DEF Object
<1>10. /\ objects' = [objects EXCEPT ![d] = o] /\ Touch(d) /\ UNCHANGED <<bucket, urls, matched>>
  BY <1>3, <1>4, <1>7, <1>8 DEF ChangeColumn
<1>11. worker' = [worker EXCEPT ![w] =
                    At([worker[w] EXCEPT !.modifies = worker[w].modifies \ {c}],
                       AfterChange(worker[w].modifies \ {c}))]
  BY <1>4 DEF ChangeColumn
<1> QED
  BY <1>3, <1>5, <1>7, <1>8, <1>9, <1>10, <1>11

(* ChangeMeta keeps the permission it has checked while it has columns to  *)
(* write.                                                                  *)
LEMMA ChangeColumnInv ==
  ASSUME IInv, NEW w \in Workers, ChangeColumn(w)
  PROVE  IInv'
<1>1. PICK q : q = worker[w]
  OBVIOUS
<1>2. /\ q \in Worker /\ RequestInv(q) /\ q.pc = "Change" /\ q.pc \in Calls
      /\ InHand(q) = This(w)
  BY <1>1 DEF IInv, WorkersInv, ChangeColumn, InHand, This, Calls
<1>3. PICK d \in DOMAIN objects, c \in q.modifies, o \in Object :
           /\ d = This(w) /\ objects' = [objects EXCEPT ![d] = o]
           /\ o.size = objects[d].size /\ o.owner = objects[d].owner
           /\ o.delete_permission = objects[d].delete_permission
           /\ o.upload_completed = objects[d].upload_completed
           /\ o.deleted = objects[d].deleted
           /\ worker' = [worker EXCEPT ![w] =
                At([q EXCEPT !.modifies = q.modifies \ {c}], AfterChange(q.modifies \ {c}))]
           /\ Touch(d) /\ UNCHANGED <<bucket, urls, matched>>
  BY <1>1, ChangeColumnData, ZenonT(40)
<1>4. recent' \in Seq(DataIDs)
  BY <1>3, RowIDs, TouchType DEF IInv
<1>5. RowsKept /\ RowsInv' /\ BucketInv'
  BY <1>3, <1>4, RowReplaced DEF IInv
<1>6. PICK todo : todo = q.modifies \ {c}
  OBVIOUS
<1>7. CASE todo = {}
  <2>1. PICK r : r = Idle
    OBVIOUS
  <2>2. worker' = [worker EXCEPT ![w] = r] /\ RequestInv(r)'
    BY <1>3, <1>6, <1>7, <2>1, IdleInv DEF At, AfterChange
  <2> QED
    BY <1>5, <2>2, OneWorker DEF IInv
<1>8. CASE todo # {}
  <2>1. todo \in SUBSET ColumnNames
    BY <1>2, <1>6, RequestType
  <2>2. PICK s : s = [q EXCEPT !.modifies = todo]
    OBVIOUS
  <2>3. /\ s \in Worker /\ s.modifies = todo /\ s.pc = q.pc /\ s.caller = q.caller
        /\ s.ids = q.ids /\ s.i = q.i
    BY <1>2, <2>1, <2>2, WorkerSet
  <2>4. "Change" \in Calls \cup Ends /\ "Change" # "idle"
    BY DEF Calls
  <2>5. PICK r : r = At(s, "Change")
    OBVIOUS
  <2>6. /\ r \in Worker /\ r.modifies = todo /\ r.pc = "Change" /\ r.caller = q.caller
        /\ r.ids = q.ids /\ r.i = q.i
    BY <2>3, <2>4, <2>5, AtType
  <2>7. InHand(r) = InHand(q) /\ r.i \in 1..Len(r.ids)
    BY <1>2, <2>6, InHandType DEF InHand
  <2>8. RequestInv(r)
    BY <1>2, <1>8, <2>6, <2>7 DEF RequestInv
  <2>9. RequestInv(r)'
    BY <1>5, <2>8, RequestKept
  <2>10. worker' = [worker EXCEPT ![w] = r]
    BY <1>3, <1>6, <1>8, <2>2, <2>5 DEF AfterChange
  <2> QED
    BY <1>5, <2>9, <2>10, OneWorker DEF IInv
<1> QED
  BY <1>7, <1>8

(* A restart forgets the requests and keeps the rest. *)
LEMMA RestartInv ==
  ASSUME IInv, Restart
  PROVE  IInv'
<1>1. RowsInv' /\ BucketInv'
  BY DEF IInv, RowsInv, BucketInv, PublishedHadItsSize, Exists, Restart
<1>2. WorkersInv'
  <2>1. PICK r : r = Idle
    OBVIOUS
  <2>2. worker' = [w \in Workers |-> r] /\ r \in Worker /\ RequestInv(r)'
    BY <2>1, IdleInv, IdleType DEF Restart
  <2>3. ASSUME NEW v \in Workers PROVE RequestInv(worker[v])'
    <3>1. worker'[v] = r
      BY <2>2
    <3> QED
      BY <2>2, <3>1 DEF RequestInv
  <2> QED
    BY <2>2, <2>3 DEF WorkersInv
<1> QED
  BY <1>1, <1>2 DEF IInv

-----------------------------------------------------------------------------
(* The tables and the bucket start empty. *)
LEMMA InitInv == Init => IInv
<1> SUFFICES ASSUME Init PROVE IInv
  OBVIOUS
<1>1. RowsInv
  BY DataStoreAssumption DEF Init, RowsInv, PublishedHadItsSize
<1>2. BucketInv
  BY DEF Init, BucketInv
<1>3. WorkersInv
  BY IdleType, IdleInv DEF Init, WorkersInv
<1> QED
  BY <1>1, <1>2, <1>3 DEF IInv

(* Every step keeps the invariant. *)
LEMMA NextInv ==
  ASSUME IInv, [Next]_vars
  PROVE  IInv'
<1>1. CASE UNCHANGED vars
  <2>1. RowsKept /\ worker' = worker
    BY <1>1 DEF RowsKept, vars
  <2>2. RowsInv' /\ BucketInv'
    BY <1>1 DEF IInv, RowsInv, BucketInv, PublishedHadItsSize, Exists, vars
  <2> QED
    BY <2>1, <2>2, SameWorkers DEF IInv
<1>2. ASSUME NEW p \in Players, NEW post \in Posts,
             PreparePostObject(p, post) \/ PostMetaBinary(p, post)
      PROVE  IInv'
  <2>1. /\ InsertObject(NewObject(p, post)) /\ UNCHANGED <<bucket, worker, matched>>
        /\ urls' \subseteq urls \cup {Len(objects) + 1}
    BY <1>2 DEF PreparePostObject, PostMetaBinary
  <2> QED
    BY <2>1, InsertInv
<1>3. ASSUME NEW d \in DataIDs, Expire(d) \/ \E size \in Sizes : Upload(d, size)
      PROVE  IInv'
  BY <1>3, ExpireInv, UploadInv
<1>4. ASSUME NEW w \in Workers, NEW p \in Players,
             \/ \E d \in DataIDs, isSuccess \in BOOLEAN : CompletePostObject(w, p, d, isSuccess)
             \/ \E ids \in Batches : CompletePostObjects(w, p, ids)
             \/ \E d \in DataIDs, m \in Modifications, v \in Values : ChangeMeta(w, p, d, m, v)
      PROVE  IInv'
  BY <1>4, StartsInv
<1>5. ASSUME NEW w \in Workers, Step(w) \/ CallFails(w)
      PROVE  IInv'
  BY <1>5, GetObjectInfoInv, GetObjectOwnerInv, StatObjectInv, UpdateCompletedInv, MarkDeletedInv,
     ChangeColumnInv, CallFailsInv DEF Step
<1>6. CASE Restart
  BY <1>6, RestartInv
<1> QED
  BY <1>1, <1>2, <1>3, <1>4, <1>5, <1>6 DEF Next

(* What a request has found out about its object is true until it acts on  *)
(* it.                                                                     *)
THEOREM Invariance == Spec => []IInv
<1>1. Init => IInv
  BY InitInv
<1>2. IInv /\ [Next]_vars => IInv'
  BY NextInv
<1> QED
  BY <1>1, <1>2, PTL DEF Spec

(* Every row, request and upload has the fields the code gives it, and a   *)
(* request that has a call to make has an object in hand.                  *)
THEOREM TypeCorrect == Spec => []TypeOK
<1>1. IInv => TypeOK
  <2> SUFFICES ASSUME IInv PROVE TypeOK
    OBVIOUS
  <2>1. urls \subseteq DataIDs
    BY RowIDs DEF IInv, BucketInv
  <2> QED
    BY <2>1 DEF IInv, RowsInv, BucketInv, WorkersInv, RequestInv, TypeOK
<1> QED
  BY <1>1, Invariance, PTL

(* An object is published only after an upload of its declared size.       *)
THEOREM PublishedSize == Spec => []PublishedHadItsSize
<1>1. IInv => PublishedHadItsSize
  BY DEF IInv, RowsInv
<1> QED
  BY <1>1, Invariance, PTL

(* The answer "success" is true of every object of the request.            *)
THEOREM SuccessOfAll == Spec => []SuccessMeansAll
<1>1. IInv => SuccessMeansAll
  BY DEF IInv, WorkersInv, RequestInv, SuccessMeansAll, Published, Withdrawn
<1> QED
  BY <1>1, Invariance, PTL

-----------------------------------------------------------------------------
(* What a step does to the rows and to their order. *)

SameSlot(d) ==
  /\ objects'[d].owner = objects[d].owner
  /\ objects'[d].persistence_slot_id = objects[d].persistence_slot_id
  /\ objects'[d].deleted = objects[d].deleted
  /\ Scannable(objects'[d]) <=> Scannable(objects[d])

(* At most upload_completed is changed. *)
OnlyPublishes ==
  /\ DOMAIN objects' = DOMAIN objects /\ recent' = recent
  /\ \A d \in DOMAIN objects : SameSlot(d) /\ objects'[d].columns = objects[d].columns

Inserts ==
  /\ Len(objects') = Len(objects) + 1
  /\ DOMAIN objects' = DOMAIN objects \cup {Len(objects')} /\ Len(objects') \notin DOMAIN objects
  /\ \A d \in DOMAIN objects : objects'[d] = objects[d]
  /\ Touch(Len(objects')) /\ Len(objects') \in DataIDs

Withdraws(w) ==
  /\ worker[w].pc = "Delete"
  /\ This(w) \in DOMAIN objects /\ objects[This(w)].owner = worker[w].caller
  /\ DOMAIN objects' = DOMAIN objects /\ recent' = recent
  /\ objects'[This(w)].deleted
  /\ \A d \in DOMAIN objects : /\ d # This(w) => objects'[d] = objects[d]
                              /\ objects'[d].owner = objects[d].owner
                              /\ objects'[d].columns = objects[d].columns

Changes(w) ==
  /\ worker[w].pc = "Change"
  /\ This(w) \in DOMAIN objects
  /\ Allowed(objects[This(w)].owner, worker[w].caller, objects[This(w)].delete_permission)
  /\ DOMAIN objects' = DOMAIN objects /\ Touch(This(w))
  /\ \A d \in DOMAIN objects : SameSlot(d) /\ (d # This(w) => objects'[d] = objects[d])

(* Completing an upload publishes a row and changes nothing else. *)
LEMMA UpdateCompletedRows ==
  ASSUME IInv, NEW w \in Workers, UpdateCompleted(w)
  PROVE  OnlyPublishes
<1>1. objects \in Seq(Object)
  BY DEF IInv, RowsInv
<1>2. CASE objects' = objects /\ recent' = recent
  BY <1>2 DEF OnlyPublishes, SameSlot
<1>3. CASE /\ Exists(This(w)) /\ recent' = recent
           /\ objects' = [objects EXCEPT ![This(w)].upload_completed = TRUE]
  <2>1. PICK d \in DOMAIN objects : d = This(w)
    BY <1>3 DEF Exists
  <2>2. objects[d] \in Object
    BY <1>1
  <2>3. PICK o : o = [objects[d] EXCEPT !.upload_completed = TRUE]
    OBVIOUS
  <2>4. /\ o.owner = objects[d].owner /\ o.deleted = objects[d].deleted
        /\ o.persistence_slot_id = objects[d].persistence_slot_id
        /\ o.columns = objects[d].columns
        /\ Scannable(o) <=> Scannable(objects[d])
    BY <2>2, <2>3 DEF Object, Scannable
  <2>5. objects' = [objects EXCEPT ![d] = o]
    BY <1>3, <2>1, <2>3
  <2>6. DOMAIN objects' = DOMAIN objects
    BY <1>1, <2>5
  <2>7. \A e \in DOMAIN objects : objects'[e] = IF e = d THEN o ELSE objects[e]
    BY <1>1, <2>5
  <2> QED
    BY <1>3, <2>4, <2>6, <2>7 DEF OnlyPublishes, SameSlot
<1> QED
  BY <1>2, <1>3 DEF UpdateCompleted

(* A deletion withdraws the row in hand, for its owner. *)
LEMMA MarkDeletedRows ==
  ASSUME IInv, NEW w \in Workers, MarkDeleted(w)
  PROVE  Withdraws(w)
<1>1. /\ objects \in Seq(Object) /\ RequestInv(worker[w]) /\ worker[w].pc = "Delete"
      /\ InHand(worker[w]) = This(w)
  BY DEF IInv, RowsInv, WorkersInv, MarkDeleted, InHand, This
<1>2. Exists(This(w)) /\ objects[This(w)].owner = worker[w].caller
  BY <1>1 DEF RequestInv
<1>3. PICK d \in DOMAIN objects : d = This(w)
  BY <1>2 DEF Exists
<1>4. objects[d] \in Object
  BY <1>1
<1>5. PICK o : o = [objects[d] EXCEPT !.deleted = TRUE]
  OBVIOUS
<1>6. o.owner = objects[d].owner /\ o.columns = objects[d].columns /\ o.deleted
  BY <1>4, <1>5 DEF Object
<1>7. objects' = [objects EXCEPT ![d] = o] /\ recent' = recent
  BY <1>3, <1>5 DEF MarkDeleted
<1>8. DOMAIN objects' = DOMAIN objects
  BY <1>1, <1>7
<1>9. \A e \in DOMAIN objects : objects'[e] = IF e = d THEN o ELSE objects[e]
  BY <1>1, <1>7
<1> QED
  BY <1>1, <1>2, <1>3, <1>6, <1>7, <1>8, <1>9 DEF Withdraws

(* A change writes the row in hand, for a caller that has the permission. *)
LEMMA ChangeColumnRows ==
  ASSUME IInv, NEW w \in Workers, ChangeColumn(w)
  PROVE  Changes(w)
<1>1. /\ objects \in Seq(Object) /\ RequestInv(worker[w]) /\ worker[w].pc = "Change"
      /\ InHand(worker[w]) = This(w)
  BY DEF IInv, RowsInv, WorkersInv, ChangeColumn, InHand, This
<1>2. Allowed(objects[This(w)].owner, worker[w].caller, objects[This(w)].delete_permission)
  BY <1>1 DEF RequestInv
<1>3. PICK d \in DOMAIN objects, o \in Object :
           /\ d = This(w) /\ objects' = [objects EXCEPT ![d] = o]
           /\ o.owner = objects[d].owner /\ o.deleted = objects[d].deleted
           /\ o.persistence_slot_id = objects[d].persistence_slot_id
           /\ o.permission = objects[d].permission
           /\ o.delete_permission = objects[d].delete_permission
           /\ Touch(d)
  BY ChangeColumnData
<1>4. DOMAIN objects' = DOMAIN objects
  BY <1>1, <1>3
<1>5. \A e \in DOMAIN objects : objects'[e] = IF e = d THEN o ELSE objects[e]
  BY <1>1, <1>3
<1>6. Scannable(o) <=> Scannable(objects[d])
  BY <1>3 DEF Scannable
<1> QED
  BY <1>1, <1>2, <1>3, <1>4, <1>5, <1>6 DEF Changes, SameSlot

(* A new object comes behind the others in the table. *)
LEMMA InsertRows ==
  ASSUME IInv, NEW o, InsertObject(o)
  PROVE  Inserts
<1>1. /\ objects \in Seq(Object) /\ objects' = Append(objects, o) /\ Len(objects) \in Nat
      /\ Len(objects) < MaxObjects /\ MaxObjects \in Nat
  BY DataStoreAssumption DEF IInv, RowsInv, InsertObject
<1>2. /\ Len(objects') = Len(objects) + 1
      /\ DOMAIN objects' = DOMAIN objects \cup {Len(objects) + 1}
      /\ Len(objects) + 1 \notin DOMAIN objects
      /\ \A d \in DOMAIN objects : objects'[d] = objects[d]
  BY <1>1
<1>3. Touch(Len(objects) + 1) /\ Len(objects) + 1 \in DataIDs
  BY <1>1 DEF InsertObject, DataIDs
<1> QED
  BY <1>2, <1>3 DEF Inserts, Touch

(* Every step changes the rows in one of these four ways. *)
LEMMA RowSteps ==
  ASSUME IInv, [Next]_vars
  PROVE  \/ OnlyPublishes \/ Inserts
         \/ \E w \in Workers : Withdraws(w) \/ Changes(w)
<1>1. ASSUME objects' = objects, recent' = recent PROVE OnlyPublishes
  BY <1>1 DEF OnlyPublishes, SameSlot
<1>2. ASSUME NEW w \in Workers, UpdateCompleted(w) PROVE OnlyPublishes
  BY <1>2, UpdateCompletedRows
<1>3. ASSUME NEW w \in Workers, MarkDeleted(w) PROVE Withdraws(w)
  BY <1>3, MarkDeletedRows
<1>4. ASSUME NEW w \in Workers, ChangeColumn(w) PROVE Changes(w)
  BY <1>4, ChangeColumnRows
<1>5. ASSUME NEW o, InsertObject(o) PROVE Inserts
  BY <1>5, InsertRows
<1>6. CASE UNCHANGED vars
  BY <1>1, <1>6 DEF vars
<1>7. ASSUME NEW p \in Players, NEW post \in Posts,
             PreparePostObject(p, post) \/ PostMetaBinary(p, post)
      PROVE  Inserts
  BY <1>5, <1>7 DEF PreparePostObject, PostMetaBinary
<1>8. ASSUME NEW d \in DataIDs, Expire(d) \/ \E size \in Sizes : Upload(d, size)
      PROVE  OnlyPublishes
  BY <1>1, <1>8 DEF Expire, Upload
<1>9. ASSUME NEW w \in Workers, NEW p \in Players,
             \/ \E d \in DataIDs, isSuccess \in BOOLEAN : CompletePostObject(w, p, d, isSuccess)
             \/ \E ids \in Batches : CompletePostObjects(w, p, ids)
             \/ \E d \in DataIDs, m \in Modifications, v \in Values : ChangeMeta(w, p, d, m, v)
      PROVE  OnlyPublishes
  BY <1>1, <1>9 DEF CompletePostObject, CompletePostObjects, ChangeMeta, Start
<1>10. ASSUME NEW w \in Workers,
              GetObjectInfo(w) \/ GetObjectOwner(w) \/ StatObject(w) \/ CallFails(w)
       PROVE  OnlyPublishes
  BY <1>1, <1>10 DEF GetObjectInfo, GetObjectOwner, StatObject, CallFails, Goto
<1>11. CASE Restart
  BY <1>1, <1>11 DEF Restart
<1> QED
  BY <1>2, <1>3, <1>4, <1>6, <1>7, <1>8, <1>9, <1>10, <1>11 DEF Next, Step

(* No row is withdrawn but by the request of its owner. *)
THEOREM Withdrawal == Spec => WithdrawnByOwner
<1> DEFINE ByOwner ==
      \A d \in DOMAIN objects : ~objects[d].deleted /\ objects'[d].deleted =>
        \E w \in Workers : /\ worker[w].pc = "Delete" /\ This(w) = d
                           /\ worker[w].caller = objects[d].owner
<1>1. IInv /\ [Next]_vars => [ByOwner]_vars
  <2> SUFFICES ASSUME IInv, [Next]_vars PROVE ByOwner
    OBVIOUS
  <2>1. OnlyPublishes \/ Inserts => ByOwner
    BY DEF OnlyPublishes, SameSlot, Inserts
  <2>2. ASSUME NEW w \in Workers, Withdraws(w) PROVE ByOwner
    BY <2>2 DEF Withdraws
  <2>3. ASSUME NEW w \in Workers, Changes(w) PROVE ByOwner
    BY <2>3 DEF Changes, SameSlot
  <2> QED
    BY <2>1, <2>2, <2>3, RowSteps
<1> QED
  BY <1>1, Invariance, PTL DEF Spec, WithdrawnByOwner

(* No column changes but by the ChangeMeta of a player that the delete     *)
(* permission in the row lets do so.                                       *)
THEOREM Change == Spec => ChangedByPermitted
<1> DEFINE ByPermitted ==
      \A d \in DOMAIN objects : objects[d].columns # objects'[d].columns =>
        \E w \in Workers : /\ worker[w].pc = "Change" /\ This(w) = d
                           /\ Allowed(objects[d].owner, worker[w].caller,
                                      objects[d].delete_permission)
<1>1. IInv /\ [Next]_vars => [ByPermitted]_vars
  <2> SUFFICES ASSUME IInv, [Next]_vars PROVE ByPermitted
    OBVIOUS
  <2>1. OnlyPublishes \/ Inserts => ByPermitted
    BY DEF OnlyPublishes, Inserts
  <2>2. ASSUME NEW w \in Workers, Withdraws(w) PROVE ByPermitted
    BY <2>2 DEF Withdraws
  <2>3. ASSUME NEW w \in Workers, Changes(w) PROVE ByPermitted
    BY <2>3 DEF Changes
  <2> QED
    BY <2>1, <2>2, <2>3, RowSteps
<1> QED
  BY <1>1, Invariance, PTL DEF Spec, ChangedByPermitted

-----------------------------------------------------------------------------
(* The reads *)

(* A player that finds an object can fetch what it has found. *)
THEOREM Fetched == Spec => []SearchedCanBeFetched
<1>1. IInv => SearchedCanBeFetched
  <2> SUFFICES ASSUME IInv, NEW p \in Players, NEW types \in SUBSET Values, NEW page \in Pages,
                      NEW d \in SearchObject(p, {}, types, page).result
               PROVE  /\ GetMeta(p, ByID(d)) = d /\ GetMetas(p, <<d>>) = <<d>>
                      /\ \E a \in PrepareGetObject(p, ByID(d)) :
                           a.key = d /\ bucket[d] # NoSize /\ d \in matched
    BY DEF SearchedCanBeFetched
  <2>1. /\ Permitted(p, d) /\ d \in PageRows({}, types, page)
        /\ \A e \in PageRows({}, types, page) : Scannable(objects[e])
    BY DEF SearchObject, Page
  <2>2. d \in DOMAIN objects /\ objects[d].upload_completed /\ d # 0
    BY <2>1 DEF PageRows, Matching, Permitted
  <2>3. d \in matched /\ bucket[d] # NoSize
    BY <2>2 DEF IInv, RowsInv, BucketInv, PublishedHadItsSize
  <2>4. ByID(d).dataID = d
    BY DEF ByID
  <2>5. GetMeta(p, ByID(d)) = d
    BY <2>1, <2>2, <2>4 DEF GetMeta, ObjectInfo, Found, Exists
  <2>6. GetMetas(p, <<d>>) = <<d>>
    BY <2>1, <2>2 DEF GetMetas, Found, Exists
  <2>7. [dataID |-> d, key |-> d, size |-> objects[d].size] \in PrepareGetObject(p, ByID(d))
    BY <2>2, <2>4, <2>5 DEF PrepareGetObject
  <2> QED
    BY <2>3, <2>5, <2>6, <2>7
<1> QED
  BY <1>1, Invariance, PTL

(* The first of the members of P in a list, if its row can be scanned, as  *)
(* the SELECT of a slot takes it.                                          *)
Answer(list, P, rows) ==
  LET places == {i \in DOMAIN list : list[i] \in P}
      latest == list[CHOOSE i \in places : \A j \in places : i <= j]
  IN  IF places # {} /\ Scannable(rows[latest]) THEN latest ELSE 0

(* Position i is the first of a member of P. *)
FirstAt(list, P, i) ==
  /\ i \in DOMAIN list /\ list[i] \in P
  /\ \A j \in 1..(i - 1) : list[j] \notin P

(* The first position of interest decides. *)
LEMMA AnswerIs ==
  ASSUME NEW list \in Seq(DataIDs), NEW P, NEW rows, NEW i \in DOMAIN list, FirstAt(list, P, i)
  PROVE  Answer(list, P, rows) = IF Scannable(rows[list[i]]) THEN list[i] ELSE 0
<1> DEFINE places == {k \in DOMAIN list : list[k] \in P}
<1>1. /\ DOMAIN list = 1..Len(list) /\ Len(list) \in Nat
      /\ i \in DOMAIN list /\ list[i] \in P /\ \A j \in 1..(i - 1) : list[j] \notin P
  BY DEF FirstAt
<1>2. i \in places /\ \A j \in places : i <= j
  <2>1. ASSUME NEW j \in places PROVE i <= j
    <3>1. j \in 1..Len(list) /\ j \notin 1..(i - 1)
      BY <1>1
    <3> QED
      BY <1>1, <3>1
  <2> QED
    BY <1>1, <2>1
<1>3. PICK least : least = CHOOSE k \in places : \A j \in places : k <= j
  OBVIOUS
<1>4. least \in places /\ \A j \in places : least <= j
  BY <1>2, <1>3
<1>5. least = i
  BY <1>1, <1>2, <1>4
<1> QED
  BY <1>2, <1>3, <1>5 DEF Answer

(* A list without members of interest has no answer. *)
LEMMA AnswerNone ==
  ASSUME NEW list, NEW P, NEW rows, \A i \in DOMAIN list : list[i] \notin P
  PROVE  Answer(list, P, rows) = 0
BY DEF Answer

(* A list has a first position of interest or none at all. *)
LEMMA FirstOrNone ==
  ASSUME NEW list \in Seq(DataIDs), NEW P
  PROVE  (\E i \in DOMAIN list : FirstAt(list, P, i)) \/ (\A i \in DOMAIN list : list[i] \notin P)
<1>1. CASE \E i \in DOMAIN list : list[i] \in P
  <2>1. {i \in DOMAIN list : list[i] \in P} \in SUBSET DOMAIN list
    OBVIOUS
  <2>2. PICK i \in {i \in DOMAIN list : list[i] \in P} :
          \A j \in 1..(i - 1) : j \in DOMAIN list /\ j \notin {k \in DOMAIN list : list[k] \in P}
    BY <1>1, <2>1, FirstPosition
  <2> QED
    BY <2>2 DEF FirstAt
<1> QED
  BY <1>1

(* Lists that agree on the first member of interest give the same answer,  *)
(* if the same rows can be scanned.                                        *)
LEMMA SameAnswer ==
  ASSUME NEW list \in Seq(DataIDs), NEW new \in Seq(DataIDs), NEW P, NEW rows, NEW rows2,
         \A d \in P : Scannable(rows2[d]) <=> Scannable(rows[d]),
         NEW i \in DOMAIN list, NEW k \in DOMAIN new, FirstAt(list, P, i), FirstAt(new, P, k), new[k] = list[i]
  PROVE  Answer(new, P, rows2) = Answer(list, P, rows)
<1>1. Answer(list, P, rows) = IF Scannable(rows[list[i]]) THEN list[i] ELSE 0
  BY AnswerIs
<1>2. Answer(new, P, rows2) = IF Scannable(rows2[new[k]]) THEN new[k] ELSE 0
  BY AnswerIs
<1>3. list[i] \in P
  BY DEF FirstAt
<1> QED
  BY <1>1, <1>2, <1>3

(* A row put into a list at any place. *)
Placed(rest, x, j) == SubSeq(rest, 1, j) \o <<x>> \o SubSeq(rest, j + 1, Len(rest))

(* Where the elements of the list are then. *)
IsPlaced(rest, x, j, new) ==
  /\ new \in Seq(DataIDs) /\ Len(new) = Len(rest) + 1
  /\ \A m \in 1..j : new[m] = rest[m]
  /\ new[j + 1] = x
  /\ \A m \in (j + 2)..(Len(rest) + 1) : new[m] = rest[m - 1]

(* It is there. *)
LEMMA PlacedElements ==
  ASSUME NEW rest \in Seq(DataIDs), NEW x \in DataIDs, NEW j \in 0..Len(rest),
         NEW new, new = Placed(rest, x, j)
  PROVE  IsPlaced(rest, x, j, new)
<1>1. Len(rest) \in Nat /\ j \in Nat /\ j <= Len(rest)
  OBVIOUS
<1>2. PICK a : a = SubSeq(rest, 1, j)
  OBVIOUS
<1>3. PICK b : b = SubSeq(rest, j + 1, Len(rest))
  OBVIOUS
<1>4. a \in Seq(DataIDs) /\ Len(a) = j /\ \A m \in 1..j : a[m] = rest[m]
  BY <1>1, <1>2
<1>5. /\ b \in Seq(DataIDs) /\ Len(b) = Len(rest) - j
      /\ \A m \in 1..(Len(rest) - j) : b[m] = rest[j + m]
  BY <1>1, <1>3
<1>6. PICK c : c = a \o <<x>>
  OBVIOUS
<1>7. c \in Seq(DataIDs) /\ Len(c) = j + 1 /\ c[j + 1] = x /\ \A m \in 1..j : c[m] = rest[m]
  BY <1>1, <1>4, <1>6
<1>8. new = c \o b
  BY <1>2, <1>3, <1>6 DEF Placed
<1>9. /\ new \in Seq(DataIDs) /\ Len(new) = Len(rest) + 1
      /\ \A m \in 1..(j + 1) : new[m] = c[m]
      /\ \A m \in 1..(Len(rest) - j) : new[j + 1 + m] = b[m]
  <2> c \in Seq(DataIDs) /\ b \in Seq(DataIDs)
    BY <1>5, <1>7
  <2>1. new \in Seq(DataIDs) /\ Len(new) = Len(c) + Len(b)
    BY <1>8
  <2>2. \A m \in 1..Len(c) : new[m] = c[m]
    BY <1>8
  <2>3. \A m \in 1..Len(b) : new[Len(c) + m] = b[m]
    BY <1>8
  <2>4. Len(c) + Len(b) = Len(rest) + 1
    BY <1>1, <1>5, <1>7
  <2> QED
    BY <1>5, <1>7, <2>1, <2>2, <2>3, <2>4
<1>10. ASSUME NEW m \in (j + 2)..(Len(rest) + 1) PROVE new[m] = rest[m - 1]
  <2>1. PICK n \in 1..(Len(rest) - j) : m = j + 1 + n /\ m - 1 = j + n
    <3>1. /\ m - j - 1 \in 1..(Len(rest) - j)
          /\ m = j + 1 + (m - j - 1) /\ m - 1 = j + (m - j - 1)
      BY <1>1
    <3> QED
      BY <3>1
  <2>2. new[j + 1 + n] = b[n] /\ b[n] = rest[j + n]
    BY <1>5, <1>9, <2>1
  <2>3. new[m] = new[j + 1 + n] /\ rest[m - 1] = rest[j + n]
    BY <2>1
  <2> QED
    BY <2>2, <2>3
<1>11. /\ \A m \in 1..j : new[m] = rest[m]
       /\ new[j + 1] = x
  <2>1. 1..j \subseteq 1..(j + 1) /\ j + 1 \in 1..(j + 1)
    BY <1>1
  <2> QED
    BY <1>7, <1>9, <2>1
<1> QED
  BY <1>9, <1>10, <1>11 DEF IsPlaced

(* Wherever a row is put, the sets it is not in keep their answer. *)
LEMMA AnswerKept ==
  ASSUME NEW list \in Seq(DataIDs), NEW x \in DataIDs, NEW P, x \notin P, NEW rows, NEW rows2,
         \A d \in P : Scannable(rows2[d]) <=> Scannable(rows[d]),
         NEW j \in 0..Len(ArrayRemove(list, x)), NEW new, new = Placed(ArrayRemove(list, x), x, j)
  PROVE  Answer(new, P, rows2) = Answer(list, P, rows)
<1>1. PICK rest \in Seq(DataIDs) : rest = ArrayRemove(list, x)
  BY ArrayRemoveType
<1>2. /\ new \in Seq(DataIDs) /\ Len(new) = Len(rest) + 1
      /\ \A m \in 1..j : new[m] = rest[m]
      /\ new[j + 1] = x
      /\ \A m \in (j + 2)..(Len(rest) + 1) : new[m] = rest[m - 1]
  <2>1. j \in 0..Len(rest) /\ new = Placed(rest, x, j)
    BY <1>1
  <2>2. IsPlaced(rest, x, j, new)
    BY <2>1, PlacedElements, Zenon
  <2> QED
    BY <2>2 DEF IsPlaced
<1>3. /\ Len(rest) \in Nat /\ j \in Nat /\ j <= Len(rest)
      /\ DOMAIN rest = 1..Len(rest) /\ DOMAIN new = 1..(Len(rest) + 1)
  BY <1>1, <1>2
<1>4. ASSUME NEW m \in DOMAIN new
      PROVE  \/ m <= j /\ m \in DOMAIN rest /\ new[m] = rest[m]
             \/ m = j + 1 /\ new[m] = x
             \/ m > j + 1 /\ m - 1 \in DOMAIN rest /\ new[m] = rest[m - 1]
  <2>1. CASE m <= j
    BY <1>2, <1>3, <2>1
  <2>2. CASE m = j + 1
    BY <1>2, <2>2
  <2>3. CASE m > j + 1
    <3>1. m \in (j + 2)..(Len(rest) + 1) /\ m - 1 \in 1..Len(rest)
      BY <1>3, <2>3
    <3> QED
      BY <1>2, <1>3, <2>3, <3>1
  <2> QED
    BY <1>3, <2>1, <2>2, <2>3
<1>5. CASE \A i \in DOMAIN list : list[i] \notin P
  <2>1. Members(rest) = Members(list) \ {x}
    BY <1>1, ArrayRemoveMembers
  <2>2. \A m \in DOMAIN rest : rest[m] \notin P
    BY <1>5, <2>1 DEF Members
  <2>3. \A m \in DOMAIN new : new[m] \notin P
    BY <1>4, <2>2
  <2> QED
    BY <1>5, <2>3, AnswerNone
<1>6. ASSUME NEW i \in DOMAIN list, FirstAt(list, P, i)
      PROVE  Answer(new, P, rows2) = Answer(list, P, rows)
  <2>1. i \in DOMAIN list /\ list[i] \in P /\ \A k \in 1..(i - 1) : list[k] \notin P
    BY <1>6 DEF FirstAt
  <2>2. PICK n \in DOMAIN rest : /\ rest[n] = list[i]
                                 /\ \A m \in 1..(n - 1) : rest[m] \notin P
    <3>1. \E n \in DOMAIN ArrayRemove(list, x) :
            /\ ArrayRemove(list, x)[n] = list[i]
            /\ \A m \in 1..(n - 1) : ArrayRemove(list, x)[m] \notin P
      BY <2>1, ArrayRemoveFirst, Zenon
    <3> QED
      BY <1>1, <3>1
  <2>3. PICK k \in DOMAIN new : new[k] = rest[n] /\ k = IF n <= j THEN n ELSE n + 1
    BY <1>2, <1>3
  <2>4. ASSUME NEW m \in 1..(k - 1) PROVE new[m] \notin P
    <3>1. m \in DOMAIN new /\ m < k
      BY <1>3, <2>3
    <3>2. CASE m <= j /\ new[m] = rest[m]
      <4>1. m \in 1..(n - 1)
        BY <1>3, <2>3, <3>1, <3>2
      <4> QED
        BY <2>2, <3>2, <4>1
    <3>3. CASE m > j + 1 /\ new[m] = rest[m - 1]
      <4>1. PICK h : h = m - 1
        OBVIOUS
      <4>2. h \in 1..(n - 1)
        BY <1>3, <2>3, <3>1, <3>3, <4>1
      <4> QED
        BY <2>2, <3>3, <4>1, <4>2
    <3> QED
      BY <1>4, <3>1, <3>2, <3>3
  <2>5. FirstAt(new, P, k)
    BY <2>1, <2>2, <2>3, <2>4 DEF FirstAt
  <2>6. new \in Seq(DataIDs) /\ new[k] = list[i]
    BY <1>2, <2>2, <2>3
  <2> QED
    BY <1>6, <2>1, <2>5, <2>6, SameAnswer
<1> QED
  BY <1>5, <1>6, FirstOrNone

(* What a slot shows changes only by a post of its player into it, by that *)
(* player's withdrawal of an object in it, or by a change that the delete  *)
(* permission of an object in it allows, wherever the statements put their *)
(* rows in the order by update_date.                                       *)
THEOREM SlotMoves == Spec => SlotMovedByPermitted
<1> DEFINE Posted(o, s) ==
             \E d \in DOMAIN objects' \ DOMAIN objects :
               objects'[d].owner = o /\ objects'[d].persistence_slot_id = s
           Written(o, s) ==
             \E w \in Workers : This(w) \in InSlot(o, s) /\
               \/ worker[w].pc = "Delete" /\ worker[w].caller = o
               \/ worker[w].pc = "Change" /\ Allowed(o, worker[w].caller,
                                                     objects[This(w)].delete_permission)
           Shown(o, s) == GetObjectInfoByPersistenceTarget(o, s)
<1>1. ASSUME IInv, [Next]_vars, NEW o \in Players, NEW s \in SlotIDs
      PROVE  Shown(o, s) # Shown(o, s)' => Posted(o, s) \/ Written(o, s)
  <2>1. PICK before : before = InSlot(o, s)
    OBVIOUS
  <2>2. PICK after : after = InSlot(o, s)'
    OBVIOUS
  <2>3. PICK was : was = Answer(recent, before, objects)
    OBVIOUS
  <2>4. PICK now : now = Answer(recent', after, objects')
    OBVIOUS
  <2>5. Shown(o, s) = was /\ Shown(o, s)' = now
    BY <2>1, <2>2, <2>3, <2>4 DEF GetObjectInfoByPersistenceTarget, Answer
  <2> SUFFICES was # now => Posted(o, s) \/ Written(o, s)
    BY <2>5
  <2>6. /\ recent \in Seq(DataIDs) /\ Len(objects) \in Nat /\ DOMAIN objects \subseteq DataIDs
        /\ before \subseteq DOMAIN objects
    BY <1>1, <2>1, RowIDs DEF IInv, RowsInv, InSlot
  <2>7. ASSUME NEW x \in DataIDs, Touch(x), x \notin before, after = before,
               \A d \in before : Scannable(objects'[d]) <=> Scannable(objects[d])
        PROVE  now = was
    <3>1. PICK j \in 0..Len(ArrayRemove(recent, x)) :
            recent' = Placed(ArrayRemove(recent, x), x, j)
      BY <2>7 DEF Touch, Placed
    <3>2. PICK old, new, rows, rows2 :
            old = recent /\ new = recent' /\ rows = objects /\ rows2 = objects'
      OBVIOUS
    <3>3. /\ old \in Seq(DataIDs) /\ j \in 0..Len(ArrayRemove(old, x))
          /\ new = Placed(ArrayRemove(old, x), x, j)
          /\ \A d \in before : Scannable(rows2[d]) <=> Scannable(rows[d])
      BY <2>6, <2>7, <3>1, <3>2
    <3>4. Answer(new, before, rows2) = Answer(old, before, rows)
      BY <2>7, <3>3, AnswerKept
    <3> QED
      BY <2>3, <2>4, <2>7, <3>2, <3>4
  <2>8. ASSUME recent' = recent, after = before,
               \A d \in before : Scannable(objects'[d]) <=> Scannable(objects[d])
        PROVE  now = was
    <3>1. (\E i \in DOMAIN recent : FirstAt(recent, before, i)) \/ (\A i \in DOMAIN recent : recent[i] \notin before)
      BY <2>6, FirstOrNone
    <3>2. PICK old, rows, rows2 : old = recent /\ rows = objects /\ rows2 = objects'
      OBVIOUS
    <3>3. /\ old \in Seq(DataIDs)
          /\ \A d \in before : Scannable(rows2[d]) <=> Scannable(rows[d])
      BY <2>6, <2>8, <3>2
    <3>4. ASSUME NEW i \in DOMAIN old, FirstAt(old, before, i)
          PROVE  Answer(old, before, rows2) = Answer(old, before, rows)
      BY <3>3, <3>4, SameAnswer
    <3>5. Answer(old, before, rows2) = Answer(old, before, rows)
      BY <3>1, <3>2, <3>4, AnswerNone
    <3> QED
      BY <2>3, <2>4, <2>8, <3>2, <3>5
  <2>9. CASE OnlyPublishes
    <3>1. after = before
      BY <2>1, <2>2, <2>9 DEF OnlyPublishes, SameSlot, InSlot
    <3> QED
      BY <2>6, <2>8, <2>9, <3>1 DEF OnlyPublishes, SameSlot
  <2>10. CASE Inserts
    <3>1. PICK n : n = Len(objects')
      OBVIOUS
    <3>2. /\ n \in DataIDs /\ Touch(n) /\ n \notin DOMAIN objects /\ n \in DOMAIN objects'
          /\ \A d \in DOMAIN objects : objects'[d] = objects[d]
      BY <2>10, <3>1 DEF Inserts, Touch
    <3>3. CASE n \in after
      <4>1. objects'[n].owner = o /\ objects'[n].persistence_slot_id = s
        BY <2>2, <3>3 DEF InSlot
      <4> QED
        BY <3>2, <4>1
    <3>4. CASE n \notin after
      <4>1. after = before
        BY <2>1, <2>2, <2>10, <3>1, <3>4 DEF Inserts, InSlot
      <4> QED
        BY <2>6, <2>7, <3>2, <3>4, <4>1
    <3> QED
      BY <3>3, <3>4
  <2>11. ASSUME NEW w \in Workers, Withdraws(w)
         PROVE  now = was \/ Written(o, s)
    <3>1. CASE This(w) \in before
      <4>1. worker[w].caller = o
        BY <2>1, <2>11, <3>1 DEF Withdraws, InSlot
      <4> QED
        BY <2>1, <2>11, <3>1, <4>1 DEF Withdraws
    <3>2. CASE This(w) \notin before
      <4>1. \A d \in before : objects'[d] = objects[d]
        BY <2>6, <2>11, <3>2 DEF Withdraws
      <4>2. after = before
        BY <2>1, <2>2, <2>11, <3>2 DEF Withdraws, InSlot
      <4> QED
        BY <2>8, <2>11, <4>1, <4>2 DEF Withdraws
    <3> QED
      BY <3>1, <3>2
  <2>12. ASSUME NEW w \in Workers, Changes(w)
         PROVE  now = was \/ Written(o, s)
    <3>1. PICK d \in DOMAIN objects : d = This(w)
      BY <2>12 DEF Changes
    <3>2. after = before
      BY <2>1, <2>2, <2>12 DEF Changes, SameSlot, InSlot
    <3>3. Touch(d) /\ d \in DataIDs
      BY <2>6, <2>12, <3>1 DEF Changes
    <3>4. \A e \in before : Scannable(objects'[e]) <=> Scannable(objects[e])
      BY <2>6, <2>12 DEF Changes, SameSlot
    <3>5. CASE d \in before
      <4>1. objects[d].owner = o
        BY <2>1, <3>5 DEF InSlot
      <4> QED
        BY <2>1, <2>12, <3>1, <3>5, <4>1 DEF Changes
    <3>6. CASE d \notin before
      BY <2>7, <3>2, <3>3, <3>4, <3>6
    <3> QED
      BY <3>5, <3>6
  <2> QED
    BY <1>1, <2>9, <2>10, <2>11, <2>12, RowSteps
<1>2. IInv /\ [Next]_vars =>
        [\A o \in Players, s \in SlotIDs :
           GetObjectInfoByPersistenceTarget(o, s) # GetObjectInfoByPersistenceTarget(o, s)' =>
             \/ \E d \in DOMAIN objects' \ DOMAIN objects :
                  objects'[d].owner = o /\ objects'[d].persistence_slot_id = s
             \/ \E w \in Workers : This(w) \in InSlot(o, s) /\
                  \/ worker[w].pc = "Delete" /\ worker[w].caller = o
                  \/ worker[w].pc = "Change" /\ Allowed(o, worker[w].caller,
                                                        objects[This(w)].delete_permission)]_vars
  BY <1>1
<1> QED
  BY <1>2, Invariance, PTL DEF Spec, SlotMovedByPermitted

-----------------------------------------------------------------------------
(* The life of an object. *)

(* The lives of all objects: what the refinement maps to. *)
Lives == [d \in DOMAIN objects |-> Life(d)]

(* Nothing that matters happens to the objects. *)
LEMMA LivesKept ==
  ASSUME DOMAIN objects' = DOMAIN objects, \A d \in DOMAIN objects : Life(d)' = Life(d)
  PROVE  Lives' = Lives
BY DEF Lives

(* A change of the life of one object is a change of its entry. *)
LEMMA OneLife ==
  ASSUME NEW d \in DOMAIN objects, DOMAIN objects' = DOMAIN objects,
         \A e \in DOMAIN objects \ {d} : Life(e)' = Life(e), NEW l, Life(d)' = l
  PROVE  Lives' = [Lives EXCEPT ![d] = l]
BY DEF Lives

(* Posting begins a life. *)
LEMMA InsertLife ==
  ASSUME IInv, NEW p \in Players, NEW post \in Posts, InsertObject(NewObject(p, post)),
         matched' = matched
  PROVE  \E size \in Sizes : Lives' = Append(Lives, Objects!Posted(p, size))
<1>1. PICK o : o = NewObject(p, post)
  OBVIOUS
<1>2. /\ post.size \in Sizes /\ o.owner = p /\ o.size = post.size
      /\ o.upload_completed = FALSE /\ o.deleted = FALSE
  BY <1>1, DataStoreAssumption DEF NewObject, Post
<1>3. PICK n : n = Len(objects)
  OBVIOUS
<1>4. /\ n \in Nat /\ n < MaxObjects /\ MaxObjects \in Nat
      /\ DOMAIN objects = 1..n /\ DOMAIN objects' = 1..(n + 1)
      /\ objects'[n + 1] = o /\ \A d \in 1..n : objects'[d] = objects[d]
  BY <1>1, <1>3, DataStoreAssumption DEF InsertObject, IInv, RowsInv
<1>5. n + 1 \notin matched
  <2>1. ASSUME n + 1 \in matched
        PROVE  FALSE
    <3>1. n + 1 \in DataIDs /\ bucket[n + 1] # NoSize
      BY <2>1 DEF IInv, BucketInv
    <3>2. n + 1 \in DOMAIN objects
      BY <3>1 DEF IInv, BucketInv, Exists
    <3>3. QED
      BY <1>4, <3>2
  <2>2. QED
    BY <2>1
<1>6. PICK l : l = Objects!Posted(p, post.size)
  OBVIOUS
<1>7. (n + 1 \in matched') = FALSE
  BY <1>5
<1>8. Life(n + 1)' = l
  BY <1>2, <1>4, <1>6, <1>7 DEF Life, Objects!Posted
<1>9. \A d \in 1..n : Life(d)' = Life(d)
  BY <1>4 DEF Life
<1>10. PICK x : x = Lives
  OBVIOUS
<1>11. PICK y : y = Lives'
  OBVIOUS
<1>12. x = [d \in 1..n |-> Life(d)]
  BY <1>4, <1>10 DEF Lives
<1>13. y = [d \in 1..(n + 1) |-> Life(d)']
  BY <1>4, <1>11 DEF Lives
<1>14. x \in Seq({x[d] : d \in 1..n}) /\ Len(x) = n
  BY <1>4, <1>12
<1>15. y = Append(x, l)
  <2>1. DOMAIN y = 1..(n + 1) /\ y[n + 1] = l /\ \A d \in 1..n : y[d] = x[d]
    BY <1>4, <1>8, <1>9, <1>12, <1>13
  <2>2. PICK S : S = {x[d] : d \in 1..n} \cup {l}
    OBVIOUS
  <2>3. x \in Seq(S) /\ l \in S
    BY <1>4, <1>12, <2>2
  <2>4. PICK z : z = Append(x, l)
    OBVIOUS
  <2>5. /\ z \in Seq(S) /\ Len(z) = n + 1 /\ z[n + 1] = l
        /\ \A d \in 1..n : z[d] = x[d]
    BY <1>4, <1>14, <2>3, <2>4
  <2>6. z = [d \in 1..(n + 1) |-> z[d]]
    BY <2>5
  <2>7. ASSUME NEW d \in 1..(n + 1)
        PROVE  z[d] = y[d]
    <3>1. d = n + 1 \/ d \in 1..n
      BY <1>4
    <3>2. QED
      BY <2>1, <2>5, <3>1
  <2>8. z = y
    <3>1. y = [d \in 1..(n + 1) |-> y[d]]
      BY <1>13
    <3>2. QED
      BY <2>6, <2>7, <3>1
  <2>9. QED
    BY <2>4, <2>8
<1>16. QED
  BY <1>2, <1>6, <1>10, <1>11, <1>15

(* Uploading changes the life of one object, if the size is right. *)
LEMMA UploadLife ==
  ASSUME IInv, NEW d \in DataIDs, NEW size \in Sizes, Upload(d, size)
  PROVE  \/ Lives' = Lives
         \/ d \in DOMAIN objects /\ Lives' = [Lives EXCEPT ![d].uploaded = TRUE]
<1>1. d \in DOMAIN objects /\ objects' = objects
  BY DEF IInv, BucketInv, Upload
<1>2. CASE matched' = matched
  <2>1. \A e \in DOMAIN objects : Life(e)' = Life(e)
    BY <1>1, <1>2 DEF Life
  <2>2. QED
    BY <1>1, <2>1, LivesKept
<1>3. CASE matched' = matched \cup {d}
  <2>1. \A e \in DOMAIN objects \ {d} : (e \in matched') = (e \in matched)
    BY <1>3
  <2>2. \A e \in DOMAIN objects \ {d} : Life(e)' = Life(e)
    BY <1>1, <2>1 DEF Life
  <2>3. (d \in matched') = TRUE
    BY <1>3
  <2>4. PICK l : l = [Life(d) EXCEPT !.uploaded = TRUE]
    OBVIOUS
  <2>5. Life(d)' = l
    BY <1>1, <2>3, <2>4 DEF Life
  <2>6. Lives' = [Lives EXCEPT ![d] = l]
    BY <1>1, <2>2, <2>5, OneLife
  <2>7. QED
    BY <1>1, <2>4, <2>6 DEF Lives
<1>4. QED
  BY <1>2, <1>3 DEF Upload

(* A completion publishes an object that was uploaded, or does nothing. *)
LEMMA UpdateCompletedLife ==
  ASSUME IInv, NEW w \in Workers, UpdateCompleted(w)
  PROVE  \/ Lives' = Lives
         \/ \E d \in DOMAIN objects : /\ d \in matched
                                      /\ Lives' = [Lives EXCEPT ![d].published = TRUE]
<1>1. matched' = matched /\ objects \in Seq(Object)
  BY DEF UpdateCompleted, IInv, RowsInv
<1>2. CASE Exists(This(w)) /\ SizesAgree(w)
  <2>1. PICK d \in DOMAIN objects : d = This(w)
    BY <1>2 DEF Exists
  <2>2. d \in matched
    BY <1>2, <2>1 DEF IInv, WorkersInv, RequestInv, UpdateCompleted, SizesAgree, InHand, This
  <2>3. objects[d] \in Object
    BY <1>1
  <2>4. PICK o : o = [objects[d] EXCEPT !.upload_completed = TRUE]
    OBVIOUS
  <2>5. /\ o.owner = objects[d].owner /\ o.size = objects[d].size
        /\ o.upload_completed = TRUE /\ o.deleted = objects[d].deleted
    BY <2>3, <2>4 DEF Object
  <2>6. objects' = [objects EXCEPT ![d] = o]
    BY <1>2, <2>1, <2>4 DEF UpdateCompleted
  <2>7. DOMAIN objects' = DOMAIN objects /\ objects'[d] = o
        /\ \A e \in DOMAIN objects \ {d} : objects'[e] = objects[e]
    BY <1>1, <2>6
  <2>8. \A e \in DOMAIN objects \ {d} : Life(e)' = Life(e)
    BY <1>1, <2>7 DEF Life
  <2>9. PICK l : l = [Life(d) EXCEPT !.published = TRUE]
    OBVIOUS
  <2>10. Life(d)' = l
    BY <1>1, <2>5, <2>7, <2>9 DEF Life
  <2>11. Lives' = [Lives EXCEPT ![d] = l]
    BY <2>7, <2>8, <2>10, OneLife
  <2>12. Lives' = [Lives EXCEPT ![d].published = TRUE]
    BY <2>9, <2>11 DEF Lives
  <2>13. QED
    BY <2>2, <2>12
<1>3. CASE ~(Exists(This(w)) /\ SizesAgree(w))
  <2>1. objects' = objects
    BY <1>3 DEF UpdateCompleted
  <2>2. \A e \in DOMAIN objects : Life(e)' = Life(e)
    BY <1>1, <2>1 DEF Life
  <2>3. QED
    BY <2>1, <2>2, LivesKept
<1>4. QED
  BY <1>2, <1>3

(* A deletion withdraws an object. *)
LEMMA MarkDeletedLife ==
  ASSUME IInv, NEW w \in Workers, MarkDeleted(w)
  PROVE  \E d \in DOMAIN objects : Lives' = [Lives EXCEPT ![d].withdrawn = TRUE]
<1>1. /\ matched' = matched /\ objects \in Seq(Object)
      /\ RequestInv(worker[w]) /\ worker[w].pc = "Delete" /\ InHand(worker[w]) = This(w)
  BY DEF MarkDeleted, IInv, RowsInv, WorkersInv, InHand, This
<1>2. PICK d \in DOMAIN objects : d = This(w)
  BY <1>1 DEF RequestInv, Exists
<1>3. objects[d] \in Object
  BY <1>1
<1>4. PICK o : o = [objects[d] EXCEPT !.deleted = TRUE]
  OBVIOUS
<1>5. /\ o.owner = objects[d].owner /\ o.size = objects[d].size
      /\ o.upload_completed = objects[d].upload_completed /\ o.deleted = TRUE
  BY <1>3, <1>4 DEF Object
<1>6. objects' = [objects EXCEPT ![d] = o]
  BY <1>2, <1>4 DEF MarkDeleted
<1>7. DOMAIN objects' = DOMAIN objects /\ objects'[d] = o
      /\ \A e \in DOMAIN objects \ {d} : objects'[e] = objects[e]
  BY <1>1, <1>6
<1>8. \A e \in DOMAIN objects \ {d} : Life(e)' = Life(e)
  BY <1>1, <1>7 DEF Life
<1>9. PICK l : l = [Life(d) EXCEPT !.withdrawn = TRUE]
  OBVIOUS
<1>10. Life(d)' = l
  BY <1>1, <1>5, <1>7, <1>9 DEF Life
<1>11. Lives' = [Lives EXCEPT ![d] = l]
  BY <1>7, <1>8, <1>10, OneLife
<1>12. Lives' = [Lives EXCEPT ![d].withdrawn = TRUE]
  BY <1>9, <1>11 DEF Lives
<1>13. QED
  BY <1>12

(* A change of a column is nothing in the life of an object. *)
LEMMA ChangeColumnLife ==
  ASSUME IInv, NEW w \in Workers, ChangeColumn(w)
  PROVE  Lives' = Lives
<1>1. PICK d \in DOMAIN objects, o \in Object :
           /\ objects' = [objects EXCEPT ![d] = o]
           /\ o.size = objects[d].size /\ o.owner = objects[d].owner
           /\ o.upload_completed = objects[d].upload_completed
           /\ o.deleted = objects[d].deleted
  BY ChangeColumnData
<1>2. objects \in Seq(Object) /\ matched' = matched
  BY DEF IInv, RowsInv, ChangeColumn
<1>3. DOMAIN objects' = DOMAIN objects
      /\ \A e \in DOMAIN objects : objects'[e] = IF e = d THEN o ELSE objects[e]
  BY <1>1, <1>2
<1>4. \A e \in DOMAIN objects : Life(e)' = Life(e)
  BY <1>1, <1>2, <1>3 DEF Life
<1>5. QED
  BY <1>3, <1>4, LivesKept

(* The requests, with their S3 calls, checks that are several calls old,   *)
(* failures and restarts, implement the lives of Publication.              *)
THEOREM ObjectsLive == Spec => ImplementsPublication
<1>1. Init => Objects!Init
  BY DEF Init, Objects!Init
<1>2. IInv /\ [Next]_vars => [Objects!Next]_Lives
  <2> SUFFICES ASSUME IInv, [Next]_vars
               PROVE  Objects!Next \/ Lives' = Lives
    OBVIOUS
  <2>1. ASSUME objects' = objects, matched' = matched
        PROVE  Lives' = Lives
    <3>1. \A d \in DOMAIN objects : Life(d)' = Life(d)
      BY <2>1 DEF Life
    <3>2. QED
      BY <2>1, <3>1, LivesKept
  <2>2. ASSUME NEW p \in Players, NEW post \in Posts,
               PreparePostObject(p, post) \/ PostMetaBinary(p, post)
        PROVE  Objects!Next
    <3>1. PICK size \in Sizes : Lives' = Append(Lives, Objects!Posted(p, size))
      BY <2>2, InsertLife DEF PreparePostObject, PostMetaBinary
    <3>2. Objects!Post(p, size)
      BY <3>1 DEF Lives, Objects!Post
    <3>3. QED
      BY <3>2 DEF Objects!Next
  <2>3. ASSUME NEW d \in DataIDs, NEW size \in Sizes, Upload(d, size)
        PROVE  Objects!Next \/ Lives' = Lives
    <3>1. SUFFICES ASSUME d \in DOMAIN objects, Lives' = [Lives EXCEPT ![d].uploaded = TRUE]
                   PROVE  Objects!Next
      BY <2>3, UploadLife
    <3>2. Objects!Upload(d)
      BY <3>1 DEF Lives, Objects!Upload
    <3>3. QED
      BY <3>1, <3>2 DEF Objects!Next
  <2>4. ASSUME NEW w \in Workers, UpdateCompleted(w)
        PROVE  Objects!Next \/ Lives' = Lives
    <3>1. SUFFICES ASSUME NEW d \in DOMAIN objects, d \in matched,
                          Lives' = [Lives EXCEPT ![d].published = TRUE]
                   PROVE  Objects!Next
      BY <2>4, UpdateCompletedLife
    <3>2. Lives[d].uploaded
      BY <3>1 DEF Lives, Life
    <3>3. Objects!Publish(d)
      BY <3>1, <3>2 DEF Lives, Objects!Publish
    <3>4. QED
      BY <3>1, <3>3 DEF Objects!Next
  <2>5. ASSUME NEW w \in Workers, MarkDeleted(w)
        PROVE  Objects!Next
    <3>1. PICK d \in DOMAIN objects : Lives' = [Lives EXCEPT ![d].withdrawn = TRUE]
      BY <2>5, MarkDeletedLife
    <3>2. Objects!Withdraw(d)
      BY <3>1 DEF Lives, Objects!Withdraw
    <3>3. QED
      BY <3>1, <3>2 DEF Objects!Next
  <2>6. ASSUME NEW w \in Workers, ChangeColumn(w)
        PROVE  Lives' = Lives
    BY <2>6, ChangeColumnLife
  <2>7. CASE UNCHANGED vars
    BY <2>1, <2>7 DEF vars
  <2>8. ASSUME NEW d \in DataIDs, Expire(d)
        PROVE  Lives' = Lives
    BY <2>1, <2>8 DEF Expire
  <2>9. ASSUME NEW w \in Workers, NEW p \in Players,
               \/ \E d \in DataIDs, isSuccess \in BOOLEAN : CompletePostObject(w, p, d, isSuccess)
               \/ \E ids \in Batches : CompletePostObjects(w, p, ids)
               \/ \E d \in DataIDs, m \in Modifications, v \in Values : ChangeMeta(w, p, d, m, v)
        PROVE  Lives' = Lives
    BY <2>1, <2>9 DEF CompletePostObject, CompletePostObjects, ChangeMeta, Start
  <2>10. ASSUME NEW w \in Workers,
                GetObjectInfo(w) \/ GetObjectOwner(w) \/ StatObject(w) \/ CallFails(w)
         PROVE  Lives' = Lives
    BY <2>1, <2>10 DEF GetObjectInfo, GetObjectOwner, StatObject, CallFails, Goto
  <2>11. CASE Restart
    BY <2>1, <2>11 DEF Restart
  <2>12. QED
    BY <2>2, <2>3, <2>4, <2>5, <2>6, <2>7, <2>8, <2>9, <2>10, <2>11 DEF Next, Step
<1>3. IInv /\ [Next]_vars => [Objects!Next]_[d \in DOMAIN objects |-> Life(d)]
  BY <1>2 DEF Lives
<1>4. QED
  BY <1>1, <1>3, Invariance, PTL DEF Spec, ImplementsPublication, Objects!Spec
=============================================================================
