----------------------------- MODULE DataStore -----------------------------
(***************************************************************************)
(* The DataStore protocol: the table datastore.objects, the S3 bucket the  *)
(* clients upload to, and the handlers between them.  No lock is held: a   *)
(* handler is a sequence of SQL statements and S3 calls, each atomic, and  *)
(* the handlers of any number of requests interleave, with each other and  *)
(* with the uploads, which go straight to the bucket.  A handler is run by *)
(* a worker (the goroutine of the request); pc is the call it makes next.  *)
(*                                                                         *)
(* The password columns are always 0, so the password checks pass.  Names, *)
(* tags, dates and extra data are left out.  The requests that only read   *)
(* are in DataStoreReads.                                                  *)
(***************************************************************************)
EXTENDS Arrays

CONSTANTS
  Players,     \* principal IDs
  Workers,     \* requests that can run at the same time
  Sizes,       \* sizes of objects and uploads
  Posts,       \* what clients may post
  Values,      \* abstract values of the columns ChangeMeta may set
  SlotIDs,     \* persistence slots of a player
  Modifications, \* sets of columns a ChangeMeta request may set
  Batches,     \* lists of data IDs of a CompletePostObjects request
  MaxObjects,  \* bound: objects ever posted
  Faults       \* whether a statement or an S3 call may fail

DataIDs == 1..MaxObjects

(* A DataStorePermission: level is its first byte, to its recipients. *)
PermissionType == [level : 0..4, to : SUBSET Players]

(* The columns that ModifiesFlag 0x08, 0x10 and 0x80 select, in the order  *)
(* ChangeMeta writes them.                                                 *)
Columns == <<"period", "meta_binary", "data_type">>
ColumnNames == {Columns[i] : i \in DOMAIN Columns}

Post == [size : Sizes, permission : PermissionType, delete_permission : PermissionType,
         persistence_slot_id : SlotIDs, value : Values]

ASSUME DataStoreAssumption ==
  /\ Players # {} /\ Values # {}
  /\ MaxObjects \in Nat
  /\ Sizes \subseteq Nat
  /\ Posts \subseteq Post
  /\ Modifications \subseteq SUBSET ColumnNames
  /\ Batches \subseteq Seq(DataIDs)
  /\ Faults \in BOOLEAN

VARIABLES
  objects, \* datastore.objects; the data ID of a row is its position
  recent,  \* the data IDs by update_date, the latest date first
  bucket,  \* the sizes of the objects in the S3 bucket, by data ID
  urls,    \* data IDs with a presigned upload URL that has not expired
  worker,  \* the state of each worker
  matched  \* history: data IDs whose upload has had the size of the row

vars == <<objects, recent, bucket, urls, worker, matched>>

Object == [owner : Players, size : Sizes, upload_completed : BOOLEAN, deleted : BOOLEAN,
           permission : PermissionType, delete_permission : PermissionType,
           persistence_slot_id : SlotIDs, columns : [ColumnNames -> Values]]

(* Calls a worker has still to make, and the ways its request ends:        *)
(* successful completion, PermissionDenied because the object is taken to  *)
(* be uploaded, or anything else (idle).                                   *)
Calls == {"GetObjectInfo", "GetObjectOwner", "StatObject", "UpdateCompleted", "Delete", "Change"}
Ends == {"idle", "ok", "uploaded"}
Ops == {"CompletePostObject", "CompletePostObjects", "ChangeMeta"}

NoSize == -1

(* ids is the list of data IDs of the request and i the one in hand; stat  *)
(* is the size the last S3 call returned, isSuccess and modifies are       *)
(* parameters.                                                             *)
Worker == [pc : Calls \cup Ends, op : Ops, caller : Players, ids : Seq(DataIDs), i : Nat,
           stat : Sizes \cup {NoSize}, isSuccess : BOOLEAN, modifies : SUBSET ColumnNames,
           value : Values]

TypeOK ==
  /\ objects \in Seq(Object) /\ Len(objects) <= MaxObjects
  /\ recent \in Seq(DataIDs)
  /\ bucket \in [DataIDs -> Sizes \cup {NoSize}]
  /\ urls \subseteq DataIDs
  /\ worker \in [Workers -> Worker]
  /\ matched \subseteq DataIDs
  /\ \A w \in Workers : worker[w].pc \in Calls => worker[w].i \in 1..Len(worker[w].ids)

Idle == CHOOSE r \in [pc : {"idle"}, op : Ops, caller : Players, ids : {<<>>}, i : {1},
                      stat : {NoSize}, isSuccess : {FALSE}, modifies : {{}}, value : Values] : TRUE

Init ==
  /\ objects = <<>>
  /\ recent = <<>>
  /\ bucket = [d \in DataIDs |-> NoSize]
  /\ urls = {}
  /\ worker = [w \in Workers |-> Idle]
  /\ matched = {}

Exists(d) == d \in DOMAIN objects

(* parseObjectList scans the recipients of both permissions into []uint64, *)
(* for which lib/pq has no conversion: only an empty array can be read.    *)
Scannable(o) == o.permission.to = {} /\ o.delete_permission.to = {}

(* GetObjectInfoByDataID answers with row d. *)
Found(d) == Exists(d) /\ Scannable(objects[d])

(* The data ID a worker has in hand. *)
This(w) == worker[w].ids[worker[w].i]

-----------------------------------------------------------------------------
(* VerifyObjectPermission. Level 1 asks a callback for the owner's friends *)
(* that this server does not set: the call ends the goroutine, so nobody   *)
(* passes.                                                                 *)
Allowed(owner, accessor, permission) ==
  /\ permission.level <= 3
  /\ \/ owner = accessor
     \/ permission.level = 0
     \/ permission.level = 2 /\ accessor \in permission.to

(* A statement that sets update_date may put the row anywhere: the date is *)
(* read from the clock before the statement runs, so two statements may    *)
(* run in the other order, and it is local time in the INSERT and UTC in   *)
(* the UPDATEs, in a column without a time zone. Rows with the same date   *)
(* are taken to keep one order.                                            *)
Touch(d) ==
  LET rest == ArrayRemove(recent, d) IN
  \E i \in 0..Len(rest) :
    recent' = SubSeq(rest, 1, i) \o <<d>> \o SubSeq(rest, i + 1, Len(rest))

-----------------------------------------------------------------------------
(* Posting and uploading. *)

NewObject(p, post) ==
  [owner |-> p, size |-> post.size, upload_completed |-> FALSE, deleted |-> FALSE,
   permission |-> post.permission, delete_permission |-> post.delete_permission,
   persistence_slot_id |-> post.persistence_slot_id,
   columns |-> [c \in ColumnNames |-> post.value]]

InsertObject(o) ==
  /\ Len(objects) < MaxObjects
  /\ objects' = Append(objects, o)
  /\ Touch(Len(objects) + 1)

(* Signing the upload URL may fail; the row stays. *)
PreparePostObject(p, post) ==
  /\ InsertObject(NewObject(p, post))
  /\ \/ urls' = urls \cup {Len(objects) + 1}
     \/ Faults /\ UNCHANGED urls
  /\ UNCHANGED <<bucket, worker, matched>>

PostMetaBinary(p, post) ==
  /\ InsertObject(NewObject(p, post))
  /\ UNCHANGED <<urls, bucket, worker, matched>>

(* A client uploads with a URL it was given, as often as it wants and with *)
(* any content: the policy it is signed for names the key, not the size.   *)
Upload(d, size) ==
  /\ d \in urls
  /\ bucket' = [bucket EXCEPT ![d] = size]
  /\ matched' = IF size = objects[d].size THEN matched \cup {d} ELSE matched
  /\ UNCHANGED <<objects, recent, urls, worker>>

(* Fifteen minutes pass. *)
Expire(d) ==
  /\ d \in urls
  /\ urls' = urls \ {d}
  /\ UNCHANGED <<objects, recent, bucket, worker, matched>>

-----------------------------------------------------------------------------
(* Requests that take several calls. *)

Start(w, op, pc, p, ids, isSuccess, modifies, value) ==
  /\ worker[w].pc \in Ends
  /\ worker' = [worker EXCEPT ![w] =
       [pc |-> pc, op |-> op, caller |-> p, ids |-> ids, i |-> 1, stat |-> NoSize,
        isSuccess |-> isSuccess, modifies |-> modifies, value |-> value]]
  /\ UNCHANGED <<objects, recent, bucket, urls, matched>>

CompletePostObject(w, p, d, isSuccess) ==
  Start(w, "CompletePostObject", "GetObjectInfo", p, <<d>>, isSuccess, {}, worker[w].value)

CompletePostObjects(w, p, ids) ==
  Start(w, "CompletePostObjects", IF ids = <<>> THEN "ok" ELSE "StatObject",
        p, ids, TRUE, {}, worker[w].value)

ChangeMeta(w, p, d, modifies, value) ==
  Start(w, "ChangeMeta", "GetObjectInfo", p, <<d>>, FALSE, modifies, value)

(* A worker goes on at pc; an idle one forgets its request. *)
At(r, pc) == IF pc = "idle" THEN Idle ELSE [r EXCEPT !.pc = pc]

(* Worker w goes on at pc; the call it made is read-only. *)
Goto(w, pc) ==
  /\ worker' = [worker EXCEPT ![w] = At(@, pc)]
  /\ UNCHANGED <<objects, recent, bucket, urls, matched>>

(* A call fails, and every handler but one gives up: CompletePostObject    *)
(* takes any error of GetObjectInfoByDataID for "not uploaded yet".        *)
CallFails(w) ==
  /\ Faults
  /\ worker[w].pc \in Calls
  /\ Goto(w, IF worker[w].pc = "GetObjectInfo" /\ worker[w].op = "CompletePostObject"
               THEN "GetObjectOwner" ELSE "idle")

ChangeAllowed_ByReaders(w) ==
  LET o == objects[This(w)] IN Allowed(o.owner, worker[w].caller, o.permission)

(* ChangeMeta goes by the permission to delete. *)
ChangeAllowed(w) ==
  LET o == objects[This(w)] IN Allowed(o.owner, worker[w].caller, o.delete_permission)

(* What ChangeMeta has to write after what it has written. *)
AfterChange(modifies) == IF modifies = {} THEN "idle" ELSE "Change"

GetObjectInfo(w) ==
  /\ worker[w].pc = "GetObjectInfo"
  /\ Goto(w, IF worker[w].op = "CompletePostObject"
               THEN IF Found(This(w)) THEN "uploaded" ELSE "GetObjectOwner"
             ELSE IF Found(This(w)) /\ ChangeAllowed(w)
               THEN AfterChange(worker[w].modifies) ELSE "idle")

AfterOwner_Unchecked(w) == IF worker[w].isSuccess THEN "StatObject" ELSE "Delete"

AfterOwner(w) ==
  IF objects[This(w)].owner # worker[w].caller THEN "idle"
  ELSE IF worker[w].isSuccess THEN "StatObject" ELSE "Delete"

GetObjectOwner(w) ==
  /\ worker[w].pc = "GetObjectOwner"
  /\ Goto(w, IF Exists(This(w)) THEN AfterOwner(w) ELSE "idle")

StatObject(w) ==
  /\ worker[w].pc = "StatObject"
  /\ worker' = [worker EXCEPT ![w] =
       IF bucket[This(w)] = NoSize THEN Idle
       ELSE [@ EXCEPT !.stat = bucket[This(w)], !.pc = "UpdateCompleted"]]
  /\ UNCHANGED <<objects, recent, bucket, urls, matched>>

(* The comparison of the size S3 gave with the one in the row. *)
SizesAgree_AtLeast(w) == worker[w].stat >= objects[This(w)].size

SizesAgree(w) == worker[w].stat = objects[This(w)].size

(* The next object of a batch; a single completion is a batch of one. *)
NextObject_OneShort(r) ==
  IF r.i >= Len(r.ids) - 1 THEN [r EXCEPT !.pc = "ok"]
                           ELSE [r EXCEPT !.pc = "StatObject", !.i = @ + 1]

NextObject_NoEnd(r) == [r EXCEPT !.pc = "StatObject", !.i = @ + 1]

NextObject(r) ==
  IF r.i = Len(r.ids) THEN [r EXCEPT !.pc = "ok"]
                      ELSE [r EXCEPT !.pc = "StatObject", !.i = @ + 1]

UpdateCompleted_Restores(w) ==
  /\ worker[w].pc = "UpdateCompleted"
  /\ IF Exists(This(w)) /\ SizesAgree(w)
       THEN /\ objects' = [objects EXCEPT ![This(w)].upload_completed = TRUE,
                                          ![This(w)].deleted = FALSE]
            /\ worker' = [worker EXCEPT ![w] = NextObject(@)]
       ELSE /\ worker' = [worker EXCEPT ![w] = Idle]
            /\ UNCHANGED objects
  /\ UNCHANGED <<recent, bucket, urls, matched>>

(* GetObjectSizeByDataID, the comparison and the UPDATE: the size of a row *)
(* never changes, so they may as well be one step.                         *)
UpdateCompleted(w) ==
  /\ worker[w].pc = "UpdateCompleted"
  /\ IF Exists(This(w)) /\ SizesAgree(w)
       THEN /\ objects' = [objects EXCEPT ![This(w)].upload_completed = TRUE]
            /\ worker' = [worker EXCEPT ![w] = NextObject(@)]
       ELSE /\ worker' = [worker EXCEPT ![w] = Idle]
            /\ UNCHANGED objects
  /\ UNCHANGED <<recent, bucket, urls, matched>>

MarkDeleted(w) ==
  /\ worker[w].pc = "Delete"
  /\ objects' = [objects EXCEPT ![This(w)].deleted = TRUE]
  /\ worker' = [worker EXCEPT ![w].pc = "ok"]
  /\ UNCHANGED <<recent, bucket, urls, matched>>

(* One of the three UPDATEs of ChangeMeta, in their order. *)
ChangeColumn(w) ==
  LET todo == worker[w].modifies
      c == Columns[CHOOSE i \in DOMAIN Columns :
                     Columns[i] \in todo /\ \A j \in 1..(i - 1) : Columns[j] \notin todo]
  IN
  /\ worker[w].pc = "Change"
  /\ objects' = [objects EXCEPT ![This(w)].columns[c] = worker[w].value]
  /\ Touch(This(w))
  /\ worker' = [worker EXCEPT ![w] = At([@ EXCEPT !.modifies = todo \ {c}],
                                          AfterChange(todo \ {c}))]
  /\ UNCHANGED <<bucket, urls, matched>>

(* The process ends, with all its requests, and starts again. *)
Restart ==
  /\ worker' = [w \in Workers |-> Idle]
  /\ UNCHANGED <<objects, recent, bucket, urls, matched>>

Step(w) ==
  \/ GetObjectInfo(w) \/ GetObjectOwner(w) \/ StatObject(w)
  \/ UpdateCompleted(w) \/ MarkDeleted(w) \/ ChangeColumn(w)

Next ==
  \/ \E p \in Players, post \in Posts : PreparePostObject(p, post) \/ PostMetaBinary(p, post)
  \/ \E d \in DataIDs : Expire(d) \/ \E size \in Sizes : Upload(d, size)
  \/ \E w \in Workers, p \in Players :
       \/ \E d \in DataIDs, isSuccess \in BOOLEAN : CompletePostObject(w, p, d, isSuccess)
       \/ \E ids \in Batches : CompletePostObjects(w, p, ids)
       \/ \E d \in DataIDs, m \in Modifications, v \in Values : ChangeMeta(w, p, d, m, v)
  \/ \E w \in Workers : Step(w) \/ CallFails(w)
  \/ Restart

Spec == Init /\ [][Next]_vars

-----------------------------------------------------------------------------
(* Properties *)

(* An object is published only after an upload of exactly its declared     *)
(* size: whatever else is uploaded under the same key between the S3 call  *)
(* and the UPDATE, and whichever requests complete it, singly or in        *)
(* batches, with failures and restarts in between.                         *)
PublishedHadItsSize ==
  \A d \in DOMAIN objects : objects[d].upload_completed => d \in matched

(* What has happened to an object. *)
Life(d) ==
  [owner |-> objects[d].owner, size |-> objects[d].size, uploaded |-> d \in matched,
   published |-> objects[d].upload_completed, withdrawn |-> objects[d].deleted]

Objects == INSTANCE Publication WITH life <- [d \in DOMAIN objects |-> Life(d)]

(* However the calls of any number of requests interleave, fail and are    *)
(* cut off, each step does one thing to one object that its life allows:   *)
(* nobody becomes owner of another's object, no object changes its size,   *)
(* is published without content of that size, unpublished, or restored     *)
(* after its owner withdrew it.                                            *)
ImplementsPublication == Objects!Spec

(* When CompletePostObject(s) answers with success, every object it was    *)
(* asked for is published or withdrawn; a batch that stops at an object    *)
(* that fails answers with an error.                                       *)
SuccessMeansAll ==
  \A w \in Workers : LET r == worker[w] IN
    r.pc = "ok" =>
      \A i \in DOMAIN r.ids :
        /\ Exists(r.ids[i])
        /\ IF r.isSuccess THEN objects[r.ids[i]].upload_completed ELSE objects[r.ids[i]].deleted

(* Only a request of the owner withdraws an object, although the owner is  *)
(* read some calls before the row is marked deleted.                       *)
WithdrawnByOwner ==
  [][\A d \in DOMAIN objects : ~objects[d].deleted /\ objects'[d].deleted =>
       \E w \in Workers : /\ worker[w].pc = "Delete" /\ This(w) = d
                          /\ worker[w].caller = objects[d].owner]_vars

(* A column changes only by a ChangeMeta of a player that may delete the   *)
(* object, by the permission in the row at that time, although the         *)
(* permission is checked once, up to three UPDATEs earlier.                *)
ChangedByPermitted ==
  [][\A d \in DOMAIN objects : objects[d].columns # objects'[d].columns =>
       \E w \in Workers : /\ worker[w].pc = "Change" /\ This(w) = d
                          /\ Allowed(objects[d].owner, worker[w].caller,
                                     objects[d].delete_permission)]_vars

(* complete_post_object.go: "If GetObjectInfoByDataID returns data then    *)
(* that means the object has already been marked as uploaded."             *)
RefusedOnlyIfUploaded ==
  \A w \in Workers : worker[w].pc = "uploaded" => objects[This(w)].upload_completed
=============================================================================
