--------------------------- MODULE DataStoreReads ---------------------------
(***************************************************************************)
(* The reads of the DataStore protocol.  Each is one SELECT, or one per    *)
(* object, so an answer shows one state of each row; none changes          *)
(* anything.  An object is found by its data ID, by the persistence slot   *)
(* of a player, or by a search.  0 stands for an object that is not found  *)
(* or may not be read.                                                     *)
(***************************************************************************)
EXTENDS DataStore

CONSTANTS
  Pages,                  \* result ranges of a search
  LimitMax, LimitDefault  \* 1000 and 100 in the code

ASSUME ReadsAssumption ==
  /\ Pages \subseteq [offset : Nat, length : Nat]
  /\ LimitMax \in Nat /\ LimitDefault \in Nat

(* Of the objects in a slot that are not withdrawn, the one with the       *)
(* latest update_date, whether its upload is complete or not; if that one  *)
(* cannot be scanned, none.                                                *)
InSlot(owner, slot) ==
  {d \in DOMAIN objects : /\ objects[d].owner = owner /\ objects[d].persistence_slot_id = slot
                          /\ ~objects[d].deleted}

GetObjectInfoByPersistenceTarget(owner, slot) ==
  LET places == {i \in DOMAIN recent : recent[i] \in InSlot(owner, slot)}
      latest == recent[CHOOSE i \in places : \A j \in places : i <= j]
  IN  IF places # {} /\ Scannable(objects[latest]) THEN latest ELSE 0

(* A request names the slot of a player if its data ID is 0. *)
ByID(d) == [dataID |-> d, owner |-> CHOOSE p \in Players : TRUE, slot |-> CHOOSE s \in SlotIDs : TRUE]

ObjectInfo(param) ==
  IF param.dataID = 0 THEN GetObjectInfoByPersistenceTarget(param.owner, param.slot)
  ELSE IF Found(param.dataID) THEN param.dataID ELSE 0

Permitted(p, d) == d # 0 /\ Allowed(objects[d].owner, p, objects[d].permission)

GetMeta(p, param) ==
  IF Permitted(p, ObjectInfo(param)) THEN ObjectInfo(param) ELSE 0

(* GetMetas takes data IDs only. *)
GetMetas(p, ids) ==
  [i \in DOMAIN ids |-> IF Found(ids[i]) /\ Permitted(p, ids[i]) THEN ids[i] ELSE 0]

GetMetasMultipleParam(p, params) == [i \in DOMAIN params |-> GetMeta(p, params[i])]

(* A URL to download an object, or none; the answer repeats the data ID of *)
(* the request, 0 also where a slot was asked for.                         *)
PrepareGetObject(p, param) ==
  {[dataID |-> param.dataID, key |-> d, size |-> objects[d].size] : d \in {GetMeta(p, param)} \ {0}}

-----------------------------------------------------------------------------
(* SearchObject: the answer to a search by p for the objects of owners     *)
(* (all if empty) whose data type is one of types, page by page.           *)

Matching_Unfinished(owners, types) ==
  {d \in DOMAIN objects : /\ ~objects[d].deleted
                          /\ objects[d].columns["data_type"] \in types
                          /\ owners = {} \/ objects[d].owner \in owners}

Matching(owners, types) ==
  {d \in DOMAIN objects : /\ objects[d].upload_completed /\ ~objects[d].deleted
                          /\ objects[d].columns["data_type"] \in types
                          /\ owners = {} \/ objects[d].owner \in owners}

Limit(page) == IF page.length = 0 \/ page.length > LimitMax THEN LimitDefault ELSE page.length

(* OFFSET and LIMIT cut a page out of the rows by update_date. *)
PageRows(owners, types, page) ==
  {recent[i] : i \in {j \in DOMAIN recent :
      /\ recent[j] \in Matching(owners, types)
      /\ LET before == Cardinality({k \in 1..(j - 1) : recent[k] \in Matching(owners, types)})
         IN  page.offset <= before /\ before < page.offset + Limit(page)}}

(* A row that cannot be scanned empties the page. *)
Page(owners, types, page) ==
  LET rows == PageRows(owners, types, page)
  IN  IF \A d \in rows : Scannable(objects[d]) THEN rows ELSE {}

SearchObject_Unfiltered(p, owners, types, page) ==
  LET rows == Page(owners, types, page)
  IN  [result |-> rows, totalCount |-> Cardinality(rows), noMoreData |-> TRUE]

SearchObject(p, owners, types, page) ==
  LET rows == Page(owners, types, page)
      result == {d \in rows : Permitted(p, d)}
  IN  [result |-> result, totalCount |-> Cardinality(rows),
       noMoreData |-> Cardinality(rows) = Cardinality(result)]

-----------------------------------------------------------------------------
(* Properties *)

(* What a player finds it can download: every object in the answer to a    *)
(* search is given to the same player by GetMeta, GetMetas and             *)
(* PrepareGetObject, and the URL leads to content that at some time had    *)
(* the size in the answer, although uploads, completions, withdrawals and  *)
(* failures come in any order.                                             *)
SearchedCanBeFetched ==
  \A p \in Players, types \in SUBSET Values, page \in Pages :
  \A d \in SearchObject(p, {}, types, page).result :
    /\ GetMeta(p, ByID(d)) = d /\ GetMetas(p, <<d>>) = <<d>>
    /\ \E a \in PrepareGetObject(p, ByID(d)) : a.key = d /\ bucket[d] # NoSize /\ d \in matched

(* Only who may do so changes what a read of a player's slot answers: it   *)
(* changes by a post of that player into the slot, by that player's        *)
(* withdrawal of an object in the slot, or by a change of an object in the *)
(* slot that the delete permission of that object allows. The changed      *)
(* object need not be the one that comes forward: its new update_date may  *)
(* be older than the one it had. Owner and permission are read some calls  *)
(* before the row is written.                                              *)
SlotMovedByPermitted ==
  [][\A o \in Players, s \in SlotIDs :
       GetObjectInfoByPersistenceTarget(o, s) # GetObjectInfoByPersistenceTarget(o, s)' =>
         \/ \E d \in DOMAIN objects' \ DOMAIN objects :
              objects'[d].owner = o /\ objects'[d].persistence_slot_id = s
         \/ \E w \in Workers : This(w) \in InSlot(o, s) /\
              \/ worker[w].pc = "Delete" /\ worker[w].caller = o
              \/ worker[w].pc = "Change" /\ Allowed(o, worker[w].caller,
                                                     objects[This(w)].delete_permission)]_vars
=============================================================================
