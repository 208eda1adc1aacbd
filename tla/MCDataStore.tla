---------------------------- MODULE MCDataStore ----------------------------
(* Values of the constants of DataStoreReads for TLC. *)
EXTENDS DataStoreReads, TLC

CONSTANTS p1, p2, w1, w2

Symmetry == Permutations(Workers)

OwnerOnly == [level |-> 3, to |-> {}]
ForP2 == [level |-> 2, to |-> {p2}]
Everyone == [level |-> 0, to |-> {}]

PostOf(size, perm, delPerm) ==
  [size |-> size, permission |-> perm, delete_permission |-> delPerm, persistence_slot_id |-> 1,
   value |-> "v1"]

PublicPosts == {PostOf(1, Everyone, Everyone)}
(* one for all to read, one for all to change, one with recipients *)
SharedPosts == {PostOf(1, Everyone, OwnerOnly), PostOf(1, OwnerOnly, Everyone),
                PostOf(1, ForP2, ForP2)}
OpenPosts == {PostOf(1, Everyone, p) : p \in {Everyone, OwnerOnly, ForP2}}

NoBatches == {}
OneBatch == {<<1>>}
PairBatches == {<<>>, <<1, 2>>}
NoChanges == {}
SomeChanges == {{}, {"period", "data_type"}}
OneChange == {{"period"}}
FirstPage == {[offset |-> 0, length |-> 0]}
NoPages == {}
=============================================================================
