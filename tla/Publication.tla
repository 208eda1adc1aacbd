---------------------------- MODULE Publication ----------------------------
(***************************************************************************)
(* What the DataStore promises about the life of an object, without        *)
(* requests, S3 calls or failures: an object belongs to the player that    *)
(* posted it and keeps its size; it may be published once content of that  *)
(* size has been uploaded; and nothing that happened to it is taken back.  *)
(***************************************************************************)
EXTENDS Integers, Sequences

CONSTANTS Players, Sizes

VARIABLE life  \* of each object, in the order of posting

Init == life = <<>>

Posted(p, size) ==
  [owner |-> p, size |-> size, uploaded |-> FALSE, published |-> FALSE, withdrawn |-> FALSE]

Post(p, size) == life' = Append(life, Posted(p, size))

Upload(d) == life' = [life EXCEPT ![d].uploaded = TRUE]

Publish(d) == life[d].uploaded /\ life' = [life EXCEPT ![d].published = TRUE]

Withdraw(d) == life' = [life EXCEPT ![d].withdrawn = TRUE]

Next ==
  \/ \E p \in Players, size \in Sizes : Post(p, size)
  \/ \E d \in DOMAIN life : Upload(d) \/ Publish(d) \/ Withdraw(d)

Spec == Init /\ [][Next]_life
=============================================================================
