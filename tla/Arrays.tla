------------------------------- MODULE Arrays -------------------------------
(***************************************************************************)
(* The operations on the participants column of matchmaking.gatherings, a  *)
(* PostgreSQL bigint[] in which a PID occurs once per slot it holds.       *)
(* Arrays are sequences.  ArrayRemove is defined by the rank of the kept   *)
(* positions instead of by recursion, so that it can be reasoned about in  *)
(* ArraysProofs.                                                           *)
(***************************************************************************)
EXTENDS Integers, Sequences, FiniteSets

(* The members of an array, as a set: what RemoveDuplicates leaves when    *)
(* the order does not matter (notification targets).                       *)
Members(s) == {s[i] : i \in DOMAIN s}

(* The positions of s that array_remove(s, x) keeps. *)
Kept(s, x) == {i \in DOMAIN s : s[i] # x}

(* The position among the members of I of its member i, counting from 1. *)
Rank(I, i) == Cardinality({j \in I : j <= i})

(* A plausible mistake: only the first copy of the PID is removed. *)
ArrayRemove_FirstCopy(s, x) ==
  IF \E i \in DOMAIN s : s[i] = x
    THEN LET k == CHOOSE i \in DOMAIN s : s[i] = x /\ \A j \in 1..(i - 1) : s[j] # x
         IN  [n \in 1..(Len(s) - 1) |-> IF n < k THEN s[n] ELSE s[n + 1]]
    ELSE s

(* array_remove(s, x): s without any of its copies of x, order preserved. *)
ArrayRemove(s, x) ==
  LET keep == Kept(s, x)
  IN  [n \in 1..Cardinality(keep) |-> s[CHOOSE i \in keep : Rank(keep, i) = n]]

(* The slots one caller takes: its PID repeated n times. *)
Copies(x, n) == [i \in 1..n |-> x]

(* The first member of s other than x, none if there is no such member. *)
FirstOther(s, x, none) ==
  IF Kept(s, x) = {} THEN none
                     ELSE s[CHOOSE i \in Kept(s, x) : \A j \in Kept(s, x) : i <= j]
=============================================================================
