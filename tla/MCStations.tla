----------------------------- MODULE MCStations -----------------------------
(* Values of the constants of Stations for TLC. *)
EXTENDS Stations, TLC

CONSTANTS p1, p2, a1, a2

Symmetry == Permutations(PIDs)

StationAt(a, public, nat) == [addr |-> a, public |-> public, nat |-> nat]

(* One station that is taken for local and for public; both, the local one *)
(* last; a station that cannot be used, before a local one.                *)
SomeReports ==
  {<<StationAt(a2, TRUE, "unknown")>>,
   <<StationAt(a2, TRUE, "known"), StationAt(a1, FALSE, "unknown")>>,
   <<StationAt(a2, TRUE, "missing"), StationAt(a1, FALSE, "unknown")>>}

(* A URL that names no connection, and one that names the first connection,*)
(* whosever that is.                                                       *)
SomeURLs == {[addr |-> a1, public |-> TRUE, nat |-> "missing", rvcid |-> id] : id \in {0, 1}}
=============================================================================
