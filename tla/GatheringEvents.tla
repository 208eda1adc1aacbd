-------------------------- MODULE GatheringEvents --------------------------
(***************************************************************************)
(* The notification events that joining and leaving a gathering send: who  *)
(* is told what.  An event is one NotificationEvent to one target; kind is *)
(* its category (and subtype), gid its Param1, about its Param2.  Which    *)
(* targets are reachable is decided where the events are sent.             *)
(***************************************************************************)
EXTENDS GatheringRows

EventKinds == {"NewParticipant", "SwitchGathering", "Ended", "Disconnected",
               "OwnershipChanged", "HostChanged", "GatheringUnregistered"}

Event(kind, g, source, about, targets) ==
  {[kind |-> kind, gid |-> g, source |-> source, about |-> about, to |-> q] : q \in targets}

(* JoinGathering: everyone when the gathering is verbose, else its owner.  *)
(* With VerboseParticipantsEx the joining player is also told who was      *)
(* there before.                                                           *)
JoinEvents(g, r, p, n, f) ==
  LET all == Members(r.participants) \cup {p}
      targets == IF Verbose(r) THEN all ELSE {r.owner} \ {p}
      recap == IF HasFlag(r, {"VerboseParticipantsEx"}) THEN Members(r.participants) ELSE {}
  IN  IF ~JoinSucceeds(r, p, n, f) THEN {}
      ELSE Event("NewParticipant", g, p, p, targets)
             \cup UNION {Event("NewParticipant", g, p, q, {p}) : q \in recap}

(* JoinGatheringWithParticipants: the added players are called in with     *)
(* SwitchGathering, then each new participant is announced.                *)
JoinWithEvents(g, r, p, add, already, f) ==
  LET new == Members(NewParticipants(p, add, already))
      targets == IF Verbose(r) THEN Members(r.participants) \cup new ELSE {r.owner}
      announced == IF Verbose(r) \/ p # r.owner THEN new ELSE {}
      recap == IF HasFlag(r, {"VerboseParticipantsEx"}) THEN Members(r.participants) ELSE {}
  IN  IF ~JoinWithSucceeds(r, p, add, already, f) THEN {}
      ELSE (UNION {Event("SwitchGathering", g, p, q, {q}) : q \in new \ {p}})
             \cup (UNION {Event("NewParticipant", g, p, q, targets) : q \in announced})
             \cup (UNION {Event("NewParticipant", g, p, q, new) : q \in recap})

-----------------------------------------------------------------------------
(* Leaving: how is "Ended" (EndGatheringParticipation) or "Disconnected"   *)
(* (DisconnectParticipant). The first notifies the participants as they    *)
(* were, the leaver included, the second those that remain.                *)

Remaining(r, p) == Members(r.participants) \ {p}

Informed(r, p, how) == IF how = "Ended" THEN Members(r.participants) ELSE Remaining(r, p)

UnregisterEvents(g, p, targets, f) ==
  IF f \in {"Unregister", "LogUnregister"} THEN {}
  ELSE Event("GatheringUnregistered", g, p, NoPID, targets)

MigrateEvents(g, r, p, f) ==
  IF p # r.owner \/ MigrateFails(r, p, f) THEN {}
  ELSE IF NewOwner(r, p) = NoPID THEN UnregisterEvents(g, p, Remaining(r, p), f)
  ELSE Event("OwnershipChanged", g, p, NewOwner(r, p), Remaining(r, p))

(* An error in handing on the ownership or the host ends the function:     *)
(* always in EndGatheringParticipation, only for the log of the new host   *)
(* in DisconnectParticipant.                                               *)
LeaveAborted(r, p, f, how) ==
  \/ HostMoves(r, p, f) /\ f = "LogChangeHost"
  \/ /\ how = "Ended"
     /\ \/ MigrateFails(r, p, f)
        \/ p = r.host /\ CurrentOwner(r, p, f) # NoPID /\ f = "UpdateHost"

(* Who is told that p left: everyone when verbose, else the owner. Both    *)
(* functions read the owner from the row as it was before p left.          *)
LeaveTargets(r, p, how) == IF Verbose(r) THEN Informed(r, p, how) ELSE {r.owner}

LeaveEvents_Silent(g, r, p, f, how) ==
  IF f = "RemoveParticipant" \/ OnlyRemoves(r, f) \/ Abandoned(r, p) THEN {}
  ELSE MigrateEvents(g, r, p, f)
         \cup (IF LeaveAborted(r, p, f, how) THEN {}
               ELSE Event(how, g, p, p, LeaveTargets(r, p, how)))

LeaveEvents(g, r, p, f, how) ==
  IF f = "RemoveParticipant" \/ OnlyRemoves(r, f) THEN {}
  ELSE IF Abandoned(r, p)
    THEN IF Remaining(r, p) = {} THEN {} ELSE UnregisterEvents(g, p, Remaining(r, p), f)
  ELSE MigrateEvents(g, r, p, f)
         \cup (IF HostMoves(r, p, f)
                 THEN Event("HostChanged", g, p, NoPID, Informed(r, p, how)) ELSE {})
         \cup (IF LeaveAborted(r, p, f, how) THEN {}
               ELSE Event(how, g, p, p, LeaveTargets(r, p, how)))
=============================================================================
