--------------------------- MODULE GatheringRows ---------------------------
(***************************************************************************)
(* What the functions of match-making/database do to ONE row of            *)
(* matchmaking.gatherings (with its matchmake_sessions or                  *)
(* persistent_gatherings row): create, join, leave, migrate ownership,     *)
(* unregister.  They issue their SQL statements one by one, outside any    *)
(* transaction, and give up at the first one that fails; f names the       *)
(* statement that fails ("none" when all succeed).                         *)
(*                                                                         *)
(* The fields of a gathering no property tells apart (description, session *)
(* key, application buffer, progress score, dates) are left out; game      *)
(* mode, attributes 1..5, minimum, code word and referred gathering are    *)
(* the row's kind, attribute 0 is community, the ID of the community a     *)
(* session is attached to.                                                 *)
(***************************************************************************)
EXTENDS Arrays

CONSTANTS
  PIDs,        \* principal IDs of the players
  NoPID,       \* the PID 0
  Kinds,       \* abstract (game mode, attributes 1..5)
  CommunityIDs \* values of attribute 0

ASSUME NoPIDAssumption == NoPID \notin PIDs

(* The flags of match_making.GatheringFlags that the code looks at. *)
Flags == {"PersistentGathering", "AllowZeroUsers", "LeaveParticipation",
          "DisconnectChangeOwner", "ParticipantsChangeOwner",
          "VerboseParticipants", "VerboseParticipantsEx"}

(* A gathering as a client describes it. valid is the outcome of           *)
(* CheckValidMatchmakeSession or CheckValidPersistentGathering, attached   *)
(* says that the matchmake system type is PersistentGathering.             *)
Description ==
  [valid : BOOLEAN, max : Nat, flags : SUBSET Flags, open : BOOLEAN,
   password : BOOLEAN, friendsOnly : BOOLEAN, attached : BOOLEAN,
   kind : Kinds, community : CommunityIDs]

(* A row: the description d it was created from, and what changes later.   *)
(* stored says that its row in matchmake_sessions or persistent_gatherings *)
(* exists.                                                                 *)
Row ==
  [type : {"MatchmakeSession", "PersistentGathering"},
   d : Description, registered : BOOLEAN, stored : BOOLEAN,
   owner : PIDs, host : PIDs \cup {NoPID}, open : BOOLEAN,
   kind : Kinds, community : CommunityIDs, participants : Seq(PIDs)]

(* The SQL statements that can fail after an earlier one took effect. A    *)
(* failure of the first statement of a handler changes nothing.            *)
Statements ==
  {"InsertGathering", "LogRegister", "InsertSession",
   "UpdateParticipants", "LogJoin",
   "RemoveParticipant", "LogLeave", "Unregister", "LogUnregister",
   "MigrateOwner", "LogChangeOwner", "UpdateHost", "LogChangeHost"}

Participates(r, p) == p \in Members(r.participants)
HasFlag(r, flags) == r.d.flags \cap flags # {}
Verbose(r) == HasFlag(r, {"VerboseParticipants", "VerboseParticipantsEx"})

-----------------------------------------------------------------------------
(* Creation: RegisterGathering, then the session's or community's own row. *)

Registered(d, owner, host, type, f) ==
  [type |-> type, d |-> d, registered |-> TRUE,
   stored |-> f \notin {"LogRegister", "InsertSession"},
   owner |-> owner, host |-> host, open |-> d.open,
   kind |-> d.kind, community |-> d.community, participants |-> <<>>]

CreateMatchmakeSessionRow(d, p, f) == Registered(d, p, p, "MatchmakeSession", f)

CreatePersistentGatheringRow(d, p, f) == Registered(d, p, NoPID, "PersistentGathering", f)

-----------------------------------------------------------------------------
(* JoinGathering: n slots for p (0 counts as 1). *)

Slots(n) == IF n = 0 THEN 1 ELSE n

CanJoinGathering_NoCount(r, p, n) ==
  /\ r.d.max = 0 \/ Len(r.participants) < r.d.max
  /\ ~Participates(r, p)

CanJoinGathering(r, p, n) ==
  /\ r.d.max = 0 \/ Len(r.participants) + Slots(n) <= r.d.max
  /\ ~Participates(r, p)

JoinGathering_Prepend(r, p, n, f) ==
  IF CanJoinGathering(r, p, n) /\ f \notin {"UpdateParticipants"}
    THEN [r EXCEPT !.participants = Copies(p, Slots(n)) \o @]
    ELSE r

JoinGathering(r, p, n, f) ==
  IF CanJoinGathering(r, p, n) /\ f \notin {"UpdateParticipants"}
    THEN [r EXCEPT !.participants = @ \o Copies(p, Slots(n))]
    ELSE r

JoinSucceeds(r, p, n, f) ==
  CanJoinGathering(r, p, n) /\ f \notin {"UpdateParticipants", "LogJoin"}

(* JoinGatheringWithParticipants: p (unless it says it is already joined)  *)
(* and the PIDs of the list add, which is not checked against the row. A   *)
(* maximum of 0 always is SessionFull here.                                *)
CanJoinGatheringWithParticipants(r, p, add, already) ==
  /\ Len(r.participants) + 1 + Len(add) <= r.d.max
  /\ Participates(r, p) <=> already

NewParticipants(p, add, already) == IF already THEN add ELSE <<p>> \o add

JoinGatheringWithParticipants(r, p, add, already, f) ==
  IF CanJoinGatheringWithParticipants(r, p, add, already) /\ f \notin {"UpdateParticipants"}
    THEN [r EXCEPT !.participants = @ \o NewParticipants(p, add, already)]
    ELSE r

JoinWithSucceeds(r, p, add, already, f) ==
  /\ CanJoinGatheringWithParticipants(r, p, add, already)
  /\ f \notin {"UpdateParticipants", "LogJoin"}

-----------------------------------------------------------------------------
(* Leaving. EndGatheringParticipation and DisconnectParticipant differ in  *)
(* which rows they treat and whom they notify; what they do to the row is  *)
(* the same: remove every slot of p, then unregister the gathering, or     *)
(* hand on its ownership and its host.                                     *)

UnregisterRow(r, f) == IF f \in {"Unregister"} THEN r ELSE [r EXCEPT !.registered = FALSE]

RemoveParticipant(r, p) == [r EXCEPT !.participants = ArrayRemove(@, p)]

NewOwner(r, p) == FirstOther(ArrayRemove(r.participants, p), r.owner, NoPID)

(* The removal of p is all that happens: a later statement failed, or a    *)
(* flag says so.                                                           *)
OnlyRemoves(r, f) ==
  f \in {"LogLeave"} \/ HasFlag(r, {"PersistentGathering", "AllowZeroUsers"})

Abandoned(r, p) ==
  \/ ArrayRemove(r.participants, p) = <<>>
  \/ p = r.owner /\ ~HasFlag(r, {"DisconnectChangeOwner"})

(* MigrateGatheringOwnership gives up at a failing statement, and without  *)
(* a candidate it unregisters; its result, which its callers take for the  *)
(* current owner, is 0 in these cases.                                     *)
MigrateFails(r, p, f) ==
  p = r.owner /\ f \in {"MigrateOwner", "LogChangeOwner"}

CurrentOwner(r, p, f) ==
  IF p # r.owner THEN r.owner
  ELSE IF MigrateFails(r, p, f) THEN NoPID ELSE NewOwner(r, p)

MigrateGatheringOwnership(r, p, f) ==
  IF p # r.owner \/ f \in {"MigrateOwner"} THEN RemoveParticipant(r, p)
  ELSE IF NewOwner(r, p) = NoPID THEN UnregisterRow(RemoveParticipant(r, p), f)
  ELSE [RemoveParticipant(r, p) EXCEPT !.owner = NewOwner(r, p)]

HostMoves_Never(r, p, f) == FALSE

HostMoves_AnyOwner(r, p, f) == p = r.host /\ f \notin {"UpdateHost"}

HostMoves(r, p, f) ==
  p = r.host /\ CurrentOwner(r, p, f) # NoPID /\ f \notin {"UpdateHost"}

Leave(r, p, f) ==
  IF f \in {"RemoveParticipant"} THEN r
  ELSE IF OnlyRemoves(r, f) THEN RemoveParticipant(r, p)
  ELSE IF Abandoned(r, p) THEN UnregisterRow(RemoveParticipant(r, p), f)
  ELSE IF HostMoves(r, p, f)
         THEN [MigrateGatheringOwnership(r, p, f) EXCEPT !.owner = CurrentOwner(r, p, f),
                                                         !.host = CurrentOwner(r, p, f)]
         ELSE MigrateGatheringOwnership(r, p, f)

(* DisconnectParticipant passes over the gatherings a disconnecting player *)
(* stays in.                                                               *)
StaysOnDisconnect_AnyType(r) ==
  HasFlag(r, {"PersistentGathering"}) \/ ~HasFlag(r, {"LeaveParticipation"})

StaysOnDisconnect(r) ==
  \/ HasFlag(r, {"PersistentGathering"})
  \/ r.type = "PersistentGathering" /\ ~HasFlag(r, {"LeaveParticipation"})
=============================================================================
