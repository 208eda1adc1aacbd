-------------------------- MODULE GatheringsProofs --------------------------
(***************************************************************************)
(* Proofs about Gatherings, for every set of players, sessions and         *)
(* communities, every bound and every choice of failing SQL statements.    *)
(***************************************************************************)
EXTENDS Gatherings, ArraysProofs, TLAPS

-----------------------------------------------------------------------------
(* One row. *)

(* The maximum of a row is respected. *)
Within(r) == r.d.max # 0 => Len(r.participants) <= r.d.max

GoodRow == {r \in Row : Within(r)}

(* The columns of a row have their types. *)
LEMMA RowFields ==
  ASSUME NEW r \in Row
  PROVE  /\ r.d \in Description /\ r.d.max \in Nat /\ r.d.flags \subseteq Flags
         /\ r.owner \in PIDs /\ r.host \in PIDs \cup {NoPID}
         /\ r.registered \in BOOLEAN /\ r.stored \in BOOLEAN
         /\ r.kind \in Kinds /\ r.community \in CommunityIDs
         /\ r.participants \in Seq(PIDs) /\ Len(r.participants) \in Nat
         /\ Members(r.participants) \subseteq PIDs
<1>1. r.d \in Description /\ r.owner \in PIDs /\ r.host \in PIDs \cup {NoPID}
      /\ r.registered \in BOOLEAN /\ r.stored \in BOOLEAN
      /\ r.kind \in Kinds /\ r.community \in CommunityIDs /\ r.participants \in Seq(PIDs)
  BY DEF Row
<1>2. r.d.max \in Nat /\ r.d.flags \subseteq Flags
  BY <1>1 DEF Description
<1>3. Len(r.participants) \in Nat /\ Members(r.participants) \subseteq PIDs
  BY <1>1 DEF Members
<1>4. QED
  BY <1>1, <1>2, <1>3

(* Writing columns of a row keeps it a row, within its maximum when the    *)
(* new array of participants is.                                           *)
LEMMA ParticipantsUpdate ==
  ASSUME NEW r \in Row, NEW s \in Seq(PIDs), r.d.max # 0 => Len(s) <= r.d.max
  PROVE  /\ [r EXCEPT !.participants = s] \in GoodRow
         /\ [r EXCEPT !.participants = s].d = r.d
         /\ [r EXCEPT !.participants = s].participants = s
BY DEF Row, GoodRow, Within

(* UnregisterGathering's UPDATE keeps a row well formed. *)
LEMMA RegisteredUpdate ==
  ASSUME NEW r \in GoodRow, NEW b \in BOOLEAN
  PROVE  [r EXCEPT !.registered = b] \in GoodRow
BY DEF Row, GoodRow, Within

(* So does a new owner that is a player. *)
LEMMA OwnerUpdate ==
  ASSUME NEW r \in GoodRow, NEW p \in PIDs
  PROVE  [r EXCEPT !.owner = p] \in GoodRow
BY DEF Row, GoodRow, Within

(* So do a new host, and a new owner and host together. *)
LEMMA HostUpdate ==
  ASSUME NEW r \in GoodRow, NEW p \in PIDs, NEW q \in PIDs \cup {NoPID}
  PROVE  /\ [r EXCEPT !.host = q] \in GoodRow
         /\ [r EXCEPT !.owner = p, !.host = q] \in GoodRow
BY DEF Row, GoodRow, Within

(* So do openParticipation, closeParticipation and a new attribute. *)
LEMMA AttributeUpdate ==
  ASSUME NEW r \in GoodRow
  PROVE  /\ \A b \in BOOLEAN : [r EXCEPT !.open = b] \in GoodRow
         /\ \A k \in Kinds : [r EXCEPT !.kind = k] \in GoodRow
         /\ \A c \in CommunityIDs : [r EXCEPT !.community = c] \in GoodRow
BY DEF Row, GoodRow, Within

(* JoinGathering keeps a row within its maximum, for every count. *)
LEMMA JoinGatheringRow ==
  ASSUME NEW r \in GoodRow, NEW p \in PIDs, NEW n \in Nat, NEW f
  PROVE  JoinGathering(r, p, n, f) \in GoodRow
<1>1. CASE JoinGathering(r, p, n, f) = r
  BY <1>1
<1>2. CASE CanJoinGathering(r, p, n)
           /\ JoinGathering(r, p, n, f)
                = [r EXCEPT !.participants = @ \o Copies(p, Slots(n))]
  <2> DEFINE s == r.participants \o Copies(p, Slots(n))
  <2>1. r \in Row /\ r.d.max \in Nat /\ r.participants \in Seq(PIDs)
    BY RowFields DEF GoodRow
  <2>2. Slots(n) \in Nat
    BY DEF Slots
  <2>3. Copies(p, Slots(n)) \in Seq(PIDs) /\ Len(Copies(p, Slots(n))) = Slots(n)
    BY <2>2 DEF Copies
  <2>4. s \in Seq(PIDs) /\ Len(s) = Len(r.participants) + Slots(n)
    BY <2>1, <2>2, <2>3
  <2>5. r.d.max # 0 => Len(s) <= r.d.max
    BY <1>2, <2>1, <2>4 DEF CanJoinGathering
  <2>6. [r EXCEPT !.participants = s] \in GoodRow
    BY <2>1, <2>4, <2>5, ParticipantsUpdate, Zenon
  <2>7. QED
    BY <1>2, <2>6
<1>3. QED
  BY <1>1, <1>2 DEF JoinGathering

(* JoinGatheringWithParticipants does, for every list of players. *)
LEMMA JoinWithRow ==
  ASSUME NEW r \in GoodRow, NEW p \in PIDs, NEW add \in Seq(PIDs), NEW already \in BOOLEAN, NEW f
  PROVE  JoinGatheringWithParticipants(r, p, add, already, f) \in GoodRow
<1> DEFINE new == NewParticipants(p, add, already)
           t == JoinGatheringWithParticipants(r, p, add, already, f)
<1>1. CASE t = r
  BY <1>1
<1>2. CASE CanJoinGatheringWithParticipants(r, p, add, already)
           /\ t = [r EXCEPT !.participants = @ \o new]
  <2> DEFINE s == r.participants \o new
  <2>1. r \in Row /\ r.d.max \in Nat /\ r.participants \in Seq(PIDs)
    BY RowFields DEF GoodRow
  <2>2. new \in Seq(PIDs) /\ Len(new) <= Len(add) + 1
    BY DEF NewParticipants
  <2>3. s \in Seq(PIDs) /\ Len(s) <= Len(r.participants) + 1 + Len(add)
    BY <2>1, <2>2
  <2>4. Len(s) <= r.d.max
    BY <1>2, <2>1, <2>3 DEF CanJoinGatheringWithParticipants
  <2>5. [r EXCEPT !.participants = s] \in GoodRow
    BY <2>1, <2>3, <2>4, ParticipantsUpdate, Zenon
  <2>6. QED
    BY <1>2, <2>5
<1>3. QED
  BY <1>1, <1>2 DEF JoinGatheringWithParticipants

(* Unregistering keeps a row well formed, whether it fails or not. *)
LEMMA UnregisterGoodRow ==
  ASSUME NEW r \in GoodRow, NEW f
  PROVE  UnregisterRow(r, f) \in GoodRow
BY RegisteredUpdate DEF UnregisterRow

(* Removing a player keeps a row well formed and within its maximum. *)
LEMMA RemoveParticipantRow ==
  ASSUME NEW r \in GoodRow, NEW p
  PROVE  /\ RemoveParticipant(r, p) \in GoodRow
         /\ RemoveParticipant(r, p).d = r.d
         /\ RemoveParticipant(r, p).participants = ArrayRemove(r.participants, p)
<1> DEFINE s == ArrayRemove(r.participants, p)
<1>1. r \in Row /\ r.d.max \in Nat /\ r.participants \in Seq(PIDs)
  BY RowFields DEF GoodRow
<1>2. s \in Seq(PIDs) /\ Len(s) <= Len(r.participants)
  BY <1>1, ArrayRemoveType
<1>3. r.d.max # 0 => Len(s) <= r.d.max
  BY <1>1, <1>2 DEF GoodRow, Within
<1>4. RemoveParticipant(r, p) = [r EXCEPT !.participants = s]
  BY DEF RemoveParticipant
<1>5. /\ [r EXCEPT !.participants = s] \in GoodRow
      /\ [r EXCEPT !.participants = s].d = r.d
      /\ [r EXCEPT !.participants = s].participants = s
  BY <1>1, <1>2, <1>3, ParticipantsUpdate, Zenon
<1>6. QED
  BY <1>4, <1>5

(* A candidate for the ownership other than the PID 0 is a player. *)
LEMMA NewOwnerType ==
  ASSUME NEW r \in GoodRow, NEW p
  PROVE  /\ NewOwner(r, p) \in PIDs \cup {NoPID}
         /\ NewOwner(r, p) # NoPID => NewOwner(r, p) \in Members(r.participants) \ {p, r.owner}
<1> DEFINE s == ArrayRemove(r.participants, p)
<1>1. r.participants \in Seq(PIDs) /\ Members(r.participants) \subseteq PIDs
  BY RowFields DEF GoodRow
<1>2. s \in Seq(PIDs) /\ Members(s) = Members(r.participants) \ {p}
  BY <1>1, ArrayRemoveType, ArrayRemoveMembers
<1>3. \/ NewOwner(r, p) \in Members(s) \ {r.owner}
      \/ NewOwner(r, p) = NoPID
  BY <1>2, FirstOtherMember DEF NewOwner
<1>4. QED
  BY <1>1, <1>2, <1>3

(* EndGatheringParticipation and DisconnectParticipant do, whatever fails. *)
LEMMA LeaveRow ==
  ASSUME NEW r \in GoodRow, NEW p \in PIDs, NEW f
  PROVE  Leave(r, p, f) \in GoodRow
<1> DEFINE removed == RemoveParticipant(r, p)
           migrated == MigrateGatheringOwnership(r, p, f)
           owner == CurrentOwner(r, p, f)
<1>1. removed \in GoodRow
  BY RemoveParticipantRow
<1>2. UnregisterRow(removed, f) \in GoodRow
  BY <1>1, UnregisterGoodRow
<1>3. migrated \in GoodRow
  <2>1. CASE NewOwner(r, p) = NoPID
    BY <1>1, <1>2, <2>1 DEF MigrateGatheringOwnership
  <2>2. CASE NewOwner(r, p) # NoPID
    <3>1. NewOwner(r, p) \in PIDs
      BY <2>2, NewOwnerType
    <3>2. [removed EXCEPT !.owner = NewOwner(r, p)] \in GoodRow
      BY <1>1, <3>1, OwnerUpdate
    <3>3. QED
      BY <1>1, <2>2, <3>2 DEF MigrateGatheringOwnership
  <2>3. QED
    BY <2>1, <2>2
<1>4. HostMoves(r, p, f) => owner \in PIDs
  <2>1. r.owner \in PIDs
    BY RowFields DEF GoodRow
  <2>2. owner \in PIDs \cup {NoPID}
    BY <2>1, NewOwnerType DEF CurrentOwner
  <2>3. QED
    BY <2>2 DEF HostMoves
<1>5. HostMoves(r, p, f) => [migrated EXCEPT !.owner = owner, !.host = owner] \in GoodRow
  <2> HIDE DEF migrated, owner
  <2> QED BY <1>3, <1>4, HostUpdate, Zenon
<1>6. QED
  BY <1>1, <1>2, <1>3, <1>5 DEF Leave

(* A new row is well formed, and nobody is in it. *)
LEMMA NewRow ==
  ASSUME NEW d \in Description, NEW p \in PIDs, NEW f
  PROVE  /\ CreateMatchmakeSessionRow(d, p, f) \in GoodRow
         /\ CreatePersistentGatheringRow(d, p, f) \in GoodRow
<1>1. ASSUME NEW h \in PIDs \cup {NoPID},
             NEW type \in {"MatchmakeSession", "PersistentGathering"}
      PROVE  Registered(d, p, h, type, f) \in GoodRow
  <2> DEFINE r == Registered(d, p, h, type, f)
  <2>1. d.open \in BOOLEAN /\ d.kind \in Kinds /\ d.community \in CommunityIDs /\ d.max \in Nat
    BY DEF Description
  <2>2. r \in Row /\ r.d = d /\ r.participants = <<>>
    BY <2>1 DEF Registered, Row
  <2>3. QED
    BY <2>1, <2>2 DEF GoodRow, Within
<1>2. QED
  BY <1>1 DEF CreateMatchmakeSessionRow, CreatePersistentGatheringRow

-----------------------------------------------------------------------------
(* Events. *)

(* A notification event to players is well formed. *)
LEMMA EventType ==
  ASSUME NEW kind \in EventKinds, NEW g \in Nat, NEW p \in PIDs,
         NEW about \in PIDs \cup {NoPID}, NEW targets \in SUBSET PIDs
  PROVE  Event(kind, g, p, about, targets) \subseteq Events
BY DEF Event, Events

(* The events of JoinGathering are well formed. *)
LEMMA JoinEventsType ==
  ASSUME NEW g \in Nat, NEW r \in GoodRow, NEW p \in PIDs, NEW n, NEW f
  PROVE  JoinEvents(g, r, p, n, f) \subseteq Events
<1>1. r.owner \in PIDs /\ Members(r.participants) \subseteq PIDs
  BY RowFields DEF GoodRow
<1>2. \A targets \in SUBSET PIDs, q \in PIDs :
         Event("NewParticipant", g, p, q, targets) \subseteq Events
  BY EventType DEF EventKinds
<1>3. QED
  BY <1>1, <1>2 DEF JoinEvents

(* The events of JoinGatheringWithParticipants are well formed. *)
LEMMA JoinWithEventsType ==
  ASSUME NEW g \in Nat, NEW r \in GoodRow, NEW p \in PIDs, NEW add \in Seq(PIDs),
         NEW already \in BOOLEAN, NEW f
  PROVE  JoinWithEvents(g, r, p, add, already, f) \subseteq Events
<1> DEFINE new == Members(NewParticipants(p, add, already))
<1>1. r.owner \in PIDs /\ Members(r.participants) \subseteq PIDs
  BY RowFields DEF GoodRow
<1>2. new \subseteq PIDs
  <2>1. NewParticipants(p, add, already) \in Seq(PIDs)
    BY DEF NewParticipants
  <2>2. QED
    BY <2>1 DEF Members
<1>3. \A kind \in {"NewParticipant", "SwitchGathering"}, targets \in SUBSET PIDs, q \in PIDs :
         Event(kind, g, p, q, targets) \subseteq Events
  BY EventType DEF EventKinds
<1> DEFINE targets == IF Verbose(r) THEN Members(r.participants) \cup new ELSE {r.owner}
           announced == IF Verbose(r) \/ p # r.owner THEN new ELSE {}
           recap == IF HasFlag(r, {"VerboseParticipantsEx"}) THEN Members(r.participants) ELSE {}
           switched == UNION {Event("SwitchGathering", g, p, q, {q}) : q \in new \ {p}}
           told == UNION {Event("NewParticipant", g, p, q, targets) : q \in announced}
           recapped == UNION {Event("NewParticipant", g, p, q, new) : q \in recap}
<1>4. targets \subseteq PIDs /\ announced \subseteq PIDs /\ recap \subseteq PIDs
  BY <1>1, <1>2
<1>5. switched \subseteq Events /\ told \subseteq Events /\ recapped \subseteq Events
  <2> HIDE DEF new, targets, announced, recap
  <2> QED BY <1>2, <1>3, <1>4
<1>6. JoinWithEvents(g, r, p, add, already, f)
        = IF ~JoinWithSucceeds(r, p, add, already, f) THEN {}
          ELSE switched \cup told \cup recapped
  BY DEF JoinWithEvents
<1>7. QED
  <2> HIDE DEF switched, told, recapped
  <2> QED BY <1>5, <1>6

(* The events of leaving a gathering are well formed. *)
LEMMA LeaveEventsType ==
  ASSUME NEW g \in Nat, NEW r \in GoodRow, NEW p \in PIDs, NEW f,
         NEW how \in {"Ended", "Disconnected"}
  PROVE  LeaveEvents(g, r, p, f, how) \subseteq Events
<1>1. r.owner \in PIDs /\ Members(r.participants) \subseteq PIDs
  BY RowFields DEF GoodRow
<1>2. /\ Remaining(r, p) \in SUBSET PIDs
      /\ Informed(r, p, how) \in SUBSET PIDs
      /\ LeaveTargets(r, p, how) \in SUBSET PIDs
  BY <1>1 DEF Remaining, Informed, LeaveTargets
<1>3. UnregisterEvents(g, p, Remaining(r, p), f) \subseteq Events
  BY <1>2, EventType DEF UnregisterEvents, EventKinds
<1>4. MigrateEvents(g, r, p, f) \subseteq Events
  <2>1. NewOwner(r, p) \in PIDs \cup {NoPID}
    BY NewOwnerType
  <2>2. Event("OwnershipChanged", g, p, NewOwner(r, p), Remaining(r, p)) \subseteq Events
    BY <1>2, <2>1, EventType DEF EventKinds
  <2>3. QED
    BY <1>3, <2>2 DEF MigrateEvents
<1>5. Event("HostChanged", g, p, NoPID, Informed(r, p, how)) \subseteq Events
  BY <1>2, EventType DEF EventKinds
<1>6. Event(how, g, p, p, LeaveTargets(r, p, how)) \subseteq Events
  BY <1>2, EventType DEF EventKinds
<1>7. QED
  BY <1>3, <1>4, <1>5, <1>6 DEF LeaveEvents

-----------------------------------------------------------------------------
(* The inductive invariant. TypeOK and CapacityRespected are not inductive *)
(* as they stand: that a callback is counted needs the sum of the live and *)
(* the ending connections to stay below the bound.                         *)

ConnsOK ==
  /\ live \in [PIDs -> 0..MaxConns]
  /\ ending \in [PIDs -> 0..MaxConns]
  /\ late \in [PIDs -> BOOLEAN]
  /\ \A p \in PIDs : live[p] + ending[p] <= MaxConns

DataOK ==
  /\ gatherings \in Seq(GoodRow)
  /\ Len(gatherings) <= MaxGatherings
  /\ participations \subseteq PIDs \X CommunityIDs
  /\ sent \subseteq Events

IInv == ConnsOK /\ DataOK

(* A handler changes no connection, and at most uses up a late request. *)
LEMMA CallerConns ==
  ASSUME ConnsOK, NEW p \in PIDs, Caller(p)
  PROVE  ConnsOK'
BY DEF ConnsOK, Caller

(* SendNotificationEvent delivers a part of the events it is given. *)
LEMMA SendType ==
  ASSUME NEW events \in SUBSET Events, Send(events)
  PROVE  sent' \subseteq Events
BY DEF Send

(* A row of the table is a well-formed row. *)
LEMMA RowAt ==
  ASSUME NEW rows \in Seq(GoodRow), NEW g \in DOMAIN rows
  PROVE  rows[g] \in GoodRow /\ g \in Nat /\ g \in 1..Len(rows)
OBVIOUS

(* Replacing one row, and treating every row on its own. *)
LEMMA TableExcept ==
  ASSUME NEW rows \in Seq(GoodRow), NEW g \in DOMAIN rows, NEW r \in GoodRow
  PROVE  /\ [rows EXCEPT ![g] = r] \in Seq(GoodRow)
         /\ Len([rows EXCEPT ![g] = r]) = Len(rows)
OBVIOUS

(* Treating every row on its own keeps the table a table. *)
LEMMA TableMap ==
  ASSUME NEW rows \in Seq(GoodRow), NEW t, DOMAIN t = DOMAIN rows,
         t = [g \in DOMAIN rows |-> t[g]],
         \A g \in DOMAIN rows : t[g] \in GoodRow
  PROVE  t \in Seq(GoodRow) /\ Len(t) = Len(rows)
<1>1. DOMAIN rows = 1..Len(rows) /\ Len(rows) \in Nat
  OBVIOUS
<1>2. QED
  BY <1>1

(* EndMatchmakeSessionsParticipation keeps the table, and its events are typed. *)
LEMMA EndTable ==
  ASSUME DataOK, NEW p \in PIDs, NEW f
  PROVE  /\ EndMatchmakeSessions(p, f) \in Seq(GoodRow)
         /\ Len(EndMatchmakeSessions(p, f)) = Len(gatherings)
         /\ EndEvents(p, f) \in SUBSET Events
<1> DEFINE t == EndMatchmakeSessions(p, f)
<1>1. DOMAIN t = DOMAIN gatherings /\ t = [g \in DOMAIN gatherings |-> t[g]]
  BY DEF EndMatchmakeSessions
<1>2. ASSUME NEW g \in DOMAIN gatherings
      PROVE  t[g] \in GoodRow
  <2>1. gatherings[g] \in GoodRow
    BY RowAt DEF DataOK
  <2>2. Leave(gatherings[g], p, At(f, g)) \in GoodRow
    BY <2>1, LeaveRow
  <2>3. QED
    BY <2>1, <2>2 DEF EndMatchmakeSessions
<1>3. t \in Seq(GoodRow) /\ Len(t) = Len(gatherings)
  <2> HIDE DEF t
  <2> QED BY <1>1, <1>2, TableMap DEF DataOK
<1>4. \A g \in DOMAIN gatherings :
         LeaveEvents(g, gatherings[g], p, At(f, g), "Ended") \subseteq Events
  BY RowAt, LeaveEventsType DEF DataOK
<1>5. EndEvents(p, f) \in SUBSET Events
  BY <1>4 DEF EndEvents
<1>6. QED
  BY <1>3, <1>5

(* JoinMatchmakeSession on a table that is well formed leaves one. *)
LEMMA JoinStepData ==
  ASSUME DataOK, NEW rows \in Seq(GoodRow), Len(rows) <= MaxGatherings, NEW g \in DOMAIN rows,
         NEW p \in PIDs, NEW n \in Nat, NEW f, NEW events \in SUBSET Events,
         JoinStep(rows, g, p, n, f, events)
  PROVE  DataOK'
<1> DEFINE r == rows[g]
<1>1. r \in GoodRow /\ g \in Nat /\ r.community \in CommunityIDs
  BY RowAt, RowFields DEF GoodRow
<1>2. gatherings' \in Seq(GoodRow) /\ Len(gatherings') <= MaxGatherings
  <2>1. JoinGathering(r, p, n, At(f, g)) \in GoodRow
    BY <1>1, JoinGatheringRow
  <2>2. gatherings' = [rows EXCEPT ![g] = JoinGathering(r, p, n, At(f, g))]
    BY DEF JoinStep
  <2>3. QED
    BY <2>1, <2>2, TableExcept
<1>3. participations' \subseteq PIDs \X CommunityIDs
  BY <1>1 DEF JoinStep, DataOK
<1>4. sent' \subseteq Events
  <2>1. events \cup JoinEvents(g, r, p, n, At(f, g)) \in SUBSET Events
    BY <1>1, JoinEventsType
  <2>2. QED
    BY <2>1, SendType DEF JoinStep
<1>5. QED
  BY <1>2, <1>3, <1>4 DEF DataOK

(* JoinMatchmakeSessionWithParticipants does too. *)
LEMMA JoinWithStepData ==
  ASSUME DataOK, NEW rows \in Seq(GoodRow), Len(rows) <= MaxGatherings, NEW g \in DOMAIN rows,
         NEW p \in PIDs, NEW add \in Seq(PIDs), NEW already \in BOOLEAN, NEW f,
         NEW events \in SUBSET Events, JoinWithStep(rows, g, p, add, already, f, events)
  PROVE  DataOK'
<1> DEFINE r == rows[g]
<1>1. r \in GoodRow /\ g \in Nat /\ r.community \in CommunityIDs
  BY RowAt, RowFields DEF GoodRow
<1>2. gatherings' \in Seq(GoodRow) /\ Len(gatherings') <= MaxGatherings
  <2>1. JoinGatheringWithParticipants(r, p, add, already, At(f, g)) \in GoodRow
    BY <1>1, JoinWithRow
  <2>2. gatherings'
          = [rows EXCEPT ![g] = JoinGatheringWithParticipants(r, p, add, already, At(f, g))]
    BY DEF JoinWithStep
  <2>3. QED
    BY <2>1, <2>2, TableExcept
<1>3. participations' \subseteq PIDs \X CommunityIDs
  <2>1. Members(add) \subseteq PIDs
    BY DEF Members
  <2>2. QED
    BY <1>1, <2>1 DEF JoinWithStep, DataOK
<1>4. sent' \subseteq Events
  <2>1. events \cup JoinWithEvents(g, r, p, add, already, At(f, g)) \in SUBSET Events
    BY <1>1, JoinWithEventsType
  <2>2. QED
    BY <2>1, SendType DEF JoinWithStep
<1>5. QED
  BY <1>2, <1>3, <1>4 DEF DataOK

(* CreateMatchmakeSession appends one well-formed row. *)
LEMMA CreatedTable ==
  ASSUME DataOK, NEW p \in PIDs, NEW d \in Description, NEW f
  PROVE  /\ Created(d, p, f) \in Seq(GoodRow)
         /\ Len(Created(d, p, f)) = Len(gatherings) + 1
         /\ NewGID \in DOMAIN Created(d, p, f)
<1>1. CreateMatchmakeSessionRow(d, p, At(f, NewGID)) \in GoodRow
  BY NewRow
<1>2. /\ EndMatchmakeSessions(p, f) \in Seq(GoodRow)
      /\ Len(EndMatchmakeSessions(p, f)) = Len(gatherings)
      /\ Len(gatherings) \in Nat
  BY EndTable DEF DataOK
<1>3. QED
  BY <1>1, <1>2 DEF Created, NewGID

(* A request refused after its caller left its sessions keeps the invariant. *)
LEMMA RefusedData ==
  ASSUME DataOK, NEW p \in PIDs, NEW f, RefusedAfterEnd(p, f)
  PROVE  DataOK'
BY EndTable, SendType DEF RefusedAfterEnd, DataOK

(* So does one whose session could not be created. *)
LEMMA CreateFailsData ==
  ASSUME DataOK, NEW p \in PIDs, NEW d \in Description, NEW f, CreateFails(p, d, f)
  PROVE  DataOK'
<1>1. gatherings' \in Seq(GoodRow) /\ Len(gatherings') <= MaxGatherings
  <2>1. Len(gatherings) \in Nat /\ Len(gatherings) < MaxGatherings /\ MaxGatherings \in Nat
    BY GatheringsAssumption DEF DataOK, CreateFails
  <2>2. CASE gatherings' = EndMatchmakeSessions(p, f)
    BY <2>1, <2>2, EndTable
  <2>3. CASE gatherings' = Created(d, p, f)
    BY <2>1, <2>3, CreatedTable
  <2>4. QED
    BY <2>2, <2>3 DEF CreateFails
<1>2. QED
  BY <1>1, EndTable, SendType DEF CreateFails, DataOK

(* So does one that joins the session it found or created, *)
LEMMA EnterData ==
  ASSUME DataOK, NEW p \in PIDs, NEW d \in Description, NEW g \in {0} \cup DOMAIN gatherings,
         NEW n \in Nat, NEW f, Enter(p, d, g, n, f)
  PROVE  DataOK'
<1>1. CASE CreateFails(p, d, f)
  BY <1>1, CreateFailsData
<1>2. CASE CreateSucceeds(f) /\ JoinStep(Created(d, p, f), NewGID, p, n, f, EndEvents(p, f))
  <2>1. Len(Created(d, p, f)) <= MaxGatherings
    BY <1>2, CreatedTable, GatheringsAssumption DEF CreateSucceeds, DataOK
  <2>2. QED
    BY <1>2, <2>1, CreatedTable, EndTable, JoinStepData
<1>3. CASE RefusedAfterEnd(p, f)
  BY <1>3, RefusedData
<1>4. CASE g # 0 /\ JoinStep(EndMatchmakeSessions(p, f), g, p, n, f, EndEvents(p, f))
  <2>1. /\ EndMatchmakeSessions(p, f) \in Seq(GoodRow)
        /\ Len(EndMatchmakeSessions(p, f)) <= MaxGatherings
        /\ g \in DOMAIN EndMatchmakeSessions(p, f)
    BY <1>4, EndTable DEF DataOK
  <2>2. QED
    BY <1>4, <2>1, EndTable, JoinStepData
<1>5. QED
  BY <1>1, <1>2, <1>3, <1>4 DEF Enter

(* also together with invited players. *)
LEMMA EnterWithData ==
  ASSUME DataOK, NEW p \in PIDs, NEW d \in Description, NEW g \in {0} \cup DOMAIN gatherings,
         NEW add \in Seq(PIDs), NEW f, EnterWith(p, d, g, add, f)
  PROVE  DataOK'
<1>1. CASE CreateFails(p, d, f)
  BY <1>1, CreateFailsData
<1>2. CASE CreateSucceeds(f)
           /\ JoinWithStep(Created(d, p, f), NewGID, p, add, FALSE, f, EndEvents(p, f))
  <2>1. Len(Created(d, p, f)) <= MaxGatherings
    BY <1>2, CreatedTable, GatheringsAssumption DEF CreateSucceeds, DataOK
  <2>2. QED
    BY <1>2, <2>1, CreatedTable, EndTable, JoinWithStepData
<1>3. CASE RefusedAfterEnd(p, f)
  BY <1>3, RefusedData
<1>4. CASE g # 0 /\ JoinWithStep(EndMatchmakeSessions(p, f), g, p, add, FALSE, f, EndEvents(p, f))
  <2>1. /\ EndMatchmakeSessions(p, f) \in Seq(GoodRow)
        /\ Len(EndMatchmakeSessions(p, f)) <= MaxGatherings
        /\ g \in DOMAIN EndMatchmakeSessions(p, f)
    BY <1>4, EndTable DEF DataOK
  <2>2. QED
    BY <1>4, <2>1, EndTable, JoinWithStepData
<1>5. QED
  BY <1>1, <1>2, <1>3, <1>4 DEF EnterWith

(* A search finds rows of the table, all of them registered. *)
LEMMA FoundRows ==
  ASSUME NEW rows \in Seq(GoodRow), NEW d, NEW cs, NEW g,
         \/ g \in FindMatchmakeSession(rows, d)
         \/ g \in FindMatchmakeSessionBySearchCriteria(rows, cs)
  PROVE  g \in {0} \cup DOMAIN rows /\ (g # 0 => rows[g].registered)
<1>1. ASSUME NEW c, g \in Results(rows, c)
      PROVE  g \in {0} \cup DOMAIN rows /\ (g # 0 => rows[g].registered)
  BY <1>1 DEF Results, Matches
<1>2. CASE g \in FindMatchmakeSession(rows, d)
  BY <1>2 DEF FindMatchmakeSession, Readable
<1>3. CASE g \in FindMatchmakeSessionBySearchCriteria(rows, cs)
  <2>1. g = 0 \/ g \in Results(rows, cs[1]) \/ g \in Results(rows, cs[2])
    BY <1>3 DEF FindMatchmakeSessionBySearchCriteria
  <2>2. QED
    BY <1>1, <2>1
<1>4. QED
  BY <1>2, <1>3

-----------------------------------------------------------------------------
(* Every action preserves the invariant. *)

(* The handlers that create or search a session, and createCommunity. *)
LEMMA EnteringData ==
  ASSUME DataOK, NEW p \in PIDs, NEW f, Entering(p, f)
  PROVE  Caller(p) /\ DataOK'
<1>a. EndMatchmakeSessions(p, f) \in Seq(GoodRow)
      /\ DOMAIN EndMatchmakeSessions(p, f) = DOMAIN gatherings
  BY EndTable DEF DataOK
<1>1. CASE \E d \in Sessions, n \in Counts : CreateMatchmakeSession(p, d, n, f)
  <2>1. PICK d \in Sessions, n \in Counts : CreateMatchmakeSession(p, d, n, f)
    BY <1>1
  <2>2. d \in Description /\ n \in Nat
    BY GatheringsAssumption
  <2>3. QED
    BY <2>1, <2>2, RefusedData, EnterData DEF CreateMatchmakeSession
<1>2. CASE \E d \in Sessions, add \in Invites, check \in CheckIDs :
             CreateMatchmakeSessionWithParam(p, d, add, check, f)
  <2>1. PICK d \in Sessions, add \in Invites, check \in CheckIDs :
          CreateMatchmakeSessionWithParam(p, d, add, check, f)
    BY <1>2
  <2>2. d \in Description /\ add \in Seq(PIDs)
    BY GatheringsAssumption
  <2>3. QED
    BY <2>1, <2>2, EnterWithData DEF CreateMatchmakeSessionWithParam
<1>3. CASE \E d \in Sessions : AutoMatchmakePostpone(p, d, f)
  <2>1. PICK d \in Sessions : AutoMatchmakePostpone(p, d, f)
    BY <1>3
  <2>2. d \in Description
    BY GatheringsAssumption
  <2>3. CASE RefusedAfterEnd(p, f)
    BY <2>1, <2>3, RefusedData DEF AutoMatchmakePostpone
  <2>4. CASE \E g \in FindMatchmakeSession(EndMatchmakeSessions(p, f), d) : Enter(p, d, g, 1, f)
    <3>1. PICK g \in FindMatchmakeSession(EndMatchmakeSessions(p, f), d) : Enter(p, d, g, 1, f)
      BY <2>4
    <3>2. g \in {0} \cup DOMAIN gatherings
      BY <1>a, FoundRows
    <3>3. QED
      BY <2>1, <2>2, <3>1, <3>2, EnterData DEF AutoMatchmakePostpone
  <2>5. QED
    BY <2>1, <2>3, <2>4 DEF AutoMatchmakePostpone
<1>4. CASE \E d \in Sessions, cs \in CriteriaLists, add \in Invites, check \in CheckIDs :
             AutoMatchmakeWithParamPostpone(p, d, cs, add, check, f)
  <2>1. PICK d \in Sessions, cs \in CriteriaLists, add \in Invites, check \in CheckIDs :
          AutoMatchmakeWithParamPostpone(p, d, cs, add, check, f)
    BY <1>4
  <2>2. d \in Description /\ add \in Seq(PIDs)
    BY GatheringsAssumption
  <2>3. PICK g \in FindMatchmakeSessionBySearchCriteria(EndMatchmakeSessions(p, f), cs) :
          EnterWith(p, d, g, add, f)
    BY <2>1 DEF AutoMatchmakeWithParamPostpone
  <2>4. g \in {0} \cup DOMAIN gatherings
    BY <1>a, FoundRows
  <2>5. QED
    BY <2>1, <2>2, <2>3, <2>4, EnterWithData DEF AutoMatchmakeWithParamPostpone
<1>5. CASE \E d \in Sessions, cs \in CriteriaLists :
             AutoMatchmakeWithSearchCriteriaPostpone(p, d, cs, f)
  <2>1. PICK d \in Sessions, cs \in CriteriaLists :
          AutoMatchmakeWithSearchCriteriaPostpone(p, d, cs, f)
    BY <1>5
  <2> DEFINE n == IF Len(cs) = 0 THEN 1 ELSE cs[1].vacant
             found == FindMatchmakeSessionBySearchCriteria(EndMatchmakeSessions(p, f), cs)
  <2>2. d \in Description
    BY GatheringsAssumption
  <2>3. n \in Nat
    <3>1. cs \in Seq(Criteria)
      BY CriteriaAssumption
    <3>2. Len(cs) # 0 => cs[1] \in Criteria
      BY <3>1
    <3>3. QED
      BY <3>2 DEF Criteria
  <2>4. CASE RefusedAfterEnd(p, f)
    BY <2>1, <2>4, RefusedData DEF AutoMatchmakeWithSearchCriteriaPostpone
  <2>5. CASE \E g \in found : Enter(p, d, g, n, f)
    <3>1. PICK g \in found : Enter(p, d, g, n, f)
      BY <2>5
    <3>2. g \in {0} \cup DOMAIN gatherings
      BY <1>a, FoundRows
    <3>3. DataOK'
      <4> HIDE DEF n
      <4> QED BY <2>2, <2>3, <3>1, <3>2, EnterData
    <3>4. QED
      BY <2>1, <3>3 DEF AutoMatchmakeWithSearchCriteriaPostpone
  <2>6. QED
    BY <2>1, <2>4, <2>5 DEF AutoMatchmakeWithSearchCriteriaPostpone
<1>6. CASE \E d \in Communities : CreateCommunity(p, d, f)
  <2>1. PICK d \in Communities : CreateCommunity(p, d, f)
    BY <1>6
  <2> DEFINE r == CreatePersistentGatheringRow(d, p, At(f, NewGID))
             t == IF r.stored THEN JoinGathering(r, p, 1, At(f, NewGID)) ELSE r
  <2>2. r \in GoodRow
    BY NewRow, GatheringsAssumption
  <2>3. t \in GoodRow
    BY <2>2, JoinGatheringRow
  <2>4. NewGID \in Nat
    BY DEF NewGID, DataOK
  <2>5. (IF r.stored THEN JoinEvents(NewGID, r, p, 1, At(f, NewGID)) ELSE {}) \in SUBSET Events
    BY <2>2, <2>4, JoinEventsType
  <2>6. sent' \subseteq Events
    BY <2>1, <2>5, SendType DEF CreateCommunity
  <2>7. /\ gatherings' = Append(gatherings, t) /\ Len(gatherings) < MaxGatherings
        /\ UNCHANGED participations /\ Caller(p)
    BY <2>1 DEF CreateCommunity
  <2>8. gatherings' \in Seq(GoodRow) /\ Len(gatherings') <= MaxGatherings
    <3> HIDE DEF t
    <3> QED BY <2>3, <2>7, GatheringsAssumption DEF DataOK
  <2>9. QED
    BY <2>6, <2>7, <2>8 DEF DataOK
<1>7. QED
  BY <1>1, <1>2, <1>3, <1>4, <1>5, <1>6 DEF Entering

(* The handlers that change the host and the owner. *)
LEMMA TakeHostData ==
  ASSUME DataOK, NEW p \in PIDs, NEW g \in DOMAIN gatherings, NEW f,
         TakeHost(p, g, f) \/ TakeOwnership(p, g, f)
  PROVE  Caller(p) /\ DataOK'
<1> DEFINE r == gatherings[g]
<1>1. r \in GoodRow /\ g \in Nat /\ Members(r.participants) \subseteq PIDs
      /\ r.owner \in PIDs /\ r.host \in PIDs \cup {NoPID}
  BY RowAt, RowFields DEF DataOK, GoodRow
<1>2. CASE TakeHost(p, g, f)
  <2> DEFINE h == IF At(f, g) = "UpdateHost" THEN r.host ELSE p
  <2>1. [r EXCEPT !.host = h] \in GoodRow
    BY <1>1, HostUpdate
  <2>2. gatherings' = [gatherings EXCEPT ![g] = [r EXCEPT !.host = h]]
    BY <1>2 DEF TakeHost
  <2>3. gatherings' \in Seq(GoodRow) /\ Len(gatherings') = Len(gatherings)
    <3> HIDE DEF r, h
    <3> QED BY <2>1, <2>2, TableExcept DEF DataOK
  <2>4. QED
    BY <1>2, <2>3, SendType DEF TakeHost, DataOK
<1>3. CASE TakeOwnership(p, g, f)
  <2> DEFINE o == IF At(f, g) = "UpdateHost" THEN r.owner ELSE p
             h == IF At(f, g) = "UpdateHost" THEN r.host ELSE p
             events == IF At(f, g) \in {"UpdateHost", "LogChangeHost", "LogChangeOwner"} THEN {}
                       ELSE Event("OwnershipChanged", g, p, p, Members(r.participants))
  <2>1. [r EXCEPT !.owner = o, !.host = h] \in GoodRow
    BY <1>1, HostUpdate
  <2>2. gatherings' = [gatherings EXCEPT ![g] = [r EXCEPT !.owner = o, !.host = h]]
    BY <1>3 DEF TakeOwnership
  <2>3. gatherings' \in Seq(GoodRow) /\ Len(gatherings') = Len(gatherings)
    <3> HIDE DEF r, o, h
    <3> QED BY <2>1, <2>2, TableExcept DEF DataOK
  <2>4. events \in SUBSET Events
    BY <1>1, EventType DEF EventKinds
  <2>5. QED
    BY <1>3, <2>3, <2>4, SendType DEF TakeOwnership, DataOK
<1>4. QED
  BY <1>2, <1>3

(* The handlers that join a session by its ID. *)
LEMMA JoinByID ==
  ASSUME DataOK, NEW p \in PIDs, NEW g \in DOMAIN gatherings, NEW n \in Nat, NEW f,
         JoinMatchmakeSessionEx(p, g, n, f)
  PROVE  Caller(p) /\ DataOK'
<1>1. /\ Caller(p) /\ JoinStep(gatherings, g, p, n, f, {})
      /\ gatherings \in Seq(GoodRow) /\ Len(gatherings) <= MaxGatherings
  BY DEF JoinMatchmakeSessionEx, DataOK
<1>2. QED
  BY <1>1, JoinStepData

(* All the handlers that are given a gathering. *)
LEMMA VisitingData ==
  ASSUME DataOK, NEW p \in PIDs, NEW g \in DOMAIN gatherings, NEW f, Visiting(p, g, f)
  PROVE  Caller(p) /\ DataOK'
<1>1. CASE JoinMatchmakeSession(p, g, f)
  BY <1>1, JoinByID DEF JoinMatchmakeSession
<1>2. CASE \E n \in Counts : JoinMatchmakeSessionEx(p, g, n, f)
  BY <1>2, JoinByID, GatheringsAssumption
<1>3. CASE \E add \in Invites, check \in CheckIDs, already \in BOOLEAN :
             JoinMatchmakeSessionWithParam(p, g, add, check, already, f)
  <2>1. PICK add \in Invites, check \in CheckIDs, already \in BOOLEAN :
          JoinMatchmakeSessionWithParam(p, g, add, check, already, f)
    BY <1>3
  <2>2. /\ Caller(p) /\ JoinWithStep(gatherings, g, p, add, already, f, {})
        /\ gatherings \in Seq(GoodRow) /\ Len(gatherings) <= MaxGatherings
    BY <2>1 DEF JoinMatchmakeSessionWithParam, DataOK
  <2>3. add \in Seq(PIDs)
    BY GatheringsAssumption
  <2>4. QED
    BY <2>2, <2>3, JoinWithStepData
<1>4. CASE EndParticipation(p, g, f)
  <2>1. gatherings[g] \in GoodRow /\ g \in Nat
    BY RowAt DEF DataOK
  <2>2. Leave(gatherings[g], p, At(f, g)) \in GoodRow
    BY <2>1, LeaveRow
  <2>3. LeaveEvents(g, gatherings[g], p, At(f, g), "Ended") \in SUBSET Events
    BY <2>1, LeaveEventsType
  <2>4. gatherings' \in Seq(GoodRow) /\ Len(gatherings') = Len(gatherings)
    BY <1>4, <2>2, TableExcept DEF EndParticipation, DataOK
  <2>5. QED
    BY <1>4, <2>3, <2>4, SendType DEF EndParticipation, DataOK
<1>5. CASE UnregisterGathering(p, g, f)
  <2>1. gatherings[g] \in GoodRow /\ g \in Nat
    BY RowAt DEF DataOK
  <2>2. UnregisterRow(gatherings[g], At(f, g)) \in GoodRow
    BY <2>1, UnregisterGoodRow
  <2>3. UnregisterEvents(g, p, Members(gatherings[g].participants), At(f, g)) \in SUBSET Events
    <3>1. Members(gatherings[g].participants) \subseteq PIDs
      BY <2>1, RowFields DEF GoodRow
    <3>2. QED
      BY <2>1, <3>1, EventType DEF UnregisterEvents, EventKinds
  <2>4. gatherings' \in Seq(GoodRow) /\ Len(gatherings') = Len(gatherings)
    BY <1>5, <2>2, TableExcept DEF UnregisterGathering, DataOK
  <2>5. QED
    BY <1>5, <2>3, <2>4, SendType DEF UnregisterGathering, DataOK
<1>6. CASE \E migrate \in BOOLEAN : UpdateSessionHost(p, g, migrate, f)
  BY <1>6, TakeHostData DEF UpdateSessionHost
<1>7. CASE UpdateSessionHostV1(p, g, f)
  BY <1>7, TakeHostData DEF UpdateSessionHostV1
<1>8. CASE UpdateSessionURL(p, g, f)
  BY <1>8, TakeHostData DEF UpdateSessionURL
<1>9. QED
  BY <1>1, <1>2, <1>3, <1>4, <1>5, <1>6, <1>7, <1>8 DEF Visiting

(* The OnConnectionEnded callback. *)
LEMMA DisconnectData ==
  ASSUME DataOK, NEW p \in PIDs, NEW f, DisconnectParticipant(p, f)
  PROVE  DataOK'
<1>1. DOMAIN gatherings' = DOMAIN gatherings
      /\ gatherings' = [g \in DOMAIN gatherings |-> gatherings'[g]]
  BY DEF DisconnectParticipant
<1>2. ASSUME NEW g \in DOMAIN gatherings
      PROVE  gatherings'[g] \in GoodRow
  <2>1. gatherings[g] \in GoodRow
    BY RowAt DEF DataOK
  <2>2. Leave(gatherings[g], p, At(f, g)) \in GoodRow
    BY <2>1, LeaveRow
  <2>3. QED
    BY <2>1, <2>2 DEF DisconnectParticipant
<1>3. gatherings' \in Seq(GoodRow) /\ Len(gatherings') = Len(gatherings)
  BY <1>1, <1>2, TableMap DEF DataOK
<1>4. \A g \in DOMAIN gatherings :
         LeaveEvents(g, gatherings[g], p, At(f, g), "Disconnected") \subseteq Events
  BY RowAt, LeaveEventsType DEF DataOK
<1>5. UNION {LeaveEvents(g, gatherings[g], p, At(f, g), "Disconnected") :
               g \in {h \in DOMAIN gatherings : LeavesOnDisconnect(gatherings[h], p)}}
        \in SUBSET Events
  BY <1>4
<1>6. sent' \subseteq Events
  BY <1>5, SendType DEF DisconnectParticipant
<1>7. QED
  BY <1>3, <1>6 DEF DisconnectParticipant, DataOK

(* The handlers that change a column of a session. *)
LEMMA ManagingData ==
  ASSUME DataOK, NEW p \in PIDs, NEW g \in DOMAIN gatherings,
         \/ \E open \in BOOLEAN : SetParticipation(p, g, open)
         \/ ModifyCurrentGameAttribute(p, g)
  PROVE  Caller(p) /\ DataOK'
<1>1. gatherings[g] \in GoodRow
  BY RowAt DEF DataOK
<1>2. PICK r \in GoodRow : gatherings' = [gatherings EXCEPT ![g] = r]
  BY <1>1, AttributeUpdate DEF SetParticipation, ModifyCurrentGameAttribute
<1>3. gatherings' \in Seq(GoodRow) /\ Len(gatherings') = Len(gatherings)
  BY <1>2, TableExcept DEF DataOK
<1>4. Caller(p) /\ Send({}) /\ UNCHANGED participations
  BY DEF SetParticipation, ModifyCurrentGameAttribute
<1>5. QED
  BY <1>3, <1>4, SendType DEF DataOK

(* A restart of the server. *)
LEMMA RestartStep ==
  ASSUME IInv, Restart
  PROVE  IInv'
<1>1. ASSUME NEW g \in DOMAIN gatherings
      PROVE  gatherings'[g] \in GoodRow
  <2>1. gatherings[g] \in GoodRow
    BY RowAt DEF IInv, DataOK
  <2>2. [gatherings[g] EXCEPT !.registered = FALSE] \in GoodRow
    BY <2>1, RegisteredUpdate
  <2>3. QED
    BY <2>1, <2>2 DEF Restart
<1>2. DOMAIN gatherings' = DOMAIN gatherings
      /\ gatherings' = [g \in DOMAIN gatherings |-> gatherings'[g]]
  BY DEF Restart
<1>3. gatherings' \in Seq(GoodRow) /\ Len(gatherings') = Len(gatherings)
  BY <1>1, <1>2, TableMap DEF IInv, DataOK
<1>4. DataOK'
  BY <1>3 DEF Restart, IInv, DataOK
<1>5. ConnsOK'
  BY GatheringsAssumption DEF Restart, ConnsOK
<1>6. QED
  BY <1>4, <1>5 DEF IInv

(* A connection begins, ends, and is cleaned up. *)
LEMMA ConnectionStep ==
  ASSUME ConnsOK, NEW p \in PIDs,
         \/ Connect(p)
         \/ ConnectionEnded(p)
         \/ \E f \in FaultPoints : DisconnectParticipant(p, f)
  PROVE  ConnsOK'
<1>0. MaxConns \in Nat
  BY GatheringsAssumption
<1>1. CASE Connect(p)
  BY <1>0, <1>1 DEF ConnsOK, Connect
<1>2. CASE ConnectionEnded(p)
  <2>1. /\ live' = [live EXCEPT ![p] = @ - 1] /\ live[p] > 0
        /\ ending' = [ending EXCEPT ![p] = @ + 1]
        /\ late' = late \/ late' = [late EXCEPT ![p] = TRUE]
    BY <1>2 DEF ConnectionEnded
  <2>2. late' \in [PIDs -> BOOLEAN]
    BY <2>1 DEF ConnsOK
  <2>3. live[p] \in 0..MaxConns /\ ending[p] \in 0..MaxConns /\ live[p] + ending[p] <= MaxConns
    BY DEF ConnsOK
  <2>4. live' \in [PIDs -> 0..MaxConns] /\ ending' \in [PIDs -> 0..MaxConns]
    BY <1>0, <2>1, <2>3 DEF ConnsOK
  <2>5. \A q \in PIDs : live'[q] + ending'[q] <= MaxConns
    BY <1>0, <2>1 DEF ConnsOK
  <2>6. QED
    BY <2>2, <2>4, <2>5 DEF ConnsOK
<1>3. CASE \E f \in FaultPoints : DisconnectParticipant(p, f)
  BY <1>0, <1>3 DEF ConnsOK, DisconnectParticipant
<1>4. QED
  BY <1>1, <1>2, <1>3

(* Every step of Gatherings preserves the invariant. *)
LEMMA NextStep ==
  ASSUME IInv, [Next]_vars
  PROVE  IInv'
<1>1. CASE UNCHANGED vars
  BY <1>1 DEF vars, IInv, ConnsOK, DataOK
<1>2. CASE Restart
  BY <1>2, RestartStep
<1>3. ASSUME NEW p \in PIDs, Connect(p) \/ ConnectionEnded(p)
      PROVE  IInv'
  <2>1. DataOK'
    BY <1>3, SendType DEF IInv, DataOK, Connect, ConnectionEnded
  <2>2. QED
    BY <1>3, <2>1, ConnectionStep DEF IInv
<1>4. ASSUME NEW p \in PIDs, NEW f \in FaultPoints, DisconnectParticipant(p, f)
      PROVE  IInv'
  BY <1>4, DisconnectData, ConnectionStep DEF IInv
<1>5. ASSUME NEW p \in PIDs, NEW f \in FaultPoints, Entering(p, f)
      PROVE  IInv'
  BY <1>5, EnteringData, CallerConns DEF IInv
<1>6. ASSUME NEW p \in PIDs, NEW f \in FaultPoints, NEW g \in GIDs, Visiting(p, g, f)
      PROVE  IInv'
  BY <1>6, VisitingData, CallerConns DEF IInv, GIDs
<1>7. ASSUME NEW p \in PIDs, NEW g \in GIDs,
             \/ \E open \in BOOLEAN : SetParticipation(p, g, open)
             \/ ModifyCurrentGameAttribute(p, g)
      PROVE  IInv'
  BY <1>7, ManagingData, CallerConns DEF IInv, GIDs
<1>8. QED
  BY <1>1, <1>2, <1>3, <1>4, <1>5, <1>6, <1>7 DEF Next

(* The empty tables of a new server satisfy the invariant. *)
LEMMA InitInv ==
  ASSUME Init
  PROVE  IInv
BY GatheringsAssumption DEF Init, IInv, ConnsOK, DataOK

(* The invariant gives type correctness and the maximum. *)
LEMMA InvImplies ==
  ASSUME IInv
  PROVE  TypeOK /\ CapacityRespected
<1>1. gatherings \in Seq(Row)
  <2>1. GoodRow \subseteq Row
    BY DEF GoodRow
  <2>2. QED
    BY <2>1 DEF IInv, DataOK
<1>2. TypeOK
  BY <1>1 DEF IInv, ConnsOK, DataOK, TypeOK
<1>3. CapacityRespected
  BY RowAt DEF IInv, DataOK, CapacityRespected, GIDs, GoodRow, Within
<1>4. QED
  BY <1>2, <1>3

(* The invariant holds in every reachable state. *)
THEOREM Invariance == Spec => []IInv
<1>1. Init => IInv
  BY InitInv
<1>2. IInv /\ [Next]_vars => IInv'
  BY NextStep
<1>3. QED
  BY <1>1, <1>2, PTL DEF Spec

(* Whatever requests, callbacks, restarts and failing statements come in   *)
(* whatever order, the table, the connections and the events stay well     *)
(* formed: in particular no gathering is ever owned by the PID 0, which    *)
(* MigrateGatheringOwnership returns when it fails.                        *)
THEOREM TypeCorrect == Spec => []TypeOK
<1>1. IInv => TypeOK
  BY InvImplies
<1>2. QED
  BY <1>1, Invariance, PTL

(* No gathering ever holds more slots than its maximum: the SessionFull    *)
(* checks of JoinGathering and JoinGatheringWithParticipants cover every   *)
(* way in, for every maximum, count and list of invited players.           *)
THEOREM CapacityNeverExceeded == Spec => []CapacityRespected
<1>1. IInv => CapacityRespected
  BY InvImplies
<1>2. QED
  BY <1>1, Invariance, PTL

-----------------------------------------------------------------------------
(* Unregistered gatherings. t has the unregistered rows of the table. *)

FrozenIn(t) == \A g \in GIDs : ~gatherings[g].registered => t[g] = gatherings[g]

(* Replacing a registered row leaves the unregistered ones alone. *)
LEMMA ExceptFrozen ==
  ASSUME NEW rows \in Seq(GoodRow), FrozenIn(rows), NEW h,
         h \in GIDs => rows[h].registered, NEW r, DOMAIN gatherings \subseteq DOMAIN rows
  PROVE  FrozenIn([rows EXCEPT ![h] = r])
BY DEF FrozenIn, GIDs

(* EndMatchmakeSessionsParticipation passes over unregistered rows. *)
LEMMA EndFrozen ==
  ASSUME DataOK, NEW p \in PIDs, NEW d \in Description, NEW f
  PROVE  FrozenIn(EndMatchmakeSessions(p, f)) /\ FrozenIn(Created(d, p, f))
<1>1. FrozenIn(EndMatchmakeSessions(p, f))
  BY DEF FrozenIn, GIDs, EndMatchmakeSessions, EndsIn
<1>2. /\ EndMatchmakeSessions(p, f) \in Seq(GoodRow)
      /\ DOMAIN EndMatchmakeSessions(p, f) = DOMAIN gatherings
      /\ CreateMatchmakeSessionRow(d, p, At(f, NewGID)) \in GoodRow
  BY EndTable, NewRow DEF DataOK
<1>3. \A g \in GIDs : Created(d, p, f)[g] = EndMatchmakeSessions(p, f)[g]
  BY <1>2 DEF Created, GIDs
<1>4. QED
  BY <1>1, <1>3 DEF FrozenIn

(* The handlers that create or search a session: what they join is the new *)
(* row, or one the search found registered.                                *)
LEMMA EnterFrozen ==
  ASSUME DataOK, NEW p \in PIDs, NEW d \in Description, NEW g, NEW f,
         g # 0 => EndMatchmakeSessions(p, f)[g].registered,
         \/ \E n \in Nat : Enter(p, d, g, n, f)
         \/ \E add \in Seq(PIDs) : EnterWith(p, d, g, add, f)
         \/ RefusedAfterEnd(p, f)
  PROVE  FrozenIn(gatherings')
<1> DEFINE ended == EndMatchmakeSessions(p, f)
           created == Created(d, p, f)
<1>1. CASE gatherings' \in {ended, created}
  BY <1>1, EndFrozen
<1>2. CASE \E r : gatherings' = [created EXCEPT ![NewGID] = r]
  <2>1. created \in Seq(GoodRow) /\ FrozenIn(created)
    BY CreatedTable, EndFrozen
  <2>2. NewGID \notin GIDs
    BY DEF NewGID, GIDs, DataOK
  <2>3. DOMAIN gatherings \subseteq DOMAIN created
    BY CreatedTable DEF DataOK
  <2>4. QED
    <3>1. PICK r : gatherings' = [created EXCEPT ![NewGID] = r]
      BY <1>2
    <3>2. FrozenIn([created EXCEPT ![NewGID] = r])
      <4> HIDE DEF created
      <4> QED BY <2>1, <2>2, <2>3, ExceptFrozen, Zenon
    <3>3. QED
      BY <3>1, <3>2, Zenon
<1>3. CASE g # 0 /\ \E r : gatherings' = [ended EXCEPT ![g] = r]
  <2>1. ended \in Seq(GoodRow) /\ FrozenIn(ended) /\ DOMAIN ended = DOMAIN gatherings
    BY EndTable, EndFrozen DEF DataOK
  <2>2. PICK r : gatherings' = [ended EXCEPT ![g] = r]
    BY <1>3
  <2>3. FrozenIn([ended EXCEPT ![g] = r])
    <3>1. g \in GIDs => ended[g].registered
      BY <1>3
    <3> HIDE DEF ended
    <3>2. QED
      BY <2>1, <3>1, ExceptFrozen, Zenon
  <2>4. QED
    BY <2>2, <2>3, Zenon
<1>4. QED
  <2> HIDE DEF ended, created
  <2>1. CASE RefusedAfterEnd(p, f)
    BY <1>1, <2>1 DEF RefusedAfterEnd, ended
  <2>2. CASE \E n \in Nat : Enter(p, d, g, n, f)
    BY <1>1, <1>2, <1>3, <2>2
      DEF Enter, JoinStep, CreateFails, RefusedAfterEnd, ended, created
  <2>3. CASE \E add \in Seq(PIDs) : EnterWith(p, d, g, add, f)
    BY <1>1, <1>2, <1>3, <2>3
      DEF EnterWith, JoinWithStep, CreateFails, RefusedAfterEnd, ended, created
  <2>4. QED
    BY <2>1, <2>2, <2>3

(* No handler that creates or searches touches an unregistered row. *)
LEMMA EnteringFrozen ==
  ASSUME DataOK, NEW p \in PIDs, NEW f, Entering(p, f)
  PROVE  FrozenIn(gatherings')
<1> DEFINE ended == EndMatchmakeSessions(p, f)
<1>1. ended \in Seq(GoodRow)
  BY EndTable
<1>2. CASE \E d \in Communities : CreateCommunity(p, d, f)
  <2>1. PICK r : gatherings' = Append(gatherings, r)
    BY <1>2 DEF CreateCommunity
  <2>2. QED
    BY <2>1 DEF DataOK, FrozenIn, GIDs
<1>3. CASE \E d \in Sessions, n \in Counts : CreateMatchmakeSession(p, d, n, f)
  BY <1>3, EnterFrozen, GatheringsAssumption DEF CreateMatchmakeSession
<1>4. CASE \E d \in Sessions, add \in Invites, check \in CheckIDs :
             CreateMatchmakeSessionWithParam(p, d, add, check, f)
  BY <1>4, EnterFrozen, GatheringsAssumption DEF CreateMatchmakeSessionWithParam
<1>5. CASE \E d \in Sessions : AutoMatchmakePostpone(p, d, f)
  <2>1. PICK d \in Sessions : AutoMatchmakePostpone(p, d, f)
    BY <1>5
  <2>2. d \in Description
    BY GatheringsAssumption
  <2>3. CASE RefusedAfterEnd(p, f)
    BY <2>2, <2>3, EnterFrozen
  <2>4. CASE \E g \in FindMatchmakeSession(ended, d) : Enter(p, d, g, 1, f)
    BY <1>1, <2>2, <2>4, FoundRows, EnterFrozen
  <2>5. QED
    BY <2>1, <2>3, <2>4 DEF AutoMatchmakePostpone
<1>6. CASE \E d \in Sessions, cs \in CriteriaLists, add \in Invites, check \in CheckIDs :
             AutoMatchmakeWithParamPostpone(p, d, cs, add, check, f)
  <2>1. PICK d \in Sessions, cs \in CriteriaLists, add \in Invites :
          \E g \in FindMatchmakeSessionBySearchCriteria(ended, cs) : EnterWith(p, d, g, add, f)
    BY <1>6 DEF AutoMatchmakeWithParamPostpone
  <2>2. d \in Description /\ add \in Seq(PIDs)
    BY GatheringsAssumption
  <2>3. QED
    BY <1>1, <2>1, <2>2, FoundRows, EnterFrozen
<1>7. CASE \E d \in Sessions, cs \in CriteriaLists :
             AutoMatchmakeWithSearchCriteriaPostpone(p, d, cs, f)
  <2>1. PICK d \in Sessions, cs \in CriteriaLists :
          AutoMatchmakeWithSearchCriteriaPostpone(p, d, cs, f)
    BY <1>7
  <2> DEFINE n == IF Len(cs) = 0 THEN 1 ELSE cs[1].vacant
  <2>2. d \in Description /\ cs \in Seq(Criteria)
    BY GatheringsAssumption, CriteriaAssumption
  <2>3. n \in Nat
    <3>1. Len(cs) # 0 => cs[1] \in Criteria
      BY <2>2
    <3>2. QED
      BY <3>1 DEF Criteria
  <2>4. CASE RefusedAfterEnd(p, f)
    BY <2>2, <2>4, EnterFrozen
  <2>5. CASE \E g \in FindMatchmakeSessionBySearchCriteria(ended, cs) : Enter(p, d, g, n, f)
    <3> HIDE DEF n
    <3> QED BY <1>1, <2>2, <2>3, <2>5, FoundRows, EnterFrozen
  <2>6. QED
    BY <2>1, <2>4, <2>5 DEF AutoMatchmakeWithSearchCriteriaPostpone
<1>8. QED
  BY <1>2, <1>3, <1>4, <1>5, <1>6, <1>7 DEF Entering

(* The handlers that are given a gathering look at its registered column. *)
LEMMA VisitingFrozen ==
  ASSUME DataOK, NEW p \in PIDs, NEW g \in GIDs,
         \/ \E f \in FaultPoints : Visiting(p, g, f)
         \/ \E open \in BOOLEAN : SetParticipation(p, g, open)
         \/ ModifyCurrentGameAttribute(p, g)
  PROVE  FrozenIn(gatherings')
<1>1. /\ gatherings[g].registered
      /\ \E r : gatherings' = [gatherings EXCEPT ![g] = r]
  BY DEF Visiting, JoinMatchmakeSession, JoinMatchmakeSessionEx, JoinMatchmakeSessionWithParam,
         JoinStep, JoinWithStep, Readable, EndParticipation, UnregisterGathering,
         UpdateSessionHost, UpdateSessionHostV1, UpdateSessionURL, TakeHost, TakeOwnership,
         SetParticipation, ModifyCurrentGameAttribute
<1>2. FrozenIn(gatherings) /\ gatherings \in Seq(GoodRow)
  BY DEF FrozenIn, DataOK
<1>3. PICK r : gatherings' = [gatherings EXCEPT ![g] = r]
  BY <1>1
<1>4. FrozenIn([gatherings EXCEPT ![g] = r])
  BY <1>1, <1>2, ExceptFrozen, Zenon
<1>5. QED
  BY <1>3, <1>4, Zenon

(* Once a gathering is unregistered, nothing changes it: not a request     *)
(* that was waiting for the lock, not the callback of a connection that    *)
(* ended, not a restart.  JoinGathering updates its row without looking at *)
(* the registered column, so this depends on every one of its callers.     *)
THEOREM UnregisteredNeverChanges == Spec => UnregisteredFrozen
<1>1. IInv /\ [Next]_vars =>
        [\A g \in GIDs : ~gatherings[g].registered => gatherings'[g] = gatherings[g]]_vars
  <2> SUFFICES ASSUME IInv, Next
               PROVE  FrozenIn(gatherings')
    BY DEF FrozenIn
  <2>1. DataOK
    BY DEF IInv
  <2>2. CASE Restart
    <3>1. \A g \in GIDs : gatherings[g] \in GoodRow
      BY <2>1, RowAt DEF GIDs, DataOK
    <3>2. \A r \in GoodRow : ~r.registered => [r EXCEPT !.registered = FALSE] = r
      BY DEF GoodRow, Row
    <3>3. QED
      BY <2>2, <3>1, <3>2 DEF Restart, FrozenIn, GIDs
  <2>3. ASSUME NEW p \in PIDs, Connect(p) \/ ConnectionEnded(p)
        PROVE  FrozenIn(gatherings')
    BY <2>3 DEF Connect, ConnectionEnded, FrozenIn
  <2>4. ASSUME NEW p \in PIDs, NEW f \in FaultPoints, DisconnectParticipant(p, f)
        PROVE  FrozenIn(gatherings')
    BY <2>4 DEF DisconnectParticipant, LeavesOnDisconnect, FrozenIn, GIDs
  <2>5. ASSUME NEW p \in PIDs, NEW f \in FaultPoints, Entering(p, f)
        PROVE  FrozenIn(gatherings')
    BY <2>1, <2>5, EnteringFrozen
  <2>6. ASSUME NEW p \in PIDs, NEW g \in GIDs,
               \/ \E f \in FaultPoints : Visiting(p, g, f)
               \/ \E open \in BOOLEAN : SetParticipation(p, g, open)
               \/ ModifyCurrentGameAttribute(p, g)
        PROVE  FrozenIn(gatherings')
    BY <2>1, <2>6, VisitingFrozen
  <2>7. QED
    BY <2>2, <2>3, <2>4, <2>5, <2>6 DEF Next
<1>2. QED
  BY <1>1, Invariance, PTL DEF Spec, UnregisteredFrozen
=============================================================================
