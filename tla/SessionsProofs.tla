--------------------------- MODULE SessionsProofs ---------------------------
(***************************************************************************)
(* Proofs about who is in a gathering, who owns and hosts it, and what the *)
(* reads of the matchmaking stack answer.                                  *)
(*                                                                         *)
(* All of them argue about one row at a time: whatever handler runs, a row *)
(* is left by one player, joined by it, taken over by it or changed in a   *)
(* column that does not matter here (RowChange), or it is new              *)
(* (RowCreated).  That every step of Gatherings is of this form (Changed)  *)
(* is shown once, and each property follows from what the few forms do to  *)
(* a row.  Which statement of a handler fails is left open: a theorem that *)
(* needs some of them to succeed says which.                               *)
(***************************************************************************)
EXTENDS GatheringReads, GatheringsProofs

(* What may fail at a row, nothing included. *)
Faults == Failures \cup {"none"}

(* The players that a request of another player may bring into a session. *)
Invited == UNION {Members(add) : add \in Invites}

(* p leaves r, which becomes s. *)
Left(r, s, p) ==
  r.registered /\ Participates(r, p) /\ \E f \in Faults : s = Leave(r, p, f)

(* The players x take slots behind the others. *)
Appended(r, s, x) == s = [r EXCEPT !.participants = r.participants \o x]

(* p, or players it invites, take slots. *)
Joins(r, s, p) ==
  \E x \in Seq(PIDs) : Members(x) \subseteq Invited \cup {p} /\ Appended(r, s, x)

(* p takes slots, followed by some of the players of others, or nobody does. *)
Leads(r, s, p, others) ==
  \E x \in Seq(PIDs) : /\ x = <<>> \/ Head(x) = p
                       /\ Members(x) \subseteq others \cup {p}
                       /\ Appended(r, s, x)

(* A participant makes itself host, or owner and host. *)
Taken(r, s, p) ==
  /\ r.registered /\ Participates(r, p)
  /\ \/ s = [r EXCEPT !.host = p]
     \/ HasFlag(r, {"ParticipantsChangeOwner"}) /\ s = [r EXCEPT !.owner = p, !.host = p]

(* A registered row changes, but neither its players nor who manages it. *)
Managed(r, s) ==
  /\ r.registered
  /\ \/ s = [r EXCEPT !.registered = FALSE]
     \/ \E b \in BOOLEAN : s = [r EXCEPT !.open = b]
     \/ \E k \in Kinds : s = [r EXCEPT !.kind = k]
     \/ \E c \in CommunityIDs : s = [r EXCEPT !.community = c]

(* What one handler, running for p, does to a row that exists. *)
RowChange(r, s, p) ==
  \/ s = r
  \/ Left(r, s, p)
  \/ Readable(r) /\ Joins(r, s, p)
  \/ \E t \in GoodRow : Left(r, t, p) /\ Readable(t) /\ Joins(t, s, p)
  \/ Taken(r, s, p)
  \/ Managed(r, s)

(* A new session that nobody is in is one that cannot be found, or its     *)
(* creator had no place in it or could not be written into it.             *)
Filled(s) ==
  s.stored /\ s.participants = <<>> => "UpdateParticipants" \in Failures \/ ~Room(s.d)

(* The row of a gathering that p has just created. *)
RowCreated(s, p) ==
  /\ s \in GoodRow /\ s.owner = p
  /\ s.participants = <<>> \/ Head(s.participants) = p
  /\ s.type = "MatchmakeSession" => s.host = p /\ s.d \in Sessions /\ Filled(s)
  /\ Members(s.participants) \subseteq
       IF s.type = "MatchmakeSession" THEN Invited \cup {p} ELSE {p}

(* What EndMatchmakeSessionsParticipation leaves of a row. *)
Ended(r, s, p) ==
  \E f \in Faults : s = IF EndsIn(r, p) THEN Leave(r, p, f) ELSE r

(* A handler that runs for p changes the table so, *)
Changed(p) ==
  /\ GIDs \subseteq DOMAIN gatherings'
  /\ \A g \in GIDs : RowChange(gatherings[g], gatherings'[g], p)
  /\ \A g \in DOMAIN gatherings' \ GIDs :
       LET s == gatherings'[g] IN
       /\ g = NewGID
       /\ RowCreated(s, p)
       /\ s.type = "MatchmakeSession" =>
            \A h \in GIDs : Ended(gatherings[h], gatherings'[h], p)
       /\ s.type = "PersistentGathering" => Cardinality(OwnedCommunities(p)) < CreationMax

-----------------------------------------------------------------------------
(* What joining and leaving do to a row. *)

(* Nobody takes a slot. *)
LEMMA NobodyJoins ==
  ASSUME NEW r \in GoodRow, NEW p \in PIDs, NEW others
  PROVE  Joins(r, r, p) /\ Leads(r, r, p, others)
<1>1. r \in Row /\ r.participants \in Seq(PIDs)
  BY RowFields DEF GoodRow
<1>2. r.participants \o <<>> = r.participants
  BY <1>1
<1>3. Appended(r, r, <<>>)
  BY <1>1, <1>2 DEF Row, Appended
<1>4. Members(<<>>) = {} /\ <<>> \in Seq(PIDs)
  BY DEF Members
<1>5. QED
  BY <1>3, <1>4, Zenon DEF Joins, Leads

(* JoinGathering appends slots of the caller, or nothing. *)
LEMMA JoinGatheringJoins ==
  ASSUME NEW r \in GoodRow, NEW p \in PIDs, NEW n \in Nat, NEW f
  PROVE  /\ Joins(r, JoinGathering(r, p, n, f), p)
         /\ Leads(r, JoinGathering(r, p, n, f), p, {})
<1>1. CASE JoinGathering(r, p, n, f) = r
  BY <1>1, NobodyJoins
<1>2. CASE JoinGathering(r, p, n, f) = [r EXCEPT !.participants = @ \o Copies(p, Slots(n))]
  <2>1. PICK x : x = Copies(p, Slots(n))
    OBVIOUS
  <2>2. Slots(n) \in Nat \ {0}
    BY DEF Slots
  <2>3. x \in Seq(PIDs) /\ Members(x) \subseteq {p} /\ Head(x) = p
    BY <2>1, <2>2 DEF Copies, Members
  <2>4. Appended(r, JoinGathering(r, p, n, f), x)
    BY <1>2, <2>1 DEF Appended
  <2>5. QED
    BY <2>3, <2>4 DEF Joins, Leads
<1>3. QED
  BY <1>1, <1>2 DEF JoinGathering

(* JoinGatheringWithParticipants appends the caller, unless it is already  *)
(* in, and the players it invites.                                         *)
LEMMA JoinWithJoins ==
  ASSUME NEW r \in GoodRow, NEW p \in PIDs, NEW add \in Invites, NEW already \in BOOLEAN, NEW f
  PROVE  LET s == JoinGatheringWithParticipants(r, p, add, already, f) IN
         /\ Joins(r, s, p)
         /\ already = FALSE => Leads(r, s, p, Invited)
<1>1. PICK s : s = JoinGatheringWithParticipants(r, p, add, already, f)
  OBVIOUS
<1>2. PICK x : x = NewParticipants(p, add, already)
  OBVIOUS
<1>3. CASE s = r
  BY <1>1, <1>3, NobodyJoins
<1>4. CASE s = [r EXCEPT !.participants = @ \o x]
  <2>1. add \in Seq(PIDs)
    BY GatheringsAssumption
  <2>2. x \in Seq(PIDs) /\ (already = FALSE => Head(x) = p)
    BY <1>2, <2>1 DEF NewParticipants
  <2>3. Members(x) \subseteq Members(add) \cup {p}
    <3>1. CASE x = add
      BY <3>1
    <3>2. CASE x = <<p>> \o add
      <4>1. \A i \in DOMAIN x : x[i] = p \/ x[i] \in Members(add)
        BY <2>1, <3>2 DEF Members
      <4>2. QED
        BY <4>1 DEF Members
    <3>3. QED
      BY <1>2, <3>1, <3>2 DEF NewParticipants
  <2>4. Members(add) \subseteq Invited
    BY DEF Invited
  <2>5. Appended(r, s, x)
    BY <1>4 DEF Appended
  <2>6. Members(x) \subseteq Invited \cup {p}
    BY <2>3, <2>4
  <2>7. Joins(r, s, p) /\ (already = FALSE => Leads(r, s, p, Invited))
    BY <2>2, <2>5, <2>6 DEF Joins, Leads
  <2>8. QED
    BY <1>1, <2>7
<1>5. QED
  BY <1>1, <1>2, <1>3, <1>4 DEF JoinGatheringWithParticipants

(* The statements that hand a gathering on, or close it, when a player leaves. *)
Handover == {"LogLeave", "Unregister", "MigrateOwner", "LogChangeOwner", "UpdateHost"}

(* Two states of a row that differ in its players and who manages it only. *)
Same(r, s) ==
  /\ s.type = r.type /\ s.d = r.d /\ s.stored = r.stored
  /\ s.kind = r.kind /\ s.community = r.community /\ s.open = r.open

(* Removing p, unregistering, and a new owner or host write these columns  *)
(* and no others.                                                          *)
LEMMA RowWrites ==
  ASSUME NEW r \in Row, NEW x, NEW y
  PROVE  /\ \A s \in {[r EXCEPT !.participants = x], [r EXCEPT !.registered = x],
                      [r EXCEPT !.owner = x], [r EXCEPT !.host = x],
                      [r EXCEPT !.owner = x, !.host = y]} : Same(r, s)
         /\ \A s \in {[r EXCEPT !.participants = x]} :
              s.participants = x /\ s.registered = r.registered
                /\ s.owner = r.owner /\ s.host = r.host
         /\ \A s \in {[r EXCEPT !.registered = x]} :
              s.registered = x /\ s.participants = r.participants
                /\ s.owner = r.owner /\ s.host = r.host
         /\ \A s \in {[r EXCEPT !.owner = x]} :
              s.owner = x /\ s.participants = r.participants
                /\ s.registered = r.registered /\ s.host = r.host
         /\ \A s \in {[r EXCEPT !.host = x]} :
              s.host = x /\ s.participants = r.participants
                /\ s.registered = r.registered /\ s.owner = r.owner
         /\ \A s \in {[r EXCEPT !.owner = x, !.host = y]} :
              s.owner = x /\ s.host = y /\ s.participants = r.participants
                /\ s.registered = r.registered
BY DEF Row, Same

(* Removing p touches no other column. *)
LEMMA RemovedColumns ==
  ASSUME NEW r \in GoodRow, NEW p
  PROVE  LET s == RemoveParticipant(r, p) IN
         /\ Same(r, s) /\ s.registered = r.registered
         /\ s.owner = r.owner /\ s.host = r.host
<1>1. PICK t : t = ArrayRemove(r.participants, p)
  OBVIOUS
<1>2. PICK s : s = [r EXCEPT !.participants = t]
  OBVIOUS
<1>3. RemoveParticipant(r, p) = s
  BY <1>1, <1>2 DEF RemoveParticipant
<1>4. Same(r, s) /\ s.registered = r.registered /\ s.owner = r.owner /\ s.host = r.host
  BY <1>2, RowWrites DEF GoodRow
<1>5. QED
  BY <1>3, <1>4

(* The columns MigrateGatheringOwnership leaves, whatever fails. *)
LEMMA MigrateEffect ==
  ASSUME NEW r \in GoodRow, NEW p \in PIDs, NEW f
  PROVE  LET s == MigrateGatheringOwnership(r, p, f) IN
         /\ s \in GoodRow /\ Same(r, s) /\ s.host = r.host
         /\ s.participants = ArrayRemove(r.participants, p)
         /\ s.registered => r.registered
         /\ s.owner # r.owner => /\ p = r.owner /\ s.owner = NewOwner(r, p)
                                 /\ NewOwner(r, p) # NoPID
         /\ p = r.owner /\ f # "MigrateOwner" /\ NewOwner(r, p) # NoPID
              => s.owner = NewOwner(r, p)
<1>1. PICK a : a = RemoveParticipant(r, p)
  OBVIOUS
<1>2. /\ a \in GoodRow /\ a \in Row /\ Same(r, a) /\ a.registered = r.registered
      /\ a.owner = r.owner /\ a.host = r.host
      /\ a.participants = ArrayRemove(r.participants, p)
  BY <1>1, RemovedColumns, RemoveParticipantRow DEF GoodRow
<1>3. PICK b : b = UnregisterRow(a, f)
  OBVIOUS
<1>4. /\ b \in GoodRow /\ Same(r, b)
      /\ b.registered => r.registered
      /\ b.owner = r.owner /\ b.host = r.host /\ b.participants = a.participants
  BY <1>2, <1>3, RowWrites, UnregisterGoodRow DEF UnregisterRow, Same
<1>5. PICK c : c = [a EXCEPT !.owner = NewOwner(r, p)]
  OBVIOUS
<1>6. NewOwner(r, p) # NoPID =>
        /\ c \in GoodRow /\ Same(r, c) /\ c.registered = r.registered
        /\ c.owner = NewOwner(r, p) /\ c.host = r.host /\ c.participants = a.participants
  <2>1. NewOwner(r, p) # NoPID => NewOwner(r, p) \in PIDs
    BY NewOwnerType
  <2>2. QED
    BY <1>2, <1>5, <2>1, RowWrites, OwnerUpdate DEF Same
<1>7. MigrateGatheringOwnership(r, p, f)
        = IF p # r.owner \/ f = "MigrateOwner" THEN a
          ELSE IF NewOwner(r, p) = NoPID THEN b ELSE c
  BY <1>1, <1>3, <1>5 DEF MigrateGatheringOwnership
<1>8. QED
  BY <1>2, <1>4, <1>6, <1>7

(* What leaving keeps, takes away and hands on, whatever fails. *)
LEMMA LeaveEffect ==
  ASSUME NEW r \in GoodRow, NEW p \in PIDs, NEW f
  PROVE  LET s == Leave(r, p, f) IN
         /\ s \in GoodRow /\ Same(r, s)
         /\ s.registered => r.registered
         /\ f # "RemoveParticipant" => s.participants = ArrayRemove(r.participants, p)
         /\ f = "RemoveParticipant" => s = r
         /\ s.owner # r.owner => /\ p = r.owner /\ s.owner = NewOwner(r, p)
                                 /\ NewOwner(r, p) # NoPID
<1>1. PICK a : a = RemoveParticipant(r, p)
  OBVIOUS
<1>2. /\ a \in GoodRow /\ Same(r, a) /\ a.registered = r.registered
      /\ a.owner = r.owner /\ a.participants = ArrayRemove(r.participants, p)
  BY <1>1, RemovedColumns, RemoveParticipantRow
<1>3. PICK b : b = UnregisterRow(a, f)
  OBVIOUS
<1>4. /\ b \in GoodRow /\ Same(r, b)
      /\ b.registered => r.registered
      /\ b.owner = r.owner /\ b.participants = a.participants
  BY <1>2, <1>3, RowWrites, UnregisterGoodRow DEF UnregisterRow, Same, GoodRow
<1>5. PICK m : m = MigrateGatheringOwnership(r, p, f)
  OBVIOUS
<1>6. PICK o : o = CurrentOwner(r, p, f)
  OBVIOUS
<1>7. PICK c : c = [m EXCEPT !.owner = o, !.host = o]
  OBVIOUS
<1>8. Leave(r, p, f)
        = IF f = "RemoveParticipant" THEN r
          ELSE IF OnlyRemoves(r, f) THEN a
          ELSE IF Abandoned(r, p) THEN b
          ELSE IF HostMoves(r, p, f) THEN c ELSE m
  BY <1>1, <1>3, <1>5, <1>6, <1>7 DEF Leave
<1>9. Leave(r, p, f) \in GoodRow
  BY LeaveRow
<1>10. /\ Same(r, m) /\ m \in Row
       /\ m.registered => r.registered
       /\ m.participants = a.participants
       /\ m.owner # r.owner => /\ p = r.owner /\ m.owner = NewOwner(r, p)
                               /\ NewOwner(r, p) # NoPID
  BY <1>2, <1>5, MigrateEffect DEF GoodRow
<1>11. /\ Same(r, c)
       /\ c.registered => r.registered
       /\ c.participants = a.participants /\ c.owner = o
  BY <1>7, <1>10, RowWrites DEF Same
<1>12. HostMoves(r, p, f) => \/ o = r.owner
                             \/ p = r.owner /\ o = NewOwner(r, p) /\ o # NoPID
  BY <1>6 DEF HostMoves, CurrentOwner
<1>13. Same(r, r)
  BY DEF Same
<1>14. QED
  BY <1>2, <1>4, <1>8, <1>9, <1>10, <1>11, <1>12, <1>13

-----------------------------------------------------------------------------
(* Every handler changes the table row by row. *)

(* The statement that fails at a row is one of those that may. *)
LEMMA AtFaults ==
  ASSUME NEW f \in FaultPoints, NEW g
  PROVE  At(f, g) \in Faults
BY DEF FaultPoints, At, Faults

(* A search finds sessions that can be read, hence with players in them. *)
LEMMA FoundReadable ==
  ASSUME NEW rows \in Seq(GoodRow), NEW d, NEW cs, NEW g,
         \/ g \in FindMatchmakeSession(rows, d)
         \/ g \in FindMatchmakeSessionBySearchCriteria(rows, cs)
  PROVE  g \in {0} \cup DOMAIN rows /\ (g # 0 => Readable(rows[g]))
<1>1. ASSUME NEW c, g \in Results(rows, c)
      PROVE  g \in {0} \cup DOMAIN rows /\ (g # 0 => Readable(rows[g]))
  BY <1>1 DEF Results, Matches, Readable
<1>2. CASE g \in FindMatchmakeSession(rows, d)
  BY <1>2 DEF FindMatchmakeSession
<1>3. CASE g \in FindMatchmakeSessionBySearchCriteria(rows, cs)
  <2>1. g = 0 \/ g \in Results(rows, cs[1]) \/ g \in Results(rows, cs[2])
    BY <1>3 DEF FindMatchmakeSessionBySearchCriteria
  <2>2. QED
    BY <1>1, <2>1
<1>4. QED
  BY <1>2, <1>3

(* A player that creates or searches a session first leaves its sessions. *)
LEMMA EndRows ==
  ASSUME DataOK, NEW p \in PIDs, NEW f \in FaultPoints
  PROVE  /\ EndMatchmakeSessions(p, f) \in Seq(GoodRow)
         /\ DOMAIN EndMatchmakeSessions(p, f) = GIDs
         /\ \A g \in GIDs :
              LET r == gatherings[g]  s == EndMatchmakeSessions(p, f)[g] IN
              /\ s = r \/ Left(r, s, p)
              /\ Ended(r, s, p)
<1>1. EndMatchmakeSessions(p, f) \in Seq(GoodRow) /\ DOMAIN EndMatchmakeSessions(p, f) = GIDs
  BY EndTable DEF DataOK, GIDs
<1>2. ASSUME NEW g \in GIDs
      PROVE  LET r == gatherings[g]  s == EndMatchmakeSessions(p, f)[g] IN
             /\ s = r \/ Left(r, s, p)
             /\ Ended(r, s, p)
  <2>1. At(f, g) \in Faults
    BY AtFaults
  <2>2. EndMatchmakeSessions(p, f)[g]
          = IF EndsIn(gatherings[g], p) THEN Leave(gatherings[g], p, At(f, g)) ELSE gatherings[g]
    BY DEF EndMatchmakeSessions, GIDs
  <2>3. QED
    BY <2>1, <2>2 DEF Left, Ended, EndsIn
<1>3. QED
  BY <1>1, <1>2

(* The counts are numbers. *)
LEMMA AskedCounts == Asked \subseteq Nat
<1>1. ASSUME NEW cs \in CriteriaLists \ {<<>>}
      PROVE  cs[1].vacant \in Nat
  <2>1. cs \in Seq(Criteria)
    BY CriteriaAssumption
  <2>2. cs[1] \in Criteria
    BY <2>1
  <2>3. QED
    BY <2>2 DEF Criteria
<1>2. Counts \subseteq Nat /\ 1 \in Nat
  BY GatheringsAssumption
<1>3. {cs[1].vacant : cs \in CriteriaLists \ {<<>>}} \subseteq Nat
  BY <1>1, Zenon
<1>4. QED
  BY <1>2, <1>3, Zenon DEF Asked

(* The creator is in its session if it found a place and was written. *)
LEMMA CreatorEnters ==
  ASSUME NEW r \in GoodRow, r.participants = <<>>, NEW p \in PIDs, NEW f \in Faults,
         f # "UpdateParticipants" \/ "UpdateParticipants" \in Failures
  PROVE  /\ \A n \in Asked : JoinGathering(r, p, n, f).participants = <<>>
              => "UpdateParticipants" \in Failures \/ ~Room(r.d)
         /\ \A add \in Invites :
              JoinGatheringWithParticipants(r, p, add, FALSE, f).participants = <<>>
                => "UpdateParticipants" \in Failures \/ ~Room(r.d)
<1>1. r \in Row /\ r.d.max \in Nat /\ ~Participates(r, p) /\ Len(r.participants) = 0
  BY RowFields DEF GoodRow, Participates, Members
<1>2. ASSUME NEW n \in Asked, Room(r.d), f # "UpdateParticipants"
      PROVE  JoinGathering(r, p, n, f).participants # <<>>
  <2>1. n \in Nat
    BY AskedCounts
  <2>2. PICK x : x = Copies(p, Slots(n))
    OBVIOUS
  <2>3. Slots(n) \in Nat \ {0}
    BY <2>1 DEF Slots
  <2>4. x \in Seq(PIDs) /\ x # <<>>
    BY <2>2, <2>3 DEF Copies
  <2>5. CanJoinGathering(r, p, n)
    BY <1>1, <1>2, <2>3 DEF CanJoinGathering, Room
  <2>6. JoinGathering(r, p, n, f) = [r EXCEPT !.participants = r.participants \o x]
    BY <1>2, <2>2, <2>5 DEF JoinGathering
  <2>7. r.participants \o x = x
    BY <2>4
  <2>8. JoinGathering(r, p, n, f).participants = x
    BY <1>1, <2>6, <2>7 DEF Row
  <2>9. QED
    BY <2>4, <2>8
<1>3. ASSUME NEW add \in Invites, Room(r.d), f # "UpdateParticipants"
      PROVE  JoinGatheringWithParticipants(r, p, add, FALSE, f).participants # <<>>
  <2>1. add \in Seq(PIDs)
    BY GatheringsAssumption
  <2>2. PICK x : x = <<p>> \o add
    OBVIOUS
  <2>3. x \in Seq(PIDs) /\ x # <<>>
    BY <2>1, <2>2
  <2>4. CanJoinGatheringWithParticipants(r, p, add, FALSE)
    BY <1>1, <1>3, <2>1 DEF CanJoinGatheringWithParticipants, Room
  <2>5. JoinGatheringWithParticipants(r, p, add, FALSE, f)
          = [r EXCEPT !.participants = r.participants \o x]
    BY <1>3, <2>2, <2>4 DEF JoinGatheringWithParticipants, NewParticipants
  <2>6. r.participants \o x = x
    BY <2>3
  <2>7. JoinGatheringWithParticipants(r, p, add, FALSE, f).participants = x
    BY <1>1, <2>5, <2>6 DEF Row
  <2>8. QED
    BY <2>3, <2>7
<1>4. QED
  BY <1>2, <1>3

(* A new session holds its creator in front, and whom it invites, or nobody. *)
LEMMA NewSession ==
  ASSUME NEW d \in Sessions, NEW p \in PIDs, NEW e \in Faults
  PROVE  LET r == CreateMatchmakeSessionRow(d, p, e) IN
         /\ e \in {"LogRegister", "InsertSession"} => RowCreated(r, p)
         /\ \A n \in Asked : RowCreated(JoinGathering(r, p, n, e), p)
         /\ \A add \in Invites : RowCreated(JoinGatheringWithParticipants(r, p, add, FALSE, e), p)
<1>1. PICK r : r = CreateMatchmakeSessionRow(d, p, e)
  OBVIOUS
<1>2. d \in Description
  BY GatheringsAssumption
<1>3. /\ r \in GoodRow /\ r \in Row /\ r.owner = p /\ r.host = p /\ r.participants = <<>>
      /\ r.type = "MatchmakeSession" /\ r.d = d
      /\ e \in {"LogRegister", "InsertSession"} => r.stored = FALSE
  BY <1>1, <1>2, NewRow DEF CreateMatchmakeSessionRow, Registered, GoodRow
<1>4. Members(<<>>) = {}
  BY DEF Members
<1>5. ASSUME e \in {"LogRegister", "InsertSession"}
      PROVE  RowCreated(r, p)
  BY <1>3, <1>4, <1>5 DEF RowCreated, Filled
<1>6. ASSUME NEW s \in GoodRow, NEW others, Leads(r, s, p, others), others \subseteq Invited,
             s.participants = <<>> => "UpdateParticipants" \in Failures \/ ~Room(d)
      PROVE  RowCreated(s, p)
  <2>1. PICK x \in Seq(PIDs) : /\ x = <<>> \/ Head(x) = p
                               /\ Members(x) \subseteq others \cup {p}
                               /\ Appended(r, s, x)
    BY <1>6 DEF Leads
  <2>2. r.participants \o x = x
    BY <1>3
  <2>3. s = [r EXCEPT !.participants = x]
    BY <2>1, <2>2 DEF Appended
  <2>4. /\ s.participants = x /\ s.owner = p /\ s.host = p /\ s.type = "MatchmakeSession"
        /\ s.d = d
    BY <1>3, <2>3 DEF Row
  <2>5. Filled(s)
    BY <1>6, <2>4 DEF Filled
  <2>6. QED
    BY <1>6, <2>1, <2>4, <2>5 DEF RowCreated
<1>7. e # "UpdateParticipants" \/ "UpdateParticipants" \in Failures
  BY DEF Faults
<1>8. ASSUME NEW n \in Asked
      PROVE  RowCreated(JoinGathering(r, p, n, e), p)
  <2>1. PICK s : s = JoinGathering(r, p, n, e)
    OBVIOUS
  <2>2. s \in GoodRow /\ Leads(r, s, p, {})
    BY <1>3, <2>1, JoinGatheringRow, JoinGatheringJoins, AskedCounts
  <2>3. s.participants = <<>> => "UpdateParticipants" \in Failures \/ ~Room(d)
    BY <1>3, <1>7, <2>1, CreatorEnters
  <2>4. QED
    BY <1>6, <2>1, <2>2, <2>3
<1>9. ASSUME NEW add \in Invites
      PROVE  RowCreated(JoinGatheringWithParticipants(r, p, add, FALSE, e), p)
  <2>1. PICK s : s = JoinGatheringWithParticipants(r, p, add, FALSE, e)
    OBVIOUS
  <2>2. s \in GoodRow /\ Leads(r, s, p, Invited)
    BY <1>3, <2>1, JoinWithRow, JoinWithJoins, GatheringsAssumption
  <2>3. s.participants = <<>> => "UpdateParticipants" \in Failures \/ ~Room(d)
    BY <1>3, <1>7, <2>1, CreatorEnters
  <2>4. QED
    BY <1>6, <2>1, <2>2, <2>3
<1>10. QED
  BY <1>1, <1>5, <1>8, <1>9

(* Of the rows that exist, at most one that EndMatchmakeSessionsPartici-   *)
(* pation leaves behind is joined.                                         *)
RowsEntered(p, f) ==
  \A h \in GIDs : LET t == EndMatchmakeSessions(p, f)[h] IN
    gatherings'[h] = t \/ (Readable(t) /\ Joins(t, gatherings'[h], p))

(* The handlers that create or search a session: what they join is the new *)
(* row, or one the search could read.                                      *)
LEMMA EnterChanged ==
  ASSUME DataOK, NEW p \in PIDs, NEW d \in Sessions, NEW f \in FaultPoints,
         NEW g \in {0} \cup GIDs, g # 0 => Readable(EndMatchmakeSessions(p, f)[g]),
         \/ \E n \in Asked : Enter(p, d, g, n, f)
         \/ \E add \in Invites : EnterWith(p, d, g, add, f)
         \/ RefusedAfterEnd(p, f)
  PROVE  Changed(p) /\ RowsEntered(p, f)
<1>1. PICK ended : ended = EndMatchmakeSessions(p, f)
  OBVIOUS
<1>2. PICK new : new = CreateMatchmakeSessionRow(d, p, At(f, NewGID))
  OBVIOUS
<1>3. PICK created : created = Append(ended, new)
  OBVIOUS
<1>4. /\ ended \in Seq(GoodRow) /\ DOMAIN ended = GIDs /\ gatherings \in Seq(GoodRow)
      /\ \A h \in GIDs : /\ ended[h] = gatherings[h] \/ Left(gatherings[h], ended[h], p)
                         /\ Ended(gatherings[h], ended[h], p)
  BY <1>1, EndRows DEF DataOK
<1>5. new \in GoodRow /\ NewGID = Len(ended) + 1 /\ GIDs = 1..Len(ended) /\ Len(ended) \in Nat
  BY <1>1, <1>2, <1>4, NewRow, EndTable, GatheringsAssumption DEF NewGID, GIDs
<1>6. /\ DOMAIN created = GIDs \cup {NewGID} /\ NewGID \notin GIDs
      /\ created[NewGID] = new /\ \A h \in GIDs : created[h] = ended[h]
  BY <1>3, <1>4, <1>5
<1>7. CASE gatherings' = ended
  BY <1>1, <1>4, <1>7 DEF Changed, RowChange, RowsEntered
<1>8. ASSUME NEW s, RowCreated(s, p), s.type = "MatchmakeSession",
             DOMAIN gatherings' = DOMAIN created, gatherings'[NewGID] = s,
             \A h \in GIDs : gatherings'[h] = ended[h]
      PROVE  Changed(p) /\ RowsEntered(p, f)
  <2>1. \A h \in GIDs : RowChange(gatherings[h], gatherings'[h], p)
    BY <1>4, <1>8 DEF RowChange
  <2>2. \A h \in GIDs : Ended(gatherings[h], gatherings'[h], p)
    BY <1>4, <1>8
  <2>3. QED
    BY <1>1, <1>6, <1>8, <2>1, <2>2 DEF Changed, RowsEntered
<1>9. ASSUME NEW s, g # 0, Joins(ended[g], s, p), gatherings' = [ended EXCEPT ![g] = s]
      PROVE  Changed(p) /\ RowsEntered(p, f)
  <2>1. Readable(ended[g]) /\ g \in GIDs /\ ended[g] \in GoodRow
    BY <1>1, <1>4, <1>9
  <2>2. RowChange(gatherings[g], s, p)
    BY <1>4, <1>9, <2>1 DEF RowChange
  <2>3. \A h \in GIDs : RowChange(gatherings[h], gatherings'[h], p)
    BY <1>4, <1>9, <2>2 DEF RowChange
  <2>4. QED
    BY <1>1, <1>4, <1>9, <2>1, <2>3 DEF Changed, RowsEntered
<1>10. ASSUME gatherings' = created, At(f, NewGID) \in {"LogRegister", "InsertSession"}
       PROVE  Changed(p) /\ RowsEntered(p, f)
  <2>1. RowCreated(new, p) /\ new.type = "MatchmakeSession"
    BY <1>2, <1>10, AtFaults, NewSession DEF CreateMatchmakeSessionRow, Registered
  <2>2. QED
    BY <1>6, <1>8, <1>10, <2>1
<1>11. ASSUME NEW s, RowCreated(s, p), s.type = "MatchmakeSession",
              gatherings' = [created EXCEPT ![NewGID] = s]
       PROVE  Changed(p) /\ RowsEntered(p, f)
  BY <1>6, <1>8, <1>11
<1>12. CASE \E n \in Asked : Enter(p, d, g, n, f)
  <2>1. PICK n \in Asked : Enter(p, d, g, n, f)
    BY <1>12
  <2>2. CASE CreateFails(p, d, f)
    BY <1>1, <1>2, <1>3, <1>7, <1>10, <2>2 DEF CreateFails, Created
  <2>3. CASE RefusedAfterEnd(p, f)
    BY <1>1, <1>7, <2>3 DEF RefusedAfterEnd
  <2>4. CASE JoinStep(Created(d, p, f), NewGID, p, n, f, EndEvents(p, f))
    <3>1. PICK s : s = JoinGathering(new, p, n, At(f, NewGID))
      OBVIOUS
    <3>2. Created(d, p, f) = created
      BY <1>1, <1>2, <1>3 DEF Created
    <3>3. gatherings' = [created EXCEPT ![NewGID] = s]
      BY <1>6, <2>4, <3>1, <3>2 DEF JoinStep
    <3>4. RowCreated(s, p)
      BY <1>2, <3>1, AtFaults, NewSession
    <3>5. s.type = "MatchmakeSession"
      BY <1>2, <3>1 DEF CreateMatchmakeSessionRow, Registered, JoinGathering
    <3>6. QED
      BY <1>11, <3>3, <3>4, <3>5
  <2>5. CASE g # 0 /\ JoinStep(EndMatchmakeSessions(p, f), g, p, n, f, EndEvents(p, f))
    <3>1. PICK s : s = JoinGathering(ended[g], p, n, At(f, g))
      OBVIOUS
    <3>2. gatherings' = [ended EXCEPT ![g] = s]
      BY <1>1, <2>5, <3>1 DEF JoinStep
    <3>3. ended[g] \in GoodRow
      BY <1>4, <2>5
    <3>4. Joins(ended[g], s, p)
      BY <3>1, <3>3, JoinGatheringJoins, AskedCounts
    <3>5. QED
      BY <1>9, <2>5, <3>2, <3>4
  <2>6. QED
    BY <2>1, <2>2, <2>3, <2>4, <2>5 DEF Enter
<1>13. CASE \E add \in Invites : EnterWith(p, d, g, add, f)
  <2>1. PICK add \in Invites : EnterWith(p, d, g, add, f)
    BY <1>13
  <2>2. CASE CreateFails(p, d, f)
    BY <1>1, <1>2, <1>3, <1>7, <1>10, <2>2 DEF CreateFails, Created
  <2>3. CASE RefusedAfterEnd(p, f)
    BY <1>1, <1>7, <2>3 DEF RefusedAfterEnd
  <2>4. CASE JoinWithStep(Created(d, p, f), NewGID, p, add, FALSE, f, EndEvents(p, f))
    <3>1. PICK s : s = JoinGatheringWithParticipants(new, p, add, FALSE, At(f, NewGID))
      OBVIOUS
    <3>2. Created(d, p, f) = created
      BY <1>1, <1>2, <1>3 DEF Created
    <3>3. gatherings' = [created EXCEPT ![NewGID] = s]
      BY <1>6, <2>4, <3>1, <3>2 DEF JoinWithStep
    <3>4. RowCreated(s, p)
      BY <1>2, <3>1, AtFaults, NewSession
    <3>5. s.type = "MatchmakeSession"
      BY <1>2, <3>1 DEF CreateMatchmakeSessionRow, Registered, JoinGatheringWithParticipants
    <3>6. QED
      BY <1>11, <3>3, <3>4, <3>5
  <2>5. CASE g # 0 /\ JoinWithStep(EndMatchmakeSessions(p, f), g, p, add, FALSE, f, EndEvents(p, f))
    <3>1. PICK s : s = JoinGatheringWithParticipants(ended[g], p, add, FALSE, At(f, g))
      OBVIOUS
    <3>2. gatherings' = [ended EXCEPT ![g] = s]
      BY <1>1, <2>5, <3>1 DEF JoinWithStep
    <3>3. ended[g] \in GoodRow
      BY <1>4, <2>5
    <3>4. Joins(ended[g], s, p)
      BY <3>1, <3>3, JoinWithJoins
    <3>5. QED
      BY <1>9, <2>5, <3>2, <3>4
  <2>6. QED
    BY <2>1, <2>2, <2>3, <2>4, <2>5 DEF EnterWith
<1>14. CASE RefusedAfterEnd(p, f)
  BY <1>1, <1>7, <1>14 DEF RefusedAfterEnd
<1>15. QED
  BY <1>12, <1>13, <1>14

(* createCommunity adds a community with its creator in it, or nobody, and *)
(* checks the number of its communities.                                   *)
LEMMA CreateCommunityChanged ==
  ASSUME DataOK, NEW p \in PIDs, NEW d \in Communities, NEW f, CreateCommunity(p, d, f)
  PROVE  Changed(p)
<1>1. PICK r : r = CreatePersistentGatheringRow(d, p, At(f, NewGID))
  OBVIOUS
<1>2. PICK t : t = IF r.stored THEN JoinGathering(r, p, 1, At(f, NewGID)) ELSE r
  OBVIOUS
<1>3. gatherings' = Append(gatherings, t) /\ Cardinality(OwnedCommunities(p)) < CreationMax
  BY <1>1, <1>2 DEF CreateCommunity
<1>4. /\ r \in GoodRow /\ r \in Row /\ r.owner = p /\ r.participants = <<>>
      /\ r.type = "PersistentGathering"
  BY <1>1, NewRow, GatheringsAssumption DEF CreatePersistentGatheringRow, Registered, GoodRow
<1>5. /\ t \in GoodRow /\ t.owner = p /\ t.type = "PersistentGathering"
      /\ t.participants = <<>> \/ Head(t.participants) = p
      /\ Members(t.participants) \subseteq {p}
  <2>1. CASE t = r
    BY <1>4, <2>1 DEF Members
  <2>2. CASE t = JoinGathering(r, p, 1, At(f, NewGID))
    <3>1. t \in GoodRow /\ Leads(r, t, p, {})
      BY <1>4, <2>2, JoinGatheringRow, JoinGatheringJoins
    <3>2. PICK x \in Seq(PIDs) : /\ x = <<>> \/ Head(x) = p
                                 /\ Members(x) \subseteq {} \cup {p}
                                 /\ Appended(r, t, x)
      BY <3>1 DEF Leads
    <3>3. r.participants \o x = x
      BY <1>4
    <3>4. t = [r EXCEPT !.participants = x]
      BY <3>2, <3>3 DEF Appended
    <3>5. t.participants = x /\ t.owner = p /\ t.type = "PersistentGathering"
      BY <1>4, <3>4 DEF Row
    <3>6. QED
      BY <3>1, <3>2, <3>5
  <2>3. QED
    BY <1>2, <2>1, <2>2
<1>6. RowCreated(t, p)
  BY <1>5 DEF RowCreated
<1>7. /\ DOMAIN gatherings' = GIDs \cup {NewGID} /\ gatherings'[NewGID] = t
      /\ \A h \in GIDs : gatherings'[h] = gatherings[h]
  BY <1>3, <1>5 DEF DataOK, GIDs, NewGID
<1>8. QED
  BY <1>3, <1>5, <1>6, <1>7 DEF Changed, RowChange

(* What the handlers that create or search a session have in common: with  *)
(* g the session that was found, or 0, they enter it or a new one, or fail *)
(* once p has left its sessions.                                           *)
Entered(p, d, g, f) ==
  /\ g # 0 => Readable(EndMatchmakeSessions(p, f)[g])
  /\ \/ \E n \in Asked : Enter(p, d, g, n, f)
     \/ \E add \in Invites : EnterWith(p, d, g, add, f)
     \/ RefusedAfterEnd(p, f)

(* All the handlers that create or search are of this form. *)
LEMMA EnteringForms ==
  ASSUME DataOK, NEW p \in PIDs, NEW f \in FaultPoints, Entering(p, f)
  PROVE  \/ \E d \in Communities : CreateCommunity(p, d, f)
         \/ \E d \in Sessions, g \in {0} \cup GIDs : Entered(p, d, g, f)
<1>1. PICK ended : ended = EndMatchmakeSessions(p, f)
  OBVIOUS
<1>2. ended \in Seq(GoodRow) /\ DOMAIN ended = GIDs
  BY <1>1, EndRows
<1>3. CASE \E d \in Communities : CreateCommunity(p, d, f)
  BY <1>3
<1>4. CASE \E d \in Sessions, n \in Counts : CreateMatchmakeSession(p, d, n, f)
  <2>1. PICK d \in Sessions, n \in Counts : CreateMatchmakeSession(p, d, n, f)
    BY <1>4
  <2>2. n \in Asked
    BY DEF Asked
  <2>3. RefusedAfterEnd(p, f) \/ Enter(p, d, 0, n, f)
    BY <2>1 DEF CreateMatchmakeSession
  <2>4. QED
    BY <2>2, <2>3 DEF Entered
<1>5. CASE \E d \in Sessions, add \in Invites, check \in CheckIDs :
             CreateMatchmakeSessionWithParam(p, d, add, check, f)
  <2>1. PICK d \in Sessions, add \in Invites : EnterWith(p, d, 0, add, f)
    BY <1>5 DEF CreateMatchmakeSessionWithParam
  <2>2. QED
    BY <2>1 DEF Entered
<1>6. CASE \E d \in Sessions : AutoMatchmakePostpone(p, d, f)
  <2>1. PICK d \in Sessions : AutoMatchmakePostpone(p, d, f)
    BY <1>6
  <2>2. 1 \in Asked
    BY DEF Asked
  <2>3. CASE RefusedAfterEnd(p, f)
    BY <2>3 DEF Entered
  <2>4. CASE \E g \in FindMatchmakeSession(ended, d) : Enter(p, d, g, 1, f)
    <3>1. PICK g \in FindMatchmakeSession(ended, d) : Enter(p, d, g, 1, f)
      BY <2>4
    <3>2. g \in {0} \cup GIDs /\ (g # 0 => Readable(EndMatchmakeSessions(p, f)[g]))
      BY <1>1, <1>2, FoundReadable
    <3>3. QED
      BY <2>2, <3>1, <3>2 DEF Entered
  <2>5. QED
    BY <1>1, <2>1, <2>3, <2>4 DEF AutoMatchmakePostpone
<1>7. CASE \E d \in Sessions, cs \in CriteriaLists, add \in Invites, check \in CheckIDs :
             AutoMatchmakeWithParamPostpone(p, d, cs, add, check, f)
  <2>1. PICK d \in Sessions, cs \in CriteriaLists, add \in Invites :
          \E g \in FindMatchmakeSessionBySearchCriteria(ended, cs) : EnterWith(p, d, g, add, f)
    BY <1>1, <1>7 DEF AutoMatchmakeWithParamPostpone
  <2>2. PICK g \in FindMatchmakeSessionBySearchCriteria(ended, cs) : EnterWith(p, d, g, add, f)
    BY <2>1
  <2>3. g \in {0} \cup GIDs /\ (g # 0 => Readable(EndMatchmakeSessions(p, f)[g]))
    BY <1>1, <1>2, FoundReadable
  <2>4. QED
    BY <2>2, <2>3 DEF Entered
<1>8. CASE \E d \in Sessions, cs \in CriteriaLists :
             AutoMatchmakeWithSearchCriteriaPostpone(p, d, cs, f)
  <2>1. PICK d \in Sessions, cs \in CriteriaLists :
          AutoMatchmakeWithSearchCriteriaPostpone(p, d, cs, f)
    BY <1>8
  <2>2. PICK n : n = IF Len(cs) = 0 THEN 1 ELSE cs[1].vacant
    OBVIOUS
  <2>3. n \in Asked
    BY <2>2 DEF Asked
  <2>4. CASE RefusedAfterEnd(p, f)
    BY <2>4 DEF Entered
  <2>5. CASE \E g \in FindMatchmakeSessionBySearchCriteria(ended, cs) : Enter(p, d, g, n, f)
    <3>1. PICK g \in FindMatchmakeSessionBySearchCriteria(ended, cs) : Enter(p, d, g, n, f)
      BY <2>5
    <3>2. g \in {0} \cup GIDs /\ (g # 0 => Readable(EndMatchmakeSessions(p, f)[g]))
      BY <1>1, <1>2, FoundReadable
    <3>3. QED
      BY <2>3, <3>1, <3>2 DEF Entered
  <2>6. QED
    BY <1>1, <2>1, <2>2, <2>4, <2>5 DEF AutoMatchmakeWithSearchCriteriaPostpone
<1>9. QED
  BY <1>3, <1>4, <1>5, <1>6, <1>7, <1>8 DEF Entering

(* So they all change the table row by row. *)
LEMMA EnteringChanged ==
  ASSUME DataOK, NEW p \in PIDs, NEW f \in FaultPoints, Entering(p, f)
  PROVE  Changed(p)
BY EnteringForms, EnterChanged, CreateCommunityChanged DEF Entered

(* A handler that is given a gathering changes the row of that one. *)
LEMMA OneRowChanged ==
  ASSUME DataOK, NEW p \in PIDs, NEW g \in GIDs, NEW s,
         gatherings' = [gatherings EXCEPT ![g] = s], RowChange(gatherings[g], s, p)
  PROVE  Changed(p)
<1>1. DOMAIN gatherings' = GIDs
  BY DEF GIDs
<1>2. \A h \in GIDs : gatherings'[h] = IF h = g THEN s ELSE gatherings[h]
  BY DEF GIDs
<1>3. \A h \in GIDs : RowChange(gatherings[h], gatherings'[h], p)
  BY <1>2 DEF RowChange
<1>4. QED
  BY <1>1, <1>3 DEF Changed

(* Making itself host or owner. *)
LEMMA TakeChanged ==
  ASSUME DataOK, NEW p \in PIDs, NEW g \in GIDs, NEW f,
         TakeHost(p, g, f) \/ TakeOwnership(p, g, f)
  PROVE  Changed(p)
<1>1. PICK r : r = gatherings[g]
  OBVIOUS
<1>2. r \in GoodRow /\ r \in Row
  BY <1>1, RowAt DEF DataOK, GIDs, GoodRow
<1>3. CASE TakeHost(p, g, f)
  <2>1. PICK s : s = [r EXCEPT !.host = IF At(f, g) = "UpdateHost" THEN r.host ELSE p]
    OBVIOUS
  <2>2. gatherings' = [gatherings EXCEPT ![g] = s]
    BY <1>1, <1>3, <2>1 DEF TakeHost, GIDs
  <2>3. s = r \/ s = [r EXCEPT !.host = p]
    BY <1>2, <2>1 DEF Row
  <2>4. RowChange(r, s, p)
    BY <1>1, <1>3, <2>3 DEF RowChange, Taken, TakeHost
  <2>5. QED
    BY <1>1, <2>2, <2>4, OneRowChanged
<1>4. CASE TakeOwnership(p, g, f)
  <2>1. PICK s : s = [r EXCEPT !.owner = IF At(f, g) = "UpdateHost" THEN r.owner ELSE p,
                               !.host = IF At(f, g) = "UpdateHost" THEN r.host ELSE p]
    OBVIOUS
  <2>2. gatherings' = [gatherings EXCEPT ![g] = s]
    BY <1>1, <1>4, <2>1 DEF TakeOwnership, GIDs
  <2>3. s = r \/ s = [r EXCEPT !.owner = p, !.host = p]
    BY <1>2, <2>1 DEF Row
  <2>4. RowChange(r, s, p)
    BY <1>1, <1>4, <2>3 DEF RowChange, Taken, TakeOwnership
  <2>5. QED
    BY <1>1, <2>2, <2>4, OneRowChanged
<1>5. QED
  BY <1>3, <1>4

(* All the handlers that are given a gathering. *)
LEMMA VisitingChanged ==
  ASSUME DataOK, NEW p \in PIDs, NEW g \in GIDs, NEW f \in FaultPoints, Visiting(p, g, f)
  PROVE  Changed(p)
<1>1. PICK r : r = gatherings[g]
  OBVIOUS
<1>2. PICK e : e = At(f, g)
  OBVIOUS
<1>3. r \in GoodRow /\ e \in Faults
  BY <1>1, <1>2, RowAt, AtFaults DEF DataOK, GIDs
<1>4. ASSUME NEW n \in Nat, JoinMatchmakeSessionEx(p, g, n, f)
      PROVE  Changed(p)
  <2>1. PICK s : s = JoinGathering(r, p, n, e)
    OBVIOUS
  <2>2. Joins(r, s, p)
    BY <1>3, <2>1, JoinGatheringJoins
  <2>3. gatherings' = [gatherings EXCEPT ![g] = s] /\ Readable(r)
    BY <1>1, <1>2, <1>4, <2>1 DEF JoinMatchmakeSessionEx, JoinStep
  <2>4. QED
    BY <1>1, <2>2, <2>3, OneRowChanged DEF RowChange
<1>5. ASSUME NEW add \in Invites, NEW already \in BOOLEAN,
             \E check \in CheckIDs : JoinMatchmakeSessionWithParam(p, g, add, check, already, f)
      PROVE  Changed(p)
  <2>1. PICK s : s = JoinGatheringWithParticipants(r, p, add, already, e)
    OBVIOUS
  <2>2. Joins(r, s, p)
    BY <1>3, <2>1, JoinWithJoins
  <2>3. gatherings' = [gatherings EXCEPT ![g] = s] /\ Readable(r)
    BY <1>1, <1>2, <1>5, <2>1 DEF JoinMatchmakeSessionWithParam, JoinWithStep
  <2>4. QED
    BY <1>1, <2>2, <2>3, OneRowChanged DEF RowChange
<1>6. CASE EndParticipation(p, g, f)
  <2>1. PICK s : s = Leave(r, p, e)
    OBVIOUS
  <2>2. gatherings' = [gatherings EXCEPT ![g] = s] /\ Left(r, s, p)
    BY <1>1, <1>2, <1>3, <1>6, <2>1 DEF EndParticipation, Left
  <2>3. QED
    BY <1>1, <2>2, OneRowChanged DEF RowChange
<1>7. CASE UnregisterGathering(p, g, f)
  <2>1. PICK s : s = UnregisterRow(r, e)
    OBVIOUS
  <2>2. gatherings' = [gatherings EXCEPT ![g] = s] /\ (s = r \/ Managed(r, s))
    BY <1>1, <1>2, <1>7, <2>1 DEF UnregisterGathering, UnregisterRow, Managed
  <2>3. QED
    BY <1>1, <2>2, OneRowChanged DEF RowChange
<1>8. TakeHost(p, g, f) \/ TakeOwnership(p, g, f) => Changed(p)
  BY TakeChanged
<1>9. \A n \in Counts : n \in Nat
  BY GatheringsAssumption
<1>10. QED
  BY <1>4, <1>5, <1>6, <1>7, <1>8, <1>9
    DEF Visiting, JoinMatchmakeSession, UpdateSessionHost, UpdateSessionHostV1, UpdateSessionURL

(* The handlers that change a column of a session. *)
LEMMA ManagingChanged ==
  ASSUME DataOK, NEW p \in PIDs, NEW g \in GIDs,
         \/ \E open \in BOOLEAN : SetParticipation(p, g, open)
         \/ ModifyCurrentGameAttribute(p, g)
  PROVE  Changed(p)
<1>1. PICK r : r = gatherings[g]
  OBVIOUS
<1>2. PICK s : gatherings' = [gatherings EXCEPT ![g] = s] /\ Managed(r, s)
  BY <1>1 DEF SetParticipation, ModifyCurrentGameAttribute, Managed, Readable, GIDs
<1>3. QED
  BY <1>1, <1>2, OneRowChanged DEF RowChange

(* The callback of a connection that ended. *)
LEMMA DisconnectChanged ==
  ASSUME DataOK, NEW p \in PIDs, NEW f \in FaultPoints, DisconnectParticipant(p, f)
  PROVE  Changed(p)
<1>1. DOMAIN gatherings' = GIDs
  BY DEF DisconnectParticipant, GIDs
<1>2. ASSUME NEW g \in GIDs
      PROVE  RowChange(gatherings[g], gatherings'[g], p)
  <2>1. At(f, g) \in Faults
    BY AtFaults
  <2>2. gatherings'[g] = IF LeavesOnDisconnect(gatherings[g], p)
                           THEN Leave(gatherings[g], p, At(f, g)) ELSE gatherings[g]
    BY DEF DisconnectParticipant, GIDs
  <2>3. QED
    BY <2>1, <2>2 DEF RowChange, Left, LeavesOnDisconnect
<1>3. QED
  BY <1>1, <1>2 DEF Changed

(* What a restart leaves of a row. *)
RowRestarted(r, s) ==
  s = IF r.type = "MatchmakeSession" THEN [r EXCEPT !.registered = FALSE] ELSE r

(* Every step: a connection begins or ends, the callback of an ended one   *)
(* runs, a handler runs for its caller, or the server restarts.            *)
LEMMA Steps ==
  ASSUME DataOK, [Next]_vars
  PROVE  \/ UNCHANGED vars
         \/ \E p \in PIDs : (Connect(p) \/ ConnectionEnded(p)) /\ UNCHANGED gatherings
         \/ \E p \in PIDs, f \in FaultPoints : DisconnectParticipant(p, f) /\ Changed(p)
         \/ \E p \in PIDs : Caller(p) /\ Changed(p)
         \/ /\ Restart /\ DOMAIN gatherings' = GIDs
            /\ \A g \in GIDs : RowRestarted(gatherings[g], gatherings'[g])
<1>1. CASE UNCHANGED vars
  BY <1>1
<1>2. CASE Restart
  BY <1>2 DEF Restart, RowRestarted, GIDs
<1>3. ASSUME NEW p \in PIDs, Connect(p) \/ ConnectionEnded(p)
      PROVE  UNCHANGED gatherings
  BY <1>3 DEF Connect, ConnectionEnded
<1>4. ASSUME NEW p \in PIDs, NEW f \in FaultPoints, DisconnectParticipant(p, f)
      PROVE  Changed(p)
  BY <1>4, DisconnectChanged
<1>5. ASSUME NEW p \in PIDs, NEW f \in FaultPoints, Entering(p, f)
      PROVE  Caller(p) /\ Changed(p)
  BY <1>5, EnteringChanged, EnteringData
<1>6. ASSUME NEW p \in PIDs, NEW f \in FaultPoints, NEW g \in GIDs, Visiting(p, g, f)
      PROVE  Caller(p) /\ Changed(p)
  BY <1>6, VisitingChanged, VisitingData DEF GIDs
<1>7. ASSUME NEW p \in PIDs, NEW g \in GIDs,
             \/ \E open \in BOOLEAN : SetParticipation(p, g, open)
             \/ ModifyCurrentGameAttribute(p, g)
      PROVE  Caller(p) /\ Changed(p)
  BY <1>7, ManagingChanged, ManagingData DEF GIDs
<1>8. QED
  BY <1>1, <1>2, <1>3, <1>4, <1>5, <1>6, <1>7 DEF Next

-----------------------------------------------------------------------------
(* What the changes do to the players of a row. *)

(* Appending slots to an array. *)
LEMMA Concatenation ==
  ASSUME NEW s \in Seq(PIDs), NEW x \in Seq(PIDs)
  PROVE  /\ s \o x \in Seq(PIDs)
         /\ Members(s \o x) = Members(s) \cup Members(x)
         /\ s # <<>> => s \o x # <<>> /\ Head(s \o x) = Head(s)
<1>1. /\ s \o x \in Seq(PIDs) /\ Len(s \o x) = Len(s) + Len(x)
      /\ \A i \in 1..Len(s) : (s \o x)[i] = s[i]
      /\ \A i \in 1..Len(x) : (s \o x)[Len(s) + i] = x[i]
      /\ Len(s) \in Nat /\ Len(x) \in Nat
  OBVIOUS
<1>2. PICK t : t = s \o x
  OBVIOUS
<1>3. Members(t) \subseteq Members(s) \cup Members(x)
  <2>1. ASSUME NEW i \in DOMAIN t
        PROVE  t[i] \in Members(s) \cup Members(x)
    <3>1. CASE i \in 1..Len(s)
      BY <1>1, <1>2, <3>1 DEF Members
    <3>2. CASE i \notin 1..Len(s)
      <4>1. i - Len(s) \in 1..Len(x) /\ i = Len(s) + (i - Len(s))
        BY <1>1, <1>2, <3>2
      <4>2. t[i] = x[i - Len(s)]
        BY <1>1, <1>2, <4>1
      <4>3. QED
        BY <4>1, <4>2 DEF Members
    <3>3. QED
      BY <3>1, <3>2
  <2>2. QED
    BY <2>1 DEF Members
<1>4. Members(s) \subseteq Members(t)
  BY <1>1, <1>2 DEF Members
<1>5. Members(x) \subseteq Members(t)
  <2>1. ASSUME NEW i \in DOMAIN x
        PROVE  x[i] \in Members(t)
    <3>1. Len(s) + i \in DOMAIN t /\ t[Len(s) + i] = x[i]
      BY <1>1, <1>2
    <3>2. QED
      BY <3>1 DEF Members
  <2>2. QED
    BY <2>1 DEF Members
<1>6. s # <<>> => s \o x # <<>> /\ Head(s \o x) = Head(s)
  BY <1>1
<1>7. QED
  BY <1>1, <1>2, <1>3, <1>4, <1>5, <1>6

(* Joining keeps every slot, adds the newcomers behind them, and changes   *)
(* nothing else.                                                           *)
LEMMA JoinsEffect ==
  ASSUME NEW r \in GoodRow, NEW s, NEW p \in PIDs, Joins(r, s, p)
  PROVE  /\ Same(r, s) /\ s.registered = r.registered /\ s.owner = r.owner /\ s.host = r.host
         /\ Members(r.participants) \subseteq Members(s.participants)
         /\ Members(s.participants) \subseteq Members(r.participants) \cup Invited \cup {p}
         /\ r.participants # <<>> => /\ s.participants # <<>>
                                     /\ Head(s.participants) = Head(r.participants)
<1>1. PICK x \in Seq(PIDs) : Members(x) \subseteq Invited \cup {p} /\ Appended(r, s, x)
  BY DEF Joins
<1>2. PICK t : t = r.participants \o x
  OBVIOUS
<1>3. s = [r EXCEPT !.participants = t]
  BY <1>1, <1>2 DEF Appended
<1>4. r \in Row /\ r.participants \in Seq(PIDs)
  BY RowFields DEF GoodRow
<1>5. /\ Same(r, s) /\ s.registered = r.registered /\ s.owner = r.owner /\ s.host = r.host
      /\ s.participants = t
  BY <1>3, <1>4 DEF Row, Same
<1>6. /\ Members(t) = Members(r.participants) \cup Members(x)
      /\ r.participants # <<>> => t # <<>> /\ Head(t) = Head(r.participants)
  BY <1>2, <1>4, Concatenation
<1>7. QED
  BY <1>1, <1>5, <1>6

(* An array without members is empty. *)
LEMMA EmptyArray ==
  ASSUME NEW s \in Seq(PIDs)
  PROVE  s = <<>> <=> Members(s) = {}
<1>1. s # <<>> => s[1] \in Members(s)
  BY DEF Members
<1>2. QED
  BY <1>1 DEF Members

-----------------------------------------------------------------------------
(* Empty sessions. *)

(* Nobody comes into an empty session. *)
LEMMA EmptyRow ==
  ASSUME NEW r \in GoodRow, NEW s, NEW p \in PIDs, RowChange(r, s, p), r.participants = <<>>
  PROVE  s.participants = <<>>
<1>1. ~Participates(r, p) /\ ~Readable(r)
  BY DEF Participates, Members, Readable
<1>2. CASE Managed(r, s)
  BY <1>2 DEF Managed, GoodRow, Row
<1>3. QED
  BY <1>1, <1>2 DEF RowChange, Left, Taken

(* A session without participants never gets any: not by a search, whose   *)
(* results GetMatchmakeSessionByGathering cannot scan, not by an ID, not   *)
(* by a request that was late.  This needs no statement to succeed.        *)
THEOREM EmptyForever == Spec => EmptySessionStaysEmpty
<1>1. IInv /\ [Next]_vars =>
        [\A g \in GIDs :
           gatherings[g].type = "MatchmakeSession" /\ gatherings[g].participants = <<>>
             => gatherings'[g].participants = <<>>]_vars
  <2> SUFFICES ASSUME IInv, [Next]_vars, NEW g \in GIDs, gatherings[g].participants = <<>>
               PROVE  gatherings'[g].participants = <<>>
    OBVIOUS
  <2>1. DataOK /\ gatherings[g] \in GoodRow
    BY RowAt DEF IInv, DataOK, GIDs
  <2>2. ASSUME NEW p \in PIDs, Changed(p)
        PROVE  gatherings'[g].participants = <<>>
    BY <2>1, <2>2, EmptyRow DEF Changed
  <2>3. ASSUME RowRestarted(gatherings[g], gatherings'[g])
        PROVE  gatherings'[g].participants = <<>>
    BY <2>1, <2>3 DEF RowRestarted, GoodRow, Row
  <2>4. QED
    BY <2>1, <2>2, <2>3, Steps DEF vars
<1>2. QED
  BY <1>1, Invariance, PTL DEF Spec, EmptySessionStaysEmpty

-----------------------------------------------------------------------------
(* Owner and host. *)

(* The owner and the host of an ordinary session that is not empty. *)
Present(r) ==
  Ordinary(r) /\ r.participants # <<>> => Participates(r, r.owner) /\ Participates(r, r.host)

(* Its owner comes first. *)
Front(r) ==
  Ordinary(r) /\ r.participants # <<>> /\ ~HasFlag(r, {"ParticipantsChangeOwner"})
    => Head(r.participants) = r.owner

(* When the statements of the handover succeed, who leaves an ordinary     *)
(* session hands on what it had: the ownership to the first of the others, *)
(* the host to the owner.  The session is closed if nobody is left, or     *)
(* nobody may take it over.                                                *)
LEMMA LeaveHandsOn ==
  ASSUME NEW r \in GoodRow, NEW p \in PIDs, NEW f, f \notin Handover, f # "RemoveParticipant",
         Ordinary(r)
  PROVE  LET s == Leave(r, p, f) IN
         \/ ~s.registered
         \/ /\ s.participants = ArrayRemove(r.participants, p) /\ s.participants # <<>>
            /\ p # r.owner => s.owner = r.owner
            /\ p = r.owner => s.owner = Head(s.participants)
            /\ p # r.host => s.host = r.host
            /\ p = r.host => s.host = s.owner
<1>1. PICK a : a = RemoveParticipant(r, p)
  OBVIOUS
<1>2. PICK m : m = MigrateGatheringOwnership(r, p, f)
  OBVIOUS
<1>3. PICK o : o = CurrentOwner(r, p, f)
  OBVIOUS
<1>4. PICK c : c = [m EXCEPT !.owner = o, !.host = o]
  OBVIOUS
<1>5. PICK t : t = ArrayRemove(r.participants, p)
  OBVIOUS
<1>6. /\ r.participants \in Seq(PIDs) /\ r.owner \in PIDs /\ r.owner # NoPID
      /\ t \in Seq(PIDs) /\ Members(t) = Members(r.participants) \ {p}
  BY <1>5, RowFields, ArrayRemoveType, ArrayRemoveMembers, NoPIDAssumption DEF GoodRow
<1>7. ~OnlyRemoves(r, f)
  BY DEF OnlyRemoves, Ordinary, Handover
<1>8. CASE Abandoned(r, p)
  <2>1. Leave(r, p, f) = [a EXCEPT !.registered = FALSE]
    BY <1>1, <1>7, <1>8 DEF Leave, UnregisterRow, Handover
  <2>2. a \in Row
    BY <1>1, RemoveParticipantRow DEF GoodRow
  <2>3. QED
    BY <2>1, <2>2 DEF Row
<1>9. CASE ~Abandoned(r, p)
  <2>1. t # <<>>
    BY <1>5, <1>9 DEF Abandoned
  <2>2. p = r.owner => NewOwner(r, p) = Head(t) /\ NewOwner(r, p) # NoPID
    <3>1. SUFFICES ASSUME p = r.owner
                   PROVE  NewOwner(r, p) = Head(t) /\ NewOwner(r, p) # NoPID
      OBVIOUS
    <3>2. r.owner \notin Members(t) /\ Head(t) \in PIDs
      BY <1>6, <2>1, <3>1
    <3>3. FirstOther(t, r.owner, NoPID) = Head(t)
      BY <1>6, <2>1, <3>2, FirstOtherHead
    <3>4. QED
      BY <1>5, <3>2, <3>3, NoPIDAssumption DEF NewOwner
  <2>3. f # "MigrateOwner" /\ ~MigrateFails(r, p, f) /\ f # "UpdateHost"
    BY DEF MigrateFails, Handover
  <2>4. o = (IF p = r.owner THEN Head(t) ELSE r.owner) /\ o # NoPID
    BY <1>3, <1>6, <2>2, <2>3 DEF CurrentOwner
  <2>5. /\ m \in Row /\ m.participants = t /\ m.host = r.host /\ m.owner = o
    BY <1>2, <1>5, <2>2, <2>3, <2>4, MigrateEffect DEF GoodRow
  <2>6. c.participants = t /\ c.host = o /\ c.owner = o
    BY <1>4, <2>5 DEF Row
  <2>7. HostMoves(r, p, f) <=> p = r.host
    BY <1>3, <2>3, <2>4 DEF HostMoves
  <2>8. Leave(r, p, f) = IF p = r.host THEN c ELSE m
    BY <1>2, <1>3, <1>4, <1>7, <1>9, <2>7 DEF Leave
  <2>9. QED
    BY <1>5, <2>1, <2>4, <2>5, <2>6, <2>8
<1>10. QED
  BY <1>8, <1>9

(* Leaving keeps owner and host among the players, and the owner in front. *)
LEMMA PresentLeft ==
  ASSUME Failures \cap Handover = {}, NEW r \in GoodRow, NEW s, NEW p \in PIDs, Left(r, s, p),
         Present(r), Front(r)
  PROVE  s \in GoodRow /\ Present(s) /\ Front(s)
<1>1. PICK f \in Faults : s = Leave(r, p, f)
  BY DEF Left
<1>2. f \notin Handover
  BY DEF Faults, Handover
<1>3. /\ s \in GoodRow /\ Same(r, s)
      /\ s.registered => r.registered
      /\ f = "RemoveParticipant" => s = r
  BY <1>1, LeaveEffect
<1>4. CASE ~Ordinary(s) \/ f = "RemoveParticipant"
  BY <1>3, <1>4 DEF Present, Front
<1>5. CASE Ordinary(s) /\ f # "RemoveParticipant"
  <2>1. Ordinary(r) /\ s.registered
    BY <1>3, <1>5 DEF Ordinary, HasFlag, Same
  <2>2. PICK t : t = ArrayRemove(r.participants, p)
    OBVIOUS
  <2>3. /\ s.participants = t /\ t # <<>>
        /\ p # r.owner => s.owner = r.owner
        /\ p = r.owner => s.owner = Head(t)
        /\ p # r.host => s.host = r.host
        /\ p = r.host => s.host = s.owner
    BY <1>1, <1>2, <1>5, <2>1, <2>2, LeaveHandsOn
  <2>4. /\ r.participants \in Seq(PIDs) /\ t \in Seq(PIDs)
        /\ Members(t) = Members(r.participants) \ {p}
    BY <2>2, RowFields, ArrayRemoveType, ArrayRemoveMembers DEF GoodRow
  <2>5. Head(t) \in Members(t)
    BY <2>3, <2>4 DEF Members
  <2>6. r.participants # <<>> /\ r.owner \in Members(r.participants) /\ r.host \in Members(r.participants)
    <3>1. Members(r.participants) # {}
      BY DEF Left, Participates
    <3>2. r.participants # <<>>
      BY <2>4, <3>1, EmptyArray
    <3>3. QED
      BY <2>1, <3>2 DEF Present, Participates
  <2>7. Present(s)
    BY <2>3, <2>4, <2>5, <2>6 DEF Present, Participates
  <2>8. Front(s)
    <3>1. CASE HasFlag(s, {"ParticipantsChangeOwner"}) \/ p = r.owner
      BY <2>3, <3>1 DEF Front
    <3>2. CASE ~HasFlag(s, {"ParticipantsChangeOwner"}) /\ p # r.owner
      <4>1. Head(r.participants) = r.owner
        BY <1>3, <2>1, <2>6, <3>2 DEF Front, HasFlag, Same
      <4>2. Head(t) = Head(r.participants)
        BY <2>2, <2>4, <2>6, <3>2, <4>1, ArrayRemoveHead
      <4>3. QED
        BY <2>3, <3>2, <4>1, <4>2 DEF Front
    <3>3. QED
      BY <3>1, <3>2
  <2>9. QED
    BY <1>3, <2>7, <2>8
<1>6. QED
  BY <1>4, <1>5

(* So does every other change. *)
LEMMA PresentChange ==
  ASSUME Failures \cap Handover = {}, NEW r \in GoodRow, NEW s, NEW p \in PIDs,
         RowChange(r, s, p), Present(r), Front(r)
  PROVE  Present(s) /\ Front(s)
<1>1. CASE s = r
  BY <1>1
<1>2. CASE Left(r, s, p)
  BY <1>2, PresentLeft
<1>3. ASSUME NEW t \in GoodRow, Present(t), Front(t), Readable(t), Joins(t, s, p)
      PROVE  Present(s) /\ Front(s)
  <2>1. /\ Same(t, s) /\ s.registered = t.registered /\ s.owner = t.owner /\ s.host = t.host
        /\ Members(t.participants) \subseteq Members(s.participants)
        /\ t.participants # <<>> => Head(s.participants) = Head(t.participants)
    BY <1>3, JoinsEffect
  <2>2. t.participants # <<>> /\ (Ordinary(s) => Ordinary(t))
        /\ (\A flags : HasFlag(s, flags) <=> HasFlag(t, flags))
    BY <1>3, <2>1 DEF Readable, Ordinary, HasFlag, Same
  <2>3. QED
    BY <1>3, <2>1, <2>2 DEF Present, Front, Participates
<1>4. CASE \E t \in GoodRow : Left(r, t, p) /\ Readable(t) /\ Joins(t, s, p)
  BY <1>3, <1>4, PresentLeft
<1>5. r \in Row
  BY DEF GoodRow
<1>6. CASE Taken(r, s, p)
  <2>1. /\ s.participants = r.participants /\ s.host = p /\ s.d = r.d
        /\ s.type = r.type /\ s.registered = r.registered
        /\ \/ s.owner = r.owner
           \/ s.owner = p /\ HasFlag(r, {"ParticipantsChangeOwner"})
    BY <1>5, <1>6 DEF Taken, Row
  <2>2. Participates(r, p)
    BY <1>6 DEF Taken
  <2>3. QED
    BY <2>1, <2>2 DEF Present, Front, Participates, Ordinary, HasFlag
<1>7. CASE Managed(r, s)
  <2>1. /\ s.participants = r.participants /\ s.host = r.host /\ s.d = r.d
        /\ s.type = r.type /\ s.owner = r.owner
        /\ s.registered => r.registered
    BY <1>5, <1>7 DEF Managed, Row
  <2>2. QED
    BY <2>1 DEF Present, Front, Participates, Ordinary, HasFlag
<1>8. QED
  BY <1>1, <1>2, <1>3, <1>4, <1>6, <1>7 DEF RowChange

(* A new gathering has its creator in front, as owner and host. *)
LEMMA PresentCreated ==
  ASSUME NEW p \in PIDs, NEW s, RowCreated(s, p)
  PROVE  Present(s) /\ Front(s)
<1>1. s.participants \in Seq(PIDs)
  BY RowFields DEF RowCreated, GoodRow
<1>2. s.participants # <<>> => Head(s.participants) \in Members(s.participants)
  BY <1>1 DEF Members
<1>3. QED
  BY <1>2 DEF RowCreated, Present, Front, Participates, Ordinary

(* Every row, in every reachable state. *)
PresentInv == \A g \in GIDs : Present(gatherings[g]) /\ Front(gatherings[g])

(* No step loses the owner or the host of an ordinary session. *)
LEMMA PresentStep ==
  ASSUME Failures \cap Handover = {}, IInv, PresentInv, [Next]_vars
  PROVE  PresentInv'
<1>1. DataOK /\ \A g \in GIDs : gatherings[g] \in GoodRow
  BY RowAt DEF IInv, DataOK, GIDs
<1>2. ASSUME NEW p \in PIDs, Changed(p)
      PROVE  PresentInv'
  <2>1. ASSUME NEW g \in DOMAIN gatherings'
        PROVE  Present(gatherings'[g]) /\ Front(gatherings'[g])
    <3>1. CASE g \in GIDs
      BY <1>1, <1>2, <3>1, PresentChange DEF Changed, PresentInv
    <3>2. CASE g \notin GIDs
      BY <1>2, <3>2, PresentCreated DEF Changed
    <3>3. QED
      BY <3>1, <3>2
  <2>2. QED
    BY <2>1 DEF PresentInv, GIDs, Present, Front, Ordinary, Participates, HasFlag
<1>3. CASE UNCHANGED gatherings
  BY <1>3 DEF PresentInv, GIDs, Present, Front, Ordinary, Participates, HasFlag
<1>4. CASE /\ DOMAIN gatherings' = GIDs
           /\ \A g \in GIDs : RowRestarted(gatherings[g], gatherings'[g])
  <2>1. ASSUME NEW g \in GIDs
        PROVE  ~Ordinary(gatherings'[g])
    BY <1>1, <1>4, <2>1 DEF RowRestarted, Ordinary, GoodRow, Row
  <2>2. QED
    BY <1>4, <2>1 DEF PresentInv, GIDs, Present, Front
<1>5. QED
  BY <1>1, <1>2, <1>3, <1>4, Steps DEF vars

(* The invariant behind the two theorems that follow. *)
LEMMA PresentAlways ==
  ASSUME Failures \cap Handover = {}
  PROVE  Spec => []PresentInv
<1>1. Init => PresentInv
  BY DEF Init, PresentInv, GIDs
<1>2. IInv /\ PresentInv /\ [Next]_vars => PresentInv'
  BY PresentStep
<1>3. QED
  BY <1>1, <1>2, Invariance, PTL DEF Spec

(* Whoever joins, leaves, disconnects, is invited or takes over, in        *)
(* whatever order and however late: while an ordinary session has players, *)
(* its owner and its host are among them.  This needs the five statements  *)
(* that hand the session on to succeed, and no others: each of them can    *)
(* leave behind a session whose owner or host is gone.                     *)
THEOREM OwnerAndHostStay ==
  ASSUME Failures \cap Handover = {}
  PROVE  Spec => []OwnerAndHostPresent
<1>1. PresentInv => OwnerAndHostPresent
  BY DEF PresentInv, Present, OwnerAndHostPresent
<1>2. QED
  BY <1>1, PresentAlways, PTL

(* The owner of an ordinary session holds slot 0, unless participants may  *)
(* take the session over.  Again the handover has to succeed.              *)
THEOREM OwnerStaysAtHead ==
  ASSUME Failures \cap Handover = {}
  PROVE  Spec => []OwnerAtHead
<1>1. PresentInv => OwnerAtHead
  BY DEF PresentInv, Front, OwnerAtHead
<1>2. QED
  BY <1>1, PresentAlways, PTL

-----------------------------------------------------------------------------
(* Communities. *)

(* Nobody but its owner is in a community: a session can be joined and     *)
(* handed on, a community cannot.                                          *)
Alone(r) == r.type = "PersistentGathering" => Members(r.participants) \subseteq {r.owner}

(* A community keeps its owner, and does not come back once unregistered. *)
LEMMA AloneChange ==
  ASSUME NEW r \in GoodRow, NEW s, NEW p \in PIDs, RowChange(r, s, p), Alone(r),
         r.type = "PersistentGathering"
  PROVE  /\ s.type = r.type /\ s.stored = r.stored /\ s.owner = r.owner
         /\ s.registered => r.registered
         /\ Alone(s)
<1>1. r \in Row /\ r.participants \in Seq(PIDs) /\ Members(r.participants) \subseteq {r.owner}
  BY RowFields DEF GoodRow, Alone
<1>2. ~Readable(r)
  BY DEF Readable
<1>3. ASSUME NEW t, Left(r, t, p)
      PROVE  /\ t.type = r.type /\ t.stored = r.stored /\ t.owner = r.owner
             /\ t.registered => r.registered
             /\ Members(t.participants) \subseteq {t.owner}
  <2>1. PICK f : t = Leave(r, p, f)
    BY <1>3 DEF Left
  <2>2. /\ Same(r, t)
        /\ t.registered => r.registered
        /\ f # "RemoveParticipant" => t.participants = ArrayRemove(r.participants, p)
        /\ f = "RemoveParticipant" => t = r
        /\ t.owner # r.owner => NewOwner(r, p) # NoPID
    BY <2>1, LeaveEffect
  <2>3. NewOwner(r, p) = NoPID
    BY <1>1, NewOwnerType
  <2>4. Members(ArrayRemove(r.participants, p)) \subseteq Members(r.participants)
    BY <1>1, ArrayRemoveMembers
  <2>5. QED
    BY <1>1, <2>2, <2>3, <2>4 DEF Same
<1>4. CASE Taken(r, s, p)
  <2>1. p = r.owner
    BY <1>1, <1>4 DEF Taken, Participates
  <2>2. QED
    BY <1>1, <1>4, <2>1 DEF Taken, Alone, Row
<1>5. CASE Managed(r, s)
  BY <1>1, <1>5 DEF Managed, Alone, Row
<1>6. QED
  BY <1>1, <1>2, <1>3, <1>4, <1>5 DEF RowChange, Readable, Alone

(* A row that is no community does not become one. *)
LEMMA StaysSession ==
  ASSUME NEW r \in GoodRow, NEW s, NEW p \in PIDs, RowChange(r, s, p),
         r.type # "PersistentGathering"
  PROVE  s.type # "PersistentGathering"
<1>1. r \in Row
  BY DEF GoodRow
<1>2. ASSUME NEW t, Left(r, t, p)
      PROVE  t \in GoodRow /\ t.type = r.type
  BY <1>2, LeaveEffect DEF Left, Same
<1>3. ASSUME NEW u \in GoodRow, NEW t, Joins(u, t, p)
      PROVE  t.type = u.type
  BY <1>3, JoinsEffect DEF Same
<1>4. CASE Taken(r, s, p) \/ Managed(r, s)
  BY <1>1, <1>4 DEF Taken, Managed, Row
<1>5. QED
  BY <1>2, <1>3, <1>4 DEF RowChange

(* The bound, and that nobody takes over a community that somebody else created. *)
CommunityInv == CommunitiesBounded /\ \A g \in GIDs : Alone(gatherings[g])

(* The communities of a player are finitely many. *)
LEMMA OwnedFinite ==
  ASSUME DataOK, NEW q
  PROVE  IsFiniteSet(OwnedCommunities(q)) /\ OwnedCommunities(q) \subseteq GIDs
<1>1. GIDs = 1..Len(gatherings) /\ Len(gatherings) \in Nat
  BY DEF DataOK, GIDs
<1>2. IsFiniteSet(1..Len(gatherings))
  BY <1>1, FS_Interval
<1>3. OwnedCommunities(q) \in SUBSET (1..Len(gatherings))
  BY <1>1 DEF OwnedCommunities, GIDs
<1>4. QED
  BY <1>1, <1>2, <1>3, FS_Subset

(* No step gives a player a community too many. *)
LEMMA CommunityStep ==
  ASSUME IInv, CommunityInv, [Next]_vars
  PROVE  CommunityInv'
<1>1. DataOK /\ \A g \in GIDs : gatherings[g] \in GoodRow
  BY RowAt DEF IInv, DataOK, GIDs
<1>2. CreationMax \in Nat
  BY GatheringsAssumption
<1>3. ASSUME NEW p \in PIDs, Changed(p)
      PROVE  CommunityInv'
  <2>1. ASSUME NEW g \in GIDs
        PROVE  Alone(gatherings'[g])
    BY <1>1, <1>3, <2>1, AloneChange, StaysSession DEF Changed, CommunityInv, Alone
  <2>2. ASSUME NEW g \in DOMAIN gatherings' \ GIDs
        PROVE  Alone(gatherings'[g])
    BY <1>3, <2>2 DEF Changed, RowCreated, Alone
  <2>3. \A g \in DOMAIN gatherings' : Alone(gatherings'[g])
    BY <2>1, <2>2
  <2>4. ASSUME NEW q \in PIDs
        PROVE  Cardinality(OwnedCommunities(q)') <= CreationMax
    <3>1. PICK old : old = OwnedCommunities(q)
      OBVIOUS
    <3>2. PICK new : new = OwnedCommunities(q)'
      OBVIOUS
    <3>3. IsFiniteSet(old) /\ Cardinality(old) \in Nat /\ Cardinality(old) <= CreationMax
          /\ old \subseteq GIDs
      BY <1>1, <3>1, OwnedFinite, FS_CardinalityType DEF CommunityInv, CommunitiesBounded
    <3>4. new \cap GIDs \subseteq old
      <4>1. ASSUME NEW g \in GIDs, g \in new
            PROVE  g \in old
        <5>1. /\ gatherings'[g].type = "PersistentGathering" /\ gatherings'[g].registered
              /\ gatherings'[g].stored /\ gatherings'[g].owner = q
          BY <3>2, <4>1 DEF OwnedCommunities
        <5>2. RowChange(gatherings[g], gatherings'[g], p) /\ Alone(gatherings[g])
          BY <1>3 DEF Changed, CommunityInv
        <5>3. gatherings[g].type = "PersistentGathering"
          BY <1>1, <5>1, <5>2, StaysSession
        <5>4. /\ gatherings[g].registered /\ gatherings[g].stored /\ gatherings[g].owner = q
          BY <1>1, <5>1, <5>2, <5>3, AloneChange
        <5>5. QED
          BY <3>1, <5>3, <5>4 DEF OwnedCommunities, GIDs
      <4>2. QED
        BY <4>1
    <3>5. CASE new \subseteq GIDs
      <4>1. new \in SUBSET old
        BY <3>4, <3>5
      <4>2. Cardinality(new) <= Cardinality(old) /\ Cardinality(new) \in Nat
        BY <3>3, <4>1, FS_Subset, FS_CardinalityType
      <4>3. QED
        BY <1>2, <3>2, <3>3, <4>2
    <3>6. CASE ~(new \subseteq GIDs)
      <4>1. PICK g \in new : g \notin GIDs
        BY <3>6
      <4>2. /\ g \in DOMAIN gatherings'
            /\ gatherings'[g].type = "PersistentGathering" /\ gatherings'[g].owner = q
        BY <3>2 DEF OwnedCommunities
      <4>3. g = NewGID /\ q = p /\ Cardinality(old) < CreationMax
        BY <1>3, <3>1, <4>1, <4>2 DEF Changed, RowCreated
      <4>4. new \subseteq DOMAIN gatherings'
        BY <3>2 DEF OwnedCommunities
      <4>5. new \in SUBSET (old \cup {g})
        BY <1>3, <3>4, <4>3, <4>4 DEF Changed
      <4>6. IsFiniteSet(old \cup {g}) /\ Cardinality(old \cup {g}) = Cardinality(old) + 1
        BY <3>3, <4>1, FS_AddElement
      <4>7. Cardinality(new) <= Cardinality(old) + 1 /\ Cardinality(new) \in Nat
        BY <4>5, <4>6, FS_Subset, FS_CardinalityType
      <4>8. QED
        BY <1>2, <3>2, <3>3, <4>3, <4>7
    <3>7. QED
      BY <3>5, <3>6
  <2>5. QED
    BY <2>3, <2>4 DEF CommunityInv, CommunitiesBounded, GIDs, Alone
<1>4. CASE UNCHANGED gatherings
  BY <1>4 DEF CommunityInv, CommunitiesBounded, OwnedCommunities, GIDs, Alone
<1>5. CASE /\ DOMAIN gatherings' = GIDs
           /\ \A g \in GIDs : RowRestarted(gatherings[g], gatherings'[g])
  <2>1. ASSUME NEW g \in GIDs
        PROVE  /\ gatherings'[g].type = gatherings[g].type
               /\ gatherings[g].type = "PersistentGathering" => gatherings'[g] = gatherings[g]
    BY <1>1, <1>5, <2>1 DEF RowRestarted, GoodRow, Row
  <2>2. \A q \in PIDs : OwnedCommunities(q)' = OwnedCommunities(q)
    BY <1>5, <2>1 DEF OwnedCommunities, GIDs
  <2>3. QED
    BY <1>5, <2>1, <2>2 DEF CommunityInv, CommunitiesBounded, GIDs, Alone
<1>6. QED
  BY <1>1, <1>3, <1>4, <1>5, Steps DEF vars

(* No player ever owns more communities than PersistentGatheringCreation-  *)
(* Max: createCommunity compares before it inserts, under the same lock,   *)
(* and no community changes hands, since only its creator is ever in it.   *)
THEOREM CommunitiesStayBounded == Spec => []CommunitiesBounded
<1>1. Init => CommunityInv
  <2> SUFFICES ASSUME Init
               PROVE  CommunityInv
    OBVIOUS
  <2>1. GIDs = {} /\ \A q \in PIDs : OwnedCommunities(q) = {}
    BY DEF Init, GIDs, OwnedCommunities
  <2>2. Cardinality({}) = 0 /\ CreationMax \in Nat
    BY FS_EmptySet, GatheringsAssumption
  <2>3. QED
    BY <2>1, <2>2 DEF CommunityInv, CommunitiesBounded
<1>2. IInv /\ CommunityInv /\ [Next]_vars => CommunityInv'
  BY CommunityStep
<1>3. CommunityInv => CommunitiesBounded
  BY DEF CommunityInv
<1>4. QED
  BY <1>1, <1>2, <1>3, Invariance, PTL DEF Spec

-----------------------------------------------------------------------------
(* Leaving the other sessions. *)

(* Whoever has left is no longer in. *)
LEMMA LeftIsOut ==
  ASSUME "RemoveParticipant" \notin Failures, NEW r \in GoodRow, NEW p \in PIDs,
         NEW f \in Faults
  PROVE  ~Participates(Leave(r, p, f), p)
<1>1. f # "RemoveParticipant"
  BY DEF Faults
<1>2. Leave(r, p, f).participants = ArrayRemove(r.participants, p)
  BY <1>1, LeaveEffect
<1>3. r.participants \in Seq(PIDs)
  BY RowFields DEF GoodRow
<1>4. p \notin Members(ArrayRemove(r.participants, p))
  BY <1>3, ArrayRemoveMembers
<1>5. QED
  BY <1>2, <1>4 DEF Participates

(* Whoever creates a session, with any of the handlers that can, is in no  *)
(* other session afterwards, provided that the statement that removes a    *)
(* participant does not fail: EndMatchmakeSessionsParticipation only logs  *)
(* such a failure.                                                         *)
THEOREM CreatorLeaves ==
  ASSUME "RemoveParticipant" \notin Failures
  PROVE  Spec => CreatorLeftOthers
<1>1. IInv /\ [Next]_vars =>
        [\A g \in 1..Len(gatherings') \ GIDs :
           gatherings'[g].type = "MatchmakeSession" =>
             \A h \in GIDs : gatherings'[h].type = "MatchmakeSession" /\ gatherings'[h].registered
                => ~Participates(gatherings'[h], gatherings'[g].owner)]_vars
  <2> SUFFICES ASSUME IInv, [Next]_vars, NEW g \in 1..Len(gatherings') \ GIDs,
                      gatherings'[g].type = "MatchmakeSession", NEW h \in GIDs,
                      gatherings'[h].type = "MatchmakeSession", gatherings'[h].registered
               PROVE  ~Participates(gatherings'[h], gatherings'[g].owner)
    OBVIOUS
  <2>1. DataOK /\ gatherings[h] \in GoodRow
    BY RowAt DEF IInv, DataOK, GIDs
  <2>2. g \in DOMAIN gatherings' /\ DOMAIN gatherings' # GIDs
    <3>1. DataOK'
      BY NextStep DEF IInv
    <3>2. QED
      BY <3>1 DEF DataOK
  <2>3. ASSUME NEW p \in PIDs, Changed(p)
        PROVE  ~Participates(gatherings'[h], gatherings'[g].owner)
    <3>1. gatherings'[g].owner = p /\ Ended(gatherings[h], gatherings'[h], p)
      BY <2>2, <2>3 DEF Changed, RowCreated
    <3>2. CASE EndsIn(gatherings[h], p)
      BY <2>1, <3>1, <3>2, LeftIsOut DEF Ended
    <3>3. CASE ~EndsIn(gatherings[h], p)
      BY <3>1, <3>3 DEF Ended, EndsIn
    <3>4. QED
      BY <3>1, <3>2, <3>3
  <2>4. QED
    BY <2>1, <2>2, <2>3, Steps DEF vars, GIDs
<1>2. QED
  BY <1>1, Invariance, PTL DEF Spec, CreatorLeftOthers

-----------------------------------------------------------------------------
(* Slots of players that are gone. *)

(* When nobody is invited, only the caller comes in. *)
LEMMA OnlyCallerJoins ==
  ASSUME Invites \subseteq {<<>>}, NEW r \in GoodRow, NEW s, NEW p \in PIDs, RowChange(r, s, p)
  PROVE  /\ Ordinary(s) => Ordinary(r)
         /\ Members(s.participants) \subseteq Members(r.participants) \cup {p}
<1>1. Invited = {}
  BY DEF Invited, Members
<1>2. r \in Row
  BY DEF GoodRow
<1>3. ASSUME NEW t, Left(r, t, p)
      PROVE  /\ t \in GoodRow
             /\ Ordinary(t) => Ordinary(r)
             /\ Members(t.participants) \subseteq Members(r.participants)
  <2>1. PICK f : t = Leave(r, p, f)
    BY <1>3 DEF Left
  <2>2. /\ t \in GoodRow /\ Same(r, t)
        /\ t.registered => r.registered
        /\ f # "RemoveParticipant" => t.participants = ArrayRemove(r.participants, p)
        /\ f = "RemoveParticipant" => t = r
    BY <2>1, LeaveEffect
  <2>3. r.participants \in Seq(PIDs)
    BY RowFields DEF GoodRow
  <2>4. Members(ArrayRemove(r.participants, p)) \subseteq Members(r.participants)
    BY <2>3, ArrayRemoveMembers
  <2>5. QED
    BY <2>2, <2>4 DEF Ordinary, HasFlag, Same
<1>4. ASSUME NEW u \in GoodRow, NEW t, Joins(u, t, p)
      PROVE  /\ Ordinary(t) => Ordinary(u)
             /\ Members(t.participants) \subseteq Members(u.participants) \cup {p}
  BY <1>1, <1>4, JoinsEffect DEF Ordinary, HasFlag, Same
<1>5. CASE Taken(r, s, p) \/ Managed(r, s)
  <2>1. /\ s.participants = r.participants /\ s.d = r.d /\ s.type = r.type
        /\ s.registered => r.registered
    BY <1>2, <1>5 DEF Taken, Managed, Row
  <2>2. QED
    BY <2>1 DEF Ordinary, HasFlag
<1>6. QED
  BY <1>3, <1>4, <1>5 DEF RowChange

(* With no late requests none is ever waiting. *)
GhostInv == NoGhostSlots /\ \A p \in PIDs : late[p] = FALSE

(* No step leaves a slot to a player that is gone. *)
LEMMA GhostStep ==
  ASSUME Invites \subseteq {<<>>}, LateRequests = FALSE, "RemoveParticipant" \notin Failures,
         IInv, GhostInv, [Next]_vars
  PROVE  GhostInv'
<1>1. /\ DataOK /\ \A g \in GIDs : gatherings[g] \in GoodRow
      /\ live \in [PIDs -> Nat] /\ ending \in [PIDs -> Nat]
  BY RowAt, GatheringsAssumption DEF IInv, DataOK, ConnsOK, GIDs
<1>2. ASSUME NEW p \in PIDs, Changed(p), NEW g \in DOMAIN gatherings', Ordinary(gatherings'[g])
      PROVE  \A q \in Members(gatherings'[g].participants) \ {p} : live[q] + ending[q] > 0
  <2>1. CASE g \in GIDs
    BY <1>1, <1>2, <2>1, OnlyCallerJoins DEF Changed, GhostInv, NoGhostSlots
  <2>2. CASE g \notin GIDs
    <3>1. Invited = {}
      BY DEF Invited, Members
    <3>2. QED
      BY <1>2, <2>2, <3>1 DEF Changed, RowCreated
  <2>3. QED
    BY <2>1, <2>2
<1>3. ASSUME NEW p \in PIDs, Connect(p) \/ ConnectionEnded(p), UNCHANGED gatherings
      PROVE  GhostInv'
  <2>1. late' = late
    BY <1>3 DEF Connect, ConnectionEnded
  <2>2. ASSUME NEW q \in PIDs, live[q] + ending[q] > 0
        PROVE  live'[q] + ending'[q] > 0
    BY <1>1, <1>3, <2>2 DEF Connect, ConnectionEnded
  <2>3. \A g \in GIDs : Members(gatherings[g].participants) \subseteq PIDs
    BY <1>1, RowFields DEF GoodRow
  <2>4. QED
    BY <1>3, <2>1, <2>2, <2>3 DEF GhostInv, NoGhostSlots, Ordinary, GIDs, HasFlag, Members
<1>4. ASSUME NEW p \in PIDs, NEW f \in FaultPoints, DisconnectParticipant(p, f), Changed(p)
      PROVE  GhostInv'
  <2>1. ASSUME NEW g \in GIDs, Ordinary(gatherings'[g])
        PROVE  p \notin Members(gatherings'[g].participants)
    <3>1. gatherings'[g] = IF LeavesOnDisconnect(gatherings[g], p)
                             THEN Leave(gatherings[g], p, At(f, g)) ELSE gatherings[g]
      BY <1>4 DEF DisconnectParticipant, GIDs
    <3>2. At(f, g) \in Faults
      BY AtFaults
    <3>3. Ordinary(gatherings[g])
      BY <1>1, <1>4, <2>1, OnlyCallerJoins DEF Changed
    <3>4. ~StaysOnDisconnect(gatherings[g])
      BY <3>3 DEF StaysOnDisconnect, Ordinary, HasFlag
    <3>5. CASE Participates(gatherings[g], p)
      <4>1. gatherings'[g] = Leave(gatherings[g], p, At(f, g))
        BY <3>1, <3>3, <3>4, <3>5 DEF LeavesOnDisconnect, Ordinary
      <4>2. QED
        BY <1>1, <3>2, <4>1, LeftIsOut DEF Participates
    <3>6. CASE ~Participates(gatherings[g], p)
      BY <3>1, <3>6 DEF LeavesOnDisconnect, Participates
    <3>7. QED
      BY <3>5, <3>6
  <2>2. DOMAIN gatherings' = GIDs /\ late' = late /\ live' = live
        /\ \A q \in PIDs \ {p} : ending'[q] = ending[q]
    BY <1>1, <1>4 DEF DisconnectParticipant, GIDs
  <2>3. DataOK'
    BY NextStep DEF IInv
  <2>4. \A g \in DOMAIN gatherings' : Members(gatherings'[g].participants) \subseteq PIDs
    BY <2>3, RowAt, RowFields DEF DataOK, GoodRow
  <2>5. ASSUME NEW g \in DOMAIN gatherings', Ordinary(gatherings'[g]),
               NEW q \in Members(gatherings'[g].participants)
        PROVE  live'[q] + ending'[q] > 0
    BY <1>2, <1>4, <2>1, <2>2, <2>4, <2>5
  <2>6. QED
    BY <2>2, <2>5 DEF GhostInv, NoGhostSlots, Ordinary, GIDs, HasFlag, Members
<1>5. ASSUME NEW p \in PIDs, Caller(p), Changed(p)
      PROVE  GhostInv'
  <2>1. live[p] > 0 /\ late' = late /\ live' = live /\ ending' = ending
    BY <1>5 DEF Caller, GhostInv
  <2>2. live[p] + ending[p] > 0
    BY <1>1, <2>1
  <2>3. ASSUME NEW g \in DOMAIN gatherings', Ordinary(gatherings'[g]),
               NEW q \in Members(gatherings'[g].participants)
        PROVE  live'[q] + ending'[q] > 0
    BY <1>2, <1>5, <2>1, <2>2, <2>3
  <2>4. QED
    BY <2>1, <2>3 DEF GhostInv, NoGhostSlots, Ordinary, GIDs, HasFlag, Members
<1>6. CASE /\ Restart /\ DOMAIN gatherings' = GIDs
           /\ \A g \in GIDs : RowRestarted(gatherings[g], gatherings'[g])
  <2>1. ASSUME NEW g \in GIDs
        PROVE  ~Ordinary(gatherings'[g])
    BY <1>1, <1>6, <2>1 DEF RowRestarted, Ordinary, GoodRow, Row
  <2>2. \A p \in PIDs : late'[p] = FALSE
    BY <1>6 DEF Restart
  <2>3. QED
    BY <1>6, <2>1, <2>2 DEF GhostInv, NoGhostSlots, GIDs
<1>7. CASE UNCHANGED vars
  BY <1>7 DEF vars, GhostInv, NoGhostSlots, Ordinary, GIDs, HasFlag, Members
<1>8. QED
  BY <1>1, <1>3, <1>4, <1>5, <1>6, <1>7, Steps

(* The invariant behind NoGhostSlots. *)
LEMMA GhostAlways ==
  ASSUME Invites \subseteq {<<>>}, LateRequests = FALSE, "RemoveParticipant" \notin Failures
  PROVE  Spec => []GhostInv
<1>1. Init => GhostInv
  BY DEF Init, GhostInv, NoGhostSlots, GIDs
<1>2. IInv /\ GhostInv /\ [Next]_vars => GhostInv'
  BY GhostStep
<1>3. QED
  BY <1>1, <1>2, Invariance, PTL DEF Spec

(* Every player in an ordinary session has a connection, or a callback is  *)
(* still to take it out, however many connections it had.  This needs what *)
(* the code does not prevent to be absent: invitations of players that are *)
(* not connected, requests that outlive their connection, and a failure of *)
(* the statement that removes a participant.                               *)
THEOREM NoGhosts ==
  ASSUME Invites \subseteq {<<>>}, LateRequests = FALSE, "RemoveParticipant" \notin Failures
  PROVE  Spec => []NoGhostSlots
<1>1. GhostInv => NoGhostSlots
  BY DEF GhostInv
<1>2. QED
  BY <1>1, GhostAlways, PTL

-----------------------------------------------------------------------------
(* What the reads answer. *)

(* The row EndMatchmakeSessionsParticipation leaves when nothing fails: if *)
(* it still is a session, p is not in it.                                  *)
LEMMA EndedIsOut ==
  ASSUME DataOK, NEW p \in PIDs, NEW g \in GIDs,
         Readable(EndMatchmakeSessions(p, NoFault)[g])
  PROVE  /\ EndMatchmakeSessions(p, NoFault)[g] \in GoodRow
         /\ ~Participates(EndMatchmakeSessions(p, NoFault)[g], p)
<1>1. PICK r : r = gatherings[g]
  OBVIOUS
<1>2. r \in GoodRow /\ r.participants \in Seq(PIDs)
  BY <1>1, RowAt, RowFields DEF DataOK, GIDs, GoodRow
<1>3. PICK s : s = EndMatchmakeSessions(p, NoFault)[g]
  OBVIOUS
<1>4. s = IF EndsIn(r, p) THEN Leave(r, p, "none") ELSE r
  BY <1>1, <1>3 DEF EndMatchmakeSessions, At, NoFault, GIDs
<1>5. CASE EndsIn(r, p)
  <2>1. s \in GoodRow /\ s.participants = ArrayRemove(r.participants, p)
    BY <1>2, <1>4, <1>5, LeaveEffect
  <2>2. p \notin Members(ArrayRemove(r.participants, p))
    BY <1>2, ArrayRemoveMembers
  <2>3. QED
    BY <1>3, <2>1, <2>2 DEF Participates
<1>6. CASE ~EndsIn(r, p)
  BY <1>2, <1>3, <1>4, <1>6 DEF EndsIn, Readable
<1>7. QED
  BY <1>5, <1>6

(* A search never shows a session its caller cannot enter: the places that *)
(* the search counts in SQL are the places JoinGathering counts in Go, for *)
(* every count asked for, and a player that automatic matchmaking took out *)
(* of its sessions is never sent back to one that still lists it.          *)
THEOREM FoundIsEntered == Spec => []FoundCanBeEntered
<1>1. IInv => FoundCanBeEntered
  <2> SUFFICES ASSUME IInv, NEW p \in PIDs
               PROVE  /\ \A cs \in CriteriaLists : \A i \in DOMAIN cs :
                         \A g \in BrowseMatchmakeSession(cs[i]) :
                           LET r == gatherings[g] IN
                           Enterable(cs[i]) =>
                             /\ Readable(r) /\ FindBySingleID(g) /\ r.open /\ ~r.d.password
                             /\ Participates(r, p) \/ CanJoinGathering(r, p, cs[i].vacant)
                      /\ LET rows == EndMatchmakeSessions(p, NoFault) IN
                         \A d \in Sessions : \A g \in FindMatchmakeSession(rows, d) \ {0} :
                            ~rows[g].d.password /\ CanJoinGathering(rows[g], p, 1)
    BY DEF FoundCanBeEntered
  <2>1. DataOK
    BY DEF IInv
  <2>2. ASSUME NEW c, NEW g \in BrowseMatchmakeSession(c), Enterable(c)
        PROVE  LET r == gatherings[g] IN
               /\ Readable(r) /\ FindBySingleID(g) /\ r.open /\ ~r.d.password
               /\ Participates(r, p) \/ CanJoinGathering(r, p, c.vacant)
    <3>1. PICK r : r = gatherings[g]
      OBVIOUS
    <3>2. Matches(r, c) /\ r.participants # <<>> /\ g \in GIDs
      BY <3>1 DEF BrowseMatchmakeSession
    <3>3. /\ r.type = "MatchmakeSession" /\ r.registered /\ r.stored
          /\ r.open /\ ~r.d.password
          /\ Len(r.participants) + Slots(c.vacant) <= r.d.max
      BY <2>2, <3>2 DEF Matches, Enterable
    <3>4. Readable(r) /\ FindBySingleID(g)
      BY <3>1, <3>2, <3>3 DEF Readable, FindBySingleID, FindGatheringByID,
           GetDetailedGatheringByID, GetMatchmakeSessionByGathering
    <3>5. QED
      BY <3>1, <3>3, <3>4 DEF CanJoinGathering
  <2>3. ASSUME NEW d, NEW g \in FindMatchmakeSession(EndMatchmakeSessions(p, NoFault), d), g # 0
        PROVE  LET r == EndMatchmakeSessions(p, NoFault)[g] IN
               ~r.d.password /\ CanJoinGathering(r, p, 1)
    <3>1. PICK rows : rows = EndMatchmakeSessions(p, NoFault)
      OBVIOUS
    <3>2. DOMAIN rows = GIDs
      BY <3>1 DEF EndMatchmakeSessions, GIDs
    <3>3. /\ g \in GIDs /\ Readable(rows[g]) /\ ~rows[g].d.password
          /\ Len(rows[g].participants) < rows[g].d.max
      BY <2>3, <3>1, <3>2 DEF FindMatchmakeSession
    <3>4. rows[g] \in GoodRow /\ ~Participates(rows[g], p)
      BY <2>1, <3>1, <3>3, EndedIsOut
    <3>5. Len(rows[g].participants) \in Nat /\ rows[g].d.max \in Nat
      BY <3>4, RowFields DEF GoodRow
    <3>6. QED
      BY <3>1, <3>3, <3>4, <3>5 DEF CanJoinGathering, Slots
  <2>4. QED
    BY <2>2, <2>3
<1>2. QED
  BY <1>1, Invariance, PTL

(* Under what NoGhosts and OwnerAndHostStay ask for, GetSessionURLs leads  *)
(* a participant of an ordinary session to the connection of a fellow      *)
(* participant; it answers with nothing only while the callback of the     *)
(* host's connection is still to run.                                      *)
THEOREM URLsOfHost ==
  ASSUME Invites \subseteq {<<>>}, LateRequests = FALSE,
         Failures \cap (Handover \cup {"RemoveParticipant"}) = {}
  PROVE  Spec => []URLsLeadToHost
<1>1. Failures \cap Handover = {} /\ "RemoveParticipant" \notin Failures
  OBVIOUS
<1>2. IInv /\ PresentInv /\ GhostInv => URLsLeadToHost
  <2> SUFFICES ASSUME IInv, PresentInv, GhostInv, NEW g \in GIDs, NEW p \in PIDs,
                      Ordinary(gatherings[g]), MayAskURLs(p, g)
               PROVE  \/ \E h \in GetSessionURLs(p, g) : Participates(gatherings[g], h)
                      \/ /\ GetSessionURLs(p, g) = {}
                         /\ gatherings[g].host \in {h \in PIDs : ending[h] > 0}
    BY DEF URLsLeadToHost
  <2>1. gatherings[g] \in Row /\ Members(gatherings[g].participants) \subseteq PIDs
    BY RowAt, RowFields DEF IInv, DataOK, GIDs, GoodRow
  <2>2. Participates(gatherings[g], p)
    BY DEF MayAskURLs
  <2>3. gatherings[g].participants # <<>>
    BY <2>2 DEF Participates, Members
  <2>4. PICK h : h = gatherings[g].host
    OBVIOUS
  <2>5. Participates(gatherings[g], h) /\ h \in PIDs /\ h # NoPID
    BY <2>1, <2>3, <2>4, NoPIDAssumption DEF PresentInv, Present, Participates
  <2>6. live[h] + ending[h] > 0 /\ live[h] \in Nat /\ ending[h] \in Nat
    BY <2>5, GatheringsAssumption DEF GhostInv, NoGhostSlots, Participates, IInv, ConnsOK
  <2>7. CASE live[h] > 0
    <3>1. h \in GetSessionURLs(p, g)
      BY <2>4, <2>5, <2>7 DEF GetSessionURLs
    <3>2. QED
      BY <2>5, <3>1
  <2>8. CASE ~(live[h] > 0)
    <3>1. GetSessionURLs(p, g) = {}
      BY <2>4, <2>8 DEF GetSessionURLs
    <3>2. ending[h] > 0
      BY <2>6, <2>8
    <3>3. QED
      BY <2>4, <2>5, <3>1, <3>2
  <2>9. QED
    BY <2>7, <2>8
<1>3. Spec => []PresentInv
  BY <1>1, PresentAlways
<1>4. Spec => []GhostInv
  BY <1>1, GhostAlways
<1>5. QED
  BY <1>2, <1>3, <1>4, Invariance, PTL

-----------------------------------------------------------------------------
(* Who is told. *)

(* The statements whose failure leaves a gathering changed and its players *)
(* untold: each comes between the change and the notification.             *)
Silencing == {"LogUnregister", "LogChangeOwner", "LogChangeHost"}

(* One of the events tells q of it. *)
ToldBy(events, q, kind, g, about) ==
  \E e \in events : e.kind = kind /\ e.gid = g /\ e.about = about /\ e.to = q

(* When row g changes from r to s, the events reach everyone who stays. *)
Tells(g, r, s, events) ==
  \A q \in Members(r.participants) \cap Members(s.participants) :
    /\ r.registered /\ ~s.registered => ToldBy(events, q, "GatheringUnregistered", g, NoPID)
    /\ r.owner \notin {s.owner, q} => ToldBy(events, q, "OwnershipChanged", g, s.owner)

(* An event tells its targets, whatever else is sent. *)
LEMMA EventTells ==
  ASSUME NEW kind, NEW g, NEW source, NEW about, NEW targets, NEW q \in targets, NEW events,
         Event(kind, g, source, about, targets) \subseteq events
  PROVE  ToldBy(events, q, kind, g, about)
<1>1. PICK e : e = [kind |-> kind, gid |-> g, source |-> source, about |-> about, to |-> q]
  OBVIOUS
<1>2. e \in Event(kind, g, source, about, targets)
  BY <1>1 DEF Event
<1>3. e.kind = kind /\ e.gid = g /\ e.about = about /\ e.to = q
  BY <1>1
<1>4. QED
  BY <1>2, <1>3 DEF ToldBy

(* Leaving tells everyone who stays, in both ways to leave. *)
LEMMA LeaveTells ==
  ASSUME NEW r \in GoodRow, NEW p \in PIDs, NEW f, f \notin Silencing, NEW g, NEW how,
         NEW events, LeaveEvents(g, r, p, f, how) \subseteq events
  PROVE  Tells(g, r, Leave(r, p, f), events)
<1>1. PICK s : s = Leave(r, p, f)
  OBVIOUS
<1>2. f \notin {"LogUnregister", "LogChangeOwner", "LogChangeHost"}
  BY DEF Silencing
<1>3. SUFFICES ASSUME NEW q \in Members(r.participants) \cap Members(s.participants)
               PROVE  /\ r.registered /\ ~s.registered
                           => ToldBy(events, q, "GatheringUnregistered", g, NoPID)
                      /\ r.owner \notin {s.owner, q}
                           => ToldBy(events, q, "OwnershipChanged", g, s.owner)
  BY <1>1 DEF Tells
<1>4. CASE f = "RemoveParticipant"
  BY <1>1, <1>4 DEF Leave
<1>5. SUFFICES ASSUME f # "RemoveParticipant"
               PROVE  /\ r.registered /\ ~s.registered
                           => ToldBy(events, q, "GatheringUnregistered", g, NoPID)
                      /\ r.owner \notin {s.owner, q}
                           => ToldBy(events, q, "OwnershipChanged", g, s.owner)
  BY <1>4
<1>6. q \in Remaining(r, p)
  <2>1. r.participants \in Seq(PIDs) /\ s.participants = ArrayRemove(r.participants, p)
    BY <1>1, <1>5, LeaveEffect, RowFields DEF GoodRow
  <2>2. QED
    BY <1>3, <2>1, ArrayRemoveMembers DEF Remaining
<1>7. PICK a : a = RemoveParticipant(r, p)
  OBVIOUS
<1>8. a \in Row /\ a.registered = r.registered /\ a.owner = r.owner
  BY <1>7, RemovedColumns, RemoveParticipantRow DEF GoodRow
<1>9. PICK b : b = UnregisterRow(a, f)
  OBVIOUS
<1>10. b.owner = r.owner /\ (f = "Unregister" => b = a)
  BY <1>8, <1>9, RowWrites DEF UnregisterRow
<1>11. UnregisterEvents(g, p, Remaining(r, p), f) \subseteq events /\ f # "Unregister"
         => ToldBy(events, q, "GatheringUnregistered", g, NoPID)
  BY <1>2, <1>6, EventTells DEF UnregisterEvents
<1>12. CASE OnlyRemoves(r, f)
  BY <1>1, <1>5, <1>7, <1>8, <1>12 DEF Leave
<1>13. CASE ~OnlyRemoves(r, f) /\ Abandoned(r, p)
  <2>1. s = b /\ UnregisterEvents(g, p, Remaining(r, p), f) \subseteq events
    BY <1>1, <1>5, <1>6, <1>7, <1>9, <1>13 DEF Leave, LeaveEvents
  <2>2. QED
    BY <1>8, <1>10, <1>11, <2>1
<1>14. CASE ~OnlyRemoves(r, f) /\ ~Abandoned(r, p)
  <2>1. PICK m : m = MigrateGatheringOwnership(r, p, f)
    OBVIOUS
  <2>2. PICK o : o = CurrentOwner(r, p, f)
    OBVIOUS
  <2>3. s = IF HostMoves(r, p, f) THEN [m EXCEPT !.owner = o, !.host = o] ELSE m
    BY <1>1, <1>5, <1>14, <2>1, <2>2 DEF Leave
  <2>4. MigrateEvents(g, r, p, f) \subseteq events
    BY <1>5, <1>14 DEF LeaveEvents
  <2>5. m \in Row
    BY <2>1, MigrateEffect DEF GoodRow
  <2>6. s.registered = m.registered /\ s.owner = IF HostMoves(r, p, f) THEN o ELSE m.owner
    <3>1. PICK w : w = [m EXCEPT !.owner = o, !.host = o]
      OBVIOUS
    <3>2. w.owner = o /\ w.registered = m.registered
      BY <2>5, <3>1 DEF Row
    <3>3. QED
      BY <2>3, <3>1, <3>2
  <2>7. CASE p # r.owner \/ f = "MigrateOwner"
    <3>1. m = a
      BY <1>7, <2>1, <2>7 DEF MigrateGatheringOwnership
    <3>2. HostMoves(r, p, f) => o = r.owner
      BY <2>2, <2>7 DEF HostMoves, CurrentOwner, MigrateFails
    <3>3. QED
      BY <1>8, <2>6, <3>1, <3>2
  <2>8. CASE p = r.owner /\ f # "MigrateOwner"
    <3>1. ~MigrateFails(r, p, f) /\ o = NewOwner(r, p)
      BY <1>2, <2>2, <2>8 DEF MigrateFails, CurrentOwner
    <3>2. CASE NewOwner(r, p) = NoPID
      <4>1. m = b /\ ~HostMoves(r, p, f)
        BY <1>7, <1>9, <2>1, <2>2, <2>8, <3>1, <3>2 DEF MigrateGatheringOwnership, HostMoves
      <4>2. UnregisterEvents(g, p, Remaining(r, p), f) \subseteq events
        BY <2>4, <2>8, <3>1, <3>2 DEF MigrateEvents
      <4>3. QED
        BY <1>8, <1>10, <1>11, <2>6, <4>1, <4>2
    <3>3. CASE NewOwner(r, p) # NoPID
      <4>1. m = [a EXCEPT !.owner = o]
        BY <1>7, <2>1, <2>8, <3>1, <3>3 DEF MigrateGatheringOwnership
      <4>2. m.owner = o /\ m.registered = r.registered
        BY <1>8, <4>1, RowWrites
      <4>3. Event("OwnershipChanged", g, p, o, Remaining(r, p)) \subseteq events
        BY <2>4, <2>8, <3>1, <3>3 DEF MigrateEvents
      <4>4. ToldBy(events, q, "OwnershipChanged", g, o)
        BY <1>6, <4>3, EventTells
      <4>5. QED
        BY <2>6, <4>2, <4>4
    <3>4. QED
      BY <3>2, <3>3
  <2>9. QED
    BY <2>7, <2>8
<1>15. QED
  BY <1>12, <1>13, <1>14

(* Joining the row that was left, if it still can be read, needs no more   *)
(* events: only the player that left can come back untold, and it knows.   *)
LEMMA RejoinTells ==
  ASSUME NEW r \in GoodRow, NEW p \in PIDs, NEW f, NEW t, t = Leave(r, p, f), Readable(t),
         NEW s, Joins(t, s, p), NEW g, NEW events, Tells(g, r, t, events)
  PROVE  Tells(g, r, s, events)
<1>1. /\ t \in GoodRow
      /\ f # "RemoveParticipant" => t.participants = ArrayRemove(r.participants, p)
      /\ f = "RemoveParticipant" => t = r
      /\ t.owner # r.owner => p = r.owner
  BY LeaveEffect
<1>2. s.registered = t.registered /\ s.owner = t.owner
  BY <1>1, JoinsEffect
<1>3. s.registered
  BY <1>2 DEF Readable
<1>4. r.participants \in Seq(PIDs)
  BY RowFields DEF GoodRow
<1>5. Members(r.participants) \subseteq Members(t.participants) \cup {p}
  BY <1>1, <1>4, ArrayRemoveMembers
<1>6. QED
  BY <1>1, <1>2, <1>3, <1>5 DEF Tells

(* A row that keeps its owner and stays registered needs no events. *)
LEMMA NothingToTell ==
  ASSUME NEW g, NEW r, NEW s, NEW events, s.owner = r.owner, s.registered = r.registered
  PROVE  Tells(g, r, s, events)
BY DEF Tells

(* A step that sends the events to whom it should. *)
Informing(events) ==
  /\ Send(events) /\ live' = live
  /\ \A g \in GIDs : Tells(g, gatherings[g], gatherings'[g], events)

(* The handlers that begin by leaving every session. *)
LEMMA EnteredInforms ==
  ASSUME Failures \cap Silencing = {}, DataOK, NEW p \in PIDs, NEW f \in FaultPoints,
         NEW d \in Sessions, NEW g \in {0} \cup GIDs, Entered(p, d, g, f), Caller(p)
  PROVE  \E events : Informing(events)
<1>1. RowsEntered(p, f)
  BY EnterChanged DEF Entered
<1>2. PICK events : Send(events) /\ EndEvents(p, f) \subseteq events
  BY DEF Entered, Enter, EnterWith, RefusedAfterEnd, CreateFails, JoinStep, JoinWithStep
<1>3. ASSUME NEW h \in GIDs
      PROVE  Tells(h, gatherings[h], gatherings'[h], events)
  <2>1. PICK r : r = gatherings[h]
    OBVIOUS
  <2>2. PICK t : t = EndMatchmakeSessions(p, f)[h]
    OBVIOUS
  <2>3. r \in GoodRow /\ t \in GoodRow
    BY <2>1, <2>2, EndRows, RowAt DEF DataOK, GIDs
  <2>4. t = IF EndsIn(r, p) THEN Leave(r, p, At(f, h)) ELSE r
    BY <2>1, <2>2 DEF EndMatchmakeSessions, GIDs
  <2>5. gatherings'[h] = t \/ (Readable(t) /\ Joins(t, gatherings'[h], p))
    BY <1>1, <2>2 DEF RowsEntered
  <2>6. CASE EndsIn(r, p)
    <3>1. LeaveEvents(h, r, p, At(f, h), "Ended") \subseteq events
      BY <1>2, <2>1, <2>6 DEF EndEvents, GIDs
    <3>2. At(f, h) \notin Silencing
      BY AtFaults DEF Faults, Silencing
    <3>3. Tells(h, r, t, events)
      BY <2>3, <2>4, <2>6, <3>1, <3>2, LeaveTells
    <3>4. QED
      BY <2>1, <2>3, <2>4, <2>5, <2>6, <3>3, RejoinTells
  <2>7. CASE ~EndsIn(r, p)
    <3>1. gatherings'[h].owner = r.owner /\ gatherings'[h].registered = r.registered
      BY <2>3, <2>4, <2>5, <2>7, JoinsEffect
    <3>2. QED
      BY <2>1, <3>1, NothingToTell
  <2>8. QED
    BY <2>6, <2>7
<1>4. QED
  BY <1>2, <1>3 DEF Informing, Caller

(* A handler that is given a gathering has only its players to tell. *)
LEMMA OneRowInforms ==
  ASSUME DataOK, NEW g \in GIDs, NEW s, gatherings' = [gatherings EXCEPT ![g] = s],
         NEW events, Send(events), live' = live, Tells(g, gatherings[g], s, events)
  PROVE  Informing(events)
<1>1. \A h \in GIDs : gatherings'[h] = IF h = g THEN s ELSE gatherings[h]
  BY DEF GIDs
<1>2. \A h \in GIDs : Tells(h, gatherings[h], gatherings'[h], events)
  BY <1>1, NothingToTell
<1>3. QED
  BY <1>2 DEF Informing

(* All of these handlers. *)
LEMMA VisitingInforms ==
  ASSUME Failures \cap Silencing = {}, DataOK, NEW p \in PIDs, NEW g \in GIDs,
         NEW f \in FaultPoints, Visiting(p, g, f), Caller(p)
  PROVE  \E events : Informing(events)
<1>1. PICK r : r = gatherings[g]
  OBVIOUS
<1>2. PICK e : e = At(f, g)
  OBVIOUS
<1>3. r \in GoodRow /\ r \in Row /\ e \notin Silencing /\ live' = live
  BY <1>1, <1>2, RowAt, AtFaults DEF DataOK, GIDs, Faults, Silencing, GoodRow, Caller
<1>4. ASSUME NEW n \in Nat, JoinMatchmakeSessionEx(p, g, n, f)
      PROVE  \E events : Informing(events)
  <2>1. PICK s : s = JoinGathering(r, p, n, e)
    OBVIOUS
  <2>2. s.owner = r.owner /\ s.registered = r.registered
    BY <1>3, <2>1, JoinGatheringJoins, JoinsEffect
  <2>3. PICK events : gatherings' = [gatherings EXCEPT ![g] = s] /\ Send(events)
    BY <1>1, <1>2, <1>4, <2>1 DEF JoinMatchmakeSessionEx, JoinStep
  <2>4. QED
    BY <1>1, <1>3, <2>2, <2>3, OneRowInforms, NothingToTell
<1>5. ASSUME NEW add \in Invites, NEW already \in BOOLEAN,
             \E check \in CheckIDs : JoinMatchmakeSessionWithParam(p, g, add, check, already, f)
      PROVE  \E events : Informing(events)
  <2>1. PICK s : s = JoinGatheringWithParticipants(r, p, add, already, e)
    OBVIOUS
  <2>2. s.owner = r.owner /\ s.registered = r.registered
    BY <1>3, <2>1, JoinWithJoins, JoinsEffect
  <2>3. PICK events : gatherings' = [gatherings EXCEPT ![g] = s] /\ Send(events)
    BY <1>1, <1>2, <1>5, <2>1 DEF JoinMatchmakeSessionWithParam, JoinWithStep
  <2>4. QED
    BY <1>1, <1>3, <2>2, <2>3, OneRowInforms, NothingToTell
<1>6. CASE EndParticipation(p, g, f)
  <2>1. PICK events : events = LeaveEvents(g, r, p, e, "Ended")
    OBVIOUS
  <2>2. PICK s : s = Leave(r, p, e)
    OBVIOUS
  <2>3. gatherings' = [gatherings EXCEPT ![g] = s] /\ Send(events)
    BY <1>1, <1>2, <1>6, <2>1, <2>2 DEF EndParticipation
  <2>4. Tells(g, r, s, events)
    BY <1>3, <2>1, <2>2, LeaveTells
  <2>5. QED
    BY <1>1, <1>3, <2>3, <2>4, OneRowInforms
<1>7. CASE UnregisterGathering(p, g, f)
  <2>1. PICK events : events = UnregisterEvents(g, p, Members(r.participants), e)
    OBVIOUS
  <2>2. PICK s : s = UnregisterRow(r, e)
    OBVIOUS
  <2>3. gatherings' = [gatherings EXCEPT ![g] = s] /\ Send(events)
    BY <1>1, <1>2, <1>7, <2>1, <2>2 DEF UnregisterGathering
  <2>4. s.owner = r.owner /\ (e = "Unregister" => s = r)
    BY <1>3, <2>2, RowWrites DEF UnregisterRow
  <2>5. ASSUME NEW q \in Members(r.participants), e # "Unregister"
        PROVE  ToldBy(events, q, "GatheringUnregistered", g, NoPID)
    BY <1>3, <2>1, <2>5, EventTells DEF UnregisterEvents, Silencing
  <2>6. Tells(g, r, s, events)
    BY <2>4, <2>5 DEF Tells
  <2>7. QED
    BY <1>1, <1>3, <2>3, <2>6, OneRowInforms
<1>8. CASE TakeHost(p, g, f)
  <2>1. PICK s : s = [r EXCEPT !.host = IF e = "UpdateHost" THEN r.host ELSE p]
    OBVIOUS
  <2>2. gatherings' = [gatherings EXCEPT ![g] = s] /\ Send({})
    BY <1>1, <1>2, <1>8, <2>1 DEF TakeHost, GIDs
  <2>3. s.owner = r.owner /\ s.registered = r.registered
    BY <1>3, <2>1 DEF Row
  <2>4. QED
    BY <1>1, <1>3, <2>2, <2>3, OneRowInforms, NothingToTell
<1>9. CASE TakeOwnership(p, g, f)
  <2>1. PICK s : s = [r EXCEPT !.owner = IF e = "UpdateHost" THEN r.owner ELSE p,
                               !.host = IF e = "UpdateHost" THEN r.host ELSE p]
    OBVIOUS
  <2>2. PICK events : events = IF e \in {"UpdateHost", "LogChangeHost", "LogChangeOwner"} THEN {}
                      ELSE Event("OwnershipChanged", g, p, p, Members(r.participants))
    OBVIOUS
  <2>3. gatherings' = [gatherings EXCEPT ![g] = s] /\ Send(events)
    BY <1>1, <1>2, <1>9, <2>1, <2>2 DEF TakeOwnership, GIDs
  <2>4. s.owner = (IF e = "UpdateHost" THEN r.owner ELSE p) /\ s.registered = r.registered
    BY <1>3, <2>1 DEF Row
  <2>5. ASSUME NEW q \in Members(r.participants), e # "UpdateHost"
        PROVE  ToldBy(events, q, "OwnershipChanged", g, p)
    BY <1>3, <2>2, <2>5, EventTells DEF Silencing
  <2>6. Tells(g, r, s, events)
    BY <2>4, <2>5 DEF Tells
  <2>7. QED
    BY <1>1, <1>3, <2>3, <2>6, OneRowInforms
<1>10. \A n \in Counts : n \in Nat
  BY GatheringsAssumption
<1>11. QED
  BY <1>4, <1>5, <1>6, <1>7, <1>8, <1>9, <1>10
    DEF Visiting, JoinMatchmakeSession, UpdateSessionHost, UpdateSessionHostV1, UpdateSessionURL

(* The callback. *)
LEMMA DisconnectInforms ==
  ASSUME Failures \cap Silencing = {}, DataOK, NEW p \in PIDs, NEW f \in FaultPoints,
         DisconnectParticipant(p, f)
  PROVE  \E events : Informing(events)
<1>1. PICK events :
        /\ Send(events)
        /\ events = UNION {LeaveEvents(g, gatherings[g], p, At(f, g), "Disconnected") :
                     g \in {h \in DOMAIN gatherings : LeavesOnDisconnect(gatherings[h], p)}}
  BY DEF DisconnectParticipant
<1>2. ASSUME NEW g \in GIDs
      PROVE  Tells(g, gatherings[g], gatherings'[g], events)
  <2>1. PICK r : r = gatherings[g]
    OBVIOUS
  <2>2. r \in GoodRow /\ At(f, g) \notin Silencing
    BY <2>1, RowAt, AtFaults DEF DataOK, GIDs, Faults, Silencing
  <2>3. gatherings'[g] = IF LeavesOnDisconnect(r, p) THEN Leave(r, p, At(f, g)) ELSE r
    BY <2>1 DEF DisconnectParticipant, GIDs
  <2>4. CASE LeavesOnDisconnect(r, p)
    <3>1. LeaveEvents(g, r, p, At(f, g), "Disconnected") \subseteq events
      BY <1>1, <2>1, <2>4 DEF GIDs
    <3>2. QED
      BY <2>1, <2>2, <2>3, <2>4, <3>1, LeaveTells
  <2>5. CASE ~LeavesOnDisconnect(r, p)
    BY <2>1, <2>3, <2>5, NothingToTell
  <2>6. QED
    BY <2>4, <2>5
<1>3. QED
  BY <1>1, <1>2 DEF Informing, DisconnectParticipant

(* The handlers that add a community or change a column have nobody to tell. *)
LEMMA OthersInform ==
  ASSUME DataOK, NEW p \in PIDs,
         \/ \E d \in Communities, f \in FaultPoints : CreateCommunity(p, d, f)
         \/ \E g \in GIDs : \/ \E open \in BOOLEAN : SetParticipation(p, g, open)
                            \/ ModifyCurrentGameAttribute(p, g)
  PROVE  \E events : Informing(events)
<1>1. CASE \E d \in Communities, f \in FaultPoints : CreateCommunity(p, d, f)
  <2>1. PICK events, t : gatherings' = Append(gatherings, t) /\ Send(events) /\ live' = live
    BY <1>1 DEF CreateCommunity, Caller
  <2>2. \A h \in GIDs : gatherings'[h] = gatherings[h]
    BY <2>1 DEF DataOK, GIDs
  <2>3. \A h \in GIDs : Tells(h, gatherings[h], gatherings'[h], events)
    BY <2>2, NothingToTell
  <2>4. Informing(events)
    BY <2>1, <2>3 DEF Informing
  <2>5. QED
    BY <2>4
<1>2. ASSUME NEW g \in GIDs, \/ \E open \in BOOLEAN : SetParticipation(p, g, open)
                             \/ ModifyCurrentGameAttribute(p, g)
      PROVE  \E events : Informing(events)
  <2>1. PICK r : r = gatherings[g]
    OBVIOUS
  <2>2. r \in Row
    BY <2>1, RowAt DEF DataOK, GIDs, GoodRow
  <2>3. PICK s : /\ gatherings' = [gatherings EXCEPT ![g] = s]
                 /\ \/ \E b \in BOOLEAN : s = [r EXCEPT !.open = b]
                    \/ \E k \in Kinds : s = [r EXCEPT !.kind = k]
                    \/ \E c \in CommunityIDs : s = [r EXCEPT !.community = c]
    BY <1>2, <2>1 DEF SetParticipation, ModifyCurrentGameAttribute, GIDs
  <2>4. s.owner = r.owner /\ s.registered = r.registered
    BY <2>2, <2>3 DEF Row
  <2>5. Send({}) /\ live' = live
    BY <1>2 DEF SetParticipation, ModifyCurrentGameAttribute, Caller
  <2>6. Tells(g, gatherings[g], s, {})
    BY <2>1, <2>4, NothingToTell
  <2>7. Informing({})
    BY <2>3, <2>5, <2>6, OneRowInforms
  <2>8. QED
    BY <2>7
<1>3. QED
  BY <1>1, <1>2

(* Whenever a gathering is closed or changes hands, by whatever handler or *)
(* callback, every connected participant that stays is told in the same    *)
(* step.  The three statements that log the change, between the change and *)
(* the notification, have to succeed.                                      *)
THEOREM StayingAreTold ==
  ASSUME {"GatheringUnregistered", "OwnershipChanged"} \subseteq Observed,
         Failures \cap Silencing = {}
  PROVE  Spec => RemainingInformed
<1>1. IInv /\ [Next]_vars =>
        [\A g \in GIDs : LET r == gatherings[g]  s == gatherings'[g] IN
           \A q \in Members(r.participants) \cap Members(s.participants) : live'[q] > 0 =>
             /\ r.registered /\ ~s.registered => Told(q, "GatheringUnregistered", g, NoPID)
             /\ r.owner \notin {s.owner, q} => Told(q, "OwnershipChanged", g, s.owner)]_vars
  <2> SUFFICES ASSUME IInv, [Next]_vars, NEW g \in GIDs,
                      NEW q \in Members(gatherings[g].participants)
                                  \cap Members(gatherings'[g].participants),
                      live'[q] > 0
               PROVE  /\ gatherings[g].registered /\ ~gatherings'[g].registered
                           => Told(q, "GatheringUnregistered", g, NoPID)
                      /\ gatherings[g].owner \notin {gatherings'[g].owner, q}
                           => Told(q, "OwnershipChanged", g, gatherings'[g].owner)
    OBVIOUS
  <2>1. DataOK /\ gatherings[g] \in GoodRow
    BY RowAt DEF IInv, DataOK, GIDs
  <2>2. q \in PIDs
    BY <2>1, RowFields DEF GoodRow
  <2>3. ASSUME \E events : Informing(events)
        PROVE  /\ gatherings[g].registered /\ ~gatherings'[g].registered
                    => Told(q, "GatheringUnregistered", g, NoPID)
               /\ gatherings[g].owner \notin {gatherings'[g].owner, q}
                    => Told(q, "OwnershipChanged", g, gatherings'[g].owner)
    <3>1. PICK events : Informing(events)
      BY <2>3
    <3>2. ASSUME NEW kind \in Observed, NEW about, ToldBy(events, q, kind, g, about)
          PROVE  Told(q, kind, g, about)
      <4>1. PICK e \in events : e.kind = kind /\ e.gid = g /\ e.about = about /\ e.to = q
        BY <3>2 DEF ToldBy
      <4>2. e \in sent'
        BY <3>1, <4>1 DEF Informing, Send
      <4>3. QED
        BY <4>1, <4>2 DEF Told
    <3>3. Tells(g, gatherings[g], gatherings'[g], events)
      BY <3>1 DEF Informing
    <3>4. QED
      BY <3>2, <3>3 DEF Tells
  <2>4. CASE UNCHANGED gatherings
    BY <2>4
  <2>5. CASE Restart
    BY <2>2, <2>5 DEF Restart
  <2>6. ASSUME NEW p \in PIDs, NEW f \in FaultPoints, Entering(p, f)
        PROVE  \E events : Informing(events)
    BY <2>1, <2>6, EnteringForms, EnteringData, EnteredInforms, OthersInform
  <2>7. ASSUME NEW p \in PIDs, NEW f \in FaultPoints, NEW h \in GIDs, Visiting(p, h, f)
        PROVE  \E events : Informing(events)
    BY <2>1, <2>7, VisitingData, VisitingInforms DEF GIDs
  <2>8. ASSUME NEW p \in PIDs, Connect(p) \/ ConnectionEnded(p)
        PROVE  UNCHANGED gatherings
    BY <2>8 DEF Connect, ConnectionEnded
  <2>9. QED
    BY <2>1, <2>3, <2>4, <2>5, <2>6, <2>7, <2>8, DisconnectInforms, OthersInform
      DEF Next, vars
<1>2. QED
  BY <1>1, Invariance, PTL DEF Spec, RemainingInformed
=============================================================================
