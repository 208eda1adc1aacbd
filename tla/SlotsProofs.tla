---------------------------- MODULE SlotsProofs ----------------------------
(***************************************************************************)
(* Proofs about the slots of a session: which of them a step may take,     *)
(* whose slots a callback gives back, and which sessions a community       *)
(* counts.  They argue from the forms that SessionsProofs gives the steps. *)
(***************************************************************************)
EXTENDS SessionsProofs

-----------------------------------------------------------------------------
(* The order of the slots. *)

(* The place a slot moves up to is its rank among the slots that stay. *)
LEMMA PlaceIsRank ==
  ASSUME NEW s \in Seq(PIDs), NEW x, NEW i \in DOMAIN s
  PROVE  {j \in 1..i : s[j] # x} = {j \in Kept(s, x) : j <= i}
<1>1. i \in 1..Len(s) /\ Len(s) \in Nat /\ DOMAIN s = 1..Len(s)
  OBVIOUS
<1>2. \A j : j \in 1..i <=> j \in DOMAIN s /\ j <= i
  BY <1>1
<1>3. QED
  BY <1>2, Zenon DEF Kept

(* array_remove moves every slot of the others up past the slots it takes, *)
(* and past no others.                                                     *)
LEMMA RemovedMovesUp ==
  ASSUME NEW s \in Seq(PIDs), NEW x
  PROVE  MovedUp(s, ArrayRemove(s, x), x)
<1>1. PICK keep : keep = Kept(s, x)
  OBVIOUS
<1>2. PICK t : t = ArrayRemove(s, x)
  OBVIOUS
<1>3. keep \in SUBSET Int /\ IsFiniteSet(keep) /\ Cardinality(keep) \in Nat
  BY <1>1, KeptFinite
<1>4. t \in Seq(PIDs) /\ Len(t) = Cardinality(keep)
  BY <1>1, <1>2, ArrayRemoveType
<1>5. ASSUME NEW i \in DOMAIN s, s[i] # x
      PROVE  /\ Cardinality({j \in 1..i : s[j] # x}) \in DOMAIN t
             /\ t[Cardinality({j \in 1..i : s[j] # x})] = s[i]
  <2>1. PICK n : n = Rank(keep, i)
    OBVIOUS
  <2>2. Cardinality({j \in 1..i : s[j] # x}) = n
    BY <1>1, <2>1, PlaceIsRank DEF Rank
  <2>3. i \in keep
    BY <1>1, <1>5 DEF Kept
  <2>4. n \in 1..Cardinality(keep)
    BY <1>3, <2>1, <2>3, RankRange
  <2>5. PICK k \in keep : Rank(keep, k) = n /\ t[n] = s[k]
    BY <1>1, <1>2, <2>4, ArrayRemoveElement
  <2>6. k = i
    <3>1. Rank(keep, k) = Rank(keep, i) /\ Rank(keep, i) \in Nat /\ i \in Int /\ k \in Int
      BY <1>3, <2>1, <2>3, <2>4, <2>5
    <3>2. ~(k < i) /\ ~(i < k)
      BY <1>3, <2>3, <2>5, <3>1, RankGrows
    <3>3. QED
      BY <3>1, <3>2
  <2>7. n \in DOMAIN t
    BY <1>4, <2>4
  <2>8. QED
    BY <2>2, <2>5, <2>6, <2>7
<1>6. QED
  BY <1>2, <1>5 DEF MovedUp

(* An array that stays as it is keeps every slot. *)
LEMMA UnchangedMovesUp ==
  ASSUME NEW s \in Seq(PIDs)
  PROVE  MovedUp(s, s, NoPID)
<1>1. ASSUME NEW i \in DOMAIN s
      PROVE  Cardinality({j \in 1..i : s[j] # NoPID}) = i
  <2>1. i \in 1..Len(s) /\ Len(s) \in Nat /\ DOMAIN s = 1..Len(s)
    OBVIOUS
  <2>2. \A j \in 1..i : s[j] \in PIDs
    BY <2>1
  <2>3. {j \in 1..i : s[j] # NoPID} = 1..i
    BY <2>2, NoPIDAssumption
  <2>4. Cardinality(1..i) = i
    BY <2>1, FS_Interval
  <2>5. QED
    BY <2>3, <2>4
<1>2. QED
  BY <1>1 DEF MovedUp

(* Slots added at the end leave every other one in its place. *)
LEMMA AppendedMovesUp ==
  ASSUME NEW s \in Seq(PIDs), NEW t \in Seq(PIDs), NEW x \in Seq(PIDs), NEW gone,
         MovedUp(s, t, gone)
  PROVE  MovedUp(s, t \o x, gone)
<1>1. PICK u : u = t \o x
  OBVIOUS
<1>2. ASSUME NEW n \in DOMAIN t
      PROVE  n \in DOMAIN u /\ u[n] = t[n]
  BY <1>1
<1>3. ASSUME NEW i \in DOMAIN s, s[i] # gone
      PROVE  /\ Cardinality({j \in 1..i : s[j] # gone}) \in DOMAIN u
             /\ u[Cardinality({j \in 1..i : s[j] # gone})] = s[i]
  <2>1. PICK n : n = Cardinality({j \in 1..i : s[j] # gone})
    OBVIOUS
  <2>2. n \in DOMAIN t /\ t[n] = s[i]
    BY <1>3, <2>1 DEF MovedUp
  <2>3. QED
    BY <1>2, <2>1, <2>2
<1>4. QED
  BY <1>1, <1>3 DEF MovedUp

(* The two ways in which a row keeps its order in a step of p. *)
OrderKept(r, s, p) == \E gone \in {NoPID, p} : MovedUp(r.participants, s.participants, gone)

(* A row whose players stay keeps their order. *)
LEMMA SameOrder ==
  ASSUME NEW r \in GoodRow, NEW s, s.participants = r.participants, NEW p
  PROVE  OrderKept(r, s, p)
<1>1. r.participants \in Seq(PIDs)
  BY RowFields DEF GoodRow
<1>2. MovedUp(r.participants, s.participants, NoPID)
  BY <1>1, UnchangedMovesUp
<1>3. QED
  BY <1>2 DEF OrderKept

(* Leaving keeps the order of the others. *)
LEMMA LeftOrder ==
  ASSUME NEW r \in GoodRow, NEW s, NEW p \in PIDs, Left(r, s, p)
  PROVE  s \in GoodRow /\ OrderKept(r, s, p)
<1>1. PICK f : s = Leave(r, p, f)
  BY DEF Left
<1>2. /\ s \in GoodRow
      /\ f # "RemoveParticipant" => s.participants = ArrayRemove(r.participants, p)
      /\ f = "RemoveParticipant" => s = r
  BY <1>1, LeaveEffect
<1>3. r.participants \in Seq(PIDs)
  BY RowFields DEF GoodRow
<1>4. MovedUp(r.participants, ArrayRemove(r.participants, p), p)
  BY <1>3, RemovedMovesUp
<1>5. CASE f = "RemoveParticipant"
  BY <1>2, <1>5, SameOrder
<1>6. CASE f # "RemoveParticipant"
  BY <1>2, <1>4, <1>6 DEF OrderKept
<1>7. QED
  BY <1>2, <1>5, <1>6

(* Joining after a change that kept the order keeps it. *)
LEMMA JoinsOrder ==
  ASSUME NEW r \in GoodRow, NEW t \in GoodRow, NEW s, NEW p \in PIDs,
         OrderKept(r, t, p), Joins(t, s, p)
  PROVE  OrderKept(r, s, p)
<1>1. PICK x \in Seq(PIDs) : Appended(t, s, x)
  BY DEF Joins
<1>2. PICK u : u = t.participants \o x
  OBVIOUS
<1>3. /\ t \in Row /\ t.participants \in Seq(PIDs) /\ r.participants \in Seq(PIDs)
  BY RowFields DEF GoodRow
<1>4. s = [t EXCEPT !.participants = u]
  BY <1>1, <1>2 DEF Appended
<1>5. s.participants = u
  BY <1>3, <1>4 DEF Row
<1>6. PICK gone \in {NoPID, p} : MovedUp(r.participants, t.participants, gone)
  BY DEF OrderKept
<1>7. MovedUp(r.participants, u, gone)
  BY <1>2, <1>3, <1>6, AppendedMovesUp
<1>8. QED
  BY <1>5, <1>6, <1>7 DEF OrderKept

(* Every change of a row keeps the order. *)
LEMMA ChangeOrder ==
  ASSUME NEW r \in GoodRow, NEW s, NEW p \in PIDs, RowChange(r, s, p)
  PROVE  OrderKept(r, s, p)
<1>1. r \in Row
  BY DEF GoodRow
<1>2. OrderKept(r, r, p)
  BY SameOrder
<1>3. CASE Left(r, s, p)
  BY <1>3, LeftOrder
<1>4. CASE Joins(r, s, p)
  BY <1>2, <1>4, JoinsOrder
<1>5. ASSUME NEW t \in GoodRow, Left(r, t, p), Joins(t, s, p)
      PROVE  OrderKept(r, s, p)
  BY <1>5, LeftOrder, JoinsOrder
<1>6. CASE Taken(r, s, p) \/ Managed(r, s)
  <2>1. s.participants = r.participants
    BY <1>1, <1>6 DEF Taken, Managed, Row
  <2>2. QED
    BY <2>1, SameOrder
<1>7. QED
  BY <1>2, <1>3, <1>4, <1>5, <1>6 DEF RowChange

(* No step takes the slots of two players, or only some of one player's,   *)
(* or lets anybody overtake: the title addresses its players by slot.      *)
(* This needs no statement to succeed, and covers the step in which a      *)
(* player leaves its session and its search brings it back.                *)
THEOREM SlotOrder == Spec => SlotOrderKept
<1>1. IInv /\ [Next]_vars =>
        [\E p \in PIDs \cup {NoPID} : \A g \in GIDs : \E gone \in {NoPID, p} :
           MovedUp(gatherings[g].participants, gatherings'[g].participants, gone)]_vars
  <2> SUFFICES ASSUME IInv, [Next]_vars
               PROVE  \/ \E p \in PIDs \cup {NoPID} :
                           \A g \in GIDs : OrderKept(gatherings[g], gatherings'[g], p)
                      \/ UNCHANGED vars
    BY Zenon DEF OrderKept
  <2>1. DataOK /\ \A g \in GIDs : gatherings[g] \in GoodRow
    BY RowAt DEF IInv, DataOK, GIDs
  <2>2. ASSUME NEW p \in PIDs, Changed(p)
        PROVE  \A g \in GIDs : OrderKept(gatherings[g], gatherings'[g], p)
    BY <2>1, <2>2, ChangeOrder DEF Changed
  <2>3. ASSUME \A g \in GIDs : RowRestarted(gatherings[g], gatherings'[g])
        PROVE  \A g \in GIDs : OrderKept(gatherings[g], gatherings'[g], NoPID)
    <3> SUFFICES ASSUME NEW g \in GIDs
                 PROVE  OrderKept(gatherings[g], gatherings'[g], NoPID)
      OBVIOUS
    <3>1. gatherings'[g].participants = gatherings[g].participants
      BY <2>1, <2>3 DEF RowRestarted, GoodRow, Row
    <3>2. QED
      BY <2>1, <3>1, SameOrder
  <2>4. ASSUME UNCHANGED gatherings
        PROVE  \A g \in GIDs : OrderKept(gatherings[g], gatherings'[g], NoPID)
    BY <2>1, <2>4, SameOrder
  <2>5. QED
    BY <2>1, <2>2, <2>3, <2>4, Steps
<1>2. QED
  BY <1>1, Invariance, PTL DEF Spec, SlotOrderKept

-----------------------------------------------------------------------------
(* Giving slots back. *)

(* The callback of p takes it out of every ordinary session. *)
LEMMA CallbackTakesOut ==
  ASSUME "RemoveParticipant" \notin Failures, DataOK, NEW p \in PIDs, NEW f \in FaultPoints,
         DisconnectParticipant(p, f), NEW g \in GIDs, Ordinary(gatherings'[g])
  PROVE  ~Participates(gatherings'[g], p)
<1>1. gatherings[g] \in GoodRow /\ At(f, g) \in Faults
  BY RowAt, AtFaults DEF DataOK, GIDs
<1>2. PICK r : r = gatherings[g]
  OBVIOUS
<1>3. PICK s : s = gatherings'[g]
  OBVIOUS
<1>4. s = IF LeavesOnDisconnect(r, p) THEN Leave(r, p, At(f, g)) ELSE r
  BY <1>2, <1>3 DEF DisconnectParticipant, GIDs
<1>5. CASE LeavesOnDisconnect(r, p)
  BY <1>1, <1>2, <1>3, <1>4, <1>5, LeftIsOut
<1>6. CASE ~LeavesOnDisconnect(r, p)
  <2>1. s = r /\ Ordinary(r)
    BY <1>3, <1>4, <1>6
  <2>2. r.registered /\ ~StaysOnDisconnect(r)
    BY <2>1 DEF Ordinary, StaysOnDisconnect, HasFlag
  <2>3. QED
    BY <1>3, <1>6, <2>1, <2>2 DEF LeavesOnDisconnect
<1>7. QED
  BY <1>5, <1>6

(* One run of the callback is enough: when it returns, its player is in no *)
(* ordinary session, whichever of its connections ended, whatever requests *)
(* of it ran since and whatever other statement failed.  With the fairness *)
(* of the callbacks this is why SlotsFreed holds.                          *)
THEOREM CallbackFreesSlots ==
  ASSUME "RemoveParticipant" \notin Failures
  PROVE  Spec => CallbackFrees
<1>1. IInv /\ [Next]_vars =>
        [\A p \in PIDs : ending'[p] < ending[p] =>
           \A g \in GIDs : Ordinary(gatherings'[g]) => ~Participates(gatherings'[g], p)]_vars
  <2> SUFFICES ASSUME IInv, [Next]_vars, NEW q \in PIDs, ending'[q] < ending[q],
                      NEW g \in GIDs, Ordinary(gatherings'[g])
               PROVE  ~Participates(gatherings'[g], q)
    OBVIOUS
  <2>1. DataOK /\ gatherings[g] \in GoodRow /\ ending \in [PIDs -> Nat]
    BY RowAt, GatheringsAssumption DEF IInv, DataOK, ConnsOK, GIDs
  <2>2. ending[q] \in Nat /\ ending' # ending
    BY <2>1
  <2>3. ASSUME NEW p \in PIDs, Connect(p) \/ ConnectionEnded(p)
        PROVE  FALSE
    BY <2>1, <2>2, <2>3 DEF Connect, ConnectionEnded
  <2>4. ASSUME NEW p \in PIDs, NEW f \in FaultPoints, DisconnectParticipant(p, f)
        PROVE  ~Participates(gatherings'[g], q)
    <3>1. q = p
      BY <2>1, <2>2, <2>4 DEF DisconnectParticipant
    <3>2. QED
      BY <2>1, <2>4, <3>1, CallbackTakesOut
  <2>5. ASSUME NEW p \in PIDs, Caller(p)
        PROVE  FALSE
    BY <2>2, <2>5 DEF Caller
  <2>6. ASSUME RowRestarted(gatherings[g], gatherings'[g])
        PROVE  FALSE
    BY <2>1, <2>6 DEF RowRestarted, Ordinary, GoodRow, Row
  <2>7. ~UNCHANGED vars
    BY <2>2 DEF vars
  <2>8. QED
    BY <2>1, <2>3, <2>4, <2>5, <2>6, <2>7, Steps
<1>2. QED
  BY <1>1, Invariance, PTL DEF Spec, CallbackFrees

-----------------------------------------------------------------------------
(* The sessions a community counts. *)

(* The statements that write a creator into its session, or close the      *)
(* session the last player leaves.                                         *)
Closing == {"UpdateParticipants", "LogLeave", "Unregister"}

(* Whoever is the last to leave a session closes it, unless its flags keep *)
(* it.                                                                     *)
LEMMA EmptiedByLeaving ==
  ASSUME Failures \cap Closing = {}, NEW r \in GoodRow, NEW s, NEW p \in PIDs, Left(r, s, p)
  PROVE  /\ s \in GoodRow /\ Same(r, s)
         /\ s.registered /\ s.participants = <<>>
              => HasFlag(s, {"PersistentGathering", "AllowZeroUsers"})
<1>1. PICK f \in Faults : r.registered /\ Participates(r, p) /\ s = Leave(r, p, f)
  BY DEF Left
<1>2. f \notin {"LogLeave", "Unregister"}
  BY DEF Faults, Closing
<1>3. /\ s \in GoodRow /\ Same(r, s)
      /\ f # "RemoveParticipant" => s.participants = ArrayRemove(r.participants, p)
      /\ f = "RemoveParticipant" => s = r
  BY <1>1, LeaveEffect
<1>4. ASSUME s.registered, s.participants = <<>>,
             ~HasFlag(s, {"PersistentGathering", "AllowZeroUsers"})
      PROVE  FALSE
  <2>1. r.participants # <<>>
    BY <1>1 DEF Participates, Members
  <2>2. f # "RemoveParticipant" /\ ArrayRemove(r.participants, p) = <<>>
    BY <1>3, <1>4, <2>1
  <2>3. ~OnlyRemoves(r, f) /\ Abandoned(r, p)
    BY <1>2, <1>3, <1>4, <2>2 DEF OnlyRemoves, HasFlag, Abandoned, Same
  <2>4. PICK a : a = RemoveParticipant(r, p)
    OBVIOUS
  <2>5. a \in Row
    BY <2>4, RemoveParticipantRow DEF GoodRow
  <2>6. s = [a EXCEPT !.registered = FALSE]
    BY <1>1, <1>2, <2>2, <2>3, <2>4 DEF Leave, UnregisterRow
  <2>7. QED
    BY <1>4, <2>5, <2>6 DEF Row
<1>5. QED
  BY <1>3, <1>4

(* So does every step of a player that empties a session. *)
LEMMA Emptied ==
  ASSUME Failures \cap Closing = {}, NEW r \in GoodRow, NEW s, NEW p \in PIDs,
         RowChange(r, s, p), r.participants # <<>>, s.participants = <<>>, s.registered
  PROVE  HasFlag(s, {"PersistentGathering", "AllowZeroUsers"})
<1>1. r \in Row
  BY DEF GoodRow
<1>2. CASE Left(r, s, p)
  BY <1>2, EmptiedByLeaving
<1>3. ASSUME NEW t \in GoodRow, Readable(t), Joins(t, s, p)
      PROVE  FALSE
  BY <1>3, JoinsEffect DEF Readable
<1>4. CASE Taken(r, s, p) \/ Managed(r, s)
  BY <1>1, <1>4 DEF Taken, Managed, Row
<1>5. QED
  BY <1>2, <1>3, <1>4 DEF RowChange

(* A counted session that nobody is in after a step is one of those the    *)
(* code goes on counting.                                                  *)
LEMMA EmptyIsDead ==
  ASSUME Failures \cap Closing = {}, IInv, [Next]_vars, NEW c, NEW g \in GIDs',
         AttachedTo(gatherings'[g], c), gatherings'[g].participants = <<>>
  PROVE  g \in DeadSessions(c)
<1>1. PICK s : s = gatherings'[g]
  OBVIOUS
<1>2. s.type = "MatchmakeSession" /\ s.registered /\ s.stored /\ s.participants = <<>>
  BY <1>1 DEF AttachedTo
<1>3. DataOK /\ \A h \in GIDs : gatherings[h] \in GoodRow
  BY RowAt DEF IInv, DataOK, GIDs
<1>4. SUFFICES ASSUME ~HasFlag(s, {"PersistentGathering", "AllowZeroUsers"})
               PROVE  IF g \in GIDs THEN gatherings[g].participants = <<>> ELSE ~Room(s.d)
  BY <1>1 DEF DeadSessions
<1>5. ASSUME NEW p \in PIDs, Changed(p)
      PROVE  IF g \in GIDs THEN gatherings[g].participants = <<>> ELSE ~Room(s.d)
  <2>1. CASE g \in GIDs
    <3>1. RowChange(gatherings[g], s, p) /\ gatherings[g] \in GoodRow
      BY <1>1, <1>3, <1>5, <2>1 DEF Changed
    <3>2. QED
      BY <1>2, <1>4, <2>1, <3>1, Emptied
  <2>2. CASE g \notin GIDs
    <3>1. RowCreated(s, p)
      BY <1>1, <1>5, <2>2 DEF Changed, GIDs
    <3>2. QED
      BY <1>2, <2>2, <3>1 DEF RowCreated, Filled, Closing
  <2>3. QED
    BY <2>1, <2>2
<1>6. CASE UNCHANGED gatherings
  BY <1>1, <1>2, <1>6 DEF GIDs
<1>7. CASE /\ DOMAIN gatherings' = GIDs
           /\ \A h \in GIDs : RowRestarted(gatherings[h], gatherings'[h])
  <2>1. g \in GIDs /\ RowRestarted(gatherings[g], s) /\ gatherings[g] \in Row
    BY <1>1, <1>3, <1>7 DEF GIDs, GoodRow
  <2>2. FALSE
    BY <1>2, <2>1 DEF RowRestarted, Row
  <2>3. QED
    BY <2>2
<1>8. QED
  BY <1>3, <1>5, <1>6, <1>7, Steps DEF vars

(* The sessions a community counts although nobody is in them. *)
EmptySessions(c) ==
  {g \in GIDs : AttachedTo(gatherings[g], c) /\ gatherings[g].participants = <<>>}

(* What a community counts: the sessions somebody is in, and those nobody  *)
(* is in.                                                                  *)
CountSplit ==
  \A c : /\ IsFiniteSet(PlayedSessions(c)) /\ IsFiniteSet(EmptySessions(c))
         /\ PlayedSessions(c) \cap EmptySessions(c) = {}
         /\ {g \in GIDs : AttachedTo(gatherings[g], c)} = PlayedSessions(c) \cup EmptySessions(c)

(* So it is in every table the server can have. *)
LEMMA CountedOrEmpty == DataOK => CountSplit
<1> SUFFICES ASSUME DataOK, NEW c
             PROVE  /\ IsFiniteSet(PlayedSessions(c)) /\ IsFiniteSet(EmptySessions(c))
                    /\ PlayedSessions(c) \cap EmptySessions(c) = {}
                    /\ {g \in GIDs : AttachedTo(gatherings[g], c)}
                         = PlayedSessions(c) \cup EmptySessions(c)
  BY Zenon DEF CountSplit
<1>1. PICK S : S = UNION {GetSimplePlayingSession(x) : x \in PIDs}
  OBVIOUS
<1>2. ASSUME NEW g \in S
      PROVE  /\ g \in GIDs /\ gatherings[g].type = "MatchmakeSession"
             /\ gatherings[g].registered /\ gatherings[g].stored
             /\ gatherings[g].participants # <<>>
  <2>1. PICK x \in PIDs : g \in GetSimplePlayingSession(x)
    BY <1>1, Zenon
  <2>2. QED
    BY <2>1 DEF GetSimplePlayingSession, Participates, Members
<1>3. ASSUME NEW g \in GIDs, AttachedTo(gatherings[g], c), gatherings[g].participants # <<>>
      PROVE  g \in S
  <2>1. gatherings[g] \in GoodRow
    BY RowAt DEF DataOK, GIDs
  <2>2. PICK r : r = gatherings[g]
    OBVIOUS
  <2>3. r.participants \in Seq(PIDs) /\ r.participants # <<>>
    BY <1>3, <2>1, <2>2, RowFields DEF GoodRow
  <2>4. PICK x : x = r.participants[1]
    OBVIOUS
  <2>5. x \in PIDs /\ x \in Members(r.participants)
    BY <2>3, <2>4 DEF Members
  <2>6. g \in GetSimplePlayingSession(x)
    BY <1>3, <2>2, <2>5 DEF GetSimplePlayingSession, AttachedTo, Participates
  <2>7. QED
    BY <1>1, <2>5, <2>6, Zenon
<1>4. PlayedSessions(c) = {g \in S : gatherings[g].d.attached /\ gatherings[g].community = c}
  BY <1>1 DEF PlayedSessions
<1>5. {g \in GIDs : AttachedTo(gatherings[g], c)} = PlayedSessions(c) \cup EmptySessions(c)
  BY <1>2, <1>3, <1>4 DEF AttachedTo, EmptySessions
<1>6. PlayedSessions(c) \cap EmptySessions(c) = {}
  BY <1>2, <1>4 DEF EmptySessions
<1>7. IsFiniteSet(GIDs)
  BY FS_Interval DEF DataOK, GIDs
<1>8. PlayedSessions(c) \subseteq GIDs /\ EmptySessions(c) \subseteq GIDs
  BY <1>5
<1>9. IsFiniteSet(PlayedSessions(c)) /\ IsFiniteSet(EmptySessions(c))
  BY <1>7, <1>8, FS_Subset
<1>10. QED
  BY <1>5, <1>6, <1>9

(* Every community is shown with its count. *)
CountShown == \A p : \A c \in CommunitiesShown(p) : c.sessions = SessionCount(c.gid)

(* So it is in every table. *)
LEMMA ShownCounts == CountShown
<1> SUFFICES ASSUME NEW p, NEW c \in CommunitiesShown(p)
             PROVE  c.sessions = SessionCount(c.gid)
  BY DEF CountShown
<1>1. ASSUME NEW g, c = CommunityShown(p, g)
      PROVE  c.sessions = SessionCount(c.gid)
  BY <1>1 DEF CommunityShown
<1>2. CASE c \in UNION {FindCommunityByParticipant(p, q) : q \in PIDs}
  <2>1. PICK q \in PIDs : c \in FindCommunityByParticipant(p, q)
    BY <1>2, Zenon
  <2>2. QED
    BY <1>1, <2>1 DEF FindCommunityByParticipant, GetPersistentGatheringsByParticipant
<1>3. CASE c \in FindCommunityByGatheringID(p, GIDs)
  BY <1>1, <1>3 DEF FindCommunityByGatheringID, GetPersistentGatheringsByID
<1>4. CASE c \in GetSimpleCommunity(GIDs)
  BY <1>4 DEF GetSimpleCommunity
<1>5. PICK S : S = UNION {FindCommunityByParticipant(p, q) : q \in PIDs}
  OBVIOUS
<1>6. c \in S \cup FindCommunityByGatheringID(p, GIDs) \cup GetSimpleCommunity(GIDs)
  BY <1>5, Zenon DEF CommunitiesShown
<1>7. QED
  BY <1>2, <1>3, <1>4, <1>5, <1>6

(* The number of sessions shown with a community is the number of attached *)
(* sessions somebody plays in and of the two kinds of empty ones that the  *)
(* code never closes, after whatever joins, departures, lost connections   *)
(* and restarts.  The statements that write a creator into its session and *)
(* close an empty one must not fail.                                       *)
THEOREM CountedArePlayed ==
  ASSUME Failures \cap Closing = {}
  PROVE  Spec => CountedSessionsPlayed
<1>1. CountShown'
  BY ShownCounts, PTL
<1>2. DataOK' => CountSplit'
  BY CountedOrEmpty, PTL
<1>3. IInv /\ IInv' /\ [Next]_vars =>
        [\A p \in PIDs : \A c \in CommunitiesShown(p)' :
           c.sessions = Cardinality(PlayedSessions(c.gid)')
                          + Cardinality(DeadSessions(c.gid))]_vars
  <2> SUFFICES ASSUME IInv, IInv', [Next]_vars, NEW p \in PIDs, NEW c \in CommunitiesShown(p)'
               PROVE  c.sessions = Cardinality(PlayedSessions(c.gid)')
                                     + Cardinality(DeadSessions(c.gid))
    OBVIOUS
  <2> DEFINE counted == {g \in GIDs' : AttachedTo(gatherings'[g], c.gid)}
  <2>1. c.sessions = Cardinality(counted)
    BY <1>1 DEF CountShown, SessionCount, AttachedTo
  <2>2. PICK played : played = PlayedSessions(c.gid)'
    OBVIOUS
  <2>3. PICK empty : empty = EmptySessions(c.gid)'
    OBVIOUS
  <2>4. /\ IsFiniteSet(played) /\ IsFiniteSet(empty)
        /\ played \cap empty = {}
        /\ counted = played \cup empty
    BY <1>2, <2>2, <2>3 DEF IInv, CountSplit, AttachedTo
  <2>5. DeadSessions(c.gid) = empty
    BY <2>3, EmptyIsDead DEF DeadSessions, EmptySessions, AttachedTo
  <2>6. /\ Cardinality(played \cup empty)
             = Cardinality(played) + Cardinality(empty) - Cardinality(played \cap empty)
        /\ Cardinality(played) \in Nat /\ Cardinality(empty) \in Nat
    BY <2>4, FS_Union, FS_CardinalityType
  <2>7. Cardinality({}) = 0
    BY FS_EmptySet
  <2>8. c.sessions = Cardinality(played) + Cardinality(empty)
    <3> HIDE DEF counted
    <3>1. Cardinality(played \cap empty) = 0
      BY <2>4, <2>7
    <3>2. QED
      BY <2>1, <2>4, <2>6, <3>1
  <2>9. QED
    BY <2>2, <2>5, <2>8, Zenon
<1>4. QED
  BY <1>3, Invariance, PTL DEF Spec, CountedSessionsPlayed
=============================================================================
