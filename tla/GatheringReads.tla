--------------------------- MODULE GatheringReads ---------------------------
(***************************************************************************)
(* What the reads of the matchmaking stack answer.  Each one runs under    *)
(* the read lock of MatchmakingManager.Mutex, so it sees one state of the  *)
(* tables; none changes them.  Passwords and session keys are removed from *)
(* every answer.  The lists are cut by LIMIT and OFFSET without an order,  *)
(* so any part of them may be answered; the operators give the whole.      *)
(*                                                                         *)
(* FindOfficialCommunity is left out: this server creates no communities   *)
(* of that type, so its answer is empty.                                   *)
(***************************************************************************)
EXTENDS Gatherings

(* MatchMaking: one gathering by its ID. *)

FindGatheringByID(g) == g \in GIDs /\ gatherings[g].registered

(* The query for the session fails if its row is missing. The query for a  *)
(* community names a table that is not in its FROM clause, and always      *)
(* fails.                                                                  *)
GetMatchmakeSessionByGathering(g) == gatherings[g].stored
GetPersistentGatheringByGathering(g) == FALSE

GetDetailedGatheringByID(g) ==
  IF gatherings[g].type = "MatchmakeSession" THEN GetMatchmakeSessionByGathering(g)
                                             ELSE GetPersistentGatheringByGathering(g)

FindBySingleID(g) == FindGatheringByID(g) /\ GetDetailedGatheringByID(g)

(* The player whose station URLs p is given: the host, if p participates   *)
(* and the host has a connection.                                          *)
MayAskURLs(p, g) == FindGatheringByID(g) /\ Participates(gatherings[g], p)

GetSessionURLs(p, g) == {h \in {gatherings[g].host} \ {NoPID} : live[h] > 0}

-----------------------------------------------------------------------------
(* MatchmakeExtension: lists. *)

(* A row that nobody is in cannot be scanned and is skipped. *)
BrowseMatchmakeSession(c) ==
  {g \in GIDs : Matches(gatherings[g], c) /\ gatherings[g].participants # <<>>}

(* matchmake_session_count: the sessions attached to community g. *)
AttachedTo(r, g) ==
  /\ r.type = "MatchmakeSession" /\ r.registered /\ r.stored
  /\ r.d.attached /\ r.community = g

SessionCount_AnyRow(g) ==
  Cardinality({h \in GIDs : gatherings[h].d.attached /\ gatherings[h].community = g})

SessionCount(g) == Cardinality({h \in GIDs : AttachedTo(gatherings[h], g)})

PersistentGatherings ==
  {g \in GIDs : LET r == gatherings[g] IN r.type = "PersistentGathering" /\ r.registered /\ r.stored}

(* A community as shown to p. *)
CommunityShown(p, g) ==
  [gid |-> g, sessions |-> SessionCount(g), participated |-> <<p, g>> \in participations]

GetPersistentGatheringsByID(p, ids) == {CommunityShown(p, g) : g \in PersistentGatherings \cap ids}

GetPersistentGatheringsByParticipant(p, q) ==
  {CommunityShown(p, g) : g \in {h \in PersistentGatherings : Participates(gatherings[h], q)}}

FindCommunityByGatheringID(p, ids) == GetPersistentGatheringsByID(p, ids)
FindCommunityByParticipant(p, q) == GetPersistentGatheringsByParticipant(p, q)

GetSimpleCommunity(ids) ==
  {[gid |-> g, sessions |-> SessionCount(g)] : g \in PersistentGatherings \cap ids}

(* The sessions of which one is shown as the one q plays in. *)
GetSimplePlayingSession(q) ==
  {g \in GIDs : LET r == gatherings[g] IN
                 r.type = "MatchmakeSession" /\ r.registered /\ r.stored /\ Participates(r, q)}

-----------------------------------------------------------------------------
(* Properties *)

NoFault == [at |-> 0, stmt |-> "none"]

(* The criteria that ask for a session anyone can enter. *)
Enterable(c) == c.excludeLocked /\ c.excludePassword /\ c.vacantOnly

(* What a search finds can be entered at once: a player that browses with  *)
(* criteria that exclude locked, protected and full sessions can join each *)
(* session it is shown, unless it is already in it, with as many slots as  *)
(* it asked for; and the session automatic matchmaking picks, after the    *)
(* player has left its own, has a place for it. The search counts places   *)
(* in SQL, the join in Go.                                                 *)
FoundCanBeEntered ==
  \A p \in PIDs :
    /\ \A cs \in CriteriaLists : \A i \in DOMAIN cs : \A g \in BrowseMatchmakeSession(cs[i]) :
         LET r == gatherings[g] IN
         Enterable(cs[i]) => /\ Readable(r) /\ FindBySingleID(g) /\ r.open /\ ~r.d.password
                             /\ Participates(r, p) \/ CanJoinGathering(r, p, cs[i].vacant)
    /\ LET rows == EndMatchmakeSessions(p, NoFault) IN
       \A d \in Sessions : \A g \in FindMatchmakeSession(rows, d) \ {0} :
          ~rows[g].d.password /\ CanJoinGathering(rows[g], p, 1)

(* Without late requests and invitations, a participant of an ordinary     *)
(* session that asks for its URLs is given those of a fellow participant,  *)
(* and gets nothing only while the callback of the host's connection is    *)
(* still to run.                                                           *)
URLsLeadToHost ==
  \A g \in GIDs, p \in PIDs : Ordinary(gatherings[g]) /\ MayAskURLs(p, g) =>
    \/ \E h \in GetSessionURLs(p, g) : Participates(gatherings[g], h)
    \/ GetSessionURLs(p, g) = {} /\ gatherings[g].host \in {h \in PIDs : ending[h] > 0}

(* The participation counts a request that may create a session can name. *)
Asked == Counts \cup {1} \cup {cs[1].vacant : cs \in CriteriaLists \ {<<>>}}

(* Whoever creates a session with description d finds a place in it,       *)
(* whatever count or guests it names.                                      *)
Room(d) ==
  /\ \A n \in Asked : d.max = 0 \/ Slots(n) <= d.max
  /\ \A add \in Invites : 1 + Len(add) <= d.max

(* The communities p is shown, by a participant or by their IDs. *)
CommunitiesShown(p) ==
  (UNION {FindCommunityByParticipant(p, q) : q \in PIDs})
    \cup FindCommunityByGatheringID(p, GIDs) \cup GetSimpleCommunity(GIDs)

(* The sessions attached to community c that somebody is shown to play in. *)
PlayedSessions(c) ==
  {g \in UNION {GetSimplePlayingSession(q) : q \in PIDs} :
     gatherings[g].d.attached /\ gatherings[g].community = c}

(* The attached sessions that nobody is in after this step and that the    *)
(* code goes on counting: their flags keep them without players, or nobody *)
(* was in them before the step either, or the step created them for a      *)
(* player that there may be no place for.                                  *)
DeadSessions(c) ==
  {g \in GIDs' : LET s == gatherings'[g] IN
     /\ AttachedTo(s, c) /\ s.participants = <<>>
     /\ \/ HasFlag(s, {"PersistentGathering", "AllowZeroUsers"})
        \/ IF g \in GIDs THEN gatherings[g].participants = <<>> ELSE ~Room(s.d)}

(* The number of sessions shown with a community is the number of attached *)
(* sessions somebody is shown to play in, and of two kinds of empty ones   *)
(* that are never closed: those whose flags keep them without players, and *)
(* those whose creator asked for more places than they have, so that it    *)
(* was never in. Every other session is no longer counted from the step in *)
(* which it loses its last player, by leaving, disconnecting, moving on or *)
(* a restart; this takes the statements that write the creator into the    *)
(* row and that close it not to fail.                                      *)
CountedSessionsPlayed ==
  [][\A p \in PIDs : \A c \in CommunitiesShown(p)' :
       c.sessions = Cardinality(PlayedSessions(c.gid)') + Cardinality(DeadSessions(c.gid))]_vars
=============================================================================
