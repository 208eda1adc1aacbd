----------------------------- MODULE Gatherings -----------------------------
(***************************************************************************)
(* The matchmaking stack of the secure server: MatchMaking, MatchMakingExt *)
(* and MatchmakeExtension over the table matchmaking.gatherings.           *)
(*                                                                         *)
(* Every handler that writes holds MatchmakingManager.Mutex from its first *)
(* read to its last write, so a handler is one action.  The requests of    *)
(* the players, the OnConnectionEnded callbacks and restarts of the server *)
(* interleave freely.  A request or callback runs in a goroutine of its    *)
(* own: the callback of a connection may run while the same player already *)
(* has a new connection, and a request that was still waiting for the      *)
(* mutex when its connection ended runs after it (late).                   *)
(*                                                                         *)
(* A request that is refused before it changes anything is not an action.  *)
(***************************************************************************)
EXTENDS GatheringEvents

CONSTANTS
  MaxGatherings,  \* bound: gatherings ever registered
  MaxSlots,       \* bound: slots of a gathering without a maximum
  MaxConns,       \* bound: connections of one player, ended ones included
  LateRequests,   \* whether a request may outlive its connection
  Sessions,       \* descriptions of the sessions clients ask for
  Communities,    \* descriptions of the communities clients create
  Counts,         \* participation counts of a request
  Invites,        \* lists of additional participants of a request
  CriteriaLists,  \* lists of search criteria of a request
  CreationMax,    \* PersistentGatheringCreationMax
  Failures,       \* SQL statements that may fail, at most one per handler
  Observed        \* kinds of events that sent records

ASSUME GatheringsAssumption ==
  /\ MaxGatherings \in Nat /\ MaxSlots \in Nat /\ MaxConns \in Nat /\ CreationMax \in Nat
  /\ LateRequests \in BOOLEAN
  /\ Sessions \subseteq Description /\ Communities \subseteq Description
  /\ Counts \subseteq Nat
  /\ Invites \subseteq Seq(PIDs)
  /\ Failures \subseteq Statements
  /\ Observed \subseteq EventKinds

VARIABLES
  gatherings,     \* matchmaking.gatherings; the ID of a row is its position
  participations, \* keys of matchmaking.community_participations
  live,           \* connections of each player
  ending,         \* ended connections whose callback has not run yet
  late,           \* players with a request of an ended connection still to run
  sent            \* observed events the last step delivered

vars == <<gatherings, participations, live, ending, late, sent>>

Events == [kind : EventKinds, gid : Nat, source : PIDs,
           about : PIDs \cup {NoPID}, to : PIDs]

TypeOK ==
  /\ gatherings \in Seq(Row)
  /\ Len(gatherings) <= MaxGatherings
  /\ participations \subseteq PIDs \X CommunityIDs
  /\ live \in [PIDs -> 0..MaxConns]
  /\ ending \in [PIDs -> 0..MaxConns]
  /\ late \in [PIDs -> BOOLEAN]
  /\ sent \subseteq Events

Init ==
  /\ gatherings = <<>>
  /\ participations = {}
  /\ live = [p \in PIDs |-> 0]
  /\ ending = [p \in PIDs |-> 0]
  /\ late = [p \in PIDs |-> FALSE]
  /\ sent = {}

-----------------------------------------------------------------------------
(* Connections. *)

(* SendNotificationEvent skips the targets that are not connected. *)
Send(events) == sent' = {e \in events : e.kind \in Observed /\ live[e.to] > 0}

Connect(p) ==
  /\ live[p] + ending[p] < MaxConns
  /\ live' = [live EXCEPT ![p] = @ + 1]
  /\ Send({})
  /\ UNCHANGED <<gatherings, participations, ending, late>>

(* The endpoint drops a connection and starts its OnConnectionEnded        *)
(* callbacks; one of its requests may still be waiting.                    *)
ConnectionEnded(p) ==
  /\ live[p] > 0
  /\ live' = [live EXCEPT ![p] = @ - 1]
  /\ ending' = [ending EXCEPT ![p] = @ + 1]
  /\ late' \in {late} \cup (IF LateRequests THEN {[late EXCEPT ![p] = TRUE]} ELSE {})
  /\ Send({})
  /\ UNCHANGED <<gatherings, participations>>

(* A handler runs for a live connection or for a request left behind. *)
Caller(p) ==
  /\ \/ live[p] > 0 /\ UNCHANGED late
     \/ late[p] /\ late' = [late EXCEPT ![p] = FALSE]
  /\ UNCHANGED <<live, ending>>

(* The statement that fails in a handler, and the gathering it is about: a *)
(* registered one, or the one the handler creates.                         *)
NewGID == Len(gatherings) + 1

CreateFaults == {"InsertGathering", "LogRegister", "InsertSession"}

FaultPoints ==
  {[at |-> 0, stmt |-> "none"]}
    \cup [at : {g \in DOMAIN gatherings : gatherings[g].registered},
          stmt : Failures \ CreateFaults]
    \cup [at : {NewGID} \cap 1..MaxGatherings,
          stmt : Failures \cap (CreateFaults \cup {"UpdateParticipants", "LogJoin"})]

At(f, g) == IF f.at = g THEN f.stmt ELSE "none"

-----------------------------------------------------------------------------
(* Leaving. *)

(* The callback: leave every registered gathering p is in, except those a  *)
(* player stays in.                                                        *)
LeavesOnDisconnect(r, p) ==
  r.registered /\ Participates(r, p) /\ ~StaysOnDisconnect(r)

DisconnectParticipant(p, f) ==
  /\ ending[p] > 0
  /\ ending' = [ending EXCEPT ![p] = @ - 1]
  /\ gatherings' = [g \in DOMAIN gatherings |->
                      IF LeavesOnDisconnect(gatherings[g], p)
                        THEN Leave(gatherings[g], p, At(f, g)) ELSE gatherings[g]]
  /\ Send(UNION {LeaveEvents(g, gatherings[g], p, At(f, g), "Disconnected") :
                   g \in {h \in DOMAIN gatherings : LeavesOnDisconnect(gatherings[h], p)}})
  /\ UNCHANGED <<participations, live, late>>

EndParticipation(p, g, f) ==
  /\ Caller(p)
  /\ gatherings[g].registered /\ Participates(gatherings[g], p)
  /\ gatherings' = [gatherings EXCEPT ![g] = Leave(@, p, At(f, g))]
  /\ Send(LeaveEvents(g, gatherings[g], p, At(f, g), "Ended"))
  /\ UNCHANGED participations

(* EndMatchmakeSessionsParticipation, with which the handlers that create  *)
(* or search a session begin: p leaves every session it is still in.       *)
EndsIn_AnyRow(r, p) == r.type = "MatchmakeSession" /\ Participates(r, p)

EndsIn(r, p) == r.type = "MatchmakeSession" /\ r.registered /\ Participates(r, p)

EndMatchmakeSessions_Keep(p, f) == gatherings

EndMatchmakeSessions(p, f) ==
  [g \in DOMAIN gatherings |->
     IF EndsIn(gatherings[g], p) THEN Leave(gatherings[g], p, At(f, g)) ELSE gatherings[g]]

EndEvents(p, f) ==
  UNION {LeaveEvents(g, gatherings[g], p, At(f, g), "Ended") :
           g \in {h \in DOMAIN gatherings : EndsIn(gatherings[h], p)}}

-----------------------------------------------------------------------------
(* Joining. The second half of every handler that joins: rows is the table *)
(* the first half left, g the session to join, events what was sent so     *)
(* far. A session attached to a community counts a participation for every *)
(* player that joined; GetPersistentGatheringByID answers without error    *)
(* for a community that does not exist.                                    *)

Fits(r, n) == r.d.max = 0 => Len(r.participants) + n <= MaxSlots

JoinStep(rows, g, p, n, f, events) ==
  LET r == rows[g] IN
  /\ Fits(r, Slots(n))
  /\ gatherings' = [rows EXCEPT ![g] = JoinGathering(r, p, n, At(f, g))]
  /\ Send(events \cup JoinEvents(g, r, p, n, At(f, g)))
  /\ participations' = participations \cup
       (IF r.d.attached /\ JoinSucceeds(r, p, n, At(f, g)) THEN {<<p, r.community>>} ELSE {})

JoinWithStep(rows, g, p, add, already, f, events) ==
  LET r == rows[g] IN
  /\ gatherings' = [rows EXCEPT ![g] = JoinGatheringWithParticipants(r, p, add, already, At(f, g))]
  /\ Send(events \cup JoinWithEvents(g, r, p, add, already, At(f, g)))
  /\ participations' = participations \cup
       (IF r.d.attached /\ JoinWithSucceeds(r, p, add, already, At(f, g))
          THEN (Members(add) \cup {p}) \X {r.community} ELSE {})

(* CheckGatheringForParticipation, skipped when the ID to check is 0. *)
ParticipationChecked(check, p, add) ==
  check # 0 => /\ gatherings[check].registered
               /\ Members(add) \cup {p} \subseteq Members(gatherings[check].participants)

CheckIDs == {0} \cup DOMAIN gatherings

(* The rows GetMatchmakeSessionByID finds: it cannot scan the NULL length  *)
(* of an empty array.                                                      *)
Readable_Empty(r) == r.type = "MatchmakeSession" /\ r.registered /\ r.stored

Readable(r) ==
  r.type = "MatchmakeSession" /\ r.registered /\ r.stored /\ r.participants # <<>>

(* CreateMatchmakeSession appends a row nobody is in yet; a failing        *)
(* statement may leave it behind.                                          *)
Created(d, p, f) ==
  Append(EndMatchmakeSessions(p, f), CreateMatchmakeSessionRow(d, p, At(f, NewGID)))

CreateFails(p, d, f) ==
  /\ Len(gatherings) < MaxGatherings
  /\ \/ At(f, NewGID) = "InsertGathering" /\ gatherings' = EndMatchmakeSessions(p, f)
     \/ At(f, NewGID) \in {"LogRegister", "InsertSession"} /\ gatherings' = Created(d, p, f)
  /\ Send(EndEvents(p, f))
  /\ UNCHANGED participations

CreateSucceeds(f) == Len(gatherings) < MaxGatherings /\ At(f, NewGID) \notin CreateFaults

(* A request found invalid only after p has left its sessions. *)
RefusedAfterEnd(p, f) ==
  /\ gatherings' = EndMatchmakeSessions(p, f)
  /\ Send(EndEvents(p, f))
  /\ UNCHANGED participations

(* Search: any of the results may come first, and 0 stands for none. *)
FindMatchmakeSession(rows, d) ==
  LET found == {g \in DOMAIN rows :
                  /\ Readable(rows[g]) /\ rows[g].host # NoPID
                  /\ rows[g].open /\ ~rows[g].d.password
                  /\ Len(rows[g].participants) < rows[g].d.max
                  /\ rows[g].d.max = d.max /\ rows[g].kind = d.kind
                  /\ rows[g].community = d.community /\ rows[g].d.attached = d.attached
                  /\ ~rows[g].d.friendsOnly}
  IN  IF found = {} THEN {0} ELSE found

(* One criterion: which sessions it excludes, the ranges of values it asks *)
(* for (empty ones when one of its strings cannot be parsed), and the      *)
(* number of slots vacantOnly requires.                                    *)
Criteria == [excludeLocked : BOOLEAN, excludeNonHost : BOOLEAN, excludePassword : BOOLEAN,
             vacantOnly : BOOLEAN, vacant : Nat, kinds : SUBSET Kinds, maxima : SUBSET Nat,
             communities : SUBSET CommunityIDs, systems : SUBSET BOOLEAN]

ASSUME CriteriaAssumption == CriteriaLists \subseteq Seq(Criteria)

Matches_OneOver(r, c) ==
  /\ r.type = "MatchmakeSession" /\ r.registered /\ r.stored
  /\ c.excludeLocked => r.open
  /\ c.excludeNonHost => r.host # NoPID
  /\ c.excludePassword => ~r.d.password
  /\ c.vacantOnly => /\ r.participants # <<>>
                     /\ Len(r.participants) < r.d.max
  /\ r.kind \in c.kinds /\ r.d.max \in c.maxima
  /\ r.community \in c.communities /\ r.d.attached \in c.systems

Matches(r, c) ==
  /\ r.type = "MatchmakeSession" /\ r.registered /\ r.stored
  /\ c.excludeLocked => r.open
  /\ c.excludeNonHost => r.host # NoPID
  /\ c.excludePassword => ~r.d.password
  /\ c.vacantOnly => /\ r.participants # <<>>
                     /\ Len(r.participants) + Slots(c.vacant) <= r.d.max
  /\ r.kind \in c.kinds /\ r.d.max \in c.maxima
  /\ r.community \in c.communities /\ r.d.attached \in c.systems

(* At most one row is fetched per criterion; if that one cannot be scanned *)
(* because nobody is in it, the criterion has no result.                   *)
Results(rows, c) ==
  LET found == {g \in DOMAIN rows : Matches(rows[g], c)}
  IN  IF found = {} THEN {0}
      ELSE {IF rows[g].participants = <<>> THEN 0 ELSE g : g \in found}

FindMatchmakeSessionBySearchCriteria(rows, cs) ==
  LET first == IF Len(cs) = 0 THEN {0} ELSE Results(rows, cs[1])
      second == IF Len(cs) < 2 THEN {0} ELSE Results(rows, cs[2])
  IN  (first \ {0}) \cup (IF 0 \in first THEN second ELSE {})

(* Join the session found, or the one created when none was (g = 0). A     *)
(* result that has a password is refused.                                  *)
Enter(p, d, g, n, f) ==
  \/ g = 0 /\ CreateFails(p, d, f)
  \/ g = 0 /\ CreateSucceeds(f) /\ JoinStep(Created(d, p, f), NewGID, p, n, f, EndEvents(p, f))
  \/ g # 0 /\ gatherings[g].d.password /\ RefusedAfterEnd(p, f)
  \/ g # 0 /\ ~gatherings[g].d.password
           /\ JoinStep(EndMatchmakeSessions(p, f), g, p, n, f, EndEvents(p, f))

EnterWith(p, d, g, add, f) ==
  \/ g = 0 /\ CreateFails(p, d, f)
  \/ g = 0 /\ CreateSucceeds(f)
           /\ JoinWithStep(Created(d, p, f), NewGID, p, add, FALSE, f, EndEvents(p, f))
  \/ g # 0 /\ gatherings[g].d.password /\ RefusedAfterEnd(p, f)
  \/ g # 0 /\ ~gatherings[g].d.password
           /\ JoinWithStep(EndMatchmakeSessions(p, f), g, p, add, FALSE, f, EndEvents(p, f))

CreateMatchmakeSession(p, d, n, f) ==
  /\ Caller(p)
  /\ \/ ~d.valid /\ RefusedAfterEnd(p, f)
     \/ d.valid /\ Enter(p, d, 0, n, f)

CreateMatchmakeSessionWithParam(p, d, add, check, f) ==
  /\ Caller(p)
  /\ d.valid
  /\ ParticipationChecked(check, p, add)
  /\ EnterWith(p, d, 0, add, f)

AutoMatchmakePostpone(p, d, f) ==
  /\ Caller(p)
  /\ \/ ~d.valid /\ RefusedAfterEnd(p, f)
     \/ d.valid /\ \E g \in FindMatchmakeSession(EndMatchmakeSessions(p, f), d) :
                     Enter(p, d, g, 1, f)

AutoMatchmakeWithParamPostpone(p, d, cs, add, check, f) ==
  /\ Caller(p)
  /\ d.valid
  /\ ParticipationChecked(check, p, add)
  /\ \E g \in FindMatchmakeSessionBySearchCriteria(EndMatchmakeSessions(p, f), cs) :
        EnterWith(p, d, g, add, f)

(* The number of slots is the one the first criterion asks for. *)
AutoMatchmakeWithSearchCriteriaPostpone(p, d, cs, f) ==
  /\ Caller(p)
  /\ \/ ~d.valid /\ RefusedAfterEnd(p, f)
     \/ d.valid /\ \E g \in FindMatchmakeSessionBySearchCriteria(EndMatchmakeSessions(p, f), cs) :
                     Enter(p, d, g, IF Len(cs) = 0 THEN 1 ELSE cs[1].vacant, f)

(* Joining by ID leaves the caller in the sessions it is in already. *)
JoinMatchmakeSessionEx(p, g, n, f) ==
  /\ Caller(p)
  /\ Readable(gatherings[g]) /\ ~gatherings[g].d.password
  /\ gatherings[g].open
  /\ JoinStep(gatherings, g, p, n, f, {})

JoinMatchmakeSession(p, g, f) == JoinMatchmakeSessionEx(p, g, 1, f)

(* A request with the wrong password is refused, so a password excludes    *)
(* nobody that knows it.                                                   *)
JoinMatchmakeSessionWithParam(p, g, add, check, already, f) ==
  /\ Caller(p)
  /\ ParticipationChecked(check, p, add)
  /\ Readable(gatherings[g])
  /\ gatherings[g].open
  /\ JoinWithStep(gatherings, g, p, add, already, f, {})

-----------------------------------------------------------------------------
(* Managing a gathering. *)

UnregisterGathering(p, g, f) ==
  /\ Caller(p)
  /\ gatherings[g].registered /\ gatherings[g].owner = p
  /\ gatherings' = [gatherings EXCEPT ![g] = UnregisterRow(@, At(f, g))]
  /\ Send(UnregisterEvents(g, p, Members(gatherings[g].participants), At(f, g)))
  /\ UNCHANGED participations

(* A participant makes itself host, or owner and host. *)
TakeHost(p, g, f) ==
  /\ Caller(p)
  /\ gatherings[g].registered /\ Participates(gatherings[g], p)
  /\ gatherings' = [gatherings EXCEPT ![g].host = IF At(f, g) = "UpdateHost" THEN @ ELSE p]
  /\ Send({})
  /\ UNCHANGED participations

TakeOwnership(p, g, f) ==
  /\ Caller(p)
  /\ gatherings[g].registered /\ Participates(gatherings[g], p)
  /\ HasFlag(gatherings[g], {"ParticipantsChangeOwner"})
  /\ gatherings' = [gatherings EXCEPT
                      ![g].owner = IF At(f, g) = "UpdateHost" THEN @ ELSE p,
                      ![g].host = IF At(f, g) = "UpdateHost" THEN @ ELSE p]
  /\ Send(IF At(f, g) \in {"UpdateHost", "LogChangeHost", "LogChangeOwner"} THEN {}
          ELSE Event("OwnershipChanged", g, p, p, Members(gatherings[g].participants)))
  /\ UNCHANGED participations

UpdateSessionHost(p, g, isMigrateOwner, f) ==
  IF isMigrateOwner THEN TakeOwnership(p, g, f) ELSE TakeHost(p, g, f)

UpdateSessionHostV1(p, g, f) ==
  IF HasFlag(gatherings[g], {"ParticipantsChangeOwner"})
    THEN TakeOwnership(p, g, f) ELSE TakeHost(p, g, f)

UpdateSessionURL(p, g, f) == TakeHost(p, g, f)

(* openParticipation and closeParticipation *)
SetParticipation(p, g, open) ==
  /\ Caller(p)
  /\ Readable(gatherings[g]) /\ gatherings[g].owner = p
  /\ gatherings' = [gatherings EXCEPT ![g].open = open]
  /\ Send({})
  /\ UNCHANGED participations

ModifyCurrentGameAttribute(p, g) ==
  /\ Caller(p)
  /\ Readable(gatherings[g]) /\ gatherings[g].owner = p
  /\ \/ \E k \in Kinds : gatherings' = [gatherings EXCEPT ![g].kind = k]
     \/ \E c \in CommunityIDs : gatherings' = [gatherings EXCEPT ![g].community = c]
  /\ Send({})
  /\ UNCHANGED participations

(* Only the communities whose own row exists count as created. *)
OwnedCommunities(p) ==
  {g \in DOMAIN gatherings : /\ gatherings[g].type = "PersistentGathering"
                             /\ gatherings[g].registered /\ gatherings[g].stored
                             /\ gatherings[g].owner = p}

CreateCommunity_OffByOne(p, d, f) ==
  /\ Caller(p)
  /\ d.valid
  /\ Cardinality(OwnedCommunities(p)) <= CreationMax
  /\ Len(gatherings) < MaxGatherings
  /\ gatherings' = Append(gatherings,
                          JoinGathering(CreatePersistentGatheringRow(d, p, "none"), p, 1, "none"))
  /\ Send({})
  /\ UNCHANGED participations

CreateCommunity(p, d, f) ==
  LET r == CreatePersistentGatheringRow(d, p, At(f, NewGID)) IN
  /\ Caller(p)
  /\ d.valid
  /\ Cardinality(OwnedCommunities(p)) < CreationMax
  /\ Len(gatherings) < MaxGatherings
  /\ At(f, NewGID) # "InsertGathering"
  /\ gatherings' = Append(gatherings,
                          IF r.stored THEN JoinGathering(r, p, 1, At(f, NewGID)) ELSE r)
  /\ Send(IF r.stored THEN JoinEvents(NewGID, r, p, 1, At(f, NewGID)) ELSE {})
  /\ UNCHANGED participations

(* A new process: SetManager unregisters the sessions of the old one,      *)
(* whose connections, callbacks and requests are gone.                     *)
Restart ==
  /\ gatherings' = [g \in DOMAIN gatherings |->
                      IF gatherings[g].type = "MatchmakeSession"
                        THEN [gatherings[g] EXCEPT !.registered = FALSE] ELSE gatherings[g]]
  /\ live' = [p \in PIDs |-> 0]
  /\ ending' = [p \in PIDs |-> 0]
  /\ late' = [p \in PIDs |-> FALSE]
  /\ sent' = {}
  /\ UNCHANGED participations

-----------------------------------------------------------------------------
GIDs == DOMAIN gatherings

Entering(p, f) ==
  \/ \E d \in Sessions, n \in Counts : CreateMatchmakeSession(p, d, n, f)
  \/ \E d \in Sessions, add \in Invites, check \in CheckIDs :
        CreateMatchmakeSessionWithParam(p, d, add, check, f)
  \/ \E d \in Sessions : AutoMatchmakePostpone(p, d, f)
  \/ \E d \in Sessions, cs \in CriteriaLists, add \in Invites, check \in CheckIDs :
        AutoMatchmakeWithParamPostpone(p, d, cs, add, check, f)
  \/ \E d \in Sessions, cs \in CriteriaLists :
        AutoMatchmakeWithSearchCriteriaPostpone(p, d, cs, f)
  \/ \E d \in Communities : CreateCommunity(p, d, f)

Visiting(p, g, f) ==
  \/ JoinMatchmakeSession(p, g, f)
  \/ \E n \in Counts : JoinMatchmakeSessionEx(p, g, n, f)
  \/ \E add \in Invites, check \in CheckIDs, already \in BOOLEAN :
        JoinMatchmakeSessionWithParam(p, g, add, check, already, f)
  \/ EndParticipation(p, g, f)
  \/ UnregisterGathering(p, g, f)
  \/ \E migrate \in BOOLEAN : UpdateSessionHost(p, g, migrate, f)
  \/ UpdateSessionHostV1(p, g, f)
  \/ UpdateSessionURL(p, g, f)

Next ==
  \/ \E p \in PIDs :
       \/ Connect(p)
       \/ ConnectionEnded(p)
       \/ \E f \in FaultPoints :
            \/ DisconnectParticipant(p, f)
            \/ Entering(p, f)
            \/ \E g \in GIDs : Visiting(p, g, f)
       \/ \E g \in GIDs :
            \/ \E open \in BOOLEAN : SetParticipation(p, g, open)
            \/ ModifyCurrentGameAttribute(p, g)
  \/ Restart

Spec == Init /\ [][Next]_vars

-----------------------------------------------------------------------------
(* Properties *)

(* Ordinary sessions: the ones DisconnectParticipant and                   *)
(* EndGatheringParticipation keep in order when a player leaves.           *)
Ordinary(r) ==
  /\ r.type = "MatchmakeSession" /\ r.registered
  /\ ~HasFlag(r, {"PersistentGathering", "AllowZeroUsers"})

(* No sequence of joins, counts and invitations, with or without failing   *)
(* statements, puts more slots into a gathering than its maximum: the two  *)
(* SessionFull checks, JoinGathering's and JoinGatheringWithParticipants', *)
(* together cover every way in.                                            *)
CapacityRespected ==
  \A g \in GIDs : gatherings[g].d.max # 0
                   => Len(gatherings[g].participants) <= gatherings[g].d.max

(* While an ordinary session has participants, its owner and its host are  *)
(* among them, whoever leaves or disconnects in whatever order: otherwise  *)
(* nobody could manage the session and GetSessionURLs would point at a     *)
(* player that is gone.                                                    *)
OwnerAndHostPresent ==
  \A g \in GIDs : LET r == gatherings[g] IN
    Ordinary(r) /\ r.participants # <<>>
      => Participates(r, r.owner) /\ Participates(r, r.host)

(* The owner keeps slot 0, the order join_gathering.go preserves for the   *)
(* title: joining appends, and the ownership passes to the next in line.   *)
(* Sessions in which any participant may take over the ownership are       *)
(* exempt.                                                                 *)
OwnerAtHead ==
  \A g \in GIDs : LET r == gatherings[g] IN
    Ordinary(r) /\ r.participants # <<>> /\ ~HasFlag(r, {"ParticipantsChangeOwner"})
      => Head(r.participants) = r.owner

(* Without late requests and invitations, a player that holds a slot of an *)
(* ordinary session is connected, or its callback is still to run: no      *)
(* session stays full of players that are gone.                            *)
NoGhostSlots ==
  \A g \in GIDs : Ordinary(gatherings[g])
    => \A p \in Members(gatherings[g].participants) : live[p] + ending[p] > 0

(* A player never owns more active communities than the creation maximum,  *)
(* although creating one checks the number before it inserts.              *)
CommunitiesBounded ==
  \A p \in PIDs : Cardinality(OwnedCommunities(p)) <= CreationMax

(* Nothing changes an unregistered gathering: no late join, no host change *)
(* and no cleanup touches it. JoinGathering itself does not look at the    *)
(* registered column, so this rests on its callers.                        *)
UnregisteredFrozen ==
  [][\A g \in GIDs : ~gatherings[g].registered => gatherings'[g] = gatherings[g]]_vars

(* A session that has lost its last participant, or never got one, is not  *)
(* entered again: no search and no join by ID finds it.                    *)
EmptySessionStaysEmpty ==
  [][\A g \in GIDs :
       gatherings[g].type = "MatchmakeSession" /\ gatherings[g].participants = <<>>
         => gatherings'[g].participants = <<>>]_vars

(* Every slot of old but those of gone is a slot of new: it moves up past  *)
(* the slots of gone, and past no others.                                  *)
MovedUp(old, new, gone) ==
  \A i \in DOMAIN old : old[i] # gone =>
    LET place == Cardinality({j \in 1..i : old[j] # gone})
    IN  place \in DOMAIN new /\ new[place] = old[i]

(* A step takes the slots of one player at most, and then all of them, and *)
(* whoever comes in comes in at the end: a player that joined with a count *)
(* leaves with its companions, nobody else loses a slot or its place, and  *)
(* one that a search brings back to the session it just left starts again  *)
(* behind the others.                                                      *)
SlotOrderKept ==
  [][\E p \in PIDs \cup {NoPID} : \A g \in GIDs : \E gone \in {NoPID, p} :
       MovedUp(gatherings[g].participants, gatherings'[g].participants, gone)]_vars

Told(q, kind, g, about) ==
  \E e \in sent' : e.kind = kind /\ e.gid = g /\ e.about = about /\ e.to = q

(* When a gathering is unregistered, every participant that stays in the   *)
(* row and is connected is told so in the same step; when it changes       *)
(* hands, every one but the old owner, who may itself have caused it by    *)
(* leaving (and may have been brought straight back by its search).        *)
RemainingInformed ==
  [][\A g \in GIDs : LET r == gatherings[g]  s == gatherings'[g] IN
       \A q \in Members(r.participants) \cap Members(s.participants) : live'[q] > 0 =>
         /\ r.registered /\ ~s.registered => Told(q, "GatheringUnregistered", g, NoPID)
         /\ r.owner \notin {s.owner, q} => Told(q, "OwnershipChanged", g, s.owner)]_vars

(* Whoever creates a session has left every other session: what the        *)
(* comment before each EndMatchmakeSessionsParticipation asks for.         *)
CreatorLeftOthers ==
  [][\A g \in 1..Len(gatherings') \ GIDs :
       gatherings'[g].type = "MatchmakeSession" =>
         \A h \in GIDs : gatherings'[h].type = "MatchmakeSession" /\ gatherings'[h].registered
            => ~Participates(gatherings'[h], gatherings'[g].owner)]_vars

(* The callbacks run: goroutines are scheduled, and sync.RWMutex does not  *)
(* starve a waiting writer.                                                *)
Fairness == \A p \in PIDs : WF_vars(\E f \in FaultPoints : DisconnectParticipant(p, f))

FairSpec == Spec /\ Fairness

Holds(p, g) == g \in GIDs /\ Ordinary(gatherings[g]) /\ Participates(gatherings[g], p)

(* The slots of a connection that has ended are given back: its callback   *)
(* takes its player out of every ordinary session, also when the player    *)
(* has come back on another connection or a late request still waits.      *)
SlotsFreed ==
  \A p \in PIDs, g \in 1..MaxGatherings :
    (Holds(p, g) /\ ending[p] > 0) ~> ~Holds(p, g)

(* The safety part of SlotsFreed: one run of the callback is enough. When  *)
(* it returns, its player holds no slot of any ordinary session, whatever  *)
(* it joined since the connection ended.                                   *)
CallbackFrees ==
  [][\A p \in PIDs : ending'[p] < ending[p] =>
       \A g \in GIDs : Ordinary(gatherings'[g]) => ~Participates(gatherings'[g], p)]_vars

-----------------------------------------------------------------------------
(* What comments of the code say, and the code does not do. *)

(* disconnect_participant.go: "Only send the notification event to the     *)
(* owner." When the owner itself disconnects and the session goes to       *)
(* another player, the new owner should be told of the departure.          *)
DepartureReachesOwner ==
  [][\A g \in GIDs : LET r == gatherings[g]  s == gatherings'[g] IN
       \A p \in Members(r.participants) \ Members(s.participants) :
         ending'[p] < ending[p] /\ s.registered /\ live'[s.owner] > 0
           => Told(s.owner, "Disconnected", g, p)]_vars

(* join_matchmake_session.go counts a participation for a session          *)
(* "Attached to a persistent gathering", once GetPersistentGatheringByID   *)
(* has found that gathering without error.                                 *)
CountsOnlyForCommunities ==
  \A c \in participations : /\ c[2] \in GIDs
                             /\ gatherings[c[2]].type = "PersistentGathering"
=============================================================================
