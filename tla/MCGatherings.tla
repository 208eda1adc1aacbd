---------------------------- MODULE MCGatherings ----------------------------
(* Values of the constants of Gatherings for TLC. *)
EXTENDS GatheringReads, TLC

CONSTANTS p1, p2, p3

Symmetry == Permutations(PIDs)

Session == [valid |-> TRUE, max |-> 2, flags |-> {}, open |-> TRUE, password |-> FALSE,
            friendsOnly |-> FALSE, attached |-> FALSE, kind |-> "k", community |-> 0]

Invalid == [Session EXCEPT !.valid = FALSE]
Migrating == [Session EXCEPT !.max = 3, !.flags = {"DisconnectChangeOwner"}]
Passed == [Session EXCEPT !.flags = {"ParticipantsChangeOwner", "VerboseParticipantsEx",
                                     "DisconnectChangeOwner"}]
Handed == [Session EXCEPT !.flags = {"ParticipantsChangeOwner", "DisconnectChangeOwner"}]
Unlimited == [Session EXCEPT !.max = 0, !.flags = {"VerboseParticipants"}]
Locked == [Session EXCEPT !.password = TRUE]
ZeroUsers == [Session EXCEPT !.flags = {"AllowZeroUsers"}]
Persistent == [Session EXCEPT !.flags = {"PersistentGathering"}]
FriendsOnly == [Session EXCEPT !.friendsOnly = TRUE]
Attached == [Session EXCEPT !.attached = TRUE, !.community = 1]
Astray == [Session EXCEPT !.attached = TRUE, !.community = 9]

Community == [Session EXCEPT !.flags = {"PersistentGathering", "AllowZeroUsers"}]

AnyVacant == [excludeLocked |-> TRUE, excludeNonHost |-> TRUE, excludePassword |-> TRUE,
              vacantOnly |-> TRUE, vacant |-> 2, kinds |-> {"k"}, maxima |-> {2, 3},
              communities |-> CommunityIDs, systems |-> {FALSE}]
AnyAtAll == [excludeLocked |-> FALSE, excludeNonHost |-> FALSE, excludePassword |-> FALSE,
             vacantOnly |-> FALSE, vacant |-> 0, kinds |-> {"k"}, maxima |-> 0..3,
             communities |-> CommunityIDs, systems |-> BOOLEAN]

OneKind == {"k"}
NoInvites == {<<>>}
Singles == {<<>>} \cup {<<p>> : p \in PIDs}

(* rooms: every flavour of session, one at a time *)
RoomSessions == {Session, Migrating, Passed, Unlimited, Locked, Persistent, ZeroUsers, FriendsOnly,
                 Attached, Invalid}
RoomCriteria == {<<>>, <<AnyVacant, AnyAtAll>>}

(* moving: from one session or community to the next; also a session       *)
(* smaller than the count its creator names, and one that stays without    *)
(* players                                                                 *)
MovingSessions == {[Attached EXCEPT !.flags = {"DisconnectChangeOwner"}],
                   [Attached EXCEPT !.max = 1],
                   [Attached EXCEPT !.max = 1, !.flags = {"AllowZeroUsers"}]}
MovingCommunities == {Community}
MovingCriteria == {<<AnyAtAll>>}

(* failures: the statements whose failure shows in the table *)
FailureSessions == {Handed}
FailureStatements == Statements \ {"InsertSession", "LogJoin", "LogUnregister", "LogChangeHost"}

(* reconnect: requests and callbacks of old connections *)
ReconnectSessions == {Session, Migrating, Invalid}

(* the runs that show what the comments get wrong *)
DepartureSessions == {Migrating}
AstraySessions == {Astray}
=============================================================================
