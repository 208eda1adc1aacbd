------------------------------ MODULE Stations ------------------------------
(***************************************************************************)
(* The station URLs of connections: how a player reaches another one       *)
(* directly.  SecureConnection::Register and ReplaceURL write them,        *)
(* NATTraversal::ReportNATProperties changes them, RequestURLs and         *)
(* MatchMaking::GetSessionURLs give them to other players, who send them   *)
(* back in RequestProbeInitiationExt to have their owner probed.           *)
(*                                                                         *)
(* No lock guards them.  A client has one request of a connection under    *)
(* way at a time; what others read in between is any state of the list.    *)
(* RegisterEx answers NotImplemented: ValidateLoginData is not set.        *)
(***************************************************************************)
EXTENDS Integers, Sequences, FiniteSets

CONSTANTS
  PIDs,       \* principal IDs of the players
  NoPID,      \* the principal ID of a URL that names none
  Addrs,      \* addresses with their ports
  Reports,    \* lists of stations a client may register
  Sent,       \* URLs a client may send in ReplaceURL
  MaxConns,   \* bound: connections ever made
  MaxURLs     \* bound: URLs of all connections

(* The ID of a connection is its position; 0 is none. *)
IDs == 1..MaxConns

(* nat: whether the URL has both NAT parameters and whether they are 0. *)
Station == [addr : Addrs, public : BOOLEAN, nat : {"missing", "unknown", "known"}]

URL == [addr : Addrs, public : BOOLEAN, nat : {"missing", "unknown", "known"},
        pid : PIDs, rvcid : {0} \cup IDs]

(* A URL as a client sends it: its own, one it was given by another player *)
(* or one it made up. Whom it names is left out, the server sets that.     *)
SentURL == [addr : Addrs, public : BOOLEAN, nat : {"missing", "unknown", "known"},
            rvcid : {0} \cup IDs]

ASSUME StationsAssumption ==
  /\ NoPID \notin PIDs
  /\ Reports \subseteq Seq(Station)
  /\ Sent \subseteq SentURL
  /\ MaxConns \in Nat /\ MaxURLs \in Nat

VARIABLES
  conns,  \* the connections ever made
  known   \* the URLs each player has been given in answers to Register

vars == <<conns, known>>

(* Who is connected from where; the StationURLs; the public URL that a     *)
(* Register has still to append, if any; the position a loop over the URLs *)
(* is at, 0 if none is under way, and what that loop replaces by what, if  *)
(* it is ReplaceURL's; whether the client has used ReplaceURL.             *)
Connection == [pid : PIDs, addr : Addrs, live : BOOLEAN, urls : Seq(URL),
               next : {<<>>} \cup {<<u>> : u \in URL}, at : Nat,
               replace : {<<>>} \cup (Addrs \X Sent), replaced : BOOLEAN]

TypeOK ==
  /\ conns \in Seq(Connection) /\ Len(conns) <= MaxConns
  /\ known \in [PIDs -> SUBSET URL]

Init == conns = <<>> /\ known = [p \in PIDs |-> {}]

Connect(p, a) ==
  /\ Len(conns) < MaxConns
  /\ conns' = Append(conns, [pid |-> p, addr |-> a, live |-> TRUE, urls |-> <<>>, next |-> <<>>,
                             at |-> 0, replace |-> <<>>, replaced |-> FALSE])
  /\ UNCHANGED known

ConnectionEnded(c) ==
  /\ conns[c].live
  /\ conns' = [conns EXCEPT ![c].live = FALSE]
  /\ UNCHANGED known

(* A request can begin. *)
Ready(c) == conns[c].live /\ conns[c].next = <<>> /\ conns[c].at = 0

-----------------------------------------------------------------------------
(* Register: the first station that is not public, or has unknown NAT      *)
(* properties, is the local one; the first public one the public one. A    *)
(* station without NAT parameters is passed over.                          *)

First(list, Test(_)) ==
  CHOOSE i \in DOMAIN list : Test(list[i]) /\ \A j \in 1..(i - 1) : ~Test(list[j])

IsLocal(s) == s.nat # "missing" /\ (~s.public \/ s.nat = "unknown")
IsPublic(s) == s.nat # "missing" /\ s.public

HasLocal(list) == \E i \in DOMAIN list : IsLocal(list[i])
HasPublic(list) == \E i \in DOMAIN list : IsPublic(list[i])

LocalStation(list) == list[First(list, IsLocal)]

(* Without a public station, the local one with the address the server     *)
(* sees is taken.                                                          *)
PublicStation_Local(c, list) ==
  IF HasPublic(list) THEN list[First(list, IsPublic)] ELSE LocalStation(list)

PublicStation(c, list) ==
  IF HasPublic(list) THEN list[First(list, IsPublic)]
  ELSE [LocalStation(list) EXCEPT !.addr = conns[c].addr, !.public = TRUE, !.nat = "unknown"]

(* A station made a URL of connection c. *)
Registered_Latest(c, s) ==
  [addr |-> s.addr, public |-> s.public, nat |-> s.nat, pid |-> conns[c].pid,
   rvcid |-> Len(conns)]

Registered(c, s) ==
  [addr |-> s.addr, public |-> s.public, nat |-> s.nat, pid |-> conns[c].pid, rvcid |-> c]

(* The number of URLs, the ones still to be appended included. *)
Total == Cardinality(UNION {{c} \X (1..(Len(conns[c].urls) + Len(conns[c].next))) :
                              c \in DOMAIN conns})

(* The two URLs are appended one after the other. *)
Register(c, list) ==
  /\ Ready(c) /\ Total + 2 <= MaxURLs
  /\ HasLocal(list)
  /\ conns' = [conns EXCEPT
       ![c].urls = Append(@, Registered(c, LocalStation(list))),
       ![c].next = <<Registered(c, PublicStation(c, list))>>]
  /\ UNCHANGED known

RegisterPublic(c) ==
  /\ conns[c].next # <<>>
  /\ conns' = [conns EXCEPT ![c].urls = @ \o conns[c].next, ![c].next = <<>>]
  /\ known' = [known EXCEPT ![conns[c].pid] = @ \cup {conns[c].next[1]}]

-----------------------------------------------------------------------------
(* ReplaceURL and ReportNATProperties go through the list URL by URL; what *)
(* others read meanwhile is partly old and partly new. A connection that   *)
(* ends does not stop the request.                                         *)

LoopEnds_AtHit(c) ==
  \/ conns[c].at = Len(conns[c].urls)
  \/ conns[c].replace # <<>> /\ conns[c].urls[conns[c].at].addr = conns[c].replace[1]

LoopEnds(c) == conns[c].at = Len(conns[c].urls)

(* The URL the loop is at becomes u. *)
Visit(c, u) ==
  /\ conns' = [conns EXCEPT
       ![c].urls[conns[c].at] = u,
       ![c].at = IF LoopEnds(c) THEN 0 ELSE @ + 1,
       ![c].replace = IF LoopEnds(c) THEN <<>> ELSE @]
  /\ UNCHANGED known

(* A URL that is put in the place of another one. Only the principal ID is *)
(* set: the connection ID is the one the client sent, whosever it is.      *)
Replaced_AsGiven(c, url) ==
  [addr |-> url.addr, public |-> url.public, nat |-> url.nat, pid |-> NoPID, rvcid |-> url.rvcid]

Replaced(c, url) ==
  [addr |-> url.addr, public |-> url.public, nat |-> url.nat, pid |-> conns[c].pid,
   rvcid |-> url.rvcid]

Hits(c, target) == {i \in DOMAIN conns[c].urls : conns[c].urls[i].addr = target}

ReplaceURL(c, target, url) ==
  /\ Ready(c) /\ Hits(c, target) # {}
  /\ conns' = [conns EXCEPT ![c].at = 1, ![c].replace = <<target, url>>, ![c].replaced = TRUE]
  /\ UNCHANGED known

ReplaceAt(c) ==
  /\ conns[c].replace # <<>>
  /\ Visit(c, IF conns[c].at \in Hits(c, conns[c].replace[1])
                THEN Replaced(c, conns[c].replace[2]) ELSE conns[c].urls[conns[c].at])

(* ReportNATProperties loops over copies of the URLs. Whether a copy       *)
(* shares its parameters with the URL it was made of is up to nex-go; the  *)
(* URLs are changed, or the request does nothing.                          *)
Reported(c, u) ==
  [u EXCEPT !.nat = IF u.public THEN @ ELSE "known", !.rvcid = c, !.pid = conns[c].pid]

ReportNATProperties(c) ==
  /\ Ready(c) /\ conns[c].urls # <<>>
  /\ conns' = [conns EXCEPT ![c].at = 1]
  /\ UNCHANGED known

ReportAt(c) ==
  /\ conns[c].at # 0 /\ conns[c].replace = <<>>
  /\ Visit(c, Reported(c, conns[c].urls[conns[c].at]))

Next ==
  \/ \E p \in PIDs, a \in Addrs : Connect(p, a)
  \/ \E c \in DOMAIN conns :
       \/ ConnectionEnded(c) \/ RegisterPublic(c)
       \/ ReportNATProperties(c) \/ ReportAt(c) \/ ReplaceAt(c)
       \/ \E list \in Reports : Register(c, list)
       \/ \E target \in Addrs, url \in Sent : ReplaceURL(c, target, url)

Spec == Init /\ [][Next]_vars

-----------------------------------------------------------------------------
(* What other players are given, and whom their probes reach. *)

FindConnectionByID(id) == {c \in DOMAIN conns : c = id /\ conns[c].live}
FindConnectionByPID(p) == {c \in DOMAIN conns : conns[c].pid = p /\ conns[c].live}

(* The lists RequestURLs may answer with: by connection, else by player. *)
RequestURLs(cid, p) ==
  {conns[c].urls : c \in IF FindConnectionByID(cid) # {} THEN FindConnectionByID(cid)
                                                         ELSE FindConnectionByPID(p)}

(* The connections that InitiateProbe is sent to for the given URLs. *)
RequestProbeInitiationExt(urls) == UNION {FindConnectionByID(u.rvcid) : u \in urls}

-----------------------------------------------------------------------------
(* Properties *)

URLsOf(c) == {conns[c].urls[i] : i \in DOMAIN conns[c].urls}

(* The URLs that Register made: those in its answers, which clients keep   *)
(* for as long as they like, and those of connections that replaced none.  *)
Genuine ==
  UNION ({known[p] : p \in PIDs} \cup {URLsOf(c) : c \in {d \in DOMAIN conns : ~conns[d].replaced}})

(* A URL that Register made never leads to another player than the one it  *)
(* names: not after its connection has ended and its player has come back, *)
(* and not after others have put copies of it among their own URLs.        *)
(* Probing it reaches that player or nobody, and asking again with its two *)
(* IDs gives URLs that name that player. So does every other list: a URL   *)
(* that a client put in by ReplaceURL names that client, although its      *)
(* connection ID, which the code leaves as it was sent, may lead anywhere. *)
URLsLeadToPlayer ==
  /\ \A u \in Genuine :
       /\ \A c \in RequestProbeInitiationExt({u}) : conns[c].pid = u.pid
       /\ \A list \in RequestURLs(u.rvcid, u.pid) : \A i \in DOMAIN list : list[i].pid = u.pid
  /\ \A c \in DOMAIN conns : \A u \in URLsOf(c) : u.pid = conns[c].pid

(* A player that has registered can be reached: one of its URLs is public, *)
(* and a probe of any of them gets to this very connection, however often  *)
(* it registers, until it replaces a URL.                                  *)
RegisteredReachable ==
  \A c \in DOMAIN conns : Ready(c) /\ conns[c].urls # <<>> /\ ~conns[c].replaced =>
    /\ \E u \in URLsOf(c) : u.public
    /\ \A u \in URLsOf(c) : RequestProbeInitiationExt({u}) = {c}

(* When ReplaceURL is done, the address it replaces is given to nobody any *)
(* more, also if the player has registered it several times and whatever   *)
(* others read while the list was half done.                               *)
ReplacedEverywhere ==
  [][\A c \in DOMAIN conns : conns[c].replace # <<>> /\ conns'[c].replace = <<>> =>
       LET target == conns[c].replace[1]  url == conns[c].replace[2] IN
       target # url.addr => \A j \in DOMAIN conns'[c].urls : conns'[c].urls[j].addr # target]_vars
=============================================================================
