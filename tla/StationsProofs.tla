--------------------------- MODULE StationsProofs ---------------------------
(***************************************************************************)
(* A station URL leads to the player it names, for any number of players,  *)
(* connections and registrations.  A URL names a player twice, by its      *)
(* principal ID and by the ID of a connection, and the two are set by      *)
(* different requests: Register sets both, ReplaceURL only the first.  The *)
(* invariant says where they agree: in the list of a connection that       *)
(* replaced nothing, in a Register that is under way, and with a client    *)
(* that was given the URL; and how far a loop over a list has come.        *)
(***************************************************************************)
EXTENDS Stations, ArraysProofs

(* The connection a URL names, if any, is one of the player it names. *)
Agrees(u) == u.rvcid # 0 => u.rvcid \in DOMAIN conns /\ conns[u.rvcid].pid = u.pid

(* The URLs of connection c, which is r, name its player; until the client *)
(* replaces a URL they also name this very connection, and so does the one *)
(* that Register has still to append.                                      *)
Names(c, r) ==
  /\ \A i \in DOMAIN r.urls : r.urls[i].pid = r.pid /\ (~r.replaced => r.urls[i].rvcid = c)
  /\ r.next # <<>> => r.next[1].pid = r.pid /\ r.next[1].rvcid = c

(* It can be reached, at the latest when its Register is done. *)
Public(r) ==
  ~r.replaced /\ (r.urls # <<>> \/ r.next # <<>>) =>
    \/ \E i \in DOMAIN r.urls : r.urls[i].public
    \/ r.next # <<>> /\ r.next[1].public

(* A loop is within the list, while no Register is under way, and has left *)
(* no URL with the address it replaces behind.                             *)
Loop(r) ==
  /\ r.at # 0 => r.next = <<>> /\ r.at <= Len(r.urls)
  /\ r.replace # <<>> =>
       /\ r.at # 0 /\ r.replaced
       /\ r.replace[1] # r.replace[2].addr =>
            \A j \in 1..(r.at - 1) : r.urls[j].addr # r.replace[1]

Good(c, r) == Names(c, r) /\ Public(r) /\ Loop(r)

KnownInv == \A p \in PIDs : \A u \in known[p] : u.pid = p /\ Agrees(u)

IInv ==
  /\ TypeOK
  /\ \A c \in DOMAIN conns : Good(c, conns[c])
  /\ KnownInv

-----------------------------------------------------------------------------
(* The station that is taken for the local one is one the client sent.     *)
LEMMA LocalStationType ==
  ASSUME NEW list \in Seq(Station), HasLocal(list)
  PROVE  LocalStation(list) \in Station
<1> DEFINE I == {i \in DOMAIN list : IsLocal(list[i])}
           Passes(i) == IsLocal(list[i]) /\ \A j \in 1..(i - 1) : ~IsLocal(list[j])
<1>1. PICK i \in I : \A j \in 1..(i - 1) : j \in DOMAIN list /\ j \notin I
  <2>1. I \in SUBSET DOMAIN list /\ I # {}
    BY DEF HasLocal
  <2> QED
    BY <2>1, FirstPosition
<1>2. i \in DOMAIN list /\ Passes(i)
  BY <1>1
<1>3. First(list, IsLocal) = CHOOSE k \in DOMAIN list : Passes(k)
  BY DEF First
<1>4. First(list, IsLocal) \in DOMAIN list
  BY <1>2, <1>3
<1> QED
  BY <1>4 DEF LocalStation

(* So is the public one, and it is public. *)
LEMMA FirstPublic ==
  ASSUME NEW list \in Seq(Station), HasPublic(list)
  PROVE  list[First(list, IsPublic)] \in Station /\ IsPublic(list[First(list, IsPublic)])
<1> DEFINE I == {i \in DOMAIN list : IsPublic(list[i])}
           Passes(i) == IsPublic(list[i]) /\ \A j \in 1..(i - 1) : ~IsPublic(list[j])
<1>1. PICK i \in I : \A j \in 1..(i - 1) : j \in DOMAIN list /\ j \notin I
  <2>1. I \in SUBSET DOMAIN list /\ I # {}
    BY DEF HasPublic
  <2> QED
    BY <2>1, FirstPosition
<1>2. i \in DOMAIN list /\ Passes(i)
  BY <1>1
<1>3. First(list, IsPublic) = CHOOSE k \in DOMAIN list : Passes(k)
  BY DEF First
<1>4. First(list, IsPublic) \in DOMAIN list /\ Passes(First(list, IsPublic))
  BY <1>2, <1>3
<1> QED
  BY <1>4

(* What a Register that is under way has still to append, and what a       *)
(* ReplaceURL replaces by what.                                            *)
Pending == {<<>>} \cup {<<u>> : u \in URL}
Exchange == {<<>>} \cup (Addrs \X Sent)

(* Register has no URL or one still to append, a loop exchanges or not. *)
LEMMA PendingType ==
  /\ <<>> \in Pending /\ \A u \in URL : <<u>> \in Pending
  /\ <<>> \in Exchange /\ \A a \in Addrs, u \in Sent : <<a, u>> \in Exchange
  BY DEF Pending, Exchange

(* The set of connections, with the sets of its fields under their names. *)
LEMMA ConnectionSet ==
  Connection = [pid : PIDs, addr : Addrs, live : BOOLEAN, urls : Seq(URL), next : Pending,
                at : Nat, replace : Exchange, replaced : BOOLEAN]
  BY DEF Connection, Pending, Exchange

(* What is known of the fields of a connection. *)
LEMMA ConnectionType ==
  ASSUME TypeOK, NEW c \in DOMAIN conns
  PROVE  /\ c \in IDs /\ conns[c] \in Connection /\ conns \in Seq(Connection)
         /\ conns[c].pid \in PIDs /\ conns[c].addr \in Addrs /\ conns[c].live \in BOOLEAN
         /\ conns[c].urls \in Seq(URL) /\ conns[c].replaced \in BOOLEAN /\ conns[c].at \in Nat
         /\ conns[c].next # <<>> => conns[c].next[1] \in URL /\ conns[c].next = <<conns[c].next[1]>>
         /\ conns[c].replace # <<>> =>
              conns[c].replace[1] \in Addrs /\ conns[c].replace[2] \in Sent
<1>1. conns[c] \in Connection /\ c \in IDs /\ conns \in Seq(Connection)
  BY StationsAssumption DEF TypeOK, IDs
<1>2. /\ conns[c].pid \in PIDs /\ conns[c].addr \in Addrs /\ conns[c].live \in BOOLEAN
      /\ conns[c].urls \in Seq(URL) /\ conns[c].replaced \in BOOLEAN /\ conns[c].at \in Nat
      /\ conns[c].next \in Pending /\ conns[c].replace \in Exchange
  BY <1>1, ConnectionSet, Zenon
<1>3. conns[c].next # <<>> => \E u \in URL : conns[c].next = <<u>>
  BY <1>2 DEF Pending
<1>4. conns[c].replace # <<>> => conns[c].replace \in Addrs \X Sent
  BY <1>2 DEF Exchange
<1> QED
  BY <1>1, <1>2, <1>3, <1>4

(* Register makes a public URL, from the client's list or from the address *)
(* the server sees.                                                        *)
LEMMA PublicStationType ==
  ASSUME TypeOK, NEW c \in DOMAIN conns, NEW list \in Seq(Station), HasLocal(list)
  PROVE  PublicStation(c, list) \in Station /\ PublicStation(c, list).public
<1>1. CASE HasPublic(list)
  BY <1>1, FirstPublic DEF PublicStation, IsPublic
<1>2. CASE ~HasPublic(list)
  <2>1. conns[c].addr \in Addrs
    BY ConnectionType
  <2>2. LocalStation(list) \in Station
    BY LocalStationType
  <2> QED
    BY <1>2, <2>1, <2>2 DEF PublicStation, Station
<1> QED
  BY <1>1, <1>2

(* A station that is registered on c becomes a URL of c. *)
LEMMA RegisteredURL ==
  ASSUME TypeOK, NEW c \in DOMAIN conns, NEW s \in Station
  PROVE  /\ Registered(c, s) \in URL
         /\ Registered(c, s).pid = conns[c].pid /\ Registered(c, s).rvcid = c
         /\ Registered(c, s).public = s.public
<1>1. conns[c].pid \in PIDs /\ c \in IDs
  BY ConnectionType
<1> QED
  BY <1>1 DEF Registered, Station, URL

-----------------------------------------------------------------------------
(* Connection c changes to r, of the same player; what clients know stays  *)
(* or grows by URLs of their own. Then only c's own part of the invariant  *)
(* has to be shown.                                                        *)
LEMMA OneConnection ==
  ASSUME IInv, NEW c \in DOMAIN conns, NEW r \in Connection,
         conns' = [conns EXCEPT ![c] = r], r.pid = conns[c].pid,
         known' \in [PIDs -> SUBSET URL],
         \A p \in PIDs : \A u \in known'[p] : u \in known[p] \/ (u.pid = p /\ Agrees(u)),
         Good(c, r)
  PROVE  IInv'
<1>1. conns \in Seq(Connection) /\ Len(conns) <= MaxConns
  BY DEF IInv, TypeOK
<1>2. /\ conns' \in Seq(Connection) /\ Len(conns') = Len(conns) /\ DOMAIN conns' = DOMAIN conns
      /\ conns'[c] = r /\ \A d \in DOMAIN conns : d # c => conns'[d] = conns[d]
  BY <1>1
<1>3. \A d \in DOMAIN conns : conns'[d].pid = conns[d].pid
  BY <1>2
<1>4. \A u : Agrees(u) => Agrees(u)'
  BY <1>2, <1>3 DEF Agrees
<1>5. \A d \in DOMAIN conns : Good(d, conns'[d])
  BY <1>2 DEF IInv
<1>6. KnownInv'
  BY <1>4 DEF IInv, KnownInv
<1>7. TypeOK'
  BY <1>1, <1>2 DEF TypeOK
<1> QED
  BY <1>2, <1>5, <1>6, <1>7 DEF IInv

(* The same where no client learns anything. *)
LEMMA OnlyConnection ==
  ASSUME IInv, NEW c \in DOMAIN conns, NEW r \in Connection,
         conns' = [conns EXCEPT ![c] = r], known' = known, r.pid = conns[c].pid, Good(c, r)
  PROVE  IInv'
<1>1. /\ known' \in [PIDs -> SUBSET URL]
      /\ \A p \in PIDs : \A u \in known'[p] : u \in known[p]
  BY DEF IInv, TypeOK
<1> QED
  BY <1>1, OneConnection

-----------------------------------------------------------------------------
(* Nobody is connected at the start. *)
LEMMA InitInv == Init => IInv
  BY StationsAssumption DEF Init, IInv, TypeOK, KnownInv

(* A new connection has no URLs, and those there are stay what they are. *)
LEMMA ConnectInv ==
  ASSUME IInv, NEW p \in PIDs, NEW a \in Addrs, Connect(p, a)
  PROVE  IInv'
<1> DEFINE r == [pid |-> p, addr |-> a, live |-> TRUE, urls |-> <<>>, next |-> <<>>,
                 at |-> 0, replace |-> <<>>, replaced |-> FALSE]
<1>1. r \in Connection
  BY ConnectionSet, PendingType
<1>2. /\ conns \in Seq(Connection) /\ conns' = Append(conns, r) /\ known' = known
      /\ Len(conns) < MaxConns /\ MaxConns \in Nat
  BY StationsAssumption DEF Connect, IInv, TypeOK
<1>3. \A c : Good(c, r)
  BY DEF Good, Names, Public, Loop
<1> HIDE DEF r
<1>4. /\ conns' \in Seq(Connection) /\ Len(conns') <= MaxConns
      /\ DOMAIN conns' = DOMAIN conns \cup {Len(conns) + 1}
      /\ DOMAIN conns \subseteq DOMAIN conns'
      /\ conns'[Len(conns) + 1] = r /\ \A c \in DOMAIN conns : conns'[c] = conns[c]
  BY <1>1, <1>2
<1>5. \A u : Agrees(u) => Agrees(u)'
  BY <1>4 DEF Agrees
<1>6. \A c \in DOMAIN conns' : Good(c, conns'[c])
  BY <1>3, <1>4 DEF IInv
<1>7. TypeOK' /\ KnownInv'
  BY <1>2, <1>4, <1>5 DEF IInv, TypeOK, KnownInv
<1> QED
  BY <1>6, <1>7 DEF IInv

(* A connection that ends keeps its URLs. *)
LEMMA ConnectionEndedInv ==
  ASSUME IInv, NEW c \in DOMAIN conns, ConnectionEnded(c)
  PROVE  IInv'
<1>1. TypeOK /\ Good(c, conns[c]) /\ conns[c] \in Connection
  BY ConnectionType DEF IInv
<1>2. PICK r : r = [conns[c] EXCEPT !.live = FALSE]
  OBVIOUS
<1>3. conns' = [conns EXCEPT ![c] = r] /\ known' = known
  BY <1>2 DEF ConnectionEnded
<1>4. /\ r \in Connection /\ r.pid = conns[c].pid /\ r.urls = conns[c].urls
      /\ r.next = conns[c].next /\ r.replaced = conns[c].replaced
      /\ r.at = conns[c].at /\ r.replace = conns[c].replace
  BY <1>1, <1>2, ConnectionSet
<1>5. Good(c, r)
  BY <1>1, <1>4 DEF Good, Names, Public, Loop
<1> QED
  BY <1>3, <1>4, <1>5, OnlyConnection

(* A sequence with one more element at its end. *)
LEMMA AppendElements ==
  ASSUME NEW S, NEW s \in Seq(S), NEW e \in S
  PROVE  /\ Append(s, e) \in Seq(S)
         /\ DOMAIN Append(s, e) = DOMAIN s \cup {Len(s) + 1} /\ Len(s) + 1 \notin DOMAIN s
         /\ Append(s, e)[Len(s) + 1] = e /\ \A i \in DOMAIN s : Append(s, e)[i] = s[i]
         /\ s # <<>> => \E i \in DOMAIN s : TRUE
  OBVIOUS

(* Register appends a URL of this connection and holds another one back. *)
LEMMA RegisterInv ==
  ASSUME IInv, NEW c \in DOMAIN conns, NEW list \in Reports, Register(c, list)
  PROVE  IInv'
<1>1. /\ TypeOK /\ Good(c, conns[c]) /\ list \in Seq(Station) /\ HasLocal(list)
      /\ conns[c] \in Connection /\ conns[c].urls \in Seq(URL) /\ conns[c].at = 0
  BY StationsAssumption, ConnectionType DEF IInv, Register, Ready
<1>2. PICK local : local = Registered(c, LocalStation(list))
  OBVIOUS
<1>3. PICK public : public = Registered(c, PublicStation(c, list))
  OBVIOUS
<1>4. /\ local \in URL /\ local.pid = conns[c].pid /\ local.rvcid = c
      /\ public \in URL /\ public.pid = conns[c].pid /\ public.rvcid = c /\ public.public
  BY <1>1, <1>2, <1>3, LocalStationType, PublicStationType, RegisteredURL
<1>5. PICK urls : urls = Append(conns[c].urls, local)
  OBVIOUS
<1>6. /\ urls \in Seq(URL) /\ DOMAIN urls = DOMAIN conns[c].urls \cup {Len(conns[c].urls) + 1}
      /\ urls[Len(conns[c].urls) + 1] = local
      /\ \A i \in DOMAIN conns[c].urls : urls[i] = conns[c].urls[i]
  BY <1>1, <1>4, <1>5, AppendElements
<1>7. PICK next \in Pending : next # <<>> /\ next[1] = public /\ next = <<public>>
  <2>1. <<public>> # <<>> /\ <<public>>[1] = public
    OBVIOUS
  <2> QED
    BY <2>1, <1>4, PendingType
<1>8. PICK r : r = [conns[c] EXCEPT !.urls = urls, !.next = next]
  OBVIOUS
<1>9. /\ r \in Connection /\ r.pid = conns[c].pid /\ r.urls = urls /\ r.next = next
      /\ r.replaced = conns[c].replaced /\ r.at = 0 /\ r.replace = conns[c].replace
  BY <1>1, <1>6, <1>7, <1>8, ConnectionSet
<1>10. conns' = [conns EXCEPT ![c] = r] /\ known' = known
  BY <1>2, <1>3, <1>5, <1>7, <1>8 DEF Register
<1>11. Names(c, r)
  BY <1>1, <1>4, <1>6, <1>7, <1>9 DEF Good, Names
<1>12. Public(r) /\ Loop(r)
  BY <1>1, <1>4, <1>7, <1>9 DEF Good, Public, Loop
<1> QED
  BY <1>9, <1>10, <1>11, <1>12, OnlyConnection DEF Good

(* The second URL is appended, and the client learns it. *)
LEMMA RegisterPublicInv ==
  ASSUME IInv, NEW c \in DOMAIN conns, RegisterPublic(c)
  PROVE  IInv'
<1>1. /\ TypeOK /\ Good(c, conns[c]) /\ conns[c] \in Connection /\ conns[c].pid \in PIDs
      /\ conns[c].urls \in Seq(URL)
      /\ conns[c].next # <<>> /\ conns[c].next[1] \in URL
      /\ conns[c].next = <<conns[c].next[1]>>
  BY ConnectionType DEF IInv, RegisterPublic
<1>2. PICK public : public = conns[c].next[1]
  OBVIOUS
<1>3. public \in URL /\ public.pid = conns[c].pid /\ public.rvcid = c
  BY <1>1, <1>2 DEF Good, Names
<1>4. PICK urls : urls = Append(conns[c].urls, public)
  OBVIOUS
<1>5. /\ urls \in Seq(URL) /\ DOMAIN urls = DOMAIN conns[c].urls \cup {Len(conns[c].urls) + 1}
      /\ urls[Len(conns[c].urls) + 1] = public
      /\ \A i \in DOMAIN conns[c].urls : urls[i] = conns[c].urls[i]
  BY <1>1, <1>3, <1>4, AppendElements
<1>6. PICK r : r = [conns[c] EXCEPT !.urls = urls, !.next = <<>>]
  OBVIOUS
<1>7. /\ r \in Connection /\ r.pid = conns[c].pid /\ r.urls = urls /\ r.next = <<>>
      /\ r.replaced = conns[c].replaced /\ r.at = conns[c].at /\ r.replace = conns[c].replace
  BY <1>1, <1>5, <1>6, PendingType, ConnectionSet
<1>8. /\ conns' = [conns EXCEPT ![c] = r]
      /\ known' = [known EXCEPT ![conns[c].pid] = @ \cup {public}]
  <2>1. ASSUME NEW s \in Seq(URL), NEW u \in URL PROVE s \o <<u>> = Append(s, u)
    OBVIOUS
  <2>2. conns[c].urls \o conns[c].next = urls
    BY <1>1, <1>2, <1>3, <1>4, <2>1
  <2>3. conns' = [conns EXCEPT ![c].urls = urls, ![c].next = <<>>]
    BY <2>2 DEF RegisterPublic
  <2> QED
    BY <1>2, <1>6, <2>3 DEF RegisterPublic
<1>9. Names(c, r)
  BY <1>1, <1>3, <1>5, <1>7 DEF Good, Names
<1>10. Public(r)
  BY <1>1, <1>2, <1>5, <1>7 DEF Good, Public
<1>11. Loop(r)
  BY <1>1, <1>7 DEF Good, Loop
<1>12. Agrees(public)
  BY <1>3 DEF Agrees
<1>13. /\ known' \in [PIDs -> SUBSET URL]
       /\ \A p \in PIDs : \A u \in known'[p] : u \in known[p] \/ (u.pid = p /\ Agrees(u))
  BY <1>1, <1>3, <1>8, <1>12 DEF TypeOK
<1> QED
  BY <1>7, <1>8, <1>9, <1>10, <1>11, <1>13, OneConnection DEF Good

-----------------------------------------------------------------------------
(* The loops. *)

(* A list with another element at one of its positions. *)
LEMMA ExceptElement ==
  ASSUME NEW S, NEW s \in Seq(S), NEW n \in DOMAIN s, NEW e \in S
  PROVE  /\ [s EXCEPT ![n] = e] \in Seq(S) /\ DOMAIN [s EXCEPT ![n] = e] = DOMAIN s
         /\ Len([s EXCEPT ![n] = e]) = Len(s) /\ s # <<>> /\ [s EXCEPT ![n] = e] # <<>>
         /\ [s EXCEPT ![n] = e][n] = e
         /\ \A i \in DOMAIN s : i # n => [s EXCEPT ![n] = e][i] = s[i]
  OBVIOUS

(* Connection c after the loop has put u where it is. *)
After(c, u) ==
  [conns[c] EXCEPT !.urls = [conns[c].urls EXCEPT ![conns[c].at] = u],
                   !.at = IF LoopEnds(c) THEN 0 ELSE conns[c].at + 1,
                   !.replace = IF LoopEnds(c) THEN <<>> ELSE conns[c].replace]

(* What one round of a loop changes. *)
LEMMA VisitEffect ==
  ASSUME TypeOK, NEW c \in DOMAIN conns, conns[c].at \in DOMAIN conns[c].urls, NEW u \in URL,
         Visit(c, u)
  PROVE  /\ conns' = [conns EXCEPT ![c] = After(c, u)] /\ known' = known
         /\ After(c, u) \in Connection
         /\ After(c, u).pid = conns[c].pid /\ After(c, u).next = conns[c].next
         /\ After(c, u).replaced = conns[c].replaced
         /\ After(c, u).urls = [conns[c].urls EXCEPT ![conns[c].at] = u]
         /\ After(c, u).at = IF LoopEnds(c) THEN 0 ELSE conns[c].at + 1
         /\ After(c, u).replace = IF LoopEnds(c) THEN <<>> ELSE conns[c].replace
<1>1. /\ conns \in Seq(Connection) /\ conns[c] \in Connection
      /\ conns[c].urls \in Seq(URL) /\ conns[c].at \in Nat
  BY ConnectionType
<1>2. PICK urls : urls = [conns[c].urls EXCEPT ![conns[c].at] = u]
  OBVIOUS
<1>3. urls \in Seq(URL)
  BY <1>1, <1>2, ExceptElement
<1>4. PICK at \in Nat : at = IF LoopEnds(c) THEN 0 ELSE conns[c].at + 1
  BY <1>1
<1>5. conns[c].replace \in Exchange
  BY <1>1, ConnectionSet, Zenon
<1>6. PICK replace \in Exchange : replace = IF LoopEnds(c) THEN <<>> ELSE conns[c].replace
  BY <1>5, PendingType
<1>7. After(c, u) = [conns[c] EXCEPT !.urls = urls, !.at = at, !.replace = replace]
  BY <1>2, <1>4, <1>6 DEF After
<1>8. /\ After(c, u) \in Connection
      /\ After(c, u).pid = conns[c].pid /\ After(c, u).next = conns[c].next
      /\ After(c, u).replaced = conns[c].replaced
      /\ After(c, u).urls = urls /\ After(c, u).at = at /\ After(c, u).replace = replace
  BY <1>1, <1>3, <1>7, ConnectionSet
<1>9. conns' = [conns EXCEPT ![c] = After(c, u)] /\ known' = known
  BY DEF Visit, After
<1> QED
  BY <1>2, <1>4, <1>6, <1>8, <1>9

(* One round keeps the invariant if the URL it puts in is one of the       *)
(* connection's player, and, as long as the client has replaced nothing,   *)
(* one of this connection and as public as the old one; and if it has not  *)
(* the address that is being replaced.                                     *)
LEMMA VisitInv ==
  ASSUME IInv, NEW c \in DOMAIN conns, conns[c].at # 0, NEW u \in URL, Visit(c, u),
         u.pid = conns[c].pid,
         ~conns[c].replaced => u.rvcid = c /\ u.public = conns[c].urls[conns[c].at].public,
         conns[c].replace # <<>> /\ conns[c].replace[1] # conns[c].replace[2].addr =>
           u.addr # conns[c].replace[1]
  PROVE  IInv'
<1>1. /\ TypeOK /\ Good(c, conns[c]) /\ conns[c].urls \in Seq(URL) /\ conns[c].at \in Nat
  BY ConnectionType DEF IInv
<1>2. conns[c].at \in DOMAIN conns[c].urls /\ conns[c].next = <<>>
  BY <1>1 DEF Good, Loop
<1>3. PICK r : r = After(c, u)
  OBVIOUS
<1>4. /\ conns' = [conns EXCEPT ![c] = r] /\ known' = known /\ r \in Connection
      /\ r.pid = conns[c].pid /\ r.next = <<>> /\ r.replaced = conns[c].replaced
      /\ r.urls = [conns[c].urls EXCEPT ![conns[c].at] = u]
      /\ r.at = IF LoopEnds(c) THEN 0 ELSE conns[c].at + 1
      /\ r.replace = IF LoopEnds(c) THEN <<>> ELSE conns[c].replace
  BY <1>1, <1>2, <1>3, VisitEffect
<1>5. /\ DOMAIN r.urls = DOMAIN conns[c].urls /\ Len(r.urls) = Len(conns[c].urls)
      /\ conns[c].urls # <<>> /\ r.urls[conns[c].at] = u
      /\ \A i \in DOMAIN conns[c].urls : i # conns[c].at => r.urls[i] = conns[c].urls[i]
  BY <1>1, <1>2, <1>4, ExceptElement
<1>6. Names(c, r)
  BY <1>1, <1>4, <1>5 DEF Good, Names
<1>7. Public(r)
  <2>1. SUFFICES ASSUME ~r.replaced PROVE \E i \in DOMAIN r.urls : r.urls[i].public
    BY DEF Public
  <2>2. PICK i \in DOMAIN conns[c].urls : conns[c].urls[i].public
    BY <1>1, <1>2, <1>4, <1>5, <2>1 DEF Good, Public
  <2>3. r.urls[i].public
    BY <1>4, <1>5, <2>1, <2>2
  <2> QED
    BY <1>5, <2>2, <2>3
<1>8. Loop(r)
  <2>1. CASE LoopEnds(c)
    BY <1>4, <2>1 DEF Loop
  <2>2. CASE ~LoopEnds(c)
    <3>1. r.at = conns[c].at + 1 /\ r.at <= Len(r.urls) /\ r.replace = conns[c].replace
      BY <1>1, <1>2, <1>4, <1>5, <2>2 DEF LoopEnds
    <3>2. ASSUME r.replace # <<>>, r.replace[1] # r.replace[2].addr, NEW j \in 1..(r.at - 1)
          PROVE  r.urls[j].addr # r.replace[1]
      <4>1. CASE j = conns[c].at
        BY <1>5, <3>1, <3>2, <4>1
      <4>2. CASE j # conns[c].at
        <5>1. j \in 1..(conns[c].at - 1) /\ j \in DOMAIN conns[c].urls
          BY <1>1, <1>2, <3>1, <4>2
        <5>2. conns[c].urls[j].addr # r.replace[1]
          BY <1>1, <3>1, <3>2, <5>1 DEF Good, Loop
        <5> QED
          BY <1>5, <4>2, <5>1, <5>2
      <4> QED
        BY <4>1, <4>2
    <3> QED
      BY <1>1, <1>4, <3>1, <3>2 DEF Good, Loop
  <2> QED
    BY <2>1, <2>2
<1> QED
  BY <1>4, <1>6, <1>7, <1>8, OnlyConnection DEF Good

(* A loop begins at the first URL. *)
LEMMA BeginInv ==
  ASSUME IInv, NEW c \in DOMAIN conns, Ready(c), conns[c].urls # <<>>,
         NEW replace \in Exchange, NEW replaced \in BOOLEAN,
         conns[c].replaced => replaced, replace # <<>> => replaced,
         conns' = [conns EXCEPT ![c] = [conns[c] EXCEPT !.at = 1, !.replace = replace,
                                                        !.replaced = replaced]],
         known' = known
  PROVE  IInv'
<1>1. /\ TypeOK /\ Good(c, conns[c]) /\ conns[c] \in Connection /\ conns[c].urls \in Seq(URL)
      /\ conns[c].next = <<>>
  BY ConnectionType DEF IInv, Ready
<1>2. PICK r : r = [conns[c] EXCEPT !.at = 1, !.replace = replace, !.replaced = replaced]
  OBVIOUS
<1>3. /\ r \in Connection /\ r.pid = conns[c].pid /\ r.urls = conns[c].urls /\ r.next = <<>>
      /\ r.at = 1 /\ r.replace = replace /\ r.replaced = replaced
  BY <1>1, <1>2, ConnectionSet
<1>4. Names(c, r) /\ Public(r)
  BY <1>1, <1>3 DEF Good, Names, Public
<1>5. Len(r.urls) >= 1
  BY <1>1, <1>3
<1>6. Loop(r)
  BY <1>3, <1>5 DEF Loop
<1> QED
  BY <1>2, <1>3, <1>4, <1>6, OnlyConnection DEF Good

(* A list in which an address is found is not empty; from the beginning    *)
(* ReplaceURL counts as having replaced.                                   *)
LEMMA ReplaceURLInv ==
  ASSUME IInv, NEW c \in DOMAIN conns, NEW target \in Addrs, NEW url \in Sent,
         ReplaceURL(c, target, url)
  PROVE  IInv'
<1>1. Ready(c) /\ conns[c].urls \in Seq(URL) /\ conns[c] \in Connection
  BY ConnectionType DEF IInv, ReplaceURL
<1>2. conns[c].urls # <<>>
  BY <1>1 DEF ReplaceURL, Hits
<1>3. PICK replace \in Exchange : replace = <<target, url>>
  BY PendingType
<1>4. /\ conns' = [conns EXCEPT ![c] = [conns[c] EXCEPT !.at = 1, !.replace = replace,
                                                        !.replaced = TRUE]]
      /\ known' = known
  BY <1>3 DEF ReplaceURL
<1> QED
  BY <1>1, <1>2, <1>4, BeginInv

(* ReplaceURL puts in URLs of this player, of whatever connection. *)
LEMMA ReplaceAtInv ==
  ASSUME IInv, NEW c \in DOMAIN conns, ReplaceAt(c)
  PROVE  IInv'
<1>1. /\ TypeOK /\ Good(c, conns[c]) /\ conns[c].urls \in Seq(URL) /\ conns[c].pid \in PIDs
      /\ conns[c].replace # <<>> /\ conns[c].at \in Nat
      /\ conns[c].replace[1] \in Addrs /\ conns[c].replace[2] \in SentURL
  BY StationsAssumption, ConnectionType DEF IInv, ReplaceAt
<1>2. conns[c].at # 0 /\ conns[c].replaced /\ conns[c].at \in DOMAIN conns[c].urls
  BY <1>1 DEF Good, Loop
<1>3. PICK new : new = Replaced(c, conns[c].replace[2])
  OBVIOUS
<1>4. new \in URL /\ new.pid = conns[c].pid /\ new.addr = conns[c].replace[2].addr
  BY <1>1, <1>3 DEF Replaced, SentURL, URL
<1>5. PICK old : old = conns[c].urls[conns[c].at]
  OBVIOUS
<1>6. old \in URL /\ old.pid = conns[c].pid
  BY <1>1, <1>2, <1>5 DEF Good, Names
<1>7. conns[c].at \in Hits(c, conns[c].replace[1]) <=> old.addr = conns[c].replace[1]
  BY <1>2, <1>5 DEF Hits
<1>8. CASE old.addr = conns[c].replace[1]
  <2>1. Visit(c, new)
    BY <1>3, <1>7, <1>8 DEF ReplaceAt
  <2> QED
    BY <1>2, <1>4, <2>1, VisitInv
<1>9. CASE old.addr # conns[c].replace[1]
  <2>1. Visit(c, old)
    BY <1>5, <1>7, <1>9 DEF ReplaceAt
  <2> QED
    BY <1>2, <1>6, <1>9, <2>1, VisitInv
<1> QED
  BY <1>8, <1>9

(* ReportNATProperties begins its loop. *)
LEMMA ReportNATPropertiesInv ==
  ASSUME IInv, NEW c \in DOMAIN conns, ReportNATProperties(c)
  PROVE  IInv'
<1>1. /\ Ready(c) /\ conns[c] \in Connection /\ Good(c, conns[c]) /\ conns[c].urls # <<>>
  BY ConnectionType DEF IInv, ReportNATProperties
<1>2. conns[c].replace \in Exchange /\ conns[c].replaced \in BOOLEAN
  BY <1>1, ConnectionSet, Zenon
<1>3. conns[c].replace = <<>>
  BY <1>1 DEF Ready, Good, Loop
<1>4. PICK r : r = [conns[c] EXCEPT !.at = 1]
  OBVIOUS
<1>5. r = [conns[c] EXCEPT !.at = 1, !.replace = conns[c].replace, !.replaced = conns[c].replaced]
  BY <1>1, <1>4, ConnectionSet
<1>6. conns' = [conns EXCEPT ![c] = r] /\ known' = known
  BY <1>4 DEF ReportNATProperties
<1> QED
  BY <1>1, <1>2, <1>3, <1>5, <1>6, BeginInv

(* It makes every URL one of this very connection, and leaves the public   *)
(* ones public.                                                            *)
LEMMA ReportAtInv ==
  ASSUME IInv, NEW c \in DOMAIN conns, ReportAt(c)
  PROVE  IInv'
<1>1. /\ TypeOK /\ Good(c, conns[c]) /\ conns[c].urls \in Seq(URL) /\ conns[c].pid \in PIDs
      /\ conns[c].at # 0 /\ conns[c].at \in Nat /\ c \in IDs /\ conns[c].replace = <<>>
  BY ConnectionType DEF IInv, ReportAt
<1>2. conns[c].at \in DOMAIN conns[c].urls
  BY <1>1 DEF Good, Loop
<1>3. PICK old \in URL : old = conns[c].urls[conns[c].at]
  BY <1>1, <1>2
<1>4. PICK new : new = Reported(c, old)
  OBVIOUS
<1>5. new \in URL /\ new.pid = conns[c].pid /\ new.rvcid = c /\ new.public = old.public
  BY <1>1, <1>4 DEF Reported, URL
<1>6. Visit(c, new)
  BY <1>3, <1>4 DEF ReportAt
<1> QED
  BY <1>1, <1>3, <1>5, <1>6, VisitInv

-----------------------------------------------------------------------------
(* Every step keeps the invariant. *)
LEMMA NextInv ==
  ASSUME IInv, [Next]_vars
  PROVE  IInv'
<1>1. CASE UNCHANGED vars
  BY <1>1 DEF vars, IInv, TypeOK, KnownInv, Agrees
<1>2. ASSUME NEW p \in PIDs, NEW a \in Addrs, Connect(p, a) PROVE IInv'
  BY <1>2, ConnectInv
<1>3. ASSUME NEW c \in DOMAIN conns, ConnectionEnded(c) PROVE IInv'
  BY <1>3, ConnectionEndedInv
<1>4. ASSUME NEW c \in DOMAIN conns, NEW list \in Reports, Register(c, list) PROVE IInv'
  BY <1>4, RegisterInv
<1>5. ASSUME NEW c \in DOMAIN conns, RegisterPublic(c) PROVE IInv'
  BY <1>5, RegisterPublicInv
<1>6. ASSUME NEW c \in DOMAIN conns, NEW target \in Addrs, NEW url \in Sent,
             ReplaceURL(c, target, url)
      PROVE IInv'
  BY <1>6, ReplaceURLInv
<1>7. ASSUME NEW c \in DOMAIN conns, ReplaceAt(c) PROVE IInv'
  BY <1>7, ReplaceAtInv
<1>8. ASSUME NEW c \in DOMAIN conns, ReportNATProperties(c) PROVE IInv'
  BY <1>8, ReportNATPropertiesInv
<1>9. ASSUME NEW c \in DOMAIN conns, ReportAt(c) PROVE IInv'
  BY <1>9, ReportAtInv
<1> QED
  BY <1>1, <1>2, <1>3, <1>4, <1>5, <1>6, <1>7, <1>8, <1>9 DEF Next

(* In every state the two ways a URL names a player agree, where Register  *)
(* made it, and loops have done what they passed.                          *)
THEOREM Invariance == Spec => []IInv
<1>1. Init => IInv
  BY InitInv
<1>2. IInv /\ [Next]_vars => IInv'
  BY NextInv
<1> QED
  BY <1>1, <1>2, PTL DEF Spec

(* Every connection and every URL has the fields the code gives it. *)
THEOREM TypeCorrect == Spec => []TypeOK
<1>1. IInv => TypeOK
  BY DEF IInv
<1> QED
  BY <1>1, Invariance, PTL

(* A probe of a URL that Register made reaches the player that the URL     *)
(* names or nobody, and RequestURLs with its two IDs answers with URLs     *)
(* that name that player, whatever URLs clients send in ReplaceURL.        *)
THEOREM LeadsToPlayer == Spec => []URLsLeadToPlayer
<1>1. IInv => URLsLeadToPlayer
  <2> SUFFICES ASSUME IInv PROVE URLsLeadToPlayer
    OBVIOUS
  <2>1. conns \in Seq(Connection) /\ DOMAIN conns = 1..Len(conns) /\ Len(conns) \in Nat
    BY DEF IInv, TypeOK
  <2>2. \A c \in DOMAIN conns : \A i \in DOMAIN conns[c].urls :
          conns[c].urls[i].pid = conns[c].pid
    BY DEF IInv, Good, Names
  <2>3. ASSUME NEW u \in Genuine
        PROVE  /\ \A c \in RequestProbeInitiationExt({u}) : conns[c].pid = u.pid
               /\ \A list \in RequestURLs(u.rvcid, u.pid) :
                    \A i \in DOMAIN list : list[i].pid = u.pid
    <3>1. Agrees(u)
      <4>1. CASE \E c \in DOMAIN conns : ~conns[c].replaced /\ u \in URLsOf(c)
        BY <4>1 DEF IInv, Good, Names, URLsOf, Agrees
      <4>2. CASE \E p \in PIDs : u \in known[p]
        BY <4>2 DEF IInv, KnownInv
      <4> QED
        BY <2>3, <4>1, <4>2 DEF Genuine
    <3>2. \A c \in FindConnectionByID(u.rvcid) : c \in DOMAIN conns /\ conns[c].pid = u.pid
      BY <2>1, <3>1 DEF FindConnectionByID, Agrees
    <3>3. \A c \in FindConnectionByPID(u.pid) : c \in DOMAIN conns /\ conns[c].pid = u.pid
      BY DEF FindConnectionByPID
    <3>4. \A c \in RequestProbeInitiationExt({u}) : conns[c].pid = u.pid
      BY <3>2 DEF RequestProbeInitiationExt
    <3>5. ASSUME NEW list \in RequestURLs(u.rvcid, u.pid), NEW i \in DOMAIN list
          PROVE  list[i].pid = u.pid
      <4>1. PICK c : /\ c \in FindConnectionByID(u.rvcid) \/ c \in FindConnectionByPID(u.pid)
                     /\ list = conns[c].urls
        BY <3>5 DEF RequestURLs
      <4> QED
        BY <4>1, <2>2, <3>2, <3>3, <3>5
    <3> QED
      BY <3>4, <3>5
  <2> QED
    BY <2>2, <2>3 DEF URLsLeadToPlayer, URLsOf
<1> QED
  BY <1>1, Invariance, PTL

(* A live connection with no request under way that has URLs and has       *)
(* replaced none has a public one, and a probe of any of them gets to it.  *)
THEOREM Reachable == Spec => []RegisteredReachable
<1>1. IInv => RegisteredReachable
  <2> SUFFICES ASSUME IInv, NEW c \in DOMAIN conns,
                      Ready(c), conns[c].urls # <<>>, ~conns[c].replaced
               PROVE  /\ \E u \in URLsOf(c) : u.public
                      /\ \A u \in URLsOf(c) : RequestProbeInitiationExt({u}) = {c}
    BY DEF RegisteredReachable
  <2>1. Good(c, conns[c]) /\ conns[c].live /\ conns[c].next = <<>>
    BY DEF IInv, Ready
  <2>2. \E u \in URLsOf(c) : u.public
    BY <2>1 DEF Good, Public, URLsOf
  <2>3. FindConnectionByID(c) = {c}
    BY <2>1 DEF FindConnectionByID
  <2>4. \A u \in URLsOf(c) : u.rvcid = c
    BY <2>1 DEF Good, Names, URLsOf
  <2>5. \A u \in URLsOf(c) : RequestProbeInitiationExt({u}) = {c}
    BY <2>3, <2>4 DEF RequestProbeInitiationExt
  <2> QED
    BY <2>2, <2>5
<1> QED
  BY <1>1, Invariance, PTL

-----------------------------------------------------------------------------
(* Only the end of its loop ends a ReplaceURL. *)
LEMMA ExchangeKept ==
  ASSUME IInv, [Next]_vars, NEW c \in DOMAIN conns, conns[c].replace # <<>>,
         conns'[c].replace = <<>>
  PROVE  ReplaceAt(c) /\ LoopEnds(c)
<1> DEFINE Preserved == conns'[c].replace = conns[c].replace
<1>1. /\ TypeOK /\ conns \in Seq(Connection) /\ Good(c, conns[c]) /\ conns[c].at # 0
      /\ conns[c] \in Connection
  BY ConnectionType DEF IInv, Good, Loop
<1>2. ~Ready(c)
  BY <1>1 DEF Ready
<1>3. ASSUME NEW d \in DOMAIN conns, NEW r, conns' = [conns EXCEPT ![d] = r],
             d # c \/ r.replace = conns[c].replace
      PROVE  Preserved
  BY <1>1, <1>3
<1>4. ASSUME NEW d \in DOMAIN conns, conns[d].at # 0, NEW u, Visit(d, u),
             d # c \/ ~LoopEnds(c)
      PROVE  Preserved
  <2>1. CASE d # c
    BY <1>1, <1>4, <2>1 DEF Visit
  <2>2. CASE d = c
    <3>1. PICK urls : urls = [conns[c].urls EXCEPT ![conns[c].at] = u]
      OBVIOUS
    <3>2. PICK at : at = IF LoopEnds(c) THEN 0 ELSE conns[c].at + 1
      OBVIOUS
    <3>3. PICK r : r = [conns[c] EXCEPT !.urls = urls, !.at = at, !.replace = conns[c].replace]
      OBVIOUS
    <3>4. r.replace = conns[c].replace
      BY <1>1, <3>3, ConnectionSet
    <3>5. conns' = [conns EXCEPT ![c] = r]
      BY <1>4, <2>2, <3>1, <3>2, <3>3 DEF Visit
    <3> QED
      BY <1>3, <3>4, <3>5
  <2> QED
    BY <2>1, <2>2
<1>5. CASE UNCHANGED vars
  BY <1>5 DEF vars
<1>6. ASSUME NEW p \in PIDs, NEW a \in Addrs, Connect(p, a) PROVE Preserved
  BY <1>1, <1>6 DEF Connect
<1>7. ASSUME NEW d \in DOMAIN conns, ConnectionEnded(d) PROVE Preserved
  <2>1. PICK r : r = [conns[d] EXCEPT !.live = FALSE]
    OBVIOUS
  <2>2. conns' = [conns EXCEPT ![d] = r]
    BY <1>7, <2>1 DEF ConnectionEnded
  <2>3. d = c => r.replace = conns[c].replace
    BY <1>1, <2>1, ConnectionSet
  <2> QED
    BY <1>3, <2>2, <2>3
<1>8. ASSUME NEW d \in DOMAIN conns, NEW list \in Reports, Register(d, list) PROVE Preserved
  <2>1. d # c
    BY <1>2, <1>8 DEF Register
  <2> QED
    BY <1>1, <1>8, <2>1 DEF Register
<1>9. ASSUME NEW d \in DOMAIN conns, RegisterPublic(d) PROVE Preserved
  <2>1. d # c
    BY <1>1, <1>9 DEF RegisterPublic, Good, Loop
  <2> QED
    BY <1>1, <1>9, <2>1 DEF RegisterPublic
<1>10. ASSUME NEW d \in DOMAIN conns, NEW target \in Addrs, NEW url \in Sent,
              ReplaceURL(d, target, url)
       PROVE Preserved
  <2>1. d # c
    BY <1>2, <1>10 DEF ReplaceURL
  <2> QED
    BY <1>1, <1>10, <2>1 DEF ReplaceURL
<1>11. ASSUME NEW d \in DOMAIN conns, ReportNATProperties(d) PROVE Preserved
  <2>1. d # c
    BY <1>2, <1>11 DEF ReportNATProperties
  <2> QED
    BY <1>1, <1>11, <2>1 DEF ReportNATProperties
<1>12. ASSUME NEW d \in DOMAIN conns, ReportAt(d) PROVE Preserved
  <2>1. d # c /\ conns[d].at # 0
    BY <1>12 DEF ReportAt
  <2> QED
    BY <1>4, <1>12, <2>1 DEF ReportAt
<1>13. ASSUME NEW d \in DOMAIN conns, ReplaceAt(d), d # c \/ ~LoopEnds(c) PROVE Preserved
  <2>1. conns[d].at # 0
    BY <1>13 DEF IInv, Good, Loop, ReplaceAt
  <2> QED
    BY <1>4, <1>13, <2>1 DEF ReplaceAt
<1>14. ~Preserved
  OBVIOUS
<1> HIDE DEF Preserved
<1> QED
  BY <1>5, <1>6, <1>7, <1>8, <1>9, <1>10, <1>11, <1>12, <1>13, <1>14 DEF Next

(* When the loop ends, the URL it was at has been looked at too. *)
LEMMA LastRound ==
  ASSUME IInv, NEW c \in DOMAIN conns, ReplaceAt(c), LoopEnds(c),
         conns[c].replace[1] # conns[c].replace[2].addr, NEW j \in DOMAIN conns'[c].urls
  PROVE  conns'[c].urls[j].addr # conns[c].replace[1]
<1>1. /\ TypeOK /\ Good(c, conns[c]) /\ conns[c].urls \in Seq(URL) /\ conns[c].pid \in PIDs
      /\ conns[c].replace # <<>> /\ conns[c].at \in Nat /\ conns \in Seq(Connection)
      /\ conns[c].replace[1] \in Addrs /\ conns[c].replace[2] \in SentURL
  BY StationsAssumption, ConnectionType DEF IInv, ReplaceAt
<1>2. conns[c].at # 0 /\ conns[c].at \in DOMAIN conns[c].urls
  BY <1>1 DEF Good, Loop
<1>3. PICK u : u = IF conns[c].at \in Hits(c, conns[c].replace[1])
                     THEN Replaced(c, conns[c].replace[2]) ELSE conns[c].urls[conns[c].at]
  OBVIOUS
<1>4. u \in URL /\ u.addr # conns[c].replace[1]
  <2>1. CASE conns[c].at \in Hits(c, conns[c].replace[1])
    BY <1>1, <1>3, <2>1 DEF Replaced, SentURL, URL
  <2>2. CASE conns[c].at \notin Hits(c, conns[c].replace[1])
    BY <1>1, <1>2, <1>3, <2>2 DEF Hits
  <2> QED
    BY <2>1, <2>2
<1>5. Visit(c, u)
  BY <1>3 DEF ReplaceAt
<1>6. conns' = [conns EXCEPT ![c] = After(c, u)]
      /\ After(c, u).urls = [conns[c].urls EXCEPT ![conns[c].at] = u]
  BY <1>1, <1>2, <1>4, <1>5, VisitEffect
<1>7. conns'[c].urls = [conns[c].urls EXCEPT ![conns[c].at] = u]
  BY <1>1, <1>6
<1>8. CASE j = conns[c].at
  BY <1>1, <1>2, <1>4, <1>7, <1>8
<1>9. CASE j # conns[c].at
  <2>1. j \in DOMAIN conns[c].urls /\ conns'[c].urls[j] = conns[c].urls[j]
    BY <1>1, <1>2, <1>7, <1>9
  <2>2. j \in 1..(conns[c].at - 1)
    BY <1>1, <1>9, <2>1 DEF LoopEnds
  <2> QED
    BY <1>1, <2>1, <2>2 DEF Good, Loop
<1> QED
  BY <1>8, <1>9

(* A ReplaceURL that ends leaves no URL with the address it replaced,      *)
(* however many the connection had and whatever happened during its loop.  *)
THEOREM Replacement == Spec => ReplacedEverywhere
<1> DEFINE Everywhere ==
      \A c \in DOMAIN conns : conns[c].replace # <<>> /\ conns'[c].replace = <<>> =>
        LET target == conns[c].replace[1]  url == conns[c].replace[2] IN
        target # url.addr => \A j \in DOMAIN conns'[c].urls : conns'[c].urls[j].addr # target
<1>1. IInv /\ [Next]_vars => [Everywhere]_vars
  <2> SUFFICES ASSUME IInv, [Next]_vars, NEW c \in DOMAIN conns, conns[c].replace # <<>>,
                      conns'[c].replace = <<>>, conns[c].replace[1] # conns[c].replace[2].addr,
                      NEW j \in DOMAIN conns'[c].urls
               PROVE  conns'[c].urls[j].addr # conns[c].replace[1]
    OBVIOUS
  <2>1. ReplaceAt(c) /\ LoopEnds(c)
    BY ExchangeKept
  <2> QED
    BY <2>1, LastRound
<1> QED
  BY <1>1, Invariance, PTL DEF Spec, ReplacedEverywhere
=============================================================================
