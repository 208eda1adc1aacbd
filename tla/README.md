# A verification model of the Hyrule Warriors NEX server

This directory models the server of this repository in TLA+: the matchmaking stack, the
DataStore and Ranking protocols and the station URLs of the secure connection, as they are
implemented in `src/internal/nex-protocols-common-go-patch` (called `P` below) and
`src/database`.
TLC checks small instances, TLAPS proves some of the properties for every value of the
constants. `PROJECT.json` maps every definition to the lines it models and lists runs,
mutants, findings, hazards and theorems.

## 1. Inventory

The program is two PRUDP servers in one process (`main.go`): an authentication server
(ticket granting) and a secure server (`nex/secure.go`), which registers the protocols
below on one endpoint. A request runs in a goroutine of its own; so does every
`OnConnectionEnded` callback. Durable state is in PostgreSQL; uploads go to an S3 bucket.

| Part | State | Operations | Synchronisation |
|---|---|---|---|
| Gatherings: `P/match-making`, `P/match-making-ext`, `P/matchmake-extension` | `matchmaking.gatherings` (owner, host, flags, participants array, registered), `matchmake_sessions`, `persistent_gatherings`, `community_participations` | create, search, join, invite, leave, unregister, change host or owner, open/close, change attributes, create community, cleanup when a connection ends, unregister sessions at start | `MatchmakingManager.Mutex` held by every handler; no SQL transactions |
| Notification events: `SendNotificationEvent` | none: sent to the connection found for a PID | who is told of a join, a departure, a new owner or host, an unregistration | sent while the mutex is held |
| DataStore: `P/datastore`, `src/database` | `datastore.objects`, S3 bucket, presigned URLs | prepare a post, post metadata, complete one or several posts, change metadata, search, read | none: single SQL statements and S3 calls |
| Ranking: `P/ranking`, `src/database/hyrulewarriors_*` | scores, category orders, common data | upload a score, read rankings in five modes, common data | one SQL transaction per upload |
| Friend notification data: `P/matchmake-extension/update_notification_data.go` ... | `matchmaking.notifications` with an active flag | set, read, inactivate when a connection ends and at start | the same mutex |
| Secure connection, NAT traversal | station URLs of each connection, in memory | register, replace URL, report NAT properties, relay probes | none |
| Ticket granting, accounts | none per request (two built-in accounts) | login, request ticket | - |
| Start | - | connect to the database, create tables, register protocols | before any request |

What is hard in it, and where properties are worth their run (the full list is under
`hazards`):

* the cleanup of a connection is asynchronous and knows only a PID: it interleaves with
  requests of other players, with a new connection of the same player, and with requests
  of the old connection that still waited for the mutex;
* leaving a gathering is up to seven SQL statements without a transaction, each of which
  may fail; owner and host are handed on in separate statements;
* the participants array carries the order of the players' slots and repeats a PID for
  each slot;
* capacity is checked in two functions by different formulas; whether a gathering is
  registered is checked by the callers, not by the UPDATE;
* a completed upload is checked by several calls while the client can still upload;
* a restart finds the sessions of connections that no longer exist;
* room in a session is counted in SQL by a search and in Go by a join;
* a score upload decides by the order in the row it may overwrite, and two uploads race for
  the order of a new category;
* station URLs are written without a lock while other players read them, and outlive the
  connection they name.

## 2. Modules

`Arrays` - the operations on the participants array: `array_remove`, the candidate for the
ownership, repeated PIDs. They are written without recursion so that they can be proved
about.

`GatheringRows` (extends `Arrays`) - what the functions of `P/match-making/database` do to
one row: `Registered`, `JoinGathering`, `JoinGatheringWithParticipants`, `Leave`
(the part `EndGatheringParticipation` and `DisconnectParticipant` share),
`MigrateGatheringOwnership`, `UnregisterRow`. Each takes the statement `f` that fails
("none" if all succeed) and yields the row as the statements before it left it.

`GatheringEvents` (extends `GatheringRows`) - the notification events of the same functions:
who is sent what.

`Gatherings` (extends `GatheringEvents`) - the state machine. `gatherings` is the table (the
ID of a row is its position: `bigserial`), `participations` the keys of
`community_participations`. `live[p]` and `ending[p]` count the connections of a player and
those whose callback has not run, `late[p]` says that a request of an ended connection
still waits, `sent` is what the last step delivered. One action is one handler, callback or
restart: they hold the mutex from the first read to the last write. The first half of the
handlers that create or search is `EndMatchmakeSessions`, the second `JoinStep` or
`JoinWithStep` on the table the first half left; requests that are refused half way
(`RefusedAfterEnd`, `CreateFails`) are disjuncts of the same action. Requests that are
refused before they change anything are not actions.

`GatheringReads` (extends `Gatherings`) - what the reads answer, as operators on the state: they
hold the read lock, so each sees one state. `FoundCanBeEntered` puts the counting of the
searches beside that of the joins.

`DataStore` (extends `Arrays`) - no lock is held, so the requests that take several calls are
run by workers with a program counter, one action per SQL statement or S3 call; uploads and
the expiry of presigned URLs are actions of the environment. `matched` is a history
variable; `recent` is the order of the rows by `update_date`. A statement that sets the date
(`Touch`) may put its row at any place of that order: the date is a clock value that Go reads
before the statement runs, `time.Now()` in the INSERT and `time.Now().UTC()` in the UPDATEs, in a
column without a time zone. Rows with the same date are taken to keep one order. A row with
recipients of either permission cannot be read (`Scannable`): `parseObjectList` scans them into
`[]uint64`, for which lib/pq has no conversion. Single reads of it fail, a slot whose latest
row it is shows nothing, and it empties every page of a search it is on; the statements that
do not read the whole row (owner, size, the UPDATEs) work on it.

`Publication` - the abstract specification of an object's life, as a client sees it: posted,
uploaded, published, withdrawn, one atomic step each and none taken back. `DataStore!Objects`
is `Publication` with the life read off the row and the bucket (`Life`), and
`ImplementsPublication` says that `DataStore` implements it.

`DataStoreReads` (extends `DataStore`) - reads by data ID and by persistence slot, download URLs
and searches, as operators on the state: each is one SELECT per object.

`Scores` - the upsert of a score and when it replaces the old one. `Leaderboard` (extends
`Scores`) - the abstract specification of uploading: one atomic step per upload. `Ranking`
(extends `Scores`) - the same as transactions of two statements under READ COMMITTED: workers
interleave between the statements, wait for the category row another open transaction has
inserted and for the score row it has locked, fail, are rolled back by the deferred
`Rollback` or cut off by a restart. `Ranking!Atomic` is `Leaderboard` with the committed
tables as its variables, and `ImplementsLeaderboard` says that `Ranking` implements it. `best`
and `uniform` are history variables. `RankingQueries` (extends `Ranking`) - the query of
`GetRankings`: rank and row number of each row, the ranking modes, OFFSET and LIMIT.

`Stations` - the connections, their `StationURLs`, and the URLs each client was given. No lock
guards them and readers come in at any time, so `Register`, which appends two URLs, takes two
steps, and `ReplaceURL` and `ReportNATProperties` go through the list one URL a step
(`ReplaceAt`, `ReportAt`, with the position in `at`). `ReplaceURL` takes any URL the client sends
(`Sent`), whomever it belongs to, and corrects only the PID. `RequestURLs` and
`RequestProbeInitiationExt` are operators: whom a URL leads to. In `Gatherings` the answer of
`GetSessionURLs` is the player whose URLs are given; what those are is the matter of this
module.

`MCGatherings`, `MCDataStore`, `MCRanking`, `MCStations` - values of the constants.
`ArraysProofs`, `GatheringsProofs`, `SessionsProofs`, `SlotsProofs`, `RankingProofs`,
`QueriesProofs`, `DataStoreProofs`, `StationsProofs` - theorems (section 4).

Abstraction of data: description, session key, application buffer, progress score and dates
of a gathering are left out. Game mode, attributes 1..5, minimum, code word and referred
gathering are one value, `kind`; attribute 0 is `community`. The selection methods of a
search only order its results, so a search may yield any match; a criterion is the ranges it
asks for, after parsing. A list has at most two criteria. The client of this title is older
than NEX 4.0, so criteria carry no result range of their own. In `DataStore`, names, tags and
extra data are left out, and the passwords, which are always 0, with them. In `Ranking`, the
columns `param` and `update_mode`, which are written and never read, are left out; groups are kept, a ranking filters by
them. In `Stations`, address and port are one value, and a URL is the record of what the code
reads and sets (address, the public flag, whether both NAT parameters are there and zero, PID
and connection ID); the text form and the other parameters are left out.

## 3. Runs

Named bounds: `MaxGatherings` rows ever registered, `MaxSlots` slots of a gathering without a
maximum, `MaxConns` connections (of a player in `Gatherings`, ended ones whose callback is due
included; ever made in `Stations`), `MaxObjects` objects ever posted, `MaxTime` ticks of the
clock, `MaxRows` rows of a table a ranking is asked of, `MaxURLs` station URLs. Deadlock is
checked in all runs but `stations`, where every connection may have ended.

| Run | Instance | Shows |
|---|---|---|
| `rooms` | 3 players, 1 session of ten flavours (flags, maximum 0, password, attached, invalid), invitations, two-step searches | `OwnerAndHostPresent`, `OwnerAtHead`, `SlotOrderKept`, `RemainingInformed`, `FoundCanBeEntered` |
| `moving` | 2 players, 2 gatherings among communities and attached sessions, which change hands, are too small for the two slots asked for, or may stay empty; no criteria | `NoGhostSlots`, `CommunitiesBounded`, `CreatorLeftOthers`, `URLsLeadToHost`, `CountedSessionsPlayed` |
| `failures` | 2 players, 2 sessions with every migration flag, one failing statement per handler | `TypeOK`, `CapacityRespected`, `EmptySessionStaysEmpty` |
| `reconnect` | 2 players with 2 overlapping connections each, late requests, fairness | `UnregisteredFrozen`, `CallbackFrees`, `SlotsFreed` |
| `publishing` | 1 player, 2 workers, 2 objects of size 1, uploads of 2 sizes, failing calls | `TypeOK`, `PublishedHadItsSize`, `SuccessMeansAll`, `SearchedCanBeFetched`, `ImplementsPublication` |
| `access` | 2 players, 2 workers, 1 object that is open, for its owner only or has recipients, failing calls | `WithdrawnByOwner`, `ChangedByPermitted`, `SearchedCanBeFetched` |
| `slots` | 2 players, 1 worker, 2 objects in one slot, open to change, not, or with recipients, failing calls | `SlotMovedByPermitted` |
| `ranking` | 2 players, 2 unique IDs, 1 category, 2 workers, uploads in both orders and modes, failing statements, restarts, fairness | `TypeOK`, `BestScoreKept`, `CategoriesComplete`, `OrderNeverChanges`, `WaitsForFurther`, `UploadsEnd`, `ImplementsLeaderboard`; on every committed table `BestUploadLeads`, `NearShowsCaller`, `RanksAgree` |
| `stations` | 2 players, 2 connections, 2 addresses, 4 URLs, three kinds of station lists, replacements with the connection ID 0, the client's own or another player's | `TypeOK`, `URLsLeadToPlayer`, `RegisteredReachable`, `ReplacedEverywhere` |
| `departure`, `participation_counts`, `complete_post` | minimal | each violates what a comment of the code says (section 5) |

Why the bounds are enough: three players are the least with a leaver, a new owner and one
that remains; three slots let one player hold two; two gatherings let a player be in one and
enter the other; two connections let a callback meet the player's next connection; two
workers and two sizes let a second upload or completion fall between any two calls of the
first; `slots` has one worker, between whose check and write come posts and restarts, and
leaves the interleavings of several to `access` and to the theorem `SlotMoves`; two transactions on one category let every statement of the one meet every statement
of the other; two connections, of one player or of two, let a URL outlive its connection, and
four URLs let a client register twice. Player permutations are a symmetry of `rooms`,
`moving`, `failures` and `stations`, worker permutations of `publishing` and
`access`; `reconnect` and `ranking` check liveness and use none.

`failures` leaves out the failure of four statements that leave the table as the success does
and only cut off what follows (`LogJoin`, `LogUnregister`, `LogChangeHost`) or as another
failure does (`InsertSession` as `LogRegister`). The proofs cover them.

Fairness (`FairSpec`): weak fairness of each player's `DisconnectParticipant`. The callback is
a goroutine that only waits for `Mutex.Lock()`, and Go's `sync.RWMutex` does not starve a
waiting writer; every handler gives the mutex back. Nothing is assumed of the players:
connecting, requests and restarts may stop or go on for ever. In `Ranking`, strong fairness of
each worker's statements: PostgreSQL executes a statement that does not wait and grants a
lock to its waiters in turn, so a statement that can go on again and again goes on. Nothing is
assumed of uploads, failures and restarts.

`NoGhostSlots` holds where requests do not outlive connections and nobody is invited: with
late requests or with `AdditionalParticipants` the code does leave slots to players that are
not connected, until they return. `URLsLeadToHost` holds under the same two conditions. `SlotsFreed` holds with
late requests.

## 4. Proofs

`GatheringsProofs` proves, for any set of players, any constants that satisfy the named
assumptions, and any statement failing:

* `TypeCorrect`: `Spec => []TypeOK`. The point is that no row gets the owner 0, which
  `MigrateGatheringOwnership` returns when it fails and its callers use as the owner;
* `CapacityNeverExceeded`: `Spec => []CapacityRespected`;
* `UnregisteredNeverChanges`: `Spec => UnregisteredFrozen`, an action property. It needs that
  each search finds registered rows only (`FoundRows`) and that each handler given an ID
  looks at the column.

All three rest on `Invariance`, `Spec => []IInv`. `IInv` says of the table that it is a
sequence of rows each of which is well formed and within its maximum (`GoodRow`), of the
events that they are typed, and of the connections that `live[p] + ending[p] <= MaxConns`.
Neither `TypeOK` nor `CapacityRespected` is inductive alone: whether a join respects the
maximum depends on the maximum being a number, leaving preserves it only because
`array_remove` does not lengthen the array, and `ending` stays below `MaxConns` only
because the sum does. The proof goes row by row: one lemma for each function of
`GatheringRows`, then one for the table (`TableExcept`, `TableMap`), then one for each group
of actions.

`ArraysProofs` proves what `array_remove` returns (`ArrayRemoveElement`,
`ArrayRemoveType`, `ArrayRemoveMembers`, `ArrayRemoveFirst`) from the rank of the kept
positions, and that the candidate for the ownership is the first member other than the owner.

The assumptions are `NoPIDAssumption` (0 is not a player), `GatheringsAssumption` and
`CriteriaAssumption` (types of the parameters); TLC evaluates them in every run.

`SessionsProofs` (extends `GatheringReads` and `GatheringsProofs`) proves what players rely on.
Where a theorem needs statements to succeed, it says which, as a hypothesis on `Failures`; each
hypothesis is met by the run that checks the property, and all others may fail:

| Theorem | States | Needs |
|---|---|---|
| `OwnerAndHostStay` | `[]OwnerAndHostPresent` | the statements of a hand-over (`Handover`: LogLeave, Unregister, MigrateOwner, LogChangeOwner, UpdateHost) |
| `OwnerStaysAtHead` | `[]OwnerAtHead` | the same |
| `EmptyForever` | `EmptySessionStaysEmpty` | nothing |
| `CommunitiesStayBounded` | `[]CommunitiesBounded` | nothing |
| `CreatorLeaves` | `CreatorLeftOthers` | RemoveParticipant |
| `NoGhosts` | `[]NoGhostSlots` | RemoveParticipant; no invitations, no late requests |
| `FoundIsEntered` | `[]FoundCanBeEntered` | nothing |
| `URLsOfHost` | `[]URLsLeadToHost` | what `NoGhosts` and `OwnerAndHostStay` need |
| `StayingAreTold` | `RemainingInformed` | the tracking INSERTs between the change and the event (`Silencing`: LogUnregister, LogChangeOwner, LogChangeHost) |

The hypotheses are real: a handler that stops at one of the `Handover` statements has removed
the owner and not yet named another, `EndMatchmakeSessionsParticipation` only logs a failed
removal, and a failed tracking INSERT returns before the notification is sent.

The argument is the same for all of them. `RowChange(r, s, p)` lists what a request or callback of
the player `p` can make of one row (left, joined, left and joined again, taken over,
unregistered, closed, changed in its attributes), `RowCreated` what a new row looks like, and the lemma `Steps` shows once, action
by action, that every step changes every row in one of these ways on behalf of one player. Each
invariant is then a property of one row, and its proof goes through the forms of `RowChange`
and not again through the actions. The inductive invariants are `PresentInv` (owner, host and
head of every ordinary row), `CommunityInv` (the bound, and that nobody but its creator is in a
community: without that a hand-over could give a player a community too many) and `GhostInv`
(a player in a row is connected or ending, and no request is late). `StayingAreTold` follows the
events of each handler beside its rows (`Tells`).

`SlotsProofs` (extends `SessionsProofs`) proves what becomes of the slots themselves:

| Theorem | States | Needs |
|---|---|---|
| `SlotOrder` | `SlotOrderKept` | nothing |
| `CallbackFreesSlots` | `CallbackFrees` | RemoveParticipant |
| `CountedArePlayed` | `CountedSessionsPlayed` | what ends a session (`Closing`: UpdateParticipants, LogLeave, Unregister) |

`SlotOrder` takes no induction over the array: an element that stays is found at the rank of its
position among the positions that are kept (`PlaceIsRank`), and a rank grows with the position.
`CallbackFreesSlots` is the step behind `SlotsFreed`: when the callback has run, the player holds
no slot of an ordinary session, whatever it joined since the connection ended. `CountedArePlayed`
is about steps: a session may be empty and counted after a step only if its flags allow it
(PersistentGathering, AllowZeroUsers), if it was empty before, or if the step created it for
a player that asked for more slots than it has (`DeadSessions`); the lemma `Emptied` shows, form by
form of `RowChange` and `RowCreated`, that every other step that takes the last player out
unregisters the session. The number shown is then the number of sessions played and dead,
which share no row. The hypothesis is needed: a session stays registered and empty if its creator
is not written to it or one of the statements fails between the removal of the last player and
the end of the session.

`RankingProofs` proves, for any players, categories, uploads and workers:

* `TypeCorrect`: `Spec => []TypeOK`;
* `BestScoreIsKept`: `Spec => []BestScoreKept`;
* `EveryScoreHasOrder`: `Spec => []CategoriesComplete`;
* `OrderFixed`: `Spec => OrderNeverChanges`, an action property;
* `WaitsGoForward`: `Spec => []WaitsForFurther`: a transaction waits only for one that is further
  on, so no cycle of waits, and no deadlock between uploads, can arise;
* `SomeUploadGoesOn`: of the uploads that are open, one is not blocked, for any set of
  workers;
* `UploadsAreAtomic`: `Spec => ImplementsLeaderboard`: `Init` maps to `Leaderboard!Init`, a
  commit to the atomic upload and every other step to a stutter.

Their inductive invariant adds to `TypeOK` what a transaction knows while it is open
(`TxCurrent`: a row it has locked still is what its upsert was computed from, a category it
has inserted is still not there for others, and one it found there stays), that the locks
exclude each other (`Exclusive`), and that the row of a key in `uniform` is there, with the order
of its category (`UniformRow`). Without the first two the commit could be computed from a row
that has changed since; without the last the WHERE clause could compare by the wrong order.
The assumptions are those of `Scores` and `Ranking` on the types of their parameters.

`QueriesProofs` proves of every table that those transactions can leave, of any size:

* `BestLeads`: `Spec => []BestUploadLeads`;
* `CallerIsShown`: `Spec => []NearShowsCaller`;
* `SameRankEverywhere`: `Spec => []RanksAgree`, for at most `MaxRows` keys: of a larger table the
  whole list shows the first `MaxRows` rows only (`maxRankingRows`, 1000 in the code, is the
  parameter `MaxRows`; `QueryAssumption` says that it is not 0).

A rank is the number of rows ahead, so these are counting arguments: `AheadOrders` (the ORDER BY
is a strict weak order, and a total one for ordinal ranks), `RanksOrder` (the rows ahead are those
of a smaller rank), `OrdinalRanks` (ordinal ranks differ), `SomeoneLeads` (some row is first),
`FirstOfRank` (in the list the first row of a rank comes right after those of smaller ranks) and
`FewInWindow` (at most `h` rows have one of the `h` ranks before that of a row). That the
table is finite is an invariant of its own (`StoredFinite`): a step adds one key.

`DataStoreProofs` (extends `DataStoreReads`) proves, for any players, objects, sizes, slots and
concurrent requests, with any call failing:

* `TypeCorrect`: `Spec => []TypeOK`;
* `PublishedSize`: `Spec => []PublishedHadItsSize`; `SuccessOfAll`: `Spec => []SuccessMeansAll`;
* `Fetched`: `Spec => []SearchedCanBeFetched`;
* the action properties `Withdrawal` (`WithdrawnByOwner`), `Change` (`ChangedByPermitted`) and
  `SlotMoves` (`SlotMovedByPermitted`);
* `ObjectsLive`: `Spec => ImplementsPublication`. A post maps to `Publication!Post`, an upload of
  the size of the row to `Upload`, the UPDATE of a completion to `Publish`, that of a failed one
  to `Withdraw`, and every other call to a stutter. A publication that comes after a
  withdrawal marks the object and does not bring it back.

The invariant has three parts: `RowsInv` (types, and a published object is `matched`),
`BucketInv` (content belongs to a row and is in `matched` if it has the row's size; what is
`matched` has content) and `WorkersInv`, what a worker has established at each program counter:
past the ownership check its caller owns the object, with the size of the row in hand the object
is `matched`, past the permission check the change is allowed, and the objects of a batch before
the current one are published.
The properties are about writes whose checks lie several calls back; `WorkersInv` says that
nothing another worker does in between undoes them. `SlotMoves` follows the first row of a slot in
the order by `update_date`: a row of another slot that is put in at any place leaves it first
(`AnswerKept`, from where the elements of the list are then, `PlacedElements`), so only a step on
a row of the slot itself changes what it shows. `DataStoreAssumption` asks for one player
and one value at least.

`StationsProofs` proves, for any players, addresses, station lists and number of connections:
`TypeCorrect` (`TypeOK`), `LeadsToPlayer` (`URLsLeadToPlayer`), `Reachable`
(`RegisteredReachable`) and the action property `Replacement` (`ReplacedEverywhere`). A URL names
a player twice, by PID and by connection ID; `Register` sets both, `ReplaceURL` only the PID. The
invariant says where they agree: every URL of a connection names its player, and this very
connection until the client replaces a URL, as does the one still to be appended (`Names`); so
does every URL a client was given (`KnownInv`). A connection with URLs has a public one, at
the latest when its `Register` is done (`Public`), and a loop over the list has left no URL
behind with the address it replaces (`Loop`). A URL put in by `ReplaceURL` carries whatever
connection ID the client sent, and nothing is claimed about whom that leads to.

Only model-checked are `SlotsFreed` and `UploadsEnd`: liveness under fairness is outside the
prover. The steps they rest on are proved: `CallbackFreesSlots` (a callback that runs frees the
slots) and `SomeUploadGoesOn` (some open upload can always go on).

## 5. Findings

* `departure`: for a gathering that is not verbose, `DisconnectParticipant` sends the
  Disconnected event to the owner it read before migrating the ownership. If the owner
  disconnects, that is the player that has gone; the new owner is told that the ownership
  changed, not that a player left.
* `participation_counts`: `GetPersistentGatheringByID` returns no error for a missing
  community, so participations are counted for any ID a client puts into attribute 0.
* `complete_post`: `GetObjectInfoByDataID` does not filter on `upload_completed`, so
  `completePostObject` refuses every object it can read, and goes on only when the read fails.
  Batches (`completePostObjects`) are not affected.

Seen while translating, visible in a single statement and therefore without a run:

* either of the flags PersistentGathering and AllowZeroUsers keeps an empty gathering
  registered (`disconnect_participant.go:70`), where the comment above says "and";
* the total count of a search is the number of rows of the page
  (`get_object_infos_by_data_store_search_param.go:77`);
* the query of `GetPersistentGatheringByGathering` uses the alias `g`, which its FROM clause does
  not have, so `FindBySingleID` fails for every community
  (`get_persistent_gathering_by_gathering.go:33`);
* `PrepareGetObject` answers with the data ID of the request, 0 where a slot was asked for;
* an object with recipients of either permission is given to nobody, where
  `VerifyObjectPermission` means to "Allow only users whose PIDs are defined in
  permission.RecipientIDs" (`P/datastore/protocol.go:95`): `parse_object_list.go:85,87` scans the
  arrays with `pq.Array(&[]uint64)`, and lib/pq v1.10.9 (`go.mod:11`) fails on one that is not
  empty;
* `update_date` is local time when a row is inserted
  (`initialize_object_by_prepare_post_param.go:15`) and UTC when it is changed
  (`datastore_updates.go:14`), so on a host that does not run in UTC the order by that date is not
  the order of the writes, and a change may bring another object of the slot forward;
* `ReplaceURL` keeps the connection ID of the URL it is sent (`replace_url.go:30-34`): a client that
  sends another player's URL has probes of its own go to that player. The comment at line 28
  calls the code "obviously incorrect".

## 6. Not modelled

`updateProgressScore` and `updateApplicationBuffer` (an opaque column of the owner's session);
the contents of the tracking tables; the common data of the rankings (one upsert and one read
of a blob); friend notification data, which this server writes and never shows, because its
`GetUserFriendPIDs` knows no friends; `FindOfficialCommunity`, which finds nothing; `RegisterEx`
and the DataStore operations whose callback this title does not set (they answer
NotImplemented); `SendReport`, which writes a file; the relay key and the result reports of NAT
traversal, which keep no state; the wire formats; cryptography of the tickets. The level-1
(friends) permission of DataStore calls a callback that is not set and ends the goroutine; the
model lets nobody pass. A failing read at the start of a handler changes nothing and is not an
action. Notification events are taken to arrive: they are sent on a reliable stream.

`ReportNATProperties` changes copies of the URLs of a connection; whether a copy shares its
parameters with the original is up to the version of nex-go. The model lets it change the
URLs, one by one, or not be called, which is the same as leaving them. Writers of one list do
not interleave in the model, because a client has one request of a connection under way at a
time; readers do, between any two elements. A read of half an element (a data race on the
words of a slice or map) is not modelled.

## 7. Plan

1. Done: `Arrays`, `GatheringRows`, `GatheringEvents`, `Gatherings`, `GatheringReads`, `DataStore`,
   `DataStoreReads`, the ranking with its abstract specification and refinement, `Stations`;
   proofs about each of them (section 4).
2. Done: every safety invariant and action property that a passing run checks is stated by a
   theorem, and both refinements (`Leaderboard`, `Publication`) are proved.
3. Left: the parts of section 6. Of these, friend notification data would become worth a module
   once the server knows friends, and the DataStore operations without a callback once a
   callback is set.
