# Verification of the login, game entry, gateway, chat room, siege and billing code

This directory holds TLA+ models of the servers in `src/`, the TLC runs that
check them on small instances, and proofs checked by TLAPS.  Line numbers below
refer to the files in `src/` at this commit; the C++ files are in code page 949.

## 1. The system

A player's client talks to three programs of this repository:

    client -- distribute server (login) ---- agent server ---- map servers (not in the repository)
                     |                           |
                     +------ account database ---+
    client -- gateway (Go, a TCP proxy) -- agent server

| Component | State it keeps | Operations | Talks to |
|---|---|---|---|
| **Distribute server, login** (`DistributeServer/DistributeNetworkMsgParser`, `DistributeDBMsgParser`, `UserTable`, `ServerSystem`) | `g_pUserTable`: a `USERINFO` per connection index (key `dwUniqueConnectIdx`, account, state of the last login, delete option, `bRecvDistOut`); `g_LoginUser`: accounts with a forced disconnect on record; the static key counter of `MakeAuthKey` | accept, login, forced disconnect of an overlapping login, leave with a ticket, disconnect; results of the login and the IP query; answers of the agents | database (asynchronous queries, `ProcessingDBMessage`), agents (messages) |
| **Agent server, sessions** (`Agent/UserTable`, `AgentNetworkMsgParser`, `ServerSystem`) | `g_UserInfoPool`; `g_pUserTable` (by connection), `g_pUserTableForUserID`, `g_pUserTableForObjectID`; the static key counter | accept, disconnect, reserve a session for an announced login, give it up, bind it to a connection, choose a character, return to the choice, time out | distribute servers, map servers, database |
| **Agent server, game entry** (`AgentNetworkMsgParser`, `AgentDBMsgParser`) | per session the list of characters, the chosen one and the map it is on | list, make, name and delete characters, choose one, channels, game-in, change of map in five ways, back to the choice, leave; results of the character queries; a map server connects, crashes | map servers, database, clients |
| **Agent server, relays** (the same files) | next to nothing | chat, party, guild, friend, item and operator messages are passed on | map servers, other agents, database |
| **Server tables** (`ServerTable` of both) | servers that are up, players per agent | add, remove, find, least loaded agent | `ServerSystem` |
| **Chat rooms** (`DistributeServer/ChatRoomMgr`) | registered players, rooms with their guests, two search indexes | create, join, leave, kick, change owner and options, search | agents |
| **Chat rooms at the agents** (`Agent/ChatRoomMgr`) | none of their own: the table of players | register and delete players, pass requests on, deliver answers, deliver notices and pass them to the other agents | clients, distribute server, other agents |
| **Siege recall** (`Agent/SiegeRecallMgr`) | the tree of themes, maps, steps, objects, terms and commands | read the script, execute and end a step, load a map server, follow the death of an object, count, remove, orders of masters | map servers, other agents, database |
| **Billing** (`DistributeServer/BillConnector`, `Agent/ServerSystem`) | a socket, a queue of packets, the packets of players, searches for players | connect and reconnect, report logins and logouts, answer the billing server's questions by asking all agents | billing server, agents |
| **NPC recall** (`Agent/NpcRecallMgr`) | recall points | choose a point at random | map servers |
| **Smaller managers** (`PlustimeMgr`, `PunishManager`, `GiftManager`, `GiftEvent`, `TrafficLog`, `MsgTable`, `GMPowerList`, `NProtectManager`, `HackShieldManager`, `Crypt`, `MHTimeManager`) | timed lists and counters | | sessions |
| **Gateway** (`gateway/`) | black and white lists (persistent), rate records, health of the backends with protocol counters, connection statistics | accept and check a connection, choose a backend, copy and sniff both ways, probe backends, learn bans, administrative calls, clean-up timers | clients, agent servers, administrators |

What makes the behaviour hard:

- **asynchronous results**: the database answers after the client may have left
  and its connection index may belong to somebody else; only the key tells;
- **two servers hold one login**: the distribute server and the agent both log an
  account out when they think it has left, and messages between them cross;
- **one block in three tables**: an agent frees a block in six handlers and
  unlinks it table by table;
- **no restart of the row**: a login row that nobody removes shuts its account
  out, a row removed too early lets a second session in;
- **three parties to a player in the game**: client, agent and map server each
  notice in their own time that the others have gone, and a character must be in
  one place and its row removed once;
- **notices that are relayed**: what the distribute server tells one agent reaches
  the others later than what it tells them itself;
- **questions to everybody**: the billing server asks about a player, all agents
  are asked, and the last denial counts, if nobody went down in between;
- in the gateway, **goroutines** share backend health and lists, some of it
  without the lock of the entry, and timers decide on data that another
  goroutine has changed.

Per component, what makes it correct: a distribute server serves one login at a
time per client and never applies a result or an answer to the wrong one; the
agent's tables and pool agree; a row exists as long as, and only while, somebody
answers for it; an announced login is answered; reservations end.  In the chat
rooms players, rooms and indexes agree, a room has an owner in it, and clients end
up with the server's picture of it.  A character is in the game at one map server,
the one its session names, and nobody waits for an answer for ever.  The siege tree
is the script, and map servers hear of things in an order they can follow.  A
player is charged while it is in the game and has what it is charged for.  For the
gateway: a banned source does not pass, a limit limits, a backend that is down
gets no new connection and comes back, and counters count what happened.
`PROJECT.json` lists the hazards line by line with the properties that watch them.

## 2. Plan

1. (done) `LoginWires`, `DistributeLogin`, `AgentLogin`, composed by
   `LoginHandoff`; runs for races, pools, several agents, lossy clients, liveness;
   proofs of types and of the order of logins.
2. (done) Gateway: `RateLimiter` and `Blacklist`, each alone and composed by
   `ConnectionFilter`; `ForwardConnection`; `BackendHealth`; proofs that bans
   stand, are on file and are not slipped past.
3. (done) `LoginService`, what a client sees of the login servers, implemented by
   `LoginHandoff`; checked and proved.
4. (done) `GameEntry`: characters, game-in, change of map, crashes of map servers.
5. (done) `ChatRooms`, the distribute server's rooms, and over it `ChatRelay`, the
   view the clients have of them through the agents.
6. (done) `SiegeScript` and `SiegeRecall`; `Billing`.
7. (done) Proofs for `ForwardConnection`, `BackendHealth`, `GameEntry`, the limiter,
   the chat rooms and their relay, the billing and siege recall: every safety property
   their runs check.
8. Left: restarts of an agent with `UP_AGENT_DOWN`, the checksum check of
   `ConnectionCheck`, `PunishManager`, `PlustimeMgr`, `MsgTable`, `NpcRecallMgr`.
9. (done) Proofs that no login row is orphaned and that the tables of the agents
   agree, for clients that are not lossy and one distribute server.
10. Proofs left: liveness, which stays with TLC (section 10).

## 3. Login modules

`LoginWires` holds what the servers share: the FIFO links between distribute
servers and agents, the login row of every account, queries and results.  The
stored procedures are external: `UP_GAMELOGINADULT_FREE` inserts the row when it
admits (result 1), answers "overlap" only if the row exists, and may turn any
login down; `UP_GAMELOGOUT` removes the row whoever inserted it.  All queries use
`eQueryType_FreeQuery`, so they execute in any order.

`DistributeLogin` is one distribute server or several.  `duser` is
`g_pUserTable`, `dnet` the network layer (`DisconnectUser` leads to the callback
later), `nextKey` the static of `MakeAuthKey`, `waitDel` is `g_LoginUser`.  One
action per handler: `DAccept`, `LoginSyn`, `ForceOverlap`, `DistOut`, `DConnLost`,
`DDisconnected`, `RLoginCheckQuery` (stale, wrong checksum, admitted, turned
down), `RIpCheckQuery`, `AckTooLate`/`AckDelivered`, `NackDelivered`.

`AgentLogin` models blocks of the pool as pointers, so a dangling entry and the
reuse of its block are states of the model.  `slots`, `free`, `connTab`,
`userTab`, `charTab` are the pool and the tables, `anet` the network layer,
`mapOut` the departures a map server still has to report.  Actions: `AAccept`,
`ADisconnected`, `ADrop`, `AConnLost`, `ReapUnconnected`, `NotifyUserLoginSyn`,
`NotifyAlreadyOut`, `DisconnectedDuringLogin`, `ForceDisconnectOverlapLogin`,
`CharacterlistSyn`, `CharacterSelect`, `BackToCharSel`, `LoginCheckDeleteFromMap`.

`LoginHandoff` composes them with the client, which is external and behaves: one
login at a time (`Idle`), each ticket taken to the agent it names and shown once
per connection, `MP_USERCONN_REQUEST_DISTOUT` on the connection it leaves.  With
`LossyHandoff` the distribute connection may break at any time; without it, a
client that has shown its ticket leaves by `DistOut`.

Abstractions: each server is a single event loop, so a handler is one step.  An
account plays one character (the table by character is indexed by account).  The
times of `ConnectionCheck` and of the ten seconds of `AddWaitForLoginCheckDelete`
are nondeterministic choices.  Agents are known to every distribute server.  A
connection is accepted by an agent only while a block is free (the code
dereferences NULL otherwise).  An empty pool answers an announcement with
`AGENTDISABLE`, which no handler of the distribute server reads: no answer.
Messages that only tell a client or a map server something are left out.

### Runs

| Run | Shows | Instance |
|---|---|---|
| `handoff_race` | `TablesAgree`, `NoOrphanRow` while two clients race for one account and the pool runs dry | 1 distribute server with 2 connection indexes, 1 agent with 2, 2 blocks, 2 keys, 1 account |
| `handoff_agents` | `TablesAndRows` (both of them) with two agents that the database may choose between | 1 account, 2 agents, 1 connection index |
| `handoff_lossy` | `LoginInOrder`, `AnswersFit`, `TicketKeepsRow` with lossy clients and differing checksums, `ImplementsService`, and `AnnouncedIsAnswered` under `FairSpec` | 1 distribute server and 1 agent with one connection index each, so every client reuses the last one's; 2 blocks, 2 keys |

Bounds.  `MaxKey` bounds the clients a distribute server ever accepts: two let a
result, an answer or a notice meet the next client of the same index.
`MaxPending` bounds unread broadcasts and queued deletes before a client asks for
another forced disconnect; other handlers are not bounded.  In `handoff_race` two
connections and a reservation want three blocks and there are two, so the pool
runs dry; in `handoff_lossy` it does not.  That matters: an announcement that
meets an empty pool is answered with `AGENTDISABLE`, which nobody reads, and
`AnnouncedIsAnswered` would fail; it is stated for an agent with a free block.
Runs use symmetry in blocks, connection indexes and accounts where the cfg binds
none of them to a server; those with liveness use none.  `CHECK_DEADLOCK FALSE`:
with all keys handed out and every client gone the system has nothing left to do.

Fairness.  `FairSpec` assumes weak fairness of what the servers do without being
asked again: results and messages that arrived are handled, the callback of a
closing connection comes, queries execute, `ConnectionCheck` is called.  Each is a
loop of `Process()` or of the network or database layer.  Clients have none.

### Findings

The code disagrees with its own comments in some places.  These are kept here and
are not run every time.  To reproduce one, let the named cfg check the property
alone, with the change of its constants that is given; a property with primes or
temporal operators goes under `PROPERTY`, without `SYMMETRY`:

| Property | Instance | Why it fails |
|---|---|---|
| `NoOrphanRow` | `Handoff_race` with `CrcMayFail = TRUE`, `AConns = {c1}` | a client whose script checksum differs is turned away after the database has inserted its row, and nothing removes it (`DistributeDBMsgParser.cpp:297`; line 345 says that from now on it is removed when the connection breaks) |
| `ReservationEnds` | `Handoff_lossy` with `MaxKey = 1`, `CrcMayFail = FALSE`, `LossyHandoff = FALSE` | `ConnectionCheck` walks the table by connection, and a session that waits for its client is only in the one by account (`Agent/ServerSystem.cpp:445`, whose comment at 450 means exactly these) |
| `TablesAgree` | `Handoff_race` with `LossyHandoff = TRUE` | the line breaks after the client has shown its ticket, and `AgentNetworkMsgParser.cpp:784` frees the session by account, leaving the freed block in `g_pUserTable` |
| `TablesAgree` | `Handoff_race` with `Dists = {d1, d2}`, `DistOf <- TwoDists` | `MakeAuthKey` counts from 1 in each distribute server, and `AgentNetworkMsgParser.cpp:779` compares the keys alone |
| `RowCoversSession` | `Handoff_race` | a login given up is logged out by both servers, and the second logout removes the row of the next login (`AgentNetworkMsgParser.cpp:576` wants the row kept exact) |

### Proofs

`LoginHandoff_proofs` has the type lemmas, the invariant, the refinement, and two
more invariants for the rows and the tables.
`TypeOK` is not inductive: `RIpCheckQuery` announces the account it finds in the
`USERINFO`, which is an account only because an IP check follows an admitted login.
The inductive invariant is `Inv == TypeOK /\ LoginInOrder`.  `LoginInOrder` says per
connection index: whatever is under way about an earlier client has an older key
(`KeysOlder`); of login query or result, IP query or result, announcement or answer
about the current client at most one is under way (`OneLogin`, `OneIpCheck`,
`OneAnnouncement`, `CheckedFirst`); and each agrees with the `USERINFO`
(`StateAgrees`).  A frame lemma covers steps that are not about a client; phase
lemmas (login, check, announcement, ticket) cover those that are; one lemma per
action puts them together.

`LoginService` is the abstract login: a client with a key of its own asks for one
account, is refused or granted, and gets at most one ticket, which is its own.
`LoginHandoff` maps its state to it: `KeysSeen`, `AskedSeen`, `LoginsSeen` and
`AccountsSeen` read a `USERINFO` and what is under way about it, `TicketsSeen` the
tickets on their way and in the clients' hands.  A part of its own shows the
step simulation from `SInv == Inv /\ NetAgrees`: most steps are stutters (one frame
lemma), results and answers are `Refuse`, `Grant` and `GiveTicket`, and that they
happen once, to the client they are about, is `LoginInOrder`.

| Theorem | Statement | Assumes |
|---|---|---|
| `TypeCorrect` | `Spec => []TypeOK` | the named assumptions on the constants |
| `LoginsInOrder` | `Spec => []LoginInOrder` | the same |
| `AnswersAlwaysFit` | `Spec => []AnswersFit` | the same |
| `TicketsKeepTheRow` | `Spec => []TicketKeepsRow` | the same |
| `LoginsAreServed` | `Spec => ImplementsService` | the same |
| `RowsAreNeverOrphaned` | `Spec => []NoOrphanRow` | and `~CrcMayFail` |
| `TablesAlwaysAgree` | `Spec => []TablesAgree` | and `~LossyHandoff`, `OneServer`: every connection index is of the same distribute server |
| `TablesAndRowsAgree` | `Spec => []TablesAndRows` | and all three |

The first five hold for any number of servers, accounts, connections and blocks,
any `MaxKey` and `MaxPending`, and both values of `LossyHandoff` and `CrcMayFail`.
What the last three assume on top is what the findings above break: without it
they are false.

`RowsAreNeverOrphaned` needs more than `NoOrphanRow`.  A row is accounted for in
`NoOrphanRow` by a client with the delete option, but that client loses the option
when the agent's answer arrives; and an announcement under way accounts for it,
but an agent answers it and need not reserve.  So the invariant `RowsHeld` counts
neither an announcement nor a client whose acknowledgement is under way
(`HeldBy`): the agent that sent it has the session, and hands the row on to a queued
delete or a map server when it ends it.

`TablesAlwaysAgree` is about two handlers of the agent that free a session by
account without a look at its connection (`NotifyAlreadyOut`,
`DisconnectedDuringLogin`), and about `CharacterlistSyn`, which connects a session
without asking whether it is connected already.  Each compares a key alone, so the
invariant `KInv` is about keys.  `TablesInv` adds to the tables what a handler that
does not look takes for granted.  `KeysFit`: a key is borne by one client
(`OneBearer`), is worth one ticket (`OneTicket`), an announcement or an
acknowledgement has none yet (`Unticketed`), a client that leaves unannounced has
none (`LeavingForgets`), and a notice that a client left means that its key is of no
use (`LeftForGood`).  `SessionsFit`: a connected session has used its key up
(`Settled`), and a session an `alreadyout` is on its way for is not connected.  The
steps that hand a key out, take, show or give up a ticket, reserve, or send an
answer back have a lemma each; the others are `QuietKeys`.  `LossyHandoff` breaks
`LeavingForgets`, a second server with its own `MakeAuthKey` breaks `OneBearer`.

Only model-checked: liveness, which is out of the prover's reach.

## 4. Gateway modules

A connection passes three stages, one module each: it is checked
(`ConnectionFilter`, over `RateLimiter` and `Blacklist`), a backend is chosen
(`BackendHealth`), and its bytes are copied (`ForwardConnection`).

`GatewayClock` has the keys everything is looked up under and the clock.
`RateLimiter` is `limiter.go`: `records` are the three maps in one, `Pass` and
`Limit` are `CheckAll`, `ResetLimit` the resets, `CleanLimits` the clean-up.
`Blacklist` is `blacklist.go`: `bans`, `white`, `learn` are its maps, `file` what
is on disk; a method is an action, except that a write of the file is two,
`TruncateFile` and `Save`, with the lock held (`writing`).  `BlacklistFile` runs
it alone.  `ConnectionFilter` is `handleConnection` up to the choice of a backend,
with one step per lock taken: `Sniff`, `AskWhitelist`, `LookUp` (three times),
`CheckAll`, `Learn`; `Others` are the administrator and the timers.

`ForwardConnection` is one connection from the sniffing read to the return of the
handler: `Sniff`, `TurnAway`, `Dial`, `WriteFirst`, then two goroutines with
`CopyRead`, `CopyWrite` and their failures, and `Finish`.  TCP is external: bounded
buffers, EOF after a close, and a reset in answer to a write after it.

`BackendHealth` is what the connections of one rule record about the backends
(`alive`, `protoStats`, `conns`), how `selectBackend` uses it, and `checkBackends`, one
step per branch with the probe and the write after it apart.  The checker does not
take `RouteEntry.mu`; `Raced` lets an increment that was under way be stored over
what the checker wrote.

History variables: `passed` (admissions), `rejects` (calls of `RecordReject`),
`stood` and `seen` (keys of a connection banned all the time, or at some time,
since it was sniffed), `trouble` (backends that were ever down).  No step depends
on them, except that `MaxRejects` bounds `rejects`.

Abstractions: clock readings are whole ticks; `AutoLearn` is enabled; the clean-up
comes at any time; the log an administrator uploads is abstracted to the users
found at the threshold in it; addresses are already cleaned of their port; a
packet is a number and whether it is a refusal; only the idle rounds and not the
seconds since a counter was touched are kept.

### Runs

| Run | Shows | Instance |
|---|---|---|
| `blacklist_bans` | `BansOnFile`, `BanStands`, `AutoBansAreEarned` | 1 address, 1 user, 3 ticks, threshold 2 |
| `filter_checks` | `AdmittedWasAllowed`, `RefusedWasBanned`, `LimitedWasFull` with the administrator, clean-up, torn files and restarts between any two locks | 1 address, 1 user, one connection after the other, 2 ticks, threshold 2 |
| `forward_lossless` | `Lossless`, `OnlyPrefixes`, `NoLeak`, `HandlerEnds`, `AllArrives` of a connection; `WindowsHold` of the limiter (`LimiterTypeOK`, `CountsAdmissions`, and `AtMostTwice`: with fixed windows a key passes at most twice its limit in the time of a window) | 3 packets each way, buffers of 2; 1 address, 2 users, 5 ticks, limits 2, 2, 1 |
| `health_recovers` | `DeadWasDown`, `Recovers` | 2 backends, 2 connections, 5 units of traffic, 1 outage, thresholds 1 and 2 |

`MCForwardConnection` runs the limiter and a connection in one run: they share no
state, so `moving` chooses in the beginning which of them moves.

Bounds.  `MaxNow` must exceed a window, a ban and the clean-up's horizon, so that
things end and begin again; 2 ticks for durations of 1 do.  `MaxRejects` is the
threshold.  Three packets and buffers of two let a write block with part of a read
handed on and more behind it.  `MaxTraffic` pays for two connections that are
opened and three events on them, which reaches every risk level under the small
thresholds.  `CHECK_DEADLOCK FALSE`: the clock stops at its bound, a connection
ends, traffic is used up.

Fairness.  `ForwardConnection`: the handler and each goroutine go on when they
can, and an end that is connected reads what it is sent (`BackendReads = FALSE`
drops this for the backend).  `BackendHealth`: the ticker's routine and a
connection's own steps go on; clients, backends and outages have no fairness.
The others state safety only.

### Findings

Here the code disagrees with `README.md` of the repository, or with its own
comments.  As above, these are not run every time: TLC finds each property
violated when the named cfg checks it alone, with the change that is given.

| Property | Instance | What the code does | What is said of it |
|---|---|---|---|
| `BanHitsOffenders` | `Filter_checks` with `Uids = {x1, x2}`, `AdminKeys = {}` | an automatic ban hits the whole address, and with it users never refused before | `README.md:475` |
| `LimitPerWindow` | `Forward_lossless` with `Window = 2` | the limit can be used up twice within one second at the border of two windows (`limiter.go:176`) | `config.go:27`: a maximum per second |
| `LoginsLimited` | `Forward_lossless` with `MaxConn <- LooseLimits` | `CheckAll` is never called with `isLogin`, so the login limits are never applied (`proxy.go:226`) | `config.go:35` |
| `ThresholdBans` | `Blacklist_bans` | an expired entry that still lies in the list keeps the threshold from banning (`blacklist.go:335`) | `README.md:40` |
| `BansSurviveRestart` | `Blacklist_bans` with `StopsMidWrite = TRUE` | a write of the file cut short loses every ban (`blacklist.go:452`) | `README.md:43` |
| `WhiteSurvivesRestart` | `Blacklist_bans` | a white address is not saved (`blacklist.go:268`) | `README.md:43` |
| `LogBansBite` | `Blacklist_bans` | bans from log analysis go to a list where nobody looks for them (`blacklist.go:604`) | `README.md:267` |
| `LastWords` | `Forward_lossless` | the backend's last bytes are lost when the client writes after its close (`proxy.go:287`) | `README.md:20`: transparent |
| `HalfCloseServed` | `Forward_lossless` | a client that has finished sending gets no answer (`proxy.go:287`) | `README.md:20` |
| `TimeoutMeansTrouble` | `Forward_lossless` | an ordinary end is counted as a timeout of the backend (`proxy.go:358`) | `proxy.go:352`: only real timeouts |
| `NacksCounted` | `Forward_lossless` | a refusal that is not first in its read is not counted (`proxy.go:381`) | `README.md:395` |
| `HungBackendLetsGo` | `Forward_lossless` with `BackendReads = FALSE` | writes have no deadline: a backend that stops reading keeps the handler for ever (`proxy.go:318`) | `config.go:19` |
| `DownMeansTrouble` | `Health_recovers` | more than ten ordinary ends of connections make a backend "down" that answers everything (`proxy.go:358`) | `README.md:406` |
| `CriticalExcluded` | `Health_recovers` | a critical backend is still chosen (`proxy.go:529`) | `proxy.go:528` |
| `LeastConnections` | `Health_recovers` with `Strategy = "least_conn"` | connections are counted and never uncounted (`proxy.go:612`) | `README.md:21` |
| `TakesTurns` | `Health_recovers` | `round_robin` always takes the first usable backend (`proxy.go:549`) | `README.md:21` |
| `UnreachableTakenOut` | `Health_recovers` | a backend in rotation is never probed (`proxy.go:641`) | `README.md:55-56` |
| `DegradedMeansFailures` | `Health_recovers` | heartbeats alone make a backend "degraded" (`protocol.go:346`) | `protocol.go:344` |

`DownMeansTrouble`, `CriticalExcluded` and `TakesTurns` say together that a busy and healthy
backend oscillates between "down" and usable; `health_recovers` says that it does come back.

### Proofs

`ConnectionFilter_proofs`, first for the bans alone: the inductive invariant is
`IInv == ListsTypeOK /\ EndsBounded /\ BansOnFile`.  `EndsBounded` says that no end
lies further ahead than `BanTicks`; without it banning a key again could bring its
end forward.  A restart takes the bans from the file, so `BanStands` needs
`BansOnFile` too.  Then for the filter: for
`AdmittedWasAllowed` the invariant says per stage of a connection which of its keys
cannot have been banned all the time: those already looked up.  It
also says that one refused as banned has had a key banned since it was sniffed.

What is counted over time has an invariant that ties the counter to the history.
For the limiter (`LimiterInv`) the record of a key holds the number of admissions
since its window began, and an admission of the window before is older than that;
a stretch of one window meets at most two of the code's windows, so it holds at
most twice the limit.  The cardinality lemmas split the admissions of a stretch at
the beginning of a window.  For the bans (`CountersHonest`) a counter that is still
open is the number of refusals recorded since it was opened, and every refusal of
the history falls to one counter at most; a ban set at the threshold is thus earned
within one window.

`Forwarding_proofs`, of `ForwardConnection`: the inductive invariant is
`FInv == TypeOK /\ Stages /\ NoLeak /\ Directions`.  `Stages` relates the stage of
the handler to the sockets and goroutines.  `Directions` says of the numbered packets
of one direction that each place they pass (read by the far end, in its socket,
sniffed, in the goroutine's hand, unread) holds a run of numbers that begins where
the place before it ends, until the far socket is closed or its peer gone; from then
on the first two still hold a beginning.

`Forwarding_proofs`, of `BackendHealth`: the inductive invariant is
`IInv == RotationTypeOK /\ DownWasSeen /\ DeadWasDown`, where `DownWasSeen` says that
a connection or the checker about to mark a backend down has found it down.

| Theorem | Statement | Assumes |
|---|---|---|
| `BansAreOnFile` | `Spec => []BansOnFile` | the named assumptions |
| `BansStand` | `Spec => BanStands` | and `~StopsMidWrite` |
| `StandingBansHold` | `Spec => []AdmittedWasAllowed` | the named assumptions |
| `RefusalsWereBans` | `Spec => []RefusedWasBanned` | the same |
| `BlacklistTypes` | `Spec => []BlacklistTypeOK` | the same |
| `BansAreEarned` | `Spec => []AutoBansAreEarned` | the same |
| `LimiterHoldsWindows` | `LimiterSpec => []WindowsHold` | the same |
| `FilterHoldsWindows` | `Spec => []WindowsHold` of the filter | the same |
| `RefusedOnlyWhenFull` | `Spec => LimitedWasFull` | the same |
| `ForwardTypes` | `Spec => []TypeOK` of a connection | the same |
| `NothingLeaks` | `Spec => []NoLeak` | the same |
| `ForwardingIsLossless` | `Spec => []Lossless` | the same |
| `EndsReadPrefixes` | `Spec => []OnlyPrefixes` | the same |
| `DeadBackendsWereDown` | `HealthSpec => []DeadWasDown` | the same |

They hold for any addresses, users, connections, backends, windows, limits,
thresholds and durations, and for conversations of any length.  Only model-checked:
the liveness properties `HandlerEnds`, `AllArrives` and `Recovers`.  `TypeOK` of
`ConnectionFilter` and `HealthTypeOK` of `BackendHealth` are stated and not run: the
parts of them that matter are in the invariants above.

## 5. Chat rooms

`ChatRooms` is `CChatRoomMgr` of the distribute server.  `user` is `m_htUser`
(the `byIdx` of every registered player), `rooms` and `list` are `m_pRoomList` by
index and in order, `titles` and `search` are the two search indexes,
`m_pTitleList` and `m_htSearchName`.  A handler is an action: `CreateRoomSyn`,
`JoinRoomSyn`, `OutRoomSyn`, `OptionSyn`, `OwnerSyn`, `KickSyn`, `UpdateUserInfo`,
and for the agents `AddUserSyn`, `ForceAddUserSyn`, `DelUserSyn`.  A refused request
changes nothing and is no step.  What is sent to clients is a set of operators:
`RoomPage`, `TotalPage`, `JoinAckLists`, `FoundByName`.

Rooms keep their array of slots as the code does: slots beyond the count keep the
players that were there last.  A client names only guests of its room, the
`Nameable` ones; with `Delayed` its request may be handled after such a guest has
left, and `met` records whom it has had in its room.  When a stale kick has brought
a count to 0 the next request would let the BYTE wrap and overrun the array; the
behaviours of the model end there.

Abstractions: one distribute server keeps the rooms; a player's name does not
change while it is registered, and names do not collide (the index is keyed by hash
codes); a wrong secret code is a refused request; new rooms have empty slots.

| Run | Shows | Instance |
|---|---|---|
| `chat_rooms` | `RoomsWhole` (`TypeOK`, `RoomsAgree`, `OwnerInRoom`), `SearchesAgree` (`SearchAgrees`, `TitleSearchFinds`), `PagesCover`, `ElderFollows` | 3 players, rooms of 2 or 3, 2 types, 2 rooms per page, no delayed requests |

Bounds.  Three guests are needed for an owner to leave two behind, whose order
decides who follows.  Three players make three rooms, which is a full page and part
of another; `MaxRooms` is 4, so index 0 is not handed out.  Nothing else bounds the
run: a player may come, chat and leave any number of times.  Players are symmetric.
Deadlock is checked.  The module states safety only.

Divergences, to be reproduced as those above:

| Property | Instance | What the code does | What is said of it |
|---|---|---|---|
| `RoomsAgree` | `Chat_rooms` with `Delayed = TRUE` | a kick tests only that its guest is registered: if it has left, the last guest falls out of the array, stays in the room by `m_htUser`, and the count is one too low (`ChatRoomMgr.cpp:1935`) | `ChatRoomMgr.cpp:1887`: `err_Invalid_Target` |
| `SearchAgrees` | `Chat_rooms` with `MaxRooms = 2` | the room made when all other indexes are used gets index 0, which means "in no room": its maker is in a room nobody can join or leave (`ChatRoomMgr.cpp:2464`) | `ChatRoomMgr.cpp:354`: at most 250 rooms |
| `JoinListsMembers` | `Chat_rooms` | the answer to a join reads the whole array and lists guests that have left (`ChatRoomMgr.cpp:1170`) | `ChatRoomMgr.cpp:1168`: the participants |
| `TypedPagesCover` | `Chat_rooms` | rooms are skipped before their type is looked at, so a page of one type leaves rooms out (`ChatRoomMgr.cpp:775`) | |
| `TitlesCountGuests` | `Chat_rooms` | a title search shows the guest count of the last change of options (`ChatRoomMgr.cpp:244`) | |

### Proofs

`ChatRooms_proofs` proves all four properties of the run for every number of
players, indexes, seats and rooms on a page.  The inductive invariant is
`Whole == RoomsOK /\ ListOK /\ TitlesOK /\ SearchOK /\ MetOK`: the seats of a room
and the table of players agree (`Fits`, `Seated`), nobody sits twice, the owner is
seated; the list has every room once; titles and names are those of the rooms.

The arrays of the code are compacted by copying, in order, the entries to keep.
`EntriesAt(s, P)` is that copy, defined by the rank of a place and not by recursion,
so that the first lemmas can say where an entry goes (`PlacesAgree`, `EntryOfPlace`,
`PlaceOfEntry`) without an induction over data.  Each handler is then shown to be one
of four things (`Shaped`): a room is added, altered, deleted, or nothing happens, and
an altered room has the same seats, one guest more at the end, or one less (`Left`).
`ElderFollows` is read off from that; `PagesCover` divides a place of the list by
the page size (`QuotientUnique`).

| Theorem | Statement | Assumes |
|---|---|---|
| `RoomsStayWhole` | `Spec /\ []~IsRoom(0) => []RoomsWhole` | `~Delayed` |
| `SearchesFollow` | `Spec /\ []~IsRoom(0) => []SearchesAgree` | `~Delayed` |
| `PagesShowEveryRoom` | `Spec /\ []~IsRoom(0) => []PagesCover` | `~Delayed` |
| `EldersFollow` | `Spec /\ []~IsRoom(0) => ElderFollows` | `~Delayed` |
| `RoomZeroIsFree` | `Spec => []~IsRoom(0)` | `~Delayed`, fewer players than indexes |

Both conditions are needed: without them the first two lines of the table above
apply.  `RoomZeroIsFree` discharges the second by counting: every room has an
owner of its own, and the player who makes one is in none.

### The clients' view

`ChatRelay` extends `ChatRooms` with the way of requests and answers: `up` and
`down` are the links between the agents and the distribute server, `side` those
between agents, each a queue.  `Serve` is a request at the distribute server
(`Granted` calls the action of `ChatRooms`, `Refused` changes nothing) with all it
sends: the answer, the notices to the guests, and the `UpdateInfo` news to everybody
who is registered.  `FromServer` is `ServerMsgParser` of the agent with one operator
per notice handler: it delivers to its own players (`at`, the agent's table) and
passes a notice on to the other agents; `FromAgent` delivers what was passed on.
`Enter`, `Leave`, `Ask`, `Chat` and `ForceRegistPlayerToLobby` are the players'
side.  A client asks only for what it sees: `view` is its room, `board` its list of
rooms, both kept from messages alone.  `asked` counts requests; `late` tells that a
kick or a new owner named somebody who had left, after which nobody asks for more;
`served`, `due`, `heard`, `echoed` record who should hear of a notice and who did.

| Run | Shows | Instance |
|---|---|---|
| `chat_relay` | `NoticesOnce` (`HeardOnce`, `NoticesArrive`), `RegistrationsAgree`, `ClientsKnow` (`RelayTypeOK`, `BoardsAgree`, `OwnRoomKnown`, `ViewsCover`, `OwnersKnown`) | 2 players at 1 or 2 agents, rooms of 1 or 2 with an array of 3, 1 type, 3 rooms per page, 4 requests |

Bounds.  Four requests are enough to make a room, join it, hand it over, and leave
or kick, with both players' news crossing.  `home` chooses the agent of each
player, so the run has both cases: all players at one agent, and two agents.
Players come back to the agent they were at (`Roams = FALSE`).  Nothing else is
bounded: a player may come at any time; leaving is a request.  Deadlock is off: the
requests are used up.  Safety only; what is delivered in the end is stated for
states in which nothing is under way (`Quiet`).

With two agents a client's own answers come directly and notices are relayed, so
they overtake each other, and a client may keep a guest that has left or an owner
that has changed: `OwnRoomKnown`, `ViewsCover` and `OwnersKnown` are stated for one
agent.  `UpdatePlayerInfo` (level and map of a player) and the friend request are
left out.  Met on the way and not modelled: `UpdateInfo_Changed_Title` sends its
message with the size of another (`ChatRoomMgr.cpp:2924`), the title search bounds
its list of rooms by `MAX_USER_PER_ROOM` (`:2420`), and `InsertUserName` clears as
many bytes as a pointer has (`:2544`).

### Proofs of the clients' view

`ChatRelay_proofs`, which extends `ChatRooms_proofs`, is about `ChatRelay`, for any
number of players, agents and requests, with late kicks (after which a room need not
fit: the proofs use only the types `RoomTypes` and `LooseRoom`). The constants are
assumed to differ from what they stand for (`RelayAssumption`).

| Theorem | Statement | Assumes |
|---|---|---|
| `NoticesArriveOnce` | `RelaySpec => []NoticesOnce` | |
| `RegistrationsDoAgree` | `RelaySpec => []RegistrationsAgree` | `~Roams` |
| `RelayTypes` | `RelaySpec => []Base`, what every link carries | |

`NoticesOnce` does not follow from itself: the invariant is `NoticeInv`, which says
where the copies of a notice are.  Its number is fresh (`NumbersFresh`); before the
agent that asked has taken it there is one copy, on the link to that agent
(`DownOnce`, `DownNotSide`, `DownNotHeard`); afterwards each other agent has at most
one copy coming (`SideOnce`), and none of its players has been sent it yet
(`SideNotHeard`); and what a player was named in and has not been sent is on the link
to its agent or still with the one that asked (`OnTheWay`).  Every answer of the
distribute server is brought to one form first (`Answered`, from the `*Answers`
lemmas of the handlers), so that the step has one case for it.

For `RegistrationsAgree` the invariant is `RegInv`: everything that says of a player
that it comes or goes is in the queue of one agent (`AtHome`), and the last word of
that queue, or the table if there is none, says where the player is (`LastWord`).
Both hold only because a player comes back to the agent it left; `ServedRegisters`
says that no other request registers or deletes anybody.

`ClientsKnow` is about what a client makes of a queue, and a fold over a queue is
out of the provers' reach.  `Ends(p, q, c, d)` says it without recursion: there is a
function from the places of `q` to clients that begins with `c`, goes on with what the
client does with each message (`Hears`), and ends with `d`.  That there is one, and what
happens to it when a message is taken or more are added, is shown by the least place at
which it fails (`HearingExists`, `EndsTail`, `EndsJoin`).

The invariant is `KnowInv`, with these parts beside `Base`, `NoticeInv` and `RegInv`:

- `WordsInv`: of the requests of a player that are under way, an `add` comes only after
  the distribute server has no registration left, and everybody who is at an agent is
  registered or has an `add` under way that no `del` follows;
- `BoardInv`: the list a client ends with is the server's, or the client's `add`, its
  answer or its request for the list is still under way;
- `ViewInv`, for a single agent: the room a client ends with is the one the server has
  it in, with all guests and the owner, or the client will have left and its `del` is
  still under way;
- `StrictWires`, `OneWires`, `Away`: what is on the links; with one agent only the links
  of that agent are used; who is away sees nothing;
- `Whole`, the invariant of the rooms.

Once `late` holds only `WordsInv` is still said of these.  The step of the distribute
server is the hard one.  Each handler is shown to send messages of one form (`Tells`): before
and after the news, answers that take a view that was right to one that is right again
(`KeepAll`), and news that take the old list to the new one (`RightNews`).  The
boards and views then need one case for all handlers, and one for the list itself.

| Theorem | Statement | Assumes |
|---|---|---|
| `ClientsAlwaysKnow` | `RelaySpec /\ []~IsRoom(0) /\ [](Len(list) <= PerPage) => []ClientsKnow` | `~Delayed`, `~Roams` |
| `FewClientsKnow` | `RelaySpec => []ClientsKnow` | and finitely many players, fewer than indexes and no more than `PerPage` |

The page is a real condition: `FromServer` asks for the first page, and with more rooms
than it holds a client knows the others only from the news.  The second theorem
discharges it, and index 0, by counting owners (`FewRooms`, `FewLeaveRoom`); the instance
of the run satisfies its assumptions.

## 6. Siege recall

`SiegeScript` is the loader: a script is a sequence of lines, `CommandProcess` one
line, `LoadRecallInfo` the whole, and the result is the tree of themes, maps, steps,
objects, terms and commands.  The classes of the tree are not in the repository; a
child is found by its index among all children of its parent, as the loader uses
it.  `SiegeRecall` is what agents do with the tree: `MapMsg` are the messages of a
map server (load, execute, end, objects that died, next step), `ResultObjInfoSyn` is
the answer of the database to a load, `OrderOf` and `ServerMsgPaser` the orders
of masters and what is relayed of them, `RemoveObject` and `RemoveObjectSpecifyMap`
the removals.  `SentTo` is what of a list of messages is for one map server.  A theme
that comes when there are 256 opens nothing (`Opens`), and what follows it goes to the
one before; `Taken`, `ParentOf` and `KeptAt` say which line an object of the script is
kept under.  Where no theme is loaded the code reads a null pointer when an object
has died, and the model does nothing.  Map servers are external; `inbox` is what each was
sent since it started, which is all that properties are about.  The tree does not change in this
model: the fields of it that are written at run time are written again before each
use, and left out.

| Run | Shows | Instance |
|---|---|---|
| `siege_recall` | `ScriptKept`: the tree is the script, for scripts with slips too; `MessagesFollow` (`TypeOK`, `TermsFollowObject`); `LoadAnswered`: a load is answered in the end | 4 scripts, 2 agents, 2 map servers linked to both, 2 events, results of up to 2 rows |

Bounds.  The scripts have what the loader distinguishes: several themes, maps,
steps and objects, terms and commands whose index is not their place among their
kind, and each line that is refused.  Two events meet: a load and an order, or two
loads, with a map server that restarts in between.  Fairness: the database answers
(`ResultComes`; no other step takes a query away).

Divergences, to be reproduced as those above:

| Property | Instance | What the code does | What is said of it |
|---|---|---|---|
| `CountAgrees` | `Siege_recall` | the number of objects given to a map server is not the number it will be sent | `SiegeRecallMgr.cpp:3719` |
| `DeathIsFollowed` | `Siege_recall` | a death is looked up by map, step and object, and is followed only if every theme has the map, for the last theme that has it | `SiegeRecallMgr.h:107` |
| `OrderReachesAll` | `Siege_recall` with `Linked <- EachItsOwn` | the relayed order to go to the next step has no case in `ServerMsgPaser`, and is dropped (`AgentNetworkMsgParser.cpp:5290`) | `SiegeRecallMgr.cpp:1409-1427` |

`RSiegeRecallUpdate` and `RSiegeRecallInsert` only report errors; two siege maps with
empty tables make theme 0 execute twice, which nothing above forbids.

### Proofs

`SiegeRecall_proofs` is about any scripts the agents may start with, any agents, map
servers and links, any number of events and of rows of a result.

`FlattenSeq` and `FoldLeft` are recursive functions of the community modules.  Their
theorems of induction cannot be used here, so the first part characterises them by the
least length at which they fail (`LeastOf`, from the well-foundedness of the naturals): a
sequence of parts that gets one part more is flattened to what was there and that part,
and every element of it comes from one part, in order.

For `MessagesFollow` a list of messages is `Sound` if the terms and commands of an object
in it are led by its `addobj`.  Each list an agent makes is; `inbox` is a series of such
lists without the messages for others (`IInv`).

For `ScriptKept` the invariant is that the tree is what the loader makes of the script,
and the work is in the loader.  `Tracks` says of the tree after `n` lines whether it has
a last theme and a last map and which lines these are, which numbers of maps are taken,
and whether the last map has a step; each line keeps that and adds what `KeptAt` says
(`LineTracks`).

| Theorem | Statement | Assumes |
|---|---|---|
| `MessagesAlwaysFollow` | `Spec => []MessagesFollow` | `SiegeAssumption` |
| `ScriptAlwaysKept` | `Spec => []ScriptKept` | `SiegeAssumption` |

`SiegeAssumption` gives the lines of a script their types, leaves out scripts with a line
on which the loader follows a null pointer (`Faults`), and has no two themes of one
script with the same index.

## 7. Game entry

`GameEntry` is one agent between clients, map servers and the database.  `sess` and
`byChar` are `g_pUserTable` and `g_pUserTableForObjectID`, `jobs` the queries under
way, `row` the login rows, `saved` the characters in the database, `known` the map
servers in `g_pServerTable`; `world` is what each map server has, with `up` and
`down` the messages to and from it.  `phase` is what a client is at and restricts it
to what a client in that state can send.  Actions: `Client` (list, make, check a
name, delete, choose, channels, game-in, change of map, back to the list, vanish),
`Result` (each query's handler, in any order), `FromMap` (each message of a map
server), `OnDisconnectServer`, the two bans of a character and
`Disconnect_AllUser`; `MapServes`, `MapLoads`, `MapCrash` and `MapStart` are the map
servers, external and modelled from what the agent sends and expects.  How an account
gets its session is `LoginHandoff`'s subject and one step here.

| Run | Shows | Instance |
|---|---|---|
| `game_entry` | `SessionsAgree` (`TypeOK`, `TablesAgree`, `ListsOwn`), `PlacesAgree` (`OnePlace`, `NoGhosts`), `RowsAgree` (`RowsKept`, `RowsEnd`), `NobodyWaits`, `MessagesFit` | 2 accounts, 2 connection indexes, 2 characters of which one is born, 2 maps, five ways to change the map, 3 logins, 2 moves, 1 crash |

Bounds.  Three logins let a connection index and an account be used again while
messages of their last session are under way; two moves are a change of map and its
return, or a change and a way back to the list; one crash, with the restart after
it, can hit any of them.  A client chooses a character once per session.  Deadlock is
off: logins are used up.  Safety only; that nobody waits and nothing is left is
stated for states in which nothing is under way.  `RowsEnd` and `NobodyWaits` hold
until a map server crashes, `ListsOwn` until a creation is answered to the next
client of a connection (`crossed`), after which the clients ask for nothing more; the
table has what happens otherwise.

| Property | Instance | What the code does |
|---|---|---|
| `NobodyWaitsEver` | `Game_entry` | a change of map to a map server that has gone down since it was accepted does nothing, and the client waits (`AgentNetworkMsgParser.cpp:1513`) |
| `RowsEndEver` | `Game_entry` | the notice that a client has gone is lost in the crash of a map server, and its row stays |
| `ListsOwnEver` | `Game_entry` | results that concern a character are given to whoever has the connection index now (`AgentDBMsgParser.cpp:664-739`) |

Seen while modelling: `Gamein_Ack` uses `pUserInfo` before it tests it (`:1218`),
`MapOut` never tests it (`:1507`), `Disconnect_AllUser` removes from the table it
walks (`:128`), and `GetFastServer` says `||` where `&&` is meant
(`Agent/ServerTable.cpp:205`).

### Proofs

`GameEntry_proofs` is about any number of clients, accounts, characters and maps and
any bounds.  That a character is found by its number
rests on a chain: two sessions do not have the same character, because each chose it
from its list (`OwnsChar`, `ListsOwn`), a list shows an account its own characters,
and an account has one session.  The last rests on the login row: `Connect` needs an
account without one, and a row goes only after the session.

`RowsFit` says why.  `Keepers` of an account are its sessions, its logout query, the
notices about it to map servers and their answers; `Fits` says that there is at most
one of them, and that while there is one the row stays.  Leaving hands the row from the
session to the query, or to the notice to the map server, which hands it to the answer,
which hands it to the query (`UserGone`, `NoticeAnswered`, `KeepsLoginCheckDelete`);
the query removes it (`KeepsLogout`); a crash loses a notice, and then the row is never
removed, which keeps it all the same.  The inductive invariant is `Inv`: `TypeOK` with
the types of what is under way (`WiresOK`), `PhasesFit` (a client is in the game exactly
with a character), `JobsFit` (a query of a session that lives is about its account),
`OwnsChar`, `ListsOwn`, `TablesAgree` and `RowsFit`.  TLC finds it to hold on the
instance of `game_entry`.  `SessionsFit` and `RowsFit` each have a frame lemma
(`SessionsStay`, `RowsStay`), and lemmas for what several actions do: one client's phase
moves (`PhaseMoves`), one session changes (`SessionMoves`), sessions end
(`SessionsEnd`), a row is handed over (`KeeperMoves`).

| Theorem | Statement | Assumes |
|---|---|---|
| `SessionsAlwaysAgree` | `Spec => []SessionsAgree` | `EntryAssumption` |
| `RowsAreKept` | `Spec => []RowsKept` | the same |
| `OneSessionEach` | an account has one session at a time | the same |
| `PlacesAlwaysAgree` | `Spec => []PlacesAgree` | the same |
| `RowsAlwaysAgree` | `Spec => []RowsAgree` | the same |
| `MessagesAlwaysFit` | `Spec => MessagesFit` | the same |
| `NobodyIsForgotten` | `Spec => []NobodyWaits` | the same |

The last four rest on a second invariant, `PlaceInv`, of the places of characters.
`WorldFits` is about the map servers (one that is down has no player and no unread
message, a message and a player name the account of their character).  `Settled` says
of a session with a character that it is at one `Stage`: asked to enter, loading,
loaded, refused, playing, asked to leave, gone; a stage says which one request or
reply about the character is in the queues (`Only`), that nothing behind it will take
the character away (`Before`, `Sweeps`), and what the map server has.  It is stated
with the queues' order alone, so five ways of changing the map are one case.
`Followed` says of every other map server that nothing is left of the character there,
or that it ends with a notice, or with the answer to one, which keeps the account out
(`Keepers`) until the rest is gone; after a crash the row itself does (`Lost`).
`Kept` is what `RowsEnd` needs: before a crash no row is without its keeper.
An action that is not about a character leaves it as it is (`PlacesKept`,
`NobodyMoves`); one that is, is about one character at one map server (`PlayerMoves`,
`MapMoves`), and puts one message or takes one (`Put`, `Took`).

That characters are unique follows from `WhoIsThere`: what a map server has belongs to
a session there or is followed by a notice, and of both there is one per account.
`MessagesFit` follows from `StageOfReply`: a reply is about the stage its session is
at, so it names the session's key.  For `NobodyIsForgotten` a third invariant,
`Answerable`, says what each client that waits outside the game will be answered
(`HasAnswer`); inside, it is the `Stage`.

`EntryAssumption` takes `Conns` to be finite, which the fixed table of connection
indexes is; `Disconnect_AllUser` counts the sessions.  All of the run's properties are
proved; the run shows that the states they are about are reached, and finds the
mutants.

## 8. Billing

`Billing` is the distribute server between billing server and agents.  `Process`
is the connector's loop: connect, give up after `maxTryCount` tries, send one packet
of the queue, read, handle the first packet read.  `started` and `checks` are its
two containers, `sendq` its queue, `charged` and `asked` what the billing server has
made of it.  `packets` is each agent's container, from which the map servers take a
player's advantages; `FromAgent` and `ToAgent` are the handlers at either end.  In
mode "database" places are looked up with `RGameRoomData` instead.  `GameStart`,
`Leave`, `AgentStops`, `Drops`, `Reset`, `Asks` and `Alerts` are what players, agents,
the network and the billing server do.

| Run | Shows | Instance |
|---|---|---|
| `billing_checks` | `SearchesEnd` (`ChecksEnd`, `AsksAnswered`), `ChargesAgree` (`TypeOK`, `NobodyChargedAway`, `BenefitsEarned`, `ChargedIsShown`), `GoneIsGone` | 1 player, 2 agents, a game room and a home, 2 tries, 2 logins, 2 questions, 1 failure |

Bounds.  One player is enough, for every container is by player and nothing relates
two of them but the queue.  Two agents make an answer of one not the last; two
logins make the second meet what is left of the first, at the other agent or
from the other place; two questions meet the answers of each other.  `MaxFaults`
counts lost connections and stopped agents.  `Others = 0`: a server in the table
that is not an agent would be waited for and never answer.  `MaxRead = 1`: see the
table.  Safety only; deadlock is off.  `mixed` and `muddled` mark players whose
search has outlived its question or login, or whose login or logout was missed (a
connection or an agent was lost, or the player left before its login was answered); the properties except those of searches are about the others.

| Property | Instance | What the code does | What is said of it |
|---|---|---|---|
| `ChecksEndEver` | `Billing_checks` | an agent that goes down does not answer, and the search never ends | `BillConnector.cpp:778-779`: the counts are decreased |
| `NobodyChargedAwayEver` | `Billing_checks` | a player who leaves before the answer to its login is there has no packet yet, so the end of its charge is not reported | |
| `BenefitsEarnedEver` | `Billing_checks` | a refused login erases the search, not the packet of an earlier login | `BillConnector.cpp:411` |
| `GoneIsGoneEver` | `Billing_checks` | denials of an older search are counted with the new ones; answers name the user, not the session | `BillConnector.cpp:497` |
| `GivesUpOffline` | `Billing_checks` | `mConnectTryCount` counts successes too, and the connector gives up a connection that works (`:670-679`) | |
| `ChargedIsShown` | `Billing_checks` with `MaxRead = 2` | of several packets in one read the first is handled (`:717-738`) | |

The questions to all agents are sent by a function of the network library that is
not in the repository; it is taken to be a broadcast, as the comment at `:778` waits
for all of them.  Action properties go under `PROPERTY`.

### Proofs

`Billing_proofs` is about any finite number of players and agents, any places, and any
number of logins, questions, lost connections and stopped agents: none of the bounds of
the run appears in it.  Three invariants are shown one after the other, over the types
(`Types`); TLC finds each of them to hold on the instance of `billing_checks`.

`SearchInv` counts.  `Deniers(u)` are the agents whose "not here" about a player is on
the way, or would be if they read the question now; while the player is somewhere they
are fewer than the count that `FailToCheck` takes down (`FewDeny`), for the agent that
has the player is never one of them.  This is why the count cannot reach zero.  Players
come and go while the question is out, so the invariant also says that a player is at
one agent (`OneAtATime`) and that each agent has one message of a search
(`OneMessage`).

`AnswerInv` counts the other way: a search waits for no more agents than still have the
question or its answer under way (`CountsMet`), so that with nothing under way there is
no search; and a question not yet answered is in the read buffer, in a search, or its
answer is in the queue (`Pursued`).

`World /\ LoginInv /\ ChargeInv /\ ShownInv` follows a login and a logout through the
queues.  `Heeded`: at most one login of a player is under way, and a login that outlives
its player has the logout behind it.  `ChargeInv`: nobody is charged of whom the server
knows nothing, and a charge that outlives its player is followed by its end.  `Seen`:
the last packet or message about a player on its way to the agent that has it says what
is charged (`Coming`, `Shown`); with the queues empty that is what the agent shows.

| Theorem | Statement | Assumes, besides finite players and agents |
|---|---|---|
| `GoneAreGone` | `Spec => GoneIsGone` | |
| `SearchesDoEnd` | `Spec => []SearchesEnd` | `Others = 0`, `MaxRead = 1`, an agent |
| `ChargesDoAgree` | `Spec => []ChargesAgree` | `MaxRead = 1` |

The assumptions are those of the run and are needed: a server that is no agent never
answers, with no agent nobody does, and of two packets in one read the second is lost
(`ChargedIsShown` in the table above).

## 9. Not modelled

`PROJECT.json` gives the reason per component.  In short:

- of the agent: a restart of it, which removes its rows with `UP_AGENT_DOWN` while its
  keys count from 1 again; the checksum check of `ConnectionCheck`; the relays that
  keep no state (party, guild, friends, items, operators); the item, chat, guild and
  shop queries; `GetFastServer`; NPC recall, happy hours and penalties, gifts,
  the traffic log, private messages and operators;
- of the distribute server: the login variants of other countries, MD5 and serial
  numbers, the console;
- third-party protection libraries, encryption and clocks, which are outside the
  repository;
- of the gateway: the monitor's counters, the dashboard and its queries, logging, the
  configuration calls, and the traffic control, which has a configuration but no code.

## 10. What is only checked

Every invariant and every action property of the runs is a theorem, except those that
say something happens in the end: `AnnouncedIsAnswered` (`Handoff_lossy`), `HandlerEnds`
and `AllArrives` (`Forward_lossless`), `Recovers` (`Health_recovers`) and `LoadAnswered`
(`Siege_recall`).  They rest on fairness, whose meaning is `ENABLED`, which the provers
do not expand; they are shown for the instances of their runs.
