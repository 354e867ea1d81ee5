# Darkflame Universe: a TLA+ verification project

Darkflame Universe is a server emulator: four kinds of processes (one master,
one authentication server, one chat server, any number of world servers)
that talk to each other and to the game clients over RakNet, and share a
MySQL or SQLite database.  This directory holds TLA+ modules translated from
the source, TLC configurations that check them on small instances, and TLAPS
proofs about them.

## The system

| component | state it keeps | operations | talks to |
|---|---|---|---|
| Master server (`dMasterServer`) | the table of world instances, ports, ids, session keys, chat and auth addresses | start and stop worlds, route zone transfers, count players, prepare zones, shut everything down | every other server, by packets; the operating system, by starting processes |
| Zone requests (`dNet/ZoneInstanceManager`) | callbacks of open requests by id | ask for a zone or a private zone, take the answer | the master |
| Server base (`dNet/dServer`) | the connection to the master, its retry | connect, receive, send, shut down | RakNet |
| Auth server (`dAuthServer`, `dNet/AuthPackets`) | logins in flight | check the password, hand out a session key, ask for a character-select world | master, database |
| World server (`dWorldServer`) | pending sessions, users, the zone | life cycle, sessions, client packets, saving, shutdown | master, chat, database |
| Chat server (`dChatServer`) | players online, teams, friends, ignore lists | login and logout notices, invitations, team changes, routing of chat | every world |
| Game logic (`dGame`): users and characters | users by connection, characters, the account's list | create, delete, rename, select a character, save | database |
| Entities and components (`dGame/dComponents`, `EntityManager`) | entities by id, component state, timers, deletion queues | construct, update, destroy, ghosting | each other, by direct calls and messages |
| Inventory (`dInventory`, `InventoryComponent`) | bags of item stacks, equipment | add, move, remove, equip | missions, database |
| Missions (`dMission`, `MissionComponent`) | mission and task progress | accept, progress, complete, rewards | inventory, character |
| Trading (`TradingManager`) | open trades with items, coins, acceptance | start, offer, accept, cancel, complete | inventory, character |
| Teams on a world (`TeamManager`) | a copy of the chat server's teams | update, lookup | chat server |
| Behaviours and skills (`dBehaviors`, `SkillComponent`, `BuffComponent`) | behaviour trees, pending syncs, buffs with stacks | handle, calculate, sync, interrupt, apply, remove | destroyable component |
| Activities (`ActivityComponent`, `RacingControlComponent`, `ShootingGallery`) | lobbies, participants, race progress | join, ready, start, finish | master (private zones), teams |
| Quick builds, moving platforms, pets, properties, vendors | state machines driven by timers and players | | |
| Zones (`dZoneManager`, `Spawner`) | spawn networks and their nodes | spawn, notice a death, respawn | entities |
| Scripts (`dScripts`) | per-entity variables and timers | event handlers | everything in the world |
| Database layer (`dDatabase`) | connection, tables | queries | external |
| Shared formats (`dCommon`: AMF, LDF, LXFML, SD0) | none | parse, format | |
| Physics, navigation (`dPhysics`, `dNavigation`) | bodies, grids, meshes | collision, paths | |
| Web and metrics (`dWeb`, `Metrics`) | HTTP routes, counters | | external |

What is hard in it: the master's table is changed by packets of many
processes, by timers and by commands, and every reference kept across one of
these steps (an address, an index, an id, a callback) may be stale in the
next; the same player is for a while a player of two worlds and of the chat
server; and much of the game logic is built of state machines advanced by
timers and by client packets that come in any order.

## Modules

| module | models | model-checked by | proofs in |
|---|---|---|---|
| `ZoneTransfer`, with the abstract `TransferService` | how players get a world: master, worlds, requesters | `MCZoneTransfer` | `ZoneTransferProofs`, `ZoneTransferWire` |
| `ChatTeams` | players and teams of the chat server, the worlds' copies | `MCChatTeams` | `ChatTeamsProofs` |
| `Sessions` | session keys from the login to the worlds' users | `MCSessions` | `SessionsProofs` |
| `EntityManager` | entities of a world and what its clients show | `MCEntityManager` | `EntityManagerProofs` |
| `Lobby` | lobbies and instances of activities | `MCLobby` | `LobbyProofs` |
| `Racing` | a race world from its lobby to the finish | `MCRacing` | `RacingProofs` |
| `SequenceLemmas` | facts about numbers and sequences the proofs share | | |

Where modules meet: `Lobby` ends in the requests of `ZoneTransfer` and in the team
packet of `ChatTeams`; `Racing` begins where such a transfer ends; the users of
`Sessions` are the players that `EntityManager` loads and `ChatTeams` is told of.
Their interfaces are single calls or packets, and no property relates the two
sides of one, so they are not composed.  The components that do share state and
failures are composed within a module: master, worlds and requesters; chat server
and worlds; auth, master, worlds and clients; server and clients of a world.

The runs are few: one for each distinct question.  What a theorem shows for every
value of the constants is checked in one of them only.

## ZoneTransfer: how a player gets a world

A server that wants to send a player to a zone asks the master
(`RequestZoneTransfer`).  The master looks for an instance with room or starts
a process (`GetInstance`); until the process reports that it has loaded, the
request pends on the instance; when the instance is ready it is asked to
affirm the transfer, and its affirmation is answered to the requester, which
calls the callback of the request.

State:

| variable | code |
|---|---|
| `m_Instances` | `InstanceManager::m_Instances`; the fields are those of `Instance` |
| `m_IsShuttingDown` | `InstanceManager::m_IsShuttingDown` and `shutdownSequenceStarted` |
| `world[p]` | world process `p` (its instance id) with its two channels to the master |
| `asked`, `requests` | `ZoneInstanceManager`: request ids handed out, callbacks not called yet |
| `toServer` | answers in flight to the requesting servers |
| `granted` | history: callbacks called |
| `events` | how many failures and commands there have been (bound) |

Actions are named after the packets and functions they model.  `RequestZoneTransfer`
and `RequestPrivateZone` include the handling by the master, as no other step can
see whether a request is on its way; the answers, and everything between a
world and the master, travel in FIFO channels.  `ConnectionLost` and `WorldCrash`
lose a suffix of what a world sent and all of what it was sent.  `StartWorldServer`
lets a process die at once when another process still has its port.

`TransferService` is the abstract specification: what a requester may rely on
(at most one grant per request; public requests only to a world that serves
the zone and has loaded), whatever fails.  `KeepsPromise` says that `ZoneTransfer`
implements it, with "opened" mapped to the processes that have loaded.

### Runs

| run | what it shows | bounds |
|---|---|---|
| `live` | every request is answered; none is lost, connected worlds are known | 2 servers, 1 request each, 1 zone, 5 worlds, 4 events among crash of a ready world, idle exit, signal, timeout, SHUTDOWN_INSTANCE |
| `faults` | the safety properties that hold under every failure and command, and the refinement | 2 servers, 1 request each, a property clone and its map's clone 0, one password, 4 worlds, 2 events of any kind |
| `population` | types, and the master's head count never below the world's | 1 server, soft cap 1, 3 worlds, 2 players per world, 2 packets in flight when a player moves, 2 events |
| `disconnect` | a comment the code does not keep | 2 events; see Finding |

Bounds: `MaxWorlds` is at least what the requests, the commands and the
events can start, so that `CanGetInstance` hides no behaviour of interest; two
servers are enough for colliding request ids (ids count from 0 in each
server); two events give a failure during the recovery from another one, four in
`live` a chain of such.  Two zones with the same map and different clones are what
`FindInstance` and the lookups by map and id can confuse.

### Fairness

`live` assumes weak fairness of the master's packet loop, of a world's connection
attempts (made in every frame while not connected), of a world's handling of
master packets, and of a requester's handling of answers: all of them are
unconditional polls of the main loops.  Nothing is assumed of players,
commands, exits or timeouts.  The events of this run leave out worlds that die
or lose their connection before the master has them down as ready: the code
has no remedy for these (see Hazards), so the property does not hold with them.

### Finding

`disconnect`: MasterServer.cpp:491 says that a world that disconnected can be
deleted as a new one is started if needed.  Requests pending on an instance
that is not ready are not moved, and nothing is started for them.

Another comment, MasterServer.cpp:575, lets SERVER_INFO add a world back that is not in
the table.  The instance added is never ready, as a process sends WORLD_READY once:
requests that find it pend until it leaves.  The model contains this; `live`
leaves out the failures that lead to it.

### Hazards no property covers

A process that never connects blocks its zone (no timeout).  A port that is free in
the table may still be bound by an old process; the process started on it
dies and blocks its zone.  The master's loops over the table change it while they run
(`MasterServer.cpp:440`, `:463`): undefined behaviour, of which the model takes
the outcome that the loop goes on with the same instances.  Instance ids wrap
at 65536.  The count of a private instance never goes down (PLAYER_REMOVED looks among
public ones, `MasterServer.cpp:684`), and the master's
count of a public one may be too high: PLAYER_ADDED is sent also for a
connection that has ended, a user without a character leaves unreported.
`ClientCountCoversPopulation` is the half that holds.  At a shutdown, a world that
is not ready is pruned from the table although its process runs on; if it connects
afterwards it is added again, unmarked, and the master waits out its 60 seconds.
A world that lost its connection, and whose port has been given to another instance when it
connects again, stays unknown to the master; one that finds no master gives up in
time (`WorldGivesUp`), of which the model says only that it may.

### Proofs

`ZoneTransferProofs` proves `TypeCorrect == Spec => []TypeOK`: `TypeOK` is
inductive.  Each operator has a lemma on what it returns (the searches return
0 or an index of the table with the property searched for, `RemoveAt`
and `Prune` return elements of what they are given, `Route` returns a table that
has only grown), each group of actions a lemma that it keeps the types.

Its second part proves `PortsStayDistinct == Spec => []PortsDistinct`.
`PortsDistinct` is not inductive: `GetFreePort` sorts the ports in use and runs
along `PortStart + 3n`, and would give out a port twice if one port lay
off this grid.  `PortsInv` adds that the ports of instances and of processes
(which SERVER_INFO puts back into the table) are on the grid.  The core lemma,
`FreePortIsFree`, is a counting argument: below slot c there are at most c
distinct ports on the grid, and if slot c were taken, the sorted list would
continue with it and the search would not have stopped.

`ZoneTransferWire` proves what holds between the master and the worlds, in four
invariants, each on top of the one before.

* `LinkedInv` compares the table, the worlds and the two channels between them.  `Conn`
  is of every world: nothing comes before WORLD_READY but SERVER_INFO, a channel
  that was cut ends with its notification.  `Suits` is of every instance and its process: it
  is ready only when WORLD_READY has been handled, the affirmations it waits for are
  as many, for each id, as the questions and the answers on the wire (`Asked`), and its
  count of clients, plus what the packets on the wire will add and take
  away, is no lower than the players of the process (`Counted`).  Ids in the table are
  distinct, and while the master is up every process that has not announced
  itself has its instance there.  `RequestsStayOnTheirList`,
  `AffirmationsStayOnTheWire` and `ClientCountStaysCovering` are consequences.
  None of the three is inductive: they speak of ready instances or of nothing but the
  table, and what a packet does to the table depends on what else is under way.
  Loops of the master that remove an instance while they go over the table are why `Linked` has
  a parameter x, the instance whose requests are just being redirected.
* `AnswersInv` says that the requests on an instance's lists have been asked for with
  its zone, and that every answer on its way names a process that has loaded, and its
  zone (`AnswersStayGood`).
* `GrantsInv` says that a callback waits only for a request that was made, and is gone
  once it is called.

* `SteadyInv` is of calm runs, those whose `Events` have none of the failures the code has no
  remedy for (`Calm`): a lost connection, a process that dies between its connection and
  the master's noting it ready, the master's shutdown.  Then a world that has announced
  itself stays connected until it ends, every connected world has its instance, and an instance
  that is not ready has a process that is yet to announce itself, and is not shutting down.
  That is the core of `RequestsAreNotForgotten`: an instance that leaves the
  table was ready, so no request pends on it, and those that wait for its
  affirmation are redirected first; `Held` follows each request through the
  loops that do this while the table grows under them.  Each of the four events alone
  makes `NoRequestForgotten` false (TLC): the instance of a process that died too early, for
  one, is found by every later request, and is never ready (Hazards).
* `MetInv` and `ApartInv` are of runs in which connections last until their process ends
  (`ConnectionsLast`), whatever processes die and while the master shuts down.  A
  connected world is about to introduce itself, has been told to end, or is in the table with
  its address (`Met`).  SERVER_INFO finds the world's instance by its id, but only when the
  port is in use; so a world that is yet to introduce itself must share its port with no
  instance but its own (`PortsApart`).  While the master is up this follows from
  `PortsDistinct`, as every such world is in the table; in the shutdown sequence, when
  `PruneUnreadyInstances` has taken it out, no process is started any more.
  `ConnectedWorldsStayKnown` follows.  `lose` and `loseEarly` each make it false (TLC): the
  instance has left the table when the world connects again, and its port may be
  another's by then.

`PromiseIsKept == Spec => KeepsPromise` is the refinement, step by step: the actions of the
requesters are `Ask` or `Grant` of `TransferService`, a process that gets its
connection is `Open`, and every other step is a stutter; `Grant`'s guard
is what `AnswersInv` and `GrantsInv` provide.

Assumptions: `ConstantsAssumption` of `ZoneTransfer`; for `RequestsAreNotForgotten`
`Calm`, which the events of `live` satisfy, and which also allows processes that never
start, preparation, private zones, late entry and users that leave unreported; for
`ConnectedWorldsStayKnown` `ConnectionsLast`, which allows all events but two.
Liveness is model-checked only.

### Abstractions

Requesters do not fail.  Chat and auth servers are not restarted.  The hard
cap is left out (`isFriendTransfer` is always false).  `Route` handles a list of
requests at once: every call finds the same instance.  The master's 60 second
limit on its shutdown is left out: the model stops when the table is empty.
Ids, zones and passwords are small values.

## ChatTeams: players and teams of the chat server

Worlds tell the chat server who has come and who has gone; the chat server
lists the players, forms their teams and broadcasts every change to all worlds,
which keep copies to share loot by.

| variable | code |
|---|---|
| `inside` | the players a world has a connection to |
| `notices` | logins and disconnections in flight: RELIABLE, not ordered, so a set |
| `m_Players`, `m_PlayersToRemove`, `m_PlayerCount`, `m_Names` | `PlayerContainer` |
| `mTeams`, `g_TeamIDCounter` | `TeamContainer` |
| `inbox[w]` | team updates on the way to a world: RELIABLE_ORDERED, so a sequence |
| `m_Teams[w]` | `TeamManager::m_Teams` of a world |
| `joined`, `cut` | worlds connected to chat; history: worlds that have lost it |
| `last` | history: the last notice heard of a player |

The team functions call one another and broadcast as they go, so they are
operators from a state `[teams, next, sent]` to a state, named after the functions
(`AddMember`, `RemoveMember`, `DisbandTeam`, ...); `Commit` appends what was sent to
every inbox.  Each handler is an action.  A team packet is handled in the step in
which it is sent: the server compares it with nothing the player knew.
Logins in other worlds, a swap of characters, lost connections and a chat server
that starts again are bounded by `Events` and `MaxEvents`.

| run | what it shows | bounds |
|---|---|---|
| `chat_teams` | copies of teams stay current and have loot owners, the player count and the removals are right, with reordered notices and with failures of both sides | 2 players (symmetric), 2 worlds, 1 team, 2 notices in flight, at most 2 updates waiting when something is sent; 2 events of any kind from the start, 1 with everybody online |
| `chat_size` | types, teams of one to four distinct members | 5 players, all online at the start, 1 world, 1 team, 2 updates waiting, 1 activity |

Five players are one more than a team takes.  `AllOnline`, from which `chat_size` and
one part of `chat_teams` start, is a state that the loads of all players reach; it leaves
the order of their arrival out.  Two notices are a login and a disconnection that may
overtake one another; two worlds are what a player can be in, or seem to be in, at a
time.  Several teams at once are the theorem's matter (`TeamsStayTeams`).
CHECK_DEADLOCK is FALSE: when the bounds on events are reached and everybody has left,
nothing happens any more.

docs/ChatWebAPI.yaml:50 calls the list "all online Players", which it is not always:
`ScheduleRemovePlayer` does not look at which world reports a disconnection, and the
reports may overtake one another.  When the disconnection from the old world
arrives after the login in the new one, the player is taken off the list, and out
of his team, 20 seconds later.  `RemovedOnlyAfterLogout` is what does hold.

What the model contains and no property covers: a chat server that starts again
counts team ids from 1 while worlds keep old copies for ever (`CopiesCurrent`
excludes worlds that have lost the chat server); a world that ends leaves its
players on the list (ChatServer.cpp:222; the log says they are erased);
`m_PlayerCount` drifts up with every change of zone; a member leaves a local team
only if both map and clone differ from the team's (TeamContainer.cpp:223);
`CreateTeamServer` refuses teams of four with the words "more than 4"
(TeamContainer.cpp:432), where `AddMember` allows four.

Proofs (`ChatTeamsProofs`).  `TeamsStayTeams` is `Spec => []TeamsAreTeams`. The
invariant `Good` of a container state adds to `TeamsAreTeams` that ids are below the
counter and ascend with the list (`Numbered`): this is why a new team's id is its own.
Each operator has a lemma that it keeps `Good`. From `PlayersInv` follow
`CountStaysAbove` and `RemovalsFollowLogouts`: a player who waits for removal is one
whose last notice was a disconnection, as a login takes him off `m_PlayersToRemove`.

`LootOwnersStay` (`WorldTeamsHaveLootOwners`) and `CopiesStayCurrent` (`CopiesCurrent`) rest
on `WorldsInv`.  Its core is `Sees`, of a world that has kept the chat server: the last update
on the way about a team, or the copy if there is none, shows a team that exists,
with its loot rule and its members but for those added last.  That is inductive only together with
`NeverTwo`: a team that is one player now, or was in an update on its way, has not been
more before.  `UpdateTeam` of TeamManager makes no copy of such a team and changes none either,
so that a team that shrank to one, and lived on, would leave its copy behind:
`RemoveMember` disbands it instead.  Every team function has a lemma that it keeps `Sees` of
all worlds, as it goes, with what it has sent so far.  Of worlds that have lost the
chat server, whose counter starts again, only `TypedCopies` holds.  `TypeCorrect` takes
`Good`, `WorldsInv` and `PlayersInv` together.  Only `ChatConstants` is assumed.

Left out: friends, ignore lists, mutes, the messages to clients, the order of
loot owners within a copy.

## Lobby: lobbies and instances of an activity

`ActivityComponent` queues players who want to play in another zone, in lobbies
with a timer; `Update`, called every frame, removes who has left the world, ticks the
lobbies and starts those whose timer has elapsed.  Activities played where they
are create an instance at the join.

| variable | code |
|---|---|
| `m_ActivityInfo` | the row of CDActivitiesTable, chosen once from `Activities` |
| `m_Queue` | `std::map<LWOOBJID, Lobby>`: a function from ids, looked through by ascending id |
| `lobbies` | `CurrentObjectID` of ObjectIDManager, as far as lobbies advance it |
| `m_Instances` | the set of participants of each instance: `AddParticipant` adds nobody twice |
| `present` | the players `EntityManager::GetEntity` finds |
| `started` | history: how often a lobby has started an instance |

`PlayerJoin`, `PlayerLeave`, `PlayerReady` and `PlayerRemove` are the functions of these
names; `Update` is one frame, all of it: its loop ends at the first lobby that
somebody has gone from (`Reached`), what it has ticked stays ticked, and only a loop
that gets to the end removes the lobbies that are empty or have started.  A second
passes in each frame, as nothing the timers do depends on the length of a
frame.  Who can pay for the activity is any subset of the players.

| run | what it shows | bounds |
|---|---|---|
| `lobby` | places, room, instances, first starts, and that a lobby with enough players starts | 3 players, 2 lobbies, 3 instances, 2 moves; activities of teams, of single players, without lobby |
| `lobby_twice` | the finding below | 3 players, 2 lobbies, 1 move |

Three players fill one lobby of two and open a second, so that a departure
from the second meets a start of the first.  Two moves let a player leave the
world and come back.  `EnoughStarts` assumes weak fairness of `Update` only: it is
called in every frame as long as the world runs.  CHECK_DEADLOCK is FALSE: an empty
queue with everybody gone, or the bounds reached, is the end.

Finding `lobby_twice`: when a player of a later lobby has left the world, `Update`
returns (ActivityComponent.cpp:210) before it removes the lobbies that it has just
started; they stay with an elapsed timer and start another instance, and
another transfer of their players, in the next frame.

Proofs (`LobbyProofs`).  `LobbiesKeepRoom`, `PlacesStaySingle` and
`FirstStartsHaveEnough` rest on one inductive invariant, `LobbyInv`: the types of the
queue, room and single places, and `Waits`: what has not started has time left.  The
last is why a first start needs enough players: a timer above zero only reaches zero
by ticking, and it ticks only then.  That the other operations keep the first two is
one argument: what they leave of the queue is a part of it (`QueuePart`, an
injection of places), and parts keep both (`PartKeeps`).  Assumed are
`LobbyConstants` and `LobbiedActivities`: a lobby's activity takes somebody and its
delays last at least a second.  With shorter delays a lobby does start in its first
frame with whoever is there, as the milliseconds are divided as integers.

`TypeCorrect` and `InstancesStayApart` (`OneInstancePerPlayer`) rest on `InstancesInv`: activities
played where they are add a player only if no instance has him (`IsPlayedBy`), and
`PlayerRemove` shifts instances but merges none.

Left out: scores, rewards, the developers' commands that change the row, and
messages to clients.  `StartZone`'s transfers are `ZoneTransfer`'s requests, its team
is `CreateTeamServer` of `ChatTeams`.

## Sessions: one session per account

The auth server answers a login with a random key and sends the key to the master
(SET_SESSION_KEY), which keeps one per account and, if it replaces one, alerts
all worlds.  A client that comes to a world sends the hash of its key; the world
notes the client in `g_PendingUsers` under its account, asks the master
(REQUEST_SESSION_KEY), and compares when the answer comes: a user is created, or
the client is disconnected.  An alert disconnects the account's user.

| variable | code |
|---|---|
| `logins`, `key` | keys handed out, and what each client holds |
| `setKey`, `requests[w]`, `fromMaster[w]` | packets between servers: RELIABLE_ORDERED, so sequences |
| `activeSessions` | the map of this name in the master |
| `connected[w]`, `closed[w]` | clients connected to a world; connections that have ended and of which the world has not read the notification: RakNet delivers one also after the server's own `CloseConnection` |
| `g_PendingUsers[w]`, `m_Users[w]` | the maps of these names in a world |
| `early` | history: clients that came to a world before their key came to the master |
| `overlooked` | history: users that an alert missed, as `GetUser` found another one |

Keys count up, as if the random generator repeated none, and a hash stands for its
key.  `NEW_SESSION_ALERT` compares the new key with `atoi` of a hash, a number that
is the key only by chance: in the model it always differs, and the user is
disconnected.  `m_Users` is a map by address, so addresses are numbers and `GetUser`
takes the lowest; client addresses stay the same from login to login.

`sessions`, the only run, has 2 clients of one account, 1 world, 4 keys and
2 open requests of the world.  Accounts do not affect one another, nor do worlds: what
a property says of one world needs only that one.  Four keys let a third login come while
the ends of two earlier ones are still on their way.  The world has a request of a
client that has gone and one of its successor open at once, which is what confuses
answers.

Fairness: the packet loops of the master and of a world go on, and RakNet delivers
every notification.  Nothing is assumed of clients, which may log in, connect or go
at any time or never again.

The exceptions in the properties are behaviours of this code, each of which TLC
needed.  A client may be turned away with the newest key if the world asked before
the key reached the master (AuthPackets.cpp:300 answers the client first), or if another
request of the account is open, whose answer carries an older key (`NewestIsHeard`).
A second client takes the first one's place in `g_PendingUsers`, and the first waits
until it gives up (`WaitsEnd`).  An alert that finds a user whose end the world has not
noticed yet overlooks the other one (`SingleSession`, `OldSessionsEnd`).  And the master
does not answer at all for an account it has no key of.

Proofs (`SessionsProofs`).  `TypeCorrect`, `OlderUsersAreTold` (`SingleSession`) and
`NoUserIsLeft` (`UsersHaveConnections`) rest on one invariant, `SessionsInv`.
`SingleSession` is not inductive: a user is created from an answer, and the answer may
be old.  `AnswersFollowed` adds that an answer with an old key has an alert behind it
in the same channel, which is where order of delivery is needed; `PendingMatch` and
`SessionsExist` add that the pending client is one of the account and that an
account with answers, users or alerts has a key at the master.  Assumed is
`SessionConstants`.

`NewestStaysHeard == Spec => NewestIsHeard` rests on a second invariant, `NewestInv`, for a step
can only be judged by what came before it.  Keys reach the master in the order in which they
were handed out, so one on its way is newer than all that the master and the worlds have
(`KeysAscend`); hence no answer and no user with the newest key has an alert behind it
(`NewestNotAnnounced`), and an alert never turns such a client away.  A connected client's entry
and user have its own key, and if the master had this key when the client came and it is
still the newest, a request for it or an answer with it is on the way (`KeyHeld`).  So the
answer that does not match is another one, and two are open.  The two liveness properties
are model-checked only.

Left out: passwords, bans, play keys and the other checks, which end in no key; the
loss of the master; names that differ in case only.

## EntityManager: entities and what clients show of them

An entity gets a network id when it is constructed and gives it back when it is
deleted, at the end of the frame in which it is destroyed.  Candidates for ghosting are
constructed for the players near them, all others for everybody; what appears while a
client still loads is kept in its player's limbo.

| variable | code |
|---|---|
| `m_Entities`, `m_EntitiesToGhost`, `m_EntitiesToDelete`, `m_PlayersToUpdateGhosting` | the members of EntityManager of these names |
| `networkId`, `m_LostNetworkIds`, `m_NetworkIdCounter` | ids in use, to reuse, and the highest |
| `m_Observers`, `observed`, `limbo`, `reference` | `Entity::m_Observers`; `m_ObservedEntities`, `m_LimboConstructions` and the reference point of GhostComponent |
| `ready` | `Entity::GetPlayerReadyForUpdates` of a player |
| `replicas` | what the client of a player shows: messages arrive in order, so it changes when the server sends |
| `made`, `loads` | bounds: each thing is made once, players load at most `MaxLoads` times |

`LevelLoadComplete` creates a player and constructs all else for him, `PlayerLoaded`
empties his limbo, `PositionUpdate` queues him for `UpdateGhosting`, `Disconnect` destroys
him, `DeleteEntities` ends the frame.  Between two ends of frame they act in any order, as the
packets, scripts and timers of a frame do.  `Plain` are entities of spawners: one without a
spawner is not constructed for players who load later (EntityManager.cpp:436).

| run | what it shows | bounds |
|---|---|---|
| `entities` | types, ids, observers, and that clients show what they should | 2 players (symmetric), a candidate, a plain entity, 2 spots, 3 loads |
| `entities_destroyed` | the finding below | the same |

Two players give the candidate zero, one and two observers; three loads let a player
come back in the frame after he left and take another's id.  Numbers are unbounded: the
code's counter has 16 bits, which `NetworkIdsConserved` says is enough for 65535
entities at a time, and observers are counted in an `int8_t`, enough for 127 players near
one entity.  CHECK_DEADLOCK is FALSE: when all has been made and destroyed and the loads
are used up, nothing happens any more.

Finding `entities_destroyed`: EntityManager.cpp:199 destructs an entity at the clients
when it is destroyed, and it is deleted at the end of the frame.  A player who loads or
comes near in between is shown it (:435, :557), and is never told that it is gone, while its id
goes to the next entity.

Proofs (`EntityManagerProofs`).  `TypeCorrect`, `IdsConserved`, `ObservedMatchesShown`,
`LimboMissesNothing` and `ViewStaysCurrent` rest on the invariant `EntityInv`, their
conjunction with two more facts: nobody observes or shows what has not been made
(`Unknown`), and a player who is not there observes nothing and will start from the
origin (`AbsentAreBlank`).  The ids in use are distinct, so a destruction, which names
an id only, takes nothing else that lives off a client.  `ObserversStayCounted` adds
`ObserversCounted` on top, an argument on cardinalities of disjoint sets, with the
observers deleted in the same frame as what they observe.  Assumed is `EntityConstants`.

Left out: serializations, the kill queue, invisible game masters, cut scenes that override the
reference point, collectibles, entities that move or are taken off the clients without
being destroyed.  Two behaviours seen there: `DestructEntity` to one address takes the
entity out of everybody's limbo (EntityManager.cpp:453), and `DeleteEntities` keeps an
iterator of `m_EntitiesToGhost` while it deletes an entity, whose components may change the
list (:272).

## Racing: a race world

| variable | code |
|---|---|
| `m_LobbyPlayers`, `m_RacingPlayers`, `m_LoadedPlayers`, `m_LoadTimer`, `m_EmptyTimer`, `m_StartTimer`, `m_Loaded`, `m_Started`, `m_Finished`, `m_SoloRacing` | the members of RacingControlComponent |
| `present`, `came` | players with an entity in the world, now and ever |
| `sentHome` | players for whom `SendToZone` was called |
| `vehicles` | players whose car exists |
| `clock`, `checkpoints` | history: time in the race, and what each player has passed |

`Update` is a frame, and each frame takes one unit of time; its early returns are its
disjuncts, with disjoint guards: somebody has left the lobby, the lobby waits or
loads, somebody has left the start, too few are left, the countdown, not all ready, the race.
Loading players, players who leave, clients that are ready and players who exit come
between frames.  The track is `Places`, the sets of waypoints that are near at the same
time; a lap whose time is too short moves the racer to the start and the loop over the
waypoints goes on, which `OffByOne` translates.

`racing`, the only run: 2 players, with `m_SoloRacing` both ways, timers of 2, 2 and 1 frames,
2 laps of at least 4 frames and 3 waypoints, of which the last is near the first.  Two
players are the number that a race needs, so one who leaves changes every
condition; two laps give a first that ends and a last that finishes.

Fairness: `Update` is called in every frame, and matters until the start; that the client
of a player who is there reports that it has loaded is what the code relies on: without
it the others wait for ever.  Nothing makes racers finish.  The timer for a lonely player
(`m_EmptyTimer`) is never reset and runs also while nobody is there
(RacingControlComponent.cpp:531): two players who come late can be sent home before the
load timer has run out, which `NobodyWaitsForEver` allows, and `LoadedCountExact`
ends there, as `m_LoadedPlayers` is not set back.

Proofs (`RacingProofs`).  `TypeCorrect`, `CountStaysExact` and `RacesStartComplete` rest
on `RaceInv`.  `StartsComplete` follows at the step that starts the race: as many are
ready as `m_LoadedPlayers` says, so the count has to be no lower than the number of
racers for all of them to be ready (`CountCovers`, which also holds where
`LoadedCountExact` says nothing any more).  `Phases` adds which timers run when.
Assumed is `RacingConstants`.  Only liveness is model-checked only.

`PlacesStayRanks` and `LapsStayDriven` rest on `Standings`: as many racers have finished as
`m_Finished` counts, with different places, none above it, and they are those with all
laps behind them; and each racer has behind him the time and the checkpoints that
his laps and his waypoint stand for.  `LapsAreDriven` speaks of ended laps only and is not
inductive: what pays for the lap that ends is the way to the last waypoint.  Waypoints are
skipped by `MaxSkip` at the most, so the waypoint a racer is at bounds the
checkpoints he has passed in this lap from below (`StagesTo`).

Left out: smashed cars, whose delayed respawn keeps a pointer to the player
(RacingControlComponent.cpp:319), rewards, missions, records, messages to clients.

## What is proved and what is only model-checked

Every theorem is of the form `Spec => []Inv`, `Spec => [][A]_v` or, in one case,
`Spec => KeepsPromise`, for all values of the constants that the named assumption of
its module allows.  Two have a hypothesis of their own on the failures that a run of `ZoneTransfer` may
contain: `Calm` for `RequestsAreNotForgotten`, `ConnectionsLast` for `ConnectedWorldsStayKnown`.
Every safety property of the passing runs is a theorem.  The liveness properties are checked by TLC
only, as they and ENABLED are out of the proof system's reach; so are the
runs that show a comment or a test wrong, whose counterexamples are TLC's.

`SequenceLemmas` states what several proofs need: a set of naturals has a least element,
`Min` of a set of indices is one, what `RemoveAt` (`vector::erase`) returns and
keeps, the type of a table with one entry changed, and how many elements of a set a
sequence has (`Count`) after an `Append`, a `Tail`, a `SubSeq`, a concatenation.

## Not modelled

* Users and characters: a character is a document that each component writes itself
  into.  Two hazards are there: the world a player has left may save him after the
  next world has (WorldServer.cpp:831), and the callback of a zone request keeps a pointer to a
  character that may be gone (UserManager.cpp:564).
* Inventory, missions: rules by kind of item or task, called from everywhere in one
  thread; unit tests reach their boundaries.  Trading rests on them: an earlier
  acceptance stands when the offer changes (TradingManager.cpp:62).
* Quick builds, moving platforms, pets, properties, vendors, scripts: state machines of single
  objects, with callbacks that differ per object.
* Skills, behaviours, buffs, combat: trees that are data of the client's database, and
  arithmetic on floats; physics and navigation are geometry.
* Zones and spawners: their effect on clients is that of `EntityManager`'s constructions.
* Friends, ignore lists, mail, leaderboards, the database layer: rows read and written in one
  handler; formats, chat filter and chat commands keep no state; the web interface is an
  external library.
* Vendored libraries (`src/thirdparty`) are not this program.  They hold most of the lines of
  the repository.
