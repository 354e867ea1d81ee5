---------------------------- MODULE ZoneTransfer ----------------------------
(***************************************************************************)
(* The zone transfer protocol: the master server's instance table          *)
(* (dMasterServer/InstanceManager), the packet handlers and timers of      *)
(* dMasterServer/MasterServer that read and write it, the life cycle of    *)
(* the world server processes the master starts, and the servers (auth and *)
(* worlds) that ask the master for a world to send a player to.            *)
(*                                                                         *)
(* Every connection is a FIFO channel (RakNet RELIABLE_ORDERED, channel    *)
(* 0): world[p].out carries what world process p sent to the master,       *)
(* world[p].in what the master sent to p; toServer holds the master's      *)
(* answers, from which each requesting server takes its own in order.  A   *)
(* lost connection loses a suffix of what was in flight.  A request and    *)
(* its handling by the master are one step: no other step can tell when a  *)
(* request was sent from when it was received.                             *)
(***************************************************************************)
EXTENDS Integers, Sequences, FiniteSets, SequencesExt

CONSTANTS
  Servers,       \* the servers that request transfers
  Zones,         \* zones: records [map, clone]
  Passwords,     \* passwords of private zones
  NoPassword,    \* the password field of a public instance
  SoftCap,       \* population_soft_cap of each zone, CDZoneTable
  PortStart,     \* world_port_start of the configuration
  Events,        \* the kinds of failure and command that may happen, see May
  MaxWorlds,     \* bound: world processes ever started
  MaxRequests,   \* bound: requests issued by each server
  MaxPlayers,    \* bound: players at one time in a world
  MaxOut,        \* bound: packets of a world in flight when a player moves
  MaxEvents      \* bound: failures, exits, timeouts and commands, together

ReAddedCap == 12      \* both caps of an instance added back by SERVER_INFO
PrivateCap == 999     \* both caps of a private instance
PortStep   == 3       \* ports a world server uses
Unassigned == 0       \* UNASSIGNED_SYSTEM_ADDRESS; process p has address p

ASSUME ConstantsAssumption ==
  /\ \A z \in Zones : z.map \in Nat /\ z.clone \in Nat
  /\ \A z \in Zones : [z EXCEPT !.clone = 0] \in Zones
  /\ NoPassword \notin Passwords
  /\ Zones \cap Passwords = {}
  /\ SoftCap \in [Zones -> Nat \ {0}]
  /\ PortStart \in Nat
  /\ MaxWorlds \in Nat /\ MaxRequests \in Nat /\ MaxPlayers \in Nat
  /\ MaxOut \in Nat /\ MaxEvents \in Nat

VARIABLES
  (* the master *)
  m_Instances,      \* std::vector<InstancePtr>: a sequence of Instance
  m_IsShuttingDown, \* the shutdown sequence has started
  (* the world processes; a process is named by its instance id *)
  world,            \* a sequence of World; m_LastInstanceID is its length
  (* the requesting servers *)
  asked,            \* per server, what it asked for; the index is the id
  requests,         \* per server, ids whose callback has not been called
  toServer,         \* answers of the master in flight
  granted,          \* history: the callbacks that have been called
  (* environment *)
  events            \* how many of Events have happened

masterVars == <<m_Instances, m_IsShuttingDown>>
serverVars == <<asked, requests, toServer, granted>>
vars == <<masterVars, world, serverVars, events>>

WorldIds == 1..MaxWorlds
Wants    == Zones \cup Passwords
Pending  == [id : 1..MaxRequests, server : Servers]

Instance == [zone : Zones, id : WorldIds, port : Nat, softCap : Nat,
             password : Passwords \cup {NoPassword}, clients : Nat,
             ready : BOOLEAN, shuttingDown : BOOLEAN, shutdownComplete : BOOLEAN,
             sysAddr : WorldIds \cup {Unassigned},
             pendingRequests : Seq(Pending), pendingAffirmations : Seq(Pending),
             affirmTimedOut : BOOLEAN]

ToMasterMsg == [kind : {"SERVER_INFO", "WORLD_READY", "PLAYER_ADDED", "PLAYER_REMOVED",
                        "SHUTDOWN_RESPONSE", "DISCONNECTED", "CONNECTION_LOST"}]
               \cup [kind : {"AFFIRM_TRANSFER_RESPONSE"}, id : 1..MaxRequests]
ToWorldMsg  == [kind : {"SHUTDOWN"}]
               \cup [kind : {"AFFIRM_TRANSFER_REQUEST"}, id : 1..MaxRequests]
Answer      == [server : Servers, id : 1..MaxRequests, world : WorldIds, zone : Zones]

World == [zone : Zones, port : Nat, running : BOOLEAN, connected : BOOLEAN,
          ready : BOOLEAN, players : Nat,
          out : Seq(ToMasterMsg), in : Seq(ToWorldMsg)]

Msg(kind)       == [kind |-> kind]
IdMsg(kind, id) == [kind |-> kind, id |-> id]

-----------------------------------------------------------------------------
(* The instance table *)

IsPrivate(i) == i.password # NoPassword

\* IsFull(false): every caller passes isFriendTransfer = false.
IsFull(i) == i.clients >= i.softCap

\* Mutant of Joinable: the clone is not compared.
JoinableAnyClone(i, zone) ==
  /\ i.zone.map = zone.map
  /\ ~ IsFull(i) /\ ~ IsPrivate(i) /\ ~ i.shutdownComplete /\ ~ i.shuttingDown

\* The condition on which FindInstance(mapID, isFriendTransfer, cloneId) selects.
Joinable(i, zone) ==
  /\ i.zone = zone
  /\ ~ IsFull(i) /\ ~ IsPrivate(i) /\ ~ i.shutdownComplete /\ ~ i.shuttingDown

\* FindInstance(mapID, isFriendTransfer, cloneId): the first match, 0 if none.
FindJoinable(T, zone) == SelectInSeq(T, LAMBDA i : Joinable(i, zone))

\* FindInstanceWithPrivate(mapID, instanceID) and FindInstance(mapID, instanceID).
FindInstanceWithPrivate(T, map, id) ==
  SelectInSeq(T, LAMBDA i : i.zone.map = map /\ i.id = id
                            /\ ~ i.shutdownComplete /\ ~ i.shuttingDown)

FindPublicInstance(T, map, id) ==
  SelectInSeq(T, LAMBDA i : i.zone.map = map /\ i.id = id /\ ~ IsPrivate(i)
                            /\ ~ i.shutdownComplete /\ ~ i.shuttingDown)

FindPrivateInstance(T, pw) == SelectInSeq(T, LAMBDA i : i.password = pw)

GetInstanceBySysAddr(T, addr) == SelectInSeq(T, LAMBDA i : i.sysAddr = addr)

\* The first pending request with this id; servers' ids collide.
PendingIndex(rs, id) == SelectInSeq(rs, LAMBDA r : r.id = id)

IsPortInUse(T, port) == \E k \in DOMAIN T : T[k].port = port

\* usedPorts[n] = port once usedPorts is sorted (n counts from 0).
SortedAt(T, n, port) ==
  /\ Cardinality({k \in DOMAIN T : T[k].port < port}) <= n
  /\ n < Cardinality({k \in DOMAIN T : T[k].port <= port})

\* How often the loop of GetFreePort runs: port and portIdx advance together
\* while the sorted list of used ports continues with port.
PortIdx(T) ==
  Cardinality({n \in 0..(Len(T) - 1) :
                 \A m \in 0..n : SortedAt(T, m, PortStart + PortStep * m)})

\* Mutant of GetFreePort: counts the used ports instead of looking at them.
GetFreePortByCount(T) == PortStart + PortStep * Len(T)

GetFreePort(T) == PortStart + PortStep * PortIdx(T)

\* Mutant of RemovePlayer: the count may pass zero.
RemovePlayerUnguarded(n) == n - 1

RemovePlayer(n) == IF n = 0 THEN 0 ELSE n - 1

NewInstance(zone, id, port, cap, pw, addr) ==
  [zone |-> zone, id |-> id, port |-> port, softCap |-> cap, password |-> pw,
   clients |-> 0, ready |-> FALSE, shuttingDown |-> FALSE, shutdownComplete |-> FALSE,
   sysAddr |-> addr, pendingRequests |-> <<>>, pendingAffirmations |-> <<>>,
   affirmTimedOut |-> FALSE]

-----------------------------------------------------------------------------
(* World processes *)

\* StartWorldServer: the process starts, or dies at once because another
\* process is still bound to its port.
StartWorldServer(W, zone, port) ==
  Append(W, [zone |-> zone, port |-> port,
             running |-> \A p \in DOMAIN W : W[p].port = port => ~ W[p].running,
             connected |-> FALSE, ready |-> FALSE, players |-> 0,
             out |-> <<>>, in |-> <<>>])

\* A send of the master to an address: nothing happens unless it is connected.
SendToWorld(W, addr, ms) ==
  IF addr \in DOMAIN W /\ W[addr].connected
  THEN [W EXCEPT ![addr].in = @ \o ms] ELSE W

\* A send of a world on its connection to the master.
SendToMaster(w, m) == IF w.connected THEN [w EXCEPT !.out = Append(@, m)] ELSE w

\* The connection to the master is accepted: SERVER_INFO at once, and WORLD_READY
\* at the end of the first frame that finds the world connected.
Attached(w) ==
  LET hello == <<Msg("SERVER_INFO")>>
      ready == IF w.ready THEN <<>> ELSE <<Msg("WORLD_READY")>>
  IN  [w EXCEPT !.connected = TRUE, !.ready = TRUE, !.out = w.out \o hello \o ready]

\* SESSION_KEY_RESPONSE lets a player in; the connection of a player ends.
PlayerIn(w)  == [SendToMaster(w, Msg("PLAYER_ADDED")) EXCEPT !.players = w.players + 1]
PlayerOut(w) == [SendToMaster(w, Msg("PLAYER_REMOVED")) EXCEPT !.players = w.players - 1]

\* The orderly end of a world: WorldShutdownProcess, then FinalizeShutdown
\* deletes the server object, which says goodbye to the master.
Exited(w) ==
  [SendToMaster(SendToMaster(w, Msg("SHUTDOWN_RESPONSE")), Msg("DISCONNECTED"))
     EXCEPT !.running = FALSE, !.connected = FALSE, !.players = 0, !.in = <<>>]

\* The connection breaks when the master has received the first n packets.
Dropped(w, n) ==
  [w EXCEPT !.connected = FALSE, !.in = <<>>,
            !.out = Append(SubSeq(@, 1, n), Msg("CONNECTION_LOST"))]

-----------------------------------------------------------------------------
(* The instance manager: operations that find or start an instance. *)

\* GetInstance: the joinable instance, or a new one and its process.
GetInstance(T, W, zone) ==
  IF FindJoinable(T, zone) # 0
  THEN [tbl |-> T, world |-> W, at |-> FindJoinable(T, zone)]
  ELSE LET port == GetFreePort(T)
       IN  [tbl |-> Append(T, NewInstance(zone, Len(W) + 1, port, SoftCap[zone],
                                          NoPassword, Unassigned)),
            world |-> StartWorldServer(W, zone, port),
            at |-> Len(T) + 1]

\* The bound MaxWorlds leaves room for what GetInstance may start.
CanGetInstance(T, W, zone) == FindJoinable(T, zone) # 0 \/ Len(W) < MaxWorlds

\* The requests rs join the lists of instance k.
Pend(T, k, rs)   == [T EXCEPT ![k].pendingRequests = @ \o rs]
Affirm(T, k, rs) == [T EXCEPT ![k].pendingAffirmations = @ \o rs]

\* Mutant of Route: an instance is asked to affirm before it is ready.
RouteBeforeReady(T, W, zone, rs) ==
  LET g    == GetInstance(T, W, zone)
      asks == [n \in DOMAIN rs |-> IdMsg("AFFIRM_TRANSFER_REQUEST", rs[n].id)]
  IN  [tbl   |-> Affirm(g.tbl, g.at, rs),
       world |-> SendToWorld(g.world, g.tbl[g.at].sysAddr, asks)]

\* What REQUEST_ZONE_TRANSFER and RedirectPendingRequests do with the requests
\* rs for a zone: pend them on an instance that is not ready, or ask a ready
\* one to affirm each (RequestAffirmation).
Route(T, W, zone, rs) ==
  LET g    == GetInstance(T, W, zone)
      i    == g.tbl[g.at]
      asks == [n \in DOMAIN rs |-> IdMsg("AFFIRM_TRANSFER_REQUEST", rs[n].id)]
  IN  IF i.ready
      THEN [tbl   |-> Affirm(g.tbl, g.at, rs),
            world |-> SendToWorld(g.world, i.sysAddr, asks)]
      ELSE [tbl |-> Pend(g.tbl, g.at, rs), world |-> g.world]

\* Mutant of Redirect: the pending affirmations go with the instance.
RedirectNothing(T, W, k) == [tbl |-> T, world |-> W]

\* RedirectPendingRequests(instance k): only the affirmations are redirected,
\* and they stay in the instance's own list.
Redirect(T, W, k) ==
  IF T[k].pendingAffirmations = <<>> THEN [tbl |-> T, world |-> W]
  ELSE Route(T, W, T[k].zone, T[k].pendingAffirmations)

CanRedirect(T, W, k) ==
  T[k].pendingAffirmations = <<>> \/ CanGetInstance(T, W, T[k].zone)

AnswerTo(r, i) == [server |-> r.server, id |-> r.id, world |-> i.id, zone |-> i.zone]

\* Mutant of Respond: only the first pending request is answered.
RespondToFirst(Q, rs, i) == IF rs = <<>> THEN Q ELSE Append(Q, AnswerTo(rs[1], i))

\* SendZoneTransferResponse for every request of rs, in order.
Respond(Q, rs, i) == Q \o [n \in DOMAIN rs |-> AnswerTo(rs[n], i)]

\* The n-th smallest of a set of numbers.
Upto(R, k) == {j \in R : j <= k}
Nth(R, n)  == CHOOSE k \in R : Cardinality(Upto(R, k)) = n

\* PruneUnreadyInstances: the ready instances of T, in their order.
Prune(T) ==
  LET R == {k \in DOMAIN T : T[k].ready}
  IN  [n \in 1..Cardinality(R) |-> T[Nth(R, n)]]

-----------------------------------------------------------------------------
(* The environment *)

May(kind) == kind \in Events /\ events < MaxEvents /\ events' = events + 1

\* The master leaves its shutdown loop, and with it the program, when every
\* instance has completed its shutdown.
MasterUp == ~ (m_IsShuttingDown /\ m_Instances = <<>>)

Init ==
  /\ m_Instances = <<>> /\ m_IsShuttingDown = FALSE
  /\ world = <<>>
  /\ asked = [s \in Servers |-> <<>>]
  /\ requests = [s \in Servers |-> {}]
  /\ toServer = <<>>
  /\ granted = {}
  /\ events = 0

-----------------------------------------------------------------------------
(* Steps of a requesting server, with the master's handling of its packet. *)

\* ZoneInstanceManager: a new request id, its callback is remembered.
Ask(s, want) ==
  /\ Len(asked[s]) < MaxRequests
  /\ asked' = [asked EXCEPT ![s] = Append(@, want)]
  /\ requests' = [requests EXCEPT ![s] = @ \cup {Len(asked[s]) + 1}]

NextRequest(s) == [id |-> Len(asked[s]) + 1, server |-> s]

\* RequestZoneTransfer and the REQUEST_ZONE_TRANSFER handler.
RequestZoneTransfer(s, zone) ==
  /\ MasterUp
  /\ Ask(s, zone)
  /\ IF m_IsShuttingDown THEN UNCHANGED <<m_Instances, world>>
     ELSE /\ CanGetInstance(m_Instances, world, zone)
          /\ LET r == Route(m_Instances, world, zone, <<NextRequest(s)>>)
             IN  m_Instances' = r.tbl /\ world' = r.world
  /\ UNCHANGED <<m_IsShuttingDown, toServer, granted, events>>

\* RequestPrivateZone and the REQUEST_PRIVATE_ZONE handler: answered at once,
\* ready or not; no answer when the password names no instance.
RequestPrivateZone(s, pw) ==
  /\ MasterUp
  /\ Ask(s, pw)
  /\ LET k == FindPrivateInstance(m_Instances, pw)
     IN  toServer' = IF k = 0 THEN toServer
                     ELSE Respond(toServer, <<NextRequest(s)>>, m_Instances[k])
  /\ UNCHANGED <<masterVars, world, granted, events>>

\* The first answer for s in flight, 0 if none.
NextAnswer(s) == SelectInSeq(toServer, LAMBDA a : a.server = s)

Granted(s, a) == [server |-> s, id |-> a.id, world |-> a.world]

\* Mutant of HandleZoneTransferResponse: the callback is not erased.
HandleZoneTransferResponseKeepsCallback(s) ==
  /\ NextAnswer(s) # 0
  /\ LET a == toServer[NextAnswer(s)]
     IN  granted' = IF a.id \in requests[s] THEN granted \cup {Granted(s, a)} ELSE granted
  /\ toServer' = RemoveAt(toServer, NextAnswer(s))
  /\ UNCHANGED <<masterVars, world, asked, requests, events>>

\* HandleRequestZoneTransferResponse: calls the callback, once.
HandleZoneTransferResponse(s) ==
  /\ NextAnswer(s) # 0
  /\ LET a == toServer[NextAnswer(s)]
     IN  /\ granted' = IF a.id \in requests[s] THEN granted \cup {Granted(s, a)} ELSE granted
         /\ requests' = [requests EXCEPT ![s] = @ \ {a.id}]
  /\ toServer' = RemoveAt(toServer, NextAnswer(s))
  /\ UNCHANGED <<masterVars, world, asked, events>>

-----------------------------------------------------------------------------
(* Commands: PREP_ZONE, CREATE_PRIVATE_ZONE, SHUTDOWN_INSTANCE. *)

PrepZone(zone) ==
  /\ May("prep") /\ ~ m_IsShuttingDown
  /\ CanGetInstance(m_Instances, world, zone)
  /\ LET g == GetInstance(m_Instances, world, zone)
     IN  m_Instances' = g.tbl /\ world' = g.world
  /\ UNCHANGED <<m_IsShuttingDown, serverVars>>

CreatePrivateZone(zone, pw) ==
  /\ May("private") /\ ~ m_IsShuttingDown
  /\ IF FindPrivateInstance(m_Instances, pw) # 0 THEN UNCHANGED <<m_Instances, world>>
     ELSE /\ Len(world) < MaxWorlds
          /\ LET port == GetFreePort(m_Instances)
             IN  /\ m_Instances' = Append(m_Instances,
                      NewInstance(zone, Len(world) + 1, port, PrivateCap, pw, Unassigned))
                 /\ world' = StartWorldServer(world, zone, port)
  /\ UNCHANGED <<m_IsShuttingDown, serverVars>>

ShutdownInstance(map, id) ==
  /\ May("shutdownInstance")
  /\ LET k == FindPublicInstance(m_Instances, map, id)
     IN  /\ k # 0
         /\ world' = SendToWorld(world, m_Instances[k].sysAddr, <<Msg("SHUTDOWN")>>)
  /\ UNCHANGED <<masterVars, serverVars>>

-----------------------------------------------------------------------------
(* Steps of a world process. *)

UnchangedByWorld == UNCHANGED <<masterVars, serverVars>>

\* A frame of the main loop in which the connection to the master is accepted:
\* SERVER_INFO at once, WORLD_READY at the end of the first such frame.
WorldConnect(p) ==
  /\ MasterUp /\ world[p].running /\ ~ world[p].connected
  /\ world' = [world EXCEPT ![p] = Attached(@)]
  /\ UnchangedByWorld /\ UNCHANGED events

\* AFFIRM_TRANSFER_REQUEST is always affirmed; SHUTDOWN ends the process.
WorldReceive(p) ==
  /\ world[p].in # <<>>
  /\ LET m == Head(world[p].in)
         w == [world[p] EXCEPT !.in = Tail(@)]
     IN  world' = [world EXCEPT ![p] =
           IF m.kind = "SHUTDOWN" THEN Exited(w)
           ELSE SendToMaster(w, IdMsg("AFFIRM_TRANSFER_RESPONSE", m.id))]
  /\ UnchangedByWorld /\ UNCHANGED events

\* The process ends in good order: empty for long enough, or told by a signal.
WorldExit(p) ==
  /\ world[p].running /\ world[p].ready
  /\ (world[p].players = 0 /\ May("idle")) \/ May("signal")
  /\ world' = [world EXCEPT ![p] = Exited(@)]
  /\ UnchangedByWorld

\* No connection to the master for noMasterConnectionTimeout.
WorldGivesUp(p) ==
  /\ world[p].running /\ world[p].ready /\ ~ world[p].connected
  /\ world' = [world EXCEPT ![p] = Exited(@)]
  /\ UnchangedByWorld /\ UNCHANGED events

\* The master has this process down as ready.
Established(p) ==
  \E k \in DOMAIN m_Instances : m_Instances[k].id = p /\ m_Instances[k].ready

\* A process dies on the way up: it never ran, its load failed, it was killed.
WorldFailsToStart(p) ==
  /\ world[p].running /\ ~ world[p].ready
  /\ May("failStart")
  /\ world' = [world EXCEPT ![p].running = FALSE]
  /\ UnchangedByWorld

\* A connected process dies; the master has what arrived before.
WorldCrash(p) ==
  /\ world[p].running /\ world[p].connected
  /\ May(IF Established(p) THEN "crash" ELSE "crashEarly")
  /\ \E n \in 0..Len(world[p].out) :
       world' = [world EXCEPT ![p] = [Dropped(@, n) EXCEPT !.running = FALSE, !.players = 0]]
  /\ UnchangedByWorld

\* The connection of a live process breaks.
ConnectionLost(p) ==
  /\ world[p].connected
  /\ May(IF Established(p) THEN "lose" ELSE "loseEarly")
  /\ \E n \in 0..Len(world[p].out) : world' = [world EXCEPT ![p] = Dropped(@, n)]
  /\ UnchangedByWorld

\* SESSION_KEY_RESPONSE lets a player in, and tells the master.
PlayerEnters(p) ==
  /\ world[p].running /\ world[p].connected /\ world[p].ready
  /\ world[p].players < MaxPlayers /\ Len(world[p].out) < MaxOut
  /\ world' = [world EXCEPT ![p] = PlayerIn(@)]
  /\ UnchangedByWorld /\ UNCHANGED events

\* SESSION_KEY_RESPONSE arrives when the player's connection has ended: no user
\* is created, the master is told of a player all the same.
PlayerEntersTooLate(p) ==
  /\ world[p].running /\ world[p].connected /\ world[p].ready
  /\ Len(world[p].out) < MaxOut
  /\ May("lateEntry")
  /\ world' = [world EXCEPT ![p] = SendToMaster(@, Msg("PLAYER_ADDED"))]
  /\ UnchangedByWorld

\* A user who has no character leaves: the master is not told.
PlayerLeavesUnreported(p) ==
  /\ world[p].running /\ world[p].players > 0
  /\ May("unreported")
  /\ world' = [world EXCEPT ![p].players = @ - 1]
  /\ UnchangedByWorld

\* A player's connection to the world ends.
PlayerLeaves(p) ==
  /\ world[p].running /\ world[p].players > 0 /\ Len(world[p].out) < MaxOut
  /\ world' = [world EXCEPT ![p] = PlayerOut(@)]
  /\ UnchangedByWorld /\ UNCHANGED events

-----------------------------------------------------------------------------
(* HandlePacket of the master, one action per packet of a world. *)

Receives(p, kind) == world[p].out # <<>> /\ Head(world[p].out).kind = kind

\* The world table once the master has taken p's packet.
Taken(p) == [world EXCEPT ![p].out = Tail(@)]

UnchangedByTable == UNCHANGED <<m_IsShuttingDown, asked, requests, granted, events>>

\* Mutant of HandleServerInfo: the address of a known instance is not set.
HandleServerInfoWithoutAddress(p) ==
  /\ Receives(p, "SERVER_INFO")
  /\ LET w == world[p]
     IN  m_Instances' =
           IF ~ IsPortInUse(m_Instances, w.port)
           THEN Append(m_Instances, NewInstance([w.zone EXCEPT !.clone = 0], p, w.port,
                                                ReAddedCap, NoPassword, p))
           ELSE m_Instances
  /\ world' = Taken(p)
  /\ UNCHANGED toServer /\ UnchangedByTable

\* SERVER_INFO: an unknown port is added as a new instance, of clone 0.
HandleServerInfo(p) ==
  /\ Receives(p, "SERVER_INFO")
  /\ LET w == world[p]
         k == FindInstanceWithPrivate(m_Instances, w.zone.map, p)
     IN  m_Instances' =
           IF ~ IsPortInUse(m_Instances, w.port)
           THEN Append(m_Instances, NewInstance([w.zone EXCEPT !.clone = 0], p, w.port,
                                                ReAddedCap, NoPassword, p))
           ELSE IF k # 0 THEN [m_Instances EXCEPT ![k].sysAddr = p]
           ELSE m_Instances
  /\ world' = Taken(p)
  /\ UNCHANGED toServer /\ UnchangedByTable

\* WORLD_READY: ReadyInstance answers every pending request and forgets them.
HandleWorldReady(p) ==
  /\ Receives(p, "WORLD_READY")
  /\ LET k == FindInstanceWithPrivate(m_Instances, world[p].zone.map, p)
     IN  IF k = 0 THEN UNCHANGED <<m_Instances, toServer>>
         ELSE /\ m_Instances' = [m_Instances EXCEPT ![k].ready = TRUE,
                                                    ![k].pendingRequests = <<>>]
              /\ toServer' = Respond(toServer, m_Instances[k].pendingRequests, m_Instances[k])
  /\ world' = Taken(p)
  /\ UnchangedByTable

\* Mutant of HandleAffirmTransfer: the affirmed request is not erased.
HandleAffirmTransferKeepsIt(p) ==
  /\ Receives(p, "AFFIRM_TRANSFER_RESPONSE")
  /\ LET k == GetInstanceBySysAddr(m_Instances, p)
         n == PendingIndex(m_Instances[k].pendingAffirmations, Head(world[p].out).id)
     IN  toServer' = IF k = 0 \/ n = 0 THEN toServer
                     ELSE Respond(toServer, <<m_Instances[k].pendingAffirmations[n]>>,
                                  m_Instances[k])
  /\ world' = Taken(p)
  /\ UNCHANGED m_Instances /\ UnchangedByTable

\* AFFIRM_TRANSFER_RESPONSE: AffirmTransfer answers the first request with the
\* id among those the instance has been asked to affirm.
HandleAffirmTransfer(p) ==
  /\ Receives(p, "AFFIRM_TRANSFER_RESPONSE")
  /\ LET k  == GetInstanceBySysAddr(m_Instances, p)
         id == Head(world[p].out).id
         rs == m_Instances[k].pendingAffirmations
         n  == PendingIndex(rs, id)
     IN  IF k = 0 \/ n = 0 THEN UNCHANGED <<m_Instances, toServer>>
         ELSE /\ m_Instances' = [m_Instances EXCEPT
                   ![k].pendingAffirmations = RemoveAt(rs, n),
                   ![k].affirmTimedOut = @ /\ Len(rs) > 1]
              /\ toServer' = Respond(toServer, <<rs[n]>>, m_Instances[k])
  /\ world' = Taken(p)
  /\ UnchangedByTable

\* Mutant of HandlePlayerAdded: an instance at its cap counts no more players.
HandlePlayerAddedBelowCap(p) ==
  /\ Receives(p, "PLAYER_ADDED")
  /\ LET k == FindInstanceWithPrivate(m_Instances, world[p].zone.map, p)
     IN  m_Instances' = IF k = 0 \/ IsFull(m_Instances[k]) THEN m_Instances
                        ELSE [m_Instances EXCEPT ![k].clients = @ + 1]
  /\ world' = Taken(p)
  /\ UNCHANGED toServer /\ UnchangedByTable

\* PLAYER_ADDED counts on any instance, PLAYER_REMOVED on a public one only.
HandlePlayerAdded(p) ==
  /\ Receives(p, "PLAYER_ADDED")
  /\ LET k == FindInstanceWithPrivate(m_Instances, world[p].zone.map, p)
     IN  m_Instances' = IF k = 0 THEN m_Instances
                        ELSE [m_Instances EXCEPT ![k].clients = @ + 1]
  /\ world' = Taken(p)
  /\ UNCHANGED toServer /\ UnchangedByTable

HandlePlayerRemoved(p) ==
  /\ Receives(p, "PLAYER_REMOVED")
  /\ LET k == FindPublicInstance(m_Instances, world[p].zone.map, p)
     IN  m_Instances' = IF k = 0 THEN m_Instances
                        ELSE [m_Instances EXCEPT ![k].clients = RemovePlayer(@)]
  /\ world' = Taken(p)
  /\ UNCHANGED toServer /\ UnchangedByTable

HandleShutdownResponse(p) ==
  /\ Receives(p, "SHUTDOWN_RESPONSE")
  /\ LET k == GetInstanceBySysAddr(m_Instances, p)
     IN  m_Instances' = IF k = 0 THEN m_Instances
                        ELSE [m_Instances EXCEPT ![k].shuttingDown = TRUE]
  /\ world' = Taken(p)
  /\ UNCHANGED toServer /\ UnchangedByTable

\* ID_DISCONNECTION_NOTIFICATION and ID_CONNECTION_LOST: RemoveInstance
\* redirects, unless the master is shutting down, and erases.
HandleDisconnected(p) ==
  /\ Receives(p, "DISCONNECTED") \/ Receives(p, "CONNECTION_LOST")
  /\ LET k == GetInstanceBySysAddr(m_Instances, p)
         T == [m_Instances EXCEPT ![k].shutdownComplete = TRUE]
     IN  IF k = 0 THEN m_Instances' = m_Instances /\ world' = Taken(p)
         ELSE IF m_IsShuttingDown
         THEN m_Instances' = RemoveAt(T, k) /\ world' = Taken(p)
         ELSE /\ CanRedirect(T, world, k)
              /\ LET r == Redirect(T, Taken(p), k)
                 IN  m_Instances' = RemoveAt(r.tbl, k) /\ world' = r.world
  /\ UNCHANGED toServer /\ UnchangedByTable

-----------------------------------------------------------------------------
(* The master's timer and its shutdown. *)

\* Affirmations have been pending for instanceReadyTimeout: the world is told
\* to shut down and what it has not affirmed is redirected.
AffirmationTimeout(k) ==
  /\ ~ m_IsShuttingDown
  /\ m_Instances[k].pendingAffirmations # <<>> /\ ~ m_Instances[k].affirmTimedOut
  /\ May("timeout")
  /\ LET T == [m_Instances EXCEPT ![k].shuttingDown = TRUE, ![k].affirmTimedOut = TRUE]
         W == SendToWorld(world, T[k].sysAddr, <<Msg("SHUTDOWN")>>)
     IN  /\ CanRedirect(T, W, k)
         /\ m_Instances' = Redirect(T, W, k).tbl
         /\ world' = Redirect(T, W, k).world
  /\ UNCHANGED <<m_IsShuttingDown, serverVars>>

\* ShutdownSequence: SHUTDOWN to everyone connected, PruneUnreadyInstances,
\* the rest is marked as shutting down.
ShutdownSequence ==
  /\ ~ m_IsShuttingDown
  /\ May("masterShutdown")
  /\ m_IsShuttingDown' = TRUE
  /\ LET left == Prune(m_Instances)
     IN  m_Instances' = [k \in DOMAIN left |-> [left[k] EXCEPT !.shuttingDown = TRUE]]
  /\ world' = [p \in DOMAIN world |->
                 IF world[p].connected THEN [world[p] EXCEPT !.in = Append(@, Msg("SHUTDOWN"))]
                 ELSE world[p]]
  /\ UNCHANGED serverVars

-----------------------------------------------------------------------------
ServerStep(s) ==
  \/ \E zone \in Zones : RequestZoneTransfer(s, zone)
  \/ \E pw \in Passwords : RequestPrivateZone(s, pw)
  \/ HandleZoneTransferResponse(s)

Command ==
  \/ \E zone \in Zones : PrepZone(zone)
  \/ \E zone \in Zones, pw \in Passwords : CreatePrivateZone(zone, pw)
  \/ \E p \in DOMAIN world : ShutdownInstance(world[p].zone.map, p)

WorldStep(p) ==
  \/ WorldConnect(p)      \/ WorldReceive(p)    \/ WorldExit(p)    \/ WorldGivesUp(p)
  \/ WorldFailsToStart(p) \/ WorldCrash(p)      \/ ConnectionLost(p)
  \/ PlayerEnters(p)      \/ PlayerEntersTooLate(p)
  \/ PlayerLeaves(p)      \/ PlayerLeavesUnreported(p)

MasterReceive(p) ==
  \/ HandleServerInfo(p)     \/ HandleWorldReady(p)       \/ HandleAffirmTransfer(p)
  \/ HandlePlayerAdded(p)    \/ HandlePlayerRemoved(p)
  \/ HandleShutdownResponse(p) \/ HandleDisconnected(p)

Next ==
  \/ \E s \in Servers : ServerStep(s)
  \/ Command
  \/ \E p \in DOMAIN world : WorldStep(p) \/ MasterReceive(p)
  \/ \E k \in DOMAIN m_Instances : AffirmationTimeout(k)
  \/ ShutdownSequence

Spec == Init /\ [][Next]_vars

\* Master, worlds and servers poll their queues in every frame of their main
\* loops, and a process that has loaded connects; nothing else is promised.
Fairness ==
  /\ \A p \in WorldIds :
       /\ WF_vars(p \in DOMAIN world /\ MasterReceive(p))
       /\ WF_vars(p \in DOMAIN world /\ WorldConnect(p))
       /\ WF_vars(p \in DOMAIN world /\ WorldReceive(p))
  /\ \A s \in Servers : WF_vars(HandleZoneTransferResponse(s))

FairSpec == Spec /\ Fairness

-----------------------------------------------------------------------------
(* Properties *)

\* Every variable has values of its type.
TypeOK ==
  /\ m_Instances \in Seq(Instance)
  /\ m_IsShuttingDown \in BOOLEAN
  /\ world \in Seq(World)
  /\ Len(world) <= MaxWorlds
  /\ asked \in [Servers -> Seq(Wants)]
  /\ \A s \in Servers : Len(asked[s]) <= MaxRequests
  /\ requests \in [Servers -> SUBSET (1..MaxRequests)]
  /\ toServer \in Seq(Answer)
  /\ granted \subseteq [server : Servers, id : 1..MaxRequests, world : WorldIds]
  /\ events \in 0..MaxEvents

\* No two instances of the table listen on the same port, whatever is removed,
\* added back by SERVER_INFO or started on a port that has become free.
PortsDistinct ==
  \A j, k \in DOMAIN m_Instances : j # k => m_Instances[j].port # m_Instances[k].port

\* An answer to a request for a public zone that is still open names a process
\* that was started for exactly this map and clone and has finished loading.
AnswersAreGood ==
  \A a \in ToSet(toServer) :
    a.id \in requests[a.server] /\ asked[a.server][a.id] \in Zones =>
      /\ a.zone = asked[a.server][a.id]
      /\ world[a.world].zone = a.zone
      /\ world[a.world].ready

\* Requests are parked on an instance only until it is ready, and only an
\* instance that is ready and has an address is asked for affirmations.
ParkedOnTheRightList ==
  \A k \in DOMAIN m_Instances : LET i == m_Instances[k] IN
    /\ i.pendingRequests # <<>> => ~ i.ready
    /\ i.pendingAffirmations # <<>> => i.ready /\ i.sysAddr # Unassigned

\* The end of the connection is on the way.
Ending(q) == \E n \in DOMAIN q : q[n].kind \in {"DISCONNECTED", "CONNECTION_LOST"}

CountId(q, kind, id) ==
  Cardinality({n \in DOMAIN q : q[n].kind = kind /\ q[n].id = id})

\* Nobody waits for an affirmation that is not coming: a request waits on an
\* instance exactly as often as its question is on the way to the world or the
\* answer on the way back, unless the end of the connection is on the way.
AffirmationOnTheWire ==
  \A k \in DOMAIN m_Instances : m_Instances[k].pendingAffirmations # <<>> =>
    LET i == m_Instances[k]
        w == world[i.sysAddr]
        waiting(id) == Cardinality({n \in DOMAIN i.pendingAffirmations :
                                      i.pendingAffirmations[n].id = id})
    IN  \/ Ending(w.out)
        \/ \A id \in 1..MaxRequests :
             waiting(id) = CountId(w.in, "AFFIRM_TRANSFER_REQUEST", id)
                           + CountId(w.out, "AFFIRM_TRANSFER_RESPONSE", id)

CountKind(q, kind) == Cardinality({n \in DOMAIN q : q[n].kind = kind})

\* The population the master compares with the soft cap is never less than the
\* number of players in the world, but for the reports that are still on the
\* way: a world is not given more players than its cap because some were never
\* counted or were taken off twice.  (It may be more: players who enter too
\* late or leave unreported are counted for ever.)
ClientCountCoversPopulation ==
  \A k \in DOMAIN m_Instances :
    LET i == m_Instances[k]
        w == world[i.id]
    IN  i.ready /\ ~ i.shuttingDown /\ ~ IsPrivate(i) /\ w.connected
        /\ ~ Ending(w.out)
        => i.clients + CountKind(w.out, "PLAYER_ADDED")
             >= w.players + CountKind(w.out, "PLAYER_REMOVED")

Waiting(q, s, id) == \E n \in DOMAIN q : q[n].id = id /\ q[n].server = s

\* The request is on a list of some instance or its answer is on the way.
Tracked(s, id) ==
  \/ \E k \in DOMAIN m_Instances :
       \/ Waiting(m_Instances[k].pendingRequests, s, id)
       \/ Waiting(m_Instances[k].pendingAffirmations, s, id)
  \/ Waiting(toServer, s, id)

\* No request for a public zone is forgotten: until its callback is called it
\* is on some list or its answer is on the way, through world exits, crashes
\* of ready worlds, affirmation timeouts and the redirects they cause.
NoRequestForgotten ==
  \A s \in Servers : \A id \in requests[s] : asked[s][id] \in Zones => Tracked(s, id)

\* A world that is running, connected and has nothing in flight is in the
\* table under its own id and address: only then can the master redirect its
\* requests, stop it, or count its players.
ConnectedWorldsAreKnown ==
  \A p \in DOMAIN world :
    world[p].running /\ world[p].connected /\ world[p].in = <<>> /\ world[p].out = <<>> =>
      \E k \in DOMAIN m_Instances : m_Instances[k].id = p /\ m_Instances[k].sysAddr = p

\* Every request for a public zone is answered in the end: while ready worlds
\* may crash, exit or time out, worlds start and connections last.
EveryRequestAnswered ==
  \A s \in Servers : \A id \in 1..MaxRequests :
    (id \in requests[s] /\ asked[s][id] \in Zones) ~> (id \notin requests[s])

\* The protocol keeps the promise of TransferService: a world opens when its
\* process has loaded.  With every kind of failure, no callback is called
\* twice or with a world that does not serve the zone.
Promise == INSTANCE TransferService WITH
  opened <- {<<p, world[p].zone>> : p \in {q \in DOMAIN world : world[q].ready}}

KeepsPromise == Promise!Spec

-----------------------------------------------------------------------------
(* What a comment of the code says and the code does not do *)

HandlesDisconnect(p) ==
  Receives(p, "DISCONNECTED") /\ world'[p].out = Tail(world[p].out)

\* A world that ends its connection intentionally is deleted "as we'll start a
\* new one anyway if needed" (MasterServer.cpp:491): when its DISCONNECTED is
\* handled, what waits for it is not forgotten with it.
DisconnectKeepsRequests ==
  [][\A p \in DOMAIN world : HandlesDisconnect(p) =>
       \A s \in Servers : \A id \in requests[s] : Tracked(s, id) => Tracked(s, id)']_vars
=============================================================================
