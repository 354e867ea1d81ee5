------------------------------- MODULE Lobby -------------------------------
(***************************************************************************)
(* The lobbies and instances of a scripted activity                        *)
(* (dGame/dComponents/ActivityComponent).  Players join, get ready and     *)
(* leave by messages, their entities come to and go from the world at any  *)
(* time, and Update, called once a frame, removes who has gone, runs the   *)
(* timers and starts the instances.                                        *)
(*                                                                         *)
(* Time is counted in seconds, one frame a second: what the timers do does *)
(* not depend on the length of a frame.  The transfer of the participants  *)
(* to the instance's zone is ZoneTransfer's matter, the team they form     *)
(* ChatTeams'; here a player who is transferred departs, sooner or later.  *)
(***************************************************************************)
EXTENDS Integers, Sequences, FiniteSets, SequencesExt

CONSTANTS
  Players,
  Activities,    \* rows of CDActivitiesTable; hasLobby: instanceMapID is another map
  MaxLobbies,    \* bound: lobbies ever created
  MaxInstances,  \* bound: instances created at the join, without a lobby
  MaxMoves       \* bound: arrivals and departures

ASSUME LobbyConstants ==
  /\ Activities \subseteq [minTeams : Nat, maxTeams : Nat, minTeamSize : Nat, maxTeamSize : Nat,
                           waitTime : Nat, startDelay : Nat, hasLobby : BOOLEAN]
  /\ MaxLobbies \in Nat /\ MaxInstances \in Nat /\ MaxMoves \in Nat

\* The rows of activities with a lobby: somebody may play, the delays last a second.
ASSUME LobbiedActivities ==
  \A a \in Activities : a.hasLobby => a.maxTeamSize > 0 /\ a.waitTime > 0 /\ a.startDelay > 0

VARIABLES
  m_ActivityInfo,  \* the row of this activity
  m_Queue,         \* std::map<LWOOBJID, Lobby>, iterated by ascending id
  lobbies,         \* how many lobbies have been created; ids ascend
  m_Instances,     \* per instance, its participants; AddParticipant adds nobody twice
  present,         \* the players whose entities are in the world
  started,         \* history: how often each lobby has started an instance
  moves

vars == <<m_ActivityInfo, m_Queue, lobbies, m_Instances, present, started, moves>>

LobbyPlayer == [entityID : Players, ready : BOOLEAN]
LobbyType   == [players : Seq(LobbyPlayer), timer : Int]

-----------------------------------------------------------------------------
Size(lobby) == Len(lobby.players)

\* Mutant of RoomIn: the last place is given twice.
RoomInOneMore(lobby) ==
  \/ Size(lobby) <= m_ActivityInfo.maxTeamSize
  \/ m_ActivityInfo.maxTeamSize = 1 /\ Size(lobby) <= m_ActivityInfo.maxTeams

\* "An empty slot in an existing lobby": a lobby of single players counts teams.
RoomIn(lobby) ==
  \/ Size(lobby) < m_ActivityInfo.maxTeamSize
  \/ m_ActivityInfo.maxTeamSize = 1 /\ Size(lobby) < m_ActivityInfo.maxTeams

\* The lobby has the players it takes to start.
Enough(lobby) ==
  \/ m_ActivityInfo.maxTeamSize # 1 /\ Size(lobby) >= m_ActivityInfo.minTeamSize
  \/ m_ActivityInfo.maxTeamSize = 1 /\ Size(lobby) >= m_ActivityInfo.minTeams

Holds(lobby, p) == \E n \in DOMAIN lobby.players : lobby.players[n].entityID = p

Holders(Q, p) == {id \in DOMAIN Q : Holds(Q[id], p)}

\* Mutant of PlayerIsInQueue: only the first lobby is searched.
PlayerIsInFirstLobby(p) == m_Queue # <<>> /\ Holds(m_Queue[Min(DOMAIN m_Queue)], p)

PlayerIsInQueue(p) == Holders(m_Queue, p) # {}

\* Mutant of IsPlayedBy: only the first instance is searched.
IsFirstPlayedBy(p) == p \in present /\ m_Instances # <<>> /\ p \in m_Instances[1]

\* GetParticipants lists the participants who are in the world.
IsPlayedBy(p) == p \in present /\ \E k \in DOMAIN m_Instances : p \in m_Instances[k]

Without(players, p) ==
  RemoveAt(players, Min({n \in DOMAIN players : players[n].entityID = p}))

SetPlayers(Q, k, players) ==
  [id \in DOMAIN Q |-> IF id = k THEN [players |-> players, timer |-> Q[k].timer] ELSE Q[id]]

\* PlayerLeave(playerID): out of the first lobby that has him.
WithoutPlayer(Q, p) ==
  IF Holders(Q, p) = {} THEN Q
  ELSE LET k == Min(Holders(Q, p)) IN SetPlayers(Q, k, Without(Q[k].players, p))

-----------------------------------------------------------------------------
Init ==
  /\ m_ActivityInfo \in Activities
  /\ m_Queue = <<>> /\ lobbies = 0 /\ m_Instances = <<>>
  /\ present = Players
  /\ started = [id \in 1..MaxLobbies |-> 0]
  /\ moves = 0

\* EntityManager: a player's entity is created or deleted between two frames.
PlayerArrives(p) ==
  /\ p \notin present /\ moves < MaxMoves
  /\ present' = present \cup {p} /\ moves' = moves + 1
  /\ UNCHANGED <<m_ActivityInfo, m_Queue, lobbies, m_Instances, started>>

PlayerDeparts(p) ==
  /\ p \in present /\ moves < MaxMoves
  /\ present' = present \ {p} /\ moves' = moves + 1
  /\ UNCHANGED <<m_ActivityInfo, m_Queue, lobbies, m_Instances, started>>

NewLobby(player) == [players |-> <<player>>, timer |-> m_ActivityInfo.waitTime]

\* Mutant of GenerateObjectID: the id is taken before it is advanced.
GenerateObjectIDPostIncrement == lobbies

GenerateObjectID == lobbies + 1

\* PlayerJoinLobby: the first lobby with room, or a new one.
PlayerJoinLobby(p) ==
  LET player == [entityID |-> p, ready |-> FALSE]
      open   == {id \in DOMAIN m_Queue : RoomIn(m_Queue[id])}
  IN  \/ /\ open # {}
         /\ m_Queue' = SetPlayers(m_Queue, Min(open), Append(m_Queue[Min(open)].players, player))
         /\ UNCHANGED lobbies
      \/ /\ open = {} /\ lobbies < MaxLobbies
         /\ m_Queue' = [id \in DOMAIN m_Queue \cup {GenerateObjectID} |->
              IF id \in DOMAIN m_Queue THEN m_Queue[id] ELSE NewLobby(player)]
         /\ lobbies' = lobbies + 1

\* PlayerJoin: the lobby, or an instance on the spot.
PlayerJoin(p) ==
  /\ p \in present /\ ~ PlayerIsInQueue(p)
  /\ \/ m_ActivityInfo.hasLobby /\ PlayerJoinLobby(p) /\ UNCHANGED m_Instances
     \/ /\ ~ m_ActivityInfo.hasLobby /\ ~ IsPlayedBy(p) /\ Len(m_Instances) < MaxInstances
        /\ m_Instances' = Append(m_Instances, {p})
        /\ UNCHANGED <<m_Queue, lobbies>>
  /\ UNCHANGED <<m_ActivityInfo, present, started, moves>>

\* HandleMessageBoxResponse: LobbyExit.
PlayerLeave(p) ==
  /\ p \in present /\ PlayerIsInQueue(p)
  /\ m_Queue' = WithoutPlayer(m_Queue, p)
  /\ UNCHANGED <<m_ActivityInfo, lobbies, m_Instances, present, started, moves>>

MarkReady(lobby, p, bReady) ==
  [players |-> [n \in DOMAIN lobby.players |->
                  LET m == lobby.players[n]
                  IN  [entityID |-> m.entityID, ready |-> IF m.entityID = p THEN bReady ELSE m.ready]],
   timer |-> lobby.timer]

PlayerReady(p, bReady) ==
  /\ p \in present /\ PlayerIsInQueue(p)
  /\ m_Queue' = [id \in DOMAIN m_Queue |-> MarkReady(m_Queue[id], p, bReady)]
  /\ UNCHANGED <<m_ActivityInfo, lobbies, m_Instances, present, started, moves>>

\* PlayerRemove: out of the first instance that lists him; an instance none of
\* whose participants is in the world is deleted with him.
PlayerRemove(p) ==
  /\ IsPlayedBy(p)
  /\ LET k    == Min({i \in DOMAIN m_Instances : p \in m_Instances[i]})
         rest == m_Instances[k] \ {p}
     IN  m_Instances' = IF rest \cap present = {} THEN RemoveAt(m_Instances, k)
                        ELSE [m_Instances EXCEPT ![k] = rest]
  /\ UNCHANGED <<m_ActivityInfo, m_Queue, lobbies, present, started, moves>>

-----------------------------------------------------------------------------
(* Update *)

AllReady(lobby) == \A n \in DOMAIN lobby.players : lobby.players[n].ready

\* If everyone is ready, the timer jumps.
Jumped(lobby, timer) ==
  IF AllReady(lobby) /\ timer > m_ActivityInfo.startDelay THEN m_ActivityInfo.startDelay ELSE timer

SetTimer(lobby, timer) ==
  IF lobby.players = <<>> THEN lobby
  ELSE [players |-> lobby.players, timer |-> Jumped(lobby, timer)]

\* Mutants of Tick: the timer runs for any lobby; it stands still in a full one.
TickAlways(lobby) == SetTimer(lobby, lobby.timer - 1)

TickBelowMaximum(lobby) ==
  SetTimer(lobby, IF Enough(lobby) /\ RoomIn(lobby) THEN lobby.timer - 1 ELSE lobby.timer)

\* The timer runs when there are enough players; an empty lobby is passed over.
Tick(lobby) == SetTimer(lobby, IF Enough(lobby) THEN lobby.timer - 1 ELSE lobby.timer)

Elapsed(lobby) == lobby.players # <<>> /\ lobby.timer <= 0

Gone(lobby) == \E n \in DOMAIN lobby.players : lobby.players[n].entityID \notin present

\* LoadPlayersIntoInstance: who is in the world and can pay.
Participants(lobby, payers) == {p \in present \cap payers : Holds(lobby, p)}

\* The n-th of the lobbies S, in order.
NthOf(S, n) == CHOOSE id \in S : Cardinality({i \in S : i <= id}) = n

\* The instances that lobbies S of Q start, in order.
NewInstances(Q, S, payers) == [n \in 1..Cardinality(S) |-> Participants(Q[NthOf(S, n)], payers)]

PlayersIn(Q, S) == {p \in Players : \E id \in S : Holds(Q[id], p)}

FirstGone(lobby) ==
  lobby.players[Min({n \in DOMAIN lobby.players : lobby.players[n].entityID \notin present})].entityID

GoneFrom == {id \in DOMAIN m_Queue : Gone(m_Queue[id])}

\* The lobbies the loop gets to: those before the first that somebody has gone from.
Reached(gone) == {id \in DOMAIN m_Queue : \A g \in gone : id < g}

Ticked(reached) ==
  [id \in DOMAIN m_Queue |-> IF id \in reached THEN Tick(m_Queue[id]) ELSE m_Queue[id]]

\* Update, of the lobbies ticked: those of starting start, whichever of their
\* players can pay.  When somebody has gone the loop ends there and he is
\* removed; then no lobby is removed, not those either that have started.
UpdateTo(gone, ticked, starting) ==
  /\ started' = [id \in 1..MaxLobbies |-> IF id \in starting THEN started[id] + 1 ELSE started[id]]
  /\ LET kept == {id \in DOMAIN m_Queue \ starting : m_Queue[id].players # <<>>}
     IN  m_Queue' = IF gone = {} THEN [id \in kept |-> ticked[id]]
                    ELSE WithoutPlayer(ticked, FirstGone(m_Queue[Min(gone)]))
  /\ \E payers \in SUBSET PlayersIn(ticked, starting) :
       m_Instances' = m_Instances \o NewInstances(ticked, starting, payers)

Update ==
  /\ m_Queue # <<>>
  /\ UNCHANGED <<m_ActivityInfo, lobbies, present, moves>>
  /\ \E gone \in {GoneFrom} : \E reached \in {Reached(gone)} : \E ticked \in {Ticked(reached)} :
     \E starting \in {{id \in reached : Elapsed(ticked[id])}} : UpdateTo(gone, ticked, starting)

-----------------------------------------------------------------------------
Next ==
  \/ \E p \in Players : \/ PlayerArrives(p) \/ PlayerDeparts(p)
                        \/ PlayerJoin(p) \/ PlayerLeave(p) \/ PlayerRemove(p)
  \/ \E p \in Players, bReady \in BOOLEAN : PlayerReady(p, bReady)
  \/ Update

Spec == Init /\ [][Next]_vars

\* Update is called in every frame.
FairSpec == Spec /\ WF_vars(Update)

-----------------------------------------------------------------------------
(* Properties *)

\* The types of the variables.
TypeOK ==
  /\ m_ActivityInfo \in Activities
  /\ lobbies \in 0..MaxLobbies
  /\ DOMAIN m_Queue \subseteq 1..lobbies
  /\ m_Queue \in [DOMAIN m_Queue -> LobbyType]
  /\ m_Instances \in Seq(SUBSET Players)
  /\ present \subseteq Players
  /\ started \in [1..MaxLobbies -> Nat]
  /\ moves \in 0..MaxMoves

\* A player waits in one lobby, in one place of it: PlayerLeave and PlayerReady
\* find him, and he is loaded into one instance.
OnePlacePerPlayer ==
  \A j, k \in DOMAIN m_Queue :
    \A m \in DOMAIN m_Queue[j].players, n \in DOMAIN m_Queue[k].players :
      m_Queue[j].players[m].entityID = m_Queue[k].players[n].entityID => j = k /\ m = n

\* No lobby has more players than the activity takes, whoever leaves, comes
\* back, or is removed by Update while others join.
LobbiesHaveRoom ==
  \A k \in DOMAIN m_Queue :
    \/ Size(m_Queue[k]) <= m_ActivityInfo.maxTeamSize
    \/ m_ActivityInfo.maxTeamSize = 1 /\ Size(m_Queue[k]) <= m_ActivityInfo.maxTeams

\* Without a lobby, a player takes part in one instance at a time, also when
\* he has left the world in between and was not removed.
OneInstancePerPlayer ==
  ~ m_ActivityInfo.hasLobby =>
    \A j, k \in DOMAIN m_Instances : m_Instances[j] \cap m_Instances[k] # {} => j = k

\* A lobby starts for the first time only with the players it takes, although
\* the timer stands still, jumps and runs on as players come, leave and get
\* ready.
FirstStartHasEnough ==
  [][\A id \in DOMAIN m_Queue : started[id] = 0 /\ started'[id] > 0 => Enough(m_Queue[id])]_vars

EnoughIn(id) == id \in DOMAIN m_Queue /\ Enough(m_Queue[id])

\* A lobby that has enough players starts, or players leave it until it has no
\* longer enough: other lobbies, whose players have gone, do not hold it up
\* for ever.
EnoughStarts ==
  \A id \in 1..MaxLobbies : EnoughIn(id) ~> (started[id] > 0 \/ ~ EnoughIn(id))

-----------------------------------------------------------------------------
(* What a comment of the code says and the code does not do *)

\* "The timer has elapsed, start the instance" (ActivityComponent.cpp:259): a
\* lobby starts one instance, and its players are sent to one.
LobbyStartsOnce == \A id \in 1..MaxLobbies : started[id] <= 1
=============================================================================
