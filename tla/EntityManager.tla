---------------------------- MODULE EntityManager ----------------------------
(***************************************************************************)
(* The entities of a world and what its clients show of them:              *)
(* src/dGame/EntityManager.cpp, with dComponents/GhostComponent.cpp.       *)
(*                                                                         *)
(* An entity is shown under a network id, which another one gets when it   *)
(* is deleted.  Candidates for ghosting are shown to the players near them *)
(* (who observe them), all others to everybody; a player whose client is   *)
(* still loading has what appears meanwhile kept in his limbo.  A          *)
(* destroyed entity is taken off the clients at once and deleted at the    *)
(* end of the frame.                                                       *)
(*                                                                         *)
(* Messages to a client arrive in order (RELIABLE_ORDERED), so what a      *)
(* client shows changes when the server sends.  Between two deletions the  *)
(* scripts, physics, spawners and packets of a frame act in any order.     *)
(* Left out: serializations, invisible game masters, cut scenes that       *)
(* override the reference point, collectibles, and entities that move or   *)
(* are taken off the clients without being destroyed.                      *)
(***************************************************************************)
EXTENDS Integers, FiniteSets

CONSTANTS
  Players,     \* entities of players, under the persistent id of the character
  Candidates,  \* entities that are ghosted; each id is used once
  Plain,       \* others, of spawners: without one nobody who loads later is shown it
  Spots,       \* where a player can be
  Origin,      \* the reference point of a new GhostComponent
  Distance,    \* of a candidate from a spot: "near", "between", or "far"
  MaxLoads     \* bound: how often players load into the world

ASSUME EntityConstants ==
  /\ IsFiniteSet(Players)
  /\ Players \cap Candidates = {} /\ Players \cap Plain = {} /\ Candidates \cap Plain = {}
  /\ Origin \in Spots /\ MaxLoads \in Nat
  /\ Distance \in [Candidates -> [Spots -> {"near", "between", "far"}]]

Entity == Players \cup Candidates \cup Plain

VARIABLES
  made,              \* things created so far
  loads,             \* level loads so far
  m_Entities,
  networkId,         \* of an entity: 0 if it has none
  m_LostNetworkIds, m_NetworkIdCounter,
  m_EntitiesToGhost, m_EntitiesToDelete,
  m_PlayersToUpdateGhosting,
  m_Observers,       \* of a candidate: how many players observe it
  observed, limbo,   \* of a player: m_ObservedEntities, m_LimboConstructions
  ready,             \* players whose client has loaded
  reference,         \* of a player: the ghost reference point
  replicas           \* of a player: the pairs <<network id, entity>> his client shows

ids     == <<networkId, m_LostNetworkIds, m_NetworkIdCounter>>
queues  == <<m_EntitiesToDelete, m_PlayersToUpdateGhosting>>
ghosts  == <<m_EntitiesToGhost, m_Observers, observed, reference>>
clients == <<limbo, ready, replicas>>
vars    == <<made, loads, m_Entities, ids, queues, ghosts, clients>>

Present == m_Entities \cap Players           \* PlayerManager::GetAllPlayers
Online  == Present \ m_EntitiesToDelete      \* those who are still connected
Live    == m_Entities \ m_EntitiesToDelete

Init ==
  /\ made = {} /\ loads = 0 /\ m_Entities = {}
  /\ networkId = [e \in Entity |-> 0]
  /\ m_LostNetworkIds = {} /\ m_NetworkIdCounter = 0
  /\ m_EntitiesToGhost = {} /\ m_EntitiesToDelete = {}
  /\ m_PlayersToUpdateGhosting = {}
  /\ m_Observers = [e \in Candidates |-> 0]
  /\ observed = [p \in Players |-> {}] /\ limbo = [p \in Players |-> {}]
  /\ ready = {}
  /\ reference = [p \in Players |-> Origin]
  /\ replicas = [p \in Players |-> {}]

(***************************************************************************)
(* Network ids.  Which of the lost ids is on top of the stack makes no     *)
(* difference: any is taken.                                               *)
(***************************************************************************)
FreshIds == IF m_LostNetworkIds # {} THEN m_LostNetworkIds ELSE {m_NetworkIdCounter + 1}

TakeId(e, id) ==
  /\ id \in FreshIds
  /\ networkId' = [networkId EXCEPT ![e] = id]
  /\ m_LostNetworkIds' = m_LostNetworkIds \ {id}
  /\ m_NetworkIdCounter' = IF id > m_NetworkIdCounter THEN id ELSE m_NetworkIdCounter

\* Mutant of LostIds: the ids of players are not given back.
LostIdsOfThings == {networkId[e] : e \in m_EntitiesToDelete \ Players}

LostIds == {networkId[e] : e \in m_EntitiesToDelete}

(***************************************************************************)
(* Construction and destruction                                            *)
(***************************************************************************)
\* The players a new entity that is not ghosted is sent to.
SentTo == Online \cap ready

\* Mutant of IntoLimbo: who is still loading gets nothing.
IntoLimboNone == {}

IntoLimbo == Present \ ready

\* Mutant of Shown: a client that is still loading is told nothing.
ShownToReady(p) == p \in Online \cap ready

\* A message to this player reaches a client.
Shown(p) == p \in Online

\* CheckGhosting, for an entity nobody observes yet: the players near it.
Watchers(e) == {p \in Present : Distance[e][reference[p]] = "near"}

\* An object is created and constructed, as a spawner or a script does it.
ConstructCandidate(e) ==
  /\ e \in Candidates \ made
  /\ made' = made \cup {e} /\ m_Entities' = m_Entities \cup {e}
  /\ \E id \in FreshIds :
       /\ TakeId(e, id)
       /\ replicas' = [p \in Players |->
            IF p \in Watchers(e) /\ Shown(p) THEN replicas[p] \cup {<<id, e>>} ELSE replicas[p]]
  /\ m_EntitiesToGhost' = m_EntitiesToGhost \cup {e}
  /\ observed' = [p \in Players |-> IF p \in Watchers(e) THEN observed[p] \cup {e} ELSE observed[p]]
  /\ m_Observers' = [m_Observers EXCEPT ![e] = Cardinality(Watchers(e))]
  /\ UNCHANGED <<loads, queues, reference, limbo, ready>>

ConstructPlain(e) ==
  /\ e \in Plain \ made
  /\ made' = made \cup {e} /\ m_Entities' = m_Entities \cup {e}
  /\ \E id \in FreshIds :
       /\ TakeId(e, id)
       /\ replicas' = [p \in Players |->
            IF p \in SentTo THEN replicas[p] \cup {<<id, e>>} ELSE replicas[p]]
  /\ limbo' = [p \in Players |-> IF p \in IntoLimbo THEN limbo[p] \cup {e} ELSE limbo[p]]
  /\ UNCHANGED <<loads, queues, ghosts, ready>>

\* DestructEntity, sent to all clients.
DestructEntity(e) ==
  /\ replicas' = [p \in Players |-> {r \in replicas[p] : r[1] # networkId[e]}]
  /\ limbo' = [p \in Players |-> IF p \in IntoLimbo THEN limbo[p] \ {e} ELSE limbo[p]]

DestroyEntity(e) ==
  /\ e \in Live \ Players
  /\ DestructEntity(e)
  /\ m_EntitiesToDelete' = m_EntitiesToDelete \cup {e}
  /\ UNCHANGED <<made, loads, m_Entities, ids, ghosts, ready, m_PlayersToUpdateGhosting>>

\* Mutant of Unobserved: the destructor of GhostComponent counts nothing down.
UnobservedNone(e) == 0

\* How many of the players who observe an entity are deleted with this frame.
Unobserved(e) == Cardinality({p \in m_EntitiesToDelete \cap Players : e \in observed[p]})

SetObservers(value) == IF value < 0 THEN 0 ELSE value

\* Mutant of GhostsLeft: a deleted entity stays on the list.
GhostsLeftAll == m_EntitiesToGhost

GhostsLeft == m_EntitiesToGhost \ m_EntitiesToDelete

\* DeleteEntities, with the destructors of Entity and GhostComponent.
DeleteEntities ==
  /\ m_EntitiesToDelete # {}
  /\ m_Entities' = m_Entities \ m_EntitiesToDelete
  /\ networkId' = [e \in Entity |-> IF e \in m_EntitiesToDelete THEN 0 ELSE networkId[e]]
  /\ m_LostNetworkIds' = m_LostNetworkIds \cup LostIds
  /\ m_EntitiesToGhost' = GhostsLeft
  /\ m_Observers' = [e \in Candidates |->
       IF e \in m_EntitiesToDelete THEN 0 ELSE SetObservers(m_Observers[e] - Unobserved(e))]
  /\ observed' = [p \in Players |-> IF p \in m_EntitiesToDelete THEN {} ELSE observed[p]]
  /\ limbo' = [p \in Players |-> IF p \in m_EntitiesToDelete THEN {} ELSE limbo[p]]
  /\ reference' = [p \in Players |-> IF p \in m_EntitiesToDelete THEN Origin ELSE reference[p]]
  /\ ready' = ready \ m_EntitiesToDelete
  /\ m_EntitiesToDelete' = {}
  /\ UNCHANGED <<made, loads, m_NetworkIdCounter, m_PlayersToUpdateGhosting, replicas>>

(***************************************************************************)
(* Players                                                                 *)
(***************************************************************************)
\* What UpdateGhosting starts to show to a player at a spot.
Comes(p, spot) == {e \in m_EntitiesToGhost \ observed[p] : Distance[e][spot] = "near"}

\* LEVEL_LOAD_COMPLETE: the entity of the player is created and constructed
\* for the others; then ConstructAllEntities constructs for his client all
\* that is not ghosted, himself included, and what is near.
LevelLoadComplete(p) ==
  /\ p \in Players \ m_Entities  \* his reference point is the origin
  /\ loads < MaxLoads /\ loads' = loads + 1
  /\ m_Entities' = m_Entities \cup {p}
  /\ observed' = [observed EXCEPT ![p] = Comes(p, reference[p])]
  /\ m_Observers' = [e \in Candidates |->
       IF e \in Comes(p, reference[p]) THEN m_Observers[e] + 1 ELSE m_Observers[e]]
  /\ limbo' = [q \in Players |-> IF q \in IntoLimbo THEN limbo[q] \cup {p} ELSE limbo[q]]
  /\ \E id \in FreshIds :
       /\ TakeId(p, id)
       /\ replicas' = [q \in Players |->
            IF q = p THEN {<<id, p>>} \cup
                 {<<networkId[e], e>> :
                    e \in (m_Entities \ Candidates) \cup Comes(p, reference[p])}
            ELSE IF q \in SentTo THEN replicas[q] \cup {<<id, p>>} ELSE replicas[q]]
  /\ UNCHANGED <<made, queues, m_EntitiesToGhost, reference, ready>>

\* PLAYER_LOADED: what waits in the limbo is constructed.
PlayerLoaded(p) ==
  /\ p \in Online \ ready
  /\ ready' = ready \cup {p}
  /\ replicas' = [replicas EXCEPT ![p] = @ \cup
       {<<networkId[e], e>> : e \in limbo[p] \cap m_Entities}]
  /\ limbo' = [limbo EXCEPT ![p] = {}]
  /\ UNCHANGED <<made, loads, m_Entities, ids, queues, ghosts>>

\* The connection of a player ends, and his entity is destroyed.
Disconnect(p) ==
  /\ p \in Online
  /\ replicas' = [q \in Players |->
       IF q = p THEN {} ELSE {r \in replicas[q] : r[1] # networkId[p]}]
  /\ limbo' = [q \in Players |-> IF q \in IntoLimbo THEN limbo[q] \ {p} ELSE limbo[q]]
  /\ m_EntitiesToDelete' = m_EntitiesToDelete \cup {p}
  /\ UNCHANGED <<made, loads, m_Entities, ids, ghosts, ready, m_PlayersToUpdateGhosting>>

\* Mutant of Queued: only a player who has loaded is queued.
QueuedIfReady(p) == IF p \in ready THEN {p} ELSE {}

Queued(p) == {p}

\* ProcessPositionUpdate, with QueueGhostUpdate.
PositionUpdate(p, spot) ==
  /\ p \in Online
  /\ reference' = [reference EXCEPT ![p] = spot]
  /\ m_PlayersToUpdateGhosting' = m_PlayersToUpdateGhosting \cup Queued(p)
  /\ UNCHANGED <<made, loads, m_Entities, ids, m_EntitiesToDelete, m_EntitiesToGhost, m_Observers,
                 observed, clients>>

\* What UpdateGhosting no longer shows to a player.
Goes(p, spot) == {e \in m_EntitiesToGhost \cap observed[p] : Distance[e][spot] = "far"}

\* UpdateGhosting, once a second, for the players who have moved.
UpdateGhosting ==
  LET moved == m_PlayersToUpdateGhosting \cap Present
      new == [p \in Players |-> IF p \in moved THEN Comes(p, reference[p]) ELSE {}]
      old == [p \in Players |-> IF p \in moved THEN Goes(p, reference[p]) ELSE {}]
  IN
  /\ m_PlayersToUpdateGhosting # {}
  /\ observed' = [p \in Players |-> (observed[p] \ old[p]) \cup new[p]]
  /\ m_Observers' = [e \in Candidates |->
       SetObservers(m_Observers[e] + Cardinality({p \in moved : e \in new[p]})
                                   - Cardinality({p \in moved : e \in old[p]}))]
  /\ replicas' = [p \in Players |->
       IF ~Shown(p) THEN replicas[p]
       ELSE {r \in replicas[p] : r[1] \notin {networkId[e] : e \in old[p]}} \cup
            {<<networkId[e], e>> : e \in new[p]}]
  /\ m_PlayersToUpdateGhosting' = {}
  /\ UNCHANGED <<made, loads, m_Entities, ids, m_EntitiesToDelete, m_EntitiesToGhost, reference,
                 limbo, ready>>

Next ==
  \/ \E e \in Candidates : ConstructCandidate(e)
  \/ \E e \in Plain : ConstructPlain(e)
  \/ \E e \in Candidates \cup Plain : DestroyEntity(e)
  \/ DeleteEntities
  \/ \E p \in Players : LevelLoadComplete(p) \/ PlayerLoaded(p) \/ Disconnect(p)
  \/ \E p \in Players, spot \in Spots : PositionUpdate(p, spot)
  \/ UpdateGhosting

Spec == Init /\ [][Next]_vars

-----------------------------------------------------------------------------
TypeOK ==
  /\ made \subseteq Candidates \cup Plain /\ loads \in 0..MaxLoads
  /\ m_Entities \subseteq Players \cup made
  /\ networkId \in [Entity -> Nat]
  /\ m_LostNetworkIds \subseteq Nat /\ m_NetworkIdCounter \in Nat
  /\ m_EntitiesToGhost = m_Entities \cap Candidates
  /\ m_EntitiesToDelete \subseteq m_Entities
  /\ m_PlayersToUpdateGhosting \subseteq Players
  /\ m_Observers \in [Candidates -> Nat]
  /\ observed \in [Players -> SUBSET Candidates]
  /\ limbo \in [Players -> SUBSET (Players \cup Plain)]
  /\ ready \subseteq Present
  /\ reference \in [Players -> Spots]
  /\ replicas \in [Players -> SUBSET (Nat \X Entity)]

\* No network id is shared or lost track of: those in use and those waiting
\* for reuse are the ids handed out so far, and the 16 bits of the counter
\* (a number here) last as long as the world has no more entities at a time.
NetworkIdsConserved ==
  LET used == {networkId[e] : e \in m_Entities} IN
  /\ \A e, f \in m_Entities : networkId[e] = networkId[f] => e = f
  /\ used \cap m_LostNetworkIds = {}
  /\ used \cup m_LostNetworkIds = 1..m_NetworkIdCounter

\* A candidate counts its observers right, whoever moved, left or was
\* deleted meanwhile: it is put to sleep when, and only when, nobody is left.
ObserversCounted ==
  \A e \in m_Entities \cap Candidates :
    m_Observers[e] = Cardinality({p \in Present : e \in observed[p]})

\* The server's idea of what a player observes is what his client shows, also
\* after ids were reused and players came back.
ObservedAreShown ==
  \A p \in Online, e \in Live \cap Candidates :
    e \in observed[p] <=> <<networkId[e], e>> \in replicas[p]

\* A client that has loaded shows everything that is not ghosted, and one that
\* is loading will: nothing falls between the level load and the limbo.
NothingIsMissed ==
  \A p \in Online, e \in Live \ Candidates :
    \/ <<networkId[e], e>> \in replicas[p]
    \/ p \notin ready /\ e \in limbo[p]

\* Whatever a player came near to is shown to him, and what he left is not,
\* unless he is queued for the next update: no update is lost when entities
\* appear, players load, or the queue is emptied between two moves.
ViewCurrent ==
  \A p \in Online \ m_PlayersToUpdateGhosting, e \in Live \cap Candidates :
    /\ Distance[e][reference[p]] = "near" => e \in observed[p]
    /\ Distance[e][reference[p]] = "far"  => e \notin observed[p]

\* EntityManager.cpp:199 "Destruct networked entities": what is destroyed is
\* taken off the clients, and none shows an entity that was deleted.
OnlyEntitiesAreShown ==
  \A p \in Online : \A r \in replicas[p] : r[2] \in m_Entities
=============================================================================
