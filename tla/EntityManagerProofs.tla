------------------------- MODULE EntityManagerProofs -------------------------
(***************************************************************************)
(* Proofs about EntityManager, for any number of players, entities and     *)
(* spots.  What its invariants need besides each other is that a thing     *)
(* nobody has made yet is unknown to players and clients, and that a       *)
(* player who is not there observes nothing and starts at the origin.      *)
(***************************************************************************)
EXTENDS EntityManager, FiniteSetTheorems, TLAPS

Unknown ==
  /\ \A p \in Players : observed[p] \subseteq made
  /\ \A p \in Players : \A r \in replicas[p] : r[2] \in Players \cup made

AbsentAreBlank ==
  \A p \in Players \ m_Entities : observed[p] = {} /\ reference[p] = Origin

\* The strengthening, without the count of observers.
EntityInv ==
  /\ TypeOK /\ NetworkIdsConserved
  /\ ObservedAreShown /\ NothingIsMissed /\ ViewCurrent
  /\ Unknown /\ AbsentAreBlank

\* An entity that gets an id gets one nobody has.
LEMMA NewId ==
  ASSUME TypeOK, NetworkIdsConserved, NEW e \in Entity \ m_Entities, NEW id, TakeId(e, id),
         m_Entities' = m_Entities \cup {e}
  PROVE  /\ id \in Nat /\ NetworkIdsConserved'
         /\ networkId' \in [Entity -> Nat]
         /\ m_LostNetworkIds' \subseteq Nat /\ m_NetworkIdCounter' \in Nat
         /\ networkId'[e] = id
         /\ \A f \in m_Entities : f # e /\ networkId'[f] = networkId[f]
<1> DEFINE used == {networkId[f] : f \in m_Entities}
<1>1. /\ \A f, g \in m_Entities : networkId[f] = networkId[g] => f = g
      /\ used \cap m_LostNetworkIds = {}
      /\ used \cup m_LostNetworkIds = 1..m_NetworkIdCounter
  BY DEF NetworkIdsConserved
<1>2. /\ networkId \in [Entity -> Nat] /\ m_LostNetworkIds \subseteq Nat
      /\ m_NetworkIdCounter \in Nat /\ m_Entities \subseteq Entity
  BY DEF TypeOK, Entity
<1>3. /\ id \in Nat /\ id \notin used
      /\ m_NetworkIdCounter' \in Nat
      /\ 1..m_NetworkIdCounter' = (1..m_NetworkIdCounter) \cup {id}
  <2>1. CASE m_LostNetworkIds # {}
    <3>1. id \in m_LostNetworkIds
      BY <2>1 DEF TakeId, FreshIds
    <3>2. id \in 1..m_NetworkIdCounter
      BY <3>1, <1>1
    <3>3. m_NetworkIdCounter' = m_NetworkIdCounter
      BY <3>2, <1>2 DEF TakeId
    <3> HIDE DEF used
    <3>4. QED BY <3>1, <3>2, <3>3, <1>1, <1>2
  <2>2. CASE m_LostNetworkIds = {}
    <3>1. id = m_NetworkIdCounter + 1
      BY <2>2 DEF TakeId, FreshIds
    <3>2. m_NetworkIdCounter' = m_NetworkIdCounter + 1
      BY <3>1, <1>2 DEF TakeId
    <3>3. used = 1..m_NetworkIdCounter
      BY <2>2, <1>1
    <3> HIDE DEF used
    <3>4. QED BY <3>1, <3>2, <3>3, <1>2
  <2>3. QED BY <2>1, <2>2
<1>4. /\ networkId' = [networkId EXCEPT ![e] = id]
      /\ m_LostNetworkIds' = m_LostNetworkIds \ {id}
  BY DEF TakeId
<1>5. networkId' \in [Entity -> Nat] /\ networkId'[e] = id
  BY <1>4, <1>3, <1>2
<1>6. \A f \in m_Entities : f # e /\ networkId'[f] = networkId[f]
  BY <1>4, <1>2
<1> DEFINE usedNext == {networkId'[f] : f \in m_Entities \cup {e}}
<1>7. usedNext = used \cup {id}
  BY <1>5, <1>6
<1>8. \A f, g \in m_Entities \cup {e} : networkId'[f] = networkId'[g] => f = g
  <2>1. \A f \in m_Entities : networkId'[f] # id
    BY <1>6, <1>3
  <2>2. QED BY <2>1, <1>1, <1>5, <1>6
<1>9. NetworkIdsConserved'
  <2>1. usedNext \cap m_LostNetworkIds' = {}
    <3> HIDE DEF used, usedNext
    <3>1. QED BY <1>7, <1>4, <1>1
  <2>2. usedNext \cup m_LostNetworkIds' = 1..m_NetworkIdCounter'
    <3> HIDE DEF used, usedNext
    <3>1. QED BY <1>7, <1>4, <1>1, <1>3
  <2>3. QED BY <2>1, <2>2, <1>8 DEF NetworkIdsConserved
<1>10. QED BY <1>2, <1>3, <1>4, <1>5, <1>6, <1>9

LEMMA InitHolds == Init => EntityInv
<1> SUFFICES ASSUME Init PROVE EntityInv
  OBVIOUS
<1> USE EntityConstants DEF Init
<1>1. TypeOK
  BY DEF TypeOK, Present
<1>2. NetworkIdsConserved
  BY DEF NetworkIdsConserved
<1>3. ObservedAreShown /\ NothingIsMissed /\ ViewCurrent
  BY DEF ObservedAreShown, NothingIsMissed, ViewCurrent, Online, Present
<1>4. Unknown /\ AbsentAreBlank
  BY DEF Unknown, AbsentAreBlank
<1>5. QED BY <1>1, <1>2, <1>3, <1>4 DEF EntityInv

LEMMA PlayersAreFinite ==
  ASSUME NEW S \in SUBSET Players
  PROVE  IsFiniteSet(S) /\ Cardinality(S) \in Nat
<1>1. IsFiniteSet(S)
  BY FS_Subset, EntityConstants
<1>2. QED BY <1>1, FS_CardinalityType

LEMMA CandidateStep ==
  ASSUME EntityInv, NEW e \in Candidates, ConstructCandidate(e)
  PROVE  EntityInv'
<1> USE EntityConstants DEF EntityInv
<1>1. PICK id \in FreshIds :
        /\ TakeId(e, id)
        /\ replicas' = [p \in Players |->
             IF p \in Watchers(e) /\ Shown(p) THEN replicas[p] \cup {<<id, e>>} ELSE replicas[p]]
  BY DEF ConstructCandidate
<1>2. /\ e \notin made /\ made' = made \cup {e} /\ m_Entities' = m_Entities \cup {e}
      /\ m_EntitiesToGhost' = m_EntitiesToGhost \cup {e}
      /\ observed' = [p \in Players |->
           IF p \in Watchers(e) THEN observed[p] \cup {e} ELSE observed[p]]
      /\ m_Observers' = [m_Observers EXCEPT ![e] = Cardinality(Watchers(e))]
      /\ UNCHANGED <<loads, m_EntitiesToDelete, m_PlayersToUpdateGhosting, reference, limbo, ready>>
  BY DEF ConstructCandidate, queues
<1>3. e \in Entity \ m_Entities /\ e \notin Players /\ e \notin m_EntitiesToDelete
  BY <1>2 DEF TypeOK, Entity
<1>4. /\ id \in Nat /\ NetworkIdsConserved'
      /\ networkId' \in [Entity -> Nat]
      /\ m_LostNetworkIds' \subseteq Nat /\ m_NetworkIdCounter' \in Nat
      /\ networkId'[e] = id
      /\ \A f \in m_Entities : f # e /\ networkId'[f] = networkId[f]
  BY <1>1, <1>2, <1>3, NewId
<1>5. /\ Present' = Present /\ Online' = Online /\ Live' = Live \cup {e}
      /\ Live \subseteq m_Entities /\ Present \subseteq Players /\ Online \subseteq Players
  BY <1>2, <1>3 DEF Present, Online, Live
<1>6. TypeOK'
  <2>1. Cardinality(Watchers(e)) \in Nat
    BY <1>5, PlayersAreFinite DEF Watchers
  <2>2. m_Observers' \in [Candidates -> Nat]
    BY <1>2, <2>1 DEF TypeOK
  <2>3. observed' \in [Players -> SUBSET Candidates]
    BY <1>2 DEF TypeOK
  <2>4. replicas' \in [Players -> SUBSET (Nat \X Entity)]
    BY <1>1, <1>3, <1>4 DEF TypeOK
  <2>5. m_EntitiesToGhost' = m_Entities' \cap Candidates
    BY <1>2 DEF TypeOK
  <2>6. QED BY <1>2, <1>4, <1>5, <2>2, <2>3, <2>4, <2>5 DEF TypeOK
<1>7. \A p \in Players : \A r \in replicas[p] : r[2] # e
  BY <1>2, <1>3 DEF Unknown
<1>8. \A p \in Players : e \notin observed[p]
  BY <1>2 DEF Unknown
<1>9. ObservedAreShown'
  <2> SUFFICES ASSUME NEW p \in Online, NEW f \in (Live \cup {e}) \cap Candidates
               PROVE  f \in observed'[p] <=> <<networkId'[f], f>> \in replicas'[p]
    BY <1>5 DEF ObservedAreShown
  <2>1. p \in Players /\ Shown(p)
    BY <1>5 DEF Shown
  <2>2. CASE f = e
    <3>1. <<id, e>> \notin replicas[p]
      BY <1>7, <2>1
    <3>2. QED BY <1>1, <1>2, <1>4, <1>8, <2>1, <2>2, <3>1
  <2>3. CASE f \in Live /\ f # e
    <3>1. f \in observed[p] <=> <<networkId[f], f>> \in replicas[p]
      BY <2>3 DEF ObservedAreShown
    <3>2. networkId'[f] = networkId[f]
      BY <1>4, <1>5, <2>3
    <3>3. f \in observed'[p] <=> f \in observed[p]
      BY <1>2, <2>1, <2>3
    <3>4. <<networkId[f], f>> \in replicas'[p] <=> <<networkId[f], f>> \in replicas[p]
      BY <1>1, <2>1, <2>3
    <3>5. QED BY <3>1, <3>2, <3>3, <3>4
  <2>4. QED BY <2>2, <2>3
<1>10. NothingIsMissed'
  <2> SUFFICES ASSUME NEW p \in Online, NEW f \in (Live \cup {e}) \ Candidates
               PROVE  <<networkId'[f], f>> \in replicas'[p] \/ (p \notin ready /\ f \in limbo[p])
    BY <1>2, <1>5 DEF NothingIsMissed
  <2>1. f \in Live \ Candidates /\ p \in Players
    BY <1>5
  <2>2. networkId'[f] = networkId[f] /\ replicas[p] \subseteq replicas'[p]
    BY <1>1, <1>4, <1>5, <2>1
  <2>3. QED BY <2>1, <2>2 DEF NothingIsMissed
<1>11. ViewCurrent'
  <2> SUFFICES ASSUME NEW p \in Online \ m_PlayersToUpdateGhosting,
                      NEW f \in (Live \cup {e}) \cap Candidates
               PROVE  /\ Distance[f][reference[p]] = "near" => f \in observed'[p]
                      /\ Distance[f][reference[p]] = "far"  => f \notin observed'[p]
    BY <1>2, <1>5 DEF ViewCurrent
  <2>1. p \in Present /\ p \in Players
    BY DEF Online, Present
  <2>2. CASE f = e
    <3>1. p \in Watchers(e) <=> Distance[e][reference[p]] = "near"
      BY <2>1 DEF Watchers
    <3>2. e \in observed'[p] <=> p \in Watchers(e)
      BY <1>2, <1>8, <2>1
    <3>3. "near" # "far"
      OBVIOUS
    <3>4. QED BY <2>2, <3>1, <3>2, <3>3
  <2>3. CASE f \in Live /\ f # e
    <3>1. f \in observed'[p] <=> f \in observed[p]
      BY <1>2, <2>1, <2>3
    <3>2. QED BY <2>3, <3>1 DEF ViewCurrent
  <2>4. QED BY <2>2, <2>3
<1>12. Unknown' /\ AbsentAreBlank'
  <2>1. \A p \in Players : observed'[p] \subseteq made'
    BY <1>2 DEF Unknown
  <2>2. \A p \in Players : \A r \in replicas'[p] : r[2] \in Players \cup made'
    BY <1>1, <1>2 DEF Unknown
  <2>3. \A p \in Players \ m_Entities : p \notin Watchers(e)
    BY DEF Watchers, Present
  <2>4. QED BY <1>2, <2>1, <2>2, <2>3 DEF Unknown, AbsentAreBlank
<1>13. QED BY <1>4, <1>6, <1>9, <1>10, <1>11, <1>12

LEMMA PlainStep ==
  ASSUME EntityInv, NEW e \in Plain, ConstructPlain(e)
  PROVE  EntityInv'
<1> USE EntityConstants DEF EntityInv
<1>1. PICK id \in FreshIds :
        /\ TakeId(e, id)
        /\ replicas' = [p \in Players |->
             IF p \in SentTo THEN replicas[p] \cup {<<id, e>>} ELSE replicas[p]]
  BY DEF ConstructPlain
<1>2. /\ e \notin made /\ made' = made \cup {e} /\ m_Entities' = m_Entities \cup {e}
      /\ limbo' = [p \in Players |-> IF p \in IntoLimbo THEN limbo[p] \cup {e} ELSE limbo[p]]
      /\ UNCHANGED <<loads, m_EntitiesToDelete, m_PlayersToUpdateGhosting, m_EntitiesToGhost,
                     m_Observers, observed, reference, ready>>
  BY DEF ConstructPlain, queues, ghosts
<1>3. e \in Entity \ m_Entities /\ e \notin Players /\ e \notin Candidates
      /\ e \notin m_EntitiesToDelete
  BY <1>2 DEF TypeOK, Entity
<1>4. /\ id \in Nat /\ NetworkIdsConserved'
      /\ networkId' \in [Entity -> Nat]
      /\ m_LostNetworkIds' \subseteq Nat /\ m_NetworkIdCounter' \in Nat
      /\ networkId'[e] = id
      /\ \A f \in m_Entities : f # e /\ networkId'[f] = networkId[f]
  BY <1>1, <1>2, <1>3, NewId
<1>5. /\ Present' = Present /\ Online' = Online /\ Live' = Live \cup {e}
      /\ Live \subseteq m_Entities /\ Present \subseteq Players /\ Online \subseteq Present
  BY <1>2, <1>3 DEF Present, Online, Live
<1>6. TypeOK'
  <2>1. limbo' \in [Players -> SUBSET (Players \cup Plain)]
    BY <1>2 DEF TypeOK
  <2>2. replicas' \in [Players -> SUBSET (Nat \X Entity)]
    BY <1>1, <1>3, <1>4 DEF TypeOK
  <2>3. m_EntitiesToGhost' = m_Entities' \cap Candidates
    BY <1>2, <1>3 DEF TypeOK
  <2>4. QED BY <1>2, <1>4, <1>5, <2>1, <2>2, <2>3 DEF TypeOK
<1>7. ObservedAreShown' /\ ViewCurrent'
  <2>1. Live' \cap Candidates = Live \cap Candidates
    BY <1>3, <1>5
  <2>2. ASSUME NEW p \in Online, NEW f \in Live \cap Candidates
        PROVE  f \in observed'[p] <=> <<networkId'[f], f>> \in replicas'[p]
    <3>1. f \in observed[p] <=> <<networkId[f], f>> \in replicas[p]
      BY DEF ObservedAreShown
    <3>2. networkId'[f] = networkId[f] /\ f # e /\ p \in Players
      BY <1>4, <1>5
    <3>3. <<networkId[f], f>> \in replicas'[p] <=> <<networkId[f], f>> \in replicas[p]
      BY <1>1, <3>2
    <3>4. QED BY <1>2, <3>1, <3>2, <3>3
  <2>3. QED BY <1>2, <1>5, <2>1, <2>2 DEF ObservedAreShown, ViewCurrent
<1>8. NothingIsMissed'
  <2> SUFFICES ASSUME NEW p \in Online, NEW f \in (Live \cup {e}) \ Candidates
               PROVE  <<networkId'[f], f>> \in replicas'[p] \/ (p \notin ready /\ f \in limbo'[p])
    BY <1>2, <1>5 DEF NothingIsMissed
  <2>1. p \in Players /\ p \in Present
    BY <1>5
  <2>2. CASE f = e
    <3>1. CASE p \in ready
      BY <1>1, <1>4, <2>1, <2>2, <3>1 DEF SentTo
    <3>2. CASE p \notin ready
      BY <1>2, <2>1, <2>2, <3>2 DEF IntoLimbo
    <3>3. QED BY <3>1, <3>2
  <2>3. CASE f \in Live
    <3>1. <<networkId[f], f>> \in replicas[p] \/ (p \notin ready /\ f \in limbo[p])
      BY <2>3 DEF NothingIsMissed
    <3>2. /\ networkId'[f] = networkId[f]
          /\ replicas[p] \subseteq replicas'[p] /\ limbo[p] \subseteq limbo'[p]
      BY <1>1, <1>2, <1>4, <1>5, <2>1, <2>3
    <3>3. QED BY <3>1, <3>2
  <2>4. QED BY <2>2, <2>3
<1>9. Unknown' /\ AbsentAreBlank'
  <2>1. \A p \in Players : \A r \in replicas'[p] : r[2] \in Players \cup made'
    BY <1>1, <1>2 DEF Unknown
  <2>2. QED BY <1>2, <2>1 DEF Unknown, AbsentAreBlank
<1>10. QED BY <1>4, <1>6, <1>7, <1>8, <1>9

\* Taking an entity off the clients leaves the replicas of all others.
LEMMA OthersStay ==
  ASSUME EntityInv, NEW e \in m_Entities, NEW f \in m_Entities, f # e, NEW R
  PROVE  <<networkId[f], f>> \in {r \in R : r[1] # networkId[e]}
           <=> <<networkId[f], f>> \in R
<1>1. networkId[f] # networkId[e]
  BY DEF EntityInv, NetworkIdsConserved
<1>2. QED BY <1>1

LEMMA DestroyStep ==
  ASSUME EntityInv, NEW e \in Live \ Players, DestroyEntity(e)
  PROVE  EntityInv'
<1> USE EntityConstants DEF EntityInv
<1>1. /\ replicas' = [p \in Players |-> {r \in replicas[p] : r[1] # networkId[e]}]
      /\ limbo' = [p \in Players |-> IF p \in IntoLimbo THEN limbo[p] \ {e} ELSE limbo[p]]
      /\ m_EntitiesToDelete' = m_EntitiesToDelete \cup {e}
      /\ UNCHANGED <<made, loads, m_Entities, networkId, m_LostNetworkIds, m_NetworkIdCounter,
                     m_EntitiesToGhost, m_Observers, observed, reference, ready,
                     m_PlayersToUpdateGhosting>>
  BY DEF DestroyEntity, DestructEntity, ids, ghosts
<1>2. /\ Present' = Present /\ Online' = Online /\ Live' = Live \ {e}
      /\ Live \subseteq m_Entities /\ Present \subseteq Players /\ Online \subseteq Present
  BY <1>1 DEF Present, Online, Live
<1>3. TypeOK'
  <2>1. limbo' \in [Players -> SUBSET (Players \cup Plain)]
    BY <1>1 DEF TypeOK
  <2>2. replicas' \in [Players -> SUBSET (Nat \X Entity)]
    BY <1>1 DEF TypeOK
  <2>3. m_EntitiesToDelete' \subseteq m_Entities'
    BY <1>1, <1>2 DEF TypeOK
  <2>4. QED BY <1>1, <1>2, <2>1, <2>2, <2>3 DEF TypeOK
<1>4. NetworkIdsConserved'
  BY <1>1 DEF NetworkIdsConserved
<1>5. \A p \in Online, f \in Live' :
        <<networkId[f], f>> \in replicas'[p] <=> <<networkId[f], f>> \in replicas[p]
  <2> SUFFICES ASSUME NEW p \in Online, NEW f \in Live \ {e}
               PROVE  <<networkId[f], f>> \in replicas'[p] <=> <<networkId[f], f>> \in replicas[p]
    BY <1>2
  <2>1. replicas'[p] = {r \in replicas[p] : r[1] # networkId[e]}
    BY <1>1, <1>2
  <2>2. f \in m_Entities /\ e \in m_Entities /\ f # e
    BY <1>2
  <2>3. QED BY <2>1, <2>2, OthersStay
<1>6. ObservedAreShown' /\ ViewCurrent'
  BY <1>1, <1>2, <1>5 DEF ObservedAreShown, ViewCurrent
<1>7. NothingIsMissed'
  <2>1. \A p \in Online, f \in Live' : f \in limbo[p] => f \in limbo'[p]
    BY <1>1, <1>2
  <2>2. QED BY <1>1, <1>2, <1>5, <2>1 DEF NothingIsMissed
<1>8. Unknown' /\ AbsentAreBlank'
  BY <1>1 DEF Unknown, AbsentAreBlank
<1>9. QED BY <1>3, <1>4, <1>6, <1>7, <1>8

LEMMA DisconnectStep ==
  ASSUME EntityInv, NEW q \in Players, Disconnect(q)
  PROVE  EntityInv'
<1> USE EntityConstants DEF EntityInv
<1>1. /\ q \in Online
      /\ replicas' = [p \in Players |->
           IF p = q THEN {} ELSE {r \in replicas[p] : r[1] # networkId[q]}]
      /\ limbo' = [p \in Players |-> IF p \in IntoLimbo THEN limbo[p] \ {q} ELSE limbo[p]]
      /\ m_EntitiesToDelete' = m_EntitiesToDelete \cup {q}
      /\ UNCHANGED <<made, loads, m_Entities, networkId, m_LostNetworkIds, m_NetworkIdCounter,
                     m_EntitiesToGhost, m_Observers, observed, reference, ready,
                     m_PlayersToUpdateGhosting>>
  BY DEF Disconnect, ids, ghosts
<1>2. /\ Present' = Present /\ Online' = Online \ {q} /\ Live' = Live \ {q}
      /\ Live \subseteq m_Entities /\ Present \subseteq Players /\ Online \subseteq Present
      /\ q \in m_Entities
  BY <1>1 DEF Present, Online, Live
<1>3. TypeOK'
  <2>1. limbo' \in [Players -> SUBSET (Players \cup Plain)]
    BY <1>1 DEF TypeOK
  <2>2. replicas' \in [Players -> SUBSET (Nat \X Entity)]
    BY <1>1 DEF TypeOK
  <2>3. m_EntitiesToDelete' \subseteq m_Entities'
    BY <1>1, <1>2 DEF TypeOK
  <2>4. QED BY <1>1, <1>2, <2>1, <2>2, <2>3 DEF TypeOK
<1>4. NetworkIdsConserved'
  BY <1>1 DEF NetworkIdsConserved
<1>5. \A p \in Online', f \in Live' :
        <<networkId[f], f>> \in replicas'[p] <=> <<networkId[f], f>> \in replicas[p]
  <2> SUFFICES ASSUME NEW p \in Online \ {q}, NEW f \in Live \ {q}
               PROVE  <<networkId[f], f>> \in replicas'[p] <=> <<networkId[f], f>> \in replicas[p]
    BY <1>2
  <2>1. replicas'[p] = {r \in replicas[p] : r[1] # networkId[q]}
    BY <1>1, <1>2
  <2>2. f \in m_Entities /\ f # q
    BY <1>2
  <2>3. QED BY <1>2, <2>1, <2>2, OthersStay
<1>6. ObservedAreShown' /\ ViewCurrent'
  BY <1>1, <1>2, <1>5 DEF ObservedAreShown, ViewCurrent
<1>7. NothingIsMissed'
  <2>1. \A p \in Online', f \in Live' : f \in limbo[p] => f \in limbo'[p]
    BY <1>1, <1>2
  <2>2. QED BY <1>1, <1>2, <1>5, <2>1 DEF NothingIsMissed
<1>8. Unknown' /\ AbsentAreBlank'
  BY <1>1 DEF Unknown, AbsentAreBlank
<1>9. QED BY <1>3, <1>4, <1>6, <1>7, <1>8

LEMMA DeleteStep ==
  ASSUME EntityInv, DeleteEntities
  PROVE  EntityInv'
<1> USE EntityConstants DEF EntityInv
<1> DEFINE gone == m_EntitiesToDelete
<1>1. /\ m_Entities' = m_Entities \ gone /\ m_EntitiesToDelete' = {}
      /\ networkId' = [e \in Entity |-> IF e \in gone THEN 0 ELSE networkId[e]]
      /\ m_LostNetworkIds' = m_LostNetworkIds \cup {networkId[e] : e \in gone}
      /\ m_EntitiesToGhost' = m_EntitiesToGhost \ gone
      /\ m_Observers' = [e \in Candidates |->
           IF e \in gone THEN 0 ELSE SetObservers(m_Observers[e] - Unobserved(e))]
      /\ observed' = [p \in Players |-> IF p \in gone THEN {} ELSE observed[p]]
      /\ limbo' = [p \in Players |-> IF p \in gone THEN {} ELSE limbo[p]]
      /\ reference' = [p \in Players |-> IF p \in gone THEN Origin ELSE reference[p]]
      /\ ready' = ready \ gone
      /\ UNCHANGED <<made, loads, m_NetworkIdCounter, m_PlayersToUpdateGhosting, replicas>>
  BY DEF DeleteEntities, LostIds, GhostsLeft
<1>2. /\ Present' = Present \ gone /\ Online' = Online /\ Live' = Live
      /\ gone \subseteq m_Entities /\ m_Entities \subseteq Entity
      /\ Live = m_Entities \ gone /\ Online = Present \ gone /\ Present \subseteq Players
  BY <1>1 DEF Present, Online, Live, TypeOK, Entity
<1>3. TypeOK'
  <2>1. \A e \in Candidates : SetObservers(m_Observers[e] - Unobserved(e)) \in Nat
    <3> SUFFICES ASSUME NEW e \in Candidates
                 PROVE  SetObservers(m_Observers[e] - Unobserved(e)) \in Nat
      OBVIOUS
    <3>1. Unobserved(e) \in Nat
      BY PlayersAreFinite DEF Unobserved
    <3>2. m_Observers[e] \in Nat
      BY DEF TypeOK
    <3>3. QED BY <3>1, <3>2 DEF SetObservers
  <2>2. m_Observers' \in [Candidates -> Nat]
    BY <1>1, <2>1
  <2>3. networkId' \in [Entity -> Nat] /\ m_LostNetworkIds' \subseteq Nat
    <3>1. networkId \in [Entity -> Nat] /\ m_LostNetworkIds \subseteq Nat
      BY DEF TypeOK
    <3>2. networkId' \in [Entity -> Nat]
      BY <1>1, <3>1
    <3>3. \A e \in gone : networkId[e] \in Nat
      BY <1>2, <3>1
    <3>4. QED BY <1>1, <3>1, <3>2, <3>3
  <2>4. /\ observed' \in [Players -> SUBSET Candidates]
        /\ limbo' \in [Players -> SUBSET (Players \cup Plain)]
        /\ reference' \in [Players -> Spots]
    BY <1>1 DEF TypeOK
  <2>5. QED BY <1>1, <1>2, <2>2, <2>3, <2>4 DEF TypeOK
<1>4. \A e \in Live : networkId'[e] = networkId[e]
  BY <1>1, <1>2
<1>5. NetworkIdsConserved'
  <2>1. /\ \A e, f \in m_Entities : networkId[e] = networkId[f] => e = f
        /\ {networkId[e] : e \in m_Entities} \cap m_LostNetworkIds = {}
        /\ {networkId[e] : e \in m_Entities} \cup m_LostNetworkIds = 1..m_NetworkIdCounter
    BY DEF NetworkIdsConserved
  <2>2. {networkId'[e] : e \in m_Entities'} = {networkId[e] : e \in Live}
    BY <1>1, <1>2, <1>4
  <2>3. {networkId[e] : e \in m_Entities} = {networkId[e] : e \in Live} \cup {networkId[e] : e \in gone}
    BY <1>2
  <2>4. {networkId[e] : e \in Live} \cap {networkId[e] : e \in gone} = {}
    BY <1>2, <2>1
  <2> DEFINE kept == {networkId[e] : e \in Live}
             lost == {networkId[e] : e \in gone}
  <2>5. /\ (kept \cup lost) \cap m_LostNetworkIds = {}
        /\ (kept \cup lost) \cup m_LostNetworkIds = 1..m_NetworkIdCounter
        /\ m_LostNetworkIds' = m_LostNetworkIds \cup lost
    BY <1>1, <2>1, <2>3
  <2>6. /\ kept \cap m_LostNetworkIds' = {}
        /\ kept \cup m_LostNetworkIds' = 1..m_NetworkIdCounter'
    <3>1. kept \cap lost = {}
      BY <2>4
    <3> HIDE DEF kept, lost
    <3>2. QED BY <3>1, <2>5, <1>1
  <2>7. \A e, f \in m_Entities' : networkId'[e] = networkId'[f] => e = f
    BY <1>1, <1>2, <1>4, <2>1
  <2>8. QED BY <2>2, <2>6, <2>7 DEF NetworkIdsConserved
<1>6. \A p \in Online : /\ observed'[p] = observed[p] /\ reference'[p] = reference[p]
                        /\ limbo'[p] = limbo[p] /\ (p \in ready' <=> p \in ready)
  BY <1>1, <1>2
<1>7. ObservedAreShown' /\ NothingIsMissed' /\ ViewCurrent'
  BY <1>1, <1>2, <1>4, <1>6 DEF ObservedAreShown, NothingIsMissed, ViewCurrent
<1>8. Unknown' /\ AbsentAreBlank'
  BY <1>1, <1>2 DEF Unknown, AbsentAreBlank
<1>9. QED BY <1>3, <1>5, <1>7, <1>8

LEMMA LoadStep ==
  ASSUME EntityInv, NEW q \in Players, LevelLoadComplete(q)
  PROVE  EntityInv'
<1> USE EntityConstants DEF EntityInv
<1> DEFINE near == Comes(q, reference[q])
<1>1. /\ q \notin m_Entities
      /\ loads < MaxLoads /\ loads' = loads + 1
      /\ m_Entities' = m_Entities \cup {q}
      /\ observed' = [observed EXCEPT ![q] = near]
      /\ m_Observers' = [e \in Candidates |->
           IF e \in near THEN m_Observers[e] + 1 ELSE m_Observers[e]]
      /\ limbo' = [p \in Players |-> IF p \in IntoLimbo THEN limbo[p] \cup {q} ELSE limbo[p]]
      /\ UNCHANGED <<made, m_EntitiesToDelete, m_PlayersToUpdateGhosting, m_EntitiesToGhost,
                     reference, ready>>
  BY DEF LevelLoadComplete, queues
<1>2. PICK id \in FreshIds :
        /\ TakeId(q, id)
        /\ replicas' = [p \in Players |->
             IF p = q THEN {<<id, q>>} \cup
                  {<<networkId[e], e>> : e \in (m_Entities \ Candidates) \cup near}
             ELSE IF p \in SentTo THEN replicas[p] \cup {<<id, q>>} ELSE replicas[p]]
  BY DEF LevelLoadComplete
<1>3. q \in Entity \ m_Entities /\ q \notin m_EntitiesToDelete /\ q \notin Candidates
  BY <1>1 DEF TypeOK, Entity
<1>4. /\ id \in Nat /\ NetworkIdsConserved'
      /\ networkId' \in [Entity -> Nat]
      /\ m_LostNetworkIds' \subseteq Nat /\ m_NetworkIdCounter' \in Nat
      /\ networkId'[q] = id
      /\ \A f \in m_Entities : f # q /\ networkId'[f] = networkId[f]
  BY <1>1, <1>2, <1>3, NewId
<1>5. /\ Present' = Present \cup {q} /\ Online' = Online \cup {q} /\ Live' = Live \cup {q}
      /\ Live \subseteq m_Entities /\ Present \subseteq Players /\ Online \subseteq Present
      /\ q \notin Present /\ m_Entities \subseteq Entity
  BY <1>1, <1>3 DEF Present, Online, Live, TypeOK, Entity
<1>6. near \subseteq Candidates /\ near \subseteq m_Entities /\ m_EntitiesToGhost = m_Entities \cap Candidates
  BY DEF Comes, TypeOK
<1>7. TypeOK'
  <2>1. limbo' \in [Players -> SUBSET (Players \cup Plain)]
    BY <1>1 DEF TypeOK
  <2>2. replicas' \in [Players -> SUBSET (Nat \X Entity)]
    <3>1. \A e \in m_Entities : networkId[e] \in Nat
      BY <1>5 DEF TypeOK
    <3>2. {<<id, q>>} \cup {<<networkId[e], e>> : e \in (m_Entities \ Candidates) \cup near}
            \subseteq Nat \X Entity
      BY <1>3, <1>4, <1>5, <1>6, <3>1
    <3> HIDE DEF near
    <3>3. QED BY <1>2, <1>3, <1>4, <3>2 DEF TypeOK
  <2>3. observed' \in [Players -> SUBSET Candidates]
    BY <1>1, <1>6 DEF TypeOK
  <2>4. m_Observers' \in [Candidates -> Nat]
    <3> HIDE DEF near
    <3>1. QED BY <1>1 DEF TypeOK
  <2>5. loads' \in 0..MaxLoads
    BY <1>1 DEF TypeOK
  <2>6. m_EntitiesToGhost' = m_Entities' \cap Candidates
    BY <1>1, <1>3 DEF TypeOK
  <2>7. QED BY <1>1, <1>4, <1>5, <2>1, <2>2, <2>3, <2>4, <2>5, <2>6 DEF TypeOK
<1>8. /\ observed[q] = {} /\ observed'[q] = near
      /\ \A p \in Online : p # q /\ observed'[p] = observed[p]
  BY <1>1, <1>5 DEF AbsentAreBlank, TypeOK
<1>9. ObservedAreShown'
  <2> SUFFICES ASSUME NEW p \in Online \cup {q}, NEW f \in Live \cap Candidates
               PROVE  f \in observed'[p] <=> <<networkId'[f], f>> \in replicas'[p]
    BY <1>3, <1>5 DEF ObservedAreShown
  <2>1. f # q /\ networkId'[f] = networkId[f]
    BY <1>4, <1>5
  <2>2. CASE p = q
    <3>1. replicas'[q] = {<<id, q>>} \cup
            {<<networkId[e], e>> : e \in (m_Entities \ Candidates) \cup near}
      BY <1>2
    <3>2. <<networkId[f], f>> \in replicas'[q] <=> f \in near
      <4> HIDE DEF near
      <4>1. QED BY <2>1, <3>1
    <3>3. QED BY <1>8, <2>1, <2>2, <3>2
  <2>3. CASE p \in Online
    <3>1. p # q /\ p \in Players
      BY <1>5, <1>8, <2>3
    <3>2. <<networkId[f], f>> \in replicas'[p] <=> <<networkId[f], f>> \in replicas[p]
      BY <1>2, <2>1, <3>1
    <3>3. f \in observed[p] <=> <<networkId[f], f>> \in replicas[p]
      BY <2>3 DEF ObservedAreShown
    <3>4. QED BY <1>8, <2>1, <2>3, <3>2, <3>3
  <2>4. QED BY <2>2, <2>3
<1>10. NothingIsMissed'
  <2> SUFFICES ASSUME NEW p \in Online \cup {q}, NEW f \in (Live \cup {q}) \ Candidates
               PROVE  <<networkId'[f], f>> \in replicas'[p] \/ (p \notin ready /\ f \in limbo'[p])
    BY <1>1, <1>5 DEF NothingIsMissed
  <2>1. CASE p = q
    <3>1. replicas'[q] = {<<id, q>>} \cup
            {<<networkId[e], e>> : e \in (m_Entities \ Candidates) \cup near}
      BY <1>2
    <3>2. CASE f = q
      BY <1>4, <2>1, <3>1, <3>2
    <3>3. CASE f \in Live
      <4>1. f \in m_Entities \ Candidates /\ networkId'[f] = networkId[f]
        BY <1>4, <1>5, <3>3
      <4> HIDE DEF near
      <4>2. QED BY <2>1, <3>1, <4>1
    <3>4. QED BY <3>2, <3>3
  <2>2. CASE p \in Online
    <3>1. p # q /\ p \in Players /\ p \in Present
      BY <1>5, <1>8, <2>2
    <3>2. /\ replicas'[p] = IF p \in SentTo THEN replicas[p] \cup {<<id, q>>} ELSE replicas[p]
          /\ limbo'[p] = IF p \in IntoLimbo THEN limbo[p] \cup {q} ELSE limbo[p]
      BY <1>1, <1>2, <3>1
    <3>3. CASE f = q
      BY <1>4, <2>2, <3>1, <3>2, <3>3 DEF SentTo, IntoLimbo
    <3>4. CASE f \in Live
      <4>1. networkId'[f] = networkId[f]
        BY <1>4, <1>5, <3>4
      <4>2. <<networkId[f], f>> \in replicas[p] \/ (p \notin ready /\ f \in limbo[p])
        BY <2>2, <3>4 DEF NothingIsMissed
      <4>3. QED BY <3>2, <4>1, <4>2
    <3>5. QED BY <3>3, <3>4
  <2>3. QED BY <2>1, <2>2
<1>11. ViewCurrent'
  <2> SUFFICES ASSUME NEW p \in (Online \cup {q}) \ m_PlayersToUpdateGhosting,
                      NEW f \in Live \cap Candidates
               PROVE  /\ Distance[f][reference[p]] = "near" => f \in observed'[p]
                      /\ Distance[f][reference[p]] = "far"  => f \notin observed'[p]
    BY <1>1, <1>3, <1>5 DEF ViewCurrent
  <2>1. CASE p = q
    <3>1. f \in m_EntitiesToGhost \ observed[q]
      BY <1>5, <1>6, <1>8
    <3>2. f \in near <=> Distance[f][reference[q]] = "near"
      BY <3>1 DEF Comes
    <3>3. "near" # "far"
      OBVIOUS
    <3>4. QED BY <1>8, <2>1, <3>2, <3>3
  <2>2. CASE p \in Online
    <3>1. observed'[p] = observed[p]
      BY <1>8, <2>2
    <3>2. QED BY <2>2, <3>1 DEF ViewCurrent
  <2>3. QED BY <2>1, <2>2
<1>12. Unknown' /\ AbsentAreBlank'
  <2>1. \A e \in m_Entities : e \in Players \cup made
    BY DEF TypeOK
  <2>2. near \subseteq made
    BY <1>6, <2>1
  <2>3. \A p \in Players : observed'[p] \subseteq made'
    <3> HIDE DEF near
    <3>1. QED BY <1>1, <2>2 DEF Unknown, TypeOK
  <2>4. \A p \in Players : \A r \in replicas'[p] : r[2] \in Players \cup made'
    <3>1. \A r \in {<<networkId[e], e>> : e \in (m_Entities \ Candidates) \cup near} :
            r[2] \in Players \cup made
      BY <1>6, <2>1
    <3> HIDE DEF near
    <3>2. QED BY <1>1, <1>2, <3>1 DEF Unknown
  <2>5. AbsentAreBlank'
    <3> HIDE DEF near
    <3>1. QED BY <1>1 DEF AbsentAreBlank, TypeOK
  <2>6. QED BY <2>3, <2>4, <2>5 DEF Unknown
<1>13. QED BY <1>4, <1>7, <1>9, <1>10, <1>11, <1>12

LEMMA LoadedStep ==
  ASSUME EntityInv, NEW q \in Players, PlayerLoaded(q)
  PROVE  EntityInv'
<1> USE EntityConstants DEF EntityInv
<1> DEFINE waiting == {<<networkId[e], e>> : e \in limbo[q] \cap m_Entities}
<1>1. /\ q \in Online /\ ready' = ready \cup {q}
      /\ replicas' = [replicas EXCEPT ![q] = @ \cup waiting]
      /\ limbo' = [limbo EXCEPT ![q] = {}]
      /\ UNCHANGED <<made, loads, m_Entities, networkId, m_LostNetworkIds, m_NetworkIdCounter,
                     m_EntitiesToDelete, m_PlayersToUpdateGhosting,
                     m_EntitiesToGhost, m_Observers, observed, reference>>
  BY DEF PlayerLoaded, ids, queues, ghosts
<1>2. /\ Present' = Present /\ Online' = Online /\ Live' = Live
      /\ Live \subseteq m_Entities /\ Present \subseteq Players /\ Online \subseteq Present
  BY <1>1 DEF Present, Online, Live
<1>3. waiting \subseteq Nat \X Entity /\ (\A r \in waiting : r[2] \notin Candidates)
  BY DEF TypeOK, Entity
<1>4. TypeOK'
  <2>1. replicas' \in [Players -> SUBSET (Nat \X Entity)]
    <3> HIDE DEF waiting
    <3>1. QED BY <1>1, <1>3 DEF TypeOK
  <2>2. limbo' \in [Players -> SUBSET (Players \cup Plain)]
    BY <1>1 DEF TypeOK
  <2>3. QED BY <1>1, <1>2, <2>1, <2>2 DEF TypeOK
<1>5. NetworkIdsConserved'
  BY <1>1 DEF NetworkIdsConserved
<1>6. ObservedAreShown' /\ ViewCurrent'
  <2>1. ASSUME NEW p \in Online, NEW f \in Live \cap Candidates
        PROVE  <<networkId[f], f>> \in replicas'[p] <=> <<networkId[f], f>> \in replicas[p]
    <3>1. <<networkId[f], f>> \notin waiting
      BY <1>3
    <3>2. p \in Players /\ replicas \in [Players -> SUBSET (Nat \X Entity)]
      BY <1>2 DEF TypeOK
    <3> HIDE DEF waiting
    <3>3. QED BY <1>1, <3>1, <3>2
  <2>2. QED BY <1>1, <1>2, <2>1 DEF ObservedAreShown, ViewCurrent
<1>7. NothingIsMissed'
  <2> SUFFICES ASSUME NEW p \in Online, NEW f \in Live \ Candidates
               PROVE  <<networkId[f], f>> \in replicas'[p] \/ (p \notin ready' /\ f \in limbo'[p])
    BY <1>1, <1>2 DEF NothingIsMissed
  <2>1. <<networkId[f], f>> \in replicas[p] \/ (p \notin ready /\ f \in limbo[p])
    BY DEF NothingIsMissed
  <2>2. p \in Players /\ f \in m_Entities
    BY <1>2
  <2>3. CASE p = q
    <3>1. replicas'[p] = replicas[p] \cup waiting
      BY <1>1, <2>2, <2>3 DEF TypeOK
    <3>2. f \in limbo[q] => <<networkId[f], f>> \in waiting
      BY <2>2
    <3>3. QED BY <2>1, <2>3, <3>1, <3>2
  <2>4. CASE p # q
    BY <1>1, <2>1, <2>2, <2>4 DEF TypeOK
  <2>5. QED BY <2>3, <2>4
<1>8. Unknown' /\ AbsentAreBlank'
  <2>1. \A r \in waiting : r[2] \in Players \cup made
    BY DEF TypeOK
  <2> HIDE DEF waiting
  <2>2. QED BY <1>1, <2>1 DEF Unknown, AbsentAreBlank, TypeOK
<1>9. QED BY <1>4, <1>5, <1>6, <1>7, <1>8

LEMMA PositionStep ==
  ASSUME EntityInv, NEW q \in Players, NEW spot \in Spots, PositionUpdate(q, spot)
  PROVE  EntityInv'
<1> USE EntityConstants DEF EntityInv
<1>1. /\ q \in Online
      /\ reference' = [reference EXCEPT ![q] = spot]
      /\ m_PlayersToUpdateGhosting' = m_PlayersToUpdateGhosting \cup {q}
      /\ UNCHANGED <<made, loads, m_Entities, networkId, m_LostNetworkIds, m_NetworkIdCounter,
                     m_EntitiesToDelete, m_EntitiesToGhost, m_Observers, observed,
                     limbo, ready, replicas>>
  BY DEF PositionUpdate, Queued, ids, clients
<1>2. /\ Present' = Present /\ Online' = Online /\ Live' = Live
      /\ Online \subseteq Players /\ q \in m_Entities
  BY <1>1 DEF Present, Online, Live
<1>3. TypeOK'
  BY <1>1, <1>2 DEF TypeOK
<1>4. NetworkIdsConserved' /\ ObservedAreShown' /\ NothingIsMissed'
  BY <1>1, <1>2 DEF NetworkIdsConserved, ObservedAreShown, NothingIsMissed
<1>5. ViewCurrent'
  <2>1. \A p \in Online \ m_PlayersToUpdateGhosting' : reference'[p] = reference[p]
    BY <1>1, <1>2 DEF TypeOK
  <2>2. QED BY <1>1, <1>2, <2>1 DEF ViewCurrent
<1>6. Unknown' /\ AbsentAreBlank'
  BY <1>1, <1>2 DEF Unknown, AbsentAreBlank, TypeOK
<1>7. QED BY <1>3, <1>4, <1>5, <1>6

\* What UpdateGhosting shows to a player and what it no longer shows him.
New(p) == IF p \in m_PlayersToUpdateGhosting \cap Present THEN Comes(p, reference[p]) ELSE {}
Old(p) == IF p \in m_PlayersToUpdateGhosting \cap Present THEN Goes(p, reference[p]) ELSE {}
Moved  == m_PlayersToUpdateGhosting \cap Present

LEMMA GhostingEffect ==
  ASSUME UpdateGhosting
  PROVE  /\ observed' = [p \in Players |-> (observed[p] \ Old(p)) \cup New(p)]
         /\ m_Observers' = [e \in Candidates |->
              SetObservers(m_Observers[e] + Cardinality({p \in Moved : e \in New(p)})
                                          - Cardinality({p \in Moved : e \in Old(p)}))]
         /\ replicas' = [p \in Players |->
              IF ~Shown(p) THEN replicas[p]
              ELSE {r \in replicas[p] : r[1] \notin {networkId[e] : e \in Old(p)}} \cup
                   {<<networkId[e], e>> : e \in New(p)}]
         /\ m_PlayersToUpdateGhosting' = {}
         /\ UNCHANGED <<made, loads, m_Entities, networkId, m_LostNetworkIds, m_NetworkIdCounter,
                        m_EntitiesToDelete, m_EntitiesToGhost, reference, limbo, ready>>
<1> DEFINE new == [p \in Players |-> IF p \in Moved THEN Comes(p, reference[p]) ELSE {}]
           old == [p \in Players |-> IF p \in Moved THEN Goes(p, reference[p]) ELSE {}]
<1>1. \A p \in Players : new[p] = New(p) /\ old[p] = Old(p)
  BY DEF New, Old, Moved
<1>2. Moved \subseteq Players
  BY DEF Moved, Present
<1>3. /\ observed' = [p \in Players |-> (observed[p] \ old[p]) \cup new[p]]
      /\ m_Observers' = [e \in Candidates |->
           SetObservers(m_Observers[e] + Cardinality({p \in Moved : e \in new[p]})
                                       - Cardinality({p \in Moved : e \in old[p]}))]
      /\ replicas' = [p \in Players |->
           IF ~Shown(p) THEN replicas[p]
           ELSE {r \in replicas[p] : r[1] \notin {networkId[e] : e \in old[p]}} \cup
                {<<networkId[e], e>> : e \in new[p]}]
      /\ m_PlayersToUpdateGhosting' = {}
      /\ UNCHANGED <<made, loads, m_Entities, networkId, m_LostNetworkIds, m_NetworkIdCounter,
                     m_EntitiesToDelete, m_EntitiesToGhost, reference, limbo, ready>>
  BY DEF UpdateGhosting, Moved, ids
<1>4. \A e : /\ {p \in Moved : e \in new[p]} = {p \in Moved : e \in New(p)}
             /\ {p \in Moved : e \in old[p]} = {p \in Moved : e \in Old(p)}
  BY <1>1, <1>2
<1>5. m_Observers' = [e \in Candidates |->
        SetObservers(m_Observers[e] + Cardinality({p \in Moved : e \in New(p)})
                                    - Cardinality({p \in Moved : e \in Old(p)}))]
  <2> HIDE DEF new, old
  <2>1. QED BY <1>3, <1>4
<1> HIDE DEF new, old
<1>6. QED BY <1>1, <1>3, <1>5

LEMMA GhostingStep ==
  ASSUME EntityInv, UpdateGhosting
  PROVE  EntityInv'
<1> USE EntityConstants DEF EntityInv
<1>1. /\ observed' = [p \in Players |-> (observed[p] \ Old(p)) \cup New(p)]
      /\ m_Observers' = [e \in Candidates |->
           SetObservers(m_Observers[e] + Cardinality({p \in Moved : e \in New(p)})
                                       - Cardinality({p \in Moved : e \in Old(p)}))]
      /\ replicas' = [p \in Players |->
           IF ~Shown(p) THEN replicas[p]
           ELSE {r \in replicas[p] : r[1] \notin {networkId[e] : e \in Old(p)}} \cup
                {<<networkId[e], e>> : e \in New(p)}]
      /\ m_PlayersToUpdateGhosting' = {}
      /\ UNCHANGED <<made, loads, m_Entities, networkId, m_LostNetworkIds, m_NetworkIdCounter,
                     m_EntitiesToDelete, m_EntitiesToGhost, reference, limbo, ready>>
  BY GhostingEffect
<1>2. /\ Present' = Present /\ Online' = Online /\ Live' = Live
      /\ Live \subseteq m_Entities /\ Present \subseteq Players /\ Online \subseteq Present
      /\ m_Entities \subseteq Entity
  BY <1>1 DEF Present, Online, Live, TypeOK, Entity
<1>3. \A p \in Players :
        /\ New(p) \subseteq m_EntitiesToGhost \ observed[p]
        /\ Old(p) \subseteq m_EntitiesToGhost \cap observed[p]
  BY DEF New, Old, Comes, Goes
<1>4. m_EntitiesToGhost = m_Entities \cap Candidates
  BY DEF TypeOK
<1>5. TypeOK'
  <2>1. m_Observers' \in [Candidates -> Nat]
    <3> SUFFICES ASSUME NEW e \in Candidates
                 PROVE  SetObservers(m_Observers[e] + Cardinality({p \in Moved : e \in New(p)})
                                       - Cardinality({p \in Moved : e \in Old(p)})) \in Nat
      BY <1>1
    <3>1. /\ {p \in Moved : e \in New(p)} \in SUBSET Players
          /\ {p \in Moved : e \in Old(p)} \in SUBSET Players
      BY DEF Moved, Present
    <3>2. /\ Cardinality({p \in Moved : e \in New(p)}) \in Nat
          /\ Cardinality({p \in Moved : e \in Old(p)}) \in Nat
      BY <3>1, PlayersAreFinite
    <3>3. m_Observers[e] \in Nat
      BY DEF TypeOK
    <3>4. QED BY <3>2, <3>3 DEF SetObservers
  <2>2. observed' \in [Players -> SUBSET Candidates]
    BY <1>1, <1>3, <1>4 DEF TypeOK
  <2>3. replicas' \in [Players -> SUBSET (Nat \X Entity)]
    <3>1. \A p \in Players : {<<networkId[e], e>> : e \in New(p)} \subseteq Nat \X Entity
      BY <1>2, <1>3, <1>4 DEF TypeOK
    <3>2. \A p \in Players : replicas[p] \subseteq Nat \X Entity
      BY DEF TypeOK
    <3>3. QED BY <1>1, <3>1, <3>2
  <2>4. QED BY <1>1, <1>2, <2>1, <2>2, <2>3 DEF TypeOK
<1>6. NetworkIdsConserved'
  BY <1>1 DEF NetworkIdsConserved
<1>7. \A p \in Online, f \in Live :
        /\ <<networkId[f], f>> \in replicas'[p] <=>
             f \in New(p) \/ (f \notin Old(p) /\ <<networkId[f], f>> \in replicas[p])
  <2> SUFFICES ASSUME NEW p \in Online, NEW f \in Live
               PROVE  <<networkId[f], f>> \in replicas'[p] <=>
                        f \in New(p) \/ (f \notin Old(p) /\ <<networkId[f], f>> \in replicas[p])
    OBVIOUS
  <2>1. p \in Players /\ Shown(p)
    BY <1>2 DEF Shown
  <2>2. networkId[f] \in {networkId[e] : e \in Old(p)} <=> f \in Old(p)
    <3>1. Old(p) \subseteq m_Entities /\ f \in m_Entities
      BY <1>2, <1>3, <1>4, <2>1
    <3>2. \A e \in Old(p) : networkId[e] = networkId[f] => e = f
      BY <3>1 DEF NetworkIdsConserved
    <3>3. QED BY <3>2
  <2>3. replicas'[p] = {r \in replicas[p] : r[1] \notin {networkId[e] : e \in Old(p)}} \cup
                       {<<networkId[e], e>> : e \in New(p)}
    BY <1>1, <2>1
  <2>4. QED BY <2>2, <2>3
<1>8. ObservedAreShown'
  <2> SUFFICES ASSUME NEW p \in Online, NEW f \in Live \cap Candidates
               PROVE  f \in observed'[p] <=> <<networkId[f], f>> \in replicas'[p]
    BY <1>1, <1>2 DEF ObservedAreShown
  <2>1. f \in observed'[p] <=> f \in New(p) \/ (f \notin Old(p) /\ f \in observed[p])
    BY <1>1, <1>2
  <2>2. f \in observed[p] <=> <<networkId[f], f>> \in replicas[p]
    BY DEF ObservedAreShown
  <2>3. QED BY <1>7, <2>1, <2>2
<1>9. NothingIsMissed'
  <2>1. \A p \in Online, f \in Live \ Candidates : f \notin Old(p)
    BY <1>2, <1>3, <1>4
  <2>2. QED BY <1>1, <1>2, <1>7, <2>1 DEF NothingIsMissed
<1>10. ViewCurrent'
  <2> SUFFICES ASSUME NEW p \in Online, NEW f \in Live \cap Candidates
               PROVE  /\ Distance[f][reference[p]] = "near" => f \in observed'[p]
                      /\ Distance[f][reference[p]] = "far"  => f \notin observed'[p]
    BY <1>1, <1>2 DEF ViewCurrent
  <2>1. f \in observed'[p] <=> f \in New(p) \/ (f \notin Old(p) /\ f \in observed[p])
    BY <1>1, <1>2
  <2>2. f \in m_EntitiesToGhost /\ "near" # "far"
    BY <1>2, <1>4
  <2>3. CASE p \in m_PlayersToUpdateGhosting
    <3>1. New(p) = Comes(p, reference[p]) /\ Old(p) = Goes(p, reference[p])
      BY <1>2, <2>3 DEF New, Old
    <3>2. f \in New(p) <=> f \notin observed[p] /\ Distance[f][reference[p]] = "near"
      BY <2>2, <3>1 DEF Comes
    <3>3. f \in Old(p) <=> f \in observed[p] /\ Distance[f][reference[p]] = "far"
      BY <2>2, <3>1 DEF Goes
    <3>4. QED BY <2>1, <2>2, <3>2, <3>3
  <2>4. CASE p \notin m_PlayersToUpdateGhosting
    <3>1. New(p) = {} /\ Old(p) = {}
      BY <2>4 DEF New, Old
    <3>2. QED BY <2>1, <2>4, <3>1 DEF ViewCurrent
  <2>5. QED BY <2>3, <2>4
<1>11. Unknown' /\ AbsentAreBlank'
  <2>1. \A p \in Players : New(p) \subseteq made
    BY <1>3, <1>4, EntityConstants DEF TypeOK
  <2>2. \A p \in Players : observed'[p] \subseteq made'
    BY <1>1, <2>1 DEF Unknown
  <2>3. \A p \in Players : \A r \in replicas'[p] : r[2] \in Players \cup made'
    BY <1>1, <2>1 DEF Unknown
  <2>4. \A p \in Players \ m_Entities : New(p) = {} /\ Old(p) = {}
    BY DEF New, Old, Present
  <2>5. QED BY <1>1, <2>2, <2>3, <2>4 DEF Unknown, AbsentAreBlank
<1>12. QED BY <1>5, <1>6, <1>8, <1>9, <1>10, <1>11

-----------------------------------------------------------------------------
THEOREM EntityInvariant == Spec => []EntityInv
<1>1. Init => EntityInv
  BY InitHolds
<1>2. EntityInv /\ [Next]_vars => EntityInv'
  <2> SUFFICES ASSUME EntityInv, [Next]_vars PROVE EntityInv'
    OBVIOUS
  <2>1. ASSUME NEW e \in Candidates, ConstructCandidate(e) PROVE EntityInv'
    BY <2>1, CandidateStep
  <2>2. ASSUME NEW e \in Plain, ConstructPlain(e) PROVE EntityInv'
    BY <2>2, PlainStep
  <2>3. ASSUME NEW e \in Candidates \cup Plain, DestroyEntity(e) PROVE EntityInv'
    <3>1. e \in Live \ Players
      BY <2>3 DEF DestroyEntity
    <3>2. QED BY <2>3, <3>1, DestroyStep
  <2>4. ASSUME DeleteEntities PROVE EntityInv'
    BY <2>4, DeleteStep
  <2>5. ASSUME NEW p \in Players, LevelLoadComplete(p) \/ PlayerLoaded(p) \/ Disconnect(p)
        PROVE  EntityInv'
    BY <2>5, LoadStep, LoadedStep, DisconnectStep
  <2>6. ASSUME NEW p \in Players, NEW spot \in Spots, PositionUpdate(p, spot) PROVE EntityInv'
    BY <2>6, PositionStep
  <2>7. ASSUME UpdateGhosting PROVE EntityInv'
    BY <2>7, GhostingStep
  <2>8. CASE UNCHANGED vars
    <3>1. UNCHANGED <<made, loads, m_Entities, networkId, m_LostNetworkIds, m_NetworkIdCounter,
                      m_EntitiesToDelete, m_PlayersToUpdateGhosting, m_EntitiesToGhost,
                      m_Observers, observed, reference, limbo, ready, replicas>>
      BY <2>8 DEF vars, ids, queues, ghosts, clients
    <3>2. Present' = Present /\ Online' = Online /\ Live' = Live
      BY <3>1 DEF Present, Online, Live
    <3>3. QED
      BY <3>1, <3>2 DEF EntityInv, TypeOK, NetworkIdsConserved, ObservedAreShown,
                        NothingIsMissed, ViewCurrent, Unknown, AbsentAreBlank
  <2>9. QED BY <2>1, <2>2, <2>3, <2>4, <2>5, <2>6, <2>7, <2>8 DEF Next
<1>3. QED BY <1>1, <1>2, PTL DEF Spec

\* The variables keep their types, and every candidate that lives, and nothing
\* else, is on the list of those to ghost (AddEntity, DeleteEntities).
THEOREM TypeCorrect == Spec => []TypeOK
<1>1. EntityInv => TypeOK
  BY DEF EntityInv
<1>2. QED BY <1>1, EntityInvariant, PTL

\* However entities come and go, no two have one network id and none is lost
\* (ConstructEntity takes ids, DeleteEntities gives them back).
THEOREM IdsConserved == Spec => []NetworkIdsConserved
<1>1. EntityInv => NetworkIdsConserved
  BY DEF EntityInv
<1>2. QED BY <1>1, EntityInvariant, PTL

\* What the server has for observed by a player is what his client shows, in
\* whatever order he moves and entities come, go and reuse ids (UpdateGhosting,
\* CheckGhosting, DestroyEntity, ConstructAllEntities).
THEOREM ObservedMatchesShown == Spec => []ObservedAreShown
<1>1. EntityInv => ObservedAreShown
  BY DEF EntityInv
<1>2. QED BY <1>1, EntityInvariant, PTL

\* An entity that is not ghosted reaches every client, whether it appears
\* before a player loads, while he does, or afterwards (m_LimboConstructions).
THEOREM LimboMissesNothing == Spec => []NothingIsMissed
<1>1. EntityInv => NothingIsMissed
  BY DEF EntityInv
<1>2. QED BY <1>1, EntityInvariant, PTL

\* No move of a player is forgotten by the queue of ghost updates, although it
\* is emptied as a whole and entities appear between (QueueGhostUpdate).
THEOREM ViewStaysCurrent == Spec => []ViewCurrent
<1>1. EntityInv => ViewCurrent
  BY DEF EntityInv
<1>2. QED BY <1>1, EntityInvariant, PTL

-----------------------------------------------------------------------------
\* The players who observe an entity; every one is there.
Observing(e) == {p \in Present : e \in observed[p]}

LEMMA ObservingIsFinite ==
  ASSUME NEW e
  PROVE  IsFiniteSet(Observing(e)) /\ Cardinality(Observing(e)) \in Nat
<1>1. Observing(e) \in SUBSET Players
  BY DEF Observing, Present
<1>2. QED BY <1>1, PlayersAreFinite

\* Steps that neither create, delete nor observe leave the count.
LEMMA CountStays ==
  ASSUME EntityInv, ObserversCounted, Present' = Present,
         m_Entities' \cap Candidates = m_Entities \cap Candidates,
         UNCHANGED <<m_Observers, observed>>
  PROVE  ObserversCounted'
BY DEF ObserversCounted

LEMMA CandidateCounts ==
  ASSUME EntityInv, ObserversCounted, NEW e \in Candidates, ConstructCandidate(e)
  PROVE  ObserversCounted'
<1>1. /\ e \notin made /\ m_Entities' = m_Entities \cup {e}
      /\ observed' = [p \in Players |->
           IF p \in Watchers(e) THEN observed[p] \cup {e} ELSE observed[p]]
      /\ m_Observers' = [m_Observers EXCEPT ![e] = Cardinality(Watchers(e))]
  BY DEF ConstructCandidate
<1>2. Present' = Present /\ Present \subseteq Players /\ e \notin m_Entities
  BY <1>1, EntityConstants DEF Present, EntityInv, TypeOK
<1>3. m_Observers \in [Candidates -> Nat] /\ Watchers(e) \subseteq Present
  BY DEF EntityInv, TypeOK, Watchers
<1> SUFFICES ASSUME NEW f \in (m_Entities \cup {e}) \cap Candidates
             PROVE  m_Observers'[f] = Cardinality({p \in Present : f \in observed'[p]})
  BY <1>1, <1>2 DEF ObserversCounted
<1>4. CASE f = e
  <2>1. \A p \in Players : e \notin observed[p]
    BY <1>1 DEF EntityInv, Unknown
  <2>2. {p \in Present : e \in observed'[p]} = Watchers(e)
    BY <1>1, <1>2, <1>3, <2>1
  <2>3. QED BY <1>1, <1>3, <1>4, <2>2
<1>5. CASE f # e
  <2>1. {p \in Present : f \in observed'[p]} = {p \in Present : f \in observed[p]}
    BY <1>1, <1>2, <1>5
  <2>2. m_Observers'[f] = m_Observers[f] /\ f \in m_Entities \cap Candidates
    BY <1>1, <1>3, <1>5
  <2>3. QED BY <2>1, <2>2 DEF ObserversCounted
<1>6. QED BY <1>4, <1>5

LEMMA DeleteCounts ==
  ASSUME EntityInv, ObserversCounted, DeleteEntities
  PROVE  ObserversCounted'
<1> SUFFICES ASSUME NEW e \in m_Entities' \cap Candidates
             PROVE  m_Observers'[e] = Cardinality(Observing(e)')
  BY DEF ObserversCounted, Observing
<1> DEFINE leaving == {p \in m_EntitiesToDelete \cap Players : e \in observed[p]}
<1>1. /\ m_Entities' = m_Entities \ m_EntitiesToDelete
      /\ m_Observers'[e] = SetObservers(m_Observers[e] - Cardinality(leaving))
      /\ observed' = [p \in Players |-> IF p \in m_EntitiesToDelete THEN {} ELSE observed[p]]
  BY DEF DeleteEntities, Unobserved
<1>2. m_EntitiesToDelete \subseteq m_Entities /\ Present \subseteq Players
  BY DEF EntityInv, TypeOK, Present
<1>3. Observing(e)' = Observing(e) \ leaving
  BY <1>1, <1>2 DEF Observing, Present
<1>4. Observing(e) \cap leaving = leaving
  BY <1>2 DEF Observing, Present
<1> HIDE DEF leaving
<1>5. Cardinality(Observing(e) \ leaving) = Cardinality(Observing(e)) - Cardinality(leaving)
  <2>1. IsFiniteSet(Observing(e))
    BY ObservingIsFinite
  <2>2. Cardinality(Observing(e) \ leaving)
          = Cardinality(Observing(e)) - Cardinality(Observing(e) \cap leaving)
    BY <2>1, FS_Difference, Zenon
  <2>3. QED BY <1>4, <2>2
<1>6. m_Observers[e] = Cardinality(Observing(e))
  BY <1>1 DEF ObserversCounted, Observing
<1>7. Cardinality(Observing(e)') \in Nat
  <2>1. Observing(e) \ leaving \in SUBSET Players
    BY <1>2 DEF Observing
  <2>2. QED BY <1>3, <2>1, PlayersAreFinite
<1>8. m_Observers'[e] = SetObservers(Cardinality(Observing(e)'))
  BY <1>1, <1>3, <1>5, <1>6
<1>9. QED BY <1>7, <1>8 DEF SetObservers

LEMMA LoadCounts ==
  ASSUME EntityInv, ObserversCounted, NEW q \in Players, LevelLoadComplete(q)
  PROVE  ObserversCounted'
<1> DEFINE near == Comes(q, reference[q])
<1>1. /\ q \notin m_Entities /\ m_Entities' = m_Entities \cup {q}
      /\ observed' = [observed EXCEPT ![q] = near]
      /\ m_Observers' = [e \in Candidates |->
           IF e \in near THEN m_Observers[e] + 1 ELSE m_Observers[e]]
  BY DEF LevelLoadComplete
<1> SUFFICES ASSUME NEW e \in m_Entities' \cap Candidates
             PROVE  m_Observers'[e] = Cardinality(Observing(e)')
  BY DEF ObserversCounted, Observing
<1>2. q \notin Candidates /\ observed \in [Players -> SUBSET Candidates] /\ observed[q] = {}
  BY <1>1, EntityConstants DEF EntityInv, TypeOK, AbsentAreBlank
<1>3. e \in m_Entities \cap Candidates
  BY <1>1, <1>2
<1>4. m_Observers[e] = Cardinality(Observing(e))
  BY <1>3 DEF ObserversCounted, Observing
<1>5. Present' = Present \cup {q} /\ q \notin Present /\ Present \subseteq Players
  BY <1>1 DEF Present
<1> HIDE DEF near
<1>6. CASE e \in near
  <2>1. Observing(e)' = Observing(e) \cup {q} /\ q \notin Observing(e)
    BY <1>1, <1>2, <1>5, <1>6 DEF Observing
  <2>2. Cardinality(Observing(e) \cup {q}) = Cardinality(Observing(e)) + 1
    BY <2>1, ObservingIsFinite, FS_AddElement
  <2>3. QED BY <1>1, <1>3, <1>4, <1>6, <2>1, <2>2
<1>7. CASE e \notin near
  <2>1. Observing(e)' = Observing(e)
    BY <1>1, <1>2, <1>5, <1>7 DEF Observing
  <2>2. QED BY <1>1, <1>3, <1>4, <1>7, <2>1
<1>8. QED BY <1>6, <1>7

LEMMA GhostingCounts ==
  ASSUME EntityInv, ObserversCounted, UpdateGhosting
  PROVE  ObserversCounted'
<1> SUFFICES ASSUME NEW e \in m_Entities' \cap Candidates
             PROVE  m_Observers'[e] = Cardinality(Observing(e)')
  BY DEF ObserversCounted, Observing
<1> DEFINE O == Observing(e)
           N == {p \in Moved : e \in New(p)}
           G == {p \in Moved : e \in Old(p)}
<1>1. /\ observed' = [p \in Players |-> (observed[p] \ Old(p)) \cup New(p)]
      /\ m_Entities' = m_Entities
      /\ m_Observers'[e] = SetObservers(m_Observers[e] + Cardinality(N) - Cardinality(G))
  BY GhostingEffect
<1>2. \A p \in Players :
        /\ New(p) \cap observed[p] = {} /\ Old(p) \subseteq observed[p]
        /\ p \notin Moved => New(p) = {} /\ Old(p) = {}
  BY DEF New, Old, Comes, Goes, Moved
<1>3. Moved \subseteq Present /\ Present \subseteq Players /\ Present' = Present
  BY <1>1 DEF Moved, Present
<1>4. Observing(e)' = (O \ G) \cup N
  BY <1>1, <1>2, <1>3 DEF Observing
<1>5. O \cap G = G /\ (O \ G) \cap N = {}
  BY <1>2, <1>3 DEF Observing
<1>6. /\ O \in SUBSET Players /\ N \in SUBSET Players /\ G \in SUBSET Players
      /\ (O \ G) \in SUBSET Players
  BY <1>3 DEF Observing
<1>7. m_Observers[e] = Cardinality(O)
  BY <1>1 DEF ObserversCounted, Observing
<1> HIDE DEF O, N, G
<1>8. /\ IsFiniteSet(O) /\ IsFiniteSet(N) /\ IsFiniteSet(O \ G)
      /\ Cardinality(O) \in Nat /\ Cardinality(N) \in Nat /\ Cardinality(G) \in Nat
      /\ Cardinality(O \ G) \in Nat
  BY <1>6, PlayersAreFinite
<1>9. Cardinality(O \ G) = Cardinality(O) - Cardinality(G)
  <2>1. Cardinality(O \ G) = Cardinality(O) - Cardinality(O \cap G)
    BY <1>8, FS_Difference, Zenon
  <2>2. QED BY <1>5, <2>1
<1>10. Cardinality((O \ G) \cup N) = Cardinality(O \ G) + Cardinality(N)
  <2>1. Cardinality((O \ G) \cup N) =
          Cardinality(O \ G) + Cardinality(N) - Cardinality((O \ G) \cap N)
    BY <1>8, FS_Union
  <2>2. Cardinality((O \ G) \cap N) = 0
    BY <1>5, FS_EmptySet
  <2>3. QED BY <1>8, <2>1, <2>2
<1>11. m_Observers[e] + Cardinality(N) - Cardinality(G) = Cardinality((O \ G) \cup N)
  BY <1>7, <1>8, <1>9, <1>10
<1>12. Cardinality((O \ G) \cup N) \in Nat
  BY <1>8, <1>10
<1>13. QED BY <1>1, <1>4, <1>11, <1>12 DEF SetObservers

\* A candidate has as many observers as it counts, so that none sleeps before
\* the eyes of a player and none is kept awake by a player who left
\* (SetObservers in UpdateGhosting, CheckGhosting and ~GhostComponent).
THEOREM ObserversStayCounted == Spec => []ObserversCounted
<1>1. Init => ObserversCounted
  BY DEF Init, ObserversCounted
<1>2. EntityInv /\ ObserversCounted /\ [Next]_vars => ObserversCounted'
  <2> SUFFICES ASSUME EntityInv, ObserversCounted, [Next]_vars PROVE ObserversCounted'
    OBVIOUS
  <2>1. ASSUME NEW e \in Candidates, ConstructCandidate(e) PROVE ObserversCounted'
    BY <2>1, CandidateCounts
  <2>2. ASSUME NEW e \in Plain, ConstructPlain(e) PROVE ObserversCounted'
    <3>1. /\ m_Entities' = m_Entities \cup {e} /\ UNCHANGED <<m_Observers, observed>>
      BY <2>2 DEF ConstructPlain, ghosts
    <3>2. e \notin Players /\ e \notin Candidates
      BY EntityConstants
    <3>3. Present' = Present /\ m_Entities' \cap Candidates = m_Entities \cap Candidates
      BY <3>1, <3>2 DEF Present
    <3>4. QED BY <3>1, <3>3, CountStays
  <2>3. ASSUME \/ \E e \in Candidates \cup Plain : DestroyEntity(e)
               \/ \E p \in Players : PlayerLoaded(p) \/ Disconnect(p)
               \/ \E p \in Players, spot \in Spots : PositionUpdate(p, spot)
               \/ UNCHANGED vars
        PROVE  ObserversCounted'
    <3>1. UNCHANGED <<m_Entities, m_Observers, observed>>
      BY <2>3 DEF DestroyEntity, PlayerLoaded, Disconnect, PositionUpdate, vars, ghosts
    <3>2. Present' = Present
      BY <3>1 DEF Present
    <3>3. QED BY <3>1, <3>2, CountStays
  <2>4. ASSUME DeleteEntities PROVE ObserversCounted'
    BY <2>4, DeleteCounts
  <2>5. ASSUME NEW p \in Players, LevelLoadComplete(p) PROVE ObserversCounted'
    BY <2>5, LoadCounts
  <2>6. ASSUME UpdateGhosting PROVE ObserversCounted'
    BY <2>6, GhostingCounts
  <2>7. QED BY <2>1, <2>2, <2>3, <2>4, <2>5, <2>6 DEF Next
<1>3. QED BY <1>1, <1>2, EntityInvariant, PTL DEF Spec
==============================================================================
