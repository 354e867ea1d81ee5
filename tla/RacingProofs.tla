---------------------------- MODULE RacingProofs ----------------------------
(***************************************************************************)
(* Proofs about Racing, for any number of players, any track and any       *)
(* times.  m_LoadedPlayers is exact only until a lobby has been sent home, *)
(* as that clears the list and not the count; but it never falls below the *)
(* length of the list, and that is why a race starts complete: as many     *)
(* clients are ready as are counted, which are all there are.              *)
(* The second half proves what the race is driven for: the places and the  *)
(* laps.                                                                   *)
(***************************************************************************)
EXTENDS Racing, SequenceLemmas, FiniteSetTheorems

\* Those whom m_LoadedPlayers counts.
Counted == IF m_Loaded THEN m_RacingPlayers ELSE m_LobbyPlayers

Phases ==
  /\ ~m_Loaded => m_RacingPlayers = <<>> /\ m_LoadTimer < LoadTime
  /\ m_Started => m_Loaded
  /\ ~m_Started => m_StartTimer <= StartTime

CountCovers == m_LoadedPlayers >= Len(Counted)

RaceInv == TypeOK /\ Phases /\ CountCovers /\ LoadedCountExact /\ StartsComplete

LEMMA StagesAreNat == Stages \in Nat /\ Laps * Stages \in Nat /\ Laps * MinLap \in Nat
<1>1. LastPoint \in Nat \ {0} /\ MaxSkip \in Nat \ {0} /\ Laps \in Nat /\ MinLap \in Nat
  BY RacingConstants
<1>2. LastPoint + MaxSkip - 1 \in Nat
  BY <1>1
<1>3. Stages \in Nat
  BY <1>1, <1>2 DEF Stages
<1>4. QED BY <1>1, <1>3

LEMMA AtMostType ==
  ASSUME NEW B \in Nat, NEW n \in 0..B
  PROVE  AtMost(n + 1, B) \in 0..B
BY DEF AtMost

\* The first waypoint of some.
LEMMA LowestIsMember ==
  ASSUME NEW S \in SUBSET Nat, S # {}
  PROVE  Lowest(S) \in S
<1>1. \E i \in S : \A j \in S : i <= j
  BY LeastExists
<1>2. QED BY <1>1 DEF Lowest

\* The list of those whose positions are in S is as long as S is large.
LEMMA AscendingType ==
  ASSUME NEW n \in Nat, NEW S \in SUBSET (1..n)
  PROVE  /\ IsFiniteSet(S) /\ Cardinality(S) \in Nat
         /\ \A order \in Ascending(S) : order \in [1..Cardinality(S) -> S]
<1>1. IsFiniteSet(1..n)
  BY FS_Interval
<1>2. IsFiniteSet(S)
  BY <1>1, FS_Subset
<1>3. QED BY <1>2, FS_CardinalityType DEF Ascending

LEMMA InitHolds == Init => RaceInv
<1> SUFFICES ASSUME Init PROVE RaceInv
  OBVIOUS
<1>1. m_LobbyPlayers = <<>> /\ m_RacingPlayers = <<>> /\ Len(m_LobbyPlayers) = 0
  BY DEF Init
<1>2. TypeOK
  <2>1. /\ 0 \in 0..LoadTime /\ 0 \in 0..EmptyTime /\ 0 \in 0..(StartTime + 1)
    BY RacingConstants
  <2>2. 0 \in 0..(Laps * MinLap) /\ 0 \in 0..(Laps * Stages)
    BY StagesAreNat
  <2>3. {m_SoloRacing, m_Loaded, m_Started} \subseteq BOOLEAN
    BY DEF Init
  <2>4. m_LobbyPlayers \in Seq(Players) /\ m_RacingPlayers \in Seq(Racer)
    BY <1>1
  <2>5. QED BY <2>1, <2>2, <2>3, <2>4 DEF Init, TypeOK
<1>3. Phases /\ CountCovers /\ LoadedCountExact /\ StartsComplete
  BY <1>1, RacingConstants DEF Init, Phases, CountCovers, Counted, LoadedCountExact, StartsComplete
<1>4. QED BY <1>2, <1>3 DEF RaceInv

LEMMA LoadedStep ==
  ASSUME RaceInv, NEW p \in Players, NEW admitted \in BOOLEAN, OnPlayerLoaded(p, admitted)
  PROVE  RaceInv'
<1> USE DEF RaceInv
<1>1. /\ came' = came \cup {p} /\ present' = present \cup {p}
      /\ UNCHANGED <<vehicles, m_SoloRacing, m_LoadTimer, m_EmptyTimer, m_RacingPlayers,
                     m_Loaded, m_Started, m_StartTimer, m_Finished, clock, checkpoints>>
  BY DEF OnPlayerLoaded, race
<1>2. CASE m_Loaded \/ ~admitted
  <2>1. sentHome' = sentHome \cup {p} /\ UNCHANGED <<m_LobbyPlayers, m_LoadedPlayers>>
    BY <1>2 DEF OnPlayerLoaded
  <2>2. QED BY <1>1, <2>1 DEF TypeOK, Phases, CountCovers, Counted, LoadedCountExact, StartsComplete, Racers
<1>3. CASE ~(m_Loaded \/ ~admitted)
  <2>1. /\ m_LoadedPlayers' = m_LoadedPlayers + 1 /\ m_LobbyPlayers' = Append(m_LobbyPlayers, p)
        /\ UNCHANGED sentHome
    BY <1>3 DEF OnPlayerLoaded
  <2>2. m_LobbyPlayers \in Seq(Players) /\ m_LoadedPlayers \in Nat
    BY DEF TypeOK
  <2>3. m_LobbyPlayers' \in Seq(Players) /\ Len(m_LobbyPlayers') = Len(m_LobbyPlayers) + 1
    BY <2>1, <2>2
  <2>4. TypeOK'
    BY <1>1, <2>1, <2>2, <2>3 DEF TypeOK
  <2>5. CountCovers' /\ LoadedCountExact'
    BY <1>1, <1>3, <2>1, <2>2, <2>3 DEF CountCovers, Counted, LoadedCountExact
  <2>6. Phases' /\ StartsComplete'
    BY <1>1, <2>1 DEF Phases, StartsComplete, Racers
  <2>7. QED BY <2>4, <2>5, <2>6
<1>4. QED BY <1>2, <1>3

\* Steps that leave the lists, the count and the timers.
LEMMA ListsStay ==
  ASSUME RaceInv,
         UNCHANGED <<came, m_SoloRacing, m_LobbyPlayers, m_LoadedPlayers, m_LoadTimer,
                     m_EmptyTimer, m_RacingPlayers, m_Loaded, m_Started, m_StartTimer,
                     m_Finished, clock, checkpoints>>,
         present' \subseteq Players, vehicles' \subseteq Players, sentHome' \subseteq Players
  PROVE  RaceInv'
BY DEF RaceInv, TypeOK, Phases, CountCovers, Counted, LoadedCountExact, StartsComplete, Racers

LEMMA LeavesStep ==
  ASSUME RaceInv, NEW p \in Players, PlayerLeaves(p) \/ ExitRace(p)
  PROVE  RaceInv'
<1>1. /\ UNCHANGED <<came, m_SoloRacing, m_LobbyPlayers, m_LoadedPlayers, m_LoadTimer,
                     m_EmptyTimer, m_RacingPlayers, m_Loaded, m_Started, m_StartTimer,
                     m_Finished, clock, checkpoints>>
      /\ present' \subseteq Players /\ vehicles' \subseteq Players /\ sentHome' \subseteq Players
  BY DEF PlayerLeaves, ExitRace, lobby, race, RaceInv, TypeOK
<1>2. QED BY <1>1, ListsStay

LEMMA ReadyStep ==
  ASSUME RaceInv, NEW p \in Players, OnRacingClientReady(p)
  PROVE  RaceInv'
<1> USE DEF RaceInv
<1>1. PICK k \in Racers :
        /\ m_RacingPlayers[k].player = p /\ ~m_RacingPlayers[k].playerLoaded
        /\ m_RacingPlayers' = [m_RacingPlayers EXCEPT ![k].playerLoaded = TRUE]
  BY DEF OnRacingClientReady
<1>2. UNCHANGED <<present, came, sentHome, vehicles, m_SoloRacing, m_LobbyPlayers,
                  m_LoadedPlayers, m_LoadTimer, m_EmptyTimer, m_Loaded, m_Started, m_StartTimer,
                  m_Finished, clock, checkpoints>>
  BY DEF OnRacingClientReady, people, lobby, race
<1>3. m_RacingPlayers \in Seq(Racer)
  BY DEF TypeOK
<1>4. k \in 1..Len(m_RacingPlayers) /\ m_RacingPlayers[k] \in Racer
  BY <1>1, <1>3 DEF Racers
<1>5. [m_RacingPlayers[k] EXCEPT !.playerLoaded = TRUE] \in Racer
  BY <1>4 DEF Racer
<1>6. m_RacingPlayers' \in Seq(Racer) /\ Len(m_RacingPlayers') = Len(m_RacingPlayers)
  BY <1>1, <1>3, <1>4, <1>5, UpdateType
<1>7. TypeOK'
  BY <1>2, <1>6 DEF TypeOK
<1>8. m_Started => \A i \in DOMAIN m_RacingPlayers' : m_RacingPlayers'[i].playerLoaded
  BY <1>1, <1>4 DEF StartsComplete, Racers
<1>9. Phases' /\ CountCovers' /\ LoadedCountExact'
  BY <1>2, <1>3, <1>4, <1>6 DEF Phases, CountCovers, Counted, LoadedCountExact
<1>10. StartsComplete'
  BY <1>2, <1>6, <1>8 DEF StartsComplete, Racers
<1>11. QED BY <1>7, <1>9, <1>10

LEMMA LobbyGoneStep ==
  ASSUME RaceInv, LobbyPlayerGone
  PROVE  RaceInv'
<1> USE DEF RaceInv
<1>1. PICK i \in DOMAIN m_LobbyPlayers : m_LobbyPlayers' = RemoveAt(m_LobbyPlayers, i)
  BY DEF LobbyPlayerGone
<1>2. /\ ~m_Loaded /\ m_LoadedPlayers' = m_LoadedPlayers - 1
      /\ UNCHANGED <<present, came, sentHome, vehicles, m_SoloRacing, m_LoadTimer, m_EmptyTimer,
                     m_RacingPlayers, m_Loaded, m_Started, m_StartTimer, m_Finished, clock,
                     checkpoints>>
  BY DEF LobbyPlayerGone, people, race
<1>3. m_LobbyPlayers \in Seq(Players) /\ m_LoadedPlayers \in Nat /\ i \in 1..Len(m_LobbyPlayers)
  BY <1>1 DEF TypeOK
<1>4. m_LobbyPlayers' \in Seq(Players) /\ Len(m_LobbyPlayers') = Len(m_LobbyPlayers) - 1
  BY <1>1, <1>3, RemoveAtProperties
<1>5. m_LoadedPlayers >= Len(m_LobbyPlayers) /\ Len(m_LobbyPlayers) \in Nat \ {0}
  BY <1>2, <1>3 DEF CountCovers, Counted
<1>6. TypeOK'
  <2>1. m_LoadedPlayers' \in Nat
    BY <1>2, <1>3, <1>5
  <2>2. QED BY <1>2, <1>4, <2>1 DEF TypeOK
<1>7. CountCovers' /\ LoadedCountExact'
  BY <1>2, <1>3, <1>4, <1>5 DEF CountCovers, Counted, LoadedCountExact
<1>8. Phases' /\ StartsComplete'
  BY <1>2 DEF Phases, StartsComplete, Racers
<1>9. QED BY <1>6, <1>7, <1>8

LEMMA RacerGoneStep ==
  ASSUME RaceInv, RacingPlayerGone
  PROVE  RaceInv'
<1> USE DEF RaceInv
<1>1. PICK i \in Racers : m_RacingPlayers' = RemoveAt(m_RacingPlayers, i)
  BY DEF RacingPlayerGone
<1>2. /\ m_Loaded /\ ~m_Started /\ m_LoadedPlayers' = m_LoadedPlayers - 1
      /\ UNCHANGED <<present, came, sentHome, vehicles, m_SoloRacing, m_LobbyPlayers,
                     m_LoadTimer, m_EmptyTimer, m_Loaded, m_Started, m_StartTimer, m_Finished,
                     clock, checkpoints>>
  BY DEF RacingPlayerGone, people, race
<1>3. m_RacingPlayers \in Seq(Racer) /\ m_LoadedPlayers \in Nat /\ i \in 1..Len(m_RacingPlayers)
  BY <1>1 DEF TypeOK, Racers
<1>4. m_RacingPlayers' \in Seq(Racer) /\ Len(m_RacingPlayers') = Len(m_RacingPlayers) - 1
  BY <1>1, <1>3, RemoveAtProperties
<1>5. m_LoadedPlayers >= Len(m_RacingPlayers) /\ Len(m_RacingPlayers) \in Nat \ {0}
  BY <1>2, <1>3 DEF CountCovers, Counted
<1>6. TypeOK'
  <2>1. m_LoadedPlayers' \in Nat
    BY <1>2, <1>3, <1>5
  <2>2. QED BY <1>2, <1>4, <2>1 DEF TypeOK
<1>7. CountCovers' /\ LoadedCountExact'
  BY <1>2, <1>3, <1>4, <1>5 DEF CountCovers, Counted, LoadedCountExact
<1>8. Phases' /\ StartsComplete'
  BY <1>2 DEF Phases, StartsComplete
<1>9. QED BY <1>6, <1>7, <1>8

\* The cars are loaded: the list of the lobby, without who has none, becomes
\* that of the race.
LEMMA LoadingStep ==
  ASSUME RaceInv, ~m_Loaded, NEW noCar \in SUBSET ToSet(m_LobbyPlayers),
         LoadPlayerVehicles(noCar),
         m_LoadTimer' \in 0..LoadTime, m_EmptyTimer' \in 0..EmptyTime,
         m_EmptyTimer' < EmptyTime => m_EmptyTimer < EmptyTime,
         UNCHANGED <<present, came, m_SoloRacing, m_Started, m_StartTimer, m_Finished, clock,
                     checkpoints>>
  PROVE  RaceInv'
<1> USE DEF RaceInv
<1> DEFINE S == HaveCars(noCar)
<1>1. m_LobbyPlayers \in Seq(Players) /\ m_LoadedPlayers \in Nat
  BY DEF TypeOK
<1>2. S \in SUBSET (1..Len(m_LobbyPlayers)) /\ Len(m_LobbyPlayers) \in Nat
  BY <1>1 DEF HaveCars
<1>3. IsFiniteSet(S) /\ Cardinality(S) \in Nat
  BY <1>2, AscendingType
<1>4. PICK order \in Ascending(S) :
        m_RacingPlayers' = [k \in 1..Cardinality(S) |-> NewRacer(m_LobbyPlayers[order[k]])]
  BY DEF LoadPlayerVehicles
<1>5. order \in [1..Cardinality(S) -> S]
  BY <1>2, <1>4, AscendingType
<1>6. \A k \in 1..Cardinality(S) : NewRacer(m_LobbyPlayers[order[k]]) \in Racer
  <2> SUFFICES ASSUME NEW k \in 1..Cardinality(S)
               PROVE  NewRacer(m_LobbyPlayers[order[k]]) \in Racer
    OBVIOUS
  <2>1. m_LobbyPlayers[order[k]] \in Players
    BY <1>1, <1>2, <1>5
  <2>2. 0 \in 0..LastPoint /\ 0 \in 0..Laps /\ 0 \in 0..MinLap
    BY RacingConstants
  <2>3. QED BY <2>1, <2>2 DEF NewRacer, Racer
<1> HIDE DEF S
<1>7. m_RacingPlayers' \in Seq(Racer) /\ Len(m_RacingPlayers') = Cardinality(S)
  BY <1>3, <1>4, <1>6
<1>8. /\ m_LoadedPlayers' = m_LoadedPlayers - (Len(m_LobbyPlayers) - Cardinality(S))
      /\ m_Loaded' = TRUE /\ m_LobbyPlayers' = m_LobbyPlayers
      /\ vehicles' = ToSet(m_LobbyPlayers) \ noCar /\ sentHome' = sentHome \cup noCar
  BY DEF LoadPlayerVehicles, S
<1>9. m_LoadedPlayers >= Len(m_LobbyPlayers)
  BY DEF CountCovers, Counted
<1>10. m_LoadedPlayers' \in Nat /\ m_LoadedPlayers' >= Cardinality(S)
  BY <1>1, <1>2, <1>3, <1>8, <1>9
<1>11. ToSet(m_LobbyPlayers) \subseteq Players
  BY <1>1 DEF ToSet
<1>12. ~m_Started /\ m_StartTimer <= StartTime
  BY DEF Phases
<1>13. TypeOK'
  <2>1. vehicles' \subseteq Players /\ sentHome' \subseteq Players
    BY <1>8, <1>11 DEF TypeOK
  <2>2. QED BY <1>7, <1>8, <1>10, <2>1 DEF TypeOK
<1>14. Phases' /\ StartsComplete'
  BY <1>8, <1>12 DEF Phases, StartsComplete
<1>15. CountCovers'
  BY <1>7, <1>8, <1>10 DEF CountCovers, Counted
<1>16. LoadedCountExact'
  <2>1. m_EmptyTimer' < EmptyTime => m_LoadedPlayers = Len(m_LobbyPlayers)
    BY DEF LoadedCountExact
  <2>2. m_EmptyTimer' < EmptyTime => m_LoadedPlayers' = Cardinality(S)
    BY <1>1, <1>2, <1>3, <1>8, <2>1
  <2>3. QED BY <1>7, <1>8, <2>2 DEF LoadedCountExact
<1>17. QED BY <1>13, <1>14, <1>15, <1>16

LEMMA LobbyStep ==
  ASSUME RaceInv, NEW noCar \in SUBSET ToSet(m_LobbyPlayers), UpdateLobby(noCar)
  PROVE  RaceInv'
<1> USE DEF RaceInv
<1>1. /\ ~m_Loaded /\ m_LoadTimer < LoadTime /\ m_RacingPlayers = <<>>
      /\ ~m_Started /\ m_StartTimer <= StartTime
      /\ m_LoadTimer \in 0..LoadTime /\ m_EmptyTimer \in 0..EmptyTime
      /\ LoadTime \in Nat /\ EmptyTime \in Nat
  BY RacingConstants DEF UpdateLobby, Phases, TypeOK
<1>2. UNCHANGED <<present, came, m_SoloRacing, m_Started, m_StartTimer, m_Finished, clock,
                  checkpoints>>
  BY DEF UpdateLobby, race
<1>3. /\ m_LoadTimer' \in 0..LoadTime /\ m_EmptyTimer' \in 0..EmptyTime
      /\ m_EmptyTimer' < EmptyTime => m_EmptyTimer < EmptyTime
  <2>1. CASE Enough
    BY <1>1, <2>1 DEF UpdateLobby
  <2>2. CASE ~Enough
    <3>1. m_EmptyTimer' = AtMost(m_EmptyTimer + 1, EmptyTime) /\ m_LoadTimer' = m_LoadTimer
      BY <2>2 DEF UpdateLobby
    <3>2. m_EmptyTimer' \in 0..EmptyTime
      BY <1>1, <3>1, AtMostType
    <3>3. m_EmptyTimer' < EmptyTime => m_EmptyTimer < EmptyTime
      BY <1>1, <3>1 DEF AtMost
    <3>4. QED BY <1>1, <3>1, <3>2, <3>3
  <2>3. QED BY <2>1, <2>2
<1>4. CASE /\ m_EmptyTimer' < EmptyTime /\ m_LoadTimer' < LoadTime
           /\ UNCHANGED <<sentHome, m_LobbyPlayers, m_RacingPlayers, vehicles,
                          m_LoadedPlayers, m_Loaded>>
  BY <1>1, <1>2, <1>3, <1>4
     DEF TypeOK, Phases, CountCovers, Counted, LoadedCountExact, StartsComplete, Racers
<1>5. CASE LoadPlayerVehicles(noCar)
  BY <1>1, <1>2, <1>3, <1>5, LoadingStep
<1>6. CASE /\ m_EmptyTimer' >= EmptyTime /\ SendLobbyHome
           /\ m_Loaded' = (m_LoadTimer' >= LoadTime)
           /\ UNCHANGED <<m_RacingPlayers, vehicles, m_LoadedPlayers>>
  <2>1. m_LobbyPlayers' = <<>> /\ sentHome' = sentHome \cup ToSet(m_LobbyPlayers)
    BY <1>6 DEF SendLobbyHome
  <2>2. ToSet(m_LobbyPlayers) \subseteq Players
    BY DEF TypeOK, ToSet
  <2>3. m_LobbyPlayers' \in Seq(Players) /\ Len(m_LobbyPlayers') = 0 /\ Len(m_RacingPlayers') = 0
    BY <1>1, <1>6, <2>1
  <2>4. TypeOK'
    BY <1>2, <1>3, <1>6, <2>1, <2>2, <2>3 DEF TypeOK
  <2>5. Phases' /\ StartsComplete'
    <3>1. m_Started' = m_Started /\ m_StartTimer' = m_StartTimer /\ ~m_Started
      BY <1>1, <1>2
    <3>2. ~m_Loaded' => m_LoadTimer' < LoadTime
      <4>1. CASE m_LoadTimer' >= LoadTime
        BY <1>6, <4>1
      <4>2. CASE ~(m_LoadTimer' >= LoadTime)
        BY <1>1, <1>3, <4>2
      <4>3. QED BY <4>1, <4>2
    <3>3. m_RacingPlayers' = <<>>
      BY <1>1, <1>6
    <3>4. QED BY <1>1, <3>1, <3>2, <3>3 DEF Phases, StartsComplete
  <2>6. m_LoadedPlayers \in Nat
    BY DEF TypeOK
  <2>7. CountCovers' /\ LoadedCountExact'
    BY <1>3, <1>6, <2>3, <2>6, RacingConstants DEF CountCovers, Counted, LoadedCountExact
  <2>8. QED BY <2>4, <2>5, <2>7
<1>7. QED BY <1>4, <1>5, <1>6 DEF UpdateLobby

LEMMA TooFewStep ==
  ASSUME RaceInv, TooFewLeft
  PROVE  RaceInv'
<1>1. ToSet(m_LobbyPlayers) \subseteq Players
  BY DEF RaceInv, TypeOK, ToSet
<1>2. /\ UNCHANGED <<came, m_SoloRacing, m_LobbyPlayers, m_LoadedPlayers, m_LoadTimer,
                     m_EmptyTimer, m_RacingPlayers, m_Loaded, m_Started, m_StartTimer,
                     m_Finished, clock, checkpoints>>
      /\ present' \subseteq Players /\ vehicles' \subseteq Players /\ sentHome' \subseteq Players
  BY <1>1 DEF TooFewLeft, lobby, race, RaceInv, TypeOK
<1>3. QED BY <1>2, ListsStay

LEMMA NotReadyStep ==
  ASSUME RaceInv, NotAllReady
  PROVE  RaceInv'
<1>1. /\ ~m_Started /\ m_StartTimer' = 0 /\ StartTime \in Nat
      /\ UNCHANGED <<present, came, sentHome, vehicles, m_SoloRacing, m_LobbyPlayers,
                     m_LoadedPlayers, m_LoadTimer, m_EmptyTimer, m_RacingPlayers, m_Loaded,
                     m_Started, m_Finished, clock, checkpoints>>
  BY RacingConstants DEF NotAllReady, people, lobby, race
<1>2. TypeOK'
  BY <1>1 DEF RaceInv, TypeOK
<1>3. Phases' /\ CountCovers' /\ LoadedCountExact' /\ StartsComplete'
  BY <1>1 DEF RaceInv, Phases, CountCovers, Counted, LoadedCountExact, StartsComplete
<1>4. QED BY <1>2, <1>3 DEF RaceInv

LEMMA IntervalSize ==
  ASSUME NEW n \in Nat
  PROVE  IsFiniteSet(1..n) /\ Cardinality(1..n) = n
<1>1. IsFiniteSet(1..n) /\ Cardinality(1..n) = IF 1 > n THEN 0 ELSE n - 1 + 1
  BY FS_Interval
<1>2. CASE n = 0
  <2>1. 1 > n
    BY <1>2
  <2>2. QED BY <1>1, <1>2, <2>1, Zenon
<1>3. CASE n # 0
  <2>1. ~(1 > n) /\ n - 1 + 1 = n
    BY <1>3
  <2>2. QED BY <1>1, <2>1, Zenon
<1>4. QED BY <1>2, <1>3

\* Once as many clients are ready as are counted, all racers are, and the
\* count is their number.
LEMMA AllAreReady ==
  ASSUME RaceInv, m_Loaded, Cardinality(ReadyPlayers) >= m_LoadedPlayers
  PROVE  /\ \A k \in Racers : m_RacingPlayers[k].playerLoaded
         /\ m_LoadedPlayers = Len(m_RacingPlayers)
<1>1. m_RacingPlayers \in Seq(Racer) /\ m_LoadedPlayers \in Nat
  BY DEF RaceInv, TypeOK
<1>2. Racers = 1..Len(m_RacingPlayers) /\ Len(m_RacingPlayers) \in Nat
  BY <1>1 DEF Racers
<1>3. IsFiniteSet(Racers) /\ Cardinality(Racers) = Len(m_RacingPlayers)
  BY <1>2, IntervalSize
<1>4. ReadyPlayers \subseteq Racers
  BY DEF ReadyPlayers
<1>5. /\ Cardinality(ReadyPlayers) <= Cardinality(Racers)
      /\ Cardinality(ReadyPlayers) = Cardinality(Racers) => ReadyPlayers = Racers
      /\ IsFiniteSet(ReadyPlayers)
  BY <1>3, <1>4, FS_Subset
<1>6. Cardinality(ReadyPlayers) \in Nat
  BY <1>5, FS_CardinalityType
<1>7. m_LoadedPlayers >= Len(m_RacingPlayers)
  BY DEF RaceInv, CountCovers, Counted
<1>8. Cardinality(ReadyPlayers) = Cardinality(Racers) /\ m_LoadedPlayers = Len(m_RacingPlayers)
  BY <1>1, <1>2, <1>3, <1>5, <1>6, <1>7
<1>9. QED BY <1>5, <1>8 DEF ReadyPlayers

LEMMA CountdownStep ==
  ASSUME RaceInv, Countdown
  PROVE  RaceInv'
<1>1. /\ m_Loaded /\ ~m_Started /\ Enough /\ Cardinality(ReadyPlayers) >= m_LoadedPlayers
      /\ m_StartTimer' = m_StartTimer + 1 /\ m_Started' = (m_StartTimer >= StartTime)
      /\ UNCHANGED <<present, came, sentHome, vehicles, m_SoloRacing, m_LobbyPlayers,
                     m_LoadedPlayers, m_LoadTimer, m_EmptyTimer, m_RacingPlayers, m_Loaded,
                     m_Finished, clock, checkpoints>>
  BY DEF Countdown, people, lobby, race
<1>2. m_StartTimer \in 0..StartTime /\ StartTime \in Nat
  BY <1>1, RacingConstants DEF RaceInv, TypeOK, Phases
<1>3. m_StartTimer' \in 0..(StartTime + 1)
  BY <1>1, <1>2
<1>4. m_Started' \in BOOLEAN
  BY <1>1
<1>5. TypeOK'
  BY <1>1, <1>3, <1>4 DEF RaceInv, TypeOK
<1>6. ~m_Started' => m_StartTimer' <= StartTime
  <2>1. CASE m_StartTimer >= StartTime
    BY <1>1, <2>1
  <2>2. CASE ~(m_StartTimer >= StartTime)
    BY <1>1, <1>2, <2>2
  <2>3. QED BY <2>1, <2>2
<1>7. Phases'
  BY <1>1, <1>6 DEF RaceInv, Phases
<1>8. CountCovers' /\ LoadedCountExact'
  BY <1>1 DEF RaceInv, CountCovers, Counted, LoadedCountExact
<1>9. StartsComplete'
  <2>1. /\ \A k \in Racers : m_RacingPlayers[k].playerLoaded
        /\ m_LoadedPlayers = Len(m_RacingPlayers)
    BY <1>1, AllAreReady
  <2>2. QED BY <1>1, <2>1 DEF StartsComplete, Enough, Racers
<1>10. QED BY <1>5, <1>7, <1>8, <1>9 DEF RaceInv

LEMMA AheadType ==
  ASSUME NEW r \in 0..LastPoint, NEW place \in Places
  PROVE  Ahead(r, place) \subseteq 0..LastPoint /\ OffByOne(place) \subseteq 0..LastPoint
<1>1. place \subseteq 0..LastPoint /\ LastPoint \in Nat
  BY RacingConstants
<1>2. Ahead(r, place) \subseteq 0..LastPoint
  BY <1>1 DEF Ahead
<1>3. OffByOne(place) \subseteq 0..LastPoint
  BY <1>1 DEF OffByOne
<1>4. QED BY <1>2, <1>3

LEMMA NewIndexType ==
  ASSUME NEW racer \in Racer, NEW place \in Places
  PROVE  NewIndex(racer, place) \in 0..LastPoint
<1>1. racer.respawnIndex \in 0..LastPoint /\ LastPoint \in Nat
  BY RacingConstants DEF Racer
<1>2. /\ Ahead(racer.respawnIndex, place) \subseteq 0..LastPoint
      /\ OffByOne(place) \subseteq 0..LastPoint
  BY <1>1, AheadType
<1>3. /\ Ahead(racer.respawnIndex, place) \in SUBSET Nat
      /\ OffByOne(place) \in SUBSET Nat
  BY <1>1, <1>2
<1>4. Moves(racer, place) =>
        Lowest(Ahead(racer.respawnIndex, place)) \in Ahead(racer.respawnIndex, place)
  BY <1>3, LowestIsMember DEF Moves
<1>5. OffByOne(place) # {} => Lowest(OffByOne(place)) \in OffByOne(place)
  BY <1>3, LowestIsMember
<1>6. QED BY <1>1, <1>2, <1>4, <1>5, Zenon DEF NewIndex

\* Who ends a lap has not driven them all.
LEMMA NewLapType ==
  ASSUME NEW racer \in Racer, NEW place \in Places
  PROVE  (IF EndsLap(racer, place) THEN racer.lap + 1 ELSE racer.lap) \in 0..Laps
<1>1. racer.lap \in 0..Laps /\ Laps \in Nat
  BY RacingConstants DEF Racer
<1>2. EndsLap(racer, place) => racer.lap # Laps
  BY Zenon DEF EndsLap, AtStart, Moves, Driving
<1>3. QED BY <1>1, <1>2

\* The places given out in a frame are counted.
LEMMA FinishedUpToType ==
  ASSUME NEW k \in Nat, NEW place
  PROVE  FinishedUpTo(k, place) \in Nat
<1> DEFINE T == {j \in 1..k : Finishes(m_RacingPlayers[j], place[j])}
<1>1. T \subseteq 1..k /\ IsFiniteSet(1..k)
  BY FS_Interval
<1>2. IsFiniteSet(T)
  BY <1>1, FS_Subset
<1>3. Cardinality(T) \in Nat
  BY <1>2, FS_CardinalityType
<1>4. QED BY <1>3 DEF FinishedUpTo

\* The entry of a racer after a frame.
After(k, place) ==
  [m_RacingPlayers[k] EXCEPT
     !.respawnIndex = NewIndex(m_RacingPlayers[k], place[k]),
     !.lap = IF EndsLap(m_RacingPlayers[k], place[k]) THEN @ + 1 ELSE @,
     !.since = IF EndsLap(m_RacingPlayers[k], place[k]) THEN 0 ELSE AtMost(@ + 1, MinLap),
     !.finished = IF Finishes(m_RacingPlayers[k], place[k])
                  THEN m_Finished + FinishedUpTo(k, place) ELSE @]

LEMMA AfterType ==
  ASSUME TypeOK, NEW place \in [Racers -> Places], NEW k \in Racers
  PROVE  /\ After(k, place) \in Racer
         /\ After(k, place).playerLoaded = m_RacingPlayers[k].playerLoaded
<1> DEFINE racer == m_RacingPlayers[k]
<1> DEFINE index == NewIndex(racer, place[k])
<1> DEFINE laps == IF EndsLap(racer, place[k]) THEN racer.lap + 1 ELSE racer.lap
<1> DEFINE wait == IF EndsLap(racer, place[k]) THEN 0 ELSE AtMost(racer.since + 1, MinLap)
<1> DEFINE rank == IF Finishes(racer, place[k]) THEN m_Finished + FinishedUpTo(k, place)
                                               ELSE racer.finished
<1>1. k \in Nat /\ racer \in Racer /\ m_Finished \in Nat
  BY DEF TypeOK, Racers
<1>2. place[k] \in Places
  OBVIOUS
<1>3. index \in 0..LastPoint
  BY <1>1, <1>2, NewIndexType
<1>4. laps \in 0..Laps
  BY <1>1, <1>2, NewLapType
<1>5. wait \in 0..MinLap
  <2>1. racer.since \in 0..MinLap /\ MinLap \in Nat
    BY <1>1, RacingConstants DEF Racer
  <2>2. AtMost(racer.since + 1, MinLap) \in 0..MinLap
    BY <2>1, AtMostType
  <2>3. 0 \in 0..MinLap
    BY <2>1
  <2>4. QED BY <2>2, <2>3
<1>6. rank \in Nat
  <2>1. FinishedUpTo(k, place) \in Nat
    BY <1>1, FinishedUpToType
  <2>2. racer.finished \in Nat
    BY <1>1 DEF Racer
  <2>3. m_Finished + FinishedUpTo(k, place) \in Nat
    BY <1>1, <2>1
  <2>4. QED BY <2>2, <2>3
<1>7. After(k, place) = [racer EXCEPT !.respawnIndex = index, !.lap = laps, !.since = wait,
                                      !.finished = rank]
  BY <1>1 DEF After, Racer
<1> HIDE DEF racer, index, laps, wait, rank
<1>8. /\ After(k, place) \in Racer
      /\ After(k, place).playerLoaded = racer.playerLoaded
  BY <1>1, <1>3, <1>4, <1>5, <1>6, <1>7 DEF Racer
<1>9. QED BY <1>8 DEF racer

LEMMA RaceStep ==
  ASSUME RaceInv, NEW place \in [Racers -> Places], UpdateRace(place)
  PROVE  RaceInv'
<1> USE DEF RaceInv
<1>1. /\ m_Loaded /\ m_Started
      /\ UNCHANGED <<present, came, sentHome, vehicles, m_SoloRacing, m_LobbyPlayers,
                     m_LoadedPlayers, m_LoadTimer, m_EmptyTimer, m_Loaded, m_Started,
                     m_StartTimer>>
  BY DEF UpdateRace, people, lobby
<1>2. m_RacingPlayers \in Seq(Racer) /\ Racers = 1..Len(m_RacingPlayers)
      /\ Len(m_RacingPlayers) \in Nat
  BY DEF TypeOK, Racers
<1>3. m_RacingPlayers' = [k \in Racers |-> After(k, place)]
  BY DEF UpdateRace, After
<1>4. \A k \in Racers : /\ After(k, place) \in Racer
                        /\ After(k, place).playerLoaded = m_RacingPlayers[k].playerLoaded
  BY AfterType
<1>5. /\ m_RacingPlayers' \in Seq(Racer) /\ Len(m_RacingPlayers') = Len(m_RacingPlayers)
      /\ DOMAIN m_RacingPlayers' = Racers
      /\ \A k \in Racers : m_RacingPlayers'[k].playerLoaded = m_RacingPlayers[k].playerLoaded
  BY <1>2, <1>3, <1>4
<1>6. m_Finished' \in Nat
  <2>1. FinishedUpTo(Len(m_RacingPlayers), place) \in Nat
    BY <1>2, FinishedUpToType
  <2>2. m_Finished \in Nat /\ m_Finished' = m_Finished + FinishedUpTo(Len(m_RacingPlayers), place)
    BY DEF UpdateRace, TypeOK
  <2>3. QED BY <2>1, <2>2
<1>7. clock' \in 0..(Laps * MinLap)
  <2>1. clock \in 0..(Laps * MinLap) /\ clock' = AtMost(clock + 1, Laps * MinLap)
    BY DEF UpdateRace, TypeOK
  <2>2. QED BY <2>1, StagesAreNat, AtMostType
<1>8. checkpoints' \in [Players -> 0..(Laps * Stages)]
  <2>1. checkpoints \in [Players -> 0..(Laps * Stages)]
    BY DEF TypeOK
  <2>2. \A p \in Players : AtMost(checkpoints[p] + 1, Laps * Stages) \in 0..(Laps * Stages)
    BY <2>1, StagesAreNat, AtMostType
  <2>3. checkpoints' = [p \in Players |->
          IF \E k \in Racers : RacingPlayer[k] = p /\ Moves(m_RacingPlayers[k], place[k])
          THEN AtMost(checkpoints[p] + 1, Laps * Stages) ELSE checkpoints[p]]
    BY DEF UpdateRace
  <2>4. QED BY <2>1, <2>2, <2>3
<1>9. TypeOK'
  BY <1>1, <1>5, <1>6, <1>7, <1>8 DEF TypeOK
<1>10. Phases' /\ CountCovers' /\ LoadedCountExact'
  BY <1>1, <1>5 DEF Phases, CountCovers, Counted, LoadedCountExact
<1>11. StartsComplete'
  BY <1>1, <1>5 DEF StartsComplete, Racers
<1>12. QED BY <1>9, <1>10, <1>11

LEMMA UpdateStep ==
  ASSUME RaceInv, Update
  PROVE  RaceInv'
BY LobbyGoneStep, LobbyStep, RacerGoneStep, TooFewStep, CountdownStep, NotReadyStep, RaceStep
   DEF Update

LEMMA NextHolds == RaceInv /\ [Next]_vars => RaceInv'
<1> SUFFICES ASSUME RaceInv, [Next]_vars PROVE RaceInv'
  OBVIOUS
<1>1. CASE Next
  BY <1>1, LoadedStep, LeavesStep, ReadyStep, UpdateStep DEF Next
<1>2. CASE UNCHANGED vars
  <2>1. /\ UNCHANGED <<came, m_SoloRacing, m_LobbyPlayers, m_LoadedPlayers, m_LoadTimer,
                       m_EmptyTimer, m_RacingPlayers, m_Loaded, m_Started, m_StartTimer,
                       m_Finished, clock, checkpoints>>
        /\ UNCHANGED <<present, vehicles, sentHome>>
    BY <1>2 DEF vars, people, lobby, race
  <2>2. QED BY <2>1, ListsStay DEF RaceInv, TypeOK
<1>3. QED BY <1>1, <1>2

\* The inductive invariant of the race.
THEOREM RaceInvariant == Spec => []RaceInv
BY InitHolds, NextHolds, PTL DEF Spec

\* Every variable keeps its type: the index of a racer stays on the path, no
\* racer drives more than all laps, the places are numbers.
THEOREM TypeCorrect == Spec => []TypeOK
<1>1. RaceInv => TypeOK
  BY DEF RaceInv
<1>2. QED BY <1>1, RaceInvariant, PTL

\* m_LoadedPlayers, counted in five places, is the number of those who wait
\* or race, until a lobby has been sent home.
THEOREM CountStaysExact == Spec => []LoadedCountExact
<1>1. RaceInv => LoadedCountExact
  BY DEF RaceInv
<1>2. QED BY <1>1, RaceInvariant, PTL

\* However players leave and get ready during the countdown, a race starts
\* with all clients ready and with two racers unless one may race alone.
THEOREM RacesStartComplete == Spec => []StartsComplete
<1>1. RaceInv => StartsComplete
  BY DEF RaceInv
<1>2. QED BY <1>1, RaceInvariant, PTL
-----------------------------------------------------------------------------
(***************************************************************************)
(* The standings.  Until the start no racer has driven; from then on the   *)
(* places given out are kept apart, and each racer has the time and the    *)
(* checkpoints behind him that his lap and his waypoint stand for: so many *)
(* that the next lap, when it ends, is again paid for.                     *)
(***************************************************************************)
\* The checkpoints without which waypoint r is not reached in a lap.
StagesTo(r) == (r + MaxSkip - 1) \div MaxSkip

Done == {k \in Racers : m_RacingPlayers[k].finished # 0}

NobodyHasDriven ==
  /\ m_Finished = 0
  /\ \A k \in Racers :
       LET racer == m_RacingPlayers[k] IN
       racer.respawnIndex = 0 /\ racer.lap = 0 /\ racer.finished = 0 /\ racer.since = 0

PlacesApart ==
  /\ Cardinality(Done) = m_Finished
  /\ \A k \in Racers : m_RacingPlayers[k].finished <= m_Finished
  /\ \A k \in Racers : m_RacingPlayers[k].finished # 0 <=> m_RacingPlayers[k].lap = Laps
  /\ \A j, k \in Done : m_RacingPlayers[j].finished = m_RacingPlayers[k].finished => j = k

\* Racer r, with the time t since the start and c checkpoints, has driven
\* his laps and the way to his waypoint.
HasDriven(r, t, c) ==
  IF r.lap = Laps
  THEN t >= Laps * MinLap /\ c >= Laps * Stages
  ELSE t >= r.lap * MinLap + r.since /\ c >= r.lap * Stages + StagesTo(r.respawnIndex)

AllHaveDriven ==
  \A k \in Racers : HasDriven(m_RacingPlayers[k], clock, checkpoints[m_RacingPlayers[k].player])

Standings == IF m_Started THEN PlacesApart /\ AllHaveDriven ELSE NobodyHasDriven

\* The quotient q divides into a.
LEMMA Quotient ==
  ASSUME NEW a \in Nat, NEW q \in Nat \ {0}
  PROVE  a \div q \in Nat /\ (a \div q) * q <= a /\ a < (a \div q) * q + q
OBVIOUS

LEMMA QuotientGrows ==
  ASSUME NEW a \in Nat, NEW b \in Nat, NEW q \in Nat \ {0}, a <= b
  PROVE  a \div q <= b \div q
<1> DEFINE m == a \div q
           n == b \div q
<1>1. m \in Nat /\ m * q <= a /\ n \in Nat /\ b < n * q + q
  BY Quotient
<1> HIDE DEF m, n
<1>2. ASSUME m > n PROVE FALSE
  <2>1. PICK d \in Nat : m = n + 1 + d
    <3>1. m - n - 1 \in Nat /\ m = n + 1 + (m - n - 1)
      BY <1>1, <1>2
    <3>2. QED BY <3>1
  <2>2. m * q = n * q + q + d * q
    BY <1>1, <2>1
  <2>3. d * q >= 0
    BY <2>1
  <2>4. QED BY <1>1, <2>2, <2>3
<1>3. m <= n
  BY <1>1, <1>2
<1>4. QED BY <1>3 DEF m, n

LEMMA QuotientStep ==
  ASSUME NEW a \in Nat, NEW b \in Nat, NEW q \in Nat \ {0}, b <= a + q
  PROVE  b \div q <= a \div q + 1
<1> DEFINE m == a \div q
           n == b \div q
<1>1. m \in Nat /\ a < m * q + q /\ n \in Nat /\ n * q <= b
  BY Quotient
<1> HIDE DEF m, n
<1>2. ASSUME n > m + 1 PROVE FALSE
  <2>1. PICK d \in Nat : n = m + 2 + d
    <3>1. n - m - 2 \in Nat /\ n = m + 2 + (n - m - 2)
      BY <1>1, <1>2
    <3>2. QED BY <3>1
  <2>2. n * q = m * q + 2 * q + d * q
    BY <1>1, <2>1
  <2>3. d * q >= 0
    BY <2>1
  <2>4. QED BY <1>1, <2>2, <2>3
<1>3. n <= m + 1
  BY <1>1, <1>2
<1>4. QED BY <1>3 DEF m, n

LEMMA SmallQuotient ==
  ASSUME NEW q \in Nat \ {0}, NEW a \in Nat, a < q
  PROVE  a \div q = 0
<1> DEFINE m == a \div q
<1>1. m \in Nat /\ m * q <= a
  BY Quotient
<1> HIDE DEF m
<1>2. ASSUME m # 0 PROVE FALSE
  <2>1. PICK d \in Nat : m = 1 + d
    <3>1. m - 1 \in Nat /\ m = 1 + (m - 1)
      BY <1>1, <1>2
    <3>2. QED BY <3>1
  <2>2. m * q = q + d * q
    BY <1>1, <2>1
  <2>3. d * q >= 0
    BY <2>1
  <2>4. QED BY <1>1, <2>2, <2>3
<1>3. QED BY <1>2 DEF m

LEMMA Products ==
  ASSUME NEW lap \in Nat, NEW all \in Nat, lap < all, NEW x \in Nat
  PROVE  /\ lap * x \in Nat /\ (lap + 1) * x = lap * x + x
         /\ lap * x + x <= all * x
<1>1. PICK d \in Nat : all = lap + 1 + d
  <2>1. all - lap - 1 \in Nat /\ all = lap + 1 + (all - lap - 1)
    OBVIOUS
  <2>2. QED BY <2>1
<1>2. all * x = lap * x + x + d * x
  BY <1>1
<1>3. d * x >= 0 /\ lap * x \in Nat
  BY <1>1
<1>4. QED BY <1>2, <1>3

LEMMA StagesToIsNat ==
  ASSUME NEW r \in 0..LastPoint
  PROVE  StagesTo(r) \in Nat /\ StagesTo(r) <= Stages
<1>1. /\ r + MaxSkip - 1 \in Nat /\ LastPoint + MaxSkip - 1 \in Nat /\ MaxSkip \in Nat \ {0}
      /\ r + MaxSkip - 1 <= LastPoint + MaxSkip - 1
  BY RacingConstants
<1>2. QED BY <1>1, Quotient, QuotientGrows DEF StagesTo, Stages

LEMMA StagesToNext ==
  ASSUME NEW r \in 0..LastPoint, NEW s \in 0..LastPoint, s <= r + MaxSkip
  PROVE  StagesTo(s) <= StagesTo(r) + 1
<1>1. /\ r + MaxSkip - 1 \in Nat /\ s + MaxSkip - 1 \in Nat /\ MaxSkip \in Nat \ {0}
      /\ s + MaxSkip - 1 <= (r + MaxSkip - 1) + MaxSkip
  BY RacingConstants
<1>2. QED BY <1>1, QuotientStep DEF StagesTo

LEMMA StagesToEnds == StagesTo(0) = 0 /\ StagesTo(LastPoint) = Stages
<1>1. 0 + MaxSkip - 1 \in Nat /\ MaxSkip \in Nat \ {0} /\ 0 + MaxSkip - 1 < MaxSkip
  BY RacingConstants
<1>2. StagesTo(0) = 0
  BY <1>1, SmallQuotient DEF StagesTo
<1>3. QED BY <1>2 DEF StagesTo, Stages

\* What nobody has driven is in order, too.
LEMMA FreshStandings ==
  ASSUME TypeOK, NobodyHasDriven
  PROVE  PlacesApart /\ AllHaveDriven
<1>1. Done = {}
  BY DEF Done, NobodyHasDriven
<1>2. Cardinality(Done) = 0 /\ m_Finished = 0
  BY <1>1, FS_EmptySet DEF NobodyHasDriven
<1>3. Laps \in Nat \ {0} /\ MinLap \in Nat
  BY RacingConstants
<1>4. PlacesApart
  <2>1. \A k \in Racers : m_RacingPlayers[k].finished = 0 /\ m_RacingPlayers[k].lap = 0
    BY DEF NobodyHasDriven
  <2>2. \A k \in Racers : m_RacingPlayers[k].finished <= m_Finished
    BY <1>2, <2>1
  <2>3. \A k \in Racers : m_RacingPlayers[k].finished # 0 <=> m_RacingPlayers[k].lap = Laps
    BY <1>3, <2>1
  <2>4. QED BY <1>1, <1>2, <2>2, <2>3 DEF PlacesApart
<1>5. AllHaveDriven
  <2> SUFFICES ASSUME NEW k \in Racers
               PROVE  HasDriven(m_RacingPlayers[k], clock, checkpoints[m_RacingPlayers[k].player])
    BY DEF AllHaveDriven
  <2> DEFINE r == m_RacingPlayers[k]
  <2>1. r.lap = 0 /\ r.since = 0 /\ r.respawnIndex = 0
    BY DEF NobodyHasDriven
  <2>2. r \in Racer
    BY DEF TypeOK, Racers
  <2>3. clock \in Nat /\ checkpoints[r.player] \in Nat
    <3>1. r.player \in Players
      BY <2>2 DEF Racer
    <3>2. clock \in 0..(Laps * MinLap) /\ checkpoints \in [Players -> 0..(Laps * Stages)]
      BY DEF TypeOK
    <3>3. QED BY <3>1, <3>2, StagesAreNat
  <2> HIDE DEF r
  <2>4. 0 * MinLap = 0 /\ 0 * Stages = 0
    BY <1>3, StagesAreNat
  <2>5. HasDriven(r, clock, checkpoints[r.player])
    BY <1>3, <2>1, <2>3, <2>4, StagesToEnds DEF HasDriven
  <2>6. QED BY <2>5 DEF r
<1>6. QED BY <1>4, <1>5

LEMMA StandingsInit == Init => Standings
<1> SUFFICES ASSUME Init PROVE Standings
  OBVIOUS
<1>1. ~m_Started /\ m_RacingPlayers = <<>> /\ m_Finished = 0
  BY DEF Init
<1>2. QED BY <1>1 DEF Standings, NobodyHasDriven, Racers

\* Steps that change no entry and give out no place, be it that the race starts.
LEMMA StandingsStay ==
  ASSUME TypeOK, Standings, m_Started => m_Started', m_Started' \in BOOLEAN,
         UNCHANGED <<m_RacingPlayers, m_Finished, clock, checkpoints>>
  PROVE  Standings'
<1>1. PlacesApart => PlacesApart'
  BY DEF PlacesApart, Done, Racers
<1>2. AllHaveDriven => AllHaveDriven'
  BY DEF AllHaveDriven, Racers
<1>3. NobodyHasDriven => NobodyHasDriven'
  BY DEF NobodyHasDriven, Racers
<1>4. NobodyHasDriven => PlacesApart /\ AllHaveDriven
  BY FreshStandings
<1>5. QED BY <1>1, <1>2, <1>3, <1>4, Zenon DEF Standings

\* A client that reports is one of a race that has not started, all others
\* having reported.
LEMMA ReadyStandings ==
  ASSUME RaceInv, Standings, NEW p \in Players, OnRacingClientReady(p)
  PROVE  Standings'
<1>1. PICK k \in Racers :
        /\ m_RacingPlayers[k].player = p /\ ~m_RacingPlayers[k].playerLoaded
        /\ m_RacingPlayers' = [m_RacingPlayers EXCEPT ![k].playerLoaded = TRUE]
  BY DEF OnRacingClientReady
<1>2. m_Started' = m_Started /\ m_Finished' = m_Finished
  BY DEF OnRacingClientReady, race
<1>3. ~m_Started
  BY <1>1 DEF RaceInv, StartsComplete
<1>4. NobodyHasDriven
  BY <1>3 DEF Standings
<1>5. m_RacingPlayers \in Seq(Racer) /\ DOMAIN m_RacingPlayers' = Racers
  BY <1>1 DEF RaceInv, TypeOK, Racers
<1>6. \A i \in Racers :
        LET racer == m_RacingPlayers'[i] IN
        racer.respawnIndex = 0 /\ racer.lap = 0 /\ racer.finished = 0 /\ racer.since = 0
  <2> SUFFICES ASSUME NEW i \in Racers
               PROVE  LET racer == m_RacingPlayers'[i] IN
                      racer.respawnIndex = 0 /\ racer.lap = 0 /\ racer.finished = 0 /\ racer.since = 0
    OBVIOUS
  <2>1. m_RacingPlayers[i] \in Racer
    BY <1>5 DEF Racers
  <2>2. m_RacingPlayers'[i] = IF i = k THEN [m_RacingPlayers[k] EXCEPT !.playerLoaded = TRUE]
                                       ELSE m_RacingPlayers[i]
    BY <1>1, <1>5 DEF Racers
  <2>3. QED BY <1>4, <2>1, <2>2 DEF NobodyHasDriven, Racer
<1>7. NobodyHasDriven'
  BY <1>2, <1>4, <1>5, <1>6 DEF NobodyHasDriven, Racers
<1>8. QED BY <1>2, <1>3, <1>7 DEF Standings

LEMMA RacerGoneStandings ==
  ASSUME RaceInv, Standings, RacingPlayerGone
  PROVE  Standings'
<1>1. PICK i \in Racers : m_RacingPlayers' = RemoveAt(m_RacingPlayers, i)
  BY DEF RacingPlayerGone
<1>2. ~m_Started /\ m_Started' = m_Started /\ m_Finished' = m_Finished
  BY DEF RacingPlayerGone, race
<1>3. m_RacingPlayers \in Seq(Racer) /\ i \in 1..Len(m_RacingPlayers)
  BY <1>1 DEF RaceInv, TypeOK, Racers
<1>4. /\ m_RacingPlayers' \in Seq(Racer) /\ Len(m_RacingPlayers') = Len(m_RacingPlayers) - 1
      /\ \A j \in 1..(Len(m_RacingPlayers) - 1) :
           m_RacingPlayers'[j] = IF j < i THEN m_RacingPlayers[j] ELSE m_RacingPlayers[j + 1]
  BY <1>1, <1>3, RemoveAtProperties
<1>5. \A j \in DOMAIN m_RacingPlayers' : \E k \in Racers : m_RacingPlayers'[j] = m_RacingPlayers[k]
  <2> SUFFICES ASSUME NEW j \in DOMAIN m_RacingPlayers'
               PROVE  \E k \in Racers : m_RacingPlayers'[j] = m_RacingPlayers[k]
    OBVIOUS
  <2>1. /\ j \in 1..(Len(m_RacingPlayers) - 1) /\ Len(m_RacingPlayers) \in Nat
        /\ Racers = 1..Len(m_RacingPlayers)
    BY <1>3, <1>4 DEF Racers
  <2>2. j \in Racers /\ j + 1 \in Racers
    BY <2>1
  <2>3. QED BY <1>4, <2>1, <2>2
<1>6. NobodyHasDriven
  BY <1>2 DEF Standings
<1>7. NobodyHasDriven'
  BY <1>2, <1>5, <1>6 DEF NobodyHasDriven, Racers
<1>8. QED BY <1>2, <1>7 DEF Standings

LEMMA LoadingStandings ==
  ASSUME RaceInv, Standings, ~m_Loaded, NEW noCar \in SUBSET ToSet(m_LobbyPlayers),
         LoadPlayerVehicles(noCar), UNCHANGED <<m_Started, m_Finished>>
  PROVE  Standings'
<1>1. ~m_Started
  BY DEF RaceInv, Phases
<1>2. NobodyHasDriven
  BY <1>1 DEF Standings
<1>3. PICK order :
        m_RacingPlayers' = [k \in 1..Cardinality(HaveCars(noCar)) |->
                              NewRacer(m_LobbyPlayers[order[k]])]
  BY DEF LoadPlayerVehicles
<1>4. NobodyHasDriven'
  BY <1>2, <1>3 DEF NobodyHasDriven, Racers, NewRacer
<1>5. QED BY <1>1, <1>4 DEF Standings

LEMMA LobbyStandings ==
  ASSUME RaceInv, Standings, NEW noCar \in SUBSET ToSet(m_LobbyPlayers), UpdateLobby(noCar)
  PROVE  Standings'
<1>1. ~m_Loaded /\ UNCHANGED <<m_Started, m_Finished, clock, checkpoints>>
  BY DEF UpdateLobby, race
<1>2. CASE LoadPlayerVehicles(noCar)
  BY <1>1, <1>2, LoadingStandings
<1>3. CASE UNCHANGED m_RacingPlayers
  BY <1>1, <1>3, StandingsStay DEF RaceInv, TypeOK
<1>4. QED BY <1>2, <1>3 DEF UpdateLobby

LEMMA AfterFields ==
  ASSUME TypeOK, NEW place \in [Racers -> Places], NEW k \in Racers
  PROVE  LET racer == m_RacingPlayers[k] IN
         /\ After(k, place).player = racer.player
         /\ After(k, place).respawnIndex = NewIndex(racer, place[k])
         /\ After(k, place).lap = IF EndsLap(racer, place[k]) THEN racer.lap + 1 ELSE racer.lap
         /\ After(k, place).since =
              IF EndsLap(racer, place[k]) THEN 0 ELSE AtMost(racer.since + 1, MinLap)
         /\ After(k, place).finished =
              IF Finishes(racer, place[k]) THEN m_Finished + FinishedUpTo(k, place)
                                           ELSE racer.finished
<1>1. m_RacingPlayers[k] \in Racer
  BY DEF TypeOK, Racers
<1>2. QED BY <1>1 DEF After, Racer

\* The racers up to the k-th who finish in a frame.
Finishing(k, place) == {j \in 1..k : Finishes(m_RacingPlayers[j], place[j])}

\* Of two who finish in a frame the later in the list gets a later place.
LEMMA FinishingInOrder ==
  ASSUME NEW place, NEW j \in Nat, NEW k \in Nat, j <= k
  PROVE  /\ IsFiniteSet(Finishing(k, place))
         /\ FinishedUpTo(j, place) \in Nat /\ FinishedUpTo(k, place) \in Nat
         /\ FinishedUpTo(j, place) <= FinishedUpTo(k, place)
         /\ (j < k /\ Finishes(m_RacingPlayers[k], place[k]))
              => FinishedUpTo(j, place) < FinishedUpTo(k, place)
<1>1. FinishedUpTo(j, place) = Cardinality(Finishing(j, place))
      /\ FinishedUpTo(k, place) = Cardinality(Finishing(k, place))
  BY DEF FinishedUpTo, Finishing
<1>2. FinishedUpTo(j, place) \in Nat /\ FinishedUpTo(k, place) \in Nat
  BY FinishedUpToType
<1>3. IsFiniteSet(1..k) /\ Finishing(k, place) \in SUBSET (1..k)
  BY FS_Interval DEF Finishing
<1>4. IsFiniteSet(Finishing(k, place))
  BY <1>3, FS_Subset
<1>5. Finishing(j, place) \in SUBSET Finishing(k, place)
  BY DEF Finishing
<1>6. /\ Cardinality(Finishing(j, place)) <= Cardinality(Finishing(k, place))
      /\ Cardinality(Finishing(k, place)) = Cardinality(Finishing(j, place))
           => Finishing(k, place) = Finishing(j, place)
  BY <1>4, <1>5, FS_Subset
<1>7. (j < k /\ Finishes(m_RacingPlayers[k], place[k]))
        => k \in Finishing(k, place) /\ k \notin Finishing(j, place)
  <2>1. j < k => k \in 1..k /\ k \notin 1..j
    OBVIOUS
  <2>2. QED BY <2>1 DEF Finishing
<1>8. (j < k /\ Finishes(m_RacingPlayers[k], place[k]))
        => FinishedUpTo(j, place) # FinishedUpTo(k, place)
  BY <1>1, <1>6, <1>7
<1>9. QED BY <1>1, <1>2, <1>4, <1>6, <1>8

LEMMA RacePlaces ==
  ASSUME RaceInv, PlacesApart, NEW place \in [Racers -> Places], UpdateRace(place)
  PROVE  PlacesApart'
<1> DEFINE N == Len(m_RacingPlayers)
           F == Finishing(N, place)
<1>1. TypeOK /\ m_Finished \in Nat /\ Laps \in Nat \ {0} /\ m_RacingPlayers \in Seq(Racer)
  BY RacingConstants DEF RaceInv, TypeOK
<1>2. N \in Nat /\ Racers = 1..N
  BY <1>1 DEF Racers
<1>3. m_RacingPlayers' = [k \in Racers |-> After(k, place)]
      /\ m_Finished' = m_Finished + FinishedUpTo(N, place)
  BY DEF UpdateRace, After
<1>4. Racers' = Racers
  BY <1>3 DEF Racers
<1>5. \A k \in Racers : Finishes(m_RacingPlayers[k], place[k]) <=> k \in F
  BY <1>2 DEF Finishing
<1>6. \A k \in Racers : m_RacingPlayers[k].finished \in Nat /\ m_RacingPlayers[k].lap \in 0..Laps
  <2>1. \A k \in Racers : m_RacingPlayers[k] \in Racer
    BY <1>1, <1>2
  <2>2. \A r \in Racer : r.finished \in Nat /\ r.lap \in 0..Laps
    BY DEF Racer
  <2>3. QED BY <2>1, <2>2
<1>7. IsFiniteSet(F) /\ FinishedUpTo(N, place) \in Nat /\ Cardinality(F) = FinishedUpTo(N, place)
      /\ F \subseteq Racers
  <2>1. F \subseteq Racers
    BY <1>2 DEF Finishing
  <2>2. Cardinality(F) = FinishedUpTo(N, place)
    BY DEF FinishedUpTo, Finishing
  <2>3. QED BY <1>2, <2>1, <2>2, FinishingInOrder
<1>8. \A k \in F : FinishedUpTo(k, place) \in Nat /\ FinishedUpTo(k, place) >= 1
                   /\ FinishedUpTo(k, place) <= FinishedUpTo(N, place)
  <2> SUFFICES ASSUME NEW k \in F
               PROVE  FinishedUpTo(k, place) \in Nat /\ FinishedUpTo(k, place) >= 1
                      /\ FinishedUpTo(k, place) <= FinishedUpTo(N, place)
    OBVIOUS
  <2>1. k \in 1..N /\ Finishes(m_RacingPlayers[k], place[k])
    BY DEF Finishing
  <2>2. k \in Nat /\ 0 \in Nat /\ 0 < k /\ k <= N
    BY <1>2, <2>1
  <2>3. /\ FinishedUpTo(0, place) \in Nat /\ FinishedUpTo(k, place) \in Nat
        /\ FinishedUpTo(0, place) < FinishedUpTo(k, place)
    BY <2>1, <2>2, FinishingInOrder
  <2>4. FinishedUpTo(k, place) <= FinishedUpTo(N, place)
    BY <1>2, <2>2, FinishingInOrder
  <2>5. QED BY <2>3, <2>4
<1> HIDE DEF N, F
\* What becomes of a racer.
<1>9. \A k \in F : /\ m_RacingPlayers[k].finished = 0
                   /\ m_RacingPlayers'[k].finished = m_Finished + FinishedUpTo(k, place)
                   /\ m_RacingPlayers'[k].lap = Laps
  <2> SUFFICES ASSUME NEW k \in F
               PROVE  /\ m_RacingPlayers[k].finished = 0
                      /\ m_RacingPlayers'[k].finished = m_Finished + FinishedUpTo(k, place)
                      /\ m_RacingPlayers'[k].lap = Laps
    OBVIOUS
  <2>1. k \in Racers /\ Finishes(m_RacingPlayers[k], place[k])
    BY <1>5, <1>7
  <2>2. /\ EndsLap(m_RacingPlayers[k], place[k]) /\ m_RacingPlayers[k].lap + 1 = Laps
        /\ m_RacingPlayers[k].lap # Laps
    BY <2>1, Zenon DEF Finishes, EndsLap, AtStart, Moves, Driving
  <2>3. m_RacingPlayers[k].finished = 0
    BY <2>1, <2>2 DEF PlacesApart
  <2>4. m_RacingPlayers'[k] = After(k, place)
    BY <1>3, <2>1
  <2>5. QED BY <1>1, <2>1, <2>2, <2>3, <2>4, AfterFields
<1>10. \A k \in Racers \ F :
         /\ m_RacingPlayers'[k].finished = m_RacingPlayers[k].finished
         /\ m_RacingPlayers'[k].lap = Laps <=> m_RacingPlayers[k].lap = Laps
  <2> SUFFICES ASSUME NEW k \in Racers, k \notin F
               PROVE  /\ m_RacingPlayers'[k].finished = m_RacingPlayers[k].finished
                      /\ m_RacingPlayers'[k].lap = Laps <=> m_RacingPlayers[k].lap = Laps
    OBVIOUS
  <2>1. ~Finishes(m_RacingPlayers[k], place[k]) /\ m_RacingPlayers'[k] = After(k, place)
    BY <1>3, <1>5
  <2>2. m_RacingPlayers'[k].finished = m_RacingPlayers[k].finished
    BY <1>1, <2>1, AfterFields
  <2>3. m_RacingPlayers'[k].lap = IF EndsLap(m_RacingPlayers[k], place[k])
                                  THEN m_RacingPlayers[k].lap + 1 ELSE m_RacingPlayers[k].lap
    BY <1>1, <2>1, AfterFields
  <2>4. EndsLap(m_RacingPlayers[k], place[k]) => m_RacingPlayers[k].lap # Laps
    BY Zenon DEF EndsLap, AtStart, Moves, Driving
  <2>5. EndsLap(m_RacingPlayers[k], place[k]) => m_RacingPlayers[k].lap + 1 # Laps
    BY <2>1 DEF Finishes
  <2>6. QED BY <2>2, <2>3, <2>4, <2>5
<1>11. Done' = Done \cup F /\ Done \cap F = {} /\ Done \subseteq Racers
  <2>1. Done \subseteq Racers /\ Done \cap F = {}
    BY <1>9 DEF Done
  <2>2. \A k \in F : m_RacingPlayers'[k].finished # 0
    BY <1>1, <1>8, <1>9
  <2>3. \A k \in Racers : k \in Done' <=> k \in Done \/ k \in F
    BY <1>4, <1>10, <2>2 DEF Done
  <2>4. Done' \subseteq Racers
    BY <1>4 DEF Done
  <2>5. QED BY <1>7, <2>1, <2>3, <2>4
<1>12. Cardinality(Done') = m_Finished'
  <2>1. IsFiniteSet(Racers)
    BY <1>2, FS_Interval
  <2>2. IsFiniteSet(Done)
    BY <1>11, <2>1, FS_Subset
  <2>3. Cardinality(Done \cup F) = Cardinality(Done) + Cardinality(F) - Cardinality(Done \cap F)
    BY <1>7, <2>2, FS_Union
  <2>4. Cardinality(Done \cap F) = 0
    BY <1>11, FS_EmptySet
  <2>5. Cardinality(Done) = m_Finished
    BY DEF PlacesApart
  <2>6. QED BY <1>1, <1>3, <1>7, <1>11, <2>3, <2>4, <2>5
<1>13. \A k \in Racers : m_RacingPlayers'[k].finished <= m_Finished'
  <2>1. ASSUME NEW k \in F PROVE m_RacingPlayers'[k].finished <= m_Finished'
    <3>1. m_RacingPlayers'[k].finished = m_Finished + FinishedUpTo(k, place)
      BY <1>9
    <3>2. /\ FinishedUpTo(k, place) \in Nat /\ FinishedUpTo(N, place) \in Nat
          /\ FinishedUpTo(k, place) <= FinishedUpTo(N, place)
      BY <1>7, <1>8
    <3>3. QED BY <1>1, <1>3, <3>1, <3>2
  <2>2. \A k \in Racers \ F : m_RacingPlayers'[k].finished <= m_Finished'
    BY <1>1, <1>3, <1>6, <1>7, <1>10 DEF PlacesApart
  <2>3. QED BY <2>1, <2>2
<1>14. \A k \in Racers : m_RacingPlayers'[k].finished # 0 <=> m_RacingPlayers'[k].lap = Laps
  <2>1. \A k \in F : m_RacingPlayers'[k].finished # 0 /\ m_RacingPlayers'[k].lap = Laps
    BY <1>1, <1>8, <1>9
  <2>2. QED BY <1>10, <2>1 DEF PlacesApart
<1>15. \A j, k \in Done' : m_RacingPlayers'[j].finished = m_RacingPlayers'[k].finished => j = k
  <2> SUFFICES ASSUME NEW j \in Done', NEW k \in Done',
                      m_RacingPlayers'[j].finished = m_RacingPlayers'[k].finished, j # k
               PROVE  FALSE
    OBVIOUS
  \* Two of this frame.
  <2>1. \A h, i \in F : h < i => m_RacingPlayers'[h].finished < m_RacingPlayers'[i].finished
    <3> SUFFICES ASSUME NEW h \in F, NEW i \in F, h < i
                 PROVE  m_RacingPlayers'[h].finished < m_RacingPlayers'[i].finished
      OBVIOUS
    <3>1. h \in Nat /\ i \in Nat /\ h <= i /\ Finishes(m_RacingPlayers[i], place[i])
      BY <1>2, <1>5, <1>7
    <3>2. FinishedUpTo(h, place) < FinishedUpTo(i, place)
      BY <3>1, FinishingInOrder
    <3>3. QED BY <1>1, <1>8, <1>9, <3>2
  \* One of this frame and one of an earlier one.
  <2>2. \A h \in Done, i \in F : m_RacingPlayers'[h].finished < m_RacingPlayers'[i].finished
    <3> SUFFICES ASSUME NEW h \in Done, NEW i \in F
                 PROVE  m_RacingPlayers'[h].finished < m_RacingPlayers'[i].finished
      OBVIOUS
    <3>1. h \in Racers /\ h \notin F
      BY <1>11
    <3>2. m_RacingPlayers'[h].finished = m_RacingPlayers[h].finished
          /\ m_RacingPlayers[h].finished <= m_Finished /\ m_RacingPlayers[h].finished \in Nat
      BY <1>6, <1>10, <3>1 DEF PlacesApart
    <3>3. QED BY <1>1, <1>8, <1>9, <3>2
  <2>3. \A i \in Racers : m_RacingPlayers'[i].finished \in Nat
    BY <1>1, <1>6, <1>8, <1>9, <1>10
  <2>4. j \in Racers /\ k \in Racers /\ j \in Int /\ k \in Int
        /\ j \in Done \cup F /\ k \in Done \cup F
    BY <1>2, <1>7, <1>11
  <2>5. m_RacingPlayers'[j].finished \in Nat /\ m_RacingPlayers'[k].finished \in Nat
    BY <2>3, <2>4
  <2>6. CASE j \in F /\ k \in F
    <3>1. j < k \/ k < j
      BY <2>4
    <3>2. QED BY <2>1, <2>5, <2>6, <3>1
  <2>7. CASE j \in Done /\ k \in F
    BY <2>2, <2>5, <2>7
  <2>8. CASE j \in F /\ k \in Done
    BY <2>2, <2>5, <2>8
  <2>9. CASE j \in Done /\ k \in Done
    <3>1. j \notin F /\ k \notin F
      BY <1>11, <2>9
    <3>2. m_RacingPlayers[j].finished = m_RacingPlayers[k].finished
      BY <1>10, <2>4, <3>1
    <3>3. QED BY <2>9, <3>2 DEF PlacesApart
  <2>10. QED BY <2>4, <2>6, <2>7, <2>8, <2>9
<1>16. QED BY <1>4, <1>12, <1>13, <1>14, <1>15 DEF PlacesApart

\* A checkpoint brings a racer at most one stage on, and only the one after
\* the last waypoint ends a lap, which leaves him at waypoint 0.
LEMMA NewIndexStages ==
  ASSUME NEW racer \in Racer, NEW place \in Places
  PROVE  /\ StagesTo(NewIndex(racer, place)) <= StagesTo(racer.respawnIndex) + 1
         /\ ~Moves(racer, place) => NewIndex(racer, place) = racer.respawnIndex
         /\ EndsLap(racer, place)
              => NewIndex(racer, place) = 0 /\ racer.respawnIndex = LastPoint
<1> DEFINE r == racer.respawnIndex
           A == Ahead(r, place)
           s == NewIndex(racer, place)
<1>1. r \in 0..LastPoint /\ s \in 0..LastPoint /\ LastPoint \in Nat \ {0} /\ MaxSkip \in Nat
  BY RacingConstants, NewIndexType DEF Racer
<1>2. A \subseteq 0..LastPoint
  BY <1>1, AheadType
<1>3. Moves(racer, place) => Lowest(A) \in A
  <2>1. A \in SUBSET Nat
    BY <1>1, <1>2
  <2>2. QED BY <2>1, LowestIsMember DEF Moves
<1>4. ~Moves(racer, place) => s = r
  BY Zenon DEF NewIndex
<1>5. AtStart(racer, place) => r = LastPoint
  <2>1. AtStart(racer, place) => 0 \in A
    BY <1>3 DEF AtStart
  <2>2. QED BY <1>1, <2>1 DEF Ahead
<1>6. EndsLap(racer, place) => s = 0 /\ r = LastPoint
  <2>1. EndsLap(racer, place) => AtStart(racer, place)
    BY Zenon DEF EndsLap
  <2>2. AtStart(racer, place) => Moves(racer, place) /\ Lowest(A) = 0
    BY DEF AtStart
  <2>3. EndsLap(racer, place) => s = Lowest(A)
    BY <2>1, <2>2, Zenon DEF NewIndex
  <2>4. QED BY <1>5, <2>1, <2>2, <2>3
<1>7. StagesTo(s) <= StagesTo(r) + 1
  <2>1. StagesTo(r) \in Nat /\ StagesTo(s) \in Nat /\ StagesTo(s) <= Stages /\ Stages \in Nat
    BY <1>1, StagesToIsNat, StagesAreNat
  <2>2. CASE r = LastPoint
    <3>1. StagesTo(r) = Stages
      BY <2>2, StagesToEnds
    <3> HIDE DEF r, s
    <3>2. QED BY <2>1, <3>1
  <2>3. CASE ~Moves(racer, place)
    <3>1. s = r
      BY <1>4, <2>3
    <3> HIDE DEF r, s
    <3>2. QED BY <2>1, <3>1
  <2>4. CASE r # LastPoint /\ Moves(racer, place)
    <3>1. ~AtStart(racer, place)
      BY <1>5, <2>4
    <3>2. s = Lowest(A)
      BY <2>4, <3>1, Zenon DEF NewIndex
    <3>3. s \in A
      BY <1>3, <2>4, <3>2
    <3>4. s <= r + MaxSkip
      BY <1>1, <2>4, <3>3 DEF Ahead
    <3> HIDE DEF r, s
    <3>5. QED BY <1>1, <3>4, StagesToNext
  <2>5. QED BY <2>2, <2>3, <2>4
<1>8. QED BY <1>4, <1>6, <1>7

LEMMA AtMostReaches ==
  ASSUME NEW x \in Nat, NEW B \in Nat, NEW from \in Nat, NEW span \in Nat,
         NEW g \in Nat, NEW h \in Nat,
         x >= from + g, from + span <= B, h <= span, h <= g + 1
  PROVE  AtMost(x + 1, B) >= from + h
BY DEF AtMost

\* The arithmetic of a frame.  t and c are the time and the checkpoints a
\* racer has behind him, w his time in the lap and g the stages of it; lap is
\* not the last, M the least time and S the least number of stages of a lap.
LEMMA FrameArithmetic ==
  ASSUME NEW M \in Nat, NEW S \in Nat, NEW all \in Nat, NEW lap \in Nat, lap < all,
         NEW t \in 0..(all * M), NEW c \in 0..(all * S), NEW w \in 0..M, NEW g \in 0..S,
         t >= lap * M + w, c >= lap * S + g
  PROVE  /\ AtMost(t + 1, all * M) >= lap * M + AtMost(w + 1, M)
         /\ AtMost(w + 1, M) >= M => AtMost(t + 1, all * M) >= (lap + 1) * M
         /\ \A h \in 0..S : h <= g + 1 => AtMost(c + 1, all * S) >= lap * S + h
         /\ g = S => c >= (lap + 1) * S
<1>1. /\ lap * M \in Nat /\ (lap + 1) * M = lap * M + M /\ lap * M + M <= all * M
      /\ lap * S \in Nat /\ (lap + 1) * S = lap * S + S /\ lap * S + S <= all * S
  BY Products
<1>2. all * M \in Nat /\ all * S \in Nat
  OBVIOUS
<1> DEFINE lm == lap * M
           am == all * M
           ls == lap * S
           cs == all * S
<1>3. /\ lm \in Nat /\ am \in Nat /\ ls \in Nat /\ cs \in Nat
      /\ lm + M <= am /\ ls + S <= cs
      /\ (lap + 1) * M = lm + M /\ (lap + 1) * S = ls + S
      /\ t \in 0..am /\ c \in 0..cs /\ t >= lm + w /\ c >= ls + g
  BY <1>1, <1>2
<1> HIDE DEF lm, am, ls, cs
<1>4. AtMost(t + 1, am) >= lm + AtMost(w + 1, M)
  BY <1>3 DEF AtMost
<1>5. AtMost(w + 1, M) >= M => AtMost(t + 1, am) >= lm + M
  BY <1>3 DEF AtMost
<1>6. \A h \in 0..S : h <= g + 1 => AtMost(c + 1, cs) >= ls + h
  <2> SUFFICES ASSUME NEW h \in 0..S, h <= g + 1
               PROVE  AtMost(c + 1, cs) >= ls + h
    OBVIOUS
  <2>1. c \in Nat /\ h \in Nat /\ g \in Nat /\ h <= S
    BY <1>3
  <2>2. QED BY <1>3, <2>1, AtMostReaches
<1>7. g = S => c >= ls + S
  BY <1>3
<1>8. QED BY <1>3, <1>4, <1>5, <1>6, <1>7 DEF lm, am, ls, cs

LEMMA RaceDriven ==
  ASSUME RaceInv, AllHaveDriven, NEW place \in [Racers -> Places], UpdateRace(place)
  PROVE  AllHaveDriven'
<1>1. TypeOK /\ m_RacingPlayers \in Seq(Racer)
  BY DEF RaceInv, TypeOK
<1>2. /\ Laps \in Nat \ {0} /\ MinLap \in Nat /\ Stages \in Nat
      /\ Laps * MinLap \in Nat /\ Laps * Stages \in Nat
  BY RacingConstants, StagesAreNat
<1>3. m_RacingPlayers' = [k \in Racers |-> After(k, place)] /\ Racers' = Racers
  BY DEF UpdateRace, After, Racers
<1>4. clock' = AtMost(clock + 1, Laps * MinLap) /\ clock \in 0..(Laps * MinLap)
  BY <1>1 DEF UpdateRace, TypeOK
<1>5. /\ checkpoints \in [Players -> 0..(Laps * Stages)]
      /\ checkpoints' = [p \in Players |->
            IF \E k \in Racers : RacingPlayer[k] = p /\ Moves(m_RacingPlayers[k], place[k])
            THEN AtMost(checkpoints[p] + 1, Laps * Stages) ELSE checkpoints[p]]
  BY <1>1 DEF UpdateRace, TypeOK
<1>6. SUFFICES ASSUME NEW k \in Racers
               PROVE  HasDriven(After(k, place), clock', checkpoints'[After(k, place).player])
  BY <1>3 DEF AllHaveDriven
<1> DEFINE r == m_RacingPlayers[k]
           a == After(k, place)
           t == clock
           c == checkpoints[r.player]
           d == checkpoints'[r.player]
<1>7. r \in Racer /\ place[k] \in Places
  BY <1>1 DEF Racers
<1>8. /\ r.player \in Players /\ r.respawnIndex \in 0..LastPoint
      /\ r.lap \in 0..Laps /\ r.since \in 0..MinLap
  BY <1>7 DEF Racer
<1>9. /\ a.player = r.player
      /\ a.respawnIndex = NewIndex(r, place[k])
      /\ a.lap = IF EndsLap(r, place[k]) THEN r.lap + 1 ELSE r.lap
      /\ a.since = IF EndsLap(r, place[k]) THEN 0 ELSE AtMost(r.since + 1, MinLap)
  BY <1>1, AfterFields
<1>10. c \in 0..(Laps * Stages) /\ t \in 0..(Laps * MinLap)
  BY <1>4, <1>5, <1>8
<1>11. /\ Moves(r, place[k]) => d = AtMost(c + 1, Laps * Stages)
       /\ d = c \/ d = AtMost(c + 1, Laps * Stages)
  <2>1. Moves(r, place[k]) =>
          \E i \in Racers : RacingPlayer[i] = r.player /\ Moves(m_RacingPlayers[i], place[i])
    BY DEF RacingPlayer
  <2>2. QED BY <1>5, <1>8, <2>1
<1>12. d >= c /\ d \in Nat
  BY <1>2, <1>10, <1>11 DEF AtMost
<1>13. HasDriven(r, t, c)
  BY DEF AllHaveDriven
<1>14. /\ a.respawnIndex \in 0..LastPoint
       /\ StagesTo(a.respawnIndex) <= StagesTo(r.respawnIndex) + 1
       /\ ~Moves(r, place[k]) => a.respawnIndex = r.respawnIndex
       /\ EndsLap(r, place[k]) => a.respawnIndex = 0 /\ r.respawnIndex = LastPoint
  BY <1>7, <1>9, NewIndexType, NewIndexStages
<1>15. /\ StagesTo(r.respawnIndex) \in 0..Stages /\ StagesTo(a.respawnIndex) \in 0..Stages
       /\ StagesTo(0) = 0 /\ StagesTo(LastPoint) = Stages
  BY <1>2, <1>8, <1>14, StagesToIsNat, StagesToEnds
<1>16. /\ EndsLap(r, place[k]) => /\ Moves(r, place[k]) /\ r.lap # Laps
                                  /\ AtMost(r.since + 1, MinLap) >= MinLap
  BY Zenon DEF EndsLap, AtStart, Moves, Driving
<1>17. clock' >= t /\ clock' \in Nat
  BY <1>2, <1>4, <1>10 DEF AtMost
<1> HIDE DEF r, a, t, c, d
<1>18. HasDriven(a, clock', d)
  <2>1. CASE r.lap = Laps
    <3>1. a.lap = Laps
      BY <1>9, <1>16, <2>1
    <3>2. t >= Laps * MinLap /\ c >= Laps * Stages
      BY <1>13, <2>1 DEF HasDriven
    <3>3. clock' >= Laps * MinLap /\ d >= Laps * Stages
      BY <1>2, <1>10, <1>12, <1>17, <3>2
    <3>4. QED BY <3>1, <3>3 DEF HasDriven
  <2>2. CASE r.lap # Laps
    <3>1. r.lap \in Nat /\ r.lap < Laps
      BY <1>2, <1>8, <2>2
    <3>2. t >= r.lap * MinLap + r.since /\ c >= r.lap * Stages + StagesTo(r.respawnIndex)
      BY <1>13, <2>2 DEF HasDriven
    <3>3. /\ clock' >= r.lap * MinLap + AtMost(r.since + 1, MinLap)
          /\ AtMost(r.since + 1, MinLap) >= MinLap => clock' >= (r.lap + 1) * MinLap
          /\ \A h \in 0..Stages : h <= StagesTo(r.respawnIndex) + 1
               => AtMost(c + 1, Laps * Stages) >= r.lap * Stages + h
          /\ StagesTo(r.respawnIndex) = Stages => c >= (r.lap + 1) * Stages
      <4>1. clock' = AtMost(t + 1, Laps * MinLap)
        BY <1>4 DEF t
      <4> DEFINE lap == r.lap
                 w == r.since
                 g == StagesTo(r.respawnIndex)
      <4>2. /\ lap \in Nat /\ lap < Laps /\ w \in 0..MinLap /\ g \in 0..Stages
            /\ t \in 0..(Laps * MinLap) /\ c \in 0..(Laps * Stages)
            /\ t >= lap * MinLap + w /\ c >= lap * Stages + g
            /\ Laps \in Nat /\ MinLap \in Nat /\ Stages \in Nat
        BY <1>2, <1>8, <1>10, <1>15, <3>1, <3>2
      <4> HIDE DEF lap, w, g
      <4>3. /\ AtMost(t + 1, Laps * MinLap) >= lap * MinLap + AtMost(w + 1, MinLap)
            /\ AtMost(w + 1, MinLap) >= MinLap => AtMost(t + 1, Laps * MinLap) >= (lap + 1) * MinLap
            /\ \A h \in 0..Stages : h <= g + 1 => AtMost(c + 1, Laps * Stages) >= lap * Stages + h
            /\ g = Stages => c >= (lap + 1) * Stages
        BY <4>2, FrameArithmetic
      <4>4. QED BY <4>1, <4>3 DEF lap, w, g
    <3>4. CASE EndsLap(r, place[k])
      <4>1. a.lap = r.lap + 1 /\ a.since = 0 /\ StagesTo(a.respawnIndex) = 0
        BY <1>9, <1>14, <1>15, <3>4
      <4>2. clock' >= a.lap * MinLap
        BY <1>16, <3>3, <3>4, <4>1
      <4>3. d >= a.lap * Stages
        <5>1. c >= a.lap * Stages
          BY <1>14, <1>15, <3>3, <3>4, <4>1
        <5>2. a.lap * Stages \in Int
          BY <1>2, <3>1, <4>1
        <5>3. QED BY <1>10, <1>12, <5>1, <5>2
      <4>4. a.lap * MinLap + a.since = a.lap * MinLap
            /\ a.lap * Stages + StagesTo(a.respawnIndex) = a.lap * Stages
        BY <1>2, <3>1, <4>1
      <4>5. QED BY <4>2, <4>3, <4>4 DEF HasDriven
    <3>5. CASE ~EndsLap(r, place[k])
      <4>1. a.lap = r.lap /\ a.lap # Laps /\ a.since = AtMost(r.since + 1, MinLap)
        BY <1>9, <2>2, <3>5
      <4>2. clock' >= a.lap * MinLap + a.since
        BY <3>3, <4>1
      <4>3. d >= a.lap * Stages + StagesTo(a.respawnIndex)
        <5>1. CASE Moves(r, place[k])
          BY <1>11, <1>14, <1>15, <3>3, <4>1, <5>1
        <5>2. CASE ~Moves(r, place[k])
          <6>1. c >= a.lap * Stages + StagesTo(a.respawnIndex)
            BY <1>14, <3>2, <4>1, <5>2
          <6>2. a.lap * Stages + StagesTo(a.respawnIndex) \in Int
            BY <1>2, <1>15, <3>1, <4>1
          <6>3. QED BY <1>10, <1>12, <6>1, <6>2
        <5>3. QED BY <5>1, <5>2
      <4>4. QED BY <4>1, <4>2, <4>3 DEF HasDriven
    <3>6. QED BY <3>4, <3>5
  <2>3. QED BY <2>1, <2>2
<1>19. a.player = r.player
  BY <1>9
<1>20. QED BY <1>18, <1>19 DEF a, d, r

LEMMA StandingsStep ==
  ASSUME RaceInv, Standings, [Next]_vars
  PROVE  Standings'
<1>1. TypeOK
  BY DEF RaceInv
<1>2. CASE UNCHANGED vars
  BY <1>1, <1>2, StandingsStay DEF vars, race, TypeOK
<1>3. ASSUME NEW p \in Players, NEW admitted \in BOOLEAN, OnPlayerLoaded(p, admitted)
      PROVE  Standings'
  BY <1>1, <1>3, StandingsStay DEF OnPlayerLoaded, race, TypeOK
<1>4. ASSUME NEW p \in Players, PlayerLeaves(p) \/ ExitRace(p)
      PROVE  Standings'
  BY <1>1, <1>4, StandingsStay DEF PlayerLeaves, ExitRace, race, TypeOK
<1>5. ASSUME NEW p \in Players, OnRacingClientReady(p)
      PROVE  Standings'
  BY <1>5, ReadyStandings
<1>6. CASE LobbyPlayerGone
  BY <1>1, <1>6, StandingsStay DEF LobbyPlayerGone, race, TypeOK
<1>7. ASSUME NEW noCar \in SUBSET ToSet(m_LobbyPlayers), UpdateLobby(noCar)
      PROVE  Standings'
  BY <1>7, LobbyStandings
<1>8. CASE RacingPlayerGone
  BY <1>8, RacerGoneStandings
<1>9. CASE TooFewLeft
  BY <1>1, <1>9, StandingsStay DEF TooFewLeft, race, TypeOK
<1>10. CASE Countdown
  <2>1. /\ ~m_Started /\ m_Started' = (m_StartTimer >= StartTime)
        /\ UNCHANGED <<m_RacingPlayers, m_Finished, clock, checkpoints>>
    BY <1>10 DEF Countdown, race
  <2>2. QED BY <1>1, <2>1, StandingsStay
<1>11. CASE NotAllReady
  BY <1>1, <1>11, StandingsStay DEF NotAllReady, race, TypeOK
<1>12. ASSUME NEW place \in [Racers -> Places], UpdateRace(place)
       PROVE  Standings'
  <2>1. m_Started /\ m_Started'
    BY <1>12 DEF UpdateRace
  <2>2. PlacesApart /\ AllHaveDriven
    BY <2>1 DEF Standings
  <2>3. QED BY <1>12, <2>1, <2>2, RacePlaces, RaceDriven DEF Standings
<1>13. QED
  BY <1>2, <1>3, <1>4, <1>5, <1>6, <1>7, <1>8, <1>9, <1>10, <1>11, <1>12 DEF Next, Update

LEMMA StandingsInvariant == Spec => []Standings
<1>1. RaceInv /\ Standings /\ [Next]_vars => Standings'
  BY StandingsStep
<1>2. QED BY <1>1, StandingsInit, RaceInvariant, PTL DEF Spec

\* Places given out one by one, each to a racer of his own, are 1 to m_Finished.
LEMMA PlacesApartAreRanks ==
  ASSUME TypeOK, PlacesApart
  PROVE  PlacesAreRanks
<1> DEFINE f == [k \in Done |-> m_RacingPlayers[k].finished]
<1>1. m_RacingPlayers \in Seq(Racer) /\ m_Finished \in Nat
  BY DEF TypeOK
<1>2. Racers = 1..Len(m_RacingPlayers) /\ Len(m_RacingPlayers) \in Nat /\ Done \subseteq Racers
  BY <1>1 DEF Racers, Done
<1>3. \A k \in Done : m_RacingPlayers[k].finished \in 1..m_Finished
  <2>1. \A k \in Done : m_RacingPlayers[k] \in Racer
    BY <1>1, <1>2
  <2>2. \A r \in Racer : r.finished \in Nat
    BY DEF Racer
  <2>3. \A k \in Done : /\ m_RacingPlayers[k].finished \in Nat
                        /\ m_RacingPlayers[k].finished # 0
                        /\ m_RacingPlayers[k].finished <= m_Finished
    BY <1>2, <2>1, <2>2 DEF Done, PlacesApart
  <2>4. QED BY <1>1, <2>3
<1>4. f \in Injection(Done, 1..m_Finished)
  <2>1. f \in [Done -> 1..m_Finished]
    BY <1>3
  <2>2. \A j, k \in Done : f[j] = f[k] => j = k
    BY DEF PlacesApart
  <2>3. QED BY <2>1, <2>2 DEF Injection, IsInjective
<1>5. IsFiniteSet(1..m_Finished) /\ Cardinality(1..m_Finished) = m_Finished
  BY <1>1, IntervalSize
<1>6. Cardinality(Done) = Cardinality(1..m_Finished)
  BY <1>5 DEF PlacesApart
<1>7. f \in Surjection(Done, 1..m_Finished)
  BY <1>4, <1>5, <1>6, FS_Injection
<1>8. {m_RacingPlayers[k].finished : k \in Done} = 1..m_Finished
  <2>1. \A n \in 1..m_Finished : \E k \in Done : m_RacingPlayers[k].finished = n
    BY <1>7 DEF Surjection
  <2>2. QED BY <1>3, <2>1
<1>9. Cardinality(Done) = m_Finished
  BY DEF PlacesApart
<1>10. \A k \in Racers : k \in Done <=> m_RacingPlayers[k].lap = Laps
  BY DEF PlacesApart, Done
<1>11. QED BY <1>8, <1>9, <1>10, Zenon DEF PlacesAreRanks, Done

\* In whatever order racers finish, several in one frame among them, their
\* places are 1 to m_Finished, each given once, and who has driven all laps
\* has one.
THEOREM PlacesStayRanks == Spec => []PlacesAreRanks
<1>1. TypeOK /\ Standings => PlacesAreRanks
  BY FreshStandings, PlacesApartAreRanks DEF Standings
<1>2. QED BY <1>1, StandingsInvariant, TypeCorrect, PTL

\* On any track, and wherever a car is found in each frame, a lap that counts
\* took at least MinLap and as many checkpoints as the track has stages.
THEOREM LapsStayDriven == Spec => []LapsAreDriven
<1>1. ASSUME TypeOK, AllHaveDriven PROVE LapsAreDriven
  <2> SUFFICES ASSUME NEW k \in Racers
               PROVE  /\ clock >= m_RacingPlayers[k].lap * MinLap
                      /\ checkpoints[m_RacingPlayers[k].player] >= m_RacingPlayers[k].lap * Stages
    BY DEF LapsAreDriven
  <2> DEFINE r == m_RacingPlayers[k]
             c == checkpoints[r.player]
  <2>1. HasDriven(r, clock, c)
    BY <1>1 DEF AllHaveDriven
  <2>2. r \in Racer
    BY <1>1 DEF TypeOK, Racers
  <2>3. /\ r.player \in Players /\ r.respawnIndex \in 0..LastPoint
        /\ r.lap \in 0..Laps /\ r.since \in 0..MinLap
    BY <2>2 DEF Racer
  <2>4. clock \in 0..(Laps * MinLap) /\ c \in 0..(Laps * Stages)
    BY <1>1, <2>3 DEF TypeOK
  <2>5. StagesTo(r.respawnIndex) \in Nat /\ Stages \in Nat /\ Laps \in Nat /\ MinLap \in Nat
    BY <2>3, RacingConstants, StagesAreNat, StagesToIsNat
  <2> HIDE DEF r, c
  <2>6. r.lap * MinLap \in Nat /\ r.lap * Stages \in Nat /\ clock \in Int /\ c \in Int
    BY <2>3, <2>4, <2>5
  <2>7. clock >= r.lap * MinLap /\ c >= r.lap * Stages
    <3>1. CASE r.lap = Laps
      BY <2>1, <3>1 DEF HasDriven
    <3>2. CASE r.lap # Laps
      <4>1. clock >= r.lap * MinLap + r.since /\ c >= r.lap * Stages + StagesTo(r.respawnIndex)
        BY <2>1, <3>2 DEF HasDriven
      <4>2. r.since \in Nat
        BY <2>3, <2>5
      <4>3. QED BY <2>5, <2>6, <4>1, <4>2
    <3>3. QED BY <3>1, <3>2
  <2>8. QED BY <2>7 DEF r, c
<1>2. TypeOK /\ Standings => LapsAreDriven
  BY <1>1, FreshStandings DEF Standings
<1>3. QED BY <1>2, StandingsInvariant, TypeCorrect, PTL
=============================================================================
