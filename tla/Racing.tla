------------------------------- MODULE Racing -------------------------------
(***************************************************************************)
(* A race world: src/dGame/dComponents/RacingControlComponent.cpp.         *)
(*                                                                         *)
(* Players load into the world and wait in its lobby; once two are there   *)
(* the rest has LoadTime seconds to come.  Then every player of the lobby  *)
(* gets a car, and when all clients are ready the race starts after        *)
(* StartTime seconds.  In the race a car moves from checkpoint to          *)
(* checkpoint and from lap to lap.                                         *)
(*                                                                         *)
(* One frame of the world, Update, takes one unit of time; what arrives    *)
(* between two frames are actions of their own.  The geometry of the track *)
(* is Places: which waypoints are within 50 units of some point of it.     *)
(* Left out: smashed cars, rewards, missions, and what is sent to clients. *)
(***************************************************************************)
EXTENDS Integers, Sequences, FiniteSets, SequencesExt

CONSTANTS
  Players,
  LoadTime,    \* 15 s: the wait for further players
  EmptyTime,   \* 30 s: the wait for a second player
  StartTime,   \* 6 s: the countdown
  MinLap,      \* 40 s: no lap is shorter
  Laps,        \* m_NumberOfLaps
  LastPoint,        \* index of the last waypoint of the path
  MaxSkip,     \* 10: how far ahead a waypoint counts
  Places       \* sets of waypoints that are near at the same time

ASSUME RacingConstants ==
  /\ {LoadTime, EmptyTime, StartTime, MinLap} \subseteq Nat \ {0}
  /\ Laps \in Nat \ {0} /\ LastPoint \in Nat \ {0} /\ MaxSkip \in Nat \ {0}
  /\ Places \subseteq SUBSET (0..LastPoint)

VARIABLES
  present,          \* players with an entity in this world
  came,             \* players who have been here: each comes once
  sentHome,         \* players SendToZone was called for
  vehicles,         \* players whose car exists
  m_SoloRacing,
  m_LobbyPlayers, m_RacingPlayers, m_LoadedPlayers,
  m_LoadTimer, m_EmptyTimer, m_StartTimer,
  m_Loaded, m_Started, m_Finished,
  clock,            \* time since m_StartTime, up to Laps * MinLap
  checkpoints       \* history: checkpoints each player reached, up to Laps * Stages

people  == <<present, came, sentHome, vehicles, m_SoloRacing>>
lobby   == <<m_LobbyPlayers, m_LoadedPlayers, m_LoadTimer, m_EmptyTimer>>
race    == <<m_Finished, clock, checkpoints>>
vars    == <<people, lobby, m_RacingPlayers, m_Loaded, m_Started, m_StartTimer, race>>

AtMost(n, bound) == IF n > bound THEN bound ELSE n

\* A lap takes at least this many checkpoints.
Stages == (LastPoint + MaxSkip - 1) \div MaxSkip

Racers == DOMAIN m_RacingPlayers

NewRacer(p) ==
  [player |-> p, playerLoaded |-> FALSE, respawnIndex |-> 0, lap |-> 0,
   finished |-> 0, since |-> 0]  \* since: time since lapTime, up to MinLap

Init ==
  /\ present = {} /\ came = {} /\ sentHome = {} /\ vehicles = {}
  /\ m_SoloRacing \in BOOLEAN
  /\ m_LobbyPlayers = <<>> /\ m_RacingPlayers = <<>> /\ m_LoadedPlayers = 0
  /\ m_LoadTimer = 0 /\ m_EmptyTimer = 0 /\ m_StartTimer = 0
  /\ m_Loaded = FALSE /\ m_Started = FALSE /\ m_Finished = 0
  /\ clock = 0 /\ checkpoints = [p \in Players |-> 0]

(***************************************************************************)
(* Between frames                                                          *)
(***************************************************************************)

\* A player loads into the world.  admitted: he has a car and can pay.
OnPlayerLoaded(p, admitted) ==
  /\ p \notin came
  /\ came' = came \cup {p} /\ present' = present \cup {p}
  /\ IF m_Loaded \/ ~admitted
     THEN /\ sentHome' = sentHome \cup {p}
          /\ UNCHANGED <<m_LobbyPlayers, m_LoadedPlayers>>
     ELSE /\ m_LoadedPlayers' = m_LoadedPlayers + 1
          /\ m_LobbyPlayers' = Append(m_LobbyPlayers, p)
          /\ UNCHANGED sentHome
  /\ UNCHANGED <<vehicles, m_SoloRacing, m_LoadTimer, m_EmptyTimer, m_RacingPlayers,
                 m_Loaded, m_Started, m_StartTimer, race>>

\* The connection of a player ends, and with it his entity.
PlayerLeaves(p) ==
  /\ p \in present
  /\ present' = present \ {p}
  /\ UNCHANGED <<came, sentHome, vehicles, m_SoloRacing, lobby, m_RacingPlayers,
                 m_Loaded, m_Started, m_StartTimer, race>>

\* The client of a player has loaded his car.
OnRacingClientReady(p) ==
  /\ p \in present
  /\ \E k \in Racers :
       /\ m_RacingPlayers[k].player = p /\ ~m_RacingPlayers[k].playerLoaded
       /\ m_RacingPlayers' = [m_RacingPlayers EXCEPT ![k].playerLoaded = TRUE]
  /\ UNCHANGED <<people, lobby, m_Loaded, m_Started, m_StartTimer, race>>

\* HandleMessageBoxResponse: a player exits the race; his car is killed.
ExitRace(p) ==
  /\ p \in present \cap vehicles
  /\ \E k \in Racers : m_RacingPlayers[k].player = p
  /\ sentHome' = sentHome \cup {p} /\ vehicles' = vehicles \ {p}
  /\ UNCHANGED <<present, came, m_SoloRacing, lobby, m_RacingPlayers,
                 m_Loaded, m_Started, m_StartTimer, race>>

(***************************************************************************)
(* Update, before the cars are loaded                                      *)
(***************************************************************************)
\* Mutant of Enough: one player is enough for the race.
EnoughAlone == m_LoadedPlayers >= 1

Enough == m_LoadedPlayers >= 2 \/ (m_LoadedPlayers = 1 /\ m_SoloRacing)

\* The position of the first player of a list without an entity.
IsFirstGone(i, list) ==
  /\ i \in DOMAIN list /\ list[i] \notin present
  /\ \A j \in 1..(i - 1) : list[j] \in present

\* "Check if any players has disconnected before loading in"
LobbyPlayerGone ==
  /\ ~m_Loaded
  /\ \E i \in DOMAIN m_LobbyPlayers :
       /\ IsFirstGone(i, m_LobbyPlayers)
       /\ m_LobbyPlayers' = RemoveAt(m_LobbyPlayers, i)
  /\ m_LoadedPlayers' = m_LoadedPlayers - 1
  /\ UNCHANGED <<people, m_LoadTimer, m_EmptyTimer, m_RacingPlayers,
                 m_Loaded, m_Started, m_StartTimer, race>>

\* The positions in S, in their order.
Ascending(S) ==
  {f \in [1..Cardinality(S) -> S] : \A j, k \in DOMAIN f : j < k => f[j] < f[k]}

HaveCars(noCar) == {i \in DOMAIN m_LobbyPlayers : m_LobbyPlayers[i] \notin noCar}

\* Mutant of LoadPlayerVehicles: who has no car stays counted.
LoadPlayerVehiclesCountAll(noCar) ==
  /\ \E order \in Ascending(HaveCars(noCar)) :
       m_RacingPlayers' = [k \in 1..Cardinality(HaveCars(noCar)) |-> NewRacer(m_LobbyPlayers[order[k]])]
  /\ vehicles' = ToSet(m_LobbyPlayers) \ noCar
  /\ sentHome' = sentHome \cup noCar
  /\ m_Loaded' = TRUE
  /\ UNCHANGED <<m_LobbyPlayers, m_LoadedPlayers>>

\* The players of the lobby get their cars, but those in noCar, who no longer
\* have the item, are sent home.
LoadPlayerVehicles(noCar) ==
  /\ \E order \in Ascending(HaveCars(noCar)) :
       m_RacingPlayers' = [k \in 1..Cardinality(HaveCars(noCar)) |-> NewRacer(m_LobbyPlayers[order[k]])]
  /\ m_LoadedPlayers' = m_LoadedPlayers - (Len(m_LobbyPlayers) - Cardinality(HaveCars(noCar)))
  /\ vehicles' = ToSet(m_LobbyPlayers) \ noCar
  /\ sentHome' = sentHome \cup noCar
  /\ m_Loaded' = TRUE
  /\ UNCHANGED m_LobbyPlayers

\* Mutant of SendLobbyHome: the list is cleared before it is gone through.
SendLobbyHomeCleared == m_LobbyPlayers' = <<>> /\ UNCHANGED sentHome

\* The lobby is sent home: nobody came in time.
SendLobbyHome ==
  /\ sentHome' = sentHome \cup ToSet(m_LobbyPlayers)
  /\ m_LobbyPlayers' = <<>>

UpdateLobby(noCar) ==
  /\ ~m_Loaded
  /\ ToSet(m_LobbyPlayers) \subseteq present
  /\ IF Enough THEN m_LoadTimer' = m_LoadTimer + 1 /\ UNCHANGED m_EmptyTimer
               ELSE /\ m_EmptyTimer' = AtMost(m_EmptyTimer + 1, EmptyTime)
                    /\ UNCHANGED m_LoadTimer
  /\ \/ /\ m_EmptyTimer' < EmptyTime /\ m_LoadTimer' < LoadTime /\ noCar = {}
        /\ UNCHANGED <<sentHome, m_LobbyPlayers, m_RacingPlayers, vehicles,
                       m_LoadedPlayers, m_Loaded>>
     \/ /\ m_EmptyTimer' < EmptyTime /\ m_LoadTimer' >= LoadTime
        /\ LoadPlayerVehicles(noCar)
     \/ /\ m_EmptyTimer' >= EmptyTime /\ noCar = {}
        /\ SendLobbyHome
        /\ m_Loaded' = (m_LoadTimer' >= LoadTime)  \* with nobody left to load
        /\ UNCHANGED <<m_RacingPlayers, vehicles, m_LoadedPlayers>>
  /\ UNCHANGED <<present, came, m_SoloRacing, m_Started, m_StartTimer, race>>

(***************************************************************************)
(* Update, with cars, before the start                                     *)
(***************************************************************************)
RacingPlayer == [k \in Racers |-> m_RacingPlayers[k].player]

\* "Check if anyone has disconnected during this period"
RacingPlayerGone ==
  /\ m_Loaded /\ ~m_Started
  /\ \E i \in Racers :
       /\ IsFirstGone(i, RacingPlayer)
       /\ m_RacingPlayers' = RemoveAt(m_RacingPlayers, i)
  /\ m_LoadedPlayers' = m_LoadedPlayers - 1
  /\ UNCHANGED <<people, m_LobbyPlayers, m_LoadTimer, m_EmptyTimer,
                 m_Loaded, m_Started, m_StartTimer, race>>

AllHere == \A k \in Racers : RacingPlayer[k] \in present

\* "If less then 2 players are left, send the rest back to the main world",
\* again in every frame.
TooFewLeft ==
  /\ m_Loaded /\ ~m_Started /\ AllHere /\ ~Enough
  /\ sentHome' = sentHome \cup (ToSet(m_LobbyPlayers) \cap present)
  /\ UNCHANGED <<present, came, vehicles, m_SoloRacing, lobby, m_RacingPlayers,
                 m_Loaded, m_Started, m_StartTimer, race>>

ReadyPlayers == {k \in Racers : m_RacingPlayers[k].playerLoaded}

\* All are ready: the countdown runs, and at its end the race starts.
Countdown ==
  /\ m_Loaded /\ ~m_Started /\ AllHere /\ Enough
  /\ Cardinality(ReadyPlayers) >= m_LoadedPlayers
  /\ m_StartTimer' = m_StartTimer + 1
  /\ m_Started' = (m_StartTimer >= StartTime)
  /\ UNCHANGED <<people, lobby, m_RacingPlayers, m_Loaded, race>>

NotAllReady ==
  /\ m_Loaded /\ ~m_Started /\ AllHere /\ Enough
  /\ Cardinality(ReadyPlayers) < m_LoadedPlayers
  /\ m_StartTimer' = 0
  /\ UNCHANGED <<people, lobby, m_RacingPlayers, m_Loaded, m_Started, race>>

(***************************************************************************)
(* Update, the race                                                        *)
(***************************************************************************)
Lowest(S) == CHOOSE i \in S : \A j \in S : i <= j

\* The waypoints near a car that count for a racer who was last at waypoint r:
\* those up to MaxSkip ahead, and from the last one any.
Ahead(r, place) ==
  {i \in place \ {r} : r = LastPoint \/ (i > r /\ i - r <= MaxSkip)}

\* After a lap that was too short the loop goes on to the next waypoint
\* without counting it: the waypoint i + 1 is taken for i.
OffByOne(place) == {i \in 1..(LastPoint - 1) : i + 1 \in place /\ i <= MaxSkip}

\* Mutant of Driving: who has finished drives on.
DrivingOn(racer) == racer.player \in vehicles \cap present

\* The car is driven, and has laps left.
Driving(racer) ==
  racer.player \in vehicles \cap present /\ racer.lap # Laps

\* The checkpoint a racer is found at, the lap it ends, and its index.
Moves(racer, place)  == Driving(racer) /\ Ahead(racer.respawnIndex, place) # {}
AtStart(racer, place) == Moves(racer, place) /\ Lowest(Ahead(racer.respawnIndex, place)) = 0

\* Mutant of EndsLap: without the cheating check.
EndsLapAtOnce(racer, place) == AtStart(racer, place)

EndsLap(racer, place) == AtStart(racer, place) /\ AtMost(racer.since + 1, MinLap) >= MinLap

NewIndex(racer, place) ==
  IF ~Moves(racer, place) THEN racer.respawnIndex
  ELSE IF AtStart(racer, place) /\ ~EndsLap(racer, place) /\ OffByOne(place) # {}
       THEN Lowest(OffByOne(place))
       ELSE Lowest(Ahead(racer.respawnIndex, place))

Finishes(racer, place) == EndsLap(racer, place) /\ racer.lap + 1 = Laps

\* Mutant of FinishedUpTo: all who finish in a frame get the last place.
FinishedTogether(k, place) ==
  Cardinality({j \in Racers : Finishes(m_RacingPlayers[j], place[j])})

\* The places given out in this frame, up to the k-th racer.
FinishedUpTo(k, place) ==
  Cardinality({j \in 1..k : Finishes(m_RacingPlayers[j], place[j])})

UpdateRace(place) ==
  /\ m_Loaded /\ m_Started
  /\ m_RacingPlayers' = [k \in Racers |->
       LET racer == m_RacingPlayers[k] IN
       [racer EXCEPT
          !.respawnIndex = NewIndex(racer, place[k]),
          !.lap = IF EndsLap(racer, place[k]) THEN @ + 1 ELSE @,
          !.since = IF EndsLap(racer, place[k]) THEN 0 ELSE AtMost(@ + 1, MinLap),
          !.finished = IF Finishes(racer, place[k])
                       THEN m_Finished + FinishedUpTo(k, place) ELSE @]]
  /\ m_Finished' = m_Finished + FinishedUpTo(Len(m_RacingPlayers), place)
  /\ clock' = AtMost(clock + 1, Laps * MinLap)
  /\ checkpoints' = [p \in Players |->
       IF \E k \in Racers : RacingPlayer[k] = p /\ Moves(m_RacingPlayers[k], place[k])
       THEN AtMost(checkpoints[p] + 1, Laps * Stages) ELSE checkpoints[p]]
  /\ UNCHANGED <<people, lobby, m_Loaded, m_Started, m_StartTimer>>

-----------------------------------------------------------------------------
Update ==
  \/ LobbyPlayerGone
  \/ \E noCar \in SUBSET ToSet(m_LobbyPlayers) : UpdateLobby(noCar)
  \/ RacingPlayerGone
  \/ TooFewLeft
  \/ Countdown
  \/ NotAllReady
  \/ m_Started /\ \E place \in [Racers -> Places] : UpdateRace(place)

Next ==
  \/ \E p \in Players, admitted \in BOOLEAN : OnPlayerLoaded(p, admitted)
  \/ \E p \in Players : PlayerLeaves(p)
  \/ \E p \in Players : OnRacingClientReady(p)
  \/ \E p \in Players : ExitRace(p)
  \/ Update

Spec == Init /\ [][Next]_vars

\* The world's loop calls Update in every frame, which is needed until the race
\* starts; the client of a player who is there tells that it has loaded his car.
FairSpec ==
  /\ Spec
  /\ WF_vars(~m_Started /\ Update)
  /\ \A p \in Players : WF_vars(OnRacingClientReady(p))

-----------------------------------------------------------------------------
Racer ==
  [player : Players, playerLoaded : BOOLEAN, respawnIndex : 0..LastPoint, lap : 0..Laps,
   finished : Nat, since : 0..MinLap]

TypeOK ==
  /\ present \subseteq Players /\ came \subseteq Players
  /\ sentHome \subseteq Players /\ vehicles \subseteq Players
  /\ {m_SoloRacing, m_Loaded, m_Started} \subseteq BOOLEAN
  /\ m_LobbyPlayers \in Seq(Players) /\ m_RacingPlayers \in Seq(Racer)
  /\ m_LoadedPlayers \in Nat
  /\ m_LoadTimer \in 0..LoadTime /\ m_EmptyTimer \in 0..EmptyTime
  /\ m_StartTimer \in 0..(StartTime + 1)
  /\ m_Finished \in Nat
  /\ clock \in 0..(Laps * MinLap)
  /\ checkpoints \in [Players -> 0..(Laps * Stages)]

\* m_LoadedPlayers, unsigned and counted up and down in five places, is the
\* number of those who wait, or race, until a lobby has been sent home.
LoadedCountExact ==
  m_EmptyTimer < EmptyTime =>
    m_LoadedPlayers = Len(IF m_Loaded THEN m_RacingPlayers ELSE m_LobbyPlayers)

\* A race that has started has the clients of all its racers ready, and at
\* least two racers if racing alone is not allowed, whoever left meanwhile.
StartsComplete ==
  m_Started =>
    /\ \A k \in Racers : m_RacingPlayers[k].playerLoaded
    /\ Len(m_RacingPlayers) >= 2 \/ (Len(m_RacingPlayers) = 1 /\ m_SoloRacing)

\* The places of those who finished are 1 to m_Finished, each given once, and
\* whoever has driven all laps has one.
PlacesAreRanks ==
  LET done == {k \in Racers : m_RacingPlayers[k].finished # 0} IN
  /\ {m_RacingPlayers[k].finished : k \in done} = 1..m_Finished
  /\ Cardinality(done) = m_Finished
  /\ \A k \in Racers : k \in done <=> m_RacingPlayers[k].lap = Laps

\* Every lap that counts took at least MinLap and went past enough
\* checkpoints: cutting the track or waiting at the line gains nothing.
LapsAreDriven ==
  \A k \in Racers :
    LET racer == m_RacingPlayers[k] IN
    /\ clock >= racer.lap * MinLap
    /\ checkpoints[racer.player] >= racer.lap * Stages

\* A player in the lobby or at the start sees the race start, is sent home
\* or leaves: nobody waits for ever.
NobodyWaitsForEver ==
  \A p \in Players :
    p \in ToSet(m_LobbyPlayers) ~> (m_Started \/ p \in sentHome \/ p \notin present)
=============================================================================
