---------------------------- MODULE LobbyProofs ----------------------------
(***************************************************************************)
(* Proofs about the lobbies, for every number of players, lobbies and      *)
(* activities.  Whatever Update and the messages do to a lobby other than  *)
(* let a player join, what is left of its players is a part of what there  *)
(* was: this is what carries both invariants of the queue.                 *)
(***************************************************************************)
EXTENDS Lobby, SequenceLemmas, FiniteSetTheorems

\* A value the queue may have.
IsQueue(Q) == DOMAIN Q \subseteq Nat /\ Q \in [DOMAIN Q -> LobbyType]

\* Players t are some of players s, each in one place.
PartOf(t, s) ==
  /\ Len(t) <= Len(s)
  /\ \E f \in [1..Len(t) -> 1..Len(s)] :
       /\ \A m, n \in 1..Len(t) : f[m] = f[n] => m = n
       /\ \A n \in 1..Len(t) : t[n].entityID = s[f[n]].entityID

QueuePart(W, Q) ==
  /\ IsQueue(W) /\ DOMAIN W \subseteq DOMAIN Q
  /\ \A k \in DOMAIN W : PartOf(W[k].players, Q[k].players)

Fits(n) ==
  \/ n <= m_ActivityInfo.maxTeamSize
  \/ m_ActivityInfo.maxTeamSize = 1 /\ n <= m_ActivityInfo.maxTeams

HasRoom(Q) == \A k \in DOMAIN Q : Fits(Len(Q[k].players))

Distinct(Q) ==
  \A j, k \in DOMAIN Q : \A m \in 1..Len(Q[j].players), n \in 1..Len(Q[k].players) :
    Q[j].players[m].entityID = Q[k].players[n].entityID => j = k /\ m = n

\* What has not started has time left: FirstStartHasEnough needs it, as the
\* timer of a lobby that has too few players must not have elapsed before.
Waits(Q, times) == \A k \in DOMAIN Q : times[k] = 0 => Q[k].timer > 0

LobbyInv ==
  /\ m_ActivityInfo \in Activities
  /\ DOMAIN m_Queue # {} => m_ActivityInfo.hasLobby
  /\ lobbies \in 0..MaxLobbies /\ DOMAIN m_Queue \subseteq 1..lobbies
  /\ IsQueue(m_Queue)
  /\ started \in [1..MaxLobbies -> Nat]
  /\ HasRoom(m_Queue) /\ Distinct(m_Queue)
  /\ Waits(m_Queue, started)

\* The types of a row of the table, and what its lobby can rely on.
LEMMA InfoTypes ==
  ASSUME m_ActivityInfo \in Activities
  PROVE  /\ m_ActivityInfo.minTeams \in Nat /\ m_ActivityInfo.maxTeams \in Nat
         /\ m_ActivityInfo.minTeamSize \in Nat /\ m_ActivityInfo.maxTeamSize \in Nat
         /\ m_ActivityInfo.waitTime \in Nat /\ m_ActivityInfo.startDelay \in Nat
         /\ m_ActivityInfo.hasLobby =>
              /\ m_ActivityInfo.maxTeamSize > 0
              /\ m_ActivityInfo.waitTime > 0 /\ m_ActivityInfo.startDelay > 0
<1> DEFINE Row == [minTeams : Nat, maxTeams : Nat, minTeamSize : Nat, maxTeamSize : Nat,
                   waitTime : Nat, startDelay : Nat, hasLobby : BOOLEAN]
<1>1. m_ActivityInfo \in Row
  BY LobbyConstants
<1>2. QED BY <1>1, LobbiedActivities

\* The fields of a lobby of a queue.
LEMMA LobbyFields ==
  ASSUME NEW Q, IsQueue(Q), NEW k \in DOMAIN Q
  PROVE  /\ Q[k] \in LobbyType
         /\ Q[k].players \in Seq(LobbyPlayer) /\ Q[k].timer \in Int
         /\ Len(Q[k].players) \in Nat /\ DOMAIN Q[k].players = 1..Len(Q[k].players)
<1>1. Q[k] \in LobbyType
  BY DEF IsQueue
<1>2. Q[k].players \in Seq(LobbyPlayer) /\ Q[k].timer \in Int
  BY <1>1 DEF LobbyType
<1>3. QED BY <1>1, <1>2

\* A part of a queue keeps players in one place each, and has no more of them.
LEMMA PartKeeps ==
  ASSUME NEW Q, NEW W, IsQueue(Q), QueuePart(W, Q), m_ActivityInfo \in Activities
  PROVE  /\ HasRoom(Q) => HasRoom(W)
         /\ Distinct(Q) => Distinct(W)
<1> USE DEF QueuePart
<1>1. ASSUME HasRoom(Q) PROVE HasRoom(W)
  <2> SUFFICES ASSUME NEW k \in DOMAIN W PROVE Fits(Len(W[k].players))
    BY DEF HasRoom
  <2>1. Len(W[k].players) \in Nat /\ Len(Q[k].players) \in Nat
    BY LobbyFields
  <2>2. Len(W[k].players) <= Len(Q[k].players)
    BY DEF PartOf
  <2>3. Fits(Len(Q[k].players))
    BY <1>1 DEF HasRoom
  <2>4. QED BY <2>1, <2>2, <2>3, InfoTypes DEF Fits
<1>2. ASSUME Distinct(Q) PROVE Distinct(W)
  <2> SUFFICES ASSUME NEW j \in DOMAIN W, NEW k \in DOMAIN W,
                      NEW m \in 1..Len(W[j].players), NEW n \in 1..Len(W[k].players),
                      W[j].players[m].entityID = W[k].players[n].entityID
               PROVE  j = k /\ m = n
    BY DEF Distinct
  <2>1. PICK f \in [1..Len(W[j].players) -> 1..Len(Q[j].players)] :
          /\ \A a, b \in 1..Len(W[j].players) : f[a] = f[b] => a = b
          /\ \A a \in 1..Len(W[j].players) : W[j].players[a].entityID = Q[j].players[f[a]].entityID
    BY DEF PartOf
  <2>2. PICK g \in [1..Len(W[k].players) -> 1..Len(Q[k].players)] :
          /\ \A a, b \in 1..Len(W[k].players) : g[a] = g[b] => a = b
          /\ \A a \in 1..Len(W[k].players) : W[k].players[a].entityID = Q[k].players[g[a]].entityID
    BY DEF PartOf
  <2>3. /\ f[m] \in 1..Len(Q[j].players) /\ g[n] \in 1..Len(Q[k].players)
        /\ Q[j].players[f[m]].entityID = Q[k].players[g[n]].entityID
    BY <2>1, <2>2
  <2>4. j = k
    BY <2>3, <1>2 DEF Distinct
  <2>5. f[m] \in 1..Len(Q[j].players) /\ f[n] \in 1..Len(Q[j].players)
    BY <2>1, <2>4
  <2>6. Q[j].players[f[m]].entityID = Q[j].players[f[n]].entityID
    BY <2>1, <2>4
  <2>7. f[m] = f[n]
    BY <2>5, <2>6, <1>2 DEF Distinct
  <2>8. QED BY <2>1, <2>4, <2>7
<1>3. QED BY <1>1, <1>2

\* As many players with the same ids are a part.
LEMMA SameIds ==
  ASSUME NEW s \in Seq(LobbyPlayer), NEW t \in Seq(LobbyPlayer), Len(t) = Len(s),
         \A n \in 1..Len(s) : t[n].entityID = s[n].entityID
  PROVE  PartOf(t, s)
<1> DEFINE f == [n \in 1..Len(t) |-> n]
<1>1. f \in [1..Len(t) -> 1..Len(s)]
  OBVIOUS
<1>2. /\ \A m, n \in 1..Len(t) : f[m] = f[n] => m = n
      /\ \A n \in 1..Len(t) : t[n].entityID = s[f[n]].entityID
  OBVIOUS
<1>3. Len(t) <= Len(s)
  OBVIOUS
<1> HIDE DEF f
<1>4. QED BY <1>1, <1>2, <1>3 DEF PartOf

\* vector::erase leaves a part.
LEMMA ErasedIsPart ==
  ASSUME NEW s \in Seq(LobbyPlayer), NEW i \in 1..Len(s)
  PROVE  RemoveAt(s, i) \in Seq(LobbyPlayer) /\ PartOf(RemoveAt(s, i), s)
<1> DEFINE t == RemoveAt(s, i)
           f == [n \in 1..Len(t) |-> IF n < i THEN n ELSE n + 1]
<1>1. /\ t \in Seq(LobbyPlayer) /\ Len(t) = Len(s) - 1
      /\ \A n \in 1..Len(s)-1 : t[n] = IF n < i THEN s[n] ELSE s[n+1]
  BY RemoveAtProperties
<1> HIDE DEF t
<1>2. f \in [1..Len(t) -> 1..Len(s)]
  BY <1>1
<1>3. \A m, n \in 1..Len(t) : f[m] = f[n] => m = n
  BY <1>1
<1>4. \A n \in 1..Len(t) : t[n].entityID = s[f[n]].entityID
  BY <1>1
<1>5. Len(t) <= Len(s)
  BY <1>1
<1> HIDE DEF f
<1>6. PartOf(t, s)
  BY <1>2, <1>3, <1>4, <1>5 DEF PartOf
<1>7. QED BY <1>1, <1>6 DEF t

\* PlayerLeave leaves a part of the queue, every lobby in it, and the timers.
LEMMA WithoutPlayerIsPart ==
  ASSUME NEW Q, IsQueue(Q), NEW p
  PROVE  LET W == WithoutPlayer(Q, p)
         IN  /\ QueuePart(W, Q) /\ DOMAIN W = DOMAIN Q
             /\ \A k \in DOMAIN Q : W[k].timer = Q[k].timer
<1> DEFINE H == Holders(Q, p)
           c == Min(H)
           s == Q[c].players
           at == {n \in DOMAIN s : s[n].entityID = p}
           W == SetPlayers(Q, c, Without(s, p))
<1>0. \A k \in DOMAIN Q : PartOf(Q[k].players, Q[k].players)
  BY LobbyFields, SameIds
<1>1. CASE H = {}
  BY <1>0, <1>1 DEF WithoutPlayer, QueuePart
<1>2. CASE H # {}
  <2>1. H \subseteq DOMAIN Q /\ H \in SUBSET Nat
    BY DEF Holders, IsQueue
  <2>2. c \in H
    BY <1>2, <2>1, LeastExists DEF Min
  <2>3. c \in DOMAIN Q /\ Holds(Q[c], p)
    BY <2>2 DEF Holders
  <2>4. s \in Seq(LobbyPlayer) /\ DOMAIN s = 1..Len(s) /\ Len(s) \in Nat /\ Q[c].timer \in Int
    BY <2>3, LobbyFields
  <2>5. Min(at) \in 1..Len(s)
    <3>1. at # {} /\ at \in SUBSET (1..Len(s))
      BY <2>3, <2>4 DEF Holds
    <3>2. Min(at) \in at
      BY <3>1, <2>4, MinIsMember
    <3>3. QED BY <3>1, <3>2
  <2>6. Without(s, p) \in Seq(LobbyPlayer) /\ PartOf(Without(s, p), s)
    BY <2>4, <2>5, ErasedIsPart DEF Without
  <2>7. WithoutPlayer(Q, p) = W
    BY <1>2 DEF WithoutPlayer
  <2> HIDE DEF H, c, at
  <2>8. DOMAIN W = DOMAIN Q
    BY DEF SetPlayers
  <2>9. ASSUME NEW k \in DOMAIN Q
        PROVE  /\ W[k] \in LobbyType /\ PartOf(W[k].players, Q[k].players)
               /\ W[k].timer = Q[k].timer
    <3>1. CASE k = c
      <4>1. W[k] = [players |-> Without(s, p), timer |-> Q[c].timer]
        BY <3>1 DEF SetPlayers
      <4>2. QED BY <4>1, <3>1, <2>4, <2>6 DEF LobbyType
    <3>2. CASE k # c
      <4>1. W[k] = Q[k]
        BY <3>2 DEF SetPlayers
      <4>2. QED BY <4>1, <1>0, LobbyFields
    <3>3. QED BY <3>1, <3>2
  <2>10. W = [k \in DOMAIN W |-> W[k]]
    BY DEF SetPlayers
  <2> HIDE DEF W
  <2>11. W \in [DOMAIN W -> LobbyType]
    BY <2>8, <2>9, <2>10
  <2>12. QED BY <2>7, <2>8, <2>9, <2>11 DEF QueuePart, IsQueue
<1>3. QED BY <1>1, <1>2

-----------------------------------------------------------------------------
(* The invariant *)

\* The component starts without lobbies.
LEMMA InitLobby == Init => LobbyInv
<1> SUFFICES ASSUME Init PROVE LobbyInv
  OBVIOUS
<1>1. DOMAIN m_Queue = {} /\ lobbies = 0 /\ MaxLobbies \in Nat
  BY LobbyConstants DEF Init
<1>2. m_Queue \in [{} -> LobbyType]
  BY DEF Init
<1>3. IsQueue(m_Queue)
  BY <1>1, <1>2 DEF IsQueue
<1>4. started \in [1..MaxLobbies -> Nat]
  BY DEF Init
<1>5. QED
  BY <1>1, <1>3, <1>4 DEF Init, LobbyInv, HasRoom, Distinct, Waits

\* A part of the queue with lobbies that wait keeps the invariant.
LEMMA PartKeepsInv ==
  ASSUME LobbyInv, QueuePart(m_Queue', m_Queue), UNCHANGED <<m_ActivityInfo, lobbies>>,
         started' \in [1..MaxLobbies -> Nat], Waits(m_Queue', started')
  PROVE  LobbyInv'
<1> USE DEF LobbyInv
<1>1. HasRoom(m_Queue') /\ Distinct(m_Queue')
  BY PartKeeps
<1>2. HasRoom(m_Queue)' = HasRoom(m_Queue')
  BY DEF HasRoom, Fits
<1>3. DOMAIN m_Queue' \subseteq DOMAIN m_Queue /\ IsQueue(m_Queue')
  BY DEF QueuePart
<1>4. /\ Distinct(m_Queue)' = Distinct(m_Queue') /\ IsQueue(m_Queue)' = IsQueue(m_Queue')
      /\ Waits(m_Queue, started)' = Waits(m_Queue', started')
  BY DEF Distinct, IsQueue, Waits
<1>5. QED BY <1>1, <1>2, <1>3, <1>4

\* PlayerLeave.
LEMMA PlayerLeaveKeepsInv ==
  ASSUME LobbyInv, NEW p \in Players, PlayerLeave(p)
  PROVE  LobbyInv'
<1>1. IsQueue(m_Queue) /\ m_Queue' = WithoutPlayer(m_Queue, p)
  BY DEF LobbyInv, PlayerLeave
<1>2. /\ QueuePart(m_Queue', m_Queue) /\ DOMAIN m_Queue' = DOMAIN m_Queue
      /\ \A k \in DOMAIN m_Queue : m_Queue'[k].timer = m_Queue[k].timer
  BY <1>1, WithoutPlayerIsPart
<1>3. /\ UNCHANGED <<m_ActivityInfo, lobbies, started>>
      /\ Waits(m_Queue, started) /\ started \in [1..MaxLobbies -> Nat]
  BY DEF LobbyInv, PlayerLeave
<1>4. Waits(m_Queue', started')
  BY <1>2, <1>3 DEF Waits
<1>5. QED BY <1>2, <1>3, <1>4, PartKeepsInv

\* A lobby marked ready has the same players.
LEMMA MarkReadyIsPart ==
  ASSUME NEW lobby \in LobbyType, NEW p, NEW bReady \in BOOLEAN
  PROVE  /\ MarkReady(lobby, p, bReady) \in LobbyType
         /\ PartOf(MarkReady(lobby, p, bReady).players, lobby.players)
         /\ MarkReady(lobby, p, bReady).timer = lobby.timer
<1> DEFINE s == lobby.players
           e(n) == [entityID |-> s[n].entityID,
                    ready |-> IF s[n].entityID = p THEN bReady ELSE s[n].ready]
           t == [n \in DOMAIN s |-> e(n)]
<1>1. s \in Seq(LobbyPlayer) /\ DOMAIN s = 1..Len(s) /\ Len(s) \in Nat /\ lobby.timer \in Int
  BY DEF LobbyType
<1>2. \A n \in 1..Len(s) : s[n] \in LobbyPlayer
  BY <1>1
<1>3. \A n \in 1..Len(s) : e(n) \in LobbyPlayer /\ e(n).entityID = s[n].entityID
  BY <1>2 DEF LobbyPlayer
<1>4. MarkReady(lobby, p, bReady) = [players |-> t, timer |-> lobby.timer]
  BY DEF MarkReady
<1> HIDE DEF s, e
<1>5. t \in Seq(LobbyPlayer) /\ Len(t) = Len(s) /\ \A n \in 1..Len(s) : t[n] = e(n)
  BY <1>1, <1>3
<1> HIDE DEF t
<1>6. PartOf(t, s)
  BY <1>1, <1>3, <1>5, SameIds
<1>7. [players |-> t, timer |-> lobby.timer] \in LobbyType
  BY <1>1, <1>5 DEF LobbyType
<1>8. QED BY <1>4, <1>6, <1>7 DEF s

\* PlayerReady.
LEMMA PlayerReadyKeepsInv ==
  ASSUME LobbyInv, NEW p \in Players, NEW bReady \in BOOLEAN, PlayerReady(p, bReady)
  PROVE  LobbyInv'
<1>1. /\ m_Queue' = [id \in DOMAIN m_Queue |-> MarkReady(m_Queue[id], p, bReady)]
      /\ UNCHANGED <<m_ActivityInfo, lobbies, started>>
  BY DEF PlayerReady
<1>2. IsQueue(m_Queue) /\ Waits(m_Queue, started) /\ started \in [1..MaxLobbies -> Nat]
  BY DEF LobbyInv
<1>3. \A k \in DOMAIN m_Queue :
        /\ m_Queue'[k] \in LobbyType /\ PartOf(m_Queue'[k].players, m_Queue[k].players)
        /\ m_Queue'[k].timer = m_Queue[k].timer
  <2> SUFFICES ASSUME NEW k \in DOMAIN m_Queue
               PROVE  /\ m_Queue'[k] \in LobbyType /\ PartOf(m_Queue'[k].players, m_Queue[k].players)
                      /\ m_Queue'[k].timer = m_Queue[k].timer
    OBVIOUS
  <2>1. m_Queue[k] \in LobbyType /\ m_Queue'[k] = MarkReady(m_Queue[k], p, bReady)
    BY <1>1, <1>2, LobbyFields
  <2>2. QED BY <2>1, MarkReadyIsPart
<1>4. DOMAIN m_Queue' = DOMAIN m_Queue /\ m_Queue' \in [DOMAIN m_Queue' -> LobbyType]
  BY <1>1, <1>3
<1>5. QueuePart(m_Queue', m_Queue) /\ Waits(m_Queue', started')
  BY <1>1, <1>2, <1>3, <1>4 DEF QueuePart, IsQueue, Waits
<1>6. QED BY <1>1, <1>2, <1>5, PartKeepsInv

\* A tick keeps the players; only a lobby that has enough of them gets to zero.
LEMMA TickProperties ==
  ASSUME NEW lobby \in LobbyType, m_ActivityInfo \in Activities, m_ActivityInfo.hasLobby
  PROVE  /\ Tick(lobby) \in LobbyType /\ Tick(lobby).players = lobby.players
         /\ lobby.timer > 0 /\ ~ Enough(lobby) => Tick(lobby).timer > 0
         /\ lobby.players = <<>> => Tick(lobby) = lobby
<1>1. lobby.players \in Seq(LobbyPlayer) /\ lobby.timer \in Int
  BY DEF LobbyType
<1>2. m_ActivityInfo.startDelay \in Nat /\ m_ActivityInfo.startDelay > 0
  BY InfoTypes
<1> DEFINE timer == IF Enough(lobby) THEN lobby.timer - 1 ELSE lobby.timer
<1>3. timer \in Int /\ (~ Enough(lobby) => timer = lobby.timer)
  BY <1>1
<1>4. Jumped(lobby, timer) \in Int /\ (timer > 0 => Jumped(lobby, timer) > 0)
  BY <1>2, <1>3 DEF Jumped
<1>5. Tick(lobby) = IF lobby.players = <<>> THEN lobby
                    ELSE [players |-> lobby.players, timer |-> Jumped(lobby, timer)]
  BY DEF Tick, SetTimer
<1> HIDE DEF timer
<1>6. CASE lobby.players = <<>>
  BY <1>5, <1>6
<1>7. CASE lobby.players # <<>>
  <2>1. Tick(lobby) = [players |-> lobby.players, timer |-> Jumped(lobby, timer)]
    BY <1>5, <1>7
  <2>2. QED BY <2>1, <1>1, <1>3, <1>4, <1>7 DEF LobbyType
<1>8. QED BY <1>6, <1>7

\* The lobbies the loop has ticked are, as players go, those of the queue; one
\* that has not started before and does not now has time left.
LEMMA TickedIsPart ==
  ASSUME LobbyInv, DOMAIN m_Queue # {}, NEW reached \in SUBSET DOMAIN m_Queue
  PROVE  LET T == Ticked(reached)
         IN  /\ QueuePart(T, m_Queue) /\ DOMAIN T = DOMAIN m_Queue
             /\ \A k \in DOMAIN m_Queue :
                  started[k] = 0 /\ ~ (k \in reached /\ Elapsed(T[k])) => T[k].timer > 0
<1> DEFINE T == Ticked(reached)
<1>1. /\ m_ActivityInfo \in Activities /\ m_ActivityInfo.hasLobby
      /\ IsQueue(m_Queue) /\ Waits(m_Queue, started)
  BY DEF LobbyInv
<1>2. DOMAIN T = DOMAIN m_Queue
  BY DEF Ticked
<1>3. ASSUME NEW k \in DOMAIN m_Queue
      PROVE  /\ T[k] \in LobbyType /\ PartOf(T[k].players, m_Queue[k].players)
             /\ started[k] = 0 /\ ~ (k \in reached /\ Elapsed(T[k])) => T[k].timer > 0
  <2>1. m_Queue[k] \in LobbyType /\ m_Queue[k].players \in Seq(LobbyPlayer)
    BY <1>1, LobbyFields
  <2>2. PartOf(m_Queue[k].players, m_Queue[k].players)
    BY <2>1, SameIds
  <2>3. started[k] = 0 => m_Queue[k].timer > 0
    BY <1>1 DEF Waits
  <2>4. CASE k \in reached
    <3>1. T[k] = Tick(m_Queue[k])
      BY <2>4 DEF Ticked
    <3>2. /\ T[k] \in LobbyType /\ T[k].players = m_Queue[k].players
          /\ m_Queue[k].players = <<>> => T[k] = m_Queue[k]
      BY <1>1, <2>1, <3>1, TickProperties
    <3>3. T[k].timer \in Int
      BY <3>2 DEF LobbyType
    <3> HIDE DEF T
    <3>4. ASSUME started[k] = 0, ~ Elapsed(T[k]) PROVE T[k].timer > 0
      BY <2>3, <3>2, <3>3, <3>4 DEF Elapsed
    <3>5. QED BY <2>2, <2>4, <3>2, <3>4
  <2>5. CASE k \notin reached
    <3>1. T[k] = m_Queue[k]
      BY <2>5 DEF Ticked
    <3>2. QED BY <2>1, <2>2, <2>3, <2>5, <3>1
  <2>6. QED BY <2>4, <2>5
<1>4. T \in [DOMAIN T -> LobbyType]
  BY <1>2, <1>3 DEF Ticked
<1>5. DOMAIN T \subseteq Nat
  BY <1>1, <1>2 DEF IsQueue
<1> HIDE DEF T
<1>6. QueuePart(T, m_Queue)
  BY <1>2, <1>3, <1>4, <1>5 DEF QueuePart, IsQueue
<1>7. QED BY <1>2, <1>3, <1>6 DEF T

\* A part of a part is a part.
LEMMA PartTransitive ==
  ASSUME NEW Q, NEW T, NEW W, IsQueue(Q), QueuePart(T, Q), QueuePart(W, T)
  PROVE  QueuePart(W, Q)
<1> USE DEF QueuePart
<1> SUFFICES ASSUME NEW k \in DOMAIN W PROVE PartOf(W[k].players, Q[k].players)
  OBVIOUS
<1> DEFINE s == Q[k].players
           t == T[k].players
           w == W[k].players
<1>1. PartOf(t, s) /\ PartOf(w, t)
  OBVIOUS
<1>2. Len(s) \in Nat /\ Len(t) \in Nat /\ Len(w) \in Nat
  BY LobbyFields
<1> HIDE DEF s, t, w
<1>3. PICK f \in [1..Len(t) -> 1..Len(s)] :
        /\ \A m, n \in 1..Len(t) : f[m] = f[n] => m = n
        /\ \A n \in 1..Len(t) : t[n].entityID = s[f[n]].entityID
  BY <1>1 DEF PartOf
<1>4. PICK g \in [1..Len(w) -> 1..Len(t)] :
        /\ \A m, n \in 1..Len(w) : g[m] = g[n] => m = n
        /\ \A n \in 1..Len(w) : w[n].entityID = t[g[n]].entityID
  BY <1>1 DEF PartOf
<1> DEFINE h == [n \in 1..Len(w) |-> f[g[n]]]
<1>5. h \in [1..Len(w) -> 1..Len(s)]
  BY <1>3, <1>4
<1>6. \A m, n \in 1..Len(w) : h[m] = h[n] => m = n
  BY <1>3, <1>4
<1>7. \A n \in 1..Len(w) : w[n].entityID = s[h[n]].entityID
  BY <1>3, <1>4
<1>8. Len(w) <= Len(s)
  BY <1>1, <1>2 DEF PartOf
<1> HIDE DEF h
<1>9. PartOf(w, s)
  BY <1>5, <1>6, <1>7, <1>8 DEF PartOf
<1>10. QED BY <1>9 DEF s, w

\* Update leaves a part of the queue, whether its loop ends early or not.
LEMMA UpdateKeepsInv ==
  ASSUME LobbyInv, Update
  PROVE  LobbyInv'
<1> DEFINE gone == GoneFrom
           reached == Reached(gone)
           T == Ticked(reached)
           starting == {id \in reached : Elapsed(T[id])}
<1>1. UpdateTo(gone, T, starting) /\ UNCHANGED <<m_ActivityInfo, lobbies>>
  BY DEF Update
<1>2. /\ IsQueue(m_Queue) /\ started \in [1..MaxLobbies -> Nat]
      /\ DOMAIN m_Queue \subseteq 1..lobbies /\ lobbies \in 0..MaxLobbies /\ MaxLobbies \in Nat
  BY LobbyConstants DEF LobbyInv
<1>3. reached \subseteq DOMAIN m_Queue
  BY DEF Reached
<1>4. /\ QueuePart(T, m_Queue) /\ DOMAIN T = DOMAIN m_Queue
      /\ \A k \in DOMAIN m_Queue : started[k] = 0 /\ k \notin starting => T[k].timer > 0
  <2>1. CASE DOMAIN m_Queue = {}
    <3>1. DOMAIN T = {} /\ T \in [{} -> LobbyType]
      BY <2>1 DEF Ticked
    <3>2. QED BY <3>1, <2>1 DEF QueuePart, IsQueue
  <2>2. CASE DOMAIN m_Queue # {}
    BY <1>3, <2>2, TickedIsPart
  <2>3. QED BY <2>1, <2>2
<1> HIDE DEF gone, reached, T, starting
<1>5. started' = [id \in 1..MaxLobbies |-> IF id \in starting THEN started[id] + 1 ELSE started[id]]
  BY <1>1 DEF UpdateTo
<1>6. started' \in [1..MaxLobbies -> Nat]
  BY <1>2, <1>5
<1>7. \A k \in DOMAIN m_Queue : started'[k] = 0 => T[k].timer > 0
  <2> SUFFICES ASSUME NEW k \in DOMAIN m_Queue, started'[k] = 0 PROVE T[k].timer > 0
    OBVIOUS
  <2>1. k \in 1..MaxLobbies
    BY <1>2
  <2>2. started[k] \in Nat
    BY <1>2, <2>1
  <2>3. started[k] = 0 /\ k \notin starting
    BY <1>5, <2>1, <2>2
  <2>4. QED BY <1>4, <2>3
<1>8. IsQueue(T)
  BY <1>4 DEF QueuePart
<1>9. CASE gone = {}
  <2> DEFINE kept == {id \in DOMAIN m_Queue \ starting : m_Queue[id].players # <<>>}
  <2>1. m_Queue' = [id \in kept |-> T[id]]
    BY <1>1, <1>9 DEF UpdateTo
  <2>2. kept \subseteq DOMAIN m_Queue
    OBVIOUS
  <2> HIDE DEF kept
  <2>3. DOMAIN m_Queue' = kept /\ \A k \in kept : m_Queue'[k] = T[k] /\ T[k] \in LobbyType
    BY <1>4, <1>8, <2>1, <2>2 DEF IsQueue
  <2>4. m_Queue' \in [kept -> LobbyType]
    BY <2>1, <2>3
  <2>5. QueuePart(m_Queue', m_Queue)
    BY <1>2, <1>4, <2>2, <2>3, <2>4 DEF QueuePart, IsQueue
  <2>6. Waits(m_Queue', started')
    BY <1>7, <2>2, <2>3 DEF Waits
  <2>7. QED BY <1>1, <1>6, <2>5, <2>6, PartKeepsInv
<1>10. CASE gone # {}
  <2> DEFINE p == FirstGone(m_Queue[Min(gone)])
  <2>1. m_Queue' = WithoutPlayer(T, p)
    BY <1>1, <1>10 DEF UpdateTo
  <2>2. /\ QueuePart(m_Queue', T) /\ DOMAIN m_Queue' = DOMAIN T
        /\ \A k \in DOMAIN T : m_Queue'[k].timer = T[k].timer
    BY <1>8, <2>1, WithoutPlayerIsPart
  <2>3. QueuePart(m_Queue', m_Queue)
    BY <1>2, <1>4, <2>2, PartTransitive
  <2>4. Waits(m_Queue', started')
    BY <1>4, <1>7, <2>2 DEF Waits
  <2>5. QED BY <1>1, <1>6, <2>3, <2>4, PartKeepsInv
<1>11. QED BY <1>9, <1>10

\* A player who is in no lobby gets a place of his own in one that has room.
LEMMA PlaceGiven ==
  ASSUME LobbyInv, NEW p \in Players, ~ PlayerIsInQueue(p),
         NEW k \in DOMAIN m_Queue, RoomIn(m_Queue[k])
  PROVE  LET W == SetPlayers(m_Queue, k, Append(m_Queue[k].players, [entityID |-> p, ready |-> FALSE]))
         IN  /\ IsQueue(W) /\ DOMAIN W = DOMAIN m_Queue
             /\ HasRoom(W) /\ Distinct(W) /\ Waits(W, started)
<1> DEFINE Q == m_Queue
           s == Q[k].players
           player == [entityID |-> p, ready |-> FALSE]
           t == Append(s, player)
           W == SetPlayers(Q, k, t)
<1>1. /\ IsQueue(Q) /\ HasRoom(Q) /\ Distinct(Q) /\ Waits(Q, started)
      /\ m_ActivityInfo \in Activities
  BY DEF LobbyInv
<1>2. s \in Seq(LobbyPlayer) /\ Q[k].timer \in Int /\ Len(s) \in Nat
  BY <1>1, LobbyFields
<1>3. player \in LobbyPlayer /\ player.entityID = p
  BY DEF LobbyPlayer
<1>4. /\ t \in Seq(LobbyPlayer) /\ Len(t) = Len(s) + 1
      /\ t[Len(s) + 1] = player /\ \A n \in 1..Len(s) : t[n] = s[n]
  BY <1>2, <1>3
<1>5. \A j \in DOMAIN Q : \A n \in 1..Len(Q[j].players) : Q[j].players[n].entityID # p
  <2>1. \A j \in DOMAIN Q : DOMAIN Q[j].players = 1..Len(Q[j].players)
    BY <1>1, LobbyFields
  <2>2. QED BY <2>1 DEF PlayerIsInQueue, Holders, Holds
<1>6. Fits(Len(t))
  BY <1>1, <1>2, <1>4, InfoTypes DEF RoomIn, Size, Fits
<1> HIDE DEF t, player
<1>7. /\ W = [j \in DOMAIN Q |-> W[j]] /\ W[k] = [players |-> t, timer |-> Q[k].timer]
      /\ \A j \in DOMAIN Q : j # k => W[j] = Q[j]
  BY DEF SetPlayers
<1>8. W[k].players = t /\ W[k].timer = Q[k].timer /\ W[k] \in LobbyType
  BY <1>2, <1>4, <1>7 DEF LobbyType
<1> HIDE DEF W
<1>9. \A j \in DOMAIN Q : W[j] \in LobbyType
  BY <1>1, <1>7, <1>8 DEF IsQueue
<1>10. DOMAIN W = DOMAIN Q
  BY <1>7
<1>11. W \in [DOMAIN W -> LobbyType]
  BY <1>7, <1>9, <1>10
<1>12. IsQueue(W)
  BY <1>1, <1>10, <1>11 DEF IsQueue
<1>13. HasRoom(W)
  BY <1>1, <1>6, <1>7, <1>8, <1>10 DEF HasRoom
<1>14. Waits(W, started)
  BY <1>1, <1>7, <1>8, <1>10 DEF Waits
<1>15. Distinct(W)
  <2> DEFINE new(j, m) == j = k /\ m = Len(s) + 1
  <2>1. ASSUME NEW j \in DOMAIN Q, NEW m \in 1..Len(W[j].players)
        PROVE  \/ new(j, m) /\ W[j].players[m].entityID = p
               \/ ~ new(j, m) /\ m \in 1..Len(Q[j].players) /\ W[j].players[m] = Q[j].players[m]
    <3>1. CASE j = k
      BY <1>2, <1>3, <1>4, <1>8, <3>1
    <3>2. CASE j # k
      BY <1>7, <3>2
    <3>3. QED BY <3>1, <3>2
  <2> HIDE DEF new, W
  <2> SUFFICES ASSUME NEW j \in DOMAIN Q, NEW i \in DOMAIN Q,
                      NEW m \in 1..Len(W[j].players), NEW n \in 1..Len(W[i].players),
                      W[j].players[m].entityID = W[i].players[n].entityID
               PROVE  j = i /\ m = n
    BY <1>10 DEF Distinct
  <2>2. CASE new(j, m) /\ new(i, n)
    BY <2>2 DEF new
  <2>3. CASE new(j, m) /\ ~ new(i, n)
    BY SMTT(60), <2>1, <2>3, <1>5
  <2>4. CASE ~ new(j, m) /\ new(i, n)
    BY SMTT(60), <2>1, <2>4, <1>5
  <2>5. CASE ~ new(j, m) /\ ~ new(i, n)
    <3>1. /\ m \in 1..Len(Q[j].players) /\ W[j].players[m] = Q[j].players[m]
          /\ n \in 1..Len(Q[i].players) /\ W[i].players[n] = Q[i].players[n]
      BY <2>1, <2>5
    <3>2. QED BY <1>1, <3>1 DEF Distinct
  <2>6. QED BY <2>2, <2>3, <2>4, <2>5
<1>16. QED BY <1>10, <1>12, <1>13, <1>14, <1>15 DEF W, t, player

\* A new lobby has one player and waits.
LEMMA LobbyOpened ==
  ASSUME LobbyInv, NEW p \in Players, ~ PlayerIsInQueue(p), m_ActivityInfo.hasLobby,
         NEW W, NEW new \in Nat, new \notin DOMAIN m_Queue,
         W = [id \in DOMAIN m_Queue \cup {new} |->
                IF id \in DOMAIN m_Queue THEN m_Queue[id]
                ELSE NewLobby([entityID |-> p, ready |-> FALSE])]
  PROVE  IsQueue(W) /\ HasRoom(W) /\ Distinct(W) /\ Waits(W, started)
<1> DEFINE Q == m_Queue
           player == [entityID |-> p, ready |-> FALSE]
           t == <<player>>
<1>1. /\ IsQueue(Q) /\ HasRoom(Q) /\ Distinct(Q) /\ Waits(Q, started)
      /\ m_ActivityInfo \in Activities
  BY DEF LobbyInv
<1>2. player \in LobbyPlayer /\ player.entityID = p
  BY DEF LobbyPlayer
<1>3. /\ t \in Seq(LobbyPlayer) /\ Len(t) = 1 /\ t[1] = player
      /\ m_ActivityInfo.waitTime \in Nat /\ m_ActivityInfo.waitTime > 0 /\ Fits(1)
  BY <1>1, <1>2, InfoTypes DEF Fits
<1>4. /\ W[new] = [players |-> t, timer |-> m_ActivityInfo.waitTime]
      /\ \A id \in DOMAIN Q : W[id] = Q[id]
      /\ DOMAIN W = DOMAIN Q \cup {new}
  BY DEF NewLobby
<1> HIDE DEF t, player
<1>5. W[new].players = t /\ W[new].timer > 0 /\ W[new] \in LobbyType
  BY <1>3, <1>4 DEF LobbyType
<1>6. \A id \in DOMAIN W : W[id] \in LobbyType
  BY <1>1, <1>4, <1>5 DEF IsQueue
<1>7. W \in [DOMAIN W -> LobbyType]
  BY <1>6
<1>8. IsQueue(W)
  BY <1>1, <1>4, <1>7 DEF IsQueue
<1>9. HasRoom(W) /\ Waits(W, started)
  BY <1>1, <1>3, <1>4, <1>5 DEF HasRoom, Waits
<1>10. \A j \in DOMAIN Q : \A n \in 1..Len(Q[j].players) : Q[j].players[n].entityID # p
  <2>1. \A j \in DOMAIN Q : DOMAIN Q[j].players = 1..Len(Q[j].players)
    BY <1>1, LobbyFields
  <2>2. QED BY <2>1 DEF PlayerIsInQueue, Holders, Holds
<1>11. \A m \in 1..Len(W[new].players) : m = 1 /\ W[new].players[m].entityID = p
  <2>1. Len(W[new].players) = 1 /\ W[new].players[1] = player
    BY <1>3, <1>5
  <2>2. W[new].players[1].entityID = p
    BY <1>2, <2>1
  <2>3. 1..1 = {1}
    OBVIOUS
  <2>4. QED BY <2>1, <2>2, <2>3, Zenon
<1>12. Distinct(W)
  <2> SUFFICES ASSUME NEW j \in DOMAIN W, NEW i \in DOMAIN W,
                      NEW m \in 1..Len(W[j].players), NEW n \in 1..Len(W[i].players),
                      W[j].players[m].entityID = W[i].players[n].entityID
               PROVE  j = i /\ m = n
    BY DEF Distinct
  <2>1. CASE j = new /\ i = new
    BY <2>1, <1>11
  <2>2. CASE j = new /\ i # new
    <3>1. i \in DOMAIN Q /\ W[i] = Q[i]
      BY <2>2, <1>4
    <3>2. W[i].players[n].entityID # p /\ W[j].players[m].entityID = p
      BY <2>2, <3>1, <1>10, <1>11
    <3>3. QED BY <3>2
  <2>3. CASE j # new /\ i = new
    <3>1. j \in DOMAIN Q /\ W[j] = Q[j]
      BY <2>3, <1>4
    <3>2. W[j].players[m].entityID # p /\ W[i].players[n].entityID = p
      BY <2>3, <3>1, <1>10, <1>11
    <3>3. QED BY <3>2
  <2>4. CASE j # new /\ i # new
    <3>1. j \in DOMAIN Q /\ i \in DOMAIN Q /\ W[j] = Q[j] /\ W[i] = Q[i]
      BY <2>4, <1>4
    <3>2. QED BY <3>1, <1>1 DEF Distinct
  <2>5. QED BY <2>1, <2>2, <2>3, <2>4
<1>13. QED BY <1>8, <1>9, <1>12

\* PlayerJoin.
LEMMA PlayerJoinKeepsInv ==
  ASSUME LobbyInv, NEW p \in Players, PlayerJoin(p)
  PROVE  LobbyInv'
<1> DEFINE player == [entityID |-> p, ready |-> FALSE]
           open   == {id \in DOMAIN m_Queue : RoomIn(m_Queue[id])}
<1>1. /\ ~ PlayerIsInQueue(p) /\ UNCHANGED <<m_ActivityInfo, started>>
      /\ \/ m_ActivityInfo.hasLobby /\ PlayerJoinLobby(p)
         \/ UNCHANGED <<m_Queue, lobbies>>
  BY DEF PlayerJoin
<1>2. /\ m_ActivityInfo \in Activities /\ started \in [1..MaxLobbies -> Nat]
      /\ lobbies \in 0..MaxLobbies /\ MaxLobbies \in Nat /\ DOMAIN m_Queue \subseteq 1..lobbies
  BY LobbyConstants DEF LobbyInv
<1>3. ASSUME lobbies' \in 0..MaxLobbies, DOMAIN m_Queue' \subseteq 1..lobbies',
             DOMAIN m_Queue' # {} => m_ActivityInfo.hasLobby,
             IsQueue(m_Queue'), HasRoom(m_Queue'), Distinct(m_Queue'), Waits(m_Queue', started)
      PROVE  LobbyInv'
  <2>1. /\ HasRoom(m_Queue)' /\ Distinct(m_Queue)'
        /\ IsQueue(m_Queue)' /\ Waits(m_Queue, started)'
    BY <1>1, <1>3 DEF HasRoom, Fits, Distinct, IsQueue, Waits
  <2>2. QED BY <1>1, <1>2, <1>3, <2>1 DEF LobbyInv
<1>4. CASE UNCHANGED <<m_Queue, lobbies>>
  BY <1>2, <1>3, <1>4 DEF LobbyInv
<1>5. CASE /\ m_ActivityInfo.hasLobby /\ open # {} /\ UNCHANGED lobbies
           /\ m_Queue' = SetPlayers(m_Queue, Min(open), Append(m_Queue[Min(open)].players, player))
  <2>1. open # {} /\ open \in SUBSET Nat
    BY <1>2, <1>5
  <2>2. Min(open) \in open
    BY <2>1, LeastExists DEF Min
  <2>3. Min(open) \in DOMAIN m_Queue /\ RoomIn(m_Queue[Min(open)])
    BY <2>2
  <2> HIDE DEF open
  <2>4. /\ IsQueue(m_Queue') /\ DOMAIN m_Queue' = DOMAIN m_Queue
        /\ HasRoom(m_Queue') /\ Distinct(m_Queue') /\ Waits(m_Queue', started)
    BY <1>1, <1>5, <2>3, PlaceGiven
  <2>5. QED BY <1>2, <1>3, <1>5, <2>4
<1>6. CASE /\ m_ActivityInfo.hasLobby /\ lobbies < MaxLobbies /\ lobbies' = lobbies + 1
           /\ m_Queue' = [id \in DOMAIN m_Queue \cup {GenerateObjectID} |->
                IF id \in DOMAIN m_Queue THEN m_Queue[id] ELSE NewLobby(player)]
  <2>1. GenerateObjectID \in Nat /\ GenerateObjectID = lobbies' /\ GenerateObjectID \notin DOMAIN m_Queue
    BY <1>2, <1>6 DEF GenerateObjectID
  <2>2. IsQueue(m_Queue') /\ HasRoom(m_Queue') /\ Distinct(m_Queue') /\ Waits(m_Queue', started)
    BY <1>1, <1>6, <2>1, LobbyOpened
  <2>3. DOMAIN m_Queue' = DOMAIN m_Queue \cup {GenerateObjectID}
    BY <1>6
  <2>4. lobbies' \in 0..MaxLobbies /\ DOMAIN m_Queue' \subseteq 1..lobbies'
    BY <1>2, <1>6, <2>1, <2>3
  <2>5. QED BY <1>3, <1>6, <2>2, <2>4
<1>7. QED BY <1>1, <1>4, <1>5, <1>6 DEF PlayerJoinLobby

\* The queue keeps its invariant whatever comes.
LEMMA LobbyInductive == LobbyInv /\ [Next]_vars => LobbyInv'
<1> SUFFICES ASSUME LobbyInv, [Next]_vars PROVE LobbyInv'
  OBVIOUS
<1>1. ASSUME UNCHANGED <<m_ActivityInfo, m_Queue, lobbies, started>> PROVE LobbyInv'
  BY <1>1 DEF LobbyInv, IsQueue, HasRoom, Fits, Distinct, Waits
<1>2. ASSUME NEW p \in Players, PlayerArrives(p) \/ PlayerDeparts(p) \/ PlayerRemove(p)
      PROVE  LobbyInv'
  BY <1>1, <1>2 DEF PlayerArrives, PlayerDeparts, PlayerRemove
<1>3. ASSUME NEW p \in Players, PlayerJoin(p) PROVE LobbyInv'
  BY <1>3, PlayerJoinKeepsInv
<1>4. ASSUME NEW p \in Players, PlayerLeave(p) PROVE LobbyInv'
  BY <1>4, PlayerLeaveKeepsInv
<1>5. ASSUME NEW p \in Players, NEW bReady \in BOOLEAN, PlayerReady(p, bReady) PROVE LobbyInv'
  BY <1>5, PlayerReadyKeepsInv
<1>6. CASE Update
  BY <1>6, UpdateKeepsInv
<1>7. CASE UNCHANGED vars
  BY <1>1, <1>7 DEF vars
<1>8. QED BY <1>2, <1>3, <1>4, <1>5, <1>6, <1>7 DEF Next

LEMMA LobbyInvariant == Spec => []LobbyInv
BY InitLobby, LobbyInductive, PTL DEF Spec

-----------------------------------------------------------------------------
(* The instances *)

InstancesInv ==
  /\ m_Instances \in Seq(SUBSET Players)
  /\ present \subseteq Players
  /\ moves \in 0..MaxMoves
  /\ OneInstancePerPlayer

\* The instances that Update starts have players of the component in them.
LEMMA NewInstancesType ==
  ASSUME NEW Q, NEW S, IsFiniteSet(S), NEW payers, present \subseteq Players
  PROVE  NewInstances(Q, S, payers) \in Seq(SUBSET Players)
<1>1. Cardinality(S) \in Nat
  BY FS_CardinalityType
<1>2. \A n \in 1..Cardinality(S) : Participants(Q[NthOf(S, n)], payers) \in SUBSET Players
  BY DEF Participants
<1>3. QED BY <1>1, <1>2 DEF NewInstances

\* PlayerRemove takes a player out of an instance, and the instance away with the
\* last of its players in the world: no two instances share more than they did.
LEMMA PlayerRemoveKeepsInstances ==
  ASSUME InstancesInv, NEW p \in Players, PlayerRemove(p)
  PROVE  InstancesInv'
<1> DEFINE with == {i \in DOMAIN m_Instances : p \in m_Instances[i]}
           k    == Min(with)
           rest == m_Instances[k] \ {p}
<1>1. m_Instances \in Seq(SUBSET Players) /\ present \subseteq Players /\ moves \in 0..MaxMoves
  BY DEF InstancesInv
<1>2. /\ m_Instances' = IF rest \cap present = {} THEN RemoveAt(m_Instances, k)
                        ELSE [m_Instances EXCEPT ![k] = rest]
      /\ UNCHANGED <<m_ActivityInfo, present, moves>>
  BY DEF PlayerRemove
<1>3. k \in 1..Len(m_Instances)
  <2>1. with # {}
    BY DEF PlayerRemove, IsPlayedBy
  <2>2. with \in SUBSET (1..Len(m_Instances)) /\ Len(m_Instances) \in Nat
    BY <1>1
  <2> HIDE DEF with
  <2>3. QED BY <2>1, <2>2, MinIsMember
<1> HIDE DEF k
<1>4. rest \in SUBSET Players /\ rest \subseteq m_Instances[k]
  BY <1>1, <1>3
<1> HIDE DEF rest
<1>5. CASE rest \cap present = {}
  <2>1. /\ m_Instances' \in Seq(SUBSET Players) /\ Len(m_Instances') = Len(m_Instances) - 1
        /\ \A j \in 1..Len(m_Instances) - 1 :
             m_Instances'[j] = IF j < k THEN m_Instances[j] ELSE m_Instances[j+1]
    BY <1>1, <1>2, <1>3, <1>5, RemoveAtProperties
  <2>2. ASSUME ~ m_ActivityInfo.hasLobby, NEW i \in DOMAIN m_Instances', NEW j \in DOMAIN m_Instances',
               m_Instances'[i] \cap m_Instances'[j] # {}
        PROVE  i = j
    <3> DEFINE old(n) == IF n < k THEN n ELSE n + 1
    <3>1. i \in 1..Len(m_Instances) - 1 /\ j \in 1..Len(m_Instances) - 1
      BY <2>1
    <3>2. /\ old(i) \in DOMAIN m_Instances /\ m_Instances'[i] = m_Instances[old(i)]
          /\ old(j) \in DOMAIN m_Instances /\ m_Instances'[j] = m_Instances[old(j)]
      <4>1. ASSUME NEW n \in 1..Len(m_Instances) - 1
            PROVE  old(n) \in 1..Len(m_Instances) /\ m_Instances'[n] = m_Instances[old(n)]
        BY <1>1, <1>3, <2>1, <4>1
      <4>2. DOMAIN m_Instances = 1..Len(m_Instances)
        BY <1>1
      <4> HIDE DEF old
      <4>3. QED BY <3>1, <4>1, <4>2
    <3>3. old(i) = old(j)
      <4> HIDE DEF old
      <4>1. QED BY <2>2, <3>2 DEF InstancesInv, OneInstancePerPlayer
    <3>4. QED BY <1>3, <3>1, <3>3
  <2>3. QED BY <1>1, <1>2, <2>1, <2>2 DEF InstancesInv, OneInstancePerPlayer
<1>6. CASE rest \cap present # {}
  <2>1. m_Instances' = [m_Instances EXCEPT ![k] = rest]
    BY <1>2, <1>6
  <2>2. m_Instances' \in Seq(SUBSET Players) /\ DOMAIN m_Instances' = DOMAIN m_Instances
    BY <1>1, <1>3, <1>4, <2>1, UpdateType
  <2>3. \A j \in DOMAIN m_Instances : m_Instances'[j] \subseteq m_Instances[j]
    BY <1>1, <1>4, <2>1
  <2>4. QED BY <1>1, <1>2, <2>2, <2>3 DEF InstancesInv, OneInstancePerPlayer
<1>7. QED BY <1>5, <1>6

\* PlayerJoin: an instance on the spot is for a player whom no other instance
\* lists, as he is in the world.
LEMMA PlayerJoinKeepsInstances ==
  ASSUME InstancesInv, NEW p \in Players, PlayerJoin(p)
  PROVE  InstancesInv'
<1>1. m_Instances \in Seq(SUBSET Players) /\ present \subseteq Players /\ moves \in 0..MaxMoves
  BY DEF InstancesInv
<1>2. UNCHANGED <<m_ActivityInfo, present, moves>> /\ p \in present
  BY DEF PlayerJoin
<1>3. CASE UNCHANGED m_Instances
  BY <1>2, <1>3 DEF InstancesInv, OneInstancePerPlayer
<1>4. CASE ~ IsPlayedBy(p) /\ m_Instances' = Append(m_Instances, {p})
  <2>1. \A k \in DOMAIN m_Instances : p \notin m_Instances[k]
    BY <1>2, <1>4 DEF IsPlayedBy
  <2>2. /\ m_Instances' \in Seq(SUBSET Players) /\ Len(m_Instances') = Len(m_Instances) + 1
        /\ m_Instances'[Len(m_Instances) + 1] = {p}
        /\ \A k \in 1..Len(m_Instances) : m_Instances'[k] = m_Instances[k]
    BY <1>1, <1>4
  <2>3. ASSUME ~ m_ActivityInfo.hasLobby, NEW i \in DOMAIN m_Instances', NEW j \in DOMAIN m_Instances',
               m_Instances'[i] \cap m_Instances'[j] # {}
        PROVE  i = j
    <3> DEFINE n == Len(m_Instances)
    <3>1. /\ i \in 1..n \/ i = n + 1
          /\ j \in 1..n \/ j = n + 1
          /\ DOMAIN m_Instances = 1..n
      BY <1>1, <2>2
    <3>2. CASE i \in 1..n /\ j \in 1..n
      BY <2>2, <2>3, <3>1, <3>2 DEF InstancesInv, OneInstancePerPlayer
    <3>3. CASE i \in 1..n /\ j = n + 1
      BY <2>1, <2>2, <2>3, <3>1, <3>3
    <3>4. CASE i = n + 1 /\ j \in 1..n
      BY <2>1, <2>2, <2>3, <3>1, <3>4
    <3>5. QED BY <3>1, <3>2, <3>3, <3>4
  <2>4. QED BY <1>1, <1>2, <2>2, <2>3 DEF InstancesInv, OneInstancePerPlayer
<1>5. QED BY <1>3, <1>4 DEF PlayerJoin

\* Update starts instances only where there is a lobby.
LEMMA UpdateKeepsInstances ==
  ASSUME LobbyInv, InstancesInv, Update
  PROVE  InstancesInv'
<1> DEFINE gone == GoneFrom
           reached == Reached(gone)
           T == Ticked(reached)
           starting == {id \in reached : Elapsed(T[id])}
<1>1. UpdateTo(gone, T, starting) /\ UNCHANGED <<m_ActivityInfo, present, moves>> /\ m_Queue # <<>>
  BY DEF Update
<1>2. /\ m_Instances \in Seq(SUBSET Players) /\ present \subseteq Players /\ moves \in 0..MaxMoves
  BY DEF InstancesInv
<1>3. m_ActivityInfo.hasLobby
  <2>1. DOMAIN m_Queue # {}
    <3>1. m_Queue \in [DOMAIN m_Queue -> LobbyType]
      BY DEF LobbyInv, IsQueue
    <3>2. ASSUME DOMAIN m_Queue = {} PROVE m_Queue = <<>>
      <4>1. m_Queue \in [{} -> LobbyType]
        BY <3>1, <3>2
      <4>2. <<>> \in [{} -> LobbyType]
        OBVIOUS
      <4>3. QED BY <4>1, <4>2
    <3>3. QED BY <1>1, <3>2
  <2>2. QED BY <2>1 DEF LobbyInv
<1>4. IsFiniteSet(starting)
  <2>1. starting \subseteq 1..lobbies /\ lobbies \in Int
    BY LobbyConstants DEF LobbyInv, Reached
  <2> HIDE DEF starting
  <2>2. IsFiniteSet(1..lobbies)
    BY <2>1, FS_Interval
  <2>3. QED BY <2>1, <2>2, FS_Subset
<1> HIDE DEF gone, T, starting
<1>5. PICK payers : m_Instances' = m_Instances \o NewInstances(T, starting, payers)
  BY <1>1 DEF UpdateTo
<1>6. NewInstances(T, starting, payers) \in Seq(SUBSET Players)
  BY <1>2, <1>4, NewInstancesType
<1>7. m_Instances' \in Seq(SUBSET Players)
  BY <1>2, <1>5, <1>6
<1>8. QED BY <1>1, <1>2, <1>3, <1>7 DEF InstancesInv, OneInstancePerPlayer

\* The instances keep their invariant beside that of the queue.
LEMMA InstancesInvariant == Spec => []InstancesInv
<1>1. Init => InstancesInv
  BY LobbyConstants DEF Init, InstancesInv, OneInstancePerPlayer
<1>2. LobbyInv /\ InstancesInv /\ [Next]_vars => InstancesInv'
  <2> SUFFICES ASSUME LobbyInv, InstancesInv, [Next]_vars PROVE InstancesInv'
    OBVIOUS
  <2>1. ASSUME UNCHANGED <<m_ActivityInfo, m_Instances, present, moves>> PROVE InstancesInv'
    BY <2>1 DEF InstancesInv, OneInstancePerPlayer
  <2>2. ASSUME NEW p \in Players, PlayerArrives(p) \/ PlayerDeparts(p) PROVE InstancesInv'
    <3>1. moves' \in 0..MaxMoves /\ present' \subseteq Players
      BY <2>2, LobbyConstants DEF PlayerArrives, PlayerDeparts, InstancesInv
    <3>2. QED BY <2>2, <3>1 DEF PlayerArrives, PlayerDeparts, InstancesInv, OneInstancePerPlayer
  <2>3. ASSUME NEW p \in Players, PlayerJoin(p) PROVE InstancesInv'
    BY <2>3, PlayerJoinKeepsInstances
  <2>4. ASSUME NEW p \in Players, PlayerLeave(p) PROVE InstancesInv'
    BY <2>1, <2>4 DEF PlayerLeave
  <2>5. ASSUME NEW p \in Players, PlayerRemove(p) PROVE InstancesInv'
    BY <2>5, PlayerRemoveKeepsInstances
  <2>6. ASSUME NEW p \in Players, NEW bReady \in BOOLEAN, PlayerReady(p, bReady) PROVE InstancesInv'
    BY <2>1, <2>6 DEF PlayerReady
  <2>7. CASE Update
    BY <2>7, UpdateKeepsInstances
  <2>8. CASE UNCHANGED vars
    BY <2>1, <2>8 DEF vars
  <2>9. QED BY <2>2, <2>3, <2>4, <2>5, <2>6, <2>7, <2>8 DEF Next
<1>3. QED BY <1>1, <1>2, LobbyInvariant, PTL DEF Spec

\* No message starts a lobby.
LEMMA OnlyUpdateStarts == [Next]_vars => Update \/ UNCHANGED started
<1>1. ASSUME NEW p \in Players,
             \/ PlayerArrives(p) \/ PlayerDeparts(p) \/ PlayerJoin(p)
             \/ PlayerLeave(p) \/ PlayerRemove(p)
      PROVE  UNCHANGED started
  BY <1>1 DEF PlayerArrives, PlayerDeparts, PlayerJoin, PlayerLeave, PlayerRemove
<1>2. ASSUME NEW p \in Players, NEW bReady \in BOOLEAN, PlayerReady(p, bReady)
      PROVE  UNCHANGED started
  BY <1>2 DEF PlayerReady
<1>3. UNCHANGED vars => UNCHANGED started
  BY DEF vars
<1>4. QED BY <1>1, <1>2, <1>3 DEF Next

\* Whoever joins, leaves, goes and comes back, no lobby takes more players than
\* the activity has places for (ActivityComponent::PlayerJoinLobby, Update).
THEOREM LobbiesKeepRoom == Spec => []LobbiesHaveRoom
<1>1. LobbyInv => LobbiesHaveRoom
  BY DEF LobbyInv, HasRoom, Fits, LobbiesHaveRoom, Size
<1>2. QED BY <1>1, LobbyInvariant, PTL

\* A player never waits in two lobbies, or twice in one: the guard of PlayerJoin
\* and what PlayerLeave and Update take away keep his places single.
THEOREM PlacesStaySingle == Spec => []OnePlacePerPlayer
<1>1. ASSUME LobbyInv PROVE OnePlacePerPlayer
  <2>1. IsQueue(m_Queue) /\ Distinct(m_Queue)
    BY <1>1 DEF LobbyInv
  <2>2. \A k \in DOMAIN m_Queue : DOMAIN m_Queue[k].players = 1..Len(m_Queue[k].players)
    BY <2>1, LobbyFields
  <2>3. QED BY <2>1, <2>2 DEF Distinct, OnePlacePerPlayer
<1>2. QED BY <1>1, LobbyInvariant, PTL

\* A lobby does not start for the first time with too few players, although its
\* timer stands still, jumps and runs on (ActivityComponent::Update).
THEOREM FirstStartsHaveEnough == Spec => FirstStartHasEnough
<1> DEFINE Start == \A id \in DOMAIN m_Queue : started[id] = 0 /\ started'[id] > 0 => Enough(m_Queue[id])
<1>1. ASSUME LobbyInv, [Next]_vars PROVE [Start]_vars
  <2> SUFFICES ASSUME NEW id \in DOMAIN m_Queue, started[id] = 0, started'[id] > 0
               PROVE  Enough(m_Queue[id])
    OBVIOUS
  <2>1. /\ m_ActivityInfo \in Activities /\ m_ActivityInfo.hasLobby /\ IsQueue(m_Queue)
        /\ m_Queue[id].timer > 0 /\ id \in 1..MaxLobbies
    BY <1>1, LobbyConstants DEF LobbyInv, Waits
  <2>2. Update
    <3>1. started' # started
      OBVIOUS
    <3>2. QED BY <1>1, <3>1, OnlyUpdateStarts
  <2> DEFINE reached == Reached(GoneFrom)
             T == Ticked(reached)
             starting == {i \in reached : Elapsed(T[i])}
  <2>3. UpdateTo(GoneFrom, T, starting)
    BY <2>2 DEF Update
  <2>4. id \in reached /\ Elapsed(T[id])
    BY <2>1, <2>3 DEF UpdateTo
  <2>5. T[id] = Tick(m_Queue[id])
    BY <2>4 DEF Ticked
  <2>6. m_Queue[id] \in LobbyType
    BY <2>1, LobbyFields
  <2>7. Tick(m_Queue[id]) \in LobbyType /\ Tick(m_Queue[id]).timer <= 0
    BY <2>1, <2>4, <2>5, <2>6, TickProperties DEF Elapsed
  <2>8. Tick(m_Queue[id]).timer \in Int
    BY <2>7 DEF LobbyType
  <2>9. QED BY <2>1, <2>6, <2>7, <2>8, TickProperties
<1>2. QED BY <1>1, LobbyInvariant, PTL DEF Spec, FirstStartHasEnough

\* The variables keep their types, the instances that lobbies start and those
\* made without one too.
THEOREM TypeCorrect == Spec => []TypeOK
<1>1. LobbyInv /\ InstancesInv => TypeOK
  BY DEF LobbyInv, IsQueue, InstancesInv, TypeOK
<1>2. QED BY <1>1, LobbyInvariant, InstancesInvariant, PTL

\* Without a lobby, a player is listed in one instance at a time, however often he
\* joins, is removed, leaves the world and comes back: PlayerJoin asks the instances
\* of who is in the world, and who joins is in the world.
THEOREM InstancesStayApart == Spec => []OneInstancePerPlayer
<1>1. InstancesInv => OneInstancePerPlayer
  BY DEF InstancesInv
<1>2. QED BY <1>1, InstancesInvariant, PTL
=============================================================================
