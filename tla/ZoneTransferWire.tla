------------------------- MODULE ZoneTransferWire --------------------------
(***************************************************************************)
(* What the master and the worlds know of each other, for every value of   *)
(* the constants.  LinkedInv says, of every instance of the table, what    *)
(* its process has told the master and what is still on the wire: from it  *)
(* follow the invariants about the lists of requests, the affirmations and *)
(* the client counts.  AnswersInv adds where the answers to the servers    *)
(* come from, GrantsInv which callbacks still wait; with them every step   *)
(* is one of TransferService, or none.  SteadyInv is of runs without the   *)
(* failures that Calm excludes: an instance that is not ready will be; so  *)
(* no request is forgotten.  MetInv is of runs in which connections last:  *)
(* a world is in the table, with its address, once it has introduced       *)
(* itself and until it is told to end.                                     *)
(***************************************************************************)
EXTENDS ZoneTransferProofs

-----------------------------------------------------------------------------
(* What is on the wire *)

OfKind(kind) == {m \in ToMasterMsg : m.kind = kind}
Answers(id)   == {m \in ToMasterMsg : m.kind = "AFFIRM_TRANSFER_RESPONSE" /\ m.id = id}
Questions(id) == {m \in ToWorldMsg : m.kind = "AFFIRM_TRANSFER_REQUEST" /\ m.id = id}
OfId(id)      == {r \in Pending : r.id = id}

\* Affirmations on the way to and from a world, and how many more players the
\* packets on the way report than the world has.
Traffic(w, id) == Count(w.in, Questions(id)) + Count(w.out, Answers(id))
Balance(w) ==
  Count(w.out, OfKind("PLAYER_ADDED")) - Count(w.out, OfKind("PLAYER_REMOVED")) - w.players

IsEnd(m) == m.kind \in {"DISCONNECTED", "CONNECTION_LOST"}

AnnouncesReady(q) == \E n \in 1..Len(q) : q[n].kind = "WORLD_READY"

Unfinished(w) == ~ w.ready \/ AnnouncesReady(w.out)

\* WORLD_READY is sent once, and first of all but SERVER_INFO.
ReadyFirst(q) ==
  \A n \in 1..Len(q) : q[n].kind = "WORLD_READY" =>
    n = 1 \/ (n = 2 /\ q[1].kind = "SERVER_INFO")

\* What holds of the connection of every world.
Conn(w) ==
  /\ ~ w.ready => w.out = <<>> /\ w.in = <<>> /\ ~ w.connected /\ w.players = 0
  /\ w.in # <<>> => w.connected
  /\ ~ w.connected => w.out = <<>> \/ IsEnd(w.out[Len(w.out)])
  /\ ReadyFirst(w.out)
  /\ AnnouncesReady(w.out) =>
       /\ \A id \in 1..MaxRequests : Traffic(w, id) = 0
       /\ Ending(w.out) \/ Balance(w) >= 0

Waits(i, id) == Count(i.pendingAffirmations, OfId(id))

Asked(i, w)   == \A id \in 1..MaxRequests : Waits(i, id) = Traffic(w, id)
Counted(i, w) == IsPrivate(i) \/ i.shuttingDown \/ i.clients + Balance(w) >= 0

NothingParked(i) == i.pendingRequests = <<>> /\ i.pendingAffirmations = <<>>

\* What holds of an instance and its world; down: the master is shutting down.
Suits(i, w, down) ==
  /\ i.port = w.port /\ i.zone.map = w.zone.map
  /\ i.sysAddr \in {Unassigned, i.id}
  /\ i.ready => i.sysAddr = i.id /\ ~ Unfinished(w) /\ i.pendingRequests = <<>>
  /\ ~ i.ready => i.pendingAffirmations = <<>>
  /\ i.sysAddr = i.id /\ ~ w.connected => Ending(w.out)
  /\ ~ i.shutdownComplete
  /\ w.out # <<>> /\ w.out[1].kind = "WORLD_READY" => i.sysAddr = i.id \/ i.shuttingDown
  /\ \/ i.zone = w.zone
     \/ ~ i.ready /\ ~ Unfinished(w)
     \/ down /\ NothingParked(i)
  /\ i.ready => Ending(w.out) \/ (Asked(i, w) /\ Counted(i, w))

\* A step of a world after which what suited it suits it still.
Carries(w, v) ==
  /\ v.zone = w.zone /\ v.port = w.port
  /\ Unfinished(v) => Unfinished(w)
  /\ Ending(w.out) => Ending(v.out)
  /\ ~ v.connected => ~ w.connected \/ Ending(v.out)
  /\ v.out # <<>> /\ v.out[1].kind = "WORLD_READY" => w.out # <<>> /\ w.out[1].kind = "WORLD_READY"
  /\ ~ Unfinished(w) =>
       \/ Ending(v.out)
       \/ (\A id \in 1..MaxRequests : Traffic(v, id) = Traffic(w, id)) /\ Balance(v) >= Balance(w)

\* What Conn says of the counts of a world.
LEMMA Amounts ==
  ASSUME NEW w \in World
  PROVE  Balance(w) \in Int /\ \A id : Traffic(w, id) \in Nat
<1>1. w.out \in Seq(ToMasterMsg) /\ w.in \in Seq(ToWorldMsg) /\ w.players \in Nat
  BY WorldFields
<1>2. \A S : Count(w.out, S) \in Nat /\ Count(w.in, S) \in Nat
  BY <1>1, CountType
<1>3. QED BY <1>1, <1>2 DEF Balance, Traffic

\* Carries is made for this.
LEMMA SuitsStill ==
  ASSUME NEW i \in Instance, NEW w \in World, NEW v \in World, NEW down,
         Suits(i, w, down), Carries(w, v)
  PROVE  Suits(i, v, down)
<1>0. Balance(w) \in Int /\ Balance(v) \in Int /\ i.clients \in Nat
  BY Amounts DEF Instance
<1>1. i.ready => ~ Unfinished(w) /\ ~ Unfinished(v)
  BY DEF Suits, Carries
<1>2. ASSUME i.ready, ~ Ending(v.out) PROVE Asked(i, v) /\ Counted(i, v)
  <2>1. ~ Ending(w.out) /\ Asked(i, w) /\ Counted(i, w)
    BY <1>2 DEF Suits, Carries
  <2>2. (\A id \in 1..MaxRequests : Traffic(v, id) = Traffic(w, id)) /\ Balance(v) >= Balance(w)
    BY <1>1, <1>2 DEF Carries
  <2>3. Asked(i, v)
    BY <2>1, <2>2 DEF Asked
  <2>4. Counted(i, v)
    BY <1>0, <2>1, <2>2 DEF Counted
  <2>5. QED BY <2>3, <2>4
<1>3. i.sysAddr = i.id /\ ~ v.connected => Ending(v.out)
  BY DEF Suits, Carries
<1>4. \/ i.zone = v.zone
      \/ ~ i.ready /\ ~ Unfinished(v)
      \/ down /\ NothingParked(i)
  BY DEF Suits, Carries
<1>5. /\ i.port = v.port /\ i.zone.map = v.zone.map
      /\ ~ i.shutdownComplete
      /\ v.out # <<>> /\ v.out[1].kind = "WORLD_READY" => i.sysAddr = i.id \/ i.shuttingDown
  BY DEF Suits, Carries
<1>6. QED BY <1>1, <1>2, <1>3, <1>4, <1>5 DEF Suits

\* The kinds of packets there are.
LEMMA Kinds ==
  /\ \A kind : Msg(kind).kind = kind
  /\ \A kind, id : IdMsg(kind, id).kind = kind /\ IdMsg(kind, id).id = id
BY DEF Msg, IdMsg

\* How a packet of a world changes what is on the way.
LEMMA CountsAfterSend ==
  ASSUME NEW q \in Seq(ToMasterMsg), NEW m \in ToMasterMsg
  PROVE  /\ \A id : Count(Append(q, m), Answers(id)) =
                      Count(q, Answers(id)) +
                      (IF m.kind = "AFFIRM_TRANSFER_RESPONSE" /\ m.id = id THEN 1 ELSE 0)
         /\ \A kind : Count(Append(q, m), OfKind(kind)) =
                        Count(q, OfKind(kind)) + (IF m.kind = kind THEN 1 ELSE 0)
<1>1. \A id : m \in Answers(id) <=> m.kind = "AFFIRM_TRANSFER_RESPONSE" /\ m.id = id
  BY DEF Answers
<1>2. \A kind : m \in OfKind(kind) <=> m.kind = kind
  BY DEF OfKind
<1>3. \A S : Count(Append(q, m), S) = Count(q, S) + IF m \in S THEN 1 ELSE 0
  BY CountAppend
<1>4. QED BY <1>1, <1>2, <1>3

\* WORLD_READY packets of v are those of w, in the same place.
Retains(q, r) ==
  \A n \in 1..Len(q) : q[n].kind = "WORLD_READY" =>
    n \in 1..Len(r) /\ \A m \in 1..n : q[m] = r[m]

\* What follows from that.
LEMMA Retained ==
  ASSUME NEW q \in Seq(ToMasterMsg), NEW r \in Seq(ToMasterMsg), Retains(q, r)
  PROVE  /\ AnnouncesReady(q) => AnnouncesReady(r)
         /\ ReadyFirst(r) => ReadyFirst(q)
         /\ q # <<>> /\ q[1].kind = "WORLD_READY" => r # <<>> /\ r[1].kind = "WORLD_READY"
<1>1. \A n \in 1..Len(q) : q[n].kind = "WORLD_READY" =>
        n \in 1..Len(r) /\ r[n].kind = "WORLD_READY" /\ r[1] = q[1]
  BY DEF Retains
<1>2. QED BY <1>1 DEF AnnouncesReady, ReadyFirst

\* A packet that is not WORLD_READY.
LEMMA AppendRetains ==
  ASSUME NEW q \in Seq(ToMasterMsg), NEW m \in ToMasterMsg
  PROVE  /\ m.kind # "WORLD_READY" => Retains(Append(q, m), q)
         /\ Ending(q) => Ending(Append(q, m))
         /\ IsEnd(m) => Ending(Append(q, m))
         /\ Append(q, m) \in Seq(ToMasterMsg) /\ Append(q, m) # <<>>
         /\ Append(q, m)[Len(Append(q, m))] = m
<1>1. /\ Append(q, m) \in Seq(ToMasterMsg) /\ Len(Append(q, m)) = Len(q) + 1
      /\ Append(q, m)[Len(q) + 1] = m /\ \A n \in 1..Len(q) : Append(q, m)[n] = q[n]
      /\ DOMAIN Append(q, m) = 1..Len(q)+1 /\ DOMAIN q = 1..Len(q)
  OBVIOUS
<1>2. QED BY <1>1 DEF Retains, Ending, IsEnd

-----------------------------------------------------------------------------
(* Worlds and their connections *)

\* A step of a world that stays in touch, or had no connection to lose.
LEMMA Steps ==
  ASSUME NEW w \in World, NEW v \in World, Conn(w), w.ready = TRUE, v.ready = TRUE,
         v.zone = w.zone, v.port = w.port, Retains(v.out, w.out),
         Ending(w.out) => Ending(v.out),
         ~ v.connected => ~ w.connected /\ (v.out = <<>> \/ IsEnd(v.out[Len(v.out)])),
         v.in # <<>> => v.connected,
         \A id \in 1..MaxRequests : Traffic(v, id) = Traffic(w, id),
         Balance(v) >= Balance(w)
  PROVE  Conn(v) /\ Carries(w, v)
<1>0. Balance(w) \in Int /\ Balance(v) \in Int
  BY Amounts
<1>1. w.out \in Seq(ToMasterMsg) /\ v.out \in Seq(ToMasterMsg)
  BY WorldFields
<1>2. /\ AnnouncesReady(v.out) => AnnouncesReady(w.out)
      /\ ReadyFirst(w.out) => ReadyFirst(v.out)
      /\ v.out # <<>> /\ v.out[1].kind = "WORLD_READY"
           => w.out # <<>> /\ w.out[1].kind = "WORLD_READY"
  BY <1>1, Retained
<1>3. AnnouncesReady(v.out) =>
        /\ \A id \in 1..MaxRequests : Traffic(v, id) = 0
        /\ Ending(v.out) \/ Balance(v) >= 0
  BY <1>0, <1>2 DEF Conn
<1>4. Conn(v)
  BY <1>2, <1>3 DEF Conn
<1>5. Carries(w, v)
  BY <1>2 DEF Carries, Unfinished
<1>6. QED BY <1>4, <1>5

\* A step of a world that says goodbye, or loses its connection.
LEMMA Ends ==
  ASSUME NEW w \in World, NEW v \in World, Conn(w), w.ready = TRUE, v.ready = TRUE,
         v.zone = w.zone, v.port = w.port, Retains(v.out, w.out),
         v.in = <<>>, v.out # <<>>, IsEnd(v.out[Len(v.out)]), Ending(v.out),
         \A n \in 1..Len(v.out) : v.out[n].kind = "AFFIRM_TRANSFER_RESPONSE" =>
           \E m \in 1..Len(w.out) : w.out[m] = v.out[n]
  PROVE  Conn(v) /\ Carries(w, v)
<1>1. /\ w.out \in Seq(ToMasterMsg) /\ v.out \in Seq(ToMasterMsg)
      /\ w.in \in Seq(ToWorldMsg) /\ v.in \in Seq(ToWorldMsg)
  BY WorldFields
<1>2. /\ AnnouncesReady(v.out) => AnnouncesReady(w.out)
      /\ ReadyFirst(w.out) => ReadyFirst(v.out)
      /\ v.out # <<>> /\ v.out[1].kind = "WORLD_READY"
           => w.out # <<>> /\ w.out[1].kind = "WORLD_READY"
  BY <1>1, Retained
<1>3. ASSUME AnnouncesReady(v.out), NEW id \in 1..MaxRequests PROVE Traffic(v, id) = 0
  <2>1. Traffic(w, id) = 0
    BY <1>2, <1>3 DEF Conn
  <2>2. /\ Count(w.out, Answers(id)) \in Nat /\ Count(w.in, Questions(id)) \in Nat
        /\ Count(w.out, Answers(id)) = 0 <=> \A n \in 1..Len(w.out) : w.out[n] \notin Answers(id)
        /\ Count(v.out, Answers(id)) = 0 <=> \A n \in 1..Len(v.out) : v.out[n] \notin Answers(id)
    BY <1>1, CountType
  <2>3. \A n \in 1..Len(w.out) : w.out[n] \notin Answers(id)
    BY <2>1, <2>2 DEF Traffic
  <2>4. \A n \in 1..Len(v.out) : v.out[n] \notin Answers(id)
    BY <2>3 DEF Answers
  <2>5. Count(v.in, Questions(id)) = 0
    <3>1. Count(v.in, Questions(id)) = 0 <=>
            \A n \in 1..Len(v.in) : v.in[n] \notin Questions(id)
      BY <1>1, CountType
    <3>2. Len(v.in) = 0
      OBVIOUS
    <3>3. QED BY <3>1, <3>2
  <2>6. QED BY <2>2, <2>4, <2>5 DEF Traffic
<1>4. Conn(v)
  BY <1>2, <1>3 DEF Conn
<1>5. Carries(w, v)
  BY <1>2 DEF Carries, Unfinished
<1>6. QED BY <1>4, <1>5

\* The connection of a world is accepted.
LEMMA AttachedCarries ==
  ASSUME NEW w \in World, Conn(w), ~ w.connected
  PROVE  Conn(Attached(w)) /\ Carries(w, Attached(w))
<1> DEFINE v == Attached(w)
           hello == Msg("SERVER_INFO")
           ready == Msg("WORLD_READY")
<1>0. /\ v \in World /\ w.in = <<>> /\ w.out \in Seq(ToMasterMsg) /\ w.players \in Nat
      /\ hello \in ToMasterMsg /\ ready \in ToMasterMsg
      /\ hello.kind = "SERVER_INFO" /\ ready.kind = "WORLD_READY" /\ w.ready \in BOOLEAN
  BY WorldFields, AttachedType, MsgTypes, Kinds DEF Conn
<1>1. /\ v.zone = w.zone /\ v.port = w.port /\ v.connected = TRUE /\ v.ready = TRUE
      /\ v.in = w.in /\ v.players = w.players
      /\ v.out = (w.out \o <<hello>>) \o (IF w.ready THEN <<>> ELSE <<ready>>)
  BY DEF World, Attached
<1> HIDE DEF v, hello, ready
<1>2. CASE w.ready
  <2>1. v.out = Append(w.out, hello)
    BY <1>0, <1>1, <1>2
  <2>2. Retains(v.out, w.out) /\ (Ending(w.out) => Ending(v.out))
    BY <1>0, <2>1, AppendRetains
  <2>3. /\ \A id : Count(v.out, Answers(id)) = Count(w.out, Answers(id)) + 0
        /\ Count(v.out, OfKind("PLAYER_ADDED")) = Count(w.out, OfKind("PLAYER_ADDED")) + 0
        /\ Count(v.out, OfKind("PLAYER_REMOVED")) = Count(w.out, OfKind("PLAYER_REMOVED")) + 0
    BY <1>0, <2>1, CountsAfterSend
  <2>4. \A S : Count(w.out, S) \in Nat
    BY <1>0, CountType
  <2>5. (\A id : Traffic(v, id) = Traffic(w, id)) /\ Balance(v) = Balance(w)
    <3>1. \A id : Count(v.out, Answers(id)) = Count(w.out, Answers(id))
      BY <2>3, <2>4
    <3>2. /\ Count(v.out, OfKind("PLAYER_ADDED")) = Count(w.out, OfKind("PLAYER_ADDED"))
          /\ Count(v.out, OfKind("PLAYER_REMOVED")) = Count(w.out, OfKind("PLAYER_REMOVED"))
      BY <2>3, <2>4
    <3>3. QED BY <1>1, <3>1, <3>2, Zenon DEF Traffic, Balance
  <2>6. Balance(v) >= Balance(w)
    BY <1>0, <2>5, Amounts
  <2>7. QED BY <1>0, <1>1, <1>2, <2>2, <2>5, <2>6, Steps DEF v
<1>3. CASE ~ w.ready
  <2>1. w.out = <<>> /\ w.players = 0
    BY <1>3 DEF Conn
  <2>2. Len(v.out) = 2 /\ v.out[1] = hello /\ v.out[2] = ready /\ DOMAIN v.out = 1..2
    <3>1. v.out = (w.out \o <<hello>>) \o <<ready>>
      BY <1>1, <1>3
    <3>2. v.out = Append(Append(w.out, hello), ready)
      <4>1. w.out \o <<hello>> = Append(w.out, hello)
        BY <1>0
      <4>2. Append(w.out, hello) \in Seq(ToMasterMsg)
        BY <1>0
      <4>3. Append(w.out, hello) \o <<ready>> = Append(Append(w.out, hello), ready)
        BY <1>0, <4>2
      <4>4. QED BY <3>1, <4>1, <4>3, Zenon
    <3>3. Len(w.out) = 0
      BY <2>1
    <3>4. QED BY <1>0, <3>2, <3>3
  <2>3. ASSUME NEW S, hello \notin S, ready \notin S PROVE Count(v.out, S) = 0
    <3>1. v.out \in Seq(ToMasterMsg)
      BY <1>0, WorldFields
    <3>2. \A n \in 1..Len(v.out) : v.out[n] \notin S
      BY <2>2, <2>3
    <3>3. QED BY <3>1, <3>2, CountType
  <2>4. \A id : Count(v.out, Answers(id)) = 0
    <3>1. \A id : hello \notin Answers(id) /\ ready \notin Answers(id)
      BY <1>0 DEF Answers
    <3>2. QED BY <2>3, <3>1
  <2>5. Count(v.out, OfKind("PLAYER_ADDED")) = 0 /\ Count(v.out, OfKind("PLAYER_REMOVED")) = 0
    <3>1. \A kind \in {"PLAYER_ADDED", "PLAYER_REMOVED"} :
            hello \notin OfKind(kind) /\ ready \notin OfKind(kind)
      BY <1>0 DEF OfKind
    <3>2. QED BY <2>3, <3>1
  <2>6. \A id : Count(v.in, Questions(id)) = 0
    <3>1. v.in \in Seq(ToWorldMsg) /\ Len(v.in) = 0
      BY <1>0, <1>1, WorldFields
    <3>2. QED BY <3>1, CountType
  <2>7. (\A id : Traffic(v, id) = 0) /\ Balance(v) = 0
    <3>1. \A id : Traffic(v, id) = 0 + 0
      BY <2>4, <2>6, Zenon DEF Traffic
    <3>2. Balance(v) = 0 - 0 - 0
      BY <1>1, <2>1, <2>5, Zenon DEF Balance
    <3>3. QED BY <3>1, <3>2
  <2>8. ReadyFirst(v.out) /\ v.out[1].kind # "WORLD_READY"
    BY <1>0, <2>2 DEF ReadyFirst
  <2>9. Conn(v)
    <3>1. v.in = <<>> /\ Balance(v) >= 0
      BY <1>0, <1>1, <2>7
    <3>2. QED BY <1>1, <2>7, <2>8, <3>1 DEF Conn
  <2>10. ~ Ending(w.out)
    BY <2>1 DEF Ending
  <2>11. Carries(w, v)
    BY <1>1, <1>3, <2>8, <2>10 DEF Carries, Unfinished
  <2>12. QED BY <2>9, <2>11 DEF v
<1>4. QED BY <1>2, <1>3

\* Whatever a connected, loaded world sends, but for the affirmation of what it
\* has just taken, leaves the affirmations on the way as they are.
LEMMA SendCarries ==
  ASSUME NEW w \in World, Conn(w), w.connected, NEW v \in World,
         NEW m \in ToMasterMsg, m.kind \notin {"WORLD_READY", "AFFIRM_TRANSFER_RESPONSE"},
         v.zone = w.zone, v.port = w.port, v.ready = w.ready, v.connected = w.connected,
         v.in = w.in, v.out = Append(w.out, m),
         w.players - v.players + (IF m.kind = "PLAYER_ADDED" THEN 1 ELSE 0)
           - (IF m.kind = "PLAYER_REMOVED" THEN 1 ELSE 0) >= 0
  PROVE  Conn(v) /\ Carries(w, v)
<1>0. /\ w.out \in Seq(ToMasterMsg) /\ w.in \in Seq(ToWorldMsg)
      /\ w.players \in Nat /\ v.players \in Nat
  BY WorldFields
<1>1. w.ready = TRUE /\ v.ready = TRUE
  BY WorldFields DEF Conn
<1>2. Retains(v.out, w.out) /\ (Ending(w.out) => Ending(v.out))
  BY <1>0, AppendRetains
<1>3. /\ \A id : Count(v.out, Answers(id)) = Count(w.out, Answers(id)) + 0
      /\ Count(v.out, OfKind("PLAYER_ADDED")) =
           Count(w.out, OfKind("PLAYER_ADDED")) + (IF m.kind = "PLAYER_ADDED" THEN 1 ELSE 0)
      /\ Count(v.out, OfKind("PLAYER_REMOVED")) =
           Count(w.out, OfKind("PLAYER_REMOVED")) + (IF m.kind = "PLAYER_REMOVED" THEN 1 ELSE 0)
  BY <1>0, CountsAfterSend
<1>4. \A S : Count(w.out, S) \in Nat
  BY <1>0, CountType
<1>5. \A id : Traffic(v, id) = Traffic(w, id)
  <2>1. \A id : Count(v.out, Answers(id)) = Count(w.out, Answers(id))
    BY <1>3, <1>4
  <2>2. QED BY <2>1 DEF Traffic
<1>6. Balance(v) >= Balance(w)
  <2> DEFINE a == Count(w.out, OfKind("PLAYER_ADDED"))
             r == Count(w.out, OfKind("PLAYER_REMOVED"))
  <2>1. a \in Nat /\ r \in Nat
    BY <1>4
  <2>2. /\ Balance(w) = a - r - w.players
        /\ Balance(v) = (a + (IF m.kind = "PLAYER_ADDED" THEN 1 ELSE 0))
                       - (r + (IF m.kind = "PLAYER_REMOVED" THEN 1 ELSE 0)) - v.players
    BY <1>3 DEF Balance
  <2> HIDE DEF a, r
  <2>3. m.kind = "PLAYER_ADDED" => m.kind # "PLAYER_REMOVED"
    OBVIOUS
  <2>4. QED BY <1>0, <2>1, <2>2, <2>3
<1>7. QED BY <1>1, <1>2, <1>5, <1>6, Steps

\* Players enter, leave, and are reported to the master.
LEMMA PlayersCarry ==
  ASSUME NEW w \in World, Conn(w)
  PROVE  /\ w.connected => Conn(PlayerIn(w)) /\ Carries(w, PlayerIn(w))
         /\ w.connected => LET v == SendToMaster(w, Msg("PLAYER_ADDED"))
                           IN  Conn(v) /\ Carries(w, v)
         /\ w.players > 0 => Conn(PlayerOut(w)) /\ Carries(w, PlayerOut(w))
         /\ w.players > 0 => LET v == [w EXCEPT !.players = w.players - 1]
                             IN  v \in World /\ Conn(v) /\ Carries(w, v)
<1> DEFINE add == Msg("PLAYER_ADDED")
           rem == Msg("PLAYER_REMOVED")
<1>0. /\ add \in ToMasterMsg /\ add.kind = "PLAYER_ADDED"
      /\ rem \in ToMasterMsg /\ rem.kind = "PLAYER_REMOVED"
      /\ w.players \in Nat
  BY MsgTypes, Kinds, WorldFields
<1>1. ASSUME w.connected PROVE Conn(PlayerIn(w)) /\ Carries(w, PlayerIn(w))
  <2> DEFINE v == PlayerIn(w)
  <2>1. v \in World
    BY PlayerInType
  <2>2. /\ v.zone = w.zone /\ v.port = w.port /\ v.ready = w.ready /\ v.connected = w.connected
        /\ v.in = w.in /\ v.out = Append(w.out, add) /\ v.players = w.players + 1
    BY <1>1 DEF World, PlayerIn, SendToMaster
  <2> HIDE DEF v, add, rem
  <2>3. w.players - v.players + 1 - 0 >= 0
    BY <1>0, <2>2
  <2>4. Conn(v) /\ Carries(w, v)
    BY <1>0, <1>1, <2>1, <2>2, <2>3, SendCarries
  <2>5. QED BY <2>4 DEF v
<1>2. ASSUME w.connected
      PROVE  LET v == SendToMaster(w, Msg("PLAYER_ADDED")) IN Conn(v) /\ Carries(w, v)
  <2> DEFINE v == SendToMaster(w, add)
  <2>1. v \in World
    BY <1>0, SendToMasterType
  <2>2. /\ v.zone = w.zone /\ v.port = w.port /\ v.ready = w.ready /\ v.connected = w.connected
        /\ v.in = w.in /\ v.out = Append(w.out, add) /\ v.players = w.players
    BY <1>2 DEF World, SendToMaster
  <2> HIDE DEF v, add, rem
  <2>3. w.players - v.players + 1 - 0 >= 0
    BY <1>0, <2>2
  <2>4. Conn(v) /\ Carries(w, v)
    BY <1>0, <1>2, <2>1, <2>2, <2>3, SendCarries
  <2>5. QED BY <2>4 DEF v, add
<1>3. ASSUME w.players > 0, NEW v \in World, v.players = w.players - 1,
             v.zone = w.zone, v.port = w.port, v.ready = w.ready, v.connected = w.connected,
             v.in = w.in, v.out = w.out
      PROVE  Conn(v) /\ Carries(w, v)
  <2>1. w.ready = TRUE /\ v.ready = TRUE
    BY <1>0, <1>3, WorldFields DEF Conn
  <2>2. w.out \in Seq(ToMasterMsg) /\ Retains(v.out, w.out)
    BY <1>3, WorldFields DEF Retains
  <2>3. \A id : Traffic(v, id) = Traffic(w, id)
    BY <1>3 DEF Traffic
  <2>4. Balance(v) >= Balance(w)
    <3> DEFINE a == Count(w.out, OfKind("PLAYER_ADDED"))
               r == Count(w.out, OfKind("PLAYER_REMOVED"))
    <3>1. a \in Nat /\ r \in Nat
      BY <2>2, CountType
    <3>2. Balance(w) = a - r - w.players /\ Balance(v) = a - r - (w.players - 1)
      BY <1>3 DEF Balance
    <3> HIDE DEF a, r
    <3>3. QED BY <1>0, <3>1, <3>2
  <2>5. /\ ~ v.connected => ~ w.connected /\ (v.out = <<>> \/ IsEnd(v.out[Len(v.out)]))
        /\ v.in # <<>> => v.connected
        /\ Ending(w.out) => Ending(v.out)
    BY <1>3 DEF Conn
  <2>6. QED BY <1>3, <2>1, <2>2, <2>3, <2>4, <2>5, Steps
<1>4. ASSUME w.players > 0 PROVE Conn(PlayerOut(w)) /\ Carries(w, PlayerOut(w))
  <2> DEFINE v == PlayerOut(w)
  <2>1. v \in World
    BY <1>4, PlayerOutType
  <2>2. /\ v.zone = w.zone /\ v.port = w.port /\ v.ready = w.ready /\ v.connected = w.connected
        /\ v.in = w.in /\ v.out = (IF w.connected THEN Append(w.out, rem) ELSE w.out)
        /\ v.players = w.players - 1
    BY DEF World, PlayerOut, SendToMaster
  <2> HIDE DEF v, add, rem
  <2>3. CASE w.connected
    <3>1. w.players - v.players + 0 - 1 >= 0
      BY <1>0, <2>2
    <3>2. Conn(v) /\ Carries(w, v)
      BY <1>0, <2>1, <2>2, <2>3, <3>1, SendCarries
    <3>3. QED BY <3>2 DEF v
  <2>4. CASE ~ w.connected
    <3>1. Conn(v) /\ Carries(w, v)
      BY <1>3, <1>4, <2>1, <2>2, <2>4
    <3>2. QED BY <3>1 DEF v
  <2>5. QED BY <2>3, <2>4
<1>5. ASSUME w.players > 0
      PROVE  LET v == [w EXCEPT !.players = w.players - 1]
             IN  v \in World /\ Conn(v) /\ Carries(w, v)
  <2> DEFINE v == [w EXCEPT !.players = w.players - 1]
  <2>1. v \in World
    BY <1>0, <1>5 DEF World
  <2>2. /\ v.zone = w.zone /\ v.port = w.port /\ v.ready = w.ready /\ v.connected = w.connected
        /\ v.in = w.in /\ v.out = w.out /\ v.players = w.players - 1
    BY DEF World
  <2> HIDE DEF v
  <2>3. Conn(v) /\ Carries(w, v)
    BY <1>3, <1>5, <2>1, <2>2
  <2>4. QED BY <2>1, <2>3 DEF v
<1>6. QED BY <1>1, <1>2, <1>4, <1>5

\* The process has not loaded: nothing but running changes.
LEMMA FailsCarries ==
  ASSUME NEW w \in World, Conn(w)
  PROVE  LET v == [w EXCEPT !.running = FALSE]
         IN  v \in World /\ Conn(v) /\ Carries(w, v)
<1> DEFINE v == [w EXCEPT !.running = FALSE]
<1>1. v \in World
  BY DEF World
<1>2. /\ v.zone = w.zone /\ v.port = w.port /\ v.ready = w.ready /\ v.connected = w.connected
      /\ v.in = w.in /\ v.out = w.out /\ v.players = w.players
  BY DEF World
<1> HIDE DEF v
<1>3. (\A id : Traffic(v, id) = Traffic(w, id)) /\ Balance(v) = Balance(w)
  BY <1>2 DEF Traffic, Balance
<1>4. Conn(v)
  BY <1>2, <1>3 DEF Conn
<1>5. Balance(v) >= Balance(w)
  BY <1>3, Amounts
<1>6. Carries(w, v)
  BY <1>2, <1>3, <1>5 DEF Carries, Unfinished
<1>7. QED BY <1>1, <1>4, <1>6 DEF v

\* The orderly end of a world that has loaded.
LEMMA ExitedCarries ==
  ASSUME NEW w \in World, Conn(w), w.ready = TRUE
  PROVE  Conn(Exited(w)) /\ Carries(w, Exited(w))
<1> DEFINE v   == Exited(w)
           bye == Msg("SHUTDOWN_RESPONSE")
           end == Msg("DISCONNECTED")
<1>0. /\ bye \in ToMasterMsg /\ bye.kind = "SHUTDOWN_RESPONSE"
      /\ end \in ToMasterMsg /\ end.kind = "DISCONNECTED"
      /\ w.out \in Seq(ToMasterMsg) /\ w.in \in Seq(ToWorldMsg) /\ w.players \in Nat
      /\ v \in World
  BY MsgTypes, Kinds, WorldFields, ExitedType
<1>1. /\ v.zone = w.zone /\ v.port = w.port /\ v.ready = w.ready /\ ~ v.connected
      /\ v.in = <<>> /\ v.players = 0
      /\ v.out = (IF w.connected THEN Append(Append(w.out, bye), end) ELSE w.out)
  BY DEF World, Exited, SendToMaster
<1> HIDE DEF v, bye, end
<1>2. CASE w.connected
  <2> DEFINE r == Append(w.out, bye)
  <2>1. /\ r \in Seq(ToMasterMsg) /\ v.out = Append(r, end)
        /\ Retains(r, w.out) /\ Retains(v.out, r)
        /\ Ending(v.out) /\ v.out # <<>> /\ v.out[Len(v.out)] = end
    <3>1. r \in Seq(ToMasterMsg) /\ Retains(r, w.out)
      BY <1>0, AppendRetains
    <3>2. v.out = Append(r, end)
      BY <1>1, <1>2
    <3>3. IsEnd(end)
      BY <1>0 DEF IsEnd
    <3> HIDE DEF r
    <3>4. QED BY <1>0, <3>1, <3>2, <3>3, AppendRetains
  <2>2. /\ Len(r) = Len(w.out) + 1 /\ r[Len(w.out) + 1] = bye
        /\ \A n \in 1..Len(w.out) : r[n] = w.out[n]
    BY <1>0
  <2>3. /\ Len(v.out) = Len(r) + 1 /\ v.out[Len(r) + 1] = end
        /\ \A n \in 1..Len(r) : v.out[n] = r[n]
    BY <1>0, <2>1
  <2>4. Len(w.out) \in Nat
    BY <1>0
  <2> HIDE DEF r
  <2>5. Retains(v.out, w.out)
    <3>1. SUFFICES ASSUME NEW n \in 1..Len(v.out), v.out[n].kind = "WORLD_READY"
                   PROVE  n \in 1..Len(w.out) /\ \A m \in 1..n : v.out[m] = w.out[m]
      BY DEF Retains
    <3>2. n \in 1..Len(w.out)
      BY <1>0, <2>2, <2>3, <2>4, <3>1
    <3>3. \A m \in 1..Len(w.out) : v.out[m] = w.out[m]
      BY <2>2, <2>3, <2>4
    <3>4. \A m \in 1..n : m \in 1..Len(w.out)
      BY <2>4, <3>2
    <3>5. QED BY <3>2, <3>3, <3>4
  <2>6. \A n \in 1..Len(v.out) : v.out[n].kind = "AFFIRM_TRANSFER_RESPONSE" =>
          \E m \in 1..Len(w.out) : w.out[m] = v.out[n]
    BY <1>0, <2>2, <2>3, <2>4
  <2>7. IsEnd(v.out[Len(v.out)]) /\ v.ready = TRUE
    BY <1>0, <1>1, <2>1 DEF IsEnd
  <2>8. Conn(v) /\ Carries(w, v)
    BY <1>0, <1>1, <2>1, <2>5, <2>6, <2>7, Ends
  <2>9. QED BY <2>8 DEF v
<1>3. CASE ~ w.connected
  <2>1. v.out = w.out /\ w.in = <<>>
    BY <1>1, <1>3 DEF Conn
  <2>2. Retains(v.out, w.out)
    BY <1>0, <2>1 DEF Retains
  <2>3. \A id : Traffic(v, id) = Traffic(w, id)
    BY <1>1, <2>1 DEF Traffic
  <2>4. Balance(v) >= Balance(w)
    <3> DEFINE a == Count(w.out, OfKind("PLAYER_ADDED"))
               r == Count(w.out, OfKind("PLAYER_REMOVED"))
    <3>1. a \in Nat /\ r \in Nat
      BY <1>0, CountType
    <3>2. Balance(w) = a - r - w.players /\ Balance(v) = a - r - 0
      BY <1>1, <2>1 DEF Balance
    <3> HIDE DEF a, r
    <3>3. QED BY <1>0, <3>1, <3>2
  <2>5. /\ v.out = <<>> \/ IsEnd(v.out[Len(v.out)])
        /\ Ending(w.out) => Ending(v.out)
        /\ v.in # <<>> => v.connected
        /\ v.ready = TRUE
    BY <1>1, <1>3, <2>1 DEF Conn
  <2>6. Conn(v) /\ Carries(w, v)
    BY <1>0, <1>1, <1>3, <2>2, <2>3, <2>4, <2>5, Steps
  <2>7. QED BY <2>6 DEF v
<1>4. QED BY <1>2, <1>3

\* The connection of a world breaks, with or without the process.
LEMMA DroppedCarries ==
  ASSUME NEW w \in World, Conn(w), w.connected, NEW k \in 0..Len(w.out), NEW v \in World,
         v.zone = w.zone, v.port = w.port, v.ready = w.ready, ~ v.connected,
         v.in = <<>>, v.out = Append(SubSeq(w.out, 1, k), Msg("CONNECTION_LOST"))
  PROVE  Conn(v) /\ Carries(w, v)
<1> DEFINE end == Msg("CONNECTION_LOST")
           r   == SubSeq(w.out, 1, k)
<1>0. /\ end \in ToMasterMsg /\ end.kind = "CONNECTION_LOST" /\ IsEnd(end)
      /\ w.out \in Seq(ToMasterMsg) /\ w.ready = TRUE /\ v.ready = TRUE
  BY MsgTypes, Kinds, WorldFields DEF IsEnd, Conn
<1>1. /\ r \in Seq(ToMasterMsg) /\ Len(r) = k /\ \A n \in 1..k : r[n] = w.out[n] /\ n \in 1..Len(w.out)
  BY <1>0
<1>2. v.out = Append(r, end)
  OBVIOUS
<1> HIDE DEF r, end
<1>3. Ending(v.out) /\ v.out # <<>> /\ v.out[Len(v.out)] = end
  <2>1. /\ Ending(Append(r, end)) /\ Append(r, end) # <<>>
        /\ Append(r, end)[Len(Append(r, end))] = end
    BY <1>0, <1>1, AppendRetains
  <2>2. QED BY <1>2, <2>1
<1>4. /\ Len(v.out) = k + 1 /\ v.out[k + 1] = end /\ k \in Nat
      /\ \A n \in 1..k : v.out[n] = r[n]
  BY <1>0, <1>1, <1>2
<1>5. \A n \in 1..Len(v.out) : v.out[n] = end \/ (n \in 1..k /\ n \in 1..Len(w.out))
  BY <1>1, <1>4
<1>6. Retains(v.out, w.out)
  <2>1. SUFFICES ASSUME NEW n \in 1..Len(v.out), v.out[n].kind = "WORLD_READY"
                 PROVE  n \in 1..Len(w.out) /\ \A m \in 1..n : v.out[m] = w.out[m]
    BY DEF Retains
  <2>2. n \in 1..k /\ n \in 1..Len(w.out)
    BY <1>0, <1>5, <2>1
  <2>3. \A m \in 1..n : m \in 1..k
    BY <1>4, <2>2
  <2>4. QED BY <1>1, <1>4, <2>2, <2>3
<1>7. \A n \in 1..Len(v.out) : v.out[n].kind = "AFFIRM_TRANSFER_RESPONSE" =>
        \E m \in 1..Len(w.out) : w.out[m] = v.out[n]
  BY <1>0, <1>1, <1>4, <1>5
<1>8. QED BY <1>0, <1>3, <1>6, <1>7, Ends

\* A world takes a packet of the master: an affirmation is on the way back, or
\* the world ends.
LEMMA ReceiveCarries ==
  ASSUME NEW w \in World, Conn(w), w.in # <<>>
  PROVE  LET m == Head(w.in)
             u == [w EXCEPT !.in = Tail(w.in)]
             v == IF m.kind = "SHUTDOWN" THEN Exited(u)
                  ELSE SendToMaster(u, IdMsg("AFFIRM_TRANSFER_RESPONSE", m.id))
         IN  v \in World /\ Conn(v) /\ Carries(w, v)
<1> DEFINE m == Head(w.in)
           u == [w EXCEPT !.in = Tail(w.in)]
           a == IdMsg("AFFIRM_TRANSFER_RESPONSE", m.id)
<1>0. /\ w.in \in Seq(ToWorldMsg) /\ w.out \in Seq(ToMasterMsg) /\ w.players \in Nat
      /\ w.connected = TRUE /\ w.ready = TRUE
  BY WorldFields DEF Conn
<1>1. m \in ToWorldMsg /\ Tail(w.in) \in Seq(ToWorldMsg)
  BY <1>0
<1>2. u \in World
  BY <1>1 DEF World
<1>3. /\ u.zone = w.zone /\ u.port = w.port /\ u.ready = w.ready /\ u.connected = w.connected
      /\ u.in = Tail(w.in) /\ u.out = w.out /\ u.players = w.players
  BY DEF World
<1> HIDE DEF u
<1>4. CASE m.kind = "SHUTDOWN"
  <2> DEFINE v == Exited(u)
  <2>0. v \in World
    BY <1>2, ExitedType
  <2>1. Conn(u)
    <3>1. ASSUME AnnouncesReady(u.out)
          PROVE  /\ \A id \in 1..MaxRequests : Traffic(u, id) = 0
                 /\ Ending(u.out) \/ Balance(u) >= 0
      <4>1. \A id \in 1..MaxRequests : Traffic(w, id) = 0
        BY <1>3, <3>1 DEF Conn
      <4>2. \A id : Count(w.in, Questions(id)) = Count(u.in, Questions(id))
                       + (IF m \in Questions(id) THEN 1 ELSE 0)
        BY <1>0, <1>3, CountTail
      <4>3. \A id : m \notin Questions(id)
        BY <1>4 DEF Questions
      <4>4. \A S : Count(u.in, S) \in Nat
        BY <1>1, <1>3, CountType
      <4>5. \A id : Traffic(u, id) = Traffic(w, id)
        <5>1. \A id : Count(w.in, Questions(id)) = Count(u.in, Questions(id))
          BY <4>2, <4>3, <4>4
        <5>2. QED BY <1>3, <5>1 DEF Traffic
      <4>6. Balance(u) = Balance(w)
        BY <1>3 DEF Balance
      <4>7. QED BY <1>3, <3>1, <4>1, <4>5, <4>6 DEF Conn
    <3>2. QED BY <1>0, <1>3, <3>1 DEF Conn
  <2>2. Conn(v) /\ Carries(u, v)
    BY <1>0, <1>2, <1>3, <2>1, ExitedCarries
  <2>3. Ending(v.out)
    <3>1. v.out = Append(Append(u.out, Msg("SHUTDOWN_RESPONSE")), Msg("DISCONNECTED"))
      BY <1>0, <1>2, <1>3 DEF World, Exited, SendToMaster
    <3>2. /\ Msg("DISCONNECTED") \in ToMasterMsg /\ IsEnd(Msg("DISCONNECTED"))
          /\ Append(u.out, Msg("SHUTDOWN_RESPONSE")) \in Seq(ToMasterMsg)
      BY <1>0, <1>3, MsgTypes, Kinds DEF IsEnd
    <3>3. QED BY <3>1, <3>2, AppendRetains
  <2>4. Carries(w, v)
    BY <1>3, <2>2, <2>3 DEF Carries, Unfinished
  <2>5. QED BY <1>4, <2>0, <2>2, <2>4 DEF u, v
<1>5. CASE m.kind # "SHUTDOWN"
  <2> DEFINE v == SendToMaster(u, a)
  <2>1. m.id \in 1..MaxRequests /\ m.kind = "AFFIRM_TRANSFER_REQUEST"
    BY <1>1, <1>5 DEF ToWorldMsg
  <2>2. a \in ToMasterMsg /\ a.kind = "AFFIRM_TRANSFER_RESPONSE" /\ a.id = m.id
    BY <2>1, MsgTypes, Kinds
  <2>3. v \in World
    BY <1>2, <2>2, SendToMasterType
  <2>4. /\ v.zone = w.zone /\ v.port = w.port /\ v.ready = TRUE /\ v.connected = TRUE
        /\ v.in = Tail(w.in) /\ v.out = Append(w.out, a) /\ v.players = w.players
    BY <1>0, <1>2, <1>3 DEF World, SendToMaster
  <2> HIDE DEF v, a
  <2>5. /\ \A id : Count(v.out, Answers(id)) = Count(w.out, Answers(id))
                     + (IF m.id = id THEN 1 ELSE 0)
        /\ Count(v.out, OfKind("PLAYER_ADDED")) = Count(w.out, OfKind("PLAYER_ADDED")) + 0
        /\ Count(v.out, OfKind("PLAYER_REMOVED")) = Count(w.out, OfKind("PLAYER_REMOVED")) + 0
    BY <1>0, <2>2, <2>4, CountsAfterSend
  <2>6. \A id : Count(w.in, Questions(id)) = Count(v.in, Questions(id))
                  + (IF m.id = id THEN 1 ELSE 0)
    <3>1. \A id : Count(w.in, Questions(id)) = Count(Tail(w.in), Questions(id))
                    + (IF m \in Questions(id) THEN 1 ELSE 0)
      BY <1>0, CountTail
    <3>2. \A id : m \in Questions(id) <=> m.id = id
      BY <1>1, <2>1 DEF Questions
    <3>3. QED BY <2>4, <3>1, <3>2
  <2>7. (\A S : Count(w.out, S) \in Nat) /\ \A S : Count(v.in, S) \in Nat
    BY <1>0, <1>1, <2>4, CountType
  <2>8. \A id \in 1..MaxRequests : Traffic(v, id) = Traffic(w, id)
    <3> TAKE id \in 1..MaxRequests
    <3> DEFINE x == Count(v.in, Questions(id))
               y == Count(w.out, Answers(id))
               d == IF m.id = id THEN 1 ELSE 0
    <3>1. Traffic(v, id) = x + (y + d) /\ Traffic(w, id) = (x + d) + y
      BY <2>5, <2>6 DEF Traffic
    <3>2. x \in Nat /\ y \in Nat /\ d \in Nat
      BY <2>7
    <3> HIDE DEF x, y, d
    <3>3. QED BY <3>1, <3>2
  <2>9. Balance(v) = Balance(w) /\ Balance(v) >= Balance(w)
    <3>1. /\ Count(v.out, OfKind("PLAYER_ADDED")) = Count(w.out, OfKind("PLAYER_ADDED"))
          /\ Count(v.out, OfKind("PLAYER_REMOVED")) = Count(w.out, OfKind("PLAYER_REMOVED"))
      BY <2>5, <2>7
    <3>2. Balance(v) = Balance(w)
      BY <2>4, <3>1 DEF Balance
    <3>3. QED BY <2>3, <3>2, Amounts
  <2>10. Retains(v.out, w.out) /\ (Ending(w.out) => Ending(v.out))
    BY <1>0, <2>2, <2>4, AppendRetains
  <2>11. Conn(v) /\ Carries(w, v)
    BY <1>0, <2>3, <2>4, <2>8, <2>9, <2>10, Steps
  <2>12. QED BY <1>5, <2>3, <2>11 DEF u, v, a
<1>6. QED BY <1>4, <1>5

\* The master tells a connected world to shut down.
LEMMA ToldCarries ==
  ASSUME NEW w \in World, Conn(w), w.connected
  PROVE  LET v == [w EXCEPT !.in = w.in \o <<Msg("SHUTDOWN")>>]
         IN  v \in World /\ Conn(v) /\ Carries(w, v)
<1> DEFINE m  == Msg("SHUTDOWN")
           ms == <<m>>
           v  == [w EXCEPT !.in = w.in \o ms]
<1>0. /\ m \in ToWorldMsg /\ m.kind = "SHUTDOWN" /\ ms \in Seq(ToWorldMsg)
      /\ w.in \in Seq(ToWorldMsg) /\ w.out \in Seq(ToMasterMsg) /\ w.ready = TRUE
  BY MsgTypes, Kinds, WorldFields DEF Conn
<1>1. v \in World
  <2>1. w.in \o ms \in Seq(ToWorldMsg)
    BY <1>0
  <2> HIDE DEF ms
  <2>2. QED BY <2>1 DEF World
<1>2. /\ v.zone = w.zone /\ v.port = w.port /\ v.ready = w.ready /\ v.connected = w.connected
      /\ v.in = w.in \o ms /\ v.out = w.out /\ v.players = w.players
  BY DEF World
<1>3. \A id : Count(ms, Questions(id)) = 0
  <2>1. \A id : m \notin Questions(id)
    BY <1>0 DEF Questions
  <2>2. \A id : Count(<<m>>, Questions(id)) = IF m \in Questions(id) THEN 1 ELSE 0
    BY CountOne
  <2>3. QED BY <2>1, <2>2
<1> HIDE DEF m, ms, v
<1>4. \A id : Traffic(v, id) = Traffic(w, id)
  <2>1. \A id : Count(w.in \o ms, Questions(id)) = Count(w.in, Questions(id)) + Count(ms, Questions(id))
    BY <1>0, CountConcat
  <2>2. \A id : Count(w.in, Questions(id)) \in Nat
    BY <1>0, CountType
  <2>3. \A id : Count(v.in, Questions(id)) = Count(w.in, Questions(id))
    BY <1>2, <1>3, <2>1, <2>2
  <2>4. QED BY <1>2, <2>3 DEF Traffic
<1>5. Balance(v) >= Balance(w)
  <2>1. Balance(v) = Balance(w)
    BY <1>2 DEF Balance
  <2>2. QED BY <1>1, <2>1, Amounts
<1>6. Retains(v.out, w.out)
  BY <1>0, <1>2 DEF Retains
<1>7. Conn(v) /\ Carries(w, v)
  BY <1>0, <1>1, <1>2, <1>4, <1>5, <1>6, Steps
<1>8. QED BY <1>1, <1>7 DEF v, ms, m

\* The master asks a ready instance to affirm requests: what it waits for and
\* what is on the way grow together.
LEMMA QuestionSuits ==
  ASSUME NEW i \in Instance, NEW w \in World, Conn(w), Suits(i, w, FALSE), i.ready,
         NEW rs \in Seq(Pending)
  PROVE  LET asks == [n \in DOMAIN rs |-> IdMsg("AFFIRM_TRANSFER_REQUEST", rs[n].id)]
             v == IF w.connected THEN [w EXCEPT !.in = w.in \o asks] ELSE w
             j == [i EXCEPT !.pendingAffirmations = i.pendingAffirmations \o rs]
         IN  /\ v \in World /\ j \in Instance /\ Conn(v) /\ Suits(j, v, FALSE)
             /\ v.ready = w.ready /\ v.out = w.out /\ v.zone = w.zone
<1> DEFINE asks == [n \in DOMAIN rs |-> IdMsg("AFFIRM_TRANSFER_REQUEST", rs[n].id)]
           v == IF w.connected THEN [w EXCEPT !.in = w.in \o asks] ELSE w
           j == [i EXCEPT !.pendingAffirmations = i.pendingAffirmations \o rs]
<1>0. /\ w.in \in Seq(ToWorldMsg) /\ w.out \in Seq(ToMasterMsg)
      /\ i.pendingAffirmations \in Seq(Pending)
  BY WorldFields DEF Instance
<1>a. /\ DOMAIN rs = 1..Len(rs) /\ Len(rs) \in Nat
      /\ \A n \in 1..Len(rs) : rs[n] \in Pending /\ rs[n].id \in 1..MaxRequests
  <2>1. \A n \in 1..Len(rs) : rs[n] \in Pending
    OBVIOUS
  <2>2. \A r \in Pending : r.id \in 1..MaxRequests
    BY DEF Pending
  <2>3. DOMAIN rs = 1..Len(rs) /\ Len(rs) \in Nat
    OBVIOUS
  <2>4. QED BY <2>1, <2>2, <2>3
<1>1. asks \in Seq(ToWorldMsg) /\ Len(asks) = Len(rs)
  <2> DEFINE f(n) == IdMsg("AFFIRM_TRANSFER_REQUEST", rs[n].id)
  <2>1. \A n \in 1..Len(rs) : f(n) \in ToWorldMsg
    BY <1>a, MsgTypes
  <2>2. asks = [n \in 1..Len(rs) |-> f(n)]
    BY <1>a
  <2> HIDE DEF f, asks
  <2>3. QED BY <1>a, <2>1, <2>2
<1>2. \A id : Count(asks, Questions(id)) = Count(rs, OfId(id))
  <2> TAKE id
  <2>1. \A n \in 1..Len(rs) : asks[n] = IdMsg("AFFIRM_TRANSFER_REQUEST", rs[n].id)
    BY <1>a
  <2>2. \A n \in 1..Len(asks) : asks[n] \in Questions(id) <=> rs[n] \in OfId(id)
    <3> TAKE n \in 1..Len(asks)
    <3>1. n \in 1..Len(rs) /\ asks[n].kind = "AFFIRM_TRANSFER_REQUEST" /\ asks[n].id = rs[n].id
      BY <1>1, <2>1, Kinds
    <3>2. asks[n] \in ToWorldMsg /\ rs[n] \in Pending
      BY <1>a, <1>1, <3>1
    <3> HIDE DEF asks
    <3>3. QED BY <3>1, <3>2 DEF Questions, OfId
  <2> HIDE DEF asks
  <2>3. QED BY <1>1, <2>2, CountAlike
<1>3. j \in Instance
  <2>1. i.pendingAffirmations \o rs \in Seq(Pending)
    BY <1>0
  <2>2. QED BY <2>1 DEF Instance
<1>4. /\ j.id = i.id /\ j.port = i.port /\ j.zone = i.zone /\ j.sysAddr = i.sysAddr
      /\ j.ready = i.ready /\ j.shuttingDown = i.shuttingDown /\ j.clients = i.clients
      /\ j.shutdownComplete = i.shutdownComplete /\ j.pendingRequests = i.pendingRequests
      /\ j.password = i.password
      /\ j.pendingAffirmations = i.pendingAffirmations \o rs
  BY DEF Instance
<1> HIDE DEF asks
<1>5. v \in World
  <2>1. w.in \o asks \in Seq(ToWorldMsg)
    BY <1>0, <1>1
  <2>2. QED BY <2>1 DEF World
<1>6. /\ v.zone = w.zone /\ v.port = w.port /\ v.ready = w.ready /\ v.connected = w.connected
      /\ v.out = w.out /\ v.players = w.players
      /\ v.in = IF w.connected THEN w.in \o asks ELSE w.in
  BY DEF World
<1> HIDE DEF v, j
<1>7. ~ AnnouncesReady(w.out) /\ w.ready
  BY DEF Suits, Unfinished
<1>8. Conn(v)
  BY <1>6, <1>7 DEF Conn
<1>9. Ending(v.out) \/ (Asked(j, v) /\ Counted(j, v))
  <2>1. SUFFICES ASSUME ~ Ending(w.out) PROVE Asked(j, v) /\ Counted(j, v)
    BY <1>6
  <2>2. w.connected /\ Asked(i, w) /\ Counted(i, w)
    BY <2>1 DEF Suits
  <2>3. Balance(v) = Balance(w)
    BY <1>6 DEF Balance
  <2>4. Counted(j, v)
    BY <1>4, <2>2, <2>3 DEF Counted, IsPrivate
  <2>5. ASSUME NEW id \in 1..MaxRequests PROVE Waits(j, id) = Traffic(v, id)
    <3> DEFINE q == Count(w.in, Questions(id))
               a == Count(w.out, Answers(id))
               n == Count(rs, OfId(id))
               x == Count(i.pendingAffirmations, OfId(id))
    <3>1. q \in Nat /\ a \in Nat /\ n \in Nat /\ x \in Nat
      BY <1>0, CountType
    <3>2. x = q + a
      BY <2>2 DEF Asked, Waits, Traffic
    <3>3. Count(v.in, Questions(id)) = q + n
      <4>1. Count(w.in \o asks, Questions(id)) = q + Count(asks, Questions(id))
        BY <1>0, <1>1, CountConcat
      <4>2. QED BY <1>2, <1>6, <2>2, <4>1
    <3>4. Count(j.pendingAffirmations, OfId(id)) = x + n
      BY <1>0, <1>4, CountConcat
    <3>5. Waits(j, id) = x + n /\ Traffic(v, id) = (q + n) + a
      BY <1>6, <3>3, <3>4 DEF Waits, Traffic
    <3> HIDE DEF q, a, n, x
    <3>6. QED BY <3>1, <3>2, <3>5
  <2>6. QED BY <2>4, <2>5 DEF Asked
<1>10. Suits(j, v, FALSE)
  BY <1>4, <1>6, <1>9 DEF Suits, Unfinished
<1>11. QED BY <1>3, <1>5, <1>6, <1>8, <1>10 DEF v, j, asks

\* The master takes the first packet of a world.
TookFirst(w) == [w EXCEPT !.out = Tail(w.out)]

\* What is true of a world once the master has taken its first packet.
LEMMA TakeFacts ==
  ASSUME NEW w \in World, Conn(w), w.out # <<>>
  PROVE  LET v == TookFirst(w)
             m == Head(w.out)
         IN  /\ v \in World /\ Conn(v) /\ m \in ToMasterMsg
             /\ v.zone = w.zone /\ v.port = w.port /\ v.connected = w.connected
             /\ w.ready = TRUE /\ v.ready = TRUE /\ v.in = w.in /\ v.players = w.players
             /\ Unfinished(v) => Unfinished(w)
             /\ Ending(w.out) /\ ~ IsEnd(m) => Ending(v.out)
             /\ ~ v.connected /\ ~ IsEnd(m) => Ending(v.out)
             /\ v.out # <<>> /\ v.out[1].kind = "WORLD_READY" => m.kind = "SERVER_INFO"
             /\ m.kind = "WORLD_READY" => w.out[1].kind = "WORLD_READY" /\ Unfinished(w)
             /\ m.kind = "WORLD_READY" \/ IsEnd(m) => ~ Unfinished(v)
             /\ \A id : Traffic(w, id) = Traffic(v, id)
                  + (IF m.kind = "AFFIRM_TRANSFER_RESPONSE" /\ m.id = id THEN 1 ELSE 0)
             /\ Balance(w) = Balance(v) + (IF m.kind = "PLAYER_ADDED" THEN 1 ELSE 0)
                               - (IF m.kind = "PLAYER_REMOVED" THEN 1 ELSE 0)
<1> DEFINE v == TookFirst(w)
           m == Head(w.out)
           q == Tail(w.out)
<1>0. w.out \in Seq(ToMasterMsg) /\ w.ready = TRUE /\ w.players \in Nat /\ w.in \in Seq(ToWorldMsg)
  BY WorldFields DEF Conn
<1>1. /\ m \in ToMasterMsg /\ q \in Seq(ToMasterMsg) /\ m = w.out[1]
      /\ Len(w.out) \in Nat /\ Len(w.out) >= 1 /\ Len(q) = Len(w.out) - 1
      /\ \A n \in 1..Len(q) : q[n] = w.out[n + 1]
      /\ DOMAIN q = 1..Len(q) /\ DOMAIN w.out = 1..Len(w.out)
  BY <1>0
<1>2. v \in World
  BY <1>1 DEF World, TookFirst
<1>3. /\ v.zone = w.zone /\ v.port = w.port /\ v.connected = w.connected /\ v.ready = TRUE
      /\ v.in = w.in /\ v.players = w.players /\ v.out = q
  BY <1>0 DEF World, TookFirst
<1>4. /\ \A id : Count(w.out, Answers(id)) = Count(q, Answers(id))
           + (IF m.kind = "AFFIRM_TRANSFER_RESPONSE" /\ m.id = id THEN 1 ELSE 0)
      /\ \A kind : Count(w.out, OfKind(kind)) = Count(q, OfKind(kind))
                     + (IF m.kind = kind THEN 1 ELSE 0)
  <2>1. \A S : Count(w.out, S) = Count(q, S) + IF m \in S THEN 1 ELSE 0
    BY <1>0, CountTail
  <2>2. /\ \A id : m \in Answers(id) <=> m.kind = "AFFIRM_TRANSFER_RESPONSE" /\ m.id = id
        /\ \A kind : m \in OfKind(kind) <=> m.kind = kind
    BY <1>1 DEF Answers, OfKind
  <2> HIDE DEF m, q
  <2>3. QED BY <2>1, <2>2
<1>5. \A S : Count(q, S) \in Nat /\ Count(w.in, S) \in Nat
  BY <1>0, <1>1, CountType
<1>6. /\ \A n \in 1..Len(w.out) : n = 1 \/ (n - 1 \in 1..Len(q) /\ w.out[n] = q[n - 1])
      /\ \A n \in 1..Len(q) : n + 1 \in 1..Len(w.out) /\ n + 1 # 1 /\ (n + 1 = 2 => n = 1)
  BY <1>1
<1> HIDE DEF v, m, q
<1>7. \A id : Traffic(w, id) = Traffic(v, id)
         + (IF m.kind = "AFFIRM_TRANSFER_RESPONSE" /\ m.id = id THEN 1 ELSE 0)
  <2> TAKE id
  <2> DEFINE a == Count(q, Answers(id))
             b == Count(w.in, Questions(id))
             d == IF m.kind = "AFFIRM_TRANSFER_RESPONSE" /\ m.id = id THEN 1 ELSE 0
  <2>1. Traffic(w, id) = b + (a + d) /\ Traffic(v, id) = b + a
    BY <1>3, <1>4 DEF Traffic
  <2>2. a \in Nat /\ b \in Nat /\ d \in Nat
    BY <1>5
  <2> HIDE DEF a, b
  <2>3. QED BY <2>1, <2>2
<1>8. Balance(w) = Balance(v) + (IF m.kind = "PLAYER_ADDED" THEN 1 ELSE 0)
                     - (IF m.kind = "PLAYER_REMOVED" THEN 1 ELSE 0)
  <2> DEFINE a == Count(q, OfKind("PLAYER_ADDED"))
             r == Count(q, OfKind("PLAYER_REMOVED"))
             d == IF m.kind = "PLAYER_ADDED" THEN 1 ELSE 0
             e == IF m.kind = "PLAYER_REMOVED" THEN 1 ELSE 0
  <2>1. Balance(w) = (a + d) - (r + e) - w.players /\ Balance(v) = a - r - w.players
    BY <1>3, <1>4 DEF Balance
  <2>2. a \in Nat /\ r \in Nat /\ d \in Nat /\ e \in Nat
    BY <1>5
  <2> HIDE DEF a, r
  <2>3. QED BY <1>0, <2>1, <2>2
<1>9. \A n \in 1..Len(q) : q[n].kind = "WORLD_READY" => n = 1 /\ m.kind = "SERVER_INFO"
  BY <1>1, <1>6 DEF Conn, ReadyFirst
<1>10. AnnouncesReady(q) => AnnouncesReady(w.out) /\ m.kind = "SERVER_INFO"
  <2>1. SUFFICES ASSUME NEW n \in 1..Len(q), q[n].kind = "WORLD_READY"
                 PROVE  AnnouncesReady(w.out) /\ m.kind = "SERVER_INFO"
    BY DEF AnnouncesReady
  <2>2. n + 1 \in 1..Len(w.out) /\ w.out[n + 1] = q[n]
    BY <1>1, <1>6, <2>1
  <2>3. QED BY <1>9, <2>1, <2>2 DEF AnnouncesReady
<1>11. Ending(w.out) /\ ~ IsEnd(m) => Ending(q)
  BY <1>1, <1>6 DEF Ending, IsEnd
<1>12. ~ w.connected /\ ~ IsEnd(m) => Ending(q) /\ IsEnd(q[Len(q)])
  <2>1. SUFFICES ASSUME ~ w.connected, ~ IsEnd(m) PROVE Ending(q) /\ IsEnd(q[Len(q)])
    OBVIOUS
  <2>2. IsEnd(w.out[Len(w.out)])
    BY <2>1 DEF Conn
  <2>3. Len(w.out) # 1
    BY <1>1, <2>1, <2>2
  <2>4. Len(q) \in 1..Len(q) /\ q[Len(q)] = w.out[Len(w.out)]
    <3>0. Len(w.out) \in Nat /\ Len(w.out) >= 1 /\ Len(q) = Len(w.out) - 1
      BY <1>1, Zenon
    <3>a. \A a \in Nat : a >= 1 /\ a # 1 => a - 1 >= 1
      OBVIOUS
    <3>1. Len(q) >= 1
      BY <2>3, <3>0, <3>a
    <3>2. QED BY <1>1, <3>1
  <2>5. QED BY <1>1, <2>2, <2>4 DEF Ending, IsEnd
<1>13. Conn(v)
  <2>1. ~ v.connected => v.out = <<>> \/ IsEnd(v.out[Len(v.out)])
    <3>1. SUFFICES ASSUME ~ w.connected, q # <<>> PROVE IsEnd(q[Len(q)])
      BY <1>3
    <3>2. Len(q) >= 1
      BY <1>1, <3>1
    <3>3. Len(q) \in 1..Len(q) /\ q[Len(q)] = w.out[Len(w.out)]
      BY <1>1, <3>2
    <3>4. QED BY <3>1, <3>3 DEF Conn
  <2>2. ReadyFirst(q)
    BY <1>9 DEF ReadyFirst
  <2>3. ASSUME AnnouncesReady(q)
        PROVE  /\ \A id \in 1..MaxRequests : Traffic(v, id) = 0
               /\ Ending(v.out) \/ Balance(v) >= 0
    <3>1. /\ \A id \in 1..MaxRequests : Traffic(w, id) = 0
          /\ Ending(w.out) \/ Balance(w) >= 0
      BY <1>10, <2>3 DEF Conn
    <3>2. m.kind = "SERVER_INFO" /\ ~ IsEnd(m)
      BY <1>10, <2>3 DEF IsEnd
    <3>3. \A id : Traffic(v, id) \in Nat
      BY <1>2, Amounts
    <3>4. \A id : Traffic(w, id) = Traffic(v, id)
      BY <1>7, <3>2, <3>3
    <3>5. Balance(w) = Balance(v)
      BY <1>2, <1>8, <3>2, Amounts
    <3>6. QED BY <1>3, <1>11, <3>1, <3>2, <3>4, <3>5
  <2>4. QED BY <1>3, <2>1, <2>2, <2>3 DEF Conn
<1>14. m.kind = "WORLD_READY" => w.out[1].kind = "WORLD_READY" /\ Unfinished(w)
  BY <1>1 DEF Unfinished, AnnouncesReady
<1>15. m.kind = "WORLD_READY" \/ IsEnd(m) => ~ Unfinished(v)
  BY <1>3, <1>10 DEF IsEnd, Unfinished
<1>16. q # <<>> /\ q[1].kind = "WORLD_READY" => m.kind = "SERVER_INFO"
  BY <1>1, <1>9
<1>17. Unfinished(v) => Unfinished(w)
  BY <1>3, <1>10 DEF Unfinished
<1>18. QED
  <2>1. v = TookFirst(w) /\ m = Head(w.out)
    BY DEF v, m
  <2>2. /\ Ending(w.out) /\ ~ IsEnd(m) => Ending(v.out)
        /\ ~ v.connected /\ ~ IsEnd(m) => Ending(v.out)
        /\ v.out # <<>> /\ v.out[1].kind = "WORLD_READY" => m.kind = "SERVER_INFO"
    BY <1>3, <1>11, <1>12, <1>16
  <2>3. QED BY <1>0, <1>1, <1>2, <1>3, <1>7, <1>8, <1>13, <1>14, <1>15, <1>17, <2>1, <2>2

\* What every packet but the goodbye leaves as it was, if neither the counts of
\* the instance nor its readiness are at stake.
LEMMA TakeKeeps ==
  ASSUME NEW i \in Instance, NEW j \in Instance, NEW w \in World, Conn(w), w.out # <<>>,
         NEW down, Suits(i, w, down), ~ IsEnd(Head(w.out)),
         j.id = i.id, j.port = i.port, j.zone = i.zone, j.ready = i.ready,
         j.sysAddr = i.sysAddr \/ j.sysAddr = j.id, ~ j.shutdownComplete,
         j.pendingRequests = i.pendingRequests,
         ~ i.ready => j.pendingAffirmations = i.pendingAffirmations,
         j.sysAddr = j.id \/ j.shuttingDown \/ Head(w.out).kind # "SERVER_INFO",
         down /\ NothingParked(i) => NothingParked(j) \/ ~ i.ready,
         i.ready => LET v == TookFirst(w)
                    IN  Ending(v.out) \/ (Asked(j, v) /\ Counted(j, v))
  PROVE  Suits(j, TookFirst(w), down)
<1> DEFINE v == TookFirst(w)
<1>1. /\ v \in World /\ Conn(v) /\ v.zone = w.zone /\ v.port = w.port
      /\ v.connected = w.connected
      /\ Unfinished(v) => Unfinished(w)
      /\ Ending(w.out) => Ending(v.out)
      /\ ~ v.connected => Ending(v.out)
      /\ v.out # <<>> /\ v.out[1].kind = "WORLD_READY" => Head(w.out).kind = "SERVER_INFO"
  BY TakeFacts
<1> HIDE DEF v
<1>2. j.ready => j.sysAddr = j.id /\ ~ Unfinished(v) /\ j.pendingRequests = <<>>
  BY <1>1 DEF Suits
<1>3. ~ j.ready => j.pendingAffirmations = <<>>
  BY DEF Suits
<1>4. v.out # <<>> /\ v.out[1].kind = "WORLD_READY" => j.sysAddr = j.id \/ j.shuttingDown
  BY <1>1
<1>5. \/ j.zone = v.zone
      \/ ~ j.ready /\ ~ Unfinished(v)
      \/ down /\ NothingParked(j)
  BY <1>1 DEF Suits, NothingParked
<1>6. j.ready => Ending(v.out) \/ (Asked(j, v) /\ Counted(j, v))
  BY DEF v
<1>7. /\ j.port = v.port /\ j.zone.map = v.zone.map /\ j.sysAddr \in {Unassigned, j.id}
      /\ j.sysAddr = j.id /\ ~ v.connected => Ending(v.out)
  BY <1>1 DEF Suits
<1>8. Suits(j, v, down)
  BY <1>2, <1>3, <1>4, <1>5, <1>6, <1>7 DEF Suits
<1>9. QED BY <1>8 DEF v

\* What a packet other than an affirmation and the goodbye says of the counts.
LEMMA TakeCounts ==
  ASSUME NEW i \in Instance, NEW j \in Instance, NEW w \in World, Conn(w), w.out # <<>>,
         NEW down, Suits(i, w, down), i.ready, ~ IsEnd(Head(w.out)),
         Head(w.out).kind # "AFFIRM_TRANSFER_RESPONSE",
         j.pendingAffirmations = i.pendingAffirmations,
         j.password = i.password, i.shuttingDown => j.shuttingDown,
         \/ j.shuttingDown
         \/ Head(w.out).kind = "PLAYER_REMOVED" /\ j.clients + 1 >= i.clients
         \/ j.clients >= i.clients + (IF Head(w.out).kind = "PLAYER_ADDED" THEN 1 ELSE 0)
  PROVE  LET v == TookFirst(w) IN Ending(v.out) \/ (Asked(j, v) /\ Counted(j, v))
<1> DEFINE v == TookFirst(w)
           m == Head(w.out)
           d == IF m.kind = "PLAYER_ADDED" THEN 1 ELSE 0
           e == IF m.kind = "PLAYER_REMOVED" THEN 1 ELSE 0
<1>1. /\ v \in World
      /\ Ending(w.out) => Ending(v.out)
      /\ \A id : Traffic(w, id) = Traffic(v, id)
           + (IF m.kind = "AFFIRM_TRANSFER_RESPONSE" /\ m.id = id THEN 1 ELSE 0)
      /\ Balance(w) = Balance(v) + d - e
  BY TakeFacts
<1> HIDE DEF v, m
<1>2. /\ Balance(w) \in Int /\ Balance(v) \in Int /\ \A id : Traffic(v, id) \in Nat
      /\ i.clients \in Nat /\ j.clients \in Nat
  BY <1>1, Amounts DEF Instance
<1>3. \A id : Traffic(w, id) = Traffic(v, id)
  BY <1>1, <1>2 DEF m
<1>4. SUFFICES ASSUME ~ Ending(w.out) PROVE Asked(j, v) /\ Counted(j, v)
  BY <1>1 DEF v
<1>5. Asked(i, w) /\ Counted(i, w)
  BY <1>4 DEF Suits
<1>6. Asked(j, v)
  BY <1>3, <1>5 DEF Asked, Waits
<1>7. Counted(j, v)
  <2>1. SUFFICES ASSUME ~ IsPrivate(j), ~ j.shuttingDown PROVE j.clients + Balance(v) >= 0
    BY DEF Counted
  <2>2. i.clients + Balance(w) >= 0
    BY <1>5, <2>1 DEF Counted, IsPrivate
  <2>3. CASE m.kind = "PLAYER_REMOVED" /\ j.clients + 1 >= i.clients
    <3>1. Balance(w) = Balance(v) + 0 - 1
      BY <1>1, <2>3
    <3>2. QED BY <1>2, <2>2, <2>3, <3>1
  <2>4. CASE j.clients >= i.clients + d
    <3>1. e \in Nat /\ d \in Nat
      OBVIOUS
    <3> HIDE DEF d, e
    <3>2. QED BY <1>1, <1>2, <2>2, <2>4, <3>1
  <2>5. QED BY <2>1, <2>3, <2>4 DEF m
<1>8. QED BY <1>6, <1>7

\* SERVER_INFO sets the address of the instance, unless it is shutting down.
LEMMA ServerInfoSuits ==
  ASSUME NEW i \in Instance, NEW w \in World, Conn(w), w.out # <<>>,
         NEW down, Suits(i, w, down), Head(w.out).kind = "SERVER_INFO"
  PROVE  /\ i.shuttingDown => Suits(i, TookFirst(w), down)
         /\ i.id \in WorldIds =>
              LET j == [i EXCEPT !.sysAddr = i.id]
              IN  j \in Instance /\ Suits(j, TookFirst(w), down)
<1>0. ~ IsEnd(Head(w.out)) /\ i.clients \in Nat
  BY DEF IsEnd, Instance
<1>1. ASSUME NEW j \in Instance,
             j.id = i.id, j.port = i.port, j.zone = i.zone, j.ready = i.ready,
             j.sysAddr = i.sysAddr \/ j.sysAddr = j.id, j.shutdownComplete = i.shutdownComplete,
             j.pendingRequests = i.pendingRequests, j.password = i.password,
             j.pendingAffirmations = i.pendingAffirmations,
             j.shuttingDown = i.shuttingDown, j.clients = i.clients,
             j.sysAddr = j.id \/ j.shuttingDown
      PROVE  Suits(j, TookFirst(w), down)
  <2>1. j.clients >= i.clients + 0 /\ ~ j.shutdownComplete
    BY <1>0, <1>1 DEF Suits
  <2>2. i.ready => LET v == TookFirst(w) IN Ending(v.out) \/ (Asked(j, v) /\ Counted(j, v))
    BY <1>0, <1>1, <2>1, TakeCounts
  <2>3. NothingParked(i) => NothingParked(j)
    BY <1>1 DEF NothingParked
  <2>4. QED BY <1>0, <1>1, <2>1, <2>2, <2>3, TakeKeeps
<1>2. i.shuttingDown => Suits(i, TookFirst(w), down)
  BY <1>1
<1>3. ASSUME i.id \in WorldIds
      PROVE  LET j == [i EXCEPT !.sysAddr = i.id]
             IN  j \in Instance /\ Suits(j, TookFirst(w), down)
  <2> DEFINE j == [i EXCEPT !.sysAddr = i.id]
  <2>1. j \in Instance
    BY <1>3 DEF Instance
  <2>2. /\ j.id = i.id /\ j.port = i.port /\ j.zone = i.zone /\ j.ready = i.ready
        /\ j.sysAddr = j.id /\ j.shutdownComplete = i.shutdownComplete
        /\ j.pendingRequests = i.pendingRequests /\ j.password = i.password
        /\ j.pendingAffirmations = i.pendingAffirmations
        /\ j.shuttingDown = i.shuttingDown /\ j.clients = i.clients
    BY DEF Instance
  <2> HIDE DEF j
  <2>3. Suits(j, TookFirst(w), down)
    BY <1>1, <2>1, <2>2
  <2>4. QED BY <2>1, <2>3 DEF j
<1>4. QED BY <1>2, <1>3

\* Packets about players, and the announcement of a shutdown.
LEMMA CountSuits ==
  ASSUME NEW i \in Instance, NEW j \in Instance, NEW w \in World, Conn(w), w.out # <<>>,
         NEW down, Suits(i, w, down),
         Head(w.out).kind \in {"PLAYER_ADDED", "PLAYER_REMOVED", "SHUTDOWN_RESPONSE"},
         j.id = i.id, j.port = i.port, j.zone = i.zone, j.ready = i.ready,
         j.sysAddr = i.sysAddr, j.shutdownComplete = i.shutdownComplete,
         j.pendingRequests = i.pendingRequests, j.password = i.password,
         j.pendingAffirmations = i.pendingAffirmations,
         i.shuttingDown => j.shuttingDown,
         \/ j.shuttingDown
         \/ Head(w.out).kind = "PLAYER_REMOVED" /\ j.clients + 1 >= i.clients
         \/ j.clients >= i.clients + (IF Head(w.out).kind = "PLAYER_ADDED" THEN 1 ELSE 0)
  PROVE  Suits(j, TookFirst(w), down)
<1>1. /\ ~ IsEnd(Head(w.out)) /\ ~ j.shutdownComplete
      /\ Head(w.out).kind # "AFFIRM_TRANSFER_RESPONSE" /\ Head(w.out).kind # "SERVER_INFO"
  BY DEF IsEnd, Suits
<1>2. i.ready => LET v == TookFirst(w) IN Ending(v.out) \/ (Asked(j, v) /\ Counted(j, v))
  BY <1>1, TakeCounts
<1>3. NothingParked(i) => NothingParked(j)
  BY DEF NothingParked
<1>4. QED BY <1>1, <1>2, <1>3, TakeKeeps

\* WORLD_READY makes the instance ready, unless it is shutting down.
LEMMA WorldReadySuits ==
  ASSUME NEW i \in Instance, NEW w \in World, Conn(w), w.out # <<>>,
         NEW down, Suits(i, w, down), Head(w.out).kind = "WORLD_READY"
  PROVE  /\ i.shuttingDown => Suits(i, TookFirst(w), down)
         /\ ~ i.shuttingDown =>
              LET j == [i EXCEPT !.ready = TRUE, !.pendingRequests = <<>>]
              IN  j \in Instance /\ Suits(j, TookFirst(w), down)
<1> DEFINE v == TookFirst(w)
           j == [i EXCEPT !.ready = TRUE, !.pendingRequests = <<>>]
<1>0. ~ IsEnd(Head(w.out)) /\ i.clients \in Nat /\ ~ i.shutdownComplete
  BY DEF IsEnd, Instance, Suits
<1>1. /\ v \in World /\ Conn(v) /\ v.zone = w.zone /\ v.port = w.port
      /\ v.connected = w.connected
      /\ Ending(w.out) => Ending(v.out)
      /\ ~ v.connected => Ending(v.out)
      /\ ~ (v.out # <<>> /\ v.out[1].kind = "WORLD_READY")
      /\ w.out[1].kind = "WORLD_READY" /\ Unfinished(w) /\ w.ready = TRUE /\ ~ Unfinished(v)
  BY <1>0, TakeFacts
<1>2. /\ \A id : Traffic(w, id) = Traffic(v, id) + 0
      /\ Balance(w) = Balance(v) + 0 - 0
  <2> DEFINE m == Head(w.out)
  <2>1. /\ \A id : Traffic(w, id) = Traffic(v, id)
           + (IF m.kind = "AFFIRM_TRANSFER_RESPONSE" /\ m.id = id THEN 1 ELSE 0)
        /\ Balance(w) = Balance(v) + (IF m.kind = "PLAYER_ADDED" THEN 1 ELSE 0)
                               - (IF m.kind = "PLAYER_REMOVED" THEN 1 ELSE 0)
    BY TakeFacts
  <2>2. m.kind = "WORLD_READY"
    OBVIOUS
  <2> HIDE DEF m, v
  <2>3. QED BY <2>1, <2>2
<1> HIDE DEF v
<1>3. Balance(w) = Balance(v) /\ \A id : Traffic(w, id) = Traffic(v, id)
  BY <1>1, <1>2, Amounts
<1>4. ~ i.ready /\ i.pendingAffirmations = <<>>
  BY <1>1 DEF Suits
<1>5. i.shuttingDown => Suits(i, v, down)
  BY <1>1, <1>4 DEF Suits
<1>6. ASSUME ~ i.shuttingDown PROVE j \in Instance /\ Suits(j, v, down)
  <2>1. j \in Instance
    <3>1. <<>> \in Seq(Pending) /\ TRUE \in BOOLEAN
      OBVIOUS
    <3>2. QED BY <3>1 DEF Instance
  <2>2. /\ j.id = i.id /\ j.port = i.port /\ j.zone = i.zone /\ j.ready = TRUE
        /\ j.sysAddr = i.sysAddr /\ ~ j.shutdownComplete
        /\ j.pendingRequests = <<>> /\ j.pendingAffirmations = i.pendingAffirmations
        /\ j.clients = i.clients
    BY <1>0 DEF Instance
  <2> HIDE DEF j
  <2>3. i.sysAddr = i.id
    BY <1>1, <1>6 DEF Suits
  <2>4. i.zone = w.zone \/ (down /\ NothingParked(i))
    BY <1>1 DEF Suits
  <2>5. Ending(v.out) \/ (Asked(j, v) /\ Counted(j, v))
    <3>1. SUFFICES ASSUME ~ Ending(w.out) PROVE Asked(j, v) /\ Counted(j, v)
      BY <1>1
    <3>2. AnnouncesReady(w.out)
      BY <1>1 DEF Unfinished
    <3>3. (\A id \in 1..MaxRequests : Traffic(v, id) = 0) /\ Balance(v) >= 0
      BY <1>3, <3>1, <3>2 DEF Conn
    <3>4. \A id : Waits(j, id) = 0
      <4>1. j.pendingAffirmations \in Seq(Pending) /\ Len(j.pendingAffirmations) = 0
        <5>1. j.pendingAffirmations = <<>>
          BY <1>4, <2>2
        <5>2. QED BY <2>1, <5>1 DEF Instance
      <4>2. \A id : Count(j.pendingAffirmations, OfId(id)) = 0
        BY <4>1, CountType
      <4>3. QED BY <4>2 DEF Waits
    <3>5. j.clients + Balance(v) >= 0
      BY <1>0, <1>1, <2>2, <3>3, Amounts
    <3>6. QED BY <3>3, <3>4, <3>5 DEF Asked, Counted
  <2>6. j.sysAddr = j.id /\ j.sysAddr \in {Unassigned, j.id}
    BY <2>2, <2>3
  <2>7. j.port = v.port /\ j.zone.map = v.zone.map
    BY <1>1, <2>2 DEF Suits
  <2>8. j.zone = v.zone \/ (down /\ NothingParked(j))
    BY <1>1, <2>2, <2>4 DEF NothingParked
  <2>9. QED BY <1>1, <2>1, <2>2, <2>5, <2>6, <2>7, <2>8 DEF Suits
<1>7. QED BY <1>5, <1>6 DEF v, j

\* An affirmation that came back: the instance forgets one request with its id,
\* if it has one.
LEMMA AffirmSuits ==
  ASSUME NEW i \in Instance, NEW w \in World, Conn(w), w.out # <<>>,
         NEW down, Suits(i, w, down), Head(w.out).kind = "AFFIRM_TRANSFER_RESPONSE"
  PROVE  /\ (\A n \in 1..Len(i.pendingAffirmations) :
               i.pendingAffirmations[n].id # Head(w.out).id)
            => Suits(i, TookFirst(w), down)
         /\ \A n \in 1..Len(i.pendingAffirmations) : \A late \in BOOLEAN :
              i.pendingAffirmations[n].id = Head(w.out).id =>
                LET j == [i EXCEPT !.pendingAffirmations = RemoveAt(i.pendingAffirmations, n),
                                   !.affirmTimedOut = late]
                IN  j \in Instance /\ Suits(j, TookFirst(w), down)
<1> DEFINE v  == TookFirst(w)
           m  == Head(w.out)
           rs == i.pendingAffirmations
           d(id) == IF m.id = id THEN 1 ELSE 0
<1>0. /\ ~ IsEnd(m) /\ i.clients \in Nat /\ ~ i.shutdownComplete /\ m.kind # "SERVER_INFO"
      /\ rs \in Seq(Pending)
  BY DEF IsEnd, Instance, Suits
<1>a. /\ v \in World /\ (Ending(w.out) => Ending(v.out)) /\ m \in ToMasterMsg
      /\ \A id : Traffic(w, id) = Traffic(v, id)
           + (IF m.kind = "AFFIRM_TRANSFER_RESPONSE" /\ m.id = id THEN 1 ELSE 0)
      /\ Balance(w) = Balance(v) + (IF m.kind = "PLAYER_ADDED" THEN 1 ELSE 0)
                               - (IF m.kind = "PLAYER_REMOVED" THEN 1 ELSE 0)
  BY <1>0, TakeFacts
<1>b. m.kind = "AFFIRM_TRANSFER_RESPONSE"
  OBVIOUS
<1> HIDE DEF v, m
<1>1. (\A id : Traffic(w, id) = Traffic(v, id) + d(id)) /\ Balance(w) = Balance(v) + 0 - 0
  BY <1>a, <1>b
<1>c. Balance(v) \in Int /\ Balance(w) \in Int /\ \A id : Traffic(v, id) \in Nat
  BY <1>a, Amounts
<1>2. Balance(w) = Balance(v)
  BY <1>1, <1>c
<1>3. m.id \in 1..MaxRequests
  BY <1>a, <1>b DEF ToMasterMsg
<1>4. ASSUME \A n \in 1..Len(rs) : rs[n].id # m.id PROVE Suits(i, v, down)
  <2>1. i.ready => Ending(w.out)
    <3>1. SUFFICES ASSUME i.ready, ~ Ending(w.out) PROVE FALSE
      OBVIOUS
    <3>2. Waits(i, m.id) = Traffic(w, m.id)
      BY <1>3, <3>1 DEF Suits, Asked
    <3>3. Waits(i, m.id) = 0
      <4>1. \A n \in 1..Len(rs) : rs[n] \notin OfId(m.id)
        BY <1>4 DEF OfId
      <4>2. QED BY <1>0, <4>1, CountType DEF Waits
    <3>4. Traffic(w, m.id) = Traffic(v, m.id) + 1
      BY <1>1
    <3>5. Traffic(v, m.id) \in Nat /\ Traffic(v, m.id) + 1 = 0
      BY <1>c, <3>2, <3>3, <3>4, Zenon
    <3>6. \A x \in Nat : x + 1 # 0
      OBVIOUS
    <3>7. QED BY <3>5, <3>6
  <2>2. i.ready => Ending(v.out) \/ (Asked(i, v) /\ Counted(i, v))
    BY <1>a, <2>1
  <2>3. QED BY <1>0, <2>2, TakeKeeps DEF v, m
<1>5. ASSUME NEW n \in 1..Len(rs), NEW late \in BOOLEAN, rs[n].id = m.id
      PROVE  LET j == [i EXCEPT !.pendingAffirmations = RemoveAt(rs, n),
                                !.affirmTimedOut = late]
             IN  j \in Instance /\ Suits(j, v, down)
  <2> DEFINE r == RemoveAt(rs, n)
             j == [i EXCEPT !.pendingAffirmations = r, !.affirmTimedOut = late]
  <2>1. r \in Seq(Pending)
    BY <1>0, RemoveAtProperties
  <2> HIDE DEF r
  <2>2. j \in Instance
    BY <2>1 DEF Instance
  <2>3. /\ j.id = i.id /\ j.port = i.port /\ j.zone = i.zone /\ j.ready = i.ready
        /\ j.sysAddr = i.sysAddr /\ j.shutdownComplete = i.shutdownComplete
        /\ j.pendingRequests = i.pendingRequests /\ j.password = i.password
        /\ j.pendingAffirmations = r
        /\ j.shuttingDown = i.shuttingDown /\ j.clients = i.clients
    BY DEF Instance
  <2> HIDE DEF j
  <2>4. rs # <<>>
    BY <1>5
  <2>5. i.ready /\ ~ NothingParked(i)
    BY <2>4 DEF Suits, NothingParked
  <2>6. Ending(v.out) \/ (Asked(j, v) /\ Counted(j, v))
    <3>1. SUFFICES ASSUME ~ Ending(w.out) PROVE Asked(j, v) /\ Counted(j, v)
      BY <1>a
    <3>2. Asked(i, w) /\ Counted(i, w)
      BY <2>5, <3>1 DEF Suits
    <3>3. Counted(j, v)
      BY <1>2, <2>3, <3>2 DEF Counted, IsPrivate
    <3>4. ASSUME NEW id \in 1..MaxRequests PROVE Waits(j, id) = Traffic(v, id)
      <4>1. Count(rs, OfId(id)) = Count(r, OfId(id)) + IF rs[n] \in OfId(id) THEN 1 ELSE 0
        BY <1>0, CountRemoveAt DEF r
      <4>2. rs[n] \in Pending
        BY <1>0
      <4>3. rs[n] \in OfId(id) <=> m.id = id
        BY <1>5, <4>2 DEF OfId
      <4>4. Count(rs, OfId(id)) = Count(r, OfId(id)) + d(id)
        BY <4>1, <4>3
      <4>5. Count(rs, OfId(id)) = Traffic(v, id) + d(id)
        BY <1>1, <3>2 DEF Asked, Waits
      <4>6. Count(r, OfId(id)) \in Nat
        BY <2>1, CountType
      <4>7. d(id) \in Nat
        OBVIOUS
      <4> HIDE DEF d, rs
      <4>8. Count(r, OfId(id)) = Traffic(v, id)
        BY <1>c, <4>4, <4>5, <4>6, <4>7
      <4>9. QED BY <2>3, <4>8 DEF Waits
    <3>5. QED BY <3>3, <3>4 DEF Asked
  <2>7. Suits(j, v, down)
    BY <1>0, <2>2, <2>3, <2>5, <2>6, TakeKeeps DEF v, m
  <2>8. QED BY <2>2, <2>7 DEF j, r
<1>6. QED BY <1>4, <1>5 DEF v, m

\* The goodbye of a world, for an instance that never had its address.
LEMMA GoodbyeSuits ==
  ASSUME NEW i \in Instance, NEW w \in World, Conn(w), w.out # <<>>,
         NEW down, Suits(i, w, down), IsEnd(Head(w.out)), i.sysAddr # i.id
  PROVE  Suits(i, TookFirst(w), down)
<1> DEFINE v == TookFirst(w)
<1>1. /\ v.zone = w.zone /\ v.port = w.port /\ ~ Unfinished(v)
      /\ ~ (v.out # <<>> /\ v.out[1].kind = "WORLD_READY")
  BY TakeFacts DEF IsEnd
<1> HIDE DEF v
<1>2. Suits(i, v, down)
  BY <1>1 DEF Suits
<1>3. QED BY <1>2 DEF v

-----------------------------------------------------------------------------
(* The table and the worlds *)

\* The table and the world processes fit together; instance x is being removed.
Linked(T, W, down, x) ==
  /\ \A p \in 1..Len(W) : Conn(W[p])
  /\ \A k \in 1..Len(T) : T[k].id \in 1..Len(W)
  /\ \A j, k \in 1..Len(T) : T[j].id = T[k].id => j = k
  /\ \A k \in 1..Len(T) : k # x => Suits(T[k], W[T[k].id], down)
  /\ ~ down => \A p \in 1..Len(W) : Unfinished(W[p]) =>
                 \E k \in 1..Len(T) : k # x /\ T[k].id = p

\* A world moves, and with it perhaps its instance.
LEMMA BothMove ==
  ASSUME NEW T \in Seq(Instance), NEW W \in Seq(World), NEW down, NEW x,
         Linked(T, W, down, x),
         NEW p \in 1..Len(W), NEW v \in World, Conn(v), Unfinished(v) => Unfinished(W[p]),
         NEW j \in 1..Len(T), T[j].id = p, NEW i \in Instance, i.id = p,
         j # x => Suits(i, v, down)
  PROVE  Linked([T EXCEPT ![j] = i], [W EXCEPT ![p] = v], down, x)
<1> DEFINE U == [T EXCEPT ![j] = i]
           V == [W EXCEPT ![p] = v]
<1>1. Len(U) = Len(T) /\ \A k \in 1..Len(T) : U[k] = IF k = j THEN i ELSE T[k]
  OBVIOUS
<1>2. Len(V) = Len(W) /\ \A q \in 1..Len(W) : V[q] = IF q = p THEN v ELSE W[q]
  OBVIOUS
<1> HIDE DEF U, V
<1>3. \A k \in 1..Len(T) : U[k].id = T[k].id
  BY <1>1
<1>4. \A k \in 1..Len(T) : T[k].id = p => k = j
  BY DEF Linked
<1>5. \A q \in 1..Len(W) : Conn(V[q])
  BY <1>2 DEF Linked
<1>6. \A k \in 1..Len(T) : k # x => Suits(U[k], V[U[k].id], down)
  <2>1. SUFFICES ASSUME NEW k \in 1..Len(T), k # x PROVE Suits(U[k], V[U[k].id], down)
    OBVIOUS
  <2>2. CASE k = j
    <3>1. U[k] = i /\ V[U[k].id] = v
      BY <1>1, <1>2, <2>2
    <3>2. QED BY <2>1, <2>2, <3>1
  <2>3. CASE k # j
    <3>1. U[k] = T[k] /\ T[k].id # p /\ T[k].id \in 1..Len(W)
      BY <1>1, <1>4, <2>3 DEF Linked
    <3>2. V[U[k].id] = W[T[k].id]
      BY <1>2, <3>1
    <3>3. QED BY <2>1, <3>1, <3>2 DEF Linked
  <2>4. QED BY <2>2, <2>3
<1>7. \A q \in 1..Len(W) : Unfinished(V[q]) => Unfinished(W[q])
  BY <1>2
<1>8. QED BY <1>1, <1>2, <1>3, <1>5, <1>6, <1>7 DEF Linked, U, V

\* A world moves; the table stays.
LEMMA WorldMoves ==
  ASSUME NEW T \in Seq(Instance), NEW W \in Seq(World), NEW down, NEW x,
         Linked(T, W, down, x),
         NEW p \in 1..Len(W), NEW v \in World, Conn(v), Unfinished(v) => Unfinished(W[p]),
         \A k \in 1..Len(T) : k # x /\ T[k].id = p => Suits(T[k], v, down)
  PROVE  Linked(T, [W EXCEPT ![p] = v], down, x)
<1> DEFINE V == [W EXCEPT ![p] = v]
<1>2. Len(V) = Len(W) /\ \A q \in 1..Len(W) : V[q] = IF q = p THEN v ELSE W[q]
  OBVIOUS
<1> HIDE DEF V
<1>5. \A q \in 1..Len(W) : Conn(V[q])
  BY <1>2 DEF Linked
<1>6. \A k \in 1..Len(T) : k # x => Suits(T[k], V[T[k].id], down)
  <2>1. SUFFICES ASSUME NEW k \in 1..Len(T), k # x PROVE Suits(T[k], V[T[k].id], down)
    OBVIOUS
  <2>2. T[k].id \in 1..Len(W)
    BY DEF Linked
  <2>3. CASE T[k].id = p
    BY <1>2, <2>1, <2>2, <2>3
  <2>4. CASE T[k].id # p
    <3>1. V[T[k].id] = W[T[k].id]
      BY <1>2, <2>2, <2>4
    <3>2. QED BY <2>1, <3>1 DEF Linked
  <2>5. QED BY <2>3, <2>4
<1>7. \A q \in 1..Len(W) : Unfinished(V[q]) => Unfinished(W[q])
  BY <1>2
<1>8. QED BY <1>2, <1>5, <1>6, <1>7 DEF Linked, V

\* A world moves as Carries allows.
LEMMA WorldCarries ==
  ASSUME NEW T \in Seq(Instance), NEW W \in Seq(World), NEW down, NEW x,
         Linked(T, W, down, x),
         NEW p \in 1..Len(W), NEW v \in World, Conn(v), Carries(W[p], v)
  PROVE  Linked(T, [W EXCEPT ![p] = v], down, x)
<1>1. \A k \in 1..Len(T) : k # x /\ T[k].id = p => Suits(T[k], v, down)
  <2>1. SUFFICES ASSUME NEW k \in 1..Len(T), k # x, T[k].id = p PROVE Suits(T[k], v, down)
    OBVIOUS
  <2>2. T[k] \in Instance /\ W[p] \in World /\ Suits(T[k], W[p], down)
    BY <2>1 DEF Linked
  <2>3. QED BY <2>2, SuitsStill
<1>2. Unfinished(v) => Unfinished(W[p])
  BY DEF Carries
<1>3. QED BY <1>1, <1>2, WorldMoves

\* The master changes its record of an instance.
LEMMA InstanceMoves ==
  ASSUME NEW T \in Seq(Instance), NEW W \in Seq(World), NEW down, NEW x,
         Linked(T, W, down, x),
         NEW j \in 1..Len(T), NEW i \in Instance, i.id = T[j].id,
         j # x => Suits(i, W[i.id], down)
  PROVE  Linked([T EXCEPT ![j] = i], W, down, x)
<1> DEFINE p == i.id
<1>1. p \in 1..Len(W) /\ W[p] \in World /\ Conn(W[p])
  BY DEF Linked
<1>2. [W EXCEPT ![p] = W[p]] = W
  BY <1>1
<1>3. T[j].id = p /\ (j # x => Suits(i, W[p], down))
  OBVIOUS
<1> HIDE DEF p
<1>4. Linked([T EXCEPT ![j] = i], [W EXCEPT ![p] = W[p]], down, x)
  BY <1>1, <1>3, BothMove DEF p
<1>5. QED BY <1>2, <1>4

\* A world process that has just been started, and its instance.
LEMMA StartedLinked ==
  ASSUME NEW T \in Seq(Instance), NEW W \in Seq(World), Len(W) < MaxWorlds, NEW down, NEW x \in 0..Len(T),
         Linked(T, W, down, x), NEW zone \in Zones, NEW port \in Nat, NEW cap \in Nat,
         NEW pw \in Passwords \cup {NoPassword}
  PROVE  LET i == NewInstance(zone, Len(W) + 1, port, cap, pw, Unassigned)
         IN  i \in Instance /\ Linked(Append(T, i), StartWorldServer(W, zone, port), down, x)
<1> DEFINE i == NewInstance(zone, Len(W) + 1, port, cap, pw, Unassigned)
           U == Append(T, i)
           V == StartWorldServer(W, zone, port)
           w == V[Len(W) + 1]
<1>0. Len(W) \in Nat /\ Len(T) \in Nat /\ MaxWorlds \in Nat
  BY ConstantsAssumption
<1>1. Len(W) + 1 \in WorldIds
  BY <1>0 DEF WorldIds
<1>2. i \in Instance
  BY <1>1, NewInstanceType
<1>3. /\ i.id = Len(W) + 1 /\ i.port = port /\ i.zone = zone /\ i.sysAddr = Unassigned
      /\ ~ i.ready /\ ~ i.shutdownComplete
      /\ i.pendingRequests = <<>> /\ i.pendingAffirmations = <<>>
  BY DEF NewInstance
<1>4. /\ V \in Seq(World) /\ Len(V) = Len(W) + 1
      /\ \A p \in 1..Len(W) : V[p] = W[p]
  BY <1>0, StartWorldServerType DEF StartWorldServer
<1>5. /\ w.zone = zone /\ w.port = port /\ ~ w.connected /\ ~ w.ready /\ w.players = 0
      /\ w.out = <<>> /\ w.in = <<>>
  BY <1>0 DEF StartWorldServer
<1>6. /\ Len(U) = Len(T) + 1 /\ U[Len(T) + 1] = i /\ \A k \in 1..Len(T) : U[k] = T[k]
  <2> HIDE DEF i
  <2> QED BY <1>2
<1> HIDE DEF i, U, V
<1>7. Conn(w)
  <2>1. Len(w.out) = 0
    BY <1>5
  <2>2. ~ AnnouncesReady(w.out) /\ ReadyFirst(w.out)
    BY <2>1 DEF AnnouncesReady, ReadyFirst
  <2>3. QED BY <1>5, <2>2 DEF Conn
<1>8. Suits(i, w, down)
  <2>1. i.sysAddr # i.id
    BY <1>0, <1>3 DEF Unassigned
  <2>2. QED BY <1>3, <1>5, <2>1 DEF Suits
<1> HIDE DEF w
<1>9. w = V[Len(W) + 1]
  BY DEF w
<1>10. \A p \in 1..Len(V) : p \in 1..Len(W) \/ p = Len(W) + 1
  BY <1>0, <1>4
<1>11. \A k \in 1..Len(U) : k \in 1..Len(T) \/ k = Len(T) + 1
  BY <1>0, <1>6
<1>12. \A k \in 1..Len(T) : k \in 1..Len(U) /\ U[k].id \in 1..Len(W) /\ U[k].id # Len(W) + 1
  BY <1>0, <1>6 DEF Linked
<1>13. \A p \in 1..Len(V) : Conn(V[p])
  BY <1>4, <1>7, <1>9, <1>10 DEF Linked
<1>14. \A k \in 1..Len(U) : U[k].id \in 1..Len(V)
  BY <1>0, <1>3, <1>4, <1>6, <1>11, <1>12
<1>15. \A j, k \in 1..Len(U) : U[j].id = U[k].id => j = k
  BY <1>3, <1>6, <1>11, <1>12 DEF Linked
<1>16. \A k \in 1..Len(U) : k # x => Suits(U[k], V[U[k].id], down)
  <2>1. SUFFICES ASSUME NEW k \in 1..Len(U), k # x PROVE Suits(U[k], V[U[k].id], down)
    OBVIOUS
  <2>2. CASE k = Len(T) + 1
    BY <1>3, <1>6, <1>8, <1>9, <2>2
  <2>3. CASE k \in 1..Len(T)
    <3>1. U[k] = T[k] /\ V[U[k].id] = W[T[k].id]
      BY <1>4, <1>6, <1>12, <2>3
    <3>2. QED BY <2>1, <2>3, <3>1 DEF Linked
  <2>4. QED BY <1>11, <2>2, <2>3
<1>17. ~ down => \A p \in 1..Len(V) : Unfinished(V[p]) =>
                   \E k \in 1..Len(U) : k # x /\ U[k].id = p
  <2>1. SUFFICES ASSUME ~ down, NEW p \in 1..Len(V), Unfinished(V[p])
                 PROVE  \E k \in 1..Len(U) : k # x /\ U[k].id = p
    OBVIOUS
  <2>2. CASE p = Len(W) + 1
    <3>1. Len(T) + 1 # x /\ Len(T) + 1 \in 1..Len(U)
      BY <1>0, <1>6
    <3>2. QED BY <1>3, <1>6, <2>2, <3>1
  <2>3. CASE p \in 1..Len(W)
    <3>1. PICK k \in 1..Len(T) : k # x /\ T[k].id = p
      BY <1>4, <2>1, <2>3 DEF Linked
    <3>2. QED BY <1>6, <1>12, <3>1
  <2>4. QED BY <1>10, <2>2, <2>3
<1>18. Linked(U, V, down, x)
  BY <1>13, <1>14, <1>15, <1>16, <1>17 DEF Linked
<1>19. QED BY <1>2, <1>18 DEF U, V, i

\* Instance k leaves the table.
LEMMA RemovedLinked ==
  ASSUME NEW T \in Seq(Instance), NEW W \in Seq(World), NEW down, NEW x \in 1..Len(T),
         Linked(T, W, down, x)
  PROVE  Linked(RemoveAt(T, x), W, down, 0)
<1> DEFINE U == RemoveAt(T, x)
           at(k) == IF k < x THEN k ELSE k + 1
<1>0. Len(T) \in Nat
  OBVIOUS
<1>1. /\ Len(U) = Len(T) - 1
      /\ \A j \in 1..Len(T)-1 : U[j] = IF j < x THEN T[j] ELSE T[j + 1]
  BY RemoveAtProperties, Zenon
<1> HIDE DEF U
<1>2. \A k \in 1..Len(U) : at(k) \in 1..Len(T) /\ at(k) # x /\ U[k] = T[at(k)]
  BY <1>0, <1>1
<1>3. \A j, k \in 1..Len(U) : at(j) = at(k) => j = k
  BY <1>0, <1>1
<1>4. \A k \in 1..Len(T) : k # x => \E j \in 1..Len(U) : U[j] = T[k]
  <2>1. SUFFICES ASSUME NEW k \in 1..Len(T), k # x PROVE \E j \in 1..Len(U) : U[j] = T[k]
    OBVIOUS
  <2>2. CASE k < x
    <3>1. k \in 1..Len(U) /\ U[k] = T[k]
      BY <1>0, <1>1, <2>2
    <3>2. QED BY <3>1
  <2>3. CASE k > x
    <3>1. k - 1 \in 1..Len(U) /\ U[k - 1] = T[(k - 1) + 1] /\ (k - 1) + 1 = k
      BY <1>0, <1>1, <2>3
    <3>2. QED BY <3>1
  <2>4. QED BY <1>0, <2>1, <2>2, <2>3
<1> HIDE DEF at
<1>5. \A k \in 1..Len(U) : U[k].id \in 1..Len(W)
  BY <1>2 DEF Linked
<1>6. \A j, k \in 1..Len(U) : U[j].id = U[k].id => j = k
  BY <1>2, <1>3 DEF Linked
<1>7. \A k \in 1..Len(U) : Suits(U[k], W[U[k].id], down)
  BY <1>2 DEF Linked
<1>8. ~ down => \A p \in 1..Len(W) : Unfinished(W[p]) =>
                  \E k \in 1..Len(U) : k # 0 /\ U[k].id = p
  <2>1. SUFFICES ASSUME ~ down, NEW p \in 1..Len(W), Unfinished(W[p])
                 PROVE  \E k \in 1..Len(U) : k # 0 /\ U[k].id = p
    OBVIOUS
  <2>2. PICK k \in 1..Len(T) : k # x /\ T[k].id = p
    BY <2>1 DEF Linked
  <2>3. PICK j \in 1..Len(U) : U[j] = T[k]
    BY <1>4, <2>2
  <2>4. QED BY <2>2, <2>3
<1>9. \A p \in 1..Len(W) : Conn(W[p])
  BY DEF Linked
<1>10. QED BY <1>5, <1>6, <1>7, <1>8, <1>9 DEF Linked, U

\* The master and the worlds fit together.
LinkedInv == Linked(m_Instances, world, m_IsShuttingDown, 0)

\* What the handler of a packet of p starts from.
LEMMA Receiving ==
  ASSUME TypeOK, LinkedInv, NEW p \in DOMAIN world, world[p].out # <<>>
  PROVE  /\ p \in 1..Len(world) /\ p \in WorldIds /\ world[p] \in World /\ Conn(world[p])
         /\ m_Instances \in Seq(Instance) /\ world \in Seq(World)
         /\ TookFirst(world[p]) \in World /\ Conn(TookFirst(world[p]))
         /\ Unfinished(TookFirst(world[p])) => Unfinished(world[p])
         /\ Taken(p) = [world EXCEPT ![p] = TookFirst(world[p])]
         /\ \A k \in 1..Len(m_Instances) :
              /\ m_Instances[k] \in Instance /\ m_Instances[k].id \in 1..Len(world)
              /\ Suits(m_Instances[k], world[m_Instances[k].id], m_IsShuttingDown)
<1>1. p \in 1..Len(world) /\ world[p] \in World /\ p \in WorldIds
  BY TypeFacts
<1>2. Conn(world[p])
  BY <1>1 DEF LinkedInv, Linked
<1>3. Taken(p) = [world EXCEPT ![p] = TookFirst(world[p])]
  BY <1>1 DEF Taken, TookFirst
<1>4. \A k \in 1..Len(m_Instances) :
        /\ m_Instances[k] \in Instance /\ m_Instances[k].id \in 1..Len(world)
        /\ Suits(m_Instances[k], world[m_Instances[k].id], m_IsShuttingDown)
  <2>1. \A k \in 1..Len(m_Instances) : k # 0
    OBVIOUS
  <2>2. QED BY <2>1, TypeFacts DEF LinkedInv, Linked
<1>5. QED BY <1>1, <1>2, <1>3, <1>4, TakeFacts DEF TypeOK

\* Which instance a search by id or by address finds, and which it misses.
LEMMA Found ==
  ASSUME TypeOK, LinkedInv, NEW p \in DOMAIN world, world[p].out # <<>>
  PROVE  LET T == m_Instances
             k == FindInstanceWithPrivate(T, world[p].zone.map, p)
             l == GetInstanceBySysAddr(T, p)
         IN  /\ k \in 0..Len(T) /\ l \in 0..Len(T)
             /\ k # 0 => k \in 1..Len(T) /\ T[k].id = p /\ ~ T[k].shuttingDown
             /\ k = 0 => \A j \in 1..Len(T) : T[j].id = p => T[j].shuttingDown
             /\ l # 0 => l \in 1..Len(T) /\ T[l].id = p /\ T[l].sysAddr = p
             /\ l = 0 => \A j \in 1..Len(T) : T[j].id = p => T[j].sysAddr # p
<1> DEFINE T == m_Instances
           k == FindInstanceWithPrivate(T, world[p].zone.map, p)
           l == GetInstanceBySysAddr(T, p)
<1>0. T \in Seq(Instance) /\ Len(T) \in Nat /\ p \in WorldIds /\ p # Unassigned
  BY Receiving DEF WorldIds, Unassigned
<1>1. /\ k \in 0..Len(T)
      /\ k # 0 => T[k].id = p /\ ~ T[k].shuttingDown
      /\ k = 0 => \A j \in 1..Len(T) : T[j].zone.map = world[p].zone.map /\ T[j].id = p
                                         => T[j].shutdownComplete \/ T[j].shuttingDown
  BY <1>0, FindInstanceWithPrivateFinds
<1>2. /\ l \in 0..Len(T)
      /\ l # 0 => T[l].sysAddr = p
      /\ l = 0 => \A j \in 1..Len(T) : T[j].sysAddr # p
  BY <1>0, GetInstanceBySysAddrFinds
<1> HIDE DEF k, l
<1>3. \A j \in 1..Len(T) :
        /\ T[j].id = p => T[j].zone.map = world[p].zone.map
        /\ ~ T[j].shutdownComplete
        /\ T[j].sysAddr \in {Unassigned, T[j].id}
  BY Receiving DEF Suits
<1>4. (k # 0 => k \in 1..Len(T)) /\ (l # 0 => l \in 1..Len(T))
  BY <1>0, <1>1, <1>2
<1>5. k = 0 => \A j \in 1..Len(T) : T[j].id = p => T[j].shuttingDown
  BY <1>1, <1>3
<1>6. l # 0 => T[l].id = p
  BY <1>0, <1>2, <1>3, <1>4
<1>7. QED BY <1>1, <1>2, <1>4, <1>5, <1>6 DEF k, l

\* A handler that changes instance k of world p, or none.
LEMMA HandlerLinks ==
  ASSUME TypeOK, LinkedInv, NEW p \in DOMAIN world, world[p].out # <<>>,
         NEW k, world' = Taken(p), UNCHANGED m_IsShuttingDown,
         k = 0 => /\ UNCHANGED m_Instances
                  /\ \A j \in 1..Len(m_Instances) : m_Instances[j].id = p =>
                       Suits(m_Instances[j], TookFirst(world[p]), m_IsShuttingDown),
         k # 0 => /\ k \in 1..Len(m_Instances) /\ m_Instances[k].id = p
                  /\ \E i \in Instance :
                       /\ m_Instances' = [m_Instances EXCEPT ![k] = i] /\ i.id = p
                       /\ Suits(i, TookFirst(world[p]), m_IsShuttingDown)
  PROVE  LinkedInv'
<1> DEFINE T == m_Instances
           v == TookFirst(world[p])
           down == m_IsShuttingDown
<1>1. /\ p \in 1..Len(world) /\ v \in World /\ Conn(v) /\ T \in Seq(Instance)
      /\ world \in Seq(World) /\ (Unfinished(v) => Unfinished(world[p]))
      /\ world' = [world EXCEPT ![p] = v]
  BY Receiving
<1>2. Linked(T, world, down, 0)
  BY DEF LinkedInv
<1> HIDE DEF v
<1>3. CASE k = 0
  <2>1. \A j \in 1..Len(T) : j # 0 /\ T[j].id = p => Suits(T[j], v, down)
    BY <1>3 DEF v
  <2>2. Linked(T, [world EXCEPT ![p] = v], down, 0)
    BY <1>1, <1>2, <2>1, WorldMoves
  <2>3. QED BY <1>1, <1>3, <2>2 DEF LinkedInv
<1>4. CASE k # 0
  <2>1. PICK i \in Instance : /\ T' = [T EXCEPT ![k] = i] /\ i.id = p
                              /\ Suits(i, v, down)
    BY <1>4 DEF v
  <2>2. k \in 1..Len(T) /\ T[k].id = p
    BY <1>4
  <2>3. Linked([T EXCEPT ![k] = i], [world EXCEPT ![p] = v], down, 0)
    BY <1>1, <1>2, <2>1, <2>2, BothMove
  <2>4. QED BY <1>1, <2>1, <2>3 DEF LinkedInv
<1>5. QED BY <1>3, <1>4

\* SERVER_INFO: a known instance gets its address; an unknown process is added
\* back only when it is in the table under no id, because the port of its
\* instance would be in use.
LEMMA ServerInfoLinks ==
  ASSUME TypeOK, LinkedInv, NEW p \in DOMAIN world, HandleServerInfo(p)
  PROVE  LinkedInv'
<1> DEFINE T == m_Instances
           w == world[p]
           v == TookFirst(w)
           down == m_IsShuttingDown
           k == FindInstanceWithPrivate(T, w.zone.map, p)
           zone0 == [w.zone EXCEPT !.clone = 0]
           new == NewInstance(zone0, p, w.port, ReAddedCap, NoPassword, p)
<1>0. world[p].out # <<>> /\ Head(w.out).kind = "SERVER_INFO"
  BY DEF HandleServerInfo, Receives
<1>1. /\ world' = Taken(p) /\ UNCHANGED m_IsShuttingDown
      /\ T' = IF ~ IsPortInUse(T, w.port) THEN Append(T, new)
              ELSE IF k # 0 THEN [T EXCEPT ![k].sysAddr = p] ELSE T
  BY DEF HandleServerInfo, UnchangedByTable
<1>2. /\ p \in 1..Len(world) /\ p \in WorldIds /\ w \in World /\ Conn(w) /\ T \in Seq(Instance)
      /\ world \in Seq(World) /\ v \in World /\ Conn(v)
      /\ Unfinished(v) => Unfinished(w)
      /\ Taken(p) = [world EXCEPT ![p] = v]
      /\ \A j \in 1..Len(T) : T[j] \in Instance /\ Suits(T[j], world[T[j].id], down)
  BY <1>0, Receiving
<1>3. /\ k # 0 => k \in 1..Len(T) /\ T[k].id = p /\ ~ T[k].shuttingDown
      /\ k = 0 => \A j \in 1..Len(T) : T[j].id = p => T[j].shuttingDown
  BY <1>0, Found
<1>4. DOMAIN T = 1..Len(T) /\ Len(T) \in Nat /\ Len(world) \in Nat
  BY <1>2
<1> HIDE DEF k
<1>5. CASE IsPortInUse(T, w.port)
  <2>1. k = 0 => UNCHANGED T /\ \A j \in 1..Len(T) : T[j].id = p => Suits(T[j], v, down)
    <3>1. SUFFICES ASSUME k = 0, NEW j \in 1..Len(T), T[j].id = p PROVE Suits(T[j], v, down)
      BY <1>1, <1>5
    <3>2. T[j].shuttingDown /\ Suits(T[j], w, down) /\ T[j] \in Instance
      BY <1>2, <1>3, <3>1
    <3>3. QED BY <1>0, <1>2, <3>2, ServerInfoSuits
  <2>2. ASSUME k # 0
        PROVE \E i \in Instance : T' = [T EXCEPT ![k] = i] /\ i.id = p /\ Suits(i, v, down)
    <3> DEFINE i == [T[k] EXCEPT !.sysAddr = T[k].id]
    <3>1. k \in 1..Len(T) /\ T[k].id = p /\ T[k] \in Instance /\ Suits(T[k], w, down)
      BY <1>2, <1>3, <2>2
    <3>2. i \in Instance /\ Suits(i, v, down)
      BY <1>0, <1>2, <3>1, ServerInfoSuits
    <3>3. i.id = p
      BY <3>1 DEF Instance
    <3>4. T' = [T EXCEPT ![k] = i]
      BY <1>1, <1>5, <2>2, <3>1
    <3> HIDE DEF i
    <3>5. QED BY <3>2, <3>3, <3>4
  <2>3. k # 0 => k \in 1..Len(T) /\ T[k].id = p
    BY <1>3
  <2> HIDE DEF v
  <2>4. QED BY <1>0, <1>1, <2>1, <2>2, <2>3, HandlerLinks DEF v
<1>6. CASE ~ IsPortInUse(T, w.port)
  <2>1. \A j \in 1..Len(T) : T[j].id # p
    <3>1. \A j \in 1..Len(T) : T[j].id = p => T[j].port = w.port
      BY <1>2 DEF Suits
    <3>2. QED BY <1>4, <1>6, <3>1 DEF IsPortInUse
  <2>2. down \/ ~ Unfinished(w)
    BY <1>2, <2>1 DEF LinkedInv, Linked
  <2>3. w.zone \in Zones /\ w.port \in Nat /\ zone0 \in Zones /\ zone0.map = w.zone.map
    <3>1. w.zone \in Zones /\ w.port \in Nat
      BY <1>2, WorldFields
    <3>2. QED BY <3>1, ConstantsAssumption
  <2>4. new \in Instance
    <3>1. ReAddedCap \in Nat
      BY DEF ReAddedCap
    <3>2. QED BY <1>2, <2>3, <3>1, NewInstanceType
  <2>5. /\ new.id = p /\ new.port = w.port /\ new.zone = zone0 /\ new.sysAddr = p
        /\ ~ new.ready /\ ~ new.shutdownComplete
        /\ new.pendingRequests = <<>> /\ new.pendingAffirmations = <<>>
    BY DEF NewInstance
  <2> HIDE DEF new, zone0
  <2>6. Suits(new, v, down)
    <3>1. /\ v.zone = w.zone /\ v.port = w.port /\ (~ v.connected => Ending(v.out))
      BY <1>0, <1>2, TakeFacts DEF IsEnd
    <3> HIDE DEF v
    <3>2. down \/ ~ Unfinished(v)
      BY <1>2, <2>2
    <3>3. NothingParked(new)
      BY <2>5 DEF NothingParked
    <3>4. QED BY <2>3, <2>5, <3>1, <3>2, <3>3 DEF Suits
  <2> DEFINE U == Append(T, new)
             V == [world EXCEPT ![p] = v]
  <2> HIDE DEF v
  <2>7. /\ Len(U) = Len(T) + 1 /\ U[Len(T) + 1] = new /\ \A j \in 1..Len(T) : U[j] = T[j]
        /\ Len(V) = Len(world) /\ V[p] = v /\ \A q \in 1..Len(world) : q # p => V[q] = world[q]
    BY <1>2, <2>4
  <2> HIDE DEF U, V
  <2>8. \A j \in 1..Len(U) : (j \in 1..Len(T) /\ U[j] = T[j]) \/ (j = Len(T) + 1 /\ U[j] = new)
    BY <1>4, <2>7
  <2>9. \A q \in 1..Len(world) : Conn(V[q]) /\ (Unfinished(V[q]) => Unfinished(world[q]))
    <3>1. \A q \in 1..Len(world) : Conn(world[q])
      BY DEF LinkedInv, Linked
    <3>2. QED BY <1>2, <2>7, <3>1 DEF v
  <2>10. \A j \in 1..Len(T) : T[j].id \in 1..Len(world) /\ T[j].id # p
    BY <2>1 DEF LinkedInv, Linked
  <2>11. \A j \in 1..Len(U) : U[j].id \in 1..Len(V)
    BY <1>2, <2>5, <2>7, <2>8, <2>10
  <2>12. \A i, j \in 1..Len(U) : U[i].id = U[j].id => i = j
    <3>1. \A i, j \in 1..Len(T) : T[i].id = T[j].id => i = j
      BY DEF LinkedInv, Linked
    <3>2. SUFFICES ASSUME NEW i \in 1..Len(U), NEW j \in 1..Len(U), U[i].id = U[j].id
                   PROVE  i = j
      OBVIOUS
    <3>3. CASE i \in 1..Len(T) /\ U[i] = T[i]
      <4>1. U[j] # new
        BY <2>5, <2>10, <3>2, <3>3
      <4>2. QED BY <2>8, <3>1, <3>2, <3>3, <4>1
    <3>4. CASE i = Len(T) + 1 /\ U[i] = new
      <4>1. ~ (j \in 1..Len(T) /\ U[j] = T[j])
        BY <2>5, <2>10, <3>2, <3>4
      <4>2. QED BY <2>8, <3>4, <4>1
    <3>5. QED BY <2>8, <3>3, <3>4
  <2>13. \A j \in 1..Len(U) : Suits(U[j], V[U[j].id], down)
    <3>1. SUFFICES ASSUME NEW j \in 1..Len(U) PROVE Suits(U[j], V[U[j].id], down)
      OBVIOUS
    <3>2. CASE j = Len(T) + 1 /\ U[j] = new
      BY <2>5, <2>6, <2>7, <3>2
    <3>3. CASE j \in 1..Len(T) /\ U[j] = T[j]
      <4>1. V[U[j].id] = world[T[j].id]
        BY <2>7, <2>10, <3>3
      <4>2. QED BY <1>2, <3>3, <4>1
    <3>4. QED BY <2>8, <3>2, <3>3
  <2>14. ~ down => \A q \in 1..Len(V) : Unfinished(V[q]) =>
                     \E j \in 1..Len(U) : j # 0 /\ U[j].id = q
    <3>1. SUFFICES ASSUME ~ down, NEW q \in 1..Len(V), Unfinished(V[q])
                   PROVE  \E j \in 1..Len(U) : j # 0 /\ U[j].id = q
      OBVIOUS
    <3>2. PICK j \in 1..Len(T) : T[j].id = q
      BY <2>7, <2>9, <3>1 DEF LinkedInv, Linked
    <3>3. j \in 1..Len(U) /\ j # 0 /\ U[j].id = q
      BY <1>4, <2>7, <3>2
    <3>4. QED BY <3>3
  <2>15. Linked(U, V, down, 0)
    BY <2>7, <2>9, <2>11, <2>12, <2>13, <2>14 DEF Linked
  <2>16. T' = U /\ world' = V
    BY <1>1, <1>2, <1>6 DEF U, V
  <2>17. QED BY <1>1, <2>15, <2>16 DEF LinkedInv
<1>7. QED BY <1>5, <1>6

\* WORLD_READY makes an instance ready when nothing waits for an affirmation.
LEMMA WorldReadyLinks ==
  ASSUME TypeOK, LinkedInv, NEW p \in DOMAIN world, HandleWorldReady(p)
  PROVE  LinkedInv'
<1> DEFINE T == m_Instances
           v == TookFirst(world[p])
           down == m_IsShuttingDown
           k == FindInstanceWithPrivate(T, world[p].zone.map, p)
           i == [T[k] EXCEPT !.ready = TRUE, !.pendingRequests = <<>>]
<1>0. world[p].out # <<>> /\ Head(world[p].out).kind = "WORLD_READY"
  BY DEF HandleWorldReady, Receives
<1>1. /\ world' = Taken(p) /\ UNCHANGED m_IsShuttingDown
      /\ k = 0 => UNCHANGED T
      /\ k # 0 => T' = [T EXCEPT ![k].ready = TRUE, ![k].pendingRequests = <<>>]
  BY DEF HandleWorldReady, UnchangedByTable
<1>2. /\ world[p] \in World /\ Conn(world[p]) /\ T \in Seq(Instance)
      /\ \A j \in 1..Len(T) : T[j] \in Instance /\ Suits(T[j], world[T[j].id], down)
  BY <1>0, Receiving
<1>3. /\ k # 0 => k \in 1..Len(T) /\ T[k].id = p /\ ~ T[k].shuttingDown
      /\ k = 0 => \A j \in 1..Len(T) : T[j].id = p => T[j].shuttingDown
  BY <1>0, Found
<1> HIDE DEF k
<1>4. ASSUME k = 0, NEW j \in 1..Len(T), T[j].id = p PROVE Suits(T[j], v, down)
  <2>1. T[j].shuttingDown /\ Suits(T[j], world[p], down) /\ T[j] \in Instance
    BY <1>2, <1>3, <1>4
  <2>2. QED BY <1>0, <1>2, <2>1, WorldReadySuits
<1>5. ASSUME k # 0
      PROVE \E e \in Instance : T' = [T EXCEPT ![k] = e] /\ e.id = p /\ Suits(e, v, down)
  <2>1. k \in 1..Len(T) /\ T[k].id = p /\ T[k] \in Instance /\ Suits(T[k], world[p], down)
    BY <1>2, <1>3, <1>5
  <2>2. i \in Instance /\ Suits(i, v, down)
    BY <1>0, <1>2, <1>3, <1>5, <2>1, WorldReadySuits
  <2>3. i.id = p
    BY <2>1 DEF Instance
  <2>4. T' = [T EXCEPT ![k] = i]
    BY <1>1, <1>2, <1>5, <2>1
  <2> HIDE DEF i
  <2>5. QED BY <2>2, <2>3, <2>4
<1>6. k # 0 => k \in 1..Len(T) /\ T[k].id = p
  BY <1>3
<1> HIDE DEF v
<1>7. QED BY <1>0, <1>1, <1>4, <1>5, <1>6, HandlerLinks DEF v

\* An affirmation that came back takes its request off the list.
LEMMA AffirmLinks ==
  ASSUME TypeOK, LinkedInv, NEW p \in DOMAIN world, HandleAffirmTransfer(p)
  PROVE  LinkedInv'
<1> DEFINE T == m_Instances
           v == TookFirst(world[p])
           down == m_IsShuttingDown
           k == GetInstanceBySysAddr(T, p)
           rs == T[k].pendingAffirmations
           id == Head(world[p].out).id
           n == PendingIndex(rs, id)
           late == T[k].affirmTimedOut /\ Len(rs) > 1
           i == [T[k] EXCEPT !.pendingAffirmations = RemoveAt(rs, n), !.affirmTimedOut = late]
           at == IF k = 0 \/ n = 0 THEN 0 ELSE k
<1>0. world[p].out # <<>> /\ Head(world[p].out).kind = "AFFIRM_TRANSFER_RESPONSE"
  BY DEF HandleAffirmTransfer, Receives
<1>1. /\ world' = Taken(p) /\ UNCHANGED m_IsShuttingDown
      /\ k = 0 \/ n = 0 => UNCHANGED T
      /\ ~ (k = 0 \/ n = 0) =>
           T' = [T EXCEPT ![k].pendingAffirmations = RemoveAt(rs, n),
                          ![k].affirmTimedOut = @ /\ Len(rs) > 1]
  BY DEF HandleAffirmTransfer, UnchangedByTable
<1>2. /\ world[p] \in World /\ Conn(world[p]) /\ T \in Seq(Instance)
      /\ \A j \in 1..Len(T) : T[j] \in Instance /\ Suits(T[j], world[T[j].id], down)
  BY <1>0, Receiving
<1>3. /\ k # 0 => k \in 1..Len(T) /\ T[k].id = p /\ T[k].sysAddr = p
      /\ k = 0 => \A j \in 1..Len(T) : T[j].id = p => T[j].sysAddr # p
  BY <1>0, Found
<1>4. k # 0 => /\ n \in 0..Len(rs)
               /\ n # 0 => rs[n].id = id
               /\ n = 0 => \A m \in 1..Len(rs) : rs[m].id # id
  <2>1. k # 0 => rs \in Seq(Pending)
    <3>1. k # 0 => T[k] \in Instance
      BY <1>2, <1>3
    <3>2. QED BY <3>1 DEF Instance
  <2> HIDE DEF rs, id
  <2>2. QED BY <2>1, PendingIndexFinds
<1> HIDE DEF k, n
<1>5. ASSUME at = 0, NEW j \in 1..Len(T), T[j].id = p PROVE Suits(T[j], v, down)
  <2>1. T[j] \in Instance /\ Suits(T[j], world[p], down)
    BY <1>2, <1>5
  <2>2. \A m \in 1..Len(T[j].pendingAffirmations) : T[j].pendingAffirmations[m].id # id
    <3>1. CASE k = 0
      <4>1. T[j].sysAddr # T[j].id
        BY <1>3, <1>5, <3>1
      <4>2. T[j].pendingAffirmations = <<>>
        BY <2>1, <4>1 DEF Suits
      <4>3. QED BY <4>2
    <3>2. CASE k # 0
      <4>1. j = k
        BY <1>3, <1>5, <3>2 DEF LinkedInv, Linked
      <4>2. n = 0
        BY <1>5, <3>2
      <4>3. QED BY <1>4, <3>2, <4>1, <4>2
    <3>3. QED BY <3>1, <3>2
  <2>3. QED BY <1>0, <1>2, <2>1, <2>2, AffirmSuits
<1>6. ASSUME at # 0
      PROVE  /\ at \in 1..Len(T) /\ T[at].id = p
             /\ \E e \in Instance : T' = [T EXCEPT ![at] = e] /\ e.id = p /\ Suits(e, v, down)
  <2>1. at = k /\ k # 0 /\ n # 0
    BY <1>6
  <2>2. k \in 1..Len(T) /\ T[k].id = p /\ T[k] \in Instance /\ Suits(T[k], world[p], down)
    BY <1>2, <1>3, <2>1
  <2>3. n \in 1..Len(rs) /\ rs[n].id = id
    <3>1. n \in 0..Len(rs) /\ rs[n].id = id
      BY <1>4, <2>1
    <3>2. rs \in Seq(Pending)
      BY <2>2 DEF Instance
    <3>3. Len(rs) \in Nat
      BY <3>2
    <3> HIDE DEF rs
    <3>4. QED BY <2>1, <3>1, <3>3
  <2>4. late \in BOOLEAN
    BY <2>2 DEF Instance
  <2>5. i \in Instance /\ Suits(i, v, down)
    <3> HIDE DEF late
    <3>1. QED BY <1>0, <1>2, <2>2, <2>3, <2>4, AffirmSuits
  <2>6. i.id = p
    BY <2>2 DEF Instance
  <2>7. T' = [T EXCEPT ![k] = i]
    <3>1. T' = [T EXCEPT ![k].pendingAffirmations = RemoveAt(rs, n),
                         ![k].affirmTimedOut = @ /\ Len(rs) > 1]
      BY <1>1, <2>1
    <3> DEFINE gone == RemoveAt(rs, n)
               more == Len(rs) > 1
    <3>2. T' = [T EXCEPT ![k].pendingAffirmations = gone, ![k].affirmTimedOut = @ /\ more]
      BY <3>1
    <3>3. i = [T[k] EXCEPT !.pendingAffirmations = gone,
                           !.affirmTimedOut = T[k].affirmTimedOut /\ more]
      OBVIOUS
    <3> HIDE DEF gone, more, i
    <3>4. QED BY <1>2, <2>2, <3>2, <3>3
  <2> HIDE DEF i, at
  <2>8. QED BY <2>1, <2>2, <2>5, <2>6, <2>7
<1>7. at = 0 => UNCHANGED T
  BY <1>1, <1>3
<1> HIDE DEF v, at
<1>8. QED BY <1>0, <1>1, <1>5, <1>6, <1>7, HandlerLinks DEF v

\* PLAYER_ADDED, PLAYER_REMOVED and SHUTDOWN_RESPONSE.
LEMMA CountLinks ==
  ASSUME TypeOK, LinkedInv, NEW p \in DOMAIN world,
         HandlePlayerAdded(p) \/ HandlePlayerRemoved(p) \/ HandleShutdownResponse(p)
  PROVE  LinkedInv'
<1> DEFINE T == m_Instances
           w == world[p]
           v == TookFirst(w)
           m == Head(w.out)
           down == m_IsShuttingDown
<1>0. /\ w.out # <<>> /\ world' = Taken(p) /\ UNCHANGED m_IsShuttingDown
      /\ m.kind \in {"PLAYER_ADDED", "PLAYER_REMOVED", "SHUTDOWN_RESPONSE"}
  BY DEF HandlePlayerAdded, HandlePlayerRemoved, HandleShutdownResponse, Receives, UnchangedByTable
<1>2. /\ w \in World /\ Conn(w) /\ T \in Seq(Instance)
      /\ \A j \in 1..Len(T) : T[j] \in Instance /\ Suits(T[j], world[T[j].id], down)
  BY <1>0, Receiving
<1>3. ASSUME NEW j \in 1..Len(T), T[j].id = p, T[j].shuttingDown \/ m.kind # "PLAYER_ADDED"
      PROVE  Suits(T[j], v, down)
  <2>1. T[j] \in Instance /\ Suits(T[j], w, down)
    BY <1>2, <1>3
  <2>2. T[j].clients + 1 >= T[j].clients /\ T[j].clients >= T[j].clients + 0
    BY <2>1 DEF Instance
  <2>3. QED BY <1>0, <1>2, <1>3, <2>1, <2>2, CountSuits
<1>4. ASSUME NEW j \in 1..Len(T), T[j].id = p, NEW n \in Nat, NEW b \in BOOLEAN,
             T[j].shuttingDown => b,
             \/ b
             \/ m.kind = "PLAYER_REMOVED" /\ n + 1 >= T[j].clients
             \/ m.kind = "PLAYER_ADDED" /\ n >= T[j].clients + 1,
             T' = [T EXCEPT ![j] = [T[j] EXCEPT !.clients = n, !.shuttingDown = b]]
      PROVE  LinkedInv'
  <2> DEFINE i == [T[j] EXCEPT !.clients = n, !.shuttingDown = b]
  <2>1. T[j] \in Instance /\ Suits(T[j], w, down)
    BY <1>2, <1>4
  <2>2. i \in Instance
    BY <2>1 DEF Instance
  <2>3. /\ i.id = T[j].id /\ i.port = T[j].port /\ i.zone = T[j].zone /\ i.ready = T[j].ready
        /\ i.sysAddr = T[j].sysAddr /\ i.shutdownComplete = T[j].shutdownComplete
        /\ i.pendingRequests = T[j].pendingRequests /\ i.password = T[j].password
        /\ i.pendingAffirmations = T[j].pendingAffirmations
        /\ i.clients = n /\ i.shuttingDown = b
    BY <2>1 DEF Instance
  <2>4. T' = [T EXCEPT ![j] = i]
    BY <1>4
  <2> HIDE DEF i
  <2>5. \/ i.shuttingDown
        \/ m.kind = "PLAYER_REMOVED" /\ i.clients + 1 >= T[j].clients
        \/ i.clients >= T[j].clients + (IF m.kind = "PLAYER_ADDED" THEN 1 ELSE 0)
    BY <1>4, <2>3
  <2>6. Suits(i, v, down)
    BY <1>0, <1>2, <1>4, <2>1, <2>2, <2>3, <2>5, CountSuits
  <2> HIDE DEF v
  <2>7. j # 0 /\ i.id = p
    BY <1>4, <2>3
  <2>8. QED BY <1>0, <1>4, <2>2, <2>4, <2>6, <2>7, HandlerLinks DEF v
<1>5. ASSUME UNCHANGED T, \A j \in 1..Len(T) : T[j].id = p =>
                            T[j].shuttingDown \/ m.kind # "PLAYER_ADDED"
      PROVE  LinkedInv'
  <2>1. \A j \in 1..Len(T) : T[j].id = p => Suits(T[j], v, down)
    BY <1>3, <1>5
  <2> HIDE DEF v
  <2>2. QED BY <1>0, <1>5, <2>1, HandlerLinks DEF v
<1>6. CASE HandlePlayerAdded(p)
  <2> DEFINE k == FindInstanceWithPrivate(T, w.zone.map, p)
  <2>1. T' = IF k = 0 THEN T ELSE [T EXCEPT ![k].clients = @ + 1]
    BY <1>6 DEF HandlePlayerAdded
  <2>2. /\ k # 0 => k \in 1..Len(T) /\ T[k].id = p
        /\ k = 0 => \A j \in 1..Len(T) : T[j].id = p => T[j].shuttingDown
    BY <1>0, Found
  <2>3. m.kind = "PLAYER_ADDED"
    BY <1>6 DEF HandlePlayerAdded, Receives
  <2> HIDE DEF k, m
  <2>4. CASE k = 0
    BY <1>5, <2>1, <2>2, <2>4
  <2>5. CASE k # 0
    <3>1. k \in 1..Len(T) /\ T[k] \in Instance /\ T[k].id = p
      BY <1>2, <2>2, <2>5
    <3> DEFINE n == T[k].clients + 1
               b == T[k].shuttingDown
    <3>2. n \in Nat /\ b \in BOOLEAN /\ n >= T[k].clients + 1
      BY <3>1 DEF Instance
    <3>3. T' = [T EXCEPT ![k] = [T[k] EXCEPT !.clients = n, !.shuttingDown = b]]
      <4>1. T' = [T EXCEPT ![k].clients = @ + 1]
        BY <2>1, <2>5
      <4>2. [T[k] EXCEPT !.clients = n, !.shuttingDown = b] = [T[k] EXCEPT !.clients = n]
        BY <3>1 DEF Instance
      <4>3. QED BY <3>1, <4>1, <4>2
    <3> HIDE DEF n
    <3>4. QED BY <1>4, <2>3, <3>1, <3>2, <3>3
  <2>6. QED BY <2>4, <2>5
<1>7. CASE HandlePlayerRemoved(p)
  <2> DEFINE k == FindPublicInstance(T, w.zone.map, p)
  <2>1. T' = IF k = 0 THEN T ELSE [T EXCEPT ![k].clients = RemovePlayer(@)]
    BY <1>7 DEF HandlePlayerRemoved
  <2>2. k \in 0..Len(T) /\ (k # 0 => T[k].id = p)
    BY <1>2, FindPublicInstanceFinds
  <2>3. m.kind = "PLAYER_REMOVED"
    BY <1>7 DEF HandlePlayerRemoved, Receives
  <2> HIDE DEF k, m
  <2>4. CASE k = 0
    BY <1>5, <2>1, <2>3, <2>4
  <2>5. CASE k # 0
    <3>1. k \in 1..Len(T) /\ T[k] \in Instance /\ T[k].id = p
      <4>1. Len(T) \in Nat
        BY <1>2
      <4>2. k \in 1..Len(T)
        BY <2>2, <2>5, <4>1
      <4>3. QED BY <1>2, <2>2, <2>5, <4>2
    <3> DEFINE n == RemovePlayer(T[k].clients)
               b == T[k].shuttingDown
    <3>2. n \in Nat /\ b \in BOOLEAN /\ n + 1 >= T[k].clients
      <4>1. T[k].clients \in Nat /\ b \in BOOLEAN
        BY <3>1 DEF Instance
      <4>2. QED BY <4>1 DEF RemovePlayer
    <3>3. T' = [T EXCEPT ![k] = [T[k] EXCEPT !.clients = n, !.shuttingDown = b]]
      <4>1. T' = [T EXCEPT ![k].clients = RemovePlayer(@)]
        BY <2>1, <2>5
      <4>2. [T[k] EXCEPT !.clients = n, !.shuttingDown = b] = [T[k] EXCEPT !.clients = n]
        BY <3>1 DEF Instance
      <4>3. QED BY <3>1, <4>1, <4>2
    <3> HIDE DEF n
    <3>4. QED BY <1>4, <2>3, <3>1, <3>2, <3>3
  <2>6. QED BY <2>4, <2>5
<1>8. CASE HandleShutdownResponse(p)
  <2> DEFINE k == GetInstanceBySysAddr(T, p)
  <2>1. T' = IF k = 0 THEN T ELSE [T EXCEPT ![k].shuttingDown = TRUE]
    BY <1>8 DEF HandleShutdownResponse
  <2>2. k # 0 => k \in 1..Len(T) /\ T[k].id = p
    BY <1>0, Found
  <2>3. m.kind # "PLAYER_ADDED"
    BY <1>8 DEF HandleShutdownResponse, Receives
  <2> HIDE DEF k, m
  <2>4. CASE k = 0
    BY <1>5, <2>1, <2>3, <2>4
  <2>5. CASE k # 0
    <3>1. k \in 1..Len(T) /\ T[k] \in Instance /\ T[k].id = p
      BY <1>2, <2>2, <2>5
    <3> DEFINE n == T[k].clients
    <3>2. n \in Nat
      BY <3>1 DEF Instance
    <3>3. T' = [T EXCEPT ![k] = [T[k] EXCEPT !.clients = n, !.shuttingDown = TRUE]]
      <4>1. T' = [T EXCEPT ![k].shuttingDown = TRUE]
        BY <2>1, <2>5
      <4>2. [T[k] EXCEPT !.clients = n, !.shuttingDown = TRUE] = [T[k] EXCEPT !.shuttingDown = TRUE]
        BY <3>1 DEF Instance
      <4>3. QED BY <3>1, <4>1, <4>2
    <3> HIDE DEF n
    <3>4. QED BY <1>4, <3>1, <3>2, <3>3
  <2>6. QED BY <2>4, <2>5
<1>9. QED BY <1>6, <1>7, <1>8

\* GetInstance, while the master is up: the instance it gives is not one that is
\* on its way out of the table.
LEMMA GetInstanceLinks ==
  ASSUME NEW T \in Seq(Instance), NEW W \in Seq(World), Len(W) <= MaxWorlds,
         NEW x \in 0..Len(T), Linked(T, W, FALSE, x),
         x # 0 => T[x].shutdownComplete \/ T[x].shuttingDown,
         NEW zone \in Zones, CanGetInstance(T, W, zone)
  PROVE  LET g == GetInstance(T, W, zone)
         IN  Linked(g.tbl, g.world, FALSE, x) /\ g.at # x
<1> DEFINE g == GetInstance(T, W, zone)
<1>0. Len(T) \in Nat /\ Len(W) \in Nat /\ MaxWorlds \in Nat
  BY ConstantsAssumption
<1>1. CASE FindJoinable(T, zone) # 0
  <2> DEFINE k == FindJoinable(T, zone)
  <2>1. Joinable(T[k], zone)
    BY <1>1, FindJoinableFinds
  <2>2. k # x
    BY <1>1, <2>1 DEF Joinable
  <2>3. GetInstance(T, W, zone) = [tbl |-> T, world |-> W, at |-> k]
    BY <1>1 DEF GetInstance
  <2> HIDE DEF k
  <2>4. g.tbl = T /\ g.world = W /\ g.at = k
    BY <2>3
  <2> HIDE DEF g
  <2>5. Linked(g.tbl, g.world, FALSE, x) /\ g.at # x
    BY <2>2, <2>4
  <2>6. QED BY <2>5 DEF g
<1>2. CASE FindJoinable(T, zone) = 0
  <2> DEFINE port == GetFreePort(T)
             i == NewInstance(zone, Len(W) + 1, port, SoftCap[zone], NoPassword, Unassigned)
             U == Append(T, i)
             V == StartWorldServer(W, zone, port)
  <2>1. GetInstance(T, W, zone) = [tbl |-> U, world |-> V, at |-> Len(T) + 1]
    BY <1>2 DEF GetInstance
  <2>2. Len(W) < MaxWorlds
    BY <1>0, <1>2 DEF CanGetInstance
  <2>3. port \in Nat /\ SoftCap[zone] \in Nat
    BY GetFreePortType, ConstantsAssumption
  <2> HIDE DEF port
  <2>4. Linked(U, V, FALSE, x)
    BY <2>2, <2>3, StartedLinked
  <2>5. Len(T) + 1 # x
    BY <1>0
  <2> HIDE DEF U, V, i
  <2>6. g.tbl = U /\ g.world = V /\ g.at = Len(T) + 1
    BY <2>1
  <2> HIDE DEF g
  <2>7. Linked(g.tbl, g.world, FALSE, x) /\ g.at # x
    BY <2>4, <2>5, <2>6
  <2>8. QED BY <2>7 DEF g
<1>3. QED BY <1>1, <1>2

\* Routing requests, while the master is up.
LEMMA RouteLinks ==
  ASSUME NEW T \in Seq(Instance), NEW W \in Seq(World), Len(W) <= MaxWorlds,
         NEW x \in 0..Len(T), Linked(T, W, FALSE, x),
         x # 0 => T[x].shutdownComplete \/ T[x].shuttingDown,
         NEW zone \in Zones, CanGetInstance(T, W, zone), NEW rs \in Seq(Pending)
  PROVE  LET r == Route(T, W, zone, rs) IN Linked(r.tbl, r.world, FALSE, x)
<1> DEFINE g == GetInstance(T, W, zone)
           U == g.tbl
           V == g.world
           k == g.at
           i == U[k]
           w == V[i.id]
           asks == [n \in DOMAIN rs |-> IdMsg("AFFIRM_TRANSFER_REQUEST", rs[n].id)]
           r == Route(T, W, zone, rs)
<1>1. U \in Seq(Instance) /\ k \in 1..Len(U) /\ V \in Seq(World) /\ Len(V) <= MaxWorlds
  BY GetInstanceType
<1>2. Linked(U, V, FALSE, x) /\ k # x
  BY GetInstanceLinks
<1>3. r = IF i.ready THEN [tbl |-> Affirm(U, k, rs), world |-> SendToWorld(V, i.sysAddr, asks)]
          ELSE [tbl |-> Pend(U, k, rs), world |-> V]
  BY DEF Route
<1> HIDE DEF g, r
<1>4. /\ i \in Instance /\ i.id \in 1..Len(V) /\ w \in World /\ Conn(w)
      /\ Suits(i, w, FALSE)
  <2> HIDE DEF U, V, k
  <2>1. i \in Instance /\ i.id \in 1..Len(V) /\ Suits(i, V[i.id], FALSE)
    <3>1. U[k] \in Instance
      BY <1>1
    <3>2. U[k].id \in 1..Len(V) /\ Suits(U[k], V[U[k].id], FALSE)
      BY <1>1, <1>2, Zenon DEF Linked
    <3>3. QED BY <3>1, <3>2
  <2>2. \A p \in 1..Len(V) : V[p] \in World /\ Conn(V[p])
    BY <1>1, <1>2 DEF Linked
  <2>3. QED BY <2>1, <2>2
<1>5. CASE i.ready
  <2> DEFINE v == IF w.connected THEN [w EXCEPT !.in = w.in \o asks] ELSE w
             j == [i EXCEPT !.pendingAffirmations = i.pendingAffirmations \o rs]
  <2>1. /\ v \in World /\ j \in Instance /\ Conn(v) /\ Suits(j, v, FALSE)
        /\ v.ready = w.ready /\ v.out = w.out
    BY <1>4, <1>5, QuestionSuits
  <2>2. i.sysAddr = i.id
    BY <1>4, <1>5 DEF Suits
  <2>3. SendToWorld(V, i.sysAddr, asks) = [V EXCEPT ![i.id] = v]
    <3> DEFINE id == i.id
    <3>1. DOMAIN V = 1..Len(V) /\ id \in DOMAIN V
      <4>1. V \in Seq(World)
        BY <1>1
      <4> HIDE DEF V
      <4>2. DOMAIN V = 1..Len(V)
        BY <4>1
      <4>3. QED BY <1>4, <4>2
    <3> HIDE DEF asks, id, V
    <3>2. CASE V[id].connected
      <4>1. v = [V[id] EXCEPT !.in = V[id].in \o asks]
        BY <3>2 DEF id
      <4>2. SendToWorld(V, id, asks) = [V EXCEPT ![id].in = @ \o asks]
        BY <3>1, <3>2 DEF SendToWorld
      <4>3. QED BY <2>2, <4>1, <4>2 DEF id
    <3>3. CASE ~ V[id].connected
      <4>1. v = V[id]
        BY <3>3 DEF id
      <4>2. SendToWorld(V, id, asks) = V
        BY <3>3 DEF SendToWorld
      <4>3. [V EXCEPT ![id] = V[id]] = V
        BY <1>1, <3>1
      <4>4. QED BY <2>2, <4>1, <4>2, <4>3 DEF id
    <3>4. QED BY <3>2, <3>3
  <2>4. Affirm(U, k, rs) = [U EXCEPT ![k] = j]
    BY <1>1 DEF Affirm
  <2>5. j.id = i.id
    BY <1>4 DEF Instance
  <2>6. r.tbl = [U EXCEPT ![k] = j] /\ r.world = [V EXCEPT ![i.id] = v]
    BY <1>3, <1>5, <2>3, <2>4
  <2>7. Unfinished(v) => Unfinished(w)
    BY <2>1 DEF Unfinished
  <2> HIDE DEF v, j, U, V, k
  <2>8. Linked([U EXCEPT ![k] = j], [V EXCEPT ![i.id] = v], FALSE, x)
    BY <1>1, <1>2, <1>4, <2>1, <2>5, <2>7, BothMove
  <2>9. QED BY <2>6, <2>8 DEF r
<1>6. CASE ~ i.ready
  <2> DEFINE j == [i EXCEPT !.pendingRequests = i.pendingRequests \o rs]
  <2>1. j \in Instance
    <3>1. i.pendingRequests \in Seq(Pending)
      BY <1>4 DEF Instance
    <3>2. i.pendingRequests \o rs \in Seq(Pending)
      BY <1>1, <3>1
    <3>3. QED BY <1>4, <3>2 DEF Instance
  <2>2. /\ j.id = i.id /\ j.port = i.port /\ j.zone = i.zone /\ j.ready = i.ready
        /\ j.sysAddr = i.sysAddr /\ j.shutdownComplete = i.shutdownComplete
        /\ j.pendingAffirmations = i.pendingAffirmations
        /\ j.shuttingDown = i.shuttingDown
    BY <1>4 DEF Instance
  <2>3. Pend(U, k, rs) = [U EXCEPT ![k] = j]
    BY <1>1 DEF Pend
  <2>4. r.tbl = [U EXCEPT ![k] = j] /\ r.world = V
    BY <1>3, <1>6, <2>3
  <2> HIDE DEF j
  <2>5. Suits(j, w, FALSE)
    BY <1>4, <1>6, <2>2 DEF Suits
  <2> HIDE DEF U, V, k
  <2>6. Linked([U EXCEPT ![k] = j], V, FALSE, x)
    BY <1>1, <1>2, <1>4, <2>1, <2>2, <2>5, InstanceMoves
  <2>7. QED BY <2>4, <2>6 DEF r
<1>7. QED BY <1>5, <1>6

\* Redirecting what an instance on its way out has not affirmed.
LEMMA RedirectLinks ==
  ASSUME NEW T \in Seq(Instance), NEW W \in Seq(World), Len(W) <= MaxWorlds,
         NEW x \in 0..Len(T), Linked(T, W, FALSE, x),
         x # 0 => T[x].shutdownComplete \/ T[x].shuttingDown,
         NEW k \in 1..Len(T), CanRedirect(T, W, k)
  PROVE  LET r == Redirect(T, W, k) IN Linked(r.tbl, r.world, FALSE, x)
<1>1. T[k].zone \in Zones /\ T[k].pendingAffirmations \in Seq(Pending)
  <2>1. T[k] \in Instance
    OBVIOUS
  <2>2. QED BY <2>1 DEF Instance
<1>2. QED BY <1>1, RouteLinks DEF Redirect, CanRedirect

\* The master tells a world to shut down.
LEMMA TellLinks ==
  ASSUME NEW T \in Seq(Instance), NEW W \in Seq(World), NEW down, NEW x,
         Linked(T, W, down, x), NEW addr
  PROVE  Linked(T, SendToWorld(W, addr, <<Msg("SHUTDOWN")>>), down, x)
<1> DEFINE ms == <<Msg("SHUTDOWN")>>
<1>1. CASE addr \in DOMAIN W /\ W[addr].connected
  <2> DEFINE w == W[addr]
             v == [w EXCEPT !.in = w.in \o ms]
  <2>1. addr \in 1..Len(W) /\ w \in World /\ Conn(w)
    BY <1>1 DEF Linked
  <2>2. v \in World /\ Conn(v) /\ Carries(w, v)
    BY <1>1, <2>1, ToldCarries
  <2>3. SendToWorld(W, addr, ms) = [W EXCEPT ![addr] = v]
    BY <1>1 DEF SendToWorld
  <2> HIDE DEF v
  <2>4. Linked(T, [W EXCEPT ![addr] = v], down, x)
    BY <2>1, <2>2, WorldCarries
  <2>5. QED BY <2>3, <2>4
<1>2. CASE ~ (addr \in DOMAIN W /\ W[addr].connected)
  BY <1>2 DEF SendToWorld
<1>3. QED BY <1>1, <1>2

\* A world that says goodbye, or is lost, has announced itself before.
LEMMA GoodbyeIsLate ==
  ASSUME NEW w \in World, Conn(w), w.out # <<>>, IsEnd(Head(w.out))
  PROVE  ~ Unfinished(w)
<1>1. w.out \in Seq(ToMasterMsg) /\ w.ready = TRUE
  BY WorldFields DEF Conn
<1>2. w.out[1].kind # "WORLD_READY" /\ w.out[1].kind # "SERVER_INFO"
  BY <1>1 DEF IsEnd
<1>3. ~ AnnouncesReady(w.out)
  BY <1>2 DEF Conn, ReadyFirst, AnnouncesReady
<1>4. QED BY <1>1, <1>3 DEF Unfinished

\* The goodbye of a world: its instance is marked, what it has not affirmed is
\* redirected past it, and it leaves the table.
LEMMA DisconnectedLinks ==
  ASSUME TypeOK, LinkedInv, NEW p \in DOMAIN world, HandleDisconnected(p)
  PROVE  LinkedInv'
<1> DEFINE T == m_Instances
           w == world[p]
           v == TookFirst(w)
           V == Taken(p)
           down == m_IsShuttingDown
           k == GetInstanceBySysAddr(T, p)
           i == [T[k] EXCEPT !.shutdownComplete = TRUE]
           U == [T EXCEPT ![k].shutdownComplete = TRUE]
           r == Redirect(U, V, k)
<1>0. /\ w.out # <<>> /\ IsEnd(Head(w.out)) /\ UNCHANGED m_IsShuttingDown
      /\ IF k = 0 THEN T' = T /\ world' = V
         ELSE IF down
         THEN T' = RemoveAt(U, k) /\ world' = V
         ELSE CanRedirect(U, world, k) /\ T' = RemoveAt(r.tbl, k) /\ world' = r.world
  BY DEF HandleDisconnected, Receives, IsEnd, UnchangedByTable
<1>1. /\ p \in 1..Len(world) /\ w \in World /\ Conn(w) /\ T \in Seq(Instance)
      /\ world \in Seq(World) /\ v \in World /\ Conn(v)
      /\ Unfinished(v) => Unfinished(w)
      /\ V = [world EXCEPT ![p] = v]
      /\ \A j \in 1..Len(T) : T[j] \in Instance /\ Suits(T[j], world[T[j].id], down)
  BY <1>0, Receiving
<1>2. /\ k # 0 => k \in 1..Len(T) /\ T[k].id = p /\ T[k].sysAddr = p
      /\ k = 0 => \A j \in 1..Len(T) : T[j].id = p => T[j].sysAddr # p
  BY <1>0, Found
<1>3. V \in Seq(World) /\ Len(V) = Len(world) /\ Len(world) <= MaxWorlds
  BY <1>0, <1>1, TakenType DEF TypeOK
<1> HIDE DEF k, r, V
<1>4. CASE k = 0
  <2>1. ASSUME NEW j \in 1..Len(T), T[j].id = p PROVE Suits(T[j], v, down)
    <3>1. T[j] \in Instance /\ Suits(T[j], w, down) /\ T[j].sysAddr # T[j].id
      BY <1>1, <1>2, <1>4, <2>1
    <3>2. QED BY <1>0, <1>1, <3>1, GoodbyeSuits
  <2>2. T' = T /\ world' = V
    BY <1>0, <1>4
  <2> HIDE DEF v
  <2>3. QED BY <1>0, <1>4, <2>1, <2>2, HandlerLinks DEF v, V
<1>5. CASE k # 0
  <2>1. k \in 1..Len(T) /\ T[k].id = p /\ T[k] \in Instance /\ Len(T) \in Nat
    BY <1>1, <1>2, <1>5
  <2>2. i \in Instance /\ i.id = p /\ i.shutdownComplete = TRUE
    BY <2>1 DEF Instance
  <2>3. U = [T EXCEPT ![k] = i]
    BY <1>1, <2>1
  <2> HIDE DEF i, U, v
  <2>4. U \in Seq(Instance) /\ Len(U) = Len(T) /\ U[k] = i
    BY <1>1, <2>1, <2>2, <2>3
  <2>5. Linked(T, world, down, k)
    <3>1. ~ Unfinished(w)
      BY <1>0, <1>1, GoodbyeIsLate
    <3>2. Linked(T, world, down, 0)
      BY DEF LinkedInv
    <3>3. \A j \in 1..Len(T) : j # 0
      OBVIOUS
    <3>4. \A q \in 1..Len(world) : Unfinished(world[q]) => q # p
      BY <3>1
    <3>5. QED BY <2>1, <3>2, <3>3, <3>4 DEF Linked
  <2>6. Linked(U, V, down, k)
    <3>1. Linked([T EXCEPT ![k] = i], [world EXCEPT ![p] = v], down, k)
      BY <1>1, <2>1, <2>2, <2>5, BothMove
    <3>2. QED BY <1>1, <2>3, <3>1
  <2>7. CASE down
    <3>1. Linked(RemoveAt(U, k), V, down, 0)
      BY <1>3, <2>1, <2>4, <2>6, RemovedLinked
    <3>2. T' = RemoveAt(U, k) /\ world' = V
      BY <1>0, <1>5, <2>7
    <3>3. QED BY <1>0, <3>1, <3>2 DEF LinkedInv
  <2>8. CASE ~ down
    <3>1. CanRedirect(U, world, k) /\ T' = RemoveAt(r.tbl, k) /\ world' = r.world
      BY <1>0, <1>5, <2>8
    <3>2. CanRedirect(U, V, k)
      BY <1>3, <3>1 DEF CanRedirect, CanGetInstance
    <3>3. down = FALSE
      BY <2>8 DEF TypeOK
    <3>4. k \in 0..Len(U) /\ k \in 1..Len(U) /\ U[k].shutdownComplete
      BY <2>1, <2>2, <2>4
    <3>5. Linked(r.tbl, r.world, FALSE, k)
      <4>1. Linked(U, V, FALSE, k)
        BY <2>6, <3>3
      <4>2. QED BY <1>3, <2>4, <3>2, <3>4, <4>1, RedirectLinks DEF r
    <3>6. /\ r.tbl \in Seq(Instance) /\ Len(U) <= Len(r.tbl) /\ r.world \in Seq(World)
      BY <1>3, <2>4, <3>2, <3>4, RedirectType DEF r
    <3>7. k \in 1..Len(r.tbl)
      BY <2>1, <2>4, <3>6
    <3>8. Linked(RemoveAt(r.tbl, k), r.world, FALSE, 0)
      BY <3>5, <3>6, <3>7, RemovedLinked
    <3>9. m_IsShuttingDown' = FALSE
      BY <1>0, <3>3
    <3>10. QED BY <3>1, <3>8, <3>9 DEF LinkedInv
  <2>9. QED BY <2>7, <2>8
<1>6. QED BY <1>4, <1>5

\* Every packet handler of the master.
LEMMA MasterReceiveLinks ==
  ASSUME TypeOK, LinkedInv, NEW p \in DOMAIN world, MasterReceive(p)
  PROVE  LinkedInv'
BY ServerInfoLinks, WorldReadyLinks, AffirmLinks, CountLinks, DisconnectedLinks DEF MasterReceive

\* Every step of a world process.
LEMMA WorldStepLinks ==
  ASSUME TypeOK, LinkedInv, NEW p \in DOMAIN world, WorldStep(p)
  PROVE  LinkedInv'
<1> DEFINE w == world[p]
<1>0. /\ p \in 1..Len(world) /\ w \in World /\ Conn(w) /\ m_Instances \in Seq(Instance)
      /\ world \in Seq(World) /\ Linked(m_Instances, world, m_IsShuttingDown, 0)
  BY TypeFacts DEF TypeOK, LinkedInv, Linked
<1>1. UnchangedByWorld
  BY DEF WorldStep, WorldConnect, WorldReceive, WorldExit, WorldGivesUp, WorldFailsToStart,
         WorldCrash, ConnectionLost, PlayerEnters, PlayerEntersTooLate, PlayerLeaves,
         PlayerLeavesUnreported
<1>2. ASSUME NEW v \in World, Conn(v), Carries(w, v), world' = [world EXCEPT ![p] = v]
      PROVE  LinkedInv'
  BY <1>0, <1>1, <1>2, WorldCarries DEF LinkedInv, UnchangedByWorld, masterVars
<1>3. CASE WorldConnect(p)
  <2>1. world' = [world EXCEPT ![p] = Attached(w)] /\ ~ w.connected
    BY <1>3 DEF WorldConnect
  <2>2. QED BY <1>0, <1>2, <2>1, AttachedType, AttachedCarries
<1>4. CASE WorldReceive(p)
  <2> DEFINE m == Head(w.in)
             u == [w EXCEPT !.in = Tail(w.in)]
             v == IF m.kind = "SHUTDOWN" THEN Exited(u)
                  ELSE SendToMaster(u, IdMsg("AFFIRM_TRANSFER_RESPONSE", m.id))
  <2>1. w.in # <<>> /\ world' = [world EXCEPT ![p] = v]
    BY <1>4 DEF WorldReceive
  <2>2. v \in World /\ Conn(v) /\ Carries(w, v)
    BY <1>0, <2>1, ReceiveCarries
  <2> HIDE DEF v
  <2>3. QED BY <1>2, <2>1, <2>2
<1>5. CASE WorldExit(p) \/ WorldGivesUp(p)
  <2>1. world' = [world EXCEPT ![p] = Exited(w)] /\ w.ready
    BY <1>5 DEF WorldExit, WorldGivesUp
  <2>2. w.ready = TRUE
    BY <1>0, <2>1, WorldFields
  <2>3. QED BY <1>0, <1>2, <2>1, <2>2, ExitedType, ExitedCarries
<1>6. CASE WorldFailsToStart(p)
  <2> DEFINE v == [w EXCEPT !.running = FALSE]
  <2>1. world' = [world EXCEPT ![p] = v]
    BY <1>6 DEF WorldFailsToStart
  <2>2. v \in World /\ Conn(v) /\ Carries(w, v)
    BY <1>0, FailsCarries
  <2> HIDE DEF v
  <2>3. QED BY <1>2, <2>1, <2>2
<1>7. CASE WorldCrash(p)
  <2>1. PICK n \in 0..Len(w.out) :
          world' = [world EXCEPT ![p] = [Dropped(w, n) EXCEPT !.running = FALSE, !.players = 0]]
    BY <1>7 DEF WorldCrash
  <2> DEFINE d == Dropped(w, n)
             v == [d EXCEPT !.running = FALSE, !.players = 0]
  <2>2. d \in World
    BY <1>0, DroppedType
  <2>3. /\ d.zone = w.zone /\ d.port = w.port /\ d.ready = w.ready /\ ~ d.connected
        /\ d.in = <<>> /\ d.out = Append(SubSeq(w.out, 1, n), Msg("CONNECTION_LOST"))
    BY <1>0 DEF World, Dropped
  <2> HIDE DEF d
  <2>4. v \in World
    BY <2>2 DEF World
  <2>5. /\ v.zone = d.zone /\ v.port = d.port /\ v.ready = d.ready
        /\ v.connected = d.connected /\ v.in = d.in /\ v.out = d.out
    BY <2>2 DEF World
  <2>6. w.connected
    BY <1>7 DEF WorldCrash
  <2>7. world' = [world EXCEPT ![p] = v]
    BY <2>1 DEF d
  <2> HIDE DEF v
  <2>8. Conn(v) /\ Carries(w, v)
    BY <1>0, <2>3, <2>4, <2>5, <2>6, DroppedCarries
  <2>9. QED BY <1>2, <2>4, <2>7, <2>8
<1>8. CASE ConnectionLost(p)
  <2>1. PICK n \in 0..Len(w.out) : world' = [world EXCEPT ![p] = Dropped(w, n)]
    BY <1>8 DEF ConnectionLost
  <2> DEFINE d == Dropped(w, n)
  <2>2. d \in World
    BY <1>0, DroppedType
  <2>3. /\ d.zone = w.zone /\ d.port = w.port /\ d.ready = w.ready /\ ~ d.connected
        /\ d.in = <<>> /\ d.out = Append(SubSeq(w.out, 1, n), Msg("CONNECTION_LOST"))
    BY <1>0 DEF World, Dropped
  <2>4. w.connected
    BY <1>8 DEF ConnectionLost
  <2> HIDE DEF d
  <2>5. Conn(d) /\ Carries(w, d)
    BY <1>0, <2>2, <2>3, <2>4, DroppedCarries
  <2>6. QED BY <1>2, <2>1, <2>2, <2>5 DEF d
<1>9. CASE PlayerEnters(p) \/ PlayerEntersTooLate(p)
  <2>1. /\ w.connected
        /\ \/ world' = [world EXCEPT ![p] = PlayerIn(w)]
           \/ world' = [world EXCEPT ![p] = SendToMaster(w, Msg("PLAYER_ADDED"))]
    BY <1>9 DEF PlayerEnters, PlayerEntersTooLate
  <2>2. Msg("PLAYER_ADDED") \in ToMasterMsg
    BY MsgTypes
  <2>3. /\ PlayerIn(w) \in World /\ Conn(PlayerIn(w)) /\ Carries(w, PlayerIn(w))
        /\ LET v == SendToMaster(w, Msg("PLAYER_ADDED"))
           IN  v \in World /\ Conn(v) /\ Carries(w, v)
    BY <1>0, <2>1, <2>2, PlayerInType, SendToMasterType, PlayersCarry
  <2>4. QED BY <1>2, <2>1, <2>3
<1>10. CASE PlayerLeaves(p)
  <2>1. w.players > 0 /\ world' = [world EXCEPT ![p] = PlayerOut(w)]
    BY <1>10 DEF PlayerLeaves
  <2>2. PlayerOut(w) \in World /\ Conn(PlayerOut(w)) /\ Carries(w, PlayerOut(w))
    BY <1>0, <2>1, PlayerOutType, PlayersCarry
  <2>3. QED BY <1>2, <2>1, <2>2
<1>11. CASE PlayerLeavesUnreported(p)
  <2> DEFINE v == [w EXCEPT !.players = w.players - 1]
  <2>1. w.players > 0 /\ world' = [world EXCEPT ![p] = v]
    BY <1>11 DEF PlayerLeavesUnreported
  <2>2. v \in World /\ Conn(v) /\ Carries(w, v)
    BY <1>0, <2>1, PlayersCarry
  <2> HIDE DEF v
  <2>3. QED BY <1>2, <2>1, <2>2
<1>12. QED BY <1>3, <1>4, <1>5, <1>6, <1>7, <1>8, <1>9, <1>10, <1>11 DEF WorldStep

\* An instance may be marked as shutting down at any time.
LEMMA MarkedSuits ==
  ASSUME NEW i \in Instance, NEW j \in Instance, NEW w \in World, Suits(i, w, FALSE),
         j.id = i.id, j.port = i.port, j.zone = i.zone, j.ready = i.ready,
         j.sysAddr = i.sysAddr, j.shutdownComplete = i.shutdownComplete,
         j.pendingRequests = i.pendingRequests,
         j.pendingAffirmations = i.pendingAffirmations, j.shuttingDown = TRUE, NEW down
  PROVE  Suits(j, w, down)
<1>1. Asked(i, w) => Asked(j, w)
  BY DEF Asked, Waits
<1>2. Counted(j, w)
  BY DEF Counted
<1>3. QED BY <1>1, <1>2 DEF Suits

\* The shutdown sequence tells every connected world, forgets the instances that
\* are not ready and marks the others.
LEMMA ShutdownLinks ==
  ASSUME TypeOK, LinkedInv, ShutdownSequence
  PROVE  LinkedInv'
<1> DEFINE T == m_Instances
           left == Prune(T)
           R == {j \in 1..Len(T) : T[j].ready}
           told(w) == IF w.connected THEN [w EXCEPT !.in = Append(@, Msg("SHUTDOWN"))] ELSE w
           marked(i) == [i EXCEPT !.shuttingDown = TRUE]
<1>0. /\ DOMAIN world = 1..Len(world) /\ Len(world) \in Nat /\ T \in Seq(Instance)
      /\ \A p \in 1..Len(world) : world[p] \in World /\ Conn(world[p])
      /\ m_IsShuttingDown = FALSE /\ m_IsShuttingDown' = TRUE
  BY TypeFacts DEF TypeOK, LinkedInv, Linked, ShutdownSequence
<1>1. Linked(T, world, FALSE, 0)
  BY <1>0 DEF LinkedInv
<1>2. /\ left \in Seq(Instance)
      /\ \A n \in 1..Len(left) : \E k \in 1..Len(T) :
           left[n] = T[k] /\ Cardinality(Upto(R, k)) = n
  BY <1>0, PruneProperties
<1> HIDE DEF left, R
<1>3. /\ T' = [k \in 1..Len(left) |-> marked(left[k])]
      /\ world' = [p \in 1..Len(world) |-> told(world[p])]
  <2>1. DOMAIN left = 1..Len(left)
    BY <1>2
  <2>2. QED BY <1>0, <2>1 DEF ShutdownSequence, left
<1>4. \A w \in World : Conn(w) => told(w) \in World /\ Conn(told(w)) /\ Carries(w, told(w))
  <2>1. SUFFICES ASSUME NEW w \in World, Conn(w)
                 PROVE  told(w) \in World /\ Conn(told(w)) /\ Carries(w, told(w))
    OBVIOUS
  <2>2. w.in \in Seq(ToWorldMsg) /\ Msg("SHUTDOWN") \in ToWorldMsg
    BY WorldFields, MsgTypes
  <2>3. Append(w.in, Msg("SHUTDOWN")) = w.in \o <<Msg("SHUTDOWN")>>
    <3> DEFINE m == Msg("SHUTDOWN")
    <3>1. m \in ToWorldMsg
      BY <2>2
    <3> HIDE DEF m
    <3>2. QED BY <2>2, <3>1
  <2>4. CASE w.connected
    <3>1. told(w) = [w EXCEPT !.in = w.in \o <<Msg("SHUTDOWN")>>]
      BY <2>3, <2>4
    <3>2. QED BY <2>1, <2>4, <3>1, ToldCarries
  <2>5. CASE ~ w.connected
    <3>1. told(w) = w
      BY <2>5
    <3>2. Carries(w, w)
      <4>1. Balance(w) >= Balance(w)
        BY Amounts
      <4>2. QED BY <4>1 DEF Carries, Conn
    <3>3. QED BY <2>1, <3>1, <3>2
  <2>6. QED BY <2>4, <2>5
<1>5. \A i \in Instance : marked(i) \in Instance /\ marked(i).id = i.id
  BY DEF Instance
<1>6. \A i \in Instance : \A w \in World : Suits(i, w, FALSE) => Suits(marked(i), w, TRUE)
  <2>1. SUFFICES ASSUME NEW i \in Instance, NEW w \in World, Suits(i, w, FALSE)
                 PROVE  Suits(marked(i), w, TRUE)
    OBVIOUS
  <2> DEFINE j == marked(i)
  <2>2. /\ j \in Instance /\ j.id = i.id /\ j.port = i.port /\ j.zone = i.zone
        /\ j.ready = i.ready /\ j.sysAddr = i.sysAddr
        /\ j.shutdownComplete = i.shutdownComplete
        /\ j.pendingRequests = i.pendingRequests
        /\ j.pendingAffirmations = i.pendingAffirmations /\ j.shuttingDown = TRUE
    BY DEF Instance
  <2> HIDE DEF j
  <2>3. Suits(j, w, TRUE)
    BY <2>1, <2>2, MarkedSuits
  <2>4. QED BY <2>3 DEF j
<1> DEFINE U == [k \in 1..Len(left) |-> marked(left[k])]
           V == [p \in 1..Len(world) |-> told(world[p])]
<1>7. /\ Len(U) = Len(left) /\ \A n \in 1..Len(left) : U[n] = marked(left[n])
      /\ Len(V) = Len(world) /\ \A p \in 1..Len(world) : V[p] = told(world[p])
  <2> HIDE DEF told, marked
  <2>1. Len(left) \in Nat
    BY <1>2
  <2>2. QED BY <1>0, <2>1
<1> HIDE DEF told, marked, U, V
<1>8. \A n \in 1..Len(left) : \E k \in 1..Len(T) :
        /\ U[n] = marked(T[k]) /\ U[n].id = T[k].id /\ Cardinality(Upto(R, k)) = n
  <2>1. \A k \in 1..Len(T) : T[k] \in Instance
    BY <1>0
  <2>2. QED BY <1>2, <1>5, <1>7, <2>1
<1>9. \A p \in 1..Len(V) : Conn(V[p])
  BY <1>0, <1>4, <1>7
<1>10. \A n \in 1..Len(U) : U[n].id \in 1..Len(V)
  BY <1>1, <1>7, <1>8 DEF Linked
<1>11. \A m, n \in 1..Len(U) : U[m].id = U[n].id => m = n
  <2>1. SUFFICES ASSUME NEW m \in 1..Len(left), NEW n \in 1..Len(left), U[m].id = U[n].id
                 PROVE  m = n
    BY <1>7
  <2>2. PICK j \in 1..Len(T) : U[m].id = T[j].id /\ Cardinality(Upto(R, j)) = m
    BY <1>8
  <2>3. PICK k \in 1..Len(T) : U[n].id = T[k].id /\ Cardinality(Upto(R, k)) = n
    BY <1>8
  <2>4. j = k
    BY <1>1, <2>1, <2>2, <2>3 DEF Linked
  <2>5. QED BY <2>2, <2>3, <2>4
<1>12. \A n \in 1..Len(U) : Suits(U[n], V[U[n].id], TRUE)
  <2>1. SUFFICES ASSUME NEW n \in 1..Len(left) PROVE Suits(U[n], V[U[n].id], TRUE)
    BY <1>7
  <2>2. PICK k \in 1..Len(T) : U[n] = marked(T[k]) /\ U[n].id = T[k].id
    BY <1>8
  <2> DEFINE w == world[T[k].id]
  <2>3. T[k] \in Instance /\ T[k].id \in 1..Len(world) /\ k # 0
    BY <1>0, <1>1 DEF Linked
  <2>4. w \in World /\ Conn(w)
    BY <1>0, <2>3
  <2>5. Suits(T[k], w, FALSE)
    BY <1>1, <2>3 DEF Linked
  <2> HIDE DEF w
  <2>6. Suits(T[k], told(w), FALSE) /\ told(w) \in World
    BY <1>4, <2>3, <2>4, <2>5, SuitsStill
  <2>7. Suits(marked(T[k]), told(w), TRUE)
    BY <1>6, <2>3, <2>6
  <2>8. V[U[n].id] = told(w)
    BY <1>7, <2>2, <2>3 DEF w
  <2>9. QED BY <2>2, <2>7, <2>8
<1>13. Linked(U, V, TRUE, 0)
  BY <1>9, <1>10, <1>11, <1>12 DEF Linked
<1>14. T' = U /\ world' = V
  BY <1>3 DEF U, V
<1>15. QED BY <1>0, <1>13, <1>14 DEF LinkedInv

\* The timer of an instance that has not affirmed in time.
LEMMA TimeoutLinks ==
  ASSUME TypeOK, LinkedInv, NEW k \in DOMAIN m_Instances, AffirmationTimeout(k)
  PROVE  LinkedInv'
<1> DEFINE T == m_Instances
           i == [T[k] EXCEPT !.shuttingDown = TRUE, !.affirmTimedOut = TRUE]
           U == [T EXCEPT ![k].shuttingDown = TRUE, ![k].affirmTimedOut = TRUE]
           W == SendToWorld(world, U[k].sysAddr, <<Msg("SHUTDOWN")>>)
<1>0. /\ k \in 1..Len(T) /\ T[k] \in Instance /\ T \in Seq(Instance)
      /\ world \in Seq(World) /\ Len(world) <= MaxWorlds
      /\ m_IsShuttingDown = FALSE /\ m_IsShuttingDown' = FALSE
  BY TypeFacts DEF TypeOK, AffirmationTimeout
<1>1. Linked(T, world, FALSE, 0)
  BY <1>0 DEF LinkedInv
<1>2. /\ i \in Instance /\ i.id = T[k].id /\ i.port = T[k].port /\ i.zone = T[k].zone
      /\ i.ready = T[k].ready /\ i.sysAddr = T[k].sysAddr
      /\ i.shutdownComplete = T[k].shutdownComplete
      /\ i.pendingRequests = T[k].pendingRequests
      /\ i.pendingAffirmations = T[k].pendingAffirmations /\ i.shuttingDown = TRUE
  BY <1>0 DEF Instance
<1>3. U = [T EXCEPT ![k] = i]
  BY <1>0
<1>4. /\ CanRedirect(U, W, k)
      /\ T' = Redirect(U, W, k).tbl /\ world' = Redirect(U, W, k).world
  BY DEF AffirmationTimeout
<1> HIDE DEF i, U
<1>5. U \in Seq(Instance) /\ Len(U) = Len(T) /\ U[k] = i
  BY <1>0, <1>2, <1>3
<1>6. Linked(U, world, FALSE, 0)
  <2>1. T[k].id \in 1..Len(world) /\ k # 0
    BY <1>0, <1>1 DEF Linked
  <2>2. world[T[k].id] \in World /\ Suits(T[k], world[T[k].id], FALSE)
    <3>1. world[T[k].id] \in World
      BY <1>0, <2>1
    <3>2. Suits(T[k], world[T[k].id], FALSE)
      BY <1>0, <1>1, <2>1, Zenon DEF Linked
    <3>3. QED BY <3>1, <3>2
  <2>3. Suits(i, world[T[k].id], FALSE)
    BY <1>0, <1>2, <2>2, MarkedSuits
  <2>4. Linked([T EXCEPT ![k] = i], world, FALSE, 0)
    BY <1>0, <1>1, <1>2, <2>3, InstanceMoves
  <2>5. QED BY <1>3, <2>4
<1>7. Linked(U, W, FALSE, 0)
  BY <1>0, <1>5, <1>6, TellLinks
<1>8. W \in Seq(World) /\ Len(W) = Len(world)
  <2>1. U[k].sysAddr \in WorldIds \cup {Unassigned}
    BY <1>2, <1>5 DEF Instance
  <2>2. <<Msg("SHUTDOWN")>> \in Seq(ToWorldMsg)
    BY MsgTypes
  <2>3. QED BY <1>0, <2>1, <2>2, SendToWorldType
<1> HIDE DEF W
<1>9. Linked(Redirect(U, W, k).tbl, Redirect(U, W, k).world, FALSE, 0)
  <2>1. 0 \in 0..Len(U) /\ k \in 1..Len(U)
    BY <1>0, <1>5
  <2>2. QED BY <1>0, <1>4, <1>5, <1>7, <1>8, <2>1, RedirectLinks
<1>10. QED BY <1>0, <1>4, <1>9 DEF LinkedInv

\* Requests of the servers, commands, the timer and the shutdown sequence.
LEMMA MasterLinks ==
  ASSUME TypeOK, LinkedInv,
         \/ \E s \in Servers : ServerStep(s)
         \/ Command
         \/ \E k \in DOMAIN m_Instances : AffirmationTimeout(k)
         \/ ShutdownSequence
  PROVE  LinkedInv'
<1>0. /\ m_Instances \in Seq(Instance) /\ world \in Seq(World) /\ Len(world) <= MaxWorlds
      /\ Linked(m_Instances, world, m_IsShuttingDown, 0)
      /\ 0 \in 0..Len(m_Instances)
  BY DEF TypeOK, LinkedInv
<1>1. CASE UNCHANGED <<m_Instances, world, m_IsShuttingDown>>
  BY <1>0, <1>1 DEF LinkedInv
<1>2. ASSUME NEW s \in Servers, NEW zone \in Zones, RequestZoneTransfer(s, zone)
      PROVE  LinkedInv'
  <2>1. UNCHANGED m_IsShuttingDown
    BY <1>2 DEF RequestZoneTransfer
  <2>2. CASE m_IsShuttingDown
    BY <1>1, <1>2, <2>1, <2>2 DEF RequestZoneTransfer
  <2>3. CASE ~ m_IsShuttingDown
    <3> DEFINE rs == <<NextRequest(s)>>
               r  == Route(m_Instances, world, zone, rs)
    <3>1. /\ CanGetInstance(m_Instances, world, zone)
          /\ m_Instances' = r.tbl /\ world' = r.world
      BY <1>2, <2>3 DEF RequestZoneTransfer
    <3>2. rs \in Seq(Pending)
      <4>1. Len(asked[s]) + 1 \in 1..MaxRequests
        <5>1. Len(asked[s]) \in Nat /\ Len(asked[s]) < MaxRequests
          BY <1>2 DEF TypeOK, RequestZoneTransfer, Ask
        <5>2. QED BY <5>1, ConstantsAssumption
      <4>2. NextRequest(s) \in Pending
        BY <4>1 DEF NextRequest, Pending
      <4>3. QED BY <4>2
    <3>3. m_IsShuttingDown = FALSE
      BY <2>3 DEF TypeOK
    <3> HIDE DEF rs
    <3>4. Linked(r.tbl, r.world, FALSE, 0)
      BY <1>0, <3>1, <3>2, <3>3, RouteLinks
    <3>5. QED BY <2>1, <3>1, <3>3, <3>4 DEF LinkedInv
  <2>4. QED BY <2>2, <2>3
<1>3. ASSUME NEW s \in Servers,
             HandleZoneTransferResponse(s) \/ \E pw \in Passwords : RequestPrivateZone(s, pw)
      PROVE  LinkedInv'
  BY <1>1, <1>3 DEF HandleZoneTransferResponse, RequestPrivateZone, masterVars
<1>4. ASSUME NEW zone \in Zones, PrepZone(zone) PROVE LinkedInv'
  <2> DEFINE g == GetInstance(m_Instances, world, zone)
  <2>1. /\ CanGetInstance(m_Instances, world, zone)
        /\ m_Instances' = g.tbl /\ world' = g.world
        /\ m_IsShuttingDown = FALSE /\ m_IsShuttingDown' = FALSE
    BY <1>4 DEF PrepZone, TypeOK
  <2>2. Linked(g.tbl, g.world, FALSE, 0)
    BY <1>0, <2>1, GetInstanceLinks
  <2>3. QED BY <2>1, <2>2 DEF LinkedInv
<1>5. ASSUME NEW zone \in Zones, NEW pw \in Passwords, CreatePrivateZone(zone, pw)
      PROVE  LinkedInv'
  <2>0. m_IsShuttingDown = FALSE /\ m_IsShuttingDown' = FALSE
    BY <1>5 DEF CreatePrivateZone, TypeOK
  <2>1. CASE FindPrivateInstance(m_Instances, pw) # 0
    BY <1>1, <1>5, <2>0, <2>1 DEF CreatePrivateZone
  <2>2. CASE FindPrivateInstance(m_Instances, pw) = 0
    <3> DEFINE port == GetFreePort(m_Instances)
               i == NewInstance(zone, Len(world) + 1, port, PrivateCap, pw, Unassigned)
    <3>1. /\ Len(world) < MaxWorlds /\ m_Instances' = Append(m_Instances, i)
          /\ world' = StartWorldServer(world, zone, port)
      BY <1>5, <2>2 DEF CreatePrivateZone
    <3>2. port \in Nat /\ PrivateCap \in Nat
      BY <1>0, GetFreePortType DEF PrivateCap
    <3> HIDE DEF port
    <3>3. Linked(Append(m_Instances, i), StartWorldServer(world, zone, port), FALSE, 0)
      BY <1>0, <2>0, <3>1, <3>2, StartedLinked
    <3>4. QED BY <2>0, <3>1, <3>3 DEF LinkedInv
  <2>3. QED BY <2>1, <2>2
<1>6. ASSUME NEW map, NEW id, ShutdownInstance(map, id) PROVE LinkedInv'
  <2> DEFINE addr == m_Instances[FindPublicInstance(m_Instances, map, id)].sysAddr
  <2>1. /\ world' = SendToWorld(world, addr, <<Msg("SHUTDOWN")>>)
        /\ UNCHANGED <<m_Instances, m_IsShuttingDown>>
    BY <1>6 DEF ShutdownInstance, masterVars
  <2> HIDE DEF addr
  <2>2. QED BY <1>0, <2>1, TellLinks DEF LinkedInv
<1>7. QED
  BY <1>2, <1>3, <1>4, <1>5, <1>6, TimeoutLinks, ShutdownLinks DEF ServerStep, Command

\* Before the master has heard of anything.
LEMMA InitLinks == Init => LinkedInv
<1>1. SUFFICES ASSUME Init PROVE LinkedInv
  OBVIOUS
<1>2. m_Instances = <<>> /\ world = <<>>
  BY <1>1 DEF Init
<1>3. Len(m_Instances) = 0 /\ Len(world) = 0
  BY <1>2
<1>4. QED BY <1>3 DEF LinkedInv, Linked

\* Every step.
LEMMA LinkedStep == TypeOK /\ LinkedInv /\ [Next]_vars => LinkedInv'
<1>1. SUFFICES ASSUME TypeOK, LinkedInv, [Next]_vars PROVE LinkedInv'
  OBVIOUS
<1>2. CASE \E p \in DOMAIN world : WorldStep(p) \/ MasterReceive(p)
  BY <1>1, <1>2, WorldStepLinks, MasterReceiveLinks
<1>3. CASE UNCHANGED vars
  BY <1>1, <1>3 DEF LinkedInv, vars, masterVars
<1>4. QED BY <1>1, <1>2, <1>3, MasterLinks DEF Next

\* The invariant, of one instance of the table.
LEMMA LinkedInstance ==
  ASSUME TypeOK, LinkedInv, NEW k \in DOMAIN m_Instances
  PROVE  LET i == m_Instances[k]
             w == world[i.id]
         IN  /\ i \in Instance /\ i.id \in 1..Len(world) /\ w \in World /\ Conn(w)
             /\ Suits(i, w, m_IsShuttingDown)
<1>1. k \in 1..Len(m_Instances) /\ k # 0 /\ m_Instances[k] \in Instance
  BY TypeFacts
<1>2. m_Instances[k].id \in 1..Len(world)
  BY <1>1 DEF LinkedInv, Linked
<1>3. world[m_Instances[k].id] \in World /\ Conn(world[m_Instances[k].id])
  BY <1>2, TypeFacts DEF LinkedInv, Linked
<1>4. Suits(m_Instances[k], world[m_Instances[k].id], m_IsShuttingDown)
  BY <1>1, Zenon DEF LinkedInv, Linked
<1>5. QED BY <1>1, <1>2, <1>3, <1>4

\* The counts of the properties, in the terms of the proof.
LEMMA SameCounts ==
  /\ \A q \in Seq(ToMasterMsg) : \A kind : CountKind(q, kind) = Count(q, OfKind(kind))
  /\ \A q \in Seq(ToMasterMsg) : \A id :
       CountId(q, "AFFIRM_TRANSFER_RESPONSE", id) = Count(q, Answers(id))
  /\ \A q \in Seq(ToWorldMsg) : \A id :
       CountId(q, "AFFIRM_TRANSFER_REQUEST", id) = Count(q, Questions(id))
  /\ \A q \in Seq(Pending) : \A id :
       Cardinality({n \in DOMAIN q : q[n].id = id}) = Count(q, OfId(id))
<1>1. ASSUME NEW q \in Seq(ToMasterMsg), NEW kind PROVE CountKind(q, kind) = Count(q, OfKind(kind))
  <2>1. \A n \in DOMAIN q : q[n] \in ToMasterMsg
    OBVIOUS
  <2>2. {n \in DOMAIN q : q[n].kind = kind} = Positions(q, OfKind(kind))
    BY <2>1 DEF Positions, OfKind
  <2>3. QED BY <2>2 DEF CountKind, Count
<1>2. ASSUME NEW q \in Seq(ToMasterMsg), NEW id
      PROVE  CountId(q, "AFFIRM_TRANSFER_RESPONSE", id) = Count(q, Answers(id))
  <2>1. \A n \in DOMAIN q : q[n] \in ToMasterMsg
    OBVIOUS
  <2>2. {n \in DOMAIN q : q[n].kind = "AFFIRM_TRANSFER_RESPONSE" /\ q[n].id = id}
          = Positions(q, Answers(id))
    BY <2>1 DEF Positions, Answers
  <2>3. QED BY <2>2 DEF CountId, Count
<1>3. ASSUME NEW q \in Seq(ToWorldMsg), NEW id
      PROVE  CountId(q, "AFFIRM_TRANSFER_REQUEST", id) = Count(q, Questions(id))
  <2>1. \A n \in DOMAIN q : q[n] \in ToWorldMsg
    OBVIOUS
  <2>2. {n \in DOMAIN q : q[n].kind = "AFFIRM_TRANSFER_REQUEST" /\ q[n].id = id}
          = Positions(q, Questions(id))
    BY <2>1 DEF Positions, Questions
  <2>3. QED BY <2>2 DEF CountId, Count
<1>4. ASSUME NEW q \in Seq(Pending), NEW id
      PROVE  Cardinality({n \in DOMAIN q : q[n].id = id}) = Count(q, OfId(id))
  <2>1. \A n \in DOMAIN q : q[n] \in Pending
    OBVIOUS
  <2>2. {n \in DOMAIN q : q[n].id = id} = Positions(q, OfId(id))
    BY <2>1 DEF Positions, OfId
  <2>3. QED BY <2>2 DEF Count
<1>5. QED BY <1>1, <1>2, <1>3, <1>4

\* Requests wait on an instance that is not ready on one list and on a ready one
\* on the other (ParkedOnTheRightList), through redirects, removals, worlds that
\* announce themselves late and the shutdown of the master.
THEOREM RequestsStayOnTheirList == Spec => []ParkedOnTheRightList
<1>1. TypeOK /\ LinkedInv => ParkedOnTheRightList
  <2>1. SUFFICES ASSUME TypeOK, LinkedInv, NEW k \in DOMAIN m_Instances
                 PROVE  LET i == m_Instances[k]
                        IN  /\ i.pendingRequests # <<>> => ~ i.ready
                            /\ i.pendingAffirmations # <<>> => i.ready /\ i.sysAddr # Unassigned
    BY DEF ParkedOnTheRightList
  <2>2. /\ m_Instances[k].id \in 1..Len(world)
        /\ Suits(m_Instances[k], world[m_Instances[k].id], m_IsShuttingDown)
    BY <2>1, LinkedInstance
  <2>3. m_Instances[k].id # Unassigned
    BY <2>2 DEF Unassigned
  <2>4. QED BY <2>2, <2>3 DEF Suits
<1>2. QED BY <1>1, InitLinks, LinkedStep, TypeCorrect, PTL DEF Spec

\* Nobody waits for an affirmation that is not coming (AffirmationOnTheWire):
\* neither a redirect, nor a late answer to a request that was redirected, nor a
\* connection that broke puts the lists and the wire out of step.
THEOREM AffirmationsStayOnTheWire == Spec => []AffirmationOnTheWire
<1>1. TypeOK /\ LinkedInv => AffirmationOnTheWire
  <2>1. SUFFICES ASSUME TypeOK, LinkedInv, NEW k \in DOMAIN m_Instances,
                        m_Instances[k].pendingAffirmations # <<>>,
                        ~ Ending(world[m_Instances[k].sysAddr].out),
                        NEW id \in 1..MaxRequests
                 PROVE  LET i == m_Instances[k]
                            w == world[i.sysAddr]
                        IN  Cardinality({n \in DOMAIN i.pendingAffirmations :
                                           i.pendingAffirmations[n].id = id})
                              = CountId(w.in, "AFFIRM_TRANSFER_REQUEST", id)
                                + CountId(w.out, "AFFIRM_TRANSFER_RESPONSE", id)
    BY DEF AffirmationOnTheWire
  <2> DEFINE i == m_Instances[k]
             w == world[i.id]
  <2>2. i \in Instance /\ w \in World /\ Suits(i, w, m_IsShuttingDown)
    BY <2>1, LinkedInstance
  <2>3. /\ i.pendingAffirmations \in Seq(Pending)
        /\ w.in \in Seq(ToWorldMsg) /\ w.out \in Seq(ToMasterMsg)
    BY <2>2, WorldFields DEF Instance
  <2>4. i.sysAddr = i.id /\ i.ready
    BY <2>1, <2>2 DEF Suits
  <2>5. Waits(i, id) = Traffic(w, id)
    BY <2>1, <2>2, <2>4 DEF Suits, Asked
  <2>6. QED BY <2>3, <2>4, <2>5, SameCounts DEF Waits, Traffic
<1>2. QED BY <1>1, InitLinks, LinkedStep, TypeCorrect, PTL DEF Spec

\* The master never counts fewer players than a world has
\* (ClientCountCoversPopulation).
THEOREM ClientCountStaysCovering == Spec => []ClientCountCoversPopulation
<1>1. TypeOK /\ LinkedInv => ClientCountCoversPopulation
  <2>1. SUFFICES ASSUME TypeOK, LinkedInv, NEW k \in DOMAIN m_Instances,
                        m_Instances[k].ready, ~ m_Instances[k].shuttingDown,
                        ~ IsPrivate(m_Instances[k]),
                        ~ Ending(world[m_Instances[k].id].out)
                 PROVE  LET i == m_Instances[k]
                            w == world[i.id]
                        IN  i.clients + CountKind(w.out, "PLAYER_ADDED")
                              >= w.players + CountKind(w.out, "PLAYER_REMOVED")
    BY DEF ClientCountCoversPopulation
  <2> DEFINE i == m_Instances[k]
             w == world[i.id]
             a == Count(w.out, OfKind("PLAYER_ADDED"))
             r == Count(w.out, OfKind("PLAYER_REMOVED"))
  <2>2. i \in Instance /\ w \in World /\ Suits(i, w, m_IsShuttingDown)
    BY <2>1, LinkedInstance
  <2>3. /\ i.clients \in Nat /\ w.players \in Nat
        /\ w.in \in Seq(ToWorldMsg) /\ w.out \in Seq(ToMasterMsg)
    BY <2>2, WorldFields DEF Instance
  <2>4. i.clients + Balance(w) >= 0
    BY <2>1, <2>2 DEF Suits, Counted
  <2>5. a \in Nat /\ r \in Nat
    BY <2>3, CountType
  <2>6. CountKind(w.out, "PLAYER_ADDED") = a /\ CountKind(w.out, "PLAYER_REMOVED") = r
    BY <2>3, SameCounts
  <2>7. i.clients + ((a - r) - w.players) >= 0
    BY <2>4 DEF Balance
  <2>8. \A c, p, m, n \in Nat : c + ((m - n) - p) >= 0 => c + m >= p + n
    OBVIOUS
  <2>9. i.clients + a >= w.players + r
    BY <2>3, <2>5, <2>7, <2>8
  <2>10. QED BY <2>6, <2>9
<1>2. QED BY <1>1, InitLinks, LinkedStep, TypeCorrect, PTL DEF Spec

-----------------------------------------------------------------------------
(* What the requests of an instance were for *)

\* Request r was for this zone; as: what the servers have asked for.
AskedFor(r, zone, as) == r.id \in DOMAIN as[r.server] /\ as[r.server][r.id] = zone

\* The requests on the lists of an instance were for its zone.
Books(i, as) ==
  /\ \A n \in 1..Len(i.pendingRequests) : AskedFor(i.pendingRequests[n], i.zone, as)
  /\ \A n \in 1..Len(i.pendingAffirmations) : AskedFor(i.pendingAffirmations[n], i.zone, as)

Booked(T, as) == \A k \in 1..Len(T) : Books(T[k], as)

\* A new instance has nothing on its lists.
LEMMA NewBooked ==
  ASSUME NEW T \in Seq(Instance), NEW as, Booked(T, as), NEW i \in Instance,
         i.pendingRequests = <<>>, i.pendingAffirmations = <<>>
  PROVE  Booked(Append(T, i), as)
<1>1. /\ Len(Append(T, i)) = Len(T) + 1 /\ Append(T, i)[Len(T) + 1] = i /\ Len(T) \in Nat
      /\ \A k \in 1..Len(T) : Append(T, i)[k] = T[k]
  OBVIOUS
<1>2. Books(i, as)
  <2>1. Len(i.pendingRequests) = 0 /\ Len(i.pendingAffirmations) = 0
    OBVIOUS
  <2>2. QED BY <2>1 DEF Books
<1>3. \A k \in 1..Len(T) + 1 : k \in 1..Len(T) \/ k = Len(T) + 1
  BY <1>1
<1>4. QED BY <1>1, <1>2, <1>3 DEF Booked

\* An instance changes.
LEMMA ChangedBooked ==
  ASSUME NEW T \in Seq(Instance), NEW as, Booked(T, as), NEW k, NEW i,
         k \in 1..Len(T) => Books(i, as)
  PROVE  Booked([T EXCEPT ![k] = i], as)
<1>1. /\ Len([T EXCEPT ![k] = i]) = Len(T)
      /\ \A j \in 1..Len(T) : [T EXCEPT ![k] = i][j] = IF j = k THEN i ELSE T[j]
  OBVIOUS
<1>2. QED BY <1>1 DEF Booked

\* The lists of an instance after more requests, that were for its zone.
LEMMA MoreBooked ==
  ASSUME NEW i \in Instance, NEW as, Books(i, as), NEW rs \in Seq(Pending),
         \A n \in 1..Len(rs) : AskedFor(rs[n], i.zone, as)
  PROVE  /\ Books([i EXCEPT !.pendingRequests = i.pendingRequests \o rs], as)
         /\ Books([i EXCEPT !.pendingAffirmations = i.pendingAffirmations \o rs], as)
<1>1. i.pendingRequests \in Seq(Pending) /\ i.pendingAffirmations \in Seq(Pending)
  BY DEF Instance
<1>2. ASSUME NEW ps \in Seq(Pending), \A n \in 1..Len(ps) : AskedFor(ps[n], i.zone, as)
      PROVE  \A n \in 1..Len(ps \o rs) : AskedFor((ps \o rs)[n], i.zone, as)
  <2> DEFINE S == {r \in Pending : AskedFor(r, i.zone, as)}
  <2>1. /\ \A n \in 1..Len(ps) : ps[n] \in S
        /\ \A n \in 1..Len(rs) : rs[n] \in S
    <3>1. /\ \A n \in 1..Len(ps) : ps[n] \in Pending
          /\ \A n \in 1..Len(rs) : rs[n] \in Pending
      OBVIOUS
    <3>2. QED BY <1>2, <3>1, Zenon
  <2> HIDE DEF S
  <2>a. ps \in Seq(S) /\ rs \in Seq(S)
    BY <2>1
  <2>2. ps \o rs \in Seq(S)
    BY <2>a
  <2>3. \A n \in 1..Len(ps \o rs) : (ps \o rs)[n] \in S
    BY <2>2
  <2>4. QED BY <2>3 DEF S
<1>3. \A n \in 1..Len(i.pendingRequests \o rs) :
        AskedFor((i.pendingRequests \o rs)[n], i.zone, as)
  BY <1>1, <1>2 DEF Books
<1>4. \A n \in 1..Len(i.pendingAffirmations \o rs) :
        AskedFor((i.pendingAffirmations \o rs)[n], i.zone, as)
  BY <1>1, <1>2 DEF Books
<1> DEFINE j(x) == [i EXCEPT !.pendingRequests = x]
           l(x) == [i EXCEPT !.pendingAffirmations = x]
<1>5. \A x : /\ j(x).zone = i.zone /\ j(x).pendingRequests = x
             /\ j(x).pendingAffirmations = i.pendingAffirmations
             /\ l(x).zone = i.zone /\ l(x).pendingRequests = i.pendingRequests
             /\ l(x).pendingAffirmations = x
  BY DEF Instance
<1> HIDE DEF j, l
<1>6. Books(j(i.pendingRequests \o rs), as) /\ Books(l(i.pendingAffirmations \o rs), as)
  BY <1>3, <1>4, <1>5, Zenon DEF Books
<1>7. QED BY <1>6 DEF j, l

\* GetInstance gives an instance of the zone.
LEMMA GetInstanceBooked ==
  ASSUME NEW T \in Seq(Instance), NEW W \in Seq(World), Len(W) <= MaxWorlds,
         NEW zone \in Zones, CanGetInstance(T, W, zone), NEW as, Booked(T, as)
  PROVE  LET g == GetInstance(T, W, zone)
         IN  Booked(g.tbl, as) /\ g.tbl[g.at].zone = zone
<1> DEFINE g == GetInstance(T, W, zone)
           k == FindJoinable(T, zone)
<1>1. CASE k # 0
  <2>1. Joinable(T[k], zone)
    BY <1>1, FindJoinableFinds
  <2>2. g = [tbl |-> T, world |-> W, at |-> k]
    BY <1>1 DEF GetInstance
  <2> HIDE DEF k
  <2>3. g.tbl = T /\ g.at = k
    BY <2>2
  <2> HIDE DEF g
  <2>4. Booked(g.tbl, as) /\ g.tbl[g.at].zone = zone
    BY <2>1, <2>3 DEF Joinable
  <2>5. QED BY <2>4 DEF g
<1>2. CASE k = 0
  <2> DEFINE port == GetFreePort(T)
             i == NewInstance(zone, Len(W) + 1, port, SoftCap[zone], NoPassword, Unassigned)
  <2>1. g = [tbl |-> Append(T, i), world |-> StartWorldServer(W, zone, port), at |-> Len(T) + 1]
    BY <1>2 DEF GetInstance
  <2>2. Len(W) + 1 \in WorldIds
    BY <1>2, ConstantsAssumption DEF CanGetInstance, WorldIds
  <2>3. port \in Nat /\ SoftCap[zone] \in Nat
    BY GetFreePortType, ConstantsAssumption
  <2> HIDE DEF port
  <2>4. i \in Instance
    BY <2>2, <2>3, NewInstanceType
  <2>5. i.zone = zone /\ i.pendingRequests = <<>> /\ i.pendingAffirmations = <<>>
    BY DEF NewInstance
  <2> HIDE DEF i
  <2>6. Booked(Append(T, i), as)
    BY <2>4, <2>5, NewBooked
  <2>a. Append(T, i)[Len(T) + 1] = i
    BY <2>4
  <2>7. g.tbl = Append(T, i) /\ g.at = Len(T) + 1
    BY <2>1
  <2> HIDE DEF g
  <2>8. Booked(g.tbl, as) /\ g.tbl[g.at].zone = zone
    BY <2>5, <2>6, <2>7, <2>a
  <2>9. QED BY <2>8 DEF g
<1>3. QED BY <1>1, <1>2

\* Requests for a zone are routed to instances of this zone.
LEMMA RouteBooked ==
  ASSUME NEW T \in Seq(Instance), NEW W \in Seq(World), Len(W) <= MaxWorlds,
         NEW zone \in Zones, CanGetInstance(T, W, zone), NEW as, Booked(T, as),
         NEW rs \in Seq(Pending), \A n \in 1..Len(rs) : AskedFor(rs[n], zone, as)
  PROVE  Booked(Route(T, W, zone, rs).tbl, as)
<1> DEFINE g == GetInstance(T, W, zone)
           U == g.tbl
           k == g.at
           i == U[k]
           r == Route(T, W, zone, rs)
<1>1. U \in Seq(Instance) /\ k \in 1..Len(U)
  BY GetInstanceType
<1>2. Booked(U, as) /\ i.zone = zone
  BY GetInstanceBooked
<1>3. r.tbl = IF i.ready THEN Affirm(U, k, rs) ELSE Pend(U, k, rs)
  BY DEF Route
<1> HIDE DEF g, r, U, k
<1>4. i \in Instance /\ Books(i, as)
  <2>1. U[k] \in Instance
    BY <1>1
  <2>2. Books(U[k], as)
    BY <1>1, <1>2, Zenon DEF Booked
  <2>3. QED BY <2>1, <2>2
<1>5. /\ Affirm(U, k, rs) = [U EXCEPT ![k] = [i EXCEPT !.pendingAffirmations = i.pendingAffirmations \o rs]]
      /\ Pend(U, k, rs) = [U EXCEPT ![k] = [i EXCEPT !.pendingRequests = i.pendingRequests \o rs]]
  BY <1>1 DEF Affirm, Pend
<1>6. /\ Books([i EXCEPT !.pendingRequests = i.pendingRequests \o rs], as)
      /\ Books([i EXCEPT !.pendingAffirmations = i.pendingAffirmations \o rs], as)
  BY <1>2, <1>4, MoreBooked
<1>7. Booked(Affirm(U, k, rs), as) /\ Booked(Pend(U, k, rs), as)
  <2>1. \A j : Books(j, as) => Booked([U EXCEPT ![k] = j], as)
    BY <1>1, <1>2, ChangedBooked
  <2> HIDE DEF i
  <2>2. QED BY <1>5, <1>6, <2>1
<1>8. Booked(r.tbl, as)
  BY <1>3, <1>7
<1>9. QED BY <1>8 DEF r

\* So are the affirmations of an instance that are redirected.
LEMMA RedirectBooked ==
  ASSUME NEW T \in Seq(Instance), NEW W \in Seq(World), Len(W) <= MaxWorlds,
         NEW k \in 1..Len(T), CanRedirect(T, W, k), NEW as, Booked(T, as)
  PROVE  Booked(Redirect(T, W, k).tbl, as)
<1>1. T[k] \in Instance
  OBVIOUS
<1>2. T[k].zone \in Zones /\ T[k].pendingAffirmations \in Seq(Pending)
  BY <1>1 DEF Instance
<1>3. \A n \in 1..Len(T[k].pendingAffirmations) : AskedFor(T[k].pendingAffirmations[n], T[k].zone, as)
  BY DEF Booked, Books
<1>4. CASE T[k].pendingAffirmations = <<>>
  BY <1>4 DEF Redirect
<1>5. CASE T[k].pendingAffirmations # <<>>
  <2>1. CanGetInstance(T, W, T[k].zone)
    BY <1>5 DEF CanRedirect
  <2>2. Redirect(T, W, k) = Route(T, W, T[k].zone, T[k].pendingAffirmations)
    BY <1>5 DEF Redirect
  <2>3. QED BY <1>2, <1>3, <2>1, <2>2, RouteBooked
<1>6. QED BY <1>4, <1>5

\* What a server asks for is added to what it has asked for.
LEMMA AskAdds ==
  ASSUME TypeOK, NEW s \in Servers, NEW want \in Wants, Ask(s, want)
  PROVE  /\ \A t \in Servers : DOMAIN asked[t] \subseteq DOMAIN asked'[t]
         /\ \A t \in Servers : \A id \in DOMAIN asked[t] : asked'[t][id] = asked[t][id]
         /\ Len(asked[s]) + 1 \in DOMAIN asked'[s] /\ Len(asked[s]) + 1 \notin DOMAIN asked[s]
         /\ asked'[s][Len(asked[s]) + 1] = want
<1>1. asked \in [Servers -> Seq(Wants)] /\ asked' = [asked EXCEPT ![s] = Append(asked[s], want)]
  BY DEF TypeOK, Ask
<1>2. /\ DOMAIN asked[s] = 1..Len(asked[s]) /\ Len(asked[s]) \in Nat
      /\ DOMAIN Append(asked[s], want) = 1..(Len(asked[s]) + 1)
      /\ \A id \in 1..Len(asked[s]) : Append(asked[s], want)[id] = asked[s][id]
      /\ Append(asked[s], want)[Len(asked[s]) + 1] = want
  <2>1. asked[s] \in Seq(Wants)
    BY <1>1
  <2>2. QED BY <2>1
<1>3. asked'[s] = Append(asked[s], want) /\ \A t \in Servers : t # s => asked'[t] = asked[t]
  BY <1>1
<1>4. 1..Len(asked[s]) \subseteq 1..(Len(asked[s]) + 1)
  BY <1>2
<1>5. Len(asked[s]) + 1 \in 1..(Len(asked[s]) + 1) /\ Len(asked[s]) + 1 \notin 1..Len(asked[s])
  BY <1>2
<1>6. \A t \in Servers : DOMAIN asked[t] \subseteq DOMAIN asked'[t]
  BY <1>2, <1>3, <1>4, Zenon
<1>7. \A t \in Servers : \A id \in DOMAIN asked[t] : asked'[t][id] = asked[t][id]
  BY <1>2, <1>3, Zenon
<1>8. QED BY <1>2, <1>3, <1>5, <1>6, <1>7

\* So what is on the lists stays right.
LEMMA AskBooked ==
  ASSUME TypeOK, NEW s \in Servers, NEW want \in Wants, Ask(s, want),
         Booked(m_Instances, asked)
  PROVE  Booked(m_Instances, asked') /\ AskedFor(NextRequest(s), want, asked')
<1>1. \A r \in Pending : \A z : AskedFor(r, z, asked) => AskedFor(r, z, asked')
  <2>1. \A r \in Pending : r.server \in Servers
    BY DEF Pending
  <2>2. QED BY <2>1, AskAdds DEF AskedFor
<1>2. \A i \in Instance : Books(i, asked) => Books(i, asked')
  <2>1. \A i \in Instance : /\ \A n \in 1..Len(i.pendingRequests) : i.pendingRequests[n] \in Pending
                            /\ \A n \in 1..Len(i.pendingAffirmations) : i.pendingAffirmations[n] \in Pending
    BY DEF Instance
  <2>2. QED BY <1>1, <2>1 DEF Books
<1>3. Booked(m_Instances, asked')
  BY <1>2, TypeFacts DEF Booked
<1>4. AskedFor(NextRequest(s), want, asked')
  BY AskAdds DEF AskedFor, NextRequest
<1>5. QED BY <1>3, <1>4

\* An erased instance takes its lists with it.
LEMMA RemovedBooked ==
  ASSUME NEW T \in Seq(Instance), NEW k \in 1..Len(T), NEW as, Booked(T, as)
  PROVE  Booked(RemoveAt(T, k), as)
<1> DEFINE S == {i \in Instance : Books(i, as)}
           U == RemoveAt(T, k)
<1>a. \A n \in 1..Len(T) : T[n] \in S
  <2>1. \A n \in 1..Len(T) : T[n] \in Instance
    OBVIOUS
  <2>2. QED BY <2>1, Zenon DEF Booked
<1> HIDE DEF S
<1>1. T \in Seq(S)
  BY <1>a
<1>2. U \in Seq(S)
  BY <1>1, RemoveAtProperties
<1> HIDE DEF U
<1>3. \A n \in 1..Len(U) : U[n] \in S
  BY <1>2
<1>4. QED BY <1>3 DEF Booked, S, U

\* The packet handlers of the master.
LEMMA MasterReceiveBooked ==
  ASSUME TypeOK, Booked(m_Instances, asked), NEW p \in DOMAIN world, MasterReceive(p)
  PROVE  Booked(m_Instances, asked)'
<1> DEFINE T == m_Instances
           map == world[p].zone.map
<1>0. /\ p \in 1..Len(world) /\ world[p] \in World /\ T \in Seq(Instance) /\ p \in WorldIds
      /\ world \in Seq(World) /\ Len(world) <= MaxWorlds
      /\ \A k \in 1..Len(T) : T[k] \in Instance /\ Books(T[k], asked)
  BY TypeFacts DEF TypeOK, Booked
<1>1. asked' = asked
  BY DEF MasterReceive, HandleServerInfo, HandleWorldReady, HandleAffirmTransfer,
         HandlePlayerAdded, HandlePlayerRemoved, HandleShutdownResponse, HandleDisconnected,
         UnchangedByTable
<1>2. ASSUME NEW k \in 1..Len(T), NEW i, T' = [T EXCEPT ![k] = i], Books(i, asked)
      PROVE  Booked(T', asked)
  BY <1>0, <1>2, ChangedBooked
<1>3. ASSUME NEW i \in Instance, NEW j, j.zone = i.zone, Books(i, asked),
             j.pendingRequests = i.pendingRequests,
             j.pendingAffirmations = i.pendingAffirmations
      PROVE  Books(j, asked)
  BY <1>3 DEF Books
<1>4. CASE HandleServerInfo(p)
  <2> DEFINE w   == world[p]
             k   == FindInstanceWithPrivate(T, map, p)
             new == NewInstance([w.zone EXCEPT !.clone = 0], p, w.port, ReAddedCap, NoPassword, p)
             i   == [T[k] EXCEPT !.sysAddr = p]
  <2>1. k \in 0..Len(T)
    BY <1>0, FindInstanceWithPrivateFinds
  <2>2. T' = IF ~ IsPortInUse(T, w.port) THEN Append(T, new)
             ELSE IF k # 0 THEN [T EXCEPT ![k].sysAddr = p] ELSE T
    BY <1>4 DEF HandleServerInfo
  <2>3. new.pendingRequests = <<>> /\ new.pendingAffirmations = <<>>
    BY DEF NewInstance
  <2>4. new \in Instance
    <3>1. [w.zone EXCEPT !.clone = 0] \in Zones /\ w.port \in Nat
      BY <1>0, ConstantsAssumption DEF World
    <3>2. ReAddedCap \in Nat
      BY DEF ReAddedCap
    <3>3. QED BY <1>0, <3>1, <3>2, NewInstanceType
  <2> HIDE DEF new
  <2>5. CASE ~ IsPortInUse(T, w.port)
    <3>1. T' = Append(T, new)
      BY <2>2, <2>5
    <3>2. QED BY <1>0, <1>1, <2>3, <2>4, <3>1, NewBooked
  <2>6. CASE IsPortInUse(T, w.port) /\ k # 0
    <3> HIDE DEF k
    <3>1. k \in 1..Len(T) /\ T[k] \in Instance /\ Books(T[k], asked)
      BY <1>0, <2>1, <2>6
    <3>2. T' = [T EXCEPT ![k] = i]
      BY <1>0, <2>2, <2>6, <3>1
    <3>3. /\ i.zone = T[k].zone /\ i.pendingRequests = T[k].pendingRequests
          /\ i.pendingAffirmations = T[k].pendingAffirmations
      BY <3>1 DEF Instance
    <3> HIDE DEF i
    <3>4. Books(i, asked)
      BY <1>3, <3>1, <3>3
    <3>5. QED BY <1>1, <1>2, <3>1, <3>2, <3>4
  <2>7. CASE IsPortInUse(T, w.port) /\ k = 0
    BY <1>1, <2>2, <2>7
  <2>8. QED BY <2>5, <2>6, <2>7
<1>5. CASE HandleWorldReady(p)
  <2> DEFINE k == FindInstanceWithPrivate(T, map, p)
             i == [T[k] EXCEPT !.ready = TRUE, !.pendingRequests = <<>>]
  <2>1. k \in 0..Len(T)
    BY <1>0, FindInstanceWithPrivateFinds
  <2>2. T' = IF k = 0 THEN T ELSE [T EXCEPT ![k].ready = TRUE, ![k].pendingRequests = <<>>]
    BY <1>5 DEF HandleWorldReady
  <2> HIDE DEF k
  <2>3. CASE k # 0
    <3>1. k \in 1..Len(T) /\ T[k] \in Instance /\ Books(T[k], asked)
      BY <1>0, <2>1, <2>3
    <3>2. T' = [T EXCEPT ![k] = i]
      BY <1>0, <2>2, <2>3, <3>1
    <3>3. /\ i.zone = T[k].zone /\ i.pendingRequests = <<>>
          /\ i.pendingAffirmations = T[k].pendingAffirmations
      BY <3>1 DEF Instance
    <3> HIDE DEF i
    <3>4. Books(i, asked)
      <4>1. Len(i.pendingRequests) = 0
        BY <3>3
      <4>2. QED BY <3>1, <3>3, <4>1 DEF Books
    <3>5. QED BY <1>1, <1>2, <3>1, <3>2, <3>4
  <2>4. QED BY <1>1, <2>2, <2>3
<1>6. CASE HandleAffirmTransfer(p)
  <2> DEFINE k  == GetInstanceBySysAddr(T, p)
             rs == T[k].pendingAffirmations
             n  == PendingIndex(rs, Head(world[p].out).id)
             i  == [T[k] EXCEPT !.pendingAffirmations = RemoveAt(rs, n),
                                !.affirmTimedOut = @ /\ Len(rs) > 1]
  <2>1. k \in 0..Len(T)
    BY <1>0, GetInstanceBySysAddrFinds
  <2>2. T' = IF k = 0 \/ n = 0 THEN T
             ELSE [T EXCEPT ![k].pendingAffirmations = RemoveAt(rs, n),
                            ![k].affirmTimedOut = @ /\ Len(rs) > 1]
    BY <1>6 DEF HandleAffirmTransfer
  <2> HIDE DEF k
  <2>3. CASE k # 0 /\ n # 0
    <3>1. k \in 1..Len(T) /\ T[k] \in Instance /\ Books(T[k], asked)
      BY <1>0, <2>1, <2>3
    <3>2. rs \in Seq(Pending)
      BY <3>1 DEF Instance
    <3>3. n \in 1..Len(rs)
      BY <2>3, <3>2, PendingIndexFinds
    <3>4. T' = [T EXCEPT ![k] = i]
      <4> HIDE DEF n, rs
      <4>1. QED BY <1>0, <2>2, <2>3, <3>1
    <3> HIDE DEF n
    <3>5. /\ i.zone = T[k].zone /\ i.pendingRequests = T[k].pendingRequests
          /\ i.pendingAffirmations = RemoveAt(rs, n)
      <4> HIDE DEF rs
      <4>1. QED BY <3>1 DEF Instance
    <3> HIDE DEF i
    <3>6. \A m \in 1..Len(RemoveAt(rs, n)) : AskedFor(RemoveAt(rs, n)[m], T[k].zone, asked)
      <4> DEFINE S == {r \in Pending : AskedFor(r, T[k].zone, asked)}
                 R == RemoveAt(rs, n)
      <4>1. rs \in Seq(S)
        BY <3>1, <3>2 DEF Books
      <4> HIDE DEF S, rs
      <4>2. R \in Seq(S)
        BY <3>3, <4>1, RemoveAtProperties
      <4> HIDE DEF R
      <4>3. \A m \in 1..Len(R) : R[m] \in S
        BY <4>2
      <4>4. QED BY <4>3 DEF S, R
    <3>7. Books(i, asked)
      BY <3>1, <3>5, <3>6 DEF Books
    <3>8. QED BY <1>1, <1>2, <3>1, <3>4, <3>7
  <2>4. QED BY <1>1, <2>2, <2>3
<1>7. CASE HandlePlayerAdded(p) \/ HandlePlayerRemoved(p) \/ HandleShutdownResponse(p)
  <2> DEFINE k == FindInstanceWithPrivate(T, map, p)
             l == FindPublicInstance(T, map, p)
             m == GetInstanceBySysAddr(T, p)
  <2>1. k \in 0..Len(T) /\ l \in 0..Len(T) /\ m \in 0..Len(T)
    BY <1>0, FindInstanceWithPrivateFinds, FindPublicInstanceFinds, GetInstanceBySysAddrFinds
  <2>2. \/ T' = T
        \/ k # 0 /\ T' = [T EXCEPT ![k].clients = @ + 1]
        \/ l # 0 /\ T' = [T EXCEPT ![l].clients = RemovePlayer(@)]
        \/ m # 0 /\ T' = [T EXCEPT ![m].shuttingDown = TRUE]
    BY <1>7 DEF HandlePlayerAdded, HandlePlayerRemoved, HandleShutdownResponse
  <2> HIDE DEF k, l, m
  <2>3. ASSUME NEW j \in 1..Len(T), NEW i,
               \/ i = [T[j] EXCEPT !.clients = T[j].clients + 1]
               \/ i = [T[j] EXCEPT !.clients = RemovePlayer(T[j].clients)]
               \/ i = [T[j] EXCEPT !.shuttingDown = TRUE]
        PROVE  Books(i, asked)
    <3>1. T[j] \in Instance /\ Books(T[j], asked)
      BY <1>0
    <3>2. /\ i.zone = T[j].zone /\ i.pendingRequests = T[j].pendingRequests
          /\ i.pendingAffirmations = T[j].pendingAffirmations
      BY <2>3, <3>1 DEF Instance
    <3>3. QED BY <1>3, <3>1, <3>2
  <2>4. CASE T' = T
    BY <1>1, <2>4
  <2>5. CASE k # 0 /\ T' = [T EXCEPT ![k].clients = @ + 1]
    <3>1. k \in 1..Len(T) /\ T' = [T EXCEPT ![k] = [T[k] EXCEPT !.clients = T[k].clients + 1]]
      BY <1>0, <2>1, <2>5
    <3>2. QED BY <1>1, <1>2, <2>3, <3>1
  <2>6. CASE l # 0 /\ T' = [T EXCEPT ![l].clients = RemovePlayer(@)]
    <3>1. l \in 1..Len(T) /\ T' = [T EXCEPT ![l] = [T[l] EXCEPT !.clients = RemovePlayer(T[l].clients)]]
      BY <1>0, <2>1, <2>6
    <3>2. QED BY <1>1, <1>2, <2>3, <3>1
  <2>7. CASE m # 0 /\ T' = [T EXCEPT ![m].shuttingDown = TRUE]
    <3>1. m \in 1..Len(T) /\ T' = [T EXCEPT ![m] = [T[m] EXCEPT !.shuttingDown = TRUE]]
      BY <1>0, <2>1, <2>7
    <3>2. QED BY <1>1, <1>2, <2>3, <3>1
  <2>8. QED BY <2>2, <2>4, <2>5, <2>6, <2>7
<1>8. CASE HandleDisconnected(p)
  <2> DEFINE k == GetInstanceBySysAddr(T, p)
             i == [T[k] EXCEPT !.shutdownComplete = TRUE]
             U == [T EXCEPT ![k].shutdownComplete = TRUE]
             r == Redirect(U, Taken(p), k)
  <2>1. /\ k \in 0..Len(T) /\ world[p].out # <<>>
        /\ IF k = 0 THEN T' = T
           ELSE IF m_IsShuttingDown THEN T' = RemoveAt(U, k)
           ELSE CanRedirect(U, world, k) /\ T' = RemoveAt(r.tbl, k)
    BY <1>0, <1>8, GetInstanceBySysAddrFinds DEF HandleDisconnected, Receives
  <2> HIDE DEF k
  <2>2. CASE k = 0
    BY <1>1, <2>1, <2>2
  <2>3. CASE k # 0
    <3>1. k \in 1..Len(T) /\ T[k] \in Instance /\ Books(T[k], asked)
      BY <1>0, <2>1, <2>3
    <3>2. U = [T EXCEPT ![k] = i]
      BY <1>0, <3>1
    <3>3. /\ i.zone = T[k].zone /\ i.pendingRequests = T[k].pendingRequests
          /\ i.pendingAffirmations = T[k].pendingAffirmations /\ i \in Instance
      BY <3>1 DEF Instance
    <3> HIDE DEF i, U
    <3>4. Booked(U, asked)
      BY <1>0, <1>3, <3>1, <3>2, <3>3, ChangedBooked
    <3>5. U \in Seq(Instance) /\ Len(U) = Len(T)
      BY <1>0, <3>1, <3>2, <3>3
    <3>6. CASE m_IsShuttingDown
      BY <1>1, <2>1, <2>3, <3>1, <3>4, <3>5, <3>6, RemovedBooked
    <3>7. CASE ~ m_IsShuttingDown
      <4>1. CanRedirect(U, world, k) /\ T' = RemoveAt(r.tbl, k)
        BY <2>1, <2>3, <3>7
      <4>2. Taken(p) \in Seq(World) /\ Len(Taken(p)) = Len(world)
        BY <1>0, <2>1, TakenType
      <4>3. CanRedirect(U, Taken(p), k)
        BY <4>1, <4>2 DEF CanRedirect, CanGetInstance
      <4>4. k \in 1..Len(U) /\ Len(Taken(p)) <= MaxWorlds
        BY <1>0, <3>1, <3>5, <4>2
      <4>5. Booked(r.tbl, asked)
        BY <3>4, <3>5, <4>2, <4>3, <4>4, RedirectBooked
      <4>6. r.tbl \in Seq(Instance) /\ Len(U) <= Len(r.tbl)
        BY <3>5, <4>2, <4>3, <4>4, RedirectType
      <4> HIDE DEF r
      <4>7. k \in 1..Len(r.tbl)
        BY <3>5, <4>4, <4>6
      <4>8. QED BY <1>1, <4>1, <4>5, <4>6, <4>7, RemovedBooked
    <3>8. QED BY <3>6, <3>7
  <2>4. QED BY <2>2, <2>3
<1>9. QED BY <1>4, <1>5, <1>6, <1>7, <1>8 DEF MasterReceive

\* Requests, commands, the timer, the shutdown sequence, the steps of worlds.
LEMMA MasterBooked ==
  ASSUME TypeOK, Booked(m_Instances, asked),
         \/ \E s \in Servers : ServerStep(s)
         \/ Command
         \/ \E k \in DOMAIN m_Instances : AffirmationTimeout(k)
         \/ ShutdownSequence
         \/ \E p \in DOMAIN world : WorldStep(p)
         \/ UNCHANGED vars
  PROVE  Booked(m_Instances, asked)'
<1> DEFINE T == m_Instances
<1>0. T \in Seq(Instance) /\ world \in Seq(World) /\ Len(world) <= MaxWorlds
  BY DEF TypeOK
<1>1. CASE UNCHANGED <<m_Instances, asked>>
  BY <1>1 DEF Booked, Books, AskedFor
<1>2. ASSUME NEW s \in Servers, NEW zone \in Zones, RequestZoneTransfer(s, zone)
      PROVE  Booked(T', asked')
  <2>1. Ask(s, zone) /\ zone \in Wants
    BY <1>2 DEF RequestZoneTransfer, Wants
  <2>2. Booked(T, asked') /\ AskedFor(NextRequest(s), zone, asked')
    BY <2>1, AskBooked
  <2>3. CASE m_IsShuttingDown
    BY <1>2, <2>2, <2>3 DEF RequestZoneTransfer
  <2>4. CASE ~ m_IsShuttingDown
    <3> DEFINE r  == NextRequest(s)
               rs == <<r>>
    <3>1. CanGetInstance(T, world, zone) /\ T' = Route(T, world, zone, rs).tbl
      BY <1>2, <2>4 DEF RequestZoneTransfer
    <3>2. rs \in Seq(Pending)
      BY <2>1, AskType
    <3>3. \A n \in 1..Len(rs) : AskedFor(rs[n], zone, asked')
      <4> HIDE DEF r
      <4>1. Len(rs) = 1 /\ rs[1] = r
        OBVIOUS
      <4>2. \A n \in 1..Len(rs) : rs[n] = r
        BY <4>1
      <4>3. QED BY <2>2, <4>2 DEF r
    <3> HIDE DEF rs
    <3>4. QED BY <1>0, <2>2, <3>1, <3>2, <3>3, RouteBooked
  <2>5. QED BY <2>3, <2>4
<1>3. ASSUME NEW s \in Servers, NEW pw \in Passwords, RequestPrivateZone(s, pw)
      PROVE  Booked(T', asked')
  <2>1. Ask(s, pw) /\ pw \in Wants /\ T' = T
    BY <1>3 DEF RequestPrivateZone, Wants, masterVars
  <2>2. QED BY <2>1, AskBooked
<1>4. ASSUME NEW s \in Servers, HandleZoneTransferResponse(s)
      PROVE  Booked(T', asked')
  BY <1>1, <1>4 DEF HandleZoneTransferResponse, masterVars
<1>5. ASSUME NEW zone \in Zones, PrepZone(zone) PROVE Booked(T', asked')
  <2>1. /\ CanGetInstance(T, world, zone) /\ T' = GetInstance(T, world, zone).tbl
        /\ asked' = asked
    BY <1>5 DEF PrepZone, serverVars
  <2>2. QED BY <1>0, <2>1, GetInstanceBooked
<1>6. ASSUME NEW zone \in Zones, NEW pw \in Passwords, CreatePrivateZone(zone, pw)
      PROVE  Booked(T', asked')
  <2>0. asked' = asked
    BY <1>6 DEF CreatePrivateZone, serverVars
  <2>1. CASE FindPrivateInstance(T, pw) # 0
    BY <1>1, <1>6, <2>0, <2>1 DEF CreatePrivateZone
  <2>2. CASE FindPrivateInstance(T, pw) = 0
    <3> DEFINE port == GetFreePort(T)
               i == NewInstance(zone, Len(world) + 1, port, PrivateCap, pw, Unassigned)
    <3>1. Len(world) < MaxWorlds /\ T' = Append(T, i)
      BY <1>6, <2>2 DEF CreatePrivateZone
    <3>2. port \in Nat /\ PrivateCap \in Nat
      BY <1>0, GetFreePortType DEF PrivateCap
    <3>3. Len(world) + 1 \in WorldIds
      BY <1>0, <3>1, ConstantsAssumption DEF WorldIds
    <3> HIDE DEF port
    <3>4. i \in Instance
      BY <3>2, <3>3, NewInstanceType
    <3>5. i.pendingRequests = <<>> /\ i.pendingAffirmations = <<>>
      BY DEF NewInstance
    <3> HIDE DEF i
    <3>6. QED BY <1>0, <2>0, <3>1, <3>4, <3>5, NewBooked
  <2>3. QED BY <2>1, <2>2
<1>7. ASSUME NEW map, NEW id, ShutdownInstance(map, id) PROVE Booked(T', asked')
  BY <1>1, <1>7 DEF ShutdownInstance, masterVars, serverVars
<1>8. ASSUME NEW k \in DOMAIN T, AffirmationTimeout(k) PROVE Booked(T', asked')
  <2> DEFINE i == [T[k] EXCEPT !.shuttingDown = TRUE, !.affirmTimedOut = TRUE]
             U == [T EXCEPT ![k].shuttingDown = TRUE, ![k].affirmTimedOut = TRUE]
             W == SendToWorld(world, U[k].sysAddr, <<Msg("SHUTDOWN")>>)
  <2>1. /\ k \in 1..Len(T) /\ T[k] \in Instance /\ Books(T[k], asked)
    BY <1>0 DEF Booked
  <2>2. /\ i \in Instance /\ i.zone = T[k].zone /\ i.pendingRequests = T[k].pendingRequests
        /\ i.pendingAffirmations = T[k].pendingAffirmations
    BY <2>1 DEF Instance
  <2>3. U = [T EXCEPT ![k] = i]
    BY <1>0, <2>1
  <2>4. CanRedirect(U, W, k) /\ T' = Redirect(U, W, k).tbl /\ asked' = asked
    BY <1>8 DEF AffirmationTimeout, serverVars
  <2> HIDE DEF i, U
  <2>5. U \in Seq(Instance) /\ Len(U) = Len(T) /\ U[k] = i
    BY <1>0, <2>1, <2>2, <2>3
  <2>6. Books(i, asked)
    BY <2>1, <2>2 DEF Books
  <2>7. Booked(U, asked)
    BY <1>0, <2>3, <2>6, ChangedBooked
  <2>8. W \in Seq(World) /\ Len(W) = Len(world)
    <3>1. U[k].sysAddr \in WorldIds \cup {Unassigned}
      BY <2>2, <2>5 DEF Instance
    <3>2. <<Msg("SHUTDOWN")>> \in Seq(ToWorldMsg)
      BY MsgTypes
    <3>3. QED BY <1>0, <3>1, <3>2, SendToWorldType
  <2> HIDE DEF W
  <2>9. k \in 1..Len(U) /\ Len(W) <= MaxWorlds
    BY <1>0, <2>1, <2>5, <2>8
  <2>10. Booked(Redirect(U, W, k).tbl, asked)
    BY <2>4, <2>5, <2>7, <2>8, <2>9, RedirectBooked
  <2>11. QED BY <2>4, <2>10
<1>9. CASE ShutdownSequence
  <2> DEFINE left == Prune(T)
             marked(i) == [i EXCEPT !.shuttingDown = TRUE]
  <2>1. left \in Seq(Instance) /\ \A n \in 1..Len(left) : \E k \in 1..Len(T) : left[n] = T[k]
    BY <1>0, PruneProperties
  <2>2. T' = [k \in DOMAIN left |-> marked(left[k])] /\ asked' = asked
    BY <1>9 DEF ShutdownSequence, serverVars
  <2>3. \A i \in Instance : Books(i, asked) => Books(marked(i), asked)
    <3>1. \A i \in Instance : /\ marked(i).zone = i.zone
                              /\ marked(i).pendingRequests = i.pendingRequests
                              /\ marked(i).pendingAffirmations = i.pendingAffirmations
      BY DEF Instance
    <3> HIDE DEF marked
    <3>2. QED BY <3>1 DEF Books
  <2> HIDE DEF left, marked
  <2>4. DOMAIN left = 1..Len(left) /\ Len(left) \in Nat
    BY <2>1
  <2>5. Len(T') = Len(left) /\ \A n \in 1..Len(left) : T'[n] = marked(left[n])
    BY <2>2, <2>4
  <2>6. \A n \in 1..Len(left) : left[n] \in Instance /\ Books(left[n], asked)
    <3>1. \A n \in 1..Len(left) : left[n] \in Instance
      BY <2>1
    <3>2. \A n \in 1..Len(left) : Books(left[n], asked)
      BY <2>1, Zenon DEF Booked
    <3>3. QED BY <3>1, <3>2
  <2>7. QED BY <2>2, <2>3, <2>5, <2>6 DEF Booked
<1>10. CASE \E p \in DOMAIN world : WorldStep(p)
  <2>1. UnchangedByWorld
    BY <1>10 DEF WorldStep, WorldConnect, WorldReceive, WorldExit, WorldGivesUp,
         WorldFailsToStart, WorldCrash, ConnectionLost, PlayerEnters, PlayerEntersTooLate,
         PlayerLeaves, PlayerLeavesUnreported
  <2>2. QED BY <1>1, <2>1 DEF UnchangedByWorld, masterVars, serverVars
<1>11. CASE UNCHANGED vars
  BY <1>1, <1>11 DEF vars, masterVars, serverVars
<1>12. QED
  BY <1>2, <1>3, <1>4, <1>5, <1>6, <1>7, <1>8, <1>9, <1>10, <1>11 DEF ServerStep, Command

\* Every step.
LEMMA BookedStep ==
  ASSUME TypeOK, Booked(m_Instances, asked), [Next]_vars
  PROVE  Booked(m_Instances, asked)'
BY MasterBooked, MasterReceiveBooked DEF Next

-----------------------------------------------------------------------------
(* The worlds that have opened *)

\* The worlds that have opened, with their zones (TransferService, opened).
Opens(W) == {<<p, W[p].zone>> : p \in {q \in DOMAIN W : W[q].ready}}

\* No world of V has opened that had not opened in W.
Keeps(W, V) ==
  /\ Len(W) <= Len(V)
  /\ \A p \in 1..Len(W) : V[p].zone = W[p].zone /\ V[p].ready = W[p].ready
  /\ \A p \in 1..Len(V) : p \notin 1..Len(W) => ~ V[p].ready

\* Then the same worlds are open.
LEMMA KeepsOpens ==
  ASSUME NEW W \in Seq(World), NEW V \in Seq(World), Keeps(W, V)
  PROVE  Opens(V) = Opens(W)
<1>1. /\ DOMAIN W = 1..Len(W) /\ DOMAIN V = 1..Len(V) /\ Len(W) \in Nat /\ Len(V) \in Nat
  OBVIOUS
<1>2. 1..Len(W) \subseteq 1..Len(V)
  BY <1>1 DEF Keeps
<1>3. \A p : p \in DOMAIN V /\ V[p].ready <=> p \in DOMAIN W /\ W[p].ready
  BY <1>1, <1>2, Zenon DEF Keeps
<1>4. \A p \in DOMAIN W : V[p].zone = W[p].zone
  BY <1>1 DEF Keeps
<1>5. {q \in DOMAIN V : V[q].ready} = {q \in DOMAIN W : W[q].ready}
  BY <1>3
<1>6. QED BY <1>4, <1>5 DEF Opens

\* Steps one after the other.
LEMMA KeepsTwice ==
  ASSUME NEW U \in Seq(World), NEW V \in Seq(World), NEW W \in Seq(World),
         Keeps(U, V), Keeps(V, W)
  PROVE  Keeps(U, W)
<1>1. Len(U) \in Nat /\ Len(V) \in Nat /\ Len(W) \in Nat
  OBVIOUS
<1>2. 1..Len(U) \subseteq 1..Len(V) /\ Len(U) <= Len(W)
  BY <1>1 DEF Keeps
<1>3. \A p \in 1..Len(U) : W[p].zone = U[p].zone /\ W[p].ready = U[p].ready
  BY <1>2 DEF Keeps
<1>4. \A p \in 1..Len(W) : p \notin 1..Len(U) => ~ W[p].ready
  <2>1. SUFFICES ASSUME NEW p \in 1..Len(W), p \notin 1..Len(U) PROVE ~ W[p].ready
    OBVIOUS
  <2>2. CASE p \in 1..Len(V)
    BY <2>1, <2>2 DEF Keeps
  <2>3. CASE p \notin 1..Len(V)
    BY <2>1, <2>3 DEF Keeps
  <2>4. QED BY <2>2, <2>3
<1>5. QED BY <1>2, <1>3, <1>4 DEF Keeps

\* One world changes, not its zone, nor whether it has opened.
LEMMA ChangeKeeps ==
  ASSUME NEW W \in Seq(World), NEW p, NEW v,
         p \in 1..Len(W) => v.zone = W[p].zone /\ v.ready = W[p].ready
  PROVE  Keeps(W, [W EXCEPT ![p] = v])
<1>1. /\ Len([W EXCEPT ![p] = v]) = Len(W) /\ Len(W) \in Nat
      /\ \A q \in 1..Len(W) : [W EXCEPT ![p] = v][q] = IF q = p THEN v ELSE W[q]
  OBVIOUS
<1>2. QED BY <1>1 DEF Keeps

\* What the master sends to a world, and a process that starts, opens nothing.
LEMMA SendToWorldKeeps ==
  ASSUME NEW W \in Seq(World), NEW addr, NEW ms
  PROVE  Keeps(W, SendToWorld(W, addr, ms))
<1> DEFINE v == [W[addr] EXCEPT !.in = W[addr].in \o ms]
<1>1. CASE addr \in DOMAIN W /\ W[addr].connected
  <2>1. addr \in 1..Len(W) /\ W[addr] \in World
    BY <1>1
  <2>2. SendToWorld(W, addr, ms) = [W EXCEPT ![addr] = v]
    BY <1>1 DEF SendToWorld
  <2>3. v.zone = W[addr].zone /\ v.ready = W[addr].ready
    BY <2>1 DEF World
  <2> HIDE DEF v
  <2>4. Keeps(W, [W EXCEPT ![addr] = v])
    BY <2>1, <2>3, ChangeKeeps
  <2>5. QED BY <2>2, <2>4
<1>2. CASE ~ (addr \in DOMAIN W /\ W[addr].connected)
  <2>1. SendToWorld(W, addr, ms) = W
    BY <1>2 DEF SendToWorld
  <2>2. Len(W) <= Len(W)
    OBVIOUS
  <2>3. QED BY <2>1, <2>2 DEF Keeps
<1>3. QED BY <1>1, <1>2

\* A process that starts has not opened.
LEMMA StartKeeps ==
  ASSUME NEW W \in Seq(World), NEW zone \in Zones, NEW port \in Nat
  PROVE  Keeps(W, StartWorldServer(W, zone, port))
<1> DEFINE V == StartWorldServer(W, zone, port)
           w == V[Len(W) + 1]
<1>1. V \in Seq(World) /\ Len(V) = Len(W) + 1 /\ \A p \in 1..Len(W) : V[p] = W[p]
  BY StartWorldServerType DEF StartWorldServer
<1>2. ~ w.ready
  BY DEF StartWorldServer
<1> HIDE DEF V
<1>3. Len(W) \in Nat /\ \A p \in 1..Len(V) : p \in 1..Len(W) \/ p = Len(W) + 1
  BY <1>1
<1>4. Keeps(W, V)
  BY <1>1, <1>2, <1>3 DEF Keeps
<1>5. QED BY <1>4 DEF V

\* GetInstance, Route and Redirect open nothing.
LEMMA RouteKeeps ==
  ASSUME NEW T \in Seq(Instance), NEW W \in Seq(World), Len(W) <= MaxWorlds,
         NEW zone \in Zones, CanGetInstance(T, W, zone), NEW rs \in Seq(Pending)
  PROVE  Keeps(W, GetInstance(T, W, zone).world) /\ Keeps(W, Route(T, W, zone, rs).world)
<1> DEFINE g == GetInstance(T, W, zone)
           V == g.world
           i == g.tbl[g.at]
           asks == [n \in DOMAIN rs |-> IdMsg("AFFIRM_TRANSFER_REQUEST", rs[n].id)]
           r == Route(T, W, zone, rs)
<1>1. V \in Seq(World)
  BY GetInstanceType
<1>2. r.world \in Seq(World)
  BY RouteType
<1>3. r.world = IF i.ready THEN SendToWorld(V, i.sysAddr, asks) ELSE V
  BY DEF Route
<1>4. Keeps(W, W)
  <2>1. Len(W) <= Len(W)
    OBVIOUS
  <2>2. QED BY <2>1 DEF Keeps
<1>5. Keeps(W, V)
  <2>1. CASE FindJoinable(T, zone) # 0
    BY <1>4, <2>1 DEF GetInstance
  <2>2. CASE FindJoinable(T, zone) = 0
    <3>1. V = StartWorldServer(W, zone, GetFreePort(T))
      BY <2>2 DEF GetInstance
    <3>2. GetFreePort(T) \in Nat
      BY GetFreePortType
    <3>3. QED BY <3>1, <3>2, StartKeeps
  <2>3. QED BY <2>1, <2>2
<1> HIDE DEF V, r, i
<1>6. Keeps(V, SendToWorld(V, i.sysAddr, asks))
  BY <1>1, SendToWorldKeeps
<1>7. Keeps(W, r.world)
  <2>1. CASE i.ready
    BY <1>1, <1>2, <1>3, <1>5, <1>6, <2>1, KeepsTwice
  <2>2. CASE ~ i.ready
    BY <1>3, <1>5, <2>2
  <2>3. QED BY <2>1, <2>2
<1>8. QED BY <1>5, <1>7 DEF V, r

\* So does Redirect.
LEMMA RedirectKeeps ==
  ASSUME NEW T \in Seq(Instance), NEW W \in Seq(World), Len(W) <= MaxWorlds,
         NEW k \in 1..Len(T), CanRedirect(T, W, k)
  PROVE  Keeps(W, Redirect(T, W, k).world)
<1>1. T[k] \in Instance
  OBVIOUS
<1>2. T[k].zone \in Zones /\ T[k].pendingAffirmations \in Seq(Pending)
  BY <1>1 DEF Instance
<1>3. CASE T[k].pendingAffirmations = <<>>
  <2>1. Len(W) <= Len(W)
    OBVIOUS
  <2>2. QED BY <1>3, <2>1 DEF Redirect, Keeps
<1>4. CASE T[k].pendingAffirmations # <<>>
  BY <1>2, <1>4, RouteKeeps DEF Redirect, CanRedirect
<1>5. QED BY <1>3, <1>4

\* What a world does, but for its first connection, opens nothing.
LEMMA WorldOpsKeep ==
  ASSUME NEW w \in World
  PROVE  /\ \A m : SendToMaster(w, m).zone = w.zone /\ SendToMaster(w, m).ready = w.ready
         /\ PlayerIn(w).zone = w.zone /\ PlayerIn(w).ready = w.ready
         /\ PlayerOut(w).zone = w.zone /\ PlayerOut(w).ready = w.ready
         /\ Exited(w).zone = w.zone /\ Exited(w).ready = w.ready
         /\ \A n : Dropped(w, n).zone = w.zone /\ Dropped(w, n).ready = w.ready
         /\ Attached(w).zone = w.zone /\ Attached(w).ready = TRUE
BY DEF World, SendToMaster, PlayerIn, PlayerOut, Exited, Dropped, Attached

\* What the master does opens no world.
LEMMA MasterKeeps ==
  ASSUME TypeOK,
         \/ \E s \in Servers : ServerStep(s)
         \/ Command
         \/ \E k \in DOMAIN m_Instances : AffirmationTimeout(k)
         \/ ShutdownSequence
         \/ UNCHANGED vars
  PROVE  Keeps(world, world')
<1> DEFINE T == m_Instances
<1>0. /\ T \in Seq(Instance) /\ world \in Seq(World) /\ Len(world) <= MaxWorlds
      /\ DOMAIN world = 1..Len(world) /\ Len(world) \in Nat
  BY DEF TypeOK
<1>1. CASE world' = world
  BY <1>0, <1>1 DEF Keeps
<1>2. ASSUME NEW s \in Servers, NEW zone \in Zones, RequestZoneTransfer(s, zone)
      PROVE  Keeps(world, world')
  <2>1. CASE m_IsShuttingDown
    BY <1>1, <1>2, <2>1 DEF RequestZoneTransfer
  <2>2. CASE ~ m_IsShuttingDown
    <3>1. /\ CanGetInstance(T, world, zone)
          /\ world' = Route(T, world, zone, <<NextRequest(s)>>).world
      BY <1>2, <2>2 DEF RequestZoneTransfer
    <3>2. <<NextRequest(s)>> \in Seq(Pending)
      <4>1. Ask(s, zone) /\ zone \in Wants
        BY <1>2 DEF RequestZoneTransfer, Wants
      <4>2. QED BY <4>1, AskType
    <3>3. QED BY <1>0, <3>1, <3>2, RouteKeeps
  <2>3. QED BY <2>1, <2>2
<1>3. ASSUME NEW s \in Servers,
             HandleZoneTransferResponse(s) \/ \E pw \in Passwords : RequestPrivateZone(s, pw)
      PROVE  Keeps(world, world')
  BY <1>1, <1>3 DEF HandleZoneTransferResponse, RequestPrivateZone
<1>4. ASSUME NEW zone \in Zones, PrepZone(zone) PROVE Keeps(world, world')
  <2>1. CanGetInstance(T, world, zone) /\ world' = GetInstance(T, world, zone).world
    BY <1>4 DEF PrepZone
  <2>2. <<>> \in Seq(Pending)
    OBVIOUS
  <2>3. QED BY <1>0, <2>1, <2>2, RouteKeeps
<1>5. ASSUME NEW zone \in Zones, NEW pw \in Passwords, CreatePrivateZone(zone, pw)
      PROVE  Keeps(world, world')
  <2>1. CASE FindPrivateInstance(T, pw) # 0
    BY <1>1, <1>5, <2>1 DEF CreatePrivateZone
  <2>2. CASE FindPrivateInstance(T, pw) = 0
    <3>1. world' = StartWorldServer(world, zone, GetFreePort(T))
      BY <1>5, <2>2 DEF CreatePrivateZone
    <3>2. GetFreePort(T) \in Nat
      BY <1>0, GetFreePortType
    <3>3. QED BY <1>0, <3>1, <3>2, StartKeeps
  <2>3. QED BY <2>1, <2>2
<1>6. ASSUME NEW map, NEW id, ShutdownInstance(map, id) PROVE Keeps(world, world')
  BY <1>0, <1>6, SendToWorldKeeps DEF ShutdownInstance
<1>7. ASSUME NEW k \in DOMAIN T, AffirmationTimeout(k) PROVE Keeps(world, world')
  <2> DEFINE i == [T[k] EXCEPT !.shuttingDown = TRUE, !.affirmTimedOut = TRUE]
             U == [T EXCEPT ![k].shuttingDown = TRUE, ![k].affirmTimedOut = TRUE]
             W == SendToWorld(world, U[k].sysAddr, <<Msg("SHUTDOWN")>>)
  <2>1. /\ k \in 1..Len(T) /\ T[k] \in Instance
    BY <1>0
  <2>2. i \in Instance
    BY <2>1 DEF Instance
  <2>3. U = [T EXCEPT ![k] = i]
    BY <1>0, <2>1
  <2>4. CanRedirect(U, W, k) /\ world' = Redirect(U, W, k).world
    BY <1>7 DEF AffirmationTimeout
  <2> HIDE DEF i, U
  <2>5. U \in Seq(Instance) /\ Len(U) = Len(T) /\ U[k] = i
    BY <1>0, <2>1, <2>2, <2>3
  <2>6. W \in Seq(World) /\ Len(W) = Len(world)
    <3>1. U[k].sysAddr \in WorldIds \cup {Unassigned}
      BY <2>2, <2>5 DEF Instance
    <3>2. <<Msg("SHUTDOWN")>> \in Seq(ToWorldMsg)
      BY MsgTypes
    <3>3. QED BY <1>0, <3>1, <3>2, SendToWorldType
  <2>7. Keeps(world, W)
    BY <1>0, SendToWorldKeeps
  <2> HIDE DEF W
  <2>8. k \in 1..Len(U) /\ Len(W) <= MaxWorlds
    BY <1>0, <2>1, <2>5, <2>6
  <2>9. Keeps(W, Redirect(U, W, k).world) /\ Redirect(U, W, k).world \in Seq(World)
    BY <2>4, <2>5, <2>6, <2>8, RedirectKeeps, RedirectType
  <2>10. QED BY <1>0, <2>4, <2>6, <2>7, <2>9, KeepsTwice
<1>8. CASE ShutdownSequence
  <2> DEFINE told(w) == IF w.connected THEN [w EXCEPT !.in = Append(@, Msg("SHUTDOWN"))] ELSE w
  <2>1. world' = [p \in 1..Len(world) |-> told(world[p])]
    BY <1>0, <1>8 DEF ShutdownSequence
  <2>2. \A w \in World : told(w).zone = w.zone /\ told(w).ready = w.ready
    BY DEF World
  <2> HIDE DEF told
  <2>3. Len(world') = Len(world) /\ \A p \in 1..Len(world) : world'[p] = told(world[p])
    BY <1>0, <2>1
  <2>4. \A p \in 1..Len(world) : world[p] \in World
    BY <1>0
  <2>5. QED BY <1>0, <2>2, <2>3, <2>4 DEF Keeps
<1>9. CASE UNCHANGED vars
  BY <1>1, <1>9 DEF vars
<1>10. QED
  BY <1>2, <1>3, <1>4, <1>5, <1>6, <1>7, <1>8, <1>9 DEF ServerStep, Command

\* Neither does a packet of a world when the master takes it.
LEMMA MasterReceiveKeeps ==
  ASSUME TypeOK, NEW p \in DOMAIN world, MasterReceive(p)
  PROVE  Keeps(world, world')
<1> DEFINE T == m_Instances
           v == [world[p] EXCEPT !.out = Tail(world[p].out)]
<1>0. /\ p \in 1..Len(world) /\ world[p] \in World /\ T \in Seq(Instance)
      /\ world \in Seq(World) /\ Len(world) <= MaxWorlds
  BY TypeFacts DEF TypeOK
<1>1. Keeps(world, Taken(p))
  <2>1. Taken(p) = [world EXCEPT ![p] = v]
    BY <1>0 DEF Taken
  <2>2. v.zone = world[p].zone /\ v.ready = world[p].ready
    BY <1>0 DEF World
  <2> HIDE DEF v
  <2>3. Keeps(world, [world EXCEPT ![p] = v])
    BY <1>0, <2>2, ChangeKeeps
  <2>4. QED BY <2>1, <2>3
<1>2. CASE world' = Taken(p)
  BY <1>1, <1>2
<1>3. CASE HandleDisconnected(p) /\ world' # Taken(p)
  <2> DEFINE k == GetInstanceBySysAddr(T, p)
             i == [T[k] EXCEPT !.shutdownComplete = TRUE]
             U == [T EXCEPT ![k].shutdownComplete = TRUE]
             r == Redirect(U, Taken(p), k)
  <2>1. k \in 0..Len(T) /\ world[p].out # <<>>
    BY <1>0, <1>3, GetInstanceBySysAddrFinds DEF HandleDisconnected, Receives
  <2>2. k # 0 /\ CanRedirect(U, world, k) /\ world' = r.world
    BY <1>3 DEF HandleDisconnected
  <2> HIDE DEF k
  <2>3. k \in 1..Len(T) /\ T[k] \in Instance
    BY <1>0, <2>1, <2>2
  <2>4. i \in Instance
    BY <2>3 DEF Instance
  <2>5. U = [T EXCEPT ![k] = i]
    BY <1>0, <2>3
  <2> HIDE DEF i, U
  <2>6. U \in Seq(Instance) /\ Len(U) = Len(T)
    BY <1>0, <2>3, <2>4, <2>5
  <2>7. Taken(p) \in Seq(World) /\ Len(Taken(p)) = Len(world)
    BY <1>0, <2>1, TakenType
  <2>8. CanRedirect(U, Taken(p), k)
    BY <2>2, <2>7 DEF CanRedirect, CanGetInstance
  <2>9. k \in 1..Len(U) /\ Len(Taken(p)) <= MaxWorlds
    BY <1>0, <2>3, <2>6, <2>7
  <2>10. Keeps(Taken(p), r.world) /\ r.world \in Seq(World)
    BY <2>6, <2>7, <2>8, <2>9, RedirectKeeps, RedirectType
  <2>11. QED BY <1>0, <1>1, <2>2, <2>7, <2>10, KeepsTwice
<1>4. QED
  BY <1>2, <1>3 DEF MasterReceive, HandleServerInfo, HandleWorldReady, HandleAffirmTransfer,
     HandlePlayerAdded, HandlePlayerRemoved, HandleShutdownResponse

\* The first connection of a world opens it.
Opening(p) ==
  /\ ~ world[p].ready /\ Opens(world') = Opens(world) \cup {<<p, world[p].zone>>}
  /\ UnchangedByWorld

\* No other step of a world opens one.
LEMMA WorldStepOpens ==
  ASSUME TypeOK, NEW p \in DOMAIN world, WorldStep(p)
  PROVE  Keeps(world, world') \/ Opening(p)
<1> DEFINE w == world[p]
<1>0. /\ p \in 1..Len(world) /\ w \in World /\ world \in Seq(World)
      /\ DOMAIN world = 1..Len(world)
  BY TypeFacts DEF TypeOK
<1>1. ASSUME NEW v, v.zone = w.zone, v.ready = w.ready, world' = [world EXCEPT ![p] = v]
      PROVE  Keeps(world, world')
  BY <1>0, <1>1, ChangeKeeps
<1>2. CASE WorldConnect(p) /\ w.ready
  <2>1. w.ready = TRUE
    BY <1>0, <1>2, WorldFields
  <2>2. world' = [world EXCEPT ![p] = Attached(w)]
    BY <1>2 DEF WorldConnect
  <2>3. Attached(w).zone = w.zone /\ Attached(w).ready = w.ready
    BY <1>0, <2>1, WorldOpsKeep
  <2>4. QED BY <1>1, <2>2, <2>3
<1>3. CASE WorldConnect(p) /\ ~ w.ready
  <2> DEFINE v == Attached(w)
             A == {q \in DOMAIN world : world[q].ready}
             B == {q \in DOMAIN world' : world'[q].ready}
  <2>1. world' = [world EXCEPT ![p] = v] /\ UnchangedByWorld
    BY <1>3 DEF WorldConnect
  <2>2. v.zone = w.zone /\ v.ready = TRUE
    BY <1>0, WorldOpsKeep
  <2> HIDE DEF v
  <2>3. /\ DOMAIN world' = DOMAIN world /\ world'[p] = v
        /\ \A q \in DOMAIN world : q # p => world'[q] = world[q]
    BY <1>0, <2>1
  <2>4. B = A \cup {p} /\ p \notin A
    BY <1>0, <1>3, <2>2, <2>3
  <2>5. Opens(world) = {<<q, world[q].zone>> : q \in A}
    BY DEF Opens
  <2>6. Opens(world') = {<<q, world'[q].zone>> : q \in B}
    BY DEF Opens
  <2>7. \A q \in A : world'[q].zone = world[q].zone
    BY <2>3, <2>4
  <2>8. world'[p].zone = w.zone
    BY <2>2, <2>3
  <2> HIDE DEF A, B
  <2>9. Opens(world') = Opens(world) \cup {<<p, w.zone>>}
    BY <2>4, <2>5, <2>6, <2>7, <2>8
  <2>10. QED BY <1>3, <2>1, <2>9 DEF Opening
<1>4. CASE WorldReceive(p)
  <2> DEFINE m == Head(w.in)
             u == [w EXCEPT !.in = Tail(w.in)]
             v == IF m.kind = "SHUTDOWN" THEN Exited(u)
                  ELSE SendToMaster(u, IdMsg("AFFIRM_TRANSFER_RESPONSE", m.id))
  <2>1. world' = [world EXCEPT ![p] = v] /\ w.in # <<>>
    BY <1>4 DEF WorldReceive
  <2>2. u \in World /\ u.zone = w.zone /\ u.ready = w.ready
    <3>1. w.in \in Seq(ToWorldMsg)
      BY <1>0, WorldFields
    <3>2. Tail(w.in) \in Seq(ToWorldMsg)
      BY <2>1, <3>1
    <3>3. QED BY <1>0, <3>2 DEF World
  <2> HIDE DEF u
  <2>3. v.zone = w.zone /\ v.ready = w.ready
    BY <2>2, WorldOpsKeep
  <2> HIDE DEF v
  <2>4. QED BY <1>1, <2>1, <2>3
<1>5. CASE WorldExit(p) \/ WorldGivesUp(p)
  BY <1>0, <1>1, <1>5, WorldOpsKeep DEF WorldExit, WorldGivesUp
<1>6. CASE WorldFailsToStart(p)
  <2>1. world' = [world EXCEPT ![p] = [w EXCEPT !.running = FALSE]]
    BY <1>6 DEF WorldFailsToStart
  <2>2. /\ [w EXCEPT !.running = FALSE].zone = w.zone
        /\ [w EXCEPT !.running = FALSE].ready = w.ready
    BY <1>0 DEF World
  <2>3. QED BY <1>1, <2>1, <2>2
<1>7. CASE WorldCrash(p)
  <2>1. PICK n \in 0..Len(w.out) :
          world' = [world EXCEPT ![p] = [Dropped(w, n) EXCEPT !.running = FALSE, !.players = 0]]
    BY <1>7 DEF WorldCrash
  <2> DEFINE d == Dropped(w, n)
             v == [d EXCEPT !.running = FALSE, !.players = 0]
  <2>2. d \in World /\ d.zone = w.zone /\ d.ready = w.ready
    BY <1>0, DroppedType, WorldOpsKeep
  <2> HIDE DEF d
  <2>3. v.zone = w.zone /\ v.ready = w.ready
    BY <2>2 DEF World
  <2>4. world' = [world EXCEPT ![p] = v]
    BY <2>1 DEF d
  <2> HIDE DEF v
  <2>5. QED BY <1>1, <2>3, <2>4
<1>8. CASE ConnectionLost(p)
  <2>1. PICK n \in 0..Len(w.out) : world' = [world EXCEPT ![p] = Dropped(w, n)]
    BY <1>8 DEF ConnectionLost
  <2>2. Dropped(w, n).zone = w.zone /\ Dropped(w, n).ready = w.ready
    BY <1>0, WorldOpsKeep
  <2>3. QED BY <1>1, <2>1, <2>2
<1>9. CASE PlayerEnters(p) \/ PlayerEntersTooLate(p) \/ PlayerLeaves(p)
  <2>1. \/ world' = [world EXCEPT ![p] = PlayerIn(w)]
        \/ world' = [world EXCEPT ![p] = PlayerOut(w)]
        \/ world' = [world EXCEPT ![p] = SendToMaster(w, Msg("PLAYER_ADDED"))]
    BY <1>9 DEF PlayerEnters, PlayerEntersTooLate, PlayerLeaves
  <2>2. QED BY <1>0, <1>1, <2>1, WorldOpsKeep
<1>10. CASE PlayerLeavesUnreported(p)
  <2>1. world' = [world EXCEPT ![p] = [w EXCEPT !.players = w.players - 1]]
    BY <1>10 DEF PlayerLeavesUnreported
  <2>2. /\ [w EXCEPT !.players = w.players - 1].zone = w.zone
        /\ [w EXCEPT !.players = w.players - 1].ready = w.ready
    BY <1>0 DEF World
  <2>3. QED BY <1>1, <2>1, <2>2
<1>11. QED BY <1>2, <1>3, <1>4, <1>5, <1>6, <1>7, <1>8, <1>9, <1>10 DEF WorldStep

\* Every step opens no world, or one by its first connection.
LEMMA StepOpens ==
  ASSUME TypeOK, TypeOK', [Next]_vars
  PROVE  \/ Opens(world') = Opens(world)
         \/ \E p \in DOMAIN world : Opening(p)
<1>1. world \in Seq(World) /\ world' \in Seq(World)
  BY DEF TypeOK
<1>2. CASE Keeps(world, world')
  BY <1>1, <1>2, KeepsOpens
<1>3. Keeps(world, world') \/ \E p \in DOMAIN world : Opening(p)
  BY MasterKeeps, MasterReceiveKeeps, WorldStepOpens DEF Next
<1>4. QED BY <1>2, <1>3

-----------------------------------------------------------------------------
(* The answers on their way to the servers *)

\* An answer to a request for a public zone names a world that has opened for
\* this zone (as: what was asked for; open: the worlds that have opened).
Good(a, as, open) ==
  /\ a.id \in DOMAIN as[a.server]
  /\ as[a.server][a.id] \in Zones =>
       a.zone = as[a.server][a.id] /\ <<a.world, a.zone>> \in open

GoodAnswers(Q, as, open) == \A n \in 1..Len(Q) : Good(Q[n], as, open)

AnswersInv == Booked(m_Instances, asked) /\ GoodAnswers(toServer, asked, Opens(world))

\* Nobody but a server asks or grants.
LEMMA OthersGrantNothing ==
  ASSUME [Next]_vars, ~ \E s \in Servers : ServerStep(s)
  PROVE  UNCHANGED <<asked, requests, granted>>
<1>1. CASE Command
  BY <1>1 DEF Command, PrepZone, CreatePrivateZone, ShutdownInstance, UnchangedByTable,
              serverVars
<1>2. CASE \E p \in DOMAIN world : WorldStep(p)
  BY <1>2 DEF WorldStep, WorldConnect, WorldReceive, WorldExit, WorldGivesUp,
              WorldFailsToStart, WorldCrash, ConnectionLost, PlayerEnters,
              PlayerEntersTooLate, PlayerLeaves, PlayerLeavesUnreported,
              UnchangedByWorld, serverVars
<1>3. CASE \E p \in DOMAIN world : MasterReceive(p)
  BY <1>3 DEF MasterReceive, HandleServerInfo, HandleWorldReady, HandleAffirmTransfer,
              HandlePlayerAdded, HandlePlayerRemoved, HandleShutdownResponse,
              HandleDisconnected, UnchangedByTable, serverVars
<1>4. CASE \E k \in DOMAIN m_Instances : AffirmationTimeout(k)
  BY <1>4 DEF AffirmationTimeout, serverVars
<1>5. CASE ShutdownSequence
  BY <1>5 DEF ShutdownSequence, serverVars
<1>6. CASE UNCHANGED vars
  BY <1>6 DEF vars, serverVars
<1>7. QED BY <1>1, <1>2, <1>3, <1>4, <1>5, <1>6 DEF Next

\* What has been asked for, and the worlds that have opened, only grow.
LEMMA GoodStill ==
  ASSUME TypeOK, TypeOK', [Next]_vars, GoodAnswers(toServer, asked, Opens(world))
  PROVE  GoodAnswers(toServer, asked', Opens(world'))
<1>1. Opens(world) \subseteq Opens(world')
  BY StepOpens DEF Opening
<1>2. \/ asked' = asked
      \/ \E s \in Servers, want \in Wants : Ask(s, want)
  <2>1. CASE \E s \in Servers : ServerStep(s)
    BY <2>1 DEF ServerStep, RequestZoneTransfer, RequestPrivateZone,
                HandleZoneTransferResponse, Wants
  <2>2. QED BY <2>1, OthersGrantNothing
<1>3. /\ \A t \in Servers : DOMAIN asked[t] \subseteq DOMAIN asked'[t]
      /\ \A t \in Servers : \A id \in DOMAIN asked[t] : asked'[t][id] = asked[t][id]
  BY <1>2, AskAdds
<1>4. \A n \in 1..Len(toServer) : toServer[n].server \in Servers
  <2>1. \A n \in 1..Len(toServer) : toServer[n] \in Answer
    BY DEF TypeOK
  <2>2. QED BY <2>1 DEF Answer
<1>5. QED BY <1>1, <1>3, <1>4 DEF GoodAnswers, Good

\* The answers to requests that were for the zone of an instance, if its world
\* has opened for this zone.
LEMMA RespondGood ==
  ASSUME NEW Q \in Seq(Answer), NEW rs \in Seq(Pending), NEW i \in Instance, NEW as, NEW open,
         GoodAnswers(Q, as, open),
         \A n \in 1..Len(rs) : AskedFor(rs[n], i.zone, as),
         rs # <<>> => <<i.id, i.zone>> \in open
  PROVE  GoodAnswers(Respond(Q, rs, i), as, open)
<1> DEFINE S == {a \in Answer : Good(a, as, open)}
           R == [n \in DOMAIN rs |-> AnswerTo(rs[n], i)]
<1>1. \A n \in 1..Len(Q) : Q[n] \in S
  <2>1. \A n \in 1..Len(Q) : Q[n] \in Answer
    OBVIOUS
  <2>2. QED BY <2>1, Zenon DEF GoodAnswers
<1>2. \A n \in 1..Len(rs) : AnswerTo(rs[n], i) \in S
  <2>1. SUFFICES ASSUME NEW n \in 1..Len(rs) PROVE AnswerTo(rs[n], i) \in S
    OBVIOUS
  <2>2. rs[n] \in Pending /\ rs # <<>>
    OBVIOUS
  <2>3. AnswerTo(rs[n], i) \in Answer
    BY <2>2 DEF AnswerTo, Answer, Pending, Instance
  <2>4. Good(AnswerTo(rs[n], i), as, open)
    BY <2>2, Zenon DEF Good, AnswerTo, AskedFor
  <2>5. QED BY <2>3, <2>4
<1> HIDE DEF S
<1>3. Q \in Seq(S)
  BY <1>1
<1>4. R \in Seq(S)
  <2>1. DOMAIN rs = 1..Len(rs) /\ Len(rs) \in Nat
    OBVIOUS
  <2> DEFINE f(n) == AnswerTo(rs[n], i)
  <2>2. R = [n \in 1..Len(rs) |-> f(n)] /\ \A n \in 1..Len(rs) : f(n) \in S
    BY <1>2, <2>1
  <2> HIDE DEF f, R
  <2>3. QED BY <2>1, <2>2
<1> HIDE DEF R
<1>5. Q \o R \in Seq(S)
  BY <1>3, <1>4
<1>6. \A n \in 1..Len(Q \o R) : (Q \o R)[n] \in S
  BY <1>5
<1>7. QED BY <1>6 DEF GoodAnswers, Respond, S, R

\* The steps of a requesting server.
LEMMA ServerAnswers ==
  ASSUME TypeOK, TypeOK', AnswersInv, NEW s \in Servers, ServerStep(s),
         GoodAnswers(toServer, asked', Opens(world'))
  PROVE  GoodAnswers(toServer', asked', Opens(world'))
<1>1. CASE toServer' = toServer
  BY <1>1
<1>2. ASSUME NEW pw \in Passwords, RequestPrivateZone(s, pw)
      PROVE  GoodAnswers(toServer', asked', Opens(world'))
  <2> DEFINE k == FindPrivateInstance(m_Instances, pw)
             r == NextRequest(s)
             a == AnswerTo(r, m_Instances[k])
  <2>1. Ask(s, pw) /\ pw \in Wants
    BY <1>2 DEF RequestPrivateZone, Wants
  <2>2. k \in 0..Len(m_Instances)
    BY FindPrivateInstanceFinds DEF TypeOK
  <2>3. toServer' = IF k = 0 THEN toServer ELSE Respond(toServer, <<r>>, m_Instances[k])
    BY <1>2 DEF RequestPrivateZone
  <2>4. CASE k = 0
    BY <2>3, <2>4
  <2>5. CASE k # 0
    <3> HIDE DEF k
    <3>1. m_Instances[k] \in Instance /\ r \in Pending
      BY <2>1, <2>2, <2>5, TypeFacts, AskType
    <3>2. AskedFor(r, pw, asked')
      BY <2>1, AskBooked DEF AnswersInv
    <3>3. Good(a, asked', Opens(world'))
      BY <3>2, ConstantsAssumption DEF AskedFor, Good, AnswerTo
    <3>4. Respond(toServer, <<r>>, m_Instances[k]) = Append(toServer, a)
      <4>1. [n \in DOMAIN <<r>> |-> AnswerTo(<<r>>[n], m_Instances[k])] = <<a>>
        <5> HIDE DEF r
        <5>1. DOMAIN <<r>> = 1..1 /\ <<r>>[1] = r
          OBVIOUS
        <5>2. \A n \in 1..1 : AnswerTo(<<r>>[n], m_Instances[k]) = a
          BY <5>1
        <5> DEFINE f(n) == AnswerTo(<<r>>[n], m_Instances[k])
        <5> HIDE DEF f, a
        <5>3. [n \in 1..1 |-> f(n)] = <<a>>
          BY <5>2 DEF f
        <5>4. QED BY <5>1, <5>3 DEF f
      <4>2. a \in Answer
        BY <3>1 DEF AnswerTo, Answer, Pending, Instance
      <4> HIDE DEF a, r
      <4>3. QED BY <4>1, <4>2 DEF Respond, TypeOK
    <3> DEFINE Q == Append(toServer, a)
    <3>5. /\ Len(Q) = Len(toServer) + 1 /\ Q[Len(toServer) + 1] = a /\ Len(toServer) \in Nat
          /\ \A n \in 1..Len(toServer) : Q[n] = toServer[n]
      <4> HIDE DEF a
      <4>1. QED BY DEF TypeOK
    <3>6. \A n \in 1..Len(Q) : n \in 1..Len(toServer) \/ n = Len(toServer) + 1
      BY <3>5
    <3> HIDE DEF Q, a
    <3>7. GoodAnswers(Q, asked', Opens(world'))
      BY <3>3, <3>5, <3>6 DEF GoodAnswers
    <3>8. QED BY <2>3, <2>5, <3>4, <3>7 DEF Q
  <2>6. QED BY <2>4, <2>5
<1>3. CASE HandleZoneTransferResponse(s)
  <2> DEFINE n == NextAnswer(s)
             S == {a \in Answer : Good(a, asked', Opens(world'))}
             Q == RemoveAt(toServer, n)
  <2>1. toServer' = Q /\ n \in 1..Len(toServer) /\ toServer \in Seq(Answer)
    BY <1>3, NextAnswerFinds DEF HandleZoneTransferResponse, TypeOK
  <2>2. \A m \in 1..Len(toServer) : toServer[m] \in S
    <3>1. \A m \in 1..Len(toServer) : toServer[m] \in Answer
      BY <2>1
    <3>2. QED BY <3>1, Zenon DEF GoodAnswers
  <2> HIDE DEF S, n
  <2>3. toServer \in Seq(S)
    BY <2>1, <2>2
  <2>4. Q \in Seq(S)
    BY <2>1, <2>3, RemoveAtProperties
  <2> HIDE DEF Q
  <2>5. \A m \in 1..Len(Q) : Q[m] \in S
    BY <2>4
  <2>6. QED BY <2>1, <2>5 DEF GoodAnswers, S
<1>4. QED BY <1>1, <1>2, <1>3 DEF ServerStep, RequestZoneTransfer

\* An instance that answers has requests only for the zone its world has opened
\* for: until the world is ready the instance is the one it was started for.
LEMMA AnswersFor ==
  ASSUME NEW i \in Instance, NEW w \in World, NEW down, Conn(w), Suits(i, w, down),
         w.out # <<>>,
         i.pendingRequests # <<>> => Head(w.out).kind = "WORLD_READY",
         ~ NothingParked(i)
  PROVE  i.zone = w.zone /\ w.ready
<1>1. w.ready
  BY DEF Conn
<1>2. CASE i.ready
  BY <1>1, <1>2 DEF Suits
<1>3. CASE ~ i.ready
  <2>1. i.pendingRequests # <<>>
    BY <1>3 DEF Suits, NothingParked
  <2>2. Unfinished(w)
    BY <2>1, TakeFacts
  <2>3. QED BY <1>1, <1>3, <2>2 DEF Suits
<1>4. QED BY <1>2, <1>3

\* The master answers when a world is ready or affirms.
LEMMA MasterAnswers ==
  ASSUME TypeOK, TypeOK', LinkedInv, AnswersInv, NEW p \in DOMAIN world, MasterReceive(p),
         GoodAnswers(toServer, asked', Opens(world'))
  PROVE  GoodAnswers(toServer', asked', Opens(world'))
<1> DEFINE T == m_Instances
           w == world[p]
<1>1. CASE toServer' = toServer
  BY <1>1
<1>2. Opens(world') = Opens(world)
  BY MasterReceiveKeeps, KeepsOpens DEF TypeOK
<1>3. asked' = asked
  BY DEF MasterReceive, HandleServerInfo, HandleWorldReady, HandleAffirmTransfer,
         HandlePlayerAdded, HandlePlayerRemoved, HandleShutdownResponse, HandleDisconnected,
         UnchangedByTable
<1>4. ASSUME w.ready
      PROVE  <<p, w.zone>> \in Opens(world)
  BY <1>4 DEF Opens
<1>5. T \in Seq(Instance) /\ toServer \in Seq(Answer)
  BY DEF TypeOK
<1>6. CASE HandleWorldReady(p)
  <2> DEFINE k == FindInstanceWithPrivate(T, w.zone.map, p)
             i == T[k]
             rs == i.pendingRequests
  <2>0. w.out # <<>> /\ Head(w.out).kind = "WORLD_READY"
    BY <1>6 DEF HandleWorldReady, Receives
  <2>1. k = 0 \/ (k \in 1..Len(T) /\ i.id = p)
    BY <2>0, Found
  <2>2. toServer' = IF k = 0 THEN toServer ELSE Respond(toServer, rs, i)
    BY <1>6 DEF HandleWorldReady
  <2> HIDE DEF k
  <2>3. CASE k # 0
    <3>1. /\ w \in World /\ Conn(w) /\ i \in Instance /\ Suits(i, w, m_IsShuttingDown)
          /\ k \in 1..Len(T) /\ i.id = p
      BY <2>0, <2>1, <2>3, Receiving
    <3>2. rs \in Seq(Pending) /\ \A n \in 1..Len(rs) : AskedFor(rs[n], i.zone, asked)
      BY <3>1 DEF Instance, AnswersInv, Booked, Books
    <3>3. rs # <<>> => <<i.id, i.zone>> \in Opens(world)
      BY <1>4, <2>0, <3>1, AnswersFor DEF NothingParked
    <3> HIDE DEF i, rs
    <3>4. GoodAnswers(Respond(toServer, rs, i), asked, Opens(world))
      BY <1>2, <1>3, <1>5, <3>1, <3>2, <3>3, RespondGood
    <3>5. QED BY <1>2, <1>3, <2>2, <2>3, <3>4
  <2>4. CASE k = 0
    BY <1>1, <2>2, <2>4
  <2>5. QED BY <2>3, <2>4
<1>7. CASE HandleAffirmTransfer(p)
  <2> DEFINE k  == GetInstanceBySysAddr(T, p)
             i  == T[k]
             ps == i.pendingAffirmations
             n  == PendingIndex(ps, Head(w.out).id)
             r  == ps[n]
  <2>0. w.out # <<>> /\ Head(w.out).kind = "AFFIRM_TRANSFER_RESPONSE"
    BY <1>7 DEF HandleAffirmTransfer, Receives
  <2>1. k = 0 \/ (k \in 1..Len(T) /\ i.id = p)
    BY <2>0, Found
  <2>2. toServer' = IF k = 0 \/ n = 0 THEN toServer ELSE Respond(toServer, <<r>>, i)
    BY <1>7 DEF HandleAffirmTransfer
  <2> HIDE DEF k
  <2>3. CASE k # 0 /\ n # 0
    <3>1. /\ w \in World /\ Conn(w) /\ i \in Instance /\ Suits(i, w, m_IsShuttingDown)
          /\ k \in 1..Len(T) /\ i.id = p
      BY <2>0, <2>1, <2>3, Receiving
    <3>2. ps \in Seq(Pending) /\ \A m \in 1..Len(ps) : AskedFor(ps[m], i.zone, asked)
      BY <3>1 DEF Instance, AnswersInv, Booked, Books
    <3>3. n \in 1..Len(ps)
      BY <2>3, <3>2, PendingIndexFinds
    <3>4. r \in Pending /\ AskedFor(r, i.zone, asked) /\ ps # <<>>
      <4> HIDE DEF n, ps
      <4>1. QED BY <3>2, <3>3
    <3>5. <<i.id, i.zone>> \in Opens(world)
      <4>1. i.ready
        BY <3>1, <3>4 DEF Suits
      <4>2. i.pendingRequests = <<>>
        BY <3>1, <4>1 DEF Suits
      <4>3. i.zone = w.zone /\ w.ready
        <5> HIDE DEF i
        <5>1. QED BY <2>0, <3>1, <3>4, <4>2, AnswersFor DEF NothingParked
      <4>4. QED BY <1>4, <3>1, <4>3
    <3> HIDE DEF i, r
    <3>6. <<r>> \in Seq(Pending) /\ \A m \in 1..Len(<<r>>) : AskedFor(<<r>>[m], i.zone, asked)
      <4>1. Len(<<r>>) = 1 /\ <<r>>[1] = r
        OBVIOUS
      <4>2. \A m \in 1..Len(<<r>>) : <<r>>[m] = r
        BY <4>1
      <4>3. QED BY <3>4, <4>2
    <3>7. GoodAnswers(Respond(toServer, <<r>>, i), asked, Opens(world))
      BY <1>2, <1>3, <1>5, <3>1, <3>5, <3>6, RespondGood
    <3>8. QED BY <1>2, <1>3, <2>2, <2>3, <3>7
  <2>4. CASE k = 0 \/ n = 0
    BY <1>1, <2>2, <2>4
  <2>5. QED BY <2>3, <2>4
<1>8. QED
  BY <1>1, <1>6, <1>7 DEF MasterReceive, HandleServerInfo, HandlePlayerAdded,
     HandlePlayerRemoved, HandleShutdownResponse, HandleDisconnected

\* Every step.
LEMMA AnswersStep ==
  TypeOK /\ TypeOK' /\ LinkedInv /\ AnswersInv /\ [Next]_vars => AnswersInv'
<1>1. SUFFICES ASSUME TypeOK, TypeOK', LinkedInv, AnswersInv, [Next]_vars PROVE AnswersInv'
  OBVIOUS
<1>2. Booked(m_Instances, asked)'
  BY <1>1, BookedStep DEF AnswersInv
<1>3. GoodAnswers(toServer, asked', Opens(world'))
  BY <1>1, GoodStill DEF AnswersInv
<1>4. GoodAnswers(toServer', asked', Opens(world'))
  <2>1. CASE \E s \in Servers : ServerStep(s)
    BY <1>1, <1>3, <2>1, ServerAnswers
  <2>2. CASE \E p \in DOMAIN world : MasterReceive(p)
    BY <1>1, <1>3, <2>2, MasterAnswers
  <2>3. toServer' = toServer \/ (\E s \in Servers : ServerStep(s))
          \/ \E p \in DOMAIN world : MasterReceive(p)
    BY <1>1 DEF Next, Command, WorldStep, PrepZone, CreatePrivateZone,
         ShutdownInstance, WorldConnect, WorldReceive, WorldExit, WorldGivesUp,
         WorldFailsToStart, WorldCrash, ConnectionLost, PlayerEnters, PlayerEntersTooLate,
         PlayerLeaves, PlayerLeavesUnreported, AffirmationTimeout, ShutdownSequence,
         UnchangedByWorld, serverVars, vars
  <2>4. QED BY <1>3, <2>1, <2>2, <2>3
<1>5. GoodAnswers(toServer, asked, Opens(world))'
  BY <1>4
<1>6. QED BY <1>2, <1>5 DEF AnswersInv

\* Before anything has been asked.
LEMMA InitAnswers == Init => AnswersInv
<1>1. SUFFICES ASSUME Init PROVE AnswersInv
  OBVIOUS
<1>2. m_Instances = <<>> /\ toServer = <<>>
  BY <1>1 DEF Init
<1>3. Len(m_Instances) = 0 /\ Len(toServer) = 0
  BY <1>2
<1>4. QED BY <1>3 DEF AnswersInv, Booked, GoodAnswers

\* What the invariant says of an answer.
LEMMA AnswersUse ==
  ASSUME TypeOK, AnswersInv
  PROVE  AnswersAreGood
<1>1. SUFFICES ASSUME NEW a \in ToSet(toServer), asked[a.server][a.id] \in Zones
               PROVE  /\ a.zone = asked[a.server][a.id]
                      /\ world[a.world].zone = a.zone
                      /\ world[a.world].ready
  BY DEF AnswersAreGood
<1>2. PICK n \in DOMAIN toServer : toServer[n] = a
  BY <1>1 DEF ToSet
<1>3. n \in 1..Len(toServer)
  BY DEF TypeOK
<1>4. Good(a, asked, Opens(world))
  BY <1>2, <1>3 DEF AnswersInv, GoodAnswers
<1>5. a.zone = asked[a.server][a.id] /\ <<a.world, a.zone>> \in Opens(world)
  BY <1>1, <1>4 DEF Good
<1>6. PICK q \in DOMAIN world : world[q].ready /\ <<a.world, a.zone>> = <<q, world[q].zone>>
  BY <1>5 DEF Opens
<1>7. QED BY <1>5, <1>6

\* An answer names a world that has opened for exactly the zone that was asked
\* for (AnswersAreGood), through redirects, affirmations that come late, worlds
\* the master forgets and adds back with another clone, and its shutdown.
THEOREM AnswersStayGood == Spec => []AnswersAreGood
<1>1. TypeOK /\ AnswersInv => AnswersAreGood
  BY AnswersUse
<1>2. QED BY <1>1, InitLinks, LinkedStep, InitAnswers, AnswersStep, TypeCorrect, PTL DEF Spec

-----------------------------------------------------------------------------
(* The promise of TransferService *)

\* A callback waits only for what has been asked for, and is gone once called.
GrantsInv ==
  /\ \A s \in Servers : requests[s] \subseteq DOMAIN asked[s]
  /\ \A g \in granted : g.id \in DOMAIN asked[g.server] /\ g.id \notin requests[g.server]

\* A step of a server that asks.
LEMMA AskGrants ==
  ASSUME TypeOK, GrantsInv, NEW s \in Servers, NEW want \in Wants, Ask(s, want),
         UNCHANGED granted
  PROVE  GrantsInv'
<1> DEFINE id == Len(asked[s]) + 1
<1>1. /\ \A t \in Servers : DOMAIN asked[t] \subseteq DOMAIN asked'[t]
      /\ id \in DOMAIN asked'[s] /\ id \notin DOMAIN asked[s]
  BY AskAdds
<1>2. /\ requests'[s] = requests[s] \cup {id}
      /\ \A t \in Servers : t # s => requests'[t] = requests[t]
  BY DEF Ask, TypeOK
<1>3. \A g \in granted : g.server \in Servers
  BY DEF TypeOK
<1> HIDE DEF id
<1>4. \A t \in Servers : requests'[t] \subseteq DOMAIN asked'[t]
  BY <1>1, <1>2 DEF GrantsInv
<1>5. \A g \in granted : g.id \in DOMAIN asked'[g.server] /\ g.id \notin requests'[g.server]
  BY <1>1, <1>2, <1>3 DEF GrantsInv
<1>6. QED BY <1>4, <1>5 DEF GrantsInv

\* A step of a server that calls a callback, or has none to call.
LEMMA ResponseGrants ==
  ASSUME TypeOK, AnswersInv, GrantsInv, NEW s \in Servers, HandleZoneTransferResponse(s)
  PROVE  /\ GrantsInv'
         /\ \/ granted' = granted
            \/ \E p \in WorldIds : \E id \in DOMAIN asked[s] :
                 /\ \A g \in granted : ~ (g.server = s /\ g.id = id)
                 /\ asked[s][id] \in Zones => <<p, asked[s][id]>> \in Opens(world)
                 /\ granted' = granted \cup {[server |-> s, id |-> id, world |-> p]}
<1> DEFINE n == NextAnswer(s)
           a == toServer[n]
<1>1. n \in 1..Len(toServer) /\ a.server = s /\ toServer \in Seq(Answer)
  BY NextAnswerFinds DEF HandleZoneTransferResponse, TypeOK
<1>2. a \in Answer /\ Good(a, asked, Opens(world))
  <2>1. a \in Answer
    BY <1>1
  <2>2. QED BY <1>1, <2>1 DEF AnswersInv, GoodAnswers
<1>3. /\ granted' = IF a.id \in requests[s] THEN granted \cup {Granted(s, a)} ELSE granted
      /\ requests' = [requests EXCEPT ![s] = @ \ {a.id}] /\ asked' = asked
  BY DEF HandleZoneTransferResponse
<1> HIDE DEF a, n
<1>4. /\ requests'[s] = requests[s] \ {a.id}
      /\ \A t \in Servers : t # s => requests'[t] = requests[t]
  BY <1>3 DEF TypeOK
<1>5. \A g \in granted : g.server \in Servers
  BY DEF TypeOK
<1>6. Granted(s, a) = [server |-> s, id |-> a.id, world |-> a.world]
  BY DEF Granted
<1>7. CASE a.id \notin requests[s]
  <2>1. granted' = granted
    BY <1>3, <1>7
  <2>2. GrantsInv'
    BY <1>3, <1>4, <1>5, <2>1 DEF GrantsInv
  <2>3. QED BY <2>1, <2>2
<1>8. CASE a.id \in requests[s]
  <2>1. granted' = granted \cup {[server |-> s, id |-> a.id, world |-> a.world]}
    BY <1>3, <1>6, <1>8
  <2>2. a.id \in DOMAIN asked[s]
    BY <1>8 DEF GrantsInv
  <2>3. \A g \in granted : ~ (g.server = s /\ g.id = a.id)
    BY <1>8 DEF GrantsInv
  <2>4. asked[s][a.id] \in Zones => <<a.world, asked[s][a.id]>> \in Opens(world)
    BY <1>1, <1>2 DEF Good, a
  <2>5. a.world \in WorldIds
    BY <1>2 DEF Answer
  <2>6. GrantsInv'
    <3>1. \A t \in Servers : requests'[t] \subseteq DOMAIN asked'[t]
      BY <1>3, <1>4 DEF GrantsInv
    <3>2. \A g \in granted : g.id \in DOMAIN asked'[g.server] /\ g.id \notin requests'[g.server]
      BY <1>3, <1>4, <1>5 DEF GrantsInv
    <3> DEFINE h == [server |-> s, id |-> a.id, world |-> a.world]
    <3>3. h.id \in DOMAIN asked'[h.server] /\ h.id \notin requests'[h.server]
      BY <1>3, <1>4, <2>2
    <3> HIDE DEF h
    <3>4. \A g \in granted' : g \in granted \/ g = h
      BY <2>1 DEF h
    <3>5. QED BY <3>1, <3>2, <3>3, <3>4 DEF GrantsInv
  <2>7. QED BY <2>1, <2>2, <2>3, <2>4, <2>5, <2>6
<1>9. QED BY <1>7, <1>8

\* Every step keeps GrantsInv.
LEMMA GrantsStep ==
  TypeOK /\ AnswersInv /\ GrantsInv /\ [Next]_vars => GrantsInv'
<1>1. SUFFICES ASSUME TypeOK, AnswersInv, GrantsInv, [Next]_vars PROVE GrantsInv'
  OBVIOUS
<1>2. CASE \E s \in Servers : ServerStep(s)
  <2>1. PICK s \in Servers : ServerStep(s)
    BY <1>2
  <2>2. CASE HandleZoneTransferResponse(s)
    BY <1>1, <2>2, ResponseGrants
  <2>3. CASE \E want \in Wants : Ask(s, want) /\ UNCHANGED granted
    BY <1>1, <2>3, AskGrants
  <2>4. QED BY <2>1, <2>2, <2>3 DEF ServerStep, RequestZoneTransfer, RequestPrivateZone, Wants
<1>3. CASE ~ \E s \in Servers : ServerStep(s)
  BY <1>1, <1>3, OthersGrantNothing DEF GrantsInv
<1>4. QED BY <1>2, <1>3

\* A step of the protocol is a step of the promise, or none.
LEMMA PromiseStep ==
  TypeOK /\ TypeOK' /\ AnswersInv /\ GrantsInv /\ [Next]_vars
    => [Promise!Next]_(Promise!svars)
<1>1. SUFFICES ASSUME TypeOK, TypeOK', AnswersInv, GrantsInv, [Next]_vars
               PROVE  Promise!Next \/ UNCHANGED Promise!svars
  OBVIOUS
<1> DEFINE opened == {<<p, world[p].zone>> : p \in {q \in DOMAIN world : world[q].ready}}
<1>2. opened = Opens(world) /\ opened' = Opens(world')
  BY DEF Opens
<1> HIDE DEF opened
<1>3. CASE \E s \in Servers : ServerStep(s)
  <2>1. PICK s \in Servers : ServerStep(s)
    BY <1>3
  <2>2. opened' = opened
    <3>1. Keeps(world, world')
      BY <1>1, <2>1, MasterKeeps
    <3>2. world \in Seq(World) /\ world' \in Seq(World)
      BY <1>1 DEF TypeOK
    <3>3. QED BY <1>2, <3>1, <3>2, KeepsOpens
  <2>3. CASE HandleZoneTransferResponse(s)
    <3>1. asked' = asked
      BY <2>3 DEF HandleZoneTransferResponse
    <3>2. \/ granted' = granted
          \/ \E p \in WorldIds : \E id \in DOMAIN asked[s] : Promise!Grant(s, id, p)
      BY <1>1, <1>2, <2>2, <2>3, <3>1, ResponseGrants DEF Promise!Grant, opened
    <3>3. QED BY <2>2, <3>1, <3>2 DEF Promise!Next, Promise!svars, opened
  <2>4. CASE \E want \in Zones \cup Passwords : Ask(s, want) /\ UNCHANGED granted
    <3>1. \E want \in Zones \cup Passwords : Promise!Ask(s, want)
      BY <2>2, <2>4 DEF Ask, Promise!Ask, opened
    <3>2. QED BY <3>1 DEF Promise!Next
  <2>5. QED BY <2>1, <2>3, <2>4 DEF ServerStep, RequestZoneTransfer, RequestPrivateZone
<1>4. CASE ~ \E s \in Servers : ServerStep(s)
  <2>1. UNCHANGED <<asked, granted>>
    BY <1>1, <1>4, OthersGrantNothing
  <2>2. CASE opened' = opened
    BY <2>1, <2>2 DEF Promise!svars, opened
  <2>3. ASSUME NEW p \in DOMAIN world, Opening(p)
        PROVE  Promise!Next
    <3>1. world[p].zone \in Zones /\ p \in WorldIds
      <4>1. world[p] \in World /\ p \in WorldIds
        BY <1>1, <2>3, TypeFacts
      <4>2. QED BY <4>1 DEF World
    <3>2. PICK z \in Zones : z = world[p].zone
      BY <3>1
    <3>3. opened' = opened \cup {<<p, z>>}
      BY <1>2, <2>3, <3>2 DEF Opening
    <3>4. \A y \in Zones : <<p, y>> \notin opened
      BY <2>3 DEF opened, Opening
    <3>5. Promise!Open(p, z)
      BY <2>1, <3>3, <3>4 DEF Promise!Open, opened
    <3>6. \E q \in WorldIds, y \in Zones : Promise!Open(q, y)
      BY <3>1, <3>5
    <3>7. QED BY <3>6, Zenon DEF Promise!Next
  <2>4. QED BY <1>1, <1>2, <2>2, <2>3, StepOpens
<1>5. QED BY <1>3, <1>4

\* Before anything has been asked, nothing has been granted.
LEMMA InitPromise == Init => GrantsInv /\ Promise!Init
<1>1. SUFFICES ASSUME Init PROVE GrantsInv /\ Promise!Init
  OBVIOUS
<1>2. world = <<>> /\ granted = {} /\ asked = [s \in Servers |-> <<>>]
      /\ requests = [s \in Servers |-> {}]
  BY <1>1 DEF Init
<1>3. GrantsInv
  BY <1>2 DEF GrantsInv
<1>4. {q \in DOMAIN world : world[q].ready} = {}
  BY <1>2
<1>5. {<<p, world[p].zone>> : p \in {q \in DOMAIN world : world[q].ready}} = {}
  BY <1>4
<1>6. Promise!Init
  BY <1>2, <1>5 DEF Promise!Init
<1>7. QED BY <1>3, <1>6

\* The protocol implements TransferService: whatever happens to worlds and
\* connections, no callback is called twice, and none with a world that has not
\* opened for the zone that was asked for.
THEOREM PromiseIsKept == Spec => KeepsPromise
BY InitPromise, InitLinks, LinkedStep, InitAnswers, AnswersStep, GrantsStep, PromiseStep,
   TypeCorrect, PTL DEF Spec, KeepsPromise, Promise!Spec

-----------------------------------------------------------------------------
(* Calm runs: no request is forgotten *)

\* Worlds that have connected stay so until they end, only those fail that the
\* master has down as ready, and the master goes on: the events of run live, and
\* others that lose no request.
Calm == Events \cap {"crashEarly", "lose", "loseEarly", "masterShutdown"} = {}

\* A world that has announced itself stays connected until it ends, and announces
\* itself in one go.
Stays(w) ==
  /\ w.ready /\ w.running => w.connected
  /\ w.connected => ~ Ending(w.out)
  /\ \A n \in 1..Len(w.out) : w.out[n].kind = "SERVER_INFO" =>
       n = 1 /\ Len(w.out) >= 2 /\ w.out[2].kind = "WORLD_READY"

\* The master has every connected world in its table; an instance that is not
\* ready is one whose world will announce itself, and may still be joined.
Settled(T, W) ==
  /\ \A p \in 1..Len(W) : Stays(W[p])
  /\ \A k \in 1..Len(T) : ~ T[k].ready => Unfinished(W[T[k].id]) /\ ~ T[k].shuttingDown
  /\ \A p \in 1..Len(W) : W[p].connected => \E k \in 1..Len(T) : T[k].id = p

\* A world sends a packet that ends nothing and announces nothing.
LEMMA SendStays ==
  ASSUME NEW w \in World, NEW v \in World, Stays(w), NEW m \in ToMasterMsg,
         m.kind \notin {"SERVER_INFO", "WORLD_READY"}, ~ IsEnd(m),
         v.running = w.running, v.ready = w.ready, v.connected = w.connected,
         v.out = w.out \/ v.out = Append(w.out, m)
  PROVE  Stays(v) /\ (Unfinished(w) <=> Unfinished(v))
<1>1. w.out \in Seq(ToMasterMsg) /\ v.out \in Seq(ToMasterMsg) /\ Len(w.out) \in Nat
  BY WorldFields
<1>2. CASE v.out = w.out
  BY <1>2 DEF Stays, Unfinished, AnnouncesReady, Ending
<1>3. CASE v.out = Append(w.out, m)
  <2>1. /\ Len(v.out) = Len(w.out) + 1 /\ v.out[Len(w.out) + 1] = m
        /\ \A n \in 1..Len(w.out) : n \in 1..Len(v.out) /\ v.out[n] = w.out[n]
        /\ \A n \in 1..Len(v.out) : n \in 1..Len(w.out) \/ n = Len(w.out) + 1
    BY <1>1, <1>3
  <2>2. AnnouncesReady(w.out) <=> AnnouncesReady(v.out)
    BY <2>1 DEF AnnouncesReady
  <2>3. Ending(v.out) => Ending(w.out)
    <3>1. DOMAIN v.out = 1..Len(v.out) /\ DOMAIN w.out = 1..Len(w.out)
      BY <1>1
    <3>2. QED BY <2>1, <3>1 DEF Ending, IsEnd
  <2>4. ASSUME NEW n \in 1..Len(v.out), v.out[n].kind = "SERVER_INFO"
        PROVE  n = 1 /\ Len(v.out) >= 2 /\ v.out[2].kind = "WORLD_READY"
    <3>1. n \in 1..Len(w.out) /\ w.out[n].kind = "SERVER_INFO"
      BY <2>1, <2>4
    <3>2. n = 1 /\ Len(w.out) >= 2 /\ w.out[2].kind = "WORLD_READY"
      BY <3>1 DEF Stays
    <3>3. QED BY <1>1, <2>1, <3>2
  <2>5. QED BY <2>2, <2>3, <2>4 DEF Stays, Unfinished
<1>4. QED BY <1>2, <1>3

\* A world that ends, in order or not, has been heard of by the master or will be.
LEMMA EndStays ==
  ASSUME NEW w \in World, NEW v \in World, Stays(w), w.ready = TRUE, v.ready = TRUE,
         ~ v.running, ~ v.connected,
         NEW n \in 0..Len(w.out), NEW tail \in Seq(ToMasterMsg), v.out = SubSeq(w.out, 1, n) \o tail,
         n = Len(w.out) \/ ~ Unfinished(w),
         \A m \in 1..Len(tail) : tail[m].kind \notin {"SERVER_INFO", "WORLD_READY"}
  PROVE  Stays(v) /\ (Unfinished(w) <=> Unfinished(v))
<1>1. w.out \in Seq(ToMasterMsg) /\ v.out \in Seq(ToMasterMsg) /\ Len(w.out) \in Nat
  BY WorldFields
<1>2. n \in Nat
  BY <1>1
<1>4. /\ Len(v.out) = n + Len(tail) /\ Len(tail) \in Nat
      /\ \A m \in 1..n : m \in 1..Len(v.out) /\ m \in 1..Len(w.out) /\ v.out[m] = w.out[m]
      /\ \A m \in 1..Len(v.out) : m \in 1..n \/ (m - n \in 1..Len(tail) /\ v.out[m] = tail[m - n])
  BY <1>1, PrefixThen
<1>5. \A m \in 1..Len(v.out) : v.out[m].kind \in {"SERVER_INFO", "WORLD_READY"} =>
        m \in 1..n /\ m \in 1..Len(w.out) /\ v.out[m] = w.out[m]
  BY <1>2, <1>4
<1>6. AnnouncesReady(v.out) => AnnouncesReady(w.out)
  BY <1>5 DEF AnnouncesReady
<1>7. CASE n = Len(w.out)
  <2>1. AnnouncesReady(w.out) => AnnouncesReady(v.out)
    BY <1>4, <1>7 DEF AnnouncesReady
  <2>2. ASSUME NEW m \in 1..Len(v.out), v.out[m].kind = "SERVER_INFO"
        PROVE  m = 1 /\ Len(v.out) >= 2 /\ v.out[2].kind = "WORLD_READY"
    <3>1. m \in 1..Len(w.out) /\ w.out[m].kind = "SERVER_INFO"
      BY <1>5, <2>2
    <3>2. m = 1 /\ Len(w.out) >= 2 /\ w.out[2].kind = "WORLD_READY"
      BY <3>1 DEF Stays
    <3>3. 2 \in 1..n
      BY <1>1, <1>7, <3>2
    <3>4. QED BY <1>2, <1>4, <3>2, <3>3
  <2>3. QED BY <1>6, <2>1, <2>2 DEF Stays, Unfinished
<1>8. CASE ~ Unfinished(w)
  <2>1. ~ AnnouncesReady(w.out) /\ ~ AnnouncesReady(v.out)
    BY <1>6, <1>8 DEF Unfinished
  <2>2. \A m \in 1..Len(v.out) : v.out[m].kind # "SERVER_INFO"
    <3>1. SUFFICES ASSUME NEW m \in 1..Len(v.out), v.out[m].kind = "SERVER_INFO" PROVE FALSE
      OBVIOUS
    <3>2. m \in 1..Len(w.out) /\ w.out[m].kind = "SERVER_INFO"
      BY <1>5, <3>1
    <3>3. Len(w.out) >= 2 /\ w.out[2].kind = "WORLD_READY"
      BY <3>2 DEF Stays
    <3>4. 2 \in 1..Len(w.out)
      BY <1>1, <3>3
    <3>5. QED BY <2>1, <3>3, <3>4 DEF AnnouncesReady
  <2>3. QED BY <2>1, <2>2 DEF Stays, Unfinished
<1>9. QED BY <1>7, <1>8

\* The end of a process in good order.
LEMMA ExitedStays ==
  ASSUME NEW w \in World, Stays(w), w.ready = TRUE, w.connected
  PROVE  LET v == Exited(w)
         IN  /\ v \in World /\ ~ v.connected /\ Stays(v)
             /\ Unfinished(w) <=> Unfinished(v)
<1> DEFINE a == Msg("SHUTDOWN_RESPONSE")
           b == Msg("DISCONNECTED")
           tail == <<a, b>>
           v == Exited(w)
<1>1. a \in ToMasterMsg /\ b \in ToMasterMsg /\ a.kind = "SHUTDOWN_RESPONSE" /\ b.kind = "DISCONNECTED"
  BY MsgTypes, Kinds
<1>2. w.out \in Seq(ToMasterMsg) /\ v \in World
  BY WorldFields, ExitedType
<1>3. v.out = Append(Append(w.out, a), b) /\ ~ v.connected /\ ~ v.running /\ v.ready = TRUE
  <2>1. SendToMaster(w, a) = [w EXCEPT !.out = Append(w.out, a)]
    BY DEF SendToMaster
  <2>2. SendToMaster([w EXCEPT !.out = Append(w.out, a)], b)
          = [w EXCEPT !.out = Append(Append(w.out, a), b)]
    BY DEF SendToMaster, World
  <2>3. v = [[w EXCEPT !.out = Append(Append(w.out, a), b)] EXCEPT
               !.running = FALSE, !.connected = FALSE, !.players = 0, !.in = <<>>]
    BY <2>1, <2>2 DEF Exited
  <2> HIDE DEF v, a, b
  <2>4. QED BY <2>3 DEF World
<1> HIDE DEF v, a, b
<1>4. Append(Append(w.out, a), b) = w.out \o tail /\ tail \in Seq(ToMasterMsg)
  BY <1>1, <1>2
<1>5. SubSeq(w.out, 1, Len(w.out)) = w.out /\ Len(w.out) \in 0..Len(w.out)
  BY <1>2
<1>6. \A m \in 1..Len(tail) : tail[m].kind \notin {"SERVER_INFO", "WORLD_READY"}
  BY <1>1
<1>7. v.out = SubSeq(w.out, 1, Len(w.out)) \o tail
  BY <1>3, <1>4, <1>5
<1> HIDE DEF tail
<1>8. Stays(v) /\ (Unfinished(w) <=> Unfinished(v))
  BY <1>2, <1>3, <1>4, <1>5, <1>6, <1>7, EndStays
<1>9. QED BY <1>2, <1>3, <1>8 DEF v

\* A process that dies after the master has it down as ready.
LEMMA CrashedStays ==
  ASSUME NEW w \in World, Stays(w), ~ Unfinished(w), NEW n \in 0..Len(w.out)
  PROVE  LET v == [Dropped(w, n) EXCEPT !.running = FALSE, !.players = 0]
         IN  v \in World /\ ~ v.connected /\ Stays(v) /\ ~ Unfinished(v)
<1> DEFINE b == Msg("CONNECTION_LOST")
           tail == <<b>>
           v == [Dropped(w, n) EXCEPT !.running = FALSE, !.players = 0]
<1>1. b \in ToMasterMsg /\ b.kind = "CONNECTION_LOST"
  BY MsgTypes, Kinds
<1>2. w.out \in Seq(ToMasterMsg) /\ v \in World /\ w.ready = TRUE
  <2>1. Dropped(w, n) \in World
    BY DroppedType
  <2>2. QED BY <2>1, WorldFields DEF World, Unfinished
<1>3. v.out = Append(SubSeq(w.out, 1, n), b) /\ ~ v.connected /\ ~ v.running /\ v.ready = TRUE
  BY <1>2 DEF Dropped, World
<1> HIDE DEF v, b
<1>4. SubSeq(w.out, 1, n) \in Seq(ToMasterMsg)
  BY <1>2
<1>5. Append(SubSeq(w.out, 1, n), b) = SubSeq(w.out, 1, n) \o tail /\ tail \in Seq(ToMasterMsg)
  BY <1>1, <1>4
<1>6. \A m \in 1..Len(tail) : tail[m].kind \notin {"SERVER_INFO", "WORLD_READY"}
  BY <1>1
<1> HIDE DEF tail
<1>7. Stays(v) /\ (Unfinished(w) <=> Unfinished(v))
  BY <1>2, <1>3, <1>5, <1>6, EndStays
<1>8. QED BY <1>2, <1>3, <1>7 DEF v

\* A world that gets its connection.
LEMMA AttachedStays ==
  ASSUME NEW w \in World, Conn(w), Stays(w), w.running, ~ w.connected
  PROVE  LET v == Attached(w)
         IN  v \in World /\ Stays(v) /\ Unfinished(v) /\ Unfinished(w)
<1> DEFINE v == Attached(w)
           a == Msg("SERVER_INFO")
           b == Msg("WORLD_READY")
<1>1. a.kind = "SERVER_INFO" /\ b.kind = "WORLD_READY"
  BY Kinds
<1>2. ~ w.ready /\ w.out = <<>> /\ v \in World
  BY AttachedType DEF Stays, Conn
<1>3. v.ready /\ v.connected /\ v.out = <<>> \o <<a>> \o <<b>>
  BY <1>2 DEF Attached, World
<1>4. a \in ToMasterMsg /\ b \in ToMasterMsg
  BY MsgTypes
<1> HIDE DEF v, a, b
<1>5. v.out = <<a, b>>
  BY <1>3, <1>4, PairOfTwo
<1>50. /\ Len(v.out) = 2 /\ v.out[1].kind = "SERVER_INFO" /\ v.out[2].kind = "WORLD_READY"
      /\ DOMAIN v.out = 1..2
  BY <1>1, <1>5
<1>6. \A n \in 1..Len(v.out) : n = 1 \/ n = 2
  BY <1>50
<1>7. Unfinished(v) /\ Unfinished(w)
  BY <1>2, <1>50 DEF Unfinished, AnnouncesReady
<1>8. Stays(v)
  BY <1>3, <1>50, <1>6 DEF Stays, Ending
<1>9. QED BY <1>2, <1>7, <1>8 DEF v

\* What is left of a world when its first packet has been taken.
LEMMA TookStays ==
  ASSUME NEW w \in World, Stays(w), w.out # <<>>
  PROVE  LET v == TookFirst(w)
         IN  /\ Stays(v) /\ v.connected = w.connected
             /\ Head(w.out).kind # "WORLD_READY" => (Unfinished(w) <=> Unfinished(v))
             /\ Head(w.out).kind = "SERVER_INFO" => Unfinished(w) /\ Unfinished(v)
             /\ IsEnd(Head(w.out)) => ~ w.connected
<1> DEFINE v == TookFirst(w)
<1>1. w.out \in Seq(ToMasterMsg) /\ Len(w.out) \in Nat \ {0}
  BY WorldFields
<1>2. /\ v.out = Tail(w.out) /\ v.ready = w.ready /\ v.running = w.running
      /\ v.connected = w.connected
  BY DEF TookFirst, World
<1> HIDE DEF v
<1>3. /\ Len(v.out) = Len(w.out) - 1 /\ DOMAIN v.out = 1..Len(v.out) /\ DOMAIN w.out = 1..Len(w.out)
      /\ \A n \in 1..Len(v.out) : n + 1 \in 1..Len(w.out) /\ v.out[n] = w.out[n + 1] /\ n + 1 # 1
      /\ \A n \in 1..Len(w.out) : n = 1 \/ (n - 1 \in 1..Len(v.out) /\ v.out[n - 1] = w.out[n])
      /\ Head(w.out) = w.out[1] /\ 1 \in 1..Len(w.out)
  BY <1>1, <1>2
<1>4. Ending(v.out) => Ending(w.out)
  BY <1>3 DEF Ending
<1>5. \A n \in 1..Len(v.out) : v.out[n].kind # "SERVER_INFO"
  BY <1>3 DEF Stays
<1>6. Stays(v)
  BY <1>2, <1>4, <1>5 DEF Stays
<1>7. AnnouncesReady(v.out) => AnnouncesReady(w.out)
  BY <1>3 DEF AnnouncesReady
<1>8. Head(w.out).kind # "WORLD_READY" => (AnnouncesReady(w.out) => AnnouncesReady(v.out))
  BY <1>3 DEF AnnouncesReady
<1>9. ASSUME Head(w.out).kind = "SERVER_INFO" PROVE Unfinished(w)
  <2>1. Len(w.out) >= 2 /\ w.out[2].kind = "WORLD_READY"
    BY <1>3, <1>9 DEF Stays
  <2>2. 2 \in 1..Len(w.out)
    BY <1>1, <2>1
  <2>3. QED BY <2>1, <2>2 DEF Unfinished, AnnouncesReady
<1>10. IsEnd(Head(w.out)) => ~ w.connected
  BY <1>3 DEF Stays, Ending, IsEnd
<1>11. QED BY <1>2, <1>6, <1>7, <1>8, <1>9, <1>10 DEF Unfinished, v

-----------------------------------------------------------------------------
\* The instances keep their ids, and those that are not ready are as they were.
Unsettled(T, U) ==
  /\ Len(U) = Len(T)
  /\ \A k \in 1..Len(T) : U[k].id = T[k].id
  /\ \A k \in 1..Len(T) : ~ U[k].ready => ~ T[k].ready /\ ~ U[k].shuttingDown

\* The table and the worlds move, but their number stays.
LEMMA MovesSettled ==
  ASSUME NEW T, NEW U, NEW W, NEW V, Settled(T, W), Len(W) \in Nat,
         Unsettled(T, U), Len(V) = Len(W),
         \A k \in 1..Len(T) : T[k].id \in 1..Len(W),
         \A p \in 1..Len(W) : Stays(V[p]),
         \A p \in 1..Len(W) : V[p].connected => W[p].connected \/ \E k \in 1..Len(T) : T[k].id = p,
         \A k \in 1..Len(T) : ~ U[k].ready /\ Unfinished(W[T[k].id]) => Unfinished(V[T[k].id])
  PROVE  Settled(U, V)
<1>1. \A p \in 1..Len(V) : Stays(V[p])
  OBVIOUS
<1>2. \A k \in 1..Len(U) : ~ U[k].ready => Unfinished(V[U[k].id]) /\ ~ U[k].shuttingDown
  BY DEF Settled, Unsettled
<1>3. \A p \in 1..Len(V) : V[p].connected => \E k \in 1..Len(U) : U[k].id = p
  BY DEF Settled, Unsettled
<1>4. QED BY <1>1, <1>2, <1>3 DEF Settled

\* One world moves.
LEMMA WorldSettled ==
  ASSUME NEW T \in Seq(Instance), NEW W \in Seq(World), Settled(T, W),
         NEW U, Unsettled(T, U),
         \A k \in 1..Len(T) : T[k].id \in 1..Len(W),
         NEW p \in 1..Len(W), NEW v \in World, Stays(v),
         v.connected => W[p].connected \/ \E k \in 1..Len(T) : T[k].id = p,
         \A k \in 1..Len(T) : T[k].id = p /\ ~ U[k].ready /\ Unfinished(W[p]) => Unfinished(v)
  PROVE  Settled(U, [W EXCEPT ![p] = v])
<1> DEFINE V == [W EXCEPT ![p] = v]
<1>1. Len(V) = Len(W) /\ Len(W) \in Nat /\ \A q \in 1..Len(W) : V[q] = IF q = p THEN v ELSE W[q]
  OBVIOUS
<1> HIDE DEF V
<1>2. \A q \in 1..Len(W) : Stays(V[q])
  BY <1>1 DEF Settled
<1>3. \A q \in 1..Len(W) : V[q].connected => W[q].connected \/ \E k \in 1..Len(T) : T[k].id = q
  BY <1>1
<1>4. \A k \in 1..Len(T) : ~ U[k].ready /\ Unfinished(W[T[k].id]) => Unfinished(V[T[k].id])
  BY <1>1
<1>5. QED BY <1>1, <1>2, <1>3, <1>4, MovesSettled DEF V

\* An instance changes, and stays ready if it was.
LEMMA ChangeUnsettled ==
  ASSUME NEW T \in Seq(Instance), NEW j, NEW i,
         j \in 1..Len(T) => i.id = T[j].id /\ (~ i.ready => ~ T[j].ready /\ ~ i.shuttingDown),
         \A k \in 1..Len(T) : k # j /\ ~ T[k].ready => ~ T[k].shuttingDown
  PROVE  Unsettled(T, [T EXCEPT ![j] = i])
<1> DEFINE U == [T EXCEPT ![j] = i]
<1>1. Len(U) = Len(T) /\ \A k \in 1..Len(T) : U[k] = IF k = j THEN i ELSE T[k]
  OBVIOUS
<1> HIDE DEF U
<1>2. QED BY <1>1 DEF Unsettled, U

\* What a master that changes nothing leaves unsettled.
LEMMA SameUnsettled ==
  ASSUME NEW T, NEW W, Settled(T, W)
  PROVE  Unsettled(T, T)
BY DEF Settled, Unsettled

\* A process has been started, for a new instance.
LEMMA StartedSettled ==
  ASSUME NEW T \in Seq(Instance), NEW W \in Seq(World), Settled(T, W),
         \A k \in 1..Len(T) : T[k].id \in 1..Len(W),
         NEW zone \in Zones, NEW port \in Nat, NEW cap \in Nat, NEW pw, Len(W) < MaxWorlds
  PROVE  Settled(Append(T, NewInstance(zone, Len(W) + 1, port, cap, pw, Unassigned)),
                 StartWorldServer(W, zone, port))
<1> DEFINE i == NewInstance(zone, Len(W) + 1, port, cap, pw, Unassigned)
           U == Append(T, i)
           V == StartWorldServer(W, zone, port)
           n == Len(W) + 1
<1>0. Len(W) \in Nat /\ Len(T) \in Nat
  OBVIOUS
<1>1. V \in Seq(World) /\ Len(V) = Len(W) + 1
  BY StartWorldServerType
<1>2. \A p \in 1..Len(W) : V[p] = W[p]
  BY DEF StartWorldServer
<1>3. ~ V[n].connected /\ ~ V[n].ready /\ V[n].out = <<>>
  BY DEF StartWorldServer
<1>4. i.id = n /\ ~ i.ready /\ ~ i.shuttingDown
  BY DEF NewInstance
<1>5. Len(U) = Len(T) + 1 /\ U[Len(T) + 1] = i /\ \A k \in 1..Len(T) : U[k] = T[k]
  OBVIOUS
<1> HIDE DEF i, U, V
<1>6. Stays(V[n]) /\ Unfinished(V[n])
  BY <1>3 DEF Stays, Unfinished
<1>7. \A k \in 1..Len(U) : k \in 1..Len(T) \/ k = Len(T) + 1
  BY <1>0, <1>5
<1>8. \A p \in 1..Len(V) : p \in 1..Len(W) \/ p = n
  BY <1>0, <1>1
<1>9. \A p \in 1..Len(V) : Stays(V[p])
  BY <1>2, <1>6, <1>8 DEF Settled
<1>10. \A k \in 1..Len(U) : ~ U[k].ready => Unfinished(V[U[k].id]) /\ ~ U[k].shuttingDown
  BY <1>2, <1>4, <1>5, <1>6, <1>7 DEF Settled
<1>11. \A p \in 1..Len(V) : V[p].connected => \E k \in 1..Len(U) : U[k].id = p
  <2>1. SUFFICES ASSUME NEW p \in 1..Len(W), W[p].connected PROVE \E k \in 1..Len(U) : U[k].id = p
    BY <1>2, <1>3, <1>8
  <2>2. PICK k \in 1..Len(T) : T[k].id = p
    BY <2>1 DEF Settled
  <2>3. k \in 1..Len(U) /\ U[k].id = p
    BY <1>0, <1>5, <2>2
  <2>4. QED BY <2>3
<1>12. QED BY <1>9, <1>10, <1>11 DEF Settled, i, U, V

\* The instance of a world that is not connected leaves the table.
LEMMA RemovedSettled ==
  ASSUME NEW T \in Seq(Instance), NEW W \in Seq(World), Settled(T, W),
         NEW x \in 1..Len(T), ~ W[T[x].id].connected
  PROVE  Settled(RemoveAt(T, x), W)
<1> DEFINE U == RemoveAt(T, x)
<1>1. /\ \A j \in 1..Len(U) : \E k \in 1..Len(T) : k # x /\ U[j] = T[k]
      /\ \A k \in 1..Len(T) : k # x => \E j \in 1..Len(U) : U[j] = T[k]
  BY RemoveAtRest, Zenon
<1> HIDE DEF U
<1>2. \A k \in 1..Len(U) : ~ U[k].ready => Unfinished(W[U[k].id]) /\ ~ U[k].shuttingDown
  <2>1. SUFFICES ASSUME NEW j \in 1..Len(U), ~ U[j].ready
                 PROVE  Unfinished(W[U[j].id]) /\ ~ U[j].shuttingDown
    OBVIOUS
  <2>2. PICK k \in 1..Len(T) : U[j] = T[k]
    BY <1>1
  <2>3. QED BY <2>1, <2>2 DEF Settled
<1>3. \A p \in 1..Len(W) : W[p].connected => \E k \in 1..Len(U) : U[k].id = p
  <2>1. SUFFICES ASSUME NEW p \in 1..Len(W), W[p].connected PROVE \E k \in 1..Len(U) : U[k].id = p
    OBVIOUS
  <2>2. PICK k \in 1..Len(T) : T[k].id = p
    BY <2>1 DEF Settled
  <2>3. k # x
    BY <2>1, <2>2
  <2>4. PICK j \in 1..Len(U) : U[j] = T[k]
    BY <1>1, <2>3
  <2>5. QED BY <2>2, <2>4
<1>4. QED BY <1>2, <1>3 DEF Settled, U

\* A packet on its way to a world changes nothing of this.
LEMMA SendSettled ==
  ASSUME NEW T \in Seq(Instance), NEW W \in Seq(World), Settled(T, W),
         \A k \in 1..Len(T) : T[k].id \in 1..Len(W),
         NEW addr, NEW ms \in Seq(ToWorldMsg)
  PROVE  Settled(T, SendToWorld(W, addr, ms))
<1> DEFINE v == [W[addr] EXCEPT !.in = W[addr].in \o ms]
<1>1. CASE addr \in DOMAIN W /\ W[addr].connected
  <2>1. addr \in 1..Len(W) /\ W[addr] \in World
    BY <1>1
  <2>2. SendToWorld(W, addr, ms) = [W EXCEPT ![addr] = v]
    BY <1>1 DEF SendToWorld
  <2>3. W[addr].in \o ms \in Seq(ToWorldMsg)
    BY <2>1, WorldFields
  <2>4. /\ v \in World /\ v.running = W[addr].running /\ v.ready = W[addr].ready
        /\ v.connected = W[addr].connected /\ v.out = W[addr].out
    BY <2>1, <2>3 DEF World
  <2> HIDE DEF v
  <2>5. Stays(W[addr])
    BY <2>1 DEF Settled
  <2>6. Stays(v) /\ (Unfinished(W[addr]) => Unfinished(v))
    BY <2>4, <2>5 DEF Stays, Unfinished
  <2>7. Settled(T, [W EXCEPT ![addr] = v])
    BY <2>1, <2>4, <2>6, SameUnsettled, WorldSettled
  <2>8. QED BY <2>2, <2>7
<1>2. CASE ~ (addr \in DOMAIN W /\ W[addr].connected)
  BY <1>2 DEF SendToWorld
<1>3. QED BY <1>1, <1>2

\* A request on the lists of an instance, and on those of any but instance x.
On(i, s, id) == Waiting(i.pendingRequests, s, id) \/ Waiting(i.pendingAffirmations, s, id)

Held(T, x, s, id) == \E k \in 1..Len(T) : k # x /\ On(T[k], s, id)

\* The table has grown, and so have the lists of its instances.
Grows(T, U) ==
  /\ Len(T) <= Len(U)
  /\ \A k \in 1..Len(T) : U[k].id = T[k].id
  /\ \A k \in 1..Len(T) : \A s, id : On(T[k], s, id) => On(U[k], s, id)

\* Nobody waits less for it.
LEMMA GrowsHeld ==
  ASSUME NEW T \in Seq(Instance), NEW U \in Seq(Instance), Grows(T, U), NEW x, NEW s, NEW id,
         Held(T, x, s, id)
  PROVE  Held(U, x, s, id)
<1>1. PICK k \in 1..Len(T) : k # x /\ On(T[k], s, id)
  BY DEF Held
<1>2. k \in 1..Len(U)
  BY DEF Grows
<1>3. QED BY <1>1, <1>2 DEF Grows, Held

\* Growing twice.
LEMMA GrowsTwice ==
  ASSUME NEW T \in Seq(Instance), NEW U \in Seq(Instance), NEW V \in Seq(Instance),
         Grows(T, U), Grows(U, V)
  PROVE  Grows(T, V)
<1>1. Len(T) \in Nat /\ Len(U) \in Nat /\ Len(V) \in Nat /\ Len(T) <= Len(U) /\ Len(U) <= Len(V)
  BY DEF Grows
<1>2. \A k \in 1..Len(T) : k \in 1..Len(U)
  BY <1>1
<1>3. \A k \in 1..Len(T) : V[k].id = T[k].id
  BY <1>2 DEF Grows
<1>4. \A k \in 1..Len(T) : \A s, id : On(T[k], s, id) => On(V[k], s, id)
  BY <1>2, Zenon DEF Grows
<1>5. QED BY <1>1, <1>3, <1>4 DEF Grows

\* What waits in one of two sequences waits in both together.
LEMMA ConcatWaits ==
  ASSUME NEW R, NEW q \in Seq(R), NEW r \in Seq(R), NEW s, NEW id
  PROVE  Waiting(q, s, id) \/ Waiting(r, s, id) => Waiting(q \o r, s, id)
<1>1. /\ q \o r \in Seq(R) /\ Len(q) \in Nat /\ Len(r) \in Nat
      /\ Len(q \o r) = Len(q) + Len(r)
      /\ \A n \in 1..Len(q) : (q \o r)[n] = q[n]
      /\ \A n \in 1..Len(r) : (q \o r)[Len(q) + n] = r[n]
  OBVIOUS
<1>2. ASSUME Waiting(q, s, id) PROVE Waiting(q \o r, s, id)
  <2>1. PICK n \in 1..Len(q) : q[n].id = id /\ q[n].server = s
    BY <1>2 DEF Waiting
  <2>2. n \in 1..Len(q \o r) /\ (q \o r)[n] = q[n]
    BY <1>1
  <2>3. QED BY <1>1, <2>1, <2>2 DEF Waiting
<1>3. ASSUME Waiting(r, s, id) PROVE Waiting(q \o r, s, id)
  <2>1. PICK n \in 1..Len(r) : r[n].id = id /\ r[n].server = s
    BY <1>3 DEF Waiting
  <2>2. Len(q) + n \in 1..Len(q \o r) /\ (q \o r)[Len(q) + n] = r[n]
    BY <1>1
  <2>3. QED BY <1>1, <2>1, <2>2 DEF Waiting
<1>4. QED BY <1>2, <1>3

\* The requests rs join a list of an instance.
LEMMA JoinsList ==
  ASSUME NEW i \in Instance, NEW rs \in Seq(Pending), NEW j,
         \/ j = [i EXCEPT !.pendingRequests = i.pendingRequests \o rs]
         \/ j = [i EXCEPT !.pendingAffirmations = i.pendingAffirmations \o rs]
  PROVE  /\ j \in Instance /\ j.id = i.id /\ j.ready = i.ready /\ j.shuttingDown = i.shuttingDown
         /\ \A s, id : On(i, s, id) \/ Waiting(rs, s, id) => On(j, s, id)
<1>1. /\ i.pendingRequests \in Seq(Pending) /\ i.pendingAffirmations \in Seq(Pending)
      /\ j.id = i.id /\ j.ready = i.ready /\ j.shuttingDown = i.shuttingDown
  BY DEF Instance
<1>2. i.pendingRequests \o rs \in Seq(Pending) /\ i.pendingAffirmations \o rs \in Seq(Pending)
  BY <1>1
<1>3. /\ j \in Instance
      /\ \/ /\ j.pendingRequests = i.pendingRequests \o rs
            /\ j.pendingAffirmations = i.pendingAffirmations
         \/ /\ j.pendingRequests = i.pendingRequests
            /\ j.pendingAffirmations = i.pendingAffirmations \o rs
  BY <1>2 DEF Instance
<1>4. QED BY <1>1, <1>3, ConcatWaits, Zenon DEF On

\* An instance changes, and is as ready as before.
LEMMA InstanceSettled ==
  ASSUME NEW T \in Seq(Instance), NEW W \in Seq(World), Settled(T, W),
         \A k \in 1..Len(T) : T[k].id \in 1..Len(W), NEW j, NEW i,
         j \in 1..Len(T) => i.id = T[j].id /\ (~ i.ready => ~ T[j].ready /\ ~ i.shuttingDown)
  PROVE  Settled([T EXCEPT ![j] = i], W)
<1>1. Unsettled(T, [T EXCEPT ![j] = i])
  BY ChangeUnsettled DEF Settled
<1>2. Len(W) \in Nat
  OBVIOUS
<1>3. QED BY <1>1, <1>2, MovesSettled DEF Settled

\* An instance changes, and its lists grow.
LEMMA ChangeGrows ==
  ASSUME NEW T \in Seq(Instance), NEW j \in 1..Len(T), NEW i,
         i.id = T[j].id, \A s, id : On(T[j], s, id) => On(i, s, id)
  PROVE  Grows(T, [T EXCEPT ![j] = i])
<1> DEFINE U == [T EXCEPT ![j] = i]
<1>1. Len(T) \in Nat /\ Len(U) = Len(T) /\ \A k \in 1..Len(T) : U[k] = IF k = j THEN i ELSE T[k]
  OBVIOUS
<1> HIDE DEF U
<1>2. \A k \in 1..Len(T) : U[k].id = T[k].id
  BY <1>1
<1>3. \A k \in 1..Len(T) : \A s, id : On(T[k], s, id) => On(U[k], s, id)
  BY <1>1, Zenon
<1>4. QED BY <1>1, <1>2, <1>3 DEF Grows, U

\* GetInstance leaves what there is, and adds at the most an instance.
LEMMA GetInstanceSettled ==
  ASSUME NEW T \in Seq(Instance), NEW W \in Seq(World), Len(W) <= MaxWorlds,
         NEW zone \in Zones, CanGetInstance(T, W, zone), Settled(T, W),
         \A k \in 1..Len(T) : T[k].id \in 1..Len(W)
  PROVE  LET g == GetInstance(T, W, zone)
         IN  /\ Settled(g.tbl, g.world) /\ Grows(T, g.tbl)
             /\ \A p \in 1..Len(W) : g.world[p].connected = W[p].connected
<1> DEFINE g == GetInstance(T, W, zone)
<1>0. Len(T) \in Nat /\ Len(W) \in Nat /\ MaxWorlds \in Nat
  BY ConstantsAssumption
<1>1. CASE FindJoinable(T, zone) # 0
  <2>1. g.tbl = T /\ g.world = W
    BY <1>1 DEF GetInstance
  <2> HIDE DEF g
  <2>2. Grows(T, T)
    BY <1>0 DEF Grows
  <2>3. /\ Settled(g.tbl, g.world) /\ Grows(T, g.tbl)
        /\ \A p \in 1..Len(W) : g.world[p].connected = W[p].connected
    BY <2>1, <2>2
  <2>4. QED BY <2>3 DEF g
<1>2. CASE FindJoinable(T, zone) = 0
  <2> DEFINE port == GetFreePort(T)
             i == NewInstance(zone, Len(W) + 1, port, SoftCap[zone], NoPassword, Unassigned)
             U == Append(T, i)
             V == StartWorldServer(W, zone, port)
  <2>1. g.tbl = U /\ g.world = V
    BY <1>2 DEF GetInstance
  <2>2. Len(W) < MaxWorlds
    BY <1>0, <1>2 DEF CanGetInstance
  <2>3. port \in Nat /\ SoftCap[zone] \in Nat
    BY GetFreePortType, ConstantsAssumption
  <2>4. \A p \in 1..Len(W) : V[p] = W[p]
    BY DEF StartWorldServer
  <2> HIDE DEF port, g
  <2>5. Settled(U, V)
    BY <2>2, <2>3, StartedSettled
  <2> HIDE DEF i, V
  <2>6. Len(U) = Len(T) + 1 /\ \A k \in 1..Len(T) : U[k] = T[k]
    OBVIOUS
  <2> HIDE DEF U
  <2>7. Grows(T, U)
    BY <1>0, <2>6 DEF Grows
  <2>8. /\ Settled(g.tbl, g.world) /\ Grows(T, g.tbl)
        /\ \A p \in 1..Len(W) : g.world[p].connected = W[p].connected
    BY <2>1, <2>4, <2>5, <2>7
  <2>9. QED BY <2>8 DEF g
<1>3. QED BY <1>1, <1>2

\* A packet leaves the connections of the worlds.
LEMMA SendConnections ==
  ASSUME NEW W \in Seq(World), NEW addr, NEW ms, NEW p \in 1..Len(W)
  PROVE  SendToWorld(W, addr, ms)[p].connected = W[p].connected
<1> DEFINE v == [W[addr] EXCEPT !.in = W[addr].in \o ms]
<1>1. CASE addr \in DOMAIN W /\ W[addr].connected
  <2>1. addr \in 1..Len(W) /\ W[addr] \in World
    BY <1>1
  <2>2. SendToWorld(W, addr, ms) = [W EXCEPT ![addr] = v]
    BY <1>1 DEF SendToWorld
  <2>3. v.connected = W[addr].connected
    BY <2>1 DEF World
  <2> HIDE DEF v
  <2>4. [W EXCEPT ![addr] = v][p] = IF p = addr THEN v ELSE W[p]
    BY <2>1
  <2>5. QED BY <2>2, <2>3, <2>4
<1>2. CASE ~ (addr \in DOMAIN W /\ W[addr].connected)
  BY <1>2 DEF SendToWorld
<1>3. QED BY <1>1, <1>2

\* Routing: the requests wait on some instance, not on the one that leaves.
LEMMA RouteSettled ==
  ASSUME NEW T \in Seq(Instance), NEW W \in Seq(World), Len(W) <= MaxWorlds,
         NEW x \in 0..Len(T), Linked(T, W, FALSE, x), Settled(T, W),
         x # 0 => T[x].shutdownComplete \/ T[x].shuttingDown,
         NEW zone \in Zones, CanGetInstance(T, W, zone), NEW rs \in Seq(Pending)
  PROVE  LET r == Route(T, W, zone, rs)
         IN  /\ Settled(r.tbl, r.world) /\ Grows(T, r.tbl)
             /\ \A p \in 1..Len(W) : r.world[p].connected = W[p].connected
             /\ \A s, id : Waiting(rs, s, id) => Held(r.tbl, x, s, id)
<1> DEFINE g == GetInstance(T, W, zone)
           U == g.tbl
           V == g.world
           k == g.at
           i == U[k]
           asks == [n \in DOMAIN rs |-> IdMsg("AFFIRM_TRANSFER_REQUEST", rs[n].id)]
           r == Route(T, W, zone, rs)
<1>1. U \in Seq(Instance) /\ k \in 1..Len(U) /\ V \in Seq(World) /\ Len(W) <= Len(V)
  BY GetInstanceType
<1>2. Linked(U, V, FALSE, x) /\ k # x
  BY GetInstanceLinks
<1>3. \A j \in 1..Len(T) : T[j].id \in 1..Len(W)
  BY DEF Linked
<1>4. Settled(U, V) /\ Grows(T, U) /\ \A p \in 1..Len(W) : V[p].connected = W[p].connected
  BY <1>3, GetInstanceSettled
<1>5. asks \in Seq(ToWorldMsg)
  <2>1. \A n \in 1..Len(rs) : rs[n].id \in 1..MaxRequests
    <3>1. \A n \in 1..Len(rs) : rs[n] \in Pending
      OBVIOUS
    <3>2. QED BY <3>1 DEF Pending
  <2>2. \A n \in 1..Len(rs) : IdMsg("AFFIRM_TRANSFER_REQUEST", rs[n].id) \in ToWorldMsg
    BY <2>1, MsgTypes
  <2>3. QED BY <2>2
<1>6. r = IF i.ready THEN [tbl |-> Affirm(U, k, rs), world |-> SendToWorld(V, i.sysAddr, asks)]
          ELSE [tbl |-> Pend(U, k, rs), world |-> V]
  BY DEF Route
<1> HIDE DEF g, r
<1>7. Affirm(U, k, rs) = [U EXCEPT ![k] = [i EXCEPT !.pendingAffirmations = i.pendingAffirmations \o rs]]
      /\ Pend(U, k, rs) = [U EXCEPT ![k] = [i EXCEPT !.pendingRequests = i.pendingRequests \o rs]]
  BY <1>1 DEF Affirm, Pend
<1>8. \A j \in 1..Len(U) : U[j].id \in 1..Len(V)
  BY <1>2 DEF Linked
<1> HIDE DEF asks, U, V, k
<1>9. i \in Instance
  BY <1>1
<1>10. PICK j : /\ \/ j = [i EXCEPT !.pendingRequests = i.pendingRequests \o rs]
                   \/ j = [i EXCEPT !.pendingAffirmations = i.pendingAffirmations \o rs]
                /\ r.tbl = [U EXCEPT ![k] = j]
                /\ r.world = V \/ r.world = SendToWorld(V, i.sysAddr, asks)
  BY <1>6, <1>7
<1>11. /\ j \in Instance /\ j.id = i.id /\ j.ready = i.ready /\ j.shuttingDown = i.shuttingDown
       /\ \A s, id : On(i, s, id) \/ Waiting(rs, s, id) => On(j, s, id)
  BY <1>9, <1>10, JoinsList
<1>12. r.tbl \in Seq(Instance) /\ Len(r.tbl) = Len(U) /\ r.tbl[k] = j
       /\ \A l \in 1..Len(U) : r.tbl[l].id = U[l].id
  BY <1>1, <1>10, <1>11
<1>13. Settled(r.tbl, V)
  <2>1. ~ i.ready => ~ i.shuttingDown
    BY <1>1, <1>4 DEF Settled
  <2>2. k \in 1..Len(U) => j.id = U[k].id /\ (~ j.ready => ~ U[k].ready /\ ~ j.shuttingDown)
    BY <1>11, <2>1
  <2>3. Settled([U EXCEPT ![k] = j], V)
    BY <1>1, <1>4, <1>8, <2>2, InstanceSettled
  <2>4. QED BY <1>10, <2>3
<1>14. Settled(r.tbl, r.world)
  <2>1. \A l \in 1..Len(r.tbl) : r.tbl[l].id \in 1..Len(V)
    BY <1>8, <1>12
  <2>2. Settled(r.tbl, SendToWorld(V, i.sysAddr, asks))
    <3> DEFINE R == r.tbl
               a == i.sysAddr
    <3>1. R \in Seq(Instance) /\ Settled(R, V) /\ \A l \in 1..Len(R) : R[l].id \in 1..Len(V)
      BY <1>12, <1>13, <2>1
    <3> HIDE DEF R, a
    <3>2. Settled(R, SendToWorld(V, a, asks))
      BY <1>1, <1>5, <3>1, SendSettled
    <3>3. QED BY <3>2 DEF R, a
  <2>3. QED BY <1>10, <1>13, <2>2
<1>15. Grows(T, r.tbl)
  <2>1. Grows(U, r.tbl)
    <3>1. Grows(U, [U EXCEPT ![k] = j])
      <4>1. \A s, id : On(U[k], s, id) => On(j, s, id)
        BY <1>11, Zenon
      <4>2. j.id = U[k].id
        BY <1>11
      <4>3. QED BY <1>1, <4>1, <4>2, ChangeGrows
    <3>2. QED BY <1>10, <3>1
  <2>2. QED BY <1>1, <1>4, <1>12, <2>1, GrowsTwice
<1>16. \A p \in 1..Len(W) : r.world[p].connected = W[p].connected
  <2>1. \A p \in 1..Len(W) : p \in 1..Len(V)
    BY <1>1
  <2>2. QED BY <1>1, <1>4, <1>10, <2>1, SendConnections
<1>17. ASSUME NEW s, NEW id, Waiting(rs, s, id) PROVE Held(r.tbl, x, s, id)
  <2>1. On(r.tbl[k], s, id) /\ k \in 1..Len(r.tbl) /\ k # x
    BY <1>1, <1>2, <1>11, <1>12, <1>17
  <2>2. QED BY <2>1 DEF Held
<1>18. QED BY <1>14, <1>15, <1>16, <1>17 DEF r

\* Redirecting: what an instance has not affirmed waits on another one too.
LEMMA RedirectSettled ==
  ASSUME NEW T \in Seq(Instance), NEW W \in Seq(World), Len(W) <= MaxWorlds,
         NEW x \in 0..Len(T), Linked(T, W, FALSE, x), Settled(T, W),
         x # 0 => T[x].shutdownComplete \/ T[x].shuttingDown,
         NEW k \in 1..Len(T), CanRedirect(T, W, k)
  PROVE  LET r == Redirect(T, W, k)
         IN  /\ Settled(r.tbl, r.world) /\ Grows(T, r.tbl)
             /\ \A p \in 1..Len(W) : r.world[p].connected = W[p].connected
             /\ \A s, id : Waiting(T[k].pendingAffirmations, s, id) => Held(r.tbl, x, s, id)
<1>1. T[k].zone \in Zones /\ T[k].pendingAffirmations \in Seq(Pending)
  <2>1. T[k] \in Instance
    OBVIOUS
  <2>2. QED BY <2>1 DEF Instance
<1>2. CASE T[k].pendingAffirmations = <<>>
  <2>1. Redirect(T, W, k).tbl = T /\ Redirect(T, W, k).world = W
    BY <1>2 DEF Redirect
  <2>2. Len(T) \in Nat
    OBVIOUS
  <2>3. Grows(T, T)
    BY <2>2 DEF Grows
  <2>4. \A s, id : ~ Waiting(T[k].pendingAffirmations, s, id)
    BY <1>2 DEF Waiting
  <2>5. QED BY <2>1, <2>3, <2>4
<1>3. CASE T[k].pendingAffirmations # <<>>
  BY <1>1, <1>3, RouteSettled DEF Redirect, CanRedirect
<1>4. QED BY <1>2, <1>3

SteadyInv == ~ m_IsShuttingDown /\ Settled(m_Instances, world)

\* What a world sends of itself leaves its connection as it was.
LEMMA SendFields ==
  ASSUME NEW w \in World, NEW m \in ToMasterMsg
  PROVE  LET v == SendToMaster(w, m)
         IN  /\ v.running = w.running /\ v.ready = w.ready /\ v.connected = w.connected
             /\ v.out = w.out \/ v.out = Append(w.out, m)
BY DEF SendToMaster, World

\* Steps that let players in and out.
LEMMA PlayersStay ==
  ASSUME NEW w \in World, Stays(w),
         NEW v \in World, NEW n,
         \/ v = SendToMaster(w, Msg("PLAYER_ADDED"))
         \/ v = PlayerIn(w) \/ v = PlayerOut(w)
         \/ v = [w EXCEPT !.players = n]
  PROVE  Stays(v) /\ v.connected = w.connected /\ (Unfinished(w) => Unfinished(v))
<1> DEFINE a == Msg("PLAYER_ADDED")
           b == Msg("PLAYER_REMOVED")
<1>1. /\ a \in ToMasterMsg /\ a.kind \notin {"SERVER_INFO", "WORLD_READY"} /\ ~ IsEnd(a)
      /\ b \in ToMasterMsg /\ b.kind \notin {"SERVER_INFO", "WORLD_READY"} /\ ~ IsEnd(b)
  BY MsgTypes, Kinds DEF IsEnd
<1>2. PICK m \in ToMasterMsg :
        /\ m.kind \notin {"SERVER_INFO", "WORLD_READY"} /\ ~ IsEnd(m)
        /\ v.running = w.running /\ v.ready = w.ready /\ v.connected = w.connected
        /\ v.out = w.out \/ v.out = Append(w.out, m)
  <2> DEFINE y(m) == SendToMaster(w, m)
  <2>1. \A m \in ToMasterMsg :
          /\ y(m) \in World
          /\ y(m).running = w.running /\ y(m).ready = w.ready /\ y(m).connected = w.connected
          /\ y(m).out = w.out \/ y(m).out = Append(w.out, m)
    BY SendFields, SendToMasterType
  <2>2. \/ v = y(a) \/ v = [y(a) EXCEPT !.players = w.players + 1]
        \/ v = [y(b) EXCEPT !.players = w.players - 1] \/ v = [w EXCEPT !.players = n]
    BY DEF PlayerIn, PlayerOut
  <2> HIDE DEF y, a, b
  <2>3. CASE v = y(a) \/ v = [y(a) EXCEPT !.players = w.players + 1]
    <3>1. y(a) \in World /\ v.running = y(a).running /\ v.ready = y(a).ready
          /\ v.connected = y(a).connected /\ v.out = y(a).out
      BY <1>1, <2>1, <2>3 DEF World
    <3>2. QED BY <1>1, <2>1, <3>1
  <2>4. CASE v = [y(b) EXCEPT !.players = w.players - 1]
    <3>1. y(b) \in World /\ v.running = y(b).running /\ v.ready = y(b).ready
          /\ v.connected = y(b).connected /\ v.out = y(b).out
      BY <1>1, <2>1, <2>4 DEF World
    <3>2. QED BY <1>1, <2>1, <3>1
  <2>5. CASE v = [w EXCEPT !.players = n]
    <3>1. v.running = w.running /\ v.ready = w.ready /\ v.connected = w.connected /\ v.out = w.out
      BY <2>5 DEF World
    <3>2. QED BY <1>1, <3>1
  <2>6. QED BY <2>2, <2>3, <2>4, <2>5
<1>3. QED BY <1>2, SendStays

\* A process that fails before it has loaded.
LEMMA FailsStay ==
  ASSUME NEW w \in World, Stays(w)
  PROVE  LET v == [w EXCEPT !.running = FALSE]
         IN  v \in World /\ Stays(v) /\ v.connected = w.connected /\ (Unfinished(w) => Unfinished(v))
<1> DEFINE v == [w EXCEPT !.running = FALSE]
<1>1. v \in World /\ ~ v.running /\ v.ready = w.ready /\ v.connected = w.connected /\ v.out = w.out
  BY DEF World
<1> HIDE DEF v
<1>2. Stays(v) /\ (Unfinished(w) => Unfinished(v))
  BY <1>1 DEF Stays, Unfinished
<1>3. QED BY <1>1, <1>2 DEF v

\* A world that handles a packet of the master.
LEMMA ReceiveStays ==
  ASSUME NEW w \in World, Stays(w), w.connected, w.ready = TRUE, w.in # <<>>
  PROVE  LET m == Head(w.in)
             u == [w EXCEPT !.in = Tail(w.in)]
             v == IF m.kind = "SHUTDOWN" THEN Exited(u)
                  ELSE SendToMaster(u, IdMsg("AFFIRM_TRANSFER_RESPONSE", m.id))
         IN  v \in World /\ Stays(v) /\ (Unfinished(w) => Unfinished(v))
<1> DEFINE m == Head(w.in)
           u == [w EXCEPT !.in = Tail(w.in)]
           a == IdMsg("AFFIRM_TRANSFER_RESPONSE", m.id)
           v == IF m.kind = "SHUTDOWN" THEN Exited(u) ELSE SendToMaster(u, a)
<1>1. w.in \in Seq(ToWorldMsg)
  BY WorldFields
<1>2. Tail(w.in) \in Seq(ToWorldMsg) /\ m \in ToWorldMsg
  BY <1>1
<1>3. /\ u \in World /\ u.running = w.running /\ u.ready = w.ready
      /\ u.connected = w.connected /\ u.out = w.out
  BY <1>2 DEF World
<1> HIDE DEF u, m
<1>4. Stays(u) /\ (Unfinished(w) <=> Unfinished(u)) /\ u.ready = TRUE /\ u.connected
  BY <1>3 DEF Stays, Unfinished
<1>5. CASE m.kind = "SHUTDOWN"
  <2>1. v = Exited(u)
    BY <1>5
  <2>2. v \in World /\ Stays(v) /\ (Unfinished(w) => Unfinished(v))
    BY <1>3, <1>4, <2>1, ExitedStays
  <2>3. QED BY <2>2 DEF v, u, m
<1>6. CASE m.kind # "SHUTDOWN"
  <2>1. m.id \in 1..MaxRequests
    BY <1>2, <1>6 DEF ToWorldMsg
  <2>2. a \in ToMasterMsg /\ a.kind \notin {"SERVER_INFO", "WORLD_READY"} /\ ~ IsEnd(a)
    BY <2>1, MsgTypes, Kinds DEF IsEnd
  <2>3. v = SendToMaster(u, a)
    BY <1>6
  <2> HIDE DEF v, a
  <2>4. v \in World
    BY <1>3, <2>2, <2>3, SendToMasterType
  <2>5. /\ v.running = u.running /\ v.ready = u.ready /\ v.connected = u.connected
        /\ v.out = u.out \/ v.out = Append(u.out, a)
    BY <1>3, <2>2, <2>3, SendFields
  <2>6. Stays(v) /\ (Unfinished(u) <=> Unfinished(v))
    BY <1>3, <1>4, <2>2, <2>4, <2>5, SendStays
  <2>7. v \in World /\ Stays(v) /\ (Unfinished(w) => Unfinished(v))
    BY <1>4, <2>4, <2>6
  <2>8. QED BY <2>7 DEF v, u, m, a
<1>7. QED BY <1>5, <1>6

\* Every step of a world process.
LEMMA WorldStepSettled ==
  ASSUME Calm, TypeOK, LinkedInv, SteadyInv, NEW p \in DOMAIN world, WorldStep(p)
  PROVE  SteadyInv'
<1> DEFINE w == world[p]
           T == m_Instances
<1>0. /\ p \in 1..Len(world) /\ w \in World /\ Conn(w) /\ T \in Seq(Instance)
      /\ world \in Seq(World) /\ Settled(T, world) /\ Stays(w) /\ Unsettled(T, T)
      /\ \A k \in 1..Len(T) : T[k].id \in 1..Len(world)
  <2>1. p \in 1..Len(world) /\ w \in World /\ T \in Seq(Instance) /\ world \in Seq(World)
    BY TypeFacts DEF TypeOK
  <2>2. Settled(T, world)
    BY DEF SteadyInv
  <2>3. Conn(w) /\ Stays(w) /\ \A k \in 1..Len(T) : T[k].id \in 1..Len(world)
    BY <2>1, <2>2 DEF LinkedInv, Linked, Settled
  <2>4. QED BY <2>1, <2>2, <2>3, SameUnsettled
<1>1. UnchangedByWorld
  BY DEF WorldStep, WorldConnect, WorldReceive, WorldExit, WorldGivesUp, WorldFailsToStart,
         WorldCrash, ConnectionLost, PlayerEnters, PlayerEntersTooLate, PlayerLeaves,
         PlayerLeavesUnreported
<1>2. ASSUME NEW v \in World, Stays(v), Unfinished(w) => Unfinished(v),
             v.connected => w.connected \/ \E k \in 1..Len(T) : T[k].id = p,
             world' = [world EXCEPT ![p] = v]
      PROVE  SteadyInv'
  <2>1. Settled(T, [world EXCEPT ![p] = v])
    BY <1>0, <1>2, WorldSettled
  <2>2. T' = T /\ ~ m_IsShuttingDown'
    BY <1>1 DEF UnchangedByWorld, masterVars, SteadyInv
  <2>3. QED BY <1>2, <2>1, <2>2 DEF SteadyInv
<1>3. CASE WorldConnect(p)
  <2> DEFINE v == Attached(w)
  <2>1. world' = [world EXCEPT ![p] = v] /\ ~ w.connected /\ w.running
    BY <1>3 DEF WorldConnect
  <2>2. v \in World /\ Stays(v) /\ Unfinished(v) /\ Unfinished(w)
    BY <1>0, <2>1, AttachedStays
  <2>3. \E k \in 1..Len(T) : T[k].id = p
    BY <1>0, <2>2 DEF SteadyInv, LinkedInv, Linked
  <2> HIDE DEF v
  <2>4. QED BY <1>2, <2>1, <2>2, <2>3
<1>4. CASE WorldReceive(p)
  <2> DEFINE m == Head(w.in)
             u == [w EXCEPT !.in = Tail(w.in)]
             v == IF m.kind = "SHUTDOWN" THEN Exited(u)
                  ELSE SendToMaster(u, IdMsg("AFFIRM_TRANSFER_RESPONSE", m.id))
  <2>1. w.in # <<>> /\ world' = [world EXCEPT ![p] = v]
    BY <1>4 DEF WorldReceive
  <2>2. w.connected /\ w.ready = TRUE
    BY <1>0, <2>1, WorldFields DEF Conn
  <2>3. v \in World /\ Stays(v) /\ (Unfinished(w) => Unfinished(v))
    BY <1>0, <2>1, <2>2, ReceiveStays
  <2> HIDE DEF v
  <2>4. QED BY <1>2, <2>1, <2>2, <2>3
<1>5. CASE WorldExit(p) \/ WorldGivesUp(p)
  <2> DEFINE v == Exited(w)
  <2>1. world' = [world EXCEPT ![p] = v] /\ w.ready /\ w.running
    BY <1>5 DEF WorldExit, WorldGivesUp
  <2>2. w.ready = TRUE /\ w.connected
    BY <1>0, <2>1, WorldFields DEF Stays
  <2>3. v \in World /\ Stays(v) /\ (Unfinished(w) => Unfinished(v))
    BY <1>0, <2>2, ExitedStays
  <2> HIDE DEF v
  <2>4. QED BY <1>2, <2>1, <2>2, <2>3
<1>6. CASE WorldFailsToStart(p)
  <2> DEFINE v == [w EXCEPT !.running = FALSE]
  <2>1. world' = [world EXCEPT ![p] = v]
    BY <1>6 DEF WorldFailsToStart
  <2>2. v \in World /\ Stays(v) /\ v.connected = w.connected /\ (Unfinished(w) => Unfinished(v))
    BY <1>0, FailsStay
  <2> HIDE DEF v
  <2>3. QED BY <1>2, <2>1, <2>2
<1>7. CASE WorldCrash(p)
  <2>1. PICK n \in 0..Len(w.out) :
          world' = [world EXCEPT ![p] = [Dropped(w, n) EXCEPT !.running = FALSE, !.players = 0]]
    BY <1>7 DEF WorldCrash
  <2> DEFINE v == [Dropped(w, n) EXCEPT !.running = FALSE, !.players = 0]
  <2>2. Established(p) /\ w.connected
    BY <1>7 DEF WorldCrash, May, Calm
  <2>3. PICK k \in 1..Len(T) : T[k].id = p /\ T[k].ready
    BY <1>0, <2>2 DEF Established
  <2>4. ~ Unfinished(w)
    <3>1. k # 0
      OBVIOUS
    <3>2. Suits(T[k], world[T[k].id], m_IsShuttingDown)
      BY <3>1, Zenon DEF LinkedInv, Linked
    <3>3. QED BY <2>3, <3>2 DEF Suits
  <2>5. v \in World /\ ~ v.connected /\ Stays(v)
    BY <1>0, <2>4, CrashedStays
  <2> HIDE DEF v
  <2>6. world' = [world EXCEPT ![p] = v]
    BY <2>1 DEF v
  <2>7. QED BY <1>2, <2>4, <2>5, <2>6
<1>8. CASE ConnectionLost(p)
  BY <1>8 DEF ConnectionLost, May, Calm
<1>9. CASE PlayerEnters(p) \/ PlayerEntersTooLate(p)
  <2>1. PICK v : /\ world' = [world EXCEPT ![p] = v]
                 /\ v = PlayerIn(w) \/ v = SendToMaster(w, Msg("PLAYER_ADDED"))
    BY <1>9 DEF PlayerEnters, PlayerEntersTooLate
  <2>2. Msg("PLAYER_ADDED") \in ToMasterMsg
    BY MsgTypes
  <2>3. v \in World
    BY <1>0, <2>1, <2>2, PlayerInType, SendToMasterType
  <2>4. QED BY <1>0, <1>2, <2>1, <2>3, PlayersStay
<1>10. CASE PlayerLeaves(p)
  <2>1. w.players > 0 /\ world' = [world EXCEPT ![p] = PlayerOut(w)]
    BY <1>10 DEF PlayerLeaves
  <2>2. PlayerOut(w) \in World
    BY <1>0, <2>1, PlayerOutType
  <2>3. QED BY <1>0, <1>2, <2>1, <2>2, PlayersStay
<1>11. CASE PlayerLeavesUnreported(p)
  <2> DEFINE v == [w EXCEPT !.players = w.players - 1]
  <2>1. w.players > 0 /\ world' = [world EXCEPT ![p] = v]
    BY <1>11 DEF PlayerLeavesUnreported
  <2>2. v \in World
    BY <1>0, <2>1, PlayersCarry
  <2>3. Stays(v) /\ v.connected = w.connected /\ (Unfinished(w) => Unfinished(v))
    <3>1. ASSUME NEW u \in World, NEW n, u = [w EXCEPT !.players = n]
          PROVE  Stays(u) /\ u.connected = w.connected /\ (Unfinished(w) => Unfinished(u))
      BY <1>0, <3>1, PlayersStay
    <3>2. v = [w EXCEPT !.players = w.players - 1]
      OBVIOUS
    <3> HIDE DEF v
    <3>3. QED BY <2>2, <3>1, <3>2, Zenon
  <2> HIDE DEF v
  <2>4. QED BY <1>2, <2>1, <2>2, <2>3
<1>12. QED BY <1>3, <1>4, <1>5, <1>6, <1>7, <1>8, <1>9, <1>10, <1>11 DEF WorldStep

\* No request is dropped by a step.
KeepsTracked == \A s, id : Tracked(s, id) => Tracked(s, id)'

\* Being tracked, in the terms of the proof.
LEMMA TrackedMeans ==
  ASSUME NEW T \in Seq(Instance), NEW s, NEW id
  PROVE  (\E k \in DOMAIN T : \/ Waiting(T[k].pendingRequests, s, id)
                              \/ Waiting(T[k].pendingAffirmations, s, id))
           <=> Held(T, 0, s, id)
<1>1. DOMAIN T = 1..Len(T) /\ \A k \in 1..Len(T) : k # 0
  OBVIOUS
<1>2. QED BY <1>1, Zenon DEF Held, On

\* What was held is held, or answered.
LEMMA HeldKeeps ==
  ASSUME TypeOK, m_Instances' \in Seq(Instance),
         \A s, id : Held(m_Instances, 0, s, id) =>
           Held(m_Instances', 0, s, id) \/ Waiting(toServer', s, id),
         \A s, id : Waiting(toServer, s, id) => Waiting(toServer', s, id)
  PROVE  KeepsTracked
<1>1. SUFFICES ASSUME NEW s, NEW id, Tracked(s, id) PROVE Tracked(s, id)'
  BY DEF KeepsTracked
<1>2. Held(m_Instances, 0, s, id) \/ Waiting(toServer, s, id)
  <2>1. m_Instances \in Seq(Instance)
    BY DEF TypeOK
  <2>2. QED BY <1>1, <2>1, TrackedMeans DEF Tracked
<1>3. Held(m_Instances', 0, s, id) \/ Waiting(toServer', s, id)
  BY <1>2
<1>4. QED BY <1>3, TrackedMeans DEF Tracked

\* The lists have grown.
LEMMA GrowsKeeps ==
  ASSUME TypeOK, m_Instances' \in Seq(Instance), Grows(m_Instances, m_Instances'),
         UNCHANGED toServer
  PROVE  KeepsTracked
<1>1. m_Instances \in Seq(Instance)
  BY DEF TypeOK
<1>2. \A s, id : Held(m_Instances, 0, s, id) => Held(m_Instances', 0, s, id)
  BY <1>1, GrowsHeld
<1>3. QED BY <1>2, HeldKeeps

\* Nothing has changed.
LEMMA SameGrows == \A T \in Seq(Instance) : Grows(T, T)
<1>1. \A T \in Seq(Instance) : Len(T) <= Len(T)
  OBVIOUS
<1>2. QED BY <1>1, Zenon DEF Grows

\* An answer in flight stays, and every request of rs has one.
LEMMA RespondWaits ==
  ASSUME NEW Q \in Seq(Answer), NEW rs \in Seq(Pending), NEW i \in Instance, NEW s, NEW id,
         Waiting(Q, s, id) \/ Waiting(rs, s, id)
  PROVE  Waiting(Respond(Q, rs, i), s, id)
<1> DEFINE as == [n \in DOMAIN rs |-> AnswerTo(rs[n], i)]
<1>1. \A n \in 1..Len(rs) : AnswerTo(rs[n], i) \in Answer
  <2> TAKE n \in 1..Len(rs)
  <2>1. rs[n] \in Pending OBVIOUS
  <2>2. QED BY <2>1 DEF AnswerTo, Answer, Pending, Instance
<1>2. /\ as \in Seq(Answer) /\ DOMAIN as = 1..Len(rs) /\ DOMAIN rs = 1..Len(rs)
      /\ \A n \in 1..Len(rs) : as[n] = AnswerTo(rs[n], i)
  BY <1>1
<1>3. \A n \in 1..Len(rs) : as[n].id = rs[n].id /\ as[n].server = rs[n].server
  BY <1>2 DEF AnswerTo
<1>4. Respond(Q, rs, i) = Q \o as
  BY DEF Respond
<1> HIDE DEF as
<1>5. Waiting(rs, s, id) => Waiting(as, s, id)
  BY <1>2, <1>3 DEF Waiting
<1>6. QED BY <1>2, <1>4, <1>5, ConcatWaits

\* An instance changes; what it held is on its lists still, or answered.
LEMMA AnsweredKeeps ==
  ASSUME TypeOK, NEW k \in 1..Len(m_Instances), NEW i \in Instance, NEW rs \in Seq(Pending),
         NEW a \in Instance,
         m_Instances' = [m_Instances EXCEPT ![k] = i], toServer' = Respond(toServer, rs, a),
         \A s, id : On(m_Instances[k], s, id) => On(i, s, id) \/ Waiting(rs, s, id)
  PROVE  KeepsTracked
<1>1. m_Instances \in Seq(Instance) /\ toServer \in Seq(Answer)
  BY DEF TypeOK
<1>2. /\ m_Instances' \in Seq(Instance) /\ Len(m_Instances') = Len(m_Instances)
      /\ \A j \in 1..Len(m_Instances) : m_Instances'[j] = IF j = k THEN i ELSE m_Instances[j]
  BY <1>1
<1>3. ASSUME NEW s, NEW id, Held(m_Instances, 0, s, id)
      PROVE  Held(m_Instances', 0, s, id) \/ Waiting(toServer', s, id)
  <2>1. PICK j \in 1..Len(m_Instances) : j # 0 /\ On(m_Instances[j], s, id)
    BY <1>3 DEF Held
  <2>2. CASE On(m_Instances'[j], s, id)
    BY <1>2, <2>1, <2>2 DEF Held
  <2>3. CASE ~ On(m_Instances'[j], s, id)
    <3>1. j = k
      BY <1>2, <2>1, <2>3
    <3>2. Waiting(rs, s, id)
      BY <1>2, <2>1, <2>3, <3>1
    <3>3. QED BY <1>1, <3>2, RespondWaits
  <2>4. QED BY <2>2, <2>3
<1>4. \A s, id : Waiting(toServer, s, id) => Waiting(toServer', s, id)
  BY <1>1, RespondWaits
<1>5. QED BY <1>2, <1>3, <1>4, HeldKeeps

\* A packet of p is taken; the table is as ready as before, and p's instance is
\* ready once p has said so.
LEMMA HandlerSettles ==
  ASSUME TypeOK, LinkedInv, SteadyInv, NEW p \in DOMAIN world, world[p].out # <<>>,
         world' = Taken(p), UNCHANGED m_IsShuttingDown, Unsettled(m_Instances, m_Instances'),
         \A k \in 1..Len(m_Instances) : m_Instances[k].id = p /\ ~ m_Instances'[k].ready =>
           Head(world[p].out).kind # "WORLD_READY"
  PROVE  SteadyInv'
<1> DEFINE T == m_Instances
           w == world[p]
           v == TookFirst(w)
<1>1. /\ p \in 1..Len(world) /\ w \in World /\ T \in Seq(Instance) /\ world \in Seq(World)
      /\ v \in World /\ Taken(p) = [world EXCEPT ![p] = v]
      /\ \A k \in 1..Len(T) : T[k].id \in 1..Len(world)
  BY Receiving
<1>2. Settled(T, world) /\ ~ m_IsShuttingDown
  BY DEF SteadyInv
<1>3. Stays(w)
  BY <1>1, <1>2 DEF Settled
<1>4. /\ Stays(v) /\ v.connected = w.connected
      /\ Head(w.out).kind # "WORLD_READY" => (Unfinished(w) <=> Unfinished(v))
  BY <1>1, <1>3, TookStays
<1> HIDE DEF v
<1>5. \A k \in 1..Len(T) : T[k].id = p /\ ~ T'[k].ready /\ Unfinished(w) => Unfinished(v)
  BY <1>4
<1>6. ASSUME NEW U, U = T' PROVE Settled(U, [world EXCEPT ![p] = v])
  <2>1. Unsettled(T, U) /\ \A k \in 1..Len(T) : T[k].id = p /\ ~ U[k].ready /\ Unfinished(w) => Unfinished(v)
    BY <1>5, <1>6
  <2>2. QED BY <1>1, <1>2, <1>4, <2>1, WorldSettled
<1>7. QED BY <1>1, <1>2, <1>6 DEF SteadyInv

\* A world whose first packet announces nothing has announced itself before.
LEMMA LateIsReady ==
  ASSUME NEW w \in World, Conn(w), w.out # <<>>,
         Head(w.out).kind \notin {"SERVER_INFO", "WORLD_READY"}
  PROVE  ~ Unfinished(w)
<1>1. w.out \in Seq(ToMasterMsg) /\ w.ready = TRUE
  BY WorldFields DEF Conn
<1>2. w.out[1].kind # "WORLD_READY" /\ w.out[1].kind # "SERVER_INFO"
  BY <1>1
<1>3. ~ AnnouncesReady(w.out)
  BY <1>2 DEF Conn, ReadyFirst, AnnouncesReady
<1>4. QED BY <1>1, <1>3 DEF Unfinished

\* What the handlers start from, and how they settle an instance.
LEMMA HandlerChanges ==
  ASSUME TypeOK, LinkedInv, SteadyInv, NEW p \in DOMAIN world, world[p].out # <<>>,
         world' = Taken(p), UNCHANGED m_IsShuttingDown, Head(world[p].out).kind # "WORLD_READY",
         NEW k \in 1..Len(m_Instances), NEW i \in Instance,
         m_Instances' = [m_Instances EXCEPT ![k] = i], i.id = m_Instances[k].id,
         ~ i.ready => ~ m_Instances[k].ready /\ ~ i.shuttingDown
  PROVE  SteadyInv'
<1>1. m_Instances \in Seq(Instance) /\ Settled(m_Instances, world)
  BY DEF TypeOK, SteadyInv
<1>2. \A j \in 1..Len(m_Instances) : j # k /\ ~ m_Instances[j].ready => ~ m_Instances[j].shuttingDown
  BY <1>1 DEF Settled
<1>3. Unsettled(m_Instances, [m_Instances EXCEPT ![k] = i])
  BY <1>1, <1>2, ChangeUnsettled
<1>4. Unsettled(m_Instances, m_Instances')
  BY <1>3
<1>5. QED BY <1>4, HandlerSettles

\* The table does not change.
LEMMA HandlerLeaves ==
  ASSUME TypeOK, LinkedInv, SteadyInv, NEW p \in DOMAIN world, world[p].out # <<>>,
         world' = Taken(p), UNCHANGED <<m_IsShuttingDown, m_Instances, toServer>>,
         \A k \in 1..Len(m_Instances) : m_Instances[k].id = p /\ ~ m_Instances[k].ready =>
           Head(world[p].out).kind # "WORLD_READY"
  PROVE  SteadyInv' /\ KeepsTracked
<1>1. Unsettled(m_Instances, m_Instances)
  BY SameUnsettled DEF SteadyInv
<1>2. Unsettled(m_Instances, m_Instances')
  BY <1>1
<1>3. SteadyInv'
  BY <1>2, HandlerSettles
<1>4. Grows(m_Instances, m_Instances') /\ m_Instances' \in Seq(Instance)
  BY SameGrows DEF TypeOK
<1>5. QED BY <1>3, <1>4, GrowsKeeps

\* SERVER_INFO: with the world in the table, the address is all that changes.
LEMMA ServerInfoSettles ==
  ASSUME TypeOK, LinkedInv, SteadyInv, NEW p \in DOMAIN world, HandleServerInfo(p)
  PROVE  SteadyInv' /\ KeepsTracked
<1> DEFINE T == m_Instances
           w == world[p]
           k == FindInstanceWithPrivate(T, w.zone.map, p)
           i == [T[k] EXCEPT !.sysAddr = p]
<1>0. /\ w.out # <<>> /\ Head(w.out).kind = "SERVER_INFO" /\ world' = Taken(p)
      /\ UNCHANGED <<m_IsShuttingDown, toServer>>
  BY DEF HandleServerInfo, Receives, UnchangedByTable
<1>1. /\ p \in 1..Len(world) /\ p \in WorldIds /\ w \in World /\ T \in Seq(Instance)
      /\ \A j \in 1..Len(T) : T[j] \in Instance /\ Suits(T[j], world[T[j].id], m_IsShuttingDown)
  BY <1>0, Receiving
<1>2. k # 0 => k \in 1..Len(T) /\ T[k].id = p
  BY <1>0, Found
<1>3. IsPortInUse(T, w.port)
  <2>1. Stays(w) /\ ~ m_IsShuttingDown
    BY <1>1 DEF SteadyInv, Settled
  <2>2. Unfinished(w)
    BY <1>0, <1>1, <2>1, TookStays
  <2>3. PICK j \in 1..Len(T) : T[j].id = p
    BY <1>1, <2>1, <2>2 DEF LinkedInv, Linked
  <2>4. T[j].port = w.port
    BY <1>1, <2>3 DEF Suits
  <2>5. QED BY <1>1, <2>4 DEF IsPortInUse
<1>4. T' = IF k # 0 THEN [T EXCEPT ![k].sysAddr = p] ELSE T
  BY <1>3 DEF HandleServerInfo
<1> HIDE DEF k
<1>5. CASE k = 0
  <2>1. UNCHANGED T
    BY <1>4, <1>5
  <2>2. Head(world[p].out).kind # "WORLD_READY"
    BY <1>0
  <2>3. QED BY <1>0, <2>1, <2>2, HandlerLeaves
<1>6. CASE k # 0
  <2>1. k \in 1..Len(T) /\ T[k] \in Instance
    BY <1>1, <1>2, <1>6
  <2>2. /\ i \in Instance /\ i.id = T[k].id /\ i.ready = T[k].ready
        /\ i.shuttingDown = T[k].shuttingDown /\ i.pendingRequests = T[k].pendingRequests
        /\ i.pendingAffirmations = T[k].pendingAffirmations
    BY <1>1, <2>1 DEF Instance
  <2>3. T' = [T EXCEPT ![k] = i]
    BY <1>1, <1>4, <1>6, <2>1
  <2> HIDE DEF i
  <2>4. ~ T[k].ready => ~ T[k].shuttingDown
    BY <2>1 DEF SteadyInv, Settled
  <2>5. Head(world[p].out).kind # "WORLD_READY"
    BY <1>0
  <2>6. SteadyInv'
    BY <1>0, <2>1, <2>2, <2>3, <2>4, <2>5, HandlerChanges
  <2>7. \A s, id : On(T[k], s, id) => On(i, s, id)
    BY <2>2, Zenon DEF On
  <2>8. Grows(T, [T EXCEPT ![k] = i])
    BY <1>1, <2>1, <2>2, <2>7, ChangeGrows
  <2>9. T' \in Seq(Instance) /\ Grows(T, T')
    BY <1>1, <2>1, <2>2, <2>3, <2>8
  <2>10. QED BY <1>0, <2>6, <2>9, GrowsKeeps
<1>7. QED BY <1>5, <1>6

\* WORLD_READY: the instance of the world is found, and its requests are answered.
LEMMA WorldReadySettles ==
  ASSUME TypeOK, LinkedInv, SteadyInv, NEW p \in DOMAIN world, HandleWorldReady(p)
  PROVE  SteadyInv' /\ KeepsTracked
<1> DEFINE T == m_Instances
           w == world[p]
           k == FindInstanceWithPrivate(T, w.zone.map, p)
           i == [T[k] EXCEPT !.ready = TRUE, !.pendingRequests = <<>>]
           rs == T[k].pendingRequests
<1>0. /\ w.out # <<>> /\ world' = Taken(p) /\ UNCHANGED m_IsShuttingDown
      /\ k = 0 => UNCHANGED <<T, toServer>>
      /\ k # 0 => /\ T' = [T EXCEPT ![k].ready = TRUE, ![k].pendingRequests = <<>>]
                  /\ toServer' = Respond(toServer, rs, T[k])
  BY DEF HandleWorldReady, Receives, UnchangedByTable
<1>1. /\ T \in Seq(Instance) /\ \A j \in 1..Len(T) : T[j] \in Instance
      /\ Settled(T, world)
      /\ \A j \in 1..Len(T) : ~ T[j].ready => ~ T[j].shuttingDown
  <2>1. T \in Seq(Instance) /\ \A j \in 1..Len(T) : T[j] \in Instance
    BY <1>0, Receiving
  <2>2. QED BY <2>1 DEF SteadyInv, Settled
<1>2. /\ k # 0 => k \in 1..Len(T) /\ T[k].id = p
      /\ k = 0 => \A j \in 1..Len(T) : T[j].id = p => T[j].shuttingDown
  BY <1>0, Found
<1> HIDE DEF k
<1>3. CASE k = 0
  <2>1. \A j \in 1..Len(T) : T[j].id = p => T[j].ready
    BY <1>1, <1>2, <1>3
  <2>2. UNCHANGED <<m_IsShuttingDown, T, toServer>>
    BY <1>0, <1>3
  <2>3. QED BY <1>0, <2>1, <2>2, HandlerLeaves
<1>4. CASE k # 0
  <2>1. k \in 1..Len(T) /\ T[k] \in Instance /\ T[k].id = p
    BY <1>1, <1>2, <1>4
  <2>2. /\ i \in Instance /\ i.id = T[k].id /\ i.ready = TRUE
        /\ i.pendingAffirmations = T[k].pendingAffirmations
    <3>1. <<>> \in Seq(Pending)
      OBVIOUS
    <3>2. QED BY <2>1, <3>1 DEF Instance
  <2>3. T' = [T EXCEPT ![k] = i] /\ toServer' = Respond(toServer, rs, T[k])
    BY <1>0, <1>1, <1>4, <2>1
  <2>4. rs \in Seq(Pending)
    BY <2>1 DEF Instance
  <2>5. \A s, id : On(T[k], s, id) => On(i, s, id) \/ Waiting(rs, s, id)
    <3> DEFINE a == i.pendingAffirmations
               b == i.pendingRequests
    <3>1. a = T[k].pendingAffirmations
      BY <2>2
    <3>2. \A s, id : On(i, s, id) <=> Waiting(b, s, id) \/ Waiting(a, s, id)
      BY DEF On
    <3> HIDE DEF a, b, i
    <3>3. QED BY <3>1, <3>2, Zenon DEF On
  <2> HIDE DEF i, rs
  <2>6. KeepsTracked
    BY <2>1, <2>2, <2>3, <2>4, <2>5, AnsweredKeeps
  <2>7. \A j \in 1..Len(T) : j # k /\ ~ T[j].ready => ~ T[j].shuttingDown
    BY <1>1
  <2>8. Unsettled(T, [T EXCEPT ![k] = i])
    BY <1>1, <2>1, <2>2, <2>7, ChangeUnsettled
  <2>9. Unsettled(T, T')
    BY <2>3, <2>8
  <2>10. \A j \in 1..Len(T) : T[j].id = p => T'[j].ready
    <3>1. \A j \in 1..Len(T) : T[j].id = p => j = k
      BY <2>1 DEF LinkedInv, Linked
    <3>2. T'[k] = i
      BY <1>1, <2>1, <2>3
    <3>3. QED BY <2>2, <3>1, <3>2
  <2>11. SteadyInv'
    BY <1>0, <2>9, <2>10, HandlerSettles
  <2>12. QED BY <2>6, <2>11
<1>5. QED BY <1>3, <1>4

\* An affirmation came back: its request is answered.
LEMMA AffirmSettles ==
  ASSUME TypeOK, LinkedInv, SteadyInv, NEW p \in DOMAIN world, HandleAffirmTransfer(p)
  PROVE  SteadyInv' /\ KeepsTracked
<1> DEFINE T == m_Instances
           w == world[p]
           k == GetInstanceBySysAddr(T, p)
           rs == T[k].pendingAffirmations
           id == Head(world[p].out).id
           n == PendingIndex(rs, id)
           late == T[k].affirmTimedOut /\ Len(rs) > 1
           i == [T[k] EXCEPT !.pendingAffirmations = RemoveAt(rs, n), !.affirmTimedOut = late]
<1>0. /\ w.out # <<>> /\ world' = Taken(p) /\ UNCHANGED m_IsShuttingDown
      /\ Head(w.out).kind = "AFFIRM_TRANSFER_RESPONSE"
      /\ k = 0 \/ n = 0 => UNCHANGED <<T, toServer>>
      /\ ~ (k = 0 \/ n = 0) =>
           /\ T' = [T EXCEPT ![k].pendingAffirmations = RemoveAt(rs, n),
                             ![k].affirmTimedOut = @ /\ Len(rs) > 1]
           /\ toServer' = Respond(toServer, <<rs[n]>>, T[k])
  BY DEF HandleAffirmTransfer, Receives, UnchangedByTable
<1>1. /\ T \in Seq(Instance) /\ \A j \in 1..Len(T) : T[j] \in Instance
      /\ \A j \in 1..Len(T) : ~ T[j].ready => ~ T[j].shuttingDown
  <2>1. T \in Seq(Instance) /\ \A j \in 1..Len(T) : T[j] \in Instance
    BY <1>0, Receiving
  <2>2. QED BY <2>1 DEF SteadyInv, Settled
<1>2. k # 0 => k \in 1..Len(T) /\ T[k].id = p
  BY <1>0, Found
<1>3. Head(w.out).kind # "WORLD_READY"
  BY <1>0
<1> HIDE DEF k, n
<1>4. CASE k = 0 \/ n = 0
  <2>1. UNCHANGED <<m_IsShuttingDown, T, toServer>>
    BY <1>0, <1>4
  <2>2. QED BY <1>0, <1>3, <2>1, HandlerLeaves
<1>5. CASE ~ (k = 0 \/ n = 0)
  <2>1. k \in 1..Len(T) /\ T[k] \in Instance /\ T[k].id = p
    BY <1>1, <1>2, <1>5
  <2>2. rs \in Seq(Pending) /\ Len(rs) \in Nat /\ late \in BOOLEAN
    <3>1. rs \in Seq(Pending)
      BY <2>1 DEF Instance
    <3>2. T[k].affirmTimedOut \in BOOLEAN
      BY <2>1 DEF Instance
    <3>3. QED BY <3>1, <3>2
  <2>3. n \in 1..Len(rs)
    <3> HIDE DEF rs, id
    <3>1. n \in 0..Len(rs)
      BY <2>2, PendingIndexFinds DEF n
    <3>2. QED BY <1>5, <2>2, <3>1
  <2>4. /\ RemoveAt(rs, n) \in Seq(Pending)
        /\ \A m \in 1..Len(rs) : m # n => \E j \in 1..Len(RemoveAt(rs, n)) : RemoveAt(rs, n)[j] = rs[m]
    <3> HIDE DEF rs
    <3>1. QED BY <2>2, <2>3, RemoveAtRest, Zenon
  <2> DEFINE gone == RemoveAt(rs, n)
             one == <<rs[n]>>
  <2>5. T' = [T EXCEPT ![k] = i]
    <3> DEFINE more == Len(rs) > 1
    <3>1. T' = [T EXCEPT ![k].pendingAffirmations = gone, ![k].affirmTimedOut = @ /\ more]
      BY <1>0, <1>5
    <3>2. i = [T[k] EXCEPT !.pendingAffirmations = gone,
                           !.affirmTimedOut = T[k].affirmTimedOut /\ more]
      OBVIOUS
    <3> HIDE DEF gone, more, i
    <3>3. QED BY <1>1, <2>1, <3>1, <3>2
  <2>6. toServer' = Respond(toServer, one, T[k]) /\ one \in Seq(Pending)
    <3>1. rs[n] \in Pending
      BY <2>2, <2>3
    <3>2. QED BY <1>0, <1>5, <3>1
  <2>7. /\ i \in Instance /\ i.id = T[k].id /\ i.ready = T[k].ready
        /\ i.shuttingDown = T[k].shuttingDown /\ i.pendingRequests = T[k].pendingRequests
        /\ i.pendingAffirmations = gone
    <3> HIDE DEF gone, late
    <3>1. gone \in Seq(Pending) /\ late \in BOOLEAN
      BY <2>2, <2>4 DEF gone
    <3>2. i = [T[k] EXCEPT !.pendingAffirmations = gone, !.affirmTimedOut = late]
      BY DEF gone
    <3> HIDE DEF i
    <3>3. QED BY <2>1, <3>1, <3>2 DEF Instance
  <2>8. ASSUME NEW s, NEW d, On(T[k], s, d) PROVE On(i, s, d) \/ Waiting(one, s, d)
    <3>1. CASE Waiting(T[k].pendingRequests, s, d)
      BY <2>7, <3>1 DEF On
    <3>2. CASE Waiting(rs, s, d)
      <4>1. PICK m \in 1..Len(rs) : rs[m].id = d /\ rs[m].server = s
        BY <2>2, <3>2 DEF Waiting
      <4>2. CASE m = n
        <5>1. one[1] = rs[n] /\ 1 \in DOMAIN one
          OBVIOUS
        <5> HIDE DEF one, rs
        <5>2. QED BY <4>1, <4>2, <5>1 DEF Waiting
      <4>3. CASE m # n
        <5>1. PICK j \in 1..Len(gone) : gone[j] = rs[m]
          BY <2>4, <4>3
        <5>2. gone \in Seq(Pending)
          BY <2>4
        <5> HIDE DEF gone, rs, i
        <5>3. DOMAIN gone = 1..Len(gone)
          BY <5>2
        <5>4. Waiting(gone, s, d)
          BY <4>1, <5>1, <5>3 DEF Waiting
        <5>5. QED BY <2>7, <5>4 DEF On
      <4>4. QED BY <4>2, <4>3
    <3>3. QED BY <2>8, <3>1, <3>2 DEF On
  <2> HIDE DEF i, one
  <2>9. KeepsTracked
    BY <2>1, <2>5, <2>6, <2>7, <2>8, AnsweredKeeps
  <2>10. ~ T[k].ready => ~ T[k].shuttingDown
    BY <1>1, <2>1
  <2>11. SteadyInv'
    BY <1>0, <1>3, <2>1, <2>5, <2>7, <2>10, HandlerChanges
  <2>12. QED BY <2>9, <2>11
<1>6. QED BY <1>4, <1>5

\* PLAYER_ADDED, PLAYER_REMOVED and SHUTDOWN_RESPONSE: only a ready instance is
\* marked as shutting down.
LEMMA CountSettles ==
  ASSUME TypeOK, LinkedInv, SteadyInv, NEW p \in DOMAIN world,
         HandlePlayerAdded(p) \/ HandlePlayerRemoved(p) \/ HandleShutdownResponse(p)
  PROVE  SteadyInv' /\ KeepsTracked
<1> DEFINE T == m_Instances
           w == world[p]
<1>0. /\ w.out # <<>> /\ world' = Taken(p) /\ UNCHANGED <<m_IsShuttingDown, toServer>>
      /\ Head(w.out).kind \in {"PLAYER_ADDED", "PLAYER_REMOVED", "SHUTDOWN_RESPONSE"}
  BY DEF HandlePlayerAdded, HandlePlayerRemoved, HandleShutdownResponse, Receives, UnchangedByTable
<1>1. /\ T \in Seq(Instance) /\ \A j \in 1..Len(T) : T[j] \in Instance
      /\ w \in World /\ Conn(w) /\ p \in WorldIds
  BY <1>0, Receiving
<1>2. Head(w.out).kind \notin {"SERVER_INFO", "WORLD_READY"}
  BY <1>0
<1>3. \A j \in 1..Len(T) : T[j].id = p => T[j].ready
  <2>1. ~ Unfinished(w)
    BY <1>0, <1>1, <1>2, LateIsReady
  <2>2. QED BY <2>1 DEF SteadyInv, Settled
<1>4. \A j \in 1..Len(T) : ~ T[j].ready => ~ T[j].shuttingDown
  BY DEF SteadyInv, Settled
<1>5. CASE T' = T
  BY <1>0, <1>2, <1>5, HandlerLeaves
<1>6. ASSUME NEW k \in 1..Len(T), NEW i \in Instance, T' = [T EXCEPT ![k] = i],
             i.id = T[k].id, i.ready = T[k].ready,
             T[k].ready \/ i.shuttingDown = T[k].shuttingDown,
             i.pendingRequests = T[k].pendingRequests,
             i.pendingAffirmations = T[k].pendingAffirmations
      PROVE  SteadyInv' /\ KeepsTracked
  <2>1. ~ i.ready => ~ T[k].ready /\ ~ i.shuttingDown
    BY <1>4, <1>6
  <2>2. SteadyInv'
    BY <1>0, <1>2, <1>6, <2>1, HandlerChanges
  <2>3. \A s, id : On(T[k], s, id) => On(i, s, id)
    BY <1>6, Zenon DEF On
  <2>4. Grows(T, [T EXCEPT ![k] = i])
    BY <1>1, <1>6, <2>3, ChangeGrows
  <2>5. T' \in Seq(Instance) /\ Grows(T, T')
    BY <1>1, <1>6, <2>4
  <2>6. QED BY <1>0, <2>2, <2>5, GrowsKeeps
<1>7. ASSUME NEW k \in 1..Len(T), NEW n \in Nat, T' = [T EXCEPT ![k].clients = n]
      PROVE  SteadyInv' /\ KeepsTracked
  <2> DEFINE i == [T[k] EXCEPT !.clients = n]
  <2>1. /\ i \in Instance /\ i.id = T[k].id /\ i.ready = T[k].ready
        /\ i.shuttingDown = T[k].shuttingDown /\ i.pendingRequests = T[k].pendingRequests
        /\ i.pendingAffirmations = T[k].pendingAffirmations
    BY <1>1 DEF Instance
  <2>2. T' = [T EXCEPT ![k] = i]
    BY <1>1, <1>7
  <2> HIDE DEF i
  <2>3. QED BY <1>6, <2>1, <2>2
<1>8. CASE HandlePlayerAdded(p)
  <2> DEFINE k == FindInstanceWithPrivate(T, w.zone.map, p)
  <2>1. k # 0 => k \in 1..Len(T)
    BY <1>0, Found
  <2>2. T' = IF k = 0 THEN T ELSE [T EXCEPT ![k].clients = @ + 1]
    BY <1>8 DEF HandlePlayerAdded
  <2> HIDE DEF k
  <2>3. CASE k # 0
    <3>1. T[k] \in Instance
      BY <1>1, <2>1, <2>3
    <3>2. T[k].clients + 1 \in Nat
      BY <3>1 DEF Instance
    <3>3. T' = [T EXCEPT ![k].clients = T[k].clients + 1]
      BY <1>1, <2>1, <2>2, <2>3
    <3>4. QED BY <1>7, <2>1, <2>3, <3>2, <3>3
  <2>4. QED BY <1>5, <2>2, <2>3
<1>9. CASE HandlePlayerRemoved(p)
  <2> DEFINE k == FindPublicInstance(T, w.zone.map, p)
  <2>1. k \in 0..Len(T)
    BY <1>1, FindPublicInstanceFinds
  <2>2. T' = IF k = 0 THEN T ELSE [T EXCEPT ![k].clients = RemovePlayer(@)]
    BY <1>9 DEF HandlePlayerRemoved
  <2> HIDE DEF k
  <2>3. CASE k # 0
    <3>0. k \in 1..Len(T)
      <4>1. Len(T) \in Nat
        BY <1>1
      <4>2. QED BY <2>1, <2>3, <4>1
    <3>1. T[k] \in Instance
      BY <1>1, <3>0
    <3>2. RemovePlayer(T[k].clients) \in Nat
      BY <3>1 DEF Instance, RemovePlayer
    <3>3. T' = [T EXCEPT ![k].clients = RemovePlayer(T[k].clients)]
      BY <1>1, <3>0, <2>2, <2>3
    <3>4. QED BY <1>7, <3>0, <3>2, <3>3
  <2>4. QED BY <1>5, <2>2, <2>3
<1>10. CASE HandleShutdownResponse(p)
  <2> DEFINE k == GetInstanceBySysAddr(T, p)
             i == [T[k] EXCEPT !.shuttingDown = TRUE]
  <2>1. k # 0 => k \in 1..Len(T) /\ T[k].id = p
    BY <1>0, Found
  <2>2. T' = IF k = 0 THEN T ELSE [T EXCEPT ![k].shuttingDown = TRUE]
    BY <1>10 DEF HandleShutdownResponse
  <2> HIDE DEF k
  <2>3. CASE k # 0
    <3>1. k \in 1..Len(T) /\ T[k] \in Instance /\ T[k].ready = TRUE
      <4>1. k \in 1..Len(T) /\ T[k] \in Instance /\ T[k].ready
        BY <1>1, <1>3, <2>1, <2>3
      <4>2. QED BY <4>1 DEF Instance
    <3>2. /\ i \in Instance /\ i.id = T[k].id /\ i.ready = T[k].ready
          /\ i.shuttingDown = TRUE /\ i.pendingRequests = T[k].pendingRequests
          /\ i.pendingAffirmations = T[k].pendingAffirmations
      BY <3>1 DEF Instance
    <3>3. T' = [T EXCEPT ![k] = i]
      BY <1>1, <2>2, <2>3, <3>1
    <3> HIDE DEF i
    <3>4. QED BY <1>6, <3>1, <3>2, <3>3
  <2>4. QED BY <1>5, <2>2, <2>3
<1>11. QED BY <1>8, <1>9, <1>10

\* The goodbye of a world: what its instance has not affirmed is held elsewhere
\* before the instance leaves the table, and nobody else waits there.
LEMMA DisconnectedSettles ==
  ASSUME TypeOK, LinkedInv, SteadyInv, NEW p \in DOMAIN world, HandleDisconnected(p)
  PROVE  SteadyInv' /\ KeepsTracked
<1> DEFINE T == m_Instances
           w == world[p]
           v == TookFirst(w)
           V == Taken(p)
           k == GetInstanceBySysAddr(T, p)
           i == [T[k] EXCEPT !.shutdownComplete = TRUE]
           U == [T EXCEPT ![k].shutdownComplete = TRUE]
           r == Redirect(U, V, k)
<1>0. /\ w.out # <<>> /\ IsEnd(Head(w.out)) /\ UNCHANGED <<m_IsShuttingDown, toServer>>
      /\ m_IsShuttingDown = FALSE
      /\ IF k = 0 THEN T' = T /\ world' = V
         ELSE CanRedirect(U, world, k) /\ T' = RemoveAt(r.tbl, k) /\ world' = r.world
  BY DEF HandleDisconnected, Receives, IsEnd, UnchangedByTable, SteadyInv, TypeOK
<1>1. /\ p \in 1..Len(world) /\ w \in World /\ Conn(w) /\ T \in Seq(Instance)
      /\ world \in Seq(World) /\ v \in World /\ Conn(v)
      /\ Unfinished(v) => Unfinished(w)
      /\ V = [world EXCEPT ![p] = v]
      /\ \A j \in 1..Len(T) : /\ T[j] \in Instance /\ T[j].id \in 1..Len(world)
                              /\ Suits(T[j], world[T[j].id], FALSE)
  BY <1>0, Receiving
<1>2. k # 0 => k \in 1..Len(T) /\ T[k].id = p
  BY <1>0, Found
<1>3. V \in Seq(World) /\ Len(V) = Len(world) /\ Len(world) <= MaxWorlds
  BY <1>0, <1>1, TakenType DEF TypeOK
<1>4. Head(w.out).kind \notin {"SERVER_INFO", "WORLD_READY"}
  BY <1>0 DEF IsEnd
<1>5. /\ Settled(T, world) /\ Stays(w) /\ ~ Unfinished(w)
  BY <1>0, <1>1, <1>4, LateIsReady DEF SteadyInv, Settled
<1>6. /\ Stays(v) /\ ~ v.connected /\ ~ Unfinished(v)
      /\ \A j \in 1..Len(T) : ~ T[j].ready => ~ T[j].shuttingDown
      /\ \A j \in 1..Len(T) : T[j].id = p => T[j].ready
  <2>1. Stays(v) /\ v.connected = w.connected /\ ~ w.connected
    BY <1>0, <1>1, <1>5, TookStays
  <2>2. QED BY <1>1, <1>5, <2>1 DEF Settled
<1> HIDE DEF k, r, V, v
<1>7. CASE k = 0
  <2>1. UNCHANGED <<m_IsShuttingDown, m_Instances, toServer>> /\ world' = V
    BY <1>0, <1>7
  <2>2. Head(w.out).kind # "WORLD_READY"
    BY <1>4
  <2>3. QED BY <1>0, <2>1, <2>2, HandlerLeaves DEF V
<1>8. CASE k # 0
  <2>1. k \in 1..Len(T) /\ T[k].id = p /\ T[k] \in Instance /\ Len(T) \in Nat
    BY <1>1, <1>2, <1>8
  <2>2. /\ i \in Instance /\ i.id = p /\ i.shutdownComplete = TRUE /\ i.ready = T[k].ready
        /\ i.shuttingDown = T[k].shuttingDown
        /\ i.pendingRequests = T[k].pendingRequests
        /\ i.pendingAffirmations = T[k].pendingAffirmations
    BY <2>1 DEF Instance
  <2>3. U = [T EXCEPT ![k] = i]
    BY <1>1, <2>1
  <2> HIDE DEF i, U
  <2>4. U \in Seq(Instance) /\ Len(U) = Len(T) /\ U[k] = i
        /\ \A j \in 1..Len(T) : j # k => U[j] = T[j]
    BY <1>1, <2>1, <2>2, <2>3
  <2>5. Linked(T, world, FALSE, k)
    <3>1. Linked(T, world, FALSE, 0)
      BY <1>0 DEF LinkedInv
    <3>2. \A j \in 1..Len(T) : j # 0
      OBVIOUS
    <3>3. \A q \in 1..Len(world) : Unfinished(world[q]) => q # p
      BY <1>5
    <3>4. QED BY <2>1, <3>1, <3>2, <3>3 DEF Linked
  <2>6. Linked(U, V, FALSE, k)
    <3>1. Linked([T EXCEPT ![k] = i], [world EXCEPT ![p] = v], FALSE, k)
      BY <1>1, <2>1, <2>2, <2>5, BothMove
    <3>2. QED BY <1>1, <2>3, <3>1
  <2>7. Settled(U, V)
    <3>1. \A j \in 1..Len(T) : j # k /\ ~ T[j].ready => ~ T[j].shuttingDown
      BY <1>6
    <3>2. Unsettled(T, [T EXCEPT ![k] = i])
      BY <1>1, <1>6, <2>1, <2>2, <3>1, ChangeUnsettled
    <3>3. Unsettled(T, U)
      BY <2>3, <3>2
    <3>4. \A j \in 1..Len(T) : T[j].id \in 1..Len(world)
      BY <1>1
    <3>5. Settled(U, [world EXCEPT ![p] = v])
      BY <1>1, <1>5, <1>6, <3>3, <3>4, WorldSettled
    <3>6. QED BY <1>1, <3>5
  <2>8. CanRedirect(U, world, k) /\ T' = RemoveAt(r.tbl, k) /\ world' = r.world
    BY <1>0, <1>8
  <2>9. CanRedirect(U, V, k)
    BY <1>3, <2>8 DEF CanRedirect, CanGetInstance
  <2>10. k \in 0..Len(U) /\ k \in 1..Len(U) /\ U[k].shutdownComplete
    BY <2>1, <2>2, <2>4
  <2>11. /\ r.tbl \in Seq(Instance) /\ Len(U) <= Len(r.tbl) /\ r.world \in Seq(World)
    BY <1>3, <2>4, <2>9, <2>10, RedirectType DEF r
  <2>12. /\ Settled(r.tbl, r.world) /\ Grows(U, r.tbl)
         /\ \A q \in 1..Len(V) : r.world[q].connected = V[q].connected
         /\ \A s, id : Waiting(U[k].pendingAffirmations, s, id) => Held(r.tbl, k, s, id)
    BY <1>3, <2>4, <2>6, <2>7, <2>9, <2>10, RedirectSettled DEF r
  <2>13. k \in 1..Len(r.tbl) /\ r.tbl[k].id = p
    BY <2>2, <2>4, <2>10, <2>11, <2>12 DEF Grows
  <2>14. ~ r.world[p].connected
    <3>1. p \in 1..Len(V) /\ V[p] = v
      BY <1>1, <1>3
    <3>2. QED BY <1>6, <2>12, <3>1
  <2>15. SteadyInv'
    <3>1. ~ r.world[r.tbl[k].id].connected
      BY <2>13, <2>14
    <3>2. Settled(RemoveAt(r.tbl, k), r.world)
      <4> DEFINE R == r.tbl
                 Z == r.world
      <4>1. R \in Seq(Instance) /\ Z \in Seq(World) /\ Settled(R, Z) /\ k \in 1..Len(R)
            /\ ~ Z[R[k].id].connected
        BY <2>11, <2>12, <2>13, <3>1
      <4> HIDE DEF R, Z
      <4>2. Settled(RemoveAt(R, k), Z)
        BY <4>1, RemovedSettled
      <4>3. QED BY <4>2 DEF R, Z
    <3>3. QED BY <1>0, <2>8, <3>2 DEF SteadyInv
  <2>16. KeepsTracked
    <3> DEFINE R == r.tbl
               S == RemoveAt(R, k)
    <3>1. R \in Seq(Instance) /\ k \in 1..Len(R) /\ T' = S /\ Grows(U, R)
      BY <2>8, <2>11, <2>12, <2>13
    <3>2. \A s, id : Waiting(U[k].pendingAffirmations, s, id) => Held(R, k, s, id)
      BY <2>12
    <3> HIDE DEF R
    <3>3. /\ S \in Seq(Instance)
          /\ \A j \in 1..Len(R) : j # k => \E l \in 1..Len(S) : S[l] = R[j]
      BY <3>1, RemoveAtRest, Zenon
    <3>4. \A l \in 1..Len(S) : l # 0
      OBVIOUS
    <3> HIDE DEF S
    <3>5. \A s, id : Held(R, k, s, id) => Held(S, 0, s, id)
      <4>1. SUFFICES ASSUME NEW s, NEW id, Held(R, k, s, id) PROVE Held(S, 0, s, id)
        OBVIOUS
      <4>2. PICK j \in 1..Len(R) : j # k /\ On(R[j], s, id)
        BY <4>1 DEF Held
      <4>3. PICK l \in 1..Len(S) : S[l] = R[j]
        BY <3>3, <4>2
      <4>4. QED BY <3>4, <4>2, <4>3 DEF Held
    <3>6. \A s, id : ~ Waiting(T[k].pendingRequests, s, id)
      <4>1. T[k].pendingRequests = <<>>
        BY <1>1, <1>6, <2>1 DEF Suits
      <4>2. QED BY <4>1 DEF Waiting
    <3>7. ASSUME NEW s, NEW id, Held(T, 0, s, id) PROVE Held(S, 0, s, id)
      <4>1. PICK j \in 1..Len(T) : On(T[j], s, id)
        BY <3>7 DEF Held
      <4>2. CASE j = k
        <5>1. Waiting(U[k].pendingAffirmations, s, id)
          BY <2>2, <2>4, <3>6, <4>1, <4>2 DEF On
        <5>2. QED BY <3>2, <3>5, <5>1
      <4>3. CASE j # k
        <5>1. Held(U, k, s, id)
          BY <2>4, <4>1, <4>3 DEF Held
        <5>2. Held(R, k, s, id)
          BY <2>4, <3>1, <5>1, GrowsHeld
        <5>3. QED BY <3>5, <5>2
      <4>4. QED BY <4>2, <4>3
    <3>8. T' \in Seq(Instance) /\ \A s, id : Held(T, 0, s, id) => Held(T', 0, s, id)
      BY <3>1, <3>3, <3>7
    <3>9. \A s, id : Waiting(toServer, s, id) => Waiting(toServer', s, id)
      BY <1>0
    <3>10. QED BY <3>8, <3>9, HeldKeeps
  <2>17. QED BY <2>15, <2>16
<1>9. QED BY <1>7, <1>8

\* Every packet handler of the master.
LEMMA MasterReceiveSettles ==
  ASSUME TypeOK, LinkedInv, SteadyInv, NEW p \in DOMAIN world, MasterReceive(p)
  PROVE  SteadyInv' /\ KeepsTracked
BY ServerInfoSettles, WorldReadySettles, AffirmSettles, CountSettles, DisconnectedSettles
   DEF MasterReceive

\* The timer of an instance that has not affirmed in time: only a ready one is
\* marked, and what it waits for is held on.
LEMMA TimeoutSettles ==
  ASSUME TypeOK, LinkedInv, SteadyInv, NEW k \in DOMAIN m_Instances, AffirmationTimeout(k)
  PROVE  SteadyInv' /\ KeepsTracked
<1> DEFINE T == m_Instances
           i == [T[k] EXCEPT !.shuttingDown = TRUE, !.affirmTimedOut = TRUE]
           U == [T EXCEPT ![k].shuttingDown = TRUE, ![k].affirmTimedOut = TRUE]
           W == SendToWorld(world, U[k].sysAddr, <<Msg("SHUTDOWN")>>)
           r == Redirect(U, W, k)
<1>0. /\ k \in 1..Len(T) /\ T[k] \in Instance /\ T \in Seq(Instance)
      /\ world \in Seq(World) /\ Len(world) <= MaxWorlds
      /\ m_IsShuttingDown = FALSE /\ m_IsShuttingDown' = FALSE /\ UNCHANGED toServer
      /\ T[k].pendingAffirmations # <<>>
  BY TypeFacts DEF TypeOK, AffirmationTimeout, serverVars
<1>1. Linked(T, world, FALSE, 0) /\ Settled(T, world)
  BY <1>0 DEF LinkedInv, SteadyInv
<1>2. /\ i \in Instance /\ i.id = T[k].id /\ i.port = T[k].port /\ i.zone = T[k].zone
      /\ i.ready = T[k].ready /\ i.sysAddr = T[k].sysAddr
      /\ i.shutdownComplete = T[k].shutdownComplete
      /\ i.pendingRequests = T[k].pendingRequests
      /\ i.pendingAffirmations = T[k].pendingAffirmations /\ i.shuttingDown = TRUE
  BY <1>0 DEF Instance
<1>3. U = [T EXCEPT ![k] = i]
  BY <1>0
<1>4. CanRedirect(U, W, k) /\ T' = r.tbl /\ world' = r.world
  BY DEF AffirmationTimeout
<1> HIDE DEF i, U, r
<1>5. U \in Seq(Instance) /\ Len(U) = Len(T) /\ U[k] = i
  BY <1>0, <1>2, <1>3
<1>6. /\ T[k].id \in 1..Len(world) /\ world[T[k].id] \in World
      /\ Suits(T[k], world[T[k].id], FALSE)
  <2>1. T[k].id \in 1..Len(world) /\ k # 0
    BY <1>0, <1>1 DEF Linked
  <2>2. world[T[k].id] \in World
    BY <1>0, <2>1
  <2>3. Suits(T[k], world[T[k].id], FALSE)
    BY <1>0, <1>1, <2>1, Zenon DEF Linked
  <2>4. QED BY <2>1, <2>2, <2>3
<1>7. Linked(U, world, FALSE, 0)
  <2>1. Suits(i, world[T[k].id], FALSE)
    BY <1>0, <1>2, <1>6, MarkedSuits
  <2>2. Linked([T EXCEPT ![k] = i], world, FALSE, 0)
    BY <1>0, <1>1, <1>2, <2>1, InstanceMoves
  <2>3. QED BY <1>3, <2>2
<1>8. T[k].ready
  BY <1>0, <1>6 DEF Suits
<1>9. Settled(U, world)
  <2>1. \A j \in 1..Len(T) : T[j].id \in 1..Len(world)
    BY <1>1 DEF Linked
  <2>2. k \in 1..Len(T) => i.id = T[k].id /\ (~ i.ready => ~ T[k].ready /\ ~ i.shuttingDown)
    BY <1>2, <1>8
  <2>3. Settled([T EXCEPT ![k] = i], world)
    BY <1>0, <1>1, <2>1, <2>2, InstanceSettled
  <2>4. QED BY <1>3, <2>3
<1>10. Linked(U, W, FALSE, 0)
  BY <1>0, <1>5, <1>7, TellLinks
<1>11. Settled(U, W)
  <2> DEFINE ms == <<Msg("SHUTDOWN")>>
             a == U[k].sysAddr
  <2>1. ms \in Seq(ToWorldMsg)
    BY MsgTypes
  <2>2. \A j \in 1..Len(U) : U[j].id \in 1..Len(world)
    BY <1>7 DEF Linked
  <2> HIDE DEF ms, a
  <2>3. Settled(U, SendToWorld(world, a, ms))
    BY <1>0, <1>5, <1>9, <2>1, <2>2, SendSettled
  <2>4. QED BY <2>3 DEF ms, a
<1>12. W \in Seq(World) /\ Len(W) = Len(world)
  <2>1. U[k].sysAddr \in WorldIds \cup {Unassigned}
    BY <1>2, <1>5 DEF Instance
  <2>2. <<Msg("SHUTDOWN")>> \in Seq(ToWorldMsg)
    BY MsgTypes
  <2>3. QED BY <1>0, <2>1, <2>2, SendToWorldType
<1> HIDE DEF W
<1>13. 0 \in 0..Len(U) /\ k \in 1..Len(U) /\ Len(W) <= MaxWorlds
  BY <1>0, <1>5, <1>12
<1>14. Settled(r.tbl, r.world) /\ Grows(U, r.tbl) /\ r.tbl \in Seq(Instance)
  <2>1. Settled(r.tbl, r.world) /\ Grows(U, r.tbl)
    BY <1>4, <1>5, <1>10, <1>11, <1>12, <1>13, RedirectSettled DEF r
  <2>2. r.tbl \in Seq(Instance)
    BY <1>4, <1>5, <1>12, <1>13, RedirectType DEF r
  <2>3. QED BY <2>1, <2>2
<1>15. SteadyInv'
  BY <1>0, <1>4, <1>14 DEF SteadyInv
<1>16. Grows(T, U)
  <2>1. \A s, id : On(T[k], s, id) => On(i, s, id)
    BY <1>2, Zenon DEF On
  <2>2. Grows(T, [T EXCEPT ![k] = i])
    BY <1>0, <1>2, <2>1, ChangeGrows
  <2>3. QED BY <1>3, <2>2
<1>17. Grows(T, T') /\ T' \in Seq(Instance)
  BY <1>0, <1>4, <1>5, <1>14, <1>16, GrowsTwice
<1>18. QED BY <1>0, <1>15, <1>17, GrowsKeeps

\* A server asks: what it wants, if it is a public zone, is tracked.
LEMMA AskForgetsNothing ==
  ASSUME TypeOK, GrantsInv, NoRequestForgotten, NEW s \in Servers, NEW want \in Wants,
         Ask(s, want), KeepsTracked,
         NEW n, n = Len(asked[s]) + 1, want \in Zones => Tracked(s, n)'
  PROVE  NoRequestForgotten'
<1>1. /\ \A t \in Servers : \A id \in DOMAIN asked[t] : asked'[t][id] = asked[t][id]
      /\ asked'[s][n] = want
  BY AskAdds
<1>2. /\ requests'[s] = requests[s] \cup {n}
      /\ \A t \in Servers : t # s => requests'[t] = requests[t]
  BY DEF Ask, TypeOK
<1>3. SUFFICES ASSUME NEW t \in Servers, NEW id \in requests'[t], asked'[t][id] \in Zones
               PROVE  Tracked(t, id)'
  BY DEF NoRequestForgotten
<1>4. CASE t = s /\ id = n
  BY <1>1, <1>3, <1>4
<1>5. CASE ~ (t = s /\ id = n)
  <2>1. id \in requests[t]
    BY <1>2, <1>3, <1>5
  <2>2. asked[t][id] \in Zones
    BY <1>1, <1>3, <2>1 DEF GrantsInv
  <2>3. Tracked(t, id)
    BY <2>1, <2>2 DEF NoRequestForgotten
  <2>4. QED BY <2>3 DEF KeepsTracked
<1>6. QED BY <1>4, <1>5

\* A step that neither asks nor calls a callback.
LEMMA KeepsForgetsNothing ==
  ASSUME NoRequestForgotten, KeepsTracked, UNCHANGED <<asked, requests>>
  PROVE  NoRequestForgotten'
<1>1. SUFFICES ASSUME NEW s \in Servers, NEW id \in requests[s], asked[s][id] \in Zones
               PROVE  Tracked(s, id)'
  BY DEF NoRequestForgotten
<1>2. Tracked(s, id)
  BY <1>1 DEF NoRequestForgotten
<1>3. QED BY <1>2 DEF KeepsTracked

\* REQUEST_ZONE_TRANSFER: the request waits on some instance.
LEMMA RequestSettles ==
  ASSUME TypeOK, LinkedInv, SteadyInv, GrantsInv, NoRequestForgotten,
         NEW s \in Servers, NEW zone \in Zones, RequestZoneTransfer(s, zone)
  PROVE  SteadyInv' /\ NoRequestForgotten'
<1> DEFINE T == m_Instances
           one == NextRequest(s)
           rs == <<one>>
           r == Route(T, world, zone, rs)
<1>1. PICK n : n = Len(asked[s]) + 1
  OBVIOUS
<1>2. m_IsShuttingDown = FALSE /\ m_IsShuttingDown' = FALSE
  BY DEF TypeOK, SteadyInv, RequestZoneTransfer
<1>3. /\ T \in Seq(Instance) /\ world \in Seq(World) /\ Len(world) <= MaxWorlds
      /\ Settled(T, world) /\ 0 \in 0..Len(T)
  BY DEF TypeOK, SteadyInv
<1>4. Linked(T, world, FALSE, 0)
  BY <1>2 DEF LinkedInv
<1>5. /\ UNCHANGED toServer /\ Ask(s, zone)
      /\ CanGetInstance(T, world, zone) /\ T' = r.tbl /\ world' = r.world
  BY <1>2 DEF RequestZoneTransfer
<1>6. one \in Pending /\ one.id = n /\ one.server = s
  <2>1. Len(asked[s]) \in Nat /\ Len(asked[s]) < MaxRequests
    BY <1>5 DEF TypeOK, Ask
  <2>2. n \in 1..MaxRequests
    BY <1>1, <2>1, ConstantsAssumption
  <2>3. QED BY <1>1, <2>2 DEF NextRequest, Pending
<1> HIDE DEF one
<1>7. rs \in Seq(Pending) /\ rs[1] = one /\ 1 \in DOMAIN rs
  BY <1>6
<1> HIDE DEF rs, r
<1>8. /\ Settled(r.tbl, r.world) /\ Grows(T, r.tbl)
      /\ \A t, id : Waiting(rs, t, id) => Held(r.tbl, 0, t, id)
  BY <1>3, <1>4, <1>5, <1>7, RouteSettled DEF r
<1>9. r.tbl \in Seq(Instance)
  BY <1>3, <1>4, <1>5, <1>7, RouteType DEF r
<1>10. SteadyInv'
  BY <1>2, <1>5, <1>8 DEF SteadyInv
<1>11. KeepsTracked
  BY <1>5, <1>8, <1>9, GrowsKeeps
<1>12. Tracked(s, n)'
  <2>1. Waiting(rs, s, n)
    BY <1>6, <1>7 DEF Waiting
  <2>2. Held(r.tbl, 0, s, n)
    BY <1>8, <2>1
  <2>3. Held(T', 0, s, n) /\ T' \in Seq(Instance)
    BY <1>5, <1>9, <2>2
  <2>4. QED BY <2>3, TrackedMeans DEF Tracked
<1>13. QED BY <1>1, <1>5, <1>10, <1>11, <1>12, AskForgetsNothing DEF Wants

\* REQUEST_PRIVATE_ZONE adds at the most an answer.
LEMMA PrivateSettles ==
  ASSUME TypeOK, SteadyInv, GrantsInv, NoRequestForgotten,
         NEW s \in Servers, NEW pw \in Passwords, RequestPrivateZone(s, pw)
  PROVE  SteadyInv' /\ NoRequestForgotten'
<1> DEFINE k == FindPrivateInstance(m_Instances, pw)
           one == NextRequest(s)
           rs == <<one>>
<1>0. /\ UNCHANGED <<m_Instances, m_IsShuttingDown, world>> /\ Ask(s, pw)
      /\ toServer' = IF k = 0 THEN toServer ELSE Respond(toServer, rs, m_Instances[k])
      /\ m_Instances \in Seq(Instance) /\ toServer \in Seq(Answer)
  BY DEF RequestPrivateZone, masterVars, TypeOK
<1>1. one \in Pending
  <2>1. Len(asked[s]) \in Nat /\ Len(asked[s]) < MaxRequests
    BY <1>0 DEF TypeOK, Ask
  <2>2. Len(asked[s]) + 1 \in 1..MaxRequests
    BY <2>1, ConstantsAssumption
  <2>3. QED BY <2>2 DEF NextRequest, Pending
<1>2. rs \in Seq(Pending)
  BY <1>1
<1>3. k \in 0..Len(m_Instances)
  BY <1>0, FindPrivateInstanceFinds
<1> HIDE DEF k, rs
<1>4. k # 0 => m_Instances[k] \in Instance
  <2>1. Len(m_Instances) \in Nat
    BY <1>0
  <2>2. k # 0 => k \in 1..Len(m_Instances)
    BY <1>3, <2>1
  <2>3. QED BY <1>0, <2>2
<1>5. \A t, id : Waiting(toServer, t, id) => Waiting(toServer', t, id)
  <2>1. CASE k = 0
    BY <1>0, <2>1
  <2>2. CASE k # 0
    BY <1>0, <1>2, <1>4, <2>2, RespondWaits
  <2>3. QED BY <2>1, <2>2
<1>6. KeepsTracked
  BY <1>0, <1>5, HeldKeeps
<1>7. pw \notin Zones
  BY ConstantsAssumption
<1>8. NoRequestForgotten'
  <2>1. PICK n : n = Len(asked[s]) + 1
    OBVIOUS
  <2>2. QED BY <1>0, <1>6, <1>7, <2>1, AskForgetsNothing DEF Wants
<1>9. QED BY <1>0, <1>8 DEF SteadyInv

\* An answer is taken: the callback it calls is the only one that waited for it.
LEMMA ResponseSettles ==
  ASSUME TypeOK, SteadyInv, NoRequestForgotten, NEW s \in Servers, HandleZoneTransferResponse(s)
  PROVE  SteadyInv' /\ NoRequestForgotten'
<1> DEFINE n == NextAnswer(s)
           a == toServer[n]
           q == RemoveAt(toServer, n)
<1>0. /\ n # 0 /\ toServer' = q /\ requests' = [requests EXCEPT ![s] = @ \ {a.id}]
      /\ UNCHANGED <<m_Instances, m_IsShuttingDown, world, asked>>
      /\ toServer \in Seq(Answer)
  BY DEF HandleZoneTransferResponse, masterVars, TypeOK
<1>1. n \in 1..Len(toServer) /\ a.server = s
  <2>1. n \in 0..Len(toServer) /\ a.server = s
    BY <1>0, NextAnswerFinds
  <2>2. Len(toServer) \in Nat
    BY <1>0
  <2> HIDE DEF n
  <2>3. QED BY <1>0, <2>1, <2>2
<1> HIDE DEF n, a, q
<1>2. /\ q \in Seq(Answer)
      /\ \A m \in 1..Len(toServer) : m # n => \E j \in 1..Len(q) : q[j] = toServer[m]
  BY <1>0, <1>1, RemoveAtRest, Zenon DEF q
<1>3. /\ requests'[s] = requests[s] \ {a.id}
      /\ \A t \in Servers : t # s => requests'[t] = requests[t]
  BY <1>0 DEF TypeOK
<1>4. SUFFICES ASSUME NEW t \in Servers, NEW id \in requests'[t], asked'[t][id] \in Zones
               PROVE  Tracked(t, id)'
  BY <1>0 DEF SteadyInv, NoRequestForgotten
<1>5. id \in requests[t] /\ ~ (t = s /\ id = a.id)
  BY <1>3, <1>4
<1>6. Tracked(t, id)
  BY <1>0, <1>4, <1>5 DEF NoRequestForgotten
<1>7. ASSUME Waiting(toServer, t, id) PROVE Waiting(q, t, id)
  <2>1. DOMAIN toServer = 1..Len(toServer) /\ DOMAIN q = 1..Len(q)
    BY <1>0, <1>2
  <2>2. PICK m \in 1..Len(toServer) : toServer[m].id = id /\ toServer[m].server = t
    BY <1>7, <2>1 DEF Waiting
  <2>3. m # n
    BY <1>1, <1>5, <2>2 DEF a
  <2>4. PICK j \in 1..Len(q) : q[j] = toServer[m]
    BY <1>2, <2>3
  <2>5. QED BY <2>1, <2>2, <2>4 DEF Waiting
<1>8. QED BY <1>0, <1>6, <1>7 DEF Tracked

\* The commands forget nothing: at the most they start a process or stop one.
LEMMA CommandSettles ==
  ASSUME TypeOK, LinkedInv, SteadyInv, Command
  PROVE  SteadyInv' /\ KeepsTracked
<1>0. /\ m_Instances \in Seq(Instance) /\ world \in Seq(World) /\ Len(world) <= MaxWorlds
      /\ Settled(m_Instances, world) /\ m_IsShuttingDown = FALSE
      /\ \A k \in 1..Len(m_Instances) : m_Instances[k].id \in 1..Len(world)
      /\ UNCHANGED <<m_IsShuttingDown, toServer>>
  BY DEF TypeOK, LinkedInv, Linked, SteadyInv, Command, PrepZone, CreatePrivateZone,
         ShutdownInstance, masterVars, serverVars
<1>1. Grows(m_Instances, m_Instances)
  BY <1>0, SameGrows
<1>2. ASSUME NEW U \in Seq(Instance), NEW V, Settled(U, V), Grows(m_Instances, U),
             m_Instances' = U, world' = V
      PROVE  SteadyInv' /\ KeepsTracked
  <2>1. SteadyInv'
    BY <1>0, <1>2 DEF SteadyInv
  <2>2. m_Instances' \in Seq(Instance) /\ Grows(m_Instances, m_Instances')
    BY <1>2
  <2>3. QED BY <1>0, <2>1, <2>2, GrowsKeeps
<1>3. ASSUME NEW zone \in Zones, PrepZone(zone) PROVE SteadyInv' /\ KeepsTracked
  <2> DEFINE g == GetInstance(m_Instances, world, zone)
  <2>1. CanGetInstance(m_Instances, world, zone) /\ m_Instances' = g.tbl /\ world' = g.world
    BY <1>3 DEF PrepZone
  <2>2. g.tbl \in Seq(Instance)
    BY <1>0, <2>1, GetInstanceType
  <2>3. Settled(g.tbl, g.world) /\ Grows(m_Instances, g.tbl)
    BY <1>0, <2>1, GetInstanceSettled
  <2> HIDE DEF g
  <2>4. QED BY <1>2, <2>1, <2>2, <2>3
<1>4. ASSUME NEW zone \in Zones, NEW pw \in Passwords, CreatePrivateZone(zone, pw)
      PROVE  SteadyInv' /\ KeepsTracked
  <2>1. CASE FindPrivateInstance(m_Instances, pw) # 0
    <3>1. m_Instances' = m_Instances /\ world' = world
      BY <1>4, <2>1 DEF CreatePrivateZone
    <3>2. QED BY <1>0, <1>1, <1>2, <3>1
  <2>2. CASE FindPrivateInstance(m_Instances, pw) = 0
    <3> DEFINE port == GetFreePort(m_Instances)
               i == NewInstance(zone, Len(world) + 1, port, PrivateCap, pw, Unassigned)
               U == Append(m_Instances, i)
               V == StartWorldServer(world, zone, port)
    <3>1. Len(world) < MaxWorlds /\ m_Instances' = U /\ world' = V
      BY <1>4, <2>2 DEF CreatePrivateZone
    <3>2. port \in Nat /\ PrivateCap \in Nat
      BY <1>0, GetFreePortType DEF PrivateCap
    <3>3. i \in Instance
      <4>1. Len(world) \in Nat /\ Len(world) + 1 \in WorldIds
        BY <1>0, <3>1, ConstantsAssumption DEF WorldIds
      <4> HIDE DEF port
      <4>2. <<>> \in Seq(Pending)
        OBVIOUS
      <4>3. QED BY <3>2, <4>1, <4>2 DEF NewInstance, Instance
    <3> HIDE DEF port
    <3>4. Settled(U, V)
      BY <1>0, <3>1, <3>2, StartedSettled
    <3> HIDE DEF i, V
    <3>5. /\ U \in Seq(Instance) /\ Len(U) = Len(m_Instances) + 1 /\ Len(m_Instances) \in Nat
          /\ \A k \in 1..Len(m_Instances) : U[k] = m_Instances[k]
      BY <1>0, <3>3
    <3> HIDE DEF U
    <3>6. Grows(m_Instances, U)
      BY <3>5 DEF Grows
    <3>7. QED BY <1>2, <3>1, <3>4, <3>5, <3>6
  <2>3. QED BY <2>1, <2>2
<1>5. ASSUME NEW map, NEW id, ShutdownInstance(map, id) PROVE SteadyInv' /\ KeepsTracked
  <2> DEFINE addr == m_Instances[FindPublicInstance(m_Instances, map, id)].sysAddr
             ms == <<Msg("SHUTDOWN")>>
  <2>1. world' = SendToWorld(world, addr, ms) /\ m_Instances' = m_Instances
    BY <1>5 DEF ShutdownInstance, masterVars
  <2>2. ms \in Seq(ToWorldMsg)
    BY MsgTypes
  <2> HIDE DEF addr, ms
  <2>3. Settled(m_Instances, SendToWorld(world, addr, ms))
    BY <1>0, <2>2, SendSettled
  <2>4. QED BY <1>0, <1>1, <1>2, <2>1, <2>3
<1>6. QED BY <1>3, <1>4, <1>5 DEF Command

\* A step of a world changes neither the lists nor the answers in flight.
LEMMA WorldStepKeeps ==
  ASSUME TypeOK, NEW p, WorldStep(p)
  PROVE  KeepsTracked /\ UNCHANGED <<asked, requests>>
<1>1. UnchangedByWorld
  BY DEF WorldStep, WorldConnect, WorldReceive, WorldExit, WorldGivesUp, WorldFailsToStart,
         WorldCrash, ConnectionLost, PlayerEnters, PlayerEntersTooLate, PlayerLeaves,
         PlayerLeavesUnreported
<1>2. UNCHANGED <<m_Instances, toServer, asked, requests>>
  BY <1>1 DEF UnchangedByWorld, masterVars, serverVars
<1>3. QED BY <1>2, SameGrows, GrowsKeeps DEF TypeOK

\* Every step of a calm run.
LEMMA SteadyStep ==
  ASSUME Calm
  PROVE  TypeOK /\ LinkedInv /\ GrantsInv /\ SteadyInv /\ NoRequestForgotten /\ [Next]_vars
           => SteadyInv' /\ NoRequestForgotten'
<1>1. SUFFICES ASSUME TypeOK, LinkedInv, GrantsInv, SteadyInv, NoRequestForgotten, [Next]_vars
               PROVE  SteadyInv' /\ NoRequestForgotten'
  OBVIOUS
<1>2. CASE \E s \in Servers : ServerStep(s)
  BY <1>1, <1>2, RequestSettles, PrivateSettles, ResponseSettles DEF ServerStep
<1>3. CASE Command
  <2>1. UNCHANGED <<asked, requests>>
    BY <1>3 DEF Command, PrepZone, CreatePrivateZone, ShutdownInstance, serverVars
  <2>2. QED BY <1>1, <1>3, <2>1, CommandSettles, KeepsForgetsNothing
<1>4. ASSUME NEW p \in DOMAIN world, WorldStep(p) PROVE SteadyInv' /\ NoRequestForgotten'
  BY <1>1, <1>4, WorldStepSettled, WorldStepKeeps, KeepsForgetsNothing
<1>5. ASSUME NEW p \in DOMAIN world, MasterReceive(p) PROVE SteadyInv' /\ NoRequestForgotten'
  <2>1. UNCHANGED <<asked, requests>>
    BY <1>5 DEF MasterReceive, HandleServerInfo, HandleWorldReady, HandleAffirmTransfer,
                HandlePlayerAdded, HandlePlayerRemoved, HandleShutdownResponse,
                HandleDisconnected, UnchangedByTable
  <2>2. QED BY <1>1, <1>5, <2>1, MasterReceiveSettles, KeepsForgetsNothing
<1>6. ASSUME NEW k \in DOMAIN m_Instances, AffirmationTimeout(k)
      PROVE  SteadyInv' /\ NoRequestForgotten'
  <2>1. UNCHANGED <<asked, requests>>
    BY <1>6 DEF AffirmationTimeout, serverVars
  <2>2. QED BY <1>1, <1>6, <2>1, TimeoutSettles, KeepsForgetsNothing
<1>7. CASE ShutdownSequence
  BY <1>7 DEF ShutdownSequence, May, Calm
<1>8. CASE UNCHANGED vars
  <2>1. UNCHANGED <<m_Instances, m_IsShuttingDown, world, asked, requests, toServer>>
    BY <1>8 DEF vars, masterVars, serverVars
  <2>2. KeepsTracked
    BY <1>1, <2>1, SameGrows, GrowsKeeps DEF TypeOK
  <2>3. QED BY <1>1, <2>1, <2>2, KeepsForgetsNothing DEF SteadyInv
<1>9. QED BY <1>1, <1>2, <1>3, <1>4, <1>5, <1>6, <1>7, <1>8 DEF Next

\* Before anything has been asked.
LEMMA InitSteady == Init => SteadyInv /\ NoRequestForgotten
<1>1. SUFFICES ASSUME Init PROVE SteadyInv /\ NoRequestForgotten
  OBVIOUS
<1>2. m_Instances = <<>> /\ world = <<>> /\ m_IsShuttingDown = FALSE
      /\ requests = [s \in Servers |-> {}]
  BY <1>1 DEF Init
<1>3. Len(m_Instances) = 0 /\ Len(world) = 0
  BY <1>2
<1>4. QED BY <1>2, <1>3 DEF SteadyInv, Settled, NoRequestForgotten

\* A request for a public zone is on some list, or its answer is on the way, until
\* its callback is called (NoRequestForgotten), while ready worlds may crash, exit
\* or time out.  Calm leaves out the failures that the code has no remedy for.
THEOREM RequestsAreNotForgotten ==
  ASSUME Calm
  PROVE  Spec => []NoRequestForgotten
<1>1. TypeOK /\ LinkedInv /\ GrantsInv /\ SteadyInv /\ NoRequestForgotten /\ [Next]_vars
        => SteadyInv' /\ NoRequestForgotten'
  BY SteadyStep
<1>2. QED BY <1>1, InitLinks, LinkedStep, InitAnswers, AnswersStep, InitPromise, GrantsStep,
             InitSteady, TypeCorrect, PTL DEF Spec

-----------------------------------------------------------------------------
(* While no connection is lost, every connected world is in the table *)

\* Connections end with their process only; processes may die at any time, and
\* the master may shut down.
ConnectionsLast == Events \cap {"lose", "loseEarly"} = {}

Introduces(q) == \E n \in 1..Len(q) : q[n].kind = "SERVER_INFO"

\* The master has not heard of the process yet.
Fresh(w) == ~ w.ready \/ Introduces(w.out)

ToldToEnd(w) == \E n \in 1..Len(w.in) : w.in[n].kind = "SHUTDOWN"

\* A world has its connection until it ends, and introduces itself first of all.
Lasts(w) ==
  /\ w.ready /\ w.running => w.connected
  /\ w.connected => ~ Ending(w.out)
  /\ \A n \in 1..Len(w.out) : w.out[n].kind = "SERVER_INFO" => n = 1

\* A connected world is about to introduce itself, has been told to end, or is in
\* the table; an address is that of a world which has introduced itself, and only an
\* instance with an address is shutting down; while the master is up it has
\* every world it has not heard of in the table.
Met(T, W, down) ==
  /\ \A p \in 1..Len(W) : Lasts(W[p])
  /\ \A p \in 1..Len(W) : W[p].connected =>
       \/ Introduces(W[p].out) \/ ToldToEnd(W[p])
       \/ \E k \in 1..Len(T) : T[k].id = p /\ T[k].sysAddr = p
  /\ \A k \in 1..Len(T) : T[k].sysAddr # Unassigned => ~ Fresh(W[T[k].id])
  /\ \A k \in 1..Len(T) : T[k].shuttingDown => T[k].sysAddr # Unassigned
  /\ ~ down => \A p \in 1..Len(W) : Fresh(W[p]) => \E k \in 1..Len(T) : T[k].id = p

\* A world that is yet to introduce itself shares its port with no other such
\* world, and with no instance but its own.
PortsApart(T, W) ==
  \A p \in 1..Len(W) : Fresh(W[p]) =>
    /\ \A k \in 1..Len(T) : T[k].port = W[p].port => T[k].id = p
    /\ \A q \in 1..Len(W) : Fresh(W[q]) /\ W[q].port = W[p].port => q = p

\* While the master is up they are in its table, whose ports are distinct.
LEMMA PortsApartWhileUp ==
  ASSUME NEW T, NEW W, Linked(T, W, FALSE, 0), Distinct(T), Met(T, W, FALSE)
  PROVE  PortsApart(T, W)
<1>1. \A p \in 1..Len(W) : Fresh(W[p]) => \E k \in 1..Len(T) : T[k].id = p
  BY DEF Met
<1>2. \A k \in 1..Len(T) : T[k].port = W[T[k].id].port
  <2>1. \A k \in 1..Len(T) : k # 0
    OBVIOUS
  <2>2. QED BY <2>1 DEF Linked, Suits
<1>3. \A j, k \in 1..Len(T) : T[j].port = T[k].port => j = k
  BY DEF Distinct
<1>4. SUFFICES ASSUME NEW p \in 1..Len(W), Fresh(W[p])
               PROVE  /\ \A k \in 1..Len(T) : T[k].port = W[p].port => T[k].id = p
                      /\ \A q \in 1..Len(W) : Fresh(W[q]) /\ W[q].port = W[p].port => q = p
  BY DEF PortsApart
<1>5. PICK j \in 1..Len(T) : T[j].id = p
  BY <1>1, <1>4
<1>6. \A k \in 1..Len(T) : T[k].port = W[p].port => T[k].id = p
  BY <1>2, <1>3, <1>5
<1>7. ASSUME NEW q \in 1..Len(W), Fresh(W[q]), W[q].port = W[p].port PROVE q = p
  <2>1. PICK k \in 1..Len(T) : T[k].id = q
    BY <1>1, <1>7
  <2>2. QED BY <1>2, <1>6, <1>7, <2>1
<1>8. QED BY <1>6, <1>7

\* A step of a world that no instance has to notice.
Follows(w, v) ==
  /\ v.port = w.port /\ Lasts(v) /\ (Fresh(v) => Fresh(w))
  /\ v.connected => \/ Introduces(v.out) \/ ToldToEnd(v)
                    \/ w.connected /\ ~ Introduces(w.out) /\ ~ ToldToEnd(w)

\* One world moves.
LEMMA WorldMet ==
  ASSUME NEW T, NEW W \in Seq(World), NEW down, Met(T, W, down), PortsApart(T, W),
         \A k \in 1..Len(T) : T[k].id \in 1..Len(W),
         NEW p \in 1..Len(W), NEW v \in World, Follows(W[p], v)
  PROVE  Met(T, [W EXCEPT ![p] = v], down) /\ PortsApart(T, [W EXCEPT ![p] = v])
<1> DEFINE V == [W EXCEPT ![p] = v]
<1>1. Len(V) = Len(W) /\ \A q \in 1..Len(W) : V[q] = IF q = p THEN v ELSE W[q]
  OBVIOUS
<1> HIDE DEF V
<1>2. \A q \in 1..Len(W) : /\ Lasts(V[q]) /\ V[q].port = W[q].port
                           /\ Fresh(V[q]) => Fresh(W[q])
  BY <1>1 DEF Met, Follows
<1>3. \A q \in 1..Len(W) : V[q].connected =>
        \/ Introduces(V[q].out) \/ ToldToEnd(V[q])
        \/ \E k \in 1..Len(T) : T[k].id = q /\ T[k].sysAddr = q
  BY <1>1 DEF Met, Follows
<1>4. Met(T, V, down)
  BY <1>1, <1>2, <1>3 DEF Met
<1>5. PortsApart(T, V)
  BY <1>1, <1>2 DEF PortsApart
<1>6. QED BY <1>4, <1>5 DEF V

\* What the master may note of an instance.
Marks(i, j) ==
  /\ j.id = i.id /\ j.port = i.port /\ j.sysAddr = i.sysAddr
  /\ j.shuttingDown => i.shuttingDown \/ i.sysAddr # Unassigned

\* The master notes something of an instance.
LEMMA InstanceMet ==
  ASSUME NEW T \in Seq(Instance), NEW W, NEW down, NEW j \in 1..Len(T), NEW i, Marks(T[j], i)
  PROVE  /\ Met(T, W, down) => Met([T EXCEPT ![j] = i], W, down)
         /\ PortsApart(T, W) => PortsApart([T EXCEPT ![j] = i], W)
<1> DEFINE U == [T EXCEPT ![j] = i]
<1>1. Len(U) = Len(T) /\ \A k \in 1..Len(T) : U[k] = IF k = j THEN i ELSE T[k]
  OBVIOUS
<1> HIDE DEF U
<1>2. \A k \in 1..Len(T) :
        /\ U[k].id = T[k].id /\ U[k].port = T[k].port /\ U[k].sysAddr = T[k].sysAddr
        /\ U[k].shuttingDown => T[k].shuttingDown \/ T[k].sysAddr # Unassigned
  BY <1>1 DEF Marks
<1>3. ASSUME Met(T, W, down) PROVE Met(U, W, down)
  <2>1. \A p \in 1..Len(W) : W[p].connected =>
          \/ Introduces(W[p].out) \/ ToldToEnd(W[p])
          \/ \E k \in 1..Len(U) : U[k].id = p /\ U[k].sysAddr = p
    BY <1>1, <1>2, <1>3 DEF Met
  <2>2. /\ \A k \in 1..Len(U) : U[k].sysAddr # Unassigned => ~ Fresh(W[U[k].id])
        /\ \A k \in 1..Len(U) : U[k].shuttingDown => U[k].sysAddr # Unassigned
    BY <1>1, <1>2, <1>3 DEF Met
  <2>3. ~ down => \A p \in 1..Len(W) : Fresh(W[p]) => \E k \in 1..Len(U) : U[k].id = p
    BY <1>1, <1>2, <1>3 DEF Met
  <2>4. QED BY <1>3, <2>1, <2>2, <2>3 DEF Met
<1>4. PortsApart(T, W) => PortsApart(U, W)
  BY <1>1, <1>2 DEF PortsApart
<1>5. QED BY <1>3, <1>4 DEF U

\* A process has been started, for a new instance.
LEMMA StartedMet ==
  ASSUME NEW T \in Seq(Instance), NEW W \in Seq(World), NEW down, Met(T, W, down),
         \A k \in 1..Len(T) : T[k].id \in 1..Len(W),
         NEW zone \in Zones, NEW port \in Nat, NEW cap \in Nat, NEW pw
  PROVE  Met(Append(T, NewInstance(zone, Len(W) + 1, port, cap, pw, Unassigned)),
             StartWorldServer(W, zone, port), down)
<1> DEFINE i == NewInstance(zone, Len(W) + 1, port, cap, pw, Unassigned)
           U == Append(T, i)
           V == StartWorldServer(W, zone, port)
           n == Len(W) + 1
<1>0. Len(W) \in Nat /\ Len(T) \in Nat
  OBVIOUS
<1>1. V \in Seq(World) /\ Len(V) = Len(W) + 1
  BY StartWorldServerType
<1>2. \A p \in 1..Len(W) : V[p] = W[p]
  BY DEF StartWorldServer
<1>3. ~ V[n].connected /\ ~ V[n].ready /\ V[n].out = <<>>
  BY DEF StartWorldServer
<1>4. i.id = n /\ i.sysAddr = Unassigned /\ ~ i.shuttingDown
  BY DEF NewInstance
<1>5. Len(U) = Len(T) + 1 /\ U[Len(T) + 1] = i /\ \A k \in 1..Len(T) : U[k] = T[k]
  OBVIOUS
<1> HIDE DEF i, U, V
<1>6. Lasts(V[n])
  BY <1>3 DEF Lasts
<1>7. \A k \in 1..Len(U) : k \in 1..Len(T) \/ k = Len(T) + 1
  BY <1>0, <1>5
<1>8. \A p \in 1..Len(V) : p \in 1..Len(W) \/ p = n
  BY <1>0, <1>1
<1>9. \A k \in 1..Len(T) : k \in 1..Len(U)
  BY <1>0, <1>5
<1>10. \A p \in 1..Len(V) : Lasts(V[p])
  BY <1>2, <1>6, <1>8 DEF Met
<1>11. ASSUME NEW p \in 1..Len(V), V[p].connected
       PROVE  \/ Introduces(V[p].out) \/ ToldToEnd(V[p])
              \/ \E k \in 1..Len(U) : U[k].id = p /\ U[k].sysAddr = p
  <2>1. p \in 1..Len(W) /\ V[p] = W[p]
    BY <1>2, <1>3, <1>8, <1>11
  <2>2. QED BY <1>5, <1>9, <1>11, <2>1 DEF Met
<1>12. \A k \in 1..Len(U) : U[k].sysAddr # Unassigned => ~ Fresh(V[U[k].id])
  BY <1>2, <1>4, <1>5, <1>7 DEF Met
<1>13. \A k \in 1..Len(U) : U[k].shuttingDown => U[k].sysAddr # Unassigned
  BY <1>4, <1>5, <1>7 DEF Met
<1>14. ASSUME ~ down, NEW p \in 1..Len(V), Fresh(V[p]) PROVE \E k \in 1..Len(U) : U[k].id = p
  <2>1. CASE p = n
    <3>1. Len(T) + 1 \in 1..Len(U)
      BY <1>0, <1>5
    <3>2. QED BY <1>4, <1>5, <2>1, <3>1
  <2>2. CASE p \in 1..Len(W)
    BY <1>2, <1>5, <1>9, <1>14, <2>2 DEF Met
  <2>3. QED BY <1>8, <2>1, <2>2
<1>15. QED BY <1>10, <1>11, <1>12, <1>13, <1>14 DEF Met, i, U, V

\* The instance of a world that has gone leaves the table.
LEMMA RemovedMet ==
  ASSUME NEW T \in Seq(Instance), NEW W, NEW down, Met(T, W, down),
         NEW x \in 1..Len(T), T[x].sysAddr # Unassigned, ~ W[T[x].id].connected
  PROVE  Met(RemoveAt(T, x), W, down)
<1> DEFINE U == RemoveAt(T, x)
<1>1. /\ \A j \in 1..Len(U) : \E k \in 1..Len(T) : k # x /\ U[j] = T[k]
      /\ \A k \in 1..Len(T) : k # x => \E j \in 1..Len(U) : U[j] = T[k]
  BY RemoveAtRest, Zenon
<1> HIDE DEF U
<1>2. \A j \in 1..Len(U) : /\ U[j].sysAddr # Unassigned => ~ Fresh(W[U[j].id])
                           /\ U[j].shuttingDown => U[j].sysAddr # Unassigned
  <2> TAKE j \in 1..Len(U)
  <2>1. PICK k \in 1..Len(T) : U[j] = T[k]
    BY <1>1
  <2>2. QED BY <2>1 DEF Met
<1>3. ~ Fresh(W[T[x].id])
  BY DEF Met
<1>4. ASSUME NEW p \in 1..Len(W), W[p].connected
      PROVE  \/ Introduces(W[p].out) \/ ToldToEnd(W[p])
             \/ \E j \in 1..Len(U) : U[j].id = p /\ U[j].sysAddr = p
  <2>1. SUFFICES ASSUME NEW k \in 1..Len(T), T[k].id = p, T[k].sysAddr = p
                 PROVE  \E j \in 1..Len(U) : U[j].id = p /\ U[j].sysAddr = p
    BY <1>4 DEF Met
  <2>2. k # x
    BY <1>4, <2>1
  <2>3. PICK j \in 1..Len(U) : U[j] = T[k]
    BY <1>1, <2>2
  <2>4. QED BY <2>1, <2>3
<1>5. ASSUME ~ down, NEW p \in 1..Len(W), Fresh(W[p]) PROVE \E j \in 1..Len(U) : U[j].id = p
  <2>1. PICK k \in 1..Len(T) : T[k].id = p
    BY <1>5 DEF Met
  <2>2. k # x
    BY <1>3, <1>5, <2>1
  <2>3. PICK j \in 1..Len(U) : U[j] = T[k]
    BY <1>1, <2>2
  <2>4. QED BY <2>1, <2>3
<1>6. QED BY <1>2, <1>4, <1>5 DEF Met, U

\* Fewer instances, no nearer.
LEMMA FewerApart ==
  ASSUME NEW T, NEW U, NEW W, PortsApart(T, W),
         \A j \in 1..Len(U) : \E k \in 1..Len(T) : U[j].id = T[k].id /\ U[j].port = T[k].port
  PROVE  PortsApart(U, W)
<1>1. ASSUME NEW p \in 1..Len(W), Fresh(W[p]), NEW j \in 1..Len(U), U[j].port = W[p].port
      PROVE  U[j].id = p
  BY <1>1 DEF PortsApart
<1>2. QED BY <1>1 DEF PortsApart

\* A packet on its way to a world.
LEMMA SendMet ==
  ASSUME NEW T, NEW W \in Seq(World), NEW down, Met(T, W, down),
         NEW addr, NEW ms \in Seq(ToWorldMsg)
  PROVE  /\ Met(T, SendToWorld(W, addr, ms), down)
         /\ PortsApart(T, W) => PortsApart(T, SendToWorld(W, addr, ms))
<1> DEFINE V == SendToWorld(W, addr, ms)
           v == [W[addr] EXCEPT !.in = W[addr].in \o ms]
<1>1. CASE addr \in DOMAIN W /\ W[addr].connected
  <2>1. addr \in 1..Len(W) /\ W[addr] \in World /\ DOMAIN W = 1..Len(W)
    BY <1>1
  <2>2. V = [W EXCEPT ![addr] = v]
    BY <1>1 DEF SendToWorld
  <2> HIDE DEF V
  <2>3. W[addr].in \in Seq(ToWorldMsg)
    BY <2>1, WorldFields
  <2>4. /\ v.running = W[addr].running /\ v.ready = W[addr].ready /\ v.port = W[addr].port
        /\ v.connected = W[addr].connected /\ v.out = W[addr].out
        /\ v.in = W[addr].in \o ms
    BY <2>1 DEF World
  <2> HIDE DEF v
  <2>5. ToldToEnd(W[addr]) => ToldToEnd(v)
    <3> DEFINE q == W[addr].in
    <3>1. /\ \A n \in 1..Len(q) : n \in 1..Len(q \o ms) /\ (q \o ms)[n] = q[n]
      BY <2>3
    <3>2. QED BY <2>4, <3>1 DEF ToldToEnd
  <2>6. /\ Len(V) = Len(W)
        /\ \A p \in 1..Len(W) : V[p] = IF p = addr THEN v ELSE W[p]
    BY <2>1, <2>2
  <2>7. \A p \in 1..Len(W) :
          /\ V[p].running = W[p].running /\ V[p].ready = W[p].ready /\ V[p].port = W[p].port
          /\ V[p].connected = W[p].connected /\ V[p].out = W[p].out
          /\ ToldToEnd(W[p]) => ToldToEnd(V[p])
    BY <2>4, <2>5, <2>6
  <2>8. \A p \in 1..Len(W) : (Fresh(V[p]) <=> Fresh(W[p])) /\ (Lasts(W[p]) => Lasts(V[p]))
    BY <2>7 DEF Fresh, Lasts
  <2>9. \A k \in 1..Len(T) : T[k].sysAddr # Unassigned => ~ Fresh(V[T[k].id])
    <3> TAKE k \in 1..Len(T)
    <3>1. CASE T[k].id = addr
      BY <2>1, <2>6, <2>8, <3>1 DEF Met
    <3>2. CASE T[k].id # addr
      <4>1. V[T[k].id] = W[T[k].id]
        BY <2>1, <2>2, <3>2
      <4>2. QED BY <4>1 DEF Met
    <3>3. QED BY <3>1, <3>2
  <2>10. Met(T, V, down)
    <3>1. \A p \in 1..Len(V) : V[p].connected =>
            \/ Introduces(V[p].out) \/ ToldToEnd(V[p])
            \/ \E k \in 1..Len(T) : T[k].id = p /\ T[k].sysAddr = p
      BY <2>6, <2>7 DEF Met
    <3>2. QED BY <2>6, <2>8, <2>9, <3>1 DEF Met
  <2>11. PortsApart(T, W) => PortsApart(T, V)
    BY <2>6, <2>7, <2>8 DEF PortsApart
  <2>12. QED BY <2>10, <2>11 DEF V
<1>2. CASE ~ (addr \in DOMAIN W /\ W[addr].connected)
  <2>1. V = W
    BY <1>2 DEF SendToWorld
  <2>2. QED BY <2>1
<1>3. QED BY <1>1, <1>2

\* The instances of T are in U, with the same address.
Includes(T, U) ==
  /\ Len(T) <= Len(U)
  /\ \A k \in 1..Len(T) : U[k].id = T[k].id /\ U[k].sysAddr = T[k].sysAddr

\* GetInstance leaves what there is, and adds at the most an instance.
LEMMA GetInstanceMet ==
  ASSUME NEW T \in Seq(Instance), NEW W \in Seq(World), Len(W) <= MaxWorlds,
         NEW zone \in Zones, CanGetInstance(T, W, zone), Met(T, W, FALSE),
         \A k \in 1..Len(T) : T[k].id \in 1..Len(W)
  PROVE  LET g == GetInstance(T, W, zone)
         IN  /\ Met(g.tbl, g.world, FALSE) /\ Includes(T, g.tbl)
             /\ \A p \in 1..Len(W) : g.world[p].connected = W[p].connected
<1> DEFINE g == GetInstance(T, W, zone)
<1>0. Len(T) \in Nat /\ Len(W) \in Nat /\ MaxWorlds \in Nat
  BY ConstantsAssumption
<1>1. CASE FindJoinable(T, zone) # 0
  <2>1. g.tbl = T /\ g.world = W
    BY <1>1 DEF GetInstance
  <2> HIDE DEF g
  <2>2. Includes(T, T)
    BY <1>0 DEF Includes
  <2>3. /\ Met(g.tbl, g.world, FALSE) /\ Includes(T, g.tbl)
        /\ \A p \in 1..Len(W) : g.world[p].connected = W[p].connected
    BY <2>1, <2>2
  <2>4. QED BY <2>3 DEF g
<1>2. CASE FindJoinable(T, zone) = 0
  <2> DEFINE port == GetFreePort(T)
             i == NewInstance(zone, Len(W) + 1, port, SoftCap[zone], NoPassword, Unassigned)
             U == Append(T, i)
             V == StartWorldServer(W, zone, port)
  <2>1. g.tbl = U /\ g.world = V
    BY <1>2 DEF GetInstance
  <2>2. port \in Nat /\ SoftCap[zone] \in Nat
    BY GetFreePortType, ConstantsAssumption
  <2>3. \A p \in 1..Len(W) : V[p] = W[p]
    BY DEF StartWorldServer
  <2> HIDE DEF port, g
  <2>4. Met(U, V, FALSE)
    BY <2>2, StartedMet
  <2> HIDE DEF i, V
  <2>5. Len(U) = Len(T) + 1 /\ \A k \in 1..Len(T) : U[k] = T[k]
    OBVIOUS
  <2> HIDE DEF U
  <2>6. Includes(T, U)
    BY <1>0, <2>5 DEF Includes
  <2>7. /\ Met(g.tbl, g.world, FALSE) /\ Includes(T, g.tbl)
        /\ \A p \in 1..Len(W) : g.world[p].connected = W[p].connected
    BY <2>1, <2>3, <2>4, <2>6
  <2>8. QED BY <2>7 DEF g
<1>3. QED BY <1>1, <1>2

\* Routing: the requests wait on some instance, and its world may be asked.
LEMMA RouteMet ==
  ASSUME NEW T \in Seq(Instance), NEW W \in Seq(World), Len(W) <= MaxWorlds,
         NEW zone \in Zones, CanGetInstance(T, W, zone), NEW rs \in Seq(Pending),
         Met(T, W, FALSE), \A k \in 1..Len(T) : T[k].id \in 1..Len(W)
  PROVE  LET r == Route(T, W, zone, rs)
         IN  /\ Met(r.tbl, r.world, FALSE) /\ Includes(T, r.tbl)
             /\ \A p \in 1..Len(W) : r.world[p].connected = W[p].connected
<1> DEFINE g == GetInstance(T, W, zone)
           U == g.tbl
           V == g.world
           k == g.at
           i == U[k]
           asks == [n \in DOMAIN rs |-> IdMsg("AFFIRM_TRANSFER_REQUEST", rs[n].id)]
           r == Route(T, W, zone, rs)
<1>1. U \in Seq(Instance) /\ k \in 1..Len(U) /\ V \in Seq(World) /\ Len(W) <= Len(V)
  BY GetInstanceType
<1>2. /\ Met(U, V, FALSE) /\ Includes(T, U)
      /\ \A p \in 1..Len(W) : V[p].connected = W[p].connected
  BY GetInstanceMet
<1>3. asks \in Seq(ToWorldMsg)
  <2>1. \A n \in 1..Len(rs) : rs[n].id \in 1..MaxRequests
    <3>1. \A n \in 1..Len(rs) : rs[n] \in Pending
      OBVIOUS
    <3>2. QED BY <3>1 DEF Pending
  <2>2. \A n \in 1..Len(rs) : IdMsg("AFFIRM_TRANSFER_REQUEST", rs[n].id) \in ToWorldMsg
    BY <2>1, MsgTypes
  <2>3. QED BY <2>2
<1>4. r = IF i.ready THEN [tbl |-> Affirm(U, k, rs), world |-> SendToWorld(V, i.sysAddr, asks)]
          ELSE [tbl |-> Pend(U, k, rs), world |-> V]
  BY DEF Route
<1> HIDE DEF g, r
<1>5. Affirm(U, k, rs) = [U EXCEPT ![k] = [i EXCEPT !.pendingAffirmations = i.pendingAffirmations \o rs]]
      /\ Pend(U, k, rs) = [U EXCEPT ![k] = [i EXCEPT !.pendingRequests = i.pendingRequests \o rs]]
  BY <1>1 DEF Affirm, Pend
<1> HIDE DEF asks, U, V, k
<1>6. i \in Instance
  BY <1>1
<1>7. PICK j : /\ \/ j = [i EXCEPT !.pendingRequests = i.pendingRequests \o rs]
                  \/ j = [i EXCEPT !.pendingAffirmations = i.pendingAffirmations \o rs]
               /\ r.tbl = [U EXCEPT ![k] = j]
               /\ r.world = V \/ r.world = SendToWorld(V, i.sysAddr, asks)
  BY <1>4, <1>5
<1>8. Marks(i, j)
  BY <1>6, <1>7 DEF Instance, Marks
<1>9. Met(r.tbl, V, FALSE) /\ Includes(T, r.tbl)
  <2>1. Met([U EXCEPT ![k] = j], V, FALSE)
    BY <1>1, <1>2, <1>8, InstanceMet
  <2>2. /\ Len(r.tbl) = Len(U)
        /\ \A l \in 1..Len(U) : r.tbl[l] = IF l = k THEN j ELSE U[l]
    BY <1>1, <1>7
  <2>3. \A l \in 1..Len(U) : r.tbl[l].id = U[l].id /\ r.tbl[l].sysAddr = U[l].sysAddr
    BY <1>8, <2>2 DEF Marks
  <2>4. \A l \in 1..Len(T) : l \in 1..Len(U)
    BY <1>1, <1>2 DEF Includes
  <2>5. QED BY <1>2, <1>7, <2>1, <2>2, <2>3, <2>4 DEF Includes
<1>10. Met(r.tbl, r.world, FALSE) /\ \A p \in 1..Len(W) : r.world[p].connected = W[p].connected
  <2>1. CASE r.world = V
    BY <1>2, <1>9, <2>1
  <2>2. CASE r.world = SendToWorld(V, i.sysAddr, asks)
    <3> DEFINE R == r.tbl
               a == i.sysAddr
    <3>1. Met(R, V, FALSE)
      BY <1>9
    <3> HIDE DEF R, a
    <3>2. Met(R, SendToWorld(V, a, asks), FALSE)
      BY <1>1, <1>3, <3>1, SendMet
    <3>3. \A p \in 1..Len(W) : p \in 1..Len(V)
      BY <1>1
    <3>4. \A p \in 1..Len(W) : SendToWorld(V, a, asks)[p].connected = W[p].connected
      BY <1>1, <1>2, <3>3, SendConnections
    <3>5. QED BY <2>2, <3>2, <3>4 DEF R, a
  <2>3. QED BY <1>7, <2>1, <2>2
<1>11. QED BY <1>9, <1>10 DEF r

\* Redirecting what an instance has not affirmed.
LEMMA RedirectMet ==
  ASSUME NEW T \in Seq(Instance), NEW W \in Seq(World), Len(W) <= MaxWorlds,
         NEW k \in 1..Len(T), CanRedirect(T, W, k),
         Met(T, W, FALSE), \A j \in 1..Len(T) : T[j].id \in 1..Len(W)
  PROVE  LET r == Redirect(T, W, k)
         IN  /\ Met(r.tbl, r.world, FALSE) /\ Includes(T, r.tbl)
             /\ \A p \in 1..Len(W) : r.world[p].connected = W[p].connected
<1>1. T[k].zone \in Zones /\ T[k].pendingAffirmations \in Seq(Pending)
  <2>1. T[k] \in Instance
    OBVIOUS
  <2>2. QED BY <2>1 DEF Instance
<1>2. CASE T[k].pendingAffirmations = <<>>
  <2>1. Redirect(T, W, k).tbl = T /\ Redirect(T, W, k).world = W
    BY <1>2 DEF Redirect
  <2>2. Includes(T, T)
    <3>1. Len(T) \in Nat
      OBVIOUS
    <3>2. QED BY <3>1 DEF Includes
  <2>3. QED BY <2>1, <2>2
<1>3. CASE T[k].pendingAffirmations # <<>>
  BY <1>1, <1>3, RouteMet DEF Redirect, CanRedirect
<1>4. QED BY <1>2, <1>3

\* A world sends a packet that neither introduces it nor ends its connection.
LEMMA SendFollows ==
  ASSUME NEW w \in World, NEW v \in World, Lasts(w), NEW m \in ToMasterMsg,
         m.kind # "SERVER_INFO", ~ IsEnd(m), v.port = w.port,
         v.running = w.running, v.ready = w.ready, v.connected = w.connected,
         ToldToEnd(w) => ToldToEnd(v),
         v.out = w.out \/ v.out = Append(w.out, m)
  PROVE  Follows(w, v)
<1>1. w.out \in Seq(ToMasterMsg) /\ v.out \in Seq(ToMasterMsg) /\ Len(w.out) \in Nat
  BY WorldFields
<1>2. CASE v.out = w.out
  BY <1>2 DEF Lasts, Follows, Fresh, Ending
<1>3. CASE v.out = Append(w.out, m)
  <2>1. /\ Len(v.out) = Len(w.out) + 1 /\ v.out[Len(w.out) + 1] = m
        /\ \A n \in 1..Len(w.out) : n \in 1..Len(v.out) /\ v.out[n] = w.out[n]
        /\ \A n \in 1..Len(v.out) : n \in 1..Len(w.out) \/ n = Len(w.out) + 1
    BY <1>1, <1>3
  <2>2. Introduces(w.out) <=> Introduces(v.out)
    BY <2>1 DEF Introduces
  <2>3. Ending(v.out) => Ending(w.out)
    <3>1. DOMAIN v.out = 1..Len(v.out) /\ DOMAIN w.out = 1..Len(w.out)
      BY <1>1
    <3>2. QED BY <2>1, <3>1 DEF Ending, IsEnd
  <2>4. \A n \in 1..Len(v.out) : v.out[n].kind = "SERVER_INFO" => n = 1
    BY <2>1 DEF Lasts
  <2>5. QED BY <2>2, <2>3, <2>4 DEF Lasts, Follows, Fresh
<1>4. QED BY <1>2, <1>3

\* A world ends, in order or not: the master gets the first n of its packets.
LEMMA EndFollows ==
  ASSUME NEW w \in World, NEW v \in World, Lasts(w), w.ready, v.ready, v.port = w.port,
         ~ v.running, ~ v.connected,
         NEW n \in 0..Len(w.out), NEW tail \in Seq(ToMasterMsg), v.out = SubSeq(w.out, 1, n) \o tail,
         \A m \in 1..Len(tail) : tail[m].kind # "SERVER_INFO"
  PROVE  Follows(w, v)
<1>1. w.out \in Seq(ToMasterMsg) /\ v.out \in Seq(ToMasterMsg) /\ Len(w.out) \in Nat
  BY WorldFields
<1>2. \A m \in 1..Len(v.out) : \/ m \in 1..Len(w.out) /\ v.out[m] = w.out[m]
                               \/ v.out[m].kind # "SERVER_INFO"
  <2>1. /\ \A m \in 1..n : m \in 1..Len(w.out) /\ v.out[m] = w.out[m]
        /\ \A m \in 1..Len(v.out) : m \in 1..n \/ (m - n \in 1..Len(tail) /\ v.out[m] = tail[m - n])
    BY <1>1, PrefixThen
  <2>2. QED BY <2>1
<1>3. Introduces(v.out) => Introduces(w.out)
  BY <1>2 DEF Introduces
<1>4. Lasts(v)
  BY <1>2 DEF Lasts
<1>5. QED BY <1>3, <1>4 DEF Follows, Fresh

\* The end of a process in good order.
LEMMA ExitFollows ==
  ASSUME NEW w \in World, Lasts(w), w.ready, w.connected
  PROVE  Exited(w) \in World /\ ~ Exited(w).connected /\ Follows(w, Exited(w))
<1> DEFINE a == Msg("SHUTDOWN_RESPONSE")
           b == Msg("DISCONNECTED")
           tail == <<a, b>>
           v == Exited(w)
<1>1. a \in ToMasterMsg /\ b \in ToMasterMsg /\ a.kind = "SHUTDOWN_RESPONSE" /\ b.kind = "DISCONNECTED"
  BY MsgTypes, Kinds
<1>2. w.out \in Seq(ToMasterMsg) /\ v \in World
  BY WorldFields, ExitedType
<1>3. /\ v.out = Append(Append(w.out, a), b) /\ ~ v.connected /\ ~ v.running
      /\ v.ready = w.ready /\ v.port = w.port
  <2>1. SendToMaster(w, a) = [w EXCEPT !.out = Append(w.out, a)]
    BY DEF SendToMaster
  <2>2. SendToMaster([w EXCEPT !.out = Append(w.out, a)], b)
          = [w EXCEPT !.out = Append(Append(w.out, a), b)]
    BY DEF SendToMaster, World
  <2>3. v = [[w EXCEPT !.out = Append(Append(w.out, a), b)] EXCEPT
               !.running = FALSE, !.connected = FALSE, !.players = 0, !.in = <<>>]
    BY <2>1, <2>2 DEF Exited
  <2> HIDE DEF v, a, b
  <2>4. QED BY <2>3 DEF World
<1> HIDE DEF v, a, b
<1>4. Append(Append(w.out, a), b) = w.out \o tail /\ tail \in Seq(ToMasterMsg)
  BY <1>1, <1>2
<1>5. SubSeq(w.out, 1, Len(w.out)) = w.out /\ Len(w.out) \in 0..Len(w.out)
  BY <1>2
<1>6. \A m \in 1..Len(tail) : tail[m].kind # "SERVER_INFO"
  BY <1>1
<1>7. v.out = SubSeq(w.out, 1, Len(w.out)) \o tail
  BY <1>3, <1>4, <1>5
<1> HIDE DEF tail
<1>8. Follows(w, v)
  BY <1>2, <1>3, <1>4, <1>5, <1>6, <1>7, EndFollows
<1>9. QED BY <1>2, <1>3, <1>8 DEF v

\* The end of a process that dies.
LEMMA CrashFollows ==
  ASSUME NEW w \in World, Lasts(w), w.ready, NEW n \in 0..Len(w.out)
  PROVE  LET v == [Dropped(w, n) EXCEPT !.running = FALSE, !.players = 0]
         IN  v \in World /\ Follows(w, v)
<1> DEFINE b == Msg("CONNECTION_LOST")
           tail == <<b>>
           v == [Dropped(w, n) EXCEPT !.running = FALSE, !.players = 0]
<1>1. b \in ToMasterMsg /\ b.kind = "CONNECTION_LOST"
  BY MsgTypes, Kinds
<1>2. w.out \in Seq(ToMasterMsg) /\ v \in World
  <2>1. Dropped(w, n) \in World
    BY DroppedType
  <2>2. QED BY <2>1, WorldFields DEF World
<1>3. /\ v.out = Append(SubSeq(w.out, 1, n), b) /\ ~ v.connected /\ ~ v.running
      /\ v.ready = w.ready /\ v.port = w.port
  BY <1>2 DEF Dropped, World
<1> HIDE DEF v, b
<1>4. SubSeq(w.out, 1, n) \in Seq(ToMasterMsg)
  BY <1>2
<1>5. Append(SubSeq(w.out, 1, n), b) = SubSeq(w.out, 1, n) \o tail /\ tail \in Seq(ToMasterMsg)
  BY <1>1, <1>4
<1>6. \A m \in 1..Len(tail) : tail[m].kind # "SERVER_INFO"
  BY <1>1
<1> HIDE DEF tail
<1>7. Follows(w, v)
  BY <1>2, <1>3, <1>5, <1>6, EndFollows
<1>8. QED BY <1>2, <1>7 DEF v

\* A world that gets its connection introduces itself.
LEMMA AttachFollows ==
  ASSUME NEW w \in World, Conn(w), Lasts(w), w.running, ~ w.connected
  PROVE  Attached(w) \in World /\ Follows(w, Attached(w))
<1> DEFINE v == Attached(w)
           a == Msg("SERVER_INFO")
           b == Msg("WORLD_READY")
<1>1. a.kind = "SERVER_INFO" /\ b.kind = "WORLD_READY"
  BY Kinds
<1>2. ~ w.ready /\ w.out = <<>> /\ v \in World
  BY AttachedType DEF Lasts, Conn
<1>3. v.connected /\ v.port = w.port /\ v.out = <<>> \o <<a>> \o <<b>>
  BY <1>2 DEF Attached, World
<1>4. a \in ToMasterMsg /\ b \in ToMasterMsg
  BY MsgTypes
<1> HIDE DEF v, a, b
<1>5. v.out = <<a, b>>
  BY <1>3, <1>4, PairOfTwo
<1>6. /\ Len(v.out) = 2 /\ v.out[1].kind = "SERVER_INFO" /\ v.out[2].kind = "WORLD_READY"
      /\ DOMAIN v.out = 1..2
  BY <1>1, <1>5
<1>7. \A n \in 1..Len(v.out) : n = 1 \/ n = 2
  BY <1>6
<1>8. Lasts(v) /\ Introduces(v.out)
  <2>1. Introduces(v.out)
    BY <1>6 DEF Introduces
  <2>2. ~ Ending(v.out)
    BY <1>6 DEF Ending, IsEnd
  <2>3. \A n \in 1..Len(v.out) : v.out[n].kind = "SERVER_INFO" => n = 1
    BY <1>6, <1>7
  <2>4. QED BY <1>3, <2>1, <2>2, <2>3 DEF Lasts
<1>9. Follows(w, v)
  BY <1>2, <1>3, <1>8 DEF Follows, Fresh
<1>10. QED BY <1>2, <1>9 DEF v

\* A world that handles a packet of the master: told to end, it does.
LEMMA ReceiveFollows ==
  ASSUME NEW w \in World, Lasts(w), w.connected, w.ready, w.in # <<>>
  PROVE  LET m == Head(w.in)
             u == [w EXCEPT !.in = Tail(w.in)]
             v == IF m.kind = "SHUTDOWN" THEN Exited(u)
                  ELSE SendToMaster(u, IdMsg("AFFIRM_TRANSFER_RESPONSE", m.id))
         IN  v \in World /\ Follows(w, v)
<1> DEFINE m == Head(w.in)
           u == [w EXCEPT !.in = Tail(w.in)]
           a == IdMsg("AFFIRM_TRANSFER_RESPONSE", m.id)
           v == IF m.kind = "SHUTDOWN" THEN Exited(u) ELSE SendToMaster(u, a)
<1>1. w.in \in Seq(ToWorldMsg)
  BY WorldFields
<1>2. Tail(w.in) \in Seq(ToWorldMsg) /\ m \in ToWorldMsg /\ m = w.in[1]
  BY <1>1
<1>3. /\ u \in World /\ u.running = w.running /\ u.ready = w.ready /\ u.port = w.port
      /\ u.connected = w.connected /\ u.out = w.out /\ u.in = Tail(w.in)
  BY <1>2 DEF World
<1> HIDE DEF u, m
<1>4. Lasts(u)
  BY <1>3 DEF Lasts
<1>5. CASE m.kind = "SHUTDOWN"
  <2>1. v = Exited(u)
    BY <1>5
  <2>2. v \in World /\ ~ v.connected /\ Follows(u, v)
    BY <1>3, <1>4, <2>1, ExitFollows
  <2> HIDE DEF v
  <2>4. Follows(w, v)
    BY <1>3, <2>2 DEF Follows, Fresh
  <2>5. QED BY <2>2, <2>4 DEF v, u, m
<1>6. CASE m.kind # "SHUTDOWN"
  <2>1. m.id \in 1..MaxRequests
    BY <1>2, <1>6 DEF ToWorldMsg
  <2>2. a \in ToMasterMsg /\ a.kind # "SERVER_INFO" /\ ~ IsEnd(a)
    BY <2>1, MsgTypes, Kinds DEF IsEnd
  <2>3. v = SendToMaster(u, a)
    BY <1>6
  <2> HIDE DEF v, a
  <2>4. v \in World /\ v.port = u.port /\ v.in = u.in
    <3>1. v \in World
      BY <1>3, <2>2, <2>3, SendToMasterType
    <3>2. QED BY <1>3, <2>3, <3>1 DEF SendToMaster, World
  <2>5. /\ v.running = u.running /\ v.ready = u.ready /\ v.connected = u.connected
        /\ v.out = u.out \/ v.out = Append(u.out, a)
    BY <1>3, <2>2, <2>3, SendFields
  <2>6. ToldToEnd(w) => ToldToEnd(v)
    <3>1. /\ Len(w.in) \in Nat /\ Len(Tail(w.in)) = Len(w.in) - 1
          /\ \A n \in 1..Len(w.in) : n = 1 \/ (n - 1 \in 1..Len(Tail(w.in)) /\ Tail(w.in)[n - 1] = w.in[n])
      BY <1>1
    <3>2. v.in = Tail(w.in) /\ w.in[1].kind # "SHUTDOWN"
      BY <1>2, <1>3, <1>6, <2>4
    <3>3. QED BY <3>1, <3>2 DEF ToldToEnd
  <2>7. Follows(w, v)
    BY <1>3, <2>2, <2>4, <2>5, <2>6, SendFollows
  <2>8. v \in World /\ Follows(w, v)
    BY <2>4, <2>7
  <2>9. QED BY <2>8 DEF v, u, m, a
<1>7. QED BY <1>5, <1>6

\* The master takes the first packet of a world.
LEMMA TookFollows ==
  ASSUME NEW w \in World, Lasts(w), w.out # <<>>
  PROVE  LET v == TookFirst(w)
         IN  /\ Lasts(v) /\ v.port = w.port /\ v.ready = w.ready /\ v.connected = w.connected
             /\ v.in = w.in /\ ~ Introduces(v.out)
             /\ Head(w.out).kind = "SERVER_INFO" => Introduces(w.out)
             /\ Head(w.out).kind # "SERVER_INFO" => Follows(w, v)
             /\ IsEnd(Head(w.out)) => ~ w.connected
<1> DEFINE v == TookFirst(w)
<1>1. w.out \in Seq(ToMasterMsg) /\ Len(w.out) \in Nat \ {0}
  BY WorldFields
<1>2. /\ v.out = Tail(w.out) /\ v.in = w.in /\ v.ready = w.ready /\ v.running = w.running
      /\ v.connected = w.connected /\ v.port = w.port
  BY DEF TookFirst, World
<1> HIDE DEF v
<1>3. /\ Len(v.out) = Len(w.out) - 1 /\ DOMAIN v.out = 1..Len(v.out) /\ DOMAIN w.out = 1..Len(w.out)
      /\ \A n \in 1..Len(v.out) : n + 1 \in 1..Len(w.out) /\ v.out[n] = w.out[n + 1] /\ n + 1 # 1
      /\ \A n \in 1..Len(w.out) : n = 1 \/ (n - 1 \in 1..Len(v.out) /\ v.out[n - 1] = w.out[n])
      /\ Head(w.out) = w.out[1] /\ 1 \in 1..Len(w.out)
  BY <1>1, <1>2
<1>4. Ending(v.out) => Ending(w.out)
  BY <1>3 DEF Ending
<1>5. \A n \in 1..Len(v.out) : v.out[n].kind # "SERVER_INFO"
  BY <1>3 DEF Lasts
<1>6. ~ Introduces(v.out)
  BY <1>5 DEF Introduces
<1>7. Lasts(v)
  BY <1>2, <1>4, <1>5 DEF Lasts
<1>8. Head(w.out).kind = "SERVER_INFO" => Introduces(w.out)
  BY <1>3 DEF Introduces
<1>9. Head(w.out).kind # "SERVER_INFO" => ~ Introduces(w.out)
  BY <1>3 DEF Introduces, Lasts
<1>10. IsEnd(Head(w.out)) => ~ w.connected
  BY <1>3 DEF Lasts, Ending, IsEnd
<1>11. Head(w.out).kind # "SERVER_INFO" => Follows(w, v)
  BY <1>2, <1>6, <1>7, <1>9 DEF Follows, Fresh, ToldToEnd
<1>12. QED BY <1>2, <1>6, <1>7, <1>8, <1>10, <1>11 DEF v

-----------------------------------------------------------------------------
MetInv   == Met(m_Instances, world, m_IsShuttingDown)
ApartInv == PortsApart(m_Instances, world)

\* What the players of a world make of it.
LEMMA PlayersFollow ==
  ASSUME NEW w \in World, Lasts(w), NEW v \in World, NEW n,
         \/ v = SendToMaster(w, Msg("PLAYER_ADDED"))
         \/ v = PlayerIn(w) \/ v = PlayerOut(w)
         \/ v = [w EXCEPT !.players = n]
  PROVE  Follows(w, v)
<1> DEFINE a == Msg("PLAYER_ADDED")
           b == Msg("PLAYER_REMOVED")
           y(m) == SendToMaster(w, m)
<1>1. /\ a \in ToMasterMsg /\ a.kind # "SERVER_INFO" /\ ~ IsEnd(a)
      /\ b \in ToMasterMsg /\ b.kind # "SERVER_INFO" /\ ~ IsEnd(b)
  BY MsgTypes, Kinds DEF IsEnd
<1>2. \A m \in ToMasterMsg :
        /\ y(m) \in World /\ y(m).port = w.port /\ y(m).in = w.in
        /\ y(m).running = w.running /\ y(m).ready = w.ready /\ y(m).connected = w.connected
        /\ y(m).out = w.out \/ y(m).out = Append(w.out, m)
  <2>1. \A m \in ToMasterMsg :
          /\ y(m).running = w.running /\ y(m).ready = w.ready /\ y(m).connected = w.connected
          /\ y(m).out = w.out \/ y(m).out = Append(w.out, m)
    BY SendFields
  <2>2. \A m \in ToMasterMsg : y(m) \in World
    BY SendToMasterType
  <2>3. \A m \in ToMasterMsg : y(m).port = w.port /\ y(m).in = w.in
    BY DEF SendToMaster, World
  <2>4. QED BY <2>1, <2>2, <2>3, Zenon
<1>3. \/ v = y(a) \/ v = [y(a) EXCEPT !.players = w.players + 1]
      \/ v = [y(b) EXCEPT !.players = w.players - 1] \/ v = [w EXCEPT !.players = n]
  BY DEF PlayerIn, PlayerOut
<1> HIDE DEF y, a, b
<1>4. PICK m \in ToMasterMsg :
        /\ m.kind # "SERVER_INFO" /\ ~ IsEnd(m) /\ v.port = w.port /\ v.in = w.in
        /\ v.running = w.running /\ v.ready = w.ready /\ v.connected = w.connected
        /\ v.out = w.out \/ v.out = Append(w.out, m)
  <2>1. CASE v = y(a) \/ v = [y(a) EXCEPT !.players = w.players + 1]
    <3>1. y(a) \in World /\ v.running = y(a).running /\ v.ready = y(a).ready /\ v.in = y(a).in
          /\ v.connected = y(a).connected /\ v.out = y(a).out /\ v.port = y(a).port
      BY <1>1, <1>2, <2>1 DEF World
    <3>2. QED BY <1>1, <1>2, <3>1
  <2>2. CASE v = [y(b) EXCEPT !.players = w.players - 1]
    <3>1. y(b) \in World /\ v.running = y(b).running /\ v.ready = y(b).ready /\ v.in = y(b).in
          /\ v.connected = y(b).connected /\ v.out = y(b).out /\ v.port = y(b).port
      BY <1>1, <1>2, <2>2 DEF World
    <3>2. QED BY <1>1, <1>2, <3>1
  <2>3. CASE v = [w EXCEPT !.players = n]
    <3>1. /\ v.running = w.running /\ v.ready = w.ready /\ v.connected = w.connected
          /\ v.out = w.out /\ v.in = w.in /\ v.port = w.port
      BY <2>3 DEF World
    <3>2. QED BY <1>1, <3>1
  <2>4. QED BY <1>3, <2>1, <2>2, <2>3
<1>5. ToldToEnd(w) => ToldToEnd(v)
  BY <1>4 DEF ToldToEnd
<1>6. QED BY <1>4, <1>5, SendFollows

\* Every step of a world process.
LEMMA WorldStepMet ==
  ASSUME ConnectionsLast, TypeOK, LinkedInv, MetInv, ApartInv, NEW p \in DOMAIN world, WorldStep(p)
  PROVE  MetInv' /\ ApartInv'
<1> DEFINE w == world[p]
           T == m_Instances
<1>0. /\ p \in 1..Len(world) /\ w \in World /\ Conn(w) /\ T \in Seq(Instance)
      /\ world \in Seq(World) /\ Met(T, world, m_IsShuttingDown) /\ PortsApart(T, world) /\ Lasts(w)
      /\ \A k \in 1..Len(T) : T[k].id \in 1..Len(world)
  <2>1. p \in 1..Len(world) /\ w \in World /\ T \in Seq(Instance) /\ world \in Seq(World)
    BY TypeFacts DEF TypeOK
  <2>2. Met(T, world, m_IsShuttingDown) /\ PortsApart(T, world)
    BY DEF MetInv, ApartInv
  <2>3. Conn(w) /\ \A k \in 1..Len(T) : T[k].id \in 1..Len(world)
    BY <2>1 DEF LinkedInv, Linked
  <2>4. Lasts(w)
    BY <2>1, <2>2 DEF Met
  <2>5. QED BY <2>1, <2>2, <2>3, <2>4
<1>1. UnchangedByWorld
  BY DEF WorldStep, WorldConnect, WorldReceive, WorldExit, WorldGivesUp, WorldFailsToStart,
         WorldCrash, ConnectionLost, PlayerEnters, PlayerEntersTooLate, PlayerLeaves,
         PlayerLeavesUnreported
<1>2. ASSUME NEW v \in World, Follows(w, v), world' = [world EXCEPT ![p] = v]
      PROVE  MetInv' /\ ApartInv'
  <2>1. Met(T, [world EXCEPT ![p] = v], m_IsShuttingDown) /\ PortsApart(T, [world EXCEPT ![p] = v])
    BY <1>0, <1>2, WorldMet
  <2>2. T' = T /\ UNCHANGED m_IsShuttingDown
    BY <1>1 DEF UnchangedByWorld, masterVars
  <2>3. QED BY <1>2, <2>1, <2>2 DEF MetInv, ApartInv
<1>3. CASE WorldConnect(p)
  <2>1. world' = [world EXCEPT ![p] = Attached(w)] /\ ~ w.connected /\ w.running
    BY <1>3 DEF WorldConnect
  <2>2. Attached(w) \in World /\ Follows(w, Attached(w))
    BY <1>0, <2>1, AttachFollows
  <2>3. QED BY <1>2, <2>1, <2>2
<1>4. CASE WorldReceive(p)
  <2> DEFINE m == Head(w.in)
             u == [w EXCEPT !.in = Tail(w.in)]
             v == IF m.kind = "SHUTDOWN" THEN Exited(u)
                  ELSE SendToMaster(u, IdMsg("AFFIRM_TRANSFER_RESPONSE", m.id))
  <2>1. w.in # <<>> /\ world' = [world EXCEPT ![p] = v]
    BY <1>4 DEF WorldReceive
  <2>2. w.connected /\ w.ready
    BY <1>0, <2>1, WorldFields DEF Conn
  <2>3. v \in World /\ Follows(w, v)
    BY <1>0, <2>1, <2>2, ReceiveFollows
  <2> HIDE DEF v
  <2>4. QED BY <1>2, <2>1, <2>3
<1>5. CASE WorldExit(p) \/ WorldGivesUp(p)
  <2>1. world' = [world EXCEPT ![p] = Exited(w)] /\ w.ready /\ w.running
    BY <1>5 DEF WorldExit, WorldGivesUp
  <2>2. w.connected
    BY <1>0, <2>1 DEF Lasts
  <2>3. Exited(w) \in World /\ Follows(w, Exited(w))
    BY <1>0, <2>1, <2>2, ExitFollows
  <2>4. QED BY <1>2, <2>1, <2>3
<1>6. CASE WorldFailsToStart(p)
  <2> DEFINE v == [w EXCEPT !.running = FALSE]
  <2>1. world' = [world EXCEPT ![p] = v]
    BY <1>6 DEF WorldFailsToStart
  <2>2. /\ v \in World /\ v.port = w.port /\ ~ v.running /\ v.ready = w.ready
        /\ v.connected = w.connected /\ v.out = w.out /\ v.in = w.in
    BY <1>0 DEF World
  <2> HIDE DEF v
  <2>3. Lasts(v)
    BY <1>0, <2>2 DEF Lasts
  <2>4. Follows(w, v)
    BY <2>2, <2>3 DEF Follows, Fresh, ToldToEnd
  <2>5. QED BY <1>2, <2>1, <2>2, <2>4
<1>7. CASE WorldCrash(p)
  <2>1. PICK n \in 0..Len(w.out) :
          world' = [world EXCEPT ![p] = [Dropped(w, n) EXCEPT !.running = FALSE, !.players = 0]]
    BY <1>7 DEF WorldCrash
  <2> DEFINE v == [Dropped(w, n) EXCEPT !.running = FALSE, !.players = 0]
  <2>2. w.ready
    BY <1>0, <1>7 DEF WorldCrash, Conn
  <2>3. v \in World /\ Follows(w, v)
    BY <1>0, <2>2, CrashFollows
  <2> HIDE DEF v
  <2>4. world' = [world EXCEPT ![p] = v]
    BY <2>1 DEF v
  <2>5. QED BY <1>2, <2>3, <2>4
<1>8. CASE ConnectionLost(p)
  BY <1>8 DEF ConnectionLost, May, ConnectionsLast
<1>9. CASE PlayerEnters(p) \/ PlayerEntersTooLate(p)
  <2>1. PICK v : /\ world' = [world EXCEPT ![p] = v]
                 /\ v = PlayerIn(w) \/ v = SendToMaster(w, Msg("PLAYER_ADDED"))
    BY <1>9 DEF PlayerEnters, PlayerEntersTooLate
  <2>2. Msg("PLAYER_ADDED") \in ToMasterMsg
    BY MsgTypes
  <2>3. v \in World
    BY <1>0, <2>1, <2>2, PlayerInType, SendToMasterType
  <2>4. Follows(w, v)
    BY <1>0, <2>1, <2>3, PlayersFollow
  <2>5. QED BY <1>2, <2>1, <2>3, <2>4
<1>10. CASE PlayerLeaves(p)
  <2>1. w.players > 0 /\ world' = [world EXCEPT ![p] = PlayerOut(w)]
    BY <1>10 DEF PlayerLeaves
  <2>2. PlayerOut(w) \in World
    BY <1>0, <2>1, PlayerOutType
  <2>3. Follows(w, PlayerOut(w))
    BY <1>0, <2>2, PlayersFollow
  <2>4. QED BY <1>2, <2>1, <2>2, <2>3
<1>11. CASE PlayerLeavesUnreported(p)
  <2> DEFINE v == [w EXCEPT !.players = w.players - 1]
  <2>1. w.players > 0 /\ world' = [world EXCEPT ![p] = v]
    BY <1>11 DEF PlayerLeavesUnreported
  <2>2. v \in World
    BY <1>0, <2>1, PlayersCarry
  <2>3. Follows(w, v)
    <3>1. ASSUME NEW u \in World, NEW n, u = [w EXCEPT !.players = n]
          PROVE  Follows(w, u)
      BY <1>0, <3>1, PlayersFollow
    <3>2. v = [w EXCEPT !.players = w.players - 1]
      OBVIOUS
    <3> HIDE DEF v
    <3>3. QED BY <2>2, <3>1, <3>2, Zenon
  <2> HIDE DEF v
  <2>4. QED BY <1>2, <2>1, <2>2, <2>3
<1>12. QED BY <1>3, <1>4, <1>5, <1>6, <1>7, <1>8, <1>9, <1>10, <1>11 DEF WorldStep

\* A handler that marks an instance, or none.
LEMMA HandlerMet ==
  ASSUME TypeOK, LinkedInv, MetInv, ApartInv, NEW p \in DOMAIN world, world[p].out # <<>>,
         Head(world[p].out).kind # "SERVER_INFO", world' = Taken(p), UNCHANGED m_IsShuttingDown,
         \/ UNCHANGED m_Instances
         \/ \E k \in 1..Len(m_Instances) : \E i :
              m_Instances' = [m_Instances EXCEPT ![k] = i] /\ Marks(m_Instances[k], i)
  PROVE  MetInv' /\ ApartInv'
<1> DEFINE T == m_Instances
           w == world[p]
           v == TookFirst(w)
           down == m_IsShuttingDown
<1>1. /\ p \in 1..Len(world) /\ w \in World /\ v \in World /\ T \in Seq(Instance)
      /\ world \in Seq(World) /\ world' = [world EXCEPT ![p] = v]
      /\ \A j \in 1..Len(T) : T[j].id \in 1..Len(world)
  BY Receiving
<1>2. Met(T, world, down) /\ PortsApart(T, world)
  BY DEF MetInv, ApartInv
<1>3. Lasts(w)
  BY <1>1, <1>2 DEF Met
<1>4. Follows(w, v)
  BY <1>1, <1>3, TookFollows
<1> HIDE DEF v
<1>5. Met(T, world', down) /\ PortsApart(T, world')
  <2>1. Met(T, [world EXCEPT ![p] = v], down) /\ PortsApart(T, [world EXCEPT ![p] = v])
    BY <1>1, <1>2, <1>4, WorldMet
  <2>2. QED BY <1>1, <2>1
<1>6. CASE UNCHANGED T
  BY <1>5, <1>6 DEF MetInv, ApartInv
<1>7. CASE ~ UNCHANGED T
  <2>1. PICK k \in 1..Len(T) : \E i : T' = [T EXCEPT ![k] = i] /\ Marks(T[k], i)
    BY <1>7
  <2>2. PICK i : T' = [T EXCEPT ![k] = i] /\ Marks(T[k], i)
    BY <2>1
  <2>3. PICK V : V = world'
    OBVIOUS
  <2>4. Met(T, V, down) /\ PortsApart(T, V)
    BY <1>5, <2>3
  <2>5. Met([T EXCEPT ![k] = i], V, down) /\ PortsApart([T EXCEPT ![k] = i], V)
    BY <1>1, <2>2, <2>4, InstanceMet
  <2>6. QED BY <2>2, <2>3, <2>5 DEF MetInv, ApartInv
<1>8. QED BY <1>6, <1>7

\* The packets that tell of requests and players, and of a world's end.
LEMMA QuietMet ==
  ASSUME TypeOK, LinkedInv, MetInv, ApartInv, NEW p \in DOMAIN world,
         \/ HandleWorldReady(p) \/ HandleAffirmTransfer(p) \/ HandlePlayerAdded(p)
         \/ HandlePlayerRemoved(p) \/ HandleShutdownResponse(p)
  PROVE  MetInv' /\ ApartInv'
<1> DEFINE T == m_Instances
           w == world[p]
           k == FindInstanceWithPrivate(T, w.zone.map, p)
           l == GetInstanceBySysAddr(T, p)
           o == FindPublicInstance(T, w.zone.map, p)
           Changes == \/ UNCHANGED T
                      \/ \E j \in 1..Len(T) : \E i : T' = [T EXCEPT ![j] = i] /\ Marks(T[j], i)
<1>1. /\ w.out # <<>> /\ Head(w.out).kind # "SERVER_INFO" /\ world' = Taken(p)
      /\ UNCHANGED m_IsShuttingDown
  BY DEF HandleWorldReady, HandleAffirmTransfer, HandlePlayerAdded, HandlePlayerRemoved,
         HandleShutdownResponse, Receives, UnchangedByTable
<1>2. /\ k # 0 => k \in 1..Len(T)
      /\ l # 0 => l \in 1..Len(T) /\ T[l].sysAddr = p
      /\ o # 0 => o \in 1..Len(T)
  <2>1. o \in 0..Len(T) /\ Len(T) \in Nat
    BY FindPublicInstanceFinds DEF TypeOK
  <2>2. (k # 0 => k \in 1..Len(T)) /\ (l # 0 => l \in 1..Len(T) /\ T[l].sysAddr = p)
    BY <1>1, Found
  <2> HIDE DEF o, k, l
  <2>3. QED BY <2>1, <2>2
<1>3. /\ T \in Seq(Instance) /\ \A j \in 1..Len(T) : T[j] \in Instance
      /\ p # Unassigned
  BY <1>1, Receiving DEF WorldIds, Unassigned
<1>4. ASSUME NEW j \in 1..Len(T), NEW i, T' = [T EXCEPT ![j] = i],
             i.id = T[j].id, i.port = T[j].port, i.sysAddr = T[j].sysAddr,
             i.shuttingDown = T[j].shuttingDown \/ T[j].sysAddr = p
      PROVE  Changes
  BY <1>3, <1>4 DEF Marks
<1> HIDE DEF Changes
<1>5. UNCHANGED T => Changes
  BY DEF Changes
<1>6. CASE HandleWorldReady(p)
  <2>1. CASE k = 0
    BY <1>5, <1>6, <2>1, <1>1, HandlerMet DEF HandleWorldReady, Changes
  <2>2. CASE k # 0
    <3> DEFINE i == [T[k] EXCEPT !.ready = TRUE, !.pendingRequests = <<>>]
    <3>1. k \in 1..Len(T) /\ T[k] \in Instance /\ T' = [T EXCEPT ![k].ready = TRUE, ![k].pendingRequests = <<>>]
      BY <1>2, <1>3, <1>6, <2>2 DEF HandleWorldReady
    <3> HIDE DEF k
    <3>2. T' = [T EXCEPT ![k] = i]
      BY <1>3, <3>1
    <3>3. /\ i.id = T[k].id /\ i.port = T[k].port /\ i.sysAddr = T[k].sysAddr
          /\ i.shuttingDown = T[k].shuttingDown
      BY <3>1 DEF Instance
    <3> HIDE DEF i
    <3>4. Changes
      BY <1>4, <3>1, <3>2, <3>3
    <3>5. QED BY <1>1, <3>4, HandlerMet DEF Changes
  <2>3. QED BY <2>1, <2>2
<1>7. CASE HandleAffirmTransfer(p)
  <2> DEFINE rs == T[l].pendingAffirmations
             n == PendingIndex(rs, Head(w.out).id)
  <2>1. CASE l = 0 \/ n = 0
    <3>1. UNCHANGED T
      BY <1>7, <2>1 DEF HandleAffirmTransfer
    <3>2. QED BY <1>1, <1>5, <3>1, HandlerMet DEF Changes
  <2>2. CASE ~ (l = 0 \/ n = 0)
    <3> DEFINE i == [T[l] EXCEPT !.pendingAffirmations = RemoveAt(rs, n),
                                 !.affirmTimedOut = @ /\ Len(rs) > 1]
    <3>1. /\ l \in 1..Len(T) /\ T[l] \in Instance
          /\ T' = [T EXCEPT ![l].pendingAffirmations = RemoveAt(rs, n),
                            ![l].affirmTimedOut = @ /\ Len(rs) > 1]
      BY <1>2, <1>3, <1>7, <2>2 DEF HandleAffirmTransfer
    <3> HIDE DEF l, n, rs
    <3>2. T' = [T EXCEPT ![l] = i]
      BY <1>3, <3>1
    <3>3. /\ i.id = T[l].id /\ i.port = T[l].port /\ i.sysAddr = T[l].sysAddr
          /\ i.shuttingDown = T[l].shuttingDown
      BY <3>1 DEF Instance
    <3> HIDE DEF i
    <3>4. Changes
      BY <1>4, <3>1, <3>2, <3>3
    <3>5. QED BY <1>1, <3>4, HandlerMet DEF Changes
  <2>3. QED BY <2>1, <2>2
<1>8. ASSUME NEW j, NEW n, j # 0 => j \in 1..Len(T),
             T' = IF j = 0 THEN T ELSE [T EXCEPT ![j].clients = n]
      PROVE  MetInv' /\ ApartInv'
  <2>1. CASE j = 0
    BY <1>1, <1>5, <1>8, <2>1, HandlerMet DEF Changes
  <2>2. CASE j # 0
    <3> DEFINE i == [T[j] EXCEPT !.clients = n]
    <3>1. j \in 1..Len(T) /\ T[j] \in Instance /\ T' = [T EXCEPT ![j] = i]
      BY <1>3, <1>8, <2>2
    <3>2. /\ i.id = T[j].id /\ i.port = T[j].port /\ i.sysAddr = T[j].sysAddr
          /\ i.shuttingDown = T[j].shuttingDown
      BY <3>1 DEF Instance
    <3> HIDE DEF i
    <3>3. Changes
      BY <1>4, <3>1, <3>2
    <3>4. QED BY <1>1, <3>3, HandlerMet DEF Changes
  <2>3. QED BY <2>1, <2>2
<1>9. CASE HandlePlayerAdded(p)
  <2>1. T' = IF k = 0 THEN T ELSE [T EXCEPT ![k].clients = T[k].clients + 1]
    BY <1>9 DEF HandlePlayerAdded
  <2> HIDE DEF k
  <2>2. QED BY <1>2, <1>8, <2>1
<1>10. CASE HandlePlayerRemoved(p)
  <2>1. T' = IF o = 0 THEN T ELSE [T EXCEPT ![o].clients = RemovePlayer(T[o].clients)]
    BY <1>10 DEF HandlePlayerRemoved
  <2> HIDE DEF o
  <2>2. QED BY <1>2, <1>8, <2>1
<1>11. CASE HandleShutdownResponse(p)
  <2>1. CASE l = 0
    BY <1>5, <1>11, <2>1, <1>1, HandlerMet DEF HandleShutdownResponse, Changes
  <2>2. CASE l # 0
    <3> DEFINE i == [T[l] EXCEPT !.shuttingDown = TRUE]
    <3>1. /\ l \in 1..Len(T) /\ T[l] \in Instance /\ T[l].sysAddr = p
          /\ T' = [T EXCEPT ![l].shuttingDown = TRUE]
      BY <1>2, <1>3, <1>11, <2>2 DEF HandleShutdownResponse
    <3> HIDE DEF l
    <3>2. T' = [T EXCEPT ![l] = i]
      BY <1>3, <3>1
    <3>3. /\ i.id = T[l].id /\ i.port = T[l].port /\ i.sysAddr = T[l].sysAddr
          /\ i.shuttingDown = TRUE
      BY <3>1 DEF Instance
    <3> HIDE DEF i
    <3>4. Changes
      BY <1>4, <3>1, <3>2, <3>3
    <3>5. QED BY <1>1, <3>4, HandlerMet DEF Changes
  <2>3. QED BY <2>1, <2>2
<1>12. QED BY <1>6, <1>7, <1>9, <1>10, <1>11

\* Instance p has its address in U, and the rest is that of T.
Heard(T, U, p, port) ==
  /\ \A k \in 1..Len(T) : k \in 1..Len(U) /\ U[k].id = T[k].id
  /\ \A k \in 1..Len(U) :
       \/ k \in 1..Len(T) /\ U[k] = T[k]
       \/ U[k].id = p /\ U[k].sysAddr = p /\ U[k].port = port
  /\ \E k \in 1..Len(U) : U[k].id = p /\ U[k].sysAddr = p

\* The master hears of a world: its instance, old or new, has its address.
LEMMA InfoMet ==
  ASSUME NEW T, NEW U, NEW W \in Seq(World), NEW down, Met(T, W, down), PortsApart(T, W),
         \A k \in 1..Len(T) : T[k].id \in 1..Len(W),
         NEW p \in 1..Len(W), NEW v \in World, p # Unassigned,
         Fresh(W[p]), ~ Fresh(v), Lasts(v), v.port = W[p].port, Heard(T, U, p, W[p].port)
  PROVE  Met(U, [W EXCEPT ![p] = v], down) /\ PortsApart(U, [W EXCEPT ![p] = v])
<1> DEFINE V == [W EXCEPT ![p] = v]
<1>0. /\ \A k \in 1..Len(T) : k \in 1..Len(U) /\ U[k].id = T[k].id
      /\ \A k \in 1..Len(U) :
           \/ k \in 1..Len(T) /\ U[k] = T[k]
           \/ U[k].id = p /\ U[k].sysAddr = p /\ U[k].port = W[p].port
      /\ \E k \in 1..Len(U) : U[k].id = p /\ U[k].sysAddr = p
  BY DEF Heard
<1>1. Len(V) = Len(W) /\ V[p] = v /\ \A q \in 1..Len(W) : q # p => V[q] = W[q]
  OBVIOUS
<1> HIDE DEF V
<1>2. \A q \in 1..Len(V) : Lasts(V[q])
  BY <1>1 DEF Met
<1>3. \A q \in 1..Len(V) : Fresh(V[q]) => q \in 1..Len(W) /\ q # p /\ V[q] = W[q] /\ Fresh(W[q])
  BY <1>1
<1>4. ASSUME NEW q \in 1..Len(V), V[q].connected
      PROVE  \/ Introduces(V[q].out) \/ ToldToEnd(V[q])
             \/ \E k \in 1..Len(U) : U[k].id = q /\ U[k].sysAddr = q
  <2>1. CASE q = p
    BY <1>0, <2>1
  <2>2. CASE q # p
    <3>1. \/ Introduces(V[q].out) \/ ToldToEnd(V[q])
          \/ \E k \in 1..Len(T) : T[k].id = q /\ T[k].sysAddr = q
      BY <1>1, <1>4, <2>2 DEF Met
    <3>2. ASSUME NEW k \in 1..Len(T), T[k].id = q, T[k].sysAddr = q
          PROVE  k \in 1..Len(U) /\ U[k].id = q /\ U[k].sysAddr = q
      BY <1>0, <2>2, <3>2
    <3>3. QED BY <3>1, <3>2
  <2>3. QED BY <2>1, <2>2
<1>5. ASSUME NEW k \in 1..Len(U), U[k].sysAddr # Unassigned PROVE ~ Fresh(V[U[k].id])
  <2>1. CASE U[k].id = p
    BY <1>1, <2>1
  <2>2. CASE U[k].id # p
    BY <1>0, <1>1, <1>5, <2>2 DEF Met
  <2>3. QED BY <2>1, <2>2
<1>6. \A k \in 1..Len(U) : U[k].shuttingDown => U[k].sysAddr # Unassigned
  BY <1>0 DEF Met
<1>7. ASSUME ~ down, NEW q \in 1..Len(V), Fresh(V[q]) PROVE \E k \in 1..Len(U) : U[k].id = q
  <2>1. q \in 1..Len(W) /\ Fresh(W[q])
    BY <1>3, <1>7
  <2>2. PICK k \in 1..Len(T) : T[k].id = q
    BY <1>7, <2>1 DEF Met
  <2>3. k \in 1..Len(U) /\ U[k].id = q
    BY <1>0, <2>2
  <2>4. QED BY <2>3
<1>8. Met(U, V, down)
  BY <1>2, <1>4, <1>5, <1>6, <1>7 DEF Met
<1>9. ASSUME NEW q \in 1..Len(V), Fresh(V[q])
      PROVE  /\ \A k \in 1..Len(U) : U[k].port = V[q].port => U[k].id = q
             /\ \A r \in 1..Len(V) : Fresh(V[r]) /\ V[r].port = V[q].port => r = q
  <2>1. /\ \A k \in 1..Len(T) : T[k].port = W[q].port => T[k].id = q
        /\ \A r \in 1..Len(W) : Fresh(W[r]) /\ W[r].port = W[q].port => r = q
    BY <1>3, <1>9 DEF PortsApart
  <2>2. QED BY <1>0, <1>3, <1>9, <2>1
<1>10. PortsApart(U, V)
  BY <1>9 DEF PortsApart
<1>11. QED BY <1>8, <1>10 DEF V

\* SERVER_INFO: while the port of a world that is yet to introduce itself is in
\* use, it is by its own instance, which is found.
LEMMA ServerInfoMet ==
  ASSUME TypeOK, LinkedInv, MetInv, ApartInv, NEW p \in DOMAIN world, HandleServerInfo(p)
  PROVE  MetInv' /\ ApartInv'
<1> DEFINE T == m_Instances
           w == world[p]
           v == TookFirst(w)
           down == m_IsShuttingDown
           k == FindInstanceWithPrivate(T, w.zone.map, p)
           n == NewInstance([w.zone EXCEPT !.clone = 0], p, w.port, ReAddedCap, NoPassword, p)
<1>0. /\ w.out # <<>> /\ Head(w.out).kind = "SERVER_INFO" /\ world' = Taken(p)
      /\ UNCHANGED down
      /\ T' = IF ~ IsPortInUse(T, w.port) THEN Append(T, n)
              ELSE IF k # 0 THEN [T EXCEPT ![k].sysAddr = p] ELSE T
  BY DEF HandleServerInfo, Receives, UnchangedByTable
<1>1. /\ p \in 1..Len(world) /\ p # Unassigned /\ w \in World /\ Conn(w) /\ v \in World
      /\ T \in Seq(Instance) /\ world \in Seq(World) /\ world' = [world EXCEPT ![p] = v]
      /\ \A j \in 1..Len(T) : /\ T[j] \in Instance /\ T[j].id \in 1..Len(world)
                              /\ Suits(T[j], world[T[j].id], down)
  BY <1>0, Receiving DEF WorldIds, Unassigned
<1>2. /\ k # 0 => k \in 1..Len(T) /\ T[k].id = p
      /\ k = 0 => \A j \in 1..Len(T) : T[j].id = p => T[j].shuttingDown
  BY <1>0, Found
<1>3. Met(T, world, down) /\ PortsApart(T, world)
  BY DEF MetInv, ApartInv
<1>4. /\ Lasts(v) /\ v.port = w.port /\ v.ready = w.ready /\ ~ Introduces(v.out)
      /\ Introduces(w.out)
  <2>1. Lasts(w)
    BY <1>1, <1>3 DEF Met
  <2>2. QED BY <1>0, <1>1, <2>1, TookFollows
<1>5. Fresh(w) /\ ~ Fresh(v)
  BY <1>0, <1>1, <1>4 DEF Fresh, Conn
<1>6. n.id = p /\ n.sysAddr = p /\ n.port = w.port
  BY DEF NewInstance
<1> HIDE DEF k, v, n
<1>7. ASSUME NEW U, T' = U, Heard(T, U, p, w.port)
      PROVE  MetInv' /\ ApartInv'
  <2>1. \A j \in 1..Len(T) : T[j].id \in 1..Len(world)
    BY <1>1
  <2>2. Met(U, [world EXCEPT ![p] = v], down) /\ PortsApart(U, [world EXCEPT ![p] = v])
    BY <1>1, <1>3, <1>4, <1>5, <1>7, <2>1, InfoMet
  <2>3. QED BY <1>0, <1>1, <1>7, <2>2 DEF MetInv, ApartInv
<1>8. CASE ~ IsPortInUse(T, w.port)
  <2> DEFINE U == Append(T, n)
  <2>1. /\ Len(U) = Len(T) + 1 /\ Len(T) \in Nat /\ U[Len(T) + 1] = n
        /\ \A j \in 1..Len(T) : U[j] = T[j]
    BY <1>1
  <2>2. T' = U
    BY <1>0, <1>8
  <2> HIDE DEF U
  <2>3. \A j \in 1..Len(U) : j \in 1..Len(T) \/ j = Len(T) + 1
    BY <2>1
  <2>4. \A j \in 1..Len(T) : j \in 1..Len(U) /\ U[j].id = T[j].id
    BY <2>1
  <2>5. \A j \in 1..Len(U) :
          \/ j \in 1..Len(T) /\ U[j] = T[j]
          \/ U[j].id = p /\ U[j].sysAddr = p /\ U[j].port = w.port
    BY <1>6, <2>1, <2>3
  <2>6. \E j \in 1..Len(U) : U[j].id = p /\ U[j].sysAddr = p
    <3>1. Len(T) + 1 \in 1..Len(U)
      BY <2>1
    <3>2. QED BY <1>6, <2>1, <3>1
  <2>7. QED BY <1>7, <2>2, <2>4, <2>5, <2>6 DEF Heard
<1>9. CASE IsPortInUse(T, w.port)
  <2>1. PICK j \in 1..Len(T) : T[j].port = w.port
    BY <1>1, <1>9 DEF IsPortInUse
  <2>2. T[j].id = p
    BY <1>1, <1>3, <1>5, <2>1 DEF PortsApart
  <2>3. ~ T[j].shuttingDown
    BY <1>3, <1>5, <2>2 DEF Met
  <2>4. k \in 1..Len(T) /\ T[k].id = p /\ k # 0
    BY <1>2, <2>2, <2>3
  <2>5. T[k] \in Instance /\ T[k].port = w.port
    BY <1>1, <2>4 DEF Suits
  <2> DEFINE i == [T[k] EXCEPT !.sysAddr = p]
             U == [T EXCEPT ![k] = i]
  <2>6. i.id = p /\ i.sysAddr = p /\ i.port = w.port
    BY <2>4, <2>5 DEF Instance
  <2>7. T' = U
    BY <1>0, <1>1, <1>9, <2>4
  <2> HIDE DEF i
  <2>8. Len(U) = Len(T) /\ U[k] = i /\ \A l \in 1..Len(T) : l # k => U[l] = T[l]
    BY <1>1, <2>4
  <2> HIDE DEF U
  <2>9. \A l \in 1..Len(T) : l \in 1..Len(U) /\ U[l].id = T[l].id
    BY <2>4, <2>6, <2>8
  <2>10. \A l \in 1..Len(U) :
           \/ l \in 1..Len(T) /\ U[l] = T[l]
           \/ U[l].id = p /\ U[l].sysAddr = p /\ U[l].port = w.port
    BY <2>6, <2>8
  <2>11. \E l \in 1..Len(U) : U[l].id = p /\ U[l].sysAddr = p
    BY <2>4, <2>6, <2>8
  <2>12. QED BY <1>7, <2>7, <2>9, <2>10, <2>11 DEF Heard
<1>10. QED BY <1>8, <1>9

\* One instance less.
LEMMA RemovedApart ==
  ASSUME NEW T \in Seq(Instance), NEW W, PortsApart(T, W), NEW x \in 1..Len(T)
  PROVE  PortsApart(RemoveAt(T, x), W)
<1> DEFINE U == RemoveAt(T, x)
<1>1. \A j \in 1..Len(U) : \E k \in 1..Len(T) : k # x /\ U[j] = T[k]
  BY RemoveAtRest, Zenon
<1> HIDE DEF U
<1>2. \A j \in 1..Len(U) : \E k \in 1..Len(T) : U[j].id = T[k].id /\ U[j].port = T[k].port
  BY <1>1
<1>3. PortsApart(U, W)
  BY <1>2, FewerApart
<1>4. QED BY <1>3 DEF U

\* A connection has ended: the instance it belonged to leaves the table.
LEMMA DisconnectedMet ==
  ASSUME TypeOK, LinkedInv, MetInv, ApartInv, NEW p \in DOMAIN world, HandleDisconnected(p)
  PROVE  MetInv' /\ (m_IsShuttingDown => ApartInv')
<1> DEFINE T == m_Instances
           w == world[p]
           v == TookFirst(w)
           V == Taken(p)
           down == m_IsShuttingDown
           k == GetInstanceBySysAddr(T, p)
           i == [T[k] EXCEPT !.shutdownComplete = TRUE]
           U == [T EXCEPT ![k].shutdownComplete = TRUE]
           r == Redirect(U, V, k)
<1>0. /\ w.out # <<>> /\ IsEnd(Head(w.out)) /\ UNCHANGED m_IsShuttingDown
      /\ IF k = 0 THEN T' = T /\ world' = V
         ELSE IF down
         THEN T' = RemoveAt(U, k) /\ world' = V
         ELSE CanRedirect(U, world, k) /\ T' = RemoveAt(r.tbl, k) /\ world' = r.world
  BY DEF HandleDisconnected, Receives, IsEnd, UnchangedByTable
<1>1. /\ p \in 1..Len(world) /\ p # Unassigned /\ w \in World /\ v \in World
      /\ T \in Seq(Instance) /\ world \in Seq(World) /\ V = [world EXCEPT ![p] = v]
      /\ \A j \in 1..Len(T) : T[j] \in Instance /\ T[j].id \in 1..Len(world)
  BY <1>0, Receiving DEF WorldIds, Unassigned
<1>2. k # 0 => k \in 1..Len(T) /\ T[k].id = p /\ T[k].sysAddr = p
  BY <1>0, Found
<1>3. V \in Seq(World) /\ Len(V) = Len(world) /\ Len(world) <= MaxWorlds
  BY <1>0, <1>1, TakenType DEF TypeOK
<1>4. Met(T, world, down) /\ PortsApart(T, world)
  BY DEF MetInv, ApartInv
<1>5. /\ Follows(w, v) /\ ~ v.connected
  <2>1. Lasts(w)
    BY <1>1, <1>4 DEF Met
  <2>2. Head(w.out).kind # "SERVER_INFO"
    BY <1>0 DEF IsEnd
  <2>3. QED BY <1>0, <1>1, <2>1, <2>2, TookFollows
<1> HIDE DEF k, r, V, v
<1>6. Met(T, V, down) /\ PortsApart(T, V)
  <2>1. Met(T, [world EXCEPT ![p] = v], down) /\ PortsApart(T, [world EXCEPT ![p] = v])
    BY <1>1, <1>4, <1>5, WorldMet
  <2>2. QED BY <1>1, <2>1
<1>7. CASE k = 0
  BY <1>0, <1>6, <1>7 DEF MetInv, ApartInv
<1>8. CASE k # 0
  <2>1. k \in 1..Len(T) /\ T[k].id = p /\ T[k].sysAddr = p /\ T[k] \in Instance
    BY <1>1, <1>2, <1>8
  <2>2. i \in Instance /\ Marks(T[k], i) /\ i.id = p /\ i.sysAddr = p
    BY <2>1 DEF Instance, Marks
  <2>3. U = [T EXCEPT ![k] = i]
    BY <1>1, <2>1
  <2> HIDE DEF i, U
  <2>4. /\ U \in Seq(Instance) /\ Len(U) = Len(T) /\ U[k] = i /\ k \in 1..Len(U)
        /\ \A j \in 1..Len(U) : U[j].id \in 1..Len(V)
    BY <1>1, <1>3, <2>1, <2>2, <2>3
  <2>5. Met(U, V, down) /\ PortsApart(U, V)
    <3>1. Met([T EXCEPT ![k] = i], V, down) /\ PortsApart([T EXCEPT ![k] = i], V)
      BY <1>1, <1>6, <2>1, <2>2, InstanceMet
    <3>2. QED BY <2>3, <3>1
  <2>6. ~ V[p].connected
    BY <1>1, <1>5
  <2>7. CASE down
    <3>1. T' = RemoveAt(U, k) /\ world' = V
      BY <1>0, <1>8, <2>7
    <3>2. Met(RemoveAt(U, k), V, down)
      BY <1>1, <2>2, <2>4, <2>5, <2>6, RemovedMet
    <3>3. PortsApart(RemoveAt(U, k), V)
      BY <2>4, <2>5, RemovedApart
    <3>4. QED BY <1>0, <3>1, <3>2, <3>3 DEF MetInv, ApartInv
  <2>8. CASE ~ down
    <3>1. CanRedirect(U, world, k) /\ T' = RemoveAt(r.tbl, k) /\ world' = r.world
      BY <1>0, <1>8, <2>8
    <3>2. CanRedirect(U, V, k)
      BY <1>3, <3>1 DEF CanRedirect, CanGetInstance
    <3>3. down = FALSE /\ m_IsShuttingDown' = FALSE
      BY <1>0, <2>8 DEF TypeOK
    <3>4. Met(U, V, FALSE)
      BY <2>5, <3>3
    <3>5. /\ Met(r.tbl, r.world, FALSE) /\ Includes(U, r.tbl)
          /\ \A q \in 1..Len(V) : r.world[q].connected = V[q].connected
      BY <1>3, <2>4, <3>2, <3>4, RedirectMet DEF r
    <3>6. r.tbl \in Seq(Instance) /\ Len(U) <= Len(r.tbl) /\ r.world \in Seq(World)
      BY <1>3, <2>4, <3>2, RedirectType DEF r
    <3>7. k \in 1..Len(r.tbl) /\ r.tbl[k].id = p /\ r.tbl[k].sysAddr = p
      BY <2>2, <2>4, <3>5, <3>6 DEF Includes
    <3>8. ~ r.world[p].connected
      BY <1>1, <1>3, <2>6, <3>5
    <3>9. Met(RemoveAt(r.tbl, k), r.world, FALSE)
      BY <1>1, <3>5, <3>6, <3>7, <3>8, RemovedMet
    <3>10. QED BY <3>1, <3>3, <3>9 DEF MetInv
  <2>9. QED BY <2>7, <2>8
<1>9. QED BY <1>7, <1>8

\* Every packet handler of the master.
LEMMA MasterReceiveMet ==
  ASSUME TypeOK, LinkedInv, MetInv, ApartInv, NEW p \in DOMAIN world, MasterReceive(p)
  PROVE  MetInv' /\ (m_IsShuttingDown' => ApartInv')
<1>1. UNCHANGED m_IsShuttingDown
  BY DEF MasterReceive, HandleServerInfo, HandleWorldReady, HandleAffirmTransfer,
         HandlePlayerAdded, HandlePlayerRemoved, HandleShutdownResponse, HandleDisconnected,
         UnchangedByTable
<1>2. QED BY <1>1, QuietMet, ServerInfoMet, DisconnectedMet DEF MasterReceive

\* The shutdown sequence: every connected world is told to end, and the instances
\* that stay have an address.
LEMMA ShutdownMet ==
  ASSUME TypeOK, LinkedInv, MetInv, ApartInv, ShutdownSequence
  PROVE  MetInv' /\ ApartInv'
<1> DEFINE T == m_Instances
           left == Prune(T)
           told(w) == IF w.connected THEN [w EXCEPT !.in = Append(@, Msg("SHUTDOWN"))] ELSE w
           marked(i) == [i EXCEPT !.shuttingDown = TRUE]
           U == [k \in 1..Len(left) |-> marked(left[k])]
           V == [p \in 1..Len(world) |-> told(world[p])]
<1>0. /\ DOMAIN world = 1..Len(world) /\ Len(world) \in Nat /\ T \in Seq(Instance)
      /\ \A p \in 1..Len(world) : world[p] \in World
      /\ m_IsShuttingDown = FALSE /\ m_IsShuttingDown' = TRUE
      /\ \A k \in 1..Len(T) : T[k] \in Instance
  BY TypeFacts DEF TypeOK, ShutdownSequence
<1>1. Met(T, world, FALSE) /\ PortsApart(T, world)
  BY <1>0 DEF MetInv, ApartInv
<1>2. \A k \in 1..Len(T) : /\ T[k].id \in 1..Len(world) /\ T[k].id # Unassigned
                           /\ T[k].ready => T[k].sysAddr = T[k].id
  <2>1. \A k \in 1..Len(T) : k # 0
    OBVIOUS
  <2>2. \A k \in 1..Len(T) : T[k].id \in 1..Len(world) /\ Suits(T[k], world[T[k].id], m_IsShuttingDown)
    BY <2>1, Zenon DEF LinkedInv, Linked
  <2>3. \A k \in 1..Len(T) : T[k].id # Unassigned
    BY <1>0, <2>2 DEF Unassigned
  <2>4. QED BY <2>2, <2>3 DEF Suits
<1>3. /\ left \in Seq(Instance)
      /\ \A n \in 1..Len(left) : \E k \in 1..Len(T) : left[n] = T[k] /\ T[k].ready
  <2> DEFINE R == {j \in 1..Len(T) : T[j].ready}
  <2>1. /\ left \in Seq(Instance)
        /\ \A n \in 1..Len(left) : \E k \in R : left[n] = T[k]
    BY <1>0, PruneProperties
  <2>2. QED BY <2>1
<1> HIDE DEF left
<1>4. T' = U /\ world' = V
  <2>1. DOMAIN left = 1..Len(left)
    BY <1>3
  <2>2. QED BY <1>0, <2>1 DEF ShutdownSequence, left
<1>5. \A w \in World :
        LET u == told(w)
        IN  /\ u.port = w.port /\ u.running = w.running /\ u.ready = w.ready
            /\ u.connected = w.connected /\ u.out = w.out
            /\ w.connected => ToldToEnd(u)
  <2>1. SUFFICES ASSUME NEW w \in World
                 PROVE  LET u == told(w)
                        IN  /\ u.port = w.port /\ u.running = w.running /\ u.ready = w.ready
                            /\ u.connected = w.connected /\ u.out = w.out
                            /\ w.connected => ToldToEnd(u)
    OBVIOUS
  <2>2. w.in \in Seq(ToWorldMsg) /\ Len(w.in) \in Nat /\ Msg("SHUTDOWN") \in ToWorldMsg
    BY WorldFields, MsgTypes
  <2>3. CASE w.connected
    <3> DEFINE m == Msg("SHUTDOWN")
               u == [w EXCEPT !.in = Append(w.in, m)]
    <3>1. m.kind = "SHUTDOWN"
      BY DEF Msg
    <3>2. told(w) = u
      BY <2>3
    <3>3. /\ u.port = w.port /\ u.running = w.running /\ u.ready = w.ready
          /\ u.connected = w.connected /\ u.out = w.out /\ u.in = Append(w.in, m)
      BY DEF World
    <3> HIDE DEF m, u, told
    <3>4. u.in[Len(w.in) + 1] = m /\ Len(u.in) = Len(w.in) + 1
      BY <2>2, <3>3
    <3>5. Len(w.in) + 1 \in 1..Len(u.in)
      BY <2>2, <3>4
    <3>6. ToldToEnd(u)
      BY <3>1, <3>4, <3>5 DEF ToldToEnd
    <3>7. QED BY <3>2, <3>3, <3>6
  <2>4. CASE ~ w.connected
    BY <2>4
  <2>5. QED BY <2>3, <2>4
<1>6. \A i \in Instance : LET j == marked(i)
                          IN  j.id = i.id /\ j.port = i.port /\ j.sysAddr = i.sysAddr
  BY DEF Instance
<1>7. /\ Len(U) = Len(left) /\ \A n \in 1..Len(left) : U[n] = marked(left[n])
      /\ Len(V) = Len(world) /\ \A p \in 1..Len(world) : V[p] = told(world[p])
  <2> HIDE DEF told, marked
  <2>1. Len(left) \in Nat
    BY <1>3
  <2>2. QED BY <1>0, <2>1
<1> HIDE DEF told, marked, U, V
<1>8. \A n \in 1..Len(U) : \E k \in 1..Len(T) :
        /\ U[n].id = T[k].id /\ U[n].port = T[k].port /\ U[n].sysAddr = T[k].sysAddr
        /\ T[k].ready
  <2>1. SUFFICES ASSUME NEW n \in 1..Len(left)
                 PROVE  \E k \in 1..Len(T) :
                          /\ U[n].id = T[k].id /\ U[n].port = T[k].port
                          /\ U[n].sysAddr = T[k].sysAddr /\ T[k].ready
    BY <1>7
  <2>2. PICK k \in 1..Len(T) : left[n] = T[k] /\ T[k].ready
    BY <1>3
  <2>3. U[n] = marked(T[k]) /\ T[k] \in Instance
    BY <1>0, <1>7, <2>2
  <2>4. QED BY <1>6, <2>2, <2>3
<1>9. \A p \in 1..Len(world) :
        /\ V[p].port = world[p].port /\ V[p].connected = world[p].connected
        /\ Lasts(V[p]) /\ (Fresh(V[p]) <=> Fresh(world[p]))
        /\ V[p].connected => ToldToEnd(V[p])
  <2>1. SUFFICES ASSUME NEW p \in 1..Len(world)
                 PROVE  /\ V[p].port = world[p].port /\ V[p].connected = world[p].connected
                        /\ Lasts(V[p]) /\ (Fresh(V[p]) <=> Fresh(world[p]))
                        /\ V[p].connected => ToldToEnd(V[p])
    OBVIOUS
  <2> DEFINE w == world[p]
             u == V[p]
  <2>2. /\ u.port = w.port /\ u.running = w.running /\ u.ready = w.ready
        /\ u.connected = w.connected /\ u.out = w.out
        /\ w.connected => ToldToEnd(u)
    BY <1>0, <1>5, <1>7
  <2>3. Lasts(w)
    BY <1>1 DEF Met
  <2> HIDE DEF u, w
  <2>4. Lasts(u) /\ (Fresh(u) <=> Fresh(w))
    BY <2>2, <2>3 DEF Lasts, Fresh
  <2>5. QED BY <2>2, <2>4 DEF u, w
<1>10. \A n \in 1..Len(U) : U[n].sysAddr # Unassigned /\ ~ Fresh(V[U[n].id])
  <2>1. SUFFICES ASSUME NEW n \in 1..Len(U)
                 PROVE  U[n].sysAddr # Unassigned /\ ~ Fresh(V[U[n].id])
    OBVIOUS
  <2>2. PICK k \in 1..Len(T) : /\ U[n].id = T[k].id /\ U[n].sysAddr = T[k].sysAddr
                               /\ T[k].ready
    BY <1>8
  <2>3. /\ T[k].sysAddr # Unassigned /\ T[k].id \in 1..Len(world)
    BY <1>2, <2>2
  <2>4. ~ Fresh(world[T[k].id])
    BY <1>1, <2>3 DEF Met
  <2>5. QED BY <1>9, <2>2, <2>3, <2>4
<1>11. Met(U, V, TRUE)
  BY <1>7, <1>9, <1>10 DEF Met
<1>12. PortsApart(U, V)
  <2>1. PortsApart(T, V)
    BY <1>1, <1>7, <1>9 DEF PortsApart
  <2>2. \A n \in 1..Len(U) : \E k \in 1..Len(T) : U[n].id = T[k].id /\ U[n].port = T[k].port
    BY <1>8
  <2>3. QED BY <2>1, <2>2, FewerApart
<1>13. QED BY <1>0, <1>4, <1>11, <1>12 DEF MetInv, ApartInv

\* The timer of an instance that has not affirmed in time.
LEMMA TimeoutMet ==
  ASSUME TypeOK, LinkedInv, MetInv, NEW k \in DOMAIN m_Instances, AffirmationTimeout(k)
  PROVE  MetInv'
<1> DEFINE T == m_Instances
           i == [T[k] EXCEPT !.shuttingDown = TRUE, !.affirmTimedOut = TRUE]
           U == [T EXCEPT ![k].shuttingDown = TRUE, ![k].affirmTimedOut = TRUE]
           W == SendToWorld(world, U[k].sysAddr, <<Msg("SHUTDOWN")>>)
<1>0. /\ k \in 1..Len(T) /\ T[k] \in Instance /\ T \in Seq(Instance)
      /\ world \in Seq(World) /\ Len(world) <= MaxWorlds
      /\ m_IsShuttingDown = FALSE /\ m_IsShuttingDown' = FALSE
      /\ T[k].pendingAffirmations # <<>>
  BY TypeFacts DEF TypeOK, AffirmationTimeout
<1>1. /\ Met(T, world, FALSE) /\ T[k].sysAddr # Unassigned
      /\ \A j \in 1..Len(T) : T[j].id \in 1..Len(world)
  <2>1. \A j \in 1..Len(T) : j # 0
    OBVIOUS
  <2>2. \A j \in 1..Len(T) : T[j].id \in 1..Len(world) /\ Suits(T[j], world[T[j].id], m_IsShuttingDown)
    BY <2>1, Zenon DEF LinkedInv, Linked
  <2>3. T[k].sysAddr = T[k].id
    BY <1>0, <2>2 DEF Suits
  <2>4. T[k].sysAddr # Unassigned
    BY <1>0, <2>2, <2>3 DEF Unassigned
  <2>5. Met(T, world, FALSE)
    BY <1>0 DEF MetInv
  <2>6. QED BY <2>2, <2>4, <2>5
<1>2. i \in Instance /\ Marks(T[k], i) /\ i.id = T[k].id
  BY <1>0, <1>1 DEF Instance, Marks
<1>3. U = [T EXCEPT ![k] = i]
  BY <1>0
<1>4. /\ CanRedirect(U, W, k)
      /\ T' = Redirect(U, W, k).tbl /\ world' = Redirect(U, W, k).world
  BY DEF AffirmationTimeout
<1> HIDE DEF i, U
<1>5. /\ U \in Seq(Instance) /\ Len(U) = Len(T) /\ U[k] = i /\ k \in 1..Len(U)
      /\ \A j \in 1..Len(U) : U[j].id \in 1..Len(world)
  BY <1>0, <1>1, <1>2, <1>3
<1>6. Met(U, world, FALSE)
  <2>1. Met([T EXCEPT ![k] = i], world, FALSE)
    BY <1>0, <1>1, <1>2, InstanceMet
  <2>2. QED BY <1>3, <2>1
<1>7. Met(U, W, FALSE) /\ W \in Seq(World) /\ Len(W) = Len(world)
  <2>1. <<Msg("SHUTDOWN")>> \in Seq(ToWorldMsg)
    BY MsgTypes
  <2>2. U[k].sysAddr \in WorldIds \cup {Unassigned}
    BY <1>2, <1>5 DEF Instance
  <2>3. QED BY <1>0, <1>6, <2>1, <2>2, SendMet, SendToWorldType
<1> HIDE DEF W
<1>8. Met(Redirect(U, W, k).tbl, Redirect(U, W, k).world, FALSE)
  BY <1>0, <1>4, <1>5, <1>7, RedirectMet
<1>9. QED BY <1>0, <1>4, <1>8 DEF MetInv

\* Requests of the servers, commands, the timer and the shutdown sequence.
LEMMA MasterMet ==
  ASSUME TypeOK, LinkedInv, MetInv, ApartInv,
         \/ \E s \in Servers : ServerStep(s)
         \/ Command
         \/ \E k \in DOMAIN m_Instances : AffirmationTimeout(k)
         \/ ShutdownSequence
  PROVE  MetInv' /\ (m_IsShuttingDown' => ApartInv')
<1>0. /\ m_Instances \in Seq(Instance) /\ world \in Seq(World) /\ Len(world) <= MaxWorlds
      /\ Met(m_Instances, world, m_IsShuttingDown) /\ PortsApart(m_Instances, world)
      /\ \A j \in 1..Len(m_Instances) : m_Instances[j].id \in 1..Len(world)
  BY DEF TypeOK, LinkedInv, Linked, MetInv, ApartInv
<1>1. CASE UNCHANGED <<m_Instances, world, m_IsShuttingDown>>
  BY <1>0, <1>1 DEF MetInv, ApartInv
<1>2. ASSUME NEW s \in Servers, NEW zone \in Zones, RequestZoneTransfer(s, zone)
      PROVE  MetInv' /\ (m_IsShuttingDown' => ApartInv')
  <2>1. UNCHANGED m_IsShuttingDown
    BY <1>2 DEF RequestZoneTransfer
  <2>2. CASE m_IsShuttingDown
    BY <1>1, <1>2, <2>1, <2>2 DEF RequestZoneTransfer
  <2>3. CASE ~ m_IsShuttingDown
    <3> DEFINE rs == <<NextRequest(s)>>
               r  == Route(m_Instances, world, zone, rs)
    <3>1. /\ CanGetInstance(m_Instances, world, zone)
          /\ m_Instances' = r.tbl /\ world' = r.world
      BY <1>2, <2>3 DEF RequestZoneTransfer
    <3>2. rs \in Seq(Pending)
      <4>1. Len(asked[s]) + 1 \in 1..MaxRequests
        <5>1. Len(asked[s]) \in Nat /\ Len(asked[s]) < MaxRequests
          BY <1>2 DEF TypeOK, RequestZoneTransfer, Ask
        <5>2. QED BY <5>1, ConstantsAssumption
      <4>2. NextRequest(s) \in Pending
        BY <4>1 DEF NextRequest, Pending
      <4>3. QED BY <4>2
    <3>3. m_IsShuttingDown = FALSE
      BY <2>3 DEF TypeOK
    <3> HIDE DEF rs
    <3>4. Met(r.tbl, r.world, FALSE)
      BY <1>0, <3>1, <3>2, <3>3, RouteMet
    <3>5. QED BY <2>1, <3>1, <3>3, <3>4 DEF MetInv
  <2>4. QED BY <2>2, <2>3
<1>3. ASSUME NEW s \in Servers,
             HandleZoneTransferResponse(s) \/ \E pw \in Passwords : RequestPrivateZone(s, pw)
      PROVE  MetInv' /\ (m_IsShuttingDown' => ApartInv')
  BY <1>1, <1>3 DEF HandleZoneTransferResponse, RequestPrivateZone, masterVars
<1>4. ASSUME NEW zone \in Zones, PrepZone(zone)
      PROVE  MetInv' /\ (m_IsShuttingDown' => ApartInv')
  <2> DEFINE g == GetInstance(m_Instances, world, zone)
  <2>1. /\ CanGetInstance(m_Instances, world, zone)
        /\ m_Instances' = g.tbl /\ world' = g.world
        /\ m_IsShuttingDown = FALSE /\ m_IsShuttingDown' = FALSE
    BY <1>4 DEF PrepZone, TypeOK
  <2>2. Met(g.tbl, g.world, FALSE)
    BY <1>0, <2>1, GetInstanceMet
  <2>3. QED BY <2>1, <2>2 DEF MetInv
<1>5. ASSUME NEW zone \in Zones, NEW pw \in Passwords, CreatePrivateZone(zone, pw)
      PROVE  MetInv' /\ (m_IsShuttingDown' => ApartInv')
  <2>0. m_IsShuttingDown = FALSE /\ m_IsShuttingDown' = FALSE
    BY <1>5 DEF CreatePrivateZone, TypeOK
  <2>1. CASE FindPrivateInstance(m_Instances, pw) # 0
    BY <1>1, <1>5, <2>0, <2>1 DEF CreatePrivateZone
  <2>2. CASE FindPrivateInstance(m_Instances, pw) = 0
    <3> DEFINE port == GetFreePort(m_Instances)
               i == NewInstance(zone, Len(world) + 1, port, PrivateCap, pw, Unassigned)
    <3>1. /\ m_Instances' = Append(m_Instances, i)
          /\ world' = StartWorldServer(world, zone, port)
      BY <1>5, <2>2 DEF CreatePrivateZone
    <3>2. port \in Nat /\ PrivateCap \in Nat
      BY <1>0, GetFreePortType DEF PrivateCap
    <3> HIDE DEF port
    <3>3. Met(Append(m_Instances, i), StartWorldServer(world, zone, port), m_IsShuttingDown)
      BY <1>0, <3>2, StartedMet
    <3>4. QED BY <2>0, <3>1, <3>3 DEF MetInv
  <2>3. QED BY <2>1, <2>2
<1>6. ASSUME NEW map, NEW id, ShutdownInstance(map, id)
      PROVE  MetInv' /\ (m_IsShuttingDown' => ApartInv')
  <2> DEFINE addr == m_Instances[FindPublicInstance(m_Instances, map, id)].sysAddr
             ms == <<Msg("SHUTDOWN")>>
  <2>1. /\ world' = SendToWorld(world, addr, ms)
        /\ UNCHANGED <<m_Instances, m_IsShuttingDown>>
    BY <1>6 DEF ShutdownInstance, masterVars
  <2>2. ms \in Seq(ToWorldMsg)
    BY MsgTypes
  <2> HIDE DEF addr, ms
  <2>3. /\ Met(m_Instances, SendToWorld(world, addr, ms), m_IsShuttingDown)
        /\ PortsApart(m_Instances, SendToWorld(world, addr, ms))
    BY <1>0, <2>2, SendMet
  <2>4. QED BY <2>1, <2>3 DEF MetInv, ApartInv
<1>7. ASSUME NEW k \in DOMAIN m_Instances, AffirmationTimeout(k)
      PROVE  MetInv' /\ (m_IsShuttingDown' => ApartInv')
  <2>1. ~ m_IsShuttingDown'
    BY <1>7 DEF AffirmationTimeout
  <2>2. QED BY <1>7, <2>1, TimeoutMet
<1>8. QED
  BY <1>2, <1>3, <1>4, <1>5, <1>6, <1>7, ShutdownMet DEF ServerStep, Command

\* Every step.  While the master is up the ports follow from the table.
LEMMA MetStep ==
  ConnectionsLast /\ TypeOK /\ TypeOK' /\ PortsInv' /\ LinkedInv /\ LinkedInv' /\ MetInv /\ ApartInv
    /\ [Next]_vars => MetInv' /\ ApartInv'
<1>1. SUFFICES ASSUME ConnectionsLast, TypeOK, TypeOK', PortsInv', LinkedInv, LinkedInv', MetInv, ApartInv,
                      [Next]_vars
               PROVE  MetInv' /\ ApartInv'
  OBVIOUS
<1>2. MetInv' /\ (m_IsShuttingDown' => ApartInv')
  <2>1. CASE \E p \in DOMAIN world : WorldStep(p) \/ MasterReceive(p)
    BY <1>1, <2>1, WorldStepMet, MasterReceiveMet
  <2>2. CASE UNCHANGED vars
    BY <1>1, <2>2 DEF MetInv, ApartInv, vars, masterVars
  <2>3. QED BY <1>1, <2>1, <2>2, MasterMet DEF Next
<1>3. ASSUME ~ m_IsShuttingDown' PROVE ApartInv'
  <2>1. PICK T : T = m_Instances'
    OBVIOUS
  <2>2. PICK W : W = world'
    OBVIOUS
  <2>3. PICK d : d = m_IsShuttingDown'
    OBVIOUS
  <2>4. Linked(T, W, d, 0) /\ Met(T, W, d) /\ ~ d
    BY <1>1, <1>2, <1>3, <2>1, <2>2, <2>3 DEF LinkedInv, MetInv
  <2>5. Distinct(T)
    BY <1>1, <2>1 DEF PortsInv
  <2>6. d = FALSE
    <3>1. d \in BOOLEAN
      BY <1>1, <2>3 DEF TypeOK
    <3>2. QED BY <2>4, <3>1
  <2>7. PortsApart(T, W)
    BY <2>4, <2>5, <2>6, PortsApartWhileUp
  <2>8. QED BY <2>1, <2>2, <2>7 DEF ApartInv
<1>4. QED BY <1>2, <1>3

\* Before the master has heard of anything.
LEMMA InitMet == Init => MetInv /\ ApartInv
<1>1. SUFFICES ASSUME Init PROVE MetInv /\ ApartInv
  OBVIOUS
<1>2. m_Instances = <<>> /\ world = <<>>
  BY <1>1 DEF Init
<1>3. Len(m_Instances) = 0 /\ Len(world) = 0
  BY <1>2
<1>4. QED BY <1>3 DEF MetInv, ApartInv, Met, PortsApart

\* A world that is connected and has nothing in flight is in the table under its
\* own id and address (ConnectedWorldsAreKnown), whatever processes die and while
\* the master shuts down, as long as no connection is lost: a world that connects
\* again is not always found.
THEOREM ConnectedWorldsStayKnown ==
  ASSUME ConnectionsLast
  PROVE  Spec => []ConnectedWorldsAreKnown
<1>1. TypeOK /\ MetInv => ConnectedWorldsAreKnown
  <2>1. SUFFICES ASSUME TypeOK, MetInv, NEW p \in DOMAIN world, world[p].connected,
                        world[p].in = <<>>, world[p].out = <<>>
                 PROVE  \E k \in DOMAIN m_Instances :
                          m_Instances[k].id = p /\ m_Instances[k].sysAddr = p
    BY DEF ConnectedWorldsAreKnown
  <2>2. p \in 1..Len(world) /\ DOMAIN m_Instances = 1..Len(m_Instances)
    BY <2>1, TypeFacts
  <2>3. ~ Introduces(world[p].out) /\ ~ ToldToEnd(world[p])
    <3>1. Len(world[p].out) = 0 /\ Len(world[p].in) = 0
      BY <2>1
    <3>2. QED BY <3>1 DEF Introduces, ToldToEnd
  <2>4. QED BY <2>1, <2>2, <2>3 DEF MetInv, Met
<1>2. ConnectionsLast /\ TypeOK /\ TypeOK' /\ PortsInv' /\ LinkedInv /\ LinkedInv' /\ MetInv /\ ApartInv
        /\ [Next]_vars => MetInv' /\ ApartInv'
  BY MetStep
<1>3. QED BY <1>1, <1>2, InitMet, InitLinks, LinkedStep, InitPorts, PortsStep, TypeCorrect, PTL
       DEF Spec
=============================================================================
