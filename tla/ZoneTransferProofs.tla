------------------------ MODULE ZoneTransferProofs -------------------------
(***************************************************************************)
(* Proofs about the zone transfer protocol, for every value of the         *)
(* constants: TypeOK is inductive, and no port is given out twice.  One    *)
(* lemma per operator of the model says what the operator returns; one per *)
(* group of actions says that it keeps the types.  ZoneTransferWire goes   *)
(* on from here.                                                           *)
(***************************************************************************)
EXTENDS ZoneTransfer, SequenceLemmas, FiniteSetTheorems

\* FindInstance by zone returns nothing or an instance that can be joined.
LEMMA FindJoinableFinds ==
  ASSUME NEW T \in Seq(Instance), NEW zone
  PROVE  LET k == FindJoinable(T, zone)
         IN  k \in 0..Len(T) /\ (k # 0 => Joinable(T[k], zone))
<1> DEFINE I == {k \in 1..Len(T) : Joinable(T[k], zone)}
<1>1. FindJoinable(T, zone) = IF I # {} THEN Min(I) ELSE 0
  BY DEF FindJoinable, SelectInSeq
<1>2. I # {} => Min(I) \in I
  <2>1. I \in SUBSET (1..Len(T)) /\ Len(T) \in Nat
    OBVIOUS
  <2> HIDE DEF I
  <2>2. QED BY <2>1, MinIsMember
<1>3. QED BY <1>1, <1>2

\* FindInstanceWithPrivate returns nothing or an instance with this map and id.
LEMMA FindInstanceWithPrivateFinds ==
  ASSUME NEW T \in Seq(Instance), NEW map, NEW id
  PROVE  LET k == FindInstanceWithPrivate(T, map, id)
         IN  /\ k \in 0..Len(T)
             /\ k # 0 => T[k].id = id /\ ~ T[k].shuttingDown
             /\ k = 0 => \A j \in 1..Len(T) : T[j].zone.map = map /\ T[j].id = id
                           => T[j].shutdownComplete \/ T[j].shuttingDown
<1> DEFINE I == {k \in 1..Len(T) : T[k].zone.map = map /\ T[k].id = id
                                   /\ ~ T[k].shutdownComplete /\ ~ T[k].shuttingDown}
<1>1. FindInstanceWithPrivate(T, map, id) = IF I # {} THEN Min(I) ELSE 0
  BY DEF FindInstanceWithPrivate, SelectInSeq
<1>2. I # {} => Min(I) \in I
  <2>1. I \in SUBSET (1..Len(T)) /\ Len(T) \in Nat
    OBVIOUS
  <2> HIDE DEF I
  <2>2. QED BY <2>1, MinIsMember
<1>3. CASE I # {}
  <2>1. Min(I) \in 1..Len(T) /\ T[Min(I)].id = id /\ ~ T[Min(I)].shuttingDown
    BY <1>2, <1>3
  <2>2. FindInstanceWithPrivate(T, map, id) = Min(I)
    BY <1>1, <1>3
  <2> HIDE DEF I
  <2>3. Min(I) \in 0..Len(T) /\ Min(I) # 0
    BY <2>1
  <2>4. QED BY <2>1, <2>2, <2>3
<1>4. CASE I = {}
  <2>1. FindInstanceWithPrivate(T, map, id) = 0
    BY <1>1, <1>4
  <2>2. \A j \in 1..Len(T) : T[j].zone.map = map /\ T[j].id = id
                             => T[j].shutdownComplete \/ T[j].shuttingDown
    BY <1>4
  <2> HIDE DEF I
  <2>3. 0 \in 0..Len(T)
    OBVIOUS
  <2>4. QED BY <2>1, <2>2, <2>3
<1>5. QED BY <1>3, <1>4

\* A new instance is an Instance.
LEMMA NewInstanceType ==
  ASSUME NEW zone \in Zones, NEW id \in WorldIds, NEW port \in Nat, NEW cap \in Nat,
         NEW pw \in Passwords \cup {NoPassword}, NEW addr \in WorldIds \cup {Unassigned}
  PROVE  NewInstance(zone, id, port, cap, pw, addr) \in Instance
BY DEF NewInstance, Instance

\* Starting a process adds one World.
LEMMA StartWorldServerType ==
  ASSUME NEW W \in Seq(World), NEW zone \in Zones, NEW port \in Nat
  PROVE  /\ StartWorldServer(W, zone, port) \in Seq(World)
         /\ Len(StartWorldServer(W, zone, port)) = Len(W) + 1
BY DEF StartWorldServer, World

\* A send of the master leaves the processes as many as they were.
LEMMA SendToWorldType ==
  ASSUME NEW W \in Seq(World), NEW addr \in WorldIds \cup {Unassigned},
         NEW ms \in Seq(ToWorldMsg)
  PROVE  /\ SendToWorld(W, addr, ms) \in Seq(World)
         /\ Len(SendToWorld(W, addr, ms)) = Len(W)
<1>1. CASE addr \in 1..Len(W)
  <2>1. W[addr] \in World
    BY <1>1
  <2>2. W[addr].in \o ms \in Seq(ToWorldMsg)
    BY <2>1 DEF World
  <2>3. [W[addr] EXCEPT !.in = W[addr].in \o ms] \in World
    BY <2>1, <2>2 DEF World
  <2>4. [W EXCEPT ![addr] = [W[addr] EXCEPT !.in = W[addr].in \o ms]] \in Seq(World)
    BY <1>1, <2>3
  <2>a. Len([W EXCEPT ![addr] = [W[addr] EXCEPT !.in = W[addr].in \o ms]]) = Len(W)
    BY <1>1, <2>3
  <2>5. [W EXCEPT ![addr].in = @ \o ms] = [W EXCEPT ![addr] = [W[addr] EXCEPT !.in = W[addr].in \o ms]]
    OBVIOUS
  <2>6. QED BY <2>4, <2>a, <2>5 DEF SendToWorld
<1>2. CASE addr \notin 1..Len(W)
  BY <1>2 DEF SendToWorld
<1>3. QED BY <1>1, <1>2

\* A send of a world leaves it a World.
LEMMA SendToMasterType ==
  ASSUME NEW w \in World, NEW m \in ToMasterMsg
  PROVE  SendToMaster(w, m) \in World
<1>1. Append(w.out, m) \in Seq(ToMasterMsg)
  BY DEF World
<1>2. [w EXCEPT !.out = Append(w.out, m)] \in World
  BY <1>1 DEF World
<1>3. QED BY <1>2 DEF SendToMaster

\* The packets the two sides send are of their types.
LEMMA MsgTypes ==
  /\ \A kind \in {"SERVER_INFO", "WORLD_READY", "PLAYER_ADDED", "PLAYER_REMOVED",
                  "SHUTDOWN_RESPONSE", "DISCONNECTED", "CONNECTION_LOST"} :
       Msg(kind) \in ToMasterMsg
  /\ \A id \in 1..MaxRequests : IdMsg("AFFIRM_TRANSFER_RESPONSE", id) \in ToMasterMsg
  /\ Msg("SHUTDOWN") \in ToWorldMsg
  /\ \A id \in 1..MaxRequests : IdMsg("AFFIRM_TRANSFER_REQUEST", id) \in ToWorldMsg
BY DEF Msg, IdMsg, ToMasterMsg, ToWorldMsg

\* A connected world is a World.
LEMMA AttachedType ==
  ASSUME NEW w \in World PROVE Attached(w) \in World
<1> DEFINE ms == w.out \o <<Msg("SERVER_INFO")>>
                 \o (IF w.ready THEN <<>> ELSE <<Msg("WORLD_READY")>>)
<1>1. <<Msg("SERVER_INFO")>> \in Seq(ToMasterMsg) /\ <<Msg("WORLD_READY")>> \in Seq(ToMasterMsg)
      /\ <<>> \in Seq(ToMasterMsg)
  BY MsgTypes
<1>2. w.out \in Seq(ToMasterMsg)
  BY DEF World
<1>3. ms \in Seq(ToMasterMsg)
  BY <1>1, <1>2
<1>4. Attached(w) = [w EXCEPT !.connected = TRUE, !.ready = TRUE, !.out = ms]
  BY DEF Attached
<1> HIDE DEF ms
<1>5. QED BY <1>3, <1>4 DEF World

\* A world a player has entered is a World.
LEMMA PlayerInType ==
  ASSUME NEW w \in World PROVE PlayerIn(w) \in World
<1> DEFINE u == SendToMaster(w, Msg("PLAYER_ADDED"))
<1>1. u \in World
  BY SendToMasterType, MsgTypes
<1>2. w.players + 1 \in Nat
  BY DEF World
<1>3. PlayerIn(w) = [u EXCEPT !.players = w.players + 1]
  BY DEF PlayerIn
<1> HIDE DEF u
<1>4. QED BY <1>1, <1>2, <1>3 DEF World

\* A world a player has left is a World, provided it had a player.
LEMMA PlayerOutType ==
  ASSUME NEW w \in World, w.players > 0 PROVE PlayerOut(w) \in World
<1> DEFINE u == SendToMaster(w, Msg("PLAYER_REMOVED"))
<1>1. u \in World
  BY SendToMasterType, MsgTypes
<1>2. w.players - 1 \in Nat
  BY DEF World
<1>3. PlayerOut(w) = [u EXCEPT !.players = w.players - 1]
  BY DEF PlayerOut
<1> HIDE DEF u
<1>4. QED BY <1>1, <1>2, <1>3 DEF World

\* A world that has exited is a World.
LEMMA ExitedType ==
  ASSUME NEW w \in World PROVE Exited(w) \in World
<1> DEFINE v == SendToMaster(SendToMaster(w, Msg("SHUTDOWN_RESPONSE")), Msg("DISCONNECTED"))
<1>1. v \in World
  BY SendToMasterType, MsgTypes
<1> HIDE DEF v
<1>0. <<>> \in Seq(ToWorldMsg)
  OBVIOUS
<1>2. [v EXCEPT !.running = FALSE, !.connected = FALSE, !.players = 0, !.in = <<>>] \in World
  BY <1>0, <1>1 DEF World
<1>3. QED BY <1>2 DEF Exited, v

\* A world whose connection broke is a World.
LEMMA DroppedType ==
  ASSUME NEW w \in World, NEW n \in 0..Len(w.out) PROVE Dropped(w, n) \in World
<1>1. SubSeq(w.out, 1, n) \in Seq(ToMasterMsg)
  BY DEF World
<1>2. Append(SubSeq(w.out, 1, n), Msg("CONNECTION_LOST")) \in Seq(ToMasterMsg)
  BY <1>1, MsgTypes
<1>0. <<>> \in Seq(ToWorldMsg)
  OBVIOUS
<1>3. QED BY <1>0, <1>2 DEF Dropped, World

\* GetFreePort returns a natural number.
LEMMA GetFreePortType ==
  ASSUME NEW T \in Seq(Instance) PROVE GetFreePort(T) \in Nat
<1> DEFINE G == {n \in 0..(Len(T) - 1) :
                   \A m \in 0..n : SortedAt(T, m, PortStart + PortStep * m)}
<1>1. IsFiniteSet(0..(Len(T) - 1)) /\ G \subseteq 0..(Len(T) - 1)
  BY FS_Interval
<1>a. IsFiniteSet(G)
  <2> HIDE DEF G
  <2> QED BY <1>1, FS_Subset
<1>2. Cardinality(G) \in Nat
  BY <1>a, FS_CardinalityType
<1>3. QED BY <1>2, ConstantsAssumption DEF GetFreePort, PortIdx, PortStep

\* GetInstance returns an instance of the table, which only grows.
LEMMA GetInstanceType ==
  ASSUME NEW T \in Seq(Instance), NEW W \in Seq(World), Len(W) <= MaxWorlds,
         NEW zone \in Zones, CanGetInstance(T, W, zone)
  PROVE  LET g == GetInstance(T, W, zone)
         IN  /\ g.tbl \in Seq(Instance) /\ g.at \in 1..Len(g.tbl) /\ Len(T) <= Len(g.tbl)
             /\ g.world \in Seq(World)
             /\ Len(W) <= Len(g.world) /\ Len(g.world) <= MaxWorlds
<1> DEFINE j == FindJoinable(T, zone)
           port == GetFreePort(T)
           new == NewInstance(zone, Len(W) + 1, port, SoftCap[zone], NoPassword, Unassigned)
<1>1. j \in 0..Len(T)
  BY FindJoinableFinds
<1>2. CASE j # 0
  BY <1>1, <1>2 DEF GetInstance
<1>3. CASE j = 0
  <2>1. Len(W) + 1 \in WorldIds
    BY <1>3, ConstantsAssumption DEF CanGetInstance, WorldIds
  <2>2. port \in Nat /\ SoftCap[zone] \in Nat
    BY GetFreePortType, ConstantsAssumption
  <2>3. new \in Instance
    BY <2>1, <2>2, NewInstanceType
  <2>4. /\ StartWorldServer(W, zone, port) \in Seq(World)
        /\ Len(StartWorldServer(W, zone, port)) = Len(W) + 1
    BY <2>2, StartWorldServerType
  <2>5. GetInstance(T, W, zone) = [tbl |-> Append(T, new),
                                   world |-> StartWorldServer(W, zone, port),
                                   at |-> Len(T) + 1]
    BY <1>3 DEF GetInstance
  <2> HIDE DEF new, port
  <2>6. QED BY <2>1, <2>3, <2>4, <2>5 DEF WorldIds
<1>4. QED BY <1>2, <1>3

\* Parking requests on an instance keeps the type of the table.
LEMMA ParkedType ==
  ASSUME NEW T \in Seq(Instance), NEW k \in 1..Len(T), NEW rs \in Seq(Pending)
  PROVE  /\ Pend(T, k, rs) \in Seq(Instance) /\ Len(Pend(T, k, rs)) = Len(T)
         /\ Affirm(T, k, rs) \in Seq(Instance) /\ Len(Affirm(T, k, rs)) = Len(T)
<1>1. T[k] \in Instance
  OBVIOUS
<1>2. /\ T[k].pendingAffirmations \o rs \in Seq(Pending)
      /\ T[k].pendingRequests \o rs \in Seq(Pending)
  BY SMTT(60), <1>1 DEF Instance
<1>3. /\ [T[k] EXCEPT !.pendingAffirmations = @ \o rs] \in Instance
      /\ [T[k] EXCEPT !.pendingRequests = @ \o rs] \in Instance
  BY <1>1, <1>2 DEF Instance
<1>4. QED BY <1>3, UpdateType DEF Pend, Affirm

\* Routing requests keeps the types of the table and of the processes.
LEMMA RouteType ==
  ASSUME NEW T \in Seq(Instance), NEW W \in Seq(World), Len(W) <= MaxWorlds,
         NEW zone \in Zones, CanGetInstance(T, W, zone), NEW rs \in Seq(Pending)
  PROVE  LET r == Route(T, W, zone, rs)
         IN  /\ r.tbl \in Seq(Instance) /\ Len(T) <= Len(r.tbl)
             /\ r.world \in Seq(World) /\ Len(r.world) <= MaxWorlds
<1> DEFINE g    == GetInstance(T, W, zone)
           asks == [n \in DOMAIN rs |-> IdMsg("AFFIRM_TRANSFER_REQUEST", rs[n].id)]
<1>1. /\ g.tbl \in Seq(Instance) /\ g.at \in 1..Len(g.tbl) /\ Len(T) <= Len(g.tbl)
      /\ g.world \in Seq(World) /\ Len(g.world) <= MaxWorlds
  BY GetInstanceType
<1>2. asks \in Seq(ToWorldMsg)
  <2>1. \A n \in 1..Len(rs) : rs[n].id \in 1..MaxRequests
    <3> TAKE n \in 1..Len(rs)
    <3>1. rs[n] \in Pending
      OBVIOUS
    <3>2. QED BY <3>1 DEF Pending
  <2>2. \A n \in 1..Len(rs) : IdMsg("AFFIRM_TRANSFER_REQUEST", rs[n].id) \in ToWorldMsg
    BY <2>1, MsgTypes
  <2>3. QED BY <2>2
<1>3. g.tbl[g.at].sysAddr \in WorldIds \cup {Unassigned}
  <2>1. g.tbl[g.at] \in Instance
    <3> HIDE DEF g
    <3> QED BY <1>1
  <2>2. QED BY <2>1 DEF Instance
<1> HIDE DEF g, asks
<1>4. LET S == SendToWorld(g.world, g.tbl[g.at].sysAddr, asks)
      IN  S \in Seq(World) /\ Len(S) <= MaxWorlds
  BY <1>1, <1>2, <1>3, SendToWorldType
<1>5. Route(T, W, zone, rs) =
        IF g.tbl[g.at].ready
        THEN [tbl   |-> Affirm(g.tbl, g.at, rs),
              world |-> SendToWorld(g.world, g.tbl[g.at].sysAddr, asks)]
        ELSE [tbl |-> Pend(g.tbl, g.at, rs), world |-> g.world]
  BY DEF Route, g, asks
<1>6. QED BY <1>1, <1>4, <1>5, ParkedType

\* Redirecting the affirmations of an instance keeps the types.
LEMMA RedirectType ==
  ASSUME NEW T \in Seq(Instance), NEW W \in Seq(World), Len(W) <= MaxWorlds,
         NEW k \in 1..Len(T), CanRedirect(T, W, k)
  PROVE  LET r == Redirect(T, W, k)
         IN  /\ r.tbl \in Seq(Instance) /\ Len(T) <= Len(r.tbl)
             /\ r.world \in Seq(World) /\ Len(r.world) <= MaxWorlds
<1>1. T[k].zone \in Zones /\ T[k].pendingAffirmations \in Seq(Pending)
  <2>1. T[k] \in Instance
    OBVIOUS
  <2>2. QED BY <2>1 DEF Instance
<1>2. QED BY <1>1, RouteType DEF Redirect, CanRedirect

\* The answers to a list of requests are Answers.
LEMMA RespondType ==
  ASSUME NEW Q \in Seq(Answer), NEW rs \in Seq(Pending), NEW i \in Instance
  PROVE  Respond(Q, rs, i) \in Seq(Answer)
<1>1. \A n \in 1..Len(rs) : AnswerTo(rs[n], i) \in Answer
  <2> TAKE n \in 1..Len(rs)
  <2>1. rs[n] \in Pending OBVIOUS
  <2>2. QED BY <2>1 DEF AnswerTo, Answer, Pending, Instance
<1>2. [n \in DOMAIN rs |-> AnswerTo(rs[n], i)] \in Seq(Answer)
  BY <1>1
<1>3. QED BY <1>2 DEF Respond

\* A finite set of naturals has an n-th element for every n up to its size.
LEMMA NthExists ==
  ASSUME NEW L \in Nat, NEW R \in SUBSET (1..L), NEW n \in 1..Cardinality(R)
  PROVE  \E k \in R : Cardinality(Upto(R, k)) = n
<1> DEFINE S == {k \in 0..L : Cardinality(Upto(R, k)) >= n}
<1>1. /\ IsFiniteSet(R) /\ Cardinality(R) \in Nat
      /\ \A k \in 0..L : IsFiniteSet(Upto(R, k)) /\ Cardinality(Upto(R, k)) \in Nat
  <2>1. IsFiniteSet(1..L)
    BY FS_Interval
  <2>2. IsFiniteSet(R)
    BY <2>1, FS_Subset
  <2>3. \A k \in 0..L : Upto(R, k) \in SUBSET R
    BY DEF Upto
  <2>4. \A k \in 0..L : IsFiniteSet(Upto(R, k))
    BY <2>2, <2>3, FS_Subset
  <2>5. QED BY <2>2, <2>4, FS_CardinalityType
<1>2. S \in SUBSET Nat /\ L \in S
  <2>1. \A j \in R : j <= L
    OBVIOUS
  <2>a. Upto(R, L) = R
    BY <2>1, Zenon DEF Upto
  <2>2. QED BY <1>1, <2>a
<1>3. PICK k \in S : \A y \in S : k <= y
  <2> HIDE DEF S
  <2> QED BY <1>2, LeastExists
<1>4. k \in 0..L /\ Cardinality(Upto(R, k)) >= n
  BY <1>3
<1>5. k # 0
  <2>0. \A j \in R : ~ (j <= 0)
    OBVIOUS
  <2>1. Upto(R, 0) = {}
    BY <2>0, Zenon DEF Upto
  <2>2. Cardinality(Upto(R, 0)) = 0
    BY <2>1, FS_EmptySet
  <2>3. QED BY <2>2, <1>4
<1>6. k - 1 \in 0..L /\ Cardinality(Upto(R, k - 1)) < n
  <2>1. k - 1 \in 0..L
    BY <1>4, <1>5
  <2>2. k - 1 \notin S
    BY <1>3, <1>4, <2>1
  <2>3. QED BY <1>1, <2>1, <2>2
<1>7. k \in R
  <2>1. SUFFICES ASSUME k \notin R PROVE FALSE
    OBVIOUS
  <2>2. \A j \in R : j <= k <=> j <= k - 1
    BY <2>1, <1>4
  <2>3. Upto(R, k) = Upto(R, k - 1)
    BY <2>2 DEF Upto
  <2>4. QED BY <1>1, <1>4, <1>6, <2>3
<1>8. Upto(R, k) = Upto(R, k - 1) \cup {k} /\ k \notin Upto(R, k - 1)
  <2>1. \A j \in R : j <= k <=> j <= k - 1 \/ j = k
    BY <1>4
  <2>2. ~ (k <= k - 1)
    BY <1>4
  <2>3. QED BY <1>7, <2>1, <2>2, Zenon DEF Upto
<1>9. Cardinality(Upto(R, k)) = Cardinality(Upto(R, k - 1)) + 1
  BY <1>1, <1>6, <1>8, FS_AddElement
<1>10. Cardinality(Upto(R, k)) = n
  BY <1>1, <1>4, <1>6, <1>9
<1>11. QED BY <1>7, <1>10

\* PruneUnreadyInstances returns instances of the table, each at most once.
LEMMA PruneProperties ==
  ASSUME NEW T \in Seq(Instance)
  PROVE  /\ Prune(T) \in Seq(Instance)
         /\ \A n \in 1..Len(Prune(T)) : \E k \in 1..Len(T) :
              /\ Prune(T)[n] = T[k] /\ T[k].ready
              /\ Cardinality(Upto({j \in 1..Len(T) : T[j].ready}, k)) = n
<1> DEFINE R == {k \in 1..Len(T) : T[k].ready}
<1>1. Len(T) \in Nat /\ R \in SUBSET (1..Len(T))
  OBVIOUS
<1>2. Cardinality(R) \in Nat
  <2> HIDE DEF R
  <2>1. IsFiniteSet(1..Len(T))
    BY <1>1, FS_Interval
  <2> QED BY <1>1, <2>1, FS_Subset, FS_CardinalityType
<1>3. \A n \in 1..Cardinality(R) : Nth(R, n) \in R /\ Cardinality(Upto(R, Nth(R, n))) = n
  <2> TAKE n \in 1..Cardinality(R)
  <2> HIDE DEF R
  <2>1. \E k \in R : Cardinality(Upto(R, k)) = n
    BY <1>1, NthExists
  <2>2. QED BY <2>1, Zenon DEF Nth
<1>4. Prune(T) = [n \in 1..Cardinality(R) |-> T[Nth(R, n)]]
  <2>1. DOMAIN T = 1..Len(T)
    OBVIOUS
  <2>2. QED BY <2>1, Zenon DEF Prune
<1>5. \A k \in R : T[k] \in Instance /\ T[k].ready /\ k \in 1..Len(T)
  OBVIOUS
<1>6. \A n \in 1..Cardinality(R) : T[Nth(R, n)] \in Instance /\ T[Nth(R, n)].ready /\ Nth(R, n) \in 1..Len(T)
  BY <1>3, <1>5
<1>7. Len(Prune(T)) = Cardinality(R) /\ Prune(T) \in Seq(Instance)
  <2> HIDE DEF R
  <2> QED BY <1>2, <1>4, <1>6
<1>8. QED
  BY <1>2, <1>3, <1>4, <1>6, <1>7

\* FindInstance by id returns nothing or a public instance of the table.
LEMMA FindPublicInstanceFinds ==
  ASSUME NEW T \in Seq(Instance), NEW map, NEW id
  PROVE  LET k == FindPublicInstance(T, map, id)
         IN  k \in 0..Len(T) /\ (k # 0 => T[k].id = id)
<1> DEFINE I == {k \in 1..Len(T) : T[k].zone.map = map /\ T[k].id = id /\ ~ IsPrivate(T[k])
                                   /\ ~ T[k].shutdownComplete /\ ~ T[k].shuttingDown}
<1>1. FindPublicInstance(T, map, id) = IF I # {} THEN Min(I) ELSE 0
  BY DEF FindPublicInstance, SelectInSeq
<1>2. I # {} => Min(I) \in I
  <2>1. I \in SUBSET (1..Len(T)) /\ Len(T) \in Nat
    OBVIOUS
  <2> HIDE DEF I
  <2>2. QED BY <2>1, MinIsMember
<1>3. CASE I # {}
  <2>1. Min(I) \in 1..Len(T) /\ T[Min(I)].id = id
    BY <1>2, <1>3
  <2>2. FindPublicInstance(T, map, id) = Min(I)
    BY <1>1, <1>3
  <2> HIDE DEF I
  <2>3. Min(I) \in 0..Len(T) /\ Min(I) # 0
    BY <2>1
  <2>4. QED BY <2>1, <2>2, <2>3
<1>4. CASE I = {}
  <2>1. FindPublicInstance(T, map, id) = 0
    BY <1>1, <1>4
  <2> HIDE DEF I
  <2>2. 0 \in 0..Len(T)
    OBVIOUS
  <2>3. QED BY <2>1, <2>2
<1>5. QED BY <1>3, <1>4

\* FindPrivateInstance returns nothing or an instance of the table.
LEMMA FindPrivateInstanceFinds ==
  ASSUME NEW T \in Seq(Instance), NEW pw
  PROVE  FindPrivateInstance(T, pw) \in 0..Len(T)
<1> DEFINE I == {k \in 1..Len(T) : T[k].password = pw}
<1>1. FindPrivateInstance(T, pw) = IF I # {} THEN Min(I) ELSE 0
  BY DEF FindPrivateInstance, SelectInSeq
<1>2. I # {} => Min(I) \in I
  <2>1. I \in SUBSET (1..Len(T)) /\ Len(T) \in Nat
    OBVIOUS
  <2> HIDE DEF I
  <2>2. QED BY <2>1, MinIsMember
<1>3. QED BY <1>1, <1>2

\* GetInstanceBySysAddr returns nothing or an instance with this address.
LEMMA GetInstanceBySysAddrFinds ==
  ASSUME NEW T \in Seq(Instance), NEW addr
  PROVE  LET k == GetInstanceBySysAddr(T, addr)
         IN  /\ k \in 0..Len(T)
             /\ k # 0 => T[k].sysAddr = addr
             /\ k = 0 => \A j \in 1..Len(T) : T[j].sysAddr # addr
<1> DEFINE I == {k \in 1..Len(T) : T[k].sysAddr = addr}
<1>1. GetInstanceBySysAddr(T, addr) = IF I # {} THEN Min(I) ELSE 0
  BY DEF GetInstanceBySysAddr, SelectInSeq
<1>2. I # {} => Min(I) \in I
  <2>1. I \in SUBSET (1..Len(T)) /\ Len(T) \in Nat
    OBVIOUS
  <2> HIDE DEF I
  <2>2. QED BY <2>1, MinIsMember
<1>3. QED BY <1>1, <1>2

\* The search for a pending request finds one with the id, if there is one.
LEMMA PendingIndexFinds ==
  ASSUME NEW rs \in Seq(Pending), NEW id
  PROVE  LET n == PendingIndex(rs, id)
         IN  /\ n \in 0..Len(rs)
             /\ n # 0 => rs[n].id = id
             /\ n = 0 => \A m \in 1..Len(rs) : rs[m].id # id
<1> DEFINE I == {n \in 1..Len(rs) : rs[n].id = id}
<1>1. PendingIndex(rs, id) = IF I # {} THEN Min(I) ELSE 0
  BY DEF PendingIndex, SelectInSeq
<1>2. I # {} => Min(I) \in I
  <2>1. I \in SUBSET (1..Len(rs)) /\ Len(rs) \in Nat
    OBVIOUS
  <2> HIDE DEF I
  <2>2. QED BY <2>1, MinIsMember
<1>3. QED BY <1>1, <1>2

\* The next answer of a server is one of those in flight.
LEMMA NextAnswerFinds ==
  ASSUME toServer \in Seq(Answer), NEW s
  PROVE  /\ NextAnswer(s) \in 0..Len(toServer)
         /\ NextAnswer(s) # 0 => toServer[NextAnswer(s)].server = s
<1> DEFINE I == {n \in 1..Len(toServer) : toServer[n].server = s}
<1>1. NextAnswer(s) = IF I # {} THEN Min(I) ELSE 0
  BY DEF NextAnswer, SelectInSeq
<1>2. I # {} => Min(I) \in I
  <2>1. I \in SUBSET (1..Len(toServer)) /\ Len(toServer) \in Nat
    OBVIOUS
  <2> HIDE DEF I
  <2>2. QED BY <2>1, MinIsMember
<1>3. QED BY <1>1, <1>2

-----------------------------------------------------------------------------
\* What TypeOK says of the domains of the table and of the processes.
LEMMA TypeFacts ==
  ASSUME TypeOK
  PROVE  /\ DOMAIN world = 1..Len(world) /\ DOMAIN m_Instances = 1..Len(m_Instances)
         /\ Len(world) \in Nat /\ Len(m_Instances) \in Nat
         /\ \A p \in 1..Len(world) : world[p] \in World /\ p \in WorldIds
         /\ \A k \in 1..Len(m_Instances) : m_Instances[k] \in Instance
<1>1. Len(world) <= MaxWorlds /\ Len(world) \in Nat
  BY DEF TypeOK
<1>2. QED BY <1>1, ConstantsAssumption DEF TypeOK, WorldIds

\* What TypeOK says of the channels of a process.
LEMMA WorldFields ==
  ASSUME NEW w \in World
  PROVE  /\ w.zone \in Zones /\ w.port \in Nat /\ w.running \in BOOLEAN
         /\ w.connected \in BOOLEAN /\ w.ready \in BOOLEAN /\ w.players \in Nat
         /\ w.out \in Seq(ToMasterMsg) /\ w.in \in Seq(ToWorldMsg)
BY DEF World

\* Issuing a request keeps the types of the server's own variables.
LEMMA AskType ==
  ASSUME TypeOK, NEW s \in Servers, NEW want \in Wants, Ask(s, want)
  PROVE  /\ asked' \in [Servers -> Seq(Wants)]
         /\ \A t \in Servers : Len(asked'[t]) <= MaxRequests
         /\ requests' \in [Servers -> SUBSET (1..MaxRequests)]
         /\ NextRequest(s) \in Pending
         /\ <<NextRequest(s)>> \in Seq(Pending)
<1>1. asked[s] \in Seq(Wants) /\ Len(asked[s]) \in Nat /\ Len(asked[s]) < MaxRequests
  BY DEF TypeOK, Ask
<1>2. Append(asked[s], want) \in Seq(Wants) /\ Len(Append(asked[s], want)) = Len(asked[s]) + 1
  BY <1>1
<1>3. Len(asked[s]) + 1 \in 1..MaxRequests
  BY <1>1, ConstantsAssumption
<1>4. asked' \in [Servers -> Seq(Wants)]
  BY <1>2 DEF TypeOK, Ask
<1>5. \A t \in Servers : Len(asked'[t]) <= MaxRequests
  BY <1>2, <1>3 DEF TypeOK, Ask
<1>6. requests' \in [Servers -> SUBSET (1..MaxRequests)]
  BY <1>3 DEF TypeOK, Ask
<1>7. NextRequest(s) \in Pending
  BY <1>3 DEF NextRequest, Pending
<1>8. <<NextRequest(s)>> \in Seq(Pending)
  BY <1>7
<1>9. QED BY <1>4, <1>5, <1>6, <1>7, <1>8

\* Failures and commands are counted up to their bound.
LEMMA EventType ==
  ASSUME TypeOK, NEW kind, May(kind)
  PROVE  events' \in 0..MaxEvents
BY ConstantsAssumption DEF TypeOK, May

\* Taking a packet off the channel of a process keeps its type.
LEMMA TakenType ==
  ASSUME TypeOK, NEW p \in 1..Len(world), world[p].out # <<>>
  PROVE  Taken(p) \in Seq(World) /\ Len(Taken(p)) = Len(world)
<1>1. world[p] \in World /\ world \in Seq(World)
  BY TypeFacts DEF TypeOK
<1>2. Tail(world[p].out) \in Seq(ToMasterMsg)
  BY <1>1, WorldFields
<1>3. [world[p] EXCEPT !.out = Tail(world[p].out)] \in World
  BY <1>1, <1>2 DEF World
<1>4. Taken(p) = [world EXCEPT ![p] = [world[p] EXCEPT !.out = Tail(world[p].out)]]
  BY DEF Taken
<1>5. QED BY <1>1, <1>3, <1>4, UpdateType

\* A step that replaces world process p by w.
LEMMA WorldStepType ==
  ASSUME TypeOK, NEW p \in 1..Len(world), NEW w \in World,
         world' = [world EXCEPT ![p] = w], UNCHANGED <<masterVars, serverVars>>,
         events' \in 0..MaxEvents
  PROVE  TypeOK'
<1>1. world' \in Seq(World) /\ Len(world') = Len(world)
  BY UpdateType DEF TypeOK
<1>2. QED BY <1>1 DEF TypeOK, masterVars, serverVars

\* A step in which the master takes the first packet of p and only changes its table.
LEMMA MasterStepType ==
  ASSUME TypeOK, NEW p \in 1..Len(world), world[p].out # <<>>,
         m_Instances' \in Seq(Instance), world' = Taken(p), toServer' \in Seq(Answer),
         UnchangedByTable
  PROVE  TypeOK'
BY TakenType DEF TypeOK, UnchangedByTable

\* The master starts with an empty table and no process.
LEMMA InitType == Init => TypeOK
<1>1. <<>> \in Seq(Instance) /\ <<>> \in Seq(World) /\ Len(<<>>) = 0 /\ <<>> \in Seq(Wants)
      /\ <<>> \in Seq(Answer)
  OBVIOUS
<1>2. SUFFICES ASSUME Init PROVE TypeOK
  OBVIOUS
<1>3. m_Instances \in Seq(Instance) /\ world \in Seq(World) /\ toServer \in Seq(Answer)
      /\ Len(world) <= MaxWorlds
  BY <1>1, <1>2, ConstantsAssumption DEF Init
<1>4. asked \in [Servers -> Seq(Wants)] /\ \A s \in Servers : Len(asked[s]) <= MaxRequests
  BY <1>1, <1>2, ConstantsAssumption DEF Init
<1>5. /\ m_IsShuttingDown \in BOOLEAN /\ requests \in [Servers -> SUBSET (1..MaxRequests)]
      /\ granted \subseteq [server : Servers, id : 1..MaxRequests, world : WorldIds]
  BY <1>2 DEF Init
<1>6. events \in 0..MaxEvents
  BY <1>2, ConstantsAssumption DEF Init
<1>7. QED BY <1>3, <1>4, <1>5, <1>6 DEF TypeOK

\* Type correctness is kept by the steps of the requesting servers.
LEMMA ServerStepType ==
  ASSUME TypeOK, NEW s \in Servers, ServerStep(s)
  PROVE  TypeOK'
<1>1. CASE \E zone \in Zones : RequestZoneTransfer(s, zone)
  <2>1. PICK zone \in Zones : RequestZoneTransfer(s, zone)
    BY <1>1
  <2>2. zone \in Wants /\ Ask(s, zone)
    BY <2>1 DEF Wants, RequestZoneTransfer
  <2>3. /\ asked' \in [Servers -> Seq(Wants)]
        /\ \A t \in Servers : Len(asked'[t]) <= MaxRequests
        /\ requests' \in [Servers -> SUBSET (1..MaxRequests)]
        /\ <<NextRequest(s)>> \in Seq(Pending)
    BY <2>2, AskType
  <2>4. m_Instances' \in Seq(Instance) /\ world' \in Seq(World) /\ Len(world') <= MaxWorlds
    <3>1. CASE m_IsShuttingDown
      BY <2>1, <3>1 DEF RequestZoneTransfer, TypeOK
    <3>2. CASE ~ m_IsShuttingDown
      <4>1. /\ CanGetInstance(m_Instances, world, zone)
            /\ m_Instances' = Route(m_Instances, world, zone, <<NextRequest(s)>>).tbl
            /\ world' = Route(m_Instances, world, zone, <<NextRequest(s)>>).world
        BY <2>1, <3>2 DEF RequestZoneTransfer
      <4>2. m_Instances \in Seq(Instance) /\ world \in Seq(World) /\ Len(world) <= MaxWorlds
        BY DEF TypeOK
      <4>3. QED BY <2>3, <4>1, <4>2, RouteType
    <3>3. QED BY <3>1, <3>2
  <2>5. QED BY <2>1, <2>3, <2>4 DEF RequestZoneTransfer, TypeOK
<1>2. CASE \E pw \in Passwords : RequestPrivateZone(s, pw)
  <2>1. PICK pw \in Passwords : RequestPrivateZone(s, pw)
    BY <1>2
  <2>2. pw \in Wants /\ Ask(s, pw)
    BY <2>1 DEF Wants, RequestPrivateZone
  <2>3. /\ asked' \in [Servers -> Seq(Wants)]
        /\ \A t \in Servers : Len(asked'[t]) <= MaxRequests
        /\ requests' \in [Servers -> SUBSET (1..MaxRequests)]
        /\ <<NextRequest(s)>> \in Seq(Pending)
    BY <2>2, AskType
  <2>4. toServer' \in Seq(Answer)
    <3> DEFINE k == FindPrivateInstance(m_Instances, pw)
    <3>1. k \in 0..Len(m_Instances)
      BY FindPrivateInstanceFinds DEF TypeOK
    <3>2. toServer' = IF k = 0 THEN toServer
                      ELSE Respond(toServer, <<NextRequest(s)>>, m_Instances[k])
      BY <2>1 DEF RequestPrivateZone
    <3> HIDE DEF k
    <3>3. k # 0 => m_Instances[k] \in Instance
      BY <3>1, TypeFacts
    <3>4. toServer \in Seq(Answer)
      BY DEF TypeOK
    <3>5. QED BY <2>3, <3>2, <3>3, <3>4, RespondType
  <2>5. QED BY <2>1, <2>3, <2>4 DEF RequestPrivateZone, TypeOK, masterVars
<1>3. CASE HandleZoneTransferResponse(s)
  <2> DEFINE n == NextAnswer(s)
  <2>1. n \in 1..Len(toServer)
    BY <1>3, NextAnswerFinds DEF HandleZoneTransferResponse, TypeOK
  <2>2. toServer \in Seq(Answer) /\ toServer[n] \in Answer
    BY <2>1 DEF TypeOK
  <2>3. RemoveAt(toServer, n) \in Seq(Answer)
    BY <2>1, <2>2, RemoveAtProperties
  <2>4. Granted(s, toServer[n]) \in [server : Servers, id : 1..MaxRequests, world : WorldIds]
    BY <2>2 DEF Granted, Answer
  <2> HIDE DEF n
  <2>5. granted' \subseteq [server : Servers, id : 1..MaxRequests, world : WorldIds]
    BY <1>3, <2>4 DEF HandleZoneTransferResponse, TypeOK, n
  <2>6. requests' \in [Servers -> SUBSET (1..MaxRequests)]
    BY <1>3 DEF HandleZoneTransferResponse, TypeOK
  <2>7. toServer' \in Seq(Answer)
    BY <1>3, <2>3 DEF HandleZoneTransferResponse, n
  <2>8. QED BY <1>3, <2>5, <2>6, <2>7 DEF HandleZoneTransferResponse, TypeOK, masterVars
<1>4. QED BY <1>1, <1>2, <1>3 DEF ServerStep

\* Type correctness is kept by the commands to the master.
LEMMA CommandType ==
  ASSUME TypeOK, Command
  PROVE  TypeOK'
<1>0. m_Instances \in Seq(Instance) /\ world \in Seq(World) /\ Len(world) <= MaxWorlds
  BY DEF TypeOK
<1>1. CASE \E zone \in Zones : PrepZone(zone)
  <2>1. PICK zone \in Zones : PrepZone(zone)
    BY <1>1
  <2>2. /\ CanGetInstance(m_Instances, world, zone)
        /\ m_Instances' = GetInstance(m_Instances, world, zone).tbl
        /\ world' = GetInstance(m_Instances, world, zone).world
    BY <2>1 DEF PrepZone
  <2>3. m_Instances' \in Seq(Instance) /\ world' \in Seq(World) /\ Len(world') <= MaxWorlds
    BY <1>0, <2>2, GetInstanceType
  <2>4. events' \in 0..MaxEvents
    BY <2>1, EventType DEF PrepZone
  <2>5. QED BY <2>1, <2>3, <2>4 DEF PrepZone, TypeOK, serverVars
<1>2. CASE \E zone \in Zones, pw \in Passwords : CreatePrivateZone(zone, pw)
  <2>1. PICK zone \in Zones, pw \in Passwords : CreatePrivateZone(zone, pw)
    BY <1>2
  <2>2. events' \in 0..MaxEvents
    BY <2>1, EventType DEF CreatePrivateZone
  <2>3. m_Instances' \in Seq(Instance) /\ world' \in Seq(World) /\ Len(world') <= MaxWorlds
    <3>1. CASE FindPrivateInstance(m_Instances, pw) # 0
      BY <1>0, <2>1, <3>1 DEF CreatePrivateZone
    <3>2. CASE FindPrivateInstance(m_Instances, pw) = 0
      <4> DEFINE port == GetFreePort(m_Instances)
                 new == NewInstance(zone, Len(world) + 1, port, PrivateCap, pw, Unassigned)
      <4>1. /\ Len(world) < MaxWorlds
            /\ m_Instances' = Append(m_Instances, new)
            /\ world' = StartWorldServer(world, zone, port)
        BY <2>1, <3>2 DEF CreatePrivateZone
      <4>2. port \in Nat /\ Len(world) + 1 \in WorldIds /\ PrivateCap \in Nat
        BY <1>0, <4>1, GetFreePortType, ConstantsAssumption DEF WorldIds, PrivateCap
      <4>3. new \in Instance
        BY <4>2, NewInstanceType
      <4>4. /\ StartWorldServer(world, zone, port) \in Seq(World)
            /\ Len(StartWorldServer(world, zone, port)) = Len(world) + 1
        BY <1>0, <4>2, StartWorldServerType
      <4> HIDE DEF port, new
      <4>5. Len(world') <= MaxWorlds
        BY <1>0, <4>1, <4>4, ConstantsAssumption
      <4>6. QED BY <1>0, <4>1, <4>3, <4>4, <4>5
    <3>3. QED BY <3>1, <3>2
  <2>4. QED BY <2>1, <2>2, <2>3 DEF CreatePrivateZone, TypeOK, serverVars
<1>3. CASE \E p \in DOMAIN world : ShutdownInstance(world[p].zone.map, p)
  <2>1. PICK p \in DOMAIN world : ShutdownInstance(world[p].zone.map, p)
    BY <1>3
  <2> DEFINE k == FindPublicInstance(m_Instances, world[p].zone.map, p)
             W == SendToWorld(world, m_Instances[k].sysAddr, <<Msg("SHUTDOWN")>>)
  <2>2. k \in 1..Len(m_Instances) /\ world' = W
    BY <1>0, <2>1, FindPublicInstanceFinds DEF ShutdownInstance
  <2>3. m_Instances[k].sysAddr \in WorldIds \cup {Unassigned}
    <3> HIDE DEF k
    <3>1. m_Instances[k] \in Instance
      BY <1>0, <2>2
    <3>2. QED BY <3>1 DEF Instance
  <2>4. <<Msg("SHUTDOWN")>> \in Seq(ToWorldMsg)
    BY MsgTypes
  <2>5. W \in Seq(World) /\ Len(W) = Len(world)
    <3> HIDE DEF k
    <3> QED BY <1>0, <2>3, <2>4, SendToWorldType
  <2>6. events' \in 0..MaxEvents
    BY <2>1, EventType DEF ShutdownInstance
  <2>7. QED BY <1>0, <2>1, <2>2, <2>5, <2>6
             DEF ShutdownInstance, TypeOK, serverVars, masterVars
<1>4. QED BY <1>1, <1>2, <1>3 DEF Command

\* Type correctness is kept by the steps of the world processes.
LEMMA WorldTypeStep ==
  ASSUME TypeOK, NEW p \in DOMAIN world, WorldStep(p)
  PROVE  TypeOK'
<1>0. /\ p \in 1..Len(world) /\ p \in WorldIds /\ world[p] \in World
      /\ m_Instances \in Seq(Instance) /\ world \in Seq(World) /\ Len(world) <= MaxWorlds
  BY TypeFacts DEF TypeOK
<1> DEFINE w == world[p]
<1>a. /\ w.zone \in Zones /\ w.port \in Nat /\ w.running \in BOOLEAN
      /\ w.connected \in BOOLEAN /\ w.ready \in BOOLEAN /\ w.players \in Nat
      /\ w.out \in Seq(ToMasterMsg) /\ w.in \in Seq(ToWorldMsg)
  BY <1>0, WorldFields
<1>b. events \in 0..MaxEvents
  BY DEF TypeOK
<1>c. UNCHANGED <<masterVars, serverVars>>
  BY DEF WorldStep, UnchangedByWorld, WorldConnect, WorldReceive, WorldExit, WorldGivesUp,
         WorldFailsToStart, WorldCrash, ConnectionLost, PlayerEnters, PlayerLeaves,
         PlayerEntersTooLate, PlayerLeavesUnreported
<1>d. events' \in 0..MaxEvents
  BY <1>b, EventType
     DEF WorldStep, WorldConnect, WorldReceive, WorldExit, WorldGivesUp,
         WorldFailsToStart, WorldCrash, ConnectionLost, PlayerEnters, PlayerLeaves,
         PlayerEntersTooLate, PlayerLeavesUnreported
<1>e. \A v \in World : world' = [world EXCEPT ![p] = v] => TypeOK'
  BY <1>0, <1>c, <1>d, WorldStepType
<1> SUFFICES \E v \in World : world' = [world EXCEPT ![p] = v]
  BY <1>e
<1>1. CASE WorldConnect(p)
  <2>1. world' = [world EXCEPT ![p] = Attached(w)]
    BY <1>1 DEF WorldConnect
  <2>2. QED BY <1>0, <2>1, AttachedType
<1>2. CASE WorldReceive(p)
  <2> DEFINE m == Head(w.in)
             u == [w EXCEPT !.in = Tail(w.in)]
             v == IF m.kind = "SHUTDOWN" THEN Exited(u)
                  ELSE SendToMaster(u, IdMsg("AFFIRM_TRANSFER_RESPONSE", m.id))
  <2>1. w.in # <<>> /\ world' = [world EXCEPT ![p] = v]
    BY <1>2 DEF WorldReceive
  <2>2. m \in ToWorldMsg /\ Tail(w.in) \in Seq(ToWorldMsg)
    BY <1>a, <2>1
  <2>3. u \in World
    BY <1>0, <2>2 DEF World
  <2> HIDE DEF m, u
  <2>4. Exited(u) \in World
    BY <2>3, ExitedType
  <2>5. m.kind # "SHUTDOWN" => m.id \in 1..MaxRequests
    BY <2>2 DEF ToWorldMsg
  <2>6. m.kind # "SHUTDOWN" =>
          SendToMaster(u, IdMsg("AFFIRM_TRANSFER_RESPONSE", m.id)) \in World
    BY <2>3, <2>5, SendToMasterType, MsgTypes
  <2>7. QED BY <2>1, <2>4, <2>6
<1>3. CASE WorldExit(p) \/ WorldGivesUp(p)
  <2>1. world' = [world EXCEPT ![p] = Exited(w)]
    BY <1>3 DEF WorldExit, WorldGivesUp
  <2>2. QED BY <1>0, <2>1, ExitedType
<1>4. CASE WorldFailsToStart(p)
  <2>1. world' = [world EXCEPT ![p] = [w EXCEPT !.running = FALSE]]
    BY <1>4 DEF WorldFailsToStart
  <2>2. [w EXCEPT !.running = FALSE] \in World
    BY <1>0 DEF World
  <2>3. QED BY <2>1, <2>2
<1>5. CASE WorldCrash(p)
  <2>1. PICK n \in 0..Len(w.out) :
          world' = [world EXCEPT ![p] = [Dropped(w, n) EXCEPT !.running = FALSE, !.players = 0]]
    BY <1>5 DEF WorldCrash
  <2>2. Dropped(w, n) \in World
    BY <1>0, DroppedType
  <2>3. [Dropped(w, n) EXCEPT !.running = FALSE, !.players = 0] \in World
    BY <2>2 DEF World
  <2>4. QED BY <2>1, <2>3
<1>6. CASE ConnectionLost(p)
  <2>1. PICK n \in 0..Len(w.out) : world' = [world EXCEPT ![p] = Dropped(w, n)]
    BY <1>6 DEF ConnectionLost
  <2>2. QED BY <1>0, <2>1, DroppedType
<1>7. CASE PlayerEnters(p)
  <2>1. world' = [world EXCEPT ![p] = PlayerIn(w)]
    BY <1>7 DEF PlayerEnters
  <2>2. QED BY <1>0, <2>1, PlayerInType
<1>8. CASE PlayerLeaves(p)
  <2>1. w.players > 0 /\ world' = [world EXCEPT ![p] = PlayerOut(w)]
    BY <1>8 DEF PlayerLeaves
  <2>2. QED BY <1>0, <2>1, PlayerOutType
<1>9. CASE PlayerEntersTooLate(p)
  <2>1. world' = [world EXCEPT ![p] = SendToMaster(w, Msg("PLAYER_ADDED"))]
    BY <1>9 DEF PlayerEntersTooLate
  <2>2. QED BY <1>0, <2>1, SendToMasterType, MsgTypes
<1>10. CASE PlayerLeavesUnreported(p)
  <2>1. w.players > 0 /\ world' = [world EXCEPT ![p] = [w EXCEPT !.players = w.players - 1]]
    BY <1>10 DEF PlayerLeavesUnreported
  <2>2. w.players - 1 \in Nat
    BY <1>a, <2>1
  <2>3. [w EXCEPT !.players = w.players - 1] \in World
    BY <1>0, <2>2 DEF World
  <2>4. QED BY <2>1, <2>3
<1>11. QED BY <1>1, <1>2, <1>3, <1>4, <1>5, <1>6, <1>7, <1>8, <1>9, <1>10 DEF WorldStep

\* Type correctness is kept by the master's packet handlers.
LEMMA MasterReceiveType ==
  ASSUME TypeOK, NEW p \in DOMAIN world, MasterReceive(p)
  PROVE  TypeOK'
<1> DEFINE T == m_Instances
           map == world[p].zone.map
<1>0. /\ p \in 1..Len(world) /\ p \in WorldIds /\ world[p] \in World
      /\ T \in Seq(Instance) /\ world \in Seq(World) /\ Len(world) <= MaxWorlds
      /\ toServer \in Seq(Answer)
  BY TypeFacts DEF TypeOK
<1>a. world[p].out # <<>>
  BY DEF MasterReceive, HandleServerInfo, HandleWorldReady, HandleAffirmTransfer,
         HandlePlayerAdded, HandlePlayerRemoved, HandleShutdownResponse,
         HandleDisconnected, Receives
<1>b. \A k \in 1..Len(T) : T[k] \in Instance
  BY <1>0
<1>c. /\ world[p].zone \in Zones /\ world[p].port \in Nat
      /\ Head(world[p].out) \in ToMasterMsg
  BY <1>0, <1>a, WorldFields
<1>d. Taken(p) \in Seq(World) /\ Len(Taken(p)) = Len(world)
  BY <1>0, <1>a, TakenType
<1>1. CASE HandleServerInfo(p)
  <2> DEFINE k   == FindInstanceWithPrivate(T, map, p)
             new == NewInstance([world[p].zone EXCEPT !.clone = 0], p, world[p].port,
                                ReAddedCap, NoPassword, p)
  <2>1. k \in 0..Len(T)
    BY <1>0, FindInstanceWithPrivateFinds
  <2>2. new \in Instance
    <3>1. [world[p].zone EXCEPT !.clone = 0] \in Zones
      BY <1>c, ConstantsAssumption
    <3>2. QED BY <1>0, <1>c, <3>1, NewInstanceType DEF ReAddedCap
  <2>3. T' = IF ~ IsPortInUse(T, world[p].port) THEN Append(T, new)
             ELSE IF k # 0 THEN [T EXCEPT ![k].sysAddr = p] ELSE T
    BY <1>1 DEF HandleServerInfo
  <2> HIDE DEF new, k
  <2>4. k # 0 => [T EXCEPT ![k].sysAddr = p] \in Seq(Instance)
    <3>1. SUFFICES ASSUME k # 0 PROVE [T EXCEPT ![k] = [T[k] EXCEPT !.sysAddr = p]] \in Seq(Instance)
      OBVIOUS
    <3>2. T[k] \in Instance
      BY <1>b, <2>1, <3>1
    <3>3. [T[k] EXCEPT !.sysAddr = p] \in Instance
      BY <1>0, <3>2 DEF Instance
    <3>4. QED BY <1>0, <2>1, <3>1, <3>3, UpdateType
  <2>5. T' \in Seq(Instance)
    BY <1>0, <2>2, <2>3, <2>4
  <2>6. QED BY <1>0, <1>1, <1>a, <2>5, MasterStepType DEF HandleServerInfo
<1>2. CASE HandleWorldReady(p)
  <2> DEFINE k == FindInstanceWithPrivate(T, map, p)
  <2>1. k \in 0..Len(T)
    BY <1>0, FindInstanceWithPrivateFinds
  <2>2. CASE k = 0
    BY <1>0, <1>2, <1>a, <2>2, MasterStepType DEF HandleWorldReady
  <2>3. CASE k # 0
    <3>1. /\ T' = [T EXCEPT ![k].ready = TRUE, ![k].pendingRequests = <<>>]
          /\ toServer' = Respond(toServer, T[k].pendingRequests, T[k])
      BY <1>2, <2>3 DEF HandleWorldReady
    <3> HIDE DEF k
    <3>2. T[k] \in Instance
      BY <1>b, <2>1, <2>3
    <3>a. T[k].pendingRequests \in Seq(Pending) /\ <<>> \in Seq(Pending)
      BY <3>2 DEF Instance
    <3>3. toServer' \in Seq(Answer)
      BY <1>0, <3>1, <3>2, <3>a, RespondType
    <3>4. [T[k] EXCEPT !.ready = TRUE, !.pendingRequests = <<>>] \in Instance
      BY <3>2, <3>a DEF Instance
    <3>5. T' = [T EXCEPT ![k] = [T[k] EXCEPT !.ready = TRUE, !.pendingRequests = <<>>]]
      BY <1>0, <2>1, <2>3, <3>1
    <3>6. T' \in Seq(Instance)
      BY <1>0, <2>1, <2>3, <3>4, <3>5, UpdateType
    <3>7. QED BY <1>0, <1>2, <1>a, <3>3, <3>6, MasterStepType DEF HandleWorldReady
  <2>4. QED BY <2>2, <2>3
<1>3. CASE HandleAffirmTransfer(p)
  <2> DEFINE k  == GetInstanceBySysAddr(T, p)
             id == Head(world[p].out).id
             rs == T[k].pendingAffirmations
             n  == PendingIndex(rs, id)
  <2>1. k \in 0..Len(T)
    BY <1>0, GetInstanceBySysAddrFinds
  <2>2. CASE k = 0 \/ n = 0
    BY <1>0, <1>3, <1>a, <2>2, MasterStepType DEF HandleAffirmTransfer
  <2>3. CASE k # 0 /\ n # 0
    <3>1. /\ T' = [T EXCEPT ![k].pendingAffirmations = RemoveAt(rs, n),
                            ![k].affirmTimedOut = @ /\ Len(rs) > 1]
          /\ toServer' = Respond(toServer, <<rs[n]>>, T[k])
      BY <1>3, <2>3 DEF HandleAffirmTransfer
    <3>2. T[k] \in Instance
      BY <1>b, <2>1, <2>3
    <3>3. rs \in Seq(Pending) /\ T[k].affirmTimedOut \in BOOLEAN
      BY <3>2 DEF Instance
    <3> HIDE DEF rs, k, id
    <3>4. n \in 1..Len(rs)
      BY <2>3, <3>3, PendingIndexFinds
    <3> HIDE DEF n
    <3>5. <<rs[n]>> \in Seq(Pending) /\ RemoveAt(rs, n) \in Seq(Pending)
      BY <3>3, <3>4, RemoveAtProperties
    <3>6. toServer' \in Seq(Answer)
      BY <1>0, <3>1, <3>2, <3>5, RespondType
    <3>7. [T[k] EXCEPT !.pendingAffirmations = RemoveAt(rs, n),
                       !.affirmTimedOut = @ /\ Len(rs) > 1] \in Instance
      BY <3>2, <3>3, <3>5 DEF Instance
    <3>8. T' = [T EXCEPT ![k] = [T[k] EXCEPT !.pendingAffirmations = RemoveAt(rs, n),
                                             !.affirmTimedOut = @ /\ Len(rs) > 1]]
      BY <1>0, <2>1, <2>3, <3>1
    <3>9. T' \in Seq(Instance)
      BY <1>0, <2>1, <2>3, <3>7, <3>8, UpdateType
    <3>10. QED BY <1>0, <1>3, <1>a, <3>6, <3>9, MasterStepType DEF HandleAffirmTransfer
  <2>4. QED BY <2>2, <2>3
<1>4. CASE HandlePlayerAdded(p)
  <2> DEFINE k == FindInstanceWithPrivate(T, map, p)
  <2>1. k \in 0..Len(T) /\ T' = IF k = 0 THEN T ELSE [T EXCEPT ![k].clients = @ + 1]
    BY <1>0, <1>4, FindInstanceWithPrivateFinds DEF HandlePlayerAdded
  <2> HIDE DEF k
  <2>2. ASSUME k # 0 PROVE [T EXCEPT ![k].clients = @ + 1] \in Seq(Instance)
    <3>1. T[k] \in Instance
      BY <1>b, <2>1, <2>2
    <3>2. T[k].clients + 1 \in Nat
      BY <3>1 DEF Instance
    <3>3. [T[k] EXCEPT !.clients = @ + 1] \in Instance
      BY <3>1, <3>2 DEF Instance
    <3>4. QED BY <1>0, <2>1, <2>2, <3>3, UpdateType
  <2>3. QED BY <1>0, <1>4, <1>a, <2>1, <2>2, MasterStepType DEF HandlePlayerAdded
<1>5. CASE HandlePlayerRemoved(p)
  <2> DEFINE k == FindPublicInstance(T, map, p)
  <2>1. k \in 0..Len(T) /\ T' = IF k = 0 THEN T ELSE [T EXCEPT ![k].clients = RemovePlayer(@)]
    BY <1>0, <1>5, FindPublicInstanceFinds DEF HandlePlayerRemoved
  <2> HIDE DEF k
  <2>2. ASSUME k # 0 PROVE [T EXCEPT ![k].clients = RemovePlayer(@)] \in Seq(Instance)
    <3>1. T[k] \in Instance
      BY <1>b, <2>1, <2>2
    <3>2. RemovePlayer(T[k].clients) \in Nat
      BY <3>1 DEF Instance, RemovePlayer
    <3>3. [T[k] EXCEPT !.clients = RemovePlayer(@)] \in Instance
      BY <3>1, <3>2 DEF Instance
    <3>4. QED BY <1>0, <2>1, <2>2, <3>3, UpdateType
  <2>3. QED BY <1>0, <1>5, <1>a, <2>1, <2>2, MasterStepType DEF HandlePlayerRemoved
<1>6. CASE HandleShutdownResponse(p)
  <2> DEFINE k == GetInstanceBySysAddr(T, p)
  <2>1. k \in 0..Len(T) /\ T' = IF k = 0 THEN T ELSE [T EXCEPT ![k].shuttingDown = TRUE]
    BY <1>0, <1>6, GetInstanceBySysAddrFinds DEF HandleShutdownResponse
  <2> HIDE DEF k
  <2>2. ASSUME k # 0 PROVE [T EXCEPT ![k].shuttingDown = TRUE] \in Seq(Instance)
    <3>1. T[k] \in Instance
      BY <1>b, <2>1, <2>2
    <3>2. [T[k] EXCEPT !.shuttingDown = TRUE] \in Instance
      BY <3>1 DEF Instance
    <3>3. QED BY <1>0, <2>1, <2>2, <3>2, UpdateType
  <2>3. QED BY <1>0, <1>6, <1>a, <2>1, <2>2, MasterStepType DEF HandleShutdownResponse
<1>7. CASE HandleDisconnected(p)
  <2> DEFINE k == GetInstanceBySysAddr(T, p)
             U == [T EXCEPT ![k].shutdownComplete = TRUE]
             r == Redirect(U, Taken(p), k)
  <2>1. k \in 0..Len(T)
    BY <1>0, GetInstanceBySysAddrFinds
  <2>2. CASE k = 0
    BY <1>0, <1>7, <1>a, <2>2, MasterStepType DEF HandleDisconnected
  <2>3. CASE k # 0
    <3>1. U \in Seq(Instance) /\ Len(U) = Len(T)
      <4> HIDE DEF k
      <4>1. T[k] \in Instance
        BY <1>b, <2>1, <2>3
      <4>2. [T[k] EXCEPT !.shutdownComplete = TRUE] \in Instance
        BY <4>1 DEF Instance
      <4>3. QED BY <1>0, <2>1, <2>3, <4>2, UpdateType
    <3>2. CASE m_IsShuttingDown
      <4>1. T' = RemoveAt(U, k) /\ world' = Taken(p)
        BY <1>7, <2>3, <3>2 DEF HandleDisconnected
      <4>2. T' \in Seq(Instance)
        <5> HIDE DEF k, U
        <5> QED BY <2>1, <2>3, <3>1, <4>1, RemoveAtProperties
      <4>3. QED BY <1>0, <1>7, <1>a, <4>1, <4>2, MasterStepType DEF HandleDisconnected
    <3>3. CASE ~ m_IsShuttingDown
      <4>1. CanRedirect(U, world, k) /\ T' = RemoveAt(r.tbl, k) /\ world' = r.world
        BY <1>7, <2>3, <3>3 DEF HandleDisconnected
      <4>2. CanRedirect(U, Taken(p), k)
        BY <1>d, <4>1 DEF CanRedirect, CanGetInstance
      <4>3. /\ r.tbl \in Seq(Instance) /\ Len(U) <= Len(r.tbl)
            /\ r.world \in Seq(World) /\ Len(r.world) <= MaxWorlds
        <5> HIDE DEF k, U
        <5> QED BY <1>0, <1>d, <2>1, <2>3, <3>1, <4>2, RedirectType
      <4>4. T' \in Seq(Instance)
        <5> HIDE DEF k, U, r
        <5>1. k \in 1..Len(r.tbl)
          BY <1>0, <2>1, <2>3, <3>1, <4>3
        <5>2. QED BY <4>1, <4>3, <5>1, RemoveAtProperties
      <4>5. UNCHANGED <<toServer, m_IsShuttingDown, asked, requests, granted, events>>
        BY <1>7 DEF HandleDisconnected, UnchangedByTable
      <4>6. QED BY <4>1, <4>3, <4>4, <4>5 DEF TypeOK
    <3>4. QED BY <3>2, <3>3
  <2>4. QED BY <2>2, <2>3
<1>8. QED BY <1>1, <1>2, <1>3, <1>4, <1>5, <1>6, <1>7 DEF MasterReceive

\* Type correctness is kept by the affirmation timeout.
LEMMA TimeoutType ==
  ASSUME TypeOK, NEW k \in DOMAIN m_Instances, AffirmationTimeout(k)
  PROVE  TypeOK'
<1> DEFINE T == [m_Instances EXCEPT ![k].shuttingDown = TRUE, ![k].affirmTimedOut = TRUE]
           W == SendToWorld(world, T[k].sysAddr, <<Msg("SHUTDOWN")>>)
<1>0. /\ k \in 1..Len(m_Instances) /\ m_Instances[k] \in Instance
      /\ m_Instances \in Seq(Instance) /\ world \in Seq(World) /\ Len(world) <= MaxWorlds
  BY TypeFacts DEF TypeOK
<1>1. T \in Seq(Instance) /\ Len(T) = Len(m_Instances)
  <2>1. [m_Instances[k] EXCEPT !.shuttingDown = TRUE, !.affirmTimedOut = TRUE] \in Instance
    BY <1>0 DEF Instance
  <2>2. T = [m_Instances EXCEPT ![k] = [m_Instances[k] EXCEPT !.shuttingDown = TRUE,
                                                              !.affirmTimedOut = TRUE]]
    BY <1>0
  <2> HIDE DEF T
  <2>3. QED BY <1>0, <2>1, <2>2, UpdateType
<1>2. /\ CanRedirect(T, W, k)
      /\ m_Instances' = Redirect(T, W, k).tbl /\ world' = Redirect(T, W, k).world
  BY DEF AffirmationTimeout
<1>3. T[k].sysAddr \in WorldIds \cup {Unassigned}
  <2> HIDE DEF T
  <2>1. T[k] \in Instance
    BY <1>0, <1>1
  <2>2. QED BY <2>1 DEF Instance
<1>4. W \in Seq(World) /\ Len(W) = Len(world)
  <2>1. <<Msg("SHUTDOWN")>> \in Seq(ToWorldMsg)
    BY MsgTypes
  <2> HIDE DEF T
  <2>2. QED BY <1>0, <1>3, <2>1, SendToWorldType
<1> HIDE DEF T, W
<1>5. m_Instances' \in Seq(Instance) /\ world' \in Seq(World) /\ Len(world') <= MaxWorlds
  BY <1>0, <1>1, <1>2, <1>4, RedirectType
<1>6. events' \in 0..MaxEvents /\ UNCHANGED <<m_IsShuttingDown, serverVars>>
  BY EventType DEF AffirmationTimeout
<1>7. QED BY <1>5, <1>6 DEF TypeOK, serverVars

\* Type correctness is kept by the master's shutdown sequence.
LEMMA ShutdownType ==
  ASSUME TypeOK, ShutdownSequence
  PROVE  TypeOK'
<1> DEFINE left == Prune(m_Instances)
<1>1. left \in Seq(Instance)
  BY PruneProperties DEF TypeOK
<1>2. m_Instances' = [k \in DOMAIN left |-> [left[k] EXCEPT !.shuttingDown = TRUE]]
  BY DEF ShutdownSequence
<1> HIDE DEF left
<1>a. DOMAIN left = 1..Len(left) /\ Len(left) \in Nat
  BY <1>1
<1>3. \A k \in 1..Len(left) : [left[k] EXCEPT !.shuttingDown = TRUE] \in Instance
  <2> TAKE k \in 1..Len(left)
  <2>1. left[k] \in Instance
    BY <1>1
  <2>2. QED BY <2>1 DEF Instance
<1>4. m_Instances' \in Seq(Instance)
  <2> DEFINE f(k) == [left[k] EXCEPT !.shuttingDown = TRUE]
  <2>1. m_Instances' = [k \in 1..Len(left) |-> f(k)]
    BY <1>2, <1>a
  <2>2. \A k \in 1..Len(left) : f(k) \in Instance
    BY <1>3
  <2> HIDE DEF f
  <2>3. QED BY <1>a, <2>1, <2>2
<1>5. \A p \in 1..Len(world) : [world[p] EXCEPT !.in = Append(@, Msg("SHUTDOWN"))] \in World
  <2> TAKE p \in 1..Len(world)
  <2>1. world[p] \in World
    BY TypeFacts
  <2>2. Append(world[p].in, Msg("SHUTDOWN")) \in Seq(ToWorldMsg)
    BY <2>1, WorldFields, MsgTypes
  <2>3. QED BY <2>1, <2>2 DEF World
<1>6. world' \in Seq(World) /\ Len(world') = Len(world)
  <2> DEFINE f(p) == IF world[p].connected
                     THEN [world[p] EXCEPT !.in = Append(@, Msg("SHUTDOWN"))] ELSE world[p]
  <2>1. world' = [p \in 1..Len(world) |-> f(p)]
    BY TypeFacts DEF ShutdownSequence
  <2>2. \A p \in 1..Len(world) : f(p) \in World
    BY <1>5, TypeFacts
  <2>3. Len(world) \in Nat
    BY TypeFacts
  <2> HIDE DEF f
  <2>4. QED BY <2>1, <2>2, <2>3
<1>7. events' \in 0..MaxEvents /\ m_IsShuttingDown' \in BOOLEAN /\ UNCHANGED serverVars
  BY EventType DEF ShutdownSequence
<1>8. QED BY <1>4, <1>6, <1>7 DEF TypeOK, serverVars

\* Every reachable state has values of its type: in particular no handler reads
\* an instance outside the table, and no population or process count leaves its range.
THEOREM TypeCorrect == Spec => []TypeOK
<1>1. TypeOK /\ [Next]_vars => TypeOK'
  <2>1. SUFFICES ASSUME TypeOK, [Next]_vars PROVE TypeOK'
    OBVIOUS
  <2>2. CASE \E s \in Servers : ServerStep(s)
    BY <2>1, <2>2, ServerStepType
  <2>3. CASE Command
    BY <2>1, <2>3, CommandType
  <2>4. CASE \E p \in DOMAIN world : WorldStep(p) \/ MasterReceive(p)
    BY <2>1, <2>4, WorldTypeStep, MasterReceiveType
  <2>5. CASE \E k \in DOMAIN m_Instances : AffirmationTimeout(k)
    BY <2>1, <2>5, TimeoutType
  <2>6. CASE ShutdownSequence
    BY <2>1, <2>6, ShutdownType
  <2>7. CASE UNCHANGED vars
    BY <2>1, <2>7 DEF TypeOK, vars, masterVars, serverVars
  <2>8. QED BY <2>1, <2>2, <2>3, <2>4, <2>5, <2>6, <2>7 DEF Next
<1>2. QED BY InitType, <1>1, PTL DEF Spec

-----------------------------------------------------------------------------
(* GetFreePort never gives a port of the table a second time. The inductive
   invariant adds to PortsDistinct that the ports of instances and processes
   lie on the grid the search runs along: SERVER_INFO puts a port back into
   the table that only the process has kept. *)

\* The ports GetFreePort can give.
Slots == {PortStart + PortStep * n : n \in Nat}

Slot(n) == PortStart + PortStep * n

Distinct(T) == \A j, k \in 1..Len(T) : j # k => T[j].port # T[k].port
OnSlots(X)  == \A k \in 1..Len(X) : X[k].port \in Slots

Below(T, port)   == {k \in DOMAIN T : T[k].port < port}
NotAbove(T, port) == {k \in DOMAIN T : T[k].port <= port}

\* The slots of the port range are naturals, in order.
LEMMA SlotFacts ==
  /\ \A n \in Nat : Slot(n) \in Nat /\ Slot(n) \in Slots
  /\ \A m, n \in Nat : Slot(m) < Slot(n) <=> m < n
  /\ \A m, n \in Nat : Slot(m) = Slot(n) <=> m = n
  /\ \A port \in Slots : \E n \in Nat : port = Slot(n)
<1>1. PortStart \in Nat
  BY ConstantsAssumption
<1>2. QED BY <1>1 DEF Slot, Slots, PortStep

\* The sets of instances below a port are finite and as large as the table at most.
LEMMA PortSetFacts ==
  ASSUME NEW T \in Seq(Instance), NEW port
  PROVE  /\ Below(T, port) \in SUBSET (1..Len(T)) /\ IsFiniteSet(Below(T, port))
         /\ Cardinality(Below(T, port)) \in Nat
         /\ NotAbove(T, port) \in SUBSET (1..Len(T)) /\ IsFiniteSet(NotAbove(T, port))
         /\ Cardinality(NotAbove(T, port)) \in Nat /\ Cardinality(NotAbove(T, port)) <= Len(T)
<1>0. Len(T) \in Nat
  OBVIOUS
<1>1. IsFiniteSet(1..Len(T)) /\ Cardinality(1..Len(T)) = Len(T)
  BY SMTT(60), <1>0, FS_Interval
<1>2. Below(T, port) \in SUBSET (1..Len(T)) /\ NotAbove(T, port) \in SUBSET (1..Len(T))
  BY DEF Below, NotAbove
<1>3. /\ IsFiniteSet(Below(T, port)) /\ IsFiniteSet(NotAbove(T, port))
      /\ Cardinality(NotAbove(T, port)) <= Len(T)
  BY <1>1, <1>2, FS_Subset
<1>4. QED BY <1>2, <1>3, FS_CardinalityType

\* Below the n-th slot there are at most n used ports.
LEMMA FewBelow ==
  ASSUME NEW T \in Seq(Instance), Distinct(T), OnSlots(T), NEW n \in Nat
  PROVE  Cardinality(Below(T, Slot(n))) <= n
<1> DEFINE S == Below(T, Slot(n))
           idx(k) == CHOOSE m \in Nat : T[k].port = Slot(m)
           f == [k \in S |-> idx(k)]
<1>1. \A k \in S : k \in 1..Len(T) /\ T[k].port \in Slots /\ T[k].port < Slot(n)
  BY DEF Below, OnSlots
<1>2. \A k \in S : idx(k) \in Nat /\ T[k].port = Slot(idx(k))
  BY <1>1, SlotFacts
<1>3. \A k \in S : idx(k) \in 0..(n - 1)
  <2> TAKE k \in S
  <2> HIDE DEF S, idx
  <2>1. Slot(idx(k)) < Slot(n) /\ idx(k) \in Nat
    BY <1>1, <1>2
  <2>2. idx(k) < n
    BY <2>1, SlotFacts
  <2>3. QED BY <2>1, <2>2
<1>4. \A j, k \in S : j # k => idx(j) # idx(k)
  BY <1>1, <1>2 DEF Distinct
<1> HIDE DEF idx
<1>5. f \in Injection(S, 0..(n - 1))
  <2> HIDE DEF S
  <2>1. f \in [S -> 0..(n - 1)]
    BY <1>3
  <2>2. \A j, k \in S : f[j] = f[k] => j = k
    BY <1>4
  <2>3. QED BY <2>1, <2>2 DEF Injection, IsInjective
<1>6. IsFiniteSet(0..(n - 1)) /\ Cardinality(0..(n - 1)) = n
  BY FS_Interval
<1> HIDE DEF S, f
<1>8. Cardinality(S) <= n
  BY <1>5, <1>6, FS_Injection
<1>9. QED BY <1>8 DEF S

\* The indices at which the loop of GetFreePort advances are an initial segment,
\* and it stops at the first that does not hold the next slot.
LEMMA PortIdxStops ==
  ASSUME NEW T \in Seq(Instance)
  PROVE  /\ PortIdx(T) \in 0..Len(T)
         /\ \A m \in 0..(PortIdx(T) - 1) : SortedAt(T, m, Slot(m))
         /\ PortIdx(T) < Len(T) => ~ SortedAt(T, PortIdx(T), Slot(PortIdx(T)))
<1> DEFINE A(m) == SortedAt(T, m, Slot(m))
           G == {n \in 0..(Len(T) - 1) : \A m \in 0..n : A(m)}
           S == {n \in 0..Len(T) : n \notin G}
<1>0. Len(T) \in Nat
  OBVIOUS
<1>1. PortIdx(T) = Cardinality(G)
  BY DEF PortIdx, Slot
<1> HIDE DEF A
<1>2. S \in SUBSET Nat /\ Len(T) \in S
  BY <1>0
<1>3. PICK e \in S : \A y \in S : e <= y
  <2> HIDE DEF S
  <2> QED BY <1>2, LeastExists
<1>4. e \in 0..Len(T) /\ e \notin G
  BY <1>3
<1>5. \A n \in 0..(e - 1) : n \in G
  <2> TAKE n \in 0..(e - 1)
  <2>1. n \in 0..Len(T) /\ ~ (e <= n)
    BY <1>0, <1>4
  <2>2. QED BY <1>3, <2>1
<1>6. \A n \in G : n \in 0..(e - 1)
  <2> TAKE n \in G
  <2>1. SUFFICES ASSUME e <= n PROVE FALSE
    BY <1>0, <1>4
  <2>2. e \in 0..(Len(T) - 1) /\ \A m \in 0..e : m \in 0..n
    BY <1>0, <1>4, <2>1
  <2>3. e \in G
    BY <2>2
  <2>4. QED BY <1>4, <2>3
<1>7. \A m \in 0..(e - 1) : A(m)
  <2> TAKE m \in 0..(e - 1)
  <2>1. m \in G
    BY <1>5, Zenon
  <2>2. m \in 0..m
    BY <1>0, <1>4
  <2>3. QED BY <2>1, <2>2
<1>8. e < Len(T) => ~ A(e)
  <2>1. SUFFICES ASSUME e < Len(T), A(e) PROVE FALSE
    OBVIOUS
  <2>2. \A m \in 0..e : m = e \/ m \in 0..(e - 1)
    BY <1>0, <1>4
  <2>3. e \in G
    BY <1>0, <1>4, <1>7, <2>1, <2>2
  <2>4. QED BY <1>4, <2>3
<1>9. G = 0..(e - 1)
  <2> HIDE DEF G
  <2> QED BY <1>5, <1>6
<1> HIDE DEF G
<1>10. Cardinality(G) = e
  <2>1. Cardinality(0..(e - 1)) = e
    BY <1>0, <1>4, FS_Interval
  <2>2. QED BY <1>9, <2>1
<1>11. QED BY <1>1, <1>4, <1>7, <1>8, <1>10 DEF A

\* GetFreePort gives a port of the range that no instance uses.
LEMMA FreePortIsFree ==
  ASSUME NEW T \in Seq(Instance), Distinct(T), OnSlots(T)
  PROVE  /\ GetFreePort(T) \in Slots
         /\ \A k \in 1..Len(T) : T[k].port # GetFreePort(T)
<1> DEFINE c == PortIdx(T)
<1>0. Len(T) \in Nat /\ DOMAIN T = 1..Len(T)
  OBVIOUS
<1>1. /\ c \in 0..Len(T)
      /\ \A m \in 0..(c - 1) : SortedAt(T, m, Slot(m))
      /\ c < Len(T) => ~ SortedAt(T, c, Slot(c))
  BY PortIdxStops
<1>2. GetFreePort(T) = Slot(c)
  BY DEF GetFreePort, Slot
<1>3. c \in Nat /\ GetFreePort(T) \in Slots
  BY <1>0, <1>1, <1>2, SlotFacts
<1> HIDE DEF c
<1>4. SUFFICES ASSUME NEW k \in 1..Len(T), T[k].port = Slot(c) PROVE FALSE
  BY <1>2, <1>3
<1>5. Cardinality(Below(T, Slot(c))) <= c
  BY <1>3, FewBelow
<1>6. c < Cardinality(NotAbove(T, Slot(c)))
  <2> DEFINE N == NotAbove(T, Slot(c))
  <2>1. k \in N /\ IsFiniteSet(N) /\ Cardinality(N) \in Nat
    <3>1. Slot(c) <= Slot(c)
      BY <1>3, SlotFacts
    <3>2. k \in N
      BY <1>0, <1>4, <3>1 DEF NotAbove
    <3>3. QED BY <3>2, PortSetFacts
  <2>2. CASE c = 0
    <3>1. Cardinality(N) # 0
      <4> HIDE DEF N
      <4> QED BY <2>1, FS_EmptySet
    <3>2. QED BY <2>1, <2>2, <3>1
  <2>3. CASE c # 0
    <3> DEFINE M == NotAbove(T, Slot(c - 1))
    <3>1. c - 1 \in 0..(c - 1) /\ c - 1 \in Nat
      BY <1>3, <2>3
    <3>2. Slot(c - 1) < Slot(c) /\ Slot(c - 1) \in Nat /\ Slot(c) \in Nat
      <4>1. c - 1 < c
        BY <1>3
      <4>2. QED BY <1>3, <3>1, <4>1, SlotFacts
    <3>3. c - 1 < Cardinality(M)
      BY <1>1, <3>1 DEF SortedAt, NotAbove
    <3>4. IsFiniteSet(M) /\ Cardinality(M) \in Nat
      BY PortSetFacts
    <3>5. k \notin M
      BY <1>4, <3>2 DEF NotAbove
    <3>6. \A j \in 1..Len(T) : T[j].port \in Nat
      <4> TAKE j \in 1..Len(T)
      <4>1. T[j] \in Instance
        OBVIOUS
      <4>2. QED BY <4>1 DEF Instance
    <3>7. \A j \in M : j \in N
      BY <1>0, <3>2, <3>6 DEF NotAbove
    <3> HIDE DEF M, N
    <3>8. M \cup {k} \in SUBSET N
      BY <2>1, <3>7
    <3>9. Cardinality(M \cup {k}) = Cardinality(M) + 1
      BY <3>4, <3>5, FS_AddElement
    <3>10. Cardinality(M \cup {k}) <= Cardinality(N)
      BY <2>1, <3>8, FS_Subset
    <3>11. QED BY <1>3, <2>1, <3>3, <3>4, <3>9, <3>10 DEF N
  <2>4. QED BY <2>2, <2>3
<1>7. SortedAt(T, c, Slot(c))
  BY <1>5, <1>6 DEF SortedAt, Below, NotAbove
<1>8. c < Len(T)
  BY <1>0, <1>3, <1>6, PortSetFacts
<1>9. QED BY <1>1, <1>7, <1>8
PortsInv == Distinct(m_Instances) /\ OnSlots(m_Instances) /\ OnSlots(world)

SamePorts(X, Y) == Len(X) = Len(Y) /\ \A k \in 1..Len(X) : X[k].port = Y[k].port

\* What only depends on the ports holds of every sequence with the same ports.
LEMMA SamePortsKeep ==
  ASSUME NEW X, NEW Y, SamePorts(X, Y)
  PROVE  (OnSlots(X) => OnSlots(Y)) /\ (Distinct(X) => Distinct(Y))
BY DEF SamePorts, OnSlots, Distinct

\* A send of the master moves no process to another port.
LEMMA SendToWorldPorts ==
  ASSUME NEW W \in Seq(World), NEW addr, NEW ms
  PROVE  SamePorts(W, SendToWorld(W, addr, ms))
<1>1. CASE addr \in DOMAIN W /\ W[addr].connected
  <2>1. SendToWorld(W, addr, ms) = [W EXCEPT ![addr].in = @ \o ms]
    BY <1>1 DEF SendToWorld
  <2>2. \A k \in 1..Len(W) : W[k] \in World
    OBVIOUS
  <2>3. \A w \in World : \A x : [w EXCEPT !.in = x].port = w.port
    BY DEF World
  <2>4. QED BY <2>1, <2>2, <2>3 DEF SamePorts
<1>2. CASE ~ (addr \in DOMAIN W /\ W[addr].connected)
  BY <1>2 DEF SendToWorld, SamePorts
<1>3. QED BY <1>1, <1>2

\* No operation of a world changes its port.
LEMMA WorldOpsPort ==
  ASSUME NEW w \in World
  PROVE  /\ \A m : SendToMaster(w, m).port = w.port
         /\ Attached(w).port = w.port /\ PlayerIn(w).port = w.port /\ PlayerOut(w).port = w.port
         /\ Exited(w).port = w.port
         /\ \A n : Dropped(w, n).port = w.port
BY DEF World, SendToMaster, Attached, PlayerIn, PlayerOut, Exited, Dropped

\* An instance started on the port GetFreePort gives keeps the ports apart.
LEMMA NewPort ==
  ASSUME NEW T \in Seq(Instance), Distinct(T), OnSlots(T),
         NEW W \in Seq(World), OnSlots(W),
         NEW zone, NEW id, NEW cap, NEW pw, NEW addr
  PROVE  LET port == GetFreePort(T)
             U == Append(T, NewInstance(zone, id, port, cap, pw, addr))
         IN  Distinct(U) /\ OnSlots(U) /\ OnSlots(StartWorldServer(W, zone, port))
<1> DEFINE port == GetFreePort(T)
           new == NewInstance(zone, id, port, cap, pw, addr)
           U == Append(T, new)
<1>1. port \in Slots /\ \A k \in 1..Len(T) : T[k].port # port
  BY FreePortIsFree
<1>2. new.port = port
  BY DEF NewInstance
<1> HIDE DEF new, port
<1>3. /\ Len(U) = Len(T) + 1 /\ Len(T) \in Nat
      /\ U[Len(T) + 1] = new
      /\ \A k \in 1..Len(T) : U[k] = T[k]
  OBVIOUS
<1> HIDE DEF U
<1>4. Distinct(U) /\ OnSlots(U)
  BY SMTT(60), <1>1, <1>2, <1>3 DEF Distinct, OnSlots
<1>5. OnSlots(StartWorldServer(W, zone, port))
  BY <1>1 DEF OnSlots, StartWorldServer
<1>6. QED BY <1>4, <1>5 DEF U, new, port

\* GetInstance keeps the ports apart, whether it finds or starts an instance.
LEMMA GetInstancePorts ==
  ASSUME NEW T \in Seq(Instance), Distinct(T), OnSlots(T),
         NEW W \in Seq(World), OnSlots(W), NEW zone
  PROVE  LET g == GetInstance(T, W, zone)
         IN  Distinct(g.tbl) /\ OnSlots(g.tbl) /\ OnSlots(g.world)
<1>1. CASE FindJoinable(T, zone) # 0
  BY <1>1 DEF GetInstance
<1>2. CASE FindJoinable(T, zone) = 0
  BY <1>2, NewPort DEF GetInstance
<1>3. QED BY <1>1, <1>2

\* Parking requests changes no port.
LEMMA ParkedPorts ==
  ASSUME NEW T \in Seq(Instance), NEW k \in 1..Len(T), NEW rs
  PROVE  SamePorts(T, Pend(T, k, rs)) /\ SamePorts(T, Affirm(T, k, rs))
<1>1. \A j \in 1..Len(T) : T[j] \in Instance
  OBVIOUS
<1>2. \A i \in Instance : \A x :
        /\ [i EXCEPT !.pendingRequests = x].port = i.port
        /\ [i EXCEPT !.pendingAffirmations = x].port = i.port
  BY DEF Instance
<1>3. QED BY <1>1, <1>2 DEF SamePorts, Pend, Affirm

\* Routing requests keeps the ports apart.
LEMMA RoutePorts ==
  ASSUME NEW T \in Seq(Instance), Distinct(T), OnSlots(T),
         NEW W \in Seq(World), Len(W) <= MaxWorlds, OnSlots(W),
         NEW zone \in Zones, CanGetInstance(T, W, zone), NEW rs
  PROVE  LET r == Route(T, W, zone, rs)
         IN  Distinct(r.tbl) /\ OnSlots(r.tbl) /\ OnSlots(r.world)
<1> DEFINE g    == GetInstance(T, W, zone)
           asks == [n \in DOMAIN rs |-> IdMsg("AFFIRM_TRANSFER_REQUEST", rs[n].id)]
<1>1. Distinct(g.tbl) /\ OnSlots(g.tbl) /\ OnSlots(g.world)
  BY GetInstancePorts
<1>2. g.tbl \in Seq(Instance) /\ g.at \in 1..Len(g.tbl) /\ g.world \in Seq(World)
  BY GetInstanceType
<1>3. Route(T, W, zone, rs) =
        IF g.tbl[g.at].ready
        THEN [tbl   |-> Affirm(g.tbl, g.at, rs),
              world |-> SendToWorld(g.world, g.tbl[g.at].sysAddr, asks)]
        ELSE [tbl |-> Pend(g.tbl, g.at, rs), world |-> g.world]
  BY DEF Route
<1> HIDE DEF g, asks
<1>4. /\ SamePorts(g.tbl, Affirm(g.tbl, g.at, rs)) /\ SamePorts(g.tbl, Pend(g.tbl, g.at, rs))
      /\ SamePorts(g.world, SendToWorld(g.world, g.tbl[g.at].sysAddr, asks))
  BY <1>2, ParkedPorts, SendToWorldPorts
<1>5. QED BY <1>1, <1>3, <1>4, SamePortsKeep

\* Redirecting affirmations, which may start an instance, keeps the ports apart.
LEMMA RedirectPorts ==
  ASSUME NEW T \in Seq(Instance), Distinct(T), OnSlots(T),
         NEW W \in Seq(World), Len(W) <= MaxWorlds, OnSlots(W),
         NEW k \in 1..Len(T), CanRedirect(T, W, k)
  PROVE  LET r == Redirect(T, W, k)
         IN  Distinct(r.tbl) /\ OnSlots(r.tbl) /\ OnSlots(r.world)
<1>1. T[k].zone \in Zones
  <2>1. T[k] \in Instance
    OBVIOUS
  <2>2. QED BY <2>1 DEF Instance
<1>2. QED BY <1>1, RoutePorts DEF Redirect, CanRedirect

\* Removing an instance keeps the ports apart.
LEMMA RemoveAtPorts ==
  ASSUME NEW T \in Seq(Instance), Distinct(T), OnSlots(T), NEW k \in 1..Len(T)
  PROVE  Distinct(RemoveAt(T, k)) /\ OnSlots(RemoveAt(T, k))
<1> DEFINE U == RemoveAt(T, k)
<1>0. Len(T) \in Nat
  OBVIOUS
<1>1. /\ Len(U) = Len(T) - 1
      /\ \A j \in 1..Len(T)-1 : U[j] = IF j < k THEN T[j] ELSE T[j + 1]
  BY RemoveAtProperties, Zenon
<1> HIDE DEF U
<1>2. \A j \in 1..Len(U) : U[j] = IF j < k THEN T[j] ELSE T[j + 1]
  BY <1>1
<1>3. \A j \in 1..Len(U) : j \in 1..Len(T) /\ j + 1 \in 1..Len(T)
  BY <1>0, <1>1
<1>4. OnSlots(U)
  BY <1>2, <1>3 DEF OnSlots
<1>5. Distinct(U)
  <2>1. SUFFICES ASSUME NEW m \in 1..Len(U), NEW n \in 1..Len(U), m # n
                 PROVE  U[m].port # U[n].port
    BY DEF Distinct
  <2> DEFINE a == IF m < k THEN m ELSE m + 1
             b == IF n < k THEN n ELSE n + 1
  <2>2. U[m] = T[a] /\ U[n] = T[b]
    BY <1>2
  <2>3. a \in 1..Len(T) /\ b \in 1..Len(T)
    BY <1>3
  <2>4. a # b
    BY <1>0, <1>1, <2>1
  <2> HIDE DEF a, b
  <2>5. QED BY <2>2, <2>3, <2>4 DEF Distinct
<1>6. QED BY <1>4, <1>5 DEF U

\* Pruning the table keeps the ports apart.
LEMMA PrunePorts ==
  ASSUME NEW T \in Seq(Instance), Distinct(T), OnSlots(T)
  PROVE  Distinct(Prune(T)) /\ OnSlots(Prune(T))
<1> DEFINE U == Prune(T)
           R == {j \in 1..Len(T) : T[j].ready}
<1>1. \A n \in 1..Len(U) : \E k \in 1..Len(T) : U[n] = T[k] /\ Cardinality(Upto(R, k)) = n
  BY PruneProperties
<1> HIDE DEF U, R
<1>2. OnSlots(U)
  BY <1>1 DEF OnSlots
<1>3. Distinct(U)
  <2>1. SUFFICES ASSUME NEW m \in 1..Len(U), NEW n \in 1..Len(U), m # n
                 PROVE  U[m].port # U[n].port
    BY DEF Distinct
  <2>2. PICK j \in 1..Len(T) : U[m] = T[j] /\ Cardinality(Upto(R, j)) = m
    BY <1>1
  <2>3. PICK k \in 1..Len(T) : U[n] = T[k] /\ Cardinality(Upto(R, k)) = n
    BY <1>1
  <2>4. j # k
    BY <2>1, <2>2, <2>3
  <2>5. QED BY <2>2, <2>3, <2>4 DEF Distinct
<1>4. QED BY <1>2, <1>3 DEF U
\* A step that keeps the ports of the table and of the worlds.
LEMMA PortsKept ==
  ASSUME PortsInv, SamePorts(m_Instances, m_Instances'), SamePorts(world, world')
  PROVE  PortsInv'
BY SamePortsKeep DEF PortsInv

\* Overwriting an instance by one with the same port changes no port.
LEMMA UpdatePorts ==
  ASSUME NEW T \in Seq(Instance), NEW k \in 1..Len(T), NEW i, i.port = T[k].port
  PROVE  SamePorts(T, [T EXCEPT ![k] = i])
BY DEF SamePorts

\* What the handlers write into an instance of the table is never its port.
LEMMA FieldPorts ==
  ASSUME NEW T \in Seq(Instance), NEW k \in 1..Len(T)
  PROVE  /\ \A x : SamePorts(T, [T EXCEPT ![k].sysAddr = x])
         /\ \A x : SamePorts(T, [T EXCEPT ![k].clients = x])
         /\ \A x : SamePorts(T, [T EXCEPT ![k].shuttingDown = x])
         /\ \A x : SamePorts(T, [T EXCEPT ![k].shutdownComplete = x])
         /\ \A x, y : SamePorts(T, [T EXCEPT ![k].ready = x, ![k].pendingRequests = y])
         /\ \A x, y : SamePorts(T, [T EXCEPT ![k].pendingAffirmations = x,
                                              ![k].affirmTimedOut = y])
         /\ \A x, y : SamePorts(T, [T EXCEPT ![k].shuttingDown = x, ![k].affirmTimedOut = y])
<1>1. T[k] \in Instance
  OBVIOUS
<1>2. ASSUME NEW x PROVE SamePorts(T, [T EXCEPT ![k].sysAddr = x])
  <2> DEFINE new == [T[k] EXCEPT !.sysAddr = x]
  <2>1. new.port = T[k].port
    BY <1>1 DEF Instance
  <2> HIDE DEF new
  <2>2. SamePorts(T, [T EXCEPT ![k] = new])
    BY <2>1, UpdatePorts
  <2>3. QED BY <2>2 DEF new
<1>3. ASSUME NEW x PROVE SamePorts(T, [T EXCEPT ![k].clients = x])
  <2> DEFINE new == [T[k] EXCEPT !.clients = x]
  <2>1. new.port = T[k].port
    BY <1>1 DEF Instance
  <2> HIDE DEF new
  <2>2. SamePorts(T, [T EXCEPT ![k] = new])
    BY <2>1, UpdatePorts
  <2>3. QED BY <2>2 DEF new
<1>4. ASSUME NEW x PROVE SamePorts(T, [T EXCEPT ![k].shuttingDown = x])
  <2> DEFINE new == [T[k] EXCEPT !.shuttingDown = x]
  <2>1. new.port = T[k].port
    BY <1>1 DEF Instance
  <2> HIDE DEF new
  <2>2. SamePorts(T, [T EXCEPT ![k] = new])
    BY <2>1, UpdatePorts
  <2>3. QED BY <2>2 DEF new
<1>5. ASSUME NEW x PROVE SamePorts(T, [T EXCEPT ![k].shutdownComplete = x])
  <2> DEFINE new == [T[k] EXCEPT !.shutdownComplete = x]
  <2>1. new.port = T[k].port
    BY <1>1 DEF Instance
  <2> HIDE DEF new
  <2>2. SamePorts(T, [T EXCEPT ![k] = new])
    BY <2>1, UpdatePorts
  <2>3. QED BY <2>2 DEF new
<1>6. ASSUME NEW x, NEW y
      PROVE  SamePorts(T, [T EXCEPT ![k].ready = x, ![k].pendingRequests = y])
  <2> DEFINE new == [T[k] EXCEPT !.ready = x, !.pendingRequests = y]
  <2>1. new.port = T[k].port
    BY <1>1 DEF Instance
  <2> HIDE DEF new
  <2>2. SamePorts(T, [T EXCEPT ![k] = new])
    BY <2>1, UpdatePorts
  <2>3. [T EXCEPT ![k].ready = x, ![k].pendingRequests = y] = [T EXCEPT ![k] = new]
    BY <1>1 DEF new
  <2>4. QED BY <2>2, <2>3
<1>7. ASSUME NEW x, NEW y
      PROVE  SamePorts(T, [T EXCEPT ![k].pendingAffirmations = x, ![k].affirmTimedOut = y])
  <2> DEFINE new == [T[k] EXCEPT !.pendingAffirmations = x, !.affirmTimedOut = y]
  <2>1. new.port = T[k].port
    BY <1>1 DEF Instance
  <2> HIDE DEF new
  <2>2. SamePorts(T, [T EXCEPT ![k] = new])
    BY <2>1, UpdatePorts
  <2>3. [T EXCEPT ![k].pendingAffirmations = x, ![k].affirmTimedOut = y] = [T EXCEPT ![k] = new]
    BY <1>1 DEF new
  <2>4. QED BY <2>2, <2>3
<1>8. ASSUME NEW x, NEW y
      PROVE  SamePorts(T, [T EXCEPT ![k].shuttingDown = x, ![k].affirmTimedOut = y])
  <2> DEFINE new == [T[k] EXCEPT !.shuttingDown = x, !.affirmTimedOut = y]
  <2>1. new.port = T[k].port
    BY <1>1 DEF Instance
  <2> HIDE DEF new
  <2>2. SamePorts(T, [T EXCEPT ![k] = new])
    BY <2>1, UpdatePorts
  <2>3. [T EXCEPT ![k].shuttingDown = x, ![k].affirmTimedOut = y] = [T EXCEPT ![k] = new]
    BY <1>1 DEF new
  <2>4. QED BY <2>2, <2>3
<1>9. QED BY <1>2, <1>3, <1>4, <1>5, <1>6, <1>7, <1>8

\* Taking a packet off a channel changes no port.
LEMMA TakenPorts ==
  ASSUME TypeOK, NEW p \in 1..Len(world)
  PROVE  SamePorts(world, Taken(p))
<1>1. world \in Seq(World) /\ world[p] \in World
  BY DEF TypeOK
<1>2. Taken(p) = [world EXCEPT ![p] = [world[p] EXCEPT !.out = Tail(world[p].out)]]
  BY DEF Taken
<1>3. [world[p] EXCEPT !.out = Tail(world[p].out)].port = world[p].port
  BY <1>1 DEF World
<1>4. QED BY <1>1, <1>2, <1>3 DEF SamePorts

\* The steps of the world processes keep the ports apart.
LEMMA WorldStepPorts ==
  ASSUME TypeOK, PortsInv, NEW p \in DOMAIN world, WorldStep(p)
  PROVE  PortsInv'
<1> DEFINE w == world[p]
<1>0. p \in 1..Len(world) /\ w \in World /\ world \in Seq(World)
  BY TypeFacts DEF TypeOK
<1>1. UNCHANGED m_Instances
  BY DEF WorldStep, UnchangedByWorld, WorldConnect, WorldReceive, WorldExit, WorldGivesUp,
         WorldFailsToStart, WorldCrash, ConnectionLost, PlayerEnters, PlayerLeaves,
         PlayerEntersTooLate, PlayerLeavesUnreported, masterVars
<1>2. SUFFICES \E v : v.port = w.port /\ world' = [world EXCEPT ![p] = v]
  <2>1. ASSUME NEW v, v.port = w.port, world' = [world EXCEPT ![p] = v]
        PROVE  SamePorts(world, world')
    BY <1>0, <2>1 DEF SamePorts
  <2>2. SamePorts(m_Instances, m_Instances')
    BY <1>1 DEF SamePorts
  <2>3. QED BY <2>1, <2>2, PortsKept
<1>3. CASE WorldConnect(p)
  BY <1>0, <1>3, WorldOpsPort DEF WorldConnect
<1>4. CASE WorldReceive(p)
  <2> DEFINE m == Head(w.in)
             u == [w EXCEPT !.in = Tail(w.in)]
  <2>1. world' = [world EXCEPT ![p] =
                    IF m.kind = "SHUTDOWN" THEN Exited(u)
                    ELSE SendToMaster(u, IdMsg("AFFIRM_TRANSFER_RESPONSE", m.id))]
    BY <1>4 DEF WorldReceive
  <2>2. u \in World /\ u.port = w.port
    <3>1. w.in \in Seq(ToWorldMsg) /\ w.in # <<>>
      BY <1>0, <1>4, WorldFields DEF WorldReceive
    <3>2. Tail(w.in) \in Seq(ToWorldMsg)
      BY <3>1
    <3>3. QED BY <1>0, <3>2 DEF World
  <2> HIDE DEF u, m
  <2>3. /\ Exited(u).port = w.port
        /\ SendToMaster(u, IdMsg("AFFIRM_TRANSFER_RESPONSE", m.id)).port = w.port
    BY <2>2, WorldOpsPort
  <2>4. QED BY <2>1, <2>3
<1>5. CASE WorldExit(p) \/ WorldGivesUp(p)
  BY <1>0, <1>5, WorldOpsPort DEF WorldExit, WorldGivesUp
<1>6. CASE WorldFailsToStart(p)
  <2>1. world' = [world EXCEPT ![p] = [w EXCEPT !.running = FALSE]]
    BY <1>6 DEF WorldFailsToStart
  <2>2. [w EXCEPT !.running = FALSE].port = w.port
    BY <1>0 DEF World
  <2>3. QED BY <2>1, <2>2
<1>7. CASE WorldCrash(p)
  <2>1. PICK n \in 0..Len(w.out) :
          world' = [world EXCEPT ![p] = [Dropped(w, n) EXCEPT !.running = FALSE, !.players = 0]]
    BY <1>7 DEF WorldCrash
  <2>2. Dropped(w, n) \in World /\ Dropped(w, n).port = w.port
    BY <1>0, DroppedType, WorldOpsPort
  <2>3. [Dropped(w, n) EXCEPT !.running = FALSE, !.players = 0].port = w.port
    BY <2>2 DEF World
  <2>4. QED BY <2>1, <2>3
<1>8. CASE ConnectionLost(p)
  <2>1. PICK n \in 0..Len(w.out) : world' = [world EXCEPT ![p] = Dropped(w, n)]
    BY <1>8 DEF ConnectionLost
  <2>2. QED BY <1>0, <2>1, WorldOpsPort
<1>9. CASE PlayerEnters(p) \/ PlayerEntersTooLate(p) \/ PlayerLeaves(p)
  BY <1>0, <1>9, WorldOpsPort DEF PlayerEnters, PlayerEntersTooLate, PlayerLeaves
<1>10. CASE PlayerLeavesUnreported(p)
  <2>1. world' = [world EXCEPT ![p] = [w EXCEPT !.players = w.players - 1]]
    BY <1>10 DEF PlayerLeavesUnreported
  <2>2. [w EXCEPT !.players = w.players - 1].port = w.port
    BY <1>0 DEF World
  <2>3. QED BY <2>1, <2>2
<1>11. QED BY <1>3, <1>4, <1>5, <1>6, <1>7, <1>8, <1>9, <1>10 DEF WorldStep

\* The master's packet handlers keep the ports apart: SERVER_INFO adds an
\* instance only on a port that is not in use.
LEMMA MasterReceivePorts ==
  ASSUME TypeOK, PortsInv, NEW p \in DOMAIN world, MasterReceive(p)
  PROVE  PortsInv'
<1> DEFINE T == m_Instances
           map == world[p].zone.map
<1>0. /\ p \in 1..Len(world) /\ world[p] \in World /\ T \in Seq(Instance)
      /\ world \in Seq(World) /\ Len(world) <= MaxWorlds
  BY TypeFacts DEF TypeOK
<1>1. SamePorts(world, Taken(p))
  BY <1>0, TakenPorts
<1>2. Distinct(T) /\ OnSlots(T) /\ OnSlots(world) /\ OnSlots(Taken(p))
  BY <1>1, SamePortsKeep DEF PortsInv
<1>3. SamePorts(T, T)
  BY DEF SamePorts
<1>a. \A k \in 1..Len(T) : T[k] \in Instance
  BY <1>0
<1>4. CASE HandleServerInfo(p)
  <2> DEFINE k   == FindInstanceWithPrivate(T, map, p)
             new == NewInstance([world[p].zone EXCEPT !.clone = 0], p, world[p].port,
                                ReAddedCap, NoPassword, p)
  <2>1. k \in 0..Len(T)
    BY <1>0, FindInstanceWithPrivateFinds
  <2>2. /\ world' = Taken(p)
        /\ T' = IF ~ IsPortInUse(T, world[p].port) THEN Append(T, new)
                ELSE IF k # 0 THEN [T EXCEPT ![k].sysAddr = p] ELSE T
    BY <1>4 DEF HandleServerInfo
  <2>3. new.port = world[p].port /\ world[p].port \in Slots
    BY <1>0, <1>2 DEF NewInstance, OnSlots
  <2> HIDE DEF k, new
  <2>4. CASE ~ IsPortInUse(T, world[p].port)
    <3>1. \A j \in 1..Len(T) : T[j].port # world[p].port
      BY <1>0, <2>4 DEF IsPortInUse
    <3>2. /\ Len(Append(T, new)) = Len(T) + 1 /\ Len(T) \in Nat
          /\ Append(T, new)[Len(T) + 1] = new
          /\ \A j \in 1..Len(T) : Append(T, new)[j] = T[j]
      BY <1>0
    <3>3. T' = Append(T, new)
      BY <2>2, <2>4
    <3>4. Distinct(T') /\ OnSlots(T')
      BY <1>2, <2>3, <3>1, <3>2, <3>3 DEF Distinct, OnSlots
    <3>5. QED BY <1>2, <2>2, <3>4 DEF PortsInv
  <2>5. CASE IsPortInUse(T, world[p].port)
    <3>1. k # 0 => SamePorts(T, [T EXCEPT ![k].sysAddr = p])
      <4>1. k # 0 => k \in 1..Len(T)
        BY <1>0, <2>1
      <4>2. QED BY <1>0, <4>1, FieldPorts, Zenon
    <3>2. SamePorts(T, T')
      BY <1>3, <2>2, <2>5, <3>1
    <3>3. QED BY <1>1, <2>2, <3>2, PortsKept
  <2>6. QED BY <2>4, <2>5
<1>5. CASE HandleWorldReady(p)
  <2> DEFINE k == FindInstanceWithPrivate(T, map, p)
  <2>1. k \in 0..Len(T)
    BY <1>0, FindInstanceWithPrivateFinds
  <2>2. /\ world' = Taken(p)
        /\ T' = T \/ (k # 0 /\ T' = [T EXCEPT ![k].ready = TRUE, ![k].pendingRequests = <<>>])
    BY <1>5 DEF HandleWorldReady
  <2> HIDE DEF k
  <2>3. k # 0 => SamePorts(T, [T EXCEPT ![k].ready = TRUE, ![k].pendingRequests = <<>>])
    <3>1. k # 0 => k \in 1..Len(T)
      BY <1>0, <2>1
    <3>2. QED BY <1>0, <3>1, FieldPorts, Zenon
  <2>4. QED BY <1>1, <1>3, <2>2, <2>3, PortsKept
<1>6. CASE HandleAffirmTransfer(p)
  <2> DEFINE k  == GetInstanceBySysAddr(T, p)
             rs == T[k].pendingAffirmations
             n  == PendingIndex(rs, Head(world[p].out).id)
  <2>1. k \in 0..Len(T)
    BY <1>0, GetInstanceBySysAddrFinds
  <2>2. /\ world' = Taken(p)
        /\ T' = T \/ (k # 0 /\ T' = [T EXCEPT ![k].pendingAffirmations = RemoveAt(rs, n),
                                              ![k].affirmTimedOut = @ /\ Len(rs) > 1])
    BY <1>6 DEF HandleAffirmTransfer
  <2> HIDE DEF k, rs, n
  <2>3. SamePorts(T, T')
    <3>1. k # 0 => SamePorts(T, [T EXCEPT ![k].pendingAffirmations = RemoveAt(rs, n),
                                          ![k].affirmTimedOut = @ /\ Len(rs) > 1])
      <4>1. k # 0 => k \in 1..Len(T)
        BY <1>0, <2>1
      <4>2. QED BY <1>0, <4>1, FieldPorts, Zenon
    <3>2. QED BY <1>3, <2>2, <3>1
  <2>4. QED BY <1>1, <2>2, <2>3, PortsKept
<1>7. CASE HandlePlayerAdded(p) \/ HandlePlayerRemoved(p)
  <2> DEFINE k == FindInstanceWithPrivate(T, map, p)
             l == FindPublicInstance(T, map, p)
  <2>1. k \in 0..Len(T) /\ l \in 0..Len(T)
    BY <1>0, FindInstanceWithPrivateFinds, FindPublicInstanceFinds
  <2>2. /\ world' = Taken(p)
        /\ \/ T' = T
           \/ k # 0 /\ T' = [T EXCEPT ![k].clients = @ + 1]
           \/ l # 0 /\ T' = [T EXCEPT ![l].clients = RemovePlayer(@)]
    BY <1>7 DEF HandlePlayerAdded, HandlePlayerRemoved
  <2> HIDE DEF k, l
  <2>a. (k # 0 => k \in 1..Len(T)) /\ (l # 0 => l \in 1..Len(T))
    BY <1>0, <2>1
  <2>3. k # 0 => SamePorts(T, [T EXCEPT ![k].clients = @ + 1])
    BY <1>0, <2>a, FieldPorts, Zenon
  <2>4. l # 0 => SamePorts(T, [T EXCEPT ![l].clients = RemovePlayer(@)])
    BY <1>0, <2>a, FieldPorts, Zenon
  <2>5. QED BY <1>1, <1>3, <2>2, <2>3, <2>4, PortsKept
<1>8. CASE HandleShutdownResponse(p)
  <2> DEFINE k == GetInstanceBySysAddr(T, p)
  <2>1. k \in 0..Len(T) /\ world' = Taken(p)
        /\ T' = IF k = 0 THEN T ELSE [T EXCEPT ![k].shuttingDown = TRUE]
    BY <1>0, <1>8, GetInstanceBySysAddrFinds DEF HandleShutdownResponse
  <2> HIDE DEF k
  <2>2. k # 0 => SamePorts(T, [T EXCEPT ![k].shuttingDown = TRUE])
    <3>1. k # 0 => k \in 1..Len(T)
      BY <1>0, <2>1
    <3>2. QED BY <1>0, <3>1, FieldPorts, Zenon
  <2>3. SamePorts(T, T')
    BY <1>3, <2>1, <2>2
  <2>4. QED BY <1>1, <2>1, <2>3, PortsKept
<1>9. CASE HandleDisconnected(p)
  <2> DEFINE k == GetInstanceBySysAddr(T, p)
             U == [T EXCEPT ![k].shutdownComplete = TRUE]
             r == Redirect(U, Taken(p), k)
  <2>1. k \in 0..Len(T)
    BY <1>0, GetInstanceBySysAddrFinds
  <2>2. CASE k = 0
    <3>1. T' = T /\ world' = Taken(p)
      BY <1>9, <2>2 DEF HandleDisconnected
    <3>2. QED BY <1>1, <1>3, <3>1, PortsKept
  <2>3. CASE k # 0
    <3>1. U \in Seq(Instance) /\ Len(U) = Len(T) /\ SamePorts(T, U)
      <4> HIDE DEF k
      <4>1. T[k] \in Instance
        BY <1>a, <2>1, <2>3
      <4> DEFINE new == [T[k] EXCEPT !.shutdownComplete = TRUE]
      <4>2. new \in Instance
        BY <4>1 DEF Instance
      <4>3. U = [T EXCEPT ![k] = new]
        OBVIOUS
      <4> HIDE DEF new, U
      <4>4. U \in Seq(Instance) /\ Len(U) = Len(T)
        BY <1>0, <2>1, <2>3, <4>2, <4>3, UpdateType
      <4>5. SamePorts(T, U)
        <5>1. SamePorts(T, [T EXCEPT ![k].shutdownComplete = TRUE])
          <6>1. k \in 1..Len(T)
            BY <1>0, <2>1, <2>3
          <6>2. QED BY <1>0, <6>1, FieldPorts, Zenon
        <5>2. QED BY <5>1 DEF U
      <4>6. QED BY <4>4, <4>5 DEF U
    <3>2. Distinct(U) /\ OnSlots(U)
      BY <1>2, <3>1, SamePortsKeep
    <3>3. CASE m_IsShuttingDown
      <4>1. T' = RemoveAt(U, k) /\ world' = Taken(p)
        BY <1>9, <2>3, <3>3 DEF HandleDisconnected
      <4> HIDE DEF U, k
      <4>2. Distinct(T') /\ OnSlots(T')
        BY <2>1, <2>3, <3>1, <3>2, <4>1, RemoveAtPorts
      <4>3. QED BY <1>2, <4>1, <4>2 DEF PortsInv
    <3>4. CASE ~ m_IsShuttingDown
      <4>1. CanRedirect(U, world, k) /\ T' = RemoveAt(r.tbl, k) /\ world' = r.world
        BY <1>9, <2>3, <3>4 DEF HandleDisconnected
      <4>2. world[p].out # <<>>
        BY <1>9 DEF HandleDisconnected, Receives
      <4>3. Taken(p) \in Seq(World) /\ Len(Taken(p)) = Len(world)
        BY <1>0, <4>2, TakenType
      <4>4. CanRedirect(U, Taken(p), k)
        BY <4>1, <4>3 DEF CanRedirect, CanGetInstance
      <4> HIDE DEF k, U
      <4>5. Distinct(r.tbl) /\ OnSlots(r.tbl) /\ OnSlots(r.world)
        BY <1>0, <1>2, <2>1, <2>3, <3>1, <3>2, <4>3, <4>4, RedirectPorts
      <4>6. r.tbl \in Seq(Instance) /\ Len(U) <= Len(r.tbl)
        BY <1>0, <2>1, <2>3, <3>1, <4>3, <4>4, RedirectType
      <4> HIDE DEF r
      <4>7. k \in 1..Len(r.tbl)
        BY <1>0, <2>1, <2>3, <3>1, <4>6
      <4>8. Distinct(T') /\ OnSlots(T')
        BY <4>1, <4>5, <4>6, <4>7, RemoveAtPorts
      <4>9. QED BY <4>1, <4>5, <4>8 DEF PortsInv
    <3>5. QED BY <3>3, <3>4
  <2>4. QED BY <2>2, <2>3
<1>10. QED BY <1>4, <1>5, <1>6, <1>7, <1>8, <1>9 DEF MasterReceive

\* Requests, commands, timeouts and the shutdown sequence keep the ports apart.
LEMMA MasterPorts ==
  ASSUME TypeOK, PortsInv,
         \/ \E s \in Servers : ServerStep(s)
         \/ Command
         \/ \E k \in DOMAIN m_Instances : AffirmationTimeout(k)
         \/ ShutdownSequence
  PROVE  PortsInv'
<1>0. /\ m_Instances \in Seq(Instance) /\ world \in Seq(World) /\ Len(world) <= MaxWorlds
      /\ Distinct(m_Instances) /\ OnSlots(m_Instances) /\ OnSlots(world)
  BY DEF TypeOK, PortsInv
<1>1. CASE UNCHANGED <<m_Instances, world>>
  BY <1>0, <1>1 DEF PortsInv
<1>2. ASSUME NEW s \in Servers, NEW zone \in Zones, RequestZoneTransfer(s, zone)
      PROVE  PortsInv'
  <2>1. CASE m_IsShuttingDown
    BY <1>1, <1>2, <2>1 DEF RequestZoneTransfer
  <2>2. CASE ~ m_IsShuttingDown
    BY <1>0, <1>2, <2>2, RoutePorts DEF RequestZoneTransfer, PortsInv
  <2>3. QED BY <2>1, <2>2
<1>3. ASSUME NEW s \in Servers,
             HandleZoneTransferResponse(s) \/ \E pw \in Passwords : RequestPrivateZone(s, pw)
      PROVE  PortsInv'
  BY <1>1, <1>3 DEF HandleZoneTransferResponse, RequestPrivateZone, masterVars
<1>4. ASSUME NEW zone \in Zones, PrepZone(zone) PROVE PortsInv'
  BY <1>0, <1>4, GetInstancePorts DEF PrepZone, PortsInv
<1>5. ASSUME NEW zone \in Zones, NEW pw \in Passwords, CreatePrivateZone(zone, pw)
      PROVE  PortsInv'
  <2>1. CASE FindPrivateInstance(m_Instances, pw) # 0
    BY <1>1, <1>5, <2>1 DEF CreatePrivateZone
  <2>2. CASE FindPrivateInstance(m_Instances, pw) = 0
    BY <1>0, <1>5, <2>2, NewPort DEF CreatePrivateZone, PortsInv
  <2>3. QED BY <2>1, <2>2
<1>6. ASSUME NEW map, NEW id, ShutdownInstance(map, id) PROVE PortsInv'
  <2>1. SamePorts(world, world') /\ UNCHANGED m_Instances
    BY <1>0, <1>6, SendToWorldPorts DEF ShutdownInstance, masterVars
  <2>2. QED BY <2>1, PortsKept DEF SamePorts
<1>7. ASSUME NEW k \in DOMAIN m_Instances, AffirmationTimeout(k) PROVE PortsInv'
  <2> DEFINE T == [m_Instances EXCEPT ![k].shuttingDown = TRUE, ![k].affirmTimedOut = TRUE]
             W == SendToWorld(world, T[k].sysAddr, <<Msg("SHUTDOWN")>>)
  <2>1. k \in 1..Len(m_Instances) /\ m_Instances[k] \in Instance
    BY <1>0
  <2>2. T \in Seq(Instance) /\ Len(T) = Len(m_Instances) /\ SamePorts(m_Instances, T)
    <3> DEFINE new == [m_Instances[k] EXCEPT !.shuttingDown = TRUE, !.affirmTimedOut = TRUE]
    <3>1. new \in Instance
      BY <2>1 DEF Instance
    <3>2. T = [m_Instances EXCEPT ![k] = new]
      BY <1>0, <2>1
    <3>3. SamePorts(m_Instances, T)
      BY <1>0, <2>1, FieldPorts
    <3> HIDE DEF T, new
    <3>4. QED BY <1>0, <2>1, <3>1, <3>2, <3>3, UpdateType
  <2>3. /\ CanRedirect(T, W, k)
        /\ m_Instances' = Redirect(T, W, k).tbl /\ world' = Redirect(T, W, k).world
    BY <1>7 DEF AffirmationTimeout
  <2>4. W \in Seq(World) /\ Len(W) = Len(world) /\ SamePorts(world, W)
    <3>1. T[k].sysAddr \in WorldIds \cup {Unassigned}
      <4> HIDE DEF T
      <4>1. T[k] \in Instance
        BY <2>1, <2>2
      <4>2. QED BY <4>1 DEF Instance
    <3>2. <<Msg("SHUTDOWN")>> \in Seq(ToWorldMsg)
      BY MsgTypes
    <3> HIDE DEF T
    <3>3. QED BY <1>0, <3>1, <3>2, SendToWorldType, SendToWorldPorts
  <2> HIDE DEF T, W
  <2>5. Distinct(T) /\ OnSlots(T) /\ OnSlots(W)
    BY <1>0, <2>2, <2>4, SamePortsKeep
  <2>6. QED BY <1>0, <2>1, <2>2, <2>3, <2>4, <2>5, RedirectPorts DEF PortsInv
<1>8. CASE ShutdownSequence
  <2> DEFINE left == Prune(m_Instances)
  <2>1. left \in Seq(Instance) /\ Distinct(left) /\ OnSlots(left)
    BY <1>0, PruneProperties, PrunePorts
  <2>2. m_Instances' = [k \in DOMAIN left |-> [left[k] EXCEPT !.shuttingDown = TRUE]]
    BY <1>8 DEF ShutdownSequence
  <2> HIDE DEF left
  <2>3. \A k \in 1..Len(left) : left[k] \in Instance
    BY <2>1
  <2>4. \A k \in 1..Len(left) : [left[k] EXCEPT !.shuttingDown = TRUE].port = left[k].port
    BY <2>3 DEF Instance
  <2>5. DOMAIN left = 1..Len(left) /\ Len(left) \in Nat
    BY <2>1
  <2>6. SamePorts(left, m_Instances')
    <3> DEFINE f(k) == [left[k] EXCEPT !.shuttingDown = TRUE]
    <3>1. m_Instances' = [k \in 1..Len(left) |-> f(k)]
      BY <2>2, <2>5
    <3>2. \A k \in 1..Len(left) : f(k).port = left[k].port
      BY <2>4
    <3> HIDE DEF f
    <3>3. QED BY <2>5, <3>1, <3>2 DEF SamePorts
  <2>7. SamePorts(world, world')
    <3> DEFINE f(p) == IF world[p].connected
                       THEN [world[p] EXCEPT !.in = Append(@, Msg("SHUTDOWN"))] ELSE world[p]
    <3>1. world' = [p \in 1..Len(world) |-> f(p)] /\ Len(world) \in Nat
      BY <1>0, <1>8 DEF ShutdownSequence
    <3>2. \A p \in 1..Len(world) : world[p] \in World
      BY <1>0
    <3>3. \A p \in 1..Len(world) : f(p).port = world[p].port
      BY <3>2 DEF World
    <3> HIDE DEF f
    <3>4. QED BY <3>1, <3>3 DEF SamePorts
  <2>8. QED BY <1>0, <2>1, <2>6, <2>7, SamePortsKeep DEF PortsInv
<1>9. QED BY <1>2, <1>3, <1>4, <1>5, <1>6, <1>7, <1>8 DEF ServerStep, Command

\* Every step.
LEMMA PortsStep == TypeOK /\ PortsInv /\ [Next]_vars => PortsInv'
<1>1. SUFFICES ASSUME TypeOK, PortsInv, [Next]_vars PROVE PortsInv'
  OBVIOUS
<1>2. CASE \E p \in DOMAIN world : WorldStep(p) \/ MasterReceive(p)
  BY <1>1, <1>2, WorldStepPorts, MasterReceivePorts
<1>3. CASE UNCHANGED vars
  BY <1>1, <1>3 DEF PortsInv, vars, masterVars
<1>4. QED BY <1>1, <1>2, <1>3, MasterPorts DEF Next

\* The table is empty at first.
LEMMA InitPorts == Init => PortsInv
BY DEF Init, PortsInv, Distinct, OnSlots

\* GetFreePort never gives a port that an instance of the table uses, whatever
\* the order in which instances are started, removed and added back (the ports in
\* use always lie on the grid PortStart + 3n, which the search depends on).
THEOREM PortsStayDistinct == Spec => []PortsDistinct
<1>1. TypeOK /\ PortsInv => PortsDistinct
  <2>1. TypeOK => DOMAIN m_Instances = 1..Len(m_Instances)
    BY DEF TypeOK
  <2>2. QED BY <2>1 DEF PortsInv, Distinct, PortsDistinct
<1>2. QED BY <1>1, InitPorts, PortsStep, TypeCorrect, PTL DEF Spec
=============================================================================
