-------------------------- MODULE ChatTeamsProofs --------------------------
(***************************************************************************)
(* Proofs about the chat server, for every number of players, teams,       *)
(* worlds and notices in flight.  A team has one to four members, nobody   *)
(* twice, and an id of its own; a world's copies have members to share     *)
(* loot among, and agree with the teams once all updates have arrived; the *)
(* count of players never falls below them, and who is removed had logged  *)
(* out.                                                                    *)
(***************************************************************************)
EXTENDS ChatTeams, SequenceLemmas, FiniteSetTheorems

(***************************************************************************)
(* Teams                                                                   *)
(***************************************************************************)

\* The types of a team, of an update, and of a state of the container.
Team  == [id : Nat, leader : Players, members : Seq(Players), local : BOOLEAN, loot : {0, 1},
          zone : Zones \cup {NoZone}]
Told  == [id : Nat, deleted : BOOLEAN, loot : {0, 1}, members : Seq(Players)]
State == [teams : Seq(Team), next : Nat, sent : Seq(Told)]

Sized(m) == Len(m) \in 1..TeamSize /\ IsInjective(m)

\* The members of the team created last.
NewTeam(S) == S.teams[Len(S.teams)].members

Numbered(T, n) ==
  /\ \A k \in 1..Len(T) : T[k].id \in 1..n
  /\ \A j, k \in 1..Len(T) : T[j].id = T[k].id => j = k

Good(S) ==
  /\ S \in State
  /\ Numbered(S.teams, S.next)
  /\ \A k \in 1..Len(S.teams) : Sized(S.teams[k].members)

\* What the handlers find, and leave.
TeamsInv == Good([teams |-> mTeams, next |-> g_TeamIDCounter, sent |-> <<>>])

-----------------------------------------------------------------------------
(* Members *)

\* GetTeam returns nothing or a team of the list with this member.
LEMMA GetTeamFinds ==
  ASSUME NEW T \in Seq(Team), NEW p
  PROVE  GetTeam(T, p) \in 0..Len(T) /\ (GetTeam(T, p) # 0 => p \in ToSet(T[GetTeam(T, p)].members))
<1> DEFINE I == {k \in 1..Len(T) : p \in ToSet(T[k].members)}
<1>1. GetTeam(T, p) = IF I # {} THEN Min(I) ELSE 0
  BY DEF GetTeam, SelectInSeq
<1>2. I # {} => Min(I) \in I
  <2>1. I \in SUBSET (1..Len(T)) /\ Len(T) \in Nat
    OBVIOUS
  <2> HIDE DEF I
  <2>2. QED BY <2>1, MinIsMember
<1>3. QED BY <1>1, <1>2

\* The search for a member stays within the members.
LEMMA MemberFinds ==
  ASSUME NEW m \in Seq(Players), NEW p
  PROVE  MemberIndex(m, p) \in 0..Len(m)
<1> DEFINE I == {k \in 1..Len(m) : m[k] = p}
<1>1. MemberIndex(m, p) = IF I # {} THEN Min(I) ELSE 0
  BY DEF MemberIndex, SelectInSeq
<1>2. I # {} => Min(I) \in I
  <2>1. I \in SUBSET (1..Len(m)) /\ Len(m) \in Nat
    OBVIOUS
  <2> HIDE DEF I
  <2>2. QED BY <2>1, MinIsMember
<1>3. QED BY <1>1, <1>2

\* Erasing a member leaves the others, once each.
LEMMA EraseMember ==
  ASSUME NEW m \in Seq(Players), IsInjective(m), NEW i \in 1..Len(m)
  PROVE  /\ RemoveAt(m, i) \in Seq(Players)
         /\ Len(RemoveAt(m, i)) = Len(m) - 1
         /\ IsInjective(RemoveAt(m, i))
<1> DEFINE r == RemoveAt(m, i)
<1>1. /\ r \in Seq(Players) /\ Len(r) = Len(m) - 1
      /\ \A j \in 1..Len(m)-1 : r[j] = IF j < i THEN m[j] ELSE m[j+1]
  BY RemoveAtProperties
<1> HIDE DEF r
<1>2. DOMAIN r = 1..Len(m)-1 /\ DOMAIN m = 1..Len(m) /\ Len(m) \in Nat
  BY <1>1
<1>3. ASSUME NEW a \in 1..Len(m)-1, NEW b \in 1..Len(m)-1, r[a] = r[b]
      PROVE  a = b
  <2>1. r[a] = (IF a < i THEN m[a] ELSE m[a+1]) /\ r[b] = (IF b < i THEN m[b] ELSE m[b+1])
    BY <1>1
  <2>2. \A x, y \in 1..Len(m) : m[x] = m[y] => x = y
    BY <1>2 DEF IsInjective
  <2>3. a \in 1..Len(m) /\ b \in 1..Len(m) /\ a+1 \in 1..Len(m) /\ b+1 \in 1..Len(m)
    BY <1>2
  <2>4. CASE a < i /\ b < i
    BY <1>3, <2>1, <2>2, <2>3, <2>4
  <2>5. CASE a < i /\ ~ (b < i)
    <3>1. m[a] = m[b+1]
      BY <1>3, <2>1, <2>5
    <3>2. a = b + 1
      BY <2>2, <2>3, <3>1
    <3>3. QED BY <2>5, <3>2
  <2>6. CASE ~ (a < i) /\ b < i
    <3>1. m[a+1] = m[b]
      BY <1>3, <2>1, <2>6
    <3>2. a + 1 = b
      BY <2>2, <2>3, <3>1
    <3>3. QED BY <2>6, <3>2
  <2>7. CASE ~ (a < i) /\ ~ (b < i)
    <3>1. m[a+1] = m[b+1]
      BY <1>3, <2>1, <2>7
    <3>2. a + 1 = b + 1
      BY <2>2, <2>3, <3>1
    <3>3. QED BY <3>2
  <2>8. QED BY <2>4, <2>5, <2>6, <2>7
<1>4. IsInjective(r)
  BY <1>2, <1>3 DEF IsInjective
<1>5. QED BY <1>1, <1>4 DEF r

\* A member who is not there yet is there once when appended.
LEMMA AppendMember ==
  ASSUME NEW m \in Seq(Players), IsInjective(m), NEW p \in Players, p \notin ToSet(m)
  PROVE  /\ Append(m, p) \in Seq(Players) /\ Len(Append(m, p)) = Len(m) + 1
         /\ IsInjective(Append(m, p))
<1> DEFINE r == Append(m, p)
<1>1. /\ r \in Seq(Players) /\ Len(r) = Len(m) + 1
      /\ \A j \in 1..Len(m) : r[j] = m[j]
      /\ r[Len(m) + 1] = p
  OBVIOUS
<1> HIDE DEF r
<1>2. DOMAIN r = 1..Len(m)+1 /\ DOMAIN m = 1..Len(m) /\ Len(m) \in Nat
  BY <1>1
<1>3. \A j \in 1..Len(m) : m[j] # p
  BY <1>2 DEF ToSet
<1>4. ASSUME NEW a \in 1..Len(m)+1, NEW b \in 1..Len(m)+1, r[a] = r[b]
      PROVE  a = b
  <2>1. \A x, y \in 1..Len(m) : m[x] = m[y] => x = y
    BY <1>2 DEF IsInjective
  <2>2. QED BY <1>1, <1>2, <1>3, <1>4, <2>1
<1>5. IsInjective(r)
  BY <1>2, <1>4 DEF IsInjective
<1>6. QED BY <1>1, <1>5 DEF r

-----------------------------------------------------------------------------
(* Operators of the container *)

\* UpdateTeamsOnWorld only broadcasts.
LEMMA UpdateTeamsOnWorldGood ==
  ASSUME NEW S \in State, NEW k \in 1..Len(S.teams)
  PROVE  LET U == UpdateTeamsOnWorld(S, k)
         IN  U \in State /\ U.teams = S.teams /\ U.next = S.next
<1>1. S.teams[k] \in Team
  BY DEF State
<1> DEFINE u == [id |-> S.teams[k].id, deleted |-> FALSE, loot |-> S.teams[k].loot,
                 members |-> S.teams[k].members]
<1>2. u \in Told
  BY <1>1 DEF Team, Told
<1>3. UpdateTeamsOnWorld(S, k) = [S EXCEPT !.sent = Append(@, u)]
  BY DEF UpdateTeamsOnWorld
<1> HIDE DEF u
<1>4. Append(S.sent, u) \in Seq(Told)
  BY <1>2 DEF State
<1>5. QED BY <1>3, <1>4 DEF State

\* SetMembers changes the members of one team.
LEMMA SetMembersChanges ==
  ASSUME NEW S \in State, NEW k \in 1..Len(S.teams), NEW m \in Seq(Players)
  PROVE  LET U == SetMembers(S, k, m)
         IN  /\ U \in State /\ U.next = S.next /\ Len(U.teams) = Len(S.teams)
             /\ \A j \in 1..Len(S.teams) :
                  U.teams[j].id = S.teams[j].id
                  /\ U.teams[j].members = IF j = k THEN m ELSE S.teams[j].members
<1> DEFINE t == [S.teams[k] EXCEPT !.members = m]
           T == [S.teams EXCEPT ![k] = t]
<1>1. S.teams \in Seq(Team) /\ S.teams[k] \in Team
  BY DEF State
<1>2. t \in Team /\ t.id = S.teams[k].id /\ t.members = m
  BY <1>1 DEF Team
<1>3. SetMembers(S, k, m) = [S EXCEPT !.teams = T]
  BY <1>1 DEF SetMembers, State, Team
<1>4. T \in Seq(Team) /\ Len(T) = Len(S.teams)
      /\ \A j \in 1..Len(S.teams) : T[j] = IF j = k THEN t ELSE S.teams[j]
  BY <1>1, <1>2, UpdateType
<1> HIDE DEF t, T
<1>5. /\ [S EXCEPT !.teams = T] \in State /\ [S EXCEPT !.teams = T].teams = T
      /\ [S EXCEPT !.teams = T].next = S.next
  BY <1>4 DEF State
<1>6. QED BY <1>2, <1>3, <1>4, <1>5

\* Only the members of one team have changed, to members that are allowed.
LEMMA GoodWithMembers ==
  ASSUME NEW S, Good(S), NEW U \in State, NEW k \in 1..Len(S.teams), NEW m \in Seq(Players),
         U.next = S.next, Len(U.teams) = Len(S.teams), Sized(m),
         \A j \in 1..Len(S.teams) :
           U.teams[j].id = S.teams[j].id
           /\ U.teams[j].members = IF j = k THEN m ELSE S.teams[j].members
  PROVE  Good(U)
BY DEF Good, Numbered

\* AddMember keeps the teams good, and their number.
LEMMA AddMemberGood ==
  ASSUME NEW S, Good(S), NEW k \in 1..Len(S.teams), NEW p \in Players
  PROVE  /\ Good(AddMember(S, k, p)) /\ Len(AddMember(S, k, p).teams) = Len(S.teams)
         /\ ToSet(AddMember(S, k, p).teams[k].members) \subseteq ToSet(S.teams[k].members) \cup {p}
<1> DEFINE m == S.teams[k].members
           U == SetMembers(S, k, Append(m, p))
<1>1. S \in State /\ m \in Seq(Players) /\ Sized(m)
  <2>1. S \in State /\ Sized(m)
    BY DEF Good
  <2>2. S.teams[k] \in Team
    BY <2>1 DEF State
  <2>3. QED BY <2>1, <2>2 DEF Team
<1>2. CASE Len(m) >= TeamSize \/ p \in ToSet(m)
  BY <1>2 DEF AddMember
<1>3. CASE ~ (Len(m) >= TeamSize \/ p \in ToSet(m))
  <2>1. Append(m, p) \in Seq(Players) /\ Sized(Append(m, p))
    <3>1. Len(m) \in Nat /\ Len(m) < TeamSize
      BY <1>1, <1>3 DEF TeamSize
    <3>2. QED BY <1>1, <1>3, <3>1, AppendMember DEF Sized, TeamSize
  <2>2. Good(U) /\ Len(U.teams) = Len(S.teams) /\ U.teams[k].members = Append(m, p)
    <3>1. /\ U \in State /\ U.next = S.next /\ Len(U.teams) = Len(S.teams)
          /\ \A j \in 1..Len(S.teams) :
               U.teams[j].id = S.teams[j].id
               /\ U.teams[j].members = IF j = k THEN Append(m, p) ELSE S.teams[j].members
      <4>1. Append(m, p) \in Seq(Players)
        BY <2>1
      <4>2. QED BY ZenonT(60), <1>1, <4>1, SetMembersChanges
    <3> HIDE DEF U, m
    <3>2. QED BY <2>1, <3>1, GoodWithMembers
  <2>3. Good(UpdateTeamsOnWorld(U, k)) /\ UpdateTeamsOnWorld(U, k).teams = U.teams
    <3> HIDE DEF U
    <3>1. QED BY <2>2, UpdateTeamsOnWorldGood DEF Good
  <2>4. AddMember(S, k, p) \in {U, UpdateTeamsOnWorld(U, k)}
    BY <1>3 DEF AddMember
  <2>5. ToSet(Append(m, p)) \subseteq ToSet(m) \cup {p}
    BY <1>1 DEF ToSet
  <2> HIDE DEF U
  <2>6. QED BY <2>2, <2>3, <2>4, <2>5
<1>4. QED BY <1>2, <1>3

\* CreateTeam adds a team of one, whose id is new.
LEMMA CreateTeamGood ==
  ASSUME NEW S, Good(S), NEW p \in Players, NEW local \in BOOLEAN, NEW zone \in Zones \cup {NoZone}
  PROVE  /\ Good(CreateTeam(S, p, local, zone))
         /\ Len(CreateTeam(S, p, local, zone).teams) = Len(S.teams) + 1
         /\ ToSet(NewTeam(CreateTeam(S, p, local, zone))) = {p}
<1> DEFINE t == [id |-> S.next + 1, leader |-> p, members |-> <<>>, local |-> local,
                 loot |-> DefaultLoot, zone |-> zone]
           n == Len(S.teams) + 1
           T == Append(S.teams, t)
           C == [teams |-> T, next |-> S.next + 1, sent |-> S.sent]
           one == Append(<<>>, p)
           U == SetMembers(C, n, one)
<1>1. S \in State /\ S.teams \in Seq(Team) /\ S.next \in Nat /\ Len(S.teams) \in Nat
  BY DEF Good, State
<1>2. t \in Team /\ t.id = S.next + 1 /\ t.members = <<>>
  BY <1>1, ChatConstants DEF Team
<1>3. CreateTeam(S, p, local, zone) = AddMember(C, n, p)
  BY DEF CreateTeam
<1> HIDE DEF t
<1>4. /\ T \in Seq(Team) /\ Len(T) = n /\ n \in 1..Len(T)
      /\ \A j \in 1..Len(S.teams) : T[j] = S.teams[j]
      /\ T[n] = t
  BY <1>1, <1>2
<1> HIDE DEF T
<1>5. C \in State /\ C.teams = T /\ C.next = S.next + 1
  <2>1. S.sent \in Seq(Told) /\ S.next + 1 \in Nat
    BY <1>1 DEF State
  <2>2. QED BY <1>4, <2>1 DEF State
<1> HIDE DEF C, n
<1>6. /\ U \in State /\ U.next = C.next /\ Len(U.teams) = n
      /\ \A j \in 1..n : U.teams[j].id = T[j].id
           /\ U.teams[j].members = IF j = n THEN one ELSE T[j].members
  <2>1. one \in Seq(Players)
    OBVIOUS
  <2> HIDE DEF one
  <2>2. n \in 1..Len(C.teams) /\ Len(C.teams) = n
    BY <1>4, <1>5
  <2>3. /\ U \in State /\ U.next = C.next /\ Len(U.teams) = Len(C.teams)
        /\ \A j \in 1..Len(C.teams) :
             U.teams[j].id = C.teams[j].id
             /\ U.teams[j].members = IF j = n THEN one ELSE C.teams[j].members
    BY <1>5, <2>1, <2>2, SetMembersChanges
  <2> HIDE DEF U
  <2>4. QED BY <1>5, <2>2, <2>3
<1>7. Good(U)
  <2>1. Sized(one)
    BY DEF Sized, IsInjective, TeamSize
  <2>2. \A j \in 1..n : j = n \/ j \in 1..Len(S.teams)
    BY <1>1 DEF n
  <2>3. \A j \in 1..Len(U.teams) : Sized(U.teams[j].members)
    BY <1>4, <1>6, <2>1, <2>2 DEF Good
  <2>4. \A j \in 1..n : U.teams[j].id = IF j = n THEN S.next + 1 ELSE S.teams[j].id
    BY <1>2, <1>4, <1>6, <2>2
  <2>5. Numbered(S.teams, S.next)
    BY DEF Good
  <2>6. Numbered(U.teams, U.next)
    <3>1. Len(U.teams) = n /\ U.next = S.next + 1
      BY <1>5, <1>6
    <3>2. \A j \in 1..Len(S.teams) : S.teams[j].id \in 1..S.next
      BY <2>5 DEF Numbered
    <3>3. \A j \in 1..n : U.teams[j].id \in 1..(S.next + 1)
      BY SMTT(60), <1>1, <2>2, <2>4, <3>2
    <3>4. ASSUME NEW i \in 1..n, NEW j \in 1..n, U.teams[i].id = U.teams[j].id
          PROVE  i = j
      <4>1. \A x \in 1..Len(S.teams) : S.teams[x].id # S.next + 1
        BY <1>1, <3>2
      <4>2. \A x, y \in 1..Len(S.teams) : S.teams[x].id = S.teams[y].id => x = y
        BY <2>5 DEF Numbered
      <4>3. QED BY <2>2, <2>4, <3>4, <4>1, <4>2
    <3> HIDE DEF U
    <3>5. QED BY <3>1, <3>3, <3>4 DEF Numbered
  <2> HIDE DEF U
  <2>7. QED BY <1>6, <2>3, <2>6 DEF Good
<1>8. AddMember(C, n, p) \in {U, UpdateTeamsOnWorld(U, n)}
  <2>1. C.teams[n].members = <<>>
    BY <1>2, <1>4, <1>5
  <2>2. ~ (Len(C.teams[n].members) >= TeamSize) /\ p \notin ToSet(C.teams[n].members)
    BY <2>1 DEF TeamSize, ToSet
  <2>3. QED BY <2>1, <2>2 DEF AddMember
<1> HIDE DEF U
<1>9. Good(UpdateTeamsOnWorld(U, n)) /\ UpdateTeamsOnWorld(U, n).teams = U.teams
  <2>1. n \in 1..Len(U.teams) /\ U \in State
    BY <1>4, <1>6
  <2>2. QED BY <1>7, <2>1, UpdateTeamsOnWorldGood DEF Good
<1>10. ToSet(one) = {p}
  BY DEF ToSet
<1>11. n \in 1..n
  BY <1>1 DEF n
<1> HIDE DEF one
<1>12. QED BY <1>3, <1>6, <1>7, <1>8, <1>9, <1>10, <1>11 DEF n, NewTeam

\* DisbandTeam takes one team off the list, whatever it has become.
LEMMA DisbandTeamGood ==
  ASSUME NEW S \in State, NEW k \in 1..Len(S.teams), Numbered(S.teams, S.next),
         \A j \in 1..Len(S.teams) : j # k => Sized(S.teams[j].members)
  PROVE  /\ Good(DisbandTeam(S, k)) /\ Len(DisbandTeam(S, k).teams) = Len(S.teams) - 1
         /\ k # Len(S.teams) => NewTeam(DisbandTeam(S, k)) = NewTeam(S)
<1> DEFINE u == [id |-> S.teams[k].id, deleted |-> TRUE, loot |-> S.teams[k].loot,
                 members |-> S.teams[k].members]
           T == RemoveAt(S.teams, k)
           U == [teams |-> T, next |-> S.next, sent |-> Append(S.sent, u)]
<1>1. S.teams \in Seq(Team) /\ S.teams[k] \in Team /\ Len(S.teams) \in Nat
  BY DEF State
<1>2. u \in Told
  BY <1>1 DEF Team, Told
<1>3. DisbandTeam(S, k) = U
  BY DEF DisbandTeam
<1> HIDE DEF u
<1>4. /\ T \in Seq(Team) /\ Len(T) = Len(S.teams) - 1
      /\ \A j \in 1..Len(S.teams) - 1 : T[j] = IF j < k THEN S.teams[j] ELSE S.teams[j + 1]
  BY <1>1, RemoveAtProperties
<1> HIDE DEF T
<1>5. U \in State /\ U.teams = T /\ U.next = S.next
  <2>1. Append(S.sent, u) \in Seq(Told)
    BY <1>2 DEF State
  <2>2. S.next \in Nat
    BY DEF State
  <2>3. QED BY <1>4, <2>1, <2>2 DEF State
<1> HIDE DEF U
<1>6. \A j \in 1..Len(S.teams) - 1 : \E i \in 1..Len(S.teams) :
        i # k /\ i = (IF j < k THEN j ELSE j + 1) /\ T[j] = S.teams[i]
  BY SMTT(60), <1>1, <1>4
<1>7. \A j \in 1..Len(T) : Sized(T[j].members)
  BY <1>4, <1>6
<1>8. Numbered(T, S.next)
  <2>1. \A j \in 1..Len(T) : T[j].id \in 1..S.next
    BY <1>4, <1>6 DEF Numbered
  <2>2. ASSUME NEW i \in 1..Len(T), NEW j \in 1..Len(T), T[i].id = T[j].id
        PROVE  i = j
    <3>1. PICK x \in 1..Len(S.teams) : x = (IF i < k THEN i ELSE i + 1) /\ T[i] = S.teams[x]
      BY <1>4, <1>6
    <3>2. PICK y \in 1..Len(S.teams) : y = (IF j < k THEN j ELSE j + 1) /\ T[j] = S.teams[y]
      BY <1>4, <1>6
    <3>3. x = y
      BY <2>2, <3>1, <3>2 DEF Numbered
    <3>4. QED BY <1>1, <1>4, <3>1, <3>2, <3>3
  <2>3. QED BY <2>1, <2>2 DEF Numbered
<1>9. k # Len(S.teams) => T[Len(T)] = S.teams[Len(S.teams)]
  BY <1>1, <1>4
<1>10. QED BY <1>3, <1>4, <1>5, <1>7, <1>8, <1>9 DEF Good, NewTeam

\* A change of leader or loot keeps the teams good.
LEMMA GoodWithSameMembers ==
  ASSUME NEW S, Good(S), NEW U \in State, U.next = S.next, Len(U.teams) = Len(S.teams),
         \A j \in 1..Len(S.teams) :
           U.teams[j].id = S.teams[j].id /\ U.teams[j].members = S.teams[j].members
  PROVE  Good(U)
BY DEF Good, Numbered

\* HandleTeamPromote and RemoveMember: another player leads.
LEMMA LeaderGood ==
  ASSUME NEW S, Good(S), NEW k \in 1..Len(S.teams), NEW q \in Players
  PROVE  LET U == [S EXCEPT !.teams[k].leader = q]
         IN  Good(U) /\ Len(U.teams) = Len(S.teams)
             /\ \A j \in 1..Len(S.teams) : U.teams[j].members = S.teams[j].members
<1> DEFINE t == [S.teams[k] EXCEPT !.leader = q]
           T == [S.teams EXCEPT ![k] = t]
           U == [S EXCEPT !.teams = T]
<1>1. S \in State /\ S.teams \in Seq(Team)
  BY DEF Good, State
<1>2. S.teams[k] \in Team
  BY <1>1
<1>3. t \in Team /\ t.id = S.teams[k].id /\ t.members = S.teams[k].members
  BY <1>2 DEF Team
<1>4. [S EXCEPT !.teams[k].leader = q] = U
  BY <1>1, <1>2 DEF State, Team
<1> HIDE DEF t
<1>5. T \in Seq(Team) /\ Len(T) = Len(S.teams)
      /\ \A j \in 1..Len(S.teams) : T[j] = IF j = k THEN t ELSE S.teams[j]
  BY <1>1, <1>3, UpdateType
<1> HIDE DEF T
<1>6. U \in State /\ U.teams = T /\ U.next = S.next
  BY <1>1, <1>5 DEF State
<1> HIDE DEF U
<1>7. Good(U)
  BY <1>3, <1>5, <1>6, GoodWithSameMembers
<1>8. QED BY <1>4, <1>5, <1>6, <1>7

\* HandleTeamLootOption and CreateTeamServer: loot is shared in another way.
LEMMA LootGood ==
  ASSUME NEW S, Good(S), NEW k \in 1..Len(S.teams), NEW option \in {0, 1}
  PROVE  LET U == [S EXCEPT !.teams[k].loot = option]
         IN  Good(U) /\ Len(U.teams) = Len(S.teams)
<1> DEFINE t == [S.teams[k] EXCEPT !.loot = option]
           T == [S.teams EXCEPT ![k] = t]
           U == [S EXCEPT !.teams = T]
<1>1. S \in State /\ S.teams \in Seq(Team)
  BY DEF Good, State
<1>2. S.teams[k] \in Team
  BY <1>1
<1>3. t \in Team /\ t.id = S.teams[k].id /\ t.members = S.teams[k].members
  BY <1>2 DEF Team
<1>4. [S EXCEPT !.teams[k].loot = option] = U
  BY <1>1, <1>2 DEF State, Team
<1> HIDE DEF t
<1>5. T \in Seq(Team) /\ Len(T) = Len(S.teams)
      /\ \A j \in 1..Len(S.teams) : T[j] = IF j = k THEN t ELSE S.teams[j]
  BY <1>1, <1>3, UpdateType
<1> HIDE DEF T
<1>6. U \in State /\ U.teams = T /\ U.next = S.next
  BY <1>1, <1>5 DEF State
<1> HIDE DEF U
<1>7. Good(U)
  BY <1>3, <1>5, <1>6, GoodWithSameMembers
<1>8. QED BY <1>4, <1>5, <1>6, <1>7

\* RemoveMember disbands the team or leaves it with two or three members.
LEMMA RemoveMemberGood ==
  ASSUME NEW S, Good(S), NEW k \in 1..Len(S.teams), NEW p
  PROVE  /\ Good(RemoveMember(S, k, p))
         /\ Len(RemoveMember(S, k, p).teams) \in {Len(S.teams) - 1, Len(S.teams)}
         /\ k # Len(S.teams) => NewTeam(RemoveMember(S, k, p)) = NewTeam(S)
<1> DEFINE m == S.teams[k].members
           index == MemberIndex(m, p)
           rest == RemoveAt(m, index)
           U == SetMembers(S, k, rest)
           q == IF U.teams[k].leader = p THEN rest[1] ELSE U.teams[k].leader
           V == [U EXCEPT !.teams[k].leader = q]
<1>1. S \in State /\ Numbered(S.teams, S.next) /\ Sized(m)
  BY DEF Good
<1>2. S.teams[k] \in Team
  BY <1>1 DEF State
<1>3. m \in Seq(Players) /\ index \in 0..Len(m)
  BY <1>2, MemberFinds DEF Team
<1> HIDE DEF m, index
<1>4. CASE index = 0
  BY <1>4 DEF RemoveMember, index, m
<1>5. CASE index # 0
  <2>1. index \in 1..Len(m) /\ IsInjective(m) /\ Len(m) \in 1..TeamSize
    BY <1>1, <1>3, <1>5 DEF Sized
  <2>2. rest \in Seq(Players) /\ Len(rest) = Len(m) - 1 /\ IsInjective(rest)
    BY <1>3, <2>1, EraseMember
  <2> HIDE DEF rest
  <2>3. /\ U \in State /\ U.next = S.next /\ Len(U.teams) = Len(S.teams)
        /\ \A j \in 1..Len(S.teams) :
             U.teams[j].id = S.teams[j].id
             /\ U.teams[j].members = IF j = k THEN rest ELSE S.teams[j].members
    BY <1>1, <2>2, SetMembersChanges
  <2> HIDE DEF U
  <2>4. CASE Len(rest) <= 1
    <3>1. RemoveMember(S, k, p) = DisbandTeam(U, k)
      BY <1>5, <2>4 DEF RemoveMember, U, rest, index, m
    <3>2. Numbered(U.teams, U.next)
      BY <1>1, <2>3 DEF Numbered
    <3>3. \A j \in 1..Len(U.teams) : j # k => Sized(U.teams[j].members)
      BY <2>3 DEF Good
    <3>4. k \in 1..Len(U.teams)
      BY <2>3
    <3>5. k # Len(S.teams) => NewTeam(U) = NewTeam(S)
      BY SMTT(60), <1>1, <2>3 DEF NewTeam, State
    <3>6. QED BY <2>3, <3>1, <3>2, <3>3, <3>4, <3>5, DisbandTeamGood
  <2>5. CASE ~ (Len(rest) <= 1)
    <3>1. RemoveMember(S, k, p) = UpdateTeamsOnWorld(V, k)
      BY <1>5, <2>5 DEF RemoveMember, U, rest, index, m
    <3>2. Sized(rest)
      BY SMTT(60), <2>1, <2>2, <2>5 DEF Sized, TeamSize
    <3>3. Good(U)
      BY <2>2, <2>3, <3>2, GoodWithMembers
    <3>4. q \in Players
      <4>1. k \in 1..Len(U.teams) /\ U.teams \in Seq(Team)
        BY <2>3 DEF State
      <4>2. U.teams[k] \in Team
        BY <4>1
      <4>3. rest[1] \in Players
        BY <2>2, <2>5
      <4>4. QED BY <4>2, <4>3 DEF Team
    <3> HIDE DEF q
    <3>5. /\ Good(V) /\ Len(V.teams) = Len(S.teams)
          /\ \A j \in 1..Len(S.teams) : V.teams[j].members = U.teams[j].members
      BY <2>3, <3>3, <3>4, LeaderGood
    <3> HIDE DEF V
    <3>6. k # Len(S.teams) => NewTeam(V) = NewTeam(S)
      BY <1>1, <2>3, <3>5 DEF NewTeam, State
    <3>7. V \in State /\ k \in 1..Len(V.teams)
      BY <3>5 DEF Good
    <3>8. Good(UpdateTeamsOnWorld(V, k)) /\ UpdateTeamsOnWorld(V, k).teams = V.teams
      BY <3>5, <3>7, UpdateTeamsOnWorldGood DEF Good
    <3>9. QED BY <3>1, <3>5, <3>6, <3>8 DEF NewTeam
  <2>6. QED BY <2>4, <2>5
<1>6. QED BY <1>4, <1>5

\* TeamStatusUpdate only broadcasts.
LEMMA TeamStatusUpdateGood ==
  ASSUME NEW S, Good(S), NEW k \in 1..Len(S.teams)
  PROVE  Good(TeamStatusUpdate(S, k)) /\ Len(TeamStatusUpdate(S, k).teams) = Len(S.teams)
<1>1. S \in State
  BY DEF Good
<1>2. Good(UpdateTeamsOnWorld(S, k)) /\ Len(UpdateTeamsOnWorld(S, k).teams) = Len(S.teams)
  BY <1>1, UpdateTeamsOnWorldGood DEF Good
<1>3. QED BY <1>2 DEF TeamStatusUpdate

\* A team is told of twice: TeamStatusUpdate, then UpdateTeamsOnWorld.
LEMMA ToldTwiceGood ==
  ASSUME NEW S, Good(S), NEW k \in 1..Len(S.teams)
  PROVE  Good(UpdateTeamsOnWorld(TeamStatusUpdate(S, k), k))
<1> DEFINE U == TeamStatusUpdate(S, k)
<1>1. Good(U) /\ Len(U.teams) = Len(S.teams)
  BY TeamStatusUpdateGood
<1> HIDE DEF U
<1>2. Good(UpdateTeamsOnWorld(U, k))
  BY <1>1, UpdateTeamsOnWorldGood DEF Good
<1>3. QED BY <1>2 DEF U

\* LeaveTeam removes a member of a team of the list, or nobody.
LEMMA LeaveTeamGood ==
  ASSUME NEW S, Good(S), NEW p
  PROVE  Good(LeaveTeam(S, p))
<1>1. S.teams \in Seq(Team)
  BY DEF Good, State
<1>2. GetTeam(S.teams, p) \in 0..Len(S.teams)
  BY <1>1, GetTeamFinds
<1>3. GetTeam(S.teams, p) # 0 => GetTeam(S.teams, p) \in 1..Len(S.teams)
  BY <1>1, <1>2
<1>4. QED BY <1>3, RemoveMemberGood DEF LeaveTeam

\* A player who is not in the new team leaves it as it is.
LEMMA LeaveTeamKeepsNewTeam ==
  ASSUME NEW S, Good(S), Len(S.teams) # 0, NEW p, p \notin ToSet(NewTeam(S))
  PROVE  Len(LeaveTeam(S, p).teams) # 0 /\ NewTeam(LeaveTeam(S, p)) = NewTeam(S)
<1> DEFINE k == GetTeam(S.teams, p)
<1>1. S.teams \in Seq(Team) /\ Len(S.teams) \in Nat
  BY DEF Good, State
<1>2. k \in 0..Len(S.teams) /\ (k # 0 => p \in ToSet(S.teams[k].members))
  BY <1>1, GetTeamFinds
<1>3. k # Len(S.teams)
  BY <1>2 DEF NewTeam
<1> HIDE DEF k
<1>4. CASE k = 0
  BY <1>4 DEF LeaveTeam, k
<1>5. CASE k # 0
  <2>1. k \in 1..Len(S.teams) /\ Len(S.teams) > 1
    BY <1>1, <1>2, <1>3, <1>5
  <2>2. /\ Len(RemoveMember(S, k, p).teams) \in {Len(S.teams) - 1, Len(S.teams)}
        /\ NewTeam(RemoveMember(S, k, p)) = NewTeam(S)
    BY <1>3, <2>1, RemoveMemberGood
  <2>3. LeaveTeam(S, p) = RemoveMember(S, k, p)
    BY <1>5 DEF LeaveTeam, k
  <2>4. QED BY <1>1, <2>1, <2>2, <2>3
<1>6. QED BY <1>4, <1>5

\* The next member of a local team leaves his old team and joins the new one.
LEMMA JoinLastGood ==
  ASSUME NEW S, Good(S), Len(S.teams) # 0, NEW p \in Players, p \notin ToSet(NewTeam(S))
  PROVE  /\ Good(JoinLast(S, p)) /\ Len(JoinLast(S, p).teams) # 0
         /\ ToSet(NewTeam(JoinLast(S, p))) \subseteq ToSet(NewTeam(S)) \cup {p}
<1> DEFINE U == LeaveTeam(S, p)
           A == AddMember(U, Len(U.teams), p)
<1>1. Good(U) /\ Len(U.teams) # 0 /\ NewTeam(U) = NewTeam(S)
  BY LeaveTeamGood, LeaveTeamKeepsNewTeam
<1> HIDE DEF U
<1>2. Len(U.teams) \in Nat
  BY <1>1 DEF Good, State
<1>3. Len(U.teams) \in 1..Len(U.teams)
  BY <1>1, <1>2
<1>4. /\ Good(A) /\ Len(A.teams) = Len(U.teams)
      /\ ToSet(A.teams[Len(U.teams)].members) \subseteq ToSet(U.teams[Len(U.teams)].members) \cup {p}
  BY <1>1, <1>3, AddMemberGood
<1>5. JoinLast(S, p) = A
  BY DEF JoinLast, U
<1> HIDE DEF A
<1>6. QED BY <1>1, <1>4, <1>5 DEF NewTeam

(***************************************************************************)
(* What the worlds see                                                     *)
(***************************************************************************)

\* What a world keeps of a team.
Copy == [members : Seq(Players), loot : {0, 1}]

\* A team of one, which UpdateTeam makes no copy of.
Lone(c) == Len(c.members) <= 1

\* A world with the copies have, and with the updates L on the way, has not
\* heard of a second member of team i, up to update a.
NeverTwo(have, L, a, i) ==
  /\ i \notin DOMAIN have
  /\ \A b \in 1..a : L[b].id = i /\ ~ L[b].deleted => Lone(L[b])

\* The copy or update c of team i shows the team as it is, but for members who
\* were added last.
Shows(c, i, T) ==
  \E k \in 1..Len(T) : T[k].id = i /\ T[k].loot = c.loot /\ IsPrefix(c.members, T[k].members)

\* No later update is about the team of update a.
Latest(L, a) == \A b \in 1..Len(L) : b > a => L[b].id # L[a].id

\* A world with the copies have and the updates L on the way, and the chat
\* server with the teams T and the counter n.  Ids are those of teams there have
\* been, and a copy has two members.  A team that is one player now, or was in
\* an update, has not been more before: disbanded at one (RemoveMember), it
\* leaves no copy to shrink.  What the world will have heard last of a team
\* that was not disbanded shows the team.
Sees(have, L, T, n) ==
  /\ \A i \in DOMAIN have : i \in 1..n /\ Len(have[i].members) \in 2..TeamSize
  /\ \A a \in 1..Len(L) : L[a].id \in 1..n /\ (L[a].deleted \/ Len(L[a].members) \in 1..TeamSize)
  /\ \A a \in 1..Len(L) : ~ L[a].deleted /\ Lone(L[a]) => NeverTwo(have, L, a, L[a].id)
  /\ \A k \in 1..Len(T) : Lone(T[k]) => NeverTwo(have, L, Len(L), T[k].id)
  /\ \A a \in 1..Len(L) : ~ L[a].deleted /\ Latest(L, a) => Shows(L[a], L[a].id, T)
  /\ \A i \in DOMAIN have : (\A a \in 1..Len(L) : L[a].id # i) => Shows(have[i], i, T)

\* Only one team has changed, and kept its id.
Replaced(T, U, k) ==
  /\ Len(U) = Len(T) /\ U[k].id = T[k].id
  /\ \A j \in 1..Len(T) : j # k => U[j] = T[j]

\* IsPrefix, element by element.
LEMMA PrefixElements ==
  ASSUME NEW s \in Seq(Players), NEW t \in Seq(Players)
  PROVE  IsPrefix(s, t) <=> Len(s) <= Len(t) /\ \A i \in 1..Len(s) : s[i] = t[i]
<1>1. Len(s) <= Len(t) =>
        (SubSeq(s, 1, Len(s)) = SubSeq(t, 1, Len(s)) <=> \A i \in 1..Len(s) : s[i] = t[i])
  <2> SUFFICES ASSUME Len(s) <= Len(t)
               PROVE  SubSeq(s, 1, Len(s)) = SubSeq(t, 1, Len(s)) <=> \A i \in 1..Len(s) : s[i] = t[i]
    OBVIOUS
  <2> DEFINE a == SubSeq(s, 1, Len(s))
             b == SubSeq(t, 1, Len(s))
  <2>1. a \in Seq(Players) /\ Len(a) = Len(s) /\ \A i \in 1..Len(s) : a[i] = s[i]
    OBVIOUS
  <2>2. b \in Seq(Players) /\ Len(b) = Len(s) /\ \A i \in 1..Len(s) : b[i] = t[i]
    OBVIOUS
  <2> HIDE DEF a, b
  <2>3. (\A i \in 1..Len(s) : a[i] = b[i]) => a = b
    BY <2>1, <2>2
  <2>4. QED BY <2>1, <2>2, <2>3 DEF a, b
<1>2. QED BY <1>1 DEF IsPrefix

\* The prefix order is reflexive and transitive, and Append goes up in it.
LEMMA PrefixReflexive ==
  ASSUME NEW s \in Seq(Players)
  PROVE  IsPrefix(s, s)
BY PrefixElements

\* See PrefixReflexive.
LEMMA PrefixTransitive ==
  ASSUME NEW s \in Seq(Players), NEW t \in Seq(Players), NEW u \in Seq(Players),
         IsPrefix(s, t), IsPrefix(t, u)
  PROVE  IsPrefix(s, u)
<1>1. Len(s) \in Nat /\ Len(t) \in Nat /\ Len(u) \in Nat
  OBVIOUS
<1>2. Len(s) <= Len(t) /\ Len(t) <= Len(u) /\ Len(s) <= Len(u)
  BY <1>1, PrefixElements
<1>3. \A i \in 1..Len(s) : s[i] = u[i]
  BY <1>1, <1>2, PrefixElements
<1>4. QED BY <1>2, <1>3, PrefixElements

\* See PrefixReflexive.
LEMMA PrefixAppend ==
  ASSUME NEW s \in Seq(Players), NEW p \in Players
  PROVE  IsPrefix(s, Append(s, p))
<1> DEFINE t == Append(s, p)
<1>1. t \in Seq(Players) /\ Len(s) <= Len(t) /\ \A i \in 1..Len(s) : s[i] = t[i]
  OBVIOUS
<1>2. QED BY <1>1, PrefixElements

\* Another team keeps what is shown of it.
LEMMA ShowsOthers ==
  ASSUME NEW T \in Seq(Team), NEW U \in Seq(Team), NEW k \in 1..Len(T), Replaced(T, U, k),
         NEW c, NEW i, i # T[k].id, Shows(c, i, T)
  PROVE  Shows(c, i, U)
BY DEF Shows, Replaced

\* What is the latest of a longer sequence was it before, and the new update is
\* about another team.
LEMMA LatestBefore ==
  ASSUME NEW L \in Seq(Told), NEW u \in Told, NEW a \in 1..Len(L), Latest(Append(L, u), a)
  PROVE  Latest(L, a) /\ u.id # L[a].id
<1> DEFINE M == Append(L, u)
<1>1. /\ Len(M) = Len(L) + 1 /\ Len(L) \in Nat
      /\ \A b \in 1..Len(L) : M[b] = L[b] /\ b \in 1..Len(M)
      /\ M[Len(L) + 1] = u
  OBVIOUS
<1>2. \A b \in 1..Len(M) : b > a => M[b].id # M[a].id
  BY DEF Latest
<1> HIDE DEF M
<1>3. Len(L) + 1 \in 1..Len(M) /\ Len(L) + 1 > a
  BY <1>1
<1>4. M[Len(L) + 1].id # M[a].id
  BY <1>2, <1>3
<1>5. \A b \in 1..Len(L) : b > a => L[b].id # L[a].id
  BY <1>1, <1>2
<1>6. QED BY <1>1, <1>4, <1>5 DEF Latest

\* A team that has changed is told of.
LEMMA SeesTold ==
  ASSUME NEW have, NEW L \in Seq(Told), NEW T \in Seq(Team), NEW U \in Seq(Team), NEW n \in Nat,
         Sees(have, L, T, n), Numbered(T, n), NEW k \in 1..Len(T), Replaced(T, U, k),
         Len(U[k].members) \in 1..TeamSize, Lone(U[k]) => Lone(T[k]),
         NEW u \in Told, u.id = T[k].id, u.loot = U[k].loot, u.members = U[k].members
  PROVE  Sees(have, Append(L, u), U, n)
<1> DEFINE M == Append(L, u)
<1>1. /\ M \in Seq(Told) /\ Len(M) = Len(L) + 1 /\ Len(L) \in Nat
      /\ \A a \in 1..Len(L) : M[a] = L[a]
      /\ M[Len(M)] = u
      /\ \A a \in 1..Len(M) : a = Len(M) \/ a \in 1..Len(L)
  OBVIOUS
<1> HIDE DEF M
<1>2. /\ Len(U) = Len(T) /\ U[k].id = T[k].id
      /\ \A j \in 1..Len(T) : j # k => U[j] = T[j]
  BY DEF Replaced
<1>3. \A i, j \in 1..Len(T) : T[i].id = T[j].id => i = j
  BY DEF Numbered
<1>4. Len(M) \in 1..Len(M)
  BY <1>1
<1>5. \A i \in DOMAIN have : i \in 1..n /\ Len(have[i].members) \in 2..TeamSize
  BY DEF Sees
<1>6. \A a \in 1..Len(M) : M[a].id \in 1..n /\ (M[a].deleted \/ Len(M[a].members) \in 1..TeamSize)
  <2>1. u.id \in 1..n
    BY DEF Numbered
  <2>2. QED BY <1>1, <2>1 DEF Sees
<1>7. Lone(u) => NeverTwo(have, L, Len(L), u.id)
  BY DEF Sees, Lone
<1>8. ASSUME NEW a \in 1..Len(M), ~ M[a].deleted, Lone(M[a])
      PROVE  NeverTwo(have, M, a, M[a].id)
  <2>1. CASE a \in 1..Len(L)
    <3>1. NeverTwo(have, L, a, L[a].id)
      BY <1>1, <1>8, <2>1 DEF Sees
    <3>2. 1..a \subseteq 1..Len(L)
      BY <2>1
    <3>3. QED BY <1>1, <2>1, <3>1, <3>2 DEF NeverTwo
  <2>2. CASE a = Len(M)
    <3>1. M[a] = u
      BY <1>1, <2>2
    <3>2. NeverTwo(have, L, Len(L), u.id)
      BY <1>7, <1>8, <3>1
    <3>3. \A b \in 1..a : b = Len(M) \/ b \in 1..Len(L)
      BY <1>1, <2>2
    <3>4. QED BY <1>1, <1>8, <3>1, <3>2, <3>3 DEF NeverTwo
  <2>3. QED BY <1>1, <2>1, <2>2
<1>9. ASSUME NEW j \in 1..Len(U), Lone(U[j])
      PROVE  NeverTwo(have, M, Len(M), U[j].id)
  <2>1. Lone(T[j]) /\ U[j].id = T[j].id /\ j \in 1..Len(T)
    BY <1>2, <1>9
  <2>2. NeverTwo(have, L, Len(L), T[j].id)
    BY <2>1 DEF Sees
  <2>3. u.id = T[j].id => Lone(u)
    BY <1>2, <1>3, <1>9, <2>1 DEF Lone
  <2>4. QED BY <1>1, <2>1, <2>2, <2>3 DEF NeverTwo
<1>10. ASSUME NEW a \in 1..Len(M), ~ M[a].deleted, Latest(M, a)
       PROVE  Shows(M[a], M[a].id, U)
  <2>1. CASE a \in 1..Len(L)
    <3>1. Latest(L, a) /\ u.id # L[a].id
      BY <1>10, <2>1, LatestBefore DEF M
    <3>2. Shows(L[a], L[a].id, T)
      BY <1>1, <1>10, <2>1, <3>1 DEF Sees
    <3>3. QED BY <1>1, <2>1, <3>1, <3>2, ShowsOthers
  <2>2. CASE a = Len(M)
    <3>1. M[a] = u /\ k \in 1..Len(U)
      BY <1>1, <1>2, <2>2
    <3>2. IsPrefix(u.members, U[k].members)
      BY PrefixReflexive DEF Told
    <3>3. QED BY <1>2, <3>1, <3>2 DEF Shows
  <2>3. QED BY <1>1, <2>1, <2>2
<1>11. ASSUME NEW i \in DOMAIN have, \A a \in 1..Len(M) : M[a].id # i
       PROVE  Shows(have[i], i, U)
  <2>1. u.id # i /\ \A a \in 1..Len(L) : L[a].id # i
    BY <1>1, <1>4, <1>11
  <2>2. Shows(have[i], i, T)
    BY <2>1 DEF Sees
  <2>3. QED BY <2>1, <2>2, ShowsOthers
<1>12. QED BY <1>5, <1>6, <1>8, <1>9, <1>10, <1>11 DEF Sees, M

\* A team that grows at its end, without a word, is still shown.
LEMMA SeesGrown ==
  ASSUME NEW have, NEW L \in Seq(Told), NEW T \in Seq(Team), NEW U \in Seq(Team), NEW n \in Nat,
         Sees(have, L, T, n), NEW k \in 1..Len(T), Replaced(T, U, k),
         \A i \in DOMAIN have : have[i] \in Copy,
         U[k].loot = T[k].loot, IsPrefix(T[k].members, U[k].members)
  PROVE  Sees(have, L, U, n)
<1>1. /\ Len(U) = Len(T) /\ U[k].id = T[k].id /\ k \in 1..Len(U)
      /\ \A j \in 1..Len(T) : j # k => U[j] = T[j]
  BY DEF Replaced
<1>2. T[k].members \in Seq(Players) /\ U[k].members \in Seq(Players)
  <2>1. T[k] \in Team /\ U[k] \in Team
    BY <1>1
  <2>2. QED BY <2>1 DEF Team
<1>3. Lone(U[k]) => Lone(T[k])
  <2>1. Len(T[k].members) <= Len(U[k].members)
    BY <1>2, PrefixElements
  <2>2. Len(T[k].members) \in Nat /\ Len(U[k].members) \in Nat
    BY <1>2
  <2>3. QED BY <2>1, <2>2 DEF Lone
<1>4. ASSUME NEW c, c.members \in Seq(Players), NEW i, Shows(c, i, T)
      PROVE  Shows(c, i, U)
  <2>1. PICK j \in 1..Len(T) : T[j].id = i /\ T[j].loot = c.loot /\ IsPrefix(c.members, T[j].members)
    BY <1>4 DEF Shows
  <2>2. U[j].id = i /\ U[j].loot = c.loot /\ IsPrefix(c.members, U[j].members)
    <3>1. CASE j = k
      <4>1. IsPrefix(c.members, T[k].members)
        BY <2>1, <3>1
      <4>2. IsPrefix(c.members, U[k].members)
        BY <1>2, <1>4, <4>1, PrefixTransitive
      <4>3. QED BY <1>1, <2>1, <3>1, <4>2
    <3>2. CASE j # k
      BY <1>1, <2>1, <3>2
    <3>3. QED BY <3>1, <3>2
  <2>3. QED BY <1>1, <2>1, <2>2 DEF Shows
<1>5. \A a \in 1..Len(L) : L[a].members \in Seq(Players)
  <2>1. \A a \in 1..Len(L) : L[a] \in Told
    OBVIOUS
  <2>2. QED BY <2>1 DEF Told
<1>6. \A i \in DOMAIN have : have[i].members \in Seq(Players)
  BY DEF Copy
<1>7. \A j \in 1..Len(U) : Lone(U[j]) => NeverTwo(have, L, Len(L), U[j].id)
  BY <1>1, <1>3 DEF Sees
<1>8. QED BY <1>4, <1>5, <1>6, <1>7 DEF Sees

\* A team with a new id, which nobody has heard of, has no members yet.
LEMMA SeesCreated ==
  ASSUME NEW have, NEW L \in Seq(Told), NEW T \in Seq(Team), NEW n \in Nat, Sees(have, L, T, n),
         NEW t \in Team, t.id = n + 1
  PROVE  Sees(have, L, Append(T, t), n + 1)
<1> DEFINE U == Append(T, t)
<1>1. /\ Len(U) = Len(T) + 1 /\ Len(T) \in Nat
      /\ \A j \in 1..Len(T) : U[j] = T[j] /\ j \in 1..Len(U)
      /\ U[Len(U)] = t
      /\ \A j \in 1..Len(U) : j = Len(U) \/ j \in 1..Len(T)
  OBVIOUS
<1> HIDE DEF U
<1>2. \A c, i : Shows(c, i, T) => Shows(c, i, U)
  BY <1>1 DEF Shows
<1>3. \A i \in 1..n : i \in 1..n+1 /\ i # n + 1
  OBVIOUS
<1>4. NeverTwo(have, L, Len(L), n + 1)
  <2>1. n + 1 \notin DOMAIN have
    BY <1>3 DEF Sees
  <2>2. \A b \in 1..Len(L) : L[b].id # n + 1
    BY <1>3 DEF Sees
  <2>3. QED BY <2>1, <2>2 DEF NeverTwo
<1>5. \A j \in 1..Len(U) : Lone(U[j]) => NeverTwo(have, L, Len(L), U[j].id)
  BY <1>1, <1>4 DEF Sees
<1>6. QED BY <1>2, <1>3, <1>5 DEF Sees, U

\* A team is disbanded, whatever it has become, and the worlds are told.
LEMMA SeesDisbanded ==
  ASSUME NEW have, NEW L \in Seq(Told), NEW T \in Seq(Team), NEW U \in Seq(Team), NEW n \in Nat,
         Sees(have, L, T, n), Numbered(T, n), NEW k \in 1..Len(T), Replaced(T, U, k),
         NEW u \in Told, u.id = T[k].id, u.deleted = TRUE
  PROVE  Sees(have, Append(L, u), RemoveAt(U, k), n)
<1> DEFINE M == Append(L, u)
           R == RemoveAt(U, k)
<1>1. /\ M \in Seq(Told) /\ Len(M) = Len(L) + 1 /\ Len(L) \in Nat
      /\ \A a \in 1..Len(L) : M[a] = L[a]
      /\ M[Len(M)] = u
      /\ \A a \in 1..Len(M) : a = Len(M) \/ a \in 1..Len(L)
  OBVIOUS
<1> HIDE DEF M
<1>2. /\ Len(U) = Len(T) /\ k \in 1..Len(U)
      /\ \A j \in 1..Len(T) : j # k => U[j] = T[j]
  BY DEF Replaced
<1>3. /\ Len(R) = Len(U) - 1
      /\ \A j \in 1..Len(U) - 1 : R[j] = IF j < k THEN U[j] ELSE U[j + 1]
  BY <1>2, RemoveAtProperties
<1> HIDE DEF R
<1>4. Len(M) \in 1..Len(M)
  BY <1>1
<1>5. \A j \in 1..Len(R) : \E i \in 1..Len(T) : i # k /\ R[j] = T[i]
  <2> SUFFICES ASSUME NEW j \in 1..Len(R) PROVE \E i \in 1..Len(T) : i # k /\ R[j] = T[i]
    OBVIOUS
  <2>1. j \in 1..Len(U) - 1 /\ j \in 1..Len(T) /\ j + 1 \in 1..Len(T)
    BY <1>2, <1>3
  <2>2. CASE j < k
    BY <1>2, <1>3, <2>1, <2>2
  <2>3. CASE ~ (j < k)
    <3>1. j + 1 # k
      BY <2>1, <2>3
    <3>2. QED BY <1>2, <1>3, <2>1, <2>3, <3>1
  <2>4. QED BY <2>2, <2>3
<1>6. \A i \in 1..Len(T) : i # k => \E j \in 1..Len(R) : R[j] = T[i]
  <2> SUFFICES ASSUME NEW i \in 1..Len(T), i # k PROVE \E j \in 1..Len(R) : R[j] = T[i]
    OBVIOUS
  <2>1. CASE i < k
    <3>1. i \in 1..Len(U) - 1
      BY <1>2, <2>1
    <3>2. QED BY <1>2, <1>3, <2>1, <3>1
  <2>2. CASE ~ (i < k)
    <3>1. i - 1 \in 1..Len(U) - 1 /\ ~ (i - 1 < k) /\ (i - 1) + 1 = i
      BY <1>2, <2>2
    <3>2. R[i - 1] = U[i]
      BY <1>3, <3>1
    <3>3. QED BY <1>2, <1>3, <3>1, <3>2
  <2>3. QED BY <2>1, <2>2
<1>7. ASSUME NEW c, NEW i, i # u.id, Shows(c, i, T)
      PROVE  Shows(c, i, R)
  <2>1. PICK j \in 1..Len(T) : T[j].id = i /\ T[j].loot = c.loot /\ IsPrefix(c.members, T[j].members)
    BY <1>7 DEF Shows
  <2>2. j # k
    BY <1>7, <2>1
  <2>3. QED BY <1>6, <2>1, <2>2 DEF Shows
<1>8. \A a \in 1..Len(M) : M[a].id \in 1..n /\ (M[a].deleted \/ Len(M[a].members) \in 1..TeamSize)
  <2>1. u.id \in 1..n
    BY DEF Numbered
  <2>2. QED BY <1>1, <2>1 DEF Sees
<1>9. ASSUME NEW a \in 1..Len(M), ~ M[a].deleted, Lone(M[a])
      PROVE  NeverTwo(have, M, a, M[a].id)
  <2>1. a \in 1..Len(L)
    BY <1>1, <1>9
  <2>2. NeverTwo(have, L, a, L[a].id)
    BY <1>1, <1>9, <2>1 DEF Sees
  <2>3. 1..a \subseteq 1..Len(L)
    BY <2>1
  <2>4. QED BY <1>1, <2>1, <2>2, <2>3 DEF NeverTwo
<1>10. ASSUME NEW j \in 1..Len(R), Lone(R[j])
       PROVE  NeverTwo(have, M, Len(M), R[j].id)
  <2>1. PICK i \in 1..Len(T) : R[j] = T[i]
    BY <1>5
  <2>2. NeverTwo(have, L, Len(L), T[i].id)
    BY <1>10, <2>1 DEF Sees
  <2>3. QED BY <1>1, <2>1, <2>2 DEF NeverTwo
<1>11. ASSUME NEW a \in 1..Len(M), ~ M[a].deleted, Latest(M, a)
       PROVE  Shows(M[a], M[a].id, R)
  <2>1. a \in 1..Len(L)
    BY <1>1, <1>11
  <2>2. Latest(L, a) /\ u.id # L[a].id
    BY <1>11, <2>1, LatestBefore DEF M
  <2>3. Shows(L[a], L[a].id, T)
    BY <1>1, <1>11, <2>1, <2>2 DEF Sees
  <2>4. QED BY <1>1, <1>7, <2>1, <2>2, <2>3
<1>12. ASSUME NEW i \in DOMAIN have, \A a \in 1..Len(M) : M[a].id # i
       PROVE  Shows(have[i], i, R)
  <2>1. u.id # i /\ \A a \in 1..Len(L) : L[a].id # i
    BY <1>1, <1>4, <1>12
  <2>2. Shows(have[i], i, T)
    BY <2>1 DEF Sees
  <2>3. QED BY <1>7, <2>1, <2>2
<1>13. \A i \in DOMAIN have : i \in 1..n /\ Len(have[i].members) \in 2..TeamSize
  BY DEF Sees
<1>14. QED BY <1>8, <1>9, <1>10, <1>11, <1>12, <1>13 DEF Sees, M, R

-----------------------------------------------------------------------------
(* Operators of the container, and what the worlds are told *)

\* What is known to the worlds that have not lost the chat server, and to one
\* that has just joined.
Views ==
  {[have |-> m_Teams[w], log |-> inbox[w]] : w \in joined \ cut} \cup {[have |-> <<>>, log |-> <<>>]}

ViewsTyped ==
  \A v \in Views : v.log \in Seq(Told) /\ \A i \in DOMAIN v.have : v.have[i] \in Copy

\* What they will know when they have had the broadcasts of S, too.
Story(S) == \A v \in Views : Sees(v.have, v.log \o S.sent, S.teams, S.next)

\* A broadcast comes after what is on the way already.
LEMMA AppendLast ==
  ASSUME NEW L \in Seq(Told), NEW s \in Seq(Told), NEW u \in Told
  PROVE  L \o Append(s, u) = Append(L \o s, u)
OBVIOUS

\* Updates after updates are updates.
LEMMA ConcatType ==
  ASSUME NEW L \in Seq(Told), NEW s \in Seq(Told)
  PROVE  L \o s \in Seq(Told)
OBVIOUS

\* The story of the worlds is kept when the last thing told is a changed team.
LEMMA StoryTold ==
  ASSUME ViewsTyped, NEW S \in State, NEW U \in State, Story(S), Numbered(S.teams, S.next),
         NEW k \in 1..Len(S.teams), Replaced(S.teams, U.teams, k), U.next = S.next,
         Len(U.teams[k].members) \in 1..TeamSize, Lone(U.teams[k]) => Lone(S.teams[k]),
         NEW u \in Told, u.id = S.teams[k].id, u.loot = U.teams[k].loot,
         u.members = U.teams[k].members, U.sent = Append(S.sent, u)
  PROVE  Story(U)
<1> SUFFICES ASSUME NEW v \in Views PROVE Sees(v.have, v.log \o U.sent, U.teams, U.next)
  BY DEF Story
<1>1. /\ v.log \in Seq(Told) /\ S.sent \in Seq(Told) /\ S.next \in Nat
      /\ S.teams \in Seq(Team) /\ U.teams \in Seq(Team)
  BY DEF ViewsTyped, State
<1>2. v.log \o S.sent \in Seq(Told) /\ v.log \o U.sent = Append(v.log \o S.sent, u)
  <2>1. v.log \o Append(S.sent, u) = Append(v.log \o S.sent, u)
    BY <1>1, AppendLast, Zenon
  <2>2. QED BY <1>1, <2>1, Zenon, ConcatType
<1>3. Sees(v.have, v.log \o S.sent, S.teams, S.next)
  BY DEF Story
<1>4. Sees(v.have, Append(v.log \o S.sent, u), U.teams, S.next)
  BY <1>1, <1>2, <1>3, SeesTold
<1>5. QED BY <1>2, <1>4

\* DisbandTeam keeps the story, whatever the team has become.
LEMMA StoryDisbanded ==
  ASSUME ViewsTyped, NEW S \in State, NEW U \in State, Story(S), Numbered(S.teams, S.next),
         NEW k \in 1..Len(S.teams), Replaced(S.teams, U.teams, k), U.next = S.next,
         U.sent = S.sent
  PROVE  Story(DisbandTeam(U, k))
<1> DEFINE u == [id |-> U.teams[k].id, deleted |-> TRUE, loot |-> U.teams[k].loot,
                 members |-> U.teams[k].members]
           D == DisbandTeam(U, k)
<1>1. D.teams = RemoveAt(U.teams, k) /\ D.next = S.next /\ D.sent = Append(S.sent, u)
  BY DEF DisbandTeam
<1>2. k \in 1..Len(U.teams) /\ U.teams[k].id = S.teams[k].id
  BY DEF Replaced
<1>3. U.teams[k] \in Team
  BY <1>2 DEF State
<1>4. u \in Told /\ u.id = S.teams[k].id /\ u.deleted = TRUE
  BY <1>2, <1>3 DEF Team, Told
<1> HIDE DEF u, D
<1> SUFFICES ASSUME NEW v \in Views PROVE Sees(v.have, v.log \o D.sent, D.teams, D.next)
  BY DEF Story, D
<1>5. /\ v.log \in Seq(Told) /\ S.sent \in Seq(Told) /\ S.next \in Nat
      /\ S.teams \in Seq(Team) /\ U.teams \in Seq(Team)
  BY DEF ViewsTyped, State
<1>6. v.log \o S.sent \in Seq(Told) /\ v.log \o D.sent = Append(v.log \o S.sent, u)
  <2>1. v.log \o Append(S.sent, u) = Append(v.log \o S.sent, u)
    BY <1>4, <1>5, AppendLast, Zenon
  <2>2. QED BY <1>1, <1>5, <2>1, Zenon, ConcatType
<1>7. Sees(v.have, v.log \o S.sent, S.teams, S.next)
  BY DEF Story
<1>8. Sees(v.have, Append(v.log \o S.sent, u), RemoveAt(U.teams, k), S.next)
  BY <1>4, <1>5, <1>6, <1>7, SeesDisbanded
<1>9. QED BY <1>1, <1>6, <1>8

\* The worlds are told of a team that has changed.
LEMMA ChangeStory ==
  ASSUME ViewsTyped, NEW S \in State, NEW U \in State, Story(S), Numbered(S.teams, S.next),
         NEW k \in 1..Len(S.teams), Replaced(S.teams, U.teams, k), U.next = S.next,
         U.sent = S.sent, Len(U.teams[k].members) \in 1..TeamSize,
         Lone(U.teams[k]) => Lone(S.teams[k])
  PROVE  Story(UpdateTeamsOnWorld(U, k))
<1> DEFINE u == [id |-> U.teams[k].id, deleted |-> FALSE, loot |-> U.teams[k].loot,
                 members |-> U.teams[k].members]
           W == UpdateTeamsOnWorld(U, k)
<1>1. k \in 1..Len(U.teams) /\ U.teams[k].id = S.teams[k].id
  BY DEF Replaced
<1>2. W \in State /\ W.teams = U.teams /\ W.next = S.next
  BY <1>1, UpdateTeamsOnWorldGood
<1>3. W.sent = Append(S.sent, u)
  BY DEF UpdateTeamsOnWorld, State
<1>4. U.teams[k] \in Team
  BY <1>1 DEF State
<1>5. u \in Told /\ u.id = S.teams[k].id /\ u.loot = U.teams[k].loot
      /\ u.members = U.teams[k].members
  BY <1>1, <1>4 DEF Team, Told
<1> HIDE DEF u, W
<1>6. Story(W)
  BY <1>2, <1>3, <1>5, StoryTold
<1>7. QED BY <1>6 DEF W

\* No change is a change of one team.
LEMMA UnchangedReplaces ==
  ASSUME NEW T, NEW k
  PROVE  Replaced(T, T, k)
BY DEF Replaced

\* The worlds are told of a team again.
LEMMA ToldStory ==
  ASSUME ViewsTyped, NEW S, Good(S), Story(S), NEW k \in 1..Len(S.teams)
  PROVE  Story(UpdateTeamsOnWorld(S, k))
<1>1. S \in State /\ Numbered(S.teams, S.next) /\ Len(S.teams[k].members) \in 1..TeamSize
  BY DEF Good, Sized
<1>2. QED BY <1>1, UnchangedReplaces, ChangeStory

\* One team has changed.
With(S, k, t) == [S EXCEPT !.teams = [S.teams EXCEPT ![k] = t]]

\* With changes the team it is given, and that one only.
LEMMA WithReplaces ==
  ASSUME NEW S \in State, NEW k \in 1..Len(S.teams), NEW t \in Team, t.id = S.teams[k].id
  PROVE  LET U == With(S, k, t)
         IN  /\ U \in State /\ U.next = S.next /\ U.sent = S.sent /\ U.teams[k] = t
             /\ Replaced(S.teams, U.teams, k)
<1> DEFINE T == [S.teams EXCEPT ![k] = t]
<1>1. S.teams \in Seq(Team)
  BY DEF State
<1>2. T \in Seq(Team) /\ Len(T) = Len(S.teams)
      /\ \A j \in 1..Len(S.teams) : T[j] = IF j = k THEN t ELSE S.teams[j]
  BY <1>1, UpdateType
<1>3. With(S, k, t) = [S EXCEPT !.teams = T]
  BY DEF With
<1> HIDE DEF T
<1>4. /\ [S EXCEPT !.teams = T] \in State /\ [S EXCEPT !.teams = T].teams = T
      /\ [S EXCEPT !.teams = T].next = S.next /\ [S EXCEPT !.teams = T].sent = S.sent
  BY <1>2 DEF State
<1>5. Replaced(S.teams, T, k)
  BY <1>2 DEF Replaced
<1>6. QED BY <1>2, <1>3, <1>4, <1>5

\* SetMembers changes the members of one team, and nothing is sent.
LEMMA SetMembersReplaces ==
  ASSUME NEW S \in State, NEW k \in 1..Len(S.teams), NEW m \in Seq(Players)
  PROVE  LET U == SetMembers(S, k, m)
         IN  /\ U \in State /\ U.next = S.next /\ U.sent = S.sent
             /\ U.teams[k] = [S.teams[k] EXCEPT !.members = m]
             /\ Replaced(S.teams, U.teams, k)
<1> DEFINE t == [S.teams[k] EXCEPT !.members = m]
<1>1. S.teams[k] \in Team
  BY DEF State
<1>2. t \in Team /\ t.id = S.teams[k].id
  BY <1>1 DEF Team
<1>3. SetMembers(S, k, m) = With(S, k, t)
  BY <1>1 DEF SetMembers, With, State, Team
<1> HIDE DEF t
<1>4. LET U == With(S, k, t)
      IN  /\ U \in State /\ U.next = S.next /\ U.sent = S.sent /\ U.teams[k] = t
          /\ Replaced(S.teams, U.teams, k)
  BY <1>2, WithReplaces
<1>5. QED BY <1>3, <1>4 DEF t

\* The loot option of one team changes, and nothing is sent.
LEMMA LootReplaces ==
  ASSUME NEW S \in State, NEW k \in 1..Len(S.teams), NEW option \in {0, 1}
  PROVE  LET U == [S EXCEPT !.teams[k].loot = option]
         IN  /\ U \in State /\ U.next = S.next /\ U.sent = S.sent
             /\ U.teams[k] = [S.teams[k] EXCEPT !.loot = option]
             /\ Replaced(S.teams, U.teams, k)
<1> DEFINE t == [S.teams[k] EXCEPT !.loot = option]
<1>1. S.teams[k] \in Team
  BY DEF State
<1>2. t \in Team /\ t.id = S.teams[k].id
  BY <1>1 DEF Team
<1>3. [S EXCEPT !.teams[k].loot = option] = With(S, k, t)
  BY <1>1 DEF With, State, Team
<1> HIDE DEF t
<1>4. LET U == With(S, k, t)
      IN  /\ U \in State /\ U.next = S.next /\ U.sent = S.sent /\ U.teams[k] = t
          /\ Replaced(S.teams, U.teams, k)
  BY <1>2, WithReplaces
<1>5. QED BY <1>3, <1>4 DEF t

\* The leader of one team changes, and nothing is sent.
LEMMA LeaderReplaces ==
  ASSUME NEW S \in State, NEW k \in 1..Len(S.teams), NEW q \in Players
  PROVE  LET U == [S EXCEPT !.teams[k].leader = q]
         IN  /\ U \in State /\ U.next = S.next /\ U.sent = S.sent
             /\ U.teams[k] = [S.teams[k] EXCEPT !.leader = q]
             /\ Replaced(S.teams, U.teams, k)
<1> DEFINE t == [S.teams[k] EXCEPT !.leader = q]
<1>1. S.teams[k] \in Team
  BY DEF State
<1>2. t \in Team /\ t.id = S.teams[k].id
  BY <1>1 DEF Team
<1>3. [S EXCEPT !.teams[k].leader = q] = With(S, k, t)
  BY <1>1 DEF With, State, Team
<1> HIDE DEF t
<1>4. LET U == With(S, k, t)
      IN  /\ U \in State /\ U.next = S.next /\ U.sent = S.sent /\ U.teams[k] = t
          /\ Replaced(S.teams, U.teams, k)
  BY <1>2, WithReplaces
<1>5. QED BY <1>3, <1>4 DEF t

\* A team that grows at its end, or gets another leader, without a word.
LEMMA GrownStory ==
  ASSUME ViewsTyped, NEW S \in State, NEW U \in State, Story(S), NEW k \in 1..Len(S.teams),
         Replaced(S.teams, U.teams, k), U.next = S.next, U.sent = S.sent,
         U.teams[k].loot = S.teams[k].loot, IsPrefix(S.teams[k].members, U.teams[k].members)
  PROVE  Story(U)
<1> SUFFICES ASSUME NEW v \in Views PROVE Sees(v.have, v.log \o U.sent, U.teams, U.next)
  BY DEF Story
<1>1. /\ v.log \in Seq(Told) /\ S.sent \in Seq(Told) /\ S.next \in Nat
      /\ S.teams \in Seq(Team) /\ U.teams \in Seq(Team)
      /\ \A i \in DOMAIN v.have : v.have[i] \in Copy
  BY DEF ViewsTyped, State
<1>2. v.log \o S.sent \in Seq(Told)
  BY <1>1
<1>3. Sees(v.have, v.log \o S.sent, S.teams, S.next)
  BY DEF Story
<1>4. Sees(v.have, v.log \o S.sent, U.teams, S.next)
  BY <1>1, <1>2, <1>3, SeesGrown
<1>5. QED BY <1>4

\* AddMember appends a member, and tells the worlds or not.
LEMMA AddMemberStory ==
  ASSUME ViewsTyped, NEW S \in State, Story(S), Numbered(S.teams, S.next),
         NEW k \in 1..Len(S.teams), NEW p \in Players
  PROVE  Story(AddMember(S, k, p))
<1> DEFINE m == S.teams[k].members
           U == SetMembers(S, k, Append(m, p))
<1>1. S.teams[k] \in Team /\ m \in Seq(Players)
  <2>1. S.teams[k] \in Team
    BY DEF State
  <2>2. QED BY <2>1 DEF Team
<1>2. CASE Len(m) >= TeamSize \/ p \in ToSet(m)
  BY <1>2 DEF AddMember
<1>3. CASE ~ (Len(m) >= TeamSize \/ p \in ToSet(m))
  <2>1. Append(m, p) \in Seq(Players) /\ Len(Append(m, p)) = Len(m) + 1 /\ Len(m) \in Nat
    BY <1>1
  <2>2. Len(Append(m, p)) \in 1..TeamSize
    BY <1>3, <2>1 DEF TeamSize
  <2>3. /\ U \in State /\ U.next = S.next /\ U.sent = S.sent
        /\ U.teams[k] = [S.teams[k] EXCEPT !.members = Append(m, p)]
        /\ Replaced(S.teams, U.teams, k)
    BY <2>1, SetMembersReplaces
  <2>4. IsPrefix(m, Append(m, p))
    BY <1>1, PrefixAppend
  <2>5. AddMember(S, k, p) \in {U, UpdateTeamsOnWorld(U, k)}
    BY <1>3 DEF AddMember
  <2> HIDE DEF U
  <2>6. U.teams[k].members = Append(m, p) /\ U.teams[k].loot = S.teams[k].loot
    BY <1>1, <2>3 DEF Team
  <2> HIDE DEF m
  <2>7. Story(U)
    <3>1. IsPrefix(S.teams[k].members, U.teams[k].members)
      BY <2>4, <2>6 DEF m
    <3>2. QED BY <2>3, <2>6, <3>1, GrownStory
  <2>8. Story(UpdateTeamsOnWorld(U, k))
    <3>1. Lone(U.teams[k]) => Lone(S.teams[k])
      BY <2>1, <2>6 DEF Lone, m
    <3>2. Len(U.teams[k].members) \in 1..TeamSize
      BY <2>2, <2>6
    <3>3. QED BY <2>3, <3>1, <3>2, ChangeStory
  <2>9. QED BY <2>5, <2>7, <2>8
<1>4. QED BY <1>2, <1>3

\* CreateTeam takes an id that no world has heard of.
LEMMA CreateTeamStory ==
  ASSUME ViewsTyped, NEW S, Good(S), Story(S), NEW p \in Players, NEW local \in BOOLEAN,
         NEW zone \in Zones \cup {NoZone}
  PROVE  Story(CreateTeam(S, p, local, zone))
<1> DEFINE t == [id |-> S.next + 1, leader |-> p, members |-> <<>>, local |-> local,
                 loot |-> DefaultLoot, zone |-> zone]
           n == Len(S.teams) + 1
           T == Append(S.teams, t)
           C == [teams |-> T, next |-> S.next + 1, sent |-> S.sent]
<1>1. /\ S.teams \in Seq(Team) /\ S.next \in Nat /\ Len(S.teams) \in Nat /\ S.sent \in Seq(Told)
      /\ Numbered(S.teams, S.next)
  BY DEF Good, State
<1>2. t \in Team /\ t.id = S.next + 1
  BY <1>1, ChatConstants DEF Team
<1>3. CreateTeam(S, p, local, zone) = AddMember(C, n, p)
  BY DEF CreateTeam
<1> HIDE DEF t
<1>4. T \in Seq(Team) /\ n \in 1..Len(T)
  BY <1>1, <1>2
<1>5. Numbered(T, S.next + 1)
  <2>1. /\ Len(T) = n /\ T[n].id = S.next + 1
        /\ \A j \in 1..n : j = n \/ j \in 1..Len(S.teams)
        /\ \A j \in 1..Len(S.teams) : T[j] = S.teams[j]
    BY <1>1, <1>2
  <2> HIDE DEF T, n
  <2>2. \A j \in 1..Len(S.teams) : S.teams[j].id \in 1..S.next
    BY <1>1 DEF Numbered
  <2>3. \A i \in 1..S.next : i \in 1..(S.next + 1) /\ i # S.next + 1
    BY <1>1
  <2>4. S.next + 1 \in 1..(S.next + 1)
    BY <1>1
  <2>5. \A i, j \in 1..Len(S.teams) : S.teams[i].id = S.teams[j].id => i = j
    BY <1>1 DEF Numbered
  <2>6. \A j \in 1..Len(T) : T[j].id \in 1..(S.next + 1)
    BY <2>1, <2>2, <2>3, <2>4
  <2>7. \A i, j \in 1..Len(T) : T[i].id = T[j].id => i = j
    BY <2>1, <2>2, <2>3, <2>5
  <2>8. QED BY <2>6, <2>7 DEF Numbered
<1>6. C \in State /\ C.teams = T /\ C.next = S.next + 1 /\ C.sent = S.sent
  BY <1>1, <1>4 DEF State
<1>7. Story(C)
  <2> SUFFICES ASSUME NEW v \in Views PROVE Sees(v.have, v.log \o C.sent, C.teams, C.next)
    BY DEF Story
  <2>1. v.log \o S.sent \in Seq(Told)
    BY <1>1 DEF ViewsTyped
  <2>2. Sees(v.have, v.log \o S.sent, S.teams, S.next)
    BY DEF Story
  <2>3. Sees(v.have, v.log \o S.sent, T, S.next + 1)
    BY <1>1, <1>2, <2>1, <2>2, SeesCreated
  <2> HIDE DEF T, C
  <2>4. QED BY <1>6, <2>3
<1> HIDE DEF C, T, n
<1>8. Story(AddMember(C, n, p))
  BY <1>4, <1>5, <1>6, <1>7, AddMemberStory
<1>9. QED BY <1>3, <1>8

\* RemoveMember disbands the team, or tells the worlds who is left.
LEMMA RemoveMemberStory ==
  ASSUME ViewsTyped, NEW S, Good(S), Story(S), NEW k \in 1..Len(S.teams), NEW p
  PROVE  Story(RemoveMember(S, k, p))
<1> DEFINE m == S.teams[k].members
           index == MemberIndex(m, p)
           rest == RemoveAt(m, index)
           U == SetMembers(S, k, rest)
           q == IF U.teams[k].leader = p THEN rest[1] ELSE U.teams[k].leader
           V == [U EXCEPT !.teams[k].leader = q]
<1>1. S \in State /\ Numbered(S.teams, S.next) /\ Sized(m)
  BY DEF Good
<1>2. S.teams[k] \in Team
  BY <1>1 DEF State
<1>3. m \in Seq(Players) /\ index \in 0..Len(m)
  BY <1>2, MemberFinds DEF Team
<1> HIDE DEF m, index
<1>4. CASE index = 0
  BY <1>4 DEF RemoveMember, index, m
<1>5. CASE index # 0
  <2>1. index \in 1..Len(m) /\ IsInjective(m) /\ Len(m) \in 1..TeamSize
    BY <1>1, <1>3, <1>5 DEF Sized
  <2>2. rest \in Seq(Players) /\ Len(rest) = Len(m) - 1
    BY <1>3, <2>1, EraseMember
  <2> HIDE DEF rest
  <2>3. /\ U \in State /\ U.next = S.next /\ U.sent = S.sent
        /\ U.teams[k] = [S.teams[k] EXCEPT !.members = rest]
        /\ Replaced(S.teams, U.teams, k)
    BY <1>1, <2>2, SetMembersReplaces
  <2> HIDE DEF U
  <2>4. CASE Len(rest) <= 1
    <3>1. RemoveMember(S, k, p) = DisbandTeam(U, k)
      BY <1>5, <2>4 DEF RemoveMember, U, rest, index, m
    <3>2. QED BY <1>1, <2>3, <3>1, StoryDisbanded
  <2>5. CASE ~ (Len(rest) <= 1)
    <3>1. RemoveMember(S, k, p) = UpdateTeamsOnWorld(V, k)
      BY <1>5, <2>5 DEF RemoveMember, U, rest, index, m
    <3>2. k \in 1..Len(U.teams) /\ U.teams[k] \in Team
      BY <2>3 DEF State, Replaced
    <3>3. q \in Players
      <4>1. rest[1] \in Players
        BY <2>2, <2>5
      <4>2. QED BY <3>2, <4>1 DEF Team
    <3> HIDE DEF q
    <3>4. /\ V \in State /\ V.next = U.next /\ V.sent = U.sent
          /\ V.teams[k] = [U.teams[k] EXCEPT !.leader = q]
          /\ Replaced(U.teams, V.teams, k)
      BY <2>3, <3>2, <3>3, LeaderReplaces
    <3> HIDE DEF V
    <3>5. Replaced(S.teams, V.teams, k)
      BY <2>3, <3>4 DEF Replaced
    <3>6. V.teams[k].members = rest
      BY <1>2, <2>3, <3>2, <3>4 DEF Team
    <3>7. Len(V.teams[k].members) \in 1..TeamSize /\ ~ Lone(V.teams[k])
      <4>1. \A l \in 1..TeamSize : ~ (l - 1 <= 1) => l - 1 \in 1..TeamSize
        BY DEF TeamSize
      <4>2. Len(rest) \in 1..TeamSize
        BY <2>1, <2>2, <2>5, <4>1
      <4>3. QED BY <2>5, <3>6, <4>2 DEF Lone
    <3>8. Story(UpdateTeamsOnWorld(V, k))
      BY <1>1, <2>3, <3>4, <3>5, <3>7, ChangeStory
    <3>9. QED BY <3>1, <3>8
  <2>6. QED BY <2>4, <2>5
<1>6. QED BY <1>4, <1>5

\* TeamStatusUpdate, then UpdateTeamsOnWorld: the worlds hear the same twice.
LEMMA ToldTwiceStory ==
  ASSUME ViewsTyped, NEW S, Good(S), Story(S), NEW k \in 1..Len(S.teams)
  PROVE  Story(UpdateTeamsOnWorld(TeamStatusUpdate(S, k), k))
<1> DEFINE U == TeamStatusUpdate(S, k)
<1>1. Good(U) /\ Len(U.teams) = Len(S.teams)
  BY TeamStatusUpdateGood
<1>2. Story(U)
  BY ToldStory DEF TeamStatusUpdate
<1> HIDE DEF U
<1>3. Story(UpdateTeamsOnWorld(U, k))
  BY <1>1, <1>2, ToldStory
<1>4. QED BY <1>3 DEF U

\* A change of loot is told of, once or twice.
LEMMA LootStory ==
  ASSUME ViewsTyped, NEW S, Good(S), Story(S), NEW k \in 1..Len(S.teams), NEW option \in {0, 1}
  PROVE  Story(UpdateTeamsOnWorld(TeamStatusUpdate([S EXCEPT !.teams[k].loot = option], k), k))
<1> DEFINE U == [S EXCEPT !.teams[k].loot = option]
           V == UpdateTeamsOnWorld(U, k)
<1>1. S \in State /\ Numbered(S.teams, S.next) /\ Len(S.teams[k].members) \in 1..TeamSize
  BY DEF Good, Sized
<1>2. /\ U \in State /\ U.next = S.next /\ U.sent = S.sent
      /\ U.teams[k] = [S.teams[k] EXCEPT !.loot = option]
      /\ Replaced(S.teams, U.teams, k)
  BY <1>1, LootReplaces
<1>3. Good(U) /\ Len(U.teams) = Len(S.teams)
  BY LootGood
<1> HIDE DEF U
<1>4. U.teams[k].members = S.teams[k].members
  BY <1>1, <1>2 DEF State, Team
<1>5. Story(V)
  BY <1>1, <1>2, <1>4, ChangeStory DEF Lone
<1>6. Good(V) /\ V.teams = U.teams
  BY <1>2, <1>3, UpdateTeamsOnWorldGood DEF Good
<1> HIDE DEF V
<1>7. Story(UpdateTeamsOnWorld(V, k))
  BY <1>3, <1>5, <1>6, ToldStory
<1>8. TeamStatusUpdate(U, k) \in {U, V}
  BY DEF TeamStatusUpdate, V
<1>9. Story(UpdateTeamsOnWorld(TeamStatusUpdate(U, k), k))
  BY <1>5, <1>7, <1>8 DEF V
<1>10. QED BY <1>9 DEF U

\* A player leaves his team, and the worlds hear of it.
LEMMA LeaveTeamStory ==
  ASSUME ViewsTyped, NEW S, Good(S), Story(S), NEW p
  PROVE  Story(LeaveTeam(S, p))
<1>1. S.teams \in Seq(Team)
  BY DEF Good, State
<1>2. GetTeam(S.teams, p) \in 0..Len(S.teams)
  BY <1>1, GetTeamFinds
<1>3. GetTeam(S.teams, p) # 0 => GetTeam(S.teams, p) \in 1..Len(S.teams)
  BY <1>1, <1>2
<1>4. QED BY <1>3, RemoveMemberStory DEF LeaveTeam

\* The next member of a local team leaves his team and joins the new one.
LEMMA JoinLastStory ==
  ASSUME ViewsTyped, NEW S, Good(S), Story(S), Len(S.teams) # 0, NEW p \in Players,
         p \notin ToSet(NewTeam(S))
  PROVE  Story(JoinLast(S, p))
<1> DEFINE U == LeaveTeam(S, p)
<1>1. Good(U) /\ Story(U) /\ Len(U.teams) # 0
  BY LeaveTeamGood, LeaveTeamStory, LeaveTeamKeepsNewTeam
<1>2. JoinLast(S, p) = AddMember(U, Len(U.teams), p)
  BY DEF JoinLast
<1> HIDE DEF U
<1>3. U \in State /\ Numbered(U.teams, U.next) /\ Len(U.teams) \in 1..Len(U.teams)
  BY <1>1 DEF Good, State
<1>4. Story(AddMember(U, Len(U.teams), p))
  BY <1>1, <1>3, AddMemberStory
<1>5. QED BY <1>2, <1>4

-----------------------------------------------------------------------------
(* Worlds *)

\* What WorldReceives makes of the copies.
Received(have, u) ==
  IF u.deleted THEN [i \in DOMAIN have \ {u.id} |-> have[i]]
  ELSE IF u.id \notin DOMAIN have /\ Len(u.members) <= 1 THEN have
  ELSE [i \in DOMAIN have \cup {u.id} |->
          IF i = u.id THEN [members |-> u.members, loot |-> u.loot] ELSE have[i]]

\* A copy is an old one, or what the update says of two members or of a team
\* that had a copy.
LEMMA ReceivedCopies ==
  ASSUME NEW have, NEW u, NEW i \in DOMAIN Received(have, u)
  PROVE  \/ i \in DOMAIN have /\ i # u.id /\ Received(have, u)[i] = have[i]
         \/ /\ i = u.id /\ ~ u.deleted
            /\ Received(have, u)[i] = [members |-> u.members, loot |-> u.loot]
            /\ Len(u.members) <= 1 => i \in DOMAIN have
<1>1. CASE u.deleted
  BY <1>1 DEF Received
<1>2. CASE ~ u.deleted /\ u.id \notin DOMAIN have /\ Len(u.members) <= 1
  <2>1. Received(have, u) = have
    BY <1>2 DEF Received
  <2>2. QED BY <1>2, <2>1
<1>3. CASE ~ u.deleted /\ ~ (u.id \notin DOMAIN have /\ Len(u.members) <= 1)
  BY <1>3 DEF Received
<1>4. QED BY <1>1, <1>2, <1>3

\* What is on the way when the next update has arrived.
LEMMA TailElements ==
  ASSUME NEW L \in Seq(Told), L # <<>>
  PROVE  /\ Tail(L) \in Seq(Told) /\ Len(L) \in Nat /\ Len(Tail(L)) = Len(L) - 1 /\ 1 \in 1..Len(L)
         /\ Head(L) = L[1]
         /\ \A a \in 1..Len(Tail(L)) : Tail(L)[a] = L[a + 1] /\ a + 1 \in 1..Len(L)
OBVIOUS

\* A world that has not heard of a second member makes no copy of the team.
LEMMA NeverTwoReceived ==
  ASSUME NEW have, NEW L \in Seq(Told), L # <<>>, NEW a \in 0..Len(Tail(L)), NEW i,
         NeverTwo(have, L, a + 1, i)
  PROVE  NeverTwo(Received(have, Head(L)), Tail(L), a, i)
<1> DEFINE u == Head(L)
           M == Tail(L)
<1>1. /\ M \in Seq(Told) /\ Len(L) \in Nat /\ Len(M) = Len(L) - 1 /\ 1 \in 1..Len(L)
      /\ u = L[1]
      /\ \A b \in 1..Len(M) : M[b] = L[b + 1] /\ b + 1 \in 1..Len(L)
  BY TailElements
<1> HIDE DEF u, M
<1>2. i \notin DOMAIN have /\ \A b \in 1..a+1 : L[b].id = i /\ ~ L[b].deleted => Lone(L[b])
  BY DEF NeverTwo
<1>3. 1 \in 1..a+1 /\ \A b \in 1..a : b + 1 \in 1..a+1 /\ b \in 1..Len(M)
  BY <1>1 DEF M
<1>4. i \notin DOMAIN Received(have, u)
  <2> SUFFICES ASSUME i \in DOMAIN Received(have, u) PROVE FALSE
    OBVIOUS
  <2>1. i = u.id /\ ~ u.deleted /\ (Len(u.members) <= 1 => i \in DOMAIN have)
    BY <1>2, ReceivedCopies
  <2>2. Lone(u)
    BY <1>1, <1>2, <1>3, <2>1
  <2>3. QED BY <1>2, <2>1, <2>2 DEF Lone
<1>5. \A b \in 1..a : M[b].id = i /\ ~ M[b].deleted => Lone(M[b])
  BY <1>1, <1>2, <1>3
<1>6. QED BY <1>4, <1>5 DEF NeverTwo, u, M

\* A world has handled its next update.
LEMMA SeesReceived ==
  ASSUME NEW have, NEW L \in Seq(Told), L # <<>>, NEW T, NEW n \in Nat, Sees(have, L, T, n)
  PROVE  Sees(Received(have, Head(L)), Tail(L), T, n)
<1> DEFINE u == Head(L)
           M == Tail(L)
           new == Received(have, u)
<1>1. /\ M \in Seq(Told) /\ Len(L) \in Nat /\ Len(M) = Len(L) - 1 /\ 1 \in 1..Len(L)
      /\ u = L[1]
      /\ \A b \in 1..Len(M) : M[b] = L[b + 1] /\ b + 1 \in 1..Len(L)
  BY TailElements
<1>2. \A i \in DOMAIN new :
        \/ i \in DOMAIN have /\ i # u.id /\ new[i] = have[i]
        \/ /\ i = u.id /\ ~ u.deleted /\ new[i] = [members |-> u.members, loot |-> u.loot]
           /\ Len(u.members) <= 1 => i \in DOMAIN have
  BY ReceivedCopies
<1>3. ASSUME NEW a \in 0..Len(M), NEW i, NeverTwo(have, L, a + 1, i)
      PROVE  NeverTwo(new, M, a, i)
  BY <1>3, NeverTwoReceived
<1> HIDE DEF u, M, new
<1>4. ASSUME NEW i \in DOMAIN new
      PROVE  i \in 1..n /\ Len(new[i].members) \in 2..TeamSize
  <2>1. CASE i \in DOMAIN have /\ i # u.id /\ new[i] = have[i]
    BY <2>1 DEF Sees
  <2>2. CASE /\ i = u.id /\ ~ u.deleted /\ new[i] = [members |-> u.members, loot |-> u.loot]
             /\ Len(u.members) <= 1 => i \in DOMAIN have
    <3>1. u.id \in 1..n /\ (u.deleted \/ Len(u.members) \in 1..TeamSize)
      BY <1>1 DEF Sees
    <3>2. Lone(u) => NeverTwo(have, L, 1, u.id)
      BY <1>1, <2>2 DEF Sees
    <3>3. ~ (Len(u.members) <= 1)
      BY <2>2, <3>2 DEF Lone, NeverTwo
    <3>4. Len(u.members) \in 1..TeamSize
      BY <2>2, <3>1
    <3>5. Len(u.members) \in 2..TeamSize
      <4>1. \A l \in 1..TeamSize : ~ (l <= 1) => l \in 2..TeamSize
        BY DEF TeamSize
      <4>2. QED BY <3>3, <3>4, <4>1
    <3>6. QED BY <2>2, <3>1, <3>5
  <2>3. QED BY <1>2, <2>1, <2>2
<1>5. \A a \in 1..Len(M) : M[a].id \in 1..n /\ (M[a].deleted \/ Len(M[a].members) \in 1..TeamSize)
  BY <1>1 DEF Sees
<1>6. ASSUME NEW a \in 1..Len(M), ~ M[a].deleted, Lone(M[a])
      PROVE  NeverTwo(new, M, a, M[a].id)
  <2>1. NeverTwo(have, L, a + 1, M[a].id)
    BY <1>1, <1>6 DEF Sees
  <2>2. a \in 0..Len(M)
    OBVIOUS
  <2>3. QED BY <1>3, <2>1, <2>2
<1>7. ASSUME NEW k \in 1..Len(T), Lone(T[k])
      PROVE  NeverTwo(new, M, Len(M), T[k].id)
  <2>1. NeverTwo(have, L, Len(L), T[k].id)
    BY <1>7 DEF Sees
  <2>2. Len(M) \in 0..Len(M) /\ Len(M) + 1 = Len(L)
    BY <1>1
  <2>3. QED BY <1>3, <2>1, <2>2
<1>8. ASSUME NEW a \in 1..Len(M), ~ M[a].deleted, Latest(M, a)
      PROVE  Shows(M[a], M[a].id, T)
  <2>1. ASSUME NEW b \in 1..Len(L), b > a + 1
        PROVE  L[b].id # L[a + 1].id
    <3>1. b - 1 \in 1..Len(M) /\ b - 1 > a /\ (b - 1) + 1 = b
      BY <1>1, <2>1
    <3>2. M[b - 1] = L[b] /\ M[a] = L[a + 1]
      BY <1>1, <3>1
    <3>3. QED BY <1>8, <3>1, <3>2 DEF Latest
  <2>2. Latest(L, a + 1)
    BY <2>1 DEF Latest
  <2>3. QED BY <1>1, <1>8, <2>2 DEF Sees
<1>9. ASSUME NEW i \in DOMAIN new, \A a \in 1..Len(M) : M[a].id # i
      PROVE  Shows(new[i], i, T)
  <2>1. \A b \in 1..Len(L) : b > 1 => L[b].id # i
    <3> SUFFICES ASSUME NEW b \in 1..Len(L), b > 1 PROVE L[b].id # i
      OBVIOUS
    <3>1. b - 1 \in 1..Len(M) /\ (b - 1) + 1 = b
      BY <1>1
    <3>2. M[b - 1] = L[b]
      BY <1>1, <3>1
    <3>3. QED BY <1>9, <3>1, <3>2
  <2>2. CASE i \in DOMAIN have /\ i # u.id /\ new[i] = have[i]
    <3>1. \A b \in 1..Len(L) : L[b].id # i
      <4>1. \A b \in 1..Len(L) : b = 1 \/ b > 1
        BY <1>1
      <4>2. QED BY <1>1, <2>1, <2>2, <4>1
    <3>2. Shows(have[i], i, T)
      BY <2>2, <3>1 DEF Sees
    <3>3. QED BY <2>2, <3>2
  <2>3. CASE i = u.id /\ ~ u.deleted /\ new[i] = [members |-> u.members, loot |-> u.loot]
    <3>1. Latest(L, 1)
      BY <1>1, <2>1, <2>3 DEF Latest
    <3>2. Shows(u, i, T)
      BY <1>1, <2>3, <3>1 DEF Sees
    <3>3. QED BY <2>3, <3>2 DEF Shows
  <2>4. QED BY <1>2, <2>2, <2>3
<1>10. QED BY <1>4, <1>5, <1>6, <1>7, <1>8, <1>9 DEF Sees, new, u, M

\* A world that knows nothing sees whatever there is.
LEMMA SeesNothing ==
  ASSUME NEW T, NEW n
  PROVE  Sees(<<>>, <<>>, T, n)
<1>1. DOMAIN <<>> = {} /\ Len(<<>>) = 0 /\ 1..0 = {}
  OBVIOUS
<1>2. QED BY <1>1 DEF Sees, NeverTwo

-----------------------------------------------------------------------------
\* Of every world, whatever it has lost: teams of one to four, and their ids.
TypedCopies(have) ==
  \A i \in DOMAIN have :
    i \in 1..MaxTeamId /\ have[i] \in Copy /\ Len(have[i].members) \in 1..TeamSize

TypedUpdates(L) ==
  \A a \in 1..Len(L) : L[a].id \in 1..MaxTeamId /\ (L[a].deleted \/ Len(L[a].members) \in 1..TeamSize)

\* A world that was never connected, or has ended, knows nothing; one that has
\* kept the chat server sees its teams.
WorldsInv ==
  /\ g_TeamIDCounter \in 0..MaxTeamId
  /\ joined \subseteq Worlds /\ cut \subseteq Worlds
  /\ inbox \in [Worlds -> Seq(Told)] /\ m_Teams = [w \in Worlds |-> m_Teams[w]]
  /\ \A w \in Worlds : TypedCopies(m_Teams[w]) /\ TypedUpdates(inbox[w])
  /\ \A w \in Worlds \ joined : inbox[w] = <<>>
  /\ \A w \in Worlds \ (joined \cup cut) : m_Teams[w] = <<>>
  /\ \A w \in joined \ cut : Sees(m_Teams[w], inbox[w], mTeams, g_TeamIDCounter)

\* In the beginning there are no copies, and no updates on the way.
LEMMA InitWorlds == Init => WorldsInv
<1> SUFFICES ASSUME Init PROVE WorldsInv
  OBVIOUS
<1>1. /\ \A w \in Worlds : m_Teams[w] = <<>> /\ inbox[w] = <<>>
      /\ m_Teams = [w \in Worlds |-> m_Teams[w]] /\ inbox \in [Worlds -> Seq(Told)]
      /\ joined = Worlds /\ cut = {} /\ g_TeamIDCounter \in 0..MaxTeamId
  BY ChatConstants DEF Init
<1>2. TypedCopies(<<>>) /\ TypedUpdates(<<>>)
  BY DEF TypedCopies, TypedUpdates
<1>3. QED BY <1>1, <1>2, SeesNothing DEF WorldsInv

\* What worlds know has its types.
LEMMA ViewsAreTyped == WorldsInv => ViewsTyped
<1> SUFFICES ASSUME WorldsInv, NEW v \in Views
             PROVE  v.log \in Seq(Told) /\ \A i \in DOMAIN v.have : v.have[i] \in Copy
  BY DEF ViewsTyped
<1>1. CASE \E w \in joined \ cut : v = [have |-> m_Teams[w], log |-> inbox[w]]
  BY <1>1 DEF WorldsInv, TypedCopies
<1>2. CASE v = [have |-> <<>>, log |-> <<>>]
  BY <1>2
<1>3. QED BY <1>1, <1>2 DEF Views

\* Before a handler begins the worlds see what they see.
LEMMA ContainerStory == WorldsInv => Story(Container)
<1> SUFFICES ASSUME WorldsInv, NEW v \in Views
             PROVE  Sees(v.have, v.log \o <<>>, mTeams, g_TeamIDCounter)
  BY DEF Story, Container
<1>1. v.log \in Seq(Told)
  BY ViewsAreTyped DEF ViewsTyped
<1>2. v.log \o <<>> = v.log
  BY <1>1
<1>3. Sees(v.have, v.log, mTeams, g_TeamIDCounter)
  <2>1. CASE \E w \in joined \ cut : v = [have |-> m_Teams[w], log |-> inbox[w]]
    <3>1. PICK w \in joined \ cut : v = [have |-> m_Teams[w], log |-> inbox[w]]
      BY <2>1
    <3>2. v.have = m_Teams[w] /\ v.log = inbox[w]
      BY <3>1
    <3>3. Sees(m_Teams[w], inbox[w], mTeams, g_TeamIDCounter)
      BY DEF WorldsInv
    <3>4. QED BY <3>2, <3>3
  <2>2. CASE v = [have |-> <<>>, log |-> <<>>]
    BY <2>2, SeesNothing
  <2>3. QED BY <2>1, <2>2 DEF Views
<1>4. QED BY <1>2, <1>3

-----------------------------------------------------------------------------
(* The handlers *)

\* What a handler leaves: good teams, and worlds that will be told enough.
Committed ==
  \E S : /\ Good(S) /\ Story(S) /\ S.next <= MaxTeamId
         /\ mTeams' = S.teams /\ g_TeamIDCounter' = S.next
         /\ inbox' = [w \in Worlds |-> IF w \in joined THEN inbox[w] \o S.sent ELSE inbox[w]]

\* Commit leaves what its container says.
LEMMA CommitCommits ==
  ASSUME NEW S, Good(S), Story(S), Commit(S)
  PROVE  Committed
BY DEF Commit, Broadcast, Committed

\* What a handler commits is what the next one finds.
LEMMA CommitGood ==
  ASSUME Committed
  PROVE  TeamsInv'
<1>1. PICK S : Good(S) /\ mTeams' = S.teams /\ g_TeamIDCounter' = S.next
  BY DEF Committed
<1>2. S.teams \in Seq(Team) /\ S.next \in Nat
  BY <1>1 DEF Good, State
<1> DEFINE C == [teams |-> S.teams, next |-> S.next, sent |-> <<>>]
<1>3. C \in State /\ C.teams = S.teams /\ C.next = S.next
  BY <1>2 DEF State
<1> HIDE DEF C
<1>4. Good(C)
  BY <1>1, <1>3 DEF Good
<1>5. TeamsInv' <=> Good(C)
  BY <1>1 DEF TeamsInv, C, Good, Numbered, Sized, State, Team, Told
<1>6. QED BY <1>4, <1>5

\* The container the handlers work on is good, and lists the teams.
LEMMA ContainerGood ==
  ASSUME TeamsInv
  PROVE  Good(Container) /\ Container.teams = mTeams /\ mTeams \in Seq(Team)
BY DEF TeamsInv, Container, Good, State

\* A player's team is on the list.
LEMMA GetTeamListed ==
  ASSUME TeamsInv, NEW p, GetTeam(mTeams, p) # 0
  PROVE  GetTeam(mTeams, p) \in 1..Len(Container.teams)
BY ContainerGood, GetTeamFinds

\* An invitation creates a team of the player who invites.
LEMMA HandleTeamInviteCommits ==
  ASSUME TeamsInv, WorldsInv, NEW p \in Players, HandleTeamInvite(p)
  PROVE  Committed
<1> DEFINE U == CreateTeam(Container, p, FALSE, NoZone)
<1>1. Good(U) /\ Story(U)
  BY ContainerGood, ContainerStory, ViewsAreTyped, CreateTeamGood, CreateTeamStory
<1>2. QED BY <1>1, CommitCommits DEF HandleTeamInvite

\* An answer adds the player to the team it is about, or to his own again.
LEMMA HandleTeamInviteResponseCommits ==
  ASSUME TeamsInv, WorldsInv, NEW p \in Players, NEW leader \in Players,
         HandleTeamInviteResponse(p, leader)
  PROVE  Committed
<1>1. PICK k : /\ k \in {GetTeam(mTeams, leader), GetTeam(mTeams, p)}
               /\ k # 0 /\ Commit(AddMember(Container, k, p))
  BY DEF HandleTeamInviteResponse
<1>2. k \in 1..Len(Container.teams)
  BY <1>1, GetTeamListed
<1>3. Good(AddMember(Container, k, p))
  BY <1>2, ContainerGood, AddMemberGood
<1>4. Story(AddMember(Container, k, p))
  BY <1>2, ContainerGood, ContainerStory, ViewsAreTyped, AddMemberStory DEF Good
<1>5. QED BY <1>1, <1>3, <1>4, CommitCommits

\* A player leaves his team.
LEMMA LeaveTeamCommits ==
  ASSUME TeamsInv, WorldsInv, NEW p \in Players, Commit(LeaveTeam(Container, p))
  PROVE  Committed
<1>1. Good(LeaveTeam(Container, p)) /\ Story(LeaveTeam(Container, p))
  BY ContainerGood, ContainerStory, ViewsAreTyped, LeaveTeamGood, LeaveTeamStory
<1>2. QED BY <1>1, CommitCommits

\* A leader takes somebody off his team, or somebody who is not in it.
LEMMA HandleTeamKickCommits ==
  ASSUME TeamsInv, WorldsInv, NEW p \in Players, NEW kicked \in Players, HandleTeamKick(p, kicked)
  PROVE  Committed
<1>1. PICK k : k = GetTeam(mTeams, p) /\ k # 0 /\ Commit(RemoveMember(Container, k, kicked))
  BY DEF HandleTeamKick
<1>2. k \in 1..Len(Container.teams) /\ Good(Container) /\ Story(Container) /\ ViewsTyped
  BY <1>1, GetTeamListed, ContainerGood, ContainerStory, ViewsAreTyped
<1>3. Good(RemoveMember(Container, k, kicked)) /\ Story(RemoveMember(Container, k, kicked))
  BY <1>2, RemoveMemberGood, RemoveMemberStory
<1>4. QED BY <1>1, <1>3, CommitCommits

\* A leader makes somebody the leader, without a word to the worlds.
LEMMA HandleTeamPromoteCommits ==
  ASSUME TeamsInv, WorldsInv, NEW p \in Players, NEW promoted \in Players,
         HandleTeamPromote(p, promoted)
  PROVE  Committed
<1>1. PICK k : /\ k = GetTeam(mTeams, p) /\ k # 0
               /\ mTeams' = [mTeams EXCEPT ![k].leader = promoted]
               /\ UNCHANGED <<g_TeamIDCounter, inbox>>
  BY DEF HandleTeamPromote
<1> DEFINE U == [Container EXCEPT !.teams[k].leader = promoted]
<1>2. k \in 1..Len(Container.teams) /\ Good(Container) /\ Story(Container) /\ ViewsTyped
  BY <1>1, GetTeamListed, ContainerGood, ContainerStory, ViewsAreTyped
<1>3. Good(U)
  BY <1>2, LeaderGood
<1>4. Story(U)
  <2>1. Container \in State
    BY <1>2 DEF Good
  <2>2. /\ U \in State /\ U.next = Container.next /\ U.sent = Container.sent
        /\ U.teams[k] = [Container.teams[k] EXCEPT !.leader = promoted]
        /\ Replaced(Container.teams, U.teams, k)
    BY <1>2, <2>1, LeaderReplaces
  <2> HIDE DEF U
  <2>3. Container.teams[k] \in Team
    BY <1>2, <2>1 DEF State
  <2>4. /\ U.teams[k].loot = Container.teams[k].loot
        /\ U.teams[k].members = Container.teams[k].members
        /\ Container.teams[k].members \in Seq(Players)
    BY <2>2, <2>3 DEF Team
  <2>5. IsPrefix(Container.teams[k].members, U.teams[k].members)
    BY <2>4, PrefixReflexive
  <2>6. QED BY <1>2, <2>1, <2>2, <2>4, <2>5, GrownStory
<1>5. mTeams' = U.teams /\ g_TeamIDCounter' = U.next /\ U.sent = <<>>
  BY <1>1 DEF Container
<1>6. U.next <= MaxTeamId
  BY ChatConstants DEF WorldsInv, Container
<1>7. inbox' = [w \in Worlds |-> IF w \in joined THEN inbox[w] \o U.sent ELSE inbox[w]]
  <2>1. inbox \in [Worlds -> Seq(Told)]
    BY DEF WorldsInv
  <2>2. \A w \in Worlds : inbox[w] \o <<>> = inbox[w]
    BY <2>1
  <2> HIDE DEF U
  <2>3. QED BY <1>1, <1>5, <2>1, <2>2
<1> HIDE DEF U
<1>8. QED BY <1>3, <1>4, <1>5, <1>6, <1>7 DEF Committed

\* A leader chooses how loot is shared.
LEMMA HandleTeamLootOptionCommits ==
  ASSUME TeamsInv, WorldsInv, NEW p \in Players, NEW option \in {0, 1},
         HandleTeamLootOption(p, option)
  PROVE  Committed
<1>1. PICK k : k = GetTeam(mTeams, p) /\ k # 0
         /\ Commit(UpdateTeamsOnWorld(TeamStatusUpdate([Container EXCEPT !.teams[k].loot = option], k), k))
  BY DEF HandleTeamLootOption
<1> DEFINE U == [Container EXCEPT !.teams[k].loot = option]
           V == UpdateTeamsOnWorld(TeamStatusUpdate(U, k), k)
<1>2. k \in 1..Len(Container.teams) /\ Good(Container) /\ Story(Container) /\ ViewsTyped
  BY <1>1, GetTeamListed, ContainerGood, ContainerStory, ViewsAreTyped
<1>3. Good(U) /\ Len(U.teams) = Len(Container.teams)
  BY <1>2, LootGood
<1>4. Commit(V)
  BY <1>1
<1>5. Story(V)
  BY <1>2, LootStory
<1> HIDE DEF U
<1>6. Good(V)
  BY <1>2, <1>3, ToldTwiceGood
<1> HIDE DEF V
<1>7. QED BY <1>4, <1>5, <1>6, CommitCommits

\* A player has arrived: out of an activity's team, an end to a team of one,
\* or the team is told again.
LEMMA HandleTeamStatusRequestCommits ==
  ASSUME TeamsInv, WorldsInv, NEW p \in Players, HandleTeamStatusRequest(p)
  PROVE  Committed
<1>1. PICK k : /\ k = GetTeam(mTeams, p) /\ k # 0
               /\ \/ Commit(RemoveMember(Container, k, p))
                  \/ Commit(DisbandTeam(Container, k))
                  \/ Commit(UpdateTeamsOnWorld(TeamStatusUpdate(Container, k), k))
  BY DEF HandleTeamStatusRequest
<1>2. k \in 1..Len(Container.teams) /\ Good(Container) /\ Story(Container) /\ ViewsTyped
  BY <1>1, GetTeamListed, ContainerGood, ContainerStory, ViewsAreTyped
<1>3. Good(RemoveMember(Container, k, p)) /\ Story(RemoveMember(Container, k, p))
  BY <1>2, RemoveMemberGood, RemoveMemberStory
<1>4. Good(DisbandTeam(Container, k))
  BY <1>2, DisbandTeamGood DEF Good
<1>5. Story(DisbandTeam(Container, k))
  BY <1>2, UnchangedReplaces, StoryDisbanded DEF Good
<1>6. /\ Good(UpdateTeamsOnWorld(TeamStatusUpdate(Container, k), k))
      /\ Story(UpdateTeamsOnWorld(TeamStatusUpdate(Container, k), k))
  BY <1>2, ToldTwiceGood, ToldTwiceStory
<1>7. QED BY <1>1, <1>3, <1>4, <1>5, <1>6, CommitCommits

\* The members of an activity, all different, get a team of their own.
LEMMA CreateTeamServerCommits ==
  ASSUME TeamsInv, WorldsInv, NEW n \in 2..Cardinality(Players), NEW members \in Arrangements(n),
         NEW zone \in Zones, CreateTeamServer(members, zone)
  PROVE  Committed \/ UNCHANGED <<teamVars, inbox>>
<1> DEFINE a == members[1]
           b == members[2]
           c == members[3]
           empty == LeaveTeam(Container, a)
           first == CreateTeam(empty, a, TRUE, zone)
           two == JoinLast(first, b)
           S == IF Len(members) = 2 THEN two ELSE JoinLast(two, c)
           k == Len(S.teams)
           V == UpdateTeamsOnWorld(TeamStatusUpdate([S EXCEPT !.teams[k].loot = 0], k), k)
<1>1. CASE Len(members) >= TeamSize
  BY <1>1 DEF CreateTeamServer
<1>2. CASE ~ (Len(members) >= TeamSize)
  <2>1. Commit(V) /\ Len(members) >= 2
    BY <1>2 DEF CreateTeamServer
  <2>2. members \in [1..n -> Players] /\ IsInjective(members) /\ n \in Int
    BY DEF Arrangements
  <2>3. Len(members) \in {2, 3} /\ DOMAIN members = 1..Len(members)
    <3>1. n \in Nat /\ members \in Seq(Players)
      BY <2>2
    <3>2. Len(members) \in Nat /\ DOMAIN members = 1..Len(members)
      BY <3>1
    <3>3. \A l \in Nat : l >= 2 /\ ~ (l >= 4) => l \in {2, 3}
      OBVIOUS
    <3>4. QED BY ZenonT(60), <1>2, <2>1, <3>2, <3>3 DEF TeamSize
  <2>4. a \in Players /\ b \in Players /\ a # b
    BY <2>2, <2>3 DEF IsInjective
  <2>5. Len(members) = 3 => c \in Players /\ c # a /\ c # b
    <3>1. DOMAIN members = 1..n
      BY <2>2
    <3>2. \A i, j \in 1..n : members[i] = members[j] => i = j
      BY <2>2, <3>1 DEF IsInjective
    <3>3. SUFFICES ASSUME Len(members) = 3 PROVE c \in Players /\ c # a /\ c # b
      OBVIOUS
    <3>4. 1..n = 1..3
      BY <2>3, <3>1, <3>3
    <3>5. 1 \in 1..n /\ 2 \in 1..n /\ 3 \in 1..n
      BY <3>4
    <3>6. members[3] # members[1] /\ members[3] # members[2] /\ members[3] \in Players
      BY <2>2, <3>2, <3>5
    <3>7. QED BY <3>6
  <2> HIDE DEF a, b, c, V
  <2>6. Good(empty) /\ Story(empty) /\ ViewsTyped
    BY ContainerGood, ContainerStory, ViewsAreTyped, LeaveTeamGood, LeaveTeamStory
  <2> HIDE DEF empty
  <2>7. Good(first) /\ Story(first) /\ Len(first.teams) # 0 /\ ToSet(NewTeam(first)) = {a}
    <3>1. Len(empty.teams) \in Nat
      BY <2>6 DEF Good, State
    <3>2. /\ Good(first) /\ Len(first.teams) = Len(empty.teams) + 1
          /\ ToSet(NewTeam(first)) = {a}
      BY <2>4, <2>6, CreateTeamGood
    <3>3. Story(first)
      BY <2>4, <2>6, CreateTeamStory
    <3> HIDE DEF first
    <3>4. QED BY <3>1, <3>2, <3>3
  <2> HIDE DEF first
  <2>8. Good(two) /\ Story(two) /\ Len(two.teams) # 0 /\ ToSet(NewTeam(two)) \subseteq {a, b}
    <3>1. b \notin ToSet(NewTeam(first))
      BY <2>4, <2>7
    <3>2. /\ Good(two) /\ Len(two.teams) # 0
          /\ ToSet(NewTeam(two)) \subseteq ToSet(NewTeam(first)) \cup {b}
      BY <2>4, <2>7, <3>1, JoinLastGood
    <3>3. Story(two)
      BY <2>4, <2>6, <2>7, <3>1, JoinLastStory
    <3> HIDE DEF two
    <3>4. QED BY <2>7, <3>2, <3>3
  <2> HIDE DEF two
  <2>9. Good(S) /\ Story(S) /\ Len(S.teams) # 0
    <3>1. Len(members) = 3 => c \in Players /\ c \notin ToSet(NewTeam(two))
      BY <2>5, <2>8
    <3>2. Len(members) = 3 => Good(JoinLast(two, c)) /\ Len(JoinLast(two, c).teams) # 0
      BY <2>8, <3>1, JoinLastGood
    <3>3. Len(members) = 3 => Story(JoinLast(two, c))
      BY <2>6, <2>8, <3>1, JoinLastStory
    <3>4. QED BY <2>3, <2>8, <3>2, <3>3
  <2> HIDE DEF S
  <2>10. k \in 1..Len(S.teams)
    <3>1. Len(S.teams) \in Nat
      BY <2>9 DEF Good, State
    <3>2. QED BY <2>9, <3>1
  <2> HIDE DEF k
  <2>11. Good(V)
    <3> DEFINE U == [S EXCEPT !.teams[k].loot = 0]
    <3>1. Good(U) /\ Len(U.teams) = Len(S.teams)
      BY <2>9, <2>10, LootGood
    <3> HIDE DEF U
    <3>2. Good(UpdateTeamsOnWorld(TeamStatusUpdate(U, k), k))
      BY <2>10, <3>1, ToldTwiceGood
    <3>3. QED BY <3>2 DEF U, V
  <2>12. Story(V)
    BY <2>6, <2>9, <2>10, LootStory DEF V
  <2>13. QED BY <2>1, <2>11, <2>12, CommitCommits
<1>3. QED BY <1>1, <1>2

\* Team packets do not touch the worlds.
LEMMA TeamPacketCommits ==
  ASSUME TeamsInv, WorldsInv, TeamPacket
  PROVE  Committed \/ UNCHANGED <<teamVars, inbox>>
<1>1. CASE \E p \in Players : HandleTeamInvite(p)
  BY <1>1, HandleTeamInviteCommits
<1>2. CASE \E p \in Players : HandleTeamLeave(p)
  BY <1>2, LeaveTeamCommits DEF HandleTeamLeave
<1>3. CASE \E p \in Players : HandleTeamStatusRequest(p)
  BY <1>3, HandleTeamStatusRequestCommits
<1>4. CASE \E p, q \in Players : HandleTeamInviteResponse(p, q)
  BY <1>4, HandleTeamInviteResponseCommits
<1>5. CASE \E p, q \in Players : HandleTeamKick(p, q)
  BY <1>5, HandleTeamKickCommits
<1>6. CASE \E p, q \in Players : HandleTeamPromote(p, q)
  BY <1>6, HandleTeamPromoteCommits
<1>7. CASE \E p \in Players, option \in {0, 1} : HandleTeamLootOption(p, option)
  BY <1>7, HandleTeamLootOptionCommits
<1>8. CASE \E n \in 2..Cardinality(Players) : \E members \in Arrangements(n), zone \in Zones :
             CreateTeamServer(members, zone)
  BY <1>8, CreateTeamServerCommits
<1>9. QED BY <1>1, <1>2, <1>3, <1>4, <1>5, <1>6, <1>7, <1>8 DEF TeamPacket

\* Team packets leave the worlds and the list of players alone.
LEMMA TeamPacketKeeps == TeamPacket => UNCHANGED <<worldVars, notices, chatVars>>
<1>1. ASSUME NEW p \in Players,
             HandleTeamInvite(p) \/ HandleTeamLeave(p) \/ HandleTeamStatusRequest(p)
      PROVE  UNCHANGED <<worldVars, notices, chatVars>>
  BY <1>1 DEF HandleTeamInvite, HandleTeamLeave, HandleTeamStatusRequest, UnchangedByTeams
<1>2. ASSUME NEW p \in Players, NEW q \in Players,
             HandleTeamInviteResponse(p, q) \/ HandleTeamKick(p, q) \/ HandleTeamPromote(p, q)
      PROVE  UNCHANGED <<worldVars, notices, chatVars>>
  BY <1>2 DEF HandleTeamInviteResponse, HandleTeamKick, HandleTeamPromote, UnchangedByTeams
<1>3. ASSUME NEW p \in Players, NEW option \in {0, 1}, HandleTeamLootOption(p, option)
      PROVE  UNCHANGED <<worldVars, notices, chatVars>>
  BY <1>3 DEF HandleTeamLootOption, UnchangedByTeams
<1>4. ASSUME NEW members, NEW zone \in Zones, CreateTeamServer(members, zone)
      PROVE  UNCHANGED <<worldVars, notices, chatVars>>
  BY <1>4 DEF CreateTeamServer
<1>5. QED BY <1>1, <1>2, <1>3, <1>4 DEF TeamPacket

\* A player who is removed leaves his team first.
LEMMA RemovePlayerCommits ==
  ASSUME TeamsInv, WorldsInv, NEW p \in Players, RemovePlayer(p)
  PROVE  Committed \/ UNCHANGED <<teamVars, inbox>>
BY LeaveTeamCommits DEF RemovePlayer

\* A chat server starts without teams.
LEMMA NoTeams ==
  ASSUME mTeams = <<>>, g_TeamIDCounter = 0
  PROVE  TeamsInv
<1> DEFINE C == [teams |-> <<>>, next |-> 0, sent |-> <<>>]
<1>1. C \in State /\ Len(C.teams) = 0
  BY DEF State
<1> HIDE DEF C
<1>2. Good(C)
  BY <1>1 DEF Good, Numbered
<1>3. QED BY <1>2 DEF TeamsInv, C

-----------------------------------------------------------------------------
(* What the worlds are left with *)

\* An update on the way was so before, or has just been sent.
LEMMA UpdatesThere ==
  ASSUME NEW L \in Seq(Told), NEW s \in Seq(Told), NEW a \in 1..Len(L \o s)
  PROVE  (\E b \in 1..Len(L) : (L \o s)[a] = L[b]) \/ (\E b \in 1..Len(s) : (L \o s)[a] = s[b])
<1>1. Len(L \o s) = Len(L) + Len(s) /\ Len(L) \in Nat /\ Len(s) \in Nat
  OBVIOUS
<1>2. CASE a <= Len(L)
  <2>1. a \in 1..Len(L)
    BY <1>1, <1>2
  <2>2. QED BY <2>1
<1>3. CASE ~ (a <= Len(L))
  <2>1. a - Len(L) \in 1..Len(s)
    BY <1>1, <1>3
  <2>2. (L \o s)[a] = s[a - Len(L)]
    BY <1>1, <1>3
  <2>3. QED BY <2>1, <2>2
<1>4. QED BY <1>2, <1>3

\* What a handler commits reaches every world that is connected.
LEMMA CommitWorlds ==
  ASSUME WorldsInv, Committed, UNCHANGED <<m_Teams, joined, cut>>
  PROVE  WorldsInv'
<1>1. PICK S : /\ Good(S) /\ Story(S) /\ S.next <= MaxTeamId
                /\ mTeams' = S.teams /\ g_TeamIDCounter' = S.next
                /\ inbox' = [w \in Worlds |-> IF w \in joined THEN inbox[w] \o S.sent ELSE inbox[w]]
  BY DEF Committed
<1>2. S.next \in Nat /\ S.sent \in Seq(Told)
  BY <1>1 DEF Good, State
<1>3. joined \subseteq Worlds /\ cut \subseteq Worlds /\ inbox \in [Worlds -> Seq(Told)]
  BY DEF WorldsInv
<1>4. \A w \in Worlds : inbox'[w] = IF w \in joined THEN inbox[w] \o S.sent ELSE inbox[w]
  BY <1>1
<1>5. inbox' \in [Worlds -> Seq(Told)]
  BY <1>1, <1>2, <1>3, ConcatType
<1>6. Sees(<<>>, S.sent, S.teams, S.next)
  <2>1. [have |-> <<>>, log |-> <<>>] \in Views
    BY DEF Views
  <2>2. Sees(<<>>, <<>> \o S.sent, S.teams, S.next)
    BY <1>1, <2>1 DEF Story
  <2>3. <<>> \o S.sent = S.sent
    BY <1>2
  <2>4. QED BY <2>2, <2>3
<1>7. TypedUpdates(S.sent)
  <2>1. \A i \in 1..S.next : i \in 1..MaxTeamId
    BY <1>1, <1>2, ChatConstants
  <2>2. QED BY <1>6, <2>1 DEF TypedUpdates, Sees
<1>8. ASSUME NEW w \in Worlds
      PROVE  TypedUpdates(inbox'[w])
  <2>1. TypedUpdates(inbox[w]) /\ inbox[w] \in Seq(Told)
    BY <1>3 DEF WorldsInv
  <2>2. CASE w \in joined
    <3>1. TypedUpdates(inbox[w] \o S.sent)
      <4> DEFINE M == inbox[w] \o S.sent
      <4>1. \A a \in 1..Len(M) :
              \/ \E b \in 1..Len(inbox[w]) : M[a] = inbox[w][b]
              \/ \E b \in 1..Len(S.sent) : M[a] = S.sent[b]
        BY <1>2, <2>1, UpdatesThere
      <4> HIDE DEF M
      <4>2. TypedUpdates(M)
        BY <1>7, <2>1, <4>1 DEF TypedUpdates
      <4>3. QED BY <4>2 DEF M
    <3>2. QED BY <1>4, <2>2, <3>1
  <2>3. QED BY <1>4, <2>1, <2>2
<1>9. ASSUME NEW w \in joined \ cut
      PROVE  Sees(m_Teams[w], inbox'[w], S.teams, S.next)
  <2>1. [have |-> m_Teams[w], log |-> inbox[w]] \in Views
    BY DEF Views
  <2>2. Sees(m_Teams[w], inbox[w] \o S.sent, S.teams, S.next)
    BY <1>1, <2>1 DEF Story
  <2>3. QED BY <1>3, <1>4, <2>2
<1>10. g_TeamIDCounter' \in 0..MaxTeamId
  BY <1>1, <1>2, ChatConstants
<1>11. \A w \in Worlds \ joined : inbox'[w] = <<>>
  BY <1>4 DEF WorldsInv
<1>12. QED BY <1>1, <1>5, <1>8, <1>9, <1>10, <1>11 DEF WorldsInv

\* A world handles an update: its copies still agree with what is on the way.
LEMMA WorldReceivesWorlds ==
  ASSUME WorldsInv, TeamsInv, NEW w \in Worlds, WorldReceives(w)
  PROVE  WorldsInv'
<1> DEFINE u == Head(inbox[w])
           have == m_Teams[w]
           new == Received(have, u)
<1>1. /\ inbox[w] # <<>> /\ inbox[w] \in Seq(Told) /\ DOMAIN m_Teams = Worlds
      /\ inbox' = [inbox EXCEPT ![w] = Tail(@)]
      /\ m_Teams' = [m_Teams EXCEPT ![w] = new]
      /\ UNCHANGED <<joined, cut, mTeams, g_TeamIDCounter>>
  BY DEF WorldReceives, WorldsInv, Received, teamVars
<1>2. /\ \A x \in Worlds : inbox'[x] = IF x = w THEN Tail(inbox[w]) ELSE inbox[x]
      /\ inbox' \in [Worlds -> Seq(Told)]
  <2>1. inbox \in [Worlds -> Seq(Told)] /\ Tail(inbox[w]) \in Seq(Told)
    BY <1>1, TailElements DEF WorldsInv
  <2>2. QED BY <1>1, <2>1
<1> HIDE DEF new
<1>3. /\ \A x \in Worlds : m_Teams'[x] = IF x = w THEN new ELSE m_Teams[x]
      /\ m_Teams' = [x \in Worlds |-> m_Teams'[x]]
  BY <1>1
<1>4. TypedUpdates(inbox[w]) /\ TypedCopies(have)
  BY DEF WorldsInv
<1>5. TypedUpdates(Tail(inbox[w]))
  BY <1>1, <1>4, TailElements DEF TypedUpdates
<1>6. TypedCopies(new)
  <2> SUFFICES ASSUME NEW i \in DOMAIN new
               PROVE  i \in 1..MaxTeamId /\ new[i] \in Copy /\ Len(new[i].members) \in 1..TeamSize
    BY DEF TypedCopies
  <2>1. CASE i \in DOMAIN have /\ new[i] = have[i]
    BY <1>4, <2>1 DEF TypedCopies
  <2>2. CASE i = u.id /\ ~ u.deleted /\ new[i] = [members |-> u.members, loot |-> u.loot]
    <3>1. u = inbox[w][1] /\ 1 \in 1..Len(inbox[w])
      BY <1>1, TailElements
    <3>2. u \in Told /\ u.id \in 1..MaxTeamId /\ Len(u.members) \in 1..TeamSize
      BY <1>1, <1>4, <2>2, <3>1 DEF TypedUpdates
    <3> HIDE DEF u
    <3>3. new[i] \in Copy
      BY <2>2, <3>2 DEF Told, Copy
    <3>4. QED BY <2>2, <3>2, <3>3
  <2>3. QED BY <2>1, <2>2, ReceivedCopies DEF new
<1>7. w \in joined
  BY <1>1 DEF WorldsInv
<1>8. ASSUME NEW x \in joined \ cut
      PROVE  Sees(m_Teams'[x], inbox'[x], mTeams, g_TeamIDCounter)
  <2>1. x \in Worlds /\ Sees(m_Teams[x], inbox[x], mTeams, g_TeamIDCounter)
    BY DEF WorldsInv
  <2>2. g_TeamIDCounter \in Nat
    BY ChatConstants DEF WorldsInv
  <2>3. Sees(m_Teams[w], inbox[w], mTeams, g_TeamIDCounter) =>
          Sees(new, Tail(inbox[w]), mTeams, g_TeamIDCounter)
    BY <1>1, <2>2, SeesReceived DEF new
  <2>4. QED BY <1>2, <1>3, <2>1, <2>3
<1>9. (\A x \in Worlds \ joined : inbox'[x] = <<>>)
      /\ \A x \in Worlds \ (joined \cup cut) : m_Teams'[x] = <<>>
  BY <1>2, <1>3, <1>7 DEF WorldsInv
<1>10. \A x \in Worlds : TypedCopies(m_Teams'[x]) /\ TypedUpdates(inbox'[x])
  BY <1>2, <1>3, <1>5, <1>6 DEF WorldsInv
<1>11. QED BY <1>1, <1>2, <1>3, <1>8, <1>9, <1>10 DEF WorldsInv

\* Connections break and worlds end.
LEMMA ConnectionsWorlds ==
  ASSUME WorldsInv, NEW w \in Worlds,
         ChatConnectionLost(w) \/ ChatConnect(w) \/ ServerDisconnects(w)
  PROVE  WorldsInv'
<1> USE DEF WorldsInv
<1>1. TypedCopies(<<>>) /\ TypedUpdates(<<>>) /\ <<>> \in Seq(Told)
  BY DEF TypedCopies, TypedUpdates
<1>2. CASE ChatConnectionLost(w)
  BY <1>1, <1>2 DEF ChatConnectionLost, teamVars
<1>3. CASE ChatConnect(w)
  <2>1. \A x \in joined' \ cut' : x \in joined \ cut \/ (x \in Worlds \ joined /\ x \notin joined \cup cut)
    BY <1>3 DEF ChatConnect
  <2>2. UNCHANGED <<m_Teams, cut, inbox, mTeams, g_TeamIDCounter>> /\ joined' = joined \cup {w}
    BY <1>3 DEF ChatConnect, teamVars
  <2>3. \A x \in joined' \ cut' : Sees(m_Teams[x], inbox[x], mTeams, g_TeamIDCounter)
    <3>1. \A x \in Worlds \ joined : x \notin joined \cup cut => m_Teams[x] = <<>> /\ inbox[x] = <<>>
      OBVIOUS
    <3>2. Sees(<<>>, <<>>, mTeams, g_TeamIDCounter)
      BY SeesNothing
    <3>3. QED BY <2>1, <3>1, <3>2
  <2>4. QED BY <2>2, <2>3
<1>4. CASE ServerDisconnects(w)
  BY <1>1, <1>4 DEF ServerDisconnects, teamVars
<1>5. QED BY <1>2, <1>3, <1>4

\* The chat server ends: no world is up to date.
LEMMA RestartWorlds ==
  ASSUME WorldsInv, ChatServerRestarts
  PROVE  WorldsInv'
<1>1. TypedUpdates(<<>>) /\ <<>> \in Seq(Told)
  BY DEF TypedUpdates
<1>2. QED BY <1>1, ChatConstants DEF WorldsInv, ChatServerRestarts

-----------------------------------------------------------------------------
\* Every step leaves teams that are teams, and worlds that see them.
LEMMA NextTeams ==
  ASSUME TeamsInv, WorldsInv, [Next]_vars
  PROVE  TeamsInv' /\ WorldsInv'
<1>1. ASSUME UNCHANGED teamVars PROVE TeamsInv'
  BY <1>1 DEF TeamsInv, teamVars
<1>2. ASSUME UNCHANGED <<teamVars, m_Teams, joined, cut, inbox>> PROVE WorldsInv'
  BY <1>2 DEF WorldsInv, teamVars
<1>3. CASE \E p \in Players : RemovePlayer(p)
  <2>1. PICK p \in Players : RemovePlayer(p)
    BY <1>3
  <2>2. UNCHANGED <<m_Teams, joined, cut>>
    BY <2>1 DEF RemovePlayer, worldVars
  <2>3. QED BY <1>1, <1>2, <2>1, <2>2, RemovePlayerCommits, CommitGood, CommitWorlds
<1>4. CASE ChatServerRestarts
  <2>1. mTeams' = <<>> /\ g_TeamIDCounter' = 0
    BY <1>4 DEF ChatServerRestarts
  <2>2. TeamsInv'
    BY <2>1, NoTeams DEF TeamsInv, Good, Numbered, Sized, State, Team, Told
  <2>3. QED BY <1>4, <2>2, RestartWorlds
<1>5. CASE TeamPacket
  <2>1. UNCHANGED <<m_Teams, joined, cut>>
    BY <1>5, TeamPacketKeeps DEF worldVars
  <2>2. QED BY <1>1, <1>2, <1>5, <2>1, TeamPacketCommits, CommitGood, CommitWorlds
<1>6. CASE \E p \in Players, w \in Worlds :
             PlayerLoads(p, w) \/ PlayerDisconnects(p, w) \/ SwapsCharacter(p, w)
  <2>1. UNCHANGED <<teamVars, m_Teams, joined, cut, inbox>>
    BY <1>6 DEF PlayerLoads, PlayerDisconnects, SwapsCharacter, worldVars
  <2>2. QED BY <1>1, <1>2, <2>1
<1>7. CASE \E w \in Worlds : \/ WorldReceives(w) \/ ChatConnectionLost(w) \/ ChatConnect(w)
                             \/ ServerDisconnects(w)
  <2>1. UNCHANGED teamVars
    BY <1>7 DEF WorldReceives, ChatConnectionLost, ChatConnect, ServerDisconnects
  <2>2. QED BY <1>1, <1>7, <2>1, WorldReceivesWorlds, ConnectionsWorlds
<1>8. CASE \E n \in notices : HandleLogin(n) \/ ScheduleRemovePlayer(n)
  <2>1. UNCHANGED <<teamVars, m_Teams, joined, cut, inbox>>
    BY <1>8 DEF HandleLogin, ScheduleRemovePlayer, worldVars
  <2>2. QED BY <1>1, <1>2, <2>1
<1>9. CASE UNCHANGED vars
  <2>1. UNCHANGED <<teamVars, m_Teams, joined, cut, inbox>>
    BY <1>9 DEF vars, worldVars
  <2>2. QED BY <1>1, <1>2, <2>1
<1>10. QED BY <1>3, <1>4, <1>5, <1>6, <1>7, <1>8, <1>9 DEF Next

\* The invariant that the theorems about teams and copies rest on.
LEMMA TeamsAndWorlds == Spec => [](TeamsInv /\ WorldsInv)
<1>1. Init => TeamsInv /\ WorldsInv
  BY NoTeams, InitWorlds DEF Init
<1>2. TeamsInv /\ WorldsInv /\ [Next]_vars => (TeamsInv /\ WorldsInv)'
  BY NextTeams
<1>3. QED BY <1>1, <1>2, PTL DEF Spec

\* Whatever order invitations are answered, leaders promoted, players kicked
\* and activities formed in, a team of the chat server has one to four
\* members, nobody twice, and an id of its own.
THEOREM TeamsStayTeams == Spec => []TeamsAreTeams
<1>1. TeamsInv => TeamsAreTeams
  <2>1. TeamsInv => DOMAIN mTeams = 1..Len(mTeams)
    BY DEF TeamsInv, Good, State
  <2>2. QED BY <2>1 DEF TeamsInv, Good, Numbered, Sized, TeamsAreTeams
<1>2. QED BY <1>1, TeamsAndWorlds, PTL

\* No sequence of updates, disbandings, lost connections and restarts leaves a
\* world with a copy that nobody is in (UpdateTeam, GetNextLootOwner), nor one
\* that has kept the chat server with a copy of one.
THEOREM LootOwnersStay == Spec => []WorldTeamsHaveLootOwners
<1>1. WorldsInv => WorldTeamsHaveLootOwners
  <2> SUFFICES ASSUME WorldsInv, NEW w \in Worlds, NEW i \in DOMAIN m_Teams[w]
               PROVE  Len(m_Teams[w][i].members) \in (IF w \in cut THEN 1 ELSE 2)..TeamSize
    BY DEF WorldTeamsHaveLootOwners
  <2>1. CASE w \in cut
    BY <2>1 DEF WorldsInv, TypedCopies
  <2>2. CASE w \in joined \ cut
    BY <2>2 DEF WorldsInv, Sees
  <2>3. CASE w \notin joined \cup cut
    BY <2>3 DEF WorldsInv
  <2>4. QED BY <2>1, <2>2, <2>3
<1>2. QED BY <1>1, TeamsAndWorlds, PTL

\* A world that has kept the chat server, and has had all its updates, has no
\* team that was disbanded, and shares loot as the team does, among members in
\* the order they joined (UpdateTeamsOnWorld, AddMember).
THEOREM CopiesStayCurrent == Spec => []CopiesCurrent
<1>1. TeamsInv /\ WorldsInv => CopiesCurrent
  <2> SUFFICES ASSUME TeamsInv, WorldsInv, NEW w \in joined \ cut, inbox[w] = <<>>,
                      NEW i \in DOMAIN m_Teams[w]
               PROVE  \E t \in ToSet(mTeams) :
                        /\ t.id = i /\ t.loot = m_Teams[w][i].loot
                        /\ IsPrefix(m_Teams[w][i].members, t.members)
    BY DEF CopiesCurrent
  <2>1. Sees(m_Teams[w], inbox[w], mTeams, g_TeamIDCounter)
    BY DEF WorldsInv
  <2>2. \A a \in 1..Len(inbox[w]) : FALSE
    OBVIOUS
  <2>3. Shows(m_Teams[w][i], i, mTeams)
    BY <2>1, <2>2 DEF Sees
  <2>4. mTeams \in Seq(Team)
    BY ContainerGood
  <2>5. PICK k \in 1..Len(mTeams) : /\ mTeams[k].id = i /\ mTeams[k].loot = m_Teams[w][i].loot
                                    /\ IsPrefix(m_Teams[w][i].members, mTeams[k].members)
    BY <2>3 DEF Shows
  <2>6. mTeams[k] \in ToSet(mTeams)
    BY <2>4 DEF ToSet
  <2>7. QED BY <2>5, <2>6
<1>2. QED BY <1>1, TeamsAndWorlds, PTL

(***************************************************************************)
(* Players                                                                 *)
(***************************************************************************)

\* What last records of a player.
Heard == {"none", "LOGIN", "DISCONNECT"}

\* CountNeverBelow needs no more than finiteness; a removal that is scheduled
\* for a player who has logged in since would break RemovedOnlyAfterLogout.
PlayersInv ==
  /\ IsFiniteSet(DOMAIN m_Players)
  /\ m_PlayerCount \in Int
  /\ CountNeverBelow
  /\ last \in [Players -> Heard]
  /\ \A n \in notices : n.player \in Players
  /\ \A p \in m_PlayersToRemove : p \in Players /\ last[p] = "DISCONNECT"

\* Nobody is listed when the chat server starts.
LEMMA InitPlayers == Init => PlayersInv
<1> SUFFICES ASSUME Init PROVE PlayersInv
  OBVIOUS
<1>1. DOMAIN m_Players = {}
  BY DEF Init
<1>2. IsFiniteSet({}) /\ Cardinality({}) = 0
  BY FS_EmptySet
<1>3. QED BY <1>1, <1>2 DEF Init, PlayersInv, CountNeverBelow, Heard

\* A notice of a world is about a player.
LEMMA NotifyPlayers ==
  ASSUME PlayersInv, NEW p \in Players, NEW w \in Worlds, NEW kind, Notify(w, kind, p)
  PROVE  \A n \in notices' : n.player \in Players
BY DEF PlayersInv, Notify

\* InsertPlayer adds one player at most, and one to the count.
LEMMA HandleLoginPlayers ==
  ASSUME PlayersInv, NEW n \in notices, HandleLogin(n)
  PROVE  PlayersInv'
<1> USE DEF PlayersInv
<1>1. n.player \in Players /\ DOMAIN m_Players' = DOMAIN m_Players \cup {n.player}
  BY DEF HandleLogin, InsertPlayer
<1>2. /\ IsFiniteSet(DOMAIN m_Players')
      /\ Cardinality(DOMAIN m_Players') <= Cardinality(DOMAIN m_Players) + 1
      /\ Cardinality(DOMAIN m_Players') \in Nat /\ Cardinality(DOMAIN m_Players) \in Nat
  <2>1. \/ n.player \in DOMAIN m_Players /\ DOMAIN m_Players' = DOMAIN m_Players
        \/ n.player \notin DOMAIN m_Players
    BY <1>1
  <2>2. Cardinality(DOMAIN m_Players) \in Nat
    BY FS_CardinalityType
  <2>3. /\ IsFiniteSet(DOMAIN m_Players \cup {n.player})
        /\ n.player \notin DOMAIN m_Players =>
             Cardinality(DOMAIN m_Players \cup {n.player}) = Cardinality(DOMAIN m_Players) + 1
    BY FS_AddElement
  <2>4. QED BY <1>1, <2>1, <2>2, <2>3
<1>3. m_PlayerCount' \in Int /\ CountNeverBelow'
  BY <1>2 DEF HandleLogin, InsertPlayer, CountNeverBelow
<1>4. last' \in [Players -> Heard]
  BY <1>1 DEF HandleLogin, Heard
<1>5. \A p \in m_PlayersToRemove' : p \in Players /\ last'[p] = "DISCONNECT"
  BY <1>1 DEF HandleLogin, InsertPlayer
<1>6. \A m \in notices' : m.player \in Players
  BY DEF HandleLogin
<1>7. QED BY <1>2, <1>3, <1>4, <1>5, <1>6

\* Only a disconnection schedules a removal.
LEMMA ScheduleRemovePlayerPlayers ==
  ASSUME PlayersInv, NEW n \in notices, ScheduleRemovePlayer(n)
  PROVE  PlayersInv'
<1> USE DEF PlayersInv
<1>1. n.player \in Players
  OBVIOUS
<1>2. last' \in [Players -> Heard]
  BY <1>1 DEF ScheduleRemovePlayer, Heard
<1>3. \A p \in m_PlayersToRemove' : p \in Players /\ last'[p] = "DISCONNECT"
  BY <1>1 DEF ScheduleRemovePlayer
<1>4. QED BY <1>2, <1>3 DEF ScheduleRemovePlayer, CountNeverBelow

\* RemovePlayer takes one off the count only with a player off the list.
LEMMA RemovePlayerPlayers ==
  ASSUME PlayersInv, NEW p \in Players, RemovePlayer(p)
  PROVE  PlayersInv'
<1> USE DEF PlayersInv
<1>1. CASE ~ Online(p)
  BY <1>1 DEF RemovePlayer, CountNeverBelow
<1>2. CASE Online(p)
  <2>1. DOMAIN m_Players' = DOMAIN m_Players \ {p} /\ m_PlayerCount' = m_PlayerCount - 1
    BY <1>2 DEF RemovePlayer
  <2>2. /\ IsFiniteSet(DOMAIN m_Players')
        /\ Cardinality(DOMAIN m_Players') = Cardinality(DOMAIN m_Players) - 1
        /\ Cardinality(DOMAIN m_Players) \in Nat
    BY <1>2, <2>1, FS_RemoveElement, FS_CardinalityType DEF Online
  <2>3. QED BY <2>1, <2>2 DEF RemovePlayer, CountNeverBelow
<1>3. QED BY <1>1, <1>2

\* Worlds and their connections do not touch the list.
LEMMA WorldPlayers ==
  ASSUME PlayersInv, NEW w \in Worlds,
         \/ \E p \in Players : PlayerLoads(p, w) \/ PlayerDisconnects(p, w) \/ SwapsCharacter(p, w)
         \/ WorldReceives(w) \/ ChatConnectionLost(w) \/ ChatConnect(w) \/ ServerDisconnects(w)
  PROVE  PlayersInv' /\ UNCHANGED m_Players
<1>1. CASE \E p \in Players : PlayerLoads(p, w) \/ PlayerDisconnects(p, w) \/ SwapsCharacter(p, w)
  <2>1. PICK p \in Players : PlayerLoads(p, w) \/ PlayerDisconnects(p, w) \/ SwapsCharacter(p, w)
    BY <1>1
  <2>2. \A n \in notices' : n.player \in Players
    BY <2>1, NotifyPlayers DEF PlayerLoads, PlayerDisconnects, SwapsCharacter, worldVars
  <2>3. UNCHANGED chatVars
    BY <2>1 DEF PlayerLoads, PlayerDisconnects, SwapsCharacter, worldVars
  <2>4. QED BY <2>2, <2>3 DEF PlayersInv, CountNeverBelow, chatVars
<1>2. CASE WorldReceives(w) \/ ChatConnectionLost(w) \/ ChatConnect(w) \/ ServerDisconnects(w)
  <2>1. notices' \subseteq notices /\ UNCHANGED chatVars
    BY <1>2 DEF WorldReceives, ChatConnectionLost, ChatConnect, ServerDisconnects
  <2>2. QED BY <2>1 DEF PlayersInv, CountNeverBelow, chatVars
<1>3. QED BY <1>1, <1>2

\* Team packets do not touch the list.
LEMMA TeamPacketPlayers ==
  ASSUME PlayersInv, TeamPacket
  PROVE  PlayersInv' /\ UNCHANGED m_Players
BY TeamPacketKeeps DEF PlayersInv, CountNeverBelow, chatVars

\* A chat server that starts again has an empty list, and nothing scheduled.
LEMMA RestartPlayers == PlayersInv /\ ChatServerRestarts => PlayersInv'
<1> SUFFICES ASSUME PlayersInv, ChatServerRestarts PROVE PlayersInv'
  OBVIOUS
<1>1. DOMAIN m_Players' = {}
  BY DEF ChatServerRestarts
<1>2. IsFiniteSet({}) /\ Cardinality({}) = 0
  BY FS_EmptySet
<1>3. QED BY <1>1, <1>2 DEF ChatServerRestarts, PlayersInv, CountNeverBelow, Heard

\* Every step keeps the list, the count and what is scheduled in agreement.
LEMMA NextPlayers == PlayersInv /\ [Next]_vars => PlayersInv'
<1> SUFFICES ASSUME PlayersInv, [Next]_vars PROVE PlayersInv'
  OBVIOUS
<1>1. CASE UNCHANGED vars
  BY <1>1 DEF vars, chatVars, PlayersInv, CountNeverBelow
<1>2. CASE Next
  BY <1>2, WorldPlayers, HandleLoginPlayers, ScheduleRemovePlayerPlayers, RemovePlayerPlayers,
     RestartPlayers, TeamPacketPlayers DEF Next
<1>3. QED BY <1>1, <1>2

\* m_PlayerCount never gets below the number of listed players (InsertPlayer,
\* RemovePlayer): it does not wrap around.
THEOREM CountStaysAbove == Spec => []CountNeverBelow
<1>1. PlayersInv => CountNeverBelow
  BY DEF PlayersInv
<1>2. QED BY <1>1, InitPlayers, NextPlayers, PTL DEF Spec

\* Nobody is taken off the list after a login that was heard after his last
\* disconnection (InsertPlayer takes him off m_PlayersToRemove).
THEOREM RemovalsFollowLogouts == Spec => RemovedOnlyAfterLogout
<1> DEFINE Removal == \A p \in Players : Online(p) /\ ~ Online(p)' =>
                        last[p] = "DISCONNECT" \/ last'[p] = "none"
<1>1. PlayersInv /\ [Next]_vars => [Removal]_vars
  <2> SUFFICES ASSUME PlayersInv, Next, NEW p \in Players, Online(p), ~ Online(p)'
               PROVE  last[p] = "DISCONNECT" \/ last'[p] = "none"
    OBVIOUS
  <2>1. DOMAIN m_Players' # DOMAIN m_Players
    BY DEF Online
  <2>2. CASE \E q \in Players : RemovePlayer(q)
    <3>1. PICK q \in Players : RemovePlayer(q)
      BY <2>2
    <3>2. q = p
      BY <3>1 DEF RemovePlayer, Online
    <3>3. QED BY <3>1, <3>2 DEF RemovePlayer, PlayersInv
  <2>3. CASE ChatServerRestarts
    BY <2>3 DEF ChatServerRestarts
  <2>4. CASE \E n \in notices : HandleLogin(n) \/ ScheduleRemovePlayer(n)
    BY <2>4 DEF HandleLogin, InsertPlayer, ScheduleRemovePlayer, Online
  <2>5. QED BY <2>1, <2>2, <2>3, <2>4, WorldPlayers, TeamPacketPlayers DEF Next
<1>2. QED BY <1>1, InitPlayers, NextPlayers, PTL DEF Spec, RemovedOnlyAfterLogout

(***************************************************************************)
(* Types                                                                   *)
(***************************************************************************)

\* What the other invariants do not say of the variables' types.
TypesInv ==
  /\ inside \in [Worlds -> SUBSET Players]
  /\ notices \subseteq Notice
  /\ DOMAIN m_Players \subseteq Players /\ \A p \in DOMAIN m_Players : m_Players[p] \in Worlds
  /\ m_PlayersToRemove \subseteq Players /\ m_Names \subseteq Players

\* The notices that leave a world are notices.
LEMMA NotifyTypes ==
  ASSUME notices \subseteq Notice, NEW p \in Players, NEW w \in Worlds,
         NEW kind \in {"LOGIN", "DISCONNECT"}, Notify(w, kind, p)
  PROVE  notices' \subseteq Notice
<1>1. [kind |-> kind, player |-> p, world |-> w] \in Notice
  BY DEF Notice
<1>2. QED BY <1>1 DEF Notify

\* Every step keeps the types of the players' variables.
LEMMA NextTypes == TypesInv /\ [Next]_vars => TypesInv'
<1> SUFFICES ASSUME TypesInv, [Next]_vars PROVE TypesInv'
  OBVIOUS
<1> USE DEF TypesInv
<1>1. ASSUME NEW p \in Players, NEW w \in Worlds,
             PlayerLoads(p, w) \/ PlayerDisconnects(p, w) \/ SwapsCharacter(p, w)
      PROVE  TypesInv'
  <2>1. notices' \subseteq Notice
    BY <1>1, NotifyTypes DEF PlayerLoads, PlayerDisconnects, SwapsCharacter
  <2>2. inside' \in [Worlds -> SUBSET Players]
    BY <1>1 DEF PlayerLoads, PlayerDisconnects, SwapsCharacter, worldVars
  <2>3. UNCHANGED chatVars
    BY <1>1 DEF PlayerLoads, PlayerDisconnects, SwapsCharacter
  <2>4. QED BY <2>1, <2>2, <2>3 DEF chatVars
<1>2. ASSUME NEW w \in Worlds,
             WorldReceives(w) \/ ChatConnectionLost(w) \/ ChatConnect(w) \/ ServerDisconnects(w)
      PROVE  TypesInv'
  <2>1. inside' \in [Worlds -> SUBSET Players]
    BY <1>2 DEF WorldReceives, ChatConnectionLost, ChatConnect, ServerDisconnects
  <2>2. notices' \subseteq notices /\ UNCHANGED chatVars
    BY <1>2 DEF WorldReceives, ChatConnectionLost, ChatConnect, ServerDisconnects
  <2>3. QED BY <2>1, <2>2 DEF chatVars
<1>3. ASSUME NEW n \in notices, HandleLogin(n) \/ ScheduleRemovePlayer(n)
      PROVE  TypesInv'
  <2>1. n.player \in Players /\ n.world \in Worlds
    BY DEF Notice
  <2>2. QED BY <1>3, <2>1 DEF HandleLogin, InsertPlayer, ScheduleRemovePlayer, worldVars
<1>4. ASSUME NEW p \in Players, RemovePlayer(p)
      PROVE  TypesInv'
  BY <1>4 DEF RemovePlayer, worldVars
<1>5. CASE ChatServerRestarts
  BY <1>5 DEF ChatServerRestarts
<1>6. CASE TeamPacket
  BY <1>6, TeamPacketKeeps DEF worldVars, chatVars
<1>7. CASE UNCHANGED vars
  BY <1>7 DEF vars, worldVars, chatVars
<1>8. QED BY <1>1, <1>2, <1>3, <1>4, <1>5, <1>6, <1>7 DEF Next

\* Every variable keeps its type: ids of teams and of the worlds' copies stay
\* below the bound, and the count of players a natural number.
THEOREM TypeCorrect == Spec => []TypeOK
<1>1. Init => TypesInv
  BY DEF Init, TypesInv
<1>2. TypesInv /\ PlayersInv /\ TeamsInv /\ WorldsInv => TypeOK
  <2> SUFFICES ASSUME TypesInv, PlayersInv, TeamsInv, WorldsInv PROVE TypeOK
    OBVIOUS
  <2>1. \A w \in Worlds : \A i \in DOMAIN m_Teams[w] :
          i \in 1..MaxTeamId /\ ToSet(m_Teams[w][i].members) \subseteq Players
    <3> SUFFICES ASSUME NEW w \in Worlds, NEW i \in DOMAIN m_Teams[w]
                 PROVE  i \in 1..MaxTeamId /\ ToSet(m_Teams[w][i].members) \subseteq Players
      OBVIOUS
    <3>1. i \in 1..MaxTeamId /\ m_Teams[w][i] \in Copy
      BY DEF WorldsInv, TypedCopies
    <3>2. m_Teams[w][i].members \in Seq(Players)
      BY <3>1 DEF Copy
    <3>3. QED BY <3>1, <3>2 DEF ToSet
  <2>2. \A w \in Worlds : \A u \in ToSet(inbox[w]) : u \in Update
    <3> SUFFICES ASSUME NEW w \in Worlds, NEW u \in ToSet(inbox[w]) PROVE u \in Update
      OBVIOUS
    <3>1. inbox[w] \in Seq(Told) /\ TypedUpdates(inbox[w])
      BY DEF WorldsInv
    <3>2. PICK a \in 1..Len(inbox[w]) : u = inbox[w][a]
      BY <3>1 DEF ToSet
    <3>3. u \in Told /\ u.id \in 1..MaxTeamId
      BY <3>1, <3>2 DEF TypedUpdates
    <3>4. QED BY <3>3 DEF Told, Update
  <2>3. \A t \in ToSet(mTeams) : t \in TeamData
    <3> SUFFICES ASSUME NEW t \in ToSet(mTeams) PROVE t \in TeamData
      OBVIOUS
    <3>1. mTeams \in Seq(Team) /\ Numbered(mTeams, g_TeamIDCounter)
      BY DEF TeamsInv, Good, State
    <3>2. PICK k \in 1..Len(mTeams) : t = mTeams[k]
      BY <3>1 DEF ToSet
    <3>3. t \in Team /\ t.id \in 1..g_TeamIDCounter
      BY <3>1, <3>2 DEF Numbered
    <3>4. g_TeamIDCounter \in 0..MaxTeamId /\ MaxTeamId \in Nat
      BY ChatConstants DEF WorldsInv
    <3>5. t.id \in 1..MaxTeamId
      BY <3>3, <3>4
    <3>6. QED BY <3>3, <3>5 DEF Team, TeamData
  <2>4. m_PlayerCount \in Nat
    <3>1. Cardinality(DOMAIN m_Players) \in Nat
      BY FS_CardinalityType DEF PlayersInv
    <3>2. QED BY <3>1 DEF PlayersInv, CountNeverBelow
  <2>5. ToSet(m_Players) \subseteq Worlds
    BY DEF TypesInv, ToSet
  <2>6. QED BY <2>1, <2>2, <2>3, <2>4, <2>5 DEF TypeOK, TypesInv, PlayersInv, WorldsInv, Heard
<1>3. QED BY <1>1, <1>2, TeamsAndWorlds, InitPlayers, NextPlayers, NextTypes, PTL DEF Spec
=============================================================================
