----------------------------- MODULE ChatTeams -----------------------------
(***************************************************************************)
(* The chat server's players and teams (dChatServer/PlayerContainer and    *)
(* TeamContainer) and the copies of the teams that every world server      *)
(* keeps (dGame/TeamManager).                                              *)
(*                                                                         *)
(* Worlds report logins and disconnections RELIABLE but unordered, so the  *)
(* notices in flight are a set.  The chat server broadcasts every change   *)
(* of a team to the connected worlds, RELIABLE_ORDERED: inbox[w] is FIFO.  *)
(* Team packets of players are handled in the step in which they are sent: *)
(* the server checks nothing the player knew when sending.                 *)
(***************************************************************************)
EXTENDS Integers, Sequences, FiniteSets, SequencesExt

CONSTANTS
  Players,
  Worlds,
  Zones,        \* zones of worlds and activities: records [map, clone]
  ZoneOf,       \* the zone of a world
  DefaultLoot,  \* default_team_loot of the configuration: 0 or 1
  Events,       \* the kinds of event that may happen, see May
  MaxTeamId,    \* bound: teams created
  MaxNotices,   \* bound: notices in flight
  MaxInbox,     \* bound: with so many updates in flight to a world, none is sent
  MaxEvents     \* bound: events of Events

TeamSize == 4

ASSUME ChatConstants ==
  /\ Zones \subseteq [map : Nat, clone : Nat]
  /\ \A w \in Worlds : ZoneOf[w] \in Zones
  /\ DefaultLoot \in {0, 1}
  /\ MaxTeamId \in Nat /\ MaxNotices \in Nat /\ MaxInbox \in Nat /\ MaxEvents \in Nat

VARIABLES
  inside,             \* the players each world has a connection to
  m_Teams,            \* per world, its copies of teams by id
  joined,             \* the worlds connected to the chat server
  cut,                \* history: worlds whose connection to chat has broken
  notices,            \* logins and disconnections on the way to the chat server
  inbox,              \* per world, team updates on the way
  m_Players,          \* the chat server's players: the world of each
  m_PlayersToRemove,  \* players waiting for their removal
  m_PlayerCount,
  m_Names,            \* players whose name is known
  mTeams,             \* the chat server's teams, in order of creation
  g_TeamIDCounter,
  last,               \* history: the last notice the chat server had of a player
  events

worldVars  == <<inside, m_Teams, joined, cut>>
chatVars   == <<m_Players, m_PlayersToRemove, m_PlayerCount, m_Names, last>>
teamVars   == <<mTeams, g_TeamIDCounter>>
vars == <<worldVars, notices, inbox, chatVars, teamVars, events>>

NoZone   == [map |-> -1, clone |-> -1]  \* the default LWOZONEID
TeamData == [id : 1..MaxTeamId, leader : Players, members : Seq(Players), local : BOOLEAN,
             loot : {0, 1}, zone : Zones \cup {NoZone}]
Update   == [id : 1..MaxTeamId, deleted : BOOLEAN, loot : {0, 1}, members : Seq(Players)]
Notice   == [kind : {"LOGIN", "DISCONNECT"}, player : Players, world : Worlds]

-----------------------------------------------------------------------------
(* The team container: operators from a state [teams, next, sent] to a state; *)
(* sent is what UpdateTeamsOnWorld has broadcast.                             *)

Online(p) == p \in DOMAIN m_Players

\* GetTeam: the first team with this member, 0 if none.
GetTeam(T, p) == SelectInSeq(T, LAMBDA t : p \in ToSet(t.members))

\* UpdateTeamsOnWorld.
UpdateTeamsOnWorld(S, k) ==
  LET t == S.teams[k]
  IN  [S EXCEPT !.sent = Append(@, [id |-> t.id, deleted |-> FALSE, loot |-> t.loot,
                                    members |-> t.members])]

\* std::find: the place of a member, 0 if there is none.
MemberIndex(members, p) == SelectInSeq(members, LAMBDA m : m = p)

SetMembers(S, k, members) == [S EXCEPT !.teams[k].members = members]

\* Mutant of AddMember: the size of the team is not checked again.
AddMemberUnchecked(S, k, p) ==
  IF p \in ToSet(S.teams[k].members) THEN S
  ELSE LET U == SetMembers(S, k, Append(S.teams[k].members, p))
       IN  IF Online(U.teams[k].leader) /\ Online(p) THEN UpdateTeamsOnWorld(U, k) ELSE U

\* AddMember: a player who is not online, or whose leader is not, is added
\* without a word to the worlds.
AddMember(S, k, p) ==
  IF Len(S.teams[k].members) >= TeamSize \/ p \in ToSet(S.teams[k].members) THEN S
  ELSE LET U == SetMembers(S, k, Append(S.teams[k].members, p))
       IN  IF Online(U.teams[k].leader) /\ Online(p) THEN UpdateTeamsOnWorld(U, k) ELSE U

\* Mutant of CreateTeam: the id is taken before the counter goes up.
CreateTeamPostIncrement(S, leader, local, zone) ==
  LET t == [id |-> S.next, leader |-> leader, members |-> <<>>, local |-> local,
            loot |-> DefaultLoot, zone |-> zone]
  IN  AddMember([teams |-> Append(S.teams, t), next |-> S.next + 1, sent |-> S.sent],
                Len(S.teams) + 1, leader)

\* CreateTeam; TeamData's zone is set by CreateTeamServer only.
CreateTeam(S, leader, local, zone) ==
  LET t == [id |-> S.next + 1, leader |-> leader, members |-> <<>>, local |-> local,
            loot |-> DefaultLoot, zone |-> zone]
  IN  AddMember([teams |-> Append(S.teams, t), next |-> S.next + 1, sent |-> S.sent],
                Len(S.teams) + 1, leader)

\* Mutant of DisbandTeam: the worlds are not told.
DisbandTeamQuietly(S, k) == [S EXCEPT !.teams = RemoveAt(@, k)]

DisbandTeam(S, k) ==
  LET u == [id |-> S.teams[k].id, deleted |-> TRUE, loot |-> S.teams[k].loot,
            members |-> S.teams[k].members]
  IN  [teams |-> RemoveAt(S.teams, k), next |-> S.next, sent |-> Append(S.sent, u)]

\* Mutant of RemoveMember: a team of one stays.
RemoveMemberOfTwo(S, k, p) ==
  LET index == MemberIndex(S.teams[k].members, p)
      rest  == RemoveAt(S.teams[k].members, index)
      U     == SetMembers(S, k, rest)
  IN  IF index = 0 THEN S
      ELSE IF Len(rest) = 0 THEN DisbandTeam(U, k)
      ELSE UpdateTeamsOnWorld([U EXCEPT !.teams[k].leader = IF @ = p THEN rest[1] ELSE @], k)

\* RemoveMember: a team of one or none is disbanded, a leader is replaced.
RemoveMember(S, k, p) ==
  LET index == MemberIndex(S.teams[k].members, p)
      rest  == RemoveAt(S.teams[k].members, index)
      U     == SetMembers(S, k, rest)
  IN  IF index = 0 THEN S
      ELSE IF Len(rest) <= 1 THEN DisbandTeam(U, k)
      ELSE UpdateTeamsOnWorld([U EXCEPT !.teams[k].leader = IF @ = p THEN rest[1] ELSE @], k)

\* TeamStatusUpdate: nothing when the leader is not online.
TeamStatusUpdate(S, k) ==
  IF Online(S.teams[k].leader) THEN UpdateTeamsOnWorld(S, k) ELSE S

\* A player leaves his team, if any.
LeaveTeam(S, p) == IF GetTeam(S.teams, p) = 0 THEN S ELSE RemoveMember(S, GetTeam(S.teams, p), p)

Container == [teams |-> mTeams, next |-> g_TeamIDCounter, sent |-> <<>>]

Broadcast(sent) ==
  /\ \A w \in joined : Len(inbox[w]) < MaxInbox
  /\ inbox' = [w \in Worlds |-> IF w \in joined THEN inbox[w] \o sent ELSE inbox[w]]

\* The new state of the container, and its broadcasts.
Commit(S) ==
  /\ S.next <= MaxTeamId
  /\ mTeams' = S.teams /\ g_TeamIDCounter' = S.next
  /\ Broadcast(S.sent)

-----------------------------------------------------------------------------
Init ==
  /\ inside = [w \in Worlds |-> {}]
  /\ m_Teams = [w \in Worlds |-> <<>>]
  /\ joined = Worlds /\ cut = {}
  /\ notices = {}
  /\ inbox = [w \in Worlds |-> <<>>]
  /\ m_Players = <<>> /\ m_PlayersToRemove = {} /\ m_PlayerCount = 0 /\ m_Names = {}
  /\ mTeams = <<>> /\ g_TeamIDCounter = 0
  /\ last = [p \in Players |-> "none"]
  /\ events = 0

May(kind) == kind \in Events /\ events < MaxEvents /\ events' = events + 1

-----------------------------------------------------------------------------
(* Players and worlds *)

\* The notice goes out when the world is connected to the chat server.
Notify(w, kind, p) ==
  IF w \in joined
  THEN /\ Cardinality(notices) < MaxNotices
       /\ [kind |-> kind, player |-> p, world |-> w] \notin notices
       /\ notices' = notices \cup {[kind |-> kind, player |-> p, world |-> w]}
  ELSE UNCHANGED notices

\* LEVEL_LOAD_COMPLETE: a player has loaded into a world; the world it came
\* from may not have noticed yet that the connection has ended.
PlayerLoads(p, w) ==
  /\ p \notin inside[w]
  /\ May("load")
  /\ inside' = [inside EXCEPT ![w] = @ \cup {p}]
  /\ Notify(w, "LOGIN", p)
  /\ UNCHANGED <<m_Teams, joined, cut, inbox, chatVars, teamVars>>

\* A world notices the end of a player's connection.
PlayerDisconnects(p, w) ==
  /\ p \in inside[w]
  /\ inside' = [inside EXCEPT ![w] = @ \ {p}]
  /\ Notify(w, "DISCONNECT", p)
  /\ UNCHANGED <<m_Teams, joined, cut, inbox, chatVars, teamVars, events>>

\* A user picks another character, or deletes one: the world that has the user
\* reports the old character, wherever that one is, as disconnected.
SwapsCharacter(p, w) ==
  /\ May("swap")
  /\ Notify(w, "DISCONNECT", p)
  /\ UNCHANGED <<worldVars, inbox, chatVars, teamVars>>

\* HandlePacketChat of a world: TeamManager::DeleteTeam, or UpdateTeam, which
\* ignores a new team of less than two.
WorldReceives(w) ==
  /\ inbox[w] # <<>>
  /\ inbox' = [inbox EXCEPT ![w] = Tail(@)]
  /\ LET u    == Head(inbox[w])
         have == m_Teams[w]
         copy == [members |-> u.members, loot |-> u.loot]
     IN  m_Teams' = [m_Teams EXCEPT ![w] =
           IF u.deleted THEN [i \in DOMAIN have \ {u.id} |-> have[i]]
           ELSE IF u.id \notin DOMAIN have /\ Len(u.members) <= 1 THEN have
           ELSE [i \in DOMAIN have \cup {u.id} |-> IF i = u.id THEN copy ELSE have[i]]]
  /\ UNCHANGED <<inside, joined, cut, notices, chatVars, teamVars, events>>

\* The connection between a world and the chat server breaks.
ChatConnectionLost(w) ==
  /\ w \in joined /\ May("loseChat")
  /\ joined' = joined \ {w} /\ cut' = cut \cup {w}
  /\ inbox' = [inbox EXCEPT ![w] = <<>>]
  /\ \E N \in SUBSET {n \in notices : n.world = w} : notices' = notices \ N
  /\ UNCHANGED <<inside, m_Teams, chatVars, teamVars>>

\* The main loop of a world connects to the chat server again.
ChatConnect(w) ==
  /\ w \notin joined
  /\ joined' = joined \cup {w}
  /\ UNCHANGED <<inside, m_Teams, cut, notices, inbox, chatVars, teamVars, events>>

\* A world server ends and is started again: players and copies are gone, and
\* the chat server, told of the end of the connection, does nothing.
ServerDisconnects(w) ==
  /\ May("worldEnds")
  /\ inside' = [inside EXCEPT ![w] = {}]
  /\ m_Teams' = [m_Teams EXCEPT ![w] = <<>>]
  /\ joined' = joined \ {w} /\ cut' = cut \ {w}
  /\ inbox' = [inbox EXCEPT ![w] = <<>>]
  /\ notices' = {n \in notices : n.world # w}
  /\ UNCHANGED <<chatVars, teamVars>>

-----------------------------------------------------------------------------
(* The chat server: the player container *)

\* Mutant of InsertPlayer: a removal that is scheduled stays scheduled.
InsertPlayerStillScheduled(p, w) ==
  /\ m_Players' = [q \in DOMAIN m_Players \cup {p} |-> IF q = p THEN w ELSE m_Players[q]]
  /\ m_Names' = m_Names \cup {p}
  /\ m_PlayerCount' = m_PlayerCount + 1
  /\ UNCHANGED m_PlayersToRemove

\* InsertPlayer: the count goes up for a player who is already listed, too.
InsertPlayer(p, w) ==
  /\ m_Players' = [q \in DOMAIN m_Players \cup {p} |-> IF q = p THEN w ELSE m_Players[q]]
  /\ m_Names' = m_Names \cup {p}
  /\ m_PlayerCount' = m_PlayerCount + 1
  /\ m_PlayersToRemove' = m_PlayersToRemove \ {p}

HandleLogin(n) ==
  /\ n.kind = "LOGIN"
  /\ notices' = notices \ {n}
  /\ InsertPlayer(n.player, n.world)
  /\ last' = [last EXCEPT ![n.player] = "LOGIN"]
  /\ UNCHANGED <<worldVars, inbox, teamVars, events>>

\* ScheduleRemovePlayer, whoever the player's world is by now.
ScheduleRemovePlayer(n) ==
  /\ n.kind = "DISCONNECT"
  /\ notices' = notices \ {n}
  /\ m_PlayersToRemove' = m_PlayersToRemove \cup {n.player}
  /\ last' = [last EXCEPT ![n.player] = "DISCONNECT"]
  /\ UNCHANGED <<worldVars, inbox, m_Players, m_PlayerCount, m_Names, teamVars, events>>

\* Mutant of RemovePlayer: the count goes down for an unknown player, too.
RemovePlayerUnknown(p) ==
  /\ p \in m_PlayersToRemove
  /\ m_PlayersToRemove' = m_PlayersToRemove \ {p}
  /\ Commit(IF Online(p) THEN LeaveTeam(Container, p) ELSE Container)
  /\ m_Players' = [q \in DOMAIN m_Players \ {p} |-> m_Players[q]]
  /\ m_PlayerCount' = m_PlayerCount - 1
  /\ UNCHANGED <<worldVars, notices, m_Names, last, events>>

\* Update: 20 seconds have passed; RemovePlayer takes the player out of his team
\* while he is still listed, and off the list.
RemovePlayer(p) ==
  /\ p \in m_PlayersToRemove
  /\ m_PlayersToRemove' = m_PlayersToRemove \ {p}
  /\ IF ~ Online(p) THEN UNCHANGED <<m_Players, m_PlayerCount, teamVars, inbox>>
     ELSE /\ Commit(LeaveTeam(Container, p))
          /\ m_Players' = [q \in DOMAIN m_Players \ {p} |-> m_Players[q]]
          /\ m_PlayerCount' = m_PlayerCount - 1
  /\ UNCHANGED <<worldVars, notices, m_Names, last, events>>

\* The chat server dies and the master starts another one.
ChatServerRestarts ==
  /\ May("chatRestarts")
  /\ m_Players' = <<>> /\ m_PlayersToRemove' = {} /\ m_PlayerCount' = 0 /\ m_Names' = {}
  /\ mTeams' = <<>> /\ g_TeamIDCounter' = 0
  /\ last' = [p \in Players |-> "none"]
  /\ notices' = {}
  /\ inbox' = [w \in Worlds |-> <<>>]
  /\ cut' = cut \cup joined /\ joined' = {}
  /\ UNCHANGED <<inside, m_Teams>>

-----------------------------------------------------------------------------
(* The chat server: team packets.  A player's packets come through a world   *)
(* that has a connection to him, or have been sent before it ended.          *)

Sends(p) == Online(p) \/ \E w \in joined : p \in inside[w]

UnchangedByTeams == UNCHANGED <<worldVars, notices, chatVars, events>>

\* TEAM_INVITE: the inviting player gets a team of one if he has none; the
\* invitation itself is a message to a client.
HandleTeamInvite(p) ==
  /\ Sends(p) /\ Online(p)
  /\ GetTeam(mTeams, p) = 0
  /\ Commit(CreateTeam(Container, p, FALSE, NoZone))
  /\ UnchangedByTeams

\* TEAM_INVITE_RESPONSE: no record of invitations is kept, and the answer of
\* a player who is in a team is taken, too.
HandleTeamInviteResponse(p, leader) ==
  /\ Sends(p)
  /\ LET k == IF GetTeam(mTeams, leader) # 0 THEN GetTeam(mTeams, leader) ELSE GetTeam(mTeams, p)
     IN  k # 0 /\ Commit(AddMember(Container, k, p))
  /\ UnchangedByTeams

HandleTeamLeave(p) ==
  /\ Sends(p) /\ GetTeam(mTeams, p) # 0
  /\ Commit(LeaveTeam(Container, p))
  /\ UnchangedByTeams

HandleTeamKick(p, kicked) ==
  /\ Sends(p) /\ kicked \in m_Names
  /\ LET k == GetTeam(mTeams, p)
     IN  /\ k # 0
         /\ mTeams[k].leader = p /\ p # kicked
         /\ Commit(RemoveMember(Container, k, kicked))
  /\ UnchangedByTeams

\* TEAM_SET_LEADER: the new leader need not be in the team.
HandleTeamPromote(p, promoted) ==
  /\ Sends(p) /\ Online(promoted)
  /\ LET k == GetTeam(mTeams, p)
     IN  /\ k # 0 /\ mTeams[k].leader = p
         /\ mTeams' = [mTeams EXCEPT ![k].leader = promoted]
  /\ UNCHANGED <<g_TeamIDCounter, inbox>>
  /\ UnchangedByTeams

HandleTeamLootOption(p, option) ==
  /\ Sends(p)
  /\ LET k == GetTeam(mTeams, p)
         S == [Container EXCEPT !.teams[k].loot = option]
     IN  /\ k # 0 /\ mTeams[k].leader = p
         /\ Commit(UpdateTeamsOnWorld(TeamStatusUpdate(S, k), k))
  /\ UnchangedByTeams

\* TEAM_GET_STATUS: sent by a client that has loaded into a world.
HandleTeamStatusRequest(p) ==
  /\ Sends(p) /\ Online(p)
  /\ LET k    == GetTeam(mTeams, p)
         t    == mTeams[k]
         zone == ZoneOf[m_Players[p]]
         away == t.local /\ zone.map # t.zone.map /\ zone.clone # t.zone.clone
     IN  /\ k # 0
         /\ Commit(IF away THEN RemoveMember(Container, k, p)
                   ELSE IF Len(t.members) <= 1 /\ ~ t.local THEN DisbandTeam(Container, k)
                   ELSE UpdateTeamsOnWorld(TeamStatusUpdate(Container, k), k))
  /\ UnchangedByTeams

\* CreateLocalTeam: the next member leaves his team and joins the new one, the last.
JoinLast(S, p) == LET U == LeaveTeam(S, p) IN AddMember(U, Len(U.teams), p)

\* CREATE_TEAM of a world whose players start an activity: CreateTeamServer,
\* CreateLocalTeam.  Its two or three members form a local team.
CreateTeamServer(members, zone) ==
  /\ May("activity")
  /\ \E w \in joined : ToSet(members) \subseteq inside[w]
  /\ Len(members) >= 2
  /\ IF Len(members) >= TeamSize THEN UNCHANGED <<teamVars, inbox>>
     ELSE LET first == CreateTeam(LeaveTeam(Container, members[1]), members[1], TRUE, zone)
              two   == JoinLast(first, members[2])
              S     == IF Len(members) = 2 THEN two ELSE JoinLast(two, members[3])
              k     == Len(S.teams)
              done  == TeamStatusUpdate([S EXCEPT !.teams[k].loot = 0], k)
          IN  Commit(UpdateTeamsOnWorld(done, k))
  /\ UNCHANGED <<worldVars, notices, chatVars>>

-----------------------------------------------------------------------------
Arrangements(n) == {s \in [1..n -> Players] : IsInjective(s)}

TeamPacket ==
  \/ \E p \in Players : \/ HandleTeamInvite(p) \/ HandleTeamLeave(p)
                        \/ HandleTeamStatusRequest(p)
  \/ \E p, q \in Players : \/ HandleTeamInviteResponse(p, q)
                           \/ HandleTeamKick(p, q)
                           \/ HandleTeamPromote(p, q)
  \/ \E p \in Players, option \in {0, 1} : HandleTeamLootOption(p, option)
  \/ \E n \in 2..Cardinality(Players) : \E members \in Arrangements(n), zone \in Zones :
       CreateTeamServer(members, zone)

Next ==
  \/ \E p \in Players, w \in Worlds :
       PlayerLoads(p, w) \/ PlayerDisconnects(p, w) \/ SwapsCharacter(p, w)
  \/ \E w \in Worlds : \/ WorldReceives(w) \/ ChatConnectionLost(w) \/ ChatConnect(w)
                       \/ ServerDisconnects(w)
  \/ \E n \in notices : HandleLogin(n) \/ ScheduleRemovePlayer(n)
  \/ \E p \in Players : RemovePlayer(p)
  \/ ChatServerRestarts
  \/ TeamPacket

Spec == Init /\ [][Next]_vars

-----------------------------------------------------------------------------
(* Properties *)

\* The types of the variables.
TypeOK ==
  /\ inside \in [Worlds -> SUBSET Players]
  /\ \A w \in Worlds : \A i \in DOMAIN m_Teams[w] :
       i \in 1..MaxTeamId /\ ToSet(m_Teams[w][i].members) \subseteq Players
  /\ joined \subseteq Worlds /\ cut \subseteq Worlds
  /\ notices \subseteq Notice
  /\ \A w \in Worlds : \A u \in ToSet(inbox[w]) : u \in Update
  /\ DOMAIN m_Players \subseteq Players /\ ToSet(m_Players) \subseteq Worlds
  /\ m_PlayersToRemove \subseteq Players /\ m_Names \subseteq Players
  /\ m_PlayerCount \in Nat
  /\ \A t \in ToSet(mTeams) : t \in TeamData
  /\ g_TeamIDCounter \in 0..MaxTeamId
  /\ last \in [Players -> {"none", "LOGIN", "DISCONNECT"}]

\* Whatever order invitations are answered, leaders promoted, players kicked
\* and activities formed in, a team of the chat server has one to four
\* members, nobody twice, and an id of its own (AddMember, RemoveMember).
TeamsAreTeams ==
  /\ \A k \in DOMAIN mTeams :
       /\ Len(mTeams[k].members) \in 1..TeamSize
       /\ IsInjective(mTeams[k].members)
  /\ \A j, k \in DOMAIN mTeams : mTeams[j].id = mTeams[k].id => j = k

\* GetNextLootOwner indexes the members of a world's copy without looking: no
\* sequence of updates, disbandings, lost connections and restarts leaves a
\* world with a copy that nobody is in.  A copy of one, which UpdateTeam does
\* not make, is left only in a world that has lost the chat server: one that
\* starts again gives the ids of old copies to new teams.
WorldTeamsHaveLootOwners ==
  \A w \in Worlds : \A i \in DOMAIN m_Teams[w] :
    Len(m_Teams[w][i].members) \in (IF w \in cut THEN 1 ELSE 2)..TeamSize

\* A world that has never lost the chat server, and has had all its updates,
\* keeps no team that has been disbanded, shares loot as the team's leader
\* has chosen, and shares it with members in the order they joined: what the
\* copy lacks at most are members AddMember has added without a word, last.
CopiesCurrent ==
  \A w \in joined \ cut : inbox[w] = <<>> =>
    \A i \in DOMAIN m_Teams[w] : \E t \in ToSet(mTeams) :
      /\ t.id = i /\ t.loot = m_Teams[w][i].loot
      /\ IsPrefix(m_Teams[w][i].members, t.members)

\* A player is taken off the list, and out of his team, only if the last that
\* was heard of him is a disconnection: 20 seconds are for changing worlds.
\* (A chat server that starts again has heard nothing.)
RemovedOnlyAfterLogout ==
  [][\A p \in Players : Online(p) /\ ~ Online(p)' =>
       last[p] = "DISCONNECT" \/ last'[p] = "none"]_vars

\* m_PlayerCount, unsigned, never gets below the number of players that are
\* listed, so that it does not wrap around, whatever is removed twice.
CountNeverBelow == m_PlayerCount >= Cardinality(DOMAIN m_Players)
=============================================================================
