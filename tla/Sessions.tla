------------------------------ MODULE Sessions ------------------------------
(***************************************************************************)
(* The session keys of accounts.  AuthPackets.cpp hands a client a key and *)
(* tells the master of it; a world that the client then connects to asks   *)
(* the master for the key and compares (WorldServer.cpp).  A new key of an *)
(* account is announced to all worlds, which disconnect the older user.    *)
(*                                                                         *)
(* Servers send to one another RELIABLE_ORDERED: each pair of them has a   *)
(* FIFO channel in each direction.  Keys are random numbers of 32 bits:    *)
(* here they count up, as if no two were the same, and a hash stands for   *)
(* its key.  Left out: names, passwords and the checks of an account,      *)
(* which end in no key, and lost connections to the master.                *)
(***************************************************************************)
EXTENDS Integers, Sequences, FiniteSets, SequencesExt

CONSTANTS
  Clients,     \* their addresses, as m_Users orders them
  Accounts,
  AccountOf,   \* [Clients -> Accounts]
  Worlds,
  MaxLogins,   \* bound: keys handed out
  MaxAsked     \* bound: key requests of a world that it has no answer to

ASSUME SessionConstants ==
  /\ Clients \subseteq Nat \ {0} /\ AccountOf \in [Clients -> Accounts]
  /\ MaxLogins \in Nat /\ MaxAsked \in Nat

VARIABLES
  logins,          \* keys handed out so far
  key,             \* the key each client holds, 0: none
  setKey,          \* SET_SESSION_KEY on the way from auth to the master
  activeSessions,  \* the master's key of each account, 0: none
  requests,        \* REQUEST_SESSION_KEY on the way from each world
  fromMaster,      \* SESSION_KEY_RESPONSE and NEW_SESSION_ALERT to each world
  connected,       \* clients with a connection to each world
  closed,          \* clients whose connection has ended, unknown to the world
  g_PendingUsers,  \* in each world, who waits for the key of an account
  m_Users,         \* in each world, the key of each client's user, 0: none
  early,           \* history: <<c, w>>, c asked w before the master had its key
  overlooked       \* history: <<c, w>>, an alert found another user than c in w

master  == <<activeSessions, setKey>>
world   == <<connected, closed, g_PendingUsers, m_Users>>
vars    == <<logins, key, master, requests, fromMaster, world, early, overlooked>>

Nobody == [client |-> 0, hash |-> 0]

Init ==
  /\ logins = 0 /\ key = [c \in Clients |-> 0] /\ setKey = <<>>
  /\ activeSessions = [a \in Accounts |-> 0]
  /\ requests = [w \in Worlds |-> <<>>] /\ fromMaster = [w \in Worlds |-> <<>>]
  /\ connected = [w \in Worlds |-> {}] /\ closed = [w \in Worlds |-> {}]
  /\ g_PendingUsers = [w \in Worlds |-> [a \in Accounts |-> Nobody]]
  /\ m_Users = [w \in Worlds |-> [c \in Clients |-> 0]]
  /\ early = {} /\ overlooked = {}

Send(w, type, k, a) == Append(fromMaster[w], [type |-> type, key |-> k, account |-> a])

\* The requests for an account that a world has no answer to.
Asked(w, a) ==
  Cardinality({i \in DOMAIN requests[w] : requests[w][i] = a})
    + Cardinality({i \in DOMAIN fromMaster[w] :
                     fromMaster[w][i].type = "response" /\ fromMaster[w][i].account = a})

(***************************************************************************)
(* Auth and master                                                         *)
(***************************************************************************)

\* SendLoginResponse: the client gets a key, then the master.
Login(c) ==
  /\ logins < MaxLogins
  /\ \A w \in Worlds : c \notin connected[w]
  /\ logins' = logins + 1
  /\ key' = [key EXCEPT ![c] = logins + 1]
  /\ setKey' = Append(setKey, [key |-> logins + 1, account |-> AccountOf[c]])
  /\ UNCHANGED <<activeSessions, requests, fromMaster, world, early, overlooked>>

\* Mutant of SetSessionKey: the worlds are not told.
SetSessionKeySilently ==
  /\ setKey # <<>>
  /\ activeSessions' = [activeSessions EXCEPT ![Head(setKey).account] = Head(setKey).key]
  /\ setKey' = Tail(setKey)
  /\ UNCHANGED <<logins, key, requests, fromMaster, world, early, overlooked>>

SetSessionKey ==
  /\ setKey # <<>>
  /\ LET a == Head(setKey).account
         k == Head(setKey).key IN
     /\ fromMaster' = IF activeSessions[a] # 0 THEN [w \in Worlds |-> Send(w, "alert", k, a)]
                                               ELSE fromMaster
     /\ activeSessions' = [activeSessions EXCEPT ![a] = k]
  /\ setKey' = Tail(setKey)
  /\ UNCHANGED <<logins, key, requests, world, early, overlooked>>

\* Mutant of RequestSessionKey: an account without a session gets key 0.
RequestSessionKeyZero(w) ==
  /\ requests[w] # <<>>
  /\ LET a == Head(requests[w]) IN
     fromMaster' = [fromMaster EXCEPT ![w] = Send(w, "response", activeSessions[a], a)]
  /\ requests' = [requests EXCEPT ![w] = Tail(@)]
  /\ UNCHANGED <<logins, key, master, world, early, overlooked>>

\* Mutant of RequestSessionKey: the answer overtakes what was sent before it.
RequestSessionKeyUnordered(w) ==
  /\ requests[w] # <<>>
  /\ LET a == Head(requests[w]) IN
     fromMaster' = IF activeSessions[a] = 0 THEN fromMaster ELSE
       [fromMaster EXCEPT ![w] =
         <<[type |-> "response", key |-> activeSessions[a], account |-> a]>> \o @]
  /\ requests' = [requests EXCEPT ![w] = Tail(@)]
  /\ UNCHANGED <<logins, key, master, world, early, overlooked>>

\* Without a session of the account there is no answer.
RequestSessionKey(w) ==
  /\ requests[w] # <<>>
  /\ LET a == Head(requests[w]) IN
     fromMaster' = IF activeSessions[a] = 0 THEN fromMaster ELSE
       [fromMaster EXCEPT ![w] = Send(w, "response", activeSessions[a], a)]
  /\ requests' = [requests EXCEPT ![w] = Tail(@)]
  /\ UNCHANGED <<logins, key, master, world, early, overlooked>>

(***************************************************************************)
(* A world                                                                 *)
(***************************************************************************)

\* A client connects, from the login or from another world, and sends VALIDATION.
Validate(c, w) ==
  /\ key[c] # 0 /\ c \notin connected[w] \cup closed[w]
  /\ Asked(w, AccountOf[c]) < MaxAsked
  /\ connected' = [connected EXCEPT ![w] = @ \cup {c}]
  /\ requests' = [requests EXCEPT ![w] = Append(@, AccountOf[c])]
  /\ g_PendingUsers' = [g_PendingUsers EXCEPT ![w][AccountOf[c]] = [client |-> c, hash |-> key[c]]]
  /\ early' = IF \E i \in DOMAIN setKey : setKey[i].key = key[c]
              THEN early \cup {<<c, w>>} ELSE early \ {<<c, w>>}
  /\ UNCHANGED <<logins, key, master, fromMaster, closed, m_Users, overlooked>>

\* dServer::Disconnect, or the client goes: a connection ends.
Close(c, w) ==
  /\ connected' = [connected EXCEPT ![w] = @ \ {c}]
  /\ closed' = [closed EXCEPT ![w] = @ \cup (connected[w] \cap {c})]

ConnectionEnds(c, w) ==
  /\ c \in connected[w] /\ Close(c, w)
  /\ UNCHANGED <<logins, key, master, requests, fromMaster, g_PendingUsers, m_Users,
                 early, overlooked>>

\* HandlePacket: the world hears of it, and deletes the user if there is one.
HandleDisconnection(c, w) ==
  /\ c \in closed[w]
  /\ closed' = [closed EXCEPT ![w] = @ \ {c}]
  /\ m_Users' = [m_Users EXCEPT ![w][c] = 0]
  /\ overlooked' = overlooked \ {<<c, w>>}
  /\ UNCHANGED <<logins, key, master, requests, fromMaster, connected, g_PendingUsers, early>>

\* Mutant of CreateUser: whether the client is still connected is not asked.
CreateUserUnchecked(c, w, hash) ==
  m_Users' = [m_Users EXCEPT ![w][c] = hash]

CreateUser(c, w, hash) ==
  m_Users' = IF c \in connected[w] THEN [m_Users EXCEPT ![w][c] = hash] ELSE m_Users

\* Mutant of KeyMismatch: the client stays connected.
KeyMismatchIgnored(c, w) == UNCHANGED <<connected, closed, g_PendingUsers, m_Users>>

\* The client is disconnected; its entry stays.
KeyMismatch(c, w) == Close(c, w) /\ UNCHANGED <<g_PendingUsers, m_Users>>

SessionKeyResponse(w) ==
  /\ fromMaster[w] # <<>> /\ Head(fromMaster[w]).type = "response"
  /\ fromMaster' = [fromMaster EXCEPT ![w] = Tail(@)]
  /\ LET m     == Head(fromMaster[w])
         entry == g_PendingUsers[w][m.account] IN
     \/ entry = Nobody /\ UNCHANGED world
     \/ entry # Nobody /\ m.key # entry.hash /\ KeyMismatch(entry.client, w)
     \/ /\ entry # Nobody /\ m.key = entry.hash
        /\ CreateUser(entry.client, w, entry.hash)
        /\ g_PendingUsers' = [g_PendingUsers EXCEPT ![w][m.account] = Nobody]
        /\ UNCHANGED <<connected, closed>>
  /\ UNCHANGED <<logins, key, master, requests, early, overlooked>>

UsersOf(a, w) == {c \in Clients : AccountOf[c] = a /\ m_Users[w][c] # 0}

\* GetUser: the first of them in m_Users.
GetUser(a, w) == CHOOSE c \in UsersOf(a, w) : \A d \in UsersOf(a, w) : c <= d

\* Mutant of AlertFound: a user whose key begins like the new one stays.
AlertMissed(a, w) == UNCHANGED <<connected, closed>>

\* The new key is compared with the number a hash begins with, and differs.
AlertFound(a, w) == Close(GetUser(a, w), w)

NewSessionAlert(w) ==
  /\ fromMaster[w] # <<>> /\ Head(fromMaster[w]).type = "alert"
  /\ fromMaster' = [fromMaster EXCEPT ![w] = Tail(@)]
  /\ LET a == Head(fromMaster[w]).account IN
     \/ UsersOf(a, w) = {} /\ UNCHANGED <<connected, closed, overlooked>>
     \/ /\ UsersOf(a, w) # {} /\ AlertFound(a, w)
        /\ overlooked' = overlooked \cup ((UsersOf(a, w) \ {GetUser(a, w)}) \X {w})
  /\ UNCHANGED <<logins, key, master, requests, g_PendingUsers, m_Users, early>>

-----------------------------------------------------------------------------
Next ==
  \/ \E c \in Clients : Login(c)
  \/ SetSessionKey
  \/ \E w \in Worlds :
       \/ RequestSessionKey(w)
       \/ SessionKeyResponse(w)
       \/ NewSessionAlert(w)
       \/ \E c \in Clients : Validate(c, w) \/ ConnectionEnds(c, w) \/ HandleDisconnection(c, w)

Spec == Init /\ [][Next]_vars

\* The loops of the master and of the worlds go on; nothing is assumed of clients.
FairSpec ==
  /\ Spec
  /\ WF_vars(SetSessionKey)
  /\ \A w \in Worlds :
       /\ WF_vars(RequestSessionKey(w))
       /\ WF_vars(SessionKeyResponse(w) \/ NewSessionAlert(w))
       /\ \A c \in Clients : WF_vars(HandleDisconnection(c, w))

-----------------------------------------------------------------------------
Keys    == 1..MaxLogins
Message == [type : {"response", "alert"}, key : Keys, account : Accounts]
Entry   == [client : Clients, hash : Keys]

TypeOK ==
  /\ logins \in 0..MaxLogins /\ key \in [Clients -> 0..MaxLogins]
  /\ setKey \in Seq([key : Keys, account : Accounts])
  /\ activeSessions \in [Accounts -> 0..MaxLogins]
  /\ requests \in [Worlds -> Seq(Accounts)]
  /\ fromMaster \in [Worlds -> Seq(Message)]
  /\ connected \in [Worlds -> SUBSET Clients] /\ closed \in [Worlds -> SUBSET Clients]
  /\ g_PendingUsers \in [Worlds -> [Accounts -> {Nobody} \cup Entry]]
  /\ m_Users \in [Worlds -> [Clients -> 0..MaxLogins]]
  /\ early \subseteq Clients \X Worlds /\ overlooked \subseteq Clients \X Worlds

\* Among the messages after the i-th one is an alert for the account.
Announced(messages, a, i) ==
  \E j \in DOMAIN messages : j > i /\ messages[j].type = "alert" /\ messages[j].account = a

\* A user with an older key than the master's is about to be told to go, in
\* whatever world and however answers and alerts interleave; but for one that
\* an alert missed because of another user, whose end was not yet noticed.
SingleSession ==
  \A w \in Worlds : \A c \in connected[w] :
    m_Users[w][c] \notin {0, activeSessions[AccountOf[c]]} =>
      <<c, w>> \in overlooked \/ Announced(fromMaster[w], AccountOf[c], 0)

\* No user is left without a connection, as nothing would ever delete it: the
\* answer of the master may come after the client has gone.
UsersHaveConnections ==
  \A w \in Worlds, c \in Clients : m_Users[w][c] # 0 => c \in connected[w] \cup closed[w]

\* A world disconnects a client that holds the newest key only if the client
\* came before the key reached the master, or with an answer on its way that
\* another request had caused.
NewestIsHeard ==
  [][\A w \in Worlds, c \in Clients :
       /\ c \in connected[w] \cap closed'[w] /\ fromMaster'[w] # fromMaster[w]
       /\ key[c] = activeSessions[AccountOf[c]]
       => <<c, w>> \in early \/ Asked(w, AccountOf[c]) >= 2]_vars

HasSession(c) == activeSessions[AccountOf[c]] # 0

Waits(c, w) == c \in connected[w] /\ m_Users[w][c] = 0

\* A client that waits for the master's word in a world, with a session known
\* to the master, becomes a user or is disconnected, unless another client of
\* the account comes to that world and takes its place.
WaitsEnd ==
  \A c \in Clients, w \in Worlds :
    Waits(c, w) /\ HasSession(c) /\ AccountOf[c] \in ToSet(requests[w])
      ~> ~Waits(c, w) \/ g_PendingUsers[w][AccountOf[c]].client # c

\* An older session ends: its user is deleted, in whatever world it is.
OldSessionsEnd ==
  \A c \in Clients, w \in Worlds :
    m_Users[w][c] \notin {0, activeSessions[AccountOf[c]]}
      ~> m_Users[w][c] = 0 \/ <<c, w>> \in overlooked
=============================================================================
