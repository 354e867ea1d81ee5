--------------------------- MODULE SessionsProofs ---------------------------
(***************************************************************************)
(* Proofs about Sessions, for any number of clients, accounts, worlds and  *)
(* logins.  That older users are told to go rests on the order of a        *)
(* channel: an answer with a key that is no longer the master's is         *)
(* followed by the alert that made it old, so the user it lets in is met   *)
(* by that alert.  That the newest key is heard rests on NewestInv: keys   *)
(* reach the master in the order they were handed out, and who holds one   *)
(* that it had when he came has an answer with this key on the way.        *)
(***************************************************************************)
EXTENDS Sessions, SequenceLemmas

\* An answer with an older key has an alert behind it.
AnswersFollowed ==
  \A w \in Worlds : \A i \in DOMAIN fromMaster[w] :
    LET m == fromMaster[w][i] IN
    m.type = "response" /\ m.key # activeSessions[m.account] =>
      Announced(fromMaster[w], m.account, i)

\* Answers and users are of accounts with a session.
SessionsExist ==
  \A w \in Worlds :
    /\ \A i \in DOMAIN fromMaster[w] :
         fromMaster[w][i].type = "response" => activeSessions[fromMaster[w][i].account] # 0
    /\ \A c \in Clients : m_Users[w][c] # 0 => activeSessions[AccountOf[c]] # 0

PendingMatch ==
  \A w \in Worlds, a \in Accounts :
    g_PendingUsers[w][a] # Nobody => AccountOf[g_PendingUsers[w][a].client] = a

SessionsInv ==
  /\ TypeOK /\ UsersHaveConnections /\ SingleSession
  /\ AnswersFollowed /\ SessionsExist /\ PendingMatch

(***************************************************************************)
(* Messages                                                                *)
(***************************************************************************)
LEMMA AppendKeeps ==
  ASSUME NEW s \in Seq(Message), NEW m \in Message, NEW a, NEW i \in Nat, Announced(s, a, i)
  PROVE  Announced(Append(s, m), a, i)
<1>1. /\ DOMAIN Append(s, m) = 1..(Len(s) + 1) /\ DOMAIN s = 1..Len(s) /\ Len(s) \in Nat
      /\ \A j \in DOMAIN s : Append(s, m)[j] = s[j]
  OBVIOUS
<1>2. QED BY <1>1 DEF Announced

LEMMA AppendAnnounces ==
  ASSUME NEW s \in Seq(Message), NEW m \in Message, m.type = "alert", NEW i \in Nat, i <= Len(s)
  PROVE  Announced(Append(s, m), m.account, i)
<1>1. /\ DOMAIN Append(s, m) = 1..(Len(s) + 1) /\ Len(s) \in Nat
      /\ Append(s, m)[Len(s) + 1] = m
  OBVIOUS
<1>2. Len(s) + 1 \in DOMAIN Append(s, m) /\ Len(s) + 1 > i
  BY <1>1
<1>3. QED BY <1>1, <1>2 DEF Announced

LEMMA TailKeeps ==
  ASSUME NEW s \in Seq(Message), s # <<>>, NEW a, NEW i \in Nat
  PROVE  /\ Announced(s, a, i + 1) => Announced(Tail(s), a, i)
         /\ Announced(s, a, 0) /\ ~(Head(s).type = "alert" /\ Head(s).account = a)
              => Announced(Tail(s), a, 0)
<1>1. /\ DOMAIN s = 1..Len(s) /\ Len(s) \in Nat \ {0}
      /\ DOMAIN Tail(s) = 1..(Len(s) - 1) /\ Head(s) = s[1]
      /\ \A j \in DOMAIN Tail(s) : Tail(s)[j] = s[j + 1]
  OBVIOUS
<1>2. ASSUME NEW n \in Nat, Announced(s, a, n + 1)
      PROVE  Announced(Tail(s), a, n)
  <2>1. PICK j \in DOMAIN s : j > n + 1 /\ s[j].type = "alert" /\ s[j].account = a
    BY <1>2 DEF Announced
  <2>2. j - 1 \in DOMAIN Tail(s) /\ j - 1 > n /\ (j - 1) + 1 = j
    BY <1>1, <2>1
  <2>3. Tail(s)[j - 1] = s[j]
    BY <1>1, <2>2
  <2>4. QED BY <2>1, <2>2, <2>3 DEF Announced
<1>3. Announced(s, a, 0) /\ ~(Head(s).type = "alert" /\ Head(s).account = a)
        => Announced(s, a, 0 + 1)
  BY <1>1 DEF Announced
<1>4. QED BY <1>2, <1>3

\* What a message sent, or the first message handled, leaves of the channel.
LEMMA QueueType ==
  ASSUME NEW R, NEW s \in Seq(R), s # <<>>
  PROVE  Head(s) \in R /\ Tail(s) \in Seq(R)
OBVIOUS

LEMMA MessageType ==
  ASSUME NEW s \in Seq(Message), NEW i \in DOMAIN s
  PROVE  /\ i \in Nat /\ i <= Len(s)
         /\ s[i] \in Message /\ s[i].account \in Accounts /\ s[i].key \in Keys
<1>1. i \in Nat /\ i <= Len(s) /\ s[i] \in Message
  OBVIOUS
<1>2. QED BY <1>1 DEF Message

LEMMA TailType ==
  ASSUME NEW s \in Seq(Message), s # <<>>
  PROVE  /\ Tail(s) \in Seq(Message) /\ Head(s) \in Message
         /\ \A i \in DOMAIN Tail(s) : i \in Nat /\ i + 1 \in DOMAIN s /\ Tail(s)[i] = s[i + 1]
OBVIOUS

LEMMA AppendType ==
  ASSUME NEW s \in Seq(Message), NEW m \in Message
  PROVE  /\ Append(s, m) \in Seq(Message)
         /\ \A i \in DOMAIN Append(s, m) :
              \/ i \in DOMAIN s /\ Append(s, m)[i] = s[i]
              \/ i = Len(s) + 1 /\ Append(s, m)[i] = m
OBVIOUS

LEMMA GetUserIsUser ==
  ASSUME NEW a, NEW w \in Worlds, UsersOf(a, w) # {}
  PROVE  GetUser(a, w) \in UsersOf(a, w)
<1>1. UsersOf(a, w) \in SUBSET Nat
  BY SessionConstants DEF UsersOf
<1>2. \E c \in UsersOf(a, w) : \A d \in UsersOf(a, w) : c <= d
  BY <1>1, LeastExists
<1>3. QED BY <1>2 DEF GetUser

(***************************************************************************)
(* The steps                                                               *)
(***************************************************************************)
LEMMA InitHolds == Init => SessionsInv
<1> SUFFICES ASSUME Init PROVE SessionsInv
  OBVIOUS
<1>1. TypeOK
  BY SessionConstants DEF Init, TypeOK
<1>2. UsersHaveConnections /\ SingleSession /\ AnswersFollowed /\ SessionsExist /\ PendingMatch
  BY SessionConstants DEF Init, UsersHaveConnections, SingleSession, AnswersFollowed, SessionsExist, PendingMatch
<1>3. QED BY <1>1, <1>2 DEF SessionsInv

\* Steps that change neither the channels to the worlds nor the worlds.
LEMMA WorldsStay ==
  ASSUME SessionsInv, TypeOK',
         UNCHANGED <<activeSessions, fromMaster, world, overlooked>>
  PROVE  SessionsInv'
BY DEF SessionsInv, world, UsersHaveConnections, SingleSession, AnswersFollowed, SessionsExist,
       PendingMatch

LEMMA LoginStep ==
  ASSUME SessionsInv, NEW c \in Clients, Login(c)
  PROVE  SessionsInv'
<1>1. /\ logins < MaxLogins /\ logins' = logins + 1
      /\ key' = [key EXCEPT ![c] = logins + 1]
      /\ setKey' = Append(setKey, [key |-> logins + 1, account |-> AccountOf[c]])
      /\ UNCHANGED <<activeSessions, requests, fromMaster, world, early, overlooked>>
  BY DEF Login
<1>2. logins \in 0..MaxLogins /\ MaxLogins \in Nat /\ AccountOf[c] \in Accounts
  BY SessionConstants DEF SessionsInv, TypeOK
<1>3. logins + 1 \in Keys /\ logins + 1 \in 0..MaxLogins
  BY <1>1, <1>2 DEF Keys
<1>4. setKey' \in Seq([key : Keys, account : Accounts])
  BY <1>1, <1>2, <1>3 DEF SessionsInv, TypeOK
<1>5. TypeOK'
  BY <1>1, <1>3, <1>4 DEF SessionsInv, TypeOK, world
<1>6. QED BY <1>1, <1>5, WorldsStay

LEMMA SetKeyStep ==
  ASSUME SessionsInv, SetSessionKey
  PROVE  SessionsInv'
<1> USE DEF SessionsInv
<1> DEFINE a == Head(setKey).account
           k == Head(setKey).key
           alert == [type |-> "alert", key |-> k, account |-> a]
<1>1. /\ setKey # <<>> /\ setKey' = Tail(setKey)
      /\ fromMaster' = IF activeSessions[a] # 0 THEN [w \in Worlds |-> Append(fromMaster[w], alert)]
                                                ELSE fromMaster
      /\ activeSessions' = [activeSessions EXCEPT ![a] = k]
      /\ UNCHANGED <<logins, key, requests, connected, closed, g_PendingUsers, m_Users, early,
                     overlooked>>
  BY DEF SetSessionKey, Send, world
<1>2. a \in Accounts /\ k \in Keys /\ setKey' \in Seq([key : Keys, account : Accounts])
  <2>1. setKey \in Seq([key : Keys, account : Accounts])
    BY DEF TypeOK
  <2>2. /\ Head(setKey) \in [key : Keys, account : Accounts]
        /\ Tail(setKey) \in Seq([key : Keys, account : Accounts])
    BY <1>1, <2>1, QueueType
  <2>3. QED BY <1>1, <2>2
<1>3. alert \in Message
  BY <1>2 DEF Message
<1>4. k \in 0..MaxLogins /\ k # 0 /\ activeSessions \in [Accounts -> 0..MaxLogins]
      /\ fromMaster \in [Worlds -> Seq(Message)]
  BY <1>2, SessionConstants DEF Keys, TypeOK
<1> HIDE DEF a, k, alert
<1>5. fromMaster' \in [Worlds -> Seq(Message)]
  BY <1>1, <1>3, <1>4
<1>6. TypeOK'
  BY <1>1, <1>2, <1>4, <1>5 DEF TypeOK
<1>7. \A b \in Accounts : /\ activeSessions'[b] = IF b = a THEN k ELSE activeSessions[b]
                          /\ activeSessions[b] # 0 => activeSessions'[b] # 0
  BY <1>1, <1>2, <1>4
<1>8. CASE activeSessions[a] = 0
  <2>1. fromMaster' = fromMaster
    BY <1>1, <1>8
  <2>2. \A w \in Worlds : \A i \in DOMAIN fromMaster[w] : fromMaster[w][i].account \in Accounts
    BY <1>4, MessageType
  <2>3. AnswersFollowed'
    BY <1>7, <1>8, <2>1, <2>2 DEF AnswersFollowed, SessionsExist
  <2>4. SingleSession'
    BY <1>1, <1>7, <1>8, <2>1, SessionConstants DEF SingleSession, SessionsExist, TypeOK
  <2>5. SessionsExist'
    BY <1>1, <1>7, <2>1, <2>2, SessionConstants DEF SessionsExist
  <2>6. UsersHaveConnections' /\ PendingMatch'
    BY <1>1 DEF UsersHaveConnections, PendingMatch
  <2>7. QED BY <1>6, <2>3, <2>4, <2>5, <2>6
<1>9. CASE activeSessions[a] # 0
  <2>1. \A w \in Worlds : fromMaster'[w] = Append(fromMaster[w], alert)
    BY <1>1, <1>9
  <2>2. alert.type = "alert" /\ alert.account = a
    BY DEF alert
  <2>3. ASSUME NEW w \in Worlds, NEW i \in DOMAIN fromMaster'[w], fromMaster'[w][i].type = "response"
        PROVE  /\ i \in DOMAIN fromMaster[w] /\ fromMaster'[w][i] = fromMaster[w][i]
               /\ i \in Nat /\ i <= Len(fromMaster[w]) /\ fromMaster[w][i].account \in Accounts
    <3>1. fromMaster[w] \in Seq(Message)
      BY <1>4
    <3>2. i \in DOMAIN fromMaster[w] /\ fromMaster'[w][i] = fromMaster[w][i]
      BY <1>3, <2>1, <2>2, <2>3, <3>1, AppendType
    <3>3. QED BY <3>1, <3>2, MessageType
  <2>4. AnswersFollowed'
    <3> SUFFICES ASSUME NEW w \in Worlds, NEW i \in DOMAIN fromMaster'[w],
                        fromMaster'[w][i].type = "response",
                        fromMaster'[w][i].key # activeSessions'[fromMaster'[w][i].account]
                 PROVE  Announced(fromMaster'[w], fromMaster'[w][i].account, i)
      BY DEF AnswersFollowed
    <3>1. fromMaster[w] \in Seq(Message)
      BY <1>4
    <3>2. CASE fromMaster[w][i].account = a
      <4>1. Announced(Append(fromMaster[w], alert), a, i)
        BY <1>3, <2>2, <2>3, <3>1, AppendAnnounces
      <4>2. QED BY <2>1, <2>3, <3>2, <4>1
    <3>3. CASE fromMaster[w][i].account # a
      <4>1. Announced(fromMaster[w], fromMaster[w][i].account, i)
        BY <1>7, <2>3, <3>3 DEF AnswersFollowed
      <4>2. QED BY <1>3, <2>1, <2>3, <3>1, <4>1, AppendKeeps
    <3>4. QED BY <3>2, <3>3
  <2>5. SingleSession'
    <3> SUFFICES ASSUME NEW w \in Worlds, NEW c \in connected'[w],
                        m_Users'[w][c] \notin {0, activeSessions'[AccountOf[c]]},
                        <<c, w>> \notin overlooked'
                 PROVE  Announced(fromMaster'[w], AccountOf[c], 0)
      BY DEF SingleSession
    <3>1. fromMaster[w] \in Seq(Message) /\ c \in connected[w] /\ c \in Clients
          /\ AccountOf[c] \in Accounts /\ 0 <= Len(fromMaster[w])
      BY <1>1, <1>4, SessionConstants DEF TypeOK
    <3>2. CASE AccountOf[c] = a
      <4>1. Announced(Append(fromMaster[w], alert), a, 0)
        BY <1>3, <2>2, <3>1, AppendAnnounces
      <4>2. QED BY <2>1, <3>2, <4>1
    <3>3. CASE AccountOf[c] # a
      <4>1. Announced(fromMaster[w], AccountOf[c], 0)
        BY <1>1, <1>7, <3>1, <3>3 DEF SingleSession
      <4>2. QED BY <1>3, <2>1, <3>1, <4>1, AppendKeeps
    <3>4. QED BY <3>2, <3>3
  <2>6. SessionsExist'
    <3>1. \A w \in Worlds, c \in Clients : m_Users'[w][c] # 0 => activeSessions'[AccountOf[c]] # 0
      BY <1>1, <1>7, SessionConstants DEF SessionsExist
    <3>2. \A w \in Worlds : \A i \in DOMAIN fromMaster'[w] :
            fromMaster'[w][i].type = "response" => activeSessions'[fromMaster'[w][i].account] # 0
      BY <1>7, <2>3 DEF SessionsExist
    <3>3. QED BY <3>1, <3>2 DEF SessionsExist
  <2>7. UsersHaveConnections' /\ PendingMatch'
    BY <1>1 DEF UsersHaveConnections, PendingMatch
  <2>8. QED BY <1>6, <2>4, <2>5, <2>6, <2>7
<1>10. QED BY <1>8, <1>9

LEMMA RequestStep ==
  ASSUME SessionsInv, NEW v \in Worlds, RequestSessionKey(v)
  PROVE  SessionsInv'
<1> USE DEF SessionsInv
<1> DEFINE a == Head(requests[v])
           answer == [type |-> "response", key |-> activeSessions[a], account |-> a]
<1>1. /\ requests[v] # <<>> /\ requests' = [requests EXCEPT ![v] = Tail(@)]
      /\ fromMaster' = IF activeSessions[a] = 0 THEN fromMaster
                       ELSE [fromMaster EXCEPT ![v] = Append(fromMaster[v], answer)]
      /\ UNCHANGED <<logins, key, activeSessions, setKey, connected, closed, g_PendingUsers,
                     m_Users, early, overlooked>>
  BY DEF RequestSessionKey, Send, master, world
<1>2. requests \in [Worlds -> Seq(Accounts)] /\ fromMaster \in [Worlds -> Seq(Message)]
      /\ activeSessions \in [Accounts -> 0..MaxLogins]
  BY DEF TypeOK
<1>3. a \in Accounts /\ Tail(requests[v]) \in Seq(Accounts)
  BY <1>1, <1>2, QueueType
<1>4. requests' \in [Worlds -> Seq(Accounts)]
  BY <1>1, <1>2, <1>3
<1>5. CASE activeSessions[a] = 0
  <2>1. fromMaster' = fromMaster
    BY <1>1, <1>5
  <2>2. TypeOK'
    BY <1>1, <1>4, <2>1 DEF TypeOK
  <2>3. QED BY <1>1, <2>1, <2>2, WorldsStay DEF world
<1>6. CASE activeSessions[a] # 0
  <2>1. answer \in Message /\ answer.key = activeSessions[answer.account]
        /\ activeSessions[answer.account] # 0
    BY <1>2, <1>3, <1>6 DEF Message, Keys
  <2> HIDE DEF a, answer
  <2>2. fromMaster' = [fromMaster EXCEPT ![v] = Append(fromMaster[v], answer)]
    BY <1>1, <1>6
  <2>3. Append(fromMaster[v], answer) \in Seq(Message)
    BY <1>2, <2>1, AppendType
  <2>4. TypeOK'
    BY <1>1, <1>2, <1>4, <2>2, <2>3 DEF TypeOK
  <2>5. ASSUME NEW w \in Worlds, NEW b, NEW i \in Nat, Announced(fromMaster[w], b, i)
        PROVE  Announced(fromMaster'[w], b, i)
    <3>1. fromMaster[w] \in Seq(Message)
      BY <1>2
    <3>2. CASE w = v
      <4>1. Announced(Append(fromMaster[w], answer), b, i)
        BY <2>1, <2>5, <3>1, AppendKeeps
      <4>2. QED BY <1>2, <2>2, <3>2, <4>1
    <3>3. CASE w # v
      BY <1>2, <2>2, <2>5, <3>3
    <3>4. QED BY <3>2, <3>3
  <2>6. ASSUME NEW w \in Worlds, NEW i \in DOMAIN fromMaster'[w]
        PROVE  \/ i \in DOMAIN fromMaster[w] /\ fromMaster'[w][i] = fromMaster[w][i] /\ i \in Nat
               \/ fromMaster'[w][i] = answer
    <3>1. fromMaster[w] \in Seq(Message)
      BY <1>2
    <3>2. CASE w = v
      BY <1>2, <2>1, <2>2, <2>6, <3>1, <3>2, AppendType
    <3>3. CASE w # v
      BY <1>2, <2>2, <2>6, <3>1, <3>3
    <3>4. QED BY <3>2, <3>3
  <2>7. AnswersFollowed'
    <3> SUFFICES ASSUME NEW w \in Worlds, NEW i \in DOMAIN fromMaster'[w],
                        fromMaster'[w][i].type = "response",
                        fromMaster'[w][i].key # activeSessions'[fromMaster'[w][i].account]
                 PROVE  Announced(fromMaster'[w], fromMaster'[w][i].account, i)
      BY DEF AnswersFollowed
    <3>1. i \in DOMAIN fromMaster[w] /\ fromMaster'[w][i] = fromMaster[w][i] /\ i \in Nat
      BY <1>1, <2>1, <2>6
    <3>2. Announced(fromMaster[w], fromMaster[w][i].account, i)
      BY <1>1, <3>1 DEF AnswersFollowed
    <3>3. QED BY <2>5, <3>1, <3>2
  <2>8. SingleSession'
    BY <1>1, <2>5 DEF SingleSession
  <2>9. SessionsExist'
    <3>1. \A w \in Worlds : \A i \in DOMAIN fromMaster'[w] :
            fromMaster'[w][i].type = "response" => activeSessions'[fromMaster'[w][i].account] # 0
      BY <1>1, <2>1, <2>6 DEF SessionsExist
    <3>2. QED BY <1>1, <3>1 DEF SessionsExist
  <2>10. UsersHaveConnections' /\ PendingMatch'
    BY <1>1 DEF UsersHaveConnections, PendingMatch
  <2>11. QED BY <2>4, <2>7, <2>8, <2>9, <2>10
<1>7. QED BY <1>5, <1>6

LEMMA ValidateStep ==
  ASSUME SessionsInv, NEW c \in Clients, NEW w \in Worlds, Validate(c, w)
  PROVE  SessionsInv'
<1> USE DEF SessionsInv
<1> DEFINE a == AccountOf[c]
           entry == [client |-> c, hash |-> key[c]]
<1>1. /\ key[c] # 0 /\ c \notin connected[w] \cup closed[w]
      /\ connected' = [connected EXCEPT ![w] = @ \cup {c}]
      /\ requests' = [requests EXCEPT ![w] = Append(@, a)]
      /\ g_PendingUsers' = [g_PendingUsers EXCEPT ![w][a] = entry]
      /\ UNCHANGED <<logins, key, activeSessions, setKey, fromMaster, closed, m_Users, overlooked>>
  BY DEF Validate, master
<1>2. early' \subseteq Clients \X Worlds
  BY DEF Validate, TypeOK
<1>3. a \in Accounts /\ entry \in Entry
  BY <1>1, SessionConstants DEF Entry, Keys, TypeOK
<1>4. requests' \in [Worlds -> Seq(Accounts)]
  BY <1>1, <1>3 DEF TypeOK
<1>5. m_Users[w][c] = 0
  BY <1>1 DEF UsersHaveConnections
<1>6. connected' \in [Worlds -> SUBSET Clients] /\ \A v \in Worlds : connected[v] \subseteq connected'[v]
  BY <1>1 DEF TypeOK
<1>7. g_PendingUsers' \in [Worlds -> [Accounts -> {Nobody} \cup Entry]]
  BY <1>1, <1>3 DEF TypeOK
<1>8. TypeOK'
  BY <1>1, <1>2, <1>4, <1>6, <1>7 DEF TypeOK
<1>9. UsersHaveConnections'
  BY <1>1, <1>6 DEF UsersHaveConnections
<1>10. SingleSession'
  <2> SUFFICES ASSUME NEW v \in Worlds, NEW d \in connected'[v],
                      m_Users[v][d] \notin {0, activeSessions[AccountOf[d]]}
               PROVE  <<d, v>> \in overlooked \/ Announced(fromMaster[v], AccountOf[d], 0)
    BY <1>1 DEF SingleSession
  <2>1. d \in connected[v]
    BY <1>1, <1>5 DEF TypeOK
  <2>2. QED BY <2>1 DEF SingleSession
<1>11. AnswersFollowed' /\ SessionsExist'
  BY <1>1 DEF AnswersFollowed, SessionsExist
<1>12. PendingMatch'
  <2> SUFFICES ASSUME NEW v \in Worlds, NEW b \in Accounts, g_PendingUsers'[v][b] # Nobody
               PROVE  AccountOf[g_PendingUsers'[v][b].client] = b
    BY DEF PendingMatch
  <2>1. g_PendingUsers \in [Worlds -> [Accounts -> {Nobody} \cup Entry]]
    BY DEF TypeOK
  <2>2. CASE v = w /\ b = a
    <3>1. g_PendingUsers'[v][b] = entry
      BY <1>1, <2>1, <2>2
    <3>2. QED BY <2>2, <3>1
  <2>3. CASE ~(v = w /\ b = a)
    <3>1. g_PendingUsers'[v][b] = g_PendingUsers[v][b]
      BY <1>1, <2>1, <2>3
    <3>2. QED BY <3>1 DEF PendingMatch
  <2>4. QED BY <2>2, <2>3
<1>13. QED BY <1>8, <1>9, <1>10, <1>11, <1>12

\* A connection that ends takes nobody else's, and leaves the user to be deleted.
LEMMA CloseKeeps ==
  ASSUME SessionsInv, NEW c, NEW w \in Worlds, Close(c, w)
  PROVE  /\ connected' \in [Worlds -> SUBSET Clients] /\ closed' \in [Worlds -> SUBSET Clients]
         /\ \A v \in Worlds : /\ connected'[v] \subseteq connected[v]
                              /\ connected'[v] \cup closed'[v] = connected[v] \cup closed[v]
         /\ c \notin connected'[w]
<1>1. connected \in [Worlds -> SUBSET Clients] /\ closed \in [Worlds -> SUBSET Clients]
  BY DEF SessionsInv, TypeOK
<1>2. QED BY <1>1 DEF Close

LEMMA EndsStep ==
  ASSUME SessionsInv, NEW c \in Clients, NEW w \in Worlds, ConnectionEnds(c, w)
  PROVE  SessionsInv'
<1>1. /\ Close(c, w)
      /\ UNCHANGED <<logins, key, activeSessions, setKey, requests, fromMaster, g_PendingUsers,
                     m_Users, early, overlooked>>
  BY DEF ConnectionEnds, master
<1>2. /\ connected' \in [Worlds -> SUBSET Clients] /\ closed' \in [Worlds -> SUBSET Clients]
      /\ \A v \in Worlds : /\ connected'[v] \subseteq connected[v]
                           /\ connected'[v] \cup closed'[v] = connected[v] \cup closed[v]
  BY <1>1, CloseKeeps
<1>3. TypeOK'
  BY <1>1, <1>2 DEF SessionsInv, TypeOK
<1>4. QED BY <1>1, <1>2, <1>3 DEF SessionsInv, UsersHaveConnections, SingleSession,
          AnswersFollowed, SessionsExist, PendingMatch

LEMMA DisconnectionStep ==
  ASSUME SessionsInv, NEW c \in Clients, NEW w \in Worlds, HandleDisconnection(c, w)
  PROVE  SessionsInv'
<1> USE DEF SessionsInv
<1>1. /\ closed' = [closed EXCEPT ![w] = @ \ {c}]
      /\ m_Users' = [m_Users EXCEPT ![w][c] = 0]
      /\ overlooked' = overlooked \ {<<c, w>>}
      /\ UNCHANGED <<logins, key, activeSessions, setKey, requests, fromMaster, connected,
                     g_PendingUsers, early>>
  BY DEF HandleDisconnection, master
<1>2. closed \in [Worlds -> SUBSET Clients] /\ m_Users \in [Worlds -> [Clients -> 0..MaxLogins]]
      /\ 0 \in 0..MaxLogins
  BY SessionConstants DEF TypeOK
<1>3. closed' \in [Worlds -> SUBSET Clients] /\ m_Users' \in [Worlds -> [Clients -> 0..MaxLogins]]
  BY <1>1, <1>2
<1>4. TypeOK'
  BY <1>1, <1>3 DEF TypeOK
<1>5. \A v \in Worlds, d \in Clients :
        m_Users'[v][d] # 0 => m_Users'[v][d] = m_Users[v][d] /\ <<d, v>> # <<c, w>>
  BY <1>1, <1>2
<1>6. UsersHaveConnections'
  BY <1>1, <1>2, <1>5 DEF UsersHaveConnections
<1>7. SingleSession'
  <2> SUFFICES ASSUME NEW v \in Worlds, NEW d \in connected[v],
                      m_Users'[v][d] \notin {0, activeSessions[AccountOf[d]]}
               PROVE  <<d, v>> \in overlooked' \/ Announced(fromMaster[v], AccountOf[d], 0)
    BY <1>1 DEF SingleSession
  <2>1. d \in Clients
    BY DEF TypeOK
  <2>2. m_Users'[v][d] = m_Users[v][d] /\ <<d, v>> # <<c, w>>
    BY <1>5, <2>1
  <2>3. <<d, v>> \in overlooked \/ Announced(fromMaster[v], AccountOf[d], 0)
    BY <2>2 DEF SingleSession
  <2>4. QED BY <1>1, <2>2, <2>3
<1>8. AnswersFollowed' /\ PendingMatch'
  BY <1>1 DEF AnswersFollowed, PendingMatch
<1>9. SessionsExist'
  BY <1>1, <1>5 DEF SessionsExist
<1>10. QED BY <1>4, <1>6, <1>7, <1>8, <1>9

\* The first message of a world's channel is handled: what the others say stays.
LEMMA HandledKeeps ==
  ASSUME SessionsInv, NEW w \in Worlds, fromMaster[w] # <<>>,
         fromMaster' = [fromMaster EXCEPT ![w] = Tail(@)], UNCHANGED activeSessions
  PROVE  /\ fromMaster' \in [Worlds -> Seq(Message)]
         /\ AnswersFollowed'
         /\ \A v \in Worlds : \A i \in DOMAIN fromMaster'[v] :
              fromMaster'[v][i].type = "response" => activeSessions[fromMaster'[v][i].account] # 0
         /\ \A v \in Worlds, b \in Accounts :
              /\ Announced(fromMaster[v], b, 0)
              /\ ~(v = w /\ Head(fromMaster[w]).type = "alert" /\ Head(fromMaster[w]).account = b)
              => Announced(fromMaster'[v], b, 0)
<1>1. fromMaster \in [Worlds -> Seq(Message)] /\ fromMaster[w] \in Seq(Message)
  BY DEF SessionsInv, TypeOK
<1>2. fromMaster'[w] = Tail(fromMaster[w]) /\ \A v \in Worlds \ {w} : fromMaster'[v] = fromMaster[v]
  BY <1>1
<1>3. \A i \in DOMAIN fromMaster'[w] :
        i \in Nat /\ i + 1 \in DOMAIN fromMaster[w] /\ fromMaster'[w][i] = fromMaster[w][i + 1]
  BY <1>1, <1>2, TailType
<1>4. fromMaster' \in [Worlds -> Seq(Message)]
  <2>1. Tail(fromMaster[w]) \in Seq(Message)
    BY <1>1, TailType
  <2>2. QED BY <1>1, <2>1
<1>5. AnswersFollowed'
  <2> SUFFICES ASSUME NEW v \in Worlds, NEW i \in DOMAIN fromMaster'[v],
                      fromMaster'[v][i].type = "response",
                      fromMaster'[v][i].key # activeSessions[fromMaster'[v][i].account]
               PROVE  Announced(fromMaster'[v], fromMaster'[v][i].account, i)
    BY DEF AnswersFollowed
  <2>1. CASE v = w
    <3>1. i \in Nat /\ i + 1 \in DOMAIN fromMaster[w] /\ fromMaster'[w][i] = fromMaster[w][i + 1]
      BY <1>3, <2>1
    <3>2. Announced(fromMaster[w], fromMaster[w][i + 1].account, i + 1)
      BY <2>1, <3>1 DEF SessionsInv, AnswersFollowed
    <3>3. Announced(Tail(fromMaster[w]), fromMaster[w][i + 1].account, i)
      BY <1>1, <3>1, <3>2, TailKeeps
    <3>4. QED BY <1>2, <2>1, <3>1, <3>3
  <2>2. CASE v # w
    <3>1. fromMaster'[v] = fromMaster[v]
      BY <1>2, <2>2
    <3>2. QED BY <3>1 DEF SessionsInv, AnswersFollowed
  <2>3. QED BY <2>1, <2>2
<1>6. \A v \in Worlds : \A i \in DOMAIN fromMaster'[v] :
        fromMaster'[v][i].type = "response" => activeSessions[fromMaster'[v][i].account] # 0
  BY <1>2, <1>3 DEF SessionsInv, SessionsExist
<1>7. ASSUME NEW v \in Worlds, NEW b \in Accounts, Announced(fromMaster[v], b, 0),
             ~(v = w /\ Head(fromMaster[w]).type = "alert" /\ Head(fromMaster[w]).account = b)
      PROVE  Announced(fromMaster'[v], b, 0)
  <2>1. CASE v = w
    <3>1. Announced(Tail(fromMaster[w]), b, 0)
      BY <1>1, <1>7, <2>1, TailKeeps
    <3>2. QED BY <1>2, <2>1, <3>1
  <2>2. CASE v # w
    BY <1>2, <1>7, <2>2
  <2>3. QED BY <2>1, <2>2
<1>8. QED BY <1>4, <1>5, <1>6, <1>7

\* An answer lets in the client that waits, or ends its connection.
LEMMA ResponseStep ==
  ASSUME SessionsInv, NEW w \in Worlds, SessionKeyResponse(w)
  PROVE  SessionsInv'
<1> USE DEF SessionsInv
<1> DEFINE m == Head(fromMaster[w])
           entry == g_PendingUsers[w][m.account]
<1>1. /\ fromMaster[w] # <<>> /\ m.type = "response"
      /\ fromMaster' = [fromMaster EXCEPT ![w] = Tail(@)]
      /\ UNCHANGED <<logins, key, activeSessions, setKey, requests, early, overlooked>>
  BY DEF SessionKeyResponse, master
<1>2. /\ fromMaster' \in [Worlds -> Seq(Message)] /\ AnswersFollowed'
      /\ \A v \in Worlds : \A i \in DOMAIN fromMaster'[v] :
           fromMaster'[v][i].type = "response" => activeSessions[fromMaster'[v][i].account] # 0
      /\ \A v \in Worlds, b \in Accounts :
           Announced(fromMaster[v], b, 0) => Announced(fromMaster'[v], b, 0)
  BY <1>1, HandledKeeps
<1>3. m \in Message /\ m.account \in Accounts /\ m.key \in Keys /\ 1 \in DOMAIN fromMaster[w]
      /\ fromMaster[w][1] = m
  <2>1. fromMaster[w] \in Seq(Message)
    BY DEF TypeOK
  <2>2. 1 \in DOMAIN fromMaster[w] /\ fromMaster[w][1] = m
    BY <1>1, <2>1
  <2>3. QED BY <2>1, <2>2, MessageType
<1>4. entry \in {Nobody} \cup Entry
  BY <1>3 DEF TypeOK
<1>5. \A d \in Clients : AccountOf[d] \in Accounts
  BY SessionConstants
<1>6. CASE entry = Nobody /\ UNCHANGED <<connected, closed, g_PendingUsers, m_Users>>
  <2>1. TypeOK'
    BY <1>1, <1>2, <1>6 DEF TypeOK
  <2>2. SingleSession'
    BY <1>1, <1>2, <1>5, <1>6 DEF SingleSession, TypeOK
  <2>3. SessionsExist'
    BY <1>1, <1>2, <1>6 DEF SessionsExist
  <2>4. UsersHaveConnections' /\ PendingMatch'
    BY <1>6 DEF UsersHaveConnections, PendingMatch
  <2>5. QED BY <1>2, <2>1, <2>2, <2>3, <2>4
<1>7. CASE entry # Nobody /\ m.key # entry.hash /\ KeyMismatch(entry.client, w)
  <2>1. Close(entry.client, w) /\ UNCHANGED <<g_PendingUsers, m_Users>>
    BY <1>7 DEF KeyMismatch
  <2>2. /\ connected' \in [Worlds -> SUBSET Clients] /\ closed' \in [Worlds -> SUBSET Clients]
        /\ \A v \in Worlds : /\ connected'[v] \subseteq connected[v]
                             /\ connected'[v] \cup closed'[v] = connected[v] \cup closed[v]
    BY <2>1, CloseKeeps
  <2>3. TypeOK'
    BY <1>1, <1>2, <2>1, <2>2 DEF TypeOK
  <2>4. SingleSession'
    BY <1>1, <1>2, <1>5, <2>1, <2>2 DEF SingleSession, TypeOK
  <2>5. SessionsExist'
    BY <1>1, <1>2, <2>1 DEF SessionsExist
  <2>6. UsersHaveConnections' /\ PendingMatch'
    BY <2>1, <2>2 DEF UsersHaveConnections, PendingMatch
  <2>7. QED BY <1>2, <2>3, <2>4, <2>5, <2>6
<1>8. CASE /\ entry # Nobody /\ m.key = entry.hash
           /\ CreateUser(entry.client, w, entry.hash)
           /\ g_PendingUsers' = [g_PendingUsers EXCEPT ![w][m.account] = Nobody]
           /\ UNCHANGED <<connected, closed>>
  <2> DEFINE c == entry.client
  <2>1. c \in Clients /\ entry.hash \in 0..MaxLogins
    <3> HIDE DEF entry
    <3>1. entry \in Entry
      BY <1>4, <1>8
    <3>2. entry.client \in Clients /\ entry.hash \in Keys
      BY <3>1 DEF Entry
    <3>3. Keys \subseteq 0..MaxLogins
      BY SessionConstants DEF Keys
    <3>4. QED BY <3>2, <3>3
  <2>2. AccountOf[c] = m.account
    BY <1>3, <1>8 DEF PendingMatch
  <2>3. g_PendingUsers \in [Worlds -> [Accounts -> {Nobody} \cup Entry]]
        /\ m_Users \in [Worlds -> [Clients -> 0..MaxLogins]]
    BY DEF TypeOK
  <2>4. m_Users' = IF c \in connected[w] THEN [m_Users EXCEPT ![w][c] = entry.hash] ELSE m_Users
    BY <1>8 DEF CreateUser
  <2> HIDE DEF c, m, entry
  <2>5. g_PendingUsers' \in [Worlds -> [Accounts -> {Nobody} \cup Entry]]
    BY <1>3, <1>8, <2>3
  <2>6. m_Users' \in [Worlds -> [Clients -> 0..MaxLogins]]
    BY <2>1, <2>3, <2>4
  <2>7. \A v \in Worlds, d \in Clients :
          \/ m_Users'[v][d] = m_Users[v][d]
          \/ v = w /\ d = c /\ c \in connected[w] /\ m_Users'[v][d] = m.key
    BY <1>8, <2>1, <2>3, <2>4
  <2>8. TypeOK'
    BY <1>1, <1>2, <1>8, <2>5, <2>6 DEF TypeOK
  <2>9. UsersHaveConnections'
    BY <1>8, <2>7 DEF UsersHaveConnections
  <2>10. SingleSession'
    <3> SUFFICES ASSUME NEW v \in Worlds, NEW d \in connected[v],
                        m_Users'[v][d] \notin {0, activeSessions[AccountOf[d]]}
                 PROVE  <<d, v>> \in overlooked \/ Announced(fromMaster'[v], AccountOf[d], 0)
      BY <1>1, <1>8 DEF SingleSession
    <3>1. d \in Clients
      BY DEF TypeOK
    <3>2. CASE m_Users'[v][d] = m_Users[v][d]
      BY <1>2, <1>5, <3>1, <3>2 DEF SingleSession
    <3>3. CASE v = w /\ d = c /\ m_Users'[v][d] = m.key
      <4>1. m.key # activeSessions[m.account]
        BY <2>2, <3>3
      <4>2. Announced(fromMaster[w], m.account, 1)
        BY <1>1, <1>3, <4>1 DEF AnswersFollowed
      <4>3. Announced(fromMaster[w], m.account, 0)
        BY <4>2, <1>3 DEF Announced, TypeOK
      <4>4. QED BY <1>2, <1>3, <2>2, <3>3, <4>3
    <3>4. QED BY <2>7, <3>1, <3>2, <3>3
  <2>11. SessionsExist'
    <3>1. activeSessions[m.account] # 0
      BY <1>1, <1>3 DEF SessionsExist
    <3>2. \A v \in Worlds, d \in Clients : m_Users'[v][d] # 0 => activeSessions[AccountOf[d]] # 0
      BY <2>2, <2>7, <3>1 DEF SessionsExist
    <3>3. QED BY <1>1, <1>2, <3>2 DEF SessionsExist
  <2>12. PendingMatch'
    <3>1. \A v \in Worlds, b \in Accounts :
            g_PendingUsers'[v][b] # Nobody => g_PendingUsers'[v][b] = g_PendingUsers[v][b]
      BY <1>3, <1>8, <2>3
    <3>2. QED BY <3>1 DEF PendingMatch
  <2>13. QED BY <1>2, <2>8, <2>9, <2>10, <2>11, <2>12
<1>9. QED BY <1>6, <1>7, <1>8 DEF SessionKeyResponse, world

\* An alert ends the connection of the first user of the account; the others
\* are overlooked.
LEMMA AlertStep ==
  ASSUME SessionsInv, NEW w \in Worlds, NewSessionAlert(w)
  PROVE  SessionsInv'
<1> USE DEF SessionsInv
<1> DEFINE m == Head(fromMaster[w])
           a == m.account
<1>1. /\ fromMaster[w] # <<>> /\ m.type = "alert"
      /\ fromMaster' = [fromMaster EXCEPT ![w] = Tail(@)]
      /\ UNCHANGED <<logins, key, activeSessions, setKey, requests, g_PendingUsers, m_Users, early>>
  BY DEF NewSessionAlert, master
<1>2. /\ fromMaster' \in [Worlds -> Seq(Message)] /\ AnswersFollowed'
      /\ \A v \in Worlds : \A i \in DOMAIN fromMaster'[v] :
           fromMaster'[v][i].type = "response" => activeSessions[fromMaster'[v][i].account] # 0
      /\ \A v \in Worlds, b \in Accounts :
           Announced(fromMaster[v], b, 0) /\ ~(v = w /\ b = a) => Announced(fromMaster'[v], b, 0)
  BY <1>1, HandledKeeps
<1>3. /\ connected' \in [Worlds -> SUBSET Clients] /\ closed' \in [Worlds -> SUBSET Clients]
      /\ \A v \in Worlds : /\ connected'[v] \subseteq connected[v]
                           /\ connected'[v] \cup closed'[v] = connected[v] \cup closed[v]
      /\ overlooked' \subseteq Clients \X Worlds /\ overlooked \subseteq overlooked'
      /\ \A d \in UsersOf(a, w) : d \notin connected'[w] \/ <<d, w>> \in overlooked'
  <2>1. CASE UsersOf(a, w) = {} /\ UNCHANGED <<connected, closed, overlooked>>
    BY <2>1 DEF TypeOK
  <2>2. CASE /\ UsersOf(a, w) # {} /\ AlertFound(a, w)
             /\ overlooked' = overlooked \cup ((UsersOf(a, w) \ {GetUser(a, w)}) \X {w})
    <3>1. GetUser(a, w) \in UsersOf(a, w) /\ UsersOf(a, w) \subseteq Clients
      BY <2>2, GetUserIsUser DEF UsersOf
    <3>2. Close(GetUser(a, w), w)
      BY <2>2 DEF AlertFound
    <3>3. /\ connected' \in [Worlds -> SUBSET Clients] /\ closed' \in [Worlds -> SUBSET Clients]
          /\ \A v \in Worlds : /\ connected'[v] \subseteq connected[v]
                               /\ connected'[v] \cup closed'[v] = connected[v] \cup closed[v]
          /\ GetUser(a, w) \notin connected'[w]
      BY <3>2, CloseKeeps
    <3>4. overlooked' \subseteq Clients \X Worlds /\ overlooked \subseteq overlooked'
      BY <2>2, <3>1 DEF TypeOK
    <3>5. \A d \in UsersOf(a, w) : d \notin connected'[w] \/ <<d, w>> \in overlooked'
      BY <2>2, <3>3
    <3>6. QED BY <3>3, <3>4, <3>5
  <2>3. QED BY <2>1, <2>2 DEF NewSessionAlert
<1>4. \A d \in Clients : AccountOf[d] \in Accounts
  BY SessionConstants
<1>5. TypeOK'
  BY <1>1, <1>2, <1>3 DEF TypeOK
<1>6. SingleSession'
  <2> SUFFICES ASSUME NEW v \in Worlds, NEW d \in connected'[v],
                      m_Users[v][d] \notin {0, activeSessions[AccountOf[d]]},
                      <<d, v>> \notin overlooked'
               PROVE  Announced(fromMaster'[v], AccountOf[d], 0)
    BY <1>1 DEF SingleSession
  <2>1. d \in Clients /\ d \in connected[v] /\ <<d, v>> \notin overlooked
    BY <1>3
  <2>2. Announced(fromMaster[v], AccountOf[d], 0)
    BY <2>1 DEF SingleSession
  <2>3. ~(v = w /\ AccountOf[d] = a)
    BY <1>3, <2>1 DEF UsersOf
  <2>4. QED BY <1>2, <1>4, <2>1, <2>2, <2>3
<1>7. UsersHaveConnections' /\ PendingMatch'
  BY <1>1, <1>3 DEF UsersHaveConnections, PendingMatch
<1>8. SessionsExist'
  BY <1>1, <1>2 DEF SessionsExist
<1>9. QED BY <1>2, <1>5, <1>6, <1>7, <1>8

LEMMA NextHolds == SessionsInv /\ [Next]_vars => SessionsInv'
<1> SUFFICES ASSUME SessionsInv, [Next]_vars PROVE SessionsInv'
  OBVIOUS
<1>1. CASE Next
  BY <1>1, LoginStep, SetKeyStep, RequestStep, ResponseStep, AlertStep, ValidateStep, EndsStep,
     DisconnectionStep DEF Next
<1>2. CASE UNCHANGED vars
  <2>1. UNCHANGED <<logins, key, setKey, requests, early>>
        /\ UNCHANGED <<activeSessions, fromMaster, world, overlooked>>
    BY <1>2 DEF vars, master
  <2>2. TypeOK'
    BY <2>1 DEF SessionsInv, TypeOK, world
  <2>3. QED BY <2>1, <2>2, WorldsStay
<1>3. QED BY <1>1, <1>2

\* The inductive invariant of sessions.
THEOREM SessionsInvariant == Spec => []SessionsInv
BY InitHolds, NextHolds, PTL DEF Spec

\* Every variable keeps its type: no answer and no user has a key that was not
\* handed out.
THEOREM TypeCorrect == Spec => []TypeOK
<1>1. SessionsInv => TypeOK
  BY DEF SessionsInv
<1>2. QED BY <1>1, SessionsInvariant, PTL

\* A user with an older key is about to be told to go, unless an alert missed
\* it, in however many worlds its account is.
THEOREM OlderUsersAreTold == Spec => []SingleSession
<1>1. SessionsInv => SingleSession
  BY DEF SessionsInv
<1>2. QED BY <1>1, SessionsInvariant, PTL

\* No user outlives its connection unnoticed.
THEOREM NoUserIsLeft == Spec => []UsersHaveConnections
<1>1. SessionsInv => UsersHaveConnections
  BY DEF SessionsInv
<1>2. QED BY <1>1, SessionsInvariant, PTL

-----------------------------------------------------------------------------
(***************************************************************************)
(* Who holds the newest key.  A key on its way to the master is newer than *)
(* all that has come through; so a connected client whose key the master   *)
(* has had since the client came is answered with that key.                *)
(***************************************************************************)

\* The master and the worlds have older keys only.
Newer(k) ==
  /\ \A a \in Accounts : activeSessions[a] < k
  /\ \A w \in Worlds : \A i \in DOMAIN fromMaster[w] :
       fromMaster[w][i].type = "response" => fromMaster[w][i].key < k
  /\ \A w \in Worlds, c \in Clients : m_Users[w][c] < k

Coming(k) == k > logins \/ \E i \in DOMAIN setKey : setKey[i].key = k

KeysAscend ==
  /\ \A k \in 1..MaxLogins + 1 : Coming(k) => Newer(k)
  /\ \A c \in Clients : key[c] <= logins
  /\ \A i \in DOMAIN setKey :
       /\ setKey[i].key <= logins
       /\ \A j \in DOMAIN setKey : i < j => setKey[i].key < setKey[j].key

\* Nothing with the newest key of an account is followed by an alert.
NewestNotAnnounced ==
  \A w \in Worlds :
    /\ \A i \in DOMAIN fromMaster[w] :
         LET m == fromMaster[w][i] IN
         m.type = "response" /\ m.key = activeSessions[m.account] =>
           ~ Announced(fromMaster[w], m.account, i)
    /\ \A c \in Clients :
         m_Users[w][c] # 0 /\ m_Users[w][c] = activeSessions[AccountOf[c]] =>
           ~ Announced(fromMaster[w], AccountOf[c], 0)

\* The world has asked for the account and will hear the key k, if k is the newest.
WillHear(w, a, k) ==
  \/ \E i \in DOMAIN requests[w] : requests[w][i] = a
  \/ \E i \in DOMAIN fromMaster[w] : fromMaster[w][i] = [type |-> "response", key |-> k, account |-> a]

\* What holds of a client with a connection: its user and its entry have its key,
\* and a key that had reached the master is one that the world will hear.
KeyHeld(c, w) ==
  LET a == AccountOf[c] IN
  /\ c \notin closed[w] /\ key[c] # 0 /\ m_Users[w][c] \in {0, key[c]}
  /\ g_PendingUsers[w][a].client = c => g_PendingUsers[w][a].hash = key[c]
  /\ <<c, w>> \notin early =>
       /\ \A i \in DOMAIN setKey : setKey[i].key # key[c]
       /\ g_PendingUsers[w][a].client = c /\ activeSessions[a] = key[c] =>
            WillHear(w, a, key[c])

KeysHeld == \A w \in Worlds : \A c \in connected[w] : KeyHeld(c, w)

NewestInv == SessionsInv /\ KeysAscend /\ NewestNotAnnounced /\ KeysHeld

(***************************************************************************)
(* Messages once more                                                      *)
(***************************************************************************)
\* Only an alert for the account announces anything to it.
LEMMA AppendSilent ==
  ASSUME NEW s \in Seq(Message), NEW m \in Message, NEW a, NEW i \in Nat,
         ~ (m.type = "alert" /\ m.account = a), Announced(Append(s, m), a, i)
  PROVE  Announced(s, a, i)
<1>1. PICK j \in DOMAIN Append(s, m) :
        j > i /\ Append(s, m)[j].type = "alert" /\ Append(s, m)[j].account = a
  BY DEF Announced
<1>2. j \in DOMAIN s /\ Append(s, m)[j] = s[j]
  BY <1>1, AppendType
<1>3. QED BY <1>1, <1>2 DEF Announced

\* What is announced once the first message is gone was announced before.
LEMMA TailSilent ==
  ASSUME NEW s \in Seq(Message), s # <<>>, NEW a, NEW i \in Nat, Announced(Tail(s), a, i)
  PROVE  Announced(s, a, i + 1) /\ Announced(s, a, i)
<1>1. PICK j \in DOMAIN Tail(s) : j > i /\ Tail(s)[j].type = "alert" /\ Tail(s)[j].account = a
  BY DEF Announced
<1>2. j \in Nat /\ j + 1 \in DOMAIN s /\ Tail(s)[j] = s[j + 1]
  BY TailType
<1>3. j + 1 > i + 1 /\ j + 1 > i
  BY <1>1, <1>2
<1>4. QED BY <1>1, <1>2, <1>3 DEF Announced

\* Where the entries of a queue are once its first is gone.
LEMMA QueueRest ==
  ASSUME NEW R, NEW s \in Seq(R), s # <<>>
  PROVE  /\ \A i \in DOMAIN s : (i = 1 /\ s[i] = Head(s)) \/ (i - 1 \in DOMAIN Tail(s) /\ Tail(s)[i - 1] = s[i])
         /\ \A i \in DOMAIN Tail(s) : i \in Nat \ {0} /\ i + 1 \in DOMAIN s /\ Tail(s)[i] = s[i + 1]
         /\ 1 \in DOMAIN s /\ s[1] = Head(s)
<1>1. /\ DOMAIN s = 1..Len(s) /\ Len(s) \in Nat \ {0}
      /\ DOMAIN Tail(s) = 1..(Len(s) - 1) /\ Head(s) = s[1]
      /\ \A j \in DOMAIN Tail(s) : Tail(s)[j] = s[j + 1]
  OBVIOUS
<1>2. \A i \in DOMAIN s : i = 1 \/ (i - 1 \in DOMAIN Tail(s) /\ (i - 1) + 1 = i)
  BY <1>1
<1>3. \A i \in DOMAIN Tail(s) : i \in Nat \ {0} /\ i + 1 \in DOMAIN s
  BY <1>1
<1>4. \A i \in DOMAIN s : i - 1 \in DOMAIN Tail(s) /\ (i - 1) + 1 = i => Tail(s)[i - 1] = s[i]
  <2> SUFFICES ASSUME NEW i \in DOMAIN s, i - 1 \in DOMAIN Tail(s), (i - 1) + 1 = i
               PROVE  Tail(s)[i - 1] = s[i]
    OBVIOUS
  <2>1. PICK j \in DOMAIN Tail(s) : j = i - 1
    OBVIOUS
  <2>2. Tail(s)[j] = s[j + 1]
    BY <1>1
  <2>3. QED BY <2>1, <2>2
<1>5. \A i \in DOMAIN s :
        (i = 1 /\ s[i] = Head(s)) \/ (i - 1 \in DOMAIN Tail(s) /\ Tail(s)[i - 1] = s[i])
  BY <1>1, <1>2, <1>4
<1>6. QED BY <1>1, <1>3, <1>5

\* What an entry of a queue is.
LEMMA QueueEntry ==
  ASSUME NEW R, NEW s \in Seq(R), NEW i \in DOMAIN s
  PROVE  s[i] \in R /\ i \in Nat /\ i <= Len(s) /\ Len(s) \in Nat
OBVIOUS

\* Where they are once another has come.
LEMMA QueueMore ==
  ASSUME NEW R, NEW s \in Seq(R), NEW m \in R
  PROVE  /\ \A i \in DOMAIN s : i \in Nat /\ i <= Len(s) /\ i \in DOMAIN Append(s, m) /\ Append(s, m)[i] = s[i]
         /\ \A i \in DOMAIN Append(s, m) :
              (i \in DOMAIN s /\ Append(s, m)[i] = s[i]) \/ (i = Len(s) + 1 /\ Append(s, m)[i] = m)
         /\ Len(s) + 1 \in DOMAIN Append(s, m) /\ Append(s, m)[Len(s) + 1] = m
OBVIOUS

(***************************************************************************)
(* The steps once more                                                     *)
(***************************************************************************)
\* Nothing is handed out at first.
LEMMA NewestInit == Init => KeysAscend /\ NewestNotAnnounced /\ KeysHeld
<1> SUFFICES ASSUME Init PROVE KeysAscend /\ NewestNotAnnounced /\ KeysHeld
  OBVIOUS
<1>1. KeysAscend
  BY SessionConstants DEF Init, KeysAscend, Coming, Newer
<1>2. NewestNotAnnounced /\ KeysHeld
  BY SessionConstants DEF Init, NewestNotAnnounced, KeysHeld
<1>3. QED BY <1>1, <1>2

\* Steps that hand out no key and take none from the way to the master.
LEMMA AscendKeeps ==
  ASSUME KeysAscend, UNCHANGED <<logins, key, setKey>>,
         \A k \in 1..MaxLogins + 1 : Newer(k) => Newer(k)'
  PROVE  KeysAscend'
BY DEF KeysAscend, Coming

\* The keys on their way are numbers.
LEMMA SetKeyTypes ==
  ASSUME TypeOK
  PROVE  /\ \A i \in DOMAIN setKey :
              /\ i \in Nat /\ i <= Len(setKey) /\ Len(setKey) \in Nat
              /\ setKey[i].key \in Nat /\ setKey[i].key \in 1..MaxLogins /\ setKey[i].account \in Accounts
         /\ logins \in Nat /\ logins <= MaxLogins /\ MaxLogins \in Nat
<1>1. setKey \in Seq([key : Keys, account : Accounts])
  BY DEF TypeOK
<1>2. ASSUME NEW i \in DOMAIN setKey
      PROVE  /\ i \in Nat /\ i <= Len(setKey) /\ Len(setKey) \in Nat
             /\ setKey[i] \in [key : Keys, account : Accounts]
  <2> DEFINE R == [key : Keys, account : Accounts]
  <2>1. setKey \in Seq(R)
    BY <1>1
  <2> HIDE DEF R
  <2>2. setKey[i] \in R /\ i \in Nat /\ i <= Len(setKey) /\ Len(setKey) \in Nat
    BY <2>1, QueueEntry
  <2>3. QED BY <2>2 DEF R
<1>3. \A e \in [key : Keys, account : Accounts] :
        e.key \in Nat /\ e.key \in 1..MaxLogins /\ e.account \in Accounts
  BY SessionConstants DEF Keys
<1>4. logins \in Nat /\ logins <= MaxLogins /\ MaxLogins \in Nat
  BY SessionConstants DEF TypeOK
<1>5. QED BY <1>2, <1>3, <1>4

\* A new key is newer than all others, and held by a client that is nowhere connected.
LEMMA LoginNewest ==
  ASSUME NewestInv, NEW c \in Clients, Login(c)
  PROVE  KeysAscend' /\ NewestNotAnnounced' /\ KeysHeld'
<1>1. /\ logins < MaxLogins /\ logins' = logins + 1 /\ \A w \in Worlds : c \notin connected[w]
      /\ key' = [key EXCEPT ![c] = logins + 1]
      /\ setKey' = Append(setKey, [key |-> logins + 1, account |-> AccountOf[c]])
      /\ UNCHANGED <<activeSessions, requests, fromMaster, connected, closed, g_PendingUsers,
                     m_Users, early, overlooked>>
  BY DEF Login, world
<1>2. /\ logins \in 0..MaxLogins /\ MaxLogins \in Nat /\ AccountOf[c] \in Accounts
      /\ key \in [Clients -> 0..MaxLogins] /\ setKey \in Seq([key : Keys, account : Accounts])
      /\ connected \in [Worlds -> SUBSET Clients]
  BY SessionConstants DEF NewestInv, SessionsInv, TypeOK
<1> DEFINE e == [key |-> logins + 1, account |-> AccountOf[c]]
<1>3. e \in [key : Keys, account : Accounts] /\ e.key = logins + 1
  BY <1>1, <1>2 DEF Keys
<1>4. setKey' = Append(setKey, e)
  BY <1>1
<1> HIDE DEF e
<1>5. \A i \in DOMAIN setKey' :
        (i \in DOMAIN setKey /\ setKey'[i] = setKey[i]) \/ (i = Len(setKey) + 1 /\ setKey'[i] = e)
  BY <1>2, <1>3, <1>4, QueueMore
<1>6. \A i \in DOMAIN setKey : i \in Nat /\ i <= Len(setKey) /\ setKey[i].key \in Nat /\ Len(setKey) \in Nat
  BY SetKeyTypes DEF NewestInv, SessionsInv
<1>7. \A k \in 1..MaxLogins + 1 : Coming(k)' => Coming(k)
  BY <1>1, <1>2, <1>3, <1>5 DEF Coming
<1>8. \A k \in 1..MaxLogins + 1 : Newer(k) => Newer(k)'
  BY <1>1 DEF Newer
<1>9. \A d \in Clients : key'[d] <= logins'
  BY <1>1, <1>2 DEF NewestInv, KeysAscend
<1>10. \A i \in DOMAIN setKey' :
         /\ setKey'[i].key <= logins'
         /\ \A j \in DOMAIN setKey' : i < j => setKey'[i].key < setKey'[j].key
  <2>1. \A i \in DOMAIN setKey :
          setKey[i].key <= logins /\ \A j \in DOMAIN setKey : i < j => setKey[i].key < setKey[j].key
    BY DEF NewestInv, KeysAscend
  <2>2. QED BY <1>1, <1>2, <1>3, <1>5, <1>6, <2>1
<1>11. KeysAscend'
  BY <1>7, <1>8, <1>9, <1>10 DEF NewestInv, KeysAscend
<1>12. NewestNotAnnounced'
  BY <1>1 DEF NewestInv, NewestNotAnnounced
<1>13. KeysHeld'
  <2> SUFFICES ASSUME NEW w \in Worlds, NEW d \in connected[w] PROVE KeyHeld(d, w)'
    BY <1>1 DEF KeysHeld
  <2>1. d \in Clients /\ d # c /\ key'[d] = key[d] /\ key[d] <= logins /\ key[d] \in Nat
    BY <1>1, <1>2 DEF NewestInv, KeysAscend
  <2>2. KeyHeld(d, w)
    BY DEF NewestInv, KeysHeld
  <2>3. (\A i \in DOMAIN setKey : setKey[i].key # key[d])
          => (\A i \in DOMAIN setKey' : setKey'[i].key # key'[d])
    BY <1>2, <1>3, <1>5, <2>1
  <2>4. WillHear(w, AccountOf[d], key[d]) => WillHear(w, AccountOf[d], key[d])'
    BY <1>1, <2>1 DEF WillHear
  <2>5. QED BY <1>1, <2>1, <2>2, <2>3, <2>4 DEF KeyHeld
<1>14. QED BY <1>11, <1>12, <1>13

\* The master takes a key: it is newer than what it had, so nothing has it yet.
LEMMA SetKeyNewest ==
  ASSUME NewestInv, SetSessionKey
  PROVE  KeysAscend' /\ NewestNotAnnounced' /\ KeysHeld'
<1> DEFINE a == Head(setKey).account
           k == Head(setKey).key
           alert == [type |-> "alert", key |-> k, account |-> a]
<1>1. /\ setKey # <<>> /\ setKey' = Tail(setKey)
      /\ fromMaster' = IF activeSessions[a] # 0 THEN [w \in Worlds |-> Append(fromMaster[w], alert)]
                                                ELSE fromMaster
      /\ activeSessions' = [activeSessions EXCEPT ![a] = k]
      /\ UNCHANGED <<logins, key, requests, connected, closed, g_PendingUsers, m_Users, early,
                     overlooked>>
  BY DEF SetSessionKey, Send, world
<1>2. /\ setKey \in Seq([key : Keys, account : Accounts]) /\ fromMaster \in [Worlds -> Seq(Message)]
      /\ activeSessions \in [Accounts -> 0..MaxLogins] /\ connected \in [Worlds -> SUBSET Clients]
      /\ m_Users \in [Worlds -> [Clients -> 0..MaxLogins]] /\ key \in [Clients -> 0..MaxLogins]
  BY DEF NewestInv, SessionsInv, TypeOK
<1>3. /\ 1 \in DOMAIN setKey /\ setKey[1].key = k /\ setKey[1].account = a
      /\ \A i \in DOMAIN setKey' : i \in Nat \ {0} /\ i + 1 \in DOMAIN setKey /\ setKey'[i] = setKey[i + 1]
  BY <1>1, <1>2, QueueRest
<1>4. /\ logins \in Nat /\ MaxLogins \in Nat /\ logins <= MaxLogins
      /\ k \in Nat /\ k \in 1..MaxLogins /\ a \in Accounts
  BY <1>3, SetKeyTypes DEF NewestInv, SessionsInv
<1>5. alert \in Message
  BY <1>4 DEF Message, Keys
<1>6. alert.type = "alert" /\ alert.account = a
  OBVIOUS
<1> HIDE DEF a, k, alert
<1>7. \A b \in Accounts : activeSessions'[b] = IF b = a THEN k ELSE activeSessions[b]
  BY <1>1, <1>2, <1>4
<1>8. Newer(k) /\ k <= logins
  BY <1>3, <1>4 DEF NewestInv, KeysAscend, Coming
\* Answers are where they were.
<1>9. ASSUME NEW w \in Worlds
      PROVE  /\ fromMaster[w] \in Seq(Message)
             /\ fromMaster'[w] = fromMaster[w] \/ fromMaster'[w] = Append(fromMaster[w], alert)
             /\ \A i \in DOMAIN fromMaster[w] :
                  i \in Nat /\ i \in DOMAIN fromMaster'[w] /\ fromMaster'[w][i] = fromMaster[w][i]
             /\ \A i \in DOMAIN fromMaster'[w] : fromMaster'[w][i].type = "response" =>
                  i \in DOMAIN fromMaster[w] /\ fromMaster'[w][i] = fromMaster[w][i]
             /\ \A b, i : b # a /\ i \in Nat /\ Announced(fromMaster'[w], b, i) => Announced(fromMaster[w], b, i)
  <2>1. fromMaster[w] \in Seq(Message)
    BY <1>2
  <2>2. fromMaster'[w] = fromMaster[w] \/ fromMaster'[w] = Append(fromMaster[w], alert)
    BY <1>1
  <2>3. \A i \in DOMAIN fromMaster[w] :
          i \in Nat /\ i \in DOMAIN fromMaster'[w] /\ fromMaster'[w][i] = fromMaster[w][i]
    BY <1>5, <2>1, <2>2, QueueMore
  <2>4. \A i \in DOMAIN fromMaster'[w] : fromMaster'[w][i].type = "response" =>
          i \in DOMAIN fromMaster[w] /\ fromMaster'[w][i] = fromMaster[w][i]
    BY <1>5, <1>6, <2>1, <2>2, QueueMore
  <2>5. \A b, i : b # a /\ i \in Nat /\ Announced(fromMaster'[w], b, i) => Announced(fromMaster[w], b, i)
    BY <1>5, <1>6, <2>1, <2>2, AppendSilent
  <2>6. QED BY <2>1, <2>2, <2>3, <2>4, <2>5
<1>10. KeysAscend'
  <2>1. ASSUME NEW n \in 1..MaxLogins + 1, Coming(n)'
        PROVE  Coming(n) /\ k < n
    <3>1. CASE n > logins'
      BY <1>1, <1>4, <1>8, <3>1 DEF Coming
    <3>2. CASE \E i \in DOMAIN setKey' : setKey'[i].key = n
      <4>1. PICK i \in DOMAIN setKey' : setKey'[i].key = n
        BY <3>2
      <4>2. i \in Nat \ {0} /\ i + 1 \in DOMAIN setKey /\ setKey[i + 1].key = n
        BY <1>3, <4>1
      <4>3. 1 < i + 1
        BY <4>2
      <4>4. k < n
        BY <1>3, <4>2, <4>3 DEF NewestInv, KeysAscend
      <4>5. QED BY <4>2, <4>4 DEF Coming
    <3>3. QED BY <2>1, <3>1, <3>2 DEF Coming
  <2>2. ASSUME NEW n \in 1..MaxLogins + 1, Coming(n)'
        PROVE  Newer(n)'
    <3>1. Newer(n) /\ k < n
      BY <2>1, <2>2 DEF NewestInv, KeysAscend
    <3>2. \A b \in Accounts : activeSessions'[b] < n
      BY <1>7, <3>1 DEF Newer
    <3>3. \A w \in Worlds : \A i \in DOMAIN fromMaster'[w] :
            fromMaster'[w][i].type = "response" => fromMaster'[w][i].key < n
      BY <1>9, <3>1 DEF Newer
    <3>4. QED BY <1>1, <3>1, <3>2, <3>3 DEF Newer
  <2>3. \A i \in DOMAIN setKey' :
          /\ setKey'[i].key <= logins'
          /\ \A j \in DOMAIN setKey' : i < j => setKey'[i].key < setKey'[j].key
    BY <1>1, <1>3 DEF NewestInv, KeysAscend
  <2>4. \A c \in Clients : key'[c] <= logins'
    BY <1>1 DEF NewestInv, KeysAscend
  <2>5. QED BY <2>2, <2>3, <2>4 DEF KeysAscend
<1>11. NewestNotAnnounced'
  <2>1. ASSUME NEW w \in Worlds, NEW i \in DOMAIN fromMaster'[w],
               fromMaster'[w][i].type = "response",
               fromMaster'[w][i].key = activeSessions'[fromMaster'[w][i].account]
        PROVE  ~ Announced(fromMaster'[w], fromMaster'[w][i].account, i)
    <3> DEFINE m == fromMaster[w][i]
    <3>1. i \in DOMAIN fromMaster[w] /\ fromMaster'[w][i] = m /\ i \in Nat /\ m.account \in Accounts
      BY <1>9, <2>1, MessageType
    <3>2. m.type = "response" /\ m.key < k /\ m.key \in Nat
      BY <1>4, <1>8, <1>9, <2>1, <3>1, MessageType DEF Newer, Keys
    <3>3. m.account # a
      BY <1>4, <1>7, <2>1, <3>1, <3>2
    <3>4. m.key = activeSessions[m.account]
      BY <1>7, <2>1, <3>1, <3>3
    <3>5. ~ Announced(fromMaster[w], m.account, i)
      BY <3>1, <3>2, <3>4 DEF NewestInv, NewestNotAnnounced
    <3>6. QED BY <1>9, <3>1, <3>3, <3>5
  <2>2. ASSUME NEW w \in Worlds, NEW c \in Clients, m_Users'[w][c] # 0,
               m_Users'[w][c] = activeSessions'[AccountOf[c]]
        PROVE  ~ Announced(fromMaster'[w], AccountOf[c], 0)
    <3>1. m_Users[w][c] # 0 /\ m_Users[w][c] < k /\ m_Users[w][c] \in Nat /\ AccountOf[c] \in Accounts
          /\ m_Users[w][c] = activeSessions'[AccountOf[c]]
      BY <1>1, <1>2, <1>4, <1>8, <2>2, SessionConstants DEF Newer
    <3>2. AccountOf[c] # a
      BY <1>4, <1>7, <3>1
    <3>3. ~ Announced(fromMaster[w], AccountOf[c], 0)
      BY <1>7, <3>1, <3>2 DEF NewestInv, NewestNotAnnounced
    <3>4. QED BY <1>9, <3>2, <3>3
  <2>3. QED BY <2>1, <2>2 DEF NewestNotAnnounced
<1>12. KeysHeld'
  <2> SUFFICES ASSUME NEW w \in Worlds, NEW d \in connected[w] PROVE KeyHeld(d, w)'
    BY <1>1 DEF KeysHeld
  <2>1. d \in Clients /\ AccountOf[d] \in Accounts
    BY <1>2, SessionConstants
  <2>2. KeyHeld(d, w)
    BY DEF NewestInv, KeysHeld
  <2>3. (\A i \in DOMAIN setKey : setKey[i].key # key[d])
          => /\ \A i \in DOMAIN setKey' : setKey'[i].key # key[d]
             /\ activeSessions'[AccountOf[d]] = key[d] => activeSessions[AccountOf[d]] = key[d]
    BY <1>3, <1>7, <2>1
  <2>4. WillHear(w, AccountOf[d], key[d]) => WillHear(w, AccountOf[d], key[d])'
    BY <1>1, <1>9 DEF WillHear
  <2>5. QED BY <1>1, <2>2, <2>3, <2>4 DEF KeyHeld
<1>13. QED BY <1>10, <1>11, <1>12

\* A request becomes an answer with the newest key of the account.
LEMMA RequestNewest ==
  ASSUME NewestInv, NEW v \in Worlds, RequestSessionKey(v)
  PROVE  KeysAscend' /\ NewestNotAnnounced' /\ KeysHeld'
<1> DEFINE a == Head(requests[v])
           answer == [type |-> "response", key |-> activeSessions[a], account |-> a]
<1>1. /\ requests[v] # <<>> /\ requests' = [requests EXCEPT ![v] = Tail(@)]
      /\ fromMaster' = IF activeSessions[a] = 0 THEN fromMaster
                       ELSE [fromMaster EXCEPT ![v] = Append(fromMaster[v], answer)]
      /\ UNCHANGED <<logins, key, activeSessions, setKey, connected, closed, g_PendingUsers,
                     m_Users, early, overlooked>>
  BY DEF RequestSessionKey, Send, master, world
<1>2. /\ requests \in [Worlds -> Seq(Accounts)] /\ fromMaster \in [Worlds -> Seq(Message)]
      /\ activeSessions \in [Accounts -> 0..MaxLogins] /\ connected \in [Worlds -> SUBSET Clients]
      /\ key \in [Clients -> 0..MaxLogins]
  BY DEF NewestInv, SessionsInv, TypeOK
<1>3. /\ a \in Accounts /\ requests'[v] = Tail(requests[v])
      /\ \A i \in DOMAIN requests[v] : (i = 1 /\ requests[v][i] = a) \/
           (i - 1 \in DOMAIN requests'[v] /\ requests'[v][i - 1] = requests[v][i])
  <2>1. requests[v] \in Seq(Accounts) /\ requests'[v] = Tail(requests[v])
    BY <1>1, <1>2
  <2>2. \A i \in DOMAIN requests[v] : (i = 1 /\ requests[v][i] = Head(requests[v])) \/
          (i - 1 \in DOMAIN Tail(requests[v]) /\ Tail(requests[v])[i - 1] = requests[v][i])
    BY <1>1, <2>1, QueueRest
  <2>3. Head(requests[v]) \in Accounts
    BY <1>1, <2>1, QueueType
  <2>4. QED BY <2>1, <2>2, <2>3
<1>4. activeSessions[a] # 0 => answer \in Message
  BY <1>2, <1>3 DEF Message, Keys
<1>5. answer.type = "response" /\ answer.key = activeSessions[a] /\ answer.account = a
  OBVIOUS
<1>6. answer = [type |-> "response", key |-> activeSessions[a], account |-> a]
  OBVIOUS
<1> HIDE DEF a, answer
<1>7. ASSUME NEW w \in Worlds
      PROVE  /\ fromMaster[w] \in Seq(Message)
             /\ \A i \in DOMAIN fromMaster[w] :
                  i \in Nat /\ i <= Len(fromMaster[w]) /\ i \in DOMAIN fromMaster'[w]
                  /\ fromMaster'[w][i] = fromMaster[w][i]
             /\ \A i \in DOMAIN fromMaster'[w] :
                  \/ i \in DOMAIN fromMaster[w] /\ fromMaster'[w][i] = fromMaster[w][i]
                  \/ i = Len(fromMaster[w]) + 1 /\ fromMaster'[w][i] = answer
                     /\ Len(fromMaster[w]) \in Nat /\ fromMaster'[w] = Append(fromMaster[w], answer)
             /\ \A b, i : i \in Nat /\ Announced(fromMaster'[w], b, i) => Announced(fromMaster[w], b, i)
  <2>1. fromMaster[w] \in Seq(Message) /\ Len(fromMaster[w]) \in Nat
    BY <1>2
  <2>2. \A i \in DOMAIN fromMaster[w] : i \in Nat /\ i <= Len(fromMaster[w])
    BY <2>1
  <2>3. CASE fromMaster'[w] = fromMaster[w]
    BY <2>1, <2>2, <2>3
  <2>4. CASE activeSessions[a] # 0 /\ fromMaster'[w] = Append(fromMaster[w], answer)
    <3>1. \A b, i : i \in Nat /\ Announced(fromMaster'[w], b, i) => Announced(fromMaster[w], b, i)
      BY <1>4, <1>5, <2>1, <2>4, AppendSilent
    <3>2. QED BY <1>4, <2>1, <2>4, <3>1, QueueMore
  <2>5. fromMaster'[w] = fromMaster[w] \/ (activeSessions[a] # 0 /\ fromMaster'[w] = Append(fromMaster[w], answer))
    BY <1>1, <1>2
  <2>6. QED BY <2>3, <2>4, <2>5
<1>8. KeysAscend'
  <2>1. ASSUME NEW n \in 1..MaxLogins + 1, Newer(n)
        PROVE  Newer(n)'
    <3>1. \A w \in Worlds : \A i \in DOMAIN fromMaster'[w] :
            fromMaster'[w][i].type = "response" => fromMaster'[w][i].key < n
      BY <1>3, <1>5, <1>7, <2>1 DEF Newer
    <3>2. QED BY <1>1, <2>1, <3>1 DEF Newer
  <2>2. QED BY <1>1, <2>1, AscendKeeps DEF NewestInv
<1>9. NewestNotAnnounced'
  <2>1. ASSUME NEW w \in Worlds, NEW i \in DOMAIN fromMaster'[w],
               fromMaster'[w][i].type = "response",
               fromMaster'[w][i].key = activeSessions[fromMaster'[w][i].account]
        PROVE  ~ Announced(fromMaster'[w], fromMaster'[w][i].account, i)
    <3>1. CASE i \in DOMAIN fromMaster[w] /\ fromMaster'[w][i] = fromMaster[w][i]
      <4>1. i \in Nat
        BY <1>7, <3>1
      <4>2. ~ Announced(fromMaster[w], fromMaster'[w][i].account, i)
        BY <2>1, <3>1 DEF NewestInv, NewestNotAnnounced
      <4>3. QED BY <1>7, <4>1, <4>2
    <3>2. CASE i = Len(fromMaster[w]) + 1 /\ Len(fromMaster[w]) \in Nat
      <4>1. \A j \in DOMAIN fromMaster[w] : j \in Nat /\ j <= Len(fromMaster[w])
        BY <1>7
      <4>2. ~ Announced(fromMaster[w], fromMaster'[w][i].account, i)
        BY <3>2, <4>1 DEF Announced
      <4>3. i \in Nat
        BY <3>2
      <4>4. QED BY <1>7, <4>2, <4>3
    <3>3. QED BY <1>7, <3>1, <3>2
  <2>2. \A w \in Worlds, c \in Clients :
          m_Users'[w][c] # 0 /\ m_Users'[w][c] = activeSessions'[AccountOf[c]] =>
            ~ Announced(fromMaster'[w], AccountOf[c], 0)
    BY <1>1, <1>7 DEF NewestInv, NewestNotAnnounced
  <2>3. QED BY <1>1, <2>1, <2>2 DEF NewestNotAnnounced
<1>10. KeysHeld'
  <2> SUFFICES ASSUME NEW w \in Worlds, NEW d \in connected[w] PROVE KeyHeld(d, w)'
    BY <1>1 DEF KeysHeld
  <2>1. d \in Clients
    BY <1>2
  <2>2. KeyHeld(d, w)
    BY DEF NewestInv, KeysHeld
  <2>3. ASSUME WillHear(w, AccountOf[d], key[d]), activeSessions[AccountOf[d]] = key[d], key[d] # 0
        PROVE  WillHear(w, AccountOf[d], key[d])'
    <3> DEFINE wanted == [type |-> "response", key |-> key[d], account |-> AccountOf[d]]
    <3>1. CASE \E i \in DOMAIN fromMaster[w] : fromMaster[w][i] = wanted
      <4> HIDE DEF wanted
      <4>1. \E i \in DOMAIN fromMaster'[w] : fromMaster'[w][i] = wanted
        BY <1>7, <3>1
      <4>2. QED BY <1>1, <4>1 DEF WillHear, wanted
    <3>2. CASE \E i \in DOMAIN requests[w] : requests[w][i] = AccountOf[d]
      <4>1. PICK i \in DOMAIN requests[w] : requests[w][i] = AccountOf[d]
        BY <3>2
      <4>2. CASE w # v
        BY <1>1, <1>2, <4>1, <4>2 DEF WillHear
      <4>3. CASE w = v /\ i - 1 \in DOMAIN requests'[v] /\ requests'[v][i - 1] = requests[v][i]
        BY <1>1, <4>1, <4>3 DEF WillHear
      <4>4. CASE w = v /\ AccountOf[d] = a
        <5>1. fromMaster'[v] = Append(fromMaster[v], answer) /\ answer \in Message
          BY <1>1, <1>2, <1>4, <2>3, <4>4
        <5>2. Len(fromMaster[v]) + 1 \in DOMAIN fromMaster'[v]
              /\ fromMaster'[v][Len(fromMaster[v]) + 1] = answer
          BY <1>7, <5>1, QueueMore
        <5>3. answer = wanted
          BY <1>6, <2>3, <4>4
        <5> HIDE DEF wanted
        <5>4. \E j \in DOMAIN fromMaster'[w] : fromMaster'[w][j] = wanted
          BY <4>4, <5>2, <5>3
        <5>5. QED BY <1>1, <5>4 DEF WillHear, wanted
      <4>5. QED BY <1>3, <4>1, <4>2, <4>3, <4>4
    <3>3. QED BY <2>3, <3>1, <3>2 DEF WillHear
  <2>4. QED BY <1>1, <2>2, <2>3 DEF KeyHeld
<1>11. QED BY <1>8, <1>9, <1>10

\* A client that comes brings a request of its own.
LEMMA ValidateNewest ==
  ASSUME NewestInv, NEW c \in Clients, NEW w \in Worlds, Validate(c, w)
  PROVE  KeysAscend' /\ NewestNotAnnounced' /\ KeysHeld'
<1> DEFINE a == AccountOf[c]
           entry == [client |-> c, hash |-> key[c]]
<1>1. /\ key[c] # 0 /\ c \notin connected[w] \cup closed[w]
      /\ connected' = [connected EXCEPT ![w] = @ \cup {c}]
      /\ requests' = [requests EXCEPT ![w] = Append(@, a)]
      /\ g_PendingUsers' = [g_PendingUsers EXCEPT ![w][a] = entry]
      /\ UNCHANGED <<logins, key, activeSessions, setKey, fromMaster, closed, m_Users, overlooked>>
  BY DEF Validate, master
<1>2. /\ \A d \in Clients, v \in Worlds : <<d, v>> # <<c, w>> => (<<d, v>> \in early' <=> <<d, v>> \in early)
      /\ <<c, w>> \notin early' => \A i \in DOMAIN setKey : setKey[i].key # key[c]
  BY DEF Validate
<1>3. /\ requests \in [Worlds -> Seq(Accounts)] /\ connected \in [Worlds -> SUBSET Clients]
      /\ g_PendingUsers \in [Worlds -> [Accounts -> {Nobody} \cup Entry]] /\ a \in Accounts
  BY SessionConstants DEF NewestInv, SessionsInv, TypeOK
<1>4. m_Users[w][c] = 0
  BY <1>1 DEF NewestInv, SessionsInv, UsersHaveConnections
<1>5. KeysAscend'
  <2>1. \A n \in 1..MaxLogins + 1 : Newer(n) => Newer(n)'
    BY <1>1 DEF Newer
  <2>2. QED BY <1>1, <2>1, AscendKeeps DEF NewestInv
<1>6. NewestNotAnnounced'
  BY <1>1 DEF NewestInv, NewestNotAnnounced
<1>7. ASSUME NEW v \in Worlds, NEW i \in DOMAIN requests[v]
      PROVE  i \in DOMAIN requests'[v] /\ requests'[v][i] = requests[v][i]
  <2>1. requests[v] \in Seq(Accounts)
    BY <1>3
  <2>2. requests'[v] = requests[v] \/ requests'[v] = Append(requests[v], a)
    BY <1>1, <1>3
  <2>3. QED BY <1>3, <2>1, <2>2, QueueMore
<1>8. ASSUME NEW v \in Worlds, NEW d \in connected'[v]
      PROVE  KeyHeld(d, v)'
  <2>1. CASE v = w /\ d = c
    <3>1. requests[w] \in Seq(Accounts) /\ requests'[w] = Append(requests[w], a)
      BY <1>1, <1>3
    <3>2. \E i \in DOMAIN requests'[w] : requests'[w][i] = a
      <4>1. LET n == Len(requests[w]) + 1
            IN  n \in DOMAIN Append(requests[w], a) /\ Append(requests[w], a)[n] = a
        BY <1>3, <3>1, QueueMore
      <4>2. QED BY <3>1, <4>1
    <3>3. WillHear(w, a, key[c])'
      BY <3>2 DEF WillHear
    <3>4. g_PendingUsers'[w][a] = entry
      BY <1>1, <1>3
    <3>5. g_PendingUsers'[w][a].hash = key[c]
      BY <3>4
    <3>6. QED BY <1>1, <1>2, <1>4, <2>1, <3>3, <3>5 DEF KeyHeld
  <2>2. CASE ~ (v = w /\ d = c)
    <3>1. d \in connected[v] /\ d \in Clients /\ AccountOf[d] \in Accounts
      BY <1>1, <1>3, <2>2, SessionConstants
    <3>2. KeyHeld(d, v)
      BY <3>1 DEF NewestInv, KeysHeld
    <3>3. g_PendingUsers'[v][AccountOf[d]].client = d =>
            g_PendingUsers'[v][AccountOf[d]] = g_PendingUsers[v][AccountOf[d]]
      <4>1. CASE v = w /\ AccountOf[d] = a
        <5>1. g_PendingUsers'[v][AccountOf[d]] = entry
          BY <1>1, <1>3, <4>1
        <5>2. entry.client = c
          OBVIOUS
        <5>3. QED BY <2>2, <4>1, <5>1, <5>2
      <4>2. CASE ~ (v = w /\ AccountOf[d] = a)
        BY <1>1, <1>3, <3>1, <4>2
      <4>3. QED BY <4>1, <4>2
    <3>4. <<d, v>> \in early' <=> <<d, v>> \in early
      BY <1>2, <2>2, <3>1
    <3>5. WillHear(v, AccountOf[d], key[d]) => WillHear(v, AccountOf[d], key[d])'
      BY <1>1, <1>7 DEF WillHear
    <3> HIDE DEF a, entry
    <3>6. QED BY <1>1, <3>2, <3>3, <3>4, <3>5 DEF KeyHeld
  <2>3. QED BY <2>1, <2>2
<1>9. QED BY <1>5, <1>6, <1>8 DEF KeysHeld

\* Steps of which a connected client sees nothing.
LEMMA HeldKeeps ==
  ASSUME KeysHeld,
         UNCHANGED <<key, activeSessions, setKey, requests, fromMaster, g_PendingUsers, early>>,
         \A w \in Worlds : \A c \in connected'[w] :
           c \in connected[w] /\ c \notin closed'[w] /\ m_Users'[w][c] \in {0, m_Users[w][c]}
  PROVE  KeysHeld'
<1> SUFFICES ASSUME NEW w \in Worlds, NEW c \in connected'[w] PROVE KeyHeld(c, w)'
  BY DEF KeysHeld
<1>1. KeyHeld(c, w)
  BY DEF KeysHeld
<1>2. WillHear(w, AccountOf[c], key[c]) => WillHear(w, AccountOf[c], key[c])'
  BY DEF WillHear
<1>3. QED BY <1>1, <1>2 DEF KeyHeld

\* Nobody is connected whose connection has ended.
LEMMA CloseApart ==
  ASSUME NewestInv, NEW c, NEW w \in Worlds, Close(c, w)
  PROVE  \A v \in Worlds : \A d \in connected'[v] : d \in connected[v] /\ d \notin closed'[v]
<1>1. connected \in [Worlds -> SUBSET Clients] /\ closed \in [Worlds -> SUBSET Clients]
  BY DEF NewestInv, SessionsInv, TypeOK
<1>2. \A v \in Worlds : \A d \in connected[v] : d \notin closed[v]
  BY DEF NewestInv, KeysHeld, KeyHeld
<1>3. QED BY <1>1, <1>2 DEF Close

\* A connection that ends takes no key away.
LEMMA EndsNewest ==
  ASSUME NewestInv, NEW c \in Clients, NEW w \in Worlds,
         ConnectionEnds(c, w) \/ HandleDisconnection(c, w)
  PROVE  KeysAscend' /\ NewestNotAnnounced' /\ KeysHeld'
<1>1. /\ UNCHANGED <<logins, key, activeSessions, setKey, requests, fromMaster, g_PendingUsers>>
      /\ early' = early
      /\ \A v \in Worlds : \A d \in connected'[v] : d \in connected[v] /\ d \notin closed'[v]
      /\ \A v \in Worlds, d \in Clients : m_Users'[v][d] \in {0, m_Users[v][d]}
  <2>1. CASE ConnectionEnds(c, w)
    <3>1. \A v \in Worlds : \A d \in connected'[v] : d \in connected[v] /\ d \notin closed'[v]
      BY <2>1, CloseApart DEF ConnectionEnds
    <3>2. QED BY <2>1, <3>1 DEF ConnectionEnds, master
  <2>2. CASE HandleDisconnection(c, w)
    <3>1. /\ m_Users \in [Worlds -> [Clients -> 0..MaxLogins]]
          /\ closed \in [Worlds -> SUBSET Clients]
      BY DEF NewestInv, SessionsInv, TypeOK
    <3>2. \A v \in Worlds : \A d \in connected[v] : d \notin closed[v]
      BY DEF NewestInv, KeysHeld, KeyHeld
    <3>3. QED BY <2>2, <3>1, <3>2 DEF HandleDisconnection, master
  <2>3. QED BY <2>1, <2>2
<1>2. connected \in [Worlds -> SUBSET Clients]
  BY DEF NewestInv, SessionsInv, TypeOK
<1>3. KeysAscend'
  <2>1. \A n \in 1..MaxLogins + 1 : Newer(n) => Newer(n)'
    BY <1>1 DEF Newer
  <2>2. QED BY <1>1, <2>1, AscendKeeps DEF NewestInv
<1>4. NewestNotAnnounced'
  BY <1>1 DEF NewestInv, NewestNotAnnounced
<1>5. KeysHeld'
  BY <1>1, <1>2, HeldKeeps DEF NewestInv
<1>6. QED BY <1>3, <1>4, <1>5

\* What is left of a channel after its first message.
LEMMA HandledNewest ==
  ASSUME NewestInv, NEW w \in Worlds, fromMaster[w] # <<>>,
         fromMaster' = [fromMaster EXCEPT ![w] = Tail(@)],
         UNCHANGED <<key, activeSessions, setKey, requests, early>>
  PROVE  /\ \A v \in Worlds : \A i \in DOMAIN fromMaster'[v] :
              /\ i \in Nat /\ \E j \in DOMAIN fromMaster[v] : fromMaster'[v][i] = fromMaster[v][j]
              /\ fromMaster'[v][i].type = "response"
                   /\ fromMaster'[v][i].key = activeSessions'[fromMaster'[v][i].account] =>
                 ~ Announced(fromMaster'[v], fromMaster'[v][i].account, i)
         /\ \A v \in Worlds : \A b : Announced(fromMaster'[v], b, 0) => Announced(fromMaster[v], b, 0)
         /\ \A v \in Worlds : \A b, k :
              /\ WillHear(v, b, k)
              /\ v = w => Head(fromMaster[w]) # [type |-> "response", key |-> k, account |-> b]
              => WillHear(v, b, k)'
<1>1. fromMaster \in [Worlds -> Seq(Message)] /\ fromMaster[w] \in Seq(Message)
  BY DEF NewestInv, SessionsInv, TypeOK
<1>2. fromMaster'[w] = Tail(fromMaster[w]) /\ \A v \in Worlds \ {w} : fromMaster'[v] = fromMaster[v]
  BY <1>1
<1>3. \A v \in Worlds : \A i \in DOMAIN fromMaster[v] : i \in Nat
  BY <1>1, MessageType
<1>4. /\ \A i \in DOMAIN fromMaster[w] :
           \/ i = 1 /\ fromMaster[w][i] = Head(fromMaster[w])
           \/ i - 1 \in DOMAIN fromMaster'[w] /\ fromMaster'[w][i - 1] = fromMaster[w][i]
      /\ \A i \in DOMAIN fromMaster'[w] :
           i \in Nat /\ i + 1 \in DOMAIN fromMaster[w] /\ fromMaster'[w][i] = fromMaster[w][i + 1]
  <2>1. /\ \A i \in DOMAIN fromMaster[w] : (i = 1 /\ fromMaster[w][i] = Head(fromMaster[w])) \/
             (i - 1 \in DOMAIN Tail(fromMaster[w]) /\ Tail(fromMaster[w])[i - 1] = fromMaster[w][i])
        /\ \A i \in DOMAIN Tail(fromMaster[w]) :
             i \in Nat /\ i + 1 \in DOMAIN fromMaster[w] /\ Tail(fromMaster[w])[i] = fromMaster[w][i + 1]
    BY <1>1, QueueRest
  <2>2. QED BY <1>2, <2>1
<1>5. ASSUME NEW v \in Worlds, NEW i \in DOMAIN fromMaster'[v]
      PROVE  /\ i \in Nat /\ \E j \in DOMAIN fromMaster[v] : fromMaster'[v][i] = fromMaster[v][j]
             /\ fromMaster'[v][i].type = "response"
                  /\ fromMaster'[v][i].key = activeSessions'[fromMaster'[v][i].account] =>
                ~ Announced(fromMaster'[v], fromMaster'[v][i].account, i)
  <2>1. CASE v # w
    BY <1>2, <1>3, <1>5, <2>1 DEF NewestInv, NewestNotAnnounced
  <2>2. CASE v = w
    <3>1. i \in Nat /\ i + 1 \in DOMAIN fromMaster[w] /\ fromMaster'[w][i] = fromMaster[w][i + 1]
      BY <1>4, <1>5, <2>2
    <3>2. \A b : Announced(Tail(fromMaster[w]), b, i) => Announced(fromMaster[w], b, i + 1)
      BY <1>1, <3>1, TailSilent
    <3>3. fromMaster[w][i + 1].type = "response"
            /\ fromMaster[w][i + 1].key = activeSessions[fromMaster[w][i + 1].account] =>
          ~ Announced(fromMaster[w], fromMaster[w][i + 1].account, i + 1)
      BY <3>1 DEF NewestInv, NewestNotAnnounced
    <3>4. QED BY <1>2, <2>2, <3>1, <3>2, <3>3
  <2>3. QED BY <2>1, <2>2
<1>6. ASSUME NEW v \in Worlds, NEW b, Announced(fromMaster'[v], b, 0)
      PROVE  Announced(fromMaster[v], b, 0)
  BY <1>1, <1>2, <1>6, TailSilent
<1>7. ASSUME NEW v \in Worlds, NEW b, NEW k, WillHear(v, b, k),
             v = w => Head(fromMaster[w]) # [type |-> "response", key |-> k, account |-> b]
      PROVE  WillHear(v, b, k)'
  <2> DEFINE wanted == [type |-> "response", key |-> k, account |-> b]
  <2>1. CASE \E i \in DOMAIN requests[v] : requests[v][i] = b
    BY <2>1 DEF WillHear
  <2>2. CASE \E i \in DOMAIN fromMaster[v] : fromMaster[v][i] = wanted
    <3>1. v = w => Head(fromMaster[w]) # wanted
      BY <1>7
    <3> HIDE DEF wanted
    <3>2. \E i \in DOMAIN fromMaster'[v] : fromMaster'[v][i] = wanted
      <4>1. PICK i \in DOMAIN fromMaster[v] : fromMaster[v][i] = wanted
        BY <2>2
      <4>2. CASE v = w
        <5>1. i - 1 \in DOMAIN fromMaster'[w] /\ fromMaster'[w][i - 1] = fromMaster[w][i]
          BY <1>4, <3>1, <4>1, <4>2
        <5>2. QED BY <4>1, <4>2, <5>1
      <4>3. CASE v # w
        BY <1>2, <4>1, <4>3
      <4>4. QED BY <4>2, <4>3
    <3>3. QED BY <3>2 DEF WillHear, wanted
  <2>3. QED BY <1>7, <2>1, <2>2 DEF WillHear
<1>8. QED BY <1>5, <1>6, <1>7

\* An answer is gone, and so is the entry of the client that it let in.
LEMMA ResponseNewest ==
  ASSUME NewestInv, NEW w \in Worlds, SessionKeyResponse(w)
  PROVE  KeysAscend' /\ NewestNotAnnounced' /\ KeysHeld'
<1> DEFINE m == Head(fromMaster[w])
           entry == g_PendingUsers[w][m.account]
           c == entry.client
<1>1. /\ fromMaster[w] # <<>> /\ m.type = "response"
      /\ fromMaster' = [fromMaster EXCEPT ![w] = Tail(@)]
      /\ UNCHANGED <<logins, key, activeSessions, setKey, requests, early, overlooked>>
  BY DEF SessionKeyResponse, master
<1>2. /\ fromMaster[w] \in Seq(Message) /\ connected \in [Worlds -> SUBSET Clients]
      /\ g_PendingUsers \in [Worlds -> [Accounts -> {Nobody} \cup Entry]]
      /\ m_Users \in [Worlds -> [Clients -> 0..MaxLogins]]
  BY DEF NewestInv, SessionsInv, TypeOK
<1>3. /\ 1 \in DOMAIN fromMaster[w] /\ fromMaster[w][1] = m
      /\ m \in Message /\ m.account \in Accounts /\ m.key \in Keys
  <2>1. 1 \in DOMAIN fromMaster[w] /\ fromMaster[w][1] = m
    BY <1>1, <1>2, QueueRest
  <2>2. QED BY <1>2, <2>1, MessageType
<1>4. m = [type |-> "response", key |-> m.key, account |-> m.account]
  <2> HIDE DEF m
  <2>1. QED BY <1>1, <1>3 DEF Message
\* What the message does to the world.
<1>5. /\ \A v \in Worlds : \A d \in connected'[v] : d \in connected[v] /\ d \notin closed'[v]
      /\ \A v \in Worlds, d \in Clients :
           \/ m_Users'[v][d] = m_Users[v][d]
           \/ /\ v = w /\ d = c /\ d \in connected[w] /\ m_Users'[v][d] = m.key
              /\ entry.hash = m.key /\ AccountOf[d] = m.account
      /\ \A v \in Worlds, b \in Accounts :
           g_PendingUsers'[v][b] = g_PendingUsers[v][b] \/ g_PendingUsers'[v][b] = Nobody
      /\ g_PendingUsers'[w][m.account] # Nobody => entry.hash # m.key
  <2>1. \A v \in Worlds : \A d \in connected[v] : d \notin closed[v]
    BY DEF NewestInv, KeysHeld, KeyHeld
  <2>2. CASE entry = Nobody /\ UNCHANGED world
    BY <2>1, <2>2 DEF world
  <2>3. CASE entry # Nobody /\ m.key # entry.hash /\ KeyMismatch(c, w)
    <3>1. Close(c, w) /\ UNCHANGED <<g_PendingUsers, m_Users>>
      BY <2>3 DEF KeyMismatch
    <3>2. \A v \in Worlds : \A d \in connected'[v] : d \in connected[v] /\ d \notin closed'[v]
      BY <3>1, CloseApart
    <3>3. QED BY <2>3, <3>1, <3>2
  <2>4. CASE /\ entry # Nobody /\ m.key = entry.hash
             /\ CreateUser(c, w, entry.hash)
             /\ g_PendingUsers' = [g_PendingUsers EXCEPT ![w][m.account] = Nobody]
             /\ UNCHANGED <<connected, closed>>
    <3>1. AccountOf[c] = m.account
      BY <1>3, <2>4 DEF NewestInv, SessionsInv, PendingMatch
    <3>2. m_Users' = IF c \in connected[w] THEN [m_Users EXCEPT ![w][c] = entry.hash] ELSE m_Users
      BY <2>4 DEF CreateUser
    <3> HIDE DEF m, entry, c
    <3>3. \A v \in Worlds, d \in Clients :
           \/ m_Users'[v][d] = m_Users[v][d]
           \/ v = w /\ d = c /\ d \in connected[w] /\ m_Users'[v][d] = m.key
      BY <1>2, <2>4, <3>2
    <3>4. \A v \in Worlds, b \in Accounts :
            g_PendingUsers'[v][b] = g_PendingUsers[v][b] \/ g_PendingUsers'[v][b] = Nobody
      BY <1>2, <2>4
    <3>5. g_PendingUsers'[w][m.account] = Nobody
      BY <1>2, <1>3, <2>4
    <3>6. QED BY <2>1, <2>4, <3>1, <3>3, <3>4, <3>5
  <2>5. QED BY <2>2, <2>3, <2>4 DEF SessionKeyResponse
<1>6. /\ \A v \in Worlds : \A i \in DOMAIN fromMaster'[v] :
           /\ i \in Nat /\ \E j \in DOMAIN fromMaster[v] : fromMaster'[v][i] = fromMaster[v][j]
           /\ fromMaster'[v][i].type = "response"
                /\ fromMaster'[v][i].key = activeSessions'[fromMaster'[v][i].account] =>
              ~ Announced(fromMaster'[v], fromMaster'[v][i].account, i)
      /\ \A v \in Worlds : \A b : Announced(fromMaster'[v], b, 0) => Announced(fromMaster[v], b, 0)
      /\ \A v \in Worlds : \A b, k :
           /\ WillHear(v, b, k)
           /\ v = w => m # [type |-> "response", key |-> k, account |-> b]
           => WillHear(v, b, k)'
  BY <1>1, HandledNewest
<1>7. \A b : Announced(fromMaster'[w], b, 0) => Announced(fromMaster[w], b, 1)
  <2>1. fromMaster \in [Worlds -> Seq(Message)]
    BY DEF NewestInv, SessionsInv, TypeOK
  <2>2. fromMaster'[w] = Tail(fromMaster[w])
    BY <1>1, <2>1
  <2>3. \A b : Announced(Tail(fromMaster[w]), b, 0) => Announced(fromMaster[w], b, 0 + 1)
    BY <1>1, <1>2, TailSilent
  <2>4. QED BY <2>2, <2>3
<1> HIDE DEF m, entry, c
<1>8. KeysAscend'
  <2>1. ASSUME NEW n \in 1..MaxLogins + 1, Newer(n)
        PROVE  Newer(n)'
    <3>1. m.key < n
      BY <1>1, <1>3, <2>1 DEF Newer
    <3>2. \A v \in Worlds, d \in Clients : m_Users'[v][d] < n
      BY <1>5, <2>1, <3>1 DEF Newer
    <3>3. \A v \in Worlds : \A i \in DOMAIN fromMaster'[v] :
            fromMaster'[v][i].type = "response" => fromMaster'[v][i].key < n
      BY <1>6, <2>1 DEF Newer
    <3>4. QED BY <1>1, <2>1, <3>2, <3>3 DEF Newer
  <2>2. QED BY <1>1, <2>1, AscendKeeps DEF NewestInv
<1>9. NewestNotAnnounced'
  <2>1. ASSUME NEW v \in Worlds, NEW d \in Clients, m_Users'[v][d] # 0,
               m_Users'[v][d] = activeSessions[AccountOf[d]]
        PROVE  ~ Announced(fromMaster'[v], AccountOf[d], 0)
    <3>1. CASE m_Users'[v][d] = m_Users[v][d]
      BY <1>6, <2>1, <3>1 DEF NewestInv, NewestNotAnnounced
    <3>2. CASE v = w /\ m_Users'[v][d] = m.key /\ AccountOf[d] = m.account
      <4>1. ~ Announced(fromMaster[w], m.account, 1)
        BY <1>1, <1>3, <2>1, <3>2 DEF NewestInv, NewestNotAnnounced
      <4>2. QED BY <1>7, <3>2, <4>1
    <3>3. QED BY <1>5, <3>1, <3>2
  <2>2. QED BY <1>1, <1>6, <2>1 DEF NewestNotAnnounced
<1>10. KeysHeld'
  <2> SUFFICES ASSUME NEW v \in Worlds, NEW d \in connected'[v] PROVE KeyHeld(d, v)'
    BY DEF KeysHeld
  <2>1. /\ d \in connected[v] /\ d \notin closed'[v] /\ d \in Clients /\ d # Nobody.client
        /\ AccountOf[d] \in Accounts
    <3>1. d \in connected[v] /\ d \notin closed'[v]
      BY <1>5
    <3>2. d \in Clients
      BY <1>2, <3>1
    <3>3. Nobody.client = 0
      BY DEF Nobody
    <3>4. QED BY <3>1, <3>2, <3>3, SessionConstants
  <2>2. KeyHeld(d, v)
    BY <2>1 DEF NewestInv, KeysHeld
  <2> DEFINE a == AccountOf[d]
  <2>3. g_PendingUsers'[v][a].client = d =>
          g_PendingUsers'[v][a] = g_PendingUsers[v][a] /\ g_PendingUsers'[v][a] # Nobody
    BY <1>5, <2>1
  <2>4. m_Users'[v][d] \in {0, key[d]}
    <3>1. CASE m_Users'[v][d] = m_Users[v][d]
      BY <2>2, <3>1 DEF KeyHeld
    <3>2. CASE /\ v = w /\ d = c /\ m_Users'[v][d] = m.key
               /\ entry.hash = m.key /\ AccountOf[d] = m.account
      <4>1. g_PendingUsers[w][m.account] = entry /\ entry.client = c
        BY DEF entry, c
      <4>2. entry.hash = key[d]
        BY <2>2, <3>2, <4>1 DEF KeyHeld
      <4>3. QED BY <3>2, <4>2
    <3>3. QED BY <1>5, <2>1, <3>1, <3>2
  <2>5. ASSUME WillHear(v, a, key[d]), g_PendingUsers'[v][a].client = d
        PROVE  WillHear(v, a, key[d])'
    <3>1. ASSUME v = w, m = [type |-> "response", key |-> key[d], account |-> a]
          PROVE  FALSE
      <4>1. m.key = key[d] /\ m.account = a
        BY <3>1
      <4>2. g_PendingUsers[w][m.account] = entry
        BY DEF entry
      <4>3. entry.hash = key[d]
        BY <2>2, <2>3, <2>5, <3>1, <4>1, <4>2 DEF KeyHeld
      <4>4. QED BY <1>5, <2>3, <2>5, <3>1, <4>1, <4>3
    <3>2. PICK k : k = key[d]
      OBVIOUS
    <3>3. PICK b : b = a
      OBVIOUS
    <3>4. WillHear(v, b, k)'
      BY <1>6, <2>5, <3>1, <3>2, <3>3
    <3>5. QED BY <1>1, <3>2, <3>3, <3>4 DEF WillHear
  <2>6. QED BY <1>1, <2>1, <2>2, <2>3, <2>4, <2>5 DEF KeyHeld
<1>11. QED BY <1>8, <1>9, <1>10

\* An alert ends a connection and creates no user.
LEMMA AlertNewest ==
  ASSUME NewestInv, NEW w \in Worlds, NewSessionAlert(w)
  PROVE  KeysAscend' /\ NewestNotAnnounced' /\ KeysHeld'
<1> DEFINE m == Head(fromMaster[w])
<1>1. /\ fromMaster[w] # <<>> /\ m.type = "alert"
      /\ fromMaster' = [fromMaster EXCEPT ![w] = Tail(@)]
      /\ UNCHANGED <<logins, key, activeSessions, setKey, requests, g_PendingUsers, m_Users, early>>
  BY DEF NewSessionAlert, master
<1>2. \A v \in Worlds : \A d \in connected'[v] : d \in connected[v] /\ d \notin closed'[v]
  <2>1. \A v \in Worlds : \A d \in connected[v] : d \notin closed[v]
    BY DEF NewestInv, KeysHeld, KeyHeld
  <2>2. UNCHANGED <<connected, closed>> \/ Close(GetUser(m.account, w), w)
    BY DEF NewSessionAlert, AlertFound
  <2>3. QED BY <2>1, <2>2, CloseApart
<1>3. /\ \A v \in Worlds : \A i \in DOMAIN fromMaster'[v] :
           /\ i \in Nat /\ \E j \in DOMAIN fromMaster[v] : fromMaster'[v][i] = fromMaster[v][j]
           /\ fromMaster'[v][i].type = "response"
                /\ fromMaster'[v][i].key = activeSessions'[fromMaster'[v][i].account] =>
              ~ Announced(fromMaster'[v], fromMaster'[v][i].account, i)
      /\ \A v \in Worlds : \A b : Announced(fromMaster'[v], b, 0) => Announced(fromMaster[v], b, 0)
      /\ \A v \in Worlds : \A b, k :
           /\ WillHear(v, b, k)
           /\ v = w => m # [type |-> "response", key |-> k, account |-> b]
           => WillHear(v, b, k)'
  BY <1>1, HandledNewest
<1>4. \A v \in Worlds : \A b, k : WillHear(v, b, k) => WillHear(v, b, k)'
  <2>1. \A b, k : m # [type |-> "response", key |-> k, account |-> b]
    BY <1>1
  <2>2. QED BY <1>3, <2>1
<1> HIDE DEF m
<1>5. KeysAscend'
  <2>1. \A n \in 1..MaxLogins + 1 : Newer(n) => Newer(n)'
    BY <1>1, <1>3 DEF Newer
  <2>2. QED BY <1>1, <2>1, AscendKeeps DEF NewestInv
<1>6. NewestNotAnnounced'
  BY <1>1, <1>3 DEF NewestInv, NewestNotAnnounced
<1>7. KeysHeld'
  <2> SUFFICES ASSUME NEW v \in Worlds, NEW d \in connected'[v] PROVE KeyHeld(d, v)'
    BY DEF KeysHeld
  <2>1. KeyHeld(d, v)
    BY <1>2 DEF NewestInv, KeysHeld
  <2>2. QED BY <1>1, <1>2, <1>4, <2>1 DEF KeyHeld
<1>8. QED BY <1>5, <1>6, <1>7

\* Every step keeps it.
LEMMA NewestKept == NewestInv /\ [Next]_vars => NewestInv'
<1> SUFFICES ASSUME NewestInv, [Next]_vars PROVE NewestInv'
  OBVIOUS
<1>1. SessionsInv'
  BY NextHolds DEF NewestInv
<1>2. CASE Next
  BY <1>1, <1>2, LoginNewest, SetKeyNewest, RequestNewest, ResponseNewest, AlertNewest,
     ValidateNewest, EndsNewest DEF Next, NewestInv
<1>3. CASE UNCHANGED vars
  <2>1. /\ UNCHANGED <<logins, key, activeSessions, setKey, requests, fromMaster, g_PendingUsers, early>>
        /\ UNCHANGED <<connected, closed, m_Users>>
    BY <1>3 DEF vars, master, world
  <2>2. KeysAscend'
    <3>1. \A n \in 1..MaxLogins + 1 : Newer(n) => Newer(n)'
      BY <2>1 DEF Newer
    <3>2. QED BY <2>1, <3>1, AscendKeeps DEF NewestInv
  <2>3. NewestNotAnnounced'
    BY <2>1 DEF NewestInv, NewestNotAnnounced
  <2>4. \A w \in Worlds : \A c \in connected[w] : c \notin closed[w]
    BY DEF NewestInv, KeysHeld, KeyHeld
  <2>5. KeysHeld'
    BY <2>1, <2>4, HeldKeeps DEF NewestInv
  <2>6. QED BY <1>1, <2>2, <2>3, <2>5 DEF NewestInv
<1>4. QED BY <1>2, <1>3

(***************************************************************************)
(* What it says of the client a world turns away                           *)
(***************************************************************************)
\* A queue has finitely many entries.
LEMMA QueueFinite ==
  ASSUME NEW R, NEW s \in Seq(R)
  PROVE  IsFiniteSet(DOMAIN s)
<1>1. DOMAIN s = 1..Len(s) /\ Len(s) \in Nat
  OBVIOUS
<1>2. IsFiniteSet(1..Len(s))
  BY FS_Interval
<1>3. QED BY <1>1, <1>2

\* An answer is there, and a request or another answer: two have been asked for.
LEMMA TwoAsked ==
  ASSUME TypeOK, NEW w \in Worlds, NEW a, NEW i \in DOMAIN fromMaster[w],
         fromMaster[w][i].type = "response", fromMaster[w][i].account = a,
         \/ \E j \in DOMAIN requests[w] : requests[w][j] = a
         \/ \E j \in DOMAIN fromMaster[w] :
              j # i /\ fromMaster[w][j].type = "response" /\ fromMaster[w][j].account = a
  PROVE  Asked(w, a) >= 2
<1> DEFINE P == {j \in DOMAIN requests[w] : requests[w][j] = a}
           Q == {j \in DOMAIN fromMaster[w] :
                   fromMaster[w][j].type = "response" /\ fromMaster[w][j].account = a}
<1>1. requests[w] \in Seq(Accounts) /\ fromMaster[w] \in Seq(Message)
  BY DEF TypeOK
<1>2. IsFiniteSet(DOMAIN requests[w]) /\ IsFiniteSet(DOMAIN fromMaster[w])
  BY <1>1, QueueFinite
<1>3. IsFiniteSet(P) /\ IsFiniteSet(Q)
  BY <1>2, FS_Subset
<1>4. i \in Q /\ (P # {} \/ \E j \in Q : j # i)
  OBVIOUS
<1>5. Asked(w, a) = Cardinality(P) + Cardinality(Q)
  BY DEF Asked
<1> HIDE DEF P, Q
<1>6. Cardinality(P) \in Nat /\ Cardinality(Q) \in Nat
  BY <1>3, FS_CardinalityType
<1>7. Cardinality(P) # 0 <=> P # {}
  BY <1>3, FS_EmptySet
<1>8. Cardinality(Q) # 0
  BY <1>3, <1>4, FS_EmptySet
<1>9. CASE P # {}
  BY <1>5, <1>6, <1>7, <1>8, <1>9
<1>10. CASE \E j \in Q : j # i
  <2>1. PICK j \in Q : j # i
    BY <1>10
  <2>2. IsFiniteSet({i}) /\ Cardinality({i}) = 1
    BY FS_Singleton
  <2>3. Cardinality({i} \cup {j}) = 2
    <3>1. j \notin {i}
      BY <2>1
    <3>2. Cardinality({i} \cup {j}) = Cardinality({i}) + 1
      BY <2>2, <3>1, FS_AddElement
    <3>3. QED BY <2>2, <3>2
  <2>4. Cardinality({i} \cup {j}) <= Cardinality(Q)
    <3>1. {i} \cup {j} \subseteq Q
      BY <1>4, <2>1
    <3>2. QED BY <1>3, <3>1, FS_Subset
  <2>5. Cardinality(Q) >= 2
    BY <1>6, <2>3, <2>4
  <2> DEFINE p == Cardinality(P)
             q == Cardinality(Q)
  <2>6. p \in Nat /\ q \in Nat /\ q >= 2 /\ Asked(w, a) = p + q
    BY <1>5, <1>6, <2>5
  <2> HIDE DEF p, q
  <2>7. p + q >= 2
    BY <2>6
  <2>8. QED BY <2>6, <2>7
<1>11. QED BY <1>4, <1>9, <1>10

\* A step that turns a client away with the newest key handles an answer that is
\* not the client's own.
LEMMA StepHears ==
  ASSUME NewestInv, Next, NEW w \in Worlds, NEW c \in Clients,
         c \in connected[w] \cap closed'[w], fromMaster'[w] # fromMaster[w],
         key[c] = activeSessions[AccountOf[c]], <<c, w>> \notin early
  PROVE  Asked(w, AccountOf[c]) >= 2
<1> DEFINE m == Head(fromMaster[w])
<1>1. TypeOK /\ fromMaster \in [Worlds -> Seq(Message)] /\ fromMaster[w] \in Seq(Message)
  BY DEF NewestInv, SessionsInv, TypeOK
<1>2. KeyHeld(c, w) /\ c \notin closed[w]
  BY DEF NewestInv, KeysHeld, KeyHeld
<1>3. closed \in [Worlds -> SUBSET Clients]
  BY DEF NewestInv, SessionsInv, TypeOK
\* Only handling an answer or an alert ends connections by a message.
<1>4. SessionKeyResponse(w) \/ NewSessionAlert(w)
  <2>1. ASSUME NEW v \in Worlds, SessionKeyResponse(v) \/ NewSessionAlert(v)
        PROVE  v = w
    BY <1>1, <2>1 DEF SessionKeyResponse, NewSessionAlert
  <2>2. ASSUME \/ \E d \in Clients : Login(d)
               \/ SetSessionKey
               \/ \E v \in Worlds : RequestSessionKey(v)
        PROVE  FALSE
    BY <1>2, <2>2 DEF Login, SetSessionKey, RequestSessionKey, world
  <2>3. ASSUME NEW v \in Worlds, NEW d \in Clients,
               Validate(d, v) \/ ConnectionEnds(d, v) \/ HandleDisconnection(d, v)
        PROVE  FALSE
    BY <2>3 DEF Validate, ConnectionEnds, HandleDisconnection
  <2>4. QED BY <2>1, <2>2, <2>3 DEF Next
<1>5. fromMaster[w] # <<>>
  BY <1>4 DEF SessionKeyResponse, NewSessionAlert
<1>6. /\ 1 \in DOMAIN fromMaster[w] /\ fromMaster[w][1] = m /\ m.account \in Accounts
      /\ \A i \in DOMAIN fromMaster[w] : i \in Nat
  <2>1. 1 \in DOMAIN fromMaster[w] /\ fromMaster[w][1] = m
    BY <1>1, <1>5, QueueRest
  <2>2. QED BY <1>1, <2>1, MessageType
<1>7. ASSUME NEW d, Close(d, w)
      PROVE  c = d
  BY <1>2, <1>3, <1>7 DEF Close
<1>8. CASE SessionKeyResponse(w)
  <2> DEFINE entry == g_PendingUsers[w][m.account]
  <2>1. m.type = "response" /\ entry # Nobody /\ m.key # entry.hash /\ Close(entry.client, w)
    BY <1>2, <1>8 DEF SessionKeyResponse, KeyMismatch, world
  <2>2. entry.client = c
    BY <1>7, <2>1
  <2>3. AccountOf[c] = m.account
    BY <1>6, <2>1, <2>2 DEF NewestInv, SessionsInv, PendingMatch
  <2>4. entry.hash = key[c] /\ WillHear(w, AccountOf[c], key[c])
    BY <1>2, <2>2, <2>3 DEF KeyHeld
  <2>5. \/ \E j \in DOMAIN requests[w] : requests[w][j] = AccountOf[c]
        \/ \E j \in DOMAIN fromMaster[w] :
             j # 1 /\ fromMaster[w][j].type = "response" /\ fromMaster[w][j].account = AccountOf[c]
    <3>1. CASE \E j \in DOMAIN fromMaster[w] :
                 fromMaster[w][j] = [type |-> "response", key |-> key[c], account |-> AccountOf[c]]
      <4>1. PICK j \in DOMAIN fromMaster[w] :
              fromMaster[w][j] = [type |-> "response", key |-> key[c], account |-> AccountOf[c]]
        BY <3>1
      <4>2. fromMaster[w][j].key = key[c] /\ fromMaster[w][j].type = "response"
            /\ fromMaster[w][j].account = AccountOf[c]
        BY <4>1
      <4>3. j # 1
        BY <1>6, <2>1, <2>4, <4>2
      <4>4. QED BY <4>2, <4>3
    <3>2. QED BY <2>4, <3>1 DEF WillHear
  <2>6. fromMaster[w][1].type = "response" /\ fromMaster[w][1].account = AccountOf[c]
    BY <1>6, <2>1, <2>3
  <2> HIDE DEF m
  <2>7. QED BY <1>1, <1>6, <2>5, <2>6, TwoAsked
<1>9. CASE NewSessionAlert(w)
  <2>1. m.type = "alert" /\ UsersOf(m.account, w) # {} /\ Close(GetUser(m.account, w), w)
    BY <1>2, <1>9 DEF NewSessionAlert, AlertFound
  <2>2. c \in UsersOf(m.account, w)
    BY <1>7, <2>1, GetUserIsUser
  <2>3. AccountOf[c] = m.account /\ m_Users[w][c] = activeSessions[AccountOf[c]] /\ m_Users[w][c] # 0
    BY <1>2, <2>2 DEF UsersOf, KeyHeld
  <2>4. ~ Announced(fromMaster[w], m.account, 0)
    BY <2>3 DEF NewestInv, NewestNotAnnounced
  <2>5. Announced(fromMaster[w], m.account, 0)
    BY <1>6, <2>1 DEF Announced
  <2>6. QED BY <2>4, <2>5
<1>10. QED BY <1>4, <1>8, <1>9

\* A world turns a client with the newest key away only if the client came before
\* the master had the key, or if another request of the account is open, with
\* however many clients, worlds and keys on their way.
THEOREM NewestStaysHeard == Spec => NewestIsHeard
<1>1. Init => NewestInv
  BY InitHolds, NewestInit DEF NewestInv
<1>2. NewestInv /\ [Next]_vars =>
        [\A w \in Worlds, c \in Clients :
           /\ c \in connected[w] \cap closed'[w] /\ fromMaster'[w] # fromMaster[w]
           /\ key[c] = activeSessions[AccountOf[c]]
           => <<c, w>> \in early \/ Asked(w, AccountOf[c]) >= 2]_vars
  BY StepHears
<1>3. QED BY <1>1, <1>2, NewestKept, PTL DEF Spec, NewestIsHeard
=============================================================================
