-------------------------- MODULE TransferService --------------------------
(***************************************************************************)
(* What the zone transfer protocol promises a server that asks for a       *)
(* transfer, whatever happens to worlds and connections: each request is   *)
(* granted at most once, and a request for a public zone is granted only   *)
(* a world that has opened for this zone.                                  *)
(***************************************************************************)
EXTENDS Naturals, Sequences

CONSTANTS Servers, Zones, Passwords, WorldIds

VARIABLES
  asked,     \* per server, the zones and passwords it asked for, in order
  opened,    \* the zone each world that has opened serves, as pairs
  granted    \* the grants: records [server, id, world]

svars == <<asked, opened, granted>>

Init ==
  /\ asked = [s \in Servers |-> <<>>]
  /\ opened = {}
  /\ granted = {}

Ask(s, want) ==
  /\ asked' = [asked EXCEPT ![s] = Append(@, want)]
  /\ UNCHANGED <<opened, granted>>

Open(p, zone) ==
  /\ \A z \in Zones : <<p, z>> \notin opened
  /\ opened' = opened \cup {<<p, zone>>}
  /\ UNCHANGED <<asked, granted>>

Grant(s, id, p) ==
  /\ id \in DOMAIN asked[s]
  /\ \A g \in granted : ~ (g.server = s /\ g.id = id)
  /\ asked[s][id] \in Zones => <<p, asked[s][id]>> \in opened
  /\ granted' = granted \cup {[server |-> s, id |-> id, world |-> p]}
  /\ UNCHANGED <<asked, opened>>

Next ==
  \/ \E s \in Servers, want \in Zones \cup Passwords : Ask(s, want)
  \/ \E p \in WorldIds, zone \in Zones : Open(p, zone)
  \/ \E s \in Servers, p \in WorldIds : \E id \in DOMAIN asked[s] : Grant(s, id, p)

Spec == Init /\ [][Next]_svars
=============================================================================
