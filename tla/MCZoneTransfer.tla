-------------------------- MODULE MCZoneTransfer ---------------------------
(***************************************************************************)
(* Values of the constants of ZoneTransfer for TLC: a main zone, a zone of *)
(* a property clone and the same map without clone.                        *)
(***************************************************************************)
EXTENDS ZoneTransfer, TLC

Main     == [map |-> 1, clone |-> 0]
Property == [map |-> 2, clone |-> 7]
Lobby    == [map |-> 2, clone |-> 0]

OneZone  == {Main}
TwoZones == {Property, Lobby}
CapTwo   == [z \in Zones |-> 2]
CapOne   == [z \in Zones |-> 1]

Symmetry == Permutations(Servers)
=============================================================================
