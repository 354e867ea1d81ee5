----------------------------- MODULE MCSessions -----------------------------
(* An instance of Sessions for TLC. *)
EXTENDS Sessions

CONSTANTS account, w1

OneAccount == {account}
AllOfOne   == [c \in Clients |-> account]
OneWorld   == {w1}
=============================================================================
