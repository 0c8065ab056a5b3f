----------------------------- MODULE MCGateway ------------------------------
(* Three requests of two members: commands that queue behind one another, and
   one request of every other route. *)
EXTENDS Gateway

CONSTANTS m1, m2, m3, alice, bob
MCCommands == {m1, m2, m3}
OnePrincipal == {alice}
MCGrants == {"editor", "viewer"}
FollowUp == {"followUp"}
BothWays == {"steer", "followUp"}
MCRoutes == [c \in MCCommands |-> IF c = m3 THEN AllRoutes ELSE {"commands"}]
CommandRoute == [c \in MCCommands |-> {"commands"}]
=============================================================================
