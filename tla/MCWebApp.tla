------------------------------ MODULE MCWebApp ------------------------------
(* One tab and one or two people; tokens that live for four ticks and are
   renewed two ticks early, requests that take one. *)
EXTENDS WebApp

CONSTANTS ada, bob
OneUser == {ada}
TwoClients == 1..2
TwoConnects == 1..2
=============================================================================
