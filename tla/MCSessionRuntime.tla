-------------------------- MODULE MCSessionRuntime --------------------------
(* Two actors, one queued behind or rejected during the other's run, where the
   property tells them apart; one where it does not. *)
EXTENDS SessionRuntime

CONSTANTS alice, bob
MCActors == {alice, bob}
OneActor == {alice}
=============================================================================
