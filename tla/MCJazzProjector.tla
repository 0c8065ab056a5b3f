-------------------------- MODULE MCJazzProjector ---------------------------
(* Three messages: a run of two turns, or the beginnings of two runs. *)
EXTENDS JazzProjector
=============================================================================
