---------------------------- MODULE MCSkillsPanel ---------------------------
(* Skills of the workspace, of the disk, and of both, one session and a
   tab with two calls under way. *)
EXTENDS SkillsPanel

CONSTANTS audit, review, lint, s1, c1, c2
MCOwned == {audit, review}
MCOnDisk == {review, lint}
MCSessions == {s1}
MCCalls == {c1, c2}
=============================================================================
