-------------------------- MODULE MCWorkspaceConfig -------------------------
(* Four skills: two of the workspace alone whose names make one directory, one
   that the disk has as well, one whose name makes no directory; an agent type
   that a file presets too. *)
EXTENDS WorkspaceConfig

CONSTANTS audit, audit2, review, dots, auditDir, reviewDir, brief, long, scout, fast, careful,
          s1, s2, req1, req2
MCOrder == <<audit, audit2, review, dots>>
MCDir == [n \in {audit, audit2, review, dots} |->
            CASE n = review -> reviewDir [] n = dots -> NoDir [] OTHER -> auditDir]
MCDisk == {review}
MCTexts == {brief}
MCTypes == {scout}
MCPresets == {fast, careful}
MCFileTypes == [t \in MCTypes |-> fast]
OneSession == {s1}
TwoSessions == {s1, s2}
TwoRequests == {req1, req2}
=============================================================================
