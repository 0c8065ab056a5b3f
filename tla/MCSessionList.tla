---------------------------- MODULE MCSessionList ---------------------------
(* Two sessions, one of which may be there from the start, and a tab with two
   calls under way, beside the edits of others. *)
EXTENDS SessionList

CONSTANTS s1, s2, get1, get2, c1, c2, t1, m1
MCSessions == {s1, s2}
MCExisting == {s1}
MCGets == {get1, get2}
OneGet == {get1}
MCCalls == {c1, c2}
MCTitles == {t1}
MCModels == {m1}
=============================================================================
