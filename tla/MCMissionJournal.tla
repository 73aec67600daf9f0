--------------------------- MODULE MCMissionJournal ---------------------------
(***************************************************************************)
(* Two missions and two threads that publish.  The threads do the same and *)
(* are compared with nothing, so that they may be exchanged.               *)
(***************************************************************************)
EXTENDS MissionJournal, TLC

Exchange == Permutations(Publishers)

=============================================================================
