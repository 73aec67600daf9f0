-------------------------- MODULE MCMissionManager --------------------------
(***************************************************************************)
(* The mission table with every method called in any order on three        *)
(* missions: one active, one waiting and one to wait behind it.            *)
(***************************************************************************)
EXTENDS MissionManager

\* Two priorities, the second above the range that submit() clamps to.
MCPriorityArg == {10, 300}

\* No reason and the one that stands for no reason: enough for a pause to repeat
\* the reason its mission was resumed from, and to give another one.
MCReason == {"", "paused"}

=============================================================================
