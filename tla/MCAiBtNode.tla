----------------------------- MODULE MCAiBtNode -----------------------------
(***************************************************************************)
(* Small instances of the node: two or three missions, few enough plans    *)
(* and executions that every thread can meet every callback.               *)
(***************************************************************************)
EXTENDS AiBtNode

\* Everybody asks for the priority of the trigger: the queue order is by id.
MCOnePriority == {20}

\* One priority below the trigger's: reprioritize can preempt.
MCTwoPriorities == {10, 20}

MCReason == {"", "r"}

=============================================================================
