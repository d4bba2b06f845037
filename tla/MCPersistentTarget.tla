------------------------- MODULE MCPersistentTarget -------------------------
(***************************************************************************)
(* A small instance of PersistentTarget: two callers of one process, whose *)
(* owner shuts it down after them.                                         *)
(***************************************************************************)
EXTENDS PersistentTarget

CONSTANTS load, decode, stop

AllCalls == {load, decode, stop}

\* The second caller chooses an ID that is also generated.
ChosenID == [c \in AllCalls |-> IF c = decode THEN 1 ELSE 0]
=============================================================================
