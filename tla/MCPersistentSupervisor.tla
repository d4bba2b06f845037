----------------------- MODULE MCPersistentSupervisor -----------------------
(***************************************************************************)
(* A small instance of PersistentSupervisor: a probe and an inference      *)
(* whose callers may leave, a shutdown, and a worker that can be replaced  *)
(* once.                                                                   *)
(***************************************************************************)
EXTENDS PersistentSupervisor

CONSTANTS state, decode, stop

AllCalls == {state, decode, stop}

NoChosenID == [c \in AllCalls |-> 0]
=============================================================================
