---------------------------- MODULE MCMembership ----------------------------
(***************************************************************************)
(* Small instances of Membership.                                          *)
(***************************************************************************)
EXTENDS Membership

CONSTANTS id1, id2,       \* worker IDs
          i1, i2, i3,     \* instances
          e1              \* the endpoint they are given

\* A worker process.
First == [id |-> id1, instance |-> i1, endpoint |-> e1]

\* The process that follows it under the same ID, at the same address.
Successor == [id |-> id1, instance |-> i2, endpoint |-> e1]

\* Another worker that was given the endpoint of the first.
Misplaced == [id |-> id2, instance |-> i3, endpoint |-> e1]

Contenders == {First, Successor, Misplaced}
Alone == {First}
=============================================================================
