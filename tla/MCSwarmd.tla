------------------------------ MODULE MCSwarmd ------------------------------
(***************************************************************************)
(* A small instance of Swarmd: a forwarded and a one-shot request under    *)
(* two processes that follow each other.                                   *)
(***************************************************************************)
EXTENDS Swarmd

CONSTANTS open, finish
=============================================================================
