----------------------------- MODULE MCTransfer -----------------------------
(***************************************************************************)
(* A small instance of Transfer for TLC: chunks of two bytes, and files    *)
(* that are empty, end within a chunk or end with one.                     *)
(***************************************************************************)
EXTENDS Transfer

CONSTANTS x, y

Files == {<<>>, <<x>>, <<y, y>>, <<x, y, x>>}
=============================================================================
