----------------------------- MODULE MCGcInstall -----------------------------
(***************************************************************************)
(* A small instance of GcInstall for TLC. Commands are alike and releases  *)
(* are, and every property is a safety property.                           *)
(***************************************************************************)
EXTENDS GcInstall, TLC

Alike == Permutations(Admin) \cup Permutations(Version)
=============================================================================
