------------------------------- MODULE MCLabGc -------------------------------
(***************************************************************************)
(* Small instances of LabGc for TLC.                                       *)
(***************************************************************************)
EXTENDS LabGc

CONSTANTS g1, g2

AllRunning == [g \in Guest |-> "running"]

\* A lease renewed by registering a second guest.
SecondGuestCommands == {"lease-begin", "lease-register"}

\* Everything that ends a lease or changes a guest while the collector runs.
ExpiryCommands ==
  {"lease-begin", "lease-heartbeat", "lease-register", "cleanup-expired",
   "lease-end", "lease-abandon", "guest-start", "guest-stop", "guest-template",
   "manual-remove"}
=============================================================================
