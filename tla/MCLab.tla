-------------------------------- MODULE MCLab --------------------------------
(***************************************************************************)
(* Small instances of Lab for TLC: the guests the host starts with and the *)
(* sets of commands each run lets its actors issue.                        *)
(***************************************************************************)
EXTENDS Claims, LabInv

CONSTANTS g1, g2

AllRunning == [g \in Guest |-> "running"]

\* Everything that takes a lease out of 'active', on adopted guests.
TeardownCommands ==
  {"lease-begin", "lease-register", "lease-end", "lease-destroy",
   "lease-abandon", "cleanup-expired", "guest-destroy"}

\* What keeps an ordinary lease open, what closes it, and what happens to its
\* guest meanwhile: anything but being started again and again.
WatchdogCommands ==
  {"lease-begin", "lease-heartbeat", "lease-register", "cleanup-expired",
   "manual-reclaim", "guest-stop", "guest-template", "manual-remove"}

\* The commands that break the sentence of Claims.
TakeoverCommands == {"lease-begin", "lease-register", "cleanup-expired"}

\* Guests made, shared, destroyed and made again, one command at a time.
SoloCommands ==
  {"lease-begin", "lease-register", "lease-end-shared", "lease-destroy",
   "cleanup-all", "guest-create", "guest-clone", "guest-destroy", "guest-start"}
OneTemplate == [g \in Guest |-> IF g = g2 THEN "stopped" ELSE "absent"]
=============================================================================
