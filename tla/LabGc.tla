-------------------------------- MODULE LabGc --------------------------------
(***************************************************************************)
(* The controller and the host's collector together: Lab and HostGc share  *)
(* the guests, their metadata and the clock, and nothing else. Automatic   *)
(* power-off is off, as by default.                                        *)
(***************************************************************************)
EXTENDS Lab

CONSTANTS
  Run           \* collector processes alive at once

VARIABLES powered, stamp, gc, events

Gc == INSTANCE HostGc WITH
  Lxc <- {}, AutoShutdown <- FALSE, Clear <- 1, Events <- {}, MaxEvents <- 0,
  InitGuests <- {}

lgvars == <<vars, powered, stamp, gc, events>>

LgInit ==
  /\ Init
  /\ powered = TRUE /\ stamp = 0 /\ events = 0
  /\ gc = [r \in Run |-> Gc!Asleep]

LgNext ==
  \/ Next /\ UNCHANGED <<powered, stamp, gc, events>>
  \/ (\E r \in Run : Gc!GcStep(r)) /\ UNCHANGED <<store, errors, crashes, misread, proc>>

LgSpec == LgInit /\ [][LgNext]_lgvars

\* A teardown that meets the collector on a guest still keeps its promise:
\* when finalize_lease writes 'ended', every disposable guest on the lease's
\* books that no other lease lists has left the host, whoever removed it, but
\* for one that a failed probe's text has written off.
RacingSweepIsHarmless ==
  [][\A l \in Lease :
       state[l] # "ended" /\ state'[l] = "ended" =>
         \A g \in Rows(l) : policy[l][g] = "disposable" /\ g \notin template
                            /\ ~(\E m \in Lease \ {l} : g \in Rows(m))
                            /\ g \notin misread
                            => guest[g] = "absent"]_lgvars

ByCollector == \E r \in Run : gc[r].pc = "destroy" /\ gc'[r] # gc[r]

\* resources/pxl-gc.py: "Destroy guests whose lease expired": a guest it
\* destroys is on the books of no lease that has not.
CollectsOnlyExpiredLeases ==
  [][\A g \in Guest :
       ByCollector /\ guest[g] # "absent" /\ guest'[g] = "absent" =>
         \A l \in Lease : LeaseClaims(l, g) => ~LeaseIsLive(l, now)]_lgvars

\* cleanup.finalize_lease: "An already-gone guest is success": a teardown
\* records a failure for a guest the collector has removed from under it only
\* if the host failed a call.
GoneIsSuccess ==
  [][\A a \in Actor :
       ~proc[a].failed /\ proc'[a].failed /\ errors' = errors
       => guest[proc[a].guest] # "absent"]_lgvars
=============================================================================
