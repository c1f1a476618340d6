------------------------------- MODULE MCMcp -------------------------------
(* Conversations of at most two lines, each from one of the kinds that the *)
(* server treats differently; one ordinary and one long-term lease.        *)
EXTENDS McpServer

NoArguments == [none \in {} |-> InRange]
Registering == [lease |-> Text("l1"), kind |-> Text("qemu"), vmid |-> InRange]

MCMessage ==
  {Blank, Garbage, Batch, Notification("other"), Request("tools/list"),
   Ask("power_status", NoArguments), Ask("lease_register", Registering),
   Ask("lease_begin", "purpose" :> Text("work")),
   Ask("lease_end", "lease" :> Text("l1")),
   Tell("lease_destroy", "lease" :> Text("keep") @@ "confirm" :> JsonTrue),
   Ask("lease_destroy", "lease" :> Text("keep") @@ "confirm" :> Text("yes")),
   Ask("cleanup_expired", "lease_id" :> Text("l2") @@ "confirm" :> JsonTrue)}
=============================================================================
