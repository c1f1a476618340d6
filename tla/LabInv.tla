-------------------------------- MODULE LabInv --------------------------------
(***************************************************************************)
(* The inductive invariants behind the safety of Lab: what is true of      *)
(* every command's locals and of the leases and guests it refers to, at    *)
(* every program point. Checked by TLC, proved in LabProofs and            *)
(* TeardownProofs.                                                         *)
(***************************************************************************)
EXTENDS Lab

OpenState == {"active", "cleanup_failed"}

Sweeps == {"cleanup-expired", "cleanup-all"}

\* Points at which the command has no lease, and those at which it works on
\* one guest.
Leaseless == {"idle", "sweep"}
GuestPc ==
  {"reg-row", "reg-beat", "reg-stamp", "create", "clone-stamp", "create-row",
   "create-start", "start", "halt", "convert",
   "gd-check", "gd-stop", "gd-delete", "gd-mark",
   "stop", "shutdown", "delete", "confirm", "reconfirm", "forget"}

\* A command that claims a lease claims it out of an open state, and only the
\* two sweeps loop over leases.
Sound(p) ==
  /\ p.pc \notin Leaseless => p.lease \in Lease
  /\ p.pc \in GuestPc => p.guest \in Guest
  /\ p.pc \in Finalizer \cup {"claim", "abandon-claim"} => p.prior \in OpenState
  /\ \A b \in p.batch : b.prior \in OpenState
  /\ p.pc = "sweep" => p.cmd \in Sweeps

Located == TypeOK /\ \A a \in Actor : Sound(proc[a])

\* The claim is exclusive: a lease that is held is in 'ending', or its
\* lease-begin failed meanwhile; lease-destroy's second save comes after the
\* claim is over.
Claimed ==
  /\ OneFinalizer
  /\ \A a \in Actor, l \in Lease : Holds(a, l) => state[l] \in {"ending", "abandoned"}
  /\ \A a, b \in Actor :
       proc[a].pc = "save-destroyed" =>
         state[proc[a].lease] \in Terminal /\ ~Holds(b, proc[a].lease)

\* All that can be done to a lease whose lease-begin has not returned: a sweep
\* has claimed it, found no resources and is about to save it.
Empty(p) ==
  p.pc = "finalize" /\ p.cmd \in Sweeps /\ p.todo = {} /\ ~p.failed

\* A lease lease-begin has not printed has no rows and nobody but a sweep
\* knows it; if its lease-begin fails, that sweep's save cannot reopen it.
Young ==
  /\ \A a \in Actor :
       proc[a].pc = "begun" => state[proc[a].lease] # "none" /\ Rows(proc[a].lease) = {}
  /\ \A l \in Lease : state[l] = "none" => Rows(l) = {}
  /\ \A a \in Actor : proc[a].pc \notin Leaseless => state[proc[a].lease] # "none"
  /\ \A a \in Actor : \A b \in proc[a].batch : state[b.lease] # "none"
  /\ \A a, b \in Actor :
       proc[a].pc = "begun" /\ a # b /\ proc[b].lease = proc[a].lease =>
         proc[b].pc \in Leaseless \/ Empty(proc[b])
  /\ \A a, b \in Actor : \A c \in proc[b].batch :
       proc[a].pc = "begun" /\ c.lease = proc[a].lease => c.todo = {}
  /\ \A a \in Actor, l \in Lease :
       Holds(a, l) /\ state[l] = "abandoned" => Empty(proc[a])

IInv == Located /\ Claimed /\ Young

-----------------------------------------------------------------------------
(* Behind StampsMatchKind: expiry 0 means "never" everywhere, in the row,  *)
(* in what a command carries over and in what is stamped on a guest.       *)

GoodStamp(m) ==
  m.lease \in Lease =>
    /\ state[m.lease] # "none"
    /\ m.lease \notin LongTerm => m.expiry # 0
    /\ m.lease \in LongTerm /\ state[m.lease] = "active" => m.expiry = 0

\* A command that renews or ends a lease has an ordinary one, and one that is
\* about to stamp a guest has the expiry of its kind.
Dated(p) ==
  /\ p.pc \in {"hb-store", "hb-stamp", "reg-beat", "shared", "release"} =>
       p.lease \notin LongTerm
  /\ p.pc = "unprotect" => p.lease \in LongTerm
  /\ p.pc \in {"hb-stamp", "reg-beat"} => p.at # 0
  /\ p.pc \in {"reg-stamp", "create", "clone-stamp"} =>
       (p.at = 0 <=> p.lease \in LongTerm)

Stamps ==
  /\ now >= Epoch
  /\ \A l \in Lease : state[l] # "none" => (expires[l] = 0 <=> l \in LongTerm)
  /\ \A g \in Guest : GoodStamp(meta[g])
  /\ \A a \in Actor : Dated(proc[a])

-----------------------------------------------------------------------------
(* Behind TombstoneIsTruth: a guest about to be written off is gone, and   *)
(* as long as no vmid is used twice it stays so.                           *)

\* The guests some lease has or has had a row of.
Listed == {g \in Guest : \E l \in Lease : rowid[l][g] # 0}

\* Points at which a command works on a guest it has found in a row.
OnBooksPc ==
  {"stop", "shutdown", "delete", "confirm", "reconfirm", "forget",
   "gd-check", "gd-stop", "gd-delete", "gd-mark"}

Known(p) ==
  /\ p.todo \subseteq Listed
  /\ \A b \in p.batch : b.todo \subseteq Listed
  /\ p.pc \in OnBooksPc => p.guest \in Listed

Booked ==
  /\ \A l \in Lease, g \in Guest : gone[l][g] => rowid[l][g] # 0
  /\ \A a \in Actor : Known(proc[a])

Tombs ==
  /\ TombstoneIsTruth
  /\ \A a \in Actor :
       proc[a].pc \in {"forget", "gd-mark"} => TakenForGone(proc[a].guest)

\* A step that makes no guest under a vmid some lease has had a row of.
NoVmidTwice ==
  \A g \in Listed : guest[g] = "absent" => guest'[g] = "absent"

\* One way to be sure of it.
NoCreates == {"guest-create", "guest-clone"} \cap Commands = {}

-----------------------------------------------------------------------------
(* Behind EndedLeftNothing: one command at a time never loses a guest out  *)
(* of sight between the snapshot it takes and the save.                    *)

OneActor == \A a, b \in Actor : a = b

Complete(p) ==
  /\ p.batch # {} => p.pc \in Finalizer \cup {"sweep"}
  /\ \A b \in p.batch : Undestroyed(b.lease) \subseteq b.todo
  /\ p.pc \in Finalizer \cup {"claim"} /\ ~p.failed =>
       \A g \in Undestroyed(p.lease) : g \in p.todo \/ Settled(p.lease, g)

Accounted == \A a \in Actor : Complete(proc[a])

\* All of it: what makes the commands safe, and, where no command makes a guest
\* or one command runs at a time, what follows from that.
Inductive ==
  /\ IInv /\ Stamps /\ Booked
  /\ NoCreates => Tombs
  /\ OneActor => Accounted
=============================================================================
