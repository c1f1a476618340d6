---------------------------- MODULE GuestCommands ----------------------------
(***************************************************************************)
(* guest.py: creating, cloning, starting, stopping, destroying a guest and *)
(* turning it into a template, with the gate each command passes first and *)
(* the host calls it makes afterwards. Also what a person does on the host *)
(* or in lab.db by hand.                                                   *)
(***************************************************************************)
EXTENDS LeaseCommands

\* require_owned: a live, non-retain row of this lease. Its state is not read.
RequireOwned(l, g) == LeaseClaims(l, g) /\ policy[l][g] # "retain"

\* The guest leaves the host and takes its config with it.
RemoveGuest(g) ==
  /\ guest' = [guest EXCEPT ![g] = "absent"]
  /\ template' = template \ {g}
  /\ meta' = [meta EXCEPT ![g] = Unstamped]

AddGuest(g, m) ==
  /\ guest' = [guest EXCEPT ![g] = "stopped"]
  /\ meta' = [meta EXCEPT ![g] = m]
  /\ UNCHANGED template

\* A retain row of some lease (the code looks at the first lease listing s,
\* here any may be first), or a config that says template: 1.
CloneSource(s) ==
  /\ guest[s] # "absent"
  /\ s \in template \/ \E m \in Lease : LeaseClaims(m, s) /\ policy[m][s] = "retain"

-----------------------------------------------------------------------------
(* guest create, guest clone                                               *)

\* Mutant of CreateLoad: the expiry of the lease is not carried over.
CreateUndated(a, l, g, c) ==
  /\ Published(l) /\ state[l] \in NonTerminal
  /\ Start(a, c, [Idle EXCEPT !.pc = "create", !.lease = l, !.guest = g])
  /\ ReadOnly

\* _lease_for_mutation: any lease not in a terminal state; its expiry is
\* read here and written on the guest when the host has built it.
CreateLoad(a, l, g, c) ==
  /\ Published(l) /\ state[l] \in NonTerminal
  /\ Start(a, c, [Idle EXCEPT !.pc = "create", !.lease = l, !.guest = g,
                              !.at = expires[l]])
  /\ ReadOnly

\* Tags and description go into the call that creates the guest; an old pct
\* that refuses them gets a second call for them.
CreateFresh(a) ==
  LET g == proc[a].guest IN
  /\ proc[a].pc = "create" /\ proc[a].cmd = "guest-create"
  /\ guest[g] = "absent"
  /\ \/ /\ AddGuest(g, Stamp(proc[a].lease, proc[a].at))
        /\ \/ UNCHANGED env /\ Goto(a, [proc[a] EXCEPT !.pc = "create-row"])
           \/ AnswerLost /\ Goto(a, Idle)
     \/ /\ AddGuest(g, Unstamped) /\ UNCHANGED env
        /\ Goto(a, [proc[a] EXCEPT !.pc = "clone-stamp"])
  /\ UNCHANGED store

\* guest clone, and guest create from a template: a clone copies the
\* description of its source until it is restamped.
CreateClone(a) ==
  /\ proc[a].pc = "create"
  /\ guest[proc[a].guest] = "absent"
  /\ \E s \in Guest : CloneSource(s) /\ AddGuest(proc[a].guest, meta[s])
  /\ \/ UNCHANGED env /\ Goto(a, [proc[a] EXCEPT !.pc = "clone-stamp"])
     \/ AnswerLost /\ Goto(a, Idle)
  /\ UNCHANGED store

\* The vmid is taken, or no source is vouched for, or the host refused.
CreateRefused(a) ==
  /\ proc[a].pc = "create"
  /\ \/ guest[proc[a].guest] # "absent" /\ UNCHANGED <<host, env>>
     \/ proc[a].cmd = "guest-clone" /\ ~(\E s \in Guest : CloneSource(s))
        /\ UNCHANGED <<host, env>>
     \/ HostError
  /\ Goto(a, Idle)
  /\ UNCHANGED store

CloneStamp(a) ==
  LET g == proc[a].guest IN
  /\ proc[a].pc = "clone-stamp"
  /\ \/ /\ guest[g] # "absent"
        /\ SetMeta(g, Stamp(proc[a].lease, proc[a].at))
        /\ \/ UNCHANGED env /\ Goto(a, [proc[a] EXCEPT !.pc = "create-row"])
           \/ AnswerLost /\ Goto(a, Idle)
     \/ guest[g] = "absent" /\ Goto(a, Idle) /\ UNCHANGED <<host, env>>
     \/ HostError /\ Goto(a, Idle)
  /\ UNCHANGED store

\* A duplicate (lease, kind, vmid) is not swallowed here: it raises.
CreateRow(a) ==
  LET l == proc[a].lease
      g == proc[a].guest IN
  /\ proc[a].pc = "create-row"
  /\ \/ /\ InsertRow(l, g, "disposable")
        /\ \E p \in {[proc[a] EXCEPT !.pc = "create-start"], Idle} :
             /\ proc[a].cmd = "guest-clone" => p = Idle
             /\ Goto(a, p)
     \/ rowid[l][g] # 0 /\ UNCHANGED store /\ Goto(a, Idle)
  /\ UNCHANGED <<host, env>>

-----------------------------------------------------------------------------
(* guest start (also the --start of guest create), guest stop              *)

StartGate(a, l, g) ==
  /\ RequireOwned(l, g)
  /\ Start(a, "guest-start", [Idle EXCEPT !.pc = "start", !.lease = l, !.guest = g])
  /\ ReadOnly

StopGate(a, l, g) ==
  /\ RequireOwned(l, g)
  /\ Start(a, "guest-stop", [Idle EXCEPT !.pc = "halt", !.lease = l, !.guest = g])
  /\ ReadOnly

StartGuest(a) ==
  LET g == proc[a].guest IN
  /\ proc[a].pc \in {"start", "create-start"}
  /\ \/ /\ guest[g] = "stopped" /\ g \notin template
        /\ SetGuest(g, "running")
        /\ UNCHANGED env \/ AnswerLost
     \/ (guest[g] # "stopped" \/ g \in template) /\ UNCHANGED <<host, env>>
     \/ HostError
  /\ Goto(a, Idle)
  /\ UNCHANGED store

StopGuest(a) ==
  LET g == proc[a].guest IN
  /\ proc[a].pc = "halt"
  /\ \/ /\ guest[g] = "running" /\ SetGuest(g, "stopped")
        /\ UNCHANGED env \/ AnswerLost
     \/ guest[g] # "running" /\ UNCHANGED <<host, env>>
     \/ HostError
  /\ Goto(a, Idle)
  /\ UNCHANGED store

-----------------------------------------------------------------------------
(* guest destroy                                                           *)

DestroyGate(a, l, g) ==
  /\ RequireOwned(l, g) /\ ~RowElsewhere(l, g)
  /\ Start(a, "guest-destroy",
           [Idle EXCEPT !.pc = "gd-check", !.lease = l, !.guest = g])
  /\ ReadOnly

\* A readable config that says template, or carries no ownership tag, is
\* refused; an unreadable one (None) is not.
DestroyCheck(a) ==
  LET g == proc[a].guest
      refused == g \in template \/ (guest[g] # "absent" /\ meta[g] = Unstamped) IN
  /\ proc[a].pc = "gd-check"
  /\ \/ /\ Goto(a, IF refused THEN Idle ELSE [proc[a] EXCEPT !.pc = "gd-stop"])
        /\ UNCHANGED <<host, env>>
     \/ HostError /\ Goto(a, [proc[a] EXCEPT !.pc = "gd-stop"])
  /\ UNCHANGED store

\* An error qm or pct reports while stopping is passed over; one of ssh is not.
DestroyStop(a) ==
  LET g == proc[a].guest
      on == [proc[a] EXCEPT !.pc = "gd-delete"] IN
  /\ proc[a].pc = "gd-stop"
  /\ \/ guest[g] # "running" /\ UNCHANGED <<host, env>> /\ Goto(a, on)
     \/ /\ guest[g] = "running" /\ SetGuest(g, "stopped")
        /\ \/ UNCHANGED env /\ Goto(a, on)
           \/ AnswerLost /\ Goto(a, Idle)
     \/ HostError /\ (Goto(a, on) \/ Goto(a, Idle))
  /\ UNCHANGED store

\* Nothing to destroy, or a guest that runs again, raises out of the command.
DestroyDelete(a) ==
  LET g == proc[a].guest IN
  /\ proc[a].pc = "gd-delete"
  /\ \/ /\ guest[g] = "stopped"
        /\ RemoveGuest(g)
        /\ \/ UNCHANGED env /\ Goto(a, [proc[a] EXCEPT !.pc = "gd-mark"])
           \/ AnswerLost /\ Goto(a, Idle)
     \/ guest[g] # "stopped" /\ Goto(a, Idle) /\ UNCHANGED <<host, env>>
     \/ HostError /\ Goto(a, Idle)
  /\ UNCHANGED store

DestroyMark(a) ==
  /\ proc[a].pc = "gd-mark"
  /\ MarkDestroyed(proc[a].lease, proc[a].guest)
  /\ Goto(a, Idle)
  /\ UNCHANGED <<host, env>>

-----------------------------------------------------------------------------
(* guest template                                                          *)

TemplateGate(a, l, g) ==
  /\ RequireOwned(l, g) /\ ~RowElsewhere(l, g)
  /\ Start(a, "guest-template",
           [Idle EXCEPT !.pc = "convert", !.lease = l, !.guest = g])
  /\ ReadOnly

ConvertGuest(a) ==
  LET g == proc[a].guest IN
  /\ proc[a].pc = "convert"
  /\ \/ /\ guest[g] = "stopped" /\ g \notin template
        /\ template' = template \cup {g}
        /\ UNCHANGED <<guest, meta>>
        /\ UNCHANGED env \/ AnswerLost
     \/ (guest[g] # "stopped" \/ g \in template) /\ UNCHANGED <<host, env>>
     \/ HostError
  /\ Goto(a, Idle)
  /\ UNCHANGED store

-----------------------------------------------------------------------------
(* Somebody with root on the host deletes a guest.                         *)

ManualRemove(g) ==
  /\ "manual-remove" \in Commands
  /\ guest[g] # "absent"
  /\ RemoveGuest(g)
  /\ UNCHANGED <<store, env, proc>>

GuestStep(a) ==
  \/ \E l \in Lease, g \in Guest :
       \/ \E c \in {"guest-create", "guest-clone"} : CreateLoad(a, l, g, c)
       \/ StartGate(a, l, g) \/ StopGate(a, l, g)
       \/ DestroyGate(a, l, g) \/ TemplateGate(a, l, g)
  \/ CreateFresh(a) \/ CreateClone(a) \/ CreateRefused(a)
  \/ CloneStamp(a) \/ CreateRow(a)
  \/ StartGuest(a) \/ StopGuest(a)
  \/ DestroyCheck(a) \/ DestroyStop(a) \/ DestroyDelete(a) \/ DestroyMark(a)
  \/ ConvertGuest(a)
=============================================================================
