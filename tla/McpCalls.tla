------------------------------ MODULE McpCalls ------------------------------
(***************************************************************************)
(* One line of an MCP conversation, and what stands between a tools/call   *)
(* and its handler (mcp.py): the schema check, the confirm gates and the   *)
(* namespace an adapter builds.                                            *)
(***************************************************************************)
EXTENDS Naturals, FiniteSets, TLC

(* JSON values, as far as the checks tell them apart. *)
Json(type, val) == [type |-> type, val |-> val]
Text(s)   == Json("string", s)
InRange   == Json("integer", "in range")
Huge      == Json("integer", "over any maximum")
Real      == Json("number", "1.5")
JsonTrue  == Json("boolean", "true")
JsonFalse == Json("boolean", "false")
Names     == Json("array", "strings")
Misspelt  == Json("array", "strings that name no key")
Mixture   == Json("array", "mixed")

(* Property specifications of an input schema. *)
Field(type, enum, capped) == [type |-> type, enum |-> enum, capped |-> capped]
OneOf(names) == Field("string", names, FALSE)
Str   == Field("string", {}, FALSE)
Whole == Field("integer", {}, FALSE)
Upto  == Field("integer", {}, TRUE)      \* an integer with a maximum
Bool  == Field("boolean", {}, FALSE)
Num   == Field("number", {}, FALSE)
Keys  == Field("array", {}, FALSE)
Kind  == OneOf({"qemu", "lxc"})
Space == OneOf({"framebuffer", "image"})

Object(required, fields) == [required |-> required, fields |-> fields]
Nothing == Object({}, [none \in {} |-> Str])

\* TOOLS: the fields of a call and which of them it must have.
LeaseTools ==
  [lease_begin |-> Object({"purpose"},
     [purpose |-> Str, long_term |-> Bool, ttl_seconds |-> Whole]),
   lease_heartbeat |-> Object({"lease"}, [lease |-> Str, ttl_seconds |-> Whole]),
   lease_end |-> Object({"lease"}, [lease |-> Str, shared_guests_authorized |-> Bool]),
   lease_list |-> Object({}, [include_ended |-> Bool]),
   lease_destroy |-> Object({"lease", "confirm"}, [lease |-> Str, confirm |-> Bool]),
   lease_register |-> Object({"lease", "kind", "vmid"},
     [lease |-> Str, kind |-> Kind, vmid |-> Whole, name |-> Str, allow_existing |-> Bool])]

GuestTools ==
  LET Owned == {"lease_id", "vmid"}
      File  == Object(Owned \cup {"local_path", "remote_path"},
                 [lease_id |-> Str, vmid |-> Whole, local_path |-> Str, remote_path |-> Str,
                  sha256 |-> Str, timeout |-> Upto]) IN
  [guest_nextid |-> Nothing,
   guest_create |-> Object(Owned,
     [lease_id |-> Str, vmid |-> Whole, kind |-> Kind, name |-> Str, memory |-> Whole,
      cores |-> Whole, start |-> Bool, template |-> Whole, ostemplate |-> Str, storage |-> Str,
      disk_gb |-> Whole, disk_bus |-> OneOf({"scsi", "ide"}), nic |-> Str, bridge |-> Str,
      cpu |-> Str, machine |-> Str, vga |-> OneOf({"std", "cirrus", "vmware", "none"}),
      ostype |-> Str, boot |-> Str, iso |-> Str, fresh |-> Bool]),
   guest_clone |-> Object(Owned \cup {"source"},
     [lease_id |-> Str, vmid |-> Whole, source |-> Whole, name |-> Str, full |-> Bool]),
   guest_media |-> Object(Owned,
     [lease_id |-> Str, vmid |-> Whole, cdrom |-> Str, floppy |-> Str,
      eject |-> OneOf({"cdrom", "floppy"})]),
   guest_start |-> Object(Owned, [lease_id |-> Str, vmid |-> Whole]),
   guest_stop |-> Object(Owned,
     [lease_id |-> Str, vmid |-> Whole, timeout |-> Upto, force |-> Bool]),
   guest_destroy |-> Object(Owned \cup {"confirm"},
     [lease_id |-> Str, vmid |-> Whole, confirm |-> Bool, purge |-> Bool]),
   guest_probe |-> Object({"vmid"}, [vmid |-> Whole]),
   guest_list |-> Object({}, [lease_id |-> Str, state |-> OneOf({"running", "stopped", "all"})]),
   guest_snapshot |-> Object(Owned \cup {"action"},
     [lease_id |-> Str, vmid |-> Whole, action |-> OneOf({"list", "create", "delete", "rollback"}),
      name |-> Str, description |-> Str, confirm |-> Bool]),
   guest_template |-> Object(Owned \cup {"confirm"},
     [lease_id |-> Str, vmid |-> Whole, confirm |-> Bool]),
   guest_run |-> Object(Owned \cup {"command"},
     [lease_id |-> Str, vmid |-> Whole, command |-> Str, timeout |-> Upto, stdin |-> Str]),
   push_file |-> File,
   pull_file |-> File]

ConsoleTools ==
  LET Owned == {"lease_id", "vmid"}
      Place == Owned \cup {"x", "y"} IN
  [console_move |-> Object(Place,
     [lease_id |-> Str, vmid |-> Whole, x |-> Whole, y |-> Whole, space |-> Space, client |-> Str]),
   console_click |-> Object(Place,
     [lease_id |-> Str, vmid |-> Whole, x |-> Whole, y |-> Whole, space |-> Space, client |-> Str,
      button |-> OneOf({"left", "middle", "right"}), double |-> Bool]),
   console_drag |-> Object(Place \cup {"to_x", "to_y"},
     [lease_id |-> Str, vmid |-> Whole, x |-> Whole, y |-> Whole, to_x |-> Whole, to_y |-> Whole,
      steps |-> Upto, space |-> Space, client |-> Str]),
   console_calibrate |-> Object({"vmid"},
     [vmid |-> Whole, action |-> OneOf({"start", "submit", "commit", "status"}),
      samples |-> Str, client |-> Str]),
   console_grid |-> Object({"vmid"}, [vmid |-> Whole, step |-> Whole]),
   console_burst |-> Object({"vmid"}, [vmid |-> Whole, frames |-> Upto, interval |-> Num]),
   console_screenshot |-> Object(Owned, [lease_id |-> Str, vmid |-> Whole]),
   console_type |-> Object(Owned \cup {"text"},
     [lease_id |-> Str, vmid |-> Whole, text |-> Str, enter |-> Bool]),
   console_keys |-> Object(Owned \cup {"keys"}, [lease_id |-> Str, vmid |-> Whole, keys |-> Keys])]

HostTools ==
  [cleanup_expired |-> Object({"lease_id", "confirm"},
     [lease_id |-> Str, confirm |-> Bool, all |-> Bool]),
   journal_query |-> Object({}, [lease_id |-> Str, since |-> Str, limit |-> Upto]),
   doctor |-> Object({}, [host_checks |-> Bool]),
   status |-> Nothing,
   power_status |-> Nothing,
   storage_status |-> Nothing,
   storage_content |-> Object({}, [storage |-> Str]),
   network_bridges |-> Nothing,
   net_capture |-> Object({"lease_id", "vmid", "out"},
     [lease_id |-> Str, vmid |-> Whole, out |-> Str, nic |-> Str, seconds |-> Upto,
      count |-> Upto, filter |-> Str])]

Schema == LeaseTools @@ GuestTools @@ ConsoleTools @@ HostTools

Tool == DOMAIN Schema

\* _json_type_ok: a bool is no integer but passes for a number, and a type
\* without an entry in _JSON_TYPES, boolean, is not checked at all.
JsonTypeOk(value, type) ==
  CASE type = "boolean" -> TRUE
    [] type = "number" -> value.type \in {"integer", "number", "boolean"}
    [] OTHER -> value.type = type

FieldOk(value, spec) ==
  /\ JsonTypeOk(value, spec.type)
  /\ spec.enum # {} => value.val \in spec.enum
  /\ spec.capped => value # Huge
  /\ spec.type = "array" => value # Mixture

\* _check_params: no unknown field, every required one, each of its shape.
CheckParams(name, args) ==
  LET schema == Schema[name] IN
  /\ DOMAIN args \subseteq DOMAIN schema.fields
  /\ schema.required \subseteq DOMAIN args
  /\ \A key \in DOMAIN args : FieldOk(args[key], schema.fields[key])

ConfirmTools == {"lease_destroy", "guest_destroy", "guest_template", "cleanup_expired"}

\* Mutant of Confirmed: what Python takes for true is good enough.
Truthy(args) == "confirm" \in DOMAIN args /\ args["confirm"] \notin {JsonFalse, Text("")}

\* `confirm` must be literally true.
Confirmed(args) == "confirm" \in DOMAIN args /\ args["confirm"] = JsonTrue

\* What an adapter refuses itself: a snapshot action that destroys without
\* confirm or that has no name, a command of no words, an unknown key.
AdapterRefuses(name, args) ==
  \/ /\ name = "guest_snapshot"
     /\ \/ args["action"].val \in {"delete", "rollback"} /\ ~Confirmed(args)
        \/ args["action"].val # "list" /\ ("name" \notin DOMAIN args \/ args["name"] = Text(""))
  \/ name = "guest_run" /\ args["command"] = Text("")
  \/ name = "console_keys" /\ args["keys"] = Misspelt

\* Everything _run_tool answers with _ParamsError.
ParamsError(name, args) ==
  \/ name \notin Tool
  \/ ~CheckParams(name, args)
  \/ name \in ConfirmTools /\ ~Confirmed(args)
  \/ AdapterRefuses(name, args)

\* The attributes a handler reads and no adapter fills in: without the field
\* they stand for, args.name is an AttributeError before any host call.
Unfilled(name) == IF name \in {"lease_register", "guest_clone"} THEN {"name"} ELSE {}
NamespaceFits(name, args) == Unfilled(name) \subseteq DOMAIN args

\* The calls an adapter answers without _invoke: they run no cmd_* handler.
Direct(name, args) ==
  \/ name \in {"lease_list", "journal_query", "power_status"}
  \/ name = "guest_run" /\ "stdin" \in DOMAIN args

-----------------------------------------------------------------------------
(* Lines.                                                                  *)

NoCall == [params |-> "none", name |-> "none", args |-> <<>>]
Call(name, args) == [params |-> "object", name |-> name, args |-> args]

Line(form, id, method, call) ==
  [form |-> form, id |-> id, method |-> method, call |-> call]

\* What json.loads makes of a line: nothing, a blank line is skipped before;
\* a value that is no object; an object.
Blank   == Line("blank", FALSE, "none", NoCall)
Garbage == Line("garbage", FALSE, "none", NoCall)
Batch   == Line("value", FALSE, "none", NoCall)
Request(method)      == Line("object", TRUE, method, NoCall)
Notification(method) == Line("object", FALSE, method, NoCall)
Ask(name, args)      == Line("object", TRUE, "tools/call", Call(name, args))
Tell(name, args)     == Line("object", FALSE, "tools/call", Call(name, args))

Forms   == {"blank", "garbage", "value", "object"}
Methods == {"none", "initialize", "tools/list", "tools/call", "other"}

\* A line that reaches _call_tool with a tool name.
IsCall(m) == m.form = "object" /\ m.method = "tools/call" /\ m.call.params = "object"

\* A line that is answered: broken ones are, notifications never.
Answered(m) == m.form \in {"garbage", "value"} \/ (m.form = "object" /\ m.id)

\* The codes of _handle_line and _handle_message for a line without a call.
PlainCode(m) ==
  CASE m.form = "garbage" -> "parse error"
    [] m.form = "value" -> "invalid request"
    [] m.method = "none" -> "invalid request"
    [] m.method \in {"initialize", "tools/list"} -> "result"
    [] m.method = "tools/call" -> "invalid params"
    [] OTHER -> "method not found"

Codes == {"result", "parse error", "invalid request", "method not found",
          "invalid params", "internal error"}
=============================================================================
