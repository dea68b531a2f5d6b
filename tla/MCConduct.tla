------------------------------- MODULE MCConduct -------------------------------
(* Small instances of Conduct: a parent that is a strand itself, two children. *)
EXTENDS Conduct

MCRows == <<"core", "api", "ui">>

Relay(from, to, slug, phase, kind) ==
  [from |-> from, to |-> to, slug |-> slug, phase |-> phase, kind |-> kind]

\* phase_slash names a child's e2e-needs relay after its repository alone.
MCRelays ==
  { Relay("api", "core", "api-e2e-needs", 4, "e2e"),
    Relay("ui", "api", "list-endpoint", 2, "ask") }
===============================================================================
