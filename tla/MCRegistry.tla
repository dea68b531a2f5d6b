------------------------------ MODULE MCRegistry ------------------------------
(* Small instances of Registry. *)
EXTENDS Registry, TLC

CONSTANTS d1, d2, d3

Info(verb, exact, path, body) ==
  [verb |-> verb, exact |-> exact, path |-> path, body |-> body]
Body(package, name) == [package |-> package, name |-> name]

MCNode == "/users" :> 1 @@ "/users/{id}" :> 2 @@ "/orders" :> 3

\* A duplicate: whichever of d1 and d2 comes last counts.  Two packages have a
\* type CreateUser: where d1 comes last, its path and d3's dispute the name.
Duplicates ==
  d1 :> Info("POST", TRUE, "/users", Body("users", "CreateUser")) @@
  d2 :> Info("POST", TRUE, "/users", Body("users", "CreateAdmin")) @@
  d3 :> Info("GET", FALSE, "/orders", Body("orders", "CreateUser"))
===============================================================================
