------------------------------ MODULE Bindings ------------------------------
(***************************************************************************)
(* The objects the language bindings hand out: a Database, or one client   *)
(* of its update watcher.  The two have nothing but the watcher's promise  *)
(* in common and are checked side by side.                                 *)
(***************************************************************************)
EXTENDS Database, Clients

bvars == <<vars, cvars>>

BindingsInit ==
    /\ Init
    /\ ClientInit
    /\ client \in {"database", "python", "node", "sql", "c"}

UseDatabase == client = "database" /\ Next /\ UNCHANGED cvars
UseEvents == client # "database" /\ ClientStep /\ UNCHANGED vars

BindingsSpec ==
    /\ BindingsInit
    /\ [][UseDatabase \/ UseEvents]_bvars
    /\ Fairness
    /\ ClientFairness

=============================================================================
