----------------------------- MODULE MCTenants -----------------------------
(* Tenants on small instances. *)
EXTENDS Tenants

CONSTANT name
Names == {Admin, name}
=============================================================================
