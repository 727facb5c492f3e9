-------------------------- MODULE MCProviderCatalog --------------------------
(* ProviderCatalog for model checking; its constants are given in the cfgs. *)
EXTENDS ProviderCatalog, TLC

CONSTANTS j1, j2

(* One thread makes clients, the other asks for QA defaults as well. *)
MCAsks == (j1 :> {"client"}) @@ (j2 :> {"client", "qa"})
=============================================================================
