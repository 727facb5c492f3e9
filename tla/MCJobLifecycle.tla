--------------------------- MODULE MCJobLifecycle ---------------------------
(* JobLifecycle for model checking; its constants are given in the cfgs. *)
EXTENDS JobLifecycle, TLC

CONSTANTS d1, d2

(* The dispatches of a job are interchangeable. *)
MCSymmetry == Permutations({d1, d2})
=============================================================================
