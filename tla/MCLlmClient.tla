----------------------------- MODULE MCLlmClient -----------------------------
(* LlmClient for model checking: a provider of a job's own beside the global *)
(* one.  A job with a fallback meets a second one at its own provider, or at *)
(* the global one it may cross to.                                           *)
EXTENDS LlmClient, TLC

CONSTANTS own, main, c1, c2

MCGlobal == [provider |-> main, model |-> "default"]

Pinned == [provider |-> own, model |-> "own", fallbacks |-> TRUE]
Unassisted == [Pinned EXCEPT !.fallbacks = FALSE]
OnGlobal == [provider |-> main, model |-> "default", fallbacks |-> TRUE]

MCJobs == (c1 :> {Pinned}) @@ (c2 :> {Unassisted, OnGlobal})
=============================================================================
