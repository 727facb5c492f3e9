---------------------------- MODULE MCValkeyLock ----------------------------
(* Constants of ValkeyLock for model checking. *)
EXTENDS ValkeyLock, TLC

CONSTANTS n1, n2, t1, t2, t3

(* Two job threads of one container and one of another. *)
MCNodeOf == (t1 :> n1) @@ (t2 :> n1) @@ (t3 :> n2)
(* An OCR job with the local vision model, a cleanup job beside it, and a
   translation job of the other container. *)
MCUses == (t1 :> {"ocr", "local-llm"}) @@ (t2 :> {"ocr"}) @@ (t3 :> {"local-llm"})
=============================================================================
