------------------------------ MODULE SlotPool ------------------------------
(***************************************************************************)
(* What the worker promises a dispatcher about concurrency: a pool of      *)
(* slots, some of them usable by heavy jobs, never handed out beyond the   *)
(* limits the worker was started with, and returned one at a time.  The    *)
(* counters, the lock and the threads of concurrency.py do not appear:     *)
(* WorkerSlots is shown to implement this module.                          *)
(***************************************************************************)
EXTENDS Integers, FiniteSets

CONSTANT Thread          \* the job threads a worker process may run

VARIABLES holders,       \* the threads that hold a slot
          heavyHolders,  \* those of them that run a heavy job
          limits         \* [total, heavy], fixed when the worker starts

poolVars == <<holders, heavyHolders, limits>>

Init == /\ holders = {}
        /\ heavyHolders = {}
        /\ limits \in [total : Nat \ {0}, heavy : Nat \ {0}]

(* A light job takes any free slot. *)
GrantLight(t) == /\ t \notin holders
                 /\ Cardinality(holders) < limits.total
                 /\ holders' = holders \cup {t}
                 /\ UNCHANGED <<heavyHolders, limits>>

(* A heavy job takes a free slot within the heavy limit as well. *)
GrantHeavy(t) == /\ t \notin holders
                 /\ Cardinality(holders) < limits.total
                 /\ Cardinality(heavyHolders) < limits.heavy
                 /\ holders' = holders \cup {t}
                 /\ heavyHolders' = heavyHolders \cup {t}
                 /\ UNCHANGED limits

(* One job ends and gives back exactly its own slot. *)
GiveBack(t) == /\ t \in holders
               /\ holders' = holders \ {t}
               /\ heavyHolders' = heavyHolders \ {t}
               /\ UNCHANGED limits

(* The process died: every slot is free again. *)
Reset == /\ holders' = {}
         /\ heavyHolders' = {}
         /\ UNCHANGED limits

Next == \/ \E t \in Thread : GrantLight(t) \/ GrantHeavy(t) \/ GiveBack(t)
        \/ Reset

Spec == Init /\ [][Next]_poolVars
=============================================================================
