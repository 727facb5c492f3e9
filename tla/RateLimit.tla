------------------------------ MODULE RateLimit -------------------------------
(***************************************************************************)
(* enforce_rate_limit (src/src/worker/utils/rate_limit.py): the threads    *)
(* that are about to call a provider take the next free slot of it under   *)
(* RATE_LIMIT_LOCK, and sleep until then outside the lock.                 *)
(*                                                                         *)
(* A provider without a limit of its own comes under RATE_LIMIT, a call    *)
(* without a provider counts for "global".  Time is whole here.  The retries *)
(* of a call take no slot (LlmClient).                                     *)
(***************************************************************************)
EXTENDS Integers, Sequences

CONSTANTS Caller,         \* threads
          Provider,       \* keys of PROVIDER_LAST_REQUEST_TIME
          MinDelay,       \* 60 / rpm of each, 0 without a limit
          MaxTime,        \* how long the clock runs
          MaxSlots        \* how many slots of a provider are taken

VARIABLES time,
          last,           \* PROVIDER_LAST_REQUEST_TIME, Never before the first
          due,            \* when a sleeping thread wakes, or Never
          target,
          slots           \* ghost: the slots of each provider, as they were given

rateVars == <<time, last, due, target, slots>>

Never == -1000

(* What the proofs take for granted of the constants; WorkerParts has TLC
   evaluate it. *)
RateAssumption ==
    /\ MinDelay \in [Provider -> Nat]
    /\ MaxTime \in Nat /\ MaxSlots \in Nat

(* mistake: the slot after the last one, even when that is long past *)
AfterLast(a, b) == b

Later(a, b) == IF a < b THEN b ELSE a

RateInit ==
    /\ time = 0
    /\ last = [p \in Provider |-> Never]
    /\ due = [c \in Caller |-> Never]
    /\ target \in [Caller -> Provider]
    /\ slots = [p \in Provider |-> <<>>]

(* mistake: the last request is said to be now, though it is still to come *)
RememberNow(p, slot) == [last EXCEPT ![p] = time]

Remember(p, slot) == [last EXCEPT ![p] = slot]

(* The slot after the last one given, or now if that is past. *)
TakeSlot(c) ==
    LET p == target[c]
        slot == Later(time, last[p] + MinDelay[p])
    IN  /\ due[c] = Never /\ MinDelay[p] > 0 /\ Len(slots[p]) < MaxSlots
        /\ last' = Remember(p, slot)
        /\ due' = [due EXCEPT ![c] = slot]
        /\ slots' = [slots EXCEPT ![p] = Append(@, slot)]
        /\ UNCHANGED <<time, target>>

(* The sleep is over, perhaps late, and the request goes out; the thread's
   next call is to any provider. *)
Request(c) ==
    /\ due[c] # Never => due[c] <= time
    /\ due[c] # Never \/ MinDelay[target[c]] = 0
    /\ due' = [due EXCEPT ![c] = Never]
    /\ target' \in {[target EXCEPT ![c] = p] : p \in Provider}
    /\ UNCHANGED <<time, last, slots>>

TimePasses ==
    /\ time < MaxTime
    /\ time' = time + 1
    /\ UNCHANGED <<last, due, target, slots>>

RateNext == (\E c \in Caller : TakeSlot(c) \/ Request(c)) \/ TimePasses

RateSpec == RateInit /\ [][RateNext]_rateVars
-----------------------------------------------------------------------------
(* The type invariant. *)
RateTypeOK ==
    /\ time \in 0 .. MaxTime /\ target \in [Caller -> Provider]
    /\ \A p \in Provider : last[p] \in Nat \cup {Never} /\ Len(slots[p]) <= MaxSlots
    /\ \A c \in Caller : due[c] \in Nat \cup {Never}

(* However many threads call a provider at once, the slots they are given are at
   least 60 / rpm seconds apart, and a thread sleeps until its own. *)
SlotsAreApart ==
    /\ \A p \in Provider : \A i, j \in DOMAIN slots[p] :
          i < j => slots[p][i] + MinDelay[p] <= slots[p][j]
    /\ \A c \in Caller : due[c] # Never => \E i \in DOMAIN slots[target[c]] : slots[target[c]][i] = due[c]
=============================================================================
