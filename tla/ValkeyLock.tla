----------------------------- MODULE ValkeyLock -----------------------------
(***************************************************************************)
(* The Valkey lock of src/src/worker/utils/lock.py and the way the worker  *)
(* uses it: "ocr" is scoped to a node, "local-llm" is one key for the      *)
(* whole deployment.  A job may take both, one after the other: the OCR    *)
(* handler asks the local vision model when it has left its "ocr" section. *)
(*                                                                         *)
(* One tick of the clock is one poll period (0.5 s in the code).  Expire   *)
(* and Timeout are ticks; both are 600 s for every lock of the worker.     *)
(* A reply of Valkey may be lost, a node may be killed at any step, and a  *)
(* key outlives its holder until its TTL fires or the node's next startup  *)
(* sweeps it.                                                              *)
(***************************************************************************)
EXTENDS Integers, FiniteSets

CONSTANTS Node, Thread, NodeOf,  \* containers, their job threads
          Uses,                  \* the locks the jobs of a thread take
          Token,                 \* uuid4 values, numbered
          NoToken,
          Expire,                \* TTL of a key
          Timeout                \* how long acquire_lock polls

ASSUME LockAssumption ==
    /\ NodeOf \in [Thread -> Node]
    /\ Uses \in [Thread -> SUBSET {"ocr", "local-llm"}]
    /\ Token \subseteq Nat /\ NoToken \notin Token
    /\ Expire \in Nat \ {0} /\ Timeout \in Nat \ {0}

VARIABLES store,    \* key -> the token stored there, or NoToken
          ttl,      \* key -> ticks until Valkey drops it
          up,       \* the nodes whose worker process runs
          want,     \* the lock a thread is polling for, or "none"
          pc,       \* "idle", "poll", "sleep", "work"
          waited,   \* ticks since the thread began to poll
          hold,     \* thread -> lock -> the token it believes is stored
          lapsed,   \* ghost: that token's TTL fired while it was held
          orphan    \* ghost: node keys nobody will release, by a lost reply,
                    \* a failed release or a failed sweep

vars == <<store, ttl, up, want, pc, waited, hold, lapsed, orphan>>

Lock == {"ocr", "local-llm"}
NodeScoped == {"ocr"}
Key == [lock : NodeScoped, node : Node] \cup [lock : Lock \ NodeScoped]

(* lock_key = f"lock:{lock_name}", with the node's name when node_scoped. *)
KeyOnNode(l, n) == IF l \in NodeScoped THEN [lock |-> l, node |-> n] ELSE [lock |-> l]
KeyOf(t, l) == KeyOnNode(l, NodeOf[t])

Holds(t, l) == hold[t][l] # NoToken
InUse == {store[k] : k \in Key} \cup {hold[t][l] : t \in Thread, l \in Lock}

(* uuid4 never repeats a token somebody still knows; which new one it is makes
   no difference, so the model takes the least. *)
Fresh(tok) == tok \notin InUse /\ \A m \in Token : m < tok => m \in InUse

(* Tokens, times to live and waits are in their ranges: no counter runs below
   zero or beyond its limit. *)
TypeOK == /\ store \in [Key -> Token \cup {NoToken}]
          /\ ttl \in [Key -> 0..Expire]
          /\ up \subseteq Node
          /\ want \in [Thread -> Lock \cup {"none"}]
          /\ pc \in [Thread -> {"idle", "poll", "sleep", "work"}]
          /\ waited \in [Thread -> 0..Timeout]
          /\ hold \in [Thread -> [Lock -> Token \cup {NoToken}]]
          /\ lapsed \in [Thread -> [Lock -> BOOLEAN]]
          /\ orphan \subseteq Key

Init == /\ store = [k \in Key |-> NoToken]
        /\ ttl = [k \in Key |-> 0]
        /\ up = Node
        /\ want = [t \in Thread |-> "none"]
        /\ pc = [t \in Thread |-> "idle"]
        /\ waited = [t \in Thread |-> 0]
        /\ hold = [t \in Thread |-> [l \in Lock |-> NoToken]]
        /\ lapsed = [t \in Thread |-> [l \in Lock |-> FALSE]]
        /\ orphan = {}

-----------------------------------------------------------------------------
(* acquire_lock is entered, never inside another section. *)
Begin(t, l) ==
    /\ NodeOf[t] \in up
    /\ pc[t] = "idle"
    /\ l \in Uses[t]
    /\ want' = [want EXCEPT ![t] = l]
    /\ pc' = [pc EXCEPT ![t] = "poll"]
    /\ UNCHANGED <<store, ttl, up, waited, hold, lapsed, orphan>>

(* The lock is not to be had: a request to a local model is answered with
   None, and a job that needs "ocr" fails. *)
GiveUp(t) ==
    /\ pc' = [pc EXCEPT ![t] = "idle"]
    /\ want' = [want EXCEPT ![t] = "none"]
    /\ waited' = [waited EXCEPT ![t] = 0]

(* The reply of SET reaches the thread: it enters the critical section. *)
Enter(t, tok) ==
    /\ hold' = [hold EXCEPT ![t][want[t]] = tok]
    /\ lapsed' = [lapsed EXCEPT ![t][want[t]] = FALSE]
    /\ pc' = [pc EXCEPT ![t] = "work"]
    /\ want' = [want EXCEPT ![t] = "none"]
    /\ waited' = [waited EXCEPT ![t] = 0]

(* The condition of the polling loop. *)
StillWaiting(t) == pc[t] = "poll" /\ waited[t] < Timeout

SetWithoutNx(k) == TRUE   \* mistake: SET overwrites whatever is stored

SetSucceeds(k) == store[k] = NoToken

SetWithoutEx(k, tok) ==   \* mistake: the key has no TTL
    store' = [store EXCEPT ![k] = tok] /\ UNCHANGED ttl

StoreKey(k, tok) ==
    /\ store' = [store EXCEPT ![k] = tok]
    /\ ttl' = [ttl EXCEPT ![k] = Expire]

(* The orphans after a step: the new ones too, without the keys that are free. *)
Orphaned(new) ==
    orphan' = {k \in orphan \cup new : k.lock \in NodeScoped /\ store'[k] # NoToken}

(* SET key token NX EX expire finds the key free.  Valkey applies it; the
   reply arrives, or is lost, in which case acquire_lock raises outside its
   try block and nobody will release the key. *)
TrySetFree(t, tok) ==
    /\ StillWaiting(t)
    /\ Fresh(tok)
    /\ SetSucceeds(KeyOf(t, want[t]))
    /\ StoreKey(KeyOf(t, want[t]), tok)
    /\ \/ Enter(t, tok) /\ Orphaned({})
       \/ GiveUp(t) /\ UNCHANGED <<hold, lapsed>> /\ Orphaned({KeyOf(t, want[t])})
    /\ UNCHANGED up

(* The key is taken: sleep one poll period. *)
TrySetTaken(t) ==
    /\ StillWaiting(t)
    /\ ~SetSucceeds(KeyOf(t, want[t]))
    /\ pc' = [pc EXCEPT ![t] = "sleep"]
    /\ UNCHANGED <<store, ttl, up, want, waited, hold, lapsed, orphan>>

(* The SET never reached Valkey: redis-py raises and acquire_lock with it. *)
SetFails(t) ==
    /\ StillWaiting(t)
    /\ GiveUp(t)
    /\ UNCHANGED <<store, ttl, up, hold, lapsed, orphan>>

(* The loop condition is false: TimeoutError. *)
TimesOut(t) ==
    /\ pc[t] = "poll" /\ ~StillWaiting(t)
    /\ GiveUp(t)
    /\ UNCHANGED <<store, ttl, up, hold, lapsed, orphan>>

-----------------------------------------------------------------------------
Drop(k) == /\ store' = [store EXCEPT ![k] = NoToken]
           /\ ttl' = [ttl EXCEPT ![k] = 0]

(* _RELEASE_SCRIPT: compare and delete in one step. *)
ReleaseScript(t, l) ==
    IF store[KeyOf(t, l)] = hold[t][l] THEN Drop(KeyOf(t, l))
                                       ELSE UNCHANGED <<store, ttl>>

(* Leaving the with block, normally or by an exception of the body.  The
   script runs, or its call fails and is only logged: then the key stays
   behind. *)
Release(t, l) ==
    /\ pc[t] = "work" /\ Holds(t, l)
    /\ \/ ReleaseScript(t, l) /\ Orphaned({})
       \/ /\ UNCHANGED <<store, ttl>>
          /\ Orphaned({k \in {KeyOf(t, l)} : store[k] = hold[t][l]})
    /\ hold' = [hold EXCEPT ![t][l] = NoToken]
    /\ lapsed' = [lapsed EXCEPT ![t][l] = FALSE]
    /\ pc' = [pc EXCEPT ![t] = "idle"]
    /\ UNCHANGED <<up, want, waited>>

-----------------------------------------------------------------------------
Expiring == {k \in Key : store[k] # NoToken /\ ttl[k] = 1}

Countdown(n) == IF n > 0 THEN n - 1 ELSE 0

(* One poll period passes: TTLs run down, sleepers poll again.  A thread that
   is late (polling or working) simply sees more ticks go by. *)
Tick ==
    /\ ttl' = [k \in Key |-> Countdown(ttl[k])]
    /\ store' = [k \in Key |-> IF k \in Expiring THEN NoToken ELSE store[k]]
    /\ waited' = [t \in Thread |->
                     IF pc[t] \in {"poll", "sleep"} /\ waited[t] < Timeout
                     THEN waited[t] + 1 ELSE waited[t]]
    /\ pc' = [t \in Thread |-> IF pc[t] = "sleep" THEN "poll" ELSE pc[t]]
    /\ lapsed' = [t \in Thread |-> [l \in Lock |->
                     lapsed[t][l] \/ ( /\ Holds(t, l)
                                       /\ KeyOf(t, l) \in Expiring
                                       /\ store[KeyOf(t, l)] = hold[t][l] )]]
    /\ Orphaned({})
    /\ UNCHANGED <<up, want, hold>>

(* SIGKILL or the OOM killer: no finally runs, the keys stay in Valkey. *)
Crash(n) ==
    /\ n \in up
    /\ up' = up \ {n}
    /\ LET dead == {t \in Thread : NodeOf[t] = n} IN
       /\ pc' = [t \in Thread |-> IF t \in dead THEN "idle" ELSE pc[t]]
       /\ want' = [t \in Thread |-> IF t \in dead THEN "none" ELSE want[t]]
       /\ hold' = [t \in Thread |->
                      IF t \in dead THEN [l \in Lock |-> NoToken] ELSE hold[t]]
       /\ lapsed' = [t \in Thread |->
                        IF t \in dead THEN [l \in Lock |-> FALSE] ELSE lapsed[t]]
       /\ waited' = [t \in Thread |-> IF t \in dead THEN 0 ELSE waited[t]]
    /\ UNCHANGED <<store, ttl, orphan>>

SweepNothing(n) == {}   \* mistake: no sweep at startup

(* The keys matching lock:*:<node>. *)
Swept(n) == {k \in Key : k.lock \in NodeScoped /\ k.node = n}

(* Startup of a node: release_stale_node_locks, which may fail as a whole and
   is then only logged, runs before the first job can arrive. *)
Restart(n, swept) ==
    /\ n \notin up
    /\ up' = up \cup {n}
    /\ store' = [k \in Key |-> IF swept /\ k \in Swept(n) THEN NoToken ELSE store[k]]
    /\ ttl' = [k \in Key |-> IF swept /\ k \in Swept(n) THEN 0 ELSE ttl[k]]
    /\ Orphaned(IF swept THEN {} ELSE {KeyOnNode("ocr", n)})
    /\ UNCHANGED <<want, pc, waited, hold, lapsed>>

ThreadStep(t) ==
    \/ \E tok \in Token : TrySetFree(t, tok)
    \/ TrySetTaken(t) \/ SetFails(t) \/ TimesOut(t)

Next == \/ \E t \in Thread, l \in Lock : Begin(t, l) \/ Release(t, l)
        \/ \E t \in Thread : ThreadStep(t)
        \/ Tick
        \/ \E n \in Node : Crash(n) \/ (\E swept \in BOOLEAN : Restart(n, swept))

Spec == Init /\ [][Next]_vars

(* A polling thread runs and time passes.  Nothing obliges a holder to leave
   its critical section, or a node to come back. *)
Fairness == WF_vars(Tick) /\ \A t \in Thread : WF_vars(ThreadStep(t))

FairSpec == Spec /\ Fairness

-----------------------------------------------------------------------------
(* Until its TTL fires, a holder's key stores the holder's own token: no
   release of another thread, no sweep of another node and no other SET can
   take it away (AUDIT-W4). *)
HeldKeyIsOurs ==
    \A t \in Thread, l \in Lock :
        Holds(t, l) /\ ~lapsed[t][l] => store[KeyOf(t, l)] = hold[t][l]

(* Two threads are in the same critical section only if the TTL of one of
   them has fired. *)
ExclusiveUntilLapse ==
    \A t, u \in Thread, l \in Lock :
        /\ t # u /\ Holds(t, l) /\ Holds(u, l)
        /\ KeyOf(t, l) = KeyOf(u, l)
        => lapsed[t][l] \/ lapsed[u][l]

(* A key nobody will release (its holder crashed, or a reply was lost) is
   never immortal: a stored token always has a running TTL. *)
NoImmortalKey == \A k \in Key : store[k] # NoToken <=> ttl[k] > 0

(* On a node that runs, the "ocr" key stores the token of a thread that is at
   work there; otherwise a reply, a release or a sweep has failed.  No crash
   alone leaves the restarted node behind a dead holder (lock.py:29-32). *)
BlockedByTheLiving ==
    \A n \in up :
        LET k == KeyOnNode("ocr", n) IN
        store[k] # NoToken /\ k \notin orphan =>
            \E t \in Thread : NodeOf[t] = n /\ hold[t]["ocr"] = store[k]

(* Whoever stored a token, and whatever became of them, every key is free
   again and again: a crashed holder, a failed release or a lost reply blocks
   a lock only for a while. *)
KeyIsFreedAgain == \A k \in Key : []<>(store[k] = NoToken)
=============================================================================
