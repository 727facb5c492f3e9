--------------------------- MODULE ValkeyLockProofs ---------------------------
(***************************************************************************)
(* The lock is proved for every number of nodes and threads, every         *)
(* assignment of locks to jobs, and every TTL and timeout.  The invariant  *)
(* that carries the proof says what the code relies on without a word:     *)
(* no two holders know the same token, a dead node's threads hold nothing, *)
(* and a thread polls only for a lock it does not have.                    *)
(***************************************************************************)
EXTENDS ValkeyLock, TLAPS

(* The name a lock has on a node is a key, and node-scoped names of different
   nodes differ. *)
LEMMA KeyNames ==
    /\ \A l \in Lock, n \in Node : KeyOnNode(l, n) \in Key
    /\ \A l \in Lock, t \in Thread : KeyOf(t, l) \in Key
    /\ \A m, n \in Node : KeyOnNode("ocr", m) = KeyOnNode("ocr", n) => m = n
    /\ \A l \in Lock, n \in Node : KeyOnNode(l, n).lock = l
    /\ \A n \in Node : KeyOnNode("ocr", n).node = n
BY LockAssumption DEF KeyOf, KeyOnNode, Key, Lock, NodeScoped

(* The keys swept by a node are the "ocr" keys of that node. *)
LEMMA SweptNames ==
    \A n \in Node, m \in Node, l \in Lock :
        KeyOnNode(l, m) \in Swept(n) <=> l = "ocr" /\ m = n
BY KeyNames DEF Swept, Lock, NodeScoped

(* A counter that runs down stays within its bounds. *)
LEMMA CountdownType == \A n \in 0..Expire : Countdown(n) \in 0..Expire
BY LockAssumption DEF Countdown

-----------------------------------------------------------------------------
(* What each helper does to the types of the variables it sets. *)
LEMMA GiveUpType ==
    ASSUME TypeOK, NEW t \in Thread, GiveUp(t)
    PROVE  /\ want' \in [Thread -> Lock \cup {"none"}]
           /\ pc' \in [Thread -> {"idle", "poll", "sleep", "work"}]
           /\ waited' \in [Thread -> 0..Timeout]
<1>1. 0 \in 0..Timeout
  BY LockAssumption
<1> QED
  BY <1>1 DEF GiveUp, TypeOK

(* Entering a lock keeps the wait and the held tokens typed. *)
LEMMA EnterType ==
    ASSUME TypeOK, NEW t \in Thread, NEW tok \in Token, Enter(t, tok)
    PROVE  /\ want' \in [Thread -> Lock \cup {"none"}]
           /\ pc' \in [Thread -> {"idle", "poll", "sleep", "work"}]
           /\ waited' \in [Thread -> 0..Timeout]
           /\ hold' \in [Thread -> [Lock -> Token \cup {NoToken}]]
           /\ lapsed' \in [Thread -> [Lock -> BOOLEAN]]
<1>1. 0 \in 0..Timeout
  BY LockAssumption
<1>2. /\ hold' \in [Thread -> [Lock -> Token \cup {NoToken}]]
      /\ lapsed' \in [Thread -> [Lock -> BOOLEAN]]
  BY DEF Enter, TypeOK
<1> QED
  BY <1>1, <1>2 DEF Enter, TypeOK

(* Writing a lock key keeps the store and its lifetimes typed. *)
LEMMA StoreType ==
    ASSUME TypeOK, NEW k, NEW tok \in Token, StoreKey(k, tok)
    PROVE  store' \in [Key -> Token \cup {NoToken}] /\ ttl' \in [Key -> 0..Expire]
<1>1. Expire \in 0..Expire
  BY LockAssumption
<1> QED
  BY <1>1 DEF StoreKey, TypeOK

(* So does the release script, whether it deletes or not. *)
LEMMA ReleaseType ==
    ASSUME TypeOK, NEW t \in Thread, NEW l \in Lock, ReleaseScript(t, l)
    PROVE  store' \in [Key -> Token \cup {NoToken}] /\ ttl' \in [Key -> 0..Expire]
<1>1. 0 \in 0..Expire
  BY LockAssumption
<1> QED
  BY <1>1 DEF ReleaseScript, Drop, TypeOK

(* Orphans are keys of a node. *)
LEMMA OrphanType ==
    ASSUME TypeOK, NEW new, \A k \in new : k \in Key \/ k.lock \notin NodeScoped, Orphaned(new)
    PROVE  orphan' \subseteq Key
BY DEF TypeOK, Orphaned

(* A thread that waits for a lock asks for a key of the store. *)
LEMMA AskedKey ==
    ASSUME TypeOK, NEW t \in Thread
    PROVE  KeyOf(t, want[t]) \in Key \/ KeyOf(t, want[t]).lock \notin NodeScoped
<1>1. CASE want[t] \in Lock
  BY <1>1, KeyNames
<1>2. CASE want[t] = "none"
  <2>1. KeyOf(t, want[t]) = [lock |-> "none"]
    BY <1>2 DEF KeyOf, KeyOnNode, NodeScoped
  <2> QED
    BY <2>1 DEF NodeScoped
<1> QED
  BY <1>1, <1>2 DEF TypeOK

(* Polling, releasing, expiring, crashing and sweeping keep every variable in
   its range, the TTLs and waiting times included. *)
LEMMA TypeStep == TypeOK /\ [Next]_vars => TypeOK'
<1> SUFFICES ASSUME TypeOK, [Next]_vars
             PROVE  TypeOK'
  OBVIOUS
<1>1. ASSUME NEW t \in Thread, NEW l \in Lock, Begin(t, l)
      PROVE  TypeOK'
  BY <1>1 DEF Begin, TypeOK
<1>2. ASSUME NEW t \in Thread, NEW l \in Lock, Release(t, l)
      PROVE  TypeOK'
  <2>1. orphan' \subseteq Key
    BY <1>2, OrphanType, KeyNames DEF Release
  <2>2. /\ store' \in [Key -> Token \cup {NoToken}]
        /\ ttl' \in [Key -> 0..Expire]
    BY <1>2, ReleaseType DEF Release, TypeOK
  <2>3. /\ hold' \in [Thread -> [Lock -> Token \cup {NoToken}]]
        /\ lapsed' \in [Thread -> [Lock -> BOOLEAN]]
        /\ pc' \in [Thread -> {"idle", "poll", "sleep", "work"}]
    BY <1>2 DEF Release, TypeOK
  <2> QED
    BY <1>2, <2>1, <2>2, <2>3 DEF Release, TypeOK
<1>3. ASSUME NEW t \in Thread, NEW tok \in Token, TrySetFree(t, tok)
      PROVE  TypeOK'
  <2>1. /\ store' \in [Key -> Token \cup {NoToken}]
        /\ ttl' \in [Key -> 0..Expire]
    BY <1>3, StoreType DEF TrySetFree
  <2>2. orphan' \subseteq Key
    BY <1>3, OrphanType, AskedKey DEF TrySetFree
  <2>3. CASE Enter(t, tok)
    BY <1>3, <2>1, <2>2, <2>3, EnterType DEF TrySetFree, TypeOK
  <2>4. CASE GiveUp(t) /\ UNCHANGED <<hold, lapsed>>
    BY <1>3, <2>1, <2>2, <2>4, GiveUpType DEF TrySetFree, TypeOK
  <2> QED
    BY <1>3, <2>3, <2>4 DEF TrySetFree
<1>4. ASSUME NEW t \in Thread, TrySetTaken(t)
      PROVE  TypeOK'
  BY <1>4 DEF TrySetTaken, TypeOK
<1>5. ASSUME NEW t \in Thread, SetFails(t) \/ TimesOut(t)
      PROVE  TypeOK'
  BY <1>5, GiveUpType DEF SetFails, TimesOut, TypeOK
<1>6. CASE Tick
  <2>1. orphan' \subseteq Key
    BY <1>6, OrphanType DEF Tick
  <2>2. waited' \in [Thread -> 0..Timeout]
    BY <1>6, LockAssumption DEF Tick, TypeOK
  <2>3. ttl' \in [Key -> 0..Expire]
    BY <1>6, CountdownType DEF Tick, TypeOK
  <2> QED
    BY <1>6, <2>1, <2>2, <2>3 DEF Tick, TypeOK
<1>7. ASSUME NEW n \in Node, Crash(n)
      PROVE  TypeOK'
  BY <1>7, LockAssumption DEF Crash, TypeOK
<1>8. ASSUME NEW n \in Node, NEW swept \in BOOLEAN, Restart(n, swept)
      PROVE  TypeOK'
  <2>1. orphan' \subseteq Key
    BY <1>8, OrphanType, KeyNames DEF Restart, Lock
  <2>2. ttl' \in [Key -> 0..Expire]
    BY <1>8, LockAssumption DEF Restart, TypeOK
  <2> QED
    BY <1>8, <2>1, <2>2 DEF Restart, TypeOK
<1>9. CASE UNCHANGED vars
  BY <1>9 DEF vars, TypeOK
<1> QED
  BY <1>1, <1>2, <1>3, <1>4, <1>5, <1>6, <1>7, <1>8, <1>9 DEF Next, ThreadStep

(* Type correctness. *)
THEOREM TypeCorrect == Spec => []TypeOK
<1>1. Init => TypeOK
  BY LockAssumption DEF Init, TypeOK
<1> QED
  BY <1>1, TypeStep, PTL DEF Spec

-----------------------------------------------------------------------------
(* A stored token always has a running TTL: whoever died with it, the key is
   freed. *)
THEOREM NoKeyIsImmortal == Spec => []NoImmortalKey
<1>1. Init => NoImmortalKey
  BY DEF Init, NoImmortalKey
<1>2. TypeOK /\ NoImmortalKey /\ [Next]_vars => NoImmortalKey'
  <2> SUFFICES ASSUME TypeOK, NoImmortalKey, [Next]_vars
               PROVE  NoImmortalKey'
    OBVIOUS
  <2> USE DEF TypeOK, NoImmortalKey
  <2>1. ASSUME NEW t \in Thread, NEW l \in Lock, Begin(t, l) \/ Release(t, l)
        PROVE  NoImmortalKey'
    <3>1. UNCHANGED <<store, ttl>> \/ \E k : Drop(k)
      BY <2>1 DEF Begin, Release, ReleaseScript
    <3>2. CASE UNCHANGED <<store, ttl>>
      BY <3>2
    <3>3. ASSUME NEW k, Drop(k) PROVE NoImmortalKey'
      BY <3>3 DEF Drop
    <3> QED
      BY <3>1, <3>2, <3>3
  <2>2. ASSUME NEW t \in Thread, NEW tok \in Token, TrySetFree(t, tok)
        PROVE  NoImmortalKey'
    BY <2>2, LockAssumption DEF TrySetFree, StoreKey
  <2>3. ASSUME NEW t \in Thread, TrySetTaken(t) \/ SetFails(t) \/ TimesOut(t)
        PROVE  NoImmortalKey'
    BY <2>3 DEF TrySetTaken, SetFails, TimesOut
  <2>4. CASE Tick
    BY <2>4, LockAssumption DEF Tick, Expiring, Countdown
  <2>5. ASSUME NEW n \in Node, Crash(n) \/ (\E swept \in BOOLEAN : Restart(n, swept))
        PROVE  NoImmortalKey'
    BY <2>5 DEF Crash, Restart
  <2>6. CASE UNCHANGED vars
    BY <2>6 DEF vars
  <2> QED
    BY <2>1, <2>2, <2>3, <2>4, <2>5, <2>6 DEF Next, ThreadStep
<1> QED
  BY <1>1, <1>2, TypeCorrect, PTL DEF Spec

-----------------------------------------------------------------------------
(* The inductive invariant.  HeldKeyIsOurs alone is not inductive: a release
   compares tokens, so no two holders may know the same one; a startup deletes
   keys, so the threads of a dead node may hold none; and entering a section
   overwrites what the thread holds, so it must hold nothing: no section of the
   worker is inside another. *)

TokensApart ==
    \A t, u \in Thread : \A l, m \in Lock :
        Holds(t, l) /\ hold[t][l] = hold[u][m] => t = u /\ l = m

DeadAreIdle ==
    \A t \in Thread : NodeOf[t] \notin up =>
        pc[t] = "idle" /\ \A l \in Lock : ~Holds(t, l)

OneLockAtATime ==
    \A t \in Thread :
        /\ \A l, m \in Lock : Holds(t, l) /\ Holds(t, m) => l = m
        /\ \A l \in Lock : Holds(t, l) => pc[t] = "work"
        /\ pc[t] \in {"poll", "sleep"} => want[t] \in Lock

LockInv == TypeOK /\ TokensApart /\ DeadAreIdle /\ OneLockAtATime /\ HeldKeyIsOurs

(* What a thread that enters its section changes: one lock of one thread. *)
LEMMA EnterHold ==
    ASSUME TypeOK, NEW t \in Thread, want[t] \in Lock, NEW tok \in Token, Enter(t, tok)
    PROVE  \A u \in Thread, l \in Lock :
              IF u = t /\ l = want[t] THEN hold'[u][l] = tok /\ lapsed'[u][l] = FALSE
              ELSE hold'[u][l] = hold[u][l] /\ lapsed'[u][l] = lapsed[u][l]
BY DEF Enter, TypeOK

(* After a release a thread holds what it held but for the one lock. *)
LEMMA ReleaseHold ==
    ASSUME TypeOK, NEW t \in Thread, NEW l \in Lock, Release(t, l)
    PROVE  \A u \in Thread, m \in Lock :
              IF u = t /\ m = l THEN hold'[u][m] = NoToken
              ELSE hold'[u][m] = hold[u][m] /\ lapsed'[u][m] = lapsed[u][m]
BY DEF Release, TypeOK

(* A fresh token is known to no holder. *)
LEMMA FreshIsUnknown ==
    ASSUME NEW tok \in Token, Fresh(tok)
    PROVE  \A u \in Thread, l \in Lock : hold[u][l] # tok
BY DEF Fresh, InUse

(* An acquired lock keeps the invariant: its token is fresh. *)
LEMMA TrySetFreeInv ==
    ASSUME LockInv, NEW t \in Thread, NEW tok \in Token, TrySetFree(t, tok)
    PROVE  TokensApart' /\ DeadAreIdle' /\ OneLockAtATime' /\ HeldKeyIsOurs'
<1> USE DEF LockInv
<1>1. /\ pc[t] = "poll" /\ want[t] \in Lock /\ ~Holds(t, want[t]) /\ NodeOf[t] \in up
      /\ tok # NoToken /\ up' = up
  BY LockAssumption DEF TrySetFree, StillWaiting, OneLockAtATime, DeadAreIdle
<1> DEFINE k == KeyOf(t, want[t])
<1>2. /\ k \in Key /\ store[k] = NoToken
      /\ store' = [store EXCEPT ![k] = tok]
  BY <1>1, KeyNames DEF TrySetFree, SetSucceeds, StoreKey
<1>3. \A u \in Thread, l \in Lock :
         Holds(u, l) /\ ~lapsed[u][l] => KeyOf(u, l) # k /\ store'[KeyOf(u, l)] = hold[u][l]
  BY <1>2, KeyNames DEF HeldKeyIsOurs, Holds, TypeOK
<1>4. CASE Enter(t, tok)
  <2>1. \A u \in Thread, l \in Lock :
           IF u = t /\ l = want[t] THEN hold'[u][l] = tok /\ lapsed'[u][l] = FALSE
           ELSE hold'[u][l] = hold[u][l] /\ lapsed'[u][l] = lapsed[u][l]
    BY <1>1, <1>4, EnterHold
  <2>2. \A u \in Thread, l \in Lock : hold[u][l] # tok
    BY FreshIsUnknown DEF TrySetFree
  <2>3. TokensApart'
    BY <2>1, <2>2, <1>1 DEF TokensApart, Holds
  <2>4. HeldKeyIsOurs'
    <3> SUFFICES ASSUME NEW u \in Thread, NEW l \in Lock, Holds(u, l)', ~lapsed'[u][l]
                 PROVE  store'[KeyOf(u, l)] = hold'[u][l]
      BY DEF HeldKeyIsOurs, KeyOf, KeyOnNode
    <3>1. CASE u = t /\ l = want[t]
      BY <3>1, <2>1, <1>2 DEF TypeOK
    <3>2. CASE ~(u = t /\ l = want[t])
      BY <3>2, <2>1, <1>3 DEF Holds
    <3> QED
      BY <3>1, <3>2
  <2>5. pc'[t] = "work" /\ \A u \in Thread : u # t => pc'[u] = pc[u] /\ want'[u] = want[u]
    BY <1>4 DEF Enter, TypeOK
  <2>6. DeadAreIdle'
    BY <2>1, <2>5, <1>1 DEF DeadAreIdle, Holds
  <2>7. OneLockAtATime'
    <3>1. \A l \in Lock : hold[t][l] = NoToken
      BY <1>1, FreshIsUnknown DEF OneLockAtATime, Holds
    <3>2. \A u \in Thread : u # t =>
             pc'[u] = pc[u] /\ want'[u] = want[u] /\ \A l \in Lock : hold'[u][l] = hold[u][l]
      BY <2>1, <2>5
    <3>3. pc'[t] = "work" /\ \A l \in Lock : hold'[t][l] # NoToken => l = want[t]
      BY <2>1, <2>5, <3>1
    <3> QED
      BY <3>2, <3>3 DEF OneLockAtATime, Holds
  <2> QED
    BY <2>3, <2>4, <2>6, <2>7
<1>5. CASE GiveUp(t) /\ UNCHANGED <<hold, lapsed>>
  <2>1. TokensApart'
    BY <1>5 DEF TokensApart, Holds
  <2>2. HeldKeyIsOurs'
    BY <1>5, <1>3 DEF HeldKeyIsOurs, Holds, KeyOf, KeyOnNode
  <2>3. pc'[t] \in {"idle", "work"} /\ \A u \in Thread : u # t => pc'[u] = pc[u] /\ want'[u] = want[u]
    BY <1>5 DEF GiveUp, TypeOK
  <2>4. DeadAreIdle' /\ OneLockAtATime'
    BY <1>5, <2>3, <1>1 DEF DeadAreIdle, OneLockAtATime, Holds
  <2> QED
    BY <2>1, <2>2, <2>4
<1> QED
  BY <1>4, <1>5 DEF TrySetFree

(* A release keeps the invariant: it deletes its own token or nothing. *)
LEMMA ReleaseInv ==
    ASSUME LockInv, NEW t \in Thread, NEW l \in Lock, Release(t, l)
    PROVE  TokensApart' /\ DeadAreIdle' /\ OneLockAtATime' /\ HeldKeyIsOurs'
<1> USE DEF LockInv
<1>1. \A u \in Thread, m \in Lock :
         IF u = t /\ m = l THEN hold'[u][m] = NoToken
         ELSE hold'[u][m] = hold[u][m] /\ lapsed'[u][m] = lapsed[u][m]
  BY ReleaseHold
<1>2. TokensApart'
  BY <1>1 DEF TokensApart, Holds
<1>3. /\ pc[t] = "work" /\ pc'[t] \in {"idle", "work"} /\ up' = up /\ want' = want
      /\ \A u \in Thread : u # t => pc'[u] = pc[u]
  BY DEF Release, TypeOK
<1>4. DeadAreIdle' /\ OneLockAtATime'
  <2>1. Holds(t, l) /\ pc'[t] = "idle"
    BY DEF Release, TypeOK
  <2>2. \A m \in Lock : hold'[t][m] = NoToken
    BY <1>1, <2>1 DEF OneLockAtATime, Holds
  <2> QED
    BY <1>1, <1>3, <2>1, <2>2 DEF DeadAreIdle, OneLockAtATime, Holds
<1>5. HeldKeyIsOurs'
  <2> SUFFICES ASSUME NEW u \in Thread, NEW m \in Lock, Holds(u, m)', ~lapsed'[u][m]
               PROVE  store'[KeyOf(u, m)] = hold'[u][m]
    BY DEF HeldKeyIsOurs, KeyOf, KeyOnNode
  <2>1. /\ ~(u = t /\ m = l) /\ hold'[u][m] = hold[u][m]
        /\ Holds(u, m) /\ store[KeyOf(u, m)] = hold[u][m]
    BY <1>1 DEF HeldKeyIsOurs, Holds
  <2>2. hold[u][m] # hold[t][l]
    BY <2>1 DEF TokensApart, Holds
  <2>3. store'[KeyOf(u, m)] = store[KeyOf(u, m)]
    BY <2>1, <2>2, KeyNames DEF Release, ReleaseScript, Drop, TypeOK
  <2> QED
    BY <2>1, <2>3
<1> QED
  BY <1>2, <1>4, <1>5

(* The passing of time keeps the invariant: what it expires is marked lapsed. *)
LEMMA TickInv ==
    ASSUME LockInv, Tick
    PROVE  TokensApart' /\ DeadAreIdle' /\ OneLockAtATime' /\ HeldKeyIsOurs'
<1> USE DEF LockInv
<1>1. TokensApart'
  BY DEF Tick, TokensApart, Holds
<1>2. DeadAreIdle' /\ OneLockAtATime'
  BY DEF Tick, DeadAreIdle, OneLockAtATime, Holds, TypeOK
<1>3. HeldKeyIsOurs'
  <2> SUFFICES ASSUME NEW u \in Thread, NEW m \in Lock, Holds(u, m)', ~lapsed'[u][m]
               PROVE  store'[KeyOf(u, m)] = hold'[u][m]
    BY DEF HeldKeyIsOurs, KeyOf, KeyOnNode
  <2>1. /\ hold' = hold /\ Holds(u, m) /\ ~lapsed[u][m]
        /\ ~(KeyOf(u, m) \in Expiring /\ store[KeyOf(u, m)] = hold[u][m])
    BY DEF Tick, Holds
  <2>2. store[KeyOf(u, m)] = hold[u][m] /\ KeyOf(u, m) \notin Expiring
    BY <2>1 DEF HeldKeyIsOurs
  <2> QED
    BY <2>1, <2>2, KeyNames DEF Tick
<1> QED
  BY <1>1, <1>2, <1>3

(* A crash keeps the invariant: its keys are left behind by a node that is down. *)
LEMMA CrashInv ==
    ASSUME LockInv, NEW n \in Node, Crash(n)
    PROVE  TokensApart' /\ DeadAreIdle' /\ OneLockAtATime' /\ HeldKeyIsOurs'
<1> USE DEF LockInv
<1>1. \A u \in Thread :
         IF NodeOf[u] = n
         THEN pc'[u] = "idle" /\ \A l \in Lock : hold'[u][l] = NoToken
         ELSE /\ pc'[u] = pc[u] /\ want'[u] = want[u]
              /\ \A l \in Lock : hold'[u][l] = hold[u][l] /\ lapsed'[u][l] = lapsed[u][l]
  BY DEF Crash, TypeOK
<1>2. TokensApart'
  BY <1>1 DEF TokensApart, Holds
<1>3. DeadAreIdle' /\ OneLockAtATime'
  BY <1>1, LockAssumption DEF DeadAreIdle, OneLockAtATime, Holds, Crash
<1>4. HeldKeyIsOurs'
  BY <1>1 DEF HeldKeyIsOurs, Holds, KeyOf, KeyOnNode, Crash
<1> QED
  BY <1>2, <1>3, <1>4

(* A restart keeps the invariant: the sweep deletes keys of that node only. *)
LEMMA RestartInv ==
    ASSUME LockInv, NEW n \in Node, NEW swept \in BOOLEAN, Restart(n, swept)
    PROVE  TokensApart' /\ DeadAreIdle' /\ OneLockAtATime' /\ HeldKeyIsOurs'
<1> USE DEF LockInv
<1>1. TokensApart' /\ DeadAreIdle' /\ OneLockAtATime'
  BY DEF Restart, TokensApart, DeadAreIdle, OneLockAtATime, Holds
<1>2. HeldKeyIsOurs'
  <2> SUFFICES ASSUME NEW u \in Thread, NEW m \in Lock, Holds(u, m), ~lapsed[u][m]
               PROVE  store'[KeyOf(u, m)] = hold[u][m]
    BY DEF HeldKeyIsOurs, KeyOf, KeyOnNode, Holds, Restart
  <2>1. NodeOf[u] # n
    BY DEF DeadAreIdle, Restart
  <2>2. KeyOf(u, m) \notin Swept(n)
    BY <2>1, SweptNames, LockAssumption DEF KeyOf
  <2>3. store'[KeyOf(u, m)] = store[KeyOf(u, m)]
    BY <2>2, KeyNames DEF Restart
  <2> QED
    BY <2>3 DEF HeldKeyIsOurs
<1> QED
  BY <1>1, <1>2

(* Every step keeps the invariant. *)
LEMMA LockInvStep == LockInv /\ TypeOK' /\ [Next]_vars => LockInv'
<1> SUFFICES ASSUME LockInv, TypeOK', [Next]_vars
             PROVE  TokensApart' /\ DeadAreIdle' /\ OneLockAtATime' /\ HeldKeyIsOurs'
  BY DEF LockInv
<1> USE DEF LockInv
<1>1. ASSUME NEW t \in Thread, NEW l \in Lock, Begin(t, l)
      PROVE  TokensApart' /\ DeadAreIdle' /\ OneLockAtATime' /\ HeldKeyIsOurs'
  BY <1>1
  DEF Begin, TokensApart, DeadAreIdle, OneLockAtATime, HeldKeyIsOurs, Holds, TypeOK, KeyOf, KeyOnNode
<1>2. ASSUME NEW t \in Thread, TrySetTaken(t)
      PROVE  TokensApart' /\ DeadAreIdle' /\ OneLockAtATime' /\ HeldKeyIsOurs'
  BY <1>2
  DEF TrySetTaken, StillWaiting, TokensApart, DeadAreIdle, OneLockAtATime, HeldKeyIsOurs, Holds,
      TypeOK, KeyOf, KeyOnNode
<1>3. ASSUME NEW t \in Thread, SetFails(t) \/ TimesOut(t)
      PROVE  TokensApart' /\ DeadAreIdle' /\ OneLockAtATime' /\ HeldKeyIsOurs'
  <2>1. /\ pc[t] = "poll" /\ pc'[t] \in {"idle", "work"}
        /\ \A u \in Thread : u # t => pc'[u] = pc[u] /\ want'[u] = want[u]
        /\ UNCHANGED <<store, up, hold, lapsed>>
    BY <1>3 DEF SetFails, TimesOut, StillWaiting, GiveUp, TypeOK
  <2> QED
    BY <2>1 DEF TokensApart, DeadAreIdle, OneLockAtATime, HeldKeyIsOurs, Holds, KeyOf, KeyOnNode
<1>4. CASE UNCHANGED vars
  BY <1>4
  DEF vars, TokensApart, DeadAreIdle, OneLockAtATime, HeldKeyIsOurs, Holds, KeyOf, KeyOnNode
<1> QED
  BY <1>1, <1>2, <1>3, <1>4, TrySetFreeInv, ReleaseInv, TickInv, CrashInv, RestartInv
  DEF Next, ThreadStep

(* The inductive invariant holds in every reachable state. *)
LEMMA LockInvariant == Spec => []LockInv
<1>1. Init => LockInv
  <2> SUFFICES ASSUME Init PROVE LockInv
    OBVIOUS
  <2>1. TypeOK
    BY LockAssumption DEF Init, TypeOK
  <2> QED
    BY <2>1, LockAssumption
    DEF Init, LockInv, TokensApart, DeadAreIdle, OneLockAtATime, HeldKeyIsOurs, Holds
<1> QED
  BY <1>1, LockInvStep, TypeCorrect, PTL DEF Spec

(* Until its TTL fires nothing takes a holder's key away: no release of
   another thread, no sweep of another node, no other SET. *)
THEOREM HeldKeysAreSafe == Spec => []HeldKeyIsOurs
<1>1. LockInv => HeldKeyIsOurs
  BY DEF LockInv
<1> QED
  BY <1>1, LockInvariant, PTL

(* Two threads share a critical section only after the TTL of one has fired. *)
THEOREM MutualExclusionUntilLapse == Spec => []ExclusiveUntilLapse
<1>1. LockInv => ExclusiveUntilLapse
  BY DEF LockInv, ExclusiveUntilLapse, HeldKeyIsOurs, TokensApart
<1> QED
  BY <1>1, LockInvariant, PTL

-----------------------------------------------------------------------------
(* After a startup, as at any other time, the "ocr" key of a node that runs is
   held by one of its threads, unless a reply, a release or a sweep failed. *)
THEOREM NoDeadHolder == Spec => []BlockedByTheLiving
<1>1. Init => BlockedByTheLiving
  BY KeyNames DEF Init, BlockedByTheLiving, Lock
<1>2. LockInv /\ BlockedByTheLiving /\ [Next]_vars => BlockedByTheLiving'
  <2> SUFFICES ASSUME LockInv, BlockedByTheLiving, [Next]_vars
               PROVE  BlockedByTheLiving'
    OBVIOUS
  <2>0. up' \subseteq Node
    BY TypeStep DEF LockInv, TypeOK
  <2> SUFFICES ASSUME NEW n \in Node, n \in up', store'[KeyOnNode("ocr", n)] # NoToken,
                      KeyOnNode("ocr", n) \notin orphan'
               PROVE  \E t \in Thread :
                         NodeOf[t] = n /\ hold'[t]["ocr"] = store'[KeyOnNode("ocr", n)]
    BY <2>0 DEF BlockedByTheLiving, KeyOnNode, NodeScoped
  <2> DEFINE k == KeyOnNode("ocr", n)
  <2> USE DEF LockInv
  <2>1. /\ k \in Key /\ k.lock \in NodeScoped /\ "ocr" \in Lock
        /\ \A l \in Lock, t \in Thread : KeyOf(t, l) = k <=> l = "ocr" /\ NodeOf[t] = n
    BY KeyNames, LockAssumption DEF KeyOf, Lock, NodeScoped
  <2> HIDE DEF k
  <2>2. ASSUME n \in up, store[k] # NoToken, k \notin orphan
        PROVE  \E t \in Thread : NodeOf[t] = n /\ hold[t]["ocr"] = store[k]
    BY <2>2 DEF BlockedByTheLiving, k
  <2>3. ASSUME UNCHANGED <<store, up, hold, orphan>>
        PROVE  \E t \in Thread : NodeOf[t] = n /\ hold'[t]["ocr"] = store'[k]
    BY <2>2, <2>3 DEF k
  <2>4. \A new : Orphaned(new) => k \notin orphan /\ k \notin new
    BY <2>1 DEF Orphaned, k
  <2>5. ASSUME NEW t \in Thread, NEW tok \in Token, TrySetFree(t, tok)
        PROVE  \E u \in Thread : NodeOf[u] = n /\ hold'[u]["ocr"] = store'[k]
    <3>1. want[t] \in Lock /\ ~Holds(t, want[t]) /\ KeyOf(t, want[t]) \in Key
      BY <2>5, KeyNames DEF TrySetFree, StillWaiting, OneLockAtATime
    <3>2. store' = [store EXCEPT ![KeyOf(t, want[t])] = tok]
      BY <2>5 DEF TrySetFree, StoreKey
    <3> DEFINE Others == \A u \in Thread : u # t \/ want[t] # "ocr" =>
                                 hold'[u]["ocr"] = hold[u]["ocr"]
    <3>3. ASSUME Enter(t, tok)
          PROVE  hold'[t][want[t]] = tok /\ Others
      <4>1. \A u \in Thread, l \in Lock :
               IF u = t /\ l = want[t] THEN hold'[u][l] = tok /\ lapsed'[u][l] = FALSE
               ELSE hold'[u][l] = hold[u][l] /\ lapsed'[u][l] = lapsed[u][l]
        BY <3>1, <3>3, EnterHold
      <4> QED
        BY <4>1, <3>1, <2>1
    <3>4. CASE KeyOf(t, want[t]) = k
      <4>1. Enter(t, tok) /\ want[t] = "ocr" /\ NodeOf[t] = n
        BY <2>5, <2>4, <3>1, <3>4, <2>1 DEF TrySetFree
      <4>2. hold'[t]["ocr"] = tok
        BY <4>1, <3>3
      <4> QED
        BY <4>1, <4>2, <3>2, <3>4, <2>1 DEF TypeOK
    <3>5. CASE KeyOf(t, want[t]) # k
      <4>1. store'[k] = store[k] /\ k \notin orphan /\ up' = up
        BY <2>5, <2>4, <3>2, <3>5, <2>1 DEF TrySetFree, TypeOK
      <4>2. PICK u \in Thread : NodeOf[u] = n /\ hold[u]["ocr"] = store[k]
        BY <4>1, <2>2 DEF k
      <4>3. hold'[u]["ocr"] = hold[u]["ocr"]
        <5>1. CASE Enter(t, tok)
          <6>1. ~(u = t /\ "ocr" = want[t])
            BY <3>5, <4>2, <2>1, <3>1
          <6> QED
            BY <5>1, <6>1, <3>3
        <5>2. CASE UNCHANGED hold
          BY <5>2
        <5> QED
          BY <5>1, <5>2, <2>5 DEF TrySetFree
      <4> QED
        BY <4>1, <4>2, <4>3
    <3> QED
      BY <3>4, <3>5
  <2>6. ASSUME NEW t \in Thread, NEW l \in Lock, Release(t, l)
        PROVE  \E u \in Thread : NodeOf[u] = n /\ hold'[u]["ocr"] = store'[k]
    <3>1. up' = up /\ k \notin orphan
      BY <2>6, <2>4 DEF Release
    <3>2. store'[k] = store[k]
      BY <2>6, <2>1 DEF Release, ReleaseScript, Drop, TypeOK, k
    <3>3. PICK u \in Thread : NodeOf[u] = n /\ hold[u]["ocr"] = store[k]
      BY <3>1, <3>2, <2>2 DEF k
    <3>4. ~(u = t /\ l = "ocr")
      <4> SUFFICES ASSUME u = t, l = "ocr" PROVE FALSE
        OBVIOUS
      <4>1. KeyOf(t, l) = k /\ store[k] = hold[t][l]
        BY <3>3, <2>1
      <4>2. CASE ReleaseScript(t, l)
        <5>1. store'[k] = NoToken
          BY <4>1, <4>2, <2>1 DEF ReleaseScript, Drop, TypeOK
        <5> QED
          BY <5>1 DEF k
      <4>3. CASE Orphaned({j \in {KeyOf(t, l)} : store[j] = hold[t][l]})
        <5>1. k \in {j \in {KeyOf(t, l)} : store[j] = hold[t][l]}
          BY <4>1
        <5> QED
          BY <5>1, <4>3, <2>4
      <4> QED
        BY <4>2, <4>3, <2>6 DEF Release
    <3>5. hold'[u]["ocr"] = hold[u]["ocr"]
      BY <2>6, <3>4, <2>1, ReleaseHold
    <3> QED
      BY <3>2, <3>3, <3>5
  <2>7. CASE Tick
    <3>1. up' = up /\ hold' = hold /\ k \notin orphan /\ store'[k] = store[k]
      BY <2>7, <2>4, <2>1 DEF Tick, k
    <3> QED
      BY <3>1, <2>2 DEF k
  <2>8. ASSUME NEW m \in Node, Crash(m)
        PROVE  \E u \in Thread : NodeOf[u] = n /\ hold'[u]["ocr"] = store'[k]
    <3>1. n \in up /\ n # m /\ UNCHANGED <<store, orphan>>
      BY <2>8 DEF Crash
    <3>2. PICK u \in Thread : NodeOf[u] = n /\ hold[u]["ocr"] = store[k]
      BY <3>1, <2>2 DEF k
    <3>3. hold'[u] = hold[u]
      BY <2>8, <3>1, <3>2 DEF Crash, TypeOK
    <3> QED
      BY <3>1, <3>2, <3>3
  <2>9. ASSUME NEW m \in Node, NEW swept \in BOOLEAN, Restart(m, swept)
        PROVE  \E u \in Thread : NodeOf[u] = n /\ hold'[u]["ocr"] = store'[k]
    <3>1. n # m
      <4> SUFFICES ASSUME n = m PROVE FALSE
        OBVIOUS
      <4>1. swept
        BY <2>9, <2>4 DEF Restart, k
      <4>2. k \in Swept(m)
        BY <2>1, SweptNames DEF k
      <4>3. store'[k] = NoToken
        BY <2>9, <4>1, <4>2, <2>1 DEF Restart
      <4> QED
        BY <4>3 DEF k
    <3>2. k \notin Swept(m)
      BY <2>1, <3>1, SweptNames DEF k
    <3>3. n \in up /\ hold' = hold /\ k \notin orphan /\ store'[k] = store[k]
      BY <2>9, <2>4, <2>1, <3>1, <3>2 DEF Restart
    <3> QED
      BY <3>3, <2>2 DEF k
  <2>10. ASSUME NEW t \in Thread, NEW l \in Lock,
                Begin(t, l) \/ TrySetTaken(t) \/ SetFails(t) \/ TimesOut(t) \/ UNCHANGED vars
         PROVE  UNCHANGED <<store, up, hold, orphan>>
    BY <2>10 DEF Begin, TrySetTaken, SetFails, TimesOut, vars
  <2>11. CASE UNCHANGED vars
    BY <2>11, <2>3 DEF vars, k
  <2> QED
    BY <2>1, <2>3, <2>5, <2>6, <2>7, <2>8, <2>9, <2>10, <2>11 DEF Next, ThreadStep, k
<1> QED
  BY <1>1, <1>2, LockInvariant, PTL DEF Spec
=============================================================================
