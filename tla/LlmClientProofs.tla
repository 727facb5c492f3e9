--------------------------- MODULE LlmClientProofs ---------------------------
(* Proofs about LlmClient, for any number of threads and providers. *)
EXTENDS LlmClient, FiniteSetTheorems, TLAPS

USE DEF ghosts, health, call

(* What the critical section of a 429 rests on: a thread that is counting has
   the lock, and the count it read is still the registered one. *)
CountInv ==
    /\ strikes = limited
    /\ \A c \in Caller : pc[c] = "counting" => lock = c /\ seen[c] = strikes[At(c)]

(* A park has a rejected key behind it, and so has a thread that left its pin. *)
PinInv ==
    /\ \A p \in Provider : parked[p] > 0 => p \in rejected
    /\ PinIsKept

-----------------------------------------------------------------------------
(* Least and Most choose one of their arguments. *)
LEMMA Chosen ==
    ASSUME NEW a, NEW b
    PROVE  Least(a, b) \in {a, b} /\ Most(a, b) \in {a, b}
BY DEF Least, Most

(* What is left of a time stays a natural number within its limit. *)
LEMMA LessIsLess ==
    ASSUME NEW n \in Nat
    PROVE  Less(n) \in 0 .. n
BY DEF Less

(* The multiplier is one of the steps up to the cap. *)
LEMMA MultiplierBounded ==
    ASSUME NEW n
    PROVE  Multiplier(n) \in 1 .. MaxMultiplier
<1>1. MaxMultiplier \in 1 .. MaxMultiplier
    BY ClientAssumption
<1> QED BY <1>1, Zenon DEF Multiplier

(* A cooldown is a time. *)
LEMMA CooldownIsTime ==
    ASSUME NEW n, NEW header \in RetryAfters \cup {1}
    PROVE  Cooldown(n, header) \in Nat
<1>1. Multiplier(n) \in Nat /\ header \in Nat
    BY MultiplierBounded, ClientAssumption
<1> QED BY <1>1, Chosen DEF Cooldown

(* A pin is a target, and what may replace it is one as well. *)
LEMMA TargetsOfJobs ==
    ASSUME TypeOK, NEW c \in Caller
    PROVE  /\ Pin(c) \in Targets /\ job[c] \in AllJobs
           /\ Pin(c).provider = job[c].provider /\ job[c].provider \in Provider
           /\ FallbackTarget(Pin(c)) \subseteq Targets
<1>1. job[c] \in AllJobs /\ job[c].provider \in Provider
    BY ClientAssumption DEF TypeOK
<1>2. Pin(c) \in Targets /\ Pin(c).provider = job[c].provider
    BY <1>1 DEF Pin, Targets
<1>3. SecondModels(Pin(c)) \subseteq Targets
    BY <1>1 DEF SecondModels, Pin, Targets
<1> QED BY <1>1, <1>2, <1>3 DEF FallbackTarget, Targets

(* The provider of a target is a provider. *)
LEMMA TargetsHaveProviders ==
    ASSUME NEW t \in Targets
    PROVE  t.provider \in Provider
BY ClientAssumption DEF Targets

-----------------------------------------------------------------------------
(* Type correctness, in particular that no call sleeps longer than max_wait
   and that a cooldown never runs below zero. *)
THEOREM TypeCorrect == Spec => []TypeOK
<1>1. Init => TypeOK
  <2> SUFFICES ASSUME Init
               PROVE  TypeOK
    OBVIOUS
  <2>1. \A c \in Caller : job[c] \in AllJobs
    BY DEF Init
  <2>2. \A c \in Caller : Pin(c) \in Targets
    BY <2>1 DEF Pin, Targets
  <2> QED
    BY <2>2, ClientAssumption DEF Init, TypeOK, NewClient
<1>2. TypeOK /\ [Next]_vars => TypeOK'
  <2> SUFFICES ASSUME TypeOK, [Next]_vars
               PROVE  TypeOK'
    OBVIOUS
  <2> USE ClientAssumption DEF TypeOK
  <2>1. \A c \in Caller : At(c) \in Provider
    BY TargetsHaveProviders DEF At
  <2>2. \A p \in Provider : Nap(p) \in 0 .. MaxWait
    BY DEF Nap, Least
  <2>3. NewClient \in [try : 1 .. Attempts, filters : SUBSET Filters]
    BY DEF NewClient
  <2>4. ASSUME NEW c \in Caller, Fail(c)
        PROVE  /\ pc' \in [Caller -> {"idle", "waiting", "sending", "inflight", "counting", "failed"}]
               /\ client' \in [Caller -> [try : 1 .. Attempts, filters : SUBSET Filters]]
    BY <2>3, <2>4 DEF Fail, Goto
  <2>5. ASSUME NEW c \in Caller, NEW fs \in SUBSET Filters, Again(c, fs)
        PROVE  /\ pc' \in [Caller -> {"idle", "waiting", "sending", "inflight", "counting", "failed"}]
               /\ client' \in [Caller -> [try : 1 .. Attempts, filters : SUBSET Filters]]
    <3>1. CASE client[c].try < Attempts
      <4>1. [try |-> client[c].try + 1, filters |-> fs] \in [try : 1 .. Attempts, filters : SUBSET Filters]
        BY <3>1
      <4>2. /\ pc' = [pc EXCEPT ![c] = "sending"]
            /\ client' = [client EXCEPT ![c] = [try |-> client[c].try + 1, filters |-> fs]]
        BY <2>5, <3>1 DEF Again, Goto
      <4>3. client' \in [Caller -> [try : 1 .. Attempts, filters : SUBSET Filters]]
        BY <4>1, <4>2
      <4> QED
        BY <4>2, <4>3
    <3>2. CASE ~(client[c].try < Attempts)
      BY <2>4, <2>5, <3>2 DEF Again
    <3> QED
      BY <3>1, <3>2
  <2>6. ASSUME NEW c \in Caller, Close(c)
        PROVE  /\ pc' \in [Caller -> {"idle", "waiting", "sending", "inflight", "counting", "failed"}]
               /\ client' \in [Caller -> [try : 1 .. Attempts, filters : SUBSET Filters]]
               /\ target' \in [Caller -> Targets]
    BY <2>3, <2>6, TargetsOfJobs DEF Close, Goto
  <2>7. ASSUME NEW c \in Caller, NEW t \in Targets, Open(c, t)
        PROVE  /\ pc' \in [Caller -> {"idle", "waiting", "sending", "inflight", "counting", "failed"}]
               /\ target' \in [Caller -> Targets]
               /\ sleep' \in [Caller -> 0 .. MaxWait]
    <3>1. t.provider \in Provider
      BY TargetsHaveProviders
    <3>2. Nap(t.provider) \in 0 .. MaxWait
      BY <2>2, <3>1
    <3>3. 0 \in 0 .. MaxWait
      OBVIOUS
    <3>4. CASE parked[t.provider] > 0
      BY <2>7, <3>3, <3>4 DEF Open, Goto
    <3>5. CASE ~(parked[t.provider] > 0)
      <4>1. sleep' = [sleep EXCEPT ![c] = Nap(t.provider)]
        BY <2>7, <3>5 DEF Open
      <4>2. sleep' \in [Caller -> 0 .. MaxWait]
        BY <3>2, <4>1
      <4> QED
        BY <2>7, <3>5, <4>2 DEF Open, Goto
    <3> QED
      BY <3>4, <3>5
  <2>8. ASSUME NEW c \in Caller, Ask(c)
        PROVE  TypeOK'
    BY <2>7, <2>8, TargetsOfJobs DEF Ask
  <2>9. ASSUME NEW c \in Caller, Wake(c)
        PROVE  TypeOK'
    BY <2>9 DEF Wake, Goto
  <2>10. ASSUME NEW c \in Caller, Send(c)
         PROVE  TypeOK'
    BY <2>1, <2>10 DEF Send, Goto
  <2>11. ASSUME NEW c \in Caller, Flaky(c)
         PROVE  TypeOK'
    BY <2>5, <2>11 DEF Flaky
  <2>12. ASSUME NEW c \in Caller, Relax(c)
         PROVE  TypeOK'
    BY <2>5, <2>12 DEF Relax
  <2>13. ASSUME NEW c \in Caller, Refused(c)
         PROVE  TypeOK'
    BY <2>4, <2>13 DEF Refused
  <2>14. ASSUME NEW c \in Caller, Limited(c)
         PROVE  TypeOK'
    BY <2>1, <2>14 DEF Limited, Goto
  <2>15. ASSUME NEW c \in Caller, Count(c)
         PROVE  TypeOK'
    <3>1. \A n \in 0 .. MaxStrikes : Least(n + 1, MaxStrikes) \in 0 .. MaxStrikes
      BY DEF Least
    <3>2. client[c].filters \in SUBSET Filters
      OBVIOUS
    <3>3. cooldown' \in [Provider -> Nat]
      <4>1. PICK header \in RetryAfters \cup {1} :
               cooldown' = [cooldown EXCEPT
                   ![At(c)] = Cooldown(Least(seen[c] + 1, MaxStrikes), header)]
        BY <2>15 DEF Count
      <4>2. Cooldown(Least(seen[c] + 1, MaxStrikes), header) \in Nat
        BY CooldownIsTime
      <4> QED
        BY <4>1, <4>2
    <3>4. /\ strikes' \in [Provider -> 0 .. MaxStrikes]
          /\ limited' \in [Provider -> 0 .. MaxStrikes]
          /\ seen' \in [Caller -> 0 .. MaxStrikes]
      <4>1. /\ Least(seen[c] + 1, MaxStrikes) \in 0 .. MaxStrikes
            /\ Least(limited[At(c)] + 1, MaxStrikes) \in 0 .. MaxStrikes
            /\ 0 \in 0 .. MaxStrikes
        BY <2>1, <3>1
      <4>2. /\ strikes' = [strikes EXCEPT ![At(c)] = Least(seen[c] + 1, MaxStrikes)]
            /\ limited' = [limited EXCEPT ![At(c)] = Least(limited[At(c)] + 1, MaxStrikes)]
            /\ seen' = [seen EXCEPT ![c] = 0]
        BY <2>1, <2>15 DEF Count
      <4> QED
        BY <4>1, <4>2
    <3>5. Again(c, client[c].filters)
      BY <2>15 DEF Count
    <3> QED
      BY <2>5, <2>15, <3>2, <3>3, <3>4, <3>5 DEF Count
  <2>16. ASSUME NEW c \in Caller, Reject(c)
         PROVE  TypeOK'
    BY <2>1, <2>4, <2>16 DEF Reject
  <2>17. ASSUME NEW c \in Caller, Answer(c)
         PROVE  TypeOK'
    <3>1. /\ pc' \in [Caller -> {"idle", "waiting", "sending", "inflight", "counting", "failed"}]
          /\ client' \in [Caller -> [try : 1 .. Attempts, filters : SUBSET Filters]]
          /\ target' \in [Caller -> Targets]
      BY <2>4, <2>6, <2>17 DEF Answer
    <3> QED
      BY <2>1, <2>17, <3>1 DEF Answer
  <2>18. ASSUME NEW c \in Caller, Garbled(c)
         PROVE  TypeOK'
    BY <2>6, <2>18 DEF Garbled
  <2>19. ASSUME NEW c \in Caller, FallBack(c)
         PROVE  TypeOK'
    BY <2>7, <2>19, TargetsOfJobs DEF FallBack
  <2>20. ASSUME NEW c \in Caller, GiveUp(c)
         PROVE  TypeOK'
    BY <2>6, <2>20 DEF GiveUp
  <2>21. CASE Tick
    BY <2>21, LessIsLess DEF Tick
  <2>22. CASE UNCHANGED vars
    BY <2>22 DEF vars
  <2> QED
    BY <2>8, <2>9, <2>10, <2>11, <2>12, <2>13, <2>14, <2>15, <2>16, <2>17, <2>18,
       <2>19, <2>20, <2>21, <2>22 DEF Next, AnswerArrives, Own
<1> QED
  BY <1>1, <1>2, PTL DEF Spec
-----------------------------------------------------------------------------
(* Under _STATE_LOCK no 429 is lost: the read, the increment and the write of
   one thread are never interleaved with those of another. *)
THEOREM CountsAreExact == Spec => []NoLost429
<1>1. Init => CountInv
  BY DEF Init, CountInv
<1>2. TypeOK /\ CountInv /\ [Next]_vars => CountInv'
  <2> SUFFICES ASSUME TypeOK, CountInv, [Next]_vars
               PROVE  CountInv'
    OBVIOUS
  <2> USE DEF CountInv, At
  <2>1. ASSUME NEW c \in Caller, Limited(c)
        PROVE  CountInv'
    BY <2>1, ClientAssumption DEF TypeOK, Limited, Goto
  <2>2. ASSUME NEW c \in Caller, Count(c)
        PROVE  CountInv'
    <3>1. \A d \in Caller \ {c} : pc'[d] # "counting"
      BY <2>2 DEF TypeOK, Count, Again, Fail, Goto
    <3>2. pc'[c] # "counting"
      BY <2>2 DEF TypeOK, Count, Again, Fail, Goto
    <3>3. strikes' = limited'
      BY <2>2 DEF TypeOK, Count
    <3> QED
      BY <3>1, <3>2, <3>3
  <2>3. ASSUME NEW c \in Caller, Answer(c)
        PROVE  CountInv'
    BY <2>3, ClientAssumption DEF TypeOK, Answer, Close, Fail, Goto
  <2>4. ASSUME NEW c \in Caller, Reject(c)
        PROVE  CountInv'
    BY <2>4 DEF TypeOK, Reject, Fail, Goto
  <2>5. ASSUME NEW c \in Caller, Flaky(c) \/ Relax(c) \/ Refused(c)
        PROVE  CountInv'
    BY <2>5 DEF TypeOK, Flaky, Relax, Refused, Again, Fail, Goto
  <2>6. ASSUME NEW c \in Caller, Garbled(c) \/ GiveUp(c)
        PROVE  CountInv'
    BY <2>6 DEF TypeOK, Garbled, GiveUp, Close, Goto
  <2>7. ASSUME NEW c \in Caller, Ask(c) \/ FallBack(c)
        PROVE  CountInv'
    BY <2>7 DEF TypeOK, Ask, FallBack, Open, Goto
  <2>8. ASSUME NEW c \in Caller, Wake(c) \/ Send(c)
        PROVE  CountInv'
    BY <2>8 DEF TypeOK, Wake, Send, Goto
  <2>9. CASE Tick
    BY <2>9 DEF Tick
  <2>10. CASE UNCHANGED vars
    BY <2>10 DEF vars
  <2> QED
    BY <2>1, <2>2, <2>3, <2>4, <2>5, <2>6, <2>7, <2>8, <2>9, <2>10
    DEF Next, AnswerArrives, Own
<1>3. CountInv => NoLost429
  BY DEF CountInv, NoLost429
<1> QED
  BY <1>1, <1>2, <1>3, TypeCorrect, PTL DEF Spec

(* A thread leaves the provider of its pin only after that provider rejected
   a key, and the model of its pin only with fallbacks allowed. *)
THEOREM PinsAreKept == Spec => []PinIsKept
<1>1. Init => PinInv
  BY DEF Init, PinInv, PinIsKept, At, Pin
<1>2. TypeOK /\ PinInv /\ [Next]_vars => PinInv'
  <2> SUFFICES ASSUME TypeOK, PinInv, [Next]_vars
               PROVE  PinInv'
    OBVIOUS
  <2>1. ASSUME NEW c \in Caller, Ask(c)
        PROVE  PinInv'
    <3>1. target' = [target EXCEPT ![c] = Pin(c)] /\ UNCHANGED <<job, parked, rejected>>
      BY <2>1 DEF Ask, Open
    <3> QED
      BY <3>1 DEF PinInv, PinIsKept, At, Pin, TypeOK
  <2>2. ASSUME NEW c \in Caller, FallBack(c)
        PROVE  PinInv'
    <3>1. PICK t \in FallbackTarget(Pin(c)) : Open(c, t)
      BY <2>2 DEF FallBack
    <3>2. target' = [target EXCEPT ![c] = t] /\ UNCHANGED <<job, parked, rejected>>
      BY <2>2, <3>1 DEF FallBack, Open
    <3>3. job[c].fallbacks
      BY <2>2 DEF FallBack
    <3>4. t.provider # job[c].provider => job[c].provider \in rejected
      <4>1. Pin(c).provider = job[c].provider /\ job[c].provider \in Provider
        BY TargetsOfJobs
      <4>2. CASE Global.provider = Pin(c).provider
        <5>1. \A m : [Pin(c) EXCEPT !.model = m].provider = Pin(c).provider
          BY DEF Pin
        <5> QED
          BY <3>1, <4>1, <4>2, <5>1 DEF FallbackTarget, SecondModels
      <4>3. CASE Global.provider # Pin(c).provider
        BY <3>1, <4>1, <4>3 DEF FallbackTarget, PinInv
      <4> QED
        BY <4>2, <4>3
    <3> QED
      BY <3>2, <3>3, <3>4 DEF PinInv, PinIsKept, At, Pin, TypeOK
  <2>3. ASSUME NEW c \in Caller, Answer(c)
        PROVE  PinInv'
    <3>1. /\ UNCHANGED <<job, rejected>>
          /\ parked' = [parked EXCEPT ![At(c)] = 0]
          /\ target' = [target EXCEPT ![c] = Pin(c)] \/ target' = target
      BY <2>3 DEF Answer, Close
    <3> QED
      BY <3>1 DEF PinInv, PinIsKept, At, Pin, TypeOK
  <2>4. ASSUME NEW c \in Caller, Reject(c)
        PROVE  PinInv'
    <3>1. /\ UNCHANGED <<job, target>>
          /\ parked' = [parked EXCEPT ![At(c)] = AuthPark]
          /\ rejected' = rejected \cup {At(c)}
      BY <2>4 DEF Reject
    <3> QED
      BY <3>1 DEF PinInv, PinIsKept, At, Pin, TypeOK
  <2>5. ASSUME NEW c \in Caller, Garbled(c) \/ GiveUp(c)
        PROVE  PinInv'
    <3>1. target' = [target EXCEPT ![c] = Pin(c)] /\ UNCHANGED <<job, parked, rejected>>
      BY <2>5 DEF Garbled, GiveUp, Close
    <3> QED
      BY <3>1 DEF PinInv, PinIsKept, At, Pin, TypeOK
  <2>6. ASSUME NEW c \in Caller,
               Flaky(c) \/ Relax(c) \/ Refused(c) \/ Limited(c) \/ Wake(c) \/ Send(c) \/ Count(c)
        PROVE  PinInv'
    <3>1. UNCHANGED <<job, target, parked, rejected>>
      BY <2>6 DEF Flaky, Relax, Refused, Limited, Wake, Send, Count
    <3> QED
      BY <3>1 DEF PinInv, PinIsKept, At, Pin
  <2>7. CASE Tick
    <3>1. UNCHANGED <<job, target, rejected>> /\ \A p \in Provider : parked'[p] = Less(parked[p])
      BY <2>7 DEF Tick
    <3>2. \A p \in Provider : parked'[p] > 0 => parked[p] > 0
      BY <3>1, LessIsLess DEF TypeOK, Less
    <3> QED
      BY <3>1, <3>2 DEF PinInv, PinIsKept, At, Pin
  <2>8. CASE UNCHANGED vars
    BY <2>8 DEF vars, PinInv, PinIsKept, At, Pin
  <2> QED
    BY <2>1, <2>2, <2>3, <2>4, <2>5, <2>6, <2>7, <2>8 DEF Next, AnswerArrives, Own
<1> QED
  BY <1>1, <1>2, TypeCorrect, PTL DEF Spec, PinInv
-----------------------------------------------------------------------------
(* The rungs of its ladder that a thread has left once it is past max_wait, and
   those it may come to from before it. *)
Left(c) ==
    IF pc[c] = "sending" THEN client[c].try .. Attempts
    ELSE IF pc[c] \in {"inflight", "counting"} THEN (client[c].try + 1) .. Attempts
    ELSE {}
Ahead(c) == IF pc[c] = "waiting" THEN 1 .. Attempts ELSE Left(c)

AllRungs == Caller \X (1 .. Attempts)
Climbing(p) == {r \in AllRungs : At(r[1]) = p /\ r[2] \in Left(r[1])}
Coming(p) == {r \in AllRungs : At(r[1]) = p /\ r[2] \in Ahead(r[1])}

(* What a provider has received since it was parked, and what it still may: the
   thread that was rejected is not on its way. *)
ParkInv ==
    \A p \in Provider :
        IF parked[p] = 0 THEN knocks[p] = 0
        ELSE knocks[p] + Cardinality(Coming(p)) <= Attempts * (Cardinality(Caller) - 1)

(* The same of a cooldown: the thread that set it is past its first rung. *)
CoolInv ==
    \A p \in Provider :
        IF cooldown[p] = 0 THEN hurried[p] = 0
        ELSE hurried[p] + Cardinality(Climbing(p)) <= Attempts * Cardinality(Caller) - 1

TrafficInv == ParkInv /\ CoolInv

-----------------------------------------------------------------------------
(* All the rungs of all the threads, with and without those of one of them,
   and without one rung. *)
LEMMA RungsCounted ==
    ASSUME NEW c \in Caller, NEW k \in 1 .. Attempts
    PROVE  /\ Cardinality(Caller) \in Nat \ {0} /\ IsFiniteSet(AllRungs)
           /\ IsFiniteSet((Caller \ {c}) \X (1 .. Attempts))
           /\ Cardinality((Caller \ {c}) \X (1 .. Attempts)) = Attempts * (Cardinality(Caller) - 1)
           /\ Cardinality(AllRungs \ {<<c, k>>}) = Attempts * Cardinality(Caller) - 1
<1> USE ClientAssumption
<1>1. IsFiniteSet(1 .. Attempts) /\ Cardinality(1 .. Attempts) = Attempts
  <2>1. 1 \in Int /\ Attempts \in Int /\ ~(1 > Attempts) /\ Attempts - 1 + 1 = Attempts
    OBVIOUS
  <2> QED
    BY <2>1, FS_Interval
<1>2. Cardinality(Caller) \in Nat /\ Cardinality(Caller) # 0
  BY FS_CardinalityType, FS_EmptySet
<1>3. IsFiniteSet(Caller \ {c}) /\ Cardinality(Caller \ {c}) = Cardinality(Caller) - 1
  BY FS_RemoveElement
<1>4. /\ IsFiniteSet(AllRungs) /\ Cardinality(AllRungs) = Cardinality(Caller) * Attempts
      /\ IsFiniteSet((Caller \ {c}) \X (1 .. Attempts))
      /\ Cardinality((Caller \ {c}) \X (1 .. Attempts)) = (Cardinality(Caller) - 1) * Attempts
  BY <1>1, <1>3, FS_Product, ZenonT(60) DEF AllRungs
<1>5. Cardinality(AllRungs \ {<<c, k>>}) = Cardinality(AllRungs) - 1
  <2>1. <<c, k>> \in AllRungs
    BY DEF AllRungs
  <2> QED
    BY <1>4, <2>1, FS_RemoveElement
<1>6. \A n \in Nat : n * Attempts = Attempts * n
  OBVIOUS
<1>7. Cardinality(Caller) - 1 \in Nat
  BY <1>2
<1> QED
  BY <1>2, <1>4, <1>5, <1>6, <1>7

(* Fewer rungs, fewer requests. *)
LEMMA FewerRungs ==
    ASSUME NEW S \in SUBSET AllRungs, NEW T \in SUBSET S
    PROVE  /\ IsFiniteSet(S) /\ Cardinality(S) \in Nat
           /\ Cardinality(T) \in Nat /\ Cardinality(T) <= Cardinality(S)
           /\ \A r \in S \ T : Cardinality(T) <= Cardinality(S) - 1
<1>1. PICK c : c \in Caller
  BY ClientAssumption
<1>2. 1 \in 1 .. Attempts
  BY ClientAssumption
<1>3. IsFiniteSet(S) /\ IsFiniteSet(T) /\ Cardinality(T) <= Cardinality(S)
  BY <1>1, <1>2, RungsCounted, FS_Subset
<1>4. Cardinality(S) \in Nat /\ Cardinality(T) \in Nat
  BY <1>3, FS_CardinalityType
<1>5. ASSUME NEW r \in S \ T PROVE Cardinality(T) <= Cardinality(S) - 1
  <2>1. T \in SUBSET (S \ {r}) /\ IsFiniteSet(S \ {r}) /\ Cardinality(S \ {r}) = Cardinality(S) - 1
    BY <1>3, FS_RemoveElement
  <2> QED
    BY <2>1, FS_Subset
<1> QED
  BY <1>3, <1>4, <1>5

(* A step of a thread moves nobody else. *)
LEMMA OthersStay ==
    ASSUME TypeOK, NEW c \in Caller, Ask(c) \/ AnswerArrives(c) \/ Own(c), NEW d \in Caller \ {c}
    PROVE  /\ pc'[d] = pc[d] /\ target'[d] = target[d] /\ client'[d] = client[d]
           /\ At(d)' = At(d) /\ Left(d)' = Left(d) /\ Ahead(d)' = Ahead(d)
<1> DEFINE Same == pc'[d] = pc[d] /\ target'[d] = target[d] /\ client'[d] = client[d]
<1>0. /\ \A x : [pc EXCEPT ![c] = x][d] = pc[d]
      /\ \A x : [target EXCEPT ![c] = x][d] = target[d]
      /\ \A x : [client EXCEPT ![c] = x][d] = client[d]
  BY DEF TypeOK
<1>1. ASSUME Ask(c) \/ FallBack(c) PROVE Same
  <2>1. ASSUME NEW t, Open(c, t) PROVE pc'[d] = pc[d] /\ target'[d] = target[d]
    BY <1>0, <2>1 DEF Open, Goto
  <2> QED
    BY <1>1, <2>1 DEF Ask, FallBack
<1>2. ASSUME Wake(c) \/ Send(c) \/ Limited(c) PROVE Same
  <2>1. (\E l : Goto(c, l)) /\ UNCHANGED <<target, client>>
    BY <1>2 DEF Wake, Send, Limited
  <2> QED
    BY <1>0, <2>1 DEF Goto
<1>3. ASSUME Flaky(c) \/ Relax(c) \/ Refused(c) \/ Count(c) \/ Reject(c) PROVE Same
  <2>1. ((\E fs : Again(c, fs)) \/ Fail(c)) /\ UNCHANGED target
    BY <1>3, Zenon DEF Flaky, Relax, Refused, Count, Reject
  <2>2. pc'[d] = pc[d] /\ client'[d] = client[d]
    BY <1>0, <2>1 DEF Again, Fail, Goto
  <2> QED
    BY <2>1, <2>2
<1>4. ASSUME Answer(c) \/ Garbled(c) \/ GiveUp(c) PROVE Same
  <2>1. Close(c) \/ (Fail(c) /\ UNCHANGED target)
    BY <1>4 DEF Answer, Garbled, GiveUp
  <2> QED
    BY <1>0, <2>1 DEF Close, Fail, Goto
<1>5. Same
  BY <1>1, <1>2, <1>3, <1>4 DEF AnswerArrives, Own
<1> QED
  BY <1>5 DEF At, Left, Ahead

(* A thread that goes on along its ladder, or ends, has no more before it than it
   had; only one that opens a call has, at a provider that is not parked, and one
   that wakes, at a provider that is not cooling. *)
LEMMA OwnRungs ==
    ASSUME TypeOK, NEW c \in Caller, Ask(c) \/ AnswerArrives(c) \/ Own(c)
    PROVE  /\ \/ Left(c)' = {}
              \/ At(c)' = At(c) /\ (Left(c)' \subseteq Left(c) \/ cooldown[At(c)] = 0)
           /\ \/ Ahead(c)' = {}
              \/ At(c)' = At(c) /\ Ahead(c)' \subseteq Ahead(c)
              \/ parked[At(c)'] = 0
<1> USE ClientAssumption
<1>0. client[c].try \in 1 .. Attempts /\ c \in DOMAIN pc /\ c \in DOMAIN target /\ c \in DOMAIN client
  BY DEF TypeOK
<1>1. ASSUME NEW t \in Targets, Open(c, t)
      PROVE  Left(c)' = {} /\ (Ahead(c)' = {} \/ parked[At(c)'] = 0)
  <2>1. target'[c] = t /\ pc'[c] \in {"failed", "waiting"} /\ (pc'[c] = "waiting" => ~(parked[t.provider] > 0))
    BY <1>0, <1>1 DEF Open, Goto
  <2>2. parked[t.provider] \in Nat
    BY TargetsHaveProviders DEF TypeOK
  <2> QED
    BY <2>1, <2>2 DEF Left, Ahead, At
<1>2. ASSUME Fail(c) \/ Close(c) PROVE Left(c)' = {} /\ Ahead(c)' = {}
  BY <1>0, <1>2 DEF Fail, Close, Goto, Left, Ahead
<1>3. ASSUME NEW fs, pc[c] \in {"inflight", "counting"}, Again(c, fs), UNCHANGED target
      PROVE  At(c)' = At(c) /\ Left(c)' \subseteq Left(c) /\ Ahead(c)' \subseteq Ahead(c)
  <2>1. CASE Fail(c)
    BY <1>2, <1>3, <2>1 DEF At
  <2>2. CASE Goto(c, "sending") /\ client' = [client EXCEPT ![c] = [try |-> @.try + 1, filters |-> fs]]
    BY <1>0, <1>3, <2>2 DEF Goto, Left, Ahead, At
  <2> QED
    BY <1>3, <2>1, <2>2 DEF Again
<1>4. CASE Ask(c) \/ FallBack(c)
  BY <1>1, <1>4, TargetsOfJobs DEF Ask, FallBack
<1>5. CASE Flaky(c) \/ Relax(c) \/ Count(c)
  <2>1. pc[c] \in {"inflight", "counting"} /\ UNCHANGED target /\ \E fs : Again(c, fs)
    BY <1>5, Zenon DEF Flaky, Relax, Count
  <2> QED
    BY <1>3, <2>1
<1>6. CASE Refused(c) \/ Reject(c) \/ Answer(c) \/ Garbled(c) \/ GiveUp(c)
  BY <1>2, <1>6 DEF Refused, Reject, Answer, Garbled, GiveUp
<1>7. CASE Limited(c)
  BY <1>0, <1>7 DEF Limited, Goto, Left, Ahead, At
<1>8. CASE Send(c)
  <2>1. pc[c] = "sending" /\ pc'[c] = "inflight" /\ client' = client /\ target' = target
    BY <1>0, <1>8 DEF Send, Goto
  <2>2. (client[c].try + 1) .. Attempts \subseteq client[c].try .. Attempts
    BY <1>0
  <2> QED
    BY <2>1, <2>2 DEF Left, Ahead, At
<1>9. CASE Wake(c)
  <2>1. /\ pc[c] = "waiting" /\ client' = client /\ target' = target
        /\ pc'[c] = IF cooldown[At(c)] > 0 THEN "failed" ELSE "sending"
    BY <1>0, <1>9 DEF Wake, Goto
  <2>2. cooldown[At(c)] \in Nat
    BY TargetsHaveProviders DEF TypeOK, At
  <2>3. client[c].try .. Attempts \subseteq 1 .. Attempts
    BY <1>0
  <2> QED
    BY <2>1, <2>2, <2>3 DEF Left, Ahead, At
<1> QED
  BY <1>4, <1>5, <1>6, <1>7, <1>8, <1>9 DEF AnswerArrives, Own

(* So nobody joins the ladders of a provider that cools, and nobody who was not
   on his way comes to one that is parked. *)
LEMMA NoNewcomers ==
    ASSUME TypeOK, NEW c \in Caller, Ask(c) \/ AnswerArrives(c) \/ Own(c), NEW p \in Provider
    PROVE  /\ cooldown[p] # 0 => Climbing(p)' \subseteq Climbing(p)
           /\ parked[p] # 0 => Coming(p)' \subseteq Coming(p)
<1>1. ASSUME cooldown[p] # 0, NEW r \in Climbing(p)' PROVE r \in Climbing(p)
  <2>1. r \in AllRungs /\ r[1] \in Caller /\ At(r[1])' = p /\ r[2] \in Left(r[1])'
    BY <1>1 DEF Climbing, AllRungs
  <2>2. At(r[1]) = p /\ r[2] \in Left(r[1])
    BY <1>1, <2>1, OthersStay, OwnRungs
  <2> QED
    BY <2>1, <2>2 DEF Climbing
<1>2. ASSUME parked[p] # 0, NEW r \in Coming(p)' PROVE r \in Coming(p)
  <2>1. r \in AllRungs /\ r[1] \in Caller /\ At(r[1])' = p /\ r[2] \in Ahead(r[1])'
    BY <1>2 DEF Coming, AllRungs
  <2>2. At(r[1]) = p /\ r[2] \in Ahead(r[1])
    BY <1>2, <2>1, OthersStay, OwnRungs DEF At
  <2> QED
    BY <2>1, <2>2 DEF Coming
<1> QED
  BY <1>1, <1>2

(* A request takes the rung it is made from off both. *)
LEMMA SendTakesRung ==
    ASSUME TypeOK, NEW c \in Caller, Send(c), NEW p, p = At(c)
    PROVE  /\ <<c, client[c].try>> \in Climbing(p) \ Climbing(p)'
           /\ <<c, client[c].try>> \in Coming(p) \ Coming(p)'
<1>1. client[c].try \in 1 .. Attempts /\ Attempts \in Nat /\ pc[c] = "sending"
  BY ClientAssumption DEF TypeOK, Send
<1>2. pc'[c] = "inflight" /\ client' = client
  BY DEF Send, Goto, TypeOK
<1>3. client[c].try \in client[c].try .. Attempts /\ client[c].try \notin (client[c].try + 1) .. Attempts
  BY <1>1
<1>4. client[c].try \in Left(c) /\ client[c].try \in Ahead(c)
  BY <1>1, <1>3 DEF Left, Ahead
<1>5. client[c].try \notin Left(c)' /\ client[c].try \notin Ahead(c)'
  BY <1>2, <1>3 DEF Left, Ahead
<1>6. <<c, client[c].try>> \in AllRungs
  BY <1>1 DEF AllRungs
<1> QED
  BY <1>4, <1>5, <1>6 DEF Climbing, Coming

(* The thread whose key was rejected has no rung left, and the one that sets a
   cooldown not its first. *)
LEMMA RegistrarLeaves ==
    ASSUME TypeOK, NEW c \in Caller, NEW p \in Provider
    PROVE  /\ Reject(c) => Coming(p)' \subseteq (Caller \ {c}) \X (1 .. Attempts)
           /\ Count(c) => Climbing(p)' \subseteq AllRungs \ {<<c, 1>>}
<1>1. ASSUME Reject(c) PROVE Ahead(c)' = {}
  BY <1>1 DEF Reject, Fail, Goto, Ahead, Left, TypeOK
<1>2. ASSUME Count(c) PROVE 1 \notin Left(c)'
  <2>1. client[c].try \in 1 .. Attempts /\ Attempts \in Nat
    BY ClientAssumption DEF TypeOK
  <2>2. CASE Fail(c)
    BY <2>2 DEF Fail, Goto, Left, TypeOK
  <2>3. CASE /\ Goto(c, "sending")
             /\ client' = [client EXCEPT ![c] = [try |-> @.try + 1, filters |-> client[c].filters]]
    <3>1. Left(c)' = (client[c].try + 1) .. Attempts
      BY <2>3 DEF Goto, Left, TypeOK
    <3> QED
      BY <2>1, <3>1
  <2> QED
    BY <1>2, <2>2, <2>3 DEF Count, Again
<1>3. Reject(c) => Coming(p)' \subseteq (Caller \ {c}) \X (1 .. Attempts)
  BY <1>1 DEF Coming, AllRungs
<1>4. Count(c) => Climbing(p)' \subseteq AllRungs \ {<<c, 1>>}
  BY <1>2 DEF Climbing
<1> QED
  BY <1>3, <1>4

(* What a step does to the registries and to the count of requests: it parks or
   forgets, cools, sends, or leaves them alone. *)
LEMMA RegistryMoves ==
    ASSUME TypeOK, NEW c \in Caller, Ask(c) \/ AnswerArrives(c) \/ Own(c)
    PROVE  /\ \/ Reject(c) /\ UNCHANGED knocks
              \/ parked' = [parked EXCEPT ![At(c)] = 0] /\ knocks' = [knocks EXCEPT ![At(c)] = 0]
              \/ Send(c) /\ UNCHANGED parked
              \/ UNCHANGED <<parked, knocks>>
           /\ \/ Count(c) /\ UNCHANGED hurried
              \/ Send(c) /\ UNCHANGED cooldown
              \/ UNCHANGED <<cooldown, hurried>>
BY DEF Ask, AnswerArrives, Own, Wake, Send, Flaky, Relax, Refused, Limited, Count, Reject,
   Answer, Garbled, FallBack, GiveUp

(* No step lets more through to a parked provider. *)
LEMMA ParkStep ==
    ASSUME TypeOK, ParkInv, NEW c \in Caller, Ask(c) \/ AnswerArrives(c) \/ Own(c)
    PROVE  ParkInv'
<1> DEFINE Limit == Attempts * (Cardinality(Caller) - 1)
<1> SUFFICES ASSUME NEW p \in Provider
             PROVE  IF parked'[p] = 0 THEN knocks'[p] = 0
                    ELSE knocks'[p] + Cardinality(Coming(p)') <= Limit
  BY DEF ParkInv
<1>1. /\ Limit \in Int
      /\ \A T \in SUBSET ((Caller \ {c}) \X (1 .. Attempts)) :
            Cardinality(T) \in Nat /\ Cardinality(T) <= Limit
  <2>1. 1 \in 1 .. Attempts
    BY ClientAssumption
  <2>2. IsFiniteSet((Caller \ {c}) \X (1 .. Attempts)) /\ Cardinality((Caller \ {c}) \X (1 .. Attempts)) = Limit
    BY <2>1, RungsCounted
  <2> QED
    BY <2>2, FS_Subset, FS_CardinalityType
<1>2. /\ Coming(p) \in SUBSET AllRungs /\ Coming(p)' \in SUBSET AllRungs
      /\ Cardinality(Coming(p)) \in Nat /\ Cardinality(Coming(p)') \in Nat
  <2>1. Coming(p) \in SUBSET AllRungs /\ Coming(p)' \in SUBSET AllRungs
    BY DEF Coming, AllRungs
  <2> QED
    BY <2>1, FewerRungs
<1>3. parked[p] # 0 => Cardinality(Coming(p)') <= Cardinality(Coming(p))
  BY <1>2, NoNewcomers, FewerRungs
<1>4. knocks[p] \in Nat /\ At(c) \in Provider
  BY TargetsHaveProviders DEF TypeOK, At
<1>5. IF parked[p] = 0 THEN knocks[p] = 0 ELSE knocks[p] + Cardinality(Coming(p)) <= Limit
  BY DEF ParkInv
<1> HIDE DEF Limit
<1>6. CASE Reject(c) /\ UNCHANGED knocks
  <2>1. Cardinality(Coming(p)') <= Limit \/ At(c) # p
    BY <1>1, <1>6, RegistrarLeaves
  <2>2. p = At(c) \/ parked'[p] = parked[p]
    BY <1>6 DEF Reject, TypeOK
  <2>3. p = At(c) => parked'[p] # 0
    BY <1>6, ClientAssumption DEF Reject, TypeOK
  <2> QED
    BY <1>1, <1>2, <1>3, <1>4, <1>5, <1>6, <2>1, <2>2, <2>3
<1>7. CASE parked' = [parked EXCEPT ![At(c)] = 0] /\ knocks' = [knocks EXCEPT ![At(c)] = 0]
  <2>1. IF p = At(c) THEN parked'[p] = 0 /\ knocks'[p] = 0
        ELSE parked'[p] = parked[p] /\ knocks'[p] = knocks[p]
    BY <1>4, <1>7 DEF TypeOK
  <2> QED
    BY <1>1, <1>2, <1>3, <1>4, <1>5, <2>1
<1>8. CASE Send(c) /\ UNCHANGED parked
  <2>1. CASE p = At(c) /\ parked[p] # 0
    <3>0. <<c, client[c].try>> \in Coming(p) \ Coming(p)'
      BY <1>8, <2>1, SendTakesRung
    <3>1. Coming(p)' \subseteq Coming(p) /\ <<c, client[c].try>> \in Coming(p) \ Coming(p)'
      BY <2>1, <3>0, NoNewcomers
    <3>2. Cardinality(Coming(p)') <= Cardinality(Coming(p)) - 1
      BY <1>2, <3>1, FewerRungs
    <3>3. knocks'[p] \in {knocks[p], knocks[p] + 1}
      BY <1>8, <2>1 DEF Send, TypeOK
    <3> QED
      BY <1>1, <1>2, <1>4, <1>5, <1>8, <2>1, <3>2, <3>3
  <2>2. CASE p = At(c) /\ parked[p] = 0
    <3>1. knocks'[p] = knocks[p]
      BY <1>4, <1>8, <2>2 DEF Send, TypeOK
    <3> QED
      BY <1>5, <1>8, <2>2, <3>1
  <2>3. CASE p # At(c)
    <3>1. knocks'[p] = knocks[p]
      BY <1>8, <2>3 DEF Send, TypeOK
    <3> QED
      BY <1>1, <1>2, <1>3, <1>4, <1>5, <1>8, <3>1
  <2> QED
    BY <2>1, <2>2, <2>3
<1>9. CASE UNCHANGED <<parked, knocks>>
  BY <1>1, <1>2, <1>3, <1>4, <1>5, <1>9
<1> QED
  BY <1>6, <1>7, <1>8, <1>9, RegistryMoves

(* Nor to a cooling one; a cooldown is never shorter than one unit of time. *)
LEMMA CoolStep ==
    ASSUME TypeOK, CoolInv, NEW c \in Caller, Ask(c) \/ AnswerArrives(c) \/ Own(c)
    PROVE  CoolInv'
<1> DEFINE Limit == Attempts * Cardinality(Caller) - 1
<1> SUFFICES ASSUME NEW p \in Provider
             PROVE  IF cooldown'[p] = 0 THEN hurried'[p] = 0
                    ELSE hurried'[p] + Cardinality(Climbing(p)') <= Limit
  BY DEF CoolInv
<1>1. /\ Limit \in Int
      /\ \A T \in SUBSET (AllRungs \ {<<c, 1>>}) :
            Cardinality(T) \in Nat /\ Cardinality(T) <= Limit
  <2>1. 1 \in 1 .. Attempts
    BY ClientAssumption
  <2>2. IsFiniteSet(AllRungs \ {<<c, 1>>}) /\ Cardinality(AllRungs \ {<<c, 1>>}) = Limit
    BY <2>1, RungsCounted, FS_RemoveElement
  <2> QED
    BY <2>2, FS_Subset, FS_CardinalityType
<1>2. /\ Climbing(p) \in SUBSET AllRungs /\ Climbing(p)' \in SUBSET AllRungs
      /\ Cardinality(Climbing(p)) \in Nat /\ Cardinality(Climbing(p)') \in Nat
  <2>1. Climbing(p) \in SUBSET AllRungs /\ Climbing(p)' \in SUBSET AllRungs
    BY DEF Climbing, AllRungs
  <2> QED
    BY <2>1, FewerRungs
<1>3. cooldown[p] # 0 => Cardinality(Climbing(p)') <= Cardinality(Climbing(p))
  BY <1>2, NoNewcomers, FewerRungs
<1>4. hurried[p] \in Nat /\ At(c) \in Provider
  BY TargetsHaveProviders DEF TypeOK, At
<1>5. IF cooldown[p] = 0 THEN hurried[p] = 0 ELSE hurried[p] + Cardinality(Climbing(p)) <= Limit
  BY DEF CoolInv
<1> HIDE DEF Limit
<1>6. CASE Count(c) /\ UNCHANGED hurried
  <2>1. Cardinality(Climbing(p)') <= Limit
    BY <1>1, <1>6, RegistrarLeaves
  <2>2. p = At(c) \/ cooldown'[p] = cooldown[p]
    BY <1>6 DEF Count, TypeOK
  <2>3. p = At(c) => cooldown'[p] # 0
    <3>1. ASSUME NEW n, NEW header \in RetryAfters \cup {1} PROVE Cooldown(n, header) # 0
      <4>1. Multiplier(n) \in Nat \ {0} /\ header \in Nat
        BY MultiplierBounded, ClientAssumption
      <4> QED
        BY <4>1 DEF Cooldown, Most
    <3>2. PICK header \in RetryAfters \cup {1} :
              cooldown' = [cooldown EXCEPT ![At(c)] = Cooldown(Least(seen[c] + 1, MaxStrikes), header)]
      BY <1>6 DEF Count
    <3> QED
      BY <1>4, <3>1, <3>2 DEF TypeOK
  <2> QED
    BY <1>1, <1>2, <1>3, <1>4, <1>5, <1>6, <2>1, <2>2, <2>3
<1>7. CASE Send(c) /\ UNCHANGED cooldown
  <2>1. CASE p = At(c) /\ cooldown[p] # 0
    <3>0. <<c, client[c].try>> \in Climbing(p) \ Climbing(p)'
      BY <1>7, <2>1, SendTakesRung
    <3>1. Climbing(p)' \subseteq Climbing(p)
      BY <2>1, NoNewcomers
    <3>2. Cardinality(Climbing(p)') <= Cardinality(Climbing(p)) - 1
      BY <1>2, <3>0, <3>1, FewerRungs
    <3>3. hurried'[p] \in {hurried[p], hurried[p] + 1}
      BY <1>7, <2>1 DEF Send, TypeOK
    <3> QED
      BY <1>1, <1>2, <1>4, <1>5, <1>7, <2>1, <3>2, <3>3
  <2>2. CASE p = At(c) /\ cooldown[p] = 0
    <3>1. hurried'[p] = hurried[p]
      BY <1>4, <1>7, <2>2 DEF Send, TypeOK
    <3> QED
      BY <1>5, <1>7, <2>2, <3>1
  <2>3. CASE p # At(c)
    <3>1. hurried'[p] = hurried[p]
      BY <1>7, <2>3 DEF Send, TypeOK
    <3> QED
      BY <1>1, <1>2, <1>3, <1>4, <1>5, <1>7, <3>1
  <2> QED
    BY <2>1, <2>2, <2>3
<1>8. CASE UNCHANGED <<cooldown, hurried>>
  BY <1>1, <1>2, <1>3, <1>4, <1>5, <1>8
<1> QED
  BY <1>6, <1>7, <1>8, RegistryMoves

(* Both limits are natural numbers: there is a thread, and a try. *)
LEMMA LimitsAreNat ==
    /\ Attempts * (Cardinality(Caller) - 1) \in Nat
    /\ Attempts * Cardinality(Caller) - 1 \in Nat
<1>1. PICK c : c \in Caller
  BY ClientAssumption
<1>2. 1 \in 1 .. Attempts
  BY ClientAssumption
<1>3. /\ Cardinality((Caller \ {c}) \X (1 .. Attempts)) \in Nat
      /\ Cardinality(AllRungs \ {<<c, 1>>}) \in Nat
  BY <1>1, <1>2, RungsCounted, FS_CardinalityType, FS_RemoveElement
<1> QED
  BY <1>1, <1>2, <1>3, RungsCounted

(* Time lets parks and cooldowns lapse, and with them what was counted. *)
LEMMA TickStep ==
    ASSUME TypeOK, TrafficInv, Tick
    PROVE  TrafficInv'
<1>1. ASSUME NEW p \in Provider PROVE Coming(p)' = Coming(p) /\ Climbing(p)' = Climbing(p)
  BY DEF Tick, Coming, Climbing, At, Ahead, Left
<1>2. ASSUME NEW p \in Provider
      PROVE  /\ IF parked[p] <= 1 THEN parked'[p] = 0 /\ knocks'[p] = 0
                ELSE parked[p] # 0 /\ parked'[p] # 0 /\ knocks'[p] = knocks[p]
             /\ IF cooldown[p] <= 1 THEN cooldown'[p] = 0 /\ hurried'[p] = 0
                ELSE cooldown[p] # 0 /\ cooldown'[p] # 0 /\ hurried'[p] = hurried[p]
  <2>1. parked[p] \in Nat /\ cooldown[p] \in Nat
    BY ClientAssumption DEF TypeOK
  <2>2. /\ parked'[p] = Less(parked[p]) /\ knocks'[p] = IF parked[p] <= 1 THEN 0 ELSE knocks[p]
        /\ cooldown'[p] = Less(cooldown[p]) /\ hurried'[p] = IF cooldown[p] <= 1 THEN 0 ELSE hurried[p]
    BY DEF Tick
  <2> QED
    BY <2>1, <2>2 DEF Less
<1>3. ParkInv'
  <2> DEFINE Limit == Attempts * (Cardinality(Caller) - 1)
  <2> SUFFICES ASSUME NEW p \in Provider
               PROVE  IF parked'[p] = 0 THEN knocks'[p] = 0
                      ELSE knocks'[p] + Cardinality(Coming(p)') <= Limit
    BY DEF ParkInv
  <2>1. IF parked[p] = 0 THEN knocks[p] = 0 ELSE knocks[p] + Cardinality(Coming(p)) <= Limit
    BY DEF TrafficInv, ParkInv
  <2> HIDE DEF Limit
  <2>2. CASE parked[p] <= 1
    BY <1>2, <2>2
  <2>3. CASE ~(parked[p] <= 1)
    <3>1. parked[p] # 0 /\ parked'[p] # 0 /\ knocks'[p] = knocks[p]
      BY <1>2, <2>3
    <3>2. Cardinality(Coming(p)') = Cardinality(Coming(p))
      BY <1>1, Zenon
    <3> QED
      BY <2>1, <3>1, <3>2
  <2> QED
    BY <2>2, <2>3
<1>4. CoolInv'
  <2> DEFINE Limit == Attempts * Cardinality(Caller) - 1
  <2> SUFFICES ASSUME NEW p \in Provider
               PROVE  IF cooldown'[p] = 0 THEN hurried'[p] = 0
                      ELSE hurried'[p] + Cardinality(Climbing(p)') <= Limit
    BY DEF CoolInv
  <2>1. IF cooldown[p] = 0 THEN hurried[p] = 0 ELSE hurried[p] + Cardinality(Climbing(p)) <= Limit
    BY DEF TrafficInv, CoolInv
  <2> HIDE DEF Limit
  <2>2. CASE cooldown[p] <= 1
    BY <1>2, <2>2
  <2>3. CASE ~(cooldown[p] <= 1)
    <3>1. cooldown[p] # 0 /\ cooldown'[p] # 0 /\ hurried'[p] = hurried[p]
      BY <1>2, <2>3
    <3>2. Cardinality(Climbing(p)') = Cardinality(Climbing(p))
      BY <1>1, Zenon
    <3> QED
      BY <2>1, <3>1, <3>2
  <2> QED
    BY <2>2, <2>3
<1> QED
  BY <1>3, <1>4 DEF TrafficInv

(* A rejected key and a cooldown stop the traffic: the provider receives what was
   already on the ladders, and no more, for any number of threads and tries. *)
THEOREM TrafficIsStopped == Spec => []TrafficStops
<1>1. Init => TrafficInv
  <2> SUFFICES ASSUME Init, NEW p \in Provider
               PROVE  parked[p] = 0 /\ knocks[p] = 0 /\ cooldown[p] = 0 /\ hurried[p] = 0
    BY DEF TrafficInv, ParkInv, CoolInv
  <2> QED
    BY DEF Init
<1>2. TypeOK /\ TrafficInv /\ [Next]_vars => TrafficInv'
  <2> SUFFICES ASSUME TypeOK, TrafficInv, [Next]_vars
               PROVE  TrafficInv'
    OBVIOUS
  <2>1. CASE UNCHANGED vars
    BY <2>1 DEF vars, TrafficInv, ParkInv, CoolInv, Coming, Climbing, At, Ahead, Left
  <2> QED
    BY <2>1, ParkStep, CoolStep, TickStep DEF Next, TrafficInv
<1>3. TypeOK /\ TrafficInv => TrafficStops
  <2> SUFFICES ASSUME TypeOK, TrafficInv, NEW p \in Provider
               PROVE  /\ knocks[p] <= Attempts * (Cardinality(Caller) - 1)
                      /\ hurried[p] <= Attempts * Cardinality(Caller) - 1
    BY DEF TrafficStops, ParkStopsTraffic, CooldownStopsTraffic
  <2>1. Coming(p) \in SUBSET AllRungs /\ Climbing(p) \in SUBSET AllRungs
    BY DEF Coming, Climbing
  <2>2. Cardinality(Coming(p)) \in Nat /\ Cardinality(Climbing(p)) \in Nat
    BY <2>1, FewerRungs
  <2>3. knocks[p] \in Nat /\ hurried[p] \in Nat
    BY DEF TypeOK
  <2>4. Attempts * (Cardinality(Caller) - 1) \in Nat /\ Attempts * Cardinality(Caller) - 1 \in Nat
    BY LimitsAreNat
  <2>5. IF parked[p] = 0 THEN knocks[p] = 0
        ELSE knocks[p] + Cardinality(Coming(p)) <= Attempts * (Cardinality(Caller) - 1)
    BY DEF TrafficInv, ParkInv
  <2>6. IF cooldown[p] = 0 THEN hurried[p] = 0
        ELSE hurried[p] + Cardinality(Climbing(p)) <= Attempts * Cardinality(Caller) - 1
    BY DEF TrafficInv, CoolInv
  <2> QED
    BY <2>2, <2>3, <2>4, <2>5, <2>6
<1> QED
  BY <1>1, <1>2, <1>3, TypeCorrect, PTL DEF Spec
=============================================================================
