-------------------------- MODULE WorkerSlotsProofs --------------------------
(***************************************************************************)
(* The admission of jobs is proved for every number of threads, every      *)
(* queue name and every environment: the counters are typed, they count    *)
(* exactly the threads that own a slot, the limits hold, and the component *)
(* implements the pool of SlotPool.                                        *)
(***************************************************************************)
EXTENDS WorkerSlots, FiniteSetTheorems, TLAPS

(* resolve_slot_config: whatever the environment says, every limit is at
   least one. *)
LEMMA ResolvedSettings ==
    ASSUME NEW raw \in RawSettings, NEW reuse \in BOOLEAN
    PROVE  ResolveSlotConfig(raw, reuse) \in Settings
<1>1. raw \in [concurrent : Int, heavy : Int, light : Int]
  BY SlotAssumption
<1>2. \A n \in Int : AtLeastOne(n) \in Nat \ {0}
  BY DEF AtLeastOne
<1> QED
  BY <1>1, <1>2 DEF ResolveSlotConfig, Settings

(* Type correctness: no admission, start, failure, ending or restart gives a
   counter that is not a natural number. *)
THEOREM TypeCorrect == Spec => []TypeOK
<1>1. Init => TypeOK
  BY ResolvedSettings DEF Init, TypeOK, Stages
<1>2. TypeOK /\ [Next]_vars => TypeOK'
  <2> SUFFICES ASSUME TypeOK, [Next]_vars
               PROVE  TypeOK'
    OBVIOUS
  <2> USE DEF TypeOK, Stages
  <2>1. ASSUME NEW t \in Thread, NEW q \in Queue, Submit(t, q)
        PROVE  TypeOK'
    BY <2>1 DEF Submit
  <2>2. ASSUME NEW t \in Thread, StartThread(t) \/ StartFails(t) \/ Hangs(t) \/ Wakes(t)
        PROVE  TypeOK'
    BY <2>2 DEF StartThread, StartFails, Hangs, Wakes
  <2>3. ASSUME NEW t \in Thread, RunEnds(t)
        PROVE  TypeOK'
    <3>1. \A n \in Nat : Less(n) \in Nat
      BY DEF Less
    <3> QED
      BY <2>3, <3>1 DEF RunEnds, ReleaseSlot
  <2>4. CASE Restart
    BY <2>4 DEF Restart
  <2>5. CASE UNCHANGED vars
    BY <2>5 DEF vars
  <2> QED
    BY <2>1, <2>2, <2>3, <2>4, <2>5 DEF Next
<1> QED
  BY <1>1, <1>2, PTL DEF Spec

-----------------------------------------------------------------------------
(* The sets of slot owners are finite, so that counting them makes sense. *)
LEMMA OwnersAreFinite ==
    /\ IsFiniteSet(Occupying) /\ IsFiniteSet(HeavyOccupying)
    /\ IsFiniteSet(Occupying \ HeavyOccupying)
<1>1. Occupying \subseteq Thread /\ HeavyOccupying \subseteq Thread
  BY DEF Occupying, HeavyOccupying
<1> QED
  BY <1>1, FS_Subset, SlotAssumption

(* The owners of slots stay finitely many after a step. *)
LEMMA OwnersAreFiniteNext ==
    /\ IsFiniteSet(Occupying') /\ IsFiniteSet(HeavyOccupying')
    /\ IsFiniteSet(Occupying' \ HeavyOccupying')
<1>1. Occupying' \subseteq Thread /\ HeavyOccupying' \subseteq Thread
  BY DEF Occupying, HeavyOccupying
<1> QED
  BY <1>1, FS_Subset, SlotAssumption

(* An admission adds its thread to the owners, to those of its tier only. *)
LEMMA SubmitOwners ==
    ASSUME TypeOK, NEW t \in Thread, NEW q \in Queue, Submit(t, q)
    PROVE  /\ t \notin Occupying
           /\ Occupying' = Occupying \cup {t}
           /\ HeavyOccupying' = IF IsHeavy(q) THEN HeavyOccupying \cup {t}
                                              ELSE HeavyOccupying
BY DEF TypeOK, Submit, Occupying, HeavyOccupying, IsHeavy

(* The end of a job takes its own thread, and nobody else, out of them. *)
LEMMA RunEndsOwners ==
    ASSUME TypeOK, NEW t \in Thread, RunEnds(t)
    PROVE  /\ t \in Occupying
           /\ t \in HeavyOccupying <=> IsHeavy(queue[t])
           /\ Occupying' = Occupying \ {t}
           /\ HeavyOccupying' = HeavyOccupying \ {t}
BY DEF TypeOK, RunEnds, Occupying, HeavyOccupying, IsHeavy, Stages

(* Starting, failing to start, hanging and waking leave the owners alone. *)
LEMMA StartOwners ==
    ASSUME TypeOK, NEW t \in Thread,
           StartThread(t) \/ StartFails(t) \/ Hangs(t) \/ Wakes(t)
    PROVE  Occupying' = Occupying /\ HeavyOccupying' = HeavyOccupying
BY DEF TypeOK, StartThread, StartFails, Hangs, Wakes, Occupying, HeavyOccupying, IsHeavy, Stages

-----------------------------------------------------------------------------
(* The owners split into the two tiers. *)
LEMMA TiersAddUp ==
    /\ Cardinality(Occupying) \in Nat
    /\ Cardinality(HeavyOccupying) \in Nat
    /\ Cardinality(Occupying \ HeavyOccupying) \in Nat
    /\ Cardinality(Occupying) = Cardinality(HeavyOccupying)
                                 + Cardinality(Occupying \ HeavyOccupying)
<1>1. /\ Cardinality(Occupying) \in Nat
      /\ Cardinality(HeavyOccupying) \in Nat
      /\ Cardinality(Occupying \ HeavyOccupying) \in Nat
  BY OwnersAreFinite, FS_CardinalityType
<1>2. Occupying \cap HeavyOccupying = HeavyOccupying
  BY DEF HeavyOccupying
<1>3. Cardinality(Occupying \ HeavyOccupying)
          = Cardinality(Occupying) - Cardinality(HeavyOccupying)
  BY <1>2, OwnersAreFinite, FS_Difference
<1> QED
  BY <1>1, <1>3

(* An admission adds one owner, and one to the count of its tier. *)
LEMMA SubmitCounts ==
    ASSUME TypeOK, CountersMatchThreads, NEW t \in Thread, NEW q \in Queue, Submit(t, q)
    PROVE  CountersMatchThreads'
<1> DEFINE Light == Occupying \ HeavyOccupying
<1>1. /\ t \notin Occupying /\ HeavyOccupying \subseteq Occupying
      /\ Occupying' = Occupying \cup {t}
      /\ HeavyOccupying' = IF IsHeavy(q) THEN HeavyOccupying \cup {t} ELSE HeavyOccupying
  BY SubmitOwners DEF HeavyOccupying
<1>2. Cardinality(Occupying') = Cardinality(Occupying) + 1
  BY <1>1, OwnersAreFinite, FS_AddElement
<1>3. CASE IsHeavy(q)
  <2>1. HeavyOccupying' = HeavyOccupying \cup {t} /\ Light' = Light
    BY <1>1, <1>3
  <2>2. Cardinality(HeavyOccupying') = Cardinality(HeavyOccupying) + 1
    BY <2>1, <1>1, OwnersAreFinite, FS_AddElement
  <2>3. Cardinality(Light') = Cardinality(Light)
    BY <2>1
  <2> QED
    BY <1>2, <1>3, <2>2, <2>3, TiersAddUp DEF CountersMatchThreads, Submit
<1>4. CASE ~IsHeavy(q)
  <2>1. HeavyOccupying' = HeavyOccupying /\ Light' = Light \cup {t} /\ t \notin Light
    BY <1>1, <1>4
  <2>2. Cardinality(Light') = Cardinality(Light) + 1
    BY <2>1, OwnersAreFinite, FS_AddElement
  <2> QED
    BY <1>2, <1>4, <2>1, <2>2, TiersAddUp DEF CountersMatchThreads, Submit
<1> QED
  BY <1>3, <1>4

(* The end of a job gives exactly one back: max(0, ..) is never the larger. *)
LEMMA RunEndsCounts ==
    ASSUME TypeOK, CountersMatchThreads, NEW t \in Thread, RunEnds(t)
    PROVE  CountersMatchThreads'
<1> DEFINE Light == Occupying \ HeavyOccupying
<1>1. /\ t \in Occupying /\ HeavyOccupying \subseteq Occupying
      /\ t \in HeavyOccupying <=> IsHeavy(queue[t])
      /\ Occupying' = Occupying \ {t} /\ HeavyOccupying' = HeavyOccupying \ {t}
  BY RunEndsOwners DEF HeavyOccupying
<1>2. Cardinality(Occupying') = Cardinality(Occupying) - 1
  BY <1>1, OwnersAreFinite, FS_RemoveElement
<1>3. \A S : IsFiniteSet(S) => Cardinality(S) \in Nat
  BY FS_CardinalityType
<1>4. CASE IsHeavy(queue[t])
  <2>1. HeavyOccupying' = HeavyOccupying \ {t} /\ Light' = Light /\ t \in HeavyOccupying
    BY <1>1, <1>4
  <2>2. /\ Cardinality(HeavyOccupying') = Cardinality(HeavyOccupying) - 1
        /\ Cardinality(HeavyOccupying') \in Nat
    BY <2>1, <1>3, OwnersAreFinite, OwnersAreFiniteNext, FS_RemoveElement
  <2>3. Less(activeHeavy) = activeHeavy - 1
    BY <2>2 DEF Less, CountersMatchThreads, TypeOK
  <2>4. Cardinality(Light') = Cardinality(Light)
    BY <2>1
  <2> QED
    BY <1>2, <1>4, <2>2, <2>3, <2>4, TiersAddUp
    DEF CountersMatchThreads, RunEnds, ReleaseSlot
<1>5. CASE ~IsHeavy(queue[t])
  <2>1. HeavyOccupying' = HeavyOccupying /\ Light' = Light \ {t} /\ t \in Light
    BY <1>1, <1>5
  <2>2. /\ Cardinality(Light') = Cardinality(Light) - 1
        /\ Cardinality(Light') \in Nat
    BY <2>1, <1>3, OwnersAreFinite, OwnersAreFiniteNext, FS_RemoveElement
  <2>3. Less(activeLight) = activeLight - 1
    BY <2>2 DEF Less, CountersMatchThreads, TypeOK
  <2> QED
    BY <1>2, <1>5, <2>1, <2>2, <2>3, TiersAddUp
    DEF CountersMatchThreads, RunEnds, ReleaseSlot
<1> QED
  BY <1>4, <1>5

(* Every step keeps the counters equal to the numbers of owners. *)
LEMMA CountsStep == TypeOK /\ CountersMatchThreads /\ [Next]_vars => CountersMatchThreads'
<1> SUFFICES ASSUME TypeOK, CountersMatchThreads, [Next]_vars
             PROVE  CountersMatchThreads'
  OBVIOUS
<1>1. ASSUME NEW t \in Thread, StartThread(t) \/ StartFails(t) \/ Hangs(t) \/ Wakes(t)
      PROVE  CountersMatchThreads'
  BY <1>1, StartOwners
  DEF CountersMatchThreads, StartThread, StartFails, Hangs, Wakes
<1>2. CASE Restart
  <2>1. Occupying' = {} /\ HeavyOccupying' = {}
    BY <1>2 DEF Restart, Occupying, HeavyOccupying
  <2> QED
    BY <1>2, <2>1, FS_EmptySet DEF Restart, CountersMatchThreads
<1>3. CASE UNCHANGED vars
  BY <1>3 DEF vars, CountersMatchThreads, Occupying, HeavyOccupying, IsHeavy
<1> QED
  BY <1>1, <1>2, <1>3, SubmitCounts, RunEndsCounts DEF Next

(* The counters always say how many threads of each tier own a slot. *)
THEOREM CountersCorrect == Spec => []CountersMatchThreads
<1>1. Init => CountersMatchThreads
  <2> SUFFICES ASSUME Init PROVE CountersMatchThreads
    OBVIOUS
  <2>1. Occupying = {} /\ HeavyOccupying = {}
    BY DEF Init, Occupying, HeavyOccupying
  <2> QED
    BY <2>1, FS_EmptySet DEF Init, CountersMatchThreads
<1> QED
  BY <1>1, CountsStep, TypeCorrect, PTL DEF Spec

-----------------------------------------------------------------------------
(* An admission stays within the limits: its guard speaks of the counters, the
   limits of the threads, and CountersMatchThreads joins the two. *)
LEMMA SubmitBounds ==
    ASSUME TypeOK, CountersMatchThreads, CountersMatchThreads', SlotBounds,
           NEW t \in Thread, NEW q \in Queue, Submit(t, q)
    PROVE  SlotBounds'
BY TiersAddUp
DEF Submit, CanAdmit, HeavyFree, LightFree, SlotBounds, CountersMatchThreads, TypeOK, Settings

(* The other steps add no owner. *)
LEMMA BoundsStep ==
    TypeOK /\ CountersMatchThreads /\ CountersMatchThreads' /\ SlotBounds /\ [Next]_vars
        => SlotBounds'
<1> SUFFICES ASSUME TypeOK, CountersMatchThreads, CountersMatchThreads', SlotBounds, [Next]_vars
             PROVE  SlotBounds'
  OBVIOUS
<1>1. ASSUME NEW t \in Thread, StartThread(t) \/ StartFails(t) \/ Hangs(t) \/ Wakes(t)
      PROVE  SlotBounds'
  BY <1>1, StartOwners DEF SlotBounds, StartThread, StartFails, Hangs, Wakes
<1>2. ASSUME NEW t \in Thread, RunEnds(t)
      PROVE  SlotBounds'
  <2>1. \A n \in Nat : Less(n) \in Nat /\ Less(n) <= n
    BY DEF Less
  <2>2. settings' = settings /\ activeHeavy' <= activeHeavy /\ activeLight' <= activeLight
        /\ activeJobs' <= activeHeavy + activeLight /\ activeJobs = activeHeavy + activeLight
        /\ activeHeavy' \in Nat /\ activeLight' \in Nat /\ activeJobs' \in Nat
    BY <1>2, <2>1, TiersAddUp DEF RunEnds, ReleaseSlot, TypeOK, CountersMatchThreads
  <2> QED
    BY <2>2 DEF SlotBounds, CountersMatchThreads, TypeOK, Settings
<1>3. CASE Restart
  BY <1>3 DEF Restart, SlotBounds, CountersMatchThreads, TypeOK, Settings
<1>4. CASE UNCHANGED vars
  BY <1>4 DEF vars, SlotBounds, Occupying, HeavyOccupying, IsHeavy
<1> QED
  BY <1>1, <1>2, <1>3, <1>4, SubmitBounds DEF Next

(* No order of submissions, failures and endings runs more jobs than the
   resolved limits. *)
THEOREM SlotsBounded == Spec => []SlotBounds
<1>1. Init => SlotBounds
  <2> SUFFICES ASSUME Init PROVE SlotBounds
    OBVIOUS
  <2>1. Occupying = {} /\ HeavyOccupying = {} /\ Occupying \ HeavyOccupying = {}
    BY DEF Init, Occupying, HeavyOccupying
  <2>2. settings \in Settings
    BY ResolvedSettings DEF Init
  <2> QED
    BY <2>1, <2>2, FS_EmptySet DEF SlotBounds, Settings
<1> QED
  BY <1>1, BoundsStep, TypeCorrect, CountersCorrect, PTL DEF Spec

(* With REUSE_IDLE_SLOTS off and tiers that fit the cap, a tier below its
   number is never refused: the numbers are reservations then. *)
THEOREM StrictReservation == Spec => []ReservedWhenStrict
<1>1. TypeOK /\ CountersMatchThreads /\ SlotBounds => ReservedWhenStrict
  <2> SUFFICES ASSUME TypeOK, CountersMatchThreads, SlotBounds, Strict, NEW q \in Queue,
                      IF IsHeavy(q) THEN HeavyFree ELSE activeLight < settings.light
               PROVE  CanAdmit(q)
    BY DEF ReservedWhenStrict
  <2>1. activeJobs = activeHeavy + activeLight
        /\ activeHeavy <= settings.heavy /\ activeLight <= settings.light
    BY TiersAddUp DEF CountersMatchThreads, SlotBounds, Strict
  <2>2. activeJobs < settings.concurrent
    BY <2>1 DEF Strict, HeavyFree, TypeOK, Settings
  <2> QED
    BY <2>2 DEF CanAdmit, HeavyFree, LightFree
<1> QED
  BY <1>1, TypeCorrect, CountersCorrect, SlotsBounded, PTL

-----------------------------------------------------------------------------
(* The pool counts with the same operator. *)
LEMMA SameCardinality == \A S : Pool!Cardinality(S) = Cardinality(S)
BY DEF Pool!Cardinality, Cardinality

(* Every step of the slots is a step of the pool or stutters: what the counters
   do is what the abstract pool promises. *)
LEMMA PoolStep ==
    TypeOK /\ CountersMatchThreads /\ [Next]_vars => [Pool!Next]_(Pool!poolVars)
<1> SUFFICES ASSUME TypeOK, CountersMatchThreads, [Next]_vars
             PROVE  [Pool!Next]_(Pool!poolVars)
  OBVIOUS
<1>1. ASSUME NEW t \in Thread, NEW q \in Queue, Submit(t, q)
      PROVE  Pool!Next
  <2>1. settings' = settings /\ CanAdmit(q)
    BY <1>1 DEF Submit
  <2>2. CASE IsHeavy(q)
    <3>1. Pool!GrantHeavy(t)
      BY <1>1, <2>1, <2>2, SubmitOwners, SameCardinality
      DEF Pool!GrantHeavy, CanAdmit, HeavyFree, CountersMatchThreads
    <3> QED
      BY <3>1 DEF Pool!Next
  <2>3. CASE ~IsHeavy(q)
    <3>1. Pool!GrantLight(t)
      BY <1>1, <2>1, <2>3, SubmitOwners, SameCardinality
      DEF Pool!GrantLight, CanAdmit, CountersMatchThreads
    <3> QED
      BY <3>1 DEF Pool!Next
  <2> QED
    BY <2>2, <2>3
<1>2. ASSUME NEW t \in Thread, StartThread(t) \/ StartFails(t) \/ Hangs(t) \/ Wakes(t)
      PROVE  UNCHANGED Pool!poolVars
  BY <1>2, StartOwners DEF Pool!poolVars, StartThread, StartFails, Hangs, Wakes
<1>3. ASSUME NEW t \in Thread, RunEnds(t)
      PROVE  Pool!Next
  <2>1. Pool!GiveBack(t)
    BY <1>3, RunEndsOwners DEF Pool!GiveBack, RunEnds
  <2> QED
    BY <2>1 DEF Pool!Next
<1>4. CASE Restart
  <2>1. Pool!Reset
    BY <1>4 DEF Restart, Pool!Reset, Occupying, HeavyOccupying
  <2> QED
    BY <2>1 DEF Pool!Next
<1>5. CASE UNCHANGED vars
  BY <1>5 DEF vars, Pool!poolVars, Occupying, HeavyOccupying, IsHeavy
<1> QED
  BY <1>1, <1>2, <1>3, <1>4, <1>5 DEF Next

(* The slots implement the pool: initial states map to initial states and
   steps to steps. *)
THEOREM SlotsImplementPool == Spec => ImplementsPool
<1>1. Init => Pool!Init
  <2> SUFFICES ASSUME Init PROVE Pool!Init
    OBVIOUS
  <2>1. settings \in Settings
    BY ResolvedSettings DEF Init
  <2> QED
    BY <2>1 DEF Init, Pool!Init, Occupying, HeavyOccupying, Settings
<1> QED
  BY <1>1, PoolStep, TypeCorrect, CountersCorrect, PTL
  DEF Spec, ImplementsPool, Pool!Spec
=============================================================================
