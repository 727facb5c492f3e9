--------------------------- MODULE WorkerPartsProofs ---------------------------
(***************************************************************************)
(* Proofs about five parts of a worker that share no state: the cached     *)
(* readers (ModelManager), the slots of the providers (RateLimit), one run *)
(* of the cleanup job (CleanupJob), what the jobs spend (JobCosts) and one *)
(* run of the QA job (QaJob).  The run of MCWorkerParts has TLC check the  *)
(* same properties on instances of these parts.                            *)
(***************************************************************************)
EXTENDS WorkerParts, FiniteSetTheorems, WellFoundedInduction, TLAPS

-----------------------------------------------------------------------------
(***************************************************************************)
(* ModelManager.  What holds a reader in the cache while a thread works    *)
(* with it is its last use, which is no older than the hand-out.  That     *)
(* there is only one copy to hand out rests on the lock: a thread that     *)
(* loads has it, and its key stays empty until it is done.                 *)
(***************************************************************************)

(* The one who loads holds the lock, and nothing is cached under its key. *)
LoaderAlone ==
    \A t \in Models!Thread :
        /\ step[t] = "load" <=> lock = t
        /\ step[t] = "load" => reader[key[t]] = Models!NoCopy

(* A thread has a reader only while it predicts, and its reader has not been used
   longer ago than it was handed out. *)
UsedSince ==
    \A t \in Models!Thread : copy[t] # Models!NoCopy =>
        /\ step[t] = "predict"
        /\ lastUsed[key[t]] >= since[t]

ManagerInv == Models!TypeOK /\ LoaderAlone /\ UsedSince /\ Models!WorksWithTheCached

(* Every step keeps the types. *)
LEMMA ManagerType ==
    ASSUME Models!ManagerAssumption, Models!TypeOK, [Models!Next]_(Models!vars)
    PROVE  Models!TypeOK'
<1> USE DEF Models!TypeOK, Models!ManagerAssumption, Models!Thread, Models!Nobody,
            Models!NoCopy, Models!NoTime, Models!To, Models!Leave, Models!Used
<1>1. ASSUME NEW t \in Models!Thread, Models!Ask(t) PROVE Models!TypeOK'
  <2>1. CASE available BY <1>1, <2>1 DEF Models!Ask
  <2>2. CASE ~available BY <1>1, <2>2 DEF Models!Ask
  <2> QED BY <2>1, <2>2
<1>2. ASSUME NEW t \in Models!Thread, Models!Hit(t) PROVE Models!TypeOK'
  BY <1>2 DEF Models!Hit, Models!Hand
<1>3. ASSUME NEW t \in Models!Thread, Models!StartLoad(t) PROVE Models!TypeOK'
  BY <1>3 DEF Models!StartLoad, Models!Miss
<1>4. ASSUME NEW t \in Models!Thread, Models!Loaded(t) PROVE Models!TypeOK'
  BY <1>4 DEF Models!Loaded, Models!Hand
<1>5. ASSUME NEW t \in Models!Thread, Models!LoadFails(t) PROVE Models!TypeOK'
  BY <1>5 DEF Models!LoadFails
<1>6. ASSUME NEW t \in Models!Thread, Models!Predicted(t) PROVE Models!TypeOK'
  BY <1>6 DEF Models!Predicted
<1>7. CASE Models!ReadTime BY <1>7 DEF Models!ReadTime
<1>8. CASE Models!Unload BY <1>8 DEF Models!Unload, Models!Expired
<1>9. CASE Models!Tick BY <1>9 DEF Models!Tick
<1>10. CASE UNCHANGED Models!vars BY <1>10 DEF Models!vars
<1> QED BY <1>1, <1>2, <1>3, <1>4, <1>5, <1>6, <1>7, <1>8, <1>9, <1>10 DEF Models!Next

(* Whoever loads, no step gives the lock to another or fills the key it loads. *)
LEMMA LoaderStep ==
    ASSUME Models!ManagerAssumption, Models!TypeOK, LoaderAlone, [Models!Next]_(Models!vars)
    PROVE  LoaderAlone'
<1> USE DEF Models!TypeOK, Models!ManagerAssumption, LoaderAlone, Models!Thread, Models!Nobody,
            Models!NoCopy, Models!NoTime, Models!To
<1>1. ASSUME NEW t \in Models!Thread, Models!Ask(t) PROVE LoaderAlone'
  <2>1. CASE available BY <1>1, <2>1 DEF Models!Ask
  <2>2. CASE ~available BY <1>1, <2>2 DEF Models!Ask
  <2> QED BY <2>1, <2>2
<1>2. ASSUME NEW t \in Models!Thread, Models!Hit(t) PROVE LoaderAlone'
  BY <1>2 DEF Models!Hit, Models!Hand
<1>3. ASSUME NEW t \in Models!Thread, Models!StartLoad(t) PROVE LoaderAlone'
  BY <1>3 DEF Models!StartLoad, Models!Miss
<1>4. ASSUME NEW t \in Models!Thread, Models!Loaded(t) PROVE LoaderAlone'
  BY <1>4 DEF Models!Loaded, Models!Hand
<1>5. ASSUME NEW t \in Models!Thread, Models!LoadFails(t) \/ Models!Predicted(t) PROVE LoaderAlone'
  BY <1>5 DEF Models!LoadFails, Models!Predicted
<1>6. CASE Models!Unload BY <1>6 DEF Models!Unload
<1>7. CASE Models!ReadTime \/ Models!Tick \/ UNCHANGED Models!vars
  BY <1>7 DEF Models!ReadTime, Models!Tick, Models!vars
<1> QED BY <1>1, <1>2, <1>3, <1>4, <1>5, <1>6, <1>7 DEF Models!Next

(* Time and last uses only grow, so that a use stays as young as the hand-out. *)
LEMMA UsedStep ==
    ASSUME Models!ManagerAssumption, Models!TypeOK, LoaderAlone, UsedSince, [Models!Next]_(Models!vars)
    PROVE  UsedSince'
<1> USE DEF Models!TypeOK, Models!ManagerAssumption, UsedSince, Models!Thread, Models!Nobody,
            Models!NoCopy, Models!NoTime, Models!To
<1>1. ASSUME NEW t \in Models!Thread, Models!Ask(t) PROVE UsedSince'
  <2>1. CASE available BY <1>1, <2>1 DEF Models!Ask
  <2>2. CASE ~available BY <1>1, <2>2 DEF Models!Ask
  <2> QED BY <2>1, <2>2
<1>2. ASSUME NEW t \in Models!Thread, Models!Hit(t) PROVE UsedSince'
  BY <1>2 DEF Models!Hit, Models!Hand, Models!Used
<1>3. ASSUME NEW t \in Models!Thread, Models!StartLoad(t) PROVE UsedSince'
  BY <1>3 DEF Models!StartLoad, Models!Miss
<1>4. ASSUME NEW t \in Models!Thread, Models!Loaded(t) PROVE UsedSince'
  BY <1>4 DEF Models!Loaded, Models!Hand, Models!Used
<1>5. ASSUME NEW t \in Models!Thread, Models!LoadFails(t) \/ Models!Predicted(t) PROVE UsedSince'
  BY <1>5 DEF Models!LoadFails, Models!Predicted
<1>6. CASE Models!Unload \/ Models!ReadTime \/ Models!Tick \/ UNCHANGED Models!vars
  BY <1>6 DEF Models!Unload, Models!ReadTime, Models!Tick, Models!vars
<1> QED BY <1>1, <1>2, <1>3, <1>4, <1>5, <1>6 DEF Models!Next

(* The maintenance loop compares with a time it has read earlier, so that it
   takes no reader whose last use is within MODEL_TTL of now. *)
LEMMA CachedStep ==
    ASSUME Models!ManagerAssumption, ManagerInv, [Models!Next]_(Models!vars)
    PROVE  Models!WorksWithTheCached'
<1> USE DEF ManagerInv, Models!TypeOK, Models!ManagerAssumption, Models!WorksWithTheCached,
            Models!Thread, Models!Nobody, Models!NoCopy, Models!NoTime, Models!To
<1>1. ASSUME NEW t \in Models!Thread, Models!Ask(t) PROVE Models!WorksWithTheCached'
  <2>1. CASE available
    BY <1>1, <2>1 DEF Models!Ask, UsedSince
  <2>2. CASE ~available BY <1>1, <2>2 DEF Models!Ask
  <2> QED BY <2>1, <2>2
<1>2. ASSUME NEW t \in Models!Thread, Models!Hit(t) PROVE Models!WorksWithTheCached'
  BY <1>2 DEF Models!Hit, Models!Hand, Models!Used
<1>3. ASSUME NEW t \in Models!Thread, Models!StartLoad(t) PROVE Models!WorksWithTheCached'
  BY <1>3 DEF Models!StartLoad, Models!Miss
<1>4. ASSUME NEW t \in Models!Thread, Models!Loaded(t) PROVE Models!WorksWithTheCached'
  BY <1>4 DEF Models!Loaded, Models!Hand, LoaderAlone
<1>5. ASSUME NEW t \in Models!Thread, Models!LoadFails(t) \/ Models!Predicted(t)
      PROVE  Models!WorksWithTheCached'
  BY <1>5 DEF Models!LoadFails, Models!Predicted
<1>6. CASE Models!Unload
  BY <1>6 DEF Models!Unload, Models!Expired, UsedSince
<1>7. CASE Models!ReadTime \/ Models!Tick \/ UNCHANGED Models!vars
  BY <1>7 DEF Models!ReadTime, Models!Tick, Models!vars
<1> QED BY <1>1, <1>2, <1>3, <1>4, <1>5, <1>6, <1>7 DEF Models!Next

(* Only this part moves, if it is the one that was chosen. *)
LEMMA ModelsMove ==
    ASSUME [Next]_vars, part' = "models"
    PROVE  part = "models" /\ [Models!Next]_(Models!vars)
BY DEF Next, vars, modelVars, Models!vars

ModelsInv == part = "models" => ManagerInv

(* ManagerInv holds in every state of the model manager. *)
LEMMA ModelsInvariant == Spec => []ModelsInv
<1>1. Init => ModelsInv
  <2>1. part = "models" /\ Init => Models!Init
    BY DEF Init
  <2>2. Models!Init => ManagerInv
    BY PartsAssumption
       DEF Models!Init, ManagerInv, Models!TypeOK, LoaderAlone, UsedSince, Models!WorksWithTheCached,
           Models!ManagerAssumption, Models!Thread, Models!Nobody, Models!NoCopy, Models!NoTime
  <2> QED BY <2>1, <2>2 DEF ModelsInv
<1>2. ModelsInv /\ [Next]_vars => ModelsInv'
  BY PartsAssumption, ModelsMove, ManagerType, LoaderStep, UsedStep, CachedStep
     DEF ModelsInv, ManagerInv
<1> QED BY <1>1, <1>2, PTL DEF Spec

(* A reader is worked with only as the one cached copy, for MODEL_TTL after it was
   handed out: for any threads, keys and number of loads, with the maintenance loop
   unloading in between (WorksWithTheCached). *)
THEOREM OneCopyInUse == Spec => []WorksWithTheCached
<1>1. ModelsInv => WorksWithTheCached
  BY DEF ModelsInv, ManagerInv, WorksWithTheCached
<1> QED BY <1>1, ModelsInvariant, PTL
-----------------------------------------------------------------------------
(***************************************************************************)
(* RateLimit.  The distance of two slots is a matter of the list of slots  *)
(* only if PROVIDER_LAST_REQUEST_TIME is the last one of it: whoever is    *)
(* next then adds the distance to the greatest.                            *)
(***************************************************************************)
LastIsTheLast(p) == slots[p] # <<>> => last[p] = slots[p][Len(slots[p])]

Apart(p) == \A i, j \in DOMAIN slots[p] : i < j => slots[p][i] + MinDelay[p] <= slots[p][j]

SleepsUntilItsOwn(c) ==
    due[c] # Rate!Never => \E i \in DOMAIN slots[target[c]] : slots[target[c]][i] = due[c]

RateInv ==
    /\ Rate!RateTypeOK
    /\ last \in [Provider -> Nat \cup {Rate!Never}] /\ due \in [Caller -> Nat \cup {Rate!Never}]
    /\ slots \in [Provider -> Seq(Nat)]
    /\ \A p \in Provider : LastIsTheLast(p) /\ Apart(p)
    /\ \A c \in Caller : SleepsUntilItsOwn(c)

(* A slot that is taken comes after all slots of its provider, by the distance. *)
LEMMA SlotTaken ==
    ASSUME Rate!RateAssumption, RateInv, NEW c \in Caller, Rate!TakeSlot(c),
           NEW p \in Provider, p = target[c]
    PROVE  RateInv'
<1> USE DEF RateInv, Rate!RateTypeOK, Rate!RateAssumption, Rate!Never
<1> DEFINE slot == Rate!Later(time, last[p] + MinDelay[p])
<1>1. /\ p \in Provider /\ MinDelay[p] \in Nat /\ time \in Nat
      /\ last[p] \in Int /\ slots[p] \in Seq(Nat)
  BY DEF Rate!TakeSlot
<1>2. slot \in Nat /\ last[p] + MinDelay[p] <= slot
  BY <1>1 DEF Rate!Later
<1>3. /\ due[c] = Rate!Never /\ Len(slots[p]) < MaxSlots
      /\ last' = [last EXCEPT ![p] = slot]
      /\ due' = [due EXCEPT ![c] = slot]
      /\ slots' = [slots EXCEPT ![p] = Append(slots[p], slot)]
      /\ time' = time /\ target' = target
  BY DEF Rate!TakeSlot, Rate!Remember
<1> HIDE DEF slot
<1>4. /\ slots'[p] = Append(slots[p], slot) /\ last'[p] = slot
      /\ \A q \in Provider \ {p} : slots'[q] = slots[q] /\ last'[q] = last[q]
  BY <1>1, <1>3
<1>5. LastIsTheLast(p)' /\ (\A q \in Provider \ {p} : LastIsTheLast(q)')
  BY <1>1, <1>2, <1>4 DEF LastIsTheLast
<1>6. Apart(p)'
  <2> SUFFICES ASSUME NEW i \in DOMAIN slots'[p], NEW j \in DOMAIN slots'[p], i < j
               PROVE  slots'[p][i] + MinDelay[p] <= slots'[p][j]
    BY DEF Apart
  <2> DEFINE n == Len(slots[p])
  <2>1. n \in Nat /\ i \in 1 .. n /\ j \in 1 .. n + 1 /\ slots'[p][i] = slots[p][i] /\ slots[p][i] \in Nat
    BY <1>1, <1>2, <1>4
  <2>2. CASE j \in 1 .. n
    <3>1. slots'[p][j] = slots[p][j]
      BY <1>1, <1>2, <1>4, <2>2
    <3>2. i \in DOMAIN slots[p] /\ j \in DOMAIN slots[p]
      BY <1>1, <2>1, <2>2
    <3> QED BY <2>1, <3>1, <3>2 DEF Apart
  <2>3. CASE j = n + 1
    <3>1. slots'[p][j] = slot
      BY <1>1, <1>2, <1>4, <2>3
    <3>2. last[p] = slots[p][n]
      BY <1>1, <2>1 DEF LastIsTheLast
    <3>3. slots[p][i] <= slots[p][n]
      <4>1. Apart(p) /\ n \in DOMAIN slots[p] /\ i \in DOMAIN slots[p] /\ slots[p][n] \in Nat
        BY <1>1, <2>1
      <4>2. CASE i = n BY <2>1, <4>2
      <4>3. CASE i # n
        <5>1. slots[p][i] + MinDelay[p] <= slots[p][n]
          BY <2>1, <4>1, <4>3 DEF Apart
        <5> QED BY <1>1, <2>1, <4>1, <5>1
      <4> QED BY <4>2, <4>3
    <3> QED BY <1>1, <1>2, <2>1, <3>1, <3>2, <3>3
  <2> QED BY <2>1, <2>2, <2>3
<1>7. \A q \in Provider \ {p} : Apart(q)'
  BY <1>4 DEF Apart
<1>8. ASSUME NEW d \in Caller PROVE SleepsUntilItsOwn(d)'
  <2>1. CASE d = c
    BY <1>1, <1>2, <1>3, <1>4, <2>1 DEF SleepsUntilItsOwn
  <2>2. CASE d # c
    <3> SUFFICES ASSUME due'[d] # Rate!Never
                 PROVE  \E i \in DOMAIN slots'[target[d]] : slots'[target[d]][i] = due[d]
      BY <1>3, <2>2 DEF SleepsUntilItsOwn
    <3>1. PICK i \in DOMAIN slots[target[d]] : slots[target[d]][i] = due[d]
      BY <1>3, <2>2 DEF SleepsUntilItsOwn
    <3>2. i \in DOMAIN slots'[target[d]] /\ slots'[target[d]][i] = slots[target[d]][i]
      <4>1. target[d] \in Provider OBVIOUS
      <4>2. CASE target[d] = p
        <5>1. i \in 1 .. Len(slots[p]) BY <1>1, <3>1, <4>2
        <5> QED BY <1>1, <1>2, <1>4, <4>2, <5>1
      <4>3. CASE target[d] # p BY <1>4, <4>1, <4>3, <3>1
      <4> QED BY <4>2, <4>3
    <3> QED BY <3>1, <3>2
  <2> QED BY <2>1, <2>2
<1>9. /\ Rate!RateTypeOK'
      /\ last' \in [Provider -> Nat \cup {Rate!Never}] /\ due' \in [Caller -> Nat \cup {Rate!Never}]
      /\ slots' \in [Provider -> Seq(Nat)]
  BY <1>1, <1>2, <1>3, <1>4
<1> QED BY <1>5, <1>6, <1>7, <1>8, <1>9

(* A request that goes out, and time that passes, touch no slot. *)
LEMMA SlotsKept ==
    ASSUME Rate!RateAssumption, RateInv,
           (\E c \in Caller : Rate!Request(c)) \/ Rate!TimePasses \/ UNCHANGED Rate!rateVars
    PROVE  RateInv'
<1> USE DEF RateInv, Rate!RateTypeOK, Rate!RateAssumption, Rate!Never, LastIsTheLast, Apart,
            SleepsUntilItsOwn
<1>1. ASSUME NEW c \in Caller, Rate!Request(c) PROVE RateInv'
  <2>1. PICK q \in Provider : target' = [target EXCEPT ![c] = q]
    BY <1>1 DEF Rate!Request
  <2>2. due' = [due EXCEPT ![c] = Rate!Never] /\ UNCHANGED <<time, last, slots>>
    BY <1>1 DEF Rate!Request
  <2> QED BY <2>1, <2>2
<1>2. CASE Rate!TimePasses BY <1>2 DEF Rate!TimePasses
<1>3. CASE UNCHANGED Rate!rateVars BY <1>3 DEF Rate!rateVars
<1> QED BY <1>1, <1>2, <1>3

(* Only this part moves, if it is the one that was chosen. *)
LEMMA SlotsMove ==
    ASSUME [Next]_vars, part' = "rate"
    PROVE  part = "rate" /\ [Rate!RateNext]_(Rate!rateVars)
BY DEF Next, vars, slotVars, Rate!rateVars

SlotsInv == part = "rate" => RateInv

(* RateInv holds in every state of the rate limiter. *)
LEMMA RateInvariant == Spec => []SlotsInv
<1>1. Init => SlotsInv
  <2>1. part = "rate" /\ Init => Rate!RateInit
    BY DEF Init
  <2>2. Rate!RateInit => RateInv
    BY PartsAssumption
       DEF Rate!RateInit, RateInv, Rate!RateTypeOK, Rate!RateAssumption, Rate!Never,
           LastIsTheLast, Apart, SleepsUntilItsOwn
  <2> QED BY <2>1, <2>2 DEF SlotsInv
<1>2. SlotsInv /\ [Next]_vars => SlotsInv'
  <2> SUFFICES ASSUME RateInv, [Rate!RateNext]_(Rate!rateVars) PROVE RateInv'
    BY SlotsMove DEF SlotsInv
  <2>1. ASSUME NEW c \in Caller, Rate!TakeSlot(c) PROVE RateInv'
    <3>1. PICK p \in Provider : p = target[c]
      BY <2>1 DEF RateInv, Rate!RateTypeOK
    <3> QED BY <2>1, <3>1, SlotTaken, PartsAssumption
  <2> QED BY <2>1, SlotsKept, PartsAssumption DEF Rate!RateNext
<1> QED BY <1>1, <1>2, PTL DEF Spec

(* The slots of a provider are at least 60 / rpm apart, and a thread sleeps until
   one that is its own: for any threads, providers and rates, in any order of their
   turns at RATE_LIMIT_LOCK (SlotsAreApart). *)
THEOREM SlotsStayApart == Spec => []SlotsAreApart
<1>1. SlotsInv => SlotsAreApart
  BY DEF SlotsInv, RateInv, SlotsAreApart, Rate!SlotsAreApart, Apart, SleepsUntilItsOwn
<1> QED BY <1>1, RateInvariant, PTL
-----------------------------------------------------------------------------
(***************************************************************************)
(* CleanupJob.  An outcome is appended for each region that is begun, so   *)
(* that the region that is worked on says how many there are, except where *)
(* all of them are stated at once; and a region gets to its patch only by  *)
(* way of its mask.                                                        *)
(***************************************************************************)
Before == {"start", "source", "mark", "lock"}
InRegion == {"region", "putMask", "putPatch"}

(* What the callback's entry for a region promises. *)
Entry(i) ==
    /\ outcomes[i].region = (IF job.regions[i] = "noRecord" THEN 0 ELSE i)
    /\ outcomes[i].patch <=> outcomes[i].status \in {"complete", "degraded"}
    /\ outcomes[i].patch =>
          /\ job.regions[i] = "replace" /\ (job.manual \/ job.mode # "off")
          /\ <<i, "mask">> \in stored /\ <<i, "patch">> \in stored

(* How far the outcomes are at each place. *)
Reached ==
    /\ pc \in Before => outcomes = <<>> /\ at = 1
    /\ pc \in InRegion => at \in 1 .. Len(job.regions) /\ Len(outcomes) = at - 1
    /\ pc = "tick" => ~job.manual /\ at \in 1 .. Len(job.regions) /\ Len(outcomes) = at
    /\ pc = "post" => Len(outcomes) = Len(job.regions)
    /\ outcome = "completed" => posted = outcomes /\ Len(outcomes) = Len(job.regions)
    /\ outcome # "none" => pc = "ended"

(* A region whose mask or patch is being stored is to be replaced. *)
OnItsWay ==
    /\ pc \notin {"start", "post", "ended"} => job.manual \/ job.mode # "off"
    /\ pc \in {"putMask", "putPatch"} => job.regions[at] = "replace"
    /\ pc = "putPatch" => <<at, "mask">> \in stored

OutcomeRecord == [region : Nat, status : {"failed", "excluded", "uncertain", "complete", "degraded"},
                  patch : BOOLEAN]

CleanupInv ==
    /\ Cleanup!CleanupTypeOK
    /\ outcomes \in Seq(OutcomeRecord)
    /\ Reached /\ OnItsWay
    /\ \A i \in DOMAIN outcomes : Entry(i)

(* A job is one of Jobs, and has regions of the four kinds. *)
LEMMA JobIsOne ==
    ASSUME Cleanup!CleanupAssumption, Cleanup!CleanupTypeOK
    PROVE  /\ job.regions \in Seq(Cleanup!Kinds) /\ Len(job.regions) \in Nat
           /\ job.manual => Len(job.regions) = 1
BY DEF Cleanup!CleanupAssumption, Cleanup!CleanupTypeOK

(* The same outcome for all is one for each, under its identity and without a patch. *)
LEMMA ForAllCovers ==
    ASSUME Cleanup!CleanupAssumption, Cleanup!CleanupTypeOK, NEW status \in {"failed", "excluded"},
           outcomes' = Cleanup!ForAll(status),
           UNCHANGED <<job, stored>>
    PROVE  /\ outcomes' \in Seq(OutcomeRecord) /\ Len(outcomes') = Len(job.regions)
           /\ \A i \in DOMAIN outcomes' : Entry(i)'
<1> DEFINE n == Len(job.regions)
<1>1. n \in Nat /\ DOMAIN job.regions = 1 .. n
  BY JobIsOne
<1> HIDE DEF n
<1>2. \A i \in 1 .. n : Cleanup!RegionResult(i, status, FALSE) \in OutcomeRecord
  BY <1>1 DEF Cleanup!RegionResult, OutcomeRecord
<1>3. outcomes' = [i \in 1 .. n |-> Cleanup!RegionResult(i, status, FALSE)]
  BY <1>1 DEF Cleanup!ForAll
<1>4. outcomes' \in Seq(OutcomeRecord) /\ Len(outcomes') = n /\ DOMAIN outcomes' = 1 .. n
  <2>1. outcomes' \in [1 .. n -> OutcomeRecord]
    BY <1>2, <1>3
  <2> QED BY <1>1, <2>1
<1>5. ASSUME NEW i \in 1 .. n PROVE Entry(i)'
  BY <1>3, <1>5 DEF Cleanup!RegionResult, Entry
<1> QED BY <1>4, <1>5 DEF n

(* An outcome that is appended is the one of the region at hand. *)
LEMMA ConcludeAppends ==
    ASSUME Cleanup!CleanupAssumption, CleanupInv, pc \in InRegion,
           NEW status \in {"failed", "excluded", "uncertain", "complete", "degraded"},
           NEW patch \in BOOLEAN,
           patch <=> status \in {"complete", "degraded"},
           patch => /\ job.regions[at] = "replace"
                    /\ <<at, "mask">> \in stored' /\ <<at, "patch">> \in stored',
           Cleanup!Conclude(status, patch), UNCHANGED <<job, at, posted, outcome>>, stored \subseteq stored'
    PROVE  /\ outcomes' \in Seq(OutcomeRecord) /\ Len(outcomes') = at
           /\ \A i \in DOMAIN outcomes' : Entry(i)'
           /\ Reached' /\ OnItsWay'
<1> DEFINE o == Cleanup!RegionResult(at, status, patch)
<1>1. /\ at \in 1 .. Len(job.regions) /\ Len(outcomes) = at - 1 /\ outcomes \in Seq(OutcomeRecord)
      /\ Len(job.regions) \in Nat /\ (job.manual => Len(job.regions) = 1)
      /\ job.manual \/ job.mode # "off"
  BY JobIsOne DEF CleanupInv, Reached, OnItsWay, InRegion
<1>2. o \in OutcomeRecord
  BY <1>1 DEF Cleanup!RegionResult, OutcomeRecord
<1>3. outcomes' = Append(outcomes, o)
  BY DEF Cleanup!Conclude
<1>4. /\ o.region = (IF job.regions[at] = "noRecord" THEN 0 ELSE at)
      /\ o.patch = patch
      /\ o.status = IF job.regions[at] = "noRecord" THEN "failed" ELSE status
  BY DEF Cleanup!RegionResult
<1> HIDE DEF o
<1>5. /\ outcomes' \in Seq(OutcomeRecord) /\ Len(outcomes') = at /\ outcomes'[at] = o
      /\ \A i \in 1 .. at - 1 : outcomes'[i] = outcomes[i]
      /\ DOMAIN outcomes' = 1 .. at
  BY <1>1, <1>2, <1>3
<1>6. ASSUME NEW i \in 1 .. at PROVE Entry(i)'
  <2>1. CASE i = at
    BY <1>1, <1>4, <1>5, <2>1 DEF Entry
  <2>2. CASE i \in 1 .. at - 1
    <3>1. Entry(i)
      BY <1>1, <2>2 DEF CleanupInv
    <3> QED BY <1>5, <2>2, <3>1 DEF Entry
  <2> QED BY <1>1, <2>1, <2>2
<1>7. pc' = IF job.manual THEN "post" ELSE "tick"
  BY DEF Cleanup!Conclude, Cleanup!Goto
<1>8. Reached' /\ OnItsWay'
  <2>1. outcome = "none" /\ outcome' = "none" /\ job' = job /\ at' = at
    BY DEF CleanupInv, Cleanup!CleanupTypeOK, Reached, InRegion
  <2>2. ASSUME job.manual PROVE at = 1 /\ Len(job.regions) = 1
    <3>1. Len(job.regions) = 1 BY <1>1, <2>2
    <3> QED BY <1>1, <3>1
  <2> HIDE DEF CleanupInv
  <2>3. Reached'
    BY <1>1, <1>5, <1>7, <2>1, <2>2 DEF Reached, Before, InRegion
  <2>4. OnItsWay'
    BY <1>1, <1>7, <2>1 DEF OnItsWay
  <2> QED BY <2>3, <2>4
<1> QED BY <1>5, <1>6, <1>8

(* Entries stay true while objects are only added to the store. *)
LEMMA EntriesStay ==
    ASSUME CleanupInv, UNCHANGED <<job, outcomes>>, stored \subseteq stored'
    PROVE  outcomes' \in Seq(OutcomeRecord) /\ \A i \in DOMAIN outcomes' : Entry(i)'
BY DEF CleanupInv, Entry

(* Every step keeps the types. *)
LEMMA CleanupType ==
    ASSUME Cleanup!CleanupAssumption, CleanupInv, [Cleanup!CleanupNext]_(Cleanup!cleanupVars)
    PROVE  Cleanup!CleanupTypeOK'
<1>1. Len(job.regions) \in Nat
  BY JobIsOne DEF CleanupInv
<1> USE DEF CleanupInv, Cleanup!CleanupTypeOK, Cleanup!jobVars, Cleanup!Goto, Cleanup!End
<1>2. CASE Cleanup!Start \/ Cleanup!Source \/ Cleanup!Mark \/ Cleanup!Locked \/ Cleanup!NotLocked
  BY <1>1, <1>2
     DEF Cleanup!Start, Cleanup!Source, Cleanup!Mark, Cleanup!Locked, Cleanup!NotLocked,
         Cleanup!AllFailed, Cleanup!Continue
<1>3. CASE Cleanup!PassOver \/ Cleanup!Reconstruct \/ Cleanup!NotReconstructed
  <2>1. /\ Cleanup!Work /\ pc' \in {"putMask", "tick", "post"} /\ result' \in {"none", "patch", "fallback"}
        /\ UNCHANGED <<job, void, at, stored, outcome>>
    BY <1>3
       DEF Cleanup!PassOver, Cleanup!Reconstruct, Cleanup!NotReconstructed, Cleanup!Conclude,
           Cleanup!Repaints
  <2> QED BY <1>1, <2>1 DEF Cleanup!Work
<1>4. CASE Cleanup!PutMask \/ Cleanup!PutPatch \/ Cleanup!PutFails
  <2>1. at \in 1 .. Len(job.regions)
    BY <1>1, <1>4 DEF Reached, InRegion, Cleanup!PutMask, Cleanup!PutPatch, Cleanup!PutFails
  <2>2. CASE Cleanup!PutMask
    BY <1>1, <2>1, <2>2 DEF Cleanup!PutMask
  <2>3. CASE Cleanup!PutPatch
    BY <1>1, <2>1, <2>3 DEF Cleanup!PutPatch, Cleanup!Conclude
  <2>4. CASE Cleanup!PutFails
    BY <1>1, <2>1, <2>4 DEF Cleanup!PutFails, Cleanup!ReportFailure, Cleanup!Conclude
  <2> QED BY <1>4, <2>2, <2>3, <2>4
<1>5. CASE Cleanup!Progress
  BY <1>1, <1>5 DEF Cleanup!Progress, Cleanup!RecordProgress, Cleanup!Continue, Reached
<1>6. CASE Cleanup!Post \/ Cleanup!Raises \/ Cleanup!Revoke
  BY <1>1, <1>6 DEF Cleanup!Post, Cleanup!Raises, Cleanup!Revoke
<1>7. CASE UNCHANGED Cleanup!cleanupVars
  BY <1>7 DEF Cleanup!cleanupVars
<1> QED BY <1>2, <1>3, <1>4, <1>5, <1>6, <1>7 DEF Cleanup!CleanupNext

(* Where every region fails at once there is an outcome for each. *)
LEMMA AllFailedCovers ==
    ASSUME Cleanup!CleanupAssumption, CleanupInv, Cleanup!CleanupTypeOK', Cleanup!AllFailed,
           UNCHANGED <<job, posted, at, stored>>, pc \in Before
    PROVE  CleanupInv'
<1>1. /\ outcomes' \in Seq(OutcomeRecord) /\ Len(outcomes') = Len(job.regions)
      /\ \A i \in DOMAIN outcomes' : Entry(i)'
  BY ForAllCovers DEF CleanupInv, Cleanup!AllFailed
<1>2. pc' = "post" /\ outcome' = outcome /\ outcome = "none"
  BY DEF Cleanup!AllFailed, Cleanup!Goto, CleanupInv, Cleanup!CleanupTypeOK, Reached, Before
<1>3. Reached' /\ OnItsWay'
  BY <1>1, <1>2 DEF Reached, OnItsWay, Before, InRegion
<1> QED BY <1>1, <1>3 DEF CleanupInv

(* The outcomes are complete where the callback is put together, whichever upload
   or region has failed on the way. *)
LEMMA CleanupStep ==
    ASSUME Cleanup!CleanupAssumption, CleanupInv, [Cleanup!CleanupNext]_(Cleanup!cleanupVars)
    PROVE  CleanupInv'
<1> DEFINE n == Len(job.regions)
<1>1. Cleanup!CleanupTypeOK' /\ n \in Nat
  BY CleanupType, JobIsOne DEF CleanupInv
<1>2. Cleanup!CleanupTypeOK /\ (outcome # "none" => pc = "ended") /\ Reached /\ OnItsWay
  BY DEF CleanupInv, Reached
<1> DEFINE Kept == outcomes' \in Seq(OutcomeRecord) /\ \A i \in DOMAIN outcomes' : Entry(i)'
           Places == Reached' /\ OnItsWay'
<1>3. Kept /\ Places => CleanupInv'
  BY <1>1 DEF CleanupInv
<1> HIDE DEF Kept, Places
<1>4. UNCHANGED <<job, outcomes>> /\ stored \subseteq stored' => Kept
  BY EntriesStay DEF Kept
<1>5. CASE Cleanup!Start
  <2>1. /\ pc \in Before /\ outcome = "none" /\ outcomes = <<>> /\ at = 1
        /\ UNCHANGED <<job, posted, at, stored, outcome>>
    BY <1>2, <1>5 DEF Cleanup!Start, Cleanup!jobVars, Before, Cleanup!CleanupTypeOK, Reached
  <2>2. CASE ~job.manual /\ job.mode = "off"
    <3>1. outcomes' = Cleanup!ForAll("excluded") /\ pc' = "post"
      BY <1>5, <2>2 DEF Cleanup!Start, Cleanup!Goto
    <3>2. Kept /\ Len(outcomes') = n
      BY <1>2, <2>1, <3>1, ForAllCovers DEF Kept
    <3>3. Places
      BY <2>1, <3>1, <3>2 DEF Places, Reached, OnItsWay, Before, InRegion
    <3> QED BY <1>3, <3>2, <3>3
  <2>3. CASE ~(~job.manual /\ job.mode = "off")
    <3>1. pc' = "source" /\ outcomes' = outcomes
      BY <1>5, <2>3 DEF Cleanup!Start, Cleanup!Goto
    <3>2. Places
      BY <2>1, <2>3, <3>1 DEF Places, Reached, OnItsWay, Before, InRegion
    <3> QED BY <1>3, <1>4, <2>1, <3>1, <3>2
  <2> QED BY <2>2, <2>3
<1>6. CASE Cleanup!Source \/ Cleanup!Mark \/ Cleanup!NotLocked
  <2>1. /\ pc \in {"source", "mark", "lock"} /\ outcome = "none" /\ UNCHANGED <<job, posted, at, stored>>
        /\ pc \in Before /\ outcomes = <<>> /\ at = 1
    BY <1>2, <1>6
       DEF Cleanup!Source, Cleanup!Mark, Cleanup!NotLocked, Cleanup!jobVars, Before, Reached
  <2>2. CASE Cleanup!AllFailed
    BY <1>1, <2>1, <2>2, AllFailedCovers
  <2>3. CASE ~Cleanup!AllFailed
    <3>1. /\ outcomes' = outcomes
          /\ \/ pc' \in {"mark", "lock"} /\ outcome' = outcome
             \/ pc' = "ended" /\ outcome' = "raised"
      BY <1>6, <2>3 DEF Cleanup!Source, Cleanup!Mark, Cleanup!NotLocked, Cleanup!Goto, Cleanup!End
    <3>2. Places
      BY <1>2, <2>1, <3>1 DEF Places, Reached, OnItsWay, Before, InRegion
    <3> QED BY <1>3, <1>4, <2>1, <3>1, <3>2
  <2> QED BY <2>2, <2>3
<1>7. CASE Cleanup!Locked
  <2>1. /\ pc = "lock" /\ outcome = "none" /\ UNCHANGED <<job, posted, at, stored, outcome, outcomes>>
        /\ outcomes = <<>> /\ at = 1 /\ pc' = Cleanup!Continue(1)
    BY <1>2, <1>7 DEF Cleanup!Locked, Cleanup!jobVars, Before, Reached, Cleanup!Goto
  <2>2. Places
    BY <1>1, <1>2, <2>1 DEF Places, Reached, OnItsWay, Before, InRegion, Cleanup!Continue
  <2> QED BY <1>3, <1>4, <2>1, <2>2
<1>8. CASE Cleanup!PassOver \/ Cleanup!NotReconstructed
  <2>1. PICK status \in {"excluded", "failed", "uncertain"} : Cleanup!Conclude(status, FALSE)
    BY <1>8 DEF Cleanup!PassOver, Cleanup!NotReconstructed
  <2>2. pc \in InRegion /\ UNCHANGED <<job, posted, at, stored, outcome>>
    BY <1>8 DEF Cleanup!PassOver, Cleanup!NotReconstructed, InRegion, Cleanup!jobVars
  <2> QED BY <1>3, <2>1, <2>2, ConcludeAppends DEF Kept, Places
<1>9. CASE Cleanup!Reconstruct \/ Cleanup!PutMask
  <2>1. /\ pc \in InRegion /\ UNCHANGED <<job, posted, at, outcome, outcomes>> /\ stored \subseteq stored'
        /\ pc' = "putMask" \/ (pc' = "putPatch" /\ <<at, "mask">> \in stored')
        /\ job.regions[at] = "replace"
    BY <1>2, <1>9
       DEF Cleanup!Reconstruct, Cleanup!PutMask, InRegion, Cleanup!jobVars, Cleanup!Goto, OnItsWay
  <2>2. Places
    BY <1>2, <2>1 DEF Places, Reached, OnItsWay, Before, InRegion
  <2> QED BY <1>3, <1>4, <2>1, <2>2
<1>10. CASE Cleanup!PutPatch
  <2>1. /\ pc \in InRegion /\ UNCHANGED <<job, posted, at, outcome>> /\ stored \subseteq stored'
        /\ job.regions[at] = "replace" /\ <<at, "mask">> \in stored' /\ <<at, "patch">> \in stored'
        /\ Cleanup!Conclude(Cleanup!Status, TRUE) /\ Cleanup!Status \in {"complete", "degraded"}
    BY <1>2, <1>10 DEF Cleanup!PutPatch, InRegion, Cleanup!jobVars, OnItsWay, Cleanup!Status
  <2> QED BY <1>3, <2>1, ConcludeAppends DEF Kept, Places
<1>11. CASE Cleanup!PutFails
  <2>1. pc \in InRegion /\ UNCHANGED <<job, posted, at, stored, outcome>> /\ Cleanup!Conclude("failed", FALSE)
    BY <1>11 DEF Cleanup!PutFails, Cleanup!ReportFailure, InRegion, Cleanup!jobVars
  <2> QED BY <1>3, <2>1, ConcludeAppends DEF Kept, Places
<1>12. CASE Cleanup!Progress
  <2>1. /\ pc = "tick" /\ UNCHANGED <<job, posted, outcomes, stored>> /\ Cleanup!RecordProgress
        /\ outcome = "none" /\ at \in 1 .. n /\ Len(outcomes) = at /\ ~job.manual
    BY <1>2, <1>12 DEF Cleanup!Progress, Cleanup!jobVars, Reached
  <2>2. job.mode # "off"
    BY <1>2, <2>1 DEF OnItsWay
  <2>3. Places
    BY <1>1, <2>1, <2>2
       DEF Places, Reached, OnItsWay, Before, InRegion, Cleanup!RecordProgress,
           Cleanup!Continue, Cleanup!Goto, Cleanup!End
  <2> QED BY <1>3, <1>4, <2>1, <2>3
<1>13. CASE Cleanup!Post \/ Cleanup!Raises
  <2>1. /\ pc' = "ended" /\ UNCHANGED <<job, outcomes, stored>>
        /\ \/ outcome' = "raised"
           \/ posted' = outcomes' /\ Len(outcomes') = n
    BY <1>2, <1>13 DEF Cleanup!Post, Cleanup!Raises, Cleanup!jobVars, Cleanup!End, Reached
  <2>2. Places
    BY <2>1 DEF Places, Reached, OnItsWay, Before, InRegion
  <2> QED BY <1>3, <1>4, <2>1, <2>2
<1>14. CASE Cleanup!Revoke \/ UNCHANGED Cleanup!cleanupVars
  <2>1. UNCHANGED <<pc, job, posted, at, outcomes, stored, outcome>>
    BY <1>14 DEF Cleanup!Revoke, Cleanup!cleanupVars, Cleanup!jobVars
  <2>2. Places
    BY <1>2, <2>1 DEF Places, Reached, OnItsWay
  <2> QED BY <1>3, <1>4, <2>1, <2>2
<1> QED BY <1>5, <1>6, <1>7, <1>8, <1>9, <1>10, <1>11, <1>12, <1>13, <1>14 DEF Cleanup!CleanupNext

(* Only this part moves, if it is the one that was chosen. *)
LEMMA CleanupMoves ==
    ASSUME [Next]_vars, part' = "cleanup"
    PROVE  part = "cleanup" /\ [Cleanup!CleanupNext]_(Cleanup!cleanupVars)
BY DEF Next, vars, request, cleanupOnly, Cleanup!cleanupVars

(* A job begins with nothing done. *)
LEMMA CleanupBegins == ASSUME Cleanup!CleanupInit PROVE CleanupInv
<1>1. Len(job.regions) \in Nat
  BY PartsAssumption DEF Cleanup!CleanupAssumption, Cleanup!CleanupInit
<1>2. Cleanup!CleanupTypeOK
  <2>1. at \in 1 .. Len(job.regions) + 1
    BY <1>1 DEF Cleanup!CleanupInit
  <2>2. stored \subseteq ((1 .. Len(job.regions)) \X {"mask", "patch"})
    BY DEF Cleanup!CleanupInit
  <2> QED BY <2>1, <2>2 DEF Cleanup!CleanupInit, Cleanup!CleanupTypeOK
<1>3. Reached /\ OnItsWay
  BY DEF Cleanup!CleanupInit, Reached, OnItsWay, Before, InRegion
<1>4. outcomes \in Seq(OutcomeRecord) /\ DOMAIN outcomes = {}
  BY DEF Cleanup!CleanupInit
<1> QED BY <1>2, <1>3, <1>4 DEF CleanupInv

OutcomesInv == part = "cleanup" => CleanupInv

(* CleanupInv holds in every state of a cleanup job. *)
LEMMA OutcomesInvariant == Spec => []OutcomesInv
<1>1. Init => OutcomesInv
  BY CleanupBegins DEF Init, OutcomesInv
<1>2. OutcomesInv /\ [Next]_vars => OutcomesInv'
  BY PartsAssumption, CleanupMoves, CleanupStep DEF OutcomesInv
<1> QED BY <1>1, <1>2, PTL DEF Spec

(* The callback of a cleanup job has one outcome for each region of the payload, in
   its order, and a patch exactly where both objects are stored: for a page of any
   length, whichever downloads, reconstructions and uploads fail (CleanupAccounted). *)
THEOREM EveryRegionHasItsOutcome == Spec => []CleanupAccounted
<1>1. OutcomesInv => CleanupAccounted
  BY DEF OutcomesInv, CleanupInv, Reached, Entry, CleanupAccounted, Cleanup!CleanupAccounted
<1> QED BY <1>1, OutcomesInvariant, PTL

(***************************************************************************)
(* A void attempt is stopped by record_progress at the latest, so that it  *)
(* is at the start of a region only if it has begun none since.            *)
(***************************************************************************)
StopInv ==
    /\ begun \in {0, 1}
    /\ begun = 1 => void /\ pc \in {"putMask", "putPatch", "tick", "post", "ended"}

(* No step begins a region of a void attempt a second time. *)
LEMMA StopStep ==
    ASSUME StopInv, [Cleanup!CleanupNext]_(Cleanup!cleanupVars)
    PROVE  StopInv'
<1> USE DEF StopInv, Cleanup!Goto, Cleanup!End, Cleanup!jobVars
<1>1. CASE Cleanup!Start \/ Cleanup!Source \/ Cleanup!Mark \/ Cleanup!Locked \/ Cleanup!NotLocked
  BY <1>1 DEF Cleanup!Start, Cleanup!Source, Cleanup!Mark, Cleanup!Locked, Cleanup!NotLocked
<1>2. CASE Cleanup!PassOver \/ Cleanup!Reconstruct \/ Cleanup!NotReconstructed
  <2>1. pc = "region" /\ Cleanup!Work /\ void' = void /\ pc' \in {"putMask", "tick", "post"}
    BY <1>2 DEF Cleanup!PassOver, Cleanup!Reconstruct, Cleanup!NotReconstructed, Cleanup!Conclude
  <2> QED BY <2>1 DEF Cleanup!Work
<1>3. CASE Cleanup!PutMask \/ Cleanup!PutPatch \/ Cleanup!PutFails
  BY <1>3
     DEF Cleanup!PutMask, Cleanup!PutPatch, Cleanup!PutFails, Cleanup!ReportFailure,
         Cleanup!Conclude
<1>4. CASE Cleanup!Progress
  BY <1>4 DEF Cleanup!Progress, Cleanup!RecordProgress
<1>5. CASE Cleanup!Post \/ Cleanup!Raises \/ Cleanup!Revoke \/ UNCHANGED Cleanup!cleanupVars
  BY <1>5 DEF Cleanup!Post, Cleanup!Raises, Cleanup!Revoke, Cleanup!cleanupVars
<1> QED BY <1>1, <1>2, <1>3, <1>4, <1>5 DEF Cleanup!CleanupNext

VoidInv == part = "cleanup" => StopInv

(* However many regions the page has, a void attempt begins at most one more of
   them (RevokedStopsSoon). *)
THEOREM VoidAttemptStops == Spec => []RevokedStopsSoon
<1>1. Init => VoidInv
  BY DEF Init, VoidInv, StopInv, Cleanup!CleanupInit
<1>2. VoidInv /\ [Next]_vars => VoidInv'
  BY CleanupMoves, StopStep DEF VoidInv
<1>3. VoidInv => RevokedStopsSoon
  BY DEF VoidInv, StopInv, RevokedStopsSoon, Cleanup!RevokedStopsSoon
<1> QED BY <1>1, <1>2, <1>3, PTL DEF Spec
-----------------------------------------------------------------------------
(* What holds of 0, and of n + 1 with n, holds of every number: induction over a
   set instead of a predicate. *)
LEMMA Induction ==
    ASSUME NEW S \in SUBSET Nat, 0 \in S, \A n \in S : n + 1 \in S
    PROVE  S = Nat
<1> SUFFICES ASSUME Nat \ S # {} PROVE FALSE
  OBVIOUS
<1>1. IsWellFoundedOn(OpToRel(<, Nat), Nat)
  BY NatLessThanWellFounded
<1>2. PICK n \in Nat \ S : \A m \in Nat \ S : <<m, n>> \notin OpToRel(<, Nat)
  BY <1>1, WFMin
<1>3. \A m \in Nat \ S : ~(m < n)
  BY <1>2 DEF OpToRel
<1>4. n # 0 /\ n - 1 \in Nat
  OBVIOUS
<1>5. n - 1 \in S
  BY <1>3, <1>4
<1> QED BY <1>4, <1>5
(***************************************************************************)
(* JobCosts.  A list belongs to one job from the dispatch to the report,   *)
(* and the chunk threads of the job write into it while they run; it has   *)
(* the calls of the job one by one, each with an amount that says no more  *)
(* than is known of the call.                                              *)
(***************************************************************************)
(* What the instance calls a cardinality is one. *)
LEMMA CostsCardinality == \A S : Costs!Cardinality(S) = Cardinality(S)
BY DEF Costs!Cardinality, Cardinality

CostEntry == [by : Job, amount : -1 .. 2]
CostCall == [told : BOOLEAN, known : BOOLEAN]

(* These are the costs of those calls of j. *)
Tells(costs, calls, j) ==
    /\ costs \in Seq(CostEntry) /\ calls \in Seq(CostCall) /\ Len(costs) = Len(calls)
    /\ \A i \in 1 .. Len(calls) :
          /\ costs[i].by = j
          /\ costs[i].amount # Costs!Unknown => calls[i].known
          /\ calls[i].told => costs[i].amount = 2

CostTypes ==
    /\ stage \in [Job -> {"queued", "running", "chunks", "over", "abandoned"}]
    /\ lists \in Seq(Seq(CostEntry))
    /\ context \in [Costs!Threads -> 0 .. Len(lists)]
    /\ made \in [Job -> Seq(CostCall)]
    /\ report \in [Job -> [breakdown : Seq(CostEntry), total : Int, unknown : Nat, sent : BOOLEAN]]
    /\ calculation \in BOOLEAN

ListOf(j) == context[Costs!Main(j)]

(* A job has a list from its dispatch on, and its chunk threads that one or none. *)
ListKept(j) ==
    /\ stage[j] = "queued" => ListOf(j) = Costs!Unbound /\ made[j] = <<>>
    /\ stage[j] # "queued" => ListOf(j) # Costs!Unbound /\ Tells(lists[ListOf(j)], made[j], j)
    /\ stage[j] = "chunks" => \A c \in Chunk : context[<<j, c>>] = ListOf(j)

ListsKept == \A j \in Job : ListKept(j)

(* No list has two jobs. *)
ListsApart ==
    \A j, k \in Job : j # k /\ ListOf(j) = ListOf(k) => ListOf(j) = Costs!Unbound

IsTold(j) ==
    /\ stage[j] # "over" => report[j].total = Costs!Unknown
    /\ stage[j] = "over" =>
          /\ Tells(report[j].breakdown, made[j], j)
          /\ report[j].total = Costs!Total(report[j].breakdown)

Reported == \A j \in Job : IsTold(j)

CostInv == CostTypes /\ ListsKept /\ ListsApart /\ Reported

(* s is what Sum defines, up to n entries. *)
IsSum(s, costs, n) ==
    s = [k \in 0 .. n |-> IF k = 0 THEN 0 ELSE s[k - 1] + costs[k].amount]

(* The recursion of Sum has a solution. *)
LEMMA SumExists ==
    ASSUME NEW costs, NEW n \in Nat
    PROVE  \E s : IsSum(s, costs, n)
<1> DEFINE S == {m \in Nat : \E s : IsSum(s, costs, m)}
<1>1. 0 \in S
  <2>1. IsSum([k \in 0 .. 0 |-> 0], costs, 0)
    BY DEF IsSum
  <2> QED BY <2>1
<1>2. ASSUME NEW m \in S PROVE m + 1 \in S
  <2>1. PICK s : IsSum(s, costs, m)
    OBVIOUS
  <2> DEFINE g == [k \in 0 .. m + 1 |-> IF k = m + 1 THEN s[m] + costs[m + 1].amount ELSE s[k]]
  <2>2. m \in Nat
    OBVIOUS
  <2>3. ASSUME NEW k \in 0 .. m + 1
        PROVE  g[k] = IF k = 0 THEN 0 ELSE g[k - 1] + costs[k].amount
    <3>1. CASE k = m + 1
      BY <2>2, <3>1
    <3>2. CASE k \in 0 .. m
      <4>1. g[k] = s[k] /\ (k # 0 => k - 1 \in 0 .. m + 1 /\ k - 1 # m + 1 /\ g[k - 1] = s[k - 1])
        BY <2>2, <3>2
      <4>2. s[k] = IF k = 0 THEN 0 ELSE s[k - 1] + costs[k].amount
        BY <2>1, <3>2 DEF IsSum
      <4> QED BY <4>1, <4>2
    <3> QED BY <2>2, <3>1, <3>2
  <2>4. IsSum(g, costs, m + 1)
    BY <2>3 DEF IsSum
  <2> QED BY <2>2, <2>4
<1>3. S = Nat
  <2> HIDE DEF S
  <2>1. S \in SUBSET Nat BY DEF S
  <2> QED BY <1>1, <1>2, <2>1, Induction
<1> QED BY <1>3

(* The calls that the provider named a price of, among the first n. *)
Named(calls, n) == {i \in 1 .. n : calls[i].told}

(* One call more is named, or is not. *)
LEMMA NamedStep ==
    ASSUME NEW calls, NEW n \in Nat
    PROVE  /\ IsFiniteSet(Named(calls, n)) /\ Cardinality(Named(calls, n)) \in Nat
           /\ Cardinality(Named(calls, 0)) = 0
           /\ Cardinality(Named(calls, n + 1)) =
                 Cardinality(Named(calls, n)) + IF calls[n + 1].told THEN 1 ELSE 0
<1>1. \A m \in Nat : IsFiniteSet(Named(calls, m)) /\ Cardinality(Named(calls, m)) \in Nat
  <2> TAKE m \in Nat
  <2>1. IsFiniteSet(1 .. m) /\ Named(calls, m) \subseteq 1 .. m
    BY FS_Interval DEF Named
  <2> QED BY <2>1, FS_Subset, FS_CardinalityType
<1>2. Named(calls, 0) = {}
  BY DEF Named
<1>3. n + 1 \notin Named(calls, n)
  BY DEF Named
<1>4. Named(calls, n + 1) = Named(calls, n) \cup IF calls[n + 1].told THEN {n + 1} ELSE {}
  BY DEF Named
<1>5. Cardinality(Named(calls, n + 1)) =
         Cardinality(Named(calls, n)) + IF calls[n + 1].told THEN 1 ELSE 0
  <2>1. CASE calls[n + 1].told
    BY <1>1, <1>3, <1>4, <2>1, FS_AddElement
  <2>2. CASE ~calls[n + 1].told
    <3>1. Named(calls, n + 1) = Named(calls, n)
      BY <1>4, <2>2
    <3>2. Cardinality(Named(calls, n)) \in Nat
      BY <1>1
    <3> QED BY <2>2, <3>1, <3>2
  <2> QED BY <2>1, <2>2
<1> QED BY <1>1, <1>2, <1>5, FS_EmptySet

(* A total is of calls that are all known, and has at least what was told. *)
LEMMA TotalIsWhole ==
    ASSUME NEW j, NEW costs, NEW calls, Tells(costs, calls, j)
    PROVE  /\ Costs!Total(costs) \in Int /\ Costs!UnknownCalls(costs) \in Nat
           /\ Costs!Total(costs) # Costs!Unknown =>
                 /\ \A i \in DOMAIN calls : calls[i].known
                 /\ Costs!Total(costs) >= 2 * Cardinality({i \in DOMAIN calls : calls[i].told})
<1> DEFINE n == Len(costs)
           bad == {i \in DOMAIN costs : costs[i].amount = Costs!Unknown}
<1>1. /\ n \in Nat /\ n = Len(calls) /\ DOMAIN costs = 1 .. n /\ DOMAIN calls = 1 .. n
      /\ \A i \in 1 .. n : costs[i] \in CostEntry /\ calls[i] \in CostCall
  BY DEF Tells
<1>2. IsFiniteSet(bad) /\ Costs!UnknownCalls(costs) = Cardinality(bad) /\ Cardinality(bad) \in Nat
  <2>1. bad \subseteq 1 .. n
    BY <1>1
  <2>2. IsFiniteSet(1 .. n)
    BY <1>1, FS_Interval
  <2> QED BY <2>1, <2>2, FS_Subset, FS_CardinalityType, CostsCardinality
       DEF Costs!UnknownCalls
<1>3. CASE bad # {}
  <2>1. Cardinality(bad) > 0
    BY <1>2, <1>3, FS_EmptySet
  <2> HIDE DEF bad
  <2> QED BY <1>2, <2>1 DEF Costs!Total, Costs!Unknown
<1>4. CASE bad = {}
  <2>1. PICK s : IsSum(s, costs, n)
    BY <1>1, SumExists
  <2>2. Costs!Total(costs) = Costs!Sum(costs)
    BY <1>2, <1>4, FS_EmptySet DEF Costs!Total
  <2> DEFINE sum == CHOOSE f : f = [k \in 0 .. n |-> IF k = 0 THEN 0 ELSE f[k - 1] + costs[k].amount]
  <2>3. Costs!Sum(costs) = sum[n]
    BY DEF Costs!Sum
  <2>4. IsSum(sum, costs, n)
    BY <2>1 DEF IsSum
  <2> HIDE DEF sum, n
  <2>5. \A i \in 1 .. n : costs[i].amount \in 0 .. 2 /\ (calls[i].told => costs[i].amount = 2)
    BY <1>1, <1>4 DEF Tells, CostEntry, Costs!Unknown, n
  <2> DEFINE Good(m) == sum[m] \in Nat /\ sum[m] >= 2 * Cardinality(Named(calls, m))
             S == {m \in Nat : m <= n => Good(m)}
  <2>6. sum[0] = 0 /\ \A m \in 1 .. n : sum[m] = sum[m - 1] + costs[m].amount
    BY <1>1, <2>4 DEF IsSum
  <2>7. 0 \in S
    BY <2>6, NamedStep
  <2>8. ASSUME NEW m \in S PROVE m + 1 \in S
    <3> SUFFICES ASSUME m + 1 <= n PROVE Good(m + 1)
      OBVIOUS
    <3>1. m \in Nat /\ Good(m) /\ m + 1 \in 1 .. n /\ m + 1 - 1 = m
      BY <1>1
    <3>2. sum[m + 1] = sum[m] + costs[m + 1].amount
      BY <2>6, <3>1
    <3>3. /\ Cardinality(Named(calls, m)) \in Nat
          /\ Cardinality(Named(calls, m + 1)) =
                Cardinality(Named(calls, m)) + IF calls[m + 1].told THEN 1 ELSE 0
      BY <3>1, NamedStep
    <3>4. costs[m + 1].amount \in 0 .. 2 /\ (calls[m + 1].told => costs[m + 1].amount = 2)
      BY <2>5, <3>1
    <3> QED BY <3>1, <3>2, <3>3, <3>4
  <2>9. S = Nat
    <3> HIDE DEF S
    <3>1. S \in SUBSET Nat BY DEF S
    <3> QED BY <2>7, <2>8, <3>1, Induction
  <2>10. Good(n)
    BY <1>1, <2>9
  <2>11. Named(calls, n) = {i \in DOMAIN calls : calls[i].told}
    BY <1>1 DEF Named
  <2>12. \A i \in DOMAIN calls : calls[i].known
    BY <1>1, <1>4 DEF Tells
  <2> QED BY <1>2, <2>2, <2>3, <2>10, <2>11, <2>12
<1> QED BY <1>3, <1>4

(* Every step keeps the lists with their jobs. *)
LEMMA CostStep ==
    ASSUME Costs!CostAssumption, CostInv, [Costs!CostNext]_(Costs!costVars)
    PROVE  CostInv'
<1> DEFINE n == Len(lists)
<1> USE DEF Costs!Unbound
<1>1. /\ n \in Nat /\ lists \in [1 .. n -> Seq(CostEntry)] /\ DOMAIN lists = 1 .. n
      /\ \A t \in Costs!Threads : context[t] \in 0 .. n
  BY DEF CostInv, CostTypes
<1>2. /\ \A j \in Job : Costs!Main(j) \in Costs!Threads
      /\ \A j \in Job, c \in Chunk : <<j, c>> \in Costs!Threads /\ <<j, c>> # Costs!Main(j)
      /\ \A j, k \in Job, c \in Chunk : j # k => Costs!Main(j) # Costs!Main(k) /\ <<j, c>> # Costs!Main(k)
      /\ \A t \in Costs!Threads : \E j \in Job : t = Costs!Main(j) \/ \E c \in Chunk : t = <<j, c>>
  BY DEF Costs!CostAssumption, Costs!Threads, Costs!Main
<1>3. ASSUME UNCHANGED <<calculation, stage, context, lists, report, made>>
      PROVE  CostInv'
  <2>1. CostTypes'
    BY <1>3 DEF CostInv, CostTypes
  <2>2. \A j \in Job : UNCHANGED ListOf(j)
    BY <1>3 DEF ListOf
  <2>3. ListsApart'
    BY <2>2 DEF CostInv, ListsApart
  <2>4. ASSUME NEW j \in Job PROVE ListKept(j)' /\ IsTold(j)'
    <3>1. ListKept(j) /\ IsTold(j)
      BY DEF CostInv, ListsKept, Reported
    <3>2. ListKept(j)'
      BY <1>3, <2>2, <3>1 DEF ListKept
    <3>3. IsTold(j)'
      BY <1>3, <3>1 DEF IsTold
    <3> QED BY <3>2, <3>3
  <2> QED BY <2>1, <2>3, <2>4 DEF CostInv, ListsKept, Reported
<1>4. ASSUME NEW j \in Job, Costs!Dispatch(j) PROVE CostInv'
  <2>1. /\ stage[j] = "queued" /\ stage' = [stage EXCEPT ![j] = "running"]
        /\ lists' = Append(lists, <<>>) /\ context' = [context EXCEPT ![Costs!Main(j)] = n + 1]
        /\ UNCHANGED <<calculation, report, made>>
    BY <1>4 DEF Costs!Dispatch, Costs!Bind
  <2> HIDE DEF n
  <2>2. /\ lists' \in Seq(Seq(CostEntry)) /\ Len(lists') = n + 1
        /\ lists'[n + 1] = <<>> /\ \A i \in 1 .. n : lists'[i] = lists[i]
    BY <1>1, <2>1 DEF CostInv, CostTypes, n
  <2>3. CostTypes'
    <3>1. stage' \in [Job -> {"queued", "running", "chunks", "over", "abandoned"}]
      BY <2>1 DEF CostInv, CostTypes
    <3>2. context' \in [Costs!Threads -> 0 .. Len(lists')]
      <4>1. context \in [Costs!Threads -> 0 .. n]
        BY DEF CostInv, CostTypes, n
      <4>2. 0 .. n \subseteq 0 .. n + 1 /\ n + 1 \in 0 .. n + 1
        BY <1>1
      <4>3. context' \in [Costs!Threads -> 0 .. n + 1]
        BY <2>1, <4>1, <4>2
      <4> QED BY <2>2, <4>3
    <3> QED BY <2>1, <2>2, <3>1, <3>2 DEF CostInv, CostTypes
  <2>4. ListOf(j)' = n + 1 /\ \A k \in Job : k # j => ListOf(k)' = ListOf(k) /\ ListOf(k) \in 0 .. n
    BY <1>1, <1>2, <2>1 DEF CostInv, CostTypes, ListOf, Costs!Main
  <2>5. ListsKept'
    <3> SUFFICES ASSUME NEW k \in Job PROVE ListKept(k)'
      BY DEF ListsKept
    <3>1. CASE k = j
      <4>1. made'[k] = <<>>
        BY <2>1, <3>1 DEF CostInv, ListsKept, ListKept
      <4>2. Tells(lists'[ListOf(k)'], made'[k], k)
        BY <2>2, <2>4, <3>1, <4>1 DEF Tells
      <4> QED BY <1>1, <2>1, <2>4, <3>1, <4>2 DEF CostInv, CostTypes, ListKept
    <3>2. CASE k # j
      <4>1. /\ stage'[k] = stage[k] /\ made'[k] = made[k]
            /\ \A c \in Chunk : context'[<<k, c>>] = context[<<k, c>>]
        BY <1>2, <2>1, <3>2 DEF CostInv, CostTypes
      <4> QED BY <2>2, <2>4, <3>2, <4>1 DEF CostInv, ListsKept, ListKept
    <3> QED BY <3>1, <3>2
  <2>6. ListsApart'
    BY <1>1, <2>4 DEF CostInv, ListsApart
  <2>7. ASSUME NEW k \in Job PROVE IsTold(k)'
    <3>1. UNCHANGED <<report[k], made[k]>> /\ stage[j] # "over"
          /\ stage'[k] = IF k = j THEN "running" ELSE stage[k]
      BY <2>1 DEF CostInv, CostTypes
    <3> QED BY <3>1 DEF CostInv, Reported, IsTold
  <2> QED BY <2>3, <2>5, <2>6, <2>7 DEF CostInv, Reported
<1>5. ASSUME NEW j \in Job, Costs!Fan(j) PROVE CostInv'
  <2>1. /\ stage[j] = "running" /\ stage' = [stage EXCEPT ![j] = "chunks"]
        /\ context' = Costs!CopiedContext(j)
        /\ UNCHANGED <<calculation, lists, report, made>>
    BY <1>5 DEF Costs!Fan
  <2>2. /\ \A k \in Job : context'[Costs!Main(k)] = context[Costs!Main(k)]
        /\ \A k \in Job, c \in Chunk :
              context'[<<k, c>>] = IF k = j THEN context[Costs!Main(j)] ELSE context[<<k, c>>]
    BY <1>2, <2>1 DEF Costs!CopiedContext, Costs!Main
  <2>3. CostTypes'
    <3>1. context' \in [Costs!Threads -> 0 .. Len(lists)]
      BY <1>1, <1>2, <2>1 DEF Costs!CopiedContext
    <3>2. stage' \in [Job -> {"queued", "running", "chunks", "over", "abandoned"}]
      BY <2>1 DEF CostInv, CostTypes
    <3> QED BY <2>1, <3>1, <3>2 DEF CostInv, CostTypes
  <2>4. \A k \in Job : ListOf(k)' = ListOf(k)
    BY <2>2 DEF ListOf, Costs!Main
  <2>5. ListsApart'
    BY <2>4 DEF CostInv, ListsApart
  <2>6. ASSUME NEW k \in Job PROVE ListKept(k)'
    <3>1. /\ made'[k] = made[k] /\ lists' = lists
          /\ stage'[k] = IF k = j THEN "chunks" ELSE stage[k]
          /\ \A c \in Chunk : context'[<<k, c>>] = IF k = j THEN ListOf(j) ELSE context[<<k, c>>]
      BY <2>1, <2>2 DEF CostInv, CostTypes, ListOf
    <3>2. ListKept(k)
      BY DEF CostInv, ListsKept
    <3> QED BY <2>1, <2>4, <3>1, <3>2 DEF ListKept
  <2>7. ASSUME NEW k \in Job PROVE IsTold(k)'
    <3>1. UNCHANGED <<report[k], made[k]>> /\ stage[j] # "over"
          /\ stage'[k] = IF k = j THEN "chunks" ELSE stage[k]
      BY <2>1 DEF CostInv, CostTypes
    <3> QED BY <3>1 DEF CostInv, Reported, IsTold
  <2> QED BY <2>3, <2>5, <2>6, <2>7 DEF CostInv, ListsKept, Reported
<1>6. ASSUME NEW j \in Job, Costs!Join(j) \/ Costs!Abandon(j) PROVE CostInv'
  <2>1. PICK s \in {"running", "abandoned"} :
           /\ stage[j] \in {"running", "chunks"} /\ stage' = [stage EXCEPT ![j] = s]
           /\ UNCHANGED <<calculation, context, lists, report, made>>
    BY <1>6 DEF Costs!Join, Costs!Abandon
  <2>2. CostTypes'
    <3>1. stage' \in [Job -> {"queued", "running", "chunks", "over", "abandoned"}]
      BY <2>1 DEF CostInv, CostTypes
    <3> QED BY <2>1, <3>1 DEF CostInv, CostTypes
  <2>3. ListsApart' /\ \A k \in Job : ListOf(k)' = ListOf(k)
    BY <2>1 DEF CostInv, ListsApart, ListOf, Costs!Main
  <2>5. ASSUME NEW k \in Job PROVE ListKept(k)'
    <3>1. /\ made'[k] = made[k] /\ lists' = lists /\ context' = context
          /\ stage'[k] = IF k = j THEN s ELSE stage[k]
      BY <2>1 DEF CostInv, CostTypes
    <3>2. ListKept(k)
      BY DEF CostInv, ListsKept
    <3> QED BY <2>1, <2>3, <3>1, <3>2 DEF ListKept
  <2>4. ASSUME NEW k \in Job PROVE IsTold(k)'
    <3>1. UNCHANGED <<report[k], made[k]>> /\ stage[j] # "over"
          /\ stage'[k] = IF k = j THEN s ELSE stage[k]
      BY <2>1 DEF CostInv, CostTypes
    <3> QED BY <3>1 DEF CostInv, Reported, IsTold
  <2> QED BY <2>2, <2>3, <2>4, <2>5 DEF CostInv, ListsKept, Reported
<1>7. ASSUME NEW j \in Job, Costs!Report(j) PROVE CostInv'
  <2> DEFINE costs == lists[ListOf(j)]
             told == [breakdown |-> costs, sent |-> costs # <<>>,
                      total |-> Costs!Total(costs), unknown |-> Costs!UnknownCalls(costs)]
  <2>1. ListOf(j) # Costs!Unbound /\ Tells(costs, made[j], j) /\ stage[j] = "running"
    BY <1>7 DEF Costs!Report, CostInv, ListsKept, ListKept
  <2>2. /\ stage' = [stage EXCEPT ![j] = "over"] /\ report' = [report EXCEPT ![j] = told]
        /\ UNCHANGED <<calculation, context, lists, made>>
    BY <1>7, <2>1 DEF Costs!Report, ListOf
  <2>3. Costs!Total(costs) \in Int /\ Costs!UnknownCalls(costs) \in Nat
    BY <2>1, TotalIsWhole
  <2>4. told \in [breakdown : Seq(CostEntry), total : Int, unknown : Nat, sent : BOOLEAN]
    BY <2>1, <2>3 DEF Tells
  <2>5. CostTypes'
    BY <2>2, <2>4 DEF CostInv, CostTypes, Costs!Threads
  <2> HIDE DEF costs
  <2>6. ListsApart' /\ \A k \in Job : ListOf(k)' = ListOf(k)
    BY <2>2 DEF CostInv, ListsApart, ListOf, Costs!Main
  <2>8. ASSUME NEW k \in Job PROVE ListKept(k)'
    <3>1. /\ made'[k] = made[k] /\ lists' = lists /\ context' = context
          /\ stage'[k] = IF k = j THEN "over" ELSE stage[k]
      BY <2>2 DEF CostInv, CostTypes
    <3>2. ListKept(k)
      BY DEF CostInv, ListsKept
    <3> QED BY <2>1, <2>6, <3>1, <3>2 DEF ListKept
  <2>7. ASSUME NEW k \in Job PROVE IsTold(k)'
    <3>1. CASE k = j
      <4>1. report'[k].breakdown = costs /\ report'[k].total = Costs!Total(costs) /\ made'[k] = made[j]
        BY <2>2, <3>1 DEF CostInv, CostTypes
      <4>2. stage'[k] = "over"
        BY <2>2, <3>1 DEF CostInv, CostTypes
      <4> QED BY <2>1, <3>1, <4>1, <4>2 DEF IsTold
    <3>2. CASE k # j
      <4>1. report'[k] = report[k] /\ stage'[k] = stage[k] /\ made'[k] = made[k]
        BY <2>2, <3>2 DEF CostInv, CostTypes
      <4> QED BY <4>1 DEF CostInv, Reported, IsTold
    <3> QED BY <3>1, <3>2
  <2> QED BY <2>5, <2>6, <2>7, <2>8 DEF CostInv, ListsKept, Reported
<1>8. ASSUME NEW t \in Costs!Threads, Costs!Record(t) PROVE CostInv'
  <2>1. PICK j \in Job : /\ stage[j] \in {"running", "chunks"} /\ t[1] = j
                         /\ \/ t = Costs!Main(j)
                            \/ stage[j] = "chunks" /\ \E c \in Chunk : t = <<j, c>>
    <3>1. PICK j \in Job : t = Costs!Main(j) \/ \E c \in Chunk : t = <<j, c>>
      BY <1>2
    <3>2. t[1] = j /\ (t # Costs!Main(j) => t[2] # "main") /\ (t = Costs!Main(j) => t[2] = "main")
      BY <3>1 DEF Costs!Main, Costs!CostAssumption
    <3>3. \/ t[2] = "main" /\ stage[t[1]] = "running"
          \/ t[2] # "main" /\ stage[t[1]] = "chunks"
      BY <1>8 DEF Costs!Record
    <3> QED BY <3>1, <3>2, <3>3
  <2> DEFINE l == ListOf(j)
  <2>2. context[t] = l /\ l # Costs!Unbound /\ l \in 1 .. n /\ Tells(lists[l], made[j], j)
    BY <1>1, <1>2, <2>1 DEF CostInv, ListsKept, ListKept, ListOf
  <2>3. PICK entry \in CostEntry, call \in CostCall :
           /\ entry.by = j
           /\ entry.amount # Costs!Unknown => call.known
           /\ call.told => entry.amount = 2
           /\ lists' = [lists EXCEPT ![l] = Append(lists[l], entry)]
           /\ made' = [made EXCEPT ![j] = Append(made[j], call)]
           /\ UNCHANGED <<calculation, stage, context, report>>
    <3>1. PICK m \in Costs!Model, usage, told, away \in BOOLEAN :
             LET call == [model |-> m, usage |-> usage, told |-> told, away |-> away]
                 entry == [by |-> t[1], amount |-> Costs!Price(call)]
             IN  /\ IF context[t] = Costs!Unbound
                       THEN /\ lists' = Append(lists, <<entry>>)
                            /\ context' = [context EXCEPT ![t] = Len(lists) + 1]
                       ELSE /\ lists' = [lists EXCEPT ![context[t]] = Append(@, entry)] /\ UNCHANGED context
                 /\ made' = [made EXCEPT ![t[1]] = Append(@, [told |-> calculation /\ told,
                       known |-> calculation /\ (told \/ m \in Free \/ (usage /\ Costs!HasRates(m, away)))])]
      BY <1>8, Zenon DEF Costs!Record
    <3> DEFINE asked == [model |-> m, usage |-> usage, told |-> told, away |-> away]
               price == Costs!Price(asked)
               known == calculation /\ (told \/ m \in Free \/ (usage /\ Costs!HasRates(m, away)))
    <3>2. calculation \in BOOLEAN /\ Costs!HasRates(m, away) \in BOOLEAN
      BY DEF CostInv, CostTypes, Costs!HasRates
    <3>3. price \in -1 .. 2 /\ (price # Costs!Unknown => known) /\ (calculation /\ told => price = 2)
      BY <3>1, <3>2 DEF Costs!Price, Costs!Unknown
    <3> HIDE DEF price, known
    <3>4. [by |-> j, amount |-> price] \in CostEntry /\ [told |-> calculation /\ told, known |-> known] \in CostCall
      BY <3>2, <3>3 DEF CostEntry, CostCall, known
    <3>5. UNCHANGED <<calculation, stage, report>>
      BY <1>8 DEF Costs!Record
    <3>6. made' = [made EXCEPT ![j] = Append(made[j], [told |-> calculation /\ told, known |-> known])]
      BY <2>1, <3>1 DEF known
    <3>7. lists' = [lists EXCEPT ![l] = Append(lists[l], [by |-> j, amount |-> price])] /\ UNCHANGED context
      <4>1. context[t] # Costs!Unbound
        BY <2>2
      <4> QED BY <2>1, <2>2, <3>1, <4>1 DEF price
    <3> QED BY <3>3, <3>4, <3>5, <3>6, <3>7
  <2> HIDE DEF n, l
  <2>4. lists' \in Seq(Seq(CostEntry)) /\ Len(lists') = n
    BY <1>1, <2>2, <2>3 DEF CostInv, CostTypes, n, Tells
  <2>5. lists'[l] = Append(lists[l], entry) /\ \A i \in 1 .. n : i # l => lists'[i] = lists[i]
    BY <1>1, <2>2, <2>3
  <2>6. /\ made' \in [Job -> Seq(CostCall)]
        /\ made'[j] = Append(made[j], call) /\ \A k \in Job : k # j => made'[k] = made[k]
    BY <2>2, <2>3 DEF CostInv, CostTypes, Tells
  <2>7. CostTypes'
    <3>1. CostTypes /\ Len(lists') = Len(lists)
      BY <2>4 DEF CostInv, n
    <3>2. context' \in [Costs!Threads -> 0 .. Len(lists')]
      BY <2>3, <3>1 DEF CostTypes
    <3> QED BY <2>3, <2>4, <2>6, <3>1, <3>2 DEF CostTypes
  <2>8. Tells(lists'[l], made'[j], j)
    BY <2>2, <2>3, <2>5, <2>6 DEF Tells
  <2>9. ASSUME NEW k \in Job PROVE ListKept(k)'
    <3>1. UNCHANGED <<stage[k], ListOf(k)>> /\ \A c \in Chunk : UNCHANGED context[<<k, c>>]
      BY <2>3 DEF ListOf, Costs!Main
    <3>2. CASE k = j
      BY <2>1, <2>8, <3>1, <3>2 DEF CostInv, ListsKept, ListKept, l
    <3>3. CASE k # j
      <4>1. stage[k] # "queued" => ListOf(k) \in 1 .. n /\ ListOf(k) # l
        BY <1>1, <1>2, <2>2, <3>3 DEF CostInv, ListsKept, ListKept, ListsApart, ListOf, l
      <4> QED BY <2>5, <2>6, <3>1, <3>3, <4>1 DEF CostInv, ListsKept, ListKept
    <3> QED BY <3>2, <3>3
  <2>10. ListsApart'
    BY <2>3 DEF CostInv, ListsApart, ListOf, Costs!Main
  <2>11. Reported'
    BY <2>1, <2>3, <2>6 DEF CostInv, Reported, IsTold, Tells, Costs!Total
  <2> QED BY <2>7, <2>9, <2>10, <2>11 DEF CostInv, ListsKept
<1>9. ASSUME NEW m \in Costs!Model, Costs!PriceFound(m) \/ Costs!PriceNotFound(m) \/ Costs!NotServed(m)
      PROVE  CostInv'
  BY <1>3, <1>9 DEF Costs!PriceFound, Costs!PriceNotFound, Costs!NotServed
<1>10. CASE Costs!Serve \/ UNCHANGED Costs!costVars
  BY <1>3, <1>10 DEF Costs!Serve, Costs!costVars
<1> QED BY <1>4, <1>5, <1>6, <1>7, <1>8, <1>9, <1>10 DEF Costs!CostNext

(* Only this part moves, if it is the one that was chosen. *)
LEMMA CostsMove ==
    ASSUME [Next]_vars, part' = "costs"
    PROVE  part = "costs" /\ [Costs!CostNext]_(Costs!costVars)
BY DEF Next, vars, moneyVars, Costs!costVars

CostsInv == part = "costs" => CostInv

(* CostInv holds in every state of the accounting. *)
LEMMA CostsInvariant == Spec => []CostsInv
<1>1. Init => CostsInv
  <2>1. part = "costs" /\ Init => Costs!CostInit
    BY DEF Init
  <2>2. Costs!CostInit => CostInv
    <3> SUFFICES ASSUME Costs!CostInit PROVE CostInv
      OBVIOUS
    <3>1. \A j \in Job : Costs!Main(j) \in Costs!Threads
      BY DEF Costs!Threads, Costs!Main
    <3>2. lists = <<>> /\ lists \in Seq(Seq(CostEntry)) /\ Len(lists) = 0
      BY DEF Costs!CostInit
    <3>3. CostTypes
      BY <3>2 DEF Costs!CostInit, CostTypes, Costs!None, Costs!Unbound, Costs!Unknown
    <3>4. ListsKept /\ ListsApart
      BY <3>1 DEF Costs!CostInit, ListsKept, ListKept, ListsApart, ListOf
    <3>5. Reported
      BY DEF Costs!CostInit, Reported, IsTold, Costs!None
    <3> QED BY <3>3, <3>4, <3>5 DEF CostInv
  <2> QED BY <2>1, <2>2 DEF CostsInv
<1>2. CostsInv /\ [Next]_vars => CostsInv'
  BY PartsAssumption, CostsMove, CostStep DEF CostsInv
<1> QED BY <1>1, <1>2, PTL DEF Spec

(* The callback of a job reports its own calls, all of them, and a total only of
   calls whose prices are all known: for any number of jobs that run at the same
   time, with any number of chunk threads and calls. *)
THEOREM ReportsAreTrue == Spec => []ReportIsTrue
<1>1. CostsInv => ReportIsTrue
  <2> SUFFICES ASSUME CostInv PROVE Costs!ReportIsItsOwn /\ Costs!NoPartialTotal
    BY DEF CostsInv, ReportIsTrue
  <2>1. Costs!ReportIsItsOwn
    BY DEF CostInv, Reported, IsTold, Tells, Costs!ReportIsItsOwn, Costs!Calls
  <2>2. Costs!NoPartialTotal
    <3> SUFFICES ASSUME NEW j \in Job, report[j].total # Costs!Unknown
        PROVE  /\ \A i \in DOMAIN made[j] : made[j][i].known
               /\ report[j].total >= 2 * Costs!Cardinality({i \in DOMAIN made[j] : made[j][i].told})
      BY DEF Costs!NoPartialTotal
    <3>1. Tells(report[j].breakdown, made[j], j) /\ report[j].total = Costs!Total(report[j].breakdown)
      BY DEF CostInv, Reported, IsTold
    <3> QED BY <3>1, TotalIsWhole, CostsCardinality
  <2> QED BY <2>1, <2>2
<1> QED BY <1>1, CostsInvariant, PTL
-----------------------------------------------------------------------------
(***************************************************************************)
(* QaJob.  The page is changed by the prepare step of hybrid only, which   *)
(* is before the callback is put together; so what the callback says of    *)
(* the page is still true when it is posted.                               *)
(***************************************************************************)
Callbacks == [to : {"nobody", "bypass", "qa"},
              results : [QaRegion -> Qa!Verdicts \cup Qa!Unusable \cup {"none"}],
              checks : [QaRegion -> {"kind", "bad", "none"}],
              targets : SUBSET QaRegion, complete : BOOLEAN, pixels : Int]

Shapes ==
    /\ page \in [QaRegion -> Qa!Looks]
    /\ judged \in [QaRegion -> Qa!Verdicts \cup Qa!Unusable \cup {"none"}]
    /\ checked \in [QaRegion -> {"kind", "bad", "none"}]
    /\ shown \in Int /\ revision \in Int
    /\ said \in [QaRegion -> SUBSET (Qa!Verdicts \cup {"twice"})]
    /\ posted \in Callbacks

(* What a run has done by the time it is where it is. *)
CourseInv ==
    /\ posted.to # "nobody" => pc \in {"post", "ended"}
    /\ pc = "view" => Qa!Mode = "vlm"
    /\ pc = "refetch" => Qa!Mode = "hybrid"
    /\ pc \in {"chain", "ask"} /\ Qa!Mode = "vlm" => shown = 0

(* A verdict that is more than none or a word that is no status was given by a model. *)
Given == \A r \in QaRegion : judged[r] \in {"none", "bad"} \cup said[r]

QaInv ==
    /\ Shapes /\ CourseInv /\ Given
    /\ posted.to = "nobody" => ~posted.complete /\ posted.results = Qa!All("none")
    /\ Qa!NoInventedVerdict /\ Qa!CompleteCoversThePage /\ Qa!PartialPassFixesNothing /\ Qa!JudgedIsShown

(* A region of the page is dropped or keeps what was said of it. *)
LEMMA SanitizeKeeps ==
    ASSUME NEW answers \in [QaRegion -> Qa!Verdicts \cup Qa!Unusable \cup {"none"}],
           NEW known \in SUBSET QaRegion
    PROVE  /\ Qa!Sanitize(answers, known) \in [QaRegion -> Qa!Verdicts \cup {"twice", "none"}]
           /\ \A r \in QaRegion : Qa!Sanitize(answers, known)[r] \in {answers[r], "none"} \ {"bad"}
           /\ \A r \in QaRegion : answers[r] \in Qa!Verdicts /\ r \in known =>
                 Qa!Sanitize(answers, known)[r] = answers[r]
           /\ \A r \in QaRegion : known # {} /\ r \notin known => Qa!Sanitize(answers, known)[r] = "none"
BY DEF Qa!Sanitize, Qa!Verdicts, Qa!Unusable

(* The reply of a model is recorded with the verdicts it has. *)
LEMMA ReplyGiven ==
    ASSUME Shapes, Given, Qa!Reply
    PROVE  /\ judged' \in [QaRegion -> Qa!Verdicts \cup Qa!Unusable \cup {"none"}]
           /\ checked' \in [QaRegion -> {"kind", "bad", "none"}]
           /\ said' \in [QaRegion -> SUBSET (Qa!Verdicts \cup {"twice"})]
           /\ Given'
<1>1. PICK answers \in Qa!Answers, other \in BOOLEAN,
           checks \in IF Qa!Mode = "vlm" \/ pass = 2 THEN Qa!Checks ELSE {Qa!All("none")} :
         /\ said' = [r \in QaRegion |-> said[r] \cup ({answers[r]} \cap (Qa!Verdicts \cup {"twice"}))]
         /\ IF Qa!Mode = "vlm"
              THEN /\ judged' = Qa!SetDefault(judged, [r \in QaRegion |->
                          IF r \in Qa!Targets
                            THEN Qa!Sanitize(Qa!UniqueByRegion(answers), Qa!Due \cap Qa!Targets)[r]
                            ELSE "none"])
                   /\ checked' = Qa!SetDefault(checked, Qa!Recognised(checks))
                   /\ UNCHANGED stray
              ELSE /\ judged' = answers
                   /\ checked' = Qa!Recognised(checks)
                   /\ stray' = other
  BY DEF Qa!Reply
<1>2. answers \in [QaRegion -> Qa!Verdicts \cup Qa!Unusable \cup {"none"}]
  BY DEF Qa!Answers
<1>3. /\ said' \in [QaRegion -> SUBSET (Qa!Verdicts \cup {"twice"})]
      /\ \A r \in QaRegion : said[r] \subseteq said'[r]
      /\ \A r \in QaRegion : answers[r] \in Qa!Verdicts \cup {"twice"} => answers[r] \in said'[r]
  BY <1>1, <1>2 DEF Shapes
<1>4. Qa!Recognised(checks) \in [QaRegion -> {"kind", "none"}]
  BY DEF Qa!Recognised
<1>5. CASE Qa!Mode = "vlm"
  <2> DEFINE unique == Qa!UniqueByRegion(answers)
             clean == Qa!Sanitize(unique, Qa!Due \cap Qa!Targets)
             fresh == [r \in QaRegion |-> IF r \in Qa!Targets THEN clean[r] ELSE "none"]
  <2>1. unique \in [QaRegion -> Qa!Verdicts \cup Qa!Unusable \cup {"none"}]
        /\ \A r \in QaRegion : unique[r] \in {answers[r], "none"} \ {"twice"}
    BY <1>2 DEF Qa!UniqueByRegion, Qa!Verdicts, Qa!Unusable
  <2>2. clean \in [QaRegion -> Qa!Verdicts \cup {"twice", "none"}]
        /\ \A r \in QaRegion : clean[r] \in {unique[r], "none"} \ {"bad"}
    <3>1. Qa!Due \cap Qa!Targets \in SUBSET QaRegion
      BY DEF Qa!Targets
    <3> QED BY <2>1, <3>1, SanitizeKeeps
  <2> HIDE DEF unique, clean
  <2>3. \A r \in QaRegion : fresh[r] \in {"none"} \cup (Qa!Verdicts \cap said'[r])
    BY <1>2, <1>3, <2>1, <2>2 DEF Qa!Verdicts, Qa!Unusable
  <2>4. judged' = Qa!SetDefault(judged, fresh) /\ checked' = Qa!SetDefault(checked, Qa!Recognised(checks))
    BY <1>1, <1>5 DEF unique, clean
  <2> HIDE DEF fresh
  <2>5. \A r \in QaRegion : judged'[r] = (IF judged[r] # "none" THEN judged[r] ELSE fresh[r])
    BY <2>4 DEF Qa!SetDefault
  <2>6. judged' \in [QaRegion -> Qa!Verdicts \cup Qa!Unusable \cup {"none"}]
    BY <2>3, <2>4 DEF Qa!SetDefault, Shapes
  <2>7. checked' \in [QaRegion -> {"kind", "bad", "none"}]
    BY <1>4, <2>4 DEF Qa!SetDefault, Shapes
  <2>8. Given'
    BY <1>3, <2>3, <2>5 DEF Given
  <2> QED BY <1>3, <2>6, <2>7, <2>8
<1>6. CASE Qa!Mode # "vlm"
  <2>1. judged' = answers /\ checked' = Qa!Recognised(checks)
    BY <1>1, <1>6
  <2>2. Given'
    BY <1>2, <1>3, <2>1 DEF Given, Qa!Verdicts, Qa!Unusable
  <2> QED BY <1>2, <1>3, <1>4, <2>1, <2>2
<1> QED BY <1>5, <1>6

(* Types and the course of a run are kept by every step. *)
LEMMA CourseStep ==
    ASSUME QaInv, [Qa!Next]_(Qa!vars)
    PROVE  Shapes' /\ CourseInv' /\ Given'
<1> USE DEF QaInv
<1>1. /\ Qa!All("none") \in [QaRegion -> Qa!Verdicts \cup {"none"}]
      /\ Qa!All({}) \in [QaRegion -> SUBSET (Qa!Verdicts \cup {"twice"})]
      /\ Qa!Targets \in SUBSET QaRegion
      /\ \A r \in QaRegion : Qa!All("none")[r] = "none"
  BY DEF Qa!All, Qa!Targets, Qa!Verdicts
<1>2. Qa!Mode' = Qa!Mode \/ job' # job
  BY DEF Qa!Mode, Qa!ResolvedMode
<1>3. CASE Qa!Bypass
  <2>1. /\ posted' \in Callbacks /\ pc' = "post"
        /\ UNCHANGED <<page, judged, checked, shown, revision, said, job>>
    <3> DEFINE T == {r \in QaRegion : Qa!Passed[r] # "none"}
               full == Qa!Complete(Qa!Passed, FALSE, T)
               pixels == IF job.artifact THEN 0 ELSE -1
    <3>1. Qa!Passed \in [QaRegion -> {"passed", "none"}]
      BY DEF Qa!Passed
    <3>2. T \in SUBSET QaRegion /\ pixels \in Int
      OBVIOUS
    <3>3. full \in BOOLEAN
      BY DEF Qa!Complete
    <3>4. posted' = [Qa!Nothing EXCEPT !.to = "bypass", !.results = Qa!Passed, !.targets = T,
                                    !.complete = full, !.pixels = pixels]
      BY <1>3 DEF Qa!Bypass
    <3> HIDE DEF T, full, pixels
    <3>5. posted' = [to |-> "bypass", results |-> Qa!Passed, checks |-> Qa!All("none"), targets |-> T,
                     complete |-> full, pixels |-> pixels]
      BY <3>4 DEF Qa!Nothing
    <3>6. Qa!All("none") \in [QaRegion -> {"kind", "bad", "none"}]
      BY DEF Qa!All
    <3>7. posted' \in Callbacks
      BY <3>1, <3>2, <3>3, <3>5, <3>6 DEF Callbacks, Qa!Verdicts
    <3> QED BY <1>3, <3>7 DEF Qa!Bypass, Qa!Goto
  <2> QED BY <1>2, <2>1 DEF Shapes, CourseInv, Given
<1>4. CASE \/ Qa!NothingToAsk \/ Qa!Fetch \/ Qa!FetchRefused \/ Qa!View \/ Qa!Chain \/ Qa!Refetch \/ Qa!NoPage
           \/ Qa!Post \/ Qa!Raises \/ Qa!Edit \/ UNCHANGED Qa!vars
  <2>1. Given' /\ Shapes'
    BY <1>4
       DEF Qa!NothingToAsk, Qa!Fetch, Qa!FetchRefused, Qa!View, Qa!Chain, Qa!Refetch, Qa!NoPage, Qa!Post,
           Qa!Raises, Qa!Edit, Qa!vars, Given, Shapes
  <2>2. ASSUME Qa!Fetch PROVE CourseInv'
    BY <1>2, <2>2 DEF Qa!Fetch, CourseInv, Qa!Goto
  <2>3. ASSUME Qa!View PROVE CourseInv'
    BY <1>2, <2>3 DEF Qa!View, CourseInv, Qa!Goto
  <2>4. ASSUME Qa!Chain PROVE CourseInv'
    BY <1>2, <2>4 DEF Qa!Chain, CourseInv, Qa!Goto
  <2>5. ASSUME Qa!Refetch PROVE CourseInv'
    BY <1>2, <2>5 DEF Qa!Refetch, CourseInv, Qa!Goto
  <2>6. ASSUME Qa!FetchRefused \/ Qa!NoPage \/ Qa!Post \/ Qa!Raises PROVE CourseInv'
    BY <1>2, <2>6 DEF Qa!FetchRefused, Qa!NoPage, Qa!Post, Qa!Raises, Qa!End, CourseInv
  <2>7. ASSUME Qa!Edit \/ UNCHANGED Qa!vars PROVE CourseInv'
    BY <1>2, <2>7 DEF Qa!Edit, Qa!vars, CourseInv
  <2>8. ASSUME Qa!NothingToAsk PROVE CourseInv'
    BY <1>2, <2>8 DEF Qa!NothingToAsk, CourseInv, Qa!Goto
  <2> QED BY <1>4, <2>1, <2>2, <2>3, <2>4, <2>5, <2>6, <2>7, <2>8
<1>5. CASE Qa!NoReply \/ Qa!Garbage
  <2>1. UNCHANGED <<pc, page, judged, checked, shown, revision, said, posted, job>>
    BY <1>5 DEF Qa!NoReply, Qa!Garbage, Qa!Asked
  <2> QED BY <1>2, <2>1 DEF Shapes, CourseInv, Given
<1>6. CASE Qa!Reply
  <2>1. UNCHANGED <<pc, page, shown, revision, posted, job>>
    BY <1>6 DEF Qa!Reply, Qa!Asked
  <2> QED BY <1>2, <1>6, <2>1, ReplyGiven DEF Shapes, CourseInv
<1>7. CASE Qa!Prepare
  <2>1. /\ page' \in [QaRegion -> Qa!Looks] /\ revision' \in Int /\ shown' \in Int
        /\ judged' = Qa!All("none") /\ said' = Qa!All({}) /\ checked' = Qa!All("none") /\ pc' = "refetch"
        /\ Qa!Mode = "hybrid" /\ UNCHANGED <<job, posted>> /\ pc = "ask"
    BY <1>7 DEF Qa!Prepare, Qa!Clean, Qa!Goto, Shapes, Qa!Settled
  <2>2. posted.to = "nobody"
    BY <2>1 DEF CourseInv, Shapes, Callbacks
  <2> QED BY <1>1, <1>2, <2>1, <2>2 DEF Shapes, CourseInv, Given
<1>8. CASE Qa!Account
  <2>1. /\ pc' = "post" /\ UNCHANGED <<page, judged, checked, shown, revision, said, job>>
        /\ posted' = [to |-> "qa", results |-> Qa!Verdict, checks |-> checked, targets |-> Qa!Targets,
                      complete |-> Qa!Complete(judged, stray, Qa!Targets), pixels |-> Qa!JudgedArtifact]
    BY <1>8 DEF Qa!Account, Qa!Goto
  <2>2. /\ Qa!Verdict \in [QaRegion -> Qa!Verdicts \cup {"twice", "none"}]
        /\ Qa!Complete(judged, stray, Qa!Targets) \in BOOLEAN /\ Qa!JudgedArtifact \in Int
    BY <1>1, SanitizeKeeps DEF Qa!Verdict, Shapes, Qa!Complete, Qa!JudgedArtifact
  <2>3. posted' \in Callbacks
    BY <1>1, <2>1, <2>2 DEF Callbacks, Shapes, Qa!Unusable
  <2> QED BY <1>2, <2>1, <2>3 DEF Shapes, CourseInv, Given
<1> QED BY <1>3, <1>4, <1>5, <1>6, <1>7, <1>8 DEF Qa!Next

(* What the callback of a run says when it is put together, and that it stays so. *)
LEMMA CallbackStep ==
    ASSUME QaInv, [Qa!Next]_(Qa!vars), Shapes', CourseInv'
    PROVE  /\ posted'.to = "nobody" => ~posted'.complete /\ posted'.results = Qa!All("none")
           /\ Qa!NoInventedVerdict' /\ Qa!CompleteCoversThePage' /\ Qa!JudgedIsShown'
<1> DEFINE Silence == posted.to = "nobody" => ~posted.complete /\ posted.results = Qa!All("none")
           Said == Silence' /\ Qa!NoInventedVerdict' /\ Qa!CompleteCoversThePage' /\ Qa!JudgedIsShown'
<1> SUFFICES Said
  OBVIOUS
<1>1. \A r \in QaRegion : Qa!All("none")[r] = "none"
  BY DEF Qa!All
<1>2. CASE posted'.to = "nobody" /\ posted' = posted
  <2>1. Silence /\ posted.to = "nobody"
    BY <1>2 DEF QaInv
  <2> QED BY <1>1, <1>2, <2>1 DEF Qa!NoInventedVerdict, Qa!CompleteCoversThePage, Qa!JudgedIsShown
<1>3. CASE posted' = posted /\ posted.to # "nobody"
  <2>1. pc \in {"post", "ended"}
    BY <1>3 DEF QaInv, CourseInv
  <2>2. UNCHANGED <<job, page, shown, said>>
    BY <2>1
       DEF Qa!Next, Qa!vars, Qa!NothingToAsk, Qa!Bypass, Qa!Fetch, Qa!FetchRefused, Qa!View, Qa!Chain,
           Qa!NoReply, Qa!Garbage, Qa!Reply, Qa!Asking,
                Qa!Prepare, Qa!NoPage, Qa!Refetch, Qa!Edit, Qa!Account, Qa!Post, Qa!Raises, Qa!Settled
  <2>3. Qa!Mode' = Qa!Mode /\ Qa!Targets' = Qa!Targets
    BY <2>2 DEF Qa!Mode, Qa!ResolvedMode, Qa!Targets
  <2> QED
    BY <1>3, <2>2, <2>3
       DEF QaInv, Qa!NoInventedVerdict, Qa!CompleteCoversThePage, Qa!JudgedIsShown
<1>4. CASE Qa!Bypass
  <2> DEFINE T == {r \in QaRegion : Qa!Passed[r] # "none"}
  <2>1. /\ posted'.to = "bypass" /\ posted'.results = Qa!Passed /\ posted'.targets = T
        /\ page' = page
    BY <1>4 DEF Qa!Bypass, Qa!Nothing
  <2>2. \A r \in QaRegion :
            /\ Qa!Passed[r] \in {"passed", "none"}
            /\ Qa!Passed[r] # "none" => page[r] \in {"target", "plain"}
    BY DEF Qa!Passed
  <2>3. \A r \in QaRegion : Qa!Passed[r] \in Qa!Verdicts <=> r \in T
    <3> SUFFICES ASSUME NEW r \in QaRegion PROVE Qa!Passed[r] \in Qa!Verdicts <=> r \in T
      OBVIOUS
    <3>1. r \in T <=> Qa!Passed[r] # "none"
      OBVIOUS
    <3>2. Qa!Passed[r] \in Qa!Verdicts <=> Qa!Passed[r] # "none"
      BY <2>2 DEF Qa!Verdicts
    <3> QED BY <3>1, <3>2
  <2> HIDE DEF T
  <2>4. Qa!NoInventedVerdict'
    BY <2>1, <2>2 DEF Qa!NoInventedVerdict
  <2>5. Qa!CompleteCoversThePage'
    BY <2>1, <2>3 DEF Qa!CompleteCoversThePage
  <2> QED BY <2>1, <2>4, <2>5 DEF Qa!JudgedIsShown
<1>5. CASE Qa!Account
  <2>1. /\ UNCHANGED <<job, page, shown, said>> /\ pc = "ask"
        /\ posted' = [to |-> "qa", results |-> Qa!Verdict, checks |-> checked, targets |-> Qa!Targets,
                      complete |-> Qa!Complete(judged, stray, Qa!Targets), pixels |-> Qa!JudgedArtifact]
    BY <1>5 DEF Qa!Account, Qa!Settled
  <2>2. Qa!Mode' = Qa!Mode /\ Qa!Targets' = Qa!Targets
    BY <2>1 DEF Qa!Mode, Qa!ResolvedMode, Qa!Targets
  <2>3. /\ \A r \in QaRegion : Qa!Verdict[r] \in {judged[r], "none"} \ {"bad"}
        /\ \A r \in Qa!Targets : judged[r] \in Qa!Verdicts => Qa!Verdict[r] = judged[r]
        /\ Qa!Targets \in SUBSET QaRegion
    <3>1. Qa!Targets \in SUBSET QaRegion /\ judged \in [QaRegion -> Qa!Verdicts \cup Qa!Unusable \cup {"none"}]
      BY DEF Qa!Targets, QaInv, Shapes
    <3> QED BY <3>1, SanitizeKeeps DEF Qa!Verdict
  <2>4. Qa!NoInventedVerdict'
    BY <2>1, <2>3 DEF Qa!NoInventedVerdict, QaInv, Given
  <2>5. Qa!CompleteCoversThePage'
    <3>1. \A r \in QaRegion \ Qa!Targets : Qa!Complete(judged, stray, Qa!Targets) => Qa!Verdict[r] = "none"
      BY <2>3 DEF Qa!Complete
    <3>2. \A r \in Qa!Targets : Qa!Complete(judged, stray, Qa!Targets) => Qa!Verdict[r] \in Qa!Verdicts
      BY <2>3 DEF Qa!Complete
    <3> QED BY <2>1, <2>2, <2>3, <3>1, <3>2 DEF Qa!CompleteCoversThePage, Qa!Verdicts
  <2>6. Qa!JudgedIsShown'
    BY <2>1, <2>2 DEF Qa!JudgedIsShown, Qa!JudgedArtifact, QaInv, CourseInv
  <2> QED BY <2>1, <2>4, <2>5, <2>6
<1>6. posted' = posted \/ Qa!Bypass \/ Qa!Account
  BY DEF Qa!Next, Qa!vars, Qa!NothingToAsk, Qa!Fetch, Qa!FetchRefused, Qa!View, Qa!Chain, Qa!NoReply, Qa!Garbage,
         Qa!Reply, Qa!Asked,
         Qa!Prepare, Qa!NoPage, Qa!Refetch, Qa!Edit, Qa!Post, Qa!Raises
<1> QED BY <1>2, <1>3, <1>4, <1>5, <1>6

(* A text pass that did not cover its targets writes nothing to the page; and what it
   writes takes no region onto the page. *)
LEMMA FixesStep ==
    ASSUME QaInv, [Qa!Next]_(Qa!vars)
    PROVE  Qa!PartialPassFixesNothing'
<1> USE DEF Qa!PartialPassFixesNothing
<1>1. judged \in [QaRegion -> Qa!Verdicts \cup Qa!Unusable \cup {"none"}] /\ Qa!Targets \in SUBSET QaRegion
  BY DEF QaInv, Shapes, Qa!Targets
<1>2. Qa!Fixes # Qa!All("none") => \A r \in Qa!Targets : Qa!Fixes[r] \in Qa!Verdicts
  BY <1>1, SanitizeKeeps DEF Qa!Fixes, Qa!Complete
<1>3. CASE Qa!Prepare \/ Qa!NoPage
  <2>1. prepared' = Qa!Fixes /\ \A r \in QaRegion : page'[r] = "target" => page[r] = "target"
    BY <1>3 DEF Qa!Prepare, Qa!NoPage
  <2>2. Qa!Targets' \subseteq Qa!Targets
    BY <2>1 DEF Qa!Targets
  <2> QED BY <1>2, <2>1, <2>2
<1>4. CASE ~(Qa!Prepare \/ Qa!NoPage)
  <2>1. UNCHANGED <<prepared, page>>
    BY <1>4
       DEF Qa!Next, Qa!vars, Qa!NothingToAsk, Qa!Bypass, Qa!Fetch, Qa!FetchRefused, Qa!View, Qa!Chain,
           Qa!NoReply, Qa!Garbage, Qa!Reply, Qa!Asked,
                Qa!Refetch, Qa!Edit, Qa!Account, Qa!Post, Qa!Raises
  <2>2. Qa!Targets' = Qa!Targets
    BY <2>1 DEF Qa!Targets
  <2> QED BY <2>1, <2>2 DEF QaInv
<1> QED BY <1>3, <1>4

(* A run begins with nothing judged and nothing posted. *)
LEMMA QaBegins == ASSUME Qa!Init PROVE QaInv
<1>1. /\ Qa!All("none") \in [QaRegion -> {"none"}] /\ Qa!All({}) \in [QaRegion -> {{}}]
      /\ \A r \in QaRegion : Qa!All("none")[r] = "none"
  BY DEF Qa!All
<1>2. Qa!Nothing \in Callbacks
  BY <1>1 DEF Qa!Nothing, Callbacks
<1>3. Shapes
  BY <1>1, <1>2 DEF Qa!Init, Shapes
<1>4. CourseInv /\ Given
  BY <1>1 DEF Qa!Init, CourseInv, Given, Qa!Nothing
<1>5. Qa!NoInventedVerdict /\ Qa!CompleteCoversThePage /\ Qa!PartialPassFixesNothing /\ Qa!JudgedIsShown
  BY <1>1
     DEF Qa!Init, Qa!Nothing, Qa!NoInventedVerdict, Qa!CompleteCoversThePage,
         Qa!PartialPassFixesNothing, Qa!JudgedIsShown
<1> QED BY <1>3, <1>4, <1>5 DEF QaInv, Qa!Init, Qa!Nothing

(* Only this part moves, if it is the one that was chosen. *)
LEMMA QaMoves ==
    ASSUME [Next]_vars
    PROVE  /\ part' = "qa" => part = "qa"
           /\ part = "qa" => [Qa!Next]_(Qa!vars)
BY DEF Next, vars, request, qaOnly, Qa!vars

CallbackInv == part = "qa" => QaInv

(* The inductive invariant holds. *)
LEMMA CallbackInvariant == Spec => []CallbackInv
<1>1. Init => CallbackInv
  BY QaBegins DEF Init, CallbackInv
<1>2. CallbackInv /\ [Next]_vars => CallbackInv'
  BY QaMoves, CourseStep, CallbackStep, FixesStep DEF CallbackInv, QaInv
<1> QED BY <1>1, <1>2, PTL DEF Spec

(* The callback states no verdict but those of a model that looked at the page last,
   or, of a bypass, a pass for regions that are open: for any page, any chain of models
   and whatever they reply (NoInventedVerdict). *)
THEOREM VerdictsAreGiven == Spec => []NoInventedVerdict
<1>1. CallbackInv => NoInventedVerdict
  BY DEF CallbackInv, QaInv, NoInventedVerdict
<1> QED BY <1>1, CallbackInvariant, PTL

(* A callback that calls itself complete covers the translated regions of the page
   exactly, with one verdict each (CompleteCoversThePage). *)
THEOREM CompleteIsComplete == Spec => []CompleteCoversThePage
<1>1. CallbackInv => CompleteCoversThePage
  BY DEF CallbackInv, QaInv, CompleteCoversThePage
<1> QED BY <1>1, CallbackInvariant, PTL

(* In hybrid the page gets the fixes of a whole text pass or none, and a vision
   verdict is about the pixels it was shown, whatever edits come in between
   (HybridIsSound). *)
THEOREM HybridStaysSound == Spec => []HybridIsSound
<1>1. CallbackInv => HybridIsSound
  BY DEF CallbackInv, QaInv, HybridIsSound, Qa!HybridIsSound
<1> QED BY <1>1, CallbackInvariant, PTL

(* Who has a verdict of a vision model is not due, and keeps it. *)
LEMMA VerdictKept ==
    ASSUME Qa!Next, NEW r \in Qa!Targets, Qa!Mode = "vlm", judged[r] # "none"
    PROVE  judged'[r] = judged[r] /\ asks'[r] = asks[r]
<1>1. r \in QaRegion /\ page[r] = "target"
  BY DEF Qa!Targets
<1>2. r \notin Qa!Due
  <2>1. Qa!Due = {q \in Qa!Targets : judged[q] = "none"} \cup {q \in Qa!Uncertain : checked[q] = "none"}
    BY DEF Qa!Due
  <2> QED BY <1>1, <2>1 DEF Qa!Uncertain
<1>3. CASE Qa!Asked /\ UNCHANGED judged
  BY <1>1, <1>2, <1>3 DEF Qa!Asked
<1>4. CASE Qa!Reply
  <2>1. PICK new : judged' = Qa!SetDefault(judged, new) /\ Qa!Asked
    BY <1>4 DEF Qa!Reply
  <2> QED BY <1>1, <1>2, <2>1 DEF Qa!SetDefault, Qa!Asked
<1>5. CASE UNCHANGED <<judged, asks>>
  BY <1>5
<1>6. Qa!Mode # "hybrid"
  OBVIOUS
<1> QED BY <1>3, <1>4, <1>5, <1>6
        DEF Qa!Next, Qa!NothingToAsk, Qa!Bypass, Qa!Fetch, Qa!FetchRefused, Qa!View, Qa!Chain, Qa!NoReply, Qa!Garbage,
            Qa!Prepare, Qa!NoPage, Qa!Refetch, Qa!Edit, Qa!Account, Qa!Post, Qa!Raises

(* A verdict of a vision model stands against every model that is asked later, and
   its region is not asked about again (VerdictStands). *)
THEOREM FirstVerdictStands == Spec => VerdictStands
<1> DEFINE Stands ==
        part = "qa" /\ Qa!Mode = "vlm" =>
            \A r \in Qa!Targets : judged[r] # "none" => judged'[r] = judged[r] /\ asks'[r] = asks[r]
<1>1. Next => Stands
  BY VerdictKept DEF Next
<1>2. [Next]_vars => [Stands]_vars
  BY <1>1
<1> QED BY <1>2, PTL DEF Spec, VerdictStands
================================================================================
