----------------------------- MODULE WorkerSlots -----------------------------
(***************************************************************************)
(* Admission of jobs into worker slots: src/src/worker/concurrency.py and  *)
(* submit_job of src/src/worker/main.py.                                   *)
(*                                                                         *)
(* submit_job runs under ACTIVE_JOBS_LOCK, answers 429 or takes a slot,    *)
(* and starts the job's thread after it has let the lock go.  The thread   *)
(* (run_job_async) gives the slot back under the same lock.  A thread that *)
(* cannot be started raises out of submit_job with its slot taken: nothing *)
(* gives that slot back before the process restarts.                       *)
(***************************************************************************)
EXTENDS Integers, FiniteSets

CONSTANTS Thread,      \* identities of the job threads (reused once ended)
          Queue,       \* the queue names a dispatcher may send
          RawSettings, \* environment triples [concurrent, heavy, light]
          MaxLost      \* bound: threads that may fail to start

ASSUME SlotAssumption ==
    /\ IsFiniteSet(Thread)
    /\ RawSettings \subseteq [concurrent : Int, heavy : Int, light : Int]
    /\ MaxLost \in Nat

VARIABLES settings,    \* the resolved limits and REUSE_IDLE_SLOTS
          activeJobs, activeHeavy, activeLight,   \* the three counters
          stage,       \* where each thread is
          queue        \* the queue of the job each thread was given

vars == <<settings, activeJobs, activeHeavy, activeLight, stage, queue>>

Stages == {"idle", "admitted", "running", "hung", "lost"}

HEAVY_QUEUES == {"queue:cleanup", "queue:manual-cleanup", "queue:panel-detection",
                 "queue:ocr", "queue:qa-re-ocr", "queue:region-redo-ocr"}

(* A name in neither set of concurrency.py is treated as light. *)
IsHeavy(q) == q \in HEAVY_QUEUES

AtLeastOne(n) == IF n < 1 THEN 1 ELSE n

(* resolve_slot_config: every limit is raised to 1, and a tier total above
   the global cap is only warned about. *)
ResolveSlotConfig(raw, reuse) ==
    [concurrent |-> AtLeastOne(raw.concurrent),
     heavy      |-> AtLeastOne(raw.heavy),
     light      |-> AtLeastOne(raw.light),
     reuse      |-> reuse]

Settings == [concurrent : Nat \ {0}, heavy : Nat \ {0}, light : Nat \ {0},
             reuse : BOOLEAN]

-----------------------------------------------------------------------------
(* The guards of submit_job: what is not admitted is answered with 429. *)

HeavyFreeOffByOne == activeHeavy <= settings.heavy   \* mistake: <= for <

HeavyFree == activeHeavy < settings.heavy

LightFree == \/ activeLight < settings.light
             \/ settings.reuse /\ activeJobs < settings.concurrent

CanAdmit(q) == /\ activeJobs < settings.concurrent
               /\ IF IsHeavy(q) THEN HeavyFree ELSE LightFree

Init == /\ \E raw \in RawSettings, reuse \in BOOLEAN :
               settings = ResolveSlotConfig(raw, reuse)
        /\ activeJobs = 0 /\ activeHeavy = 0 /\ activeLight = 0
        /\ stage = [t \in Thread |-> "idle"]
        /\ queue \in [Thread -> Queue]

(* submit_job inside the lock: take a slot of the tier and recompute the total. *)
Submit(t, q) ==
    /\ stage[t] = "idle"
    /\ CanAdmit(q)
    /\ activeHeavy' = IF IsHeavy(q) THEN activeHeavy + 1 ELSE activeHeavy
    /\ activeLight' = IF IsHeavy(q) THEN activeLight ELSE activeLight + 1
    /\ activeJobs' = activeHeavy' + activeLight'
    /\ stage' = [stage EXCEPT ![t] = "admitted"]
    /\ queue' = [queue EXCEPT ![t] = q]
    /\ UNCHANGED settings

(* t.start(), after the lock was released. *)
StartThread(t) ==
    /\ stage[t] = "admitted"
    /\ stage' = [stage EXCEPT ![t] = "running"]
    /\ UNCHANGED <<settings, activeJobs, activeHeavy, activeLight, queue>>

(* t.start() raises (the host refuses a thread): the request answers 500 and
   the counters keep the slot of a job that never runs. *)
StartFails(t) ==
    /\ stage[t] = "admitted"
    /\ Cardinality({u \in Thread : stage[u] = "lost"}) < MaxLost
    /\ stage' = [stage EXCEPT ![t] = "lost"]
    /\ UNCHANGED <<settings, activeJobs, activeHeavy, activeLight, queue>>

(* The job waits in a request made without a timeout (JobLifecycle shows
   where), until the peer answers or the connection breaks, if ever. *)
Hangs(t) ==
    /\ stage[t] = "running"
    /\ stage' = [stage EXCEPT ![t] = "hung"]
    /\ UNCHANGED <<settings, activeJobs, activeHeavy, activeLight, queue>>

Wakes(t) ==
    /\ stage[t] = "hung"
    /\ stage' = [stage EXCEPT ![t] = "running"]
    /\ UNCHANGED <<settings, activeJobs, activeHeavy, activeLight, queue>>

Less(n) == IF n - 1 < 0 THEN 0 ELSE n - 1

ReleaseSlot(q) ==
    /\ activeHeavy' = IF IsHeavy(q) THEN Less(activeHeavy) ELSE activeHeavy
    /\ activeLight' = IF IsHeavy(q) THEN activeLight ELSE Less(activeLight)
    /\ activeJobs' = activeHeavy' + activeLight'

RunEndsWithoutFinally(t) ==   \* mistake: a job that raises keeps its slot
    /\ stage[t] = "running"
    /\ ReleaseSlot(queue[t]) \/ UNCHANGED <<activeJobs, activeHeavy, activeLight>>
    /\ stage' = [stage EXCEPT ![t] = "idle"]
    /\ UNCHANGED <<settings, queue>>

(* The finally of run_job_async, reached whether the job returned or raised. *)
RunEnds(t) ==
    /\ stage[t] = "running"
    /\ ReleaseSlot(queue[t])
    /\ stage' = [stage EXCEPT ![t] = "idle"]
    /\ UNCHANGED <<settings, queue>>

(* The process dies with its daemon threads and starts over from the module's
   initial values, under the same environment. *)
Restart ==
    /\ \E t \in Thread : stage[t] # "idle"
    /\ stage' = [t \in Thread |-> "idle"]
    /\ activeJobs' = 0 /\ activeHeavy' = 0 /\ activeLight' = 0
    /\ UNCHANGED <<settings, queue>>

Next == \/ \E t \in Thread, q \in Queue : Submit(t, q)
        \/ \E t \in Thread : \/ StartThread(t) \/ StartFails(t)
                             \/ Hangs(t) \/ Wakes(t) \/ RunEnds(t)
        \/ Restart

Spec == Init /\ [][Next]_vars

(* An admitted thread is started, and a job that waits for nobody ends.  No
   fairness wakes a hung job. *)
Fairness == \A t \in Thread : WF_vars(StartThread(t)) /\ WF_vars(RunEnds(t))

FairSpec == Spec /\ Fairness

-----------------------------------------------------------------------------
(* Threads that own a slot, lost ones included: nothing frees theirs. *)
Occupying == {t \in Thread : stage[t] # "idle"}
HeavyOccupying == {t \in Occupying : IsHeavy(queue[t])}

(* Limits are at least one and the counters natural numbers, for every
   environment resolve_slot_config may meet. *)
TypeOK == /\ settings \in Settings
          /\ activeJobs \in Nat /\ activeHeavy \in Nat /\ activeLight \in Nat
          /\ stage \in [Thread -> Stages]
          /\ queue \in [Thread -> Queue]

(* The counters, kept by two code paths in two files, always say exactly how
   many threads of each tier own a slot; in particular the max(0, ..) of
   run_job_async never hides a double release. *)
CountersMatchThreads ==
    /\ activeHeavy = Cardinality(HeavyOccupying)
    /\ activeLight = Cardinality(Occupying \ HeavyOccupying)
    /\ activeJobs = Cardinality(Occupying)

(* No admission, in any order of submissions and endings, runs more threads
   than the resolved limits: globally, for heavy jobs, and for light jobs
   when idle slots are not lent out. *)
SlotBounds ==
    /\ Cardinality(Occupying) <= settings.concurrent
    /\ Cardinality(HeavyOccupying) <= settings.heavy
    /\ ~settings.reuse =>
           Cardinality(Occupying \ HeavyOccupying) <= settings.light

(* The per-tier numbers work as reservations when REUSE_IDLE_SLOTS is off and
   they fit the global cap: a tier below its number is never refused. *)
Strict == ~settings.reuse /\ settings.heavy + settings.light <= settings.concurrent

ReservedWhenStrict ==
    Strict => \A q \in Queue :
        (IF IsHeavy(q) THEN HeavyFree ELSE activeLight < settings.light) => CanAdmit(q)

(* A dispatcher that keeps retrying a refused heavy job meets an open slot
   again and again, unless threads fail to start or hang for good. *)
HeavySlotRecurs ==
    (Strict /\ <>[](\A t \in Thread : stage[t] \notin {"lost", "hung"}))
        => \A q \in Queue : IsHeavy(q) => []<>CanAdmit(q)

(* The slots implement the pool of SlotPool. *)
Pool == INSTANCE SlotPool
            WITH holders <- Occupying, heavyHolders <- HeavyOccupying,
                 limits <- [total |-> settings.concurrent, heavy |-> settings.heavy]

ImplementsPool == Pool!Spec

=============================================================================
