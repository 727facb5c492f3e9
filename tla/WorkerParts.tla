------------------------------ MODULE WorkerParts ------------------------------
(***************************************************************************)
(* Seven parts of a worker that share no state, side by side: an initial     *)
(* state belongs to one part, and only that part moves.  What is proved of *)
(* a part is proved here, of the very properties that TLC checks.          *)
(***************************************************************************)
EXTENDS Integers, FiniteSets, Sequences

CONSTANTS \* QaJob
          QaRegion, QaJobs, ConfigVlm, ConfigLlm, Spares, MaxEdits,
          \* OcrJob
          OcrFragment, Balloons, Place, OcrJobs, ConfigModel, ChunkSize,
          \* CleanupJob
          CleanupJobs,
          \* FragmentGrouping
          Fragment, Scenes, Budget, Unit, JoinBudget, MaxLines, MaxArea,
          \* ModelManager
          Page, Redo, Key, Detector, Ttl, MaxNow, MaxCopies,
          \* RateLimit
          Caller, Provider, MinDelay, MaxTime, MaxSlots,
          \* JobCosts
          Job, Chunk, Primary, Fallback, Free, Anchored, MaxCalls

VARIABLES part,
          \* QaJob, OcrJob and CleanupJob
          pc, job, posted, outcome,
          \* QaJob
          page, revision, pass, provider, legs, heard, judged, stray, checked, shown,
          prepared, said, asks,
          \* OcrJob
          yolo, home, blank, place, todo, merged, candidates, crops, texts, replies, merging, used,
          origin,
          \* CleanupJob
          void, at, result, stored, outcomes, begun,
          \* FragmentGrouping
          scene, groups, joined, decision,
          \* ModelManager
          available, reader, lastUsed, lock, section, step, key, copy, since, sweep, copies, now,
          \* RateLimit
          time, last, due, target, slots,
          \* JobCosts
          priced, unchecked, phase, calculation, stage, context, lists, report, made

request == <<pc, job, posted, outcome>>
qaOnly == <<page, revision, pass, provider, legs, heard, judged, stray, checked, shown,
            prepared, said, asks>>
ocrOnly == <<yolo, home, blank, place, todo, merged, candidates, crops, texts, replies, merging, used,
            origin>>
cleanupOnly == <<void, at, result, stored, outcomes, begun>>
sceneOnly == <<scene, groups, joined, decision>>
modelVars == <<available, reader, lastUsed, lock, section, step, key, copy, since, sweep, copies, now>>
slotVars == <<time, last, due, target, slots>>
moneyVars == <<priced, unchecked, phase, calculation, stage, context, lists, report, made>>

Qa == INSTANCE QaJob WITH Region <- QaRegion, Jobs <- QaJobs
Ocr == INSTANCE OcrJob WITH Fragment <- OcrFragment, Jobs <- OcrJobs
Cleanup == INSTANCE CleanupJob WITH Jobs <- CleanupJobs
Grouping == INSTANCE FragmentGrouping
Models == INSTANCE ModelManager
Rate == INSTANCE RateLimit
Costs == INSTANCE JobCosts

(* What the proofs take for granted of the constants of these parts. *)
ASSUME PartsAssumption ==
    /\ Qa!QaAssumption /\ Cleanup!CleanupAssumption /\ Models!ManagerAssumption /\ Rate!RateAssumption
    /\ Costs!CostAssumption /\ Ocr!OcrAssumption /\ Grouping!GroupingAssumption
-----------------------------------------------------------------------------
(* The variables of a part that does not move. *)
RequestIdle ==
    pc = "idle" /\ job = "idle" /\ posted = "idle" /\ outcome = "idle"
QaIdle ==
    page = "idle" /\ revision = "idle" /\ pass = "idle" /\ provider = "idle" /\ legs = "idle" /\
    heard = "idle" /\ judged = "idle" /\ stray = "idle" /\ checked = "idle" /\ shown = "idle" /\
    prepared = "idle" /\ said = "idle" /\ asks = "idle"
OcrIdle ==
    yolo = "idle" /\ home = "idle" /\ blank = "idle" /\ place = "idle" /\ todo = "idle" /\
    merged = "idle" /\ candidates = "idle" /\ crops = "idle" /\ texts = "idle" /\
    replies = "idle" /\ merging = "idle" /\ used = "idle" /\ origin = "idle"
CleanupIdle ==
    void = "idle" /\ at = "idle" /\ result = "idle" /\ stored = "idle" /\ outcomes = "idle" /\
    begun = "idle"
SceneIdle ==
    scene = "idle" /\ groups = "idle" /\ joined = "idle" /\ decision = "idle"
ModelsIdle ==
    available = "idle" /\ reader = "idle" /\ lastUsed = "idle" /\ lock = "idle" /\ section =
    "idle" /\ step = "idle" /\ key = "idle" /\ copy = "idle" /\ since = "idle" /\ sweep = "idle"
    /\ copies = "idle" /\ now = "idle"
SlotsIdle ==
    time = "idle" /\ last = "idle" /\ due = "idle" /\ target = "idle" /\ slots = "idle"
MoneyIdle ==
    priced = "idle" /\ unchecked = "idle" /\ phase = "idle" /\ calculation = "idle" /\ stage =
    "idle" /\ context = "idle" /\ lists = "idle" /\ report = "idle" /\ made = "idle"

Init ==
    \/ part = "qa" /\ Qa!Init /\ OcrIdle /\ CleanupIdle /\ SceneIdle /\ ModelsIdle /\ SlotsIdle
       /\ MoneyIdle
    \/ part = "ocr" /\ Ocr!Init /\ QaIdle /\ CleanupIdle /\ SceneIdle /\ ModelsIdle /\ SlotsIdle
       /\ MoneyIdle
    \/ part = "cleanup" /\ Cleanup!CleanupInit /\ QaIdle /\ OcrIdle /\ SceneIdle /\ ModelsIdle
       /\ SlotsIdle /\ MoneyIdle
    \/ part = "grouping" /\ Grouping!Init /\ job = "idle" /\ posted = "idle" /\ outcome = "idle"
       /\ QaIdle /\ OcrIdle /\ CleanupIdle /\ ModelsIdle /\ SlotsIdle /\ MoneyIdle
    \/ part = "models" /\ Models!Init /\ RequestIdle /\ QaIdle /\ OcrIdle /\ CleanupIdle
       /\ SceneIdle /\ SlotsIdle /\ MoneyIdle
    \/ part = "rate" /\ Rate!RateInit /\ RequestIdle /\ QaIdle /\ OcrIdle /\ CleanupIdle
       /\ SceneIdle /\ ModelsIdle /\ MoneyIdle
    \/ part = "costs" /\ Costs!CostInit /\ RequestIdle /\ QaIdle /\ OcrIdle /\ CleanupIdle
       /\ SceneIdle /\ ModelsIdle /\ SlotsIdle

Next ==
    /\ UNCHANGED part
    /\ \/ part = "qa" /\ Qa!Next
            /\ UNCHANGED <<ocrOnly, cleanupOnly, sceneOnly, modelVars, slotVars, moneyVars>>
       \/ part = "ocr" /\ Ocr!Next
            /\ UNCHANGED <<qaOnly, cleanupOnly, sceneOnly, modelVars, slotVars, moneyVars>>
       \/ part = "cleanup" /\ Cleanup!CleanupNext
            /\ UNCHANGED <<qaOnly, ocrOnly, sceneOnly, modelVars, slotVars, moneyVars>>
       \/ part = "grouping" /\ Grouping!Next
            /\ UNCHANGED <<<<job, posted, outcome>>, qaOnly, ocrOnly, cleanupOnly, modelVars, slotVars, moneyVars>>
       \/ part = "models" /\ Models!Next
            /\ UNCHANGED <<request, qaOnly, ocrOnly, cleanupOnly, sceneOnly, slotVars, moneyVars>>
       \/ part = "rate" /\ Rate!RateNext
            /\ UNCHANGED <<request, qaOnly, ocrOnly, cleanupOnly, sceneOnly, modelVars, moneyVars>>
       \/ part = "costs" /\ Costs!CostNext
            /\ UNCHANGED <<request, qaOnly, ocrOnly, cleanupOnly, sceneOnly, modelVars, slotVars>>

vars == <<part, request, qaOnly, ocrOnly, cleanupOnly, sceneOnly, modelVars, slotVars, moneyVars>>

Spec == Init /\ [][Next]_vars
-----------------------------------------------------------------------------
(* The type invariants of the parts. *)
TypeOK ==
    /\ part = "qa" => Qa!TypeOK
    /\ part = "ocr" => Ocr!TypeOK
    /\ part = "cleanup" => Cleanup!CleanupTypeOK
    /\ part = "models" => Models!TypeOK
    /\ part = "rate" => Rate!RateTypeOK
    /\ part = "costs" => Costs!CostTypeOK

(* No verdict of a QA callback is the worker's own invention (QaJob). *)
NoInventedVerdict == part = "qa" => Qa!NoInventedVerdict

(* A complete QA callback has one verdict for each translated region (QaJob). *)
CompleteCoversThePage == part = "qa" => Qa!CompleteCoversThePage

(* In hybrid no fix of a partial text pass is applied (OQ-02), and the verdict of a
   vision pass is about the pixels it was shown (QaJob). *)
HybridIsSound == part = "qa" => Qa!HybridIsSound

(* Each fragment of the engine is posted in one region (OcrJob). *)
FragmentsOnce == part = "ocr" => Ocr!FragmentsOnce

(* The callback names the models behind the texts it has (OcrJob). *)
ReadersAreNamed == part = "ocr" => Ocr!ReadersAreNamed

(* A region has the text of its own crop, in whatever order chunks end (OcrJob). *)
TextIsItsOwn == part = "ocr" => Ocr!TextIsItsOwn

(* Each region has one outcome, and an outcome with a patch has it stored (CleanupJob). *)
CleanupAccounted == part = "cleanup" => Cleanup!CleanupAccounted

(* A void attempt begins at most one more region (CleanupJob). *)
RevokedStopsSoon == part = "cleanup" => Cleanup!RevokedStopsSoon

(* The groups partition the fragments (FragmentGrouping). *)
GroupsPartition == part = "grouping" => Grouping!GroupsPartition

(* What the owner decision rejects is never one region (FragmentGrouping). *)
NoVetoedGroup == part = "grouping" => Grouping!NoVetoedGroup

(* No group covers too much of the page (FragmentGrouping). *)
NoOversizedGroup == part = "grouping" => Grouping!NoOversizedGroup

(* Stored owner decisions are about the region they are stored with (FragmentGrouping). *)
DecisionIsItsOwn == part = "grouping" => Grouping!DecisionIsItsOwn

(* A thread works with the cached copy of its reader for MODEL_TTL (ModelManager). *)
WorksWithTheCached == part = "models" => Models!WorksWithTheCached

(* The slots of a provider are 60 / rpm seconds apart (RateLimit). *)
SlotsAreApart == part = "rate" => Rate!SlotsAreApart

(* A cost report has all calls of its job and no other, and presents no partial
   total as a complete one (JobCosts). *)
ReportIsTrue == part = "costs" => Costs!ReportIsItsOwn /\ Costs!NoPartialTotal

(* A verdict that a vision model gave stands against every later one (QaJob). *)
VerdictStands ==
    [][part = "qa" /\ Qa!Mode = "vlm" =>
          \A r \in Qa!Targets : judged[r] # "none" => judged'[r] = judged[r] /\ asks'[r] = asks[r]]_vars
==============================================================================
