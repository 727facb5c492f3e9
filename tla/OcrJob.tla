------------------------------- MODULE OcrJob --------------------------------
(***************************************************************************)
(* One run of process_ocr (src/src/worker/handlers/ocr.py): the local      *)
(* engine finds fragments of text and YOLO finds balloons, the fragments   *)
(* of each balloon and of each panel are grouped into candidates, and the  *)
(* regions of the callback are the candidates that have a text.  The text  *)
(* is the engine's own, or a vision model reads a crop of each candidate,  *)
(* in chunks that one thread works through.                                *)
(*                                                                         *)
(* What pixels decide is a choice: which fragments there are, which        *)
(* balloon covers one, how they group, whether a contour can be cut.  The  *)
(* grouping is in FragmentGrouping; here it is any partition.              *)
(***************************************************************************)
EXTENDS Integers, FiniteSets, Sequences, SequencesExt

CONSTANTS Fragment,
          Balloons,       \* the balloons YOLO may find, in the order it lists them
          Place,          \* where a fragment is: <<panel or "none", side of the gutter>>
          Jobs,           \* the job data and the configuration that may meet
          ConfigModel,    \* OCR_CONFIG.vlm_model, "none" if unset
          ChunkSize       \* crops in one request, 10

OcrAssumption ==
    /\ IsFiniteSet(Fragment)
    /\ Balloons \in Seq(ToSet(Balloons)) /\ IsInjective(Balloons)
    /\ ToSet(Balloons) \cap {"none", "loose", "unseen"} = {}
    /\ ChunkSize \in Nat \ {0} /\ Place # {}

VARIABLES pc,
          job,
          yolo,           \* is_yolo_active
          home,           \* the balloon that covers a fragment, "loose" or "unseen"
          blank,          \* the fragments the engine has no text for
          place,
          todo,           \* the balloons, then the partitions, still to be grouped
          merged,         \* merged_unmatched
          candidates,     \* candidate_regions
          crops,          \* the candidates in crops_payload
          texts,          \* the text of each candidate
          replies,        \* what the thread has come to for each chunk
          merging,        \* the chunks that are finished and not merged
          used,           \* vlm_models_used
          posted,
          outcome,
          origin          \* ghost: the crop and the model behind each transcription

vars == <<pc, job, yolo, home, blank, place, todo, merged, candidates, crops, texts, replies,
          merging, used, posted, outcome, origin>>

Readings == {"text", "unfit", "null"}    \* unfit: empty, or a refusal; null: not a string
Nowhere == [regions |-> {}, models |-> {}]
NoOrigin == [crop |-> 0, by |-> "engine"]

Partitions(S) ==
    {P \in SUBSET ((SUBSET S) \ {{}}) : UNION P = S /\ \A A, B \in P : A = B \/ A \cap B = {}}

Seen == {f \in Fragment : home[f] # "unseen"}
Assigned(b) == {f \in Fragment : home[f] = b}
UseLocalOcr == job.reader = "engine"

Goto(l) == pc' = l
End(o) == pc' = "ended" /\ outcome' = o
pageVars == <<job, yolo, home, blank, place>>
Reading == <<crops, replies, merging, used, origin>>
-----------------------------------------------------------------------------
Init ==
    /\ pc = "fetch"
    /\ job \in Jobs
    /\ yolo = FALSE
    /\ home = [f \in Fragment |-> "unseen"] /\ blank = {}
    /\ place = [f \in Fragment |-> CHOOSE p \in Place : TRUE]
    /\ todo = <<>> /\ merged = <<>> /\ candidates = <<>> /\ texts = <<>>
    /\ crops = {} /\ replies = <<>> /\ merging = {} /\ used = <<>> /\ origin = <<>>
    /\ posted = Nowhere /\ outcome = "none"

(* The image and its panels are fetched, and its pixels downloaded. *)
Fetch ==
    /\ pc = "fetch"
    /\ Goto("detect")
    /\ UNCHANGED <<pageVars, todo, merged, candidates, texts, Reading, posted, outcome>>

(* A status other than 200: the run returns as if it had been done. *)
FetchRefused ==
    /\ pc = "fetch"
    /\ End("completed")
    /\ UNCHANGED <<pageVars, todo, merged, candidates, texts, Reading, posted>>

(* The section under the lock "ocr": the engine reads, or only detects, and YOLO
   looks for balloons.  Of the balloons that overlap a fragment the best counts,
   and only if it covers the fragment.  An image that cannot be decoded has
   neither fragments nor balloons; without YOLO every fragment is loose. *)
Detect ==
    /\ pc = "detect"
    /\ Goto("balloons")
    /\ \E there \in SUBSET Fragment :
          /\ yolo' \in BOOLEAN
          /\ home' \in [Fragment -> {"loose", "unseen"} \cup IF yolo' THEN ToSet(Balloons) ELSE {}]
          /\ \A f \in Fragment : home'[f] = "unseen" <=> f \notin there
          /\ place' \in [Fragment -> Place]
          /\ \A f \in Fragment \ there : place'[f] = place[f]
          /\ IF UseLocalOcr THEN blank' \in SUBSET there ELSE blank' = there
          /\ todo' = IF yolo' THEN Balloons ELSE <<>>
    /\ UNCHANGED <<job, merged, candidates, texts, Reading, posted, outcome>>

(* Where the polygon of a group comes from: it is the balloon's own if the group is
   alone in it, otherwise what get_split_polygon cuts out around the group, or none
   if it finds no contour there.  How far a part that is cut out reaches, and
   whether it touches the neighbour's, the pixels decide: "split" promises nothing
   of that, and no property is about it. *)
Containers(groups) == IF Cardinality(groups) = 1 THEN {"whole"} ELSE {"split", "review"}

Candidate(fragments, b, c) == [fragments |-> fragments, balloon |-> b, container |-> c]

(* One balloon.  A vision model also reads balloons without a fragment. *)
GroupBalloon ==
    /\ pc = "balloons" /\ todo # <<>>
    /\ todo' = Tail(todo)
    /\ LET b == Head(todo)
       IN  IF Assigned(b) = {}
             THEN candidates' = IF UseLocalOcr THEN candidates
                                ELSE Append(candidates, Candidate({}, b, "whole"))
             ELSE \E groups \in Partitions(Assigned(b)) : \E got \in [groups -> Containers(groups)] :
                     LET Of(g) == Candidate(g, b, got[g])
                     IN  candidates' = candidates \o SetToSeq({Of(g) : g \in groups})
    /\ UNCHANGED <<pc, pageVars, merged, texts, Reading, posted, outcome>>

(* partition_unmatched_fragments_by_panel and split_fragments_at_gutter: the
   smallest panel around a fragment, and the page of the spread.  Without YOLO
   (group_fallback_regions) the panels do not count. *)
Partition(f) == IF yolo THEN place[f] ELSE <<"none", place[f][2]>>

BalloonsDone ==
    /\ pc = "balloons" /\ todo = <<>>
    /\ Goto("loose")
    /\ todo' = SetToSeq({Partition(f) : f \in Assigned("loose")})
    /\ UNCHANGED <<pageVars, merged, candidates, texts, Reading, posted, outcome>>

(* mistake: each partition emits all that was merged before it once more *)
GatherAgain(sofar, new) == sofar \o sofar \o new

Gather(sofar, new) == sofar \o new

(* One partition of the loose fragments.  With YOLO a group has its own contour
   or box; without, a fragment may have a contour, and a group of several keeps
   it only if they share it (resolve_component_container). *)
GroupLoose ==
    /\ pc = "loose" /\ todo # <<>>
    /\ todo' = Tail(todo)
    /\ LET here == {f \in Assigned("loose") : Partition(f) = Head(todo)}
       IN  \E groups \in Partitions(here) :
           \E got \in [groups -> IF yolo THEN {"own"} ELSE {"own", "review"}] :
              LET Of(g) == Candidate(g, "none", got[g])
              IN  merged' = Gather(merged, SetToSeq({Of(g) : g \in groups}))
    /\ UNCHANGED <<pc, pageVars, candidates, texts, Reading, posted, outcome>>

(* The engine's text of a candidate. *)
OwnText(c) == IF c.fragments \subseteq blank THEN "unfit" ELSE "text"

(* After the last partition, its groups become candidates.  A vision model is
   to read all of them, but not when YOLO failed, and not one whose box has no
   pixel in the image. *)
Gathered ==
    /\ pc = "loose" /\ todo = <<>>
    /\ candidates' = candidates \o merged
    /\ LET read == yolo /\ ~UseLocalOcr
       IN  /\ texts' = [i \in DOMAIN candidates' |-> IF read THEN "unfit" ELSE OwnText(candidates'[i])]
           /\ origin' = [i \in DOMAIN candidates' |-> NoOrigin]
           /\ crops' \in SUBSET (IF read THEN DOMAIN candidates' ELSE {})
           /\ Goto(IF read THEN "read" ELSE "order")
    /\ UNCHANGED <<pageVars, todo, merged, replies, merging, used, posted, outcome>>
-----------------------------------------------------------------------------
(***************************************************************************)
(* The vision model.                                                       *)
(***************************************************************************)
First(a, b) == IF a # "none" THEN a ELSE b     \* a or b
Nth(c) == Cardinality({d \in crops : d <= c})   \* its place in crops_payload
Chunks == (Cardinality(crops) + ChunkSize - 1) \div ChunkSize
InChunk(k) == {c \in crops : (Nth(c) + ChunkSize - 1) \div ChunkSize = k}

(* mistake: the crops are numbered within their chunk *)
IdInChunk(c) == ((Nth(c) - 1) % ChunkSize) + 1

Id(c) == c                                     \* region_{cr_idx}

UserModel == First(job.model, First(ConfigModel, "default"))

(* The global model is asked when the user's gave no result, if it is another
   one of the same provider. *)
CloudModels ==
    {UserModel} \cup (IF job.fallbacks /\ job.sameProvider THEN {ConfigModel} \ {"none"} ELSE {})

(* mistake: only the last model to finish is remembered *)
UseLast(models, model) == <<model>>

(* vlm_models_used.append *)
Use(models, model) == IF model \in ToSet(models) THEN models ELSE Append(models, model)

Reply(k, said, stray, whole, by) ==
    /\ replies' = Append(replies, [said |-> said, stray |-> stray, whole |-> whole, by |-> by])
    /\ merging' = merging \cup {k}
    /\ UNCHANGED <<pc, pageVars, todo, merged, candidates, crops, texts, origin, posted, outcome>>

Taken == [said |-> <<>>, stray |-> 0, whole |-> TRUE, by |-> "nobody"]
Due(k) == pc = "read" /\ k = Len(replies) + 1 /\ k <= Chunks
Nothing(k) == [c \in InChunk(k) |-> "none"]

(* No model, no answer of any, or one that is no JSON: an exception skips the
   global model, and the chunk stays empty. *)
ChunkSilent(k) ==
    /\ Due(k)
    /\ Reply(k, Nothing(k), 0, TRUE, "nobody")
    /\ UNCHANGED used

(* A cloud model answers for the crops it likes, possibly for one of another
   chunk, and possibly with an item that cannot be used ("whole" is FALSE). *)
ChunkRead(k) ==
    /\ Due(k) /\ job.reader = "cloud"
    /\ \E by \in CloudModels, said \in [InChunk(k) -> Readings \cup {"none"}],
          stray \in 0 .. Len(candidates), whole \in BOOLEAN :
         /\ said # Nothing(k) \/ stray # 0 \/ ~whole
         /\ Reply(k, said, stray, whole, by)
         /\ used' = Use(used, by)

(* A local model reads crop by crop.  A reply that is not the JSON it was asked
   for is taken for the text; if all of them are so, the model is not noted.  The
   confidence of one that is JSON may be unusable. *)
CropsRead(k) ==
    /\ Due(k) /\ job.reader = "local"
    /\ \E said \in [InChunk(k) -> Readings \cup {"none"}], plain, whole \in BOOLEAN :
         /\ said # Nothing(k)
         /\ plain => whole /\ \A c \in InChunk(k) : said[c] # "null"
         /\ Reply(k, said, 0, whole, IF plain THEN "unnamed" ELSE "local")
         /\ used' = IF plain THEN used ELSE Use(used, "local")

(* future.result() of a finished chunk, in any order: the last word about a
   region counts.  An item that cannot be used raises. *)
MergeChunk(k) ==
    /\ pc = "read" /\ k \in merging
    /\ merging' = merging \ {k}
    /\ replies' = [replies EXCEPT ![k] = Taken]
    /\ LET r == replies[k]
           About(c) == {i \in DOMAIN r.said : Id(i) = c /\ r.said[i] # "none"}
           Saw(c) == CHOOSE i \in About(c) : TRUE
       IN  IF r.whole
             THEN /\ texts' = [c \in DOMAIN texts |->
                        IF r.stray = c THEN "text"
                        ELSE IF About(c) # {} THEN r.said[Saw(c)] ELSE texts[c]]
                  /\ origin' = [c \in DOMAIN texts |->
                        IF r.stray = c THEN [crop |-> 0, by |-> r.by]
                        ELSE IF About(c) # {} THEN [crop |-> Saw(c), by |-> r.by]
                        ELSE origin[c]]
                  /\ UNCHANGED <<pc, outcome>>
             ELSE End("raised") /\ UNCHANGED <<texts, origin>>
    /\ UNCHANGED <<pageVars, todo, merged, candidates, crops, used, posted>>

(* The regions are made of the transcriptions, and a candidate without one has no
   text.  A text that is null has no strip(), which raises. *)
ChunksDone ==
    /\ pc = "read" /\ Len(replies) = Chunks /\ merging = {}
    /\ IF \E c \in DOMAIN texts : texts[c] = "null"
         THEN End("raised")
         ELSE Goto("order") /\ UNCHANGED outcome
    /\ UNCHANGED <<pageVars, todo, merged, candidates, texts, Reading, posted>>
-----------------------------------------------------------------------------
(* Only the path with balloons drops a candidate without a text; a refusal
   (is_valid_ocr_text) is none. *)
Kept(i) == texts[i] = "text" \/ ~yolo

(* The panel that overlaps a region most is that of one of its fragments. *)
PanelOf(i) ==
    IF candidates[i].fragments = {} THEN "none"
    ELSE place[CHOOSE f \in candidates[i].fragments : TRUE][1]

(* The regions of a panel are counted from 1, and so are those without one. *)
Ordered ==
    LET kept == {i \in DOMAIN candidates : Kept(i)}
        Before(i) == {j \in kept : PanelOf(j) = PanelOf(i) /\ j <= i}
    IN  {[index |-> i, panel |-> PanelOf(i), order |-> Cardinality(Before(i)),
          cleanupEligible |-> candidates[i].container # "review"] : i \in kept}

(* The callback is put together: every model that was noted is named. *)
Order ==
    /\ pc = "order"
    /\ Goto("post")
    /\ posted' = [regions |-> Ordered, models |-> ToSet(used)]
    /\ UNCHANGED <<pageVars, todo, merged, candidates, texts, Reading, outcome>>

Post ==
    /\ pc = "post"
    /\ End("completed")
    /\ UNCHANGED <<pageVars, todo, merged, candidates, texts, Reading, posted>>

(* Everything else that goes wrong is raised: the requests, the lock, a model
   that does not load, the engine, what is done with the pixels for a contour or a
   cover (get_split_polygon logs and raises again), and the callback. *)
Raises ==
    /\ pc \in {"fetch", "detect", "balloons", "loose", "order", "post"}
    /\ End("raised")
    /\ UNCHANGED <<pageVars, todo, merged, candidates, texts, Reading, posted>>

Next ==
    \/ Fetch \/ FetchRefused \/ Detect
    \/ GroupBalloon \/ BalloonsDone \/ GroupLoose \/ Gathered
    \/ \E k \in 1 .. Chunks : ChunkSilent(k) \/ ChunkRead(k) \/ CropsRead(k) \/ MergeChunk(k)
    \/ ChunksDone \/ Order \/ Post \/ Raises

Spec == Init /\ [][Next]_vars
-----------------------------------------------------------------------------
(* The type invariant. *)
TypeOK ==
    /\ pc \in {"fetch", "detect", "balloons", "loose", "read", "order", "post", "ended"}
    /\ job \in Jobs /\ yolo \in BOOLEAN
    /\ home \in [Fragment -> ToSet(Balloons) \cup {"loose", "unseen"}]
    /\ blank \subseteq Seen /\ place \in [Fragment -> Place]
    /\ \A i \in DOMAIN candidates : candidates[i].fragments \subseteq Seen
    /\ DOMAIN texts = DOMAIN origin /\ crops \subseteq DOMAIN candidates
    /\ Len(replies) <= Chunks /\ merging \subseteq DOMAIN replies
    /\ outcome \in {"none", "completed", "raised"}

Posted == {r.index : r \in posted.regions}
With(f) == {r \in posted.regions : f \in candidates[r.index].fragments}

(* What the engine found is posted once: no fragment is in two regions, and on
   the local path (or without YOLO) each one with a text is in a region.  This is
   the comment above the loop over merged_unmatched: 214 regions for 63 boxes. *)
FragmentsOnce ==
    pc = "post" =>
        \A f \in Seen : /\ Cardinality(With(f)) <= 1
                        /\ (UseLocalOcr /\ f \notin blank) \/ ~yolo => Cardinality(With(f)) = 1

(* Whatever the order in which chunks come back, the text of a region is the one
   that was read off its own crop, unless a model named a crop it was not shown. *)
TextIsItsOwn ==
    pc = "post" => \A i \in Posted : origin[i].crop \in {0, i}

(* "Name every distinct model that read part of the page, not just the last one to
   finish": the callback names the model behind each text that is posted, over all
   chunks, whichever of the models answered for it; but not a local model that gave
   no JSON for any crop of the chunk, which the code does not note. *)
ReadersAreNamed ==
    pc = "post" => \A i \in Posted : origin[i].by \in posted.models \cup {"engine", "unnamed"}
=============================================================================
