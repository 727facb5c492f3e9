--------------------------- MODULE TranslationJob ---------------------------
(***************************************************************************)
(* One run of process_translation (src/src/worker/handlers/translation.py) *)
(* with what it uses of src/src/worker/services/translation.py and         *)
(* layout.py: the regions of a page are sorted into targets and skipped,   *)
(* the targets are asked for in chunks by a pool of threads, what fails is *)
(* asked once more in chunks and then one by one, and the callback reports *)
(* every target.  A run that got nothing may raise, so that the job is     *)
(* tried again.                                                            *)
(*                                                                         *)
(* A text is "good" or "bad" by is_valid_translation; "none" stands for no *)
(* text.  Lists of regions are in the order of the page, so that a set of  *)
(* them says as much; a chunk is the set that one prompt asks for.         *)
(***************************************************************************)
EXTENDS Integers, FiniteSets, Sequences, SequencesExt

CONSTANTS Page,           \* the OCR regions in the order of the page
          Conversations,  \* the possible lists of conversations, each a set of regions
          MaxBatch,       \* max_batch_size
          Concurrency     \* CLOUD_CONCURRENCY

Region == ToSet(Page)

ASSUME TranslationAssumption ==
    /\ Page \in Seq(Region) /\ IsInjective(Page)
    /\ Conversations \subseteq Seq(SUBSET Region)
    /\ \A convs \in Conversations :
          \A i, j \in DOMAIN convs : i # j => convs[i] \cap convs[j] = {}
    /\ MaxBatch \in Nat \ {0} /\ Concurrency \in Nat \ {0}

VARIABLES pc,
          kind,           \* what becomes of a region: target or skipped
          conversations,
          fallbacks,      \* useFallbackModels
          pass,           \* 1: batch, 2: the retry pass, 3: one by one
          asked,          \* the regions of this pass that have no answer yet
          answers,        \* what the chunks of this pass have come to
          mapping,        \* batch_mapping or retry_mapping
          resolved,       \* resolved_translations
          reason,         \* failure_reasons
          posted,         \* the translations and skipped of the callback
          outcome,
          said,           \* ghost: the best text of the last pass for a region
          asks            \* ghost: how often a region was asked for

page == <<kind, conversations, fallbacks>>
vars == <<pc, page, pass, asked, answers, mapping, resolved, reason, posted,
          outcome, said, asks>>

Skips == {"rejected", "source-preserved", "quality-filter"}
Texts == {"good", "bad"}
Valid(text) == text = "good"   \* is_valid_translation

IsTarget(r) == kind[r] = "target"
Targets == {r \in Region : IsTarget(r)}
All(v) == [r \in Region |-> v]

(***************************************************************************)
(* chunk_regions_by_conversation: whole conversations first, then the rest *)
(* in the order of the page.  A conversation that does not fit starts a    *)
(* chunk of its own, and is not split.                                     *)
(***************************************************************************)
(* mistake: grouped_rids is not kept *)
UngroupedTwice(rs) == rs

(* The regions that no conversation has. *)
Ungrouped(rs) == {r \in rs : \A i \in DOMAIN conversations : r \notin conversations[i]}

(* What is put into chunks, one after the other. *)
Units(rs) ==
    [i \in DOMAIN conversations |-> conversations[i] \cap rs]
    \o [i \in DOMAIN Page |-> {Page[i]} \cap Ungrouped(rs)]

Fits(chunk, unit) == Cardinality(chunk) + Cardinality(unit) <= MaxBatch

Put(chunks, unit) ==
    IF unit = {} THEN chunks
    ELSE IF chunks # <<>> /\ Fits(Last(chunks), unit)
           THEN [chunks EXCEPT ![Len(chunks)] = @ \cup unit]
           ELSE Append(chunks, unit)

(* The chunks after so many units. *)
Cut(units) ==
    LET cut[n \in 0 .. Len(units)] == IF n = 0 THEN <<>> ELSE Put(cut[n - 1], units[n])
    IN  cut

Chunks(rs) == Cut(Units(rs))[Len(Units(rs))]

Init ==
    /\ pc = "fetch"
    /\ kind \in [Region -> Skips \cup {"target"}]
    /\ conversations \in Conversations
    /\ fallbacks \in BOOLEAN
    /\ pass = 0
    /\ asked = {} /\ answers = <<>>
    /\ mapping = All("none") /\ resolved = All("none") /\ reason = All("none")
    /\ posted = [translations |-> All("absent"), skipped |-> {}]
    /\ outcome = "none"
    /\ said = All("none")
    /\ asks = All(0)

Goto(l) == pc' = l

Chunk(rs, state, reply) == [regions |-> rs, state |-> state, reply |-> reply]

(* The chunks of a pass are submitted to a new pool. *)
Submit(p, rs) ==
    /\ Goto("pool")
    /\ pass' = p
    /\ asked' = rs
    /\ answers' = [i \in DOMAIN Chunks(rs) |-> Chunk(Chunks(rs)[i], "queued", All("none"))]
    /\ mapping' = All("none")

(* The page is fetched and its regions are sorted; without a target there is
   nothing to ask. *)
Fetch ==
    /\ pc = "fetch"
    /\ IF Targets = {}
         THEN Goto("post") /\ UNCHANGED <<pass, asked, answers, mapping>>
         ELSE Submit(1, Targets)
    /\ UNCHANGED <<page, resolved, reason, posted, outcome, said, asks>>

FetchFails ==
    /\ pc = "fetch"
    /\ Goto("ended")
    /\ outcome' = "raised"
    /\ UNCHANGED <<page, pass, asked, answers, mapping, resolved, reason, posted, said, asks>>

(* A thread of the pool takes the next chunk. *)
Start(i) ==
    /\ pc = "pool" /\ answers[i].state = "queued"
    /\ \A j \in 1 .. i - 1 : answers[j].state # "queued"
    /\ Cardinality({j \in DOMAIN answers : answers[j].state = "asking"}) < Concurrency
    /\ answers' = [answers EXCEPT ![i].state = "asking"]
    /\ asks' = [r \in Region |-> IF r \in answers[i].regions THEN asks[r] + 1 ELSE asks[r]]
    /\ UNCHANGED <<pc, page, pass, asked, mapping, resolved, reason, posted, outcome, said>>

(* What a chunk may be answered with: the prompt lists every target of the
   page, so a model may name any of them.  No text at all, or an exception in
   the thread, is None. *)
Replies == {f \in [Region -> Texts \cup {"none"}] : \A r \in Region : IsTarget(r) \/ f[r] = "none"}

Finish(i) ==
    /\ pc = "pool" /\ answers[i].state = "asking"
    /\ \E reply \in Replies : answers' = [answers EXCEPT ![i] = Chunk(answers[i].regions, "finished", reply)]
    /\ UNCHANGED <<pc, page, pass, asked, mapping, resolved, reason, posted, outcome, said, asks>>

(* as_completed: the finished chunks are merged one by one, a later answer
   over an earlier one. *)
Merge(i) ==
    /\ pc = "pool" /\ answers[i].state = "finished"
    /\ mapping' = [r \in Region |->
                      IF answers[i].reply[r] = "none" THEN mapping[r] ELSE answers[i].reply[r]]
    /\ answers' = [answers EXCEPT ![i] = Chunk(answers[i].regions, "merged", All("none"))]
    /\ UNCHANGED <<pc, page, pass, asked, resolved, reason, posted, outcome, said, asks>>

NoteFailure(text) == IF text = "none" THEN "unavailable" ELSE "rejected"

(* mistake: the retry pass takes the whole page *)
RetryAll == asked

Failed == {r \in asked : ~Valid(mapping[r])}

(* Every region of the pass is judged by its text; what failed goes into the
   next pass, and one by one only with the fallback models. *)
Judge ==
    /\ pc = "pool" /\ \A i \in DOMAIN answers : answers[i].state = "merged"
    /\ resolved' = [r \in Region |->
                      IF r \in asked /\ Valid(mapping[r]) THEN mapping[r] ELSE resolved[r]]
    /\ reason' = [r \in Region |->
                      IF r \in Failed THEN NoteFailure(mapping[r]) ELSE reason[r]]
    /\ said' = [r \in Region |-> IF r \in asked THEN mapping[r] ELSE said[r]]
    /\ CASE Failed # {} /\ pass = 1 ->
              Submit(2, Failed)
         [] Failed # {} /\ pass = 2 /\ fallbacks ->
              /\ Goto("singly")
              /\ pass' = 3
              /\ asked' = Failed
              /\ answers' = <<>> /\ mapping' = All("none")
         [] OTHER ->
              /\ Goto("post")
              /\ asked' = {} /\ answers' = <<>> /\ mapping' = All("none")
              /\ UNCHANGED pass
    /\ UNCHANGED <<page, posted, outcome, asks>>

(* translate_text tries its targets and returns a text only if it is valid. *)
TranslateText(text) == IF Valid(text) THEN text ELSE "none"

(* mistake: giving up notes no failure *)
KeepReason(r, text) == reason[r]

(* The reason of a region that is given up. *)
LastReason(r, text) == NoteFailure(text)

(* The first on the page of those that are left. *)
IsNext(r) ==
    \E i \in DOMAIN Page :
        Page[i] = r /\ r \in asked /\ \A j \in 1 .. i - 1 : Page[j] \notin asked

(* The next region on its own, the text being the best that the models of
   translate_text gave for it. *)
Singly ==
    /\ pc = "singly"
    /\ \E r \in asked, text \in Texts \cup {"none"} :
          LET returned == TranslateText(text)
          IN  /\ IsNext(r)
              /\ said' = [said EXCEPT ![r] = text]
              /\ resolved' = [resolved EXCEPT ![r] = IF Valid(returned) THEN returned ELSE "none"]
              /\ reason' = IF Valid(returned) THEN reason
                           ELSE [reason EXCEPT ![r] = LastReason(r, returned)]
              /\ asks' = [asks EXCEPT ![r] = @ + 1]
              /\ asked' = asked \ {r}
              /\ Goto(IF asked = {r} THEN "post" ELSE "singly")
    /\ UNCHANGED <<page, pass, answers, mapping, posted, outcome>>

(* Unlike a chunk, this call is not guarded: an exception, say of a body that
   is no JSON, ends the run before its callback. *)
SinglyFails ==
    /\ pc = "singly"
    /\ \E r \in asked : IsNext(r) /\ asks' = [asks EXCEPT ![r] = @ + 1]
    /\ Goto("ended")
    /\ outcome' = "raised"
    /\ UNCHANGED <<page, pass, asked, answers, mapping, resolved, reason, posted, said>>

(* mistake: what the quality filter took out is not listed *)
CallbackOfUnusable ==
    [translations |-> [r \in Region |-> IF kind[r] = "target" THEN resolved[r] ELSE "absent"],
     skipped |-> {r \in Region : kind[r] \in {"rejected", "source-preserved"}}]

Callback ==
    [translations |-> [r \in Region |-> IF kind[r] = "target" THEN resolved[r] ELSE "absent"],
     skipped |-> {r \in Region : kind[r] \in Skips}]

AllFailed == Targets # {} /\ \A r \in Targets : resolved[r] = "none"
Unavailable == {r \in Region : reason[r] = "unavailable" /\ resolved[r] = "none"}

(* The callback is accepted; only then the run may raise for its emptiness. *)
Post ==
    /\ pc = "post"
    /\ Goto("ended")
    /\ posted' = Callback
    /\ outcome' = IF AllFailed /\ Unavailable # {} THEN "unavailable" ELSE "completed"
    /\ UNCHANGED <<page, pass, asked, answers, mapping, resolved, reason, said, asks>>

(* requests.post has a time-out; whatever fails is raised. *)
PostFails ==
    /\ pc = "post"
    /\ Goto("ended")
    /\ outcome' = "raised"
    /\ UNCHANGED <<page, pass, asked, answers, mapping, resolved, reason, posted, said, asks>>

ThreadStep(i) == Start(i) \/ Finish(i) \/ Merge(i)

Next ==
    \/ Fetch \/ FetchFails
    \/ \E i \in DOMAIN answers : ThreadStep(i)
    \/ Judge \/ Singly \/ SinglyFails
    \/ Post \/ PostFails

Spec == Init /\ [][Next]_vars
-----------------------------------------------------------------------------
(* The type invariant. *)
TypeOK ==
    /\ pc \in {"fetch", "pool", "singly", "post", "ended"}
    /\ kind \in [Region -> Skips \cup {"target"}]
    /\ pass \in 0 .. 3
    /\ asked \subseteq Targets
    /\ \A i \in DOMAIN answers :
          /\ answers[i].regions \subseteq asked
          /\ answers[i].state \in {"queued", "asking", "finished", "merged"}
          /\ answers[i].reply \in Replies
    /\ mapping \in Replies
    /\ resolved \in [Region -> {"good", "none"}]
    /\ reason \in [Region -> {"none", "rejected", "unavailable"}]
    /\ outcome \in {"none", "completed", "unavailable", "raised"}
    /\ said \in [Region -> Texts \cup {"none"}]
    /\ asks \in [Region -> Nat]

(* However the chunks fall and in whatever order they are merged, a pass asks
   for each of its regions in exactly one chunk: three asks are the most. *)
AskedOncePerPass ==
    /\ \A r \in Region : asks[r] <= pass
    /\ pc = "pool" /\ (\A i \in DOMAIN answers : answers[i].state = "merged")
          => \A r \in asked : asks[r] = pass

(* A valid text is final: no later pass asks for the region again and nothing
   takes its text away. *)
AcceptedStays ==
    [][\A r \in Region : resolved[r] = "good" => resolved'[r] = "good" /\ asks'[r] = asks[r]]_vars

(* The callback accounts for every region of the page once, as a translation
   or as skipped, and a target that the last pass to ask for it gave a valid
   text carries that text. *)
EveryRegionAccounted ==
    outcome \in {"completed", "unavailable"} =>
        \A r \in Region :
            /\ r \in posted.skipped <=> posted.translations[r] = "absent"
            /\ r \notin posted.skipped =>
                  posted.translations[r] = IF Valid(said[r]) THEN "good" ELSE "none"

(* test_a_page_that_got_no_answer_at_all_still_raises_for_retry: a run with
   nothing to show completes only if every target was answered, however badly,
   when it was last asked for. *)
SilenceIsRetried ==
    outcome = "completed" /\ AllFailed => \A r \in Targets : said[r] = "bad"

(* The other half, test_a_page_whose_text_is_rejected_finishes_instead_of_raising:
   a run raises for emptiness only if some target got no answer. *)
RejectedIsNotRetried ==
    outcome = "unavailable" => \E r \in Targets : said[r] = "none"
=============================================================================
