-------------------------------- MODULE QaJob --------------------------------
(***************************************************************************)
(* One run of process_qa (src/src/worker/handlers/qa.py): the page is      *)
(* fetched, models are asked for a verdict on each translated region and   *)
(* for the kind of each uncertain one, and the callback carries the        *)
(* verdicts, which regions they were to cover, whether they cover them     *)
(* exactly, and which render of the page was judged.                       *)
(*                                                                         *)
(* There are four ways through it.  A bypass states a pass for everything. *)
(* In "llm" the first model that replies is taken at its word, in "vlm"    *)
(* each further model is asked for what the ones before it left open, and  *)
(* "hybrid" is a text pass whose fixes the backend applies before a vision *)
(* pass looks at the page again.                                           *)
(*                                                                         *)
(* A region is named by its id: the numbers of the prompt and the spelling *)
(* of the keys are resolved by _normalize_qa_items.  A verdict is "passed" *)
(* or "wrong", which stands for the three other statuses.                  *)
(***************************************************************************)
EXTENDS Integers, FiniteSets, Sequences, SequencesExt

CONSTANTS Region,
          Jobs,           \* the job data and the environment that may meet
          ConfigVlm,      \* QA_CONFIG.vlm_model, "none" if unset
          ConfigLlm,      \* QA_CONFIG.llm_model
          Spares,         \* QA_VLM_FALLBACK_MODELS
          MaxEdits        \* how often the page is edited while it is judged

(* What the proofs take for granted. *)
QaAssumption == MaxEdits \in Nat /\ Spares \in Seq(STRING)

VARIABLES pc,
          job,
          page,           \* the backend's regions
          revision,       \* the backend's revision of the page
          pass,           \* 1, and 2 for the vision pass of hybrid
          provider,       \* what the text pass of hybrid settled on
          legs,           \* the models still to be asked
          heard,          \* a model replied
          judged,         \* the verdicts so far
          stray,          \* the reply had an item that names no region of the page
          checked,        \* what the uncertain regions are said to be
          shown,          \* the revision of the pixels that are judged
          prepared,       \* the verdicts posted to qa-hybrid-prepare
          posted,         \* the callback
          outcome,
          said,           \* ghost: every verdict a model gave in this pass
          asks            \* ghost: how many models were asked about a region in this pass

vars == <<pc, job, page, revision, pass, provider, legs, heard, judged, stray,
          checked, shown, prepared, posted, outcome, said, asks>>

Verdicts == {"passed", "wrong"}                     \* VALID_QA_STATUSES
Looks == {"absent", "target", "plain", "uncertain", "rejected"}
All(v) == [r \in Region |-> v]
Nothing == [to |-> "nobody", results |-> All("none"), checks |-> All("none"),
            targets |-> {}, complete |-> FALSE, pixels |-> -1]

(* _translation_qa_regions: translated, not settled, not preserved. *)
Targets == {r \in Region : page[r] = "target"}
Uncertain == {r \in Region : page[r] = "uncertain"}
Present == {r \in Region : page[r] # "absent"}

(***************************************************************************)
(* What a model says.  A reply that is no JSON is "garbage"; any other     *)
(* names regions of the page, each not at all, once or "twice", with a     *)
(* status that may be none of ours ("bad"), and possibly something else.   *)
(***************************************************************************)
Unusable == {"bad", "twice"}
Answers == {f \in [Region -> Verdicts \cup Unusable \cup {"none"}] :
               \A r \in Region \ Present : f[r] = "none"}
Checks == {f \in [Region -> {"kind", "bad", "none"}] : \A r \in Region \ Uncertain : f[r] = "none"}

(* _unique_by_region *)
UniqueByRegion(answers) == [r \in Region |-> IF answers[r] = "twice" THEN "none" ELSE answers[r]]

(* mistake: a truncated reply is as good as a whole one *)
IntegrityOfWhatCame(answers, other, targets) ==
    ~other /\ \A r \in Region : answers[r] # "none" => r \in targets /\ answers[r] \in Verdicts

(* _qa_response_integrity: exactly one verdict for each target. *)
Complete(answers, other, targets) ==
    /\ ~other
    /\ \A r \in targets : answers[r] \in Verdicts
    /\ \A r \in Region \ targets : answers[r] = "none"

(* _sanitize_qa_results: an unknown region is dropped, unless none is known. *)
Sanitize(answers, known) ==
    [r \in Region |-> IF answers[r] # "bad" /\ (known # {} => r \in known) THEN answers[r] ELSE "none"]
-----------------------------------------------------------------------------
(***************************************************************************)
(* Who is asked, in which order.                                           *)
(***************************************************************************)
First(a, b) == IF a # "none" THEN a ELSE b     \* a or b

(* The models of a chain, each once and in its place; "none" is no model. *)
Once(chain) ==
    LET once[n \in 0 .. Len(chain)] ==
            IF n = 0 THEN <<>>
            ELSE IF chain[n] \in {"none"} \cup ToSet(once[n - 1]) THEN once[n - 1]
            ELSE Append(once[n - 1], chain[n])
    IN  once[Len(chain)]

LocalModel == IF job.localModel THEN <<"local">> ELSE <<>>

(* The user's model, or the configured one, or the default of the provider;
   then the configured one if it belongs to the same provider.  There is no
   key for a local provider. *)
UserThenGlobal(user, global) ==
    LET chosen == First(First(user, global), "default")
    IN  IF provider \in {"none", "ollama"} THEN <<>>
        ELSE Once(<<chosen, IF job.fallbacks /\ provider = "configured" THEN global ELSE "none">>)

LlmChain == IF provider = "ollama" THEN LocalModel ELSE UserThenGlobal(job.llm, ConfigLlm)

(* _qa_vlm_model_chain: a primary that is not configured stands for the
   default of the provider. *)
VlmChain ==
    LET primary == First(First(job.vlm, ConfigVlm), "default")
        others == IF job.fallbacks /\ provider = "configured" THEN <<ConfigVlm>> \o Spares ELSE <<>>
    IN  IF provider = "none" THEN <<>>
        ELSE IF provider = "ollama" THEN LocalModel
        ELSE Once(<<primary>> \o others)

(* In hybrid a local model follows unless local models are disabled. *)
HybridChain(p) ==
    UserThenGlobal(IF p = 1 THEN job.llm ELSE job.vlm, IF p = 1 THEN ConfigLlm ELSE ConfigVlm)
    \o (IF (p = 1 => Targets # {}) /\ (provider = "ollama" \/ ~job.localDisabled)
          THEN LocalModel ELSE <<>>)

(* process_qa: "auto" takes the best that is configured. *)
ResolvedMode ==
    IF job.mode # "auto" THEN job.mode
    ELSE IF job.provider # "none" /\ First(job.vlm, ConfigVlm) # "none" THEN "vlm"
    ELSE IF job.provider # "none" /\ First(job.llm, ConfigLlm) # "none" THEN "llm"
    ELSE "none"

Mode == IF job.again THEN "none" ELSE ResolvedMode
-----------------------------------------------------------------------------
Init ==
    /\ pc = "fetch"
    /\ job \in Jobs
    /\ page \in [Region -> Looks]
    /\ revision = 0 /\ shown = -1
    /\ pass = 1 /\ provider = job.provider
    /\ legs = <<>> /\ heard = FALSE
    /\ judged = All("none") /\ stray = FALSE /\ checked = All("none")
    /\ prepared = All("none")
    /\ posted = Nothing
    /\ outcome = "none"
    /\ said = All({}) /\ asks = All(0)

Goto(l) == pc' = l
End(o) == pc' = "ended" /\ outcome' = o
Clean ==
    /\ judged' = All("none") /\ stray' = FALSE /\ checked' = All("none")
    /\ said' = All({}) /\ asks' = All(0)

(* What a bypass states: settled and hidden regions keep their state. *)
Passed == [r \in Region |-> IF page[r] \in {"target", "plain"} THEN "passed" ELSE "none"]

(* A page without regions: there is nothing to ask about, and _auto_pass_all is
   called, which fetches the page once more. *)
NothingToAsk ==
    /\ pc \in {"fetch", "refetch"} /\ Mode \in {"llm", "vlm", "hybrid"} /\ Present = {}
    /\ Goto("bypass")
    /\ UNCHANGED <<job, page, revision, pass, provider, legs, heard, judged, stray, checked,
                   shown, prepared, posted, outcome, said, asks>>

(* _auto_pass_all, with its own GET. *)
Bypass ==
    /\ (pc = "fetch" /\ Mode \notin {"llm", "vlm", "hybrid"}) \/ pc = "bypass"
    /\ Goto("post")
    /\ posted' = [Nothing EXCEPT
                    !.to = "bypass", !.results = Passed,
                    !.targets = {r \in Region : Passed[r] # "none"},
                    !.complete = Complete(Passed, FALSE, {r \in Region : Passed[r] # "none"}),
                    !.pixels = IF job.artifact THEN 0 ELSE -1]
    /\ UNCHANGED <<job, page, revision, pass, provider, legs, heard, judged, stray, checked,
                   shown, prepared, outcome, said, asks>>

(* The regions of the page are there, and with them who is to be asked.  In
   the text pass no provider is asked about a page without targets. *)
Fetch ==
    /\ pc = "fetch" /\ Mode \in {"llm", "vlm", "hybrid"} /\ Present # {}
    /\ provider' = IF Mode = "vlm" \/ Targets # {} THEN job.provider ELSE "none"
    /\ Goto(IF Mode = "vlm" THEN "view" ELSE "chain")
    /\ UNCHANGED <<job, page, revision, pass, legs, heard, judged, stray, checked, shown,
                   prepared, posted, outcome, said, asks>>

(* A status other than 200: the run returns as if it had been done. *)
FetchRefused ==
    /\ pc \in {"fetch", "refetch", "bypass"}
    /\ End("completed")
    /\ UNCHANGED <<job, page, revision, pass, provider, legs, heard, judged, stray, checked,
                   shown, prepared, posted, said, asks>>

(* The original is downloaded, and the render the job is bound to is read and
   verified. *)
View ==
    /\ pc = "view" /\ job.artifact
    /\ Goto("chain")
    /\ shown' = 0
    /\ UNCHANGED <<job, page, revision, pass, provider, legs, heard, judged, stray, checked,
                   prepared, posted, outcome, said, asks>>

Chain ==
    /\ pc = "chain"
    /\ Goto("ask")
    /\ legs' = IF Mode = "vlm" THEN VlmChain ELSE IF Mode = "llm" THEN LlmChain ELSE HybridChain(pass)
    /\ heard' = FALSE
    /\ UNCHANGED <<job, page, revision, pass, provider, judged, stray, checked, shown, prepared,
                   posted, outcome, said, asks>>

(* What the next model is asked about. *)
Due ==
    IF Mode = "vlm"
      THEN {r \in Targets : judged[r] = "none"} \cup {r \in Uncertain : checked[r] = "none"}
      ELSE IF pass = 2 THEN Targets \cup Uncertain ELSE Targets

Asking == pc = "ask" /\ legs # <<>> /\ (IF Mode = "vlm" THEN Due # {} ELSE ~heard)

Asked ==
    /\ legs' = Tail(legs)
    /\ asks' = [r \in Region |-> IF r \in Due THEN asks[r] + 1 ELSE asks[r]]
    /\ UNCHANGED <<pc, job, page, revision, pass, provider, shown, prepared, posted, outcome>>

(* No text, an exception, or no key: None. *)
NoReply ==
    /\ Asking
    /\ Asked
    /\ UNCHANGED <<heard, judged, stray, checked, said>>

(* A text that is no JSON: only "vlm" goes on to the next model. *)
Garbage ==
    /\ Asking
    /\ Asked
    /\ heard' = TRUE
    /\ UNCHANGED <<judged, stray, checked, said>>

(* mistake: the last word counts *)
LastWord(old, new) == [r \in Region |-> IF new[r] # "none" THEN new[r] ELSE old[r]]

(* judged.setdefault *)
SetDefault(old, new) == [r \in Region |-> IF old[r] # "none" THEN old[r] ELSE new[r]]

Recognised(checks) == [r \in Region |-> IF checks[r] = "kind" THEN "kind" ELSE "none"]

Reply ==
    /\ Asking
    /\ Asked
    /\ heard' = TRUE
    /\ \E answers \in Answers, other \in BOOLEAN,
          checks \in IF Mode = "vlm" \/ pass = 2 THEN Checks ELSE {All("none")} :
         /\ said' = [r \in Region |-> said[r] \cup ({answers[r]} \cap (Verdicts \cup {"twice"}))]
         /\ IF Mode = "vlm"
              THEN /\ judged' = SetDefault(judged, [r \in Region |->
                          IF r \in Targets THEN Sanitize(UniqueByRegion(answers), Due \cap Targets)[r]
                          ELSE "none"])
                   /\ checked' = SetDefault(checked, Recognised(checks))
                   /\ UNCHANGED stray
              ELSE /\ judged' = answers
                   /\ checked' = Recognised(checks)
                   /\ stray' = other

Settled == pc = "ask" /\ ~Asking

(* mistake: what the partial text pass found is applied *)
FixesOfAny == Sanitize(judged, Targets)

(* The fixes of the text pass, none if it did not cover its targets (OQ-02). *)
Fixes == IF Complete(judged, stray, Targets) THEN Sanitize(judged, Targets) ELSE All("none")

(* The POST to qa-hybrid-prepare: the backend applies the fixes, which may
   take a region off the page, and the render that it returns is drawn. *)
Prepare ==
    /\ Settled /\ Mode = "hybrid" /\ pass = 1
    /\ prepared' = Fixes
    /\ \E after \in [Region -> Looks] :
          /\ \A r \in Region : after[r] = page[r] \/ (Fixes[r] = "wrong" /\ after[r] = "rejected")
          /\ page' = after
    /\ revision' = revision + 1
    /\ shown' = revision + 1
    /\ pass' = 2
    /\ Clean
    /\ Goto("refetch")
    /\ UNCHANGED <<job, provider, legs, heard, posted, outcome>>

(* 204, the image has no page: the run returns. *)
NoPage ==
    /\ Settled /\ Mode = "hybrid" /\ pass = 1
    /\ prepared' = Fixes
    /\ End("completed")
    /\ UNCHANGED <<job, page, revision, pass, provider, legs, heard, judged, stray, checked,
                   shown, posted, said, asks>>

Refetch ==
    /\ pc = "refetch" /\ Present # {}
    /\ Goto("chain")
    /\ UNCHANGED <<job, page, revision, pass, provider, legs, heard, judged, stray, checked,
                   shown, prepared, posted, outcome, said, asks>>

(* The page is edited while it is judged. *)
Edit ==
    /\ pc \in {"refetch", "bypass", "chain", "ask", "post"} /\ revision < pass - 1 + MaxEdits
    /\ revision' = revision + 1
    /\ UNCHANGED <<pc, job, page, pass, provider, legs, heard, judged, stray, checked, shown,
                   prepared, posted, outcome, said, asks>>

(* _judged_artifact: the render of the job, or the one hybrid has drawn. *)
JudgedArtifact == IF Mode = "hybrid" THEN shown ELSE 0

(* mistake: without a verdict the page is passed *)
PassWithoutVerdict ==
    IF Sanitize(judged, Targets) = All("none") THEN Passed ELSE Sanitize(judged, Targets)

Verdict == Sanitize(judged, Targets)

(* The callback is put together; a text pass that was bound to no render finds
   out only now. *)
Account ==
    /\ Settled /\ (IF Mode = "hybrid" THEN pass = 2 ELSE job.artifact)
    /\ Goto("post")
    /\ posted' = [to |-> "qa", results |-> Verdict,
                  checks |-> checked,
                  targets |-> Targets, complete |-> Complete(judged, stray, Targets),
                  pixels |-> JudgedArtifact]
    /\ UNCHANGED <<job, page, revision, pass, provider, legs, heard, judged, stray, checked,
                   shown, prepared, outcome, said, asks>>

Post ==
    /\ pc = "post"
    /\ End("completed")
    /\ UNCHANGED <<job, page, revision, pass, provider, legs, heard, judged, stray, checked,
                   shown, prepared, posted, said, asks>>

(* Everything else that goes wrong is raised: a GET, a download, a render that
   is not the one bound to the job, the prepare step, the drawing, the callback. *)
Raises ==
    /\ pc \in {"fetch", "view", "refetch", "bypass", "post"} \/ Settled
    /\ Settled => IF Mode = "hybrid" THEN pass = 1 ELSE ~job.artifact
    /\ End("raised")
    /\ UNCHANGED <<job, page, revision, pass, provider, legs, heard, judged, stray, checked,
                   shown, prepared, posted, said, asks>>

Next ==
    \/ NothingToAsk \/ Bypass \/ Fetch \/ FetchRefused \/ View \/ Chain
    \/ NoReply \/ Garbage \/ Reply
    \/ Prepare \/ NoPage \/ Refetch \/ Edit
    \/ Account \/ Post \/ Raises

Spec == Init /\ [][Next]_vars
-----------------------------------------------------------------------------
(* The type invariant. *)
TypeOK ==
    /\ pc \in {"fetch", "bypass", "view", "chain", "ask", "refetch", "post", "ended"}
    /\ job \in Jobs /\ page \in [Region -> Looks]
    /\ revision \in 0 .. MaxEdits + 1 /\ shown \in -1 .. revision
    /\ pass \in 1 .. 2 /\ provider \in {job.provider, "none"}
    /\ ToSet(legs) \subseteq {job.vlm, job.llm, ConfigVlm, ConfigLlm, "default", "local"} \cup ToSet(Spares)
    /\ judged \in [Region -> Verdicts \cup Unusable \cup {"none"}] /\ checked \in Checks
    /\ heard \in BOOLEAN /\ stray \in BOOLEAN
    /\ prepared \in [Region -> Verdicts \cup {"twice", "none"}]
    /\ outcome \in {"none", "completed", "raised"}
    /\ asks \in [Region -> Nat]

(* The callback states no verdict of its own making: each is one that a model
   of the last pass gave, and a bypass passes no region that is settled or
   hidden.  In particular a failed call is never a clean page. *)
NoInventedVerdict ==
    \A r \in Region :
        posted.results[r] # "none" =>
            IF posted.to = "bypass" THEN page[r] \notin {"rejected", "uncertain"}
            ELSE posted.results[r] \in said[r]

(* A callback that calls itself complete has exactly one verdict for each
   translated region of the page it judged and none for another. *)
CompleteCoversThePage ==
    posted.complete =>
        /\ posted.to = "qa" => posted.targets = Targets
        /\ \A r \in Region : posted.results[r] \in Verdicts <=> r \in posted.targets

(* OQ-02: the backend is given the fixes of the whole text pass or none. *)
PartialPassFixesNothing ==
    prepared # All("none") => \A r \in Targets : prepared[r] \in Verdicts

(* A vision verdict is about the pixels the model was shown, even when the page
   has moved on since. *)
JudgedIsShown ==
    posted.to = "qa" /\ Mode \in {"vlm", "hybrid"} => posted.pixels = shown

(* What a page is told by way of hybrid, where the text pass writes to the page that
   the vision pass then looks at. *)
HybridIsSound == PartialPassFixesNothing /\ JudgedIsShown

(* A verdict that a model gave stands against every later model of the chain,
   and its region is not asked about again. *)
VerdictStands ==
    [][\A r \in Targets :
          Mode = "vlm" /\ judged[r] # "none" => judged'[r] = judged[r] /\ asks'[r] = asks[r]]_vars
=============================================================================
