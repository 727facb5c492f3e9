---------------------------- MODULE MCWorkerParts -----------------------------
(***************************************************************************)
(* Instances of the seven parts of a worker that TLC goes through.         *)
(***************************************************************************)
EXTENDS WorkerParts

Settings == [mode |-> "vlm", again |-> FALSE, provider |-> "configured", vlm |-> "none", llm |-> "none",
             fallbacks |-> TRUE, artifact |-> TRUE, localModel |-> FALSE, localDisabled |-> TRUE]

(* Each mode with its usual settings, and the settings that change its course. *)
MCQaJobs ==
    {[Settings EXCEPT !.mode = m, !.vlm = v, !.llm = v, !.fallbacks = f] :
        m \in {"vlm", "llm", "hybrid"}, v \in {"none", "own"}, f \in BOOLEAN}
    \cup {[Settings EXCEPT !.mode = m, !.provider = p, !.localModel = TRUE, !.localDisabled = d] :
        m \in {"auto", "vlm", "llm", "hybrid"}, p \in {"none", "another", "ollama"}, d \in BOOLEAN}
    \cup {[Settings EXCEPT !.mode = m, !.artifact = FALSE] : m \in {"none", "vlm", "llm", "hybrid"}}
    \cup {[Settings EXCEPT !.again = TRUE]}

MCSpares == <<"spare">>

(* The engine reads, a vision model of a provider, or a local one. *)
Reader == [reader |-> "engine", model |-> "none", fallbacks |-> TRUE, sameProvider |-> TRUE]
MCOcrJobs == {Reader, [Reader EXCEPT !.reader = "cloud", !.model = "own"], [Reader EXCEPT !.reader = "local"]}

MCBalloons == <<"b1">>
MCPlace == {<<"p1", "left">>, <<"none", "left">>, <<"none", "right">>}

(* Two regions of every kind, one, or none; and each way to repaint a mark. *)
MCCleanupJobs ==
    {[manual |-> FALSE, mode |-> m, regions |-> r] :
        m \in {"auto", "telea", "aot", "off"},
        r \in ({"replace", "exclude", "unusable", "noRecord"} \X {"replace", "exclude"}) \cup {<<>>}}
    \cup {[manual |-> TRUE, mode |-> m, regions |-> <<"replace">>] :
        m \in {"auto", "telea", "aot", "flat", "restore"}}

(* A column, a second one close by, far off or below it, and a third. *)
At(x, y, w, h) == [x |-> x, y |-> y, w |-> w, h |-> h]
Layouts == {<<At(0, 0, 2, 4), b, c>> : b \in {At(3, 0, 2, 4), At(1, 1, 4, 1), At(6, 1, 2, 4)},
                                       c \in {At(3, 5, 2, 2), At(3, 6, 2, 2), At(8, 1, 2, 4)}}
MCScenes ==
    [box : Layouts, binding : BOOLEAN, balloon : BOOLEAN,
     vetoed : SUBSET {{1, 2}, {1, 3}, {2, 3}, {1, 2, 3}}, waist : SUBSET {{1, 2}}, walls : SUBSET {{1, 3}},
     parts : {[c \in SUBSET (1 .. 3) |-> IF c = 1 .. 3 THEN P ELSE {}] : P \in {{}, {{1}, {2, 3}}, {{1, 3}, {2}}}}]

(* 60 / rpm of each provider *)
MCMinDelay == [p \in {"slow", "quick", "free"} |-> CASE p = "slow" -> 2 [] p = "quick" -> 1 [] OTHER -> 0]
==============================================================================
