-------------------------- MODULE MCTranslationJob --------------------------
(* TranslationJob for model checking: three regions in two chunks that two   *)
(* threads work through, without conversations or with some.                 *)
EXTENDS TranslationJob

CONSTANTS r1, r2, r3

MCPage == <<r1, r2, r3>>
MCConversations == {<<>>, <<{r3, r1}>>, <<{r1}, {r3, r2}>>}
=============================================================================
