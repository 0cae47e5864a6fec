--------------------------- MODULE MCRolloutTrace ---------------------------
(* Two tokens; prompts, results and outputs that share and leave prefixes.  *)
EXTENDS RolloutTrace

MCPrompts == {<<1>>, <<1, 2, 1>>}
MCResults == {<<1>>, <<2>>}
MCOutputs == {<<>>, <<2>>, <<1, 1>>}
MCPlaceholder == <<2>>
=============================================================================
