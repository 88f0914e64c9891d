--------------------------- MODULE MCClaudeSession ---------------------------
(* ClaudeSession on small sets: prompts are interchangeable, the ids Claude's own turns get are not (FreshOwn chooses). *)
EXTENDS ClaudeSession, TLC

PromptSymmetry == Permutations(Messages)
=============================================================================
