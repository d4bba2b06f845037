------------------------ MODULE MCGenerationSessions ------------------------
(***************************************************************************)
(* Small instances of GenerationSessions: a plan of two stages on two      *)
(* workers; the prompt of a session is one token of its own.               *)
(***************************************************************************)
EXTENDS GenerationSessions

CONSTANTS w1, w2     \* the workers

TwoWorkers == {w1, w2}
TwoStages == 1..2
OnTwo == <<w1, w2>>
FirstStage == {1}
FinalStage == {2}
OwnPrompt == [s \in Sessions |-> <<s>>]

\* The first token of what the last of two stages computed.
FirstToken(content) == content[1][1]

Symmetry == Permutations(Sessions) \cup Permutations(SequenceIDs)
=============================================================================
