---------------------------- MODULE MCJobControl ----------------------------
EXTENDS JobControl, TLC

Symmetry == Permutations(Claims) \cup Permutations(Asks)

\* For safety only: a selection whose row was written since is read by nothing.
\* Its sweep is refused (selectedJobFence), and the next one selects anew.
LiveSelections == [j \in Jobs |-> IF snap[j].fresh THEN snap[j].row ELSE NoRow]

View == <<job, rcpt, rows, runner, LiveSelections, handlerVars, completed>>
=============================================================================
