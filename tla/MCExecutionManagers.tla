------------------------- MODULE MCExecutionManagers -------------------------
EXTENDS ExecutionManagers

\* The MPS execution has the most managers.
Acquires == [p \in Platforms |-> CASE p = "cpu" -> 4 [] p = "cuda" -> 4 [] p = "mps" -> 3]

Symmetry == Permutations(User)
==============================================================================
