--------------------------- MODULE MCInferRouter ---------------------------
\* InferRouter on small sets.  Requests and sessions are interchangeable.
EXTENDS InferRouter, TLC

Symmetry == Permutations(Requests) \cup Permutations(Sessions)
============================================================================
