-------------------------- MODULE MCProcessorPool --------------------------
\* ProcessorPool on small sets.  Tasks and workers are interchangeable.
EXTENDS ProcessorPool

Symmetry == Permutations(Tasks) \cup Permutations(Workers)
============================================================================
