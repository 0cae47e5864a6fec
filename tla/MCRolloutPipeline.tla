------------------------- MODULE MCRolloutPipeline -------------------------
\* Instances of RolloutPipeline for TLC.
EXTENDS RolloutPipeline, TLC

\* A schedule of two batches, trained while it runs; and a strict one.
Overlap == [groups_per_update |-> 1, sync_every |-> 1, batch_for |-> 2, strict |-> FALSE]
Strict == [groups_per_update |-> 2, sync_every |-> 1, batch_for |-> 1, strict |-> TRUE]
Both == {Overlap, Strict}
============================================================================
