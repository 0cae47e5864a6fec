-------------------------- MODULE MCRayTaskQueue --------------------------
(* RayTaskQueue on small sets.  Tasks, workers and keys are interchangeable. *)
EXTENDS RayTaskQueue

\* Submissions of one task and of two.
OneOrTwo == {<<t>> : t \in Tasks} \cup {ts \in Tasks \X Tasks : ts[1] # ts[2]}

Symmetry == Permutations(Tasks) \cup Permutations(Workers) \cup Permutations(Keys)
===========================================================================
