---------------------------- MODULE MCGrpoLoop ----------------------------
\* GrpoLoop on a batch of two groups of two rollouts.
EXTENDS GrpoLoop
===========================================================================
