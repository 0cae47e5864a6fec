------------------------- MODULE MCMegatronWorker -------------------------
(* Instance of MegatronWorker for TLC. *)
EXTENDS MegatronWorker

MCSample(traj, len, paths) == [traj |-> traj, len |-> len, paths |-> paths]

\* One rollout packed into two samples that share their first chunk, and a second
\* rollout; a merged sample with two paths; three rows for two ranks.
MCSplitTrace == <<MCSample(0, 3, <<<<1, 2>>>>), MCSample(0, 2, <<<<1, 3>>>>), MCSample(1, 1, <<<<4>>>>)>>
MCMerged == <<MCSample(0, 5, <<<<5, 6>>, <<5, 7>>>>), MCSample(1, 1, <<<<8>>>>)>>
MCSampleSets == {MCSplitTrace, MCMerged}

MCBase == [dp |-> 2, gbs |-> 2, dynamic |-> TRUE, vpp |-> 0, group |-> 1, ep |-> FALSE,
           recompute |-> TRUE, r3 |-> TRUE, teacher |-> FALSE, shuffle |-> FALSE]
MCConfigs ==
    {MCBase,
     [MCBase EXCEPT !.gbs = 1, !.ep = TRUE],
     [MCBase EXCEPT !.ep = TRUE, !.shuffle = TRUE, !.r3 = FALSE],
     [MCBase EXCEPT !.gbs = 1, !.dynamic = FALSE, !.teacher = TRUE, !.recompute = FALSE],
     [MCBase EXCEPT !.dp = 1, !.dynamic = FALSE, !.shuffle = TRUE, !.teacher = TRUE],
     [MCBase EXCEPT !.dp = 1, !.vpp = 2, !.group = 2]}
===========================================================================
