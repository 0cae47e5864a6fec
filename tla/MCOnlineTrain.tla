--------------------------- MODULE MCOnlineTrain ---------------------------
\* Instances of OnlineTrain for TLC: every run mode.
EXTENDS OnlineTrain

\* The last batch may go past max_global_updates, SFT may go on from a checkpoint.
VersionsUpToLast == 0..(MaxGlobalUpdates + UpdatesPerBatch)

Setup(mode, colocated, ppo, opd) ==
    [mode |-> mode, colocated |-> colocated, ppo |-> ppo, opd |-> opd]
MCSetups ==
    {Setup("online_rl_train", TRUE, TRUE, FALSE), Setup("online_rl_train", TRUE, FALSE, TRUE),
     Setup("online_rl_train", FALSE, FALSE, FALSE), Setup("mismatch_test", TRUE, FALSE, FALSE),
     Setup("mismatch_test", FALSE, FALSE, FALSE), Setup("sft_train", TRUE, FALSE, FALSE),
     Setup("replay_rl_train", TRUE, FALSE, TRUE), Setup("eval_only", TRUE, FALSE, FALSE)}
=============================================================================
