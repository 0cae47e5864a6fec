--------------------------- MODULE MCForwardStep ----------------------------
(***************************************************************************)
(* Instances of ForwardStep: layouts on groups of up to 4 ranks, and       *)
(* losses on rows of up to three tokens.                                   *)
(***************************************************************************)
EXTENDS ForwardStep

Tok(adv, cur, old, roll) ==
    [loss |-> TRUE, adv |-> adv, cur |-> cur, old |-> old, roll |-> roll, ref |-> 0, turn |-> 0]
\* A prompt token: the engine reports no log-probability for it.
Prompt == [Blank EXCEPT !.old = -2, !.cur = -2, !.roll = 0]

Config ==
    [loss_type |-> "grpo", base |-> "old", agg |-> "token-mean", denom |-> "token",
     clip_low |-> -1, clip_high |-> 1, dual |-> Off, soft |-> 2, token_clip |-> Off,
     icepop_low |-> Off, icepop_high |-> Off, seq_low |-> Off, seq_high |-> Off, veto |-> Off,
     opd |-> "off", opd_scale |-> FALSE, kl |-> 0, kl_base |-> "old"]

Dense == [moe |-> [l \in 0..1 |-> TRUE], pps |-> 1, vpps |-> 1]
Mixed == [moe |-> [l \in 0..7 |-> l % 3 # 0], pps |-> 2, vpps |-> 2]

Layout == [model |-> Dense, recorded |-> 2, scattered |-> TRUE, c |-> Config, values |-> <<>>, score |-> <<>>]
OfLens(lens) == [i \in DOMAIN lens |-> [t \in 1..lens[i] |-> Prompt]]

PackedCases ==
    {Layout @@ [fn |-> "packed", tp |-> tp, cp |-> cp, rows |-> OfLens(lens), paths |-> <<>>] :
        tp \in {1, 2}, cp \in {1, 2}, lens \in {<<1, 3>>, <<5, 2>>, <<9>>, <<4, 1, 6>>}}
StageCases ==
    {[Layout EXCEPT !.model = Mixed, !.recorded = n] @@
        [fn |-> "packed", tp |-> 1, cp |-> 1, rows |-> OfLens(<<2>>), paths |-> <<>>] : n \in {8, 5}}
MagiCases ==
    {[Layout EXCEPT !.scattered = x[2]] @@
        [fn |-> x[1], tp |-> g[1], cp |-> g[2], rows |-> OfLens([i \in DOMAIN ps |-> 3]), paths |-> ps] :
        x \in {<<"flat", TRUE>>, <<"merged", TRUE>>, <<"gdn", TRUE>>, <<"gdn", FALSE>>},
        g \in {<<1, 2>>, <<2, 1>>, <<2, 2>>},
        ps \in {<<<<<<1, 2, 3>>, <<1, 2, 4, 5>>>>, <<<<1, 2>>, <<1, 2, 3, 6>>>>>>,
                <<<<<<1, 2, 3>>, <<1, 2, 4, 5>>, <<1, 2, 4, 5, 6>>, <<7, 8>>>>, <<<<2, 1>>>>>>}}

LossConfigs ==
    {[Config EXCEPT !.loss_type = lt] : lt \in {"grpo", "tis", "topr", "grpo2"}}
    \cup {[Config EXCEPT !.dual = 3, !.kl = 1, !.token_clip = 1],
          [Config EXCEPT !.loss_type = "kimi2_5", !.base = "roll", !.icepop_low = -1, !.icepop_high = 1],
          [Config EXCEPT !.loss_type = "gspo", !.agg = "seq-mean-token-mean", !.denom = "sequence"],
          [Config EXCEPT !.loss_type = "grpo2", !.denom = "sequence", !.kl = 1, !.kl_base = "ref", !.veto = -1],
          [Config EXCEPT !.loss_type = "grpo2", !.denom = "seq_turn", !.seq_low = -1, !.seq_high = 1],
          [Config EXCEPT !.loss_type = "tis", !.opd = "old"]}
TaughtConfigs ==
    {[Config EXCEPT !.loss_type = lt, !.opd = src, !.opd_scale = scaled] :
        lt \in {"grpo", "tis"}, src \in {"cur", "roll"}, scaled \in BOOLEAN}
LossRowChoices ==
    {<<Prompt, Tok(1, 1, 0, 0), Tok(1, 3, 0, 0)>>, <<Tok(-1, 2, 0, -2), Tok(-1, -2, 0, 1)>>,
     <<Prompt, Tok(-1, 1, 0, 2)>>, <<Tok(1, -2, 0, 0), Prompt, Tok(1, 2, 0, -1)>>, <<Prompt>>}
LossCases ==
    {[Layout EXCEPT !.c = c] @@ [fn |-> "packed", tp |-> 1, cp |-> 1, rows |-> <<a, b>>, paths |-> <<>>] :
        c \in LossConfigs, a \in LossRowChoices, b \in LossRowChoices}

\* Rows with a teacher: at half the student's scale on the first row, at twice its
\* scale on the second, and in between on both.
Taught(adv, cur, old, ref) == [Tok(adv, cur, old, old) EXCEPT !.ref = ref]
TaughtCases ==
    {[Layout EXCEPT !.c = c] @@ [fn |-> "packed", tp |-> 1, cp |-> 1, paths |-> <<>>,
        rows |-> <<<<Taught(1, -2, -2, -1), Taught(-1, -4, -4, -2)>>,
                   <<Prompt, Taught(a, cur, -2, -4)>>>>] :
        c \in TaughtConfigs, a \in {-1, 1}, cur \in {-2, -1}}

PpoCases ==
    {[Layout EXCEPT !.c.loss_type = "ppo", !.values = <<v>>, !.score = <<s>>] @@
        [fn |-> "packed", tp |-> 1, cp |-> 1, paths |-> <<>>,
         rows |-> <<[t \in 1..4 |-> IF m[t] THEN Tok(1, 0, 0, 0) ELSE Prompt]>>] :
        m \in [1..4 -> BOOLEAN], v \in {<<0, 1, 2, 1>>, <<-1, 1, 0, 2>>}, s \in {1, 3}}

ValueCases ==
    {[Layout EXCEPT !.c.loss_type = "value", !.values = <<<<0, 1>>, <<1, 0, 1>>>>, !.score = <<s, 1>>] @@
        [fn |-> "packed", tp |-> 1, cp |-> 1, paths |-> <<>>,
         rows |-> <<<<Prompt, Tok(1, v, 0, 0)>>, <<Tok(1, w, 0, 0), Prompt, Tok(1, v, 0, 0)>>>>] :
        v \in -2..3, w \in {-1, 2}, s \in {-2, 1, 3}}
SftCases ==
    {[Layout EXCEPT !.c.loss_type = "sft"] @@
        [fn |-> "packed", tp |-> 1, cp |-> 1, paths |-> <<>>, rows |-> <<a, b>>] :
        a \in LossRowChoices, b \in LossRowChoices}

MCCases == PackedCases \cup StageCases \cup MagiCases \cup LossCases \cup TaughtCases \cup PpoCases \cup ValueCases \cup SftCases
=============================================================================
