----------------------------- MODULE PolicyLoss -----------------------------
(***************************************************************************)
(* The losses of the trainers (axrl/trainer/grpo_trainer.py, base_trainer, *)
(* sft_trainer, value_trainer and ppo_utils), by the gradient they put on  *)
(* each token's log-probability.                                           *)
(*                                                                         *)
(* A token is [loss, adv, cur, old, roll, ref, turn]: whether it is        *)
(* trained, its advantage and four log-probabilities.  Logarithms are to   *)
(* base 2 and integers, so that a ratio is a power of two in units of      *)
(* 1/Unit, and the thresholds of the configuration are given by their      *)
(* logarithms.  A loss is applied to rows that are functions on columns;   *)
(* padding columns and padding rows are not trained.                       *)
(*                                                                         *)
(* Left out: metrics, and the entropy term, which squares the mean over a  *)
(* micro-batch and depends on the split by its definition.                 *)
(***************************************************************************)
EXTENDS Integers, Sequences, FiniteSets, FiniteSetsExt

CONSTANT
    LogClamp    \* the bound of 20 on log-ratios, scaled down

ASSUME LogClampAssumption == LogClamp \in Nat

Off == 1000     \* a threshold that is None
Unit == 2 ^ LogClamp

Clamp(x, lo, hi) == Min({Max({x, lo}), hi})
Bounded(x) == Clamp(x, -LogClamp, LogClamp)
Abs(x) == IF x < 0 THEN -x ELSE x

\* torch.exp of a clamped log-ratio.
Exp(d) == IF d >= 0 THEN Unit * 2 ^ d ELSE Unit \div 2 ^ (-d)

Trained(row) == {t \in DOMAIN row : row[t].loss}
SumOver(S, f(_)) == MapThenSumSet(f, S)

---------------------------------------------------------------------------
(* The policy-gradient coefficient of one token, in 1/Unit: what           *)
(* d loss / d logprob is before masks, for log-ratio d and advantage a.    *)

\* grpo_loss (also the PPO actor's): the larger of the plain and the clipped
\* loss; on a negative advantage no more than dual times it.  The gradient is
\* lost where a constant is chosen and where the log-ratio is clamped.
GrpoCoef(c, a, d0) ==
    LET d == Bounded(d0)
        clipped == Clamp(d, c.clip_low, c.clip_high)
        plain == -a * Exp(d) > -a * Exp(clipped) \/ clipped = d
        capped == c.dual # Off /\ a < 0 /\ -a * c.dual * Unit < -a * Exp(d)
    IN IF plain /\ ~capped /\ d = d0 THEN -a * Exp(d) ELSE 0

\* calculate_pg_loss_and_clip_ratio: the ratio is detached; a hard clip stops
\* the gradient of a clipped token.
PgCoef(a, d0, lo, hi, hard) ==
    LET d == Bounded(d0)
        clipped == Clamp(d, lo, hi)
    IN IF hard /\ clipped # d THEN 0 ELSE -a * Exp(clipped)

TisCoef(c, a, d) == PgCoef(a, d, c.clip_low, c.clip_high, FALSE)
Kimi25Coef(c, a, d) == PgCoef(a, d, c.clip_low, c.clip_high, TRUE)
ToprCoef(c, a, d) ==
    IF a >= 0 THEN PgCoef(a, d, 0, 0, FALSE) ELSE PgCoef(a, d, -LogClamp, 0, FALSE)

\* Slip: a token that was encouraged too far is clipped softly.
Grpo2CoefSoft(c, a, d) ==
    IF a >= 0
      THEN PgCoef(a, d, -LogClamp, IF Bounded(d) > 0 THEN c.clip_high ELSE LogClamp, FALSE)
      ELSE IF Bounded(d) > 0 THEN PgCoef(a, d, -LogClamp, c.soft, FALSE)
           ELSE PgCoef(a, d, c.clip_low, LogClamp, TRUE)

\* grpo2_loss: hard clips where the step leads away from the base policy, soft
\* ones where it leads back.
Grpo2Coef(c, a, d) ==
    IF a >= 0
      THEN IF Bounded(d) > 0 THEN PgCoef(a, d, -LogClamp, c.clip_high, TRUE)
           ELSE PgCoef(a, d, -LogClamp, LogClamp, FALSE)
      ELSE IF Bounded(d) > 0 THEN PgCoef(a, d, -LogClamp, c.soft, FALSE)
           ELSE PgCoef(a, d, c.clip_low, LogClamp, TRUE)

\* The mean log-ratio of a row over its trained tokens, as sum and count.
SeqSum(row, lrs) == SumOver(Trained(row), LAMBDA t : lrs[t])
SeqLen(row) == Max({Cardinality(Trained(row)), 1})

\* gspo: every token has the ratio of its sequence; max as in grpo_loss.  The
\* mean log-ratio is rounded down.
GspoCoef(c, row, a, lrs) ==
    LET sum == SeqSum(row, lrs)
        n == SeqLen(row)
        plain == (a < 0 /\ sum > c.clip_high * n) \/ (a > 0 /\ sum < c.clip_low * n)
                 \/ (c.clip_low * n <= sum /\ sum <= c.clip_high * n)
    IN IF plain /\ sum <= LogClamp * n THEN -a * Exp(Bounded(sum \div n)) ELSE 0

BaseLogprob(c, tok) == IF c.base = "old" THEN tok.old ELSE tok.roll

\* get_loss_func.
PolicyCoef(c, row, t) ==
    LET lrs == [u \in DOMAIN row |-> row[u].cur - BaseLogprob(c, row[u])]
        a == row[t].adv
        d == lrs[t]
    IN CASE c.loss_type \in {"grpo", "ppo"} -> GrpoCoef(c, a, d)
         [] c.loss_type = "tis" -> TisCoef(c, a, d)
         [] c.loss_type = "kimi2_5" -> Kimi25Coef(c, a, d)
         [] c.loss_type = "topr" -> ToprCoef(c, a, d)
         [] c.loss_type = "grpo2" -> Grpo2Coef(c, a, d)
         [] c.loss_type = "gspo" -> GspoCoef(c, row, a, lrs)

---------------------------------------------------------------------------
(* The mismatch between the engine that sampled and the trainer. *)

\* token_mismatch_ir: 1 on tokens that are not trained.
TokenMismatch(row, t) == IF row[t].loss THEN Bounded(row[t].old - row[t].roll) ELSE 0

\* truncate_mismatch_token_ratio.
TokenMismatchTir(c, row, t) ==
    IF c.token_clip = Off THEN 0 ELSE Min({TokenMismatch(row, t), c.token_clip})

\* get_icepop_token_mask.
IcepopKeeps(c, row, t) ==
    /\ c.icepop_low # Off => TokenMismatch(row, t) >= c.icepop_low
    /\ c.icepop_high # Off => TokenMismatch(row, t) <= c.icepop_high

\* get_seq_ratio and get_mismatch_sequence_mask: the geometric mean of the row,
\* and a veto by its smallest token ratio, padding columns included.
SeqKeeps(c, row) ==
    LET sum == SeqSum(row, [t \in DOMAIN row |-> Bounded(row[t].cur - row[t].roll)])
        n == SeqLen(row)
    IN /\ c.seq_low # Off => sum >= c.seq_low * n
       /\ c.seq_high # Off => sum <= c.seq_high * n
       /\ c.veto # Off => Min({TokenMismatch(row, t) : t \in DOMAIN row}) >= c.veto

\* policy_mismatch_tir, in 1/Unit: what the policy term of a token is scaled by.
MismatchWeight(c, row, t) ==
    IF SeqKeeps(c, row) /\ IcepopKeeps(c, row, t) THEN Exp(TokenMismatchTir(c, row, t)) ELSE 0

StudentLogprob(c, tok) ==
    CASE c.opd = "roll" -> tok.roll
      [] c.opd = "old" -> tok.old
      [] c.opd = "cur" -> tok.cur

\* raw_student_logprob_abs_mean and raw_teacher_logprob_abs_mean as sums: both
\* means are over the trained tokens of the micro-batch.
AbsSum(logprobs) == SumOver(DOMAIN logprobs, LAMBDA x : Abs(logprobs[x]))

\* normalize_student_logprob_scale: the student is brought to the teacher's scale
\* on the micro-batch (rounded down); a student of zeros stays as it is.
ScaledStudent(c, mb, tok) ==
    LET trained == UNION {{<<i, t>> : t \in Trained(mb[i])} : i \in DOMAIN mb}
        student == AbsSum([x \in trained |-> StudentLogprob(c, mb[x[1]][x[2]])])
        teacher == AbsSum([x \in trained |-> mb[x[1]][x[2]].ref])
    IN IF c.opd_scale /\ student # 0
         THEN (StudentLogprob(c, tok) * teacher) \div student
         ELSE StudentLogprob(c, tok)

\* apply_opd_to_advantages for a token of micro-batch mb, doubled: distillation
\* from a teacher on trained tokens, with weight 1/2; the reverse KL is clamped.
OpdAdvantage(c, mb, tok) ==
    IF c.opd = "off" \/ ~tok.loss THEN 2 * tok.adv
    ELSE tok.adv - Bounded(ScaledStudent(c, mb, tok) - tok.ref)

\* The gradient of kl_divergence in the form "k2", half the squared log-ratio.
KlDivergence(logprob, base) == logprob - base

\* get_kl_loss.
KlCoef(c, tok) == KlDivergence(tok.cur, IF c.kl_base = "old" THEN tok.old ELSE tok.ref)

---------------------------------------------------------------------------
(* loss_func and Megatron's accumulation. *)

\* The advantages of a row of micro-batch mb after distillation, doubled.
WithOpd(c, mb, row) == [t \in DOMAIN row |-> [row[t] EXCEPT !.adv = OpdAdvantage(c, mb, row[t])]]

\* The coefficient of a trained token, before aggregation: the mismatch filters
\* gate the policy term only.
LossCoef(c, mb, row, t) ==
    PolicyCoef(c, WithOpd(c, mb, row), t) * MismatchWeight(c, row, t)
    + 2 * c.kl * KlCoef(c, row[t]) * Unit * Unit

TokenCount(mb) == SumOver(DOMAIN mb, LAMBDA i : Cardinality(Trained(mb[i])))
ValidSeqs(mb) == {i \in DOMAIN mb : Trained(mb[i]) # {}}

\* get_num_turns.
NumTurns(mb) ==
    SumOver(DOMAIN mb, LAMBDA i : Cardinality({mb[i][t].turn : t \in Trained(mb[i])} \ {-1}))

\* aggregate_with_mask: a token's share of the micro-batch loss is 1 over this.
AggDivisor(c, mb, i) ==
    IF c.agg = "token-mean" THEN TokenCount(mb)
    ELSE Cardinality(Trained(mb[i])) * Cardinality(ValidSeqs(mb))

\* Slip: padding rows count as sequences.
MicroBatchDenominatorOfRows(c, mb) ==
    CASE c.denom = "sequence" -> Len(mb)
      [] c.denom = "seq_turn" -> (2 * Cardinality(ValidSeqs(mb)) + NumTurns(mb)) \div 2
      [] c.denom = "token" -> TokenCount(mb)

\* compute_micro_batch_denominator (seq_turn with alpha 1/2, rounded down).
MicroBatchDenominator(c, mb) ==
    CASE c.denom = "sequence" -> Cardinality(ValidSeqs(mb))
      [] c.denom = "seq_turn" -> (2 * Cardinality(ValidSeqs(mb)) + NumTurns(mb)) \div 2
      [] c.denom = "token" -> TokenCount(mb)

---------------------------------------------------------------------------
(* The PPO critic. *)

\* build_terminal_token_rewards.
TerminalTokenRewards(score, loss) ==
    [t \in DOMAIN loss |-> IF loss[t] /\ \A u \in DOMAIN loss : loss[u] => u <= t THEN score ELSE 0]

\* compute_gae with gamma = gae_lambda = 1: the returns.
ComputeGae(rewards, values, loss) ==
    LET n == Len(rewards)
        valid(t) == IF t \in 1..n /\ loss[t] THEN 1 ELSE 0
        gae[t \in 1..(n + 1)] ==
            IF t = n + 1 THEN 0
            ELSE (rewards[t] + (IF t < n THEN values[t + 1] * valid(t + 1) ELSE 0) - values[t]
                  + gae[t + 1] * valid(t + 1)) * valid(t)
    IN [t \in 1..n |-> IF loss[t] THEN gae[t] + values[t] ELSE 0]

\* clipped_value_loss_per_token: d loss / d value (halved), 0 where the clipped
\* prediction is both farther off and constant.
ValueCoef(value, old, return, clip) ==
    LET clipped == old + Clamp(value - old, -clip, clip)
        sq(x) == x * x
    IN IF clipped # value /\ sq(clipped - return) > sq(value - return) THEN 0
       ELSE value - return

---------------------------------------------------------------------------
(* What each trainer's loss_func gives for token t of row i of a           *)
(* micro-batch: its coefficient, what it is divided by, the denominator.   *)

GrpoShare(c, mb, i, t) ==
    [coef |-> LossCoef(c, mb, mb[i], t), div |-> AggDivisor(c, mb, i), denom |-> MicroBatchDenominator(c, mb)]

\* SftTrainer: the mean negative log-likelihood of the trained tokens.
SftShare(mb) == [coef |-> -1, div |-> TokenCount(mb), denom |-> TokenCount(mb)]

\* ValueTrainer, with value_clip 1; a token's cur is the critic's new prediction.
ValueShare(mb, i, t, old, return) ==
    [coef |-> ValueCoef(mb[i][t].cur, old, return, 1), div |-> TokenCount(mb), denom |-> TokenCount(mb)]
=============================================================================
