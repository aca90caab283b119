------------------------------ MODULE RoundCheck ------------------------------
(* The roundcheck command (src/cmd/roundcheck/main.go): it reads an answer of the
   service from a file and adds up what the validators were given, against
   what there was to distribute.  The file is JSON with fields of its own, only
   some of which the service writes; the others stay unset.  Weights, which
   are floating-point numbers, are left out.                                 *)
EXTENDS RewardSplit

\* The answer of each endpoint, as roundRewardsFile decodes it.  Both write the
\* validators' rewards as "reward", and nothing as "per_block_reward".
File(endpoint) ==
    [TotalBonuses   |-> IF endpoint = "round-rewards" THEN rewardPool ELSE Unset,
     RewardPerBlock |-> IF endpoint = "validators" THEN rewardPool ELSE Unset,
     Validators     |-> [v \in Validators |-> [Reward         |-> Entry(v).reward,
                                               PerBlockReward |-> Unset]]]

\* (Mutant of checkMode: it goes by the field the file does not have.)
checkModeSwapped(in) == CASE in.TotalBonuses # Unset   -> "per_block_rewards"
                          [] in.RewardPerBlock # Unset -> "round_rewards"
                          [] OTHER                     -> "none"

checkMode(in) == CASE in.TotalBonuses # Unset   -> "round_rewards"
                   [] in.RewardPerBlock # Unset -> "per_block_rewards"
                   [] OTHER                     -> "none"

values(in) == [v \in DOMAIN in.Validators |->
                 IF checkMode(in) = "round_rewards" THEN in.Validators[v].Reward
                 ELSE in.Validators[v].PerBlockReward]

targetValue(in) == IF checkMode(in) = "round_rewards" THEN in.TotalBonuses
                   ELSE in.RewardPerBlock

\* calculate returns an error for want of validators, of a total, or of the value
\* of any one of them.
calculateFails(in) == \/ DOMAIN in.Validators = {}
                      \/ checkMode(in) = "none"
                      \/ \E v \in DOMAIN in.Validators : values(in)[v] = Unset

valueDiff(in) == SumFunction(values(in)) - targetValue(in)

-------------------------------------------------------------------------------
(* Correctness *)

\* roundcheck can read the service's answers about rounds, and what it calls
\* reward_diff is never more than the rounding: short of the total by less than
\* one nanoTON for each validator, and never over it.
RoundChecksOut ==
    LET in == File("round-rewards")
    IN phase = "answered" /\ totalTrueStake > 0 =>
          /\ ~calculateFails(in)
          /\ -valueDiff(in) \in 0 .. Cardinality(Validators) - 1
=============================================================================
