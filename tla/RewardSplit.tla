---------------------------- MODULE RewardSplit ----------------------------
(***************************************************************************)
(* How modelx.rewardBlock divides the reward of a won block: the pool fee, *)
(* the winner's part, and the rest by each miner's share of the effective  *)
(* capacity.  Shares of the configuration are fractions over ShareDen;     *)
(* float64 rounding noise below half a planck is abstracted.               *)
(***************************************************************************)
EXTENDS Integers, Functions

CONSTANTS Fee,           \* Cfg.FeeAccountID
          PoolFeeShare,  \* Cfg.PoolFeeShare, in 1/ShareDen
          WinnerShare,   \* Cfg.WinnerShare, in 1/ShareDen
          ShareDen

ASSUME ShareAssumption ==
  /\ ShareDen \in Nat \ {0}
  /\ PoolFeeShare \in 0 .. ShareDen
  /\ WinnerShare \in 0 .. ShareDen

\* round(n / d) for n >= 0 and d > 0: half a planck and more is rounded up.
Round(n, d) == (2 * n + d) \div (2 * d)

PoolFee(total)      == Round(total * PoolFeeShare, ShareDen)
WinnerReward(total) == Round((total - PoolFee(total)) * WinnerShare, ShareDen)
Remainder(total)    == total - PoolFee(total) - WinnerReward(total)

\* GetSharesOnBlock: eepsOf maps the miners with counted deadlines to their
\* effective capacity; nobody has a share if the capacities sum to zero.
SharingMiners(eepsOf) ==
  IF SumFunctionOnSet(eepsOf, DOMAIN eepsOf) = 0 THEN {} ELSE DOMAIN eepsOf

\* shareInPlanckOf.  The winner's part is added only to a miner who also has
\* a share; the fee account is never a miner.
ShareInPlanckOf(total, eepsOf, generator) ==
  [a \in SharingMiners(eepsOf) \cup {Fee} |->
     IF a = Fee
       THEN PoolFee(total)
       ELSE Round(Remainder(total) * eepsOf[a], SumFunctionOnSet(eepsOf, DOMAIN eepsOf))
              + (IF a = generator THEN WinnerReward(total) ELSE 0)]
=============================================================================
