------------------------ MODULE AyniLiquidityPoolMC -------------------------
(* Instances of AyniLiquidityPool small enough for TLC; RAY is scaled down. *)
EXTENDS AyniLiquidityPool, TLC

Model(opt, base, s1, s2, reserve) ==
  [optimalUtilization |-> opt, baseRate |-> base, slope1 |-> s1, slope2 |-> s2,
   reserveFactor |-> reserve]

\* With RAY = 10: 80% optimal utilization, rates from 10% to 50%, 20% to the reserve.
MCModel == Model(8, 1, 2, 2, 2)
MCSteepModel == Model(5, 3, 2, 5, 5)
MCNoModels == {}
MCModels == {MCSteepModel}

MCSymmetry == Permutations(LPs) \cup Permutations(OrderIds)
=============================================================================
