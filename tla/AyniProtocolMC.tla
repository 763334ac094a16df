---------------------------- MODULE AyniProtocolMC ----------------------------
(* Instances of AyniProtocol small enough for TLC; RAY is scaled down. *)
EXTENDS AyniProtocol, TLC

Model(opt, base, s1, s2, reserve) ==
  [optimalUtilization |-> opt, baseRate |-> base, slope1 |-> s1, slope2 |-> s2,
   reserveFactor |-> reserve]

\* With RAY = 100: 10% to 40% interest per period, 20% of it to the reserve.
MCModel == Model(80, 10, 10, 20, 20)
\* Next to no interest: the vault's own 5% grows faster.
MCCheapModel == Model(80, 0, 0, 0, 20)
MCModels == {Model(50, 20, 20, 40, 50)}
MCNoModels == {}
MCNoParamChoices == {}
MCParamChoices == {<<"annual_interest_bps", 4000>>}

MCSymmetry == Permutations(Solvers) \cup Permutations(Users)
=============================================================================
