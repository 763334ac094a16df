---------------------------- MODULE AyniVaultMC -----------------------------
(* Instances of AyniVault small enough for TLC. *)
EXTENDS AyniVault, TLC

Answer(managed, debt) == [managed |-> managed, debt |-> debt]

\* The router says "not a pool claim", or reports a pool debt of 5.
MCRouterAnswers == {Answer(FALSE, 0), Answer(TRUE, 5)}

\* Each is allowed beside the other ratio's initial value, but not both.
MCRatioChoices == {<<"max_ltv", 7500>>, <<"liq_threshold", 7200>>}

MCSymmetry == Permutations(Users) \cup Permutations(OrderIds)
=============================================================================
