---------------------------- MODULE AyniMarketsMC -----------------------------
(* Instances of AyniMarkets small enough for TLC. *)
EXTENDS AyniMarkets
=============================================================================
