---------------------------- MODULE AyniOracleMC -----------------------------
(* Instances of AyniOracle small enough for TLC. *)
EXTENDS AyniOracle

\* The feed that may replace the manual one has another number of decimals.
MCFeedDecimals == [f \in Feeds |-> IF f = ManualFeed THEN 1 ELSE 0]

\* A price that keeps rising: no old price passes for a recent one.
MCMarketPrice == [t \in 1 .. MaxTime |-> 21 * t - 6]

\* One change at a time, and the two that depend on each other together: only
\* apply_use_fallback reads another setting.
MCTogether == {{"price_feed"}, {"max_staleness"}, {"fallback_price", "use_fallback"}}
=============================================================================
