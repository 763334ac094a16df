------------------------------ MODULE AyniMath ------------------------------
(***************************************************************************)
(* The arithmetic the contracts share.  A uint256 multiplication that does *)
(* not fit reverts the transaction, so numbers here are natural numbers.   *)
(***************************************************************************)
EXTENDS Integers, FiniteSets

\* Math.mulDiv: the product is computed in 512 bits, the quotient rounds down.
MulDiv(x, y, d) == (x * y) \div d

\* Math.mulDivUp: one more when the division leaves a remainder.
MulDivUp(x, y, d) == MulDiv(x, y, d) + IF (x * y) % d > 0 THEN 1 ELSE 0

Smaller(a, b) == IF a < b THEN a ELSE b

(***************************************************************************)
(* The sum of a function from a finite set to Nat, as the number of points *)
(* under its graph.  It is not recursive, so facts about it can be proved  *)
(* (module AyniMathProofs) from the theorems on cardinalities.             *)
(***************************************************************************)
Column(f, x) == {x} \X (1 .. f[x])
Points(f) == UNION {Column(f, x) : x \in DOMAIN f}
Total(f) == Cardinality(Points(f))
=============================================================================
