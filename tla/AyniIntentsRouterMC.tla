------------------------- MODULE AyniIntentsRouterMC --------------------------
(* Instances of AyniIntentsRouter small enough for TLC. *)
EXTENDS AyniIntentsRouter

MCBorrower == [o \in Claims |-> o]
MCSymmetry == Permutations(Claims)
=============================================================================
