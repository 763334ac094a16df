--------------------------- MODULE AyniSolverBotMC ----------------------------
(* Instances of AyniSolverBot small enough for TLC. *)
EXTENDS AyniSolverBot

MCBorrower == [o \in Claims |-> o]
MCPrincipal == [o \in Claims |-> 2]
MCSymmetry == Permutations(Claims)
=============================================================================
