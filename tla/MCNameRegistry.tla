--------------------------- MODULE MCNameRegistry ---------------------------
(* NameRegistry for TLC.                                                   *)
EXTENDS NameRegistry, TLC

SafeEnv == SafeFaults
RetryEnv == {"touch", "abandonCreate"}
RedeleteEnv == {"redelete"}

WetOnly == {FALSE}

Symmetry == Permutations(Objects) \cup Permutations(Names) \cup Permutations(Requests)
=============================================================================
