--------------------------- MODULE MCMemoryVault ---------------------------
(* Instances of MemoryVault for TLC: two texts, one without signs and one   *)
(* that reads as level 3.  Ids are interchangeable.                         *)
EXTENDS MemoryVault, TLC
CONSTANTS plain, secret
MCTexts == {plain, secret}
MCSigns == plain :> NoLevel @@ secret :> 3
MCIdSymmetry == Permutations(Ids)
=============================================================================
