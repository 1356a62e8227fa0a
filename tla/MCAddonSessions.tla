-------------------------- MODULE MCAddonSessions --------------------------
(***************************************************************************)
(* AddonSessions for TLC: add-ons are compared for equality only.          *)
(***************************************************************************)
EXTENDS AddonSessions, TLC

Symmetry == Permutations(Addons)
=============================================================================
