------------------------------- MODULE MCRefs -------------------------------
(* A repository with a few branches, before and after every refresh.       *)
EXTENDS Refs, TLC

CONSTANTS main, dev, fix

Symmetry == Permutations(Branches)
=============================================================================
