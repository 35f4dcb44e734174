--------------------------- MODULE MCCASBlobStore ---------------------------
(* Two requests at a time, on two contents and two identity keys.  All     *)
(* three are interchangeable, and every property is about single steps or  *)
(* states, so their symmetry may be used.                                  *)
EXTENDS CASBlobStore, TLC

CONSTANTS a1, a2, d1, d2, k1, k2

MCActors == {a1, a2}
MCDigests == {d1, d2}
MCKeys == {k1, k2}
MCSymmetry ==
    Permutations(MCActors) \cup Permutations(MCDigests) \cup Permutations(MCKeys)
=============================================================================
