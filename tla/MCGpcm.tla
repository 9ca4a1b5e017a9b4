------------------------------- MODULE MCGpcm -------------------------------
(* Model checking of Gpcm: connections are interchangeable, and so are profiles. *)
EXTENDS Gpcm, TLC

Symmetry == Permutations(Conns) \cup Permutations(Profiles)
=============================================================================
