------------------------ MODULE MCConnectionRegistry ------------------------
(* Instances of ConnectionRegistry for TLC *)
EXTENDS ConnectionRegistry, TLC
CONSTANTS d1, d2, s1, s2, in, out, t1, t2
MCAreas == {{in}}
MCTwoAreas == {{in}, {}}
MCSymmetry == Permutations({t1, t2})
=============================================================================
