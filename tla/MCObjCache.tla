----------------------------- MODULE MCObjCache -----------------------------
(* Bounded instances of ObjCache. *)
EXTENDS ObjCache, TLC
CONSTANTS c1, c2, c3, h1, h2, o1, o2
Sym == Permutations(Compilers) \cup Permutations(Hashes) \cup Permutations(Outputs)
=============================================================================
