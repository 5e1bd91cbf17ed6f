----------------------------- MODULE MCChangeSets -----------------------------
(* Small instances of ChangeSets: files of two sizes, so only the clients    *)
(* are interchangeable.                                                      *)
EXTENDS ChangeSets, TLC

Symmetry == Permutations(Clients)
===============================================================================
