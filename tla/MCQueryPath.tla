---- MODULE MCQueryPath ----
(***************************************************************************)
(* QueryPath on two query texts and a corpus that changes once.           *)
(***************************************************************************)
EXTENDS QueryPath, TLC

QuerySymmetry == Permutations(Queries)
====
