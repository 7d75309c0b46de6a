---- MODULE MCRateLimit ----
(***************************************************************************)
(* RateLimit on two users behind two addresses, with limits of 2 and 3 so  *)
(* that either check can be the one that refuses.                          *)
(***************************************************************************)
EXTENDS RateLimit, TLC

CallerSymmetry == Permutations(Users) \cup Permutations(Addresses)
====
