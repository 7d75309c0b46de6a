----------------------------- MODULE MCAccounts -----------------------------
(* Accounts for TLC: processes, names, passwords and reset tokens are interchangeable. *)
EXTENDS Accounts, TLC

MCSymmetry == Permutations(Processes) \cup Permutations(Names) \cup Permutations(Passwords) \cup Permutations(ResetTokens)
=============================================================================
