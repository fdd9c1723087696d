---------------------------- MODULE MCKeyRegistry -----------------------------
(* KeyRegistry on small instances.                                         *)
EXTENDS KeyRegistry, TLC

KeySymmetry == Permutations(Keys) \cup Permutations(Accounts)
===============================================================================
