---------------------------- MODULE MCVerification ----------------------------
(* Verification on small instances.                                        *)
EXTENDS Verification, TLC

VerificationSymmetry == Permutations(Keys)
===============================================================================
