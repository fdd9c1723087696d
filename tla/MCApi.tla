-------------------------------- MODULE MCApi ---------------------------------
(* The running API on a small instance.                                    *)
EXTENDS Api, TLC

ApiSymmetry == Permutations(Jobs) \cup Permutations(Texts) \cup Permutations(Buffers)
===============================================================================
