--------------------------- MODULE MCBadgeRegistry ----------------------------
(* BadgeRegistry on small instances.                                       *)
EXTENDS BadgeRegistry, TLC

RegistrySymmetry == Permutations(Ids) \cup Permutations(Accounts)
===============================================================================
