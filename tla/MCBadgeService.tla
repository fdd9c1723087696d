---------------------------- MODULE MCBadgeService ----------------------------
(* BadgeService on small instances.                                        *)
EXTENDS BadgeService
===============================================================================
