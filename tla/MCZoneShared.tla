--------------------------- MODULE MCZoneShared ---------------------------
(***************************************************************************)
(* The instance of two servers that keep out of each other's way: what the *)
(* ownership theorems assume of the configurations holds of these.         *)
(***************************************************************************)
EXTENDS MCZoneReconcile

ASSUME SharedAdoptionDisjoint == AdoptionDisjoint

===========================================================================
