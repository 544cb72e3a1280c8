------------------------------ MODULE MCDBRouting ------------------------------
(* DBRouting on small sets. *)
EXTENDS DBRouting

\* Router and stickiness on or off.
AnyConfig == [enabled : BOOLEAN, sticky : BOOLEAN]
=============================================================================
