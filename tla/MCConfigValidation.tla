------------------------ MODULE MCConfigValidation ------------------------
(* Two groups and three values, up to two values listed per group. *)
EXTENDS ConfigValidation

MCGroup == 1..2
=============================================================================
