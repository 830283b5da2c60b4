-------------------------- MODULE MCSwitchWrapper --------------------------
(* Two keys and two branches, one ordinary property beside `prototype`,    *)
(* two values; one branch derives from a base, the other from what the     *)
(* target does.                                                            *)
EXTENDS SwitchWrapper, TLC

CONSTANTS desktop, mobile, one, other, v1, v2

WrapperParentOf ==
  [b \in {one, other} |-> IF b = one THEN "base" ELSE "builtin"]
WrapperTargetParent == [k \in {"object", "function"} |-> "builtin"]

(* Keys and values are only compared. *)
Symmetry == Permutations({v1, v2}) \cup Permutations({desktop, mobile})
=============================================================================
