--------------------------- MODULE MCObjectTable ---------------------------
(* Instances of ObjectTable for TLC. *)
EXTENDS ObjectTable

(* The owner of a receive queue or handler holds S and V; only the         *)
(* references to tasks carry C, and leave V when derived with this mask.   *)
MCAllocCaps == {{"S", "V"}}
MCMasks == {{"S", "V"}}
=============================================================================
