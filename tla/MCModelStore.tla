---------------------------- MODULE MCModelStore ----------------------------
(* A position made of two fields that one sentence writes, a speed, and    *)
(* two receivers that report them.                                         *)
EXTENDS ModelStore, TLC

CONSTANTS lat, lon, speed, mode

MCPath == (lat :> "position") @@ (lon :> "position") @@ (speed :> "speed") @@ (mode :> "state")
MCSentences == {<<lat, lon>>, <<speed, mode>>}

=============================================================================
