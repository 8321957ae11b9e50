-------------------------------- MODULE MCKeys --------------------------------
(***************************************************************************)
(* Small instances of the key cache for TLC: their sets are model values,  *)
(* given in the configurations.                                            *)
(***************************************************************************)
EXTENDS KeyCache, TLC
===============================================================================
