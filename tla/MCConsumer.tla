------------------------------- MODULE MCConsumer -------------------------------
(***************************************************************************)
(* Small instances of the command consumer for TLC: their sets are model   *)
(* values, given in the configurations.                                    *)
(***************************************************************************)
EXTENDS CommandConsumer, TLC
===================================================================================
