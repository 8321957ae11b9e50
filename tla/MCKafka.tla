-------------------------------- MODULE MCKafka --------------------------------
(***************************************************************************)
(* Small instances of the Kafka consumer for TLC: their sets are model     *)
(* values, given in the configurations.                                    *)
(***************************************************************************)
EXTENDS KafkaConsumer, TLC
================================================================================
