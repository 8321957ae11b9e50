------------------------------- MODULE MCOutbox -------------------------------
(***************************************************************************)
(* Small instances of the outbox publisher for TLC.  Events are numbers,   *)
(* created in their order.                                                 *)
(***************************************************************************)
EXTENDS OutboxPublisher, TLC

InOrder == [e \in Events |-> e]

PublisherSymmetry == Permutations(Publishers)
===============================================================================
