------------------------------ MODULE MCPayments ------------------------------
(***************************************************************************)
(* A small instance of the composition for TLC: the HTTP clients open a    *)
(* wallet and pay 2 into it, in units of the balance; the booking service  *)
(* asks in m1 for a little less, which is rounded to 2, and refunds nothing*)
(* in m2.  A message can be handled once for each time it is sent or put   *)
(* back.                                                                   *)
(***************************************************************************)
EXTENDS BookingPayments, TLC

CONSTANTS m1, m2

Ask(id, type, amount) ==
  [id |-> id, type |-> type, wallet |-> "a", user |-> "alice", amount |-> amount]

MaxCalls == MaxPublished + MaxFaults

OnePayment ==
  { Ask(<<"http", 1>>, "create", 0), Ask(<<"http", 2>>, "deposit", 16) }
    \cup {IF m = m1 THEN Ask(<<m, n>>, "pay_with_wallet", 15) ELSE Ask(<<m, n>>, "refund", 0) :
            m \in Commands, n \in 1 .. MaxCalls}

AllAlice == [m \in Commands |-> "alice"]

NoSkew == [p \in Workers |-> 0]

ConsumerSymmetry == Permutations(Consumers)
===============================================================================
