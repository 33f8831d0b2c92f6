------------------------------- MODULE MCBroker -------------------------------
(* Model values and bounds for checking Broker with TLC. *)
EXTENDS Broker, TLC

CONSTANT p1

(* One publisher calls twice, the others once. *)
TwoAndOne == [p \in Publishers |-> IF p = p1 THEN 2 ELSE 1]
===============================================================================
