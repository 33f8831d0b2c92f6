----------------------------- MODULE MCTcpServer -----------------------------
(* Users, model values and symmetry for checking TcpServer with TLC. *)
EXTENDS TcpServer, TLC

CONSTANTS c2, u1, u2

(* Everyone is u1's session, or c2 is u2's. *)
SameUser == [c \in Conns |-> u1]
TwoUsers == [c \in Conns |-> IF c = c2 THEN u2 ELSE u1]

Symmetry == Permutations(Conns)
===============================================================================
