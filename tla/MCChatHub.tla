------------------------------ MODULE MCChatHub ------------------------------
(* Rooms, bounds and model values for checking ChatHub with TLC. *)
EXTENDS ChatHub, TLC

CONSTANTS r1, c0, c1

(* Everyone asks for the same room. *)
OneRoom == [c \in Clients |-> r1]

(* Nobody speaks; c1 says one thing, c0 has said two. *)
Silence == [c \in Clients |-> 0]
OneFromC1 == [c \in Clients |-> CASE c = c0 -> 2 [] c = c1 -> 1 [] OTHER -> 0]

(* Rows of c0. *)
NoRows == [r \in Rooms |-> <<>>]
TwoRows == [r \in Rooms |-> <<[from |-> c0, seq |-> 1], [from |-> c0, seq |-> 2]>>]

===============================================================================
