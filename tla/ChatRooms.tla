------------------------------ MODULE ChatRooms ------------------------------
(***************************************************************************)
(* What the chat hub promises about what a connection is shown.  A         *)
(* newcomer is shown rows of its room, in their order and before its own   *)
(* join; whoever is in the room is shown what others of the room do, each  *)
(* of it at most once and never older after newer; whoever has left is     *)
(* shown nothing any more.  That nothing is left out is not promised here. *)
(***************************************************************************)
EXTENDS Naturals, Sequences

CONSTANTS Guests, Places,
          Place     \* the room each guest asked for

VARIABLES stage,    \* out, in, leaving (off the list, still shown things), left;
                    \* or former, for who was there before
          spoken,   \* messages of each guest
          rows,     \* per room, the messages that were stored
          feed      \* what each guest was shown

roomVars == <<stage, spoken, rows, feed>>

(* What has been stored before is left open, and so are guests of before. *)
RoomsInit ==
    /\ stage \in [Guests -> {"out", "former"}]
    /\ \A g \in Guests : stage[g] = "out" => spoken[g] = 0
    /\ feed = [g \in Guests |-> <<>>]

(* What a guest did last: it joined, spoke, or left. *)
LastAct(g) ==
    CASE stage[g] = "left" -> [kind |-> "leave", from |-> g, seq |-> spoken[g] + 1]
      [] stage[g] # "left" /\ spoken[g] = 0 ->
            [kind |-> "join", from |-> g, seq |-> 0]
      [] OTHER -> [kind |-> "message", from |-> g, seq |-> spoken[g]]

Move(g, from, to) ==
    /\ stage[g] = from
    /\ stage' = [stage EXCEPT ![g] = to]
    /\ UNCHANGED <<spoken, rows, feed>>

(* A message may fail to be stored. *)
Speak(g) ==
    /\ stage[g] = "in"
    /\ spoken' = [spoken EXCEPT ![g] = @ + 1]
    /\ \/ rows' = [rows EXCEPT ![Place[g]] =
                      Append(@, [from |-> g, seq |-> spoken[g] + 1])]
       \/ UNCHANGED rows
    /\ UNCHANGED <<stage, feed>>

(* Row k comes after what g was shown of the rows, and g has not joined in *)
(* its own eyes.                                                           *)
IsNextRow(g, k) ==
    \A i \in 1..Len(feed[g]) :
        /\ ~(feed[g][i].kind = "join" /\ feed[g][i].from = g)
        /\ feed[g][i].kind = "history" =>
              \E j \in 1..k - 1 :
                  rows[Place[g]][j] = [from |-> feed[g][i].from,
                                       seq |-> feed[g][i].seq]

ShowRow(g) ==
    /\ stage[g] = "in"
    /\ \E k \in 1..Len(rows[Place[g]]) :
          /\ IsNextRow(g, k)
          /\ feed' = [feed EXCEPT ![g] =
                         Append(@, [kind |-> "history",
                                    from |-> rows[Place[g]][k].from,
                                    seq |-> rows[Place[g]][k].seq])]
    /\ UNCHANGED <<stage, spoken, rows>>

(* g has not seen what h did last, nor anything later of h. *)
IsNews(g, h) ==
    \A i \in 1..Len(feed[g]) :
        feed[g][i].kind # "history" /\ feed[g][i].from = h =>
            feed[g][i].seq < LastAct(h).seq

ShowAct(g, h) ==
    /\ Place[g] = Place[h]
    /\ stage[g] \in {"in", "leaving"}
    /\ stage[h] \in {"in", "left"}
    /\ IsNews(g, h)
    /\ feed' = [feed EXCEPT ![g] = Append(@, LastAct(h))]
    /\ UNCHANGED <<stage, spoken, rows>>

RoomsNext ==
    \E g \in Guests :
        \/ Move(g, "out", "in")
        \/ Move(g, "in", "leaving")
        \/ Move(g, "leaving", "left")
        \/ Speak(g)
        \/ ShowRow(g)
        \/ \E h \in Guests : ShowAct(g, h)

RoomsSpec == RoomsInit /\ [][RoomsNext]_roomVars
===============================================================================
