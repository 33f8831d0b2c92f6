----------------------------- MODULE MailingList ------------------------------
(***************************************************************************)
(* What the UDP server promises to the addresses on its list: the notices  *)
(* go out one after the other, each to those on the list at one moment,    *)
(* once to each and to nobody else, and none is left out while the line is *)
(* up, except that a flaky reader may miss any of them.  The line goes up  *)
(* once and down once; what is sent then is lost.                          *)
(***************************************************************************)
EXTENDS Naturals, Sequences

CONSTANTS Readers, Notices,
          Flaky    \* the readers a notice may not get through to

VARIABLES feed,    \* the notices
          listed,  \* who is on the list
          round,   \* how many notices have gone out
          due,     \* who is still to get the last of them
          got,     \* the notices sent to each reader, by their number
          line     \* "new", "up" or "down"

listVars == <<feed, listed, round, due, got, line>>

ListInit ==
    /\ feed = <<>>
    /\ listed = {}
    /\ round = 0
    /\ due = {}
    /\ got = [a \in Readers |-> <<>>]
    /\ line = "new"

(* The line, the list and the feed change while a notice goes out.         *)
Turn ==
    /\ \/ line = "new" /\ line' = "up"
       \/ line = "up" /\ line' = "down"
    /\ UNCHANGED <<feed, listed, round, due, got>>

Enrol(a) ==
    /\ line = "up"
    /\ listed' \in {listed \cup {a}, listed \ {a}}
    /\ UNCHANGED <<feed, round, due, got, line>>

Put(g) ==
    /\ feed' = Append(feed, g)
    /\ UNCHANGED <<listed, round, due, got, line>>

(* The next notice, when the last one is out. *)
Mail ==
    /\ due = {}
    /\ round < Len(feed)
    /\ round' = round + 1
    /\ due' = listed
    /\ UNCHANGED <<feed, listed, got, line>>

Deliver(a) ==
    /\ a \in due
    /\ due' = due \ {a}
    /\ \/ line = "up" /\ got' = [got EXCEPT ![a] = Append(@, round)]
       \/ (line # "up" \/ a \in Flaky) /\ UNCHANGED got
    /\ UNCHANGED <<feed, listed, round, line>>

ListNext ==
    \/ Turn
    \/ Mail
    \/ \E g \in Notices : Put(g)
    \/ \E a \in Readers : Enrol(a) \/ Deliver(a)

ListSpec == ListInit /\ [][ListNext]_listVars
===============================================================================
