------------------------------ MODULE Multicast ------------------------------
(***************************************************************************)
(* What the progress sync promises: one feed of updates.  Who joins it is  *)
(* shown every later update, in the feed's order, each once, for as long   *)
(* as it stays; but while a reader is being greeted an update may be       *)
(* blurred to it, and from that one on nothing is promised to it.  What is *)
(* not taken into the feed is shown to nobody.                             *)
(***************************************************************************)
EXTENDS Naturals, Sequences

CONSTANTS Readers, Updates

VARIABLES feed,     \* the updates
          joined,   \* who is reading
          greeting, \* who is being greeted
          start,    \* updates that were over when each reader joined
          blurred,  \* readers that an update has been blurred to
          shown     \* what each reader has been shown, up to that one

vars == <<feed, joined, greeting, start, blurred, shown>>

Init ==
    /\ feed = <<>>
    /\ joined = {}
    /\ greeting = {}
    /\ start = [s \in Readers |-> 0]
    /\ blurred = {}
    /\ shown = [s \in Readers |-> <<>>]

Put(u) ==
    /\ feed' = Append(feed, u)
    /\ UNCHANGED <<joined, greeting, start, blurred, shown>>

Join(s, n) ==
    /\ s \notin joined
    /\ shown[s] = <<>>
    /\ joined' = joined \cup {s}
    /\ greeting' = greeting \cup {s}
    /\ start' = [start EXCEPT ![s] = n]
    /\ UNCHANGED <<feed, blurred, shown>>

Greeted(s) ==
    /\ greeting' = greeting \ {s}
    /\ UNCHANGED <<feed, joined, start, blurred, shown>>

Blur(s) ==
    /\ s \in greeting
    /\ blurred' = blurred \cup {s}
    /\ UNCHANGED <<feed, joined, greeting, start, shown>>

(* The next update after those s has been shown. *)
Position(s) == start[s] + Len(shown[s]) + 1

See(s) ==
    /\ s \in joined
    /\ Position(s) <= Len(feed)
    /\ shown' = [shown EXCEPT ![s] = Append(@, feed[Position(s)])]
    /\ UNCHANGED <<feed, joined, greeting, start, blurred>>

Leave(s) ==
    /\ joined' = joined \ {s}
    /\ greeting' = greeting \ {s}
    /\ UNCHANGED <<feed, start, blurred, shown>>

Next ==
    \/ \E u \in Updates : Put(u)
    \/ \E s \in Readers :
        \/ Greeted(s) \/ Blur(s) \/ See(s) \/ Leave(s)
        \/ \E n \in 0..Len(feed) : Join(s, n)

Spec == Init /\ [][Next]_vars

(* A reader that stays and has been blurred nothing is shown all there is. *)
FairSpec == Spec /\ \A s \in Readers : WF_vars(s \notin blurred /\ See(s))
===============================================================================
