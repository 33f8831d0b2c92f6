------------------------------ MODULE UserFeeds ------------------------------
(***************************************************************************)
(* What the TCP server promises to the sessions of several users, who      *)
(* share one feed: a session is shown its user's updates, from some point  *)
(* of the feed on, in order, each once and none left out, for as long as   *)
(* it is shown any.  How long that is nobody promises, and an update that  *)
(* comes while the session is still being greeted may be blurred: shown,   *)
(* shown twice or lost.                                                    *)
(***************************************************************************)
EXTENDS Naturals, Sequences

CONSTANTS Readers, Users,
          User     \* whose updates each reader is shown

VARIABLES feed,     \* the updates: whose they are
          joined,   \* who is reading
          greeting, \* who is still being greeted
          start,    \* updates that were over when each reader joined
          blurred,  \* the positions of those that were blurred for it
          shown     \* the positions of those it was shown, one by one

feedVars == <<feed, joined, greeting, start, blurred, shown>>

FeedInit ==
    /\ feed = <<>>
    /\ joined = {}
    /\ greeting = {}
    /\ start = [s \in Readers |-> 0]
    /\ blurred = [s \in Readers |-> {}]
    /\ shown = [s \in Readers |-> <<>>]

Put(u) ==
    /\ feed' = Append(feed, u)
    /\ UNCHANGED <<joined, greeting, start, blurred, shown>>

Join(s) ==
    /\ s \notin joined
    /\ shown[s] = <<>>
    /\ joined' = joined \cup {s}
    /\ greeting' = greeting \cup {s}
    /\ \E n \in 0..Len(feed) : start' = [start EXCEPT ![s] = n]
    /\ UNCHANGED <<feed, blurred, shown>>

WasShown(s, k) == \E i \in 1..Len(shown[s]) : shown[s][i] = k

(* k is its user's, and later than all that s was shown. *)
IsLater(s, k) ==
    /\ k > start[s]
    /\ feed[k] = User[s]
    /\ \A i \in 1..Len(shown[s]) : shown[s][i] < k

(* Only greeting blurs, and it may start before the update's end. *)
Greet(s) ==
    /\ s \in greeting
    /\ greeting' \in {greeting, greeting \ {s}}
    /\ \/ UNCHANGED blurred
       \/ \E k \in 1..Len(feed) :
             IsLater(s, k) /\ blurred' = [blurred EXCEPT ![s] = @ \cup {k}]
    /\ UNCHANGED <<feed, joined, start, shown>>

(* The next update is shown: all between were blurred. *)
See(s) ==
    /\ s \in joined
    /\ \E k \in (1..Len(feed)) \ blurred[s] :
          /\ IsLater(s, k)
          /\ \A j \in start[s] + 1..k - 1 :
                feed[j] = User[s] => WasShown(s, j) \/ j \in blurred[s]
          /\ shown' = [shown EXCEPT ![s] = Append(@, k)]
    /\ UNCHANGED <<feed, joined, greeting, start, blurred>>

(* One reader leaves, or all do. *)
Leave ==
    /\ joined' \subseteq joined
    /\ UNCHANGED <<feed, greeting, start, blurred, shown>>

FeedNext ==
    \/ \E u \in Users : Put(u)
    \/ \E s \in Readers : Join(s) \/ Greet(s) \/ See(s)
    \/ Leave

FeedSpec == FeedInit /\ [][FeedNext]_feedVars
===============================================================================
