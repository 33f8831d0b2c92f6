------------------------------ MODULE LossyFeeds ------------------------------
(***************************************************************************)
(* What the in-process broker promises to each of its subscribers: a feed  *)
(* that opens once, closes once, buffers at most Capacity updates, and may *)
(* miss updates but never invents one, repeats one, or shows the updates   *)
(* of one publisher out of order.  Broker.tla is shown to implement it.    *)
(***************************************************************************)
EXTENDS Naturals, Sequences

CONSTANTS Publishers,   \* goroutines that publish
          Subscribers,  \* subscriber goroutines, one channel each
          Capacity,     \* buffer of a subscriber's channel
          MaxPublish    \* bound: publications per publisher

VARIABLES accepted,     \* per subscriber, every update its channel ever took
          received,     \* per subscriber, how many of those it has read
          feed          \* per subscriber, "absent", "open" or "closed"

feedVars == <<accepted, received, feed>>

Update == [from : Publishers, seq : 0..MaxPublish]

(* u is later than everything its own publisher put in the sequence log.   *)
Fresh(u, log) ==
    \A i \in 1..Len(log) : log[i].from = u.from => log[i].seq < u.seq

FeedInit ==
    /\ accepted = [s \in Subscribers |-> <<>>]
    /\ received = [s \in Subscribers |-> 0]
    /\ feed = [s \in Subscribers |-> "absent"]

Open(s) ==
    /\ feed[s] = "absent"
    /\ feed' = [feed EXCEPT ![s] = "open"]
    /\ UNCHANGED <<accepted, received>>

Take(s, u) ==
    /\ feed[s] = "open"
    /\ Len(accepted[s]) - received[s] < Capacity
    /\ Fresh(u, accepted[s])
    /\ accepted' = [accepted EXCEPT ![s] = Append(@, u)]
    /\ UNCHANGED <<received, feed>>

Read(s) ==
    /\ feed[s] = "open"
    /\ received[s] < Len(accepted[s])
    /\ received' = [received EXCEPT ![s] = @ + 1]
    /\ UNCHANGED <<accepted, feed>>

Shut(s) ==
    /\ feed[s] = "open"
    /\ feed' = [feed EXCEPT ![s] = "closed"]
    /\ UNCHANGED <<accepted, received>>

FeedNext ==
    \E s \in Subscribers :
        \/ Open(s)
        \/ \E u \in Update : Take(s, u)
        \/ Read(s)
        \/ Shut(s)

FeedSpec == FeedInit /\ [][FeedNext]_feedVars
===============================================================================
