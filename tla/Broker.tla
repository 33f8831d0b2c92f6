-------------------------------- MODULE Broker --------------------------------
(***************************************************************************)
(* The in-process publish/subscribe bus of pkg/protocol/broker.go.  Its    *)
(* progress half (SubscribeProgress, UnsubscribeProgress, PublishProgress) *)
(* and its notification half are the same code over two element types; the *)
(* names below are those of the progress half.                             *)
(*                                                                         *)
(* A publisher is a goroutine that calls PublishProgress: an HTTP or gRPC  *)
(* handler, or the reader of a TCP connection.  A subscriber is the        *)
(* broadcastLoop goroutine of a server; it owns one channel, so channels   *)
(* and subscribers are identified.  The mutex is a Go sync.RWMutex: a      *)
(* goroutine blocked in Lock keeps later RLock calls waiting.              *)
(***************************************************************************)
EXTENDS Naturals, Sequences, FiniteSets

CONSTANTS Publishers,   \* goroutines that publish
          Subscribers,  \* subscriber goroutines, one channel each
          Capacity,     \* 64 in the code
          MaxPublish,   \* bound: publications per publisher
          Calls         \* bound: how many of them each publisher makes

ASSUME BrokerAssumption ==
    /\ Capacity \in Nat \ {0}
    /\ MaxPublish \in Nat
    /\ Calls \in [Publishers -> 0..MaxPublish]

VARIABLES progressSubs, \* the map of registered channels
          phase,        \* where each subscriber is in its life
          accepted,     \* per channel, every update it ever took, in order
          received,     \* per channel, how many of them were received
          pub,          \* where each publisher is in PublishProgress
          published,    \* per publisher, the number of calls begun
          todo,         \* per publisher, the channels its loop has yet to visit
          since         \* history: published when the subscriber registered

vars == <<progressSubs, phase, accepted, received, pub, published, todo, since>>

subscriberVars == <<progressSubs, phase, received, since>>
publisherVars == <<pub, published, todo>>

Phases == {"fresh", "joining", "open", "leaving", "removed", "closed"}

(* The n-th call of publisher p carries the update [from |-> p, seq |-> n]. *)
Update == [from : Publishers, seq : 0..MaxPublish]
CurrentUpdate(p) == [from |-> p, seq |-> published[p]]

(* Updates sitting in the channel's buffer. *)
Buffered(s) == Len(accepted[s]) - received[s]

-------------------------------------------------------------------------------
(* sync.RWMutex b.mu: readers are in their loop, a waiting writer holds    *)
(* off new readers, and the writers' sections are single steps.            *)

Readers == {p \in Publishers : pub[p] = "sending"}
WaitingWriters == {s \in Subscribers : phase[s] \in {"joining", "leaving"}}

CanRLock == WaitingWriters = {}
CanLock == Readers = {}

-------------------------------------------------------------------------------
Init ==
    /\ progressSubs = {}
    /\ phase = [s \in Subscribers |-> "fresh"]
    /\ accepted = [s \in Subscribers |-> <<>>]
    /\ received = [s \in Subscribers |-> 0]
    /\ pub = [p \in Publishers |-> "idle"]
    /\ published = [p \in Publishers |-> 0]
    /\ todo = [p \in Publishers |-> {}]
    /\ since = [s \in Subscribers |-> [p \in Publishers |-> 0]]

(* broadcastLoop starts: the channel is made and b.mu.Lock() is called. *)
CallSubscribe(s) ==
    /\ phase[s] = "fresh"
    /\ phase' = [phase EXCEPT ![s] = "joining"]
    /\ UNCHANGED <<progressSubs, accepted, received, since, publisherVars>>

SubscribeProgress(s) ==
    /\ phase[s] = "joining"
    /\ CanLock
    /\ progressSubs' = progressSubs \cup {s}
    /\ phase' = [phase EXCEPT ![s] = "open"]
    /\ since' = [since EXCEPT ![s] = published]
    /\ UNCHANGED <<accepted, received, publisherVars>>

Receive(s) ==
    /\ phase[s] = "open"
    /\ Buffered(s) > 0
    /\ received' = [received EXCEPT ![s] = @ + 1]
    /\ UNCHANGED <<progressSubs, phase, accepted, since, publisherVars>>

(* The stop channel is closed: the deferred unsubscription calls Lock. *)
CallUnsubscribe(s) ==
    /\ phase[s] = "open"
    /\ phase' = [phase EXCEPT ![s] = "leaving"]
    /\ UNCHANGED <<progressSubs, accepted, received, since, publisherVars>>

(* Mutant: the entry is deleted without taking the lock. *)
UnlockedUnsubscribe(s) ==
    /\ phase[s] = "leaving"
    /\ progressSubs' = progressSubs \ {s}
    /\ phase' = [phase EXCEPT ![s] = "removed"]
    /\ UNCHANGED <<accepted, received, since, publisherVars>>

UnsubscribeProgress(s) ==
    /\ phase[s] = "leaving"
    /\ CanLock
    /\ progressSubs' = progressSubs \ {s}
    /\ phase' = [phase EXCEPT ![s] = "removed"]
    /\ UNCHANGED <<accepted, received, since, publisherVars>>

(* close(ch), after b.mu has been released. *)
CloseChannel(s) ==
    /\ phase[s] = "removed"
    /\ phase' = [phase EXCEPT ![s] = "closed"]
    /\ UNCHANGED <<progressSubs, accepted, received, since, publisherVars>>

-------------------------------------------------------------------------------
CallPublish(p) ==
    /\ pub[p] = "idle"
    /\ published[p] < Calls[p]
    /\ pub' = [pub EXCEPT ![p] = "calling"]
    /\ published' = [published EXCEPT ![p] = @ + 1]
    /\ UNCHANGED <<todo, accepted, subscriberVars>>

(* Mutant: the loop stops after the first channel. *)
PublishToFirst(p) ==
    /\ pub[p] = "calling"
    /\ CanRLock
    /\ pub' = [pub EXCEPT ![p] = "sending"]
    /\ IF progressSubs = {}
           THEN todo' = [todo EXCEPT ![p] = {}]
           ELSE \E s \in progressSubs : todo' = [todo EXCEPT ![p] = {s}]
    /\ UNCHANGED <<published, accepted, subscriberVars>>

(* RLock is granted and the range loop starts over the registered channels. *)
PublishProgress(p) ==
    /\ pub[p] = "calling"
    /\ CanRLock
    /\ pub' = [pub EXCEPT ![p] = "sending"]
    /\ todo' = [todo EXCEPT ![p] = progressSubs]
    /\ UNCHANGED <<published, accepted, subscriberVars>>

(* Mutant: the channel takes the publisher's next update, not this one. *)
OfferNext(p, s) ==
    /\ pub[p] = "sending"
    /\ s \in todo[p]
    /\ Buffered(s) < Capacity
    /\ accepted' = [accepted EXCEPT ![s] = Append(@, [from |-> p,
                                                      seq |-> published[p] + 1])]
    /\ todo' = [todo EXCEPT ![p] = @ \ {s}]
    /\ UNCHANGED <<pub, published, subscriberVars>>

(* Mutant: the channel is not struck off the loop, and is offered again. *)
OfferAgain(p, s) ==
    /\ pub[p] = "sending"
    /\ s \in todo[p]
    /\ Buffered(s) < Capacity
    /\ accepted' = [accepted EXCEPT ![s] = Append(@, CurrentUpdate(p))]
    /\ UNCHANGED <<pub, published, todo, subscriberVars>>

(* case ch <- p *)
Offer(p, s) ==
    /\ pub[p] = "sending"
    /\ s \in todo[p]
    /\ Buffered(s) < Capacity
    /\ accepted' = [accepted EXCEPT ![s] = Append(@, CurrentUpdate(p))]
    /\ todo' = [todo EXCEPT ![p] = @ \ {s}]
    /\ UNCHANGED <<pub, published, subscriberVars>>

(* Mutant: no default branch, a full channel blocks the publisher. *)
DropNever(p, s) ==
    /\ FALSE
    /\ s \in todo[p]
    /\ UNCHANGED vars

(* default: the buffer is full, the update is dropped for this channel. *)
Drop(p, s) ==
    /\ pub[p] = "sending"
    /\ s \in todo[p]
    /\ Buffered(s) = Capacity
    /\ todo' = [todo EXCEPT ![p] = @ \ {s}]
    /\ UNCHANGED <<accepted, pub, published, subscriberVars>>

(* The loop is over: the deferred RUnlock runs and the call returns. *)
PublishReturn(p) ==
    /\ pub[p] = "sending"
    /\ todo[p] = {}
    /\ pub' = [pub EXCEPT ![p] = "idle"]
    /\ UNCHANGED <<published, todo, accepted, subscriberVars>>

-------------------------------------------------------------------------------
SubscriberStep(s) ==
    \/ CallSubscribe(s)
    \/ SubscribeProgress(s)
    \/ Receive(s)
    \/ CallUnsubscribe(s)
    \/ UnsubscribeProgress(s)
    \/ CloseChannel(s)

PublisherStep(p) ==
    \/ CallPublish(p)
    \/ PublishProgress(p)
    \/ \E s \in Subscribers : Offer(p, s) \/ Drop(p, s)
    \/ PublishReturn(p)

Next ==
    \/ \E s \in Subscribers : SubscriberStep(s)
    \/ \E p \in Publishers : PublisherStep(p)

Spec == Init /\ [][Next]_vars

(* A goroutine inside the broker keeps running and its lock is granted     *)
(* when free.  Nobody is obliged to publish, to subscribe, to stop, or,    *)
(* above all, to receive.                                                  *)
BrokerFairness ==
    /\ \A s \in Subscribers :
        WF_vars(SubscribeProgress(s) \/ UnsubscribeProgress(s))
    /\ \A p \in Publishers :
        WF_vars(\/ PublishProgress(p)
                \/ \E s \in Subscribers : Offer(p, s) \/ Drop(p, s)
                \/ PublishReturn(p))

FairSpec == Spec /\ BrokerFairness

-------------------------------------------------------------------------------
TypeOK ==
    /\ progressSubs \subseteq Subscribers
    /\ phase \in [Subscribers -> Phases]
    /\ accepted \in [Subscribers -> Seq(Update)]
    /\ received \in [Subscribers -> Nat]
    /\ pub \in [Publishers -> {"idle", "calling", "sending"}]
    /\ published \in [Publishers -> 0..MaxPublish]
    /\ todo \in [Publishers -> SUBSET Subscribers]
    /\ since \in [Subscribers -> [Publishers -> 0..MaxPublish]]

(* A channel is closed outside the lock, while publishers may be ranging   *)
(* over the map: no loop may still have a closed channel ahead of it, for  *)
(* a send on a closed channel panics (UnsubscribeProgress, broker.go).     *)
NoSendOnClosed ==
    \A p \in Publishers : \A s \in todo[p] : phase[s] # "closed"

(* Whatever the interleaving of the publishers' loops, a channel holds     *)
(* each publisher's updates in the order published and at most once.       *)
PublisherOrder ==
    \A s \in Subscribers : \A i, j \in 1..Len(accepted[s]) :
        i < j /\ accepted[s][i].from = accepted[s][j].from
            => accepted[s][i].seq < accepted[s][j].seq

(* A call that has returned, made after s registered, put its update in    *)
(* the channel of s, unless that channel has been full: the first          *)
(* Capacity updates after registration are never lost.                     *)
Returned(p, n) ==
    \/ n < published[p]
    \/ n = published[p] /\ pub[p] = "idle"

Took(s, p, n) ==
    \E i \in 1..Len(accepted[s]) : accepted[s][i] = [from |-> p, seq |-> n]

NoSilentLoss ==
    \A s \in progressSubs, p \in Publishers, n \in 1..MaxPublish :
        since[s][p] < n /\ Returned(p, n)
            => Took(s, p, n) \/ Len(accepted[s]) >= Capacity

(* A call to PublishProgress returns even if no subscriber ever receives:  *)
(* neither a full channel nor a goroutine waiting for the lock blocks it.  *)
PublishReturns ==
    \A p \in Publishers : pub[p] # "idle" ~> pub[p] = "idle"

-------------------------------------------------------------------------------
(* Each subscriber's feed, as LossyFeeds describes it. *)
feed == [s \in Subscribers |->
            CASE phase[s] \in {"fresh", "joining"} -> "absent"
              [] phase[s] \in {"open", "leaving"} -> "open"
              [] OTHER -> "closed"]

Feeds == INSTANCE LossyFeeds WITH
            accepted <- accepted,
            received <- received,
            feed <- feed

(* The broker implements a lossy FIFO feed per subscriber. *)
FeedsSpec == Feeds!FeedSpec
===============================================================================
