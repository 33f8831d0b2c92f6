----------------------------- MODULE BrokerProofs -----------------------------
(***************************************************************************)
(* Proofs about Broker: its type invariant, the absence of sends on closed *)
(* channels, per-publisher order, bounded loss, that whoever waits for the *)
(* lock waits for somebody who does not wait, that a channel holds nothing *)
(* older than its registration, and the refinement of the lossy feeds; for *)
(* any number of publishers and subscribers, any channel capacity and any  *)
(* number of publications.                                                 *)
(***************************************************************************)
EXTENDS Broker, TLAPS

(* A publisher ranges only while it holds the read lock, and only over     *)
(* channels that are still registered.                                     *)
LoopUnderLock ==
    \A p \in Publishers :
        /\ todo[p] \subseteq progressSubs
        /\ pub[p] # "sending" => todo[p] = {}

(* The map holds exactly the channels of subscribers that are inside their *)
(* subscription.                                                           *)
Registered ==
    \A s \in Subscribers : s \in progressSubs <=> phase[s] \in {"open", "leaving"}

BufferBound ==
    \A s \in Subscribers :
        /\ received[s] <= Len(accepted[s])
        /\ Buffered(s) <= Capacity

(* p has still to offer its current update to s. *)
Owes(p, s) == pub[p] = "calling" \/ s \in todo[p]

(* A channel holds no update its publisher has not published, nor the one  *)
(* its publisher has still to offer.                                       *)
NothingAhead ==
    \A s \in Subscribers : \A i \in 1..Len(accepted[s]) :
        LET u == accepted[s][i]
        IN  /\ u.seq <= published[u.from]
            /\ Owes(u.from, s) => u.seq < published[u.from]

(* NoSilentLoss, for calls still running that are past the channel of s.   *)
Passed(s, p, n) ==
    \/ n < published[p]
    \/ n = published[p] /\ ~Owes(p, s)

LossBound ==
    \A s \in progressSubs, p \in Publishers, n \in 1..MaxPublish :
        since[s][p] < n /\ Passed(s, p, n)
            => Took(s, p, n) \/ Len(accepted[s]) >= Capacity

IInv ==
    /\ TypeOK
    /\ LoopUnderLock
    /\ Registered
    /\ BufferBound
    /\ NothingAhead
    /\ PublisherOrder
    /\ LossBound

-------------------------------------------------------------------------------
(* Appending to a sequence leaves its elements in place. *)
LEMMA AppendElements ==
    ASSUME NEW S, NEW log \in Seq(S), NEW u \in S
    PROVE  /\ Append(log, u) \in Seq(S)
           /\ Len(Append(log, u)) = Len(log) + 1
           /\ \A i \in 1..Len(log) : Append(log, u)[i] = log[i]
           /\ Append(log, u)[Len(log) + 1] = u
  OBVIOUS

(* Every step keeps the types. *)
LEMMA TypeStep ==
    ASSUME TypeOK, [Next]_vars
    PROVE  TypeOK'
<1> USE BrokerAssumption DEF TypeOK, Phases, subscriberVars, publisherVars
<1>1. ASSUME NEW s \in Subscribers, SubscriberStep(s)
      PROVE  TypeOK'
  <2>1. CASE CallSubscribe(s)
    BY <2>1 DEF CallSubscribe
  <2>2. CASE SubscribeProgress(s)
    BY <2>2 DEF SubscribeProgress
  <2>3. CASE Receive(s)
    BY <2>3 DEF Receive
  <2>4. CASE CallUnsubscribe(s)
    BY <2>4 DEF CallUnsubscribe
  <2>5. CASE UnsubscribeProgress(s)
    BY <2>5 DEF UnsubscribeProgress
  <2>6. CASE CloseChannel(s)
    BY <2>6 DEF CloseChannel
  <2> QED
    BY <1>1, <2>1, <2>2, <2>3, <2>4, <2>5, <2>6 DEF SubscriberStep
<1>2. ASSUME NEW p \in Publishers, PublisherStep(p)
      PROVE  TypeOK'
  <2>1. CASE CallPublish(p)
    BY <2>1 DEF CallPublish
  <2>2. CASE PublishProgress(p)
    BY <2>2 DEF PublishProgress
  <2>3. ASSUME NEW s \in Subscribers, Offer(p, s)
        PROVE  TypeOK'
    <3>1. CurrentUpdate(p) \in Update
      BY <2>3 DEF Offer, CurrentUpdate, Update
    <3>2. Append(accepted[s], CurrentUpdate(p)) \in Seq(Update)
      BY <3>1, AppendElements
    <3> QED
      BY <2>3, <3>2 DEF Offer
  <2>4. ASSUME NEW s \in Subscribers, Drop(p, s)
        PROVE  TypeOK'
    BY <2>4 DEF Drop
  <2>5. CASE PublishReturn(p)
    BY <2>5 DEF PublishReturn
  <2> QED
    BY <1>2, <2>1, <2>2, <2>3, <2>4, <2>5 DEF PublisherStep
<1>3. CASE UNCHANGED vars
  BY <1>3 DEF vars
<1> QED
  BY <1>1, <1>2, <1>3 DEF Next

(* Every variable of the broker keeps its type. *)
THEOREM TypeCorrect == Spec => []TypeOK
<1>1. Init => TypeOK
  BY BrokerAssumption DEF Init, TypeOK, Phases
<1> QED
  BY <1>1, TypeStep, PTL DEF Spec

-------------------------------------------------------------------------------
LEMMA InitIInv == Init => IInv
<1> SUFFICES ASSUME Init PROVE IInv
  OBVIOUS
<1>1. TypeOK
  BY BrokerAssumption DEF Init, TypeOK, Phases
<1>2. LoopUnderLock /\ Registered
  BY DEF Init, LoopUnderLock, Registered
<1>3. \A s \in Subscribers : Len(accepted[s]) = 0
  BY DEF Init
<1>4. BufferBound
  BY <1>3, BrokerAssumption DEF Init, BufferBound, Buffered
<1>5. NothingAhead /\ PublisherOrder
  BY <1>3 DEF NothingAhead, PublisherOrder
<1>6. LossBound
  BY DEF Init, LossBound
<1> QED
  BY <1>1, <1>2, <1>4, <1>5, <1>6 DEF IInv

(* Removing a channel needs the write lock, so no loop is under way. *)
LEMMA LockStep ==
    ASSUME TypeOK, LoopUnderLock, Registered, [Next]_vars
    PROVE  LoopUnderLock' /\ Registered'
<1> USE DEF TypeOK, Phases, LoopUnderLock, Registered,
            subscriberVars, publisherVars
<1>1. ASSUME NEW s \in Subscribers, SubscriberStep(s)
      PROVE  LoopUnderLock' /\ Registered'
  <2>1. CASE CallSubscribe(s)
    BY <2>1 DEF CallSubscribe
  <2>2. CASE SubscribeProgress(s)
    BY <2>2 DEF SubscribeProgress
  <2>3. CASE Receive(s)
    BY <2>3 DEF Receive
  <2>4. CASE CallUnsubscribe(s)
    BY <2>4 DEF CallUnsubscribe
  <2>5. CASE UnsubscribeProgress(s)
    <3>1. \A p \in Publishers : todo[p] = {}
      BY <2>5 DEF UnsubscribeProgress, CanLock, Readers
    <3> QED
      BY <2>5, <3>1 DEF UnsubscribeProgress
  <2>6. CASE CloseChannel(s)
    BY <2>6 DEF CloseChannel
  <2> QED
    BY <1>1, <2>1, <2>2, <2>3, <2>4, <2>5, <2>6 DEF SubscriberStep
<1>2. ASSUME NEW p \in Publishers, PublisherStep(p)
      PROVE  LoopUnderLock' /\ Registered'
  <2>1. CASE CallPublish(p)
    BY <2>1 DEF CallPublish
  <2>2. CASE PublishProgress(p)
    BY <2>2 DEF PublishProgress
  <2>3. ASSUME NEW s \in Subscribers, Offer(p, s) \/ Drop(p, s)
        PROVE  LoopUnderLock' /\ Registered'
    <3>1. todo' = [todo EXCEPT ![p] = @ \ {s}]
      BY <2>3 DEF Offer, Drop
    <3>2. UNCHANGED <<pub, progressSubs, phase>>
      BY <2>3 DEF Offer, Drop
    <3> QED
      BY <3>1, <3>2
  <2>4. CASE PublishReturn(p)
    BY <2>4 DEF PublishReturn
  <2> QED
    BY <1>2, <2>1, <2>2, <2>3, <2>4 DEF PublisherStep
<1>3. CASE UNCHANGED vars
  BY <1>3 DEF vars
<1> QED
  BY <1>1, <1>2, <1>3 DEF Next
(* What a step does to the channels and to the publishers' counters: the   *)
(* case analysis shared by the remaining conjuncts of IInv.                *)
LEMMA ChannelStep ==
    ASSUME TypeOK, LoopUnderLock, [Next]_vars
    PROVE  \/ \E p \in Publishers, s \in Subscribers : Offer(p, s)
           \/ /\ accepted' = accepted
              /\ \E s \in Subscribers : Receive(s)
           \/ /\ UNCHANGED <<accepted, received, published>>
              /\ \/ \E s \in Subscribers :
                       \/ SubscribeProgress(s)
                       \/ UnsubscribeProgress(s)
                 \/ \E p \in Publishers :
                       \/ PublishProgress(p)
                       \/ PublishReturn(p)
                       \/ \E s \in Subscribers : Drop(p, s)
                 \/ UNCHANGED <<progressSubs, pub, todo, since>>
           \/ /\ UNCHANGED <<accepted, received>>
              /\ \E p \in Publishers : CallPublish(p)
<1> USE DEF subscriberVars, publisherVars
<1>1. ASSUME NEW s \in Subscribers, CallSubscribe(s)
      PROVE  UNCHANGED <<accepted, received, published, progressSubs, pub, todo, since>>
  BY <1>1 DEF CallSubscribe
<1>2. ASSUME NEW s \in Subscribers, CallUnsubscribe(s)
      PROVE  UNCHANGED <<accepted, received, published, progressSubs, pub, todo, since>>
  BY <1>2 DEF CallUnsubscribe
<1>3. ASSUME NEW s \in Subscribers, CloseChannel(s)
      PROVE  UNCHANGED <<accepted, received, published, progressSubs, pub, todo, since>>
  BY <1>3 DEF CloseChannel
<1>4. ASSUME NEW s \in Subscribers, SubscribeProgress(s) \/ UnsubscribeProgress(s)
      PROVE  UNCHANGED <<accepted, received, published>>
  BY <1>4 DEF SubscribeProgress, UnsubscribeProgress
<1>5. ASSUME NEW s \in Subscribers, Receive(s)
      PROVE  accepted' = accepted
  BY <1>5 DEF Receive
<1>6. ASSUME NEW p \in Publishers, PublishProgress(p) \/ PublishReturn(p)
      PROVE  UNCHANGED <<accepted, received, published>>
  BY <1>6 DEF PublishProgress, PublishReturn
<1>7. ASSUME NEW p \in Publishers, NEW s \in Subscribers, Drop(p, s)
      PROVE  UNCHANGED <<accepted, received, published>>
  BY <1>7 DEF Drop
<1>8. ASSUME NEW p \in Publishers, CallPublish(p)
      PROVE  UNCHANGED <<accepted, received>>
  BY <1>8 DEF CallPublish
<1>9. CASE UNCHANGED vars
  BY <1>9 DEF vars
<1> QED
  BY <1>1, <1>2, <1>3, <1>4, <1>5, <1>6, <1>7, <1>8, <1>9
  DEF Next, SubscriberStep, PublisherStep

(* What an offer that is taken does to the channel. *)
LEMMA OfferStep ==
    ASSUME TypeOK, NEW p \in Publishers, NEW s \in Subscribers, Offer(p, s)
    PROVE  /\ Len(accepted'[s]) = Len(accepted[s]) + 1
           /\ \A i \in 1..Len(accepted[s]) : accepted'[s][i] = accepted[s][i]
           /\ accepted'[s][Len(accepted[s]) + 1] = CurrentUpdate(p)
           /\ \A t \in Subscribers \ {s} : accepted'[t] = accepted[t]
           /\ UNCHANGED <<received, published, pub, progressSubs, since>>
           /\ todo' = [todo EXCEPT ![p] = @ \ {s}]
           /\ pub[p] = "sending" /\ s \in todo[p] /\ Buffered(s) < Capacity
<1>1. CurrentUpdate(p) \in Update
  BY DEF TypeOK, CurrentUpdate, Update
<1>2. accepted[s] \in Seq(Update)
  BY DEF TypeOK
<1>3. /\ accepted'[s] = Append(accepted[s], CurrentUpdate(p))
      /\ \A t \in Subscribers \ {s} : accepted'[t] = accepted[t]
  BY DEF Offer, TypeOK
<1>4. /\ UNCHANGED <<received, published, pub, progressSubs, since>>
      /\ todo' = [todo EXCEPT ![p] = @ \ {s}]
      /\ pub[p] = "sending" /\ s \in todo[p] /\ Buffered(s) < Capacity
  BY DEF Offer, subscriberVars
<1> QED
  BY <1>1, <1>2, <1>3, <1>4, AppendElements

(* The buffer of a channel never exceeds its capacity. *)
LEMMA BufferStep ==
    ASSUME TypeOK, LoopUnderLock, BufferBound, [Next]_vars
    PROVE  BufferBound'
<1> USE BrokerAssumption DEF BufferBound, Buffered
<1>0. \A s \in Subscribers : Len(accepted[s]) \in Nat /\ received[s] \in Nat
  BY DEF TypeOK
<1>1. ASSUME NEW p \in Publishers, NEW s \in Subscribers, Offer(p, s)
      PROVE  BufferBound'
  BY <1>0, <1>1, OfferStep
<1>2. ASSUME NEW s \in Subscribers, Receive(s)
      PROVE  BufferBound'
  BY <1>0, <1>2 DEF Receive, TypeOK
<1>3. CASE UNCHANGED <<accepted, received>>
  BY <1>3
<1> QED
  BY <1>1, <1>2, <1>3, ChannelStep
(* Channels hold only published updates, and the one a publisher is still  *)
(* handing out is newer than those of its own they already hold.           *)
LEMMA AheadStep ==
    ASSUME TypeOK, LoopUnderLock, NothingAhead, [Next]_vars
    PROVE  NothingAhead'
<1>0. /\ \A s \in Subscribers : accepted[s] \in Seq(Update)
      /\ \A s \in Subscribers : \A i \in 1..Len(accepted[s]) :
            accepted[s][i].from \in Publishers /\ accepted[s][i].seq \in Nat
      /\ \A p \in Publishers : published[p] \in Nat
  <2>1. ASSUME NEW s \in Subscribers
        PROVE  /\ accepted[s] \in Seq(Update)
               /\ \A i \in 1..Len(accepted[s]) : accepted[s][i] \in Update
    BY DEF TypeOK
  <2>2. \A u \in Update : u.from \in Publishers /\ u.seq \in Nat
    BY BrokerAssumption DEF Update
  <2>3. \A p \in Publishers : published[p] \in Nat
    BY BrokerAssumption DEF TypeOK
  <2> QED
    BY <2>1, <2>2, <2>3
<1>1. ASSUME NEW p \in Publishers, NEW s \in Subscribers, Offer(p, s)
      PROVE  NothingAhead'
  <2>1. /\ UNCHANGED <<pub, published>>
        /\ todo' = [todo EXCEPT ![p] = @ \ {s}]
    BY <1>1, OfferStep
  <2> SUFFICES ASSUME NEW t \in Subscribers, NEW i \in 1..Len(accepted'[t]),
                      NEW u, u = accepted'[t][i]
               PROVE  /\ u.seq <= published[u.from]
                      /\ pub[u.from] = "calling" \/ t \in todo'[u.from]
                            => u.seq < published[u.from]
    BY <2>1 DEF NothingAhead, Owes
  <2>2. CASE t = s /\ i = Len(accepted[s]) + 1
    <3>1. u = [from |-> p, seq |-> published[p]]
      BY <1>1, <2>2, OfferStep DEF CurrentUpdate
    <3>2. pub[p] # "calling" /\ s \notin todo'[p]
      BY <1>1, <2>1, OfferStep DEF TypeOK
    <3> QED
      BY <1>0, <2>2, <3>1, <3>2
  <2>3. CASE ~(t = s /\ i = Len(accepted[s]) + 1)
    <3>1. i \in 1..Len(accepted[t]) /\ u = accepted[t][i]
      BY <1>0, <1>1, <2>3, OfferStep
    <3>2. u.from \in Publishers
      BY <1>0, <3>1
    <3>3. t \in todo'[u.from] => t \in todo[u.from]
      BY <2>1, <3>2 DEF TypeOK
    <3> QED
      BY <3>1, <3>3 DEF NothingAhead, Owes
  <2> QED
    BY <2>2, <2>3
<1>2. ASSUME NEW p \in Publishers, CallPublish(p)
      PROVE  NothingAhead'
  <2>1. /\ accepted' = accepted
        /\ published' = [published EXCEPT ![p] = @ + 1]
        /\ pub' = [pub EXCEPT ![p] = "calling"]
        /\ todo' = todo
    BY <1>2 DEF CallPublish
  <2>2. ASSUME NEW s \in Subscribers, NEW q \in Publishers \ {p}
        PROVE  Owes(q, s)' = Owes(q, s) /\ published'[q] = published[q]
    BY <2>1 DEF Owes, TypeOK
  <2>3. published'[p] = published[p] + 1
    BY <2>1 DEF TypeOK
  <2> QED
    BY <1>0, <2>1, <2>2, <2>3 DEF NothingAhead
<1>3. ASSUME UNCHANGED <<accepted, published>>,
             \A q \in Publishers, s \in Subscribers : Owes(q, s)' => Owes(q, s)
      PROVE  NothingAhead'
  BY <1>0, <1>3 DEF NothingAhead
<1>4. ASSUME NEW s \in Subscribers,
             Receive(s) \/ SubscribeProgress(s) \/ UnsubscribeProgress(s)
      PROVE  NothingAhead'
  <2>1. UNCHANGED <<accepted, pub, published, todo>>
    BY <1>4 DEF Receive, SubscribeProgress, UnsubscribeProgress, publisherVars
  <2> QED
    BY <1>3, <2>1 DEF Owes
<1>5. ASSUME NEW p \in Publishers, PublishProgress(p)
      PROVE  NothingAhead'
  BY <1>3, <1>5 DEF PublishProgress, Owes, TypeOK, subscriberVars
<1>6. ASSUME NEW p \in Publishers, PublishReturn(p)
      PROVE  NothingAhead'
  BY <1>3, <1>6 DEF PublishReturn, Owes, TypeOK, subscriberVars
<1>7. ASSUME NEW p \in Publishers, NEW s \in Subscribers, Drop(p, s)
      PROVE  NothingAhead'
  BY <1>3, <1>7 DEF Drop, Owes, TypeOK, subscriberVars
<1>8. CASE UNCHANGED <<accepted, published, pub, todo>>
  BY <1>3, <1>8 DEF Owes
<1> QED
  BY <1>1, <1>2, <1>4, <1>5, <1>6, <1>7, <1>8, ChannelStep

(* An update that enters a channel is newer than all those of its          *)
(* publisher that are in it.                                               *)
LEMMA OrderStep ==
    ASSUME TypeOK, LoopUnderLock, NothingAhead, PublisherOrder, [Next]_vars
    PROVE  PublisherOrder'
<1>0. \A s \in Subscribers : Len(accepted[s]) \in Nat
  BY DEF TypeOK
<1>1. ASSUME NEW p \in Publishers, NEW s \in Subscribers, Offer(p, s)
      PROVE  PublisherOrder'
  <2> SUFFICES ASSUME NEW t \in Subscribers,
                      NEW i \in 1..Len(accepted'[t]),
                      NEW j \in 1..Len(accepted'[t]),
                      i < j,
                      accepted'[t][i].from = accepted'[t][j].from
               PROVE  accepted'[t][i].seq < accepted'[t][j].seq
    BY DEF PublisherOrder
  <2>1. CASE t = s /\ j = Len(accepted[s]) + 1
    <3>1. i \in 1..Len(accepted[s]) /\ accepted'[t][i] = accepted[s][i]
      BY <1>0, <1>1, <2>1, OfferStep
    <3>2. accepted'[t][j] = [from |-> p, seq |-> published[p]]
      BY <1>1, <2>1, OfferStep DEF CurrentUpdate
    <3>3. accepted[s][i].from = p /\ Owes(p, s)
      BY <1>1, <3>1, <3>2, OfferStep DEF Owes
    <3>4. accepted[s][i].seq < published[p]
      BY <3>1, <3>3 DEF NothingAhead
    <3> QED
      BY <3>1, <3>2, <3>4
  <2>2. CASE ~(t = s /\ j = Len(accepted[s]) + 1)
    <3>1. /\ i \in 1..Len(accepted[t]) /\ accepted'[t][i] = accepted[t][i]
          /\ j \in 1..Len(accepted[t]) /\ accepted'[t][j] = accepted[t][j]
      BY <1>0, <1>1, <2>2, OfferStep
    <3> QED
      BY <3>1 DEF PublisherOrder
  <2> QED
    BY <2>1, <2>2
<1>2. CASE accepted' = accepted
  BY <1>2 DEF PublisherOrder
<1> QED
  BY <1>1, <1>2, ChannelStep
(* An update passes a registered channel only by entering it or by finding *)
(* it full.                                                                *)
LEMMA LossStep ==
    ASSUME TypeOK, LoopUnderLock, LossBound, [Next]_vars
    PROVE  LossBound'
<1>0. /\ \A s \in Subscribers : Len(accepted[s]) \in Nat /\ received[s] \in Nat
      /\ \A p \in Publishers : published[p] \in Nat
      /\ progressSubs \subseteq Subscribers
      /\ Capacity \in Nat
  BY BrokerAssumption DEF TypeOK
<1>1. ASSUME NEW p \in Publishers, NEW s \in Subscribers, Offer(p, s)
      PROVE  LossBound'
  <2>1. /\ UNCHANGED <<published, pub, progressSubs, since>>
        /\ todo' = [todo EXCEPT ![p] = @ \ {s}]
    BY <1>1, OfferStep
  <2> SUFFICES ASSUME NEW t \in progressSubs, NEW q \in Publishers,
                      NEW n \in 1..MaxPublish,
                      since[t][q] < n, Passed(t, q, n)'
               PROVE  Took(t, q, n)' \/ Len(accepted'[t]) >= Capacity
    BY <2>1 DEF LossBound
  <2>2. t \in Subscribers
    BY <1>0
  <2>3. CASE t = s /\ q = p /\ n = published[p]
    <3>1. accepted'[t][Len(accepted[s]) + 1] = [from |-> q, seq |-> n]
      BY <1>1, <2>3, OfferStep DEF CurrentUpdate
    <3>2. Len(accepted[s]) + 1 \in 1..Len(accepted'[t])
      BY <1>0, <1>1, <2>3, OfferStep
    <3> QED
      BY <3>1, <3>2 DEF Took
  <2>4. CASE ~(t = s /\ q = p /\ n = published[p])
    <3>1. Passed(t, q, n)
      BY <1>0, <2>1, <2>4 DEF Passed, Owes, TypeOK
    <3>2. Took(t, q, n) \/ Len(accepted[t]) >= Capacity
      BY <3>1 DEF LossBound
    <3>3. /\ Len(accepted'[t]) >= Len(accepted[t])
          /\ \A i \in 1..Len(accepted[t]) :
                i \in 1..Len(accepted'[t]) /\ accepted'[t][i] = accepted[t][i]
      BY <1>0, <1>1, <2>2, OfferStep
    <3>4. Len(accepted'[t]) \in Nat
      BY <1>0, <1>1, <2>2, OfferStep
    <3>5. CASE Took(t, q, n)
      BY <3>3, <3>5 DEF Took
    <3>6. CASE Len(accepted[t]) >= Capacity
      BY <1>0, <2>2, <3>3, <3>4, <3>6
    <3> QED
      BY <3>2, <3>5, <3>6
  <2> QED
    BY <2>3, <2>4
<1>2. ASSUME accepted' = accepted, progressSubs' \subseteq progressSubs,
             \A t \in progressSubs' : since'[t] = since[t],
             \A t \in progressSubs', q \in Publishers, n \in 1..MaxPublish :
                Passed(t, q, n)' =>
                    \/ Passed(t, q, n)
                    \/ Len(accepted[t]) >= Capacity
      PROVE  LossBound'
  BY <1>2 DEF LossBound, Took
<1>3. ASSUME NEW s \in Subscribers, SubscribeProgress(s)
      PROVE  LossBound'
  <2>1. /\ UNCHANGED <<accepted, published, pub, todo>>
        /\ progressSubs' = progressSubs \cup {s}
        /\ since' = [since EXCEPT ![s] = published]
    BY <1>3 DEF SubscribeProgress, publisherVars
  <2> SUFFICES ASSUME NEW t \in progressSubs', NEW q \in Publishers,
                      NEW n \in 1..MaxPublish,
                      since'[t][q] < n, Passed(t, q, n)'
               PROVE  Took(t, q, n)' \/ Len(accepted[t]) >= Capacity
    BY <2>1 DEF LossBound
  <2>2. CASE t = s
    BY <1>0, <2>1, <2>2 DEF Passed, TypeOK
  <2>3. CASE t # s
    BY <1>0, <2>1, <2>3 DEF Passed, Owes, Took, LossBound, TypeOK
  <2> QED
    BY <2>2, <2>3
<1>4. ASSUME NEW s \in Subscribers, UnsubscribeProgress(s) \/ Receive(s)
      PROVE  LossBound'
  <2>1. /\ UNCHANGED <<accepted, published, pub, todo, since>>
        /\ progressSubs' \subseteq progressSubs
    BY <1>4 DEF UnsubscribeProgress, Receive, publisherVars
  <2> QED
    BY <1>2, <2>1 DEF Passed, Owes
<1>5. ASSUME NEW p \in Publishers, PublishProgress(p) \/ PublishReturn(p)
      PROVE  LossBound'
  <2>1. UNCHANGED <<accepted, published, progressSubs, since>>
    BY <1>5 DEF PublishProgress, PublishReturn, subscriberVars
  <2>2. ASSUME NEW t \in progressSubs, NEW q \in Publishers
        PROVE  Owes(q, t)' = Owes(q, t)
    BY <1>5 DEF PublishProgress, PublishReturn, Owes, TypeOK, LoopUnderLock
  <2> QED
    BY <1>2, <2>1, <2>2 DEF Passed
<1>6. ASSUME NEW p \in Publishers, NEW s \in Subscribers, Drop(p, s)
      PROVE  LossBound'
  <2>1. /\ UNCHANGED <<accepted, published, pub, progressSubs, since>>
        /\ todo' = [todo EXCEPT ![p] = @ \ {s}]
    BY <1>6 DEF Drop, subscriberVars
  <2>2. Len(accepted[s]) >= Capacity
    BY <1>0, <1>6 DEF Drop, Buffered
  <2>3. ASSUME NEW t \in progressSubs, NEW q \in Publishers, t # s \/ q # p
        PROVE  Owes(q, t)' = Owes(q, t)
    BY <2>1, <2>3 DEF Owes, TypeOK
  <2> QED
    BY <1>2, <2>1, <2>2, <2>3 DEF Passed
<1>7. ASSUME NEW p \in Publishers, CallPublish(p)
      PROVE  LossBound'
  <2>1. /\ UNCHANGED <<accepted, progressSubs, since, todo>>
        /\ published' = [published EXCEPT ![p] = @ + 1]
        /\ pub' = [pub EXCEPT ![p] = "calling"]
        /\ pub[p] = "idle" /\ todo[p] = {}
    BY <1>7 DEF CallPublish, subscriberVars, LoopUnderLock
  <2>2. ASSUME NEW t \in progressSubs, NEW q \in Publishers,
               NEW n \in 1..MaxPublish, Passed(t, q, n)'
        PROVE  Passed(t, q, n)
    BY <1>0, <2>1, <2>2 DEF Passed, Owes, TypeOK
  <2> QED
    BY <1>2, <2>1, <2>2
<1>8. CASE UNCHANGED <<accepted, published, progressSubs, pub, todo, since>>
  BY <1>2, <1>8 DEF Passed, Owes
<1> QED
  BY <1>1, <1>3, <1>4, <1>5, <1>6, <1>7, <1>8, ChannelStep
-------------------------------------------------------------------------------
(* IInv is an inductive invariant of the broker. *)
THEOREM Inductive == Spec => []IInv
<1>1. IInv /\ [Next]_vars => IInv'
  <2> SUFFICES ASSUME IInv, [Next]_vars
               PROVE  LoopUnderLock' /\ Registered' /\ BufferBound'
                        /\ NothingAhead' /\ PublisherOrder' /\ LossBound'
                        /\ TypeOK'
    BY DEF IInv
  <2>1. TypeOK'
    BY TypeStep DEF IInv
  <2>2. LoopUnderLock' /\ Registered'
    BY LockStep DEF IInv
  <2>3. BufferBound'
    BY BufferStep DEF IInv
  <2>4. NothingAhead'
    BY AheadStep DEF IInv
  <2>5. PublisherOrder'
    BY OrderStep DEF IInv
  <2>6. LossBound'
    BY LossStep DEF IInv
  <2> QED
    BY <2>1, <2>2, <2>3, <2>4, <2>5, <2>6
<1> QED
  BY <1>1, InitIInv, PTL DEF Spec

(* No publisher ever sends on a closed channel: while a channel is ahead   *)
(* of a loop, the read lock keeps it registered, hence open.               *)
THEOREM SendsAreSafe == Spec => []NoSendOnClosed
<1>1. IInv => NoSendOnClosed
  BY DEF IInv, TypeOK, LoopUnderLock, Registered, NoSendOnClosed
<1> QED
  BY <1>1, Inductive, PTL

(* Every channel holds each publisher's updates in order, without repeats. *)
THEOREM OrderIsKept == Spec => []PublisherOrder
<1>1. IInv => PublisherOrder
  BY DEF IInv
<1> QED
  BY <1>1, Inductive, PTL

(* A returned call is in every registered channel that has not been full.  *)
THEOREM LossIsBounded == Spec => []NoSilentLoss
<1>1. IInv => NoSilentLoss
  <2> SUFFICES ASSUME IInv, NEW s \in progressSubs, NEW p \in Publishers,
                      NEW n \in 1..MaxPublish,
                      since[s][p] < n, Returned(p, n)
               PROVE  Took(s, p, n) \/ Len(accepted[s]) >= Capacity
    BY DEF NoSilentLoss
  <2>1. Passed(s, p, n)
    BY DEF Returned, Passed, Owes, IInv, LoopUnderLock
  <2> QED
    BY <2>1 DEF IInv, LossBound
<1> QED
  BY <1>1, Inductive, PTL

-------------------------------------------------------------------------------
(* Every behaviour of the broker is, per subscriber, one of LossyFeeds.    *)
THEOREM BrokerImplementsFeeds == Spec => FeedsSpec
<1>1. Init => Feeds!FeedInit
  BY DEF Init, Feeds!FeedInit, feed
<1>2. ASSUME IInv, [Next]_vars
      PROVE  [Feeds!FeedNext]_(Feeds!feedVars)
  <2> USE DEF Feeds!feedVars
  <2>0. TypeOK
    BY <1>2 DEF IInv
  <2>1. ASSUME NEW s \in Subscribers, SubscriberStep(s)
        PROVE  [Feeds!FeedNext]_(Feeds!feedVars)
    <3>1. CASE CallSubscribe(s) \/ CallUnsubscribe(s) \/ CloseChannel(s)
      <4>1. UNCHANGED <<accepted, received>>
        BY <3>1 DEF CallSubscribe, CallUnsubscribe, CloseChannel
      <4>2. feed' = feed
        BY <2>0, <3>1
        DEF CallSubscribe, CallUnsubscribe, CloseChannel, feed, TypeOK, Phases
      <4> QED
        BY <4>1, <4>2
    <3>2. CASE SubscribeProgress(s)
      <4>1. Feeds!Open(s)
        BY <2>0, <3>2 DEF SubscribeProgress, Feeds!Open, feed, TypeOK, Phases
      <4> QED
        BY <4>1 DEF Feeds!FeedNext
    <3>3. CASE Receive(s)
      <4>1. received[s] < Len(accepted[s])
        BY <2>0, <3>3 DEF Receive, Buffered, TypeOK
      <4>2. Feeds!Read(s)
        BY <2>0, <3>3, <4>1 DEF Receive, Feeds!Read, feed, TypeOK, Phases
      <4> QED
        BY <4>2 DEF Feeds!FeedNext
    <3>4. CASE UnsubscribeProgress(s)
      <4>1. Feeds!Shut(s)
        BY <2>0, <3>4 DEF UnsubscribeProgress, Feeds!Shut, feed, TypeOK, Phases
      <4> QED
        BY <4>1 DEF Feeds!FeedNext
    <3> QED
      BY <2>1, <3>1, <3>2, <3>3, <3>4 DEF SubscriberStep
  <2>2. ASSUME NEW p \in Publishers, PublisherStep(p)
        PROVE  [Feeds!FeedNext]_(Feeds!feedVars)
    <3>1. ASSUME NEW s \in Subscribers, Offer(p, s)
          PROVE  Feeds!FeedNext
      <4>1. CurrentUpdate(p) \in Feeds!Update
        BY <2>0 DEF TypeOK, CurrentUpdate, Feeds!Update
      <4>2. phase[s] \in {"open", "leaving"} /\ phase' = phase
        BY <1>2, <3>1 DEF Offer, IInv, LoopUnderLock, Registered, subscriberVars
      <4>3. feed[s] = "open" /\ feed' = feed
        BY <4>2 DEF feed
      <4>4. Feeds!Fresh(CurrentUpdate(p), accepted[s])
        BY <1>2, <3>1
        DEF Offer, Feeds!Fresh, CurrentUpdate, IInv, NothingAhead, Owes
      <4>5. Feeds!Take(s, CurrentUpdate(p))
        BY <3>1, <4>3, <4>4
        DEF Offer, Feeds!Take, Buffered, subscriberVars
      <4> QED
        BY <4>1, <4>5 DEF Feeds!FeedNext
    <3>2. CASE ~ \E s \in Subscribers : Offer(p, s)
      <4>1. UNCHANGED <<accepted, received, phase>>
        BY <2>2, <3>2
        DEF PublisherStep, CallPublish, PublishProgress, Drop, PublishReturn,
            subscriberVars
      <4> QED
        BY <4>1 DEF feed
    <3> QED
      BY <3>1, <3>2
  <2>3. CASE UNCHANGED vars
    BY <2>3 DEF vars, feed
  <2> QED
    BY <1>2, <2>1, <2>2, <2>3 DEF Next
<1> QED
  BY <1>1, <1>2, Inductive, PTL DEF Spec, FeedsSpec, Feeds!FeedSpec

-------------------------------------------------------------------------------
(* Somebody can always move without anybody receiving: the guards of       *)
(* PublishProgress, of Offer or Drop, of PublishReturn, and of the locked  *)
(* sections of the subscribers.                                            *)
CanMove(p) ==
    \/ pub[p] = "calling" /\ CanRLock
    \/ /\ pub[p] = "sending"
       /\ \A s \in todo[p] : /\ phase[s] # "closed"
                             /\ \/ Buffered(s) < Capacity
                                \/ Buffered(s) = Capacity

(* The safety half of PublishReturns: while a call is under way nothing    *)
(* inside the broker waits in a circle.  A call waits for the read lock,   *)
(* the lock for subscribers that want it and were first, these for loops   *)
(* that run, and a loop for nobody.                                        *)
NoCircularWait ==
    \A p \in Publishers : pub[p] # "idle" =>
        \/ \E q \in Publishers : CanMove(q)
        \/ CanLock /\ WaitingWriters # {}

THEOREM NobodyWaitsForReaders == Spec => []NoCircularWait
<1>1. ASSUME IInv
      PROVE  NoCircularWait
  <2> SUFFICES ASSUME NEW p \in Publishers, pub[p] # "idle"
               PROVE  \/ \E q \in Publishers : CanMove(q)
                      \/ CanLock /\ WaitingWriters # {}
    BY DEF NoCircularWait
  <2>1. ASSUME NEW q \in Publishers, pub[q] = "sending"
        PROVE  CanMove(q)
    <3>1. ASSUME NEW s \in todo[q]
          PROVE  /\ phase[s] # "closed"
                 /\ Buffered(s) < Capacity \/ Buffered(s) = Capacity
      <4>1. s \in Subscribers /\ phase[s] \in {"open", "leaving"}
        BY <1>1 DEF IInv, TypeOK, LoopUnderLock, Registered
      <4>2. Buffered(s) <= Capacity /\ Buffered(s) \in Nat
        BY <1>1, <4>1 DEF IInv, TypeOK, BufferBound, Buffered
      <4> QED
        BY <4>1, <4>2, BrokerAssumption
    <3> QED
      BY <2>1, <3>1 DEF CanMove
  <2>2. CASE Readers # {}
    BY <2>1, <2>2 DEF Readers
  <2>3. CASE Readers = {}
    <3>1. pub[p] = "calling"
      BY <1>1, <2>3 DEF IInv, TypeOK, Readers
    <3> QED
      BY <2>3, <3>1 DEF CanMove, CanLock, CanRLock
  <2> QED
    BY <2>2, <2>3
<1> QED
  BY <1>1, Inductive, PTL

-------------------------------------------------------------------------------
(* What a channel can hold of the time before its registration. *)
Registering ==
    \A s \in Subscribers :
        /\ phase[s] \in {"fresh", "joining"} => accepted[s] = <<>>
        /\ \A p \in Publishers : since[s][p] <= published[p]

(* A channel takes no update whose call had returned before the channel    *)
(* was registered: at most one of each publisher, the call under way then, *)
(* was begun before.                                                       *)
NothingOld ==
    \A s \in Subscribers : \A i \in 1..Len(accepted[s]) :
        since[s][accepted[s][i].from] <= accepted[s][i].seq

LEMMA RegisteringStep ==
    ASSUME IInv, Registering, [Next]_vars
    PROVE  Registering'
<1> USE DEF IInv, TypeOK
<1>1. \A p \in Publishers : published[p] \in Nat /\ published'[p] \in Nat
  BY TypeStep, BrokerAssumption
<1>2. \A s \in Subscribers, p \in Publishers : since[s][p] \in Nat
  BY BrokerAssumption
<1>3. ASSUME NEW s \in Subscribers, SubscribeProgress(s)
      PROVE  Registering'
  BY <1>1, <1>2, <1>3
  DEF SubscribeProgress, Registering, publisherVars
<1>4. ASSUME NEW s \in Subscribers,
             \/ CallSubscribe(s) \/ Receive(s) \/ CallUnsubscribe(s)
             \/ UnsubscribeProgress(s) \/ CloseChannel(s)
      PROVE  Registering'
  BY <1>4
  DEF CallSubscribe, Receive, CallUnsubscribe, UnsubscribeProgress,
      CloseChannel, Registering, publisherVars
<1>5. ASSUME NEW p \in Publishers, CallPublish(p)
      PROVE  Registering'
  BY <1>1, <1>2, <1>5 DEF CallPublish, Registering, subscriberVars
<1>6. ASSUME NEW p \in Publishers, NEW s \in Subscribers, Offer(p, s)
      PROVE  Registering'
  <2>1. phase[s] \notin {"fresh", "joining"}
    BY <1>6 DEF Offer, LoopUnderLock, Registered
  <2> QED
    BY <1>6, <2>1 DEF Offer, Registering, subscriberVars
<1>7. ASSUME NEW p \in Publishers,
             \/ PublishProgress(p) \/ PublishReturn(p)
             \/ \E s \in Subscribers : Drop(p, s)
      PROVE  Registering'
  BY <1>7
  DEF PublishProgress, PublishReturn, Drop, Registering, subscriberVars
<1>8. CASE UNCHANGED vars
  BY <1>8 DEF vars, Registering
<1> QED
  BY <1>3, <1>4, <1>5, <1>6, <1>7, <1>8
  DEF Next, SubscriberStep, PublisherStep

LEMMA OldStep ==
    ASSUME IInv, Registering, NothingOld, [Next]_vars
    PROVE  NothingOld'
<1> USE DEF IInv, TypeOK
<1> SUFFICES ASSUME NEW s \in Subscribers, NEW i \in 1..Len(accepted'[s])
             PROVE  since'[s][accepted'[s][i].from] <= accepted'[s][i].seq
  BY DEF NothingOld
<1>1. ASSUME NEW p \in Publishers, NEW t \in Subscribers, Offer(p, t)
      PROVE  since'[s][accepted'[s][i].from] <= accepted'[s][i].seq
  <2>1. /\ accepted' = [accepted EXCEPT ![t] = Append(@, CurrentUpdate(p))]
        /\ since' = since
    BY <1>1 DEF Offer, subscriberVars
  <2>2. CurrentUpdate(p) \in Update
    BY DEF CurrentUpdate, Update
  <2>3. CASE s = t /\ i = Len(accepted[s]) + 1
    <3>1. accepted'[s][i] = CurrentUpdate(p)
      BY <2>1, <2>2, <2>3, AppendElements
    <3> QED
      BY <2>1, <3>1 DEF CurrentUpdate, Registering
  <2>4. CASE ~(s = t /\ i = Len(accepted[s]) + 1)
    <3>1. i \in 1..Len(accepted[s]) /\ accepted'[s][i] = accepted[s][i]
      BY <2>1, <2>2, <2>4, AppendElements
    <3> QED
      BY <2>1, <3>1 DEF NothingOld
  <2> QED
    BY <2>3, <2>4
<1>2. ASSUME NEW t \in Subscribers, SubscribeProgress(t)
      PROVE  since'[s][accepted'[s][i].from] <= accepted'[s][i].seq
  <2>1. /\ accepted' = accepted /\ since' = [since EXCEPT ![t] = published]
        /\ phase[t] = "joining"
    BY <1>2 DEF SubscribeProgress
  <2>2. Len(accepted[t]) = 0
    BY <2>1 DEF Registering
  <2>3. s # t
    BY <2>1, <2>2
  <2> QED
    BY <2>1, <2>3 DEF NothingOld
<1>3. CASE UNCHANGED <<accepted, since>>
  BY <1>3 DEF NothingOld
<1> QED
  BY <1>1, <1>2, <1>3
  DEF Next, SubscriberStep, PublisherStep, CallSubscribe, Receive,
      CallUnsubscribe, UnsubscribeProgress, CloseChannel, CallPublish,
      PublishProgress, Drop, PublishReturn, subscriberVars, vars

THEOREM NothingOldComes == Spec => []NothingOld
<1>1. ASSUME Init
      PROVE  IInv /\ Registering /\ NothingOld
  <2>1. \A s \in Subscribers : Len(accepted[s]) = 0
    BY <1>1 DEF Init
  <2> QED
    BY <1>1, <2>1, InitIInv DEF Init, Registering, NothingOld
<1>2. Spec => [](IInv /\ Registering /\ NothingOld)
  <2>1. ASSUME IInv, Registering, NothingOld, [Next]_vars
        PROVE  Registering' /\ NothingOld'
    BY <2>1, RegisteringStep, OldStep
  <2> QED
    BY <1>1, <2>1, Inductive, PTL DEF Spec
<1> QED
  BY <1>2, PTL
===============================================================================
