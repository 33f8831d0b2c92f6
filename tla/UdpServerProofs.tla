--------------------------- MODULE UdpServerProofs ---------------------------
(***************************************************************************)
(* Proofs about UdpServer: its type invariant, that every address is sent  *)
(* each notification at most once and in order, that a registered address  *)
(* misses none, that one that has left is sent none received later, and    *)
(* the refinement of the abstract mailing list; for any number of          *)
(* addresses, genres and notifications and any capacity.                   *)
(***************************************************************************)
EXTENDS UdpServer, TLAPS

(* Before Start nothing is registered and nothing is sent; broadcastLoop   *)
(* has targets only while it serves the notification received last.        *)
LoopState ==
    /\ socket = "nil" => loop = "unborn" /\ clients = {}
    /\ loop \in {"collecting", "sending"} => taken > 0
    /\ loop # "sending" => targets = {}

(* What an address has been sent was received; the notification under way  *)
(* has not been sent to those it has yet to be sent to.                    *)
SentBefore ==
    \A a \in Addrs : \A i \in 1..Len(sent[a]) :
        /\ sent[a][i] <= taken
        /\ loop = "collecting" \/ a \in targets => sent[a][i] < taken

(* An address that is served although it has left, left during this        *)
(* broadcast.                                                              *)
GoneDuring == \A a \in targets \ clients : taken <= gone[a]

IInv ==
    /\ TypeOK
    /\ LoopState
    /\ SentBefore
    /\ SentInOrder
    /\ NoMissedNotification
    /\ GoneDuring
    /\ GoneIsGone

-------------------------------------------------------------------------------
(* Appending to a sequence leaves its entries in place. *)
LEMMA AppendEntries ==
    ASSUME NEW S, NEW s \in Seq(S), NEW e \in S
    PROVE  /\ Append(s, e) \in Seq(S)
           /\ Len(Append(s, e)) = Len(s) + 1
           /\ \A i \in 1..Len(s) : Append(s, e)[i] = s[i]
           /\ Append(s, e)[Len(s) + 1] = e
  OBVIOUS

(* Numbers of a short log are numbers of a longer one. *)
LEMMA LongerLog ==
    ASSUME NEW m \in Nat, NEW n \in Nat, m <= n, NEW s \in Seq(1..m)
    PROVE  s \in Seq(1..n)
<1>1. \A i \in 1..Len(s) : s[i] \in 1..n
  OBVIOUS
<1> QED
  BY <1>1

(* A publication leaves the log alone or extends it by one entry. *)
LEMMA PublishGrows ==
    ASSUME TypeOK, NEW g \in Genres, PublishNotification(g)
    PROVE  log' \in Seq(Genres) /\ Len(log') \in Nat /\ Len(log) <= Len(log')
<1>1. CASE UNCHANGED log
  BY <1>1 DEF TypeOK
<1>2. CASE log' = Append(log, g)
  BY <1>2, AppendEntries DEF TypeOK
<1> QED
  BY <1>1, <1>2 DEF PublishNotification

(* Every step keeps the types. *)
LEMMA TypeStep ==
    ASSUME TypeOK, LoopState, [Next]_vars
    PROVE  TypeOK'
<1> USE UdpServerAssumption
<1>1. CASE Start
  BY <1>1 DEF Start, TypeOK, registry
<1>2. CASE Stop
  BY <1>2 DEF Stop, TypeOK, registry, broadcast
<1>3. CASE StopSocket
  BY <1>3 DEF StopSocket, TypeOK, registry, broadcast
<1>4. ASSUME NEW d \in Datagram, RegisterClient(d)
      PROVE  TypeOK'
  <2>1. d.from \in Addrs /\ d.genres \in SUBSET Genres
    BY <1>4 DEF RegisterClient, Datagram
  <2> QED
    BY <1>4, <2>1 DEF RegisterClient, TypeOK, lifecycle, broadcast
<1>5. ASSUME NEW d \in Datagram, UnregisterClient(d)
      PROVE  TypeOK'
  <2>1. d.from \in Addrs
    BY DEF Datagram
  <2> QED
    BY <1>5, <2>1 DEF UnregisterClient, TypeOK, lifecycle, broadcast
<1>6. ASSUME NEW d \in Datagram, HandleOther(d)
      PROVE  TypeOK'
  BY <1>6 DEF HandleOther, TypeOK, lifecycle, registry, broadcast
<1>7. CASE ReadError
  BY <1>7 DEF ReadError, TypeOK, registry, broadcast
<1>8. ASSUME NEW a \in Addrs, Send(a)
      PROVE  TypeOK'
  <2>1. taken \in 1..Len(log)
    BY <1>8 DEF Send, LoopState, TypeOK
  <2>2. Append(sent[a], taken) \in Seq(1..Len(log))
    BY <2>1, AppendEntries DEF TypeOK
  <2>3. sent' \in [Addrs -> Seq(1..Len(log))]
    BY <1>8, <2>2 DEF Send, TypeOK
  <2> QED
    BY <1>8, <2>3 DEF Send, TypeOK, lifecycle, registry
<1>9. CASE SubscribeNotification \/ Receive \/ CollectTargets \/ BroadcastDone \/ LoopStop
  BY <1>9 DEF SubscribeNotification, Receive, CollectTargets, BroadcastDone,
              LoopStop, TypeOK, lifecycle, registry
<1>10. ASSUME NEW g \in Genres, PublishNotification(g)
       PROVE  TypeOK'
  <2>1. log' \in Seq(Genres) /\ Len(log) \in Nat /\ Len(log') \in Nat /\ Len(log) <= Len(log')
    BY <1>10, PublishGrows DEF TypeOK
  <2>2. \A a \in Addrs : sent[a] \in Seq(1..Len(log'))
    BY <2>1, LongerLog DEF TypeOK
  <2>3. sent' \in [Addrs -> Seq(1..Len(log'))]
    BY <1>10, <2>2 DEF PublishNotification, broadcast, TypeOK
  <2> QED
    BY <1>10, <2>1, <2>3 DEF PublishNotification, TypeOK, lifecycle, registry, broadcast
<1>11. CASE UNCHANGED vars
  BY <1>11 DEF vars, TypeOK, lifecycle, registry, broadcast
<1> QED
  BY <1>1, <1>2, <1>3, <1>4, <1>5, <1>6, <1>7, <1>8, <1>9, <1>10, <1>11
     DEF Next, Reader, Loop

-------------------------------------------------------------------------------
(* Outside broadcastLoop and Start nothing of the broadcast changes. *)
LEMMA OtherStep ==
    ASSUME [Next]_vars, ~Loop, ~Start
    PROVE  UNCHANGED broadcast
<1>1. CASE Stop \/ StopSocket \/ ReadError
  BY <1>1 DEF Stop, StopSocket, ReadError
<1>2. ASSUME NEW d \in Datagram,
             RegisterClient(d) \/ UnregisterClient(d) \/ HandleOther(d)
      PROVE  UNCHANGED broadcast
  BY <1>2 DEF RegisterClient, UnregisterClient, HandleOther
<1>3. ASSUME NEW g \in Genres, PublishNotification(g)
      PROVE  UNCHANGED broadcast
  BY <1>3 DEF PublishNotification
<1>4. CASE UNCHANGED vars
  BY <1>4 DEF vars
<1> QED
  BY <1>1, <1>2, <1>3, <1>4 DEF Next, Reader

(* Outside readLoop the registered addresses stay. *)
LEMMA SameRegistry ==
    ASSUME [Next]_vars,
           \A d \in Datagram : ~RegisterClient(d) /\ ~UnregisterClient(d)
    PROVE  UNCHANGED registry
<1>1. CASE Start \/ Stop \/ StopSocket \/ ReadError
  BY <1>1 DEF Start, Stop, StopSocket, ReadError
<1>2. ASSUME NEW d \in Datagram, HandleOther(d)
      PROVE  UNCHANGED registry
  BY <1>2 DEF HandleOther
<1>3. ASSUME NEW g \in Genres, PublishNotification(g)
      PROVE  UNCHANGED registry
  BY <1>3 DEF PublishNotification
<1>4. ASSUME NEW a \in Addrs, Send(a)
      PROVE  UNCHANGED registry
  BY <1>4 DEF Send
<1>5. CASE SubscribeNotification \/ Receive \/ CollectTargets \/ BroadcastDone \/ LoopStop
  BY <1>5 DEF SubscribeNotification, Receive, CollectTargets, BroadcastDone, LoopStop
<1>6. CASE UNCHANGED vars
  BY <1>6 DEF vars
<1> QED
  BY <1>1, <1>2, <1>3, <1>4, <1>5, <1>6 DEF Next, Reader, Loop

LEMMA LoopStateStep ==
    ASSUME TypeOK, LoopState, [Next]_vars
    PROVE  LoopState'
<1>1. CASE Start
  BY <1>1 DEF Start, LoopState
<1>2. CASE Stop \/ StopSocket \/ ReadError
  BY <1>2 DEF Stop, StopSocket, ReadError, LoopState, lifecycle, registry, broadcast
<1>3. ASSUME NEW d \in Datagram,
             RegisterClient(d) \/ UnregisterClient(d) \/ HandleOther(d)
      PROVE  LoopState'
  BY <1>3 DEF RegisterClient, UnregisterClient, HandleOther, Reading, LoopState,
              lifecycle, registry, broadcast
<1>4. ASSUME NEW g \in Genres, PublishNotification(g)
      PROVE  LoopState'
  BY <1>4 DEF PublishNotification, LoopState, lifecycle, registry, broadcast
<1>5. CASE Loop
  BY <1>5 DEF Loop, SubscribeNotification, Receive, CollectTargets, Send,
              BroadcastDone, LoopStop, LoopState, TypeOK, lifecycle, registry
<1>6. CASE UNCHANGED vars
  BY <1>6 DEF vars, LoopState, lifecycle, registry, broadcast
<1> QED
  BY <1>1, <1>2, <1>3, <1>4, <1>5, <1>6 DEF Next, Reader

-------------------------------------------------------------------------------
(* What one WriteToUDP does. *)
LEMMA SendAdds ==
    ASSUME TypeOK, NEW a \in Addrs, Send(a)
    PROVE  /\ UNCHANGED <<loop, taken, clients, since, gone, socket>>
           /\ loop = "sending" /\ a \in targets
           /\ targets' = targets \ {a}
           /\ \A b \in Addrs : Len(sent[b]) \in Nat /\ Len(sent'[b]) \in Nat
           /\ \A b \in Addrs \ {a} : sent'[b] = sent[b]
           /\ \A i \in 1..Len(sent[a]) : sent'[a][i] = sent[a][i]
           /\ \/ sent'[a] = sent[a] /\ (socket # "open" \/ a \in Unreachable)
              \/ Len(sent'[a]) = Len(sent[a]) + 1 /\ sent'[a][Len(sent[a]) + 1] = taken
<1>1. UNCHANGED <<loop, taken, clients, since, gone, socket>> /\ loop = "sending"
      /\ a \in targets /\ targets' = targets \ {a}
  BY DEF Send, lifecycle, registry
<1>2. sent \in [Addrs -> Seq(1..Len(log))]
  BY DEF TypeOK
<1>3. CASE sent' = [sent EXCEPT ![a] = Append(@, taken)]
  <2>1. sent' = [sent EXCEPT ![a] = Append(@, taken)]
    BY <1>3
  <2>2. sent'[a] = Append(sent[a], taken) /\ \A b \in Addrs \ {a} : sent'[b] = sent[b]
    BY <1>2, <2>1
  <2>3. sent[a] \in Seq(Nat) /\ taken \in Nat
    BY <1>2, LongerLog DEF TypeOK
  <2>4. /\ Append(sent[a], taken) \in Seq(Nat)
        /\ Len(Append(sent[a], taken)) = Len(sent[a]) + 1
        /\ \A i \in 1..Len(sent[a]) : Append(sent[a], taken)[i] = sent[a][i]
        /\ Append(sent[a], taken)[Len(sent[a]) + 1] = taken
    BY <2>3, AppendEntries
  <2>5. \A b \in Addrs : Len(sent[b]) \in Nat
    BY <1>2
  <2> QED
    BY <1>1, <2>2, <2>4, <2>5
<1>4. CASE (socket # "open" \/ a \in Unreachable) /\ UNCHANGED sent
  BY <1>1, <1>2, <1>4
<1> QED
  BY <1>3, <1>4 DEF Send

(* The other steps of broadcastLoop. *)
LEMMA LoopStepsKeep ==
    ASSUME SubscribeNotification \/ Receive \/ CollectTargets \/ BroadcastDone \/ LoopStop
    PROVE  UNCHANGED <<sent, socket, clients, since, gone>>
  BY DEF SubscribeNotification, Receive, CollectTargets, BroadcastDone, LoopStop,
         lifecycle, registry

LEMMA SentBeforeStep ==
    ASSUME TypeOK, LoopState, SentBefore, [Next]_vars
    PROVE  SentBefore'
<1>0. /\ taken \in Nat /\ taken' \in Nat
      /\ \A b \in Addrs : \A i \in 1..Len(sent[b]) : sent[b][i] \in Nat
  <2>1. TypeOK'
    BY TypeStep
  <2> QED
    BY <2>1 DEF TypeOK
<1>1. CASE Start
  BY <1>0, <1>1 DEF Start, LoopState, SentBefore
<1>2. CASE ~Loop /\ ~Start
  BY <1>2, OtherStep DEF broadcast, SentBefore
<1>3. CASE SubscribeNotification \/ Receive \/ CollectTargets \/ BroadcastDone \/ LoopStop
  <2>1. UNCHANGED sent
    BY <1>3, LoopStepsKeep
  <2> QED
    BY <1>0, <1>3, <2>1 DEF SubscribeNotification, Receive, CollectTargets,
        BroadcastDone, LoopStop, LoopState, SentBefore
<1>4. ASSUME NEW a \in Addrs, Send(a)
      PROVE  SentBefore'
  <2>1. SUFFICES ASSUME NEW b \in Addrs, NEW i \in 1..Len(sent'[b])
                 PROVE  /\ sent'[b][i] <= taken
                        /\ b \in targets \ {a} => sent'[b][i] < taken
    BY <1>4, SendAdds DEF SentBefore
  <2>2. CASE b # a
    BY <1>4, <2>1, <2>2, SendAdds DEF SentBefore
  <2>3. CASE b = a
    <3>1. i \in 1..Len(sent[a]) \/ sent'[a][i] = taken
      BY <1>4, <2>1, <2>3, SendAdds
    <3> QED
      BY <1>0, <1>4, <2>3, <3>1, SendAdds DEF SentBefore
  <2> QED
    BY <2>2, <2>3
<1> QED
  BY <1>1, <1>2, <1>3, <1>4 DEF Loop

LEMMA SentInOrderStep ==
    ASSUME TypeOK, SentBefore, SentInOrder, [Next]_vars
    PROVE  SentInOrder'
<1>1. CASE Start
  BY <1>1 DEF Start, SentInOrder
<1>2. CASE ~Loop /\ ~Start
  BY <1>2, OtherStep DEF broadcast, SentInOrder
<1>3. CASE SubscribeNotification \/ Receive \/ CollectTargets \/ BroadcastDone \/ LoopStop
  BY <1>3, LoopStepsKeep DEF SentInOrder
<1>4. ASSUME NEW a \in Addrs, Send(a)
      PROVE  SentInOrder'
  <2>1. SUFFICES ASSUME NEW b \in Addrs,
                        NEW i \in 1..Len(sent'[b]), NEW j \in 1..Len(sent'[b]), i < j
                 PROVE  sent'[b][i] < sent'[b][j]
    BY DEF SentInOrder
  <2>2. CASE b # a
    BY <1>4, <2>1, <2>2, SendAdds DEF SentInOrder
  <2>3. CASE b = a
    <3>1. i \in 1..Len(sent[a])
      BY <1>4, <2>1, <2>3, SendAdds
    <3>2. CASE j \in 1..Len(sent[a])
      BY <1>4, <2>1, <2>3, <3>1, <3>2, SendAdds DEF SentInOrder
    <3>3. CASE j \notin 1..Len(sent[a])
      <4>1. sent'[a][j] = taken
        BY <1>4, <2>1, <2>3, <3>3, SendAdds
      <4>2. sent'[a][i] = sent[a][i] /\ sent[a][i] < taken
        BY <1>4, <3>1, SendAdds DEF SentBefore
      <4> QED
        BY <2>3, <4>1, <4>2
    <3> QED
      BY <3>2, <3>3
  <2> QED
    BY <2>2, <2>3
<1> QED
  BY <1>1, <1>2, <1>3, <1>4 DEF Loop

(* What an address has been sent stays sent. *)
LEMMA StaysSent ==
    ASSUME TypeOK, [Next]_vars, NEW b \in Addrs, NEW k, Sent(b, k)
    PROVE  \E i \in 1..Len(sent'[b]) : sent'[b][i] = k
<1>1. CASE UNCHANGED sent
  BY <1>1 DEF Sent
<1>2. ASSUME NEW a \in Addrs, Send(a)
      PROVE  \E i \in 1..Len(sent'[b]) : sent'[b][i] = k
  <2>1. PICK i \in 1..Len(sent[b]) : sent[b][i] = k
    BY DEF Sent
  <2>2. i \in 1..Len(sent'[b]) /\ sent'[b][i] = sent[b][i]
    BY <1>2, <2>1, SendAdds
  <2> QED
    BY <2>1, <2>2
<1>3. UNCHANGED sent \/ \E a \in Addrs : Send(a)
  <2>1. CASE Start
    BY <2>1 DEF Start
  <2>2. CASE ~Loop /\ ~Start
    BY <2>2, OtherStep DEF broadcast
  <2>3. CASE Loop
    BY <2>3, LoopStepsKeep DEF Loop
  <2> QED
    BY <2>1, <2>2, <2>3
<1> QED
  BY <1>1, <1>2, <1>3

LEMMA NoMissedStep ==
    ASSUME TypeOK, LoopState, NoMissedNotification, [Next]_vars
    PROVE  NoMissedNotification'
<1>0. /\ taken \in Nat /\ taken' \in Nat /\ Len(log) \in Nat /\ taken <= Len(log)
      /\ clients \subseteq Addrs /\ clients' \subseteq Addrs
      /\ since \in [Addrs -> Nat]
  <2>1. TypeOK'
    BY TypeStep
  <2> QED
    BY <2>1 DEF TypeOK
<1>1. SUFFICES ASSUME socket' = "open", NEW b \in clients' \ Unreachable,
                      NEW k \in since'[b] + 1..taken'
               PROVE  \/ \E i \in 1..Len(sent'[b]) : sent'[b][i] = k
                      \/ k = taken' /\ (loop' = "collecting" \/ b \in targets')
  BY DEF NoMissedNotification, Sent
<1>2. CASE Start
  BY <1>1, <1>2 DEF Start, LoopState, registry
<1>3. socket = "open" \/ Start
  BY <1>1 DEF Next, Stop, StopSocket, Reader, RegisterClient, UnregisterClient,
     HandleOther, ReadError, PublishNotification, Loop, SubscribeNotification,
     Receive, CollectTargets, Send, BroadcastDone, LoopStop, lifecycle, vars
<1>4. CASE socket = "open" /\ ~Start
  <2>1. ASSUME b \in clients, since'[b] = since[b], k <= taken, loop' = loop, targets' = targets,
               taken' = taken
        PROVE  \/ \E i \in 1..Len(sent'[b]) : sent'[b][i] = k
               \/ k = taken' /\ (loop' = "collecting" \/ b \in targets')
    <3>1. Sent(b, k) \/ (k = taken /\ (loop = "collecting" \/ b \in targets))
      BY <1>0, <1>1, <1>4, <2>1 DEF NoMissedNotification
    <3> QED
      BY <1>0, <2>1, <3>1, StaysSent
  <2>2. CASE ~Loop
    <3>0. UNCHANGED <<loop, taken, targets, sent>>
      BY <1>4, <2>2, OtherStep DEF broadcast
    <3>1. ASSUME NEW d \in Datagram, RegisterClient(d)
          PROVE  b \in clients /\ since'[b] = since[b]
      <4>1. CASE d.from \in clients
        BY <1>1, <3>1, <4>1 DEF RegisterClient
      <4>2. CASE d.from \notin clients
        <5>1. b # d.from
          BY <1>0, <1>1, <3>0, <3>1, <4>2 DEF RegisterClient
        <5> QED
          BY <1>0, <1>1, <3>1, <4>2, <5>1 DEF RegisterClient
      <4> QED
        BY <4>1, <4>2
    <3>2. ASSUME NEW d \in Datagram, UnregisterClient(d)
          PROVE  b \in clients /\ since'[b] = since[b]
      BY <1>1, <3>2 DEF UnregisterClient
    <3>3. b \in clients /\ since'[b] = since[b]
      BY <1>1, <3>1, <3>2, SameRegistry DEF registry
    <3> QED
      BY <1>0, <1>1, <2>1, <3>0, <3>3
  <2>3. ASSUME NEW a \in Addrs, Send(a)
        PROVE  \/ \E i \in 1..Len(sent'[b]) : sent'[b][i] = k
               \/ k = taken' /\ (loop' = "collecting" \/ b \in targets')
    <3>1. b \in clients /\ since'[b] = since[b] /\ taken' = taken /\ loop = "sending"
      BY <1>1, <2>3, SendAdds
    <3>2. Sent(b, k) \/ (k = taken /\ b \in targets)
      BY <1>0, <1>1, <1>4, <3>1 DEF NoMissedNotification
    <3>3. CASE b = a /\ k = taken
      <4>0. socket = "open" /\ a \notin Unreachable /\ Len(sent[a]) \in Nat
        BY <1>1, <1>4, <2>3, <3>3, SendAdds
      <4>1. Len(sent[a]) + 1 \in 1..Len(sent'[a]) /\ sent'[a][Len(sent[a]) + 1] = taken
        BY <2>3, <4>0, SendAdds
      <4> QED
        BY <3>3, <4>1
    <3>4. CASE Sent(b, k)
      BY <1>0, <3>1, <3>4, StaysSent
    <3>5. CASE b # a /\ k = taken /\ b \in targets
      BY <2>3, <3>1, <3>5, SendAdds
    <3> QED
      BY <3>2, <3>3, <3>4, <3>5
  <2>4. CASE Receive \/ CollectTargets \/ BroadcastDone \/ SubscribeNotification \/ LoopStop
    <3>1. b \in clients /\ since'[b] = since[b] /\ sent' = sent
      BY <1>1, <2>4, LoopStepsKeep
    <3>2. CASE Receive
      <4>1. CASE k = taken'
        BY <3>2, <4>1 DEF Receive
      <4>2. CASE k # taken'
        <5>1. k <= taken /\ loop = "waiting" /\ targets = {}
          BY <1>0, <1>1, <3>2, <4>2 DEF Receive, LoopState
        <5>2. Sent(b, k)
          BY <1>0, <1>1, <1>4, <3>1, <5>1 DEF NoMissedNotification
        <5> QED
          BY <3>1, <5>2 DEF Sent
      <4> QED
        BY <4>1, <4>2
    <3>3. CASE CollectTargets
      <4>1. taken' = taken /\ targets' = clients /\ loop = "collecting" /\ targets = {}
        BY <3>3 DEF CollectTargets, LoopState
      <4>2. Sent(b, k) \/ k = taken
        BY <1>0, <1>1, <1>4, <3>1, <4>1 DEF NoMissedNotification
      <4> QED
        BY <3>1, <4>1, <4>2 DEF Sent
    <3>4. CASE BroadcastDone \/ SubscribeNotification \/ LoopStop
      <4>1. taken' = taken /\ targets = {} /\ loop # "collecting"
        BY <3>4 DEF BroadcastDone, SubscribeNotification, LoopStop, LoopState
      <4>2. Sent(b, k)
        BY <1>0, <1>1, <1>4, <3>1, <4>1 DEF NoMissedNotification
      <4> QED
        BY <3>1, <4>2 DEF Sent
    <3> QED
      BY <2>4, <3>2, <3>3, <3>4
  <2> QED
    BY <2>2, <2>3, <2>4 DEF Loop
<1> QED
  BY <1>2, <1>3, <1>4

LEMMA GoneStep ==
    ASSUME TypeOK, LoopState, SentBefore, GoneDuring, GoneIsGone, [Next]_vars
    PROVE  GoneDuring' /\ GoneIsGone'
<1>0. /\ taken \in Nat /\ gone \in [Addrs -> Nat] /\ targets \subseteq Addrs
      /\ \A b \in Addrs : \A i \in 1..Len(sent[b]) : sent[b][i] \in Nat
  BY DEF TypeOK
<1>1. ASSUME NEW d \in Datagram, RegisterClient(d)
      PROVE  GoneDuring' /\ GoneIsGone'
  BY <1>1 DEF RegisterClient, broadcast, GoneDuring, GoneIsGone
<1>2. ASSUME NEW d \in Datagram, UnregisterClient(d)
      PROVE  GoneDuring' /\ GoneIsGone'
  <2>1. /\ UNCHANGED <<taken, targets, sent>>
        /\ clients' = clients \ {d.from}
        /\ gone' = [gone EXCEPT ![d.from] = taken]
    BY <1>2 DEF UnregisterClient, broadcast
  <2>2. gone'[d.from] = taken /\ \A b \in Addrs \ {d.from} : gone'[b] = gone[b]
    BY <1>0, <2>1 DEF Datagram
  <2>3. GoneDuring'
    BY <1>0, <2>1, <2>2 DEF GoneDuring
  <2>4. GoneIsGone'
    BY <1>0, <2>1, <2>2 DEF GoneIsGone, SentBefore
  <2> QED
    BY <2>3, <2>4
<1>3. CASE ~Loop /\ \A d \in Datagram : ~RegisterClient(d) /\ ~UnregisterClient(d)
  <2>1. UNCHANGED <<taken, targets, sent, clients, gone>>
    BY <1>3, OtherStep, SameRegistry DEF Start, broadcast, registry
  <2> QED
    BY <2>1 DEF GoneDuring, GoneIsGone
<1>4. CASE SubscribeNotification \/ Receive \/ CollectTargets \/ BroadcastDone \/ LoopStop
  <2>1. UNCHANGED <<sent, clients, gone>>
    BY <1>4, LoopStepsKeep
  <2>2. GoneIsGone'
    BY <2>1 DEF GoneIsGone
  <2>3. GoneDuring'
    BY <1>4, <2>1 DEF SubscribeNotification, Receive, CollectTargets, BroadcastDone,
       LoopStop, LoopState, GoneDuring
  <2> QED
    BY <2>2, <2>3
<1>5. ASSUME NEW a \in Addrs, Send(a)
      PROVE  GoneDuring' /\ GoneIsGone'
  <2>1. GoneDuring'
    BY <1>5, SendAdds DEF GoneDuring
  <2>2. SUFFICES ASSUME NEW b \in Addrs \ clients, NEW i \in 1..Len(sent'[b])
                 PROVE  sent'[b][i] <= gone[b]
    BY <1>5, <2>1, SendAdds DEF GoneIsGone
  <2>3. CASE b # a
    BY <1>5, <2>2, <2>3, SendAdds DEF GoneIsGone
  <2>4. CASE b = a
    <3>1. (i \in 1..Len(sent[a]) /\ sent'[a][i] = sent[a][i]) \/ sent'[a][i] = taken
      BY <1>5, <2>2, <2>4, SendAdds
    <3>2. taken <= gone[a]
      BY <1>5, <2>2, <2>4, SendAdds DEF GoneDuring
    <3> QED
      BY <2>2, <2>4, <3>1, <3>2 DEF GoneIsGone
  <2> QED
    BY <2>3, <2>4
<1> QED
  BY <1>1, <1>2, <1>3, <1>4, <1>5 DEF Loop

-------------------------------------------------------------------------------
LEMMA InitIInv == Init => IInv
<1> SUFFICES ASSUME Init
             PROVE  IInv
  OBVIOUS
<1>1. TypeOK
  BY UdpServerAssumption DEF Init, TypeOK
<1>2. LoopState /\ SentBefore /\ SentInOrder /\ NoMissedNotification /\ GoneDuring /\ GoneIsGone
  BY DEF Init, LoopState, SentBefore, SentInOrder, NoMissedNotification, GoneDuring, GoneIsGone
<1> QED
  BY <1>1, <1>2 DEF IInv

LEMMA NextIInv == IInv /\ [Next]_vars => IInv'
  BY TypeStep, LoopStateStep, SentBeforeStep, SentInOrderStep, NoMissedStep, GoneStep
     DEF IInv

(* The inductive invariant: what the loop works on, what has been sent by  *)
(* then, and to whom; it strengthens the theorems that follow.             *)
THEOREM ServerInvariant == Spec => []IInv
  BY InitIInv, NextIInv, PTL DEF Spec

(* Every reachable state of udp/server.go has the declared types; what was *)
(* sent is a notification that the channel took.                           *)
THEOREM TypeCorrect == Spec => []TypeOK
<1>1. IInv => TypeOK
  BY DEF IInv
<1> QED
  BY <1>1, ServerInvariant, PTL

(* However datagrams are lost, repeated and reordered, broadcast sends an  *)
(* address each notification at most once and in the channel's order.      *)
THEOREM OnceInOrder == Spec => []SentInOrder
<1>1. IInv => SentInOrder
  BY DEF IInv
<1> QED
  BY <1>1, ServerInvariant, PTL

(* A registered address is sent every notification that entered the        *)
(* channel after it registered, for as long as the socket is open and      *)
(* writes to the address do not fail.                                      *)
THEOREM NothingMissed == Spec => []NoMissedNotification
<1>1. IInv => NoMissedNotification
  BY DEF IInv
<1> QED
  BY <1>1, ServerInvariant, PTL

(* An address whose unregister was handled is sent no notification that    *)
(* broadcastLoop receives later, although targets are served unlocked.     *)
THEOREM NothingAfterLeaving == Spec => []GoneIsGone
<1>1. IInv => GoneIsGone
  BY DEF IInv
<1> QED
  BY <1>1, ServerInvariant, PTL

-------------------------------------------------------------------------------
(* Refinement: what the mapped variables are, step by step.                *)
Round == IF loop = "collecting" THEN taken - 1 ELSE taken
Line == CASE socket = "nil" -> "new" [] socket = "open" -> "up" [] OTHER -> "down"

LEMMA ListStart ==
    ASSUME Start \/ Stop \/ StopSocket, LoopState
    PROVE  [List!ListNext]_(List!listVars)
<1>1. UNCHANGED <<log, clients, taken, targets, sent>> /\ Round' = Round
    BY DEF Start, Stop, StopSocket, LoopState, Round, registry, broadcast
<1>2. Line' = Line \/ (Line = "new" /\ Line' = "up") \/ (Line = "up" /\ Line' = "down")
    BY DEF Start, Stop, StopSocket, Line
<1>3. QED
    BY <1>1, <1>2 DEF List!ListNext, List!listVars, List!Turn, Round, Line

LEMMA ListReader ==
    ASSUME Reader
    PROVE  [List!ListNext]_(List!listVars)
<1>1. ASSUME NEW d \in Datagram, RegisterClient(d) \/ UnregisterClient(d)
      PROVE  List!Enrol(d.from)
    BY <1>1 DEF RegisterClient, UnregisterClient, Reading, List!Enrol, lifecycle,
                broadcast
<1>2. \A d \in Datagram : d.from \in Addrs
    BY DEF Datagram
<1>3. ASSUME NEW d \in Datagram, HandleOther(d)
      PROVE  UNCHANGED List!listVars
    BY <1>3 DEF HandleOther, List!listVars, lifecycle, registry, broadcast
<1>4. ASSUME ReadError
      PROVE  UNCHANGED List!listVars
    BY <1>4 DEF ReadError, List!listVars, registry, broadcast
<1>5. QED
    BY <1>1, <1>2, <1>3, <1>4 DEF Reader, List!ListNext

LEMMA ListPublish ==
    ASSUME NEW g \in Genres, PublishNotification(g)
    PROVE  [List!ListNext]_(List!listVars)
<1>1. List!Put(g) \/ UNCHANGED List!listVars
    BY DEF PublishNotification, List!Put, List!listVars, lifecycle, registry, broadcast
<1>2. QED
    BY <1>1 DEF List!ListNext

LEMMA ListLoop ==
    ASSUME TypeOK, LoopState, Loop
    PROVE  [List!ListNext]_(List!listVars)
<1>1. UNCHANGED <<log, clients, socket>>
    BY DEF Loop, SubscribeNotification, Receive, CollectTargets, Send, BroadcastDone,
           LoopStop, lifecycle, registry
<1>2. ASSUME Receive
      PROVE  UNCHANGED List!listVars
    BY <1>1, <1>2 DEF Receive, List!listVars, TypeOK
<1>3. ASSUME CollectTargets
      PROVE  List!Mail
    BY <1>1, <1>3 DEF CollectTargets, LoopState, TypeOK, List!Mail
<1>4. ASSUME NEW a \in Addrs, Send(a)
      PROVE  List!Deliver(a)
    <2>1. loop = "sending" /\ loop' = "sending" /\ UNCHANGED taken
        BY <1>4 DEF Send
    <2>2. (Line = "up") <=> (socket = "open")
        BY DEF Line
    <2>3. QED
        BY <1>1, <1>4, <2>1, <2>2 DEF Send, List!Deliver, Line
<1>5. ASSUME SubscribeNotification \/ BroadcastDone \/ LoopStop
      PROVE  UNCHANGED List!listVars
    BY <1>1, <1>5 DEF SubscribeNotification, BroadcastDone, LoopStop, List!listVars
<1>6. QED
    BY <1>2, <1>3, <1>4, <1>5 DEF Loop, List!ListNext

(* udp/server.go implements MailingList: a notification goes to those who  *)
(* were registered when broadcast read the map, once to each and to nobody *)
(* else, before the next; until Stop none is left out but where the write  *)
(* fails.                                                                  *)
THEOREM ServerImplementsList == Spec => ListSpec
<1>1. Init => List!ListInit
    BY DEF Init, List!ListInit
<1>2. IInv /\ [Next]_vars => [List!ListNext]_(List!listVars)
    <2>1. ASSUME IInv, [Next]_vars
          PROVE  [List!ListNext]_(List!listVars)
        <3>1. CASE UNCHANGED vars
            BY <3>1 DEF vars, List!listVars, lifecycle, registry, broadcast
        <3>2. CASE Next
            BY <2>1, <3>2, ListStart, ListReader, ListPublish, ListLoop DEF Next, IInv
        <3>3. QED
            BY <2>1, <3>1, <3>2
    <2>2. QED
        BY <2>1
<1>3. QED
    BY <1>1, <1>2, ServerInvariant, PTL DEF Spec, ListSpec, List!ListSpec
===============================================================================
