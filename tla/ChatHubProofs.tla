---------------------------- MODULE ChatHubProofs ----------------------------
(***************************************************************************)
(* Proofs about ChatHub for every number of connections and rooms, every   *)
(* capacity and history limit: types, membership, order, no gap between    *)
(* the replay and the live events, who has a writer and when a closed      *)
(* channel is drained, what a connection without one has met, and the      *)
(* refinement of the abstract rooms.                                       *)
(***************************************************************************)
EXTENDS ChatHub, TLAPS

(* Where a goroutine is decides what it holds: who is in a room, whose     *)
(* channel is closed, who replays, who has targets left.                   *)
Lifecycle ==
    /\ \A c \in Clients :
        /\ pc[c] \in {"absent", "entered"} => event[c] = "join"
        /\ pc[c] = "gone" => event[c] = "leave"
        /\ event[c] = "leave" => pc[c] \in {"publishing", "sending", "gone"}
        /\ replay[c] # <<>> => pc[c] = "publishing" /\ event[c] = "join"
        /\ todo[c] # {} => pc[c] = "sending"
        /\ c \in aborted =>
            pc[c] \in {"leaving", "removed"} \/ event[c] = "leave"
    /\ closed = {c \in Clients : event[c] = "leave"}
    /\ members = {c \in Clients :
                    event[c] # "leave" /\ pc[c] \notin {"absent", "removed"}}

(* The current event of c has not reached d yet. *)
Owes(c, d) ==
    pc[c] \in {"absent", "entered", "publishing"} \/ d \in todo[c]

Live(d, i, c) == inbox[d][i].kind # "history" /\ inbox[d][i].from = c

(* No channel holds a live event later than its sender's current one. *)
Behind ==
    \A c, d \in Clients : \A i \in 1..Len(inbox[d]) :
        Live(d, i, c) =>
            /\ inbox[d][i].seq <= CurrentEvent(c).seq
            /\ Owes(c, d) => inbox[d][i].seq < CurrentEvent(c).seq

(* A row is in the room of its author. *)
DbRooms ==
    \A r \in Rooms : \A i \in 1..Len(db[r]) : Room[db[r][i].from] = r

(* What is left to replay comes after what has been replayed. *)
Replaying ==
    \A c \in Clients :
        /\ \A i, j \in 1..Len(replay[c]) :
            i < j => RowOrder(db[Room[c]], replay[c][i], replay[c][j])
        /\ \A i \in 1..Len(inbox[c]) : inbox[c][i].kind = "history" =>
            /\ pc[c] \notin {"absent", "entered"}
            /\ \A j \in 1..Len(replay[c]) :
                RowOrder(db[Room[c]], Row(inbox[c][i]), replay[c][j])

IInv ==
    /\ TypeOK
    /\ Lifecycle
    /\ Behind
    /\ SenderOrder
    /\ DbRooms
    /\ Replaying
    /\ HistoryOrder
    /\ NoGap

-------------------------------------------------------------------------------
(* Type correctness. *)
LEMMA SubSeqType ==
    ASSUME NEW S, NEW rows \in Seq(S), NEW k \in Nat
    PROVE  SubSeq(rows, k + 1, Len(rows)) \in Seq(S)
  OBVIOUS

LEMMA EventType ==
    ASSUME TypeOK, NEW c \in Clients
    PROVE  CurrentEvent(c) \in Item
  BY DEF TypeOK, CurrentEvent, Item

LEMMA HistoryType ==
    ASSUME TypeOK, NEW c \in Clients, replay[c] # <<>>
    PROVE  HistoryItem(Head(replay[c])) \in Item
<1>1. Head(replay[c]) \in Message
  BY DEF TypeOK
<1> QED
  BY <1>1 DEF HistoryItem, Message, Item

LEMMA TypeStep ==
    ASSUME TypeOK, [Next]_vars
    PROVE  TypeOK'
<1> USE DEF TypeOK, serving, channels, history
<1>1. ASSUME NEW c \in Clients, Join(c)
      PROVE  TypeOK'
  BY <1>1 DEF Join, PCs
<1>2. ASSUME NEW c \in Clients, RecentMessages(c)
      PROVE  TypeOK'
  <2> DEFINE rows == db[Room[c]]
             old == IF Len(rows) > HistLimit THEN Len(rows) - HistLimit ELSE 0
  <2>1. rows \in Seq(Message) /\ old \in Nat
    BY ChatHubAssumption
  <2>2. SubSeq(rows, old + 1, Len(rows)) \in Seq(Message)
    BY <2>1, SubSeqType
  <2>3. /\ replay' = [replay EXCEPT ![c] = SubSeq(rows, old + 1, Len(rows))]
        /\ base' = [base EXCEPT ![c] = old]
    BY <1>2 DEF RecentMessages
  <2>4. replay' \in [Clients -> Seq(Message)] /\ base' \in [Clients -> Nat]
    BY <2>1, <2>2, <2>3
  <2> QED
    BY <1>2, <2>4 DEF RecentMessages, PCs
<1>3. ASSUME NEW c \in Clients, RecentMessagesFail(c)
      PROVE  TypeOK'
  BY <1>3, ChatHubAssumption DEF RecentMessagesFail, PCs
<1>4. ASSUME NEW c \in Clients, Replay(c)
      PROVE  TypeOK'
  <2>1. replay' \in [Clients -> Seq(Message)]
    BY <1>4 DEF Replay
  <2>2. inbox' \in [Clients -> Seq(Item)]
    BY <1>4, HistoryType DEF Replay
  <2> QED
    BY <1>4, <2>1, <2>2 DEF Replay
<1>5. ASSUME NEW c \in Clients, CollectTargets(c)
      PROVE  TypeOK'
  BY <1>5 DEF CollectTargets, RoomMates, PCs
<1>6. ASSUME NEW c \in Clients, NEW d \in Clients, Deliver(c, d)
      PROVE  TypeOK'
  <2>1. inbox' \in [Clients -> Seq(Item)]
    BY <1>6, EventType DEF Deliver
  <2>2. todo' \in [Clients -> SUBSET Clients]
    BY <1>6 DEF Deliver
  <2> QED
    BY <1>6, <2>1, <2>2 DEF Deliver
<1>7. ASSUME NEW c \in Clients, NEW d \in Clients, Drop(c, d)
      PROVE  TypeOK'
  BY <1>7 DEF Drop
<1>8. ASSUME NEW c \in Clients, NEW d \in Clients, Panic(c, d)
      PROVE  TypeOK'
  BY <1>8 DEF Panic, PCs
<1>9. ASSUME NEW c \in Clients, BroadcastDone(c)
      PROVE  TypeOK'
  BY <1>9 DEF BroadcastDone, PCs
<1>10. ASSUME NEW c \in Clients, Leave(c) \/ CloseSend(c) \/ ReadError(c)
       PROVE  TypeOK'
  BY <1>10 DEF Leave, CloseSend, ReadError, PCs
<1>11. ASSUME NEW c \in Clients, ReadMessage(c)
       PROVE  TypeOK'
  <2>1. said' \in [Clients -> Nat]
    BY <1>11 DEF ReadMessage
  <2>2. Latest(c)' \in Message
    BY <2>1 DEF Latest, Message
  <2>3. Room[c] \in Rooms
    BY ChatHubAssumption
  <2>4. Append(db[Room[c]], Latest(c)') \in Seq(Message)
    BY <2>2, <2>3
  <2>5. db' \in [Rooms -> Seq(Message)]
    BY <1>11, <2>3, <2>4 DEF ReadMessage
  <2> QED
    BY <1>11, <2>1, <2>5 DEF ReadMessage, PCs
<1>12. ASSUME NEW c \in Clients, Write(c) \/ PingError(c) \/ WriteClose(c)
       PROVE  TypeOK'
  <2>1. pump' \in [Clients -> {"off", "running", "done"}]
    BY <1>12 DEF Write, PingError, WriteClose
  <2>2. CASE Write(c)
    BY <2>1, <2>2 DEF Write
  <2>3. CASE PingError(c) \/ WriteClose(c)
    BY <2>1, <2>3 DEF PingError, WriteClose
  <2> QED
    BY <1>12, <2>2, <2>3
<1>13. CASE UNCHANGED vars
  BY <1>13 DEF vars
<1> QED
  BY <1>1, <1>2, <1>3, <1>4, <1>5, <1>6, <1>7, <1>8, <1>9, <1>10, <1>11, <1>12,
     <1>13
  DEF Next, HubStep

LEMMA TypeInit == Init => TypeOK
<1> SUFFICES ASSUME Init
             PROVE  TypeOK
  OBVIOUS
<1>1. said \in [Clients -> Nat] /\ closed \subseteq Clients
  BY ChatHubAssumption DEF Init
<1>2. db \in [Rooms -> Seq(Message)]
  BY ChatHubAssumption DEF Init
<1>3. \A S : <<>> \in Seq(S)
  OBVIOUS
<1>4. inbox \in [Clients -> Seq(Item)] /\ replay \in [Clients -> Seq(Message)]
  BY <1>3 DEF Init
<1> QED
  BY <1>1, <1>2, <1>4 DEF Init, TypeOK, PCs

(* Every reachable state has the declared types. *)
THEOREM TypeCorrect == Spec => []TypeOK
<1>1. Init => TypeOK
  BY TypeInit
<1>2. TypeOK /\ [Next]_vars => TypeOK'
  BY TypeStep
<1> QED
  BY <1>1, <1>2, PTL DEF Spec

-------------------------------------------------------------------------------
(* Lifecycle is inductive. *)
LEMMA LifeInit == Init => Lifecycle
  BY ChatHubAssumption DEF Init, Lifecycle

LEMMA LifeStep ==
    ASSUME TypeOK, Lifecycle, [Next]_vars
    PROVE  Lifecycle'
<1> USE DEF TypeOK, Lifecycle
<1>1. ASSUME NEW c \in Clients, Join(c)
      PROVE  Lifecycle'
  BY <1>1 DEF Join, channels, history
<1>2. ASSUME NEW c \in Clients, RecentMessages(c)
      PROVE  Lifecycle'
  BY <1>2 DEF RecentMessages, channels
<1>3. ASSUME NEW c \in Clients, RecentMessagesFail(c)
      PROVE  Lifecycle'
  BY <1>3 DEF RecentMessagesFail, channels
<1>4. ASSUME NEW c \in Clients, Replay(c)
      PROVE  Lifecycle'
  BY <1>4 DEF Replay, history
<1>5. ASSUME NEW c \in Clients, CollectTargets(c)
      PROVE  Lifecycle'
  BY <1>5 DEF CollectTargets, channels, history
<1>6. ASSUME NEW c \in Clients, NEW d \in Clients, Deliver(c, d) \/ Drop(c, d)
      PROVE  Lifecycle'
  <2>1. \A b \in Clients : todo'[b] # {} => todo[b] # {}
    BY <1>6 DEF Deliver, Drop
  <2>2. UNCHANGED <<pc, event, replay, members, closed, aborted>>
    BY <1>6 DEF Deliver, Drop, channels, history
  <2> QED
    BY <2>1, <2>2
<1>7. ASSUME NEW c \in Clients, NEW d \in Clients, Panic(c, d)
      PROVE  Lifecycle'
  BY <1>7 DEF Panic, channels
<1>8. ASSUME NEW c \in Clients, BroadcastDone(c)
      PROVE  Lifecycle'
  BY <1>8 DEF BroadcastDone, channels, history
<1>9. ASSUME NEW c \in Clients, Leave(c)
      PROVE  Lifecycle'
  BY <1>9 DEF Leave, channels, history
<1>10. ASSUME NEW c \in Clients, CloseSend(c)
       PROVE  Lifecycle'
  BY <1>10 DEF CloseSend, history
<1>11. ASSUME NEW c \in Clients, ReadMessage(c)
       PROVE  Lifecycle'
  BY <1>11 DEF ReadMessage, channels, history
<1>12. ASSUME NEW c \in Clients, ReadError(c)
       PROVE  Lifecycle'
  BY <1>12 DEF ReadError, channels, history
<1>13. ASSUME NEW c \in Clients, Write(c) \/ PingError(c) \/ WriteClose(c)
       PROVE  Lifecycle'
  BY <1>13 DEF Write, PingError, WriteClose, serving, channels, history
<1>14. CASE UNCHANGED vars
  BY <1>14 DEF vars, serving, channels, history
<1> QED
  BY <1>1, <1>2, <1>3, <1>4, <1>5, <1>6, <1>7, <1>8, <1>9, <1>10, <1>11, <1>12,
     <1>13, <1>14
  DEF Next, HubStep

(* No closed channel is ever in a room. *)
THEOREM NoClosedMember == Spec => []OpenMembers
<1>1. Init => TypeOK /\ Lifecycle
  BY TypeInit, LifeInit
<1>2. TypeOK /\ Lifecycle /\ [Next]_vars => (TypeOK /\ Lifecycle)'
  BY TypeStep, LifeStep
<1>3. TypeOK /\ Lifecycle => OpenMembers
  BY DEF Lifecycle, OpenMembers
<1> QED
  BY <1>1, <1>2, <1>3, PTL DEF Spec

-------------------------------------------------------------------------------
(* Live events reach every channel in their sender's order. *)

(* A channel grows by one item at a time, replayed or live. *)
LEMMA InboxStep ==
    ASSUME TypeOK, [Next]_vars, NEW d \in Clients
    PROVE  \/ inbox'[d] = inbox[d]
           \/ /\ Replay(d)
              /\ inbox'[d] = Append(inbox[d], HistoryItem(Head(replay[d])))
           \/ \E c \in Clients :
                /\ Deliver(c, d)
                /\ inbox'[d] = Append(inbox[d], CurrentEvent(c))
<1> USE DEF TypeOK
<1>1. ASSUME NEW c \in Clients, Replay(c)
      PROVE  \/ inbox'[d] = inbox[d]
             \/ /\ Replay(d)
                /\ inbox'[d] = Append(inbox[d], HistoryItem(Head(replay[d])))
  BY <1>1 DEF Replay
<1>2. ASSUME NEW c \in Clients, NEW b \in Clients, Deliver(c, b)
      PROVE  \/ inbox'[d] = inbox[d]
             \/ /\ Deliver(c, d)
                /\ inbox'[d] = Append(inbox[d], CurrentEvent(c))
  <2>1. inbox' = [inbox EXCEPT ![b] = Append(@, CurrentEvent(c))]
    BY <1>2 DEF Deliver
  <2> QED
    BY <1>2, <2>1
<1>3. CASE /\ ~ \E c \in Clients : Replay(c)
           /\ ~ \E c, b \in Clients : Deliver(c, b)
  BY <1>3
  DEF Next, HubStep, Join, RecentMessages, RecentMessagesFail, CollectTargets,
      Drop, Panic, BroadcastDone, Leave, CloseSend, ReadMessage, ReadError,
      Write, PingError, WriteClose, vars, channels
<1> QED
  BY <1>1, <1>2, <1>3

(* The number of the current event only grows, and a target once served is *)
(* owed nothing until it does.                                             *)
LEMMA NumberStep ==
    ASSUME TypeOK, Lifecycle, [Next]_vars, NEW c \in Clients, NEW d \in Clients
    PROVE  \/ /\ CurrentEvent(c)' = CurrentEvent(c)
              /\ Owes(c, d)' => Owes(c, d)
           \/ CurrentEvent(c).seq < CurrentEvent(c)'.seq
<1> USE DEF TypeOK, Lifecycle
<1>1. ASSUME NEW b \in Clients, ReadMessage(b) \/ CloseSend(b)
      PROVE  \/ /\ CurrentEvent(c)' = CurrentEvent(c)
                /\ Owes(c, d)' => Owes(c, d)
             \/ CurrentEvent(c).seq < CurrentEvent(c)'.seq
  <2>1. CASE b = c
    <3>1. event[c] \in {"join", "message"}
      BY <1>1, <2>1 DEF ReadMessage, CloseSend
    <3>2. CurrentEvent(c).seq \in {0, said[c]}
      BY <3>1 DEF CurrentEvent
    <3>3. CurrentEvent(c)'.seq = said[c] + 1
      BY <1>1, <2>1 DEF ReadMessage, CloseSend, CurrentEvent
    <3> QED
      BY <3>2, <3>3
  <2>2. CASE b # c
    BY <1>1, <2>2 DEF ReadMessage, CloseSend, CurrentEvent, Owes
  <2> QED
    BY <2>1, <2>2
<1>2. ASSUME NEW b \in Clients, NEW a \in Clients,
             Deliver(b, a) \/ Drop(b, a) \/ Panic(b, a)
      PROVE  CurrentEvent(c)' = CurrentEvent(c) /\ (Owes(c, d)' => Owes(c, d))
  <2>1. UNCHANGED <<event, said>>
    BY <1>2 DEF Deliver, Drop, Panic
  <2>2. CASE Deliver(b, a) \/ Drop(b, a)
    <3>0. todo' = [todo EXCEPT ![b] = @ \ {a}] /\ pc' = pc
      BY <2>2 DEF Deliver, Drop
    <3>1. pc' = pc /\ todo'[c] \subseteq todo[c]
      BY <3>0
    <3> QED
      BY <2>1, <3>1 DEF CurrentEvent, Owes
  <2>3. CASE Panic(b, a)
    <3>1. /\ pc'[c] \in {"ghost", "leaving", "gone"} \/ pc'[c] = pc[c]
          /\ todo'[c] \subseteq todo[c]
      BY <2>3 DEF Panic
    <3> QED
      BY <2>1, <3>1 DEF CurrentEvent, Owes
  <2> QED
    BY <1>2, <2>2, <2>3
<1>3. ASSUME NEW b \in Clients,
             \/ Join(b) \/ RecentMessages(b) \/ RecentMessagesFail(b)
             \/ Replay(b) \/ CollectTargets(b) \/ BroadcastDone(b)
             \/ Leave(b) \/ ReadError(b)
      PROVE  CurrentEvent(c)' = CurrentEvent(c) /\ (Owes(c, d)' => Owes(c, d))
  <2>1. UNCHANGED <<event, said>>
    BY <1>3 DEF Join, RecentMessages, RecentMessagesFail, Replay,
                CollectTargets, BroadcastDone, Leave, ReadError
  <2>2. Owes(c, d)' => Owes(c, d)
    BY <1>3 DEF Join, RecentMessages, RecentMessagesFail, Replay,
                CollectTargets, BroadcastDone, Leave, ReadError, Owes
  <2> QED
    BY <2>1, <2>2 DEF CurrentEvent
<1>4. ASSUME \/ UNCHANGED vars
             \/ \E b \in Clients : Write(b) \/ PingError(b) \/ WriteClose(b)
      PROVE  CurrentEvent(c)' = CurrentEvent(c) /\ (Owes(c, d)' => Owes(c, d))
  <2>1. UNCHANGED <<pc, event, said, todo>>
    BY <1>4 DEF vars, Write, PingError, WriteClose, serving
  <2> QED
    BY <2>1 DEF CurrentEvent, Owes
<1> QED
  BY <1>1, <1>2, <1>3, <1>4 DEF Next, HubStep

LEMMA BehindStep ==
    ASSUME TypeOK, Lifecycle, Behind, [Next]_vars
    PROVE  Behind'
<1> SUFFICES ASSUME NEW c \in Clients, NEW d \in Clients,
                    NEW i \in 1..Len(inbox'[d]), Live(d, i, c)'
             PROVE  /\ inbox'[d][i].seq <= CurrentEvent(c)'.seq
                    /\ Owes(c, d)' => inbox'[d][i].seq < CurrentEvent(c)'.seq
  BY DEF Behind
<1> USE DEF TypeOK
<1>0. CurrentEvent(c).seq \in Nat /\ CurrentEvent(c)'.seq \in Nat
  <2>1. CurrentEvent(c).seq \in Nat
    BY DEF CurrentEvent
  <2>2. said'[c] \in Nat
    BY TypeStep
  <2>3. CurrentEvent(c)'.seq \in Nat
    BY <2>2 DEF CurrentEvent
  <2> QED
    BY <2>1, <2>3
<1>1. ASSUME i \in 1..Len(inbox[d]), inbox'[d][i] = inbox[d][i]
      PROVE  /\ inbox'[d][i].seq <= CurrentEvent(c)'.seq
             /\ Owes(c, d)' => inbox'[d][i].seq < CurrentEvent(c)'.seq
  <2>1. inbox[d][i] \in Item
    BY <1>1
  <2>2. inbox[d][i].seq \in Nat
    BY <2>1 DEF Item
  <2>3. /\ inbox[d][i].seq <= CurrentEvent(c).seq
        /\ Owes(c, d) => inbox[d][i].seq < CurrentEvent(c).seq
    BY <1>1 DEF Behind, Live
  <2> QED
    <3> DEFINE new == CurrentEvent(c)'.seq
               old == CurrentEvent(c).seq
               s == inbox[d][i].seq
    <3>1. (new = old /\ (Owes(c, d)' => Owes(c, d))) \/ old < new
      BY NumberStep
    <3>2. s \in Nat /\ new \in Nat /\ old \in Nat
      BY <1>0, <2>2
    <3>3. s <= old /\ (Owes(c, d) => s < old)
      BY <2>3
    <3> HIDE DEF new, old, s
    <3>4. CASE old < new
      <4>1. s < new /\ s <= new
        BY <3>2, <3>3, <3>4
      <4> QED
        BY <1>1, <4>1 DEF new, s
    <3>5. CASE new = old /\ (Owes(c, d)' => Owes(c, d))
      <4>1. s <= new /\ (Owes(c, d)' => s < new)
        BY <3>3, <3>5, Zenon
      <4> QED
        BY <1>1, <4>1 DEF new, s
    <3> QED
      BY <3>1, <3>4, <3>5
<1>2. CASE inbox'[d] = inbox[d]
  BY <1>1, <1>2
<1>3. CASE /\ Replay(d)
           /\ inbox'[d] = Append(inbox[d], HistoryItem(Head(replay[d])))
  <2>1. HistoryItem(Head(replay[d])).kind = "history"
    BY DEF HistoryItem
  <2>2. i # Len(inbox[d]) + 1
    BY <1>3, <2>1 DEF Live
  <2>3. i \in 1..Len(inbox[d]) /\ inbox'[d][i] = inbox[d][i]
    BY <1>3, <2>2
  <2> QED
    BY <1>1, <2>3
<1>4. ASSUME NEW b \in Clients, Deliver(b, d),
             inbox'[d] = Append(inbox[d], CurrentEvent(b))
      PROVE  /\ inbox'[d][i].seq <= CurrentEvent(c)'.seq
             /\ Owes(c, d)' => inbox'[d][i].seq < CurrentEvent(c)'.seq
  <2>1. CASE i = Len(inbox[d]) + 1
    <3>1. inbox'[d][i] = CurrentEvent(b)
      BY <1>4, <2>1
    <3>2. b = c
      BY <3>1 DEF Live, CurrentEvent
    <3>3. CurrentEvent(c)' = CurrentEvent(c)
      BY <1>4 DEF Deliver, CurrentEvent
    <3>4. ~Owes(c, d)'
      BY <1>4, <3>2 DEF Deliver, Owes
    <3> QED
      BY <1>0, <3>1, <3>2, <3>3, <3>4
  <2>2. CASE i # Len(inbox[d]) + 1
    BY <1>1, <1>4, <2>2
  <2> QED
    BY <2>1, <2>2
<1> QED
  BY <1>2, <1>3, <1>4, InboxStep

LEMMA OrderStep ==
    ASSUME TypeOK, Behind, SenderOrder, [Next]_vars
    PROVE  SenderOrder'
<1> SUFFICES ASSUME NEW d \in Clients, NEW i \in 1..Len(inbox'[d]),
                    NEW j \in 1..Len(inbox'[d]), i < j,
                    inbox'[d][i].from = inbox'[d][j].from,
                    inbox'[d][i].kind # "history",
                    inbox'[d][j].kind # "history"
             PROVE  inbox'[d][i].seq < inbox'[d][j].seq
  BY DEF SenderOrder
<1> USE DEF TypeOK
<1>1. CASE inbox'[d] = inbox[d]
  BY <1>1 DEF SenderOrder
<1>2. CASE /\ Replay(d)
           /\ inbox'[d] = Append(inbox[d], HistoryItem(Head(replay[d])))
  <2>1. j # Len(inbox[d]) + 1
    BY <1>2 DEF HistoryItem
  <2>2. /\ i \in 1..Len(inbox[d]) /\ inbox'[d][i] = inbox[d][i]
        /\ j \in 1..Len(inbox[d]) /\ inbox'[d][j] = inbox[d][j]
    BY <1>2, <2>1
  <2> QED
    BY <2>2 DEF SenderOrder
<1>3. ASSUME NEW b \in Clients, Deliver(b, d),
             inbox'[d] = Append(inbox[d], CurrentEvent(b))
      PROVE  inbox'[d][i].seq < inbox'[d][j].seq
  <2>1. i \in 1..Len(inbox[d]) /\ inbox'[d][i] = inbox[d][i]
    BY <1>3
  <2>2. CASE j = Len(inbox[d]) + 1
    <3>1. inbox'[d][j] = CurrentEvent(b)
      BY <1>3, <2>2
    <3>2. Live(d, i, b)
      BY <2>1, <3>1 DEF Live, CurrentEvent
    <3>3. Owes(b, d)
      BY <1>3 DEF Deliver, Owes
    <3> QED
      BY <2>1, <3>1, <3>2, <3>3 DEF Behind
  <2>3. CASE j # Len(inbox[d]) + 1
    <3>1. j \in 1..Len(inbox[d]) /\ inbox'[d][j] = inbox[d][j]
      BY <1>3, <2>3
    <3> QED
      BY <2>1, <3>1 DEF SenderOrder
  <2> QED
    BY <2>2, <2>3
<1> QED
  BY <1>1, <1>2, <1>3, InboxStep

-------------------------------------------------------------------------------
(* The replay is in the order of the rows. *)

LEMMA AppendFacts ==
    ASSUME NEW S, NEW q \in Seq(S), NEW e \in S
    PROVE  /\ Len(Append(q, e)) = Len(q) + 1
           /\ \A i \in 1..Len(q) : Append(q, e)[i] = q[i]
           /\ Append(q, e)[Len(q) + 1] = e
  OBVIOUS

(* A room's rows grow by one message at a time. *)
LEMMA DbStep ==
    ASSUME TypeOK, [Next]_vars, NEW r \in Rooms
    PROVE  \/ db'[r] = db[r]
           \/ \E c \in Clients :
                /\ ReadMessage(c)
                /\ Room[c] = r
                /\ db'[r] = Append(db[r], [from |-> c, seq |-> said[c] + 1])
<1> USE DEF TypeOK
<1>1. ASSUME NEW c \in Clients, ReadMessage(c)
      PROVE  \/ db'[r] = db[r]
             \/ /\ Room[c] = r
                /\ db'[r] = Append(db[r], [from |-> c, seq |-> said[c] + 1])
  <2>1. Latest(c)' = [from |-> c, seq |-> said[c] + 1]
    BY <1>1 DEF ReadMessage, Latest
  <2>2. db' = [db EXCEPT ![Room[c]] = Append(@, Latest(c)')] \/ db' = db
    BY <1>1 DEF ReadMessage
  <2> QED
    BY <2>1, <2>2
<1>2. CASE ~ \E c \in Clients : ReadMessage(c)
  <2>1. db' = db
    BY <1>2
    DEF Next, HubStep, Join, RecentMessages, RecentMessagesFail, Replay,
        CollectTargets, Deliver, Drop, Panic, BroadcastDone, Leave, CloseSend,
        ReadError, Write, PingError, WriteClose, vars
  <2> QED
    BY <2>1
<1> QED
  BY <1>1, <1>2

LEMMA RowsStep ==
    ASSUME TypeOK, DbRooms, [Next]_vars
    PROVE  DbRooms'
<1> SUFFICES ASSUME NEW r \in Rooms, NEW i \in 1..Len(db'[r])
             PROVE  Room[db'[r][i].from] = r
  BY DEF DbRooms
<1>1. CASE db'[r] = db[r]
  BY <1>1 DEF DbRooms
<1>2. ASSUME NEW c \in Clients, Room[c] = r,
             db'[r] = Append(db[r], [from |-> c, seq |-> said[c] + 1])
      PROVE  Room[db'[r][i].from] = r
  <2>1. db[r] \in Seq(Message) /\ [from |-> c, seq |-> said[c] + 1] \in Message
    <3>1. db[r] \in Seq(Message) /\ said[c] + 1 \in Nat
      BY DEF TypeOK
    <3> QED
      BY <3>1 DEF Message
  <2>2. /\ Len(db'[r]) = Len(db[r]) + 1
        /\ \A k \in 1..Len(db[r]) : db'[r][k] = db[r][k]
        /\ db'[r][Len(db[r]) + 1] = [from |-> c, seq |-> said[c] + 1]
    BY <1>2, <2>1, AppendFacts
  <2>3. CASE i = Len(db[r]) + 1
    BY <1>2, <2>2, <2>3
  <2>4. CASE i # Len(db[r]) + 1
    <3>1. Len(db[r]) \in Nat
      BY <2>1
    <3>2. i \in 1..Len(db[r])
      BY <2>2, <2>4, <3>1
    <3> QED
      BY <2>2, <3>2 DEF DbRooms
  <2> QED
    BY <2>3, <2>4
<1> QED
  BY <1>1, <1>2, DbStep

LEMMA RowOrderStep ==
    ASSUME TypeOK, [Next]_vars, NEW r \in Rooms, NEW m, NEW n,
           RowOrder(db[r], m, n)
    PROVE  RowOrder(db'[r], m, n)
<1>1. CASE db'[r] = db[r]
  BY <1>1
<1>2. ASSUME NEW c \in Clients,
             db'[r] = Append(db[r], [from |-> c, seq |-> said[c] + 1])
      PROVE  RowOrder(db'[r], m, n)
  <2>1. PICK i, j \in 1..Len(db[r]) : i < j /\ db[r][i] = m /\ db[r][j] = n
    BY DEF RowOrder
  <2>2. db[r] \in Seq(Message) /\ [from |-> c, seq |-> said[c] + 1] \in Message
    <3>1. db[r] \in Seq(Message) /\ said[c] + 1 \in Nat
      BY DEF TypeOK
    <3> QED
      BY <3>1 DEF Message
  <2>3. /\ Len(db'[r]) = Len(db[r]) + 1
        /\ \A k \in 1..Len(db[r]) : db'[r][k] = db[r][k]
    BY <1>2, <2>2, AppendFacts
  <2>4. /\ i \in 1..Len(db'[r]) /\ db'[r][i] = m
        /\ j \in 1..Len(db'[r]) /\ db'[r][j] = n
    BY <2>1, <2>2, <2>3
  <2> QED
    BY <2>1, <2>4 DEF RowOrder
<1> QED
  BY <1>1, <1>2, DbStep

(* A replay changes by a query or by a turn of the loop. *)
LEMMA ReplayStep ==
    ASSUME TypeOK, [Next]_vars, NEW c \in Clients
    PROVE  \/ replay'[c] = replay[c]
           \/ RecentMessages(c)
           \/ Replay(c)
<1> USE DEF TypeOK
<1>1. ASSUME NEW b \in Clients, RecentMessages(b) \/ Replay(b)
      PROVE  \/ replay'[c] = replay[c]
             \/ RecentMessages(c)
             \/ Replay(c)
  BY <1>1 DEF RecentMessages, Replay
<1>2. CASE ~ \E b \in Clients : RecentMessages(b) \/ Replay(b)
  <2>1. replay' = replay
    BY <1>2
    DEF Next, HubStep, Join, RecentMessagesFail, CollectTargets, Deliver, Drop,
        Panic, BroadcastDone, Leave, CloseSend, ReadMessage, ReadError, Write,
        PingError, WriteClose, serving, vars
  <2> QED
    BY <2>1
<1> QED
  BY <1>1, <1>2

(* Nobody goes back to before the query. *)
LEMMA PastQuery ==
    ASSUME TypeOK, [Next]_vars, NEW c \in Clients,
           pc[c] \notin {"absent", "entered"}
    PROVE  pc'[c] \notin {"absent", "entered"}
<1> USE DEF TypeOK
<1>1. ASSUME NEW b \in Clients, NEW d \in Clients,
             Deliver(b, d) \/ Drop(b, d) \/ Panic(b, d)
      PROVE  pc'[c] \notin {"absent", "entered"}
  BY <1>1 DEF Deliver, Drop, Panic
<1>2. ASSUME NEW b \in Clients,
             \/ Join(b) \/ RecentMessages(b) \/ RecentMessagesFail(b)
             \/ Replay(b) \/ CollectTargets(b) \/ BroadcastDone(b)
      PROVE  pc'[c] \notin {"absent", "entered"}
  BY <1>2 DEF Join, RecentMessages, RecentMessagesFail, Replay, CollectTargets,
              BroadcastDone
<1>3. ASSUME NEW b \in Clients,
             Leave(b) \/ CloseSend(b) \/ ReadMessage(b) \/ ReadError(b)
      PROVE  pc'[c] \notin {"absent", "entered"}
  BY <1>3 DEF Leave, CloseSend, ReadMessage, ReadError
<1>4. ASSUME \/ UNCHANGED vars
             \/ \E b \in Clients : Write(b) \/ PingError(b) \/ WriteClose(b)
      PROVE  pc'[c] \notin {"absent", "entered"}
  BY <1>4 DEF vars, Write, PingError, WriteClose, serving
<1> QED
  BY <1>1, <1>2, <1>3, <1>4 DEF Next, HubStep

(* An item already in a channel stays where it is. *)
LEMMA InboxGrows ==
    ASSUME TypeOK, [Next]_vars, NEW d \in Clients
    PROVE  /\ Len(inbox[d]) \in Nat /\ Len(inbox'[d]) \in Nat
           /\ Len(inbox[d]) <= Len(inbox'[d])
           /\ \A i \in 1..Len(inbox[d]) : inbox'[d][i] = inbox[d][i]
<1>1. inbox[d] \in Seq(Item)
  BY DEF TypeOK
<1>2. CASE inbox'[d] = inbox[d]
  BY <1>1, <1>2
<1>3. ASSUME NEW e \in Item, inbox'[d] = Append(inbox[d], e)
      PROVE  /\ Len(inbox[d]) \in Nat /\ Len(inbox'[d]) \in Nat
             /\ Len(inbox[d]) <= Len(inbox'[d])
             /\ \A i \in 1..Len(inbox[d]) : inbox'[d][i] = inbox[d][i]
  BY <1>1, <1>3, AppendFacts
<1>4. Replay(d) => HistoryItem(Head(replay[d])) \in Item
  BY HistoryType DEF Replay
<1>5. \A c \in Clients : CurrentEvent(c) \in Item
  BY EventType
<1> QED
  BY <1>2, <1>3, <1>4, <1>5, InboxStep

(* The item at position i of a channel is old or has just come in. *)
LEMMA NewItem ==
    ASSUME TypeOK, [Next]_vars, NEW d \in Clients, NEW i \in 1..Len(inbox'[d])
    PROVE  \/ i \in 1..Len(inbox[d]) /\ inbox'[d][i] = inbox[d][i]
           \/ /\ i = Len(inbox[d]) + 1
              /\ \/ /\ Replay(d)
                    /\ inbox'[d][i] = HistoryItem(Head(replay[d]))
                 \/ \E c \in Clients :
                        Deliver(c, d) /\ inbox'[d][i] = CurrentEvent(c)
<1>1. inbox[d] \in Seq(Item) /\ Len(inbox[d]) \in Nat
  BY DEF TypeOK
<1>2. CASE inbox'[d] = inbox[d]
  BY <1>1, <1>2
<1>3. ASSUME NEW e \in Item, inbox'[d] = Append(inbox[d], e)
      PROVE  \/ i \in 1..Len(inbox[d]) /\ inbox'[d][i] = inbox[d][i]
             \/ i = Len(inbox[d]) + 1 /\ inbox'[d][i] = e
  BY <1>1, <1>3, AppendFacts
<1>4. CASE /\ Replay(d)
           /\ inbox'[d] = Append(inbox[d], HistoryItem(Head(replay[d])))
  <2>1. HistoryItem(Head(replay[d])) \in Item
    BY <1>4, HistoryType DEF Replay
  <2> QED
    BY <1>3, <1>4, <2>1
<1>5. CASE \E c \in Clients :
             /\ Deliver(c, d)
             /\ inbox'[d] = Append(inbox[d], CurrentEvent(c))
  <2>1. \A c \in Clients : CurrentEvent(c) \in Item
    BY EventType
  <2> QED
    BY <1>3, <1>5, <2>1
<1> QED
  BY <1>2, <1>4, <1>5, InboxStep

(* Only newcomers replay, and they have sent nothing to themselves yet. *)
LEMMA HistoryFresh ==
    ASSUME TypeOK, Lifecycle, Behind, NEW d \in Clients, Replay(d),
           NEW i \in 1..Len(inbox[d])
    PROVE  ~(inbox[d][i].kind = "join" /\ inbox[d][i].from = d)
<1>1. replay[d] # <<>> /\ pc[d] = "publishing"
  BY DEF Replay
<1>2. event[d] = "join"
  BY <1>1 DEF Lifecycle
<1>3. Owes(d, d) /\ CurrentEvent(d).seq = 0
  BY <1>1, <1>2 DEF Owes, CurrentEvent
<1>4. inbox[d][i] \in Item
  BY DEF TypeOK
<1>5. inbox[d][i].seq \in Nat
  BY <1>4 DEF Item
<1> QED
  BY <1>3, <1>5 DEF Behind, Live

LEMMA HistoryStep ==
    ASSUME TypeOK, Lifecycle, Behind, Replaying, HistoryOrder, [Next]_vars
    PROVE  HistoryOrder'
<1> SUFFICES ASSUME NEW c \in Clients,
                    NEW i \in 1..Len(inbox'[c]), NEW j \in 1..Len(inbox'[c]),
                    i < j, inbox'[c][j].kind = "history"
             PROVE  /\ ~(inbox'[c][i].kind = "join" /\ inbox'[c][i].from = c)
                    /\ inbox'[c][i].kind = "history"
                       => RowOrder(db'[Room[c]],
                                   Row(inbox'[c][i]), Row(inbox'[c][j]))
  BY DEF HistoryOrder, Row
<1>0. Room[c] \in Rooms
  BY ChatHubAssumption
<1>1. i \in 1..Len(inbox[c]) /\ inbox'[c][i] = inbox[c][i]
  BY InboxGrows, NewItem
<1>2. CASE j \in 1..Len(inbox[c]) /\ inbox'[c][j] = inbox[c][j]
  <2>1. /\ ~(inbox[c][i].kind = "join" /\ inbox[c][i].from = c)
        /\ inbox[c][i].kind = "history"
           => RowOrder(db[Room[c]], Row(inbox[c][i]), Row(inbox[c][j]))
    BY <1>1, <1>2 DEF HistoryOrder
  <2> QED
    BY <1>0, <1>1, <1>2, <2>1, RowOrderStep
<1>3. CASE Replay(c) /\ inbox'[c][j] = HistoryItem(Head(replay[c]))
  <2>1. ~(inbox[c][i].kind = "join" /\ inbox[c][i].from = c)
    BY <1>1, <1>3, HistoryFresh
  <2>2. replay[c] \in Seq(Message) /\ replay[c] # <<>>
    BY <1>3 DEF Replay, TypeOK
  <2>3. Head(replay[c]) = replay[c][1] /\ 1 \in 1..Len(replay[c])
    BY <2>2
  <2>4. replay[c][1] \in Message
    BY <2>2, <2>3
  <2>5. Row(inbox'[c][j]) = replay[c][1]
    BY <1>3, <2>3, <2>4 DEF Row, HistoryItem, Message
  <2>6. inbox[c][i].kind = "history"
        => RowOrder(db[Room[c]], Row(inbox[c][i]), replay[c][1])
    BY <1>1, <2>3 DEF Replaying
  <2> QED
    BY <1>0, <1>1, <2>1, <2>5, <2>6, RowOrderStep
<1>4. ASSUME NEW b \in Clients, inbox'[c][j] = CurrentEvent(b)
      PROVE  FALSE
  <2>1. event[b] # "history"
    BY DEF TypeOK
  <2> QED
    BY <1>4, <2>1 DEF CurrentEvent
<1> QED
  BY <1>2, <1>3, <1>4, NewItem

(* What the query returns, and the replay, are in the order of the rows.  *)
LEMMA QueryOrder ==
    ASSUME TypeOK, NEW c \in Clients, RecentMessages(c),
           NEW i \in 1..Len(replay'[c]), NEW j \in 1..Len(replay'[c]), i < j
    PROVE  RowOrder(db[Room[c]], replay'[c][i], replay'[c][j])
<1> DEFINE rows == db[Room[c]]
           old == IF Len(rows) > HistLimit THEN Len(rows) - HistLimit ELSE 0
<1>1. rows \in Seq(Message) /\ Len(rows) \in Nat
  BY ChatHubAssumption DEF TypeOK
<1>2. old \in 0..Len(rows)
  BY <1>1, ChatHubAssumption
<1>3. replay'[c] = SubSeq(rows, old + 1, Len(rows))
  BY DEF RecentMessages, TypeOK
<1> HIDE DEF rows, old
<1>4. /\ Len(replay'[c]) = Len(rows) - old
      /\ \A k \in 1..Len(replay'[c]) : replay'[c][k] = rows[old + k]
  BY <1>1, <1>2, <1>3
<1>5. /\ old + i \in 1..Len(rows) /\ old + j \in 1..Len(rows)
      /\ old + i < old + j
  BY <1>1, <1>2, <1>4
<1>6. RowOrder(rows, replay'[c][i], replay'[c][j])
  BY <1>4, <1>5 DEF RowOrder
<1> QED
  BY <1>6 DEF rows

LEMMA ReplayingStep ==
    ASSUME TypeOK, Lifecycle, Replaying, [Next]_vars
    PROVE  Replaying'
<1> SUFFICES ASSUME NEW c \in Clients
             PROVE  /\ \A i, j \in 1..Len(replay'[c]) : i < j =>
                        RowOrder(db'[Room[c]], replay'[c][i], replay'[c][j])
                    /\ \A i \in 1..Len(inbox'[c]) :
                        inbox'[c][i].kind = "history" =>
                        /\ pc'[c] \notin {"absent", "entered"}
                        /\ \A j \in 1..Len(replay'[c]) :
                            RowOrder(db'[Room[c]], Row(inbox'[c][i]),
                                     replay'[c][j])
  BY DEF Replaying, Row
<1>0. Room[c] \in Rooms
  BY ChatHubAssumption
<1>1. ASSUME NEW i \in 1..Len(replay'[c]), NEW j \in 1..Len(replay'[c]), i < j
      PROVE  RowOrder(db'[Room[c]], replay'[c][i], replay'[c][j])
  <2>1. RowOrder(db[Room[c]], replay'[c][i], replay'[c][j])
    <3>1. CASE replay'[c] = replay[c]
      BY <1>1, <3>1 DEF Replaying
    <3>2. CASE RecentMessages(c)
      BY <1>1, <3>2, QueryOrder
    <3>3. CASE Replay(c)
      <4>1. replay[c] \in Seq(Message) /\ replay[c] # <<>>
        BY <3>3 DEF Replay, TypeOK
      <4>2. replay'[c] = Tail(replay[c])
        BY <3>3 DEF Replay, TypeOK
      <4>3. /\ i + 1 \in 1..Len(replay[c]) /\ replay'[c][i] = replay[c][i + 1]
            /\ j + 1 \in 1..Len(replay[c]) /\ replay'[c][j] = replay[c][j + 1]
            /\ i + 1 < j + 1
        BY <1>1, <4>1, <4>2
      <4> QED
        BY <4>3 DEF Replaying
    <3> QED
      BY <3>1, <3>2, <3>3, ReplayStep
  <2> QED
    BY <1>0, <2>1, RowOrderStep
<1>2. ASSUME NEW i \in 1..Len(inbox'[c]), inbox'[c][i].kind = "history"
      PROVE  /\ pc'[c] \notin {"absent", "entered"}
             /\ \A j \in 1..Len(replay'[c]) :
                 RowOrder(db'[Room[c]], Row(inbox'[c][i]), replay'[c][j])
  <2>1. CASE i \in 1..Len(inbox[c]) /\ inbox'[c][i] = inbox[c][i]
    <3>1. /\ pc[c] \notin {"absent", "entered"}
          /\ \A j \in 1..Len(replay[c]) :
              RowOrder(db[Room[c]], Row(inbox[c][i]), replay[c][j])
      BY <1>2, <2>1 DEF Replaying
    <3>2. ~RecentMessages(c)
      BY <3>1 DEF RecentMessages
    <3>3. ASSUME NEW j \in 1..Len(replay'[c])
          PROVE  \E k \in 1..Len(replay[c]) : replay'[c][j] = replay[c][k]
      <4>1. CASE Replay(c)
        <5>1. replay[c] \in Seq(Message) /\ replay[c] # <<>>
          BY <4>1 DEF Replay, TypeOK
        <5>2. replay'[c] = Tail(replay[c])
          BY <4>1 DEF Replay, TypeOK
        <5>3. j + 1 \in 1..Len(replay[c]) /\ replay'[c][j] = replay[c][j + 1]
          BY <5>1, <5>2
        <5> QED
          BY <5>3
      <4> QED
        BY <3>2, <4>1, ReplayStep
    <3>4. \A j \in 1..Len(replay'[c]) :
              RowOrder(db[Room[c]], Row(inbox'[c][i]), replay'[c][j])
      BY <2>1, <3>1, <3>3
    <3> QED
      BY <1>0, <3>1, <3>4, PastQuery, RowOrderStep
  <2>2. CASE Replay(c) /\ inbox'[c][i] = HistoryItem(Head(replay[c]))
    <3>1. replay[c] \in Seq(Message) /\ replay[c] # <<>>
      BY <2>2 DEF Replay, TypeOK
    <3>2. Head(replay[c]) = replay[c][1] /\ 1 \in 1..Len(replay[c])
      BY <3>1
    <3>3. replay[c][1] \in Message
      BY <3>1, <3>2
    <3>4. Row(inbox'[c][i]) = replay[c][1]
      BY <2>2, <3>2, <3>3 DEF Row, HistoryItem, Message
    <3>5. replay'[c] = Tail(replay[c])
      BY <2>2 DEF Replay, TypeOK
    <3>6. ASSUME NEW j \in 1..Len(replay'[c])
          PROVE  RowOrder(db'[Room[c]], Row(inbox'[c][i]), replay'[c][j])
      <4>1. /\ j + 1 \in 1..Len(replay[c]) /\ replay'[c][j] = replay[c][j + 1]
            /\ 1 < j + 1
        BY <3>1, <3>5
      <4>2. RowOrder(db[Room[c]], replay[c][1], replay[c][j + 1])
        BY <3>2, <4>1 DEF Replaying
      <4> QED
        BY <1>0, <3>4, <4>1, <4>2, RowOrderStep
    <3>7. pc'[c] = "publishing"
      BY <2>2 DEF Replay, TypeOK
    <3> QED
      BY <3>6, <3>7
  <2>3. ASSUME NEW b \in Clients, inbox'[c][i] = CurrentEvent(b)
        PROVE  FALSE
    <3>1. event[b] # "history"
      BY DEF TypeOK
    <3> QED
      BY <1>2, <2>3, <3>1 DEF CurrentEvent
  <2> QED
    BY <2>1, <2>2, <2>3, NewItem
<1> QED
  BY <1>1, <1>2

-------------------------------------------------------------------------------
(* No saved message falls into a gap. *)

(* A goroutine that is not reading keeps the number of its last message. *)
LEMMA SaidStep ==
    ASSUME TypeOK, [Next]_vars, NEW b \in Clients, ~ReadMessage(b)
    PROVE  said'[b] = said[b]
<1>1. CASE \E c \in Clients : ReadMessage(c)
  BY <1>1 DEF ReadMessage, TypeOK
<1>2. CASE ~ \E c \in Clients : ReadMessage(c)
  BY <1>2
  DEF Next, HubStep, Join, RecentMessages, RecentMessagesFail, Replay,
      CollectTargets, Deliver, Drop, Panic, BroadcastDone, Leave, CloseSend,
      ReadError, Write, PingError, WriteClose, serving, vars
<1> QED
  BY <1>1, <1>2

LEMMA AbortedGrows ==
    ASSUME [Next]_vars
    PROVE  aborted \subseteq aborted'
BY DEF Next, HubStep, Join, RecentMessages, RecentMessagesFail, Replay,
       CollectTargets, Deliver, Drop, Panic, BroadcastDone, Leave, CloseSend,
       ReadMessage, ReadError, Write, PingError, WriteClose, history, vars

(* What a channel took it keeps. *)
LEMMA TookStep ==
    ASSUME TypeOK, [Next]_vars, NEW c \in Clients, NEW i,
           Took(c, db[Room[c]][i]), db'[Room[c]][i] = db[Room[c]][i]
    PROVE  Accounted(c, i)'
<1>1. PICK k \in 1..Len(inbox[c]) :
        /\ inbox[c][k].kind \in {"history", "message"}
        /\ Row(inbox[c][k]) = db[Room[c]][i]
  BY DEF Took
<1>2. k \in 1..Len(inbox'[c]) /\ inbox'[c][k] = inbox[c][k]
  BY InboxGrows
<1> QED
  BY <1>1, <1>2 DEF Accounted, Took, Row

(* What was lost stays lost. *)
LEMMA LostStep ==
    ASSUME TypeOK, Lifecycle, [Next]_vars, NEW c \in Clients, NEW i,
           Lost(c, db[Room[c]][i]), db'[Room[c]][i] = db[Room[c]][i],
           db[Room[c]][i] \in Message
    PROVE  Accounted(c, i)'
<1>1. CASE Len(inbox[c]) >= SendCap
  <2>1. Len(inbox'[c]) >= SendCap
    BY <1>1, InboxGrows, ChatHubAssumption
  <2> QED
    BY <2>1 DEF Accounted, Lost
<1>2. ASSUME NEW b \in Clients, b \in aborted,
             db[Room[c]][i] = [from |-> b, seq |-> said[b]]
      PROVE  Accounted(c, i)'
  <2>1. ~ReadMessage(b)
    BY <1>2 DEF Lifecycle, ReadMessage
  <2>2. said'[b] = said[b] /\ b \in aborted'
    BY <1>2, <2>1, SaidStep, AbortedGrows
  <2>3. db'[Room[c]][i] = [from |-> b, seq |-> said'[b]]
    BY <1>2, <2>2
  <2> QED
    BY <2>2, <2>3 DEF Accounted, Lost, Latest
<1> QED
  BY <1>1, <1>2 DEF Lost, Latest, Message

(* What is to be replayed stays so, or is replayed, or meets a full channel. *)
LEMMA ReplayedStep ==
    ASSUME TypeOK, Lifecycle, [Next]_vars, NEW c \in Clients, NEW i,
           NEW k \in 1..Len(replay[c]), replay[c][k] = db[Room[c]][i],
           db'[Room[c]][i] = db[Room[c]][i]
    PROVE  Accounted(c, i)'
<1>1. replay[c] \in Seq(Message) /\ replay[c] # <<>>
  BY DEF TypeOK
<1>2. CASE replay'[c] = replay[c]
  BY <1>2 DEF Accounted, Coming
<1>3. CASE RecentMessages(c)
  BY <1>1, <1>3 DEF RecentMessages, Lifecycle
<1>4. CASE Replay(c)
  <2>1. CASE k # 1
    <3>1. replay'[c] = Tail(replay[c])
      BY <1>4 DEF Replay, TypeOK
    <3>2. k - 1 \in 1..Len(replay'[c]) /\ replay'[c][k - 1] = replay[c][k]
      BY <1>1, <2>1, <3>1
    <3> QED
      BY <3>2 DEF Accounted, Coming
  <2>2. CASE k = 1 /\ Full(c)
    <3>1. Len(inbox[c]) >= SendCap
      BY <2>2, ChatHubAssumption DEF Full, TypeOK
    <3>2. Len(inbox'[c]) >= SendCap
      BY <3>1, InboxGrows, ChatHubAssumption
    <3> QED
      BY <3>2 DEF Accounted, Lost
  <2>3. CASE k = 1 /\ ~Full(c)
    <3>1. Head(replay[c]) = replay[c][1] /\ replay[c][1] \in Message
      BY <1>1
    <3>2. HistoryItem(replay[c][1]) \in Item
      BY <3>1 DEF HistoryItem, Item, Message
    <3>3. inbox'[c] = Append(inbox[c], HistoryItem(replay[c][1]))
      BY <1>4, <2>3, <3>1 DEF Replay, TypeOK
    <3>4. inbox[c] \in Seq(Item)
      BY DEF TypeOK
    <3>5. /\ Len(inbox[c]) + 1 \in 1..Len(inbox'[c])
          /\ inbox'[c][Len(inbox[c]) + 1] = HistoryItem(replay[c][1])
      BY <3>2, <3>3, <3>4, AppendFacts
    <3>6. /\ HistoryItem(replay[c][1]).kind = "history"
          /\ Row(HistoryItem(replay[c][1])) = replay[c][1]
      BY <3>1 DEF HistoryItem, Row, Message
    <3> QED
      BY <2>3, <3>5, <3>6 DEF Accounted, Took, Row
  <2> QED
    BY <2>1, <2>2, <2>3
<1> QED
  BY <1>2, <1>3, <1>4, ReplayStep

(* What can happen to a message that c is still owed by b. *)
LEMMA OwedStep ==
    ASSUME TypeOK, Lifecycle, [Next]_vars, NEW b \in Clients, NEW c \in Clients,
           event[b] = "message", pc[b] = "publishing" \/ c \in todo[b]
    PROVE  \/ CollectTargets(b)
           \/ Deliver(b, c)
           \/ Drop(b, c)
           \/ \E d \in Clients : Panic(b, d)
           \/ /\ event'[b] = "message"
              /\ pc'[b] = "publishing" \/ c \in todo'[b]
<1> USE DEF TypeOK
<1>0. /\ pc[b] \in {"publishing", "sending"}
      /\ pc[b] = "sending" => c \in todo[b]
      /\ replay[b] = <<>>
  BY DEF Lifecycle
<1>1. ASSUME NEW a \in Clients, NEW d \in Clients, Deliver(a, d) \/ Drop(a, d)
      PROVE  \/ Deliver(b, c)
             \/ Drop(b, c)
             \/ /\ event'[b] = "message"
                /\ pc'[b] = "publishing" \/ c \in todo'[b]
  <2>1. todo' = [todo EXCEPT ![a] = @ \ {d}] /\ pc' = pc /\ event' = event
    BY <1>1 DEF Deliver, Drop
  <2>2. CASE a = b /\ d = c
    BY <1>1, <2>2
  <2>3. CASE ~(a = b /\ d = c)
    BY <2>1, <2>3
  <2> QED
    BY <2>2, <2>3
<1>2. ASSUME NEW a \in Clients, NEW d \in Clients, Panic(a, d)
      PROVE  \/ Panic(b, d)
             \/ /\ event'[b] = "message"
                /\ pc'[b] = "publishing" \/ c \in todo'[b]
  BY <1>2 DEF Panic
<1>3. ASSUME NEW a \in Clients,
             \/ Join(a) \/ RecentMessages(a) \/ RecentMessagesFail(a)
             \/ CollectTargets(a) \/ BroadcastDone(a)
      PROVE  \/ CollectTargets(b)
             \/ /\ event'[b] = "message"
                /\ pc'[b] = "publishing" \/ c \in todo'[b]
  BY <1>0, <1>3 DEF Join, RecentMessages, RecentMessagesFail, CollectTargets,
                    BroadcastDone
<1>4. ASSUME NEW a \in Clients,
             \/ Replay(a) \/ Leave(a) \/ CloseSend(a) \/ ReadMessage(a)
             \/ ReadError(a)
      PROVE  /\ event'[b] = "message"
             /\ pc'[b] = "publishing" \/ c \in todo'[b]
  BY <1>0, <1>4 DEF Replay, Leave, CloseSend, ReadMessage, ReadError
<1>5. ASSUME \/ UNCHANGED vars
             \/ \E a \in Clients : Write(a) \/ PingError(a) \/ WriteClose(a)
      PROVE  /\ event'[b] = "message"
             /\ pc'[b] = "publishing" \/ c \in todo'[b]
  BY <1>5 DEF vars, Write, PingError, WriteClose, serving
<1> QED
  BY <1>1, <1>2, <1>3, <1>4, <1>5 DEF Next, HubStep

LEMMA PendingStep ==
    ASSUME TypeOK, Lifecycle, DbRooms, [Next]_vars, NEW c \in Clients,
           c \in members, NEW i \in 1..Len(db[Room[c]]), NEW b \in Clients,
           db[Room[c]][i] = [from |-> b, seq |-> said[b]],
           event[b] = "message", pc[b] = "publishing" \/ c \in todo[b],
           db'[Room[c]][i] = db[Room[c]][i]
    PROVE  Accounted(c, i)'
<1>1. pc[b] \in {"publishing", "sending"}
  BY DEF Lifecycle
<1>2. said'[b] = said[b]
  BY <1>1, SaidStep DEF ReadMessage
<1>3. db'[Room[c]][i] = [from |-> b, seq |-> said'[b]]
  BY <1>2
<1>4. ASSUME event'[b] = "message", pc'[b] = "publishing" \/ c \in todo'[b]
      PROVE  Accounted(c, i)'
  BY <1>3, <1>4 DEF Accounted, Coming, Latest
<1>5. CASE CollectTargets(b)
  <2>1. Room[b] = Room[c]
    BY ChatHubAssumption DEF DbRooms
  <2>2. c \in todo'[b] /\ event'[b] = "message"
    BY <1>5, <2>1 DEF CollectTargets, RoomMates, TypeOK
  <2> QED
    BY <1>4, <2>2
<1>6. CASE Deliver(b, c)
  <2>1. /\ inbox[c] \in Seq(Item) /\ CurrentEvent(b) \in Item
        /\ inbox'[c] = Append(inbox[c], CurrentEvent(b))
    BY <1>6, EventType DEF Deliver, TypeOK
  <2>2. /\ Len(inbox[c]) + 1 \in 1..Len(inbox'[c])
        /\ inbox'[c][Len(inbox[c]) + 1] = CurrentEvent(b)
    BY <2>1, AppendFacts
  <2>3. /\ CurrentEvent(b).kind = "message"
        /\ Row(CurrentEvent(b)) = [from |-> b, seq |-> said[b]]
    BY DEF CurrentEvent, Row
  <2> QED
    BY <1>2, <1>3, <2>2, <2>3 DEF Accounted, Took, Row
<1>7. CASE Drop(b, c)
  <2>1. Len(inbox[c]) >= SendCap
    BY <1>7, ChatHubAssumption DEF Drop, Full, TypeOK
  <2>2. Len(inbox'[c]) >= SendCap
    BY <2>1, InboxGrows, ChatHubAssumption
  <2> QED
    BY <2>2 DEF Accounted, Lost
<1>8. ASSUME NEW d \in Clients, Panic(b, d)
      PROVE  Accounted(c, i)'
  <2>1. b \in aborted'
    BY <1>8 DEF Panic
  <2> QED
    BY <1>3, <2>1 DEF Accounted, Lost, Latest
<1> QED
  BY <1>4, <1>5, <1>6, <1>7, <1>8, OwedStep

(* A row that is accounted for stays so. *)
LEMMA AccountedStep ==
    ASSUME TypeOK, Lifecycle, DbRooms, [Next]_vars, NEW c \in Clients,
           c \in members, NEW i \in 1..Len(db[Room[c]]), Accounted(c, i)
    PROVE  Accounted(c, i)'
<1>1. Room[c] \in Rooms /\ db[Room[c]] \in Seq(Message)
  BY ChatHubAssumption DEF TypeOK
<1>2. db[Room[c]][i] \in Message
  BY <1>1
<1>3. db'[Room[c]][i] = db[Room[c]][i]
  <2>1. CASE db'[Room[c]] = db[Room[c]]
    BY <2>1
  <2>2. ASSUME NEW b \in Clients,
               db'[Room[c]] =
                   Append(db[Room[c]], [from |-> b, seq |-> said[b] + 1])
        PROVE  db'[Room[c]][i] = db[Room[c]][i]
    <3>1. said[b] + 1 \in Nat
      BY DEF TypeOK
    <3>2. [from |-> b, seq |-> said[b] + 1] \in Message
      BY <3>1 DEF Message
    <3> QED
      BY <1>1, <2>2, <3>2, AppendFacts
  <2> QED
    BY <1>1, <2>1, <2>2, DbStep
<1>4. CASE Took(c, db[Room[c]][i])
  BY <1>3, <1>4, TookStep
<1>5. CASE Lost(c, db[Room[c]][i])
  BY <1>2, <1>3, <1>5, LostStep
<1>6. CASE \E k \in 1..Len(replay[c]) : replay[c][k] = db[Room[c]][i]
  BY <1>3, <1>6, ReplayedStep
<1>7. ASSUME NEW b \in Clients, db[Room[c]][i] = [from |-> b, seq |-> said[b]],
             event[b] = "message", pc[b] = "publishing" \/ c \in todo[b]
      PROVE  Accounted(c, i)'
  BY <1>3, <1>7, PendingStep
<1>8. CASE /\ db[Room[c]][i] = Latest(db[Room[c]][i].from)
           /\ event[db[Room[c]][i].from] = "message"
           /\ \/ pc[db[Room[c]][i].from] = "publishing"
              \/ c \in todo[db[Room[c]][i].from]
  <2>1. db[Room[c]][i].from \in Clients
    BY <1>2 DEF Message
  <2> QED
    BY <1>7, <1>8, <2>1 DEF Latest
<1> QED
  BY <1>4, <1>5, <1>6, <1>8 DEF Accounted, Coming

(* A member past its query was so before, or has just made the query.  *)
LEMMA MemberStep ==
    ASSUME TypeOK, Lifecycle, [Next]_vars, NEW c \in Clients,
           c \in members', pc'[c] # "entered"
    PROVE  \/ RecentMessages(c)
           \/ RecentMessagesFail(c)
           \/ c \in members /\ pc[c] # "entered" /\ base'[c] = base[c]
<1> USE DEF TypeOK
<1>1. ASSUME NEW b \in Clients, Join(b) \/ RecentMessages(b)
                                \/ RecentMessagesFail(b)
      PROVE  \/ RecentMessages(c)
             \/ RecentMessagesFail(c)
             \/ c \in members /\ pc[c] # "entered" /\ base'[c] = base[c]
  BY <1>1 DEF Join, RecentMessages, RecentMessagesFail, history
<1>2. ASSUME NEW b \in Clients, NEW d \in Clients,
             Deliver(b, d) \/ Drop(b, d) \/ Panic(b, d)
      PROVE  c \in members /\ pc[c] # "entered" /\ base'[c] = base[c]
  BY <1>2 DEF Deliver, Drop, Panic, history
<1>3. ASSUME NEW b \in Clients,
             \/ Replay(b) \/ CollectTargets(b) \/ BroadcastDone(b) \/ Leave(b)
             \/ CloseSend(b) \/ ReadMessage(b) \/ ReadError(b)
      PROVE  c \in members /\ pc[c] # "entered" /\ base'[c] = base[c]
  BY <1>3 DEF Replay, CollectTargets, BroadcastDone, Leave, CloseSend,
              ReadMessage, ReadError, history
<1>4. ASSUME \/ UNCHANGED vars
             \/ \E b \in Clients : Write(b) \/ PingError(b) \/ WriteClose(b)
      PROVE  c \in members /\ pc[c] # "entered" /\ base'[c] = base[c]
  BY <1>4 DEF vars, Write, PingError, WriteClose, serving, history
<1> QED
  BY <1>1, <1>2, <1>3, <1>4 DEF Next, HubStep

LEMMA GapStep ==
    ASSUME TypeOK, Lifecycle, DbRooms, NoGap, [Next]_vars
    PROVE  NoGap'
<1> SUFFICES ASSUME NEW c \in members', pc'[c] # "entered",
                    NEW i \in base'[c] + 1..Len(db'[Room[c]])
             PROVE  Accounted(c, i)'
  BY DEF NoGap
<1>0. c \in Clients
  BY TypeStep DEF TypeOK
<1>1. Room[c] \in Rooms /\ db[Room[c]] \in Seq(Message)
  BY <1>0, ChatHubAssumption DEF TypeOK
<1>2. CASE RecentMessages(c)
  <2> DEFINE rows == db[Room[c]]
             old == IF Len(rows) > HistLimit THEN Len(rows) - HistLimit ELSE 0
  <2>1. old \in 0..Len(rows)
    BY <1>1, ChatHubAssumption
  <2>2. db' = db /\ base'[c] = old /\ replay'[c] = SubSeq(rows, old + 1, Len(rows))
    BY <1>0, <1>2 DEF RecentMessages, TypeOK
  <2>3. i \in old + 1..Len(rows)
    BY <2>2
  <2> HIDE DEF old
  <2>4. /\ i - old \in 1..Len(replay'[c])
        /\ replay'[c][i - old] = rows[i]
    BY <1>1, <2>1, <2>2, <2>3
  <2> QED
    BY <2>2, <2>4 DEF Accounted, Coming
<1>3. CASE RecentMessagesFail(c)
  <2>1. base'[c] = Len(db[Room[c]]) /\ db' = db
    BY <1>0, <1>3 DEF RecentMessagesFail, TypeOK
  <2> QED
    BY <1>1, <2>1
<1>4. CASE c \in members /\ pc[c] # "entered" /\ base'[c] = base[c]
  <2>0. base[c] \in Nat /\ Len(db[Room[c]]) \in Nat
    BY <1>0, <1>1 DEF TypeOK
  <2>1. ASSUME i \in 1..Len(db[Room[c]])
        PROVE  Accounted(c, i)'
    <3>1. i \in base[c] + 1..Len(db[Room[c]])
      BY <1>4, <2>0, <2>1
    <3>2. Accounted(c, i)
      BY <1>4, <3>1 DEF NoGap
    <3> QED
      BY <1>0, <1>4, <2>1, <3>2, AccountedStep
  <2>2. CASE db'[Room[c]] = db[Room[c]]
    <3>1. i \in 1..Len(db[Room[c]])
      BY <1>4, <2>0, <2>2
    <3> QED
      BY <2>1, <3>1
  <2>3. ASSUME NEW b \in Clients, ReadMessage(b),
               db'[Room[c]] =
                   Append(db[Room[c]], [from |-> b, seq |-> said[b] + 1])
        PROVE  Accounted(c, i)'
    <3>1. said[b] + 1 \in Nat
      BY DEF TypeOK
    <3>2. [from |-> b, seq |-> said[b] + 1] \in Message
      BY <3>1 DEF Message
    <3>3. /\ Len(db'[Room[c]]) = Len(db[Room[c]]) + 1
          /\ db'[Room[c]][Len(db[Room[c]]) + 1] =
                 [from |-> b, seq |-> said[b] + 1]
      BY <1>1, <2>3, <3>2, AppendFacts
    <3>4. CASE i = Len(db[Room[c]]) + 1
      <4>1. /\ said'[b] = said[b] + 1
            /\ event'[b] = "message"
            /\ pc'[b] = "publishing"
        BY <2>3 DEF ReadMessage, TypeOK
      <4>2. db'[Room[c]][i] = [from |-> b, seq |-> said'[b]]
        BY <3>3, <3>4, <4>1
      <4> QED
        BY <4>1, <4>2 DEF Accounted, Coming, Latest
    <3>5. CASE i # Len(db[Room[c]]) + 1
      <4>1. i \in 1..Len(db[Room[c]])
        BY <1>4, <2>0, <3>3, <3>5
      <4> QED
        BY <2>1, <4>1
    <3> QED
      BY <3>4, <3>5
  <2> QED
    BY <1>1, <2>2, <2>3, DbStep
<1> QED
  BY <1>0, <1>2, <1>3, <1>4, MemberStep

-------------------------------------------------------------------------------
(* The inductive invariant and what it implies. *)
LEMMA IInvInit == Init => IInv
<1> SUFFICES ASSUME Init
             PROVE  IInv
  OBVIOUS
<1>1. TypeOK
  BY TypeInit
<1>2. Lifecycle
  BY LifeInit
<1>3. \A d \in Clients : Len(inbox[d]) = 0 /\ Len(replay[d]) = 0
  BY DEF Init
<1>5. Behind /\ SenderOrder /\ HistoryOrder /\ Replaying
  BY <1>3 DEF Behind, SenderOrder, HistoryOrder, Replaying
<1>6. DbRooms
  BY ChatHubAssumption DEF Init, DbRooms
<1>7. NoGap
  BY DEF Init, NoGap
<1> QED
  BY <1>1, <1>2, <1>5, <1>6, <1>7 DEF IInv

(* IInv holds in every reachable state. *)
THEOREM HubInvariant == Spec => []IInv
<1>1. IInv /\ [Next]_vars => IInv'
  BY TypeStep, LifeStep, BehindStep, OrderStep, RowsStep, ReplayingStep,
     HistoryStep, GapStep
  DEF IInv
<1> QED
  BY <1>1, IInvInit, PTL DEF Spec

(* Every channel holds the live events of each sender in order, once each. *)
THEOREM EventsInOrder == Spec => []SenderOrder
<1>1. IInv => SenderOrder
  BY DEF IInv
<1> QED
  BY <1>1, HubInvariant, PTL

(* A newcomer's history is in row order and ends before its own join. *)
THEOREM HistoryInOrder == Spec => []HistoryOrder
<1>1. IInv => HistoryOrder
  BY DEF IInv
<1> QED
  BY <1>1, HubInvariant, PTL

(* Whatever joins, messages and leaves interleave, no row falls between a  *)
(* member's replay and its live events.                                    *)
THEOREM NothingBetween == Spec => []NoGap
<1>1. IInv => NoGap
  BY DEF IInv
<1> QED
  BY <1>1, HubInvariant, PTL

-------------------------------------------------------------------------------
(* Which goroutines and writers live together, and what a ghost has met. *)

(* A connection has no writer exactly as long as it is joining, for ever   *)
(* if that panics, and a writer stops only for a failed write or for the   *)
(* close of its channel.                                                   *)
Writers ==
    \A c \in Clients :
        /\ pump[c] = "off" <=>
              /\ event[c] = "join"
              /\ pc[c] \in {"absent", "entered", "publishing", "sending",
                            "ghost"}
        /\ pump[c] = "done" => c \in Unwritable \cup closed

(* Targets are of the sender's room and have joined, in this run of the    *)
(* server.                                                                 *)
Collected ==
    /\ \A c \in Former : pc[c] = "gone"
    /\ \A c \in Clients : \A d \in todo[c] :
          Room[d] = Room[c] /\ pc[d] # "absent" /\ d \notin Former

(* A connection becomes a ghost only when another of its room has left in  *)
(* the same run.                                                           *)
GhostMet ==
    \A c \in Clients : pc[c] = "ghost" =>
        /\ event[c] = "join"
        /\ \E d \in closed \ Former : d # c /\ Room[d] = Room[c]

(* The steps that change what a connection did last. *)
LEMMA ActStep ==
    ASSUME [Next]_vars
    PROVE  \/ UNCHANGED <<event, said>>
           \/ \E c \in Clients : ReadMessage(c) \/ CloseSend(c)
BY DEF Next, HubStep, Join, RecentMessages, RecentMessagesFail, Replay,
       CollectTargets, Deliver, Drop, Panic, BroadcastDone, Leave, ReadError,
       Write, PingError, WriteClose, serving, vars

LEMMA JoinedStep ==
    ASSUME TypeOK, [Next]_vars, NEW d \in Clients, pc[d] # "absent"
    PROVE  pc'[d] # "absent"
<1> USE DEF TypeOK
<1>1. ASSUME NEW b \in Clients, NEW a \in Clients,
             Deliver(b, a) \/ Drop(b, a) \/ Panic(b, a)
      PROVE  pc'[d] # "absent"
  BY <1>1 DEF Deliver, Drop, Panic
<1>2. ASSUME NEW b \in Clients,
             \/ Join(b) \/ RecentMessages(b) \/ RecentMessagesFail(b)
             \/ Replay(b) \/ CollectTargets(b) \/ BroadcastDone(b)
      PROVE  pc'[d] # "absent"
  BY <1>2 DEF Join, RecentMessages, RecentMessagesFail, Replay, CollectTargets,
              BroadcastDone
<1>3. ASSUME NEW b \in Clients,
             Leave(b) \/ CloseSend(b) \/ ReadMessage(b) \/ ReadError(b)
      PROVE  pc'[d] # "absent"
  BY <1>3 DEF Leave, CloseSend, ReadMessage, ReadError
<1>4. ASSUME \/ UNCHANGED vars
             \/ \E b \in Clients : Write(b) \/ PingError(b) \/ WriteClose(b)
      PROVE  pc'[d] # "absent"
  BY <1>4 DEF vars, Write, PingError, WriteClose, serving
<1> QED
  BY <1>1, <1>2, <1>3, <1>4 DEF Next, HubStep

(* Who has left does not come back. *)
LEMMA GoneStays ==
    ASSUME TypeOK, [Next]_vars, NEW d \in Clients, pc[d] = "gone"
    PROVE  pc'[d] = "gone"
<1> USE DEF TypeOK
<1>1. ASSUME NEW b \in Clients, NEW a \in Clients,
             Deliver(b, a) \/ Drop(b, a) \/ Panic(b, a)
      PROVE  pc'[d] = "gone"
  BY <1>1 DEF Deliver, Drop, Panic
<1>2. ASSUME NEW b \in Clients,
             \/ Join(b) \/ RecentMessages(b) \/ RecentMessagesFail(b)
             \/ Replay(b) \/ CollectTargets(b) \/ BroadcastDone(b)
      PROVE  pc'[d] = "gone"
  BY <1>2 DEF Join, RecentMessages, RecentMessagesFail, Replay, CollectTargets,
              BroadcastDone
<1>3. ASSUME NEW b \in Clients,
             Leave(b) \/ CloseSend(b) \/ ReadMessage(b) \/ ReadError(b)
      PROVE  pc'[d] = "gone"
  BY <1>3 DEF Leave, CloseSend, ReadMessage, ReadError
<1>4. ASSUME \/ UNCHANGED vars
             \/ \E b \in Clients : Write(b) \/ PingError(b) \/ WriteClose(b)
      PROVE  pc'[d] = "gone"
  BY <1>4 DEF vars, Write, PingError, WriteClose, serving
<1> QED
  BY <1>1, <1>2, <1>3, <1>4 DEF Next, HubStep

LEMMA CollectedStep ==
    ASSUME TypeOK, Lifecycle, Collected, [Next]_vars
    PROVE  Collected'
<1>0. \A c \in Former : pc'[c] = "gone"
  BY GoneStays, ChatHubAssumption DEF Collected
<1> SUFFICES ASSUME NEW c \in Clients, NEW d \in todo'[c]
             PROVE  Room[d] = Room[c] /\ pc'[d] # "absent" /\ d \notin Former
  BY <1>0 DEF Collected
<1> USE DEF TypeOK
<1>1. CASE d \in todo[c]
  BY <1>1, JoinedStep DEF Collected
<1>2. CASE CollectTargets(c)
  <2>1. d \in members /\ Room[d] = Room[c] /\ pc' = [pc EXCEPT ![c] = "sending"]
    BY <1>2 DEF CollectTargets, RoomMates
  <2>2. d \in Clients /\ pc[d] # "absent" /\ d \notin Former
    BY <2>1 DEF Lifecycle, Collected
  <2> QED
    BY <2>1, <2>2
<1>3. CASE d \notin todo[c] /\ ~CollectTargets(c)
  <2>1. ASSUME NEW b \in Clients, NEW a \in Clients,
               Deliver(b, a) \/ Drop(b, a) \/ Panic(b, a)
        PROVE  todo'[c] \subseteq todo[c]
    <3>1. \/ todo' = [todo EXCEPT ![b] = @ \ {a}]
          \/ todo' = [todo EXCEPT ![b] = {}]
      BY <2>1 DEF Deliver, Drop, Panic
    <3> QED
      BY <3>1
  <2>2. ASSUME NEW b \in Clients,
               \/ Join(b) \/ RecentMessages(b) \/ RecentMessagesFail(b)
               \/ Replay(b) \/ BroadcastDone(b) \/ Leave(b) \/ CloseSend(b)
               \/ ReadMessage(b) \/ ReadError(b) \/ Write(b) \/ PingError(b)
               \/ WriteClose(b)
        PROVE  todo' = todo
    BY <2>2
    DEF Join, RecentMessages, RecentMessagesFail, Replay, BroadcastDone, Leave,
        CloseSend, ReadMessage, ReadError, Write, PingError, WriteClose,
        serving
  <2>3. ASSUME NEW b \in Clients, CollectTargets(b)
        PROVE  todo'[c] = todo[c]
    <3>1. b # c
      BY <1>3, <2>3
    <3> QED
      BY <2>3, <3>1 DEF CollectTargets
  <2>4. UNCHANGED vars => todo' = todo
    BY DEF vars, serving
  <2> QED
    BY <1>3, <2>1, <2>2, <2>3, <2>4 DEF Next, HubStep
<1> QED
  BY <1>1, <1>2, <1>3

LEMMA WritersStep ==
    ASSUME TypeOK, Lifecycle, Writers, [Next]_vars
    PROVE  Writers'
<1> USE DEF TypeOK, Writers
<1>1. ASSUME NEW c \in Clients, Join(c) \/ RecentMessages(c)
                                \/ RecentMessagesFail(c)
      PROVE  Writers'
  BY <1>1 DEF Join, RecentMessages, RecentMessagesFail, channels
<1>2. ASSUME NEW c \in Clients, Replay(c) \/ CollectTargets(c)
      PROVE  Writers'
  BY <1>2 DEF Replay, CollectTargets, channels
<1>3. ASSUME NEW c \in Clients, NEW d \in Clients, Deliver(c, d) \/ Drop(c, d)
      PROVE  Writers'
  BY <1>3 DEF Deliver, Drop, channels
<1>4. ASSUME NEW c \in Clients, NEW d \in Clients, Panic(c, d)
      PROVE  Writers'
  BY <1>4 DEF Panic, channels
<1>5. ASSUME NEW c \in Clients, BroadcastDone(c)
      PROVE  Writers'
  BY <1>5 DEF BroadcastDone, channels
<1>6. ASSUME NEW c \in Clients, ReadError(c) \/ Leave(c)
      PROVE  Writers'
  BY <1>6 DEF ReadError, Leave, channels
<1>7. ASSUME NEW c \in Clients, CloseSend(c)
      PROVE  Writers'
  BY <1>7 DEF CloseSend
<1>8. ASSUME NEW c \in Clients, ReadMessage(c)
      PROVE  Writers'
  BY <1>8 DEF ReadMessage, channels
<1>9. ASSUME NEW c \in Clients, Write(c) \/ PingError(c) \/ WriteClose(c)
      PROVE  Writers'
  BY <1>9 DEF Write, PingError, WriteClose, MayFail, serving, channels
<1>10. CASE UNCHANGED vars
  BY <1>10 DEF vars, serving, channels
<1> QED
  BY <1>1, <1>2, <1>3, <1>4, <1>5, <1>6, <1>7, <1>8, <1>9, <1>10
  DEF Next, HubStep

LEMMA ClosedGrows ==
    ASSUME [Next]_vars
    PROVE  closed \subseteq closed'
BY DEF Next, HubStep, Join, RecentMessages, RecentMessagesFail, Replay,
       CollectTargets, Deliver, Drop, Panic, BroadcastDone, Leave, CloseSend,
       ReadMessage, ReadError, Write, PingError, WriteClose, channels, vars

LEMMA GhostStep ==
    ASSUME TypeOK, Lifecycle, Collected, GhostMet, [Next]_vars
    PROVE  GhostMet'
<1> SUFFICES ASSUME NEW c \in Clients, pc'[c] = "ghost"
             PROVE  /\ event'[c] = "join"
                    /\ \E d \in closed' \ Former : d # c /\ Room[d] = Room[c]
  BY DEF GhostMet
<1> USE DEF TypeOK
<1>1. CASE pc[c] = "ghost"
  <2>1. event'[c] = event[c]
    BY <1>1, ActStep DEF ReadMessage, CloseSend
  <2> QED
    BY <1>1, <2>1, ClosedGrows DEF GhostMet
<1>2. ASSUME NEW d \in Clients, Panic(c, d), pc[c] # "ghost"
      PROVE  /\ event'[c] = "join"
             /\ \E a \in closed' \ Former : a # c /\ Room[a] = Room[c]
  <2>1. /\ d \in todo[c] /\ d \in closed /\ event' = event
        /\ pc'[c] = CASE event[c] = "join" -> "ghost"
                      [] event[c] = "message" -> "leaving"
                      [] OTHER -> "gone"
    BY <1>2 DEF Panic
  <2>2. event[c] = "join"
    BY <2>1
  <2>3. c \notin closed /\ Room[d] = Room[c] /\ d \notin Former
    BY <2>1, <2>2 DEF Lifecycle, Collected
  <2> QED
    BY <2>1, <2>2, <2>3, ClosedGrows
<1>3. CASE pc[c] # "ghost" /\ ~ \E d \in Clients : Panic(c, d)
  <2>1. ASSUME NEW b \in Clients, NEW a \in Clients,
               Deliver(b, a) \/ Drop(b, a) \/ Panic(b, a)
        PROVE  FALSE
    BY <1>3, <2>1 DEF Deliver, Drop, Panic
  <2>2. ASSUME NEW b \in Clients,
               \/ Join(b) \/ RecentMessages(b) \/ RecentMessagesFail(b)
               \/ Replay(b) \/ CollectTargets(b) \/ BroadcastDone(b)
        PROVE  FALSE
    BY <1>3, <2>2 DEF Join, RecentMessages, RecentMessagesFail, Replay,
                      CollectTargets, BroadcastDone
  <2>3. ASSUME \/ UNCHANGED vars
               \/ \E b \in Clients :
                    \/ Leave(b) \/ CloseSend(b) \/ ReadMessage(b)
                    \/ ReadError(b) \/ Write(b) \/ PingError(b)
                    \/ WriteClose(b)
        PROVE  FALSE
    BY <1>3, <2>3 DEF Leave, CloseSend, ReadMessage, ReadError, Write,
                      PingError, WriteClose, serving, vars
  <2> QED
    BY <2>1, <2>2, <2>3 DEF Next, HubStep
<1> QED
  BY <1>1, <1>2, <1>3

(* Only who has spoken has spoken last. *)
Acts ==
    \A c \in Clients : /\ event[c] = "join" => said[c] = 0
                       /\ event[c] = "message" => said[c] > 0

(* Rows are messages that were said, and no two are alike. *)
RowsNumbered ==
    \A r \in Rooms : \A i \in 1..Len(db[r]) :
        /\ db[r][i].seq <= said[db[r][i].from]
        /\ \A j \in 1..i - 1 : db[r][j] # db[r][i]

LEMMA ActsStep ==
    ASSUME TypeOK, Acts, [Next]_vars
    PROVE  Acts'
<1> USE DEF TypeOK, Acts
<1>1. ASSUME NEW c \in Clients, ReadMessage(c) \/ CloseSend(c)
      PROVE  Acts'
  BY <1>1 DEF ReadMessage, CloseSend
<1>2. CASE UNCHANGED <<event, said>>
  BY <1>2
<1> QED
  BY <1>1, <1>2, ActStep

LEMMA SaidGrows ==
    ASSUME TypeOK, [Next]_vars, NEW c \in Clients
    PROVE  said[c] \in Nat /\ said'[c] \in Nat /\ said[c] <= said'[c]
<1>1. CASE ReadMessage(c)
  BY <1>1 DEF ReadMessage, TypeOK
<1>2. CASE ~ReadMessage(c)
  BY <1>2, SaidStep DEF TypeOK
<1> QED
  BY <1>1, <1>2

LEMMA NumberedStep ==
    ASSUME TypeOK, RowsNumbered, [Next]_vars
    PROVE  RowsNumbered'
<1> SUFFICES ASSUME NEW r \in Rooms, NEW i \in 1..Len(db'[r])
             PROVE  /\ db'[r][i].seq <= said'[db'[r][i].from]
                    /\ \A j \in 1..i - 1 : db'[r][j] # db'[r][i]
  BY DEF RowsNumbered
<1>1. db[r] \in Seq(Message) /\ Len(db[r]) \in Nat
  BY DEF TypeOK
<1>2. ASSUME i \in 1..Len(db[r]), \A k \in 1..Len(db[r]) : db'[r][k] = db[r][k]
      PROVE  /\ db'[r][i].seq <= said'[db'[r][i].from]
             /\ \A j \in 1..i - 1 : db'[r][j] # db'[r][i]
  <2>1. db[r][i] \in Message /\ db'[r][i] = db[r][i]
    BY <1>1, <1>2
  <2>2. db[r][i].from \in Clients /\ db[r][i].seq \in Nat
    BY <2>1 DEF Message
  <2>3. db[r][i].seq <= said[db[r][i].from]
    BY <1>2 DEF RowsNumbered
  <2>4. db'[r][i].seq <= said'[db'[r][i].from]
    BY <2>1, <2>2, <2>3, SaidGrows
  <2>5. ASSUME NEW j \in 1..i - 1
        PROVE  db'[r][j] # db'[r][i]
    <3>1. j \in 1..Len(db[r])
      BY <1>1, <1>2
    <3> QED
      BY <1>2, <2>1, <3>1 DEF RowsNumbered
  <2> QED
    BY <2>4, <2>5
<1>3. CASE db'[r] = db[r]
  BY <1>2, <1>3
<1>4. ASSUME NEW c \in Clients, ReadMessage(c),
             db'[r] = Append(db[r], [from |-> c, seq |-> said[c] + 1])
      PROVE  /\ db'[r][i].seq <= said'[db'[r][i].from]
             /\ \A j \in 1..i - 1 : db'[r][j] # db'[r][i]
  <2>1. said[c] \in Nat /\ said'[c] = said[c] + 1
    BY <1>4 DEF ReadMessage, TypeOK
  <2>2. [from |-> c, seq |-> said[c] + 1] \in Message
    BY <2>1 DEF Message
  <2>3. /\ Len(db'[r]) = Len(db[r]) + 1
        /\ \A k \in 1..Len(db[r]) : db'[r][k] = db[r][k]
        /\ db'[r][Len(db[r]) + 1] = [from |-> c, seq |-> said[c] + 1]
    BY <1>1, <1>4, <2>2, AppendFacts
  <2>4. CASE i = Len(db[r]) + 1
    <3>1. db'[r][i].from = c /\ db'[r][i].seq = said[c] + 1
      BY <2>3, <2>4
    <3>2. ASSUME NEW j \in 1..i - 1
          PROVE  db'[r][j] # db'[r][i]
      <4>1. j \in 1..Len(db[r]) /\ db'[r][j] = db[r][j]
        BY <1>1, <2>3, <2>4
      <4>2. db[r][j].from = c => db[r][j].seq <= said[c]
        BY <4>1 DEF RowsNumbered
      <4>3. db[r][j].from = c => db[r][j].seq # said[c] + 1
        <5>1. db[r][j] \in Message
          BY <1>1, <4>1
        <5>2. db[r][j].seq \in Nat
          BY <5>1 DEF Message
        <5> QED
          BY <2>1, <4>2, <5>2
      <4> QED
        BY <3>1, <4>1, <4>3
    <3> QED
      BY <2>1, <3>1, <3>2
  <2>5. CASE i # Len(db[r]) + 1
    <3>1. i \in 1..Len(db[r])
      BY <1>1, <2>3, <2>5
    <3> QED
      BY <1>2, <2>3, <3>1
  <2> QED
    BY <2>4, <2>5
<1> QED
  BY <1>3, <1>4, DbStep

(* What is left to replay are rows. *)
ReplayRows ==
    \A c \in Clients : \A j \in 1..Len(replay[c]) :
        \E k \in 1..Len(db[Room[c]]) : db[Room[c]][k] = replay[c][j]

LEMMA RowStays ==
    ASSUME TypeOK, [Next]_vars, NEW r \in Rooms, NEW k \in 1..Len(db[r])
    PROVE  k \in 1..Len(db'[r]) /\ db'[r][k] = db[r][k]
<1>1. db[r] \in Seq(Message) /\ Len(db[r]) \in Nat
  BY DEF TypeOK
<1>2. ASSUME NEW c \in Clients,
             db'[r] = Append(db[r], [from |-> c, seq |-> said[c] + 1])
      PROVE  k \in 1..Len(db'[r]) /\ db'[r][k] = db[r][k]
  <2>1. said[c] + 1 \in Nat
    BY DEF TypeOK
  <2>2. [from |-> c, seq |-> said[c] + 1] \in Message
    BY <2>1 DEF Message
  <2> QED
    BY <1>1, <1>2, <2>2, AppendFacts
<1> QED
  BY <1>2, DbStep

LEMMA ReplayRowsStep ==
    ASSUME TypeOK, ReplayRows, [Next]_vars
    PROVE  ReplayRows'
<1> SUFFICES ASSUME NEW c \in Clients, NEW j \in 1..Len(replay'[c])
             PROVE  \E k \in 1..Len(db'[Room[c]]) :
                        db'[Room[c]][k] = replay'[c][j]
  BY DEF ReplayRows
<1>0. Room[c] \in Rooms
  BY ChatHubAssumption
<1>1. \E k \in 1..Len(db[Room[c]]) : db[Room[c]][k] = replay'[c][j]
  <2>1. CASE replay'[c] = replay[c]
    BY <2>1 DEF ReplayRows
  <2>2. CASE RecentMessages(c)
    <3> DEFINE rows == db[Room[c]]
               old == IF Len(rows) > HistLimit THEN Len(rows) - HistLimit ELSE 0
    <3>1. rows \in Seq(Message) /\ Len(rows) \in Nat
      BY <1>0 DEF TypeOK
    <3>2. old \in 0..Len(rows)
      BY <3>1, ChatHubAssumption
    <3>3. replay'[c] = SubSeq(rows, old + 1, Len(rows))
      BY <2>2 DEF RecentMessages, TypeOK
    <3> HIDE DEF rows, old
    <3>4. old + j \in 1..Len(rows) /\ replay'[c][j] = rows[old + j]
      BY <3>1, <3>2, <3>3
    <3> QED
      BY <3>4 DEF rows
  <2>3. CASE Replay(c)
    <3>1. replay[c] \in Seq(Message) /\ replay[c] # <<>>
      BY <2>3 DEF Replay, TypeOK
    <3>2. replay'[c] = Tail(replay[c])
      BY <2>3 DEF Replay, TypeOK
    <3>3. j + 1 \in 1..Len(replay[c]) /\ replay'[c][j] = replay[c][j + 1]
      BY <3>1, <3>2
    <3> QED
      BY <3>3 DEF ReplayRows
  <2> QED
    BY <2>1, <2>2, <2>3, ReplayStep
<1> QED
  BY <1>0, <1>1, RowStays

(* A writer takes out only what the channel took. *)
WrittenBound == \A c \in Clients : written[c] <= Len(inbox[c])

LEMMA WrittenStep ==
    ASSUME TypeOK, WrittenBound, [Next]_vars
    PROVE  /\ WrittenBound'
           /\ \A c \in Clients : written[c] <= written'[c]
<1>1. \A c \in Clients : /\ written[c] \in Nat /\ Len(inbox[c]) \in Nat
                         /\ Len(inbox'[c]) \in Nat
                         /\ Len(inbox[c]) <= Len(inbox'[c])
  BY InboxGrows DEF TypeOK
<1>2. ASSUME NEW b \in Clients, Write(b)
      PROVE  /\ \A c \in Clients : written[c] <= written'[c]
             /\ inbox' = inbox
             /\ \A c \in Clients : written'[c] <= Len(inbox[c])
  BY <1>1, <1>2 DEF Write, WrittenBound, TypeOK
<1>3. CASE ~ \E b \in Clients : Write(b)
  <2>1. written' = written
    BY <1>3
    DEF Next, HubStep, Join, RecentMessages, RecentMessagesFail, Replay,
        CollectTargets, Deliver, Drop, Panic, BroadcastDone, Leave, CloseSend,
        ReadMessage, ReadError, PingError, WriteClose, channels, vars
  <2> QED
    BY <1>1, <2>1 DEF WrittenBound
<1> QED
  BY <1>2, <1>3 DEF WrittenBound

RoomsInv ==
    /\ IInv
    /\ Writers
    /\ Collected
    /\ GhostMet
    /\ Acts
    /\ RowsNumbered
    /\ ReplayRows
    /\ WrittenBound

(* Beside IInv: which writers run, whom broadcasts have ahead, what ghosts *)
(* have met, and that rows are messages that were said, no two alike.      *)
THEOREM RoomsInvariant == Spec => []RoomsInv
<1>1. ASSUME Init
      PROVE  RoomsInv
  <2>1. \A c \in Clients :
            Len(inbox[c]) = 0 /\ written[c] = 0 /\ Len(replay[c]) = 0
    BY <1>1 DEF Init
  <2>2. RowsNumbered
    <3>1. Former \subseteq Clients
      BY ChatHubAssumption
    <3>2. \A r \in Rooms : \A i \in 1..Len(Past[r]) :
              /\ Past[r][i].from \in Former
              /\ Past[r][i].seq <= Says[Past[r][i].from]
              /\ \A j \in 1..i - 1 : Past[r][j] # Past[r][i]
      BY ChatHubAssumption
    <3>3. \A c \in Former : said[c] = Says[c]
      BY <1>1, <3>1 DEF Init
    <3> QED
      BY <1>1, <3>2, <3>3 DEF Init, RowsNumbered
  <2>3. Writers /\ Collected /\ GhostMet
    BY <1>1, ChatHubAssumption DEF Init, Writers, Collected, GhostMet
  <2>4. Acts /\ ReplayRows /\ WrittenBound
    BY <1>1, <2>1 DEF Init, Acts, ReplayRows, WrittenBound
  <2> QED
    BY <2>2, <2>3, <2>4, <1>1, IInvInit DEF RoomsInv
<1>2. ASSUME RoomsInv, [Next]_vars
      PROVE  RoomsInv'
  <2>1. IInv'
    BY <1>2, TypeStep, LifeStep, BehindStep, OrderStep, RowsStep,
       ReplayingStep, HistoryStep, GapStep
    DEF RoomsInv, IInv
  <2>2. (Writers /\ Collected /\ GhostMet)'
    BY <1>2, WritersStep, CollectedStep, GhostStep DEF RoomsInv, IInv
  <2>3. (Acts /\ RowsNumbered /\ ReplayRows /\ WrittenBound)'
    BY <1>2, ActsStep, NumberedStep, ReplayRowsStep, WrittenStep
    DEF RoomsInv, IInv
  <2> QED
    BY <2>1, <2>2, <2>3 DEF RoomsInv
<1> QED
  BY <1>1, <1>2, PTL DEF Spec

(* No goroutine of a connection is forgotten: a connection that is served  *)
(* has a writer, one that has left has had one and its channel is closed,  *)
(* which tells it to stop, and only one whose join broke off has none.     *)
WritersMatch ==
    \A c \in Clients :
        /\ pc[c] = "reading" => pump[c] # "off"
        /\ pc[c] = "gone" => pump[c] # "off" /\ c \in closed
        /\ pc[c] = "ghost" => pump[c] = "off" /\ c \in members
        /\ pump[c] = "done" /\ c \in members => c \in Unwritable

THEOREM NoWriterForgotten == Spec => []WritersMatch
<1>1. ASSUME RoomsInv
      PROVE  WritersMatch
  <2>1. TypeOK /\ Lifecycle /\ Writers /\ GhostMet
    BY <1>1 DEF RoomsInv, IInv
  <2> QED
    BY <2>1 DEF TypeOK, Lifecycle, Writers, GhostMet, WritersMatch
<1> QED
  BY <1>1, RoomsInvariant, PTL

(* The finding of MembersAreServed has one cause: a connection that nobody *)
(* serves was announcing its join while another of its room left, in the   *)
(* same run of the server.                                                 *)
THEOREM GhostsMetLeavers == Spec => []GhostMet
<1>1. RoomsInv => GhostMet
  BY DEF RoomsInv
<1> QED
  BY <1>1, RoomsInvariant, PTL

(* What a writer has left to write of c's channel. *)
Unwritten(c) == Len(inbox[c]) - written[c]

(* A closed channel stays closed and out of its room and takes nothing     *)
(* any more, so that its writer has ever less to write before it stops.    *)
ClosedDrains ==
    \A c \in closed : /\ c \in closed' \ members'
                      /\ inbox'[c] = inbox[c]
                      /\ Unwritten(c)' \in 0..Unwritten(c)

THEOREM ClosedChannelsDrain == Spec => [][ClosedDrains]_vars
<1>1. ASSUME RoomsInv, [Next]_vars, NEW c \in closed
      PROVE  /\ c \in closed' \ members'
             /\ inbox'[c] = inbox[c]
             /\ Unwritten(c)' \in 0..Unwritten(c)
  <2>1. TypeOK /\ Lifecycle /\ WrittenBound /\ Lifecycle' /\ TypeOK'
    BY <1>1, LifeStep, TypeStep DEF RoomsInv, IInv
  <2>2. c \in Clients /\ event[c] = "leave"
    BY <1>1, <2>1 DEF Lifecycle
  <2>3. c \in closed' /\ c \notin members'
    BY <1>1, <2>1, <2>2, ClosedGrows DEF Lifecycle
  <2>4. inbox'[c] = inbox[c]
    BY <1>1, <2>1, <2>2, InboxStep DEF Replay, Deliver, Lifecycle
  <2>5. written[c] \in Nat /\ written'[c] \in Nat /\ Len(inbox[c]) \in Nat
    BY <2>1, <2>2 DEF TypeOK
  <2>6. written[c] <= written'[c] /\ written'[c] <= Len(inbox'[c])
    BY <1>1, <2>1, <2>2, WrittenStep DEF WrittenBound
  <2> QED
    BY <2>3, <2>4, <2>5, <2>6 DEF Unwritten
<1>2. RoomsInv /\ [Next]_vars => [ClosedDrains]_vars
  BY <1>1 DEF ClosedDrains
<1> QED
  BY <1>2, RoomsInvariant, PTL DEF Spec

-------------------------------------------------------------------------------
(* The refinement: how each step of the hub looks to the rooms' guests. *)

LEMMA StageFacts ==
    ASSUME TypeOK, Lifecycle, NEW c \in Clients \ Former
    PROVE  /\ Stage(c) = "left" <=> event[c] = "leave"
           /\ Stage(c) = "out" <=> pc[c] = "absent"
           /\ Stage(c) = "leaving" <=> pc[c] = "removed"
           /\ Stage(c) \in {"out", "in", "leaving", "left"}
  BY DEF Lifecycle, Stage, TypeOK

LEMMA LastActIsEvent ==
    ASSUME TypeOK, Lifecycle, Acts, NEW c \in Clients \ Former
    PROVE  Shown!LastAct(c) = CurrentEvent(c)
<1>1. Stage(c) = "left" <=> event[c] = "leave"
  BY StageFacts
<1>2. said[c] \in Nat /\ event[c] \in {"join", "message", "leave"}
  BY DEF TypeOK
<1>3. CASE event[c] = "leave"
  BY <1>1, <1>3 DEF Shown!LastAct, CurrentEvent
<1>4. CASE event[c] = "join"
  BY <1>1, <1>4 DEF Shown!LastAct, CurrentEvent, Acts
<1>5. CASE event[c] = "message"
  <2>1. said[c] # 0
    BY <1>2, <1>5 DEF Acts
  <2> QED
    BY <1>1, <1>5, <2>1 DEF Shown!LastAct, CurrentEvent
<1> QED
  BY <1>2, <1>3, <1>4, <1>5

(* Entering, leaving the list and leaving for good. *)
LEMMA MovesShow ==
    ASSUME TypeOK, Lifecycle, Collected, NEW c \in Clients,
           Join(c) \/ Leave(c) \/ CloseSend(c)
    PROVE  \/ Shown!Move(c, "out", "in")
           \/ Shown!Move(c, "in", "leaving")
           \/ Shown!Move(c, "leaving", "left")
<1> DEFINE stage == [b \in Clients |-> Stage(b)]
<1>0. c \notin Former
  BY DEF Join, Leave, CloseSend, Collected
<1>1. CASE Join(c)
  <2>1. stage[c] = "out" /\ stage' = [stage EXCEPT ![c] = "in"]
    <3>1. Stage(c) = "out" /\ Stage(c)' = "in"
      BY <1>0, <1>1 DEF Join, Stage, Lifecycle, TypeOK
    <3>2. \A b \in Clients \ {c} : Stage(b)' = Stage(b)
      BY <1>1 DEF Join, Stage, TypeOK
    <3> QED
      BY <3>1, <3>2
  <2>2. UNCHANGED <<said, db, inbox>>
    BY <1>1 DEF Join, channels
  <2> QED
    BY <2>1, <2>2 DEF Shown!Move
<1>2. CASE Leave(c)
  <2>1. stage[c] = "in" /\ stage' = [stage EXCEPT ![c] = "leaving"]
    <3>1. Stage(c) = "in" /\ Stage(c)' = "leaving"
      BY <1>0, <1>2 DEF Leave, Stage, Lifecycle, TypeOK
    <3>2. \A b \in Clients \ {c} : Stage(b)' = Stage(b)
      BY <1>2 DEF Leave, Stage, TypeOK
    <3> QED
      BY <3>1, <3>2
  <2>2. UNCHANGED <<said, db, inbox>>
    BY <1>2 DEF Leave, channels
  <2> QED
    BY <2>1, <2>2 DEF Shown!Move
<1>3. CASE CloseSend(c)
  <2>1. stage[c] = "leaving" /\ stage' = [stage EXCEPT ![c] = "left"]
    <3>1. Stage(c) = "leaving" /\ Stage(c)' = "left"
      BY <1>0, <1>3 DEF CloseSend, Stage, Lifecycle, TypeOK
    <3>2. \A b \in Clients \ {c} : Stage(b)' = Stage(b)
      BY <1>3 DEF CloseSend, Stage, TypeOK
    <3> QED
      BY <3>1, <3>2
  <2>2. UNCHANGED <<said, db, inbox>>
    BY <1>3 DEF CloseSend
  <2> QED
    BY <2>1, <2>2 DEF Shown!Move
<1> QED
  BY <1>1, <1>2, <1>3

LEMMA ReadSpeaks ==
    ASSUME TypeOK, Lifecycle, Collected, NEW c \in Clients, ReadMessage(c)
    PROVE  Shown!Speak(c)
<1> DEFINE stage == [b \in Clients |-> Stage(b)]
<1>1. stage[c] = "in" /\ stage' = stage
  BY DEF ReadMessage, Stage, Lifecycle, Collected, TypeOK
<1>2. /\ said' = [said EXCEPT ![c] = @ + 1]
      /\ inbox' = inbox
      /\ Latest(c)' = [from |-> c, seq |-> said[c] + 1]
  BY DEF ReadMessage, Latest, channels, TypeOK
<1>3. \/ db' = [db EXCEPT ![Room[c]] = Append(@, Latest(c)')]
      \/ db' = db
  BY DEF ReadMessage
<1> QED
  BY <1>1, <1>2, <1>3 DEF Shown!Speak

(* A turn of the replay that finds room shows the next row. *)
LEMMA ReplayShows ==
    ASSUME RoomsInv, NEW c \in Clients, Replay(c), ~Full(c)
    PROVE  Shown!ShowRow(c)
<1> DEFINE stage == [b \in Clients |-> Stage(b)]
           rows == db[Room[c]]
<1>0. /\ TypeOK /\ Lifecycle /\ Behind /\ Replaying
      /\ RowsNumbered /\ ReplayRows /\ Collected
  BY DEF RoomsInv, IInv
<1>1. /\ replay[c] \in Seq(Message) /\ replay[c] # <<>>
      /\ pc[c] = "publishing"
      /\ Room[c] \in Rooms
  BY <1>0, ChatHubAssumption DEF Replay, TypeOK
<1>2. Head(replay[c]) = replay[c][1] /\ 1 \in 1..Len(replay[c])
  BY <1>1
<1>3. stage[c] = "in" /\ stage' = stage
  BY <1>0, <1>1 DEF Replay, Stage, Lifecycle, Collected, TypeOK
<1>4. PICK k \in 1..Len(rows) : rows[k] = replay[c][1]
  BY <1>0, <1>2 DEF ReplayRows
<1>5. ASSUME NEW i \in 1..Len(inbox[c])
      PROVE  /\ ~(inbox[c][i].kind = "join" /\ inbox[c][i].from = c)
             /\ inbox[c][i].kind = "history" =>
                   \E j \in 1..k - 1 : rows[j] = [from |-> inbox[c][i].from,
                                                 seq |-> inbox[c][i].seq]
  <2>1. ~(inbox[c][i].kind = "join" /\ inbox[c][i].from = c)
    BY <1>0, HistoryFresh
  <2>2. ASSUME inbox[c][i].kind = "history"
        PROVE  \E j \in 1..k - 1 : rows[j] = Row(inbox[c][i])
    <3>1. RowOrder(rows, Row(inbox[c][i]), replay[c][1])
      BY <1>0, <1>2, <2>2 DEF Replaying
    <3>2. PICK a, b \in 1..Len(rows) :
              a < b /\ rows[a] = Row(inbox[c][i]) /\ rows[b] = replay[c][1]
      BY <3>1 DEF RowOrder
    <3>3. k = b
      <4>1. ~(k < b) /\ ~(b < k)
        BY <1>0, <1>1, <1>4, <3>2 DEF RowsNumbered
      <4> QED
        BY <4>1
    <3>4. a \in 1..k - 1
      BY <3>2, <3>3
    <3> QED
      BY <3>2, <3>4
  <2> QED
    BY <2>1, <2>2 DEF Row
<1>6. Shown!IsNextRow(c, k)
  BY <1>5 DEF Shown!IsNextRow
<1>7. /\ inbox' = [inbox EXCEPT ![c] = Append(@, HistoryItem(rows[k]))]
      /\ UNCHANGED <<said, db>>
  BY <1>2, <1>4 DEF Replay
<1> QED
  BY <1>3, <1>6, <1>7 DEF Shown!ShowRow, HistoryItem

(* A delivery shows d what c did last. *)
LEMMA DeliverShows ==
    ASSUME RoomsInv, NEW c \in Clients, NEW d \in Clients, Deliver(c, d)
    PROVE  Shown!ShowAct(d, c)
<1> DEFINE stage == [b \in Clients |-> Stage(b)]
<1>0. TypeOK /\ Lifecycle /\ Behind /\ Collected /\ Acts
  BY DEF RoomsInv, IInv
<1>1. /\ pc[c] = "sending" /\ d \in todo[c] /\ d \notin closed
      /\ inbox' = [inbox EXCEPT ![d] = Append(@, CurrentEvent(c))]
      /\ UNCHANGED <<pc, event, said, db>>
  BY DEF Deliver
<1>2. stage[d] \in {"in", "leaving"} /\ stage[c] \in {"in", "left"}
  <2>1. /\ pc[d] # "absent" /\ event[d] # "leave"
        /\ c \notin Former /\ d \notin Former
    BY <1>0, <1>1 DEF Collected, Lifecycle
  <2> QED
    BY <1>0, <1>1, <2>1, StageFacts
<1>3. stage' = stage
  BY <1>1 DEF Stage
<1>4. Shown!LastAct(c) = CurrentEvent(c)
  BY <1>0, <1>1, LastActIsEvent DEF Collected
<1>5. ASSUME NEW i \in 1..Len(inbox[d]),
             inbox[d][i].kind # "history", inbox[d][i].from = c
      PROVE  inbox[d][i].seq < CurrentEvent(c).seq
  BY <1>0, <1>1, <1>5 DEF Behind, Live, Owes
<1>6. Shown!IsNews(d, c)
  BY <1>4, <1>5 DEF Shown!IsNews
<1>7. Room[d] = Room[c]
  BY <1>0, <1>1 DEF Collected
<1> QED
  BY <1>1, <1>2, <1>3, <1>4, <1>6, <1>7 DEF Shown!ShowAct

(* Whatever else happens the guests do not see. *)
LEMMA OthersHidden ==
    ASSUME TypeOK, Lifecycle, [Next]_vars,
           \A c \in Clients : /\ ~Join(c) /\ ~Leave(c) /\ ~CloseSend(c)
                              /\ ~ReadMessage(c)
                              /\ Replay(c) => Full(c)
                              /\ \A d \in Clients : ~Deliver(c, d)
    PROVE  UNCHANGED <<[c \in Clients |-> Stage(c)], said, db, inbox>>
<1>1. UNCHANGED <<event, said>>
  BY ActStep
<1>2. db' = db /\ inbox' = inbox
  BY DEF Next, HubStep, RecentMessages, RecentMessagesFail, Replay,
         CollectTargets, Drop, Panic, BroadcastDone, ReadError, Write,
         PingError, WriteClose, channels, vars
<1>3. ASSUME NEW c \in Clients
      PROVE  /\ pc'[c] = "absent" <=> pc[c] = "absent"
             /\ pc'[c] = "removed" <=> pc[c] = "removed"
  <2> USE DEF TypeOK
  <2>1. ASSUME NEW b \in Clients, NEW d \in Clients, Drop(b, d) \/ Panic(b, d)
        PROVE  /\ pc'[c] = "absent" <=> pc[c] = "absent"
               /\ pc'[c] = "removed" <=> pc[c] = "removed"
    BY <2>1 DEF Drop, Panic
  <2>2. ASSUME NEW b \in Clients,
               \/ RecentMessages(b) \/ RecentMessagesFail(b) \/ Replay(b)
               \/ CollectTargets(b) \/ BroadcastDone(b) \/ ReadError(b)
        PROVE  /\ pc'[c] = "absent" <=> pc[c] = "absent"
               /\ pc'[c] = "removed" <=> pc[c] = "removed"
    BY <2>2 DEF RecentMessages, RecentMessagesFail, Replay, CollectTargets,
                BroadcastDone, ReadError
  <2>3. ASSUME \/ UNCHANGED vars
               \/ \E b \in Clients : Write(b) \/ PingError(b) \/ WriteClose(b)
        PROVE  pc' = pc
    BY <2>3 DEF vars, Write, PingError, WriteClose, serving
  <2> QED
    BY <2>1, <2>2, <2>3 DEF Next, HubStep
<1>4. \A c \in Clients : Stage(c)' = Stage(c)
  BY <1>1, <1>3 DEF Stage
<1> QED
  BY <1>1, <1>2, <1>4

LEMMA StepShows ==
    ASSUME RoomsInv, [Next]_vars
    PROVE  [Shown!RoomsNext]_<<[c \in Clients |-> Stage(c)], said, db, inbox>>
<1>0. TypeOK /\ Lifecycle /\ Collected
  BY DEF RoomsInv, IInv
<1>1. ASSUME NEW c \in Clients, Join(c) \/ Leave(c) \/ CloseSend(c)
      PROVE  Shown!RoomsNext
  BY <1>0, <1>1, MovesShow DEF Shown!RoomsNext
<1>2. ASSUME NEW c \in Clients, ReadMessage(c)
      PROVE  Shown!RoomsNext
  BY <1>0, <1>2, ReadSpeaks DEF Shown!RoomsNext
<1>3. ASSUME NEW c \in Clients, Replay(c), ~Full(c)
      PROVE  Shown!RoomsNext
  BY <1>3, ReplayShows DEF Shown!RoomsNext
<1>4. ASSUME NEW c \in Clients, NEW d \in Clients, Deliver(c, d)
      PROVE  Shown!RoomsNext
  BY <1>4, DeliverShows DEF Shown!RoomsNext
<1> QED
  BY <1>0, <1>1, <1>2, <1>3, <1>4, OthersHidden

(* The hub implements the rooms: for any number of connections, whatever   *)
(* joins, breaks, stalls and panics meanwhile, a channel takes the rows    *)
(* and events of its own room only, rows in order and before the           *)
(* newcomer's join, events once and in order, and nothing once it is       *)
(* closed.                                                                 *)
THEOREM HubImplementsRooms == Spec => RoomsSpec
<1>1. Init => Shown!RoomsInit
  BY DEF Init, Shown!RoomsInit, Stage
<1>2. RoomsInv /\ [Next]_vars =>
          [Shown!RoomsNext]_<<[c \in Clients |-> Stage(c)], said, db, inbox>>
  BY StepShows
<1> QED
  BY <1>1, <1>2, RoomsInvariant, PTL
  DEF Spec, RoomsSpec, Shown!RoomsSpec, Shown!roomVars
===============================================================================
