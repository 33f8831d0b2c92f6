------------------------------- MODULE ChatHub -------------------------------
(***************************************************************************)
(* The chat hub of internal/websocket/hub.go.  Every connection is one     *)
(* Client with two goroutines: the serving one, which runs join, readPump  *)
(* and the deferred leave, and writePump, which starts when join returns.  *)
(* The hub's lock protects the rooms only: a broadcast collects its        *)
(* targets under the lock and sends to their channels after it, and leave  *)
(* closes a channel after its lock, so that a broadcast may send on a      *)
(* closed channel.  That panics; net/http recovers the panic, and the      *)
(* connection, hijacked by the upgrade, stays as it is.                    *)
(*                                                                         *)
(* Abstracted: token and upgrade (a Client exists once they succeeded),    *)
(* message texts (a message is its sender and a number), frames that       *)
(* readPump skips, and the time in the deadlines.                          *)
(***************************************************************************)
EXTENDS Naturals, Sequences, FiniteSets

CONSTANTS Clients,    \* connections
          Rooms,
          Room,       \* the room each connection asked for
          SendCap,    \* buffer of a Client's send channel, 32 in the code
          HistLimit,  \* messages replayed to a newcomer, 20 in the code
          Former,     \* connections of an earlier run of the server
          Past,       \* per room, the rows that run left in the database
          Says,       \* bound: messages read from each connection
          Leavers,    \* bound: connections on which a read may fail
          Unwritable, \* bound: open connections on which a write may fail
          DbFails     \* bound: connections whose database calls may fail

Message == [from : Clients, seq : Nat]

ASSUME ChatHubAssumption ==
    /\ Room \in [Clients -> Rooms]
    /\ SendCap \in Nat \ {0}
    /\ HistLimit \in Nat \ {0}
    /\ Says \in [Clients -> Nat]
    /\ Leavers \subseteq Clients
    /\ Unwritable \subseteq Clients
    /\ DbFails \subseteq Clients
    /\ Former \subseteq Clients
    /\ Past \in [Rooms -> Seq(Message)]
    /\ \A r \in Rooms : \A i \in 1..Len(Past[r]) :
          /\ Past[r][i].from \in Former
          /\ Room[Past[r][i].from] = r
          /\ Past[r][i].seq <= Says[Past[r][i].from]
          /\ \A j \in 1..i - 1 : Past[r][j] # Past[r][i]

VARIABLES pc,      \* where each serving goroutine is
          event,   \* the kind of event it broadcasts, or broadcast last
          todo,    \* the targets its broadcast has yet to serve
          replay,  \* the history it has yet to replay to its own client
          said,    \* the messages it has read from its connection
          pump,    \* where each writePump is
          members, \* Clients registered in their room
          closed,  \* Clients whose send channel is closed
          inbox,   \* per Client, everything its send channel ever took
          written, \* per Client, how much of that writePump has taken out
          db,      \* per room, the rows of chat_messages in id order
          base,    \* history: rows too old for the replay, or not fetched
          aborted  \* history: Clients whose last message hit a panic

serving == <<pc, event, todo, replay, said>>
channels == <<closed, inbox, written>>
history == <<base, aborted>>
vars == <<serving, pump, members, channels, db, history>>

Item == [kind : {"history", "join", "message", "leave"},
         from : Clients, seq : Nat]

PCs == {"absent", "entered", "publishing", "sending", "reading",
        "leaving", "removed", "gone", "ghost"}

Latest(c) == [from |-> c, seq |-> said[c]]

(* The join of c, its messages and its leave are numbered 0, 1, 2, ... *)
CurrentEvent(c) ==
    [kind |-> event[c],
     from |-> c,
     seq |-> CASE event[c] = "join" -> 0
               [] event[c] = "message" -> said[c]
               [] OTHER -> said[c] + 1]

HistoryItem(m) == [kind |-> "history", from |-> m.from, seq |-> m.seq]

RoomMates(c) == {d \in members : Room[d] = Room[c]}
Full(c) == Len(inbox[c]) - written[c] >= SendCap

-------------------------------------------------------------------------------
(* NewHub: empty rooms over a database that may hold rows.  The connections *)
(* of an earlier run are over.                                              *)
Init ==
    /\ pc = [c \in Clients |-> IF c \in Former THEN "gone" ELSE "absent"]
    /\ event = [c \in Clients |-> IF c \in Former THEN "leave" ELSE "join"]
    /\ todo = [c \in Clients |-> {}]
    /\ replay = [c \in Clients |-> <<>>]
    /\ said = [c \in Clients |-> IF c \in Former THEN Says[c] ELSE 0]
    /\ pump = [c \in Clients |-> IF c \in Former THEN "done" ELSE "off"]
    /\ members = {}
    /\ closed = Former
    /\ inbox = [c \in Clients |-> <<>>]
    /\ written = [c \in Clients |-> 0]
    /\ db = Past
    /\ base = [c \in Clients |-> 0]
    /\ aborted = {}

(* join: the locked section. *)
Join(c) ==
    /\ pc[c] = "absent"
    /\ pc' = [pc EXCEPT ![c] = "entered"]
    /\ members' = members \cup {c}
    /\ UNCHANGED <<event, todo, replay, said, pump, channels, db, history>>

(* Mutant: the rows of ORDER BY id DESC are not turned round. *)
RecentBackwards(c) ==
    LET rows == db[Room[c]]
        count == IF Len(rows) > HistLimit THEN HistLimit ELSE Len(rows)
    IN  /\ pc[c] = "entered"
        /\ pc' = [pc EXCEPT ![c] = "publishing"]
        /\ replay' = [replay EXCEPT ![c] =
                          [i \in 1..count |-> rows[Len(rows) + 1 - i]]]
        /\ base' = [base EXCEPT ![c] = Len(rows) - count]
        /\ UNCHANGED <<event, todo, said, pump, members, channels, db, aborted>>

(* recentMessages: the last HistLimit rows of the room, oldest first. *)
RecentMessages(c) ==
    LET rows == db[Room[c]]
        old == IF Len(rows) > HistLimit THEN Len(rows) - HistLimit ELSE 0
    IN  /\ pc[c] = "entered"
        /\ pc' = [pc EXCEPT ![c] = "publishing"]
        /\ replay' = [replay EXCEPT ![c] = SubSeq(rows, old + 1, Len(rows))]
        /\ base' = [base EXCEPT ![c] = old]
        /\ UNCHANGED <<event, todo, said, pump, members, channels, db, aborted>>

(* The query fails: the newcomer gets no history. *)
RecentMessagesFail(c) ==
    /\ pc[c] = "entered"
    /\ c \in DbFails
    /\ pc' = [pc EXCEPT ![c] = "publishing"]
    /\ base' = [base EXCEPT ![c] = Len(db[Room[c]])]
    /\ UNCHANGED <<event, todo, replay, said, pump, members, channels, db,
                   aborted>>

(* One turn of join's replay loop; a row is dropped when c.send is full. *)
Replay(c) ==
    /\ pc[c] = "publishing"
    /\ replay[c] # <<>>
    /\ replay' = [replay EXCEPT ![c] = Tail(@)]
    /\ inbox' = IF Full(c)
                    THEN inbox
                    ELSE [inbox EXCEPT ![c] =
                             Append(@, HistoryItem(Head(replay[c])))]
    /\ UNCHANGED <<pc, event, todo, said, pump, members, closed, written, db,
                   history>>

-------------------------------------------------------------------------------
(* broadcastToRoom, called by join, readPump and leave. *)

(* Mutant: Clients whose writePump has not started are passed over. *)
CollectStarted(c) ==
    /\ pc[c] = "publishing"
    /\ replay[c] = <<>>
    /\ pc' = [pc EXCEPT ![c] = "sending"]
    /\ todo' = [todo EXCEPT ![c] = {d \in RoomMates(c) : pump[d] # "off"}]
    /\ UNCHANGED <<event, replay, said, pump, members, channels, db, history>>

(* The read-locked section collects the targets. *)
CollectTargets(c) ==
    /\ pc[c] = "publishing"
    /\ replay[c] = <<>>
    /\ pc' = [pc EXCEPT ![c] = "sending"]
    /\ todo' = [todo EXCEPT ![c] = RoomMates(c)]
    /\ UNCHANGED <<event, replay, said, pump, members, channels, db, history>>

(* Mutant: the target is not struck off the loop, and is served again. *)
DeliverAgain(c, d) ==
    /\ pc[c] = "sending"
    /\ d \in todo[c] \ closed
    /\ ~Full(d)
    /\ inbox' = [inbox EXCEPT ![d] = Append(@, CurrentEvent(c))]
    /\ UNCHANGED <<serving, pump, members, closed, written, db, history>>

(* Mutant: the payload goes out without its type. *)
DeliverUntyped(c, d) ==
    /\ pc[c] = "sending"
    /\ d \in todo[c] \ closed
    /\ ~Full(d)
    /\ todo' = [todo EXCEPT ![c] = @ \ {d}]
    /\ inbox' = [inbox EXCEPT ![d] = Append(@, Latest(c))]
    /\ UNCHANGED <<pc, event, replay, said, pump, members, closed, written, db,
                   history>>

Deliver(c, d) ==
    /\ pc[c] = "sending"
    /\ d \in todo[c] \ closed
    /\ ~Full(d)
    /\ todo' = [todo EXCEPT ![c] = @ \ {d}]
    /\ inbox' = [inbox EXCEPT ![d] = Append(@, CurrentEvent(c))]
    /\ UNCHANGED <<pc, event, replay, said, pump, members, closed, written, db,
                   history>>

(* Mutant: no default branch, a full channel blocks the sender. *)
DropNever(c, d) ==
    /\ FALSE
    /\ d \in todo[c]
    /\ UNCHANGED vars

(* The default branch: d is slow and misses the event. *)
Drop(c, d) ==
    /\ pc[c] = "sending"
    /\ d \in todo[c] \ closed
    /\ Full(d)
    /\ todo' = [todo EXCEPT ![c] = @ \ {d}]
    /\ UNCHANGED <<pc, event, replay, said, pump, members, channels, db,
                   history>>

(* A send on a closed channel panics, full or not.  The panic unwinds the  *)
(* serving goroutine: out of join it leaves the Client registered and both *)
(* pumps unstarted; out of readPump it runs the deferred leave; out of     *)
(* leave it ends the goroutine.  The other targets are not served.         *)
Panic(c, d) ==
    /\ pc[c] = "sending"
    /\ d \in todo[c] \cap closed
    /\ pc' = [pc EXCEPT ![c] = CASE event[c] = "join" -> "ghost"
                                 [] event[c] = "message" -> "leaving"
                                 [] OTHER -> "gone"]
    /\ todo' = [todo EXCEPT ![c] = {}]
    /\ aborted' = IF event[c] = "message" THEN aborted \cup {c} ELSE aborted
    /\ UNCHANGED <<event, replay, said, pump, members, channels, db, base>>

(* The loop over the targets is over.  When join returns, ServeHTTP starts *)
(* writePump and enters readPump.                                          *)
BroadcastDone(c) ==
    /\ pc[c] = "sending"
    /\ todo[c] = {}
    /\ pc' = [pc EXCEPT ![c] = IF event[c] = "leave" THEN "gone" ELSE "reading"]
    /\ pump' = IF event[c] = "join" THEN [pump EXCEPT ![c] = "running"]
                                    ELSE pump
    /\ UNCHANGED <<event, todo, replay, said, members, channels, db, history>>

-------------------------------------------------------------------------------
(* readPump reads a message and saves it; when saving fails the message is *)
(* broadcast all the same.                                                 *)
ReadMessage(c) ==
    /\ pc[c] = "reading"
    /\ said[c] < Says[c]
    /\ said' = [said EXCEPT ![c] = @ + 1]
    /\ event' = [event EXCEPT ![c] = "message"]
    /\ pc' = [pc EXCEPT ![c] = "publishing"]
    /\ \/ db' = [db EXCEPT ![Room[c]] = Append(@, Latest(c)')]
       \/ c \in DbFails /\ UNCHANGED db
    /\ UNCHANGED <<todo, replay, pump, members, channels, history>>

(* The connection fails, the peer closes it, or a frame is too long. *)
ReadError(c) ==
    /\ pc[c] = "reading"
    /\ c \in Leavers
    /\ pc' = [pc EXCEPT ![c] = "leaving"]
    /\ UNCHANGED <<event, todo, replay, said, pump, members, channels, db,
                   history>>

(* Mutant: readPump sets no deadline. *)
NoDeadline(c) ==
    /\ FALSE
    /\ ReadError(c)

(* The read deadline, moved only by pongs.  Pongs answer the pings of      *)
(* writePump: once it has stopped, the deadline passes.                    *)
ReadDeadline(c) ==
    /\ pump[c] = "done"
    /\ ReadError(c)

(* Mutant: leave closes the channel of a Client it does not delete. *)
LeaveUndeleted(c) ==
    /\ pc[c] = "leaving"
    /\ pc' = [pc EXCEPT ![c] = "removed"]
    /\ UNCHANGED <<event, todo, replay, said, pump, members, channels, db,
                   history>>

(* leave: the locked section, then close(c.send), then the event. *)
Leave(c) ==
    /\ pc[c] = "leaving"
    /\ pc' = [pc EXCEPT ![c] = "removed"]
    /\ members' = members \ {c}
    /\ UNCHANGED <<event, todo, replay, said, pump, channels, db, history>>

CloseSend(c) ==
    /\ pc[c] = "removed"
    /\ pc' = [pc EXCEPT ![c] = "publishing"]
    /\ event' = [event EXCEPT ![c] = "leave"]
    /\ closed' = closed \cup {c}
    /\ UNCHANGED <<todo, replay, said, pump, members, inbox, written, db,
                   history>>

-------------------------------------------------------------------------------
(* leave closes the connection too, and every write may fail from then on. *)
MayFail(c) == c \in Unwritable \cup closed

(* writePump takes an item out of c.send; the write fails or succeeds. *)
Write(c) ==
    /\ pump[c] = "running"
    /\ written[c] < Len(inbox[c])
    /\ written' = [written EXCEPT ![c] = @ + 1]
    /\ \/ UNCHANGED pump
       \/ MayFail(c) /\ pump' = [pump EXCEPT ![c] = "done"]
    /\ UNCHANGED <<serving, members, closed, inbox, db, history>>

(* Writing a ping fails. *)
PingError(c) ==
    /\ pump[c] = "running"
    /\ MayFail(c)
    /\ pump' = [pump EXCEPT ![c] = "done"]
    /\ UNCHANGED <<serving, members, channels, db, history>>

(* c.send is closed and empty: a close frame, and the goroutine ends. *)
WriteClose(c) ==
    /\ pump[c] = "running"
    /\ c \in closed
    /\ written[c] = Len(inbox[c])
    /\ pump' = [pump EXCEPT ![c] = "done"]
    /\ UNCHANGED <<serving, members, channels, db, history>>

-------------------------------------------------------------------------------
(* What the serving goroutine does without waiting for its connection. *)
HubStep(c) ==
    \/ RecentMessages(c)
    \/ RecentMessagesFail(c)
    \/ Replay(c)
    \/ CollectTargets(c)
    \/ \E d \in Clients : Deliver(c, d) \/ Drop(c, d) \/ Panic(c, d)
    \/ BroadcastDone(c)
    \/ Leave(c)
    \/ CloseSend(c)

Next ==
    \E c \in Clients :
        \/ Join(c)
        \/ HubStep(c)
        \/ ReadMessage(c)
        \/ ReadError(c)
        \/ Write(c)
        \/ PingError(c)
        \/ WriteClose(c)

Spec == Init /\ [][Next]_vars

(* Goroutines that wait for nobody keep running, a write ends within its   *)
(* deadline, and the read deadline passes when no pong can come.  Peers    *)
(* owe nothing: they may never join, speak or leave.                       *)
HubFairness ==
    /\ \A c \in Clients \ Former :
          /\ WF_vars(HubStep(c))
          /\ WF_vars(Write(c) \/ WriteClose(c))
    /\ \A c \in Leavers \ Former : SF_vars(ReadDeadline(c))

FairSpec == Spec /\ HubFairness

-------------------------------------------------------------------------------
TypeOK ==
    /\ pc \in [Clients -> PCs]
    /\ event \in [Clients -> {"join", "message", "leave"}]
    /\ todo \in [Clients -> SUBSET Clients]
    /\ replay \in [Clients -> Seq(Message)]
    /\ said \in [Clients -> Nat]
    /\ pump \in [Clients -> {"off", "running", "done"}]
    /\ members \subseteq Clients
    /\ closed \subseteq Clients
    /\ inbox \in [Clients -> Seq(Item)]
    /\ written \in [Clients -> Nat]
    /\ db \in [Rooms -> Seq(Message)]
    /\ base \in [Clients -> Nat]
    /\ aborted \subseteq Clients

(* leave deletes the Client from its room before it closes c.send, so that *)
(* no broadcast collects a closed channel from the room: only one that     *)
(* collected its targets earlier can meet it.                              *)
OpenMembers == members \cap closed = {}

(* Each Client sees the live events of another in the order in which they  *)
(* happened, join, messages, leave, and none of them twice.                *)
SenderOrder ==
    \A c \in Clients : \A i, j \in 1..Len(inbox[c]) :
        /\ i < j
        /\ inbox[c][i].from = inbox[c][j].from
        /\ inbox[c][i].kind # "history" /\ inbox[c][j].kind # "history"
        => inbox[c][i].seq < inbox[c][j].seq

(* The row an item of a channel shows. *)
Row(item) == [from |-> item.from, seq |-> item.seq]

RowOrder(rows, m, n) ==
    \E i, j \in 1..Len(rows) : i < j /\ rows[i] = m /\ rows[j] = n

(* The replay reaches the newcomer in the order of the rows, and all of it *)
(* before the newcomer's own join event.                                   *)
HistoryOrder ==
    \A c \in Clients : \A i, j \in 1..Len(inbox[c]) :
        i < j /\ inbox[c][j].kind = "history"
        => /\ ~(inbox[c][i].kind = "join" /\ inbox[c][i].from = c)
           /\ inbox[c][i].kind = "history"
              => RowOrder(db[Room[c]], Row(inbox[c][i]), Row(inbox[c][j]))

Took(c, m) ==
    \E i \in 1..Len(inbox[c]) :
        inbox[c][i].kind \in {"history", "message"} /\ Row(inbox[c][i]) = m

Coming(c, m) ==
    \/ \E i \in 1..Len(replay[c]) : replay[c][i] = m
    \/ /\ m = Latest(m.from) /\ event[m.from] = "message"
       /\ pc[m.from] = "publishing" \/ c \in todo[m.from]

Lost(c, m) ==
    \/ Len(inbox[c]) >= SendCap
    \/ m.from \in aborted /\ m = Latest(m.from)

Accounted(c, i) ==
    LET m == db[Room[c]][i] IN Took(c, m) \/ Coming(c, m) \/ Lost(c, m)

(* No saved message falls between the replay and the live events of a      *)
(* member: it is in its channel, on its way there, older than the replay,  *)
(* or was dropped because the channel has been full, or a panic stopped    *)
(* the broadcast.                                                          *)
NoGap ==
    \A c \in {d \in members : pc[d] # "entered"} :
        \A i \in base[c] + 1..Len(db[Room[c]]) : Accounted(c, i)

(* How a connection stands to its room: of an earlier run, absent, in it,  *)
(* deleted from it but with an open channel, or left.                      *)
Stage(c) ==
    IF c \in Former THEN "former"
    ELSE CASE event[c] = "leave" -> "left"
           [] pc[c] = "absent" -> "out"
           [] pc[c] = "removed" -> "leaving"
           [] OTHER -> "in"

Shown == INSTANCE ChatRooms WITH
    Guests <- Clients,
    Places <- Rooms,
    Place <- Room,
    stage <- [c \in Clients |-> Stage(c)],
    spoken <- said,
    rows <- db,
    feed <- inbox

(* Channels take only rows and events of their own room, rows in order and *)
(* before the newcomer's own join, events once and in their sender's       *)
(* order, and nothing after the close, whatever is collected, sent, closed *)
(* and recovered from meanwhile.                                           *)
RoomsSpec == Shown!RoomsSpec

(* A broadcast ends whatever its targets do: a slow Client delays nobody.  *)
BroadcastReturns ==
    \A c \in Clients \ Former :
        pc[c] \in {"publishing", "sending"} ~>
            pc[c] \notin {"publishing", "sending"}

(* Of a connection whose reads may fail, neither goroutine outlives the    *)
(* other: once writePump has stopped there are no pings, so no pongs, and  *)
(* the read deadline ends readPump; once leave has closed the channel      *)
(* writePump drains it and stops.                                          *)
PumpsEndTogether ==
    \A c \in Leavers \ Former :
        pump[c] = "done" \/ pc[c] = "gone" ~> pump[c] = "done" /\ pc[c] = "gone"

(* The "ping/pong keepalive" of README.md: a member past its join has a    *)
(* goroutine that reads its pongs and will take it out of the room.        *)
MembersAreServed == \A c \in members : pc[c] # "ghost"
===============================================================================
