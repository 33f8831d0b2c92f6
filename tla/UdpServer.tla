------------------------------ MODULE UdpServer ------------------------------
(***************************************************************************)
(* The UDP notification server of internal/udp/server.go: readLoop, which  *)
(* handles one datagram after the other, broadcastLoop, which sends each   *)
(* notification to every registered address, and Stop.  Clients send what  *)
(* they like, and the network loses, repeats and reorders it: readLoop may *)
(* read any datagram at any moment.  What the server sends is followed up  *)
(* to the socket; its replies (registered, pong, error) are left out.  Of  *)
(* the broker only the server's own channel is seen (Broker.tla).          *)
(***************************************************************************)
EXTENDS Naturals, Sequences

CONSTANTS Addrs,    \* client addresses
          Genres,
          ChanCap,  \* buffer of the broker's channel, 64 in the code
          MaxNotes, \* bound: notifications the channel ever accepts
          Unreachable \* addresses a write may fail for on an open socket

ASSUME UdpServerAssumption ==
    /\ ChanCap \in Nat \ {0}
    /\ MaxNotes \in Nat
    /\ Unreachable \subseteq Addrs

VARIABLES socket,   \* s.conn
          stopping, \* how far Stop has come
          reader,   \* the goroutine in readLoop
          clients,  \* registered addresses
          genres,   \* the genres each address registered with last
          loop,     \* where broadcastLoop is
          log,      \* every notification the channel ever took: its manga's genre
          taken,    \* how many of them broadcastLoop has received
          targets,  \* addresses this broadcast has yet to serve
          sent,     \* history: the notifications sent to each address
          since,    \* history: the log's length when an address came
          gone      \* history: notifications received when it last went

lifecycle == <<socket, stopping, reader>>
registry == <<clients, genres, since, gone>>
broadcast == <<loop, taken, targets, sent>>
vars == <<lifecycle, registry, broadcast, log>>

(* Anything that is neither a register nor an unregister (a ping, an       *)
(* unknown type, invalid JSON) is "other".                                 *)
Datagram ==
    [from : Addrs, type : {"register"}, genres : SUBSET Genres]
        \cup [from : Addrs, type : {"unregister", "other"}]

Subscribed == loop \notin {"unborn", "started", "ended"}

-------------------------------------------------------------------------------
Init ==
    /\ socket = "nil"
    /\ stopping = "no"
    /\ reader = "unborn"
    /\ clients = {}
    /\ genres = [a \in Addrs |-> {}]
    /\ loop = "unborn"
    /\ log = <<>>
    /\ taken = 0
    /\ targets = {}
    /\ sent = [a \in Addrs |-> <<>>]
    /\ since = [a \in Addrs |-> 0]
    /\ gone = [a \in Addrs |-> 0]

(* Start listens, starts broadcastLoop and runs readLoop. *)
Start ==
    /\ socket = "nil"
    /\ socket' = "open"
    /\ reader' = "reading"
    /\ loop' = "started"
    /\ UNCHANGED <<stopping, registry, taken, targets, sent, log>>

(* Stop closes s.stop, then the socket, which is still nil before Start. *)
Stop ==
    /\ stopping = "no"
    /\ stopping' = "signalled"
    /\ UNCHANGED <<socket, reader, registry, broadcast, log>>

(* Mutant: the socket is left to the operating system. *)
StopNotClosing ==
    /\ stopping = "signalled"
    /\ stopping' = "done"
    /\ UNCHANGED <<socket, reader, registry, broadcast, log>>

StopSocket ==
    /\ stopping = "signalled"
    /\ stopping' = "done"
    /\ socket' = IF socket = "open" THEN "closed" ELSE socket
    /\ UNCHANGED <<reader, registry, broadcast, log>>

-------------------------------------------------------------------------------
(* readLoop.  A datagram is handled as it is read: the one that Stop finds *)
(* half handled changes the map, and nothing is sent to it any more.       *)

Reading == reader = "reading" /\ socket = "open"

(* A second registration replaces the entry. *)
RegisterClient(d) ==
    /\ Reading
    /\ d.type = "register"
    /\ clients' = clients \cup {d.from}
    /\ genres' = [genres EXCEPT ![d.from] = d.genres]
    /\ since' = IF d.from \in clients
                    THEN since
                    ELSE [since EXCEPT ![d.from] = Len(log)]
    /\ UNCHANGED <<lifecycle, gone, broadcast, log>>

UnregisterClient(d) ==
    /\ Reading
    /\ d.type = "unregister"
    /\ clients' = clients \ {d.from}
    /\ genres' = [genres EXCEPT ![d.from] = {}]
    /\ gone' = [gone EXCEPT ![d.from] = taken]
    /\ UNCHANGED <<lifecycle, since, broadcast, log>>

HandleOther(d) ==
    /\ Reading
    /\ d.type = "other"
    /\ UNCHANGED <<lifecycle, registry, broadcast, log>>

(* The read fails on the closed socket, and s.stop is closed by then. *)
ReadError ==
    /\ reader = "reading"
    /\ socket = "closed"
    /\ reader' = "ended"
    /\ UNCHANGED <<socket, stopping, registry, broadcast, log>>

-------------------------------------------------------------------------------
(* A publication: the channel takes it or, full or absent, does not. *)
PublishNotification(g) ==
    /\ IF Subscribed /\ Len(log) - taken < ChanCap
           THEN log' = Append(log, g) /\ Len(log) < MaxNotes
           ELSE UNCHANGED log
    /\ UNCHANGED <<lifecycle, registry, broadcast>>

(* broadcastLoop begins: clients may have registered before. *)
SubscribeNotification ==
    /\ loop = "started"
    /\ loop' = "waiting"
    /\ UNCHANGED <<lifecycle, registry, taken, targets, sent, log>>

(* Mutant: broadcastLoop does not look at s.stop. *)
LoopOn == FALSE /\ UNCHANGED vars

(* broadcastLoop's select takes any branch that is ready. *)
LoopStop ==
    /\ loop = "waiting"
    /\ stopping # "no"
    /\ loop' = "ended"
    /\ UNCHANGED <<lifecycle, registry, taken, targets, sent, log>>

Receive ==
    /\ loop = "waiting"
    /\ taken < Len(log)
    /\ taken' = taken + 1
    /\ loop' = "collecting"
    /\ UNCHANGED <<lifecycle, registry, targets, sent, log>>

(* Mutant: addresses served before are served again. *)
CollectKnown ==
    /\ loop = "collecting"
    /\ targets' = clients \cup {a \in Addrs : sent[a] # <<>>}
    /\ loop' = "sending"
    /\ UNCHANGED <<lifecycle, registry, taken, sent, log>>

(* Mutant: the addresses are those of the broadcast before. *)
CollectServed ==
    /\ loop = "collecting"
    /\ targets' = {a \in clients : taken > 1 => sent[a] # <<>>}
    /\ loop' = "sending"
    /\ UNCHANGED <<lifecycle, registry, taken, sent, log>>

(* broadcast: the read-locked section; the genres are not looked at. *)
CollectTargets ==
    /\ loop = "collecting"
    /\ targets' = clients
    /\ loop' = "sending"
    /\ UNCHANGED <<lifecycle, registry, taken, sent, log>>

(* Mutant: an address is not struck off after it was served. *)
SendAgain(a) ==
    /\ loop = "sending"
    /\ a \in targets
    /\ Len(sent[a]) < MaxNotes
    /\ sent' = [sent EXCEPT ![a] = Append(@, taken)]
    /\ UNCHANGED <<lifecycle, registry, loop, taken, targets, log>>

(* Mutant: the notification after the one received is sent. *)
SendAhead(a) ==
    /\ loop = "sending"
    /\ a \in targets
    /\ targets' = targets \ {a}
    /\ sent' = [sent EXCEPT ![a] = Append(@, taken + 1)]
    /\ UNCHANGED <<lifecycle, registry, loop, taken, log>>

(* One WriteToUDP.  An error (the closed socket, a network the kernel does *)
(* not reach) is logged, the notification is lost to this address, and     *)
(* broadcast goes on to the next.                                          *)
Send(a) ==
    /\ loop = "sending"
    /\ a \in targets
    /\ targets' = targets \ {a}
    /\ \/ socket = "open" /\ sent' = [sent EXCEPT ![a] = Append(@, taken)]
       \/ (socket # "open" \/ a \in Unreachable) /\ UNCHANGED sent
    /\ UNCHANGED <<lifecycle, registry, loop, taken, log>>

BroadcastDone ==
    /\ loop = "sending"
    /\ targets = {}
    /\ loop' = "waiting"
    /\ UNCHANGED <<lifecycle, registry, taken, targets, sent, log>>

-------------------------------------------------------------------------------
Reader ==
    \/ \E d \in Datagram : RegisterClient(d) \/ UnregisterClient(d) \/ HandleOther(d)
    \/ ReadError

Loop ==
    \/ SubscribeNotification
    \/ Receive
    \/ CollectTargets
    \/ \E a \in Addrs : Send(a)
    \/ BroadcastDone
    \/ LoopStop

Next ==
    \/ Start
    \/ Stop
    \/ StopSocket
    \/ Reader
    \/ Loop
    \/ \E g \in Genres : PublishNotification(g)

Spec == Init /\ [][Next]_vars

(* The server's goroutines run, a read on the closed socket fails, and a   *)
(* select that finds s.stop closed again and again takes that branch at    *)
(* last.  Clients, publishers and the network owe nothing.                 *)
ServerFairness ==
    /\ WF_vars(StopSocket)
    /\ WF_vars(ReadError)
    /\ WF_vars(Loop)
    /\ SF_vars(LoopStop)

FairSpec == Spec /\ ServerFairness

-------------------------------------------------------------------------------
TypeOK ==
    /\ socket \in {"nil", "open", "closed"}
    /\ stopping \in {"no", "signalled", "done"}
    /\ reader \in {"unborn", "reading", "ended"}
    /\ clients \subseteq Addrs
    /\ genres \in [Addrs -> SUBSET Genres]
    /\ loop \in {"unborn", "started", "waiting", "collecting", "sending", "ended"}
    /\ log \in Seq(Genres)
    /\ taken \in 0..Len(log)
    /\ targets \subseteq Addrs
    /\ sent \in [Addrs -> Seq(1..Len(log))]
    /\ since \in [Addrs -> 0..Len(log)]
    /\ gone \in [Addrs -> 0..Len(log)]

(* The server sends each address every notification at most once and in    *)
(* the order in which the channel took them, however often the client      *)
(* registers and leaves.                                                   *)
SentInOrder ==
    \A a \in Addrs : \A i, j \in 1..Len(sent[a]) : i < j => sent[a][i] < sent[a][j]

(* A notification that entered the channel after an address registered is  *)
(* sent to it, also when the client registers again meanwhile: it was      *)
(* sent, is still in the channel, or is being broadcast with the address   *)
(* ahead.  An address that writes fail for is excepted: broadcast logs the *)
(* error and never tries again (172).                                      *)
Sent(a, k) == \E i \in 1..Len(sent[a]) : sent[a][i] = k

NoMissedNotification ==
    socket = "open" =>
        \A a \in clients \ Unreachable : \A k \in since[a] + 1..taken :
            \/ Sent(a, k)
            \/ k = taken /\ (loop = "collecting" \/ a \in targets)

(* When an unregister has been handled, no notification received later is  *)
(* sent to the address: at most the broadcast under way still reaches it.  *)
GoneIsGone ==
    \A a \in Addrs \ clients : \A i \in 1..Len(sent[a]) : sent[a][i] <= gone[a]

(* The broadcasts are those of a mailing list, whatever datagrams arrive   *)
(* while targets are served unlocked: each notification goes to those      *)
(* registered at one moment, once to each and in the channel's order, and  *)
(* is over before the next, and until Stop none is left out but for an     *)
(* address that a write fails for, whose later notifications still come.   *)
List == INSTANCE MailingList WITH
    Readers <- Addrs,
    Notices <- Genres,
    Flaky <- Unreachable,
    feed <- log,
    listed <- clients,
    round <- IF loop = "collecting" THEN taken - 1 ELSE taken,
    due <- targets,
    got <- sent,
    line <- CASE socket = "nil" -> "new" [] socket = "open" -> "up" [] OTHER -> "down"

ListSpec == List!ListSpec

(* Stop ends readLoop, if Start has opened the socket by then. *)
StopEndsReader == stopping = "signalled" /\ socket = "open" ~> reader = "ended"

(* Stop ends broadcastLoop, which unsubscribes from the broker. *)
StopEndsLoop == stopping # "no" ~> loop \in {"unborn", "ended"}

(* README.md: "connectionless client registration with genre-based         *)
(* subscription": a client that named genres is sent notifications of      *)
(* these genres.                                                           *)
GenresRespected ==
    [][\A a \in Addrs :
          sent'[a] # sent[a] /\ genres[a] # {} => log[taken] \in genres[a]]_vars
===============================================================================
