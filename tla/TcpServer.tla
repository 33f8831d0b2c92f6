------------------------------ MODULE TcpServer ------------------------------
(***************************************************************************)
(* The TCP sync server of internal/tcp/server.go: the accept loop, one     *)
(* handleConn goroutine per connection, the broadcastLoop that sends each  *)
(* progress update to all sessions of its user, and Stop.  The server      *)
(* subscribes once to the broker, of which only this channel is seen here: *)
(* a publication enters it, or is dropped when it is full (Broker.tla).    *)
(*                                                                         *)
(* A write ends at once unless the peer has stopped reading; then it ends  *)
(* when the socket is closed, for the server sets no write deadline.       *)
(*                                                                         *)
(* The welcome of a session does not take the session's mutex, so a        *)
(* broadcast may use the session's bufio.Writer together with it.  The     *)
(* broadcast line may then be written, written twice, torn or lost, and    *)
(* the writer may be left with an error, after which each write to the     *)
(* session fails at once.                                                  *)
(***************************************************************************)
EXTENDS Naturals, Sequences, FiniteSets

CONSTANTS Conns,       \* connections
          Users,
          User,        \* the user whose token each connection presents
          ChanCap,     \* buffer of the broker's channel, 64 in the code
          MaxUpdates,  \* bound: updates the channel ever accepts
          EarlyStop,   \* bound: whether Stop may come before Start listens
          Talkers,     \* bound: connections whose peer sends lines
          Stallers,    \* bound: connections whose peer may stop reading
          Resetters,   \* bound: connections whose peer may break them
          None         \* no connection

ASSUME TcpServerAssumption ==
    /\ User \in [Conns -> Users]
    /\ ChanCap \in Nat \ {0}
    /\ MaxUpdates \in Nat
    /\ EarlyStop \in BOOLEAN
    /\ Talkers \subseteq Conns
    /\ Stallers \subseteq Conns
    /\ Resetters \subseteq Conns
    /\ None \notin Conns

VARIABLES acceptor, \* the goroutine in Start
          stopping, \* how far Stop has come
          pc,       \* where each handleConn is
          clients,  \* the map of sessions
          open,     \* connections the server has not closed
          stalled,  \* peers that have stopped reading
          broken,   \* peers that have reset the connection
          loop,     \* where broadcastLoop is
          log,      \* every update the channel ever took: its user
          taken,    \* how many of them broadcastLoop has received
          targets,  \* sessions this broadcast has yet to serve
          current,  \* the session it is serving
          raced,    \* history: updates written together with the welcome
          jammed,   \* sessions whose bufio.Writer holds an error
          got,      \* history: the other updates written to each session
          since,    \* history: updates broadcast when a session registered
          late      \* history: sessions registered after Stop

handlers == <<pc, clients, open, since, late>>
buffers == <<raced, jammed>>
peers == <<stalled, broken, buffers>>
broadcast == <<loop, taken, targets, current, got>>
lifecycle == <<acceptor, stopping>>
vars == <<lifecycle, handlers, peers, broadcast, log>>

Subscribed == loop \notin {"unborn", "ended"}
Stuck(c) == c \in stalled \cap open
Healthy(c) == c \in open \ broken

(* Two unsynchronised writes may leave an error in the writer of c. *)
Jam(c, overlapped) ==
    \/ UNCHANGED jammed
    \/ overlapped /\ jammed' = jammed \cup {c}

-------------------------------------------------------------------------------
Init ==
    /\ acceptor = "down"
    /\ stopping = "no"
    /\ pc = [c \in Conns |-> "new"]
    /\ clients = {}
    /\ open = {}
    /\ stalled = {}
    /\ broken = {}
    /\ loop = "unborn"
    /\ log = <<>>
    /\ taken = 0
    /\ targets = {}
    /\ current = None
    /\ raced = [c \in Conns |-> {}]
    /\ jammed = {}
    /\ got = [c \in Conns |-> <<>>]
    /\ since = [c \in Conns |-> 0]
    /\ late = {}

(* Start listens, starts broadcastLoop and accepts. *)
Start ==
    /\ acceptor = "down"
    /\ acceptor' = "up"
    /\ loop' = "waiting"
    /\ UNCHANGED <<stopping, handlers, peers, log, taken, targets, current, got>>

Accept(c) ==
    /\ acceptor = "up"
    /\ pc[c] = "new"
    /\ pc' = [pc EXCEPT ![c] = "auth"]
    /\ open' = open \cup {c}
    /\ UNCHANGED <<lifecycle, clients, since, late, peers, broadcast, log>>

(* Stop closes s.stop and the listener, which is still nil before Start.   *)
Stop ==
    /\ stopping = "no"
    /\ acceptor = "up" \/ EarlyStop
    /\ stopping' = "signalled"
    /\ acceptor' = IF acceptor = "up" THEN "ended" ELSE acceptor
    /\ UNCHANGED <<handlers, peers, broadcast, log>>

(* Mutant: the sessions are forgotten, their connections left open. *)
StopForgets ==
    /\ stopping = "signalled"
    /\ stopping' = "done"
    /\ clients' = {}
    /\ UNCHANGED <<acceptor, pc, open, since, late, peers, broadcast, log>>

(* Its locked section closes the sessions and forgets them. *)
StopClients ==
    /\ stopping = "signalled"
    /\ stopping' = "done"
    /\ open' = open \ clients
    /\ clients' = {}
    /\ UNCHANGED <<acceptor, pc, since, late, peers, broadcast, log>>

-------------------------------------------------------------------------------
(* handleConn. *)

(* No valid token came, or nothing within ten seconds: the connection is   *)
(* closed.                                                                 *)
AuthFail(c) ==
    /\ pc[c] = "auth"
    /\ pc' = [pc EXCEPT ![c] = "gone"]
    /\ open' = open \ {c}
    /\ UNCHANGED <<lifecycle, clients, since, late, peers, broadcast, log>>

Register(c) ==
    /\ pc[c] = "auth"
    /\ pc' = [pc EXCEPT ![c] = "registered"]
    /\ clients' = clients \cup {c}
    /\ since' = [since EXCEPT ![c] = IF loop = "collecting" THEN taken - 1
                                                            ELSE taken]
    /\ late' = IF stopping = "done" THEN late \cup {c} ELSE late
    /\ UNCHANGED <<lifecycle, open, peers, broadcast, log>>

(* The welcome is written without the session's mutex: a broadcast may be  *)
(* writing to the session.                                                 *)
Welcome(c) ==
    /\ pc[c] = "registered"
    /\ pc' = [pc EXCEPT ![c] = "welcoming"]
    /\ raced' = IF loop = "writing" /\ current = c
                   THEN [raced EXCEPT ![c] = @ \cup {taken}] ELSE raced
    /\ UNCHANGED <<lifecycle, clients, open, since, late, stalled, broken, jammed,
                   broadcast, log>>

(* Its error is ignored; a broken connection shows in the next read. *)
Welcomed(c) ==
    /\ pc[c] = "welcoming"
    /\ ~Stuck(c)
    /\ Jam(c, raced[c] # {})
    /\ pc' = [pc EXCEPT ![c] = "serving"]
    /\ UNCHANGED <<lifecycle, clients, open, since, late, stalled, broken, raced,
                   broadcast, log>>

(* A publication by u: the channel takes it or, full or absent, does not.  *)
Publish(u) ==
    IF Subscribed /\ Len(log) - taken < ChanCap
        THEN log' = Append(log, u) /\ Len(log) < MaxUpdates
        ELSE UNCHANGED log

(* An update of the user by another way: an HTTP or gRPC handler. *)
PublishElsewhere(u) ==
    /\ Publish(u)
    /\ UNCHANGED <<lifecycle, handlers, peers, broadcast>>

(* Lines the reader has buffered are read after the connection failed.     *)
ReadProgress(c) ==
    /\ pc[c] = "serving"
    /\ c \in Talkers
    /\ Publish(User[c])
    /\ pc' = [pc EXCEPT ![c] = "answering"]
    /\ UNCHANGED <<lifecycle, clients, open, since, late, peers, broadcast>>

(* A ping, an unknown type, invalid JSON, a progress without manga_id. *)
ReadOther(c) ==
    /\ pc[c] = "serving"
    /\ c \in Talkers
    /\ pc' = [pc EXCEPT ![c] = "answering"]
    /\ UNCHANGED <<lifecycle, clients, open, since, late, peers, broadcast, log>>

(* c.send: the session's mutex, then the write; its error is ignored. *)
Answer(c) ==
    /\ pc[c] = "answering"
    /\ ~(loop = "writing" /\ current = c)
    /\ pc' = [pc EXCEPT ![c] = "writing"]
    /\ UNCHANGED <<lifecycle, clients, open, since, late, peers, broadcast, log>>

Answered(c) ==
    /\ pc[c] = "writing"
    /\ ~Stuck(c) \/ c \in jammed
    /\ pc' = [pc EXCEPT ![c] = "serving"]
    /\ UNCHANGED <<lifecycle, clients, open, since, late, peers, broadcast, log>>

(* The read fails: the peer left, or the server closed the connection. *)
ReadError(c) ==
    /\ pc[c] = "serving"
    /\ ~Healthy(c)
    /\ pc' = [pc EXCEPT ![c] = "leaving"]
    /\ UNCHANGED <<lifecycle, clients, open, since, late, peers, broadcast, log>>

(* The deferred calls: the session is deleted, then the socket closed. *)
Unregister(c) ==
    /\ pc[c] = "leaving"
    /\ pc' = [pc EXCEPT ![c] = "closing"]
    /\ clients' = clients \ {c}
    /\ UNCHANGED <<lifecycle, open, since, late, peers, broadcast, log>>

Close(c) ==
    /\ pc[c] = "closing"
    /\ pc' = [pc EXCEPT ![c] = "gone"]
    /\ open' = open \ {c}
    /\ UNCHANGED <<lifecycle, clients, since, late, peers, broadcast, log>>

-------------------------------------------------------------------------------
(* broadcastLoop: the select takes any branch that is ready. *)

LoopStop ==
    /\ loop = "waiting"
    /\ stopping # "no"
    /\ loop' = "ended"
    /\ UNCHANGED <<lifecycle, handlers, peers, taken, targets, current, got, log>>

Receive ==
    /\ loop = "waiting"
    /\ taken < Len(log)
    /\ taken' = taken + 1
    /\ loop' = "collecting"
    /\ UNCHANGED <<lifecycle, handlers, peers, targets, current, got, log>>

(* Mutant: sessions still being welcomed are passed over. *)
CollectWelcomed ==
    /\ loop = "collecting"
    /\ targets' = {c \in clients : User[c] = log[taken]
                                  /\ pc[c] \notin {"registered", "welcoming"}}
    /\ loop' = "sending"
    /\ UNCHANGED <<lifecycle, handlers, peers, taken, current, got, log>>

(* broadcastProgress: the read-locked section collects the sessions. *)
CollectTargets ==
    /\ loop = "collecting"
    /\ targets' = {c \in clients : User[c] = log[taken]}
    /\ loop' = "sending"
    /\ UNCHANGED <<lifecycle, handlers, peers, taken, current, got, log>>

NextTarget(c) ==
    /\ loop = "sending"
    /\ c \in targets
    /\ targets' = targets \ {c}
    /\ current' = c
    /\ loop' = "locking"
    /\ UNCHANGED <<lifecycle, handlers, peers, taken, got, log>>

(* Mutant: a session whose mutex is taken is passed over. *)
LockOrSkip ==
    /\ loop = "locking"
    /\ \/ /\ pc[current] = "writing"
          /\ current' = None
          /\ loop' = "sending"
       \/ /\ pc[current] # "writing"
          /\ loop' = "writing"
          /\ UNCHANGED current
    /\ UNCHANGED <<lifecycle, handlers, peers, taken, targets, got, log>>

(* send: the session's mutex, which the welcome does not hold, then the    *)
(* write.                                                                  *)
Lock ==
    /\ loop = "locking"
    /\ pc[current] # "writing"
    /\ raced' = IF pc[current] = "welcoming"
                   THEN [raced EXCEPT ![current] = @ \cup {taken}] ELSE raced
    /\ loop' = "writing"
    /\ UNCHANGED <<lifecycle, handlers, stalled, broken, jammed, taken, targets,
                   current, got, log>>

(* The write overlaps the welcome of the session it goes to. *)
Overlapped == taken \in raced[current]

(* Mutant: the update after the one received is written. *)
WrittenAhead ==
    /\ loop = "writing"
    /\ ~Stuck(current)
    /\ got' = [got EXCEPT ![current] = Append(@, taken + 1)]
    /\ current' = None
    /\ loop' = "sending"
    /\ UNCHANGED <<lifecycle, handlers, peers, taken, targets, log>>

(* The write ends: with an error on a closed or broken connection or when  *)
(* the writer held one, and anyhow when it overlapped the welcome.         *)
Written ==
    /\ loop = "writing"
    /\ ~Stuck(current) \/ (current \in jammed /\ ~Overlapped)
    /\ Jam(current, Overlapped)
    /\ got' = IF Healthy(current) /\ current \notin jammed /\ ~Overlapped
                 THEN [got EXCEPT ![current] = Append(@, taken)] ELSE got
    /\ current' = None
    /\ loop' = "sending"
    /\ UNCHANGED <<lifecycle, handlers, stalled, broken, raced, taken, targets, log>>

BroadcastDone ==
    /\ loop = "sending"
    /\ targets = {}
    /\ loop' = "waiting"
    /\ UNCHANGED <<lifecycle, handlers, peers, taken, targets, current, got, log>>

-------------------------------------------------------------------------------
(* The peers: one stops reading, so that the buffers fill; one resets.     *)
Stall(c) ==
    /\ c \in (Stallers \cap open) \ (stalled \cup broken)
    /\ stalled' = stalled \cup {c}
    /\ UNCHANGED <<lifecycle, handlers, broken, buffers, broadcast, log>>

Reset(c) ==
    /\ c \in (Resetters \cap open) \ broken
    /\ broken' = broken \cup {c}
    /\ stalled' = stalled \ {c}
    /\ UNCHANGED <<lifecycle, handlers, buffers, broadcast, log>>

Handler(c) ==
    \/ Register(c)
    \/ Welcome(c)
    \/ Welcomed(c)
    \/ ReadProgress(c)
    \/ ReadOther(c)
    \/ Answer(c)
    \/ Answered(c)
    \/ ReadError(c)
    \/ Unregister(c)
    \/ Close(c)

Loop ==
    \/ Receive
    \/ CollectTargets
    \/ \E c \in Conns : NextTarget(c)
    \/ Lock
    \/ Written
    \/ BroadcastDone
    \/ LoopStop

Next ==
    \/ Start
    \/ Stop
    \/ StopClients
    \/ Loop
    \/ \E c \in Conns :
        Accept(c) \/ AuthFail(c) \/ Handler(c) \/ Stall(c) \/ Reset(c)
    \/ \E u \in Users : PublishElsewhere(u)

Spec == Init /\ [][Next]_vars

(* The server's own goroutines run, a read on a closed or broken           *)
(* connection fails once the lines in the reader's buffer, which are few,  *)
(* have been read, a write ends unless it is stuck, the authentication     *)
(* deadline passes, and a select that finds s.stop closed again and again  *)
(* takes that branch at last.  A goroutine that waits for a sync.Mutex     *)
(* gets it at last, for after a millisecond it is handed over to the first *)
(* waiter.  The last three are asked for together, which is less and       *)
(* enough: each is taken so often only.  Peers and publishers owe nothing. *)
ServerFairness ==
    /\ WF_vars(StopClients)
    /\ WF_vars(Loop)
    /\ SF_vars(Lock \/ LoopStop \/ \E c \in Conns : ReadError(c))
    /\ \A c \in Conns :
        WF_vars(\/ AuthFail(c) \/ Welcome(c) \/ Welcomed(c) \/ Answer(c)
                \/ Answered(c) \/ Unregister(c) \/ Close(c))

FairSpec == Spec /\ ServerFairness

-------------------------------------------------------------------------------
TypeOK ==
    /\ acceptor \in {"down", "up", "ended"}
    /\ stopping \in {"no", "signalled", "done"}
    /\ pc \in [Conns -> {"new", "auth", "registered", "welcoming", "serving",
                         "answering", "writing", "leaving", "closing", "gone"}]
    /\ clients \subseteq Conns
    /\ open \subseteq Conns
    /\ stalled \subseteq Conns
    /\ broken \subseteq Conns
    /\ loop \in {"unborn", "waiting", "collecting", "sending", "locking",
                 "writing", "ended"}
    /\ log \in Seq(Users)
    /\ taken \in 0..Len(log)
    /\ targets \subseteq Conns
    /\ current \in Conns \cup {None}
    /\ raced \in [Conns -> SUBSET (1..Len(log))]
    /\ jammed \subseteq Conns
    /\ got \in [Conns -> Seq(1..Len(log))]
    /\ since \in [Conns -> 0..Len(log)]
    /\ late \subseteq Conns

(* The map holds sessions with an open socket and a handler that will      *)
(* delete them, whatever Stop and the handlers do to one another.          *)
SessionsOpen ==
    clients \subseteq open \ {c \in Conns : pc[c] \in {"closing", "gone"}}

(* A session is shown its own user's updates only. *)
OwnUpdatesOnly ==
    \A c \in Conns : \A i \in 1..Len(got[c]) : log[got[c][i]] = User[c]

(* From its registration until its handler leaves, the session is there.   *)
InSession(c) ==
    pc[c] \in {"registered", "welcoming", "serving", "answering", "writing", "leaving"}

(* An update that was not broadcast when a session registered reaches it,  *)
(* unless its connection has failed or the unlocked welcome interfered: it *)
(* was written, is still in the channel, or is being broadcast with the    *)
(* session ahead.  The session counts from handleConn's registration on,   *)
(* whether or not the map still holds it.                                  *)
NoMissedUpdate ==
    \A c \in Conns : InSession(c) /\ Healthy(c) /\ c \notin jammed =>
        \A k \in since[c] + 1..taken :
            log[k] = User[c] =>
                \/ \E i \in 1..Len(got[c]) : got[c][i] = k
                \/ k \in raced[c]
                \/ k = taken /\ (loop = "collecting" \/ c \in targets \/ current = c)

Feeds == INSTANCE UserFeeds WITH
    Readers <- Conns,
    feed <- log,
    joined <- clients,
    greeting <- {c \in Conns : pc[c] \in {"registered", "welcoming"}},
    start <- since,
    blurred <- raced,
    shown <- got

(* A session is shown its own user's updates, from its registration on, in *)
(* the order of the channel, each once, and none is left out before the    *)
(* last it is shown, but those written while it was welcomed: whoever else *)
(* joins, leaves, stalls or breaks.                                        *)
FeedsSpec == Feeds!FeedSpec

(* Stop ends every connection but those that register after it, also those *)
(* whose handler or whose broadcast is stuck in a write to a peer that does *)
(* not read.                                                               *)
StopEndsSessions ==
    stopping # "no" ~> \A c \in Conns \ late : pc[c] \in {"new", "gone"}

(* Stop ends broadcastLoop, which unsubscribes from the broker, unless a   *)
(* session that registered after Stop holds it in a write.                 *)
StopEndsLoop ==
    stopping # "no" ~> \/ loop \in {"unborn", "ended"}
                       \/ \E c \in late : Stuck(c)

(* README.md: "real-time progress broadcast to all sessions of the same    *)
(* user": a session the broadcast has ahead is served.                     *)
AllSessionsServed == \A c \in Conns : c \in targets ~> c \notin targets

(* README.md: "persistent JSON-over-TCP connections": a line is written by *)
(* one goroutine at a time, for which each session has its mutex.          *)
OneWriter ==
    \A c \in Conns : ~ /\ loop = "writing" /\ current = c
                       /\ pc[c] \in {"welcoming", "writing"}
===============================================================================
