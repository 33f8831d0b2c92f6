----------------------------- MODULE ProgressSync -----------------------------
(***************************************************************************)
(* Progress from end to end: handlers that store a chapter and publish it, *)
(* the TCP server's channel of the broker, its broadcastLoop, and sessions *)
(* of "mangahub tcp:sync" that print the lines they are sent, all for one  *)
(* manga in one user's library.                                            *)
(*                                                                         *)
(* Library.tla, Broker.tla and TcpServer.tla have the parts in detail: the *)
(* checks before a row is written, the lock under which a channel takes an *)
(* update, writes that are stuck, Stop.  Here every client reads.  A write *)
(* is one step; that it shares the writer of a session with the unlocked   *)
(* welcome is a choice of that step, and what such a session is sent from  *)
(* then on is followed in TcpServer.tla only.                              *)
(***************************************************************************)
EXTENDS Naturals, Sequences, FiniteSets

CONSTANTS Handlers,   \* goroutines of requests
          Sessions,   \* connections of tcp:sync
          Chapters,
          ChanCap,    \* buffer of the server's channel, 64 in the code
          MaxUpdates, \* bound: updates the channel ever accepts
          None

ASSUME ProgressSyncAssumption ==
    /\ ChanCap \in Nat \ {0}
    /\ MaxUpdates \in Nat
    /\ None \notin Chapters

VARIABLES row,      \* the chapter stored, or None
          chapter,  \* what each handler has stored and not published, or None
          log,      \* every update the channel ever took
          taken,    \* how many of them broadcastLoop has received
          loop,     \* where it is
          targets,  \* the sessions it has yet to send to
          conn,     \* where each session is
          clients,  \* the server's map of sessions
          lines,    \* those written to each connection, up to one raced
          raced,    \* sessions written an update and the welcome at once
          read,     \* how many of them the client has printed
          start,    \* history: updates broadcast before a session registered
          disturbed \* history: the last update need not be what is stored

store == <<row, chapter, disturbed>>
server == <<taken, loop, targets>>
sessions == <<conn, clients, read, start>>
written == <<lines, raced>>
vars == <<store, log, server, sessions, written>>

Joined(s) == conn[s] \in {"greeted", "live"}
Pending == {h \in Handlers : chapter[h] # None}
Printed(s) == SubSeq(lines[s], 1, read[s])

-------------------------------------------------------------------------------
Init ==
    /\ row = None
    /\ chapter = [h \in Handlers |-> None]
    /\ log = <<>>
    /\ taken = 0
    /\ loop = "waiting"
    /\ targets = {}
    /\ conn = [s \in Sessions |-> "off"]
    /\ clients = {}
    /\ lines = [s \in Sessions |-> <<>>]
    /\ raced = {}
    /\ read = [s \in Sessions |-> 0]
    /\ start = [s \in Sessions |-> 0]
    /\ disturbed = FALSE

(* Mutant: the update is stored and not published. *)
UpdateSilently(h, c) ==
    /\ h \notin Pending
    /\ row # None
    /\ row' = c
    /\ disturbed' = (Pending # {})
    /\ UNCHANGED <<chapter, log, server, sessions, written>>

(* PUT /users/progress, gRPC UpdateProgress: the row is written. *)
UpdateProgress(h, c) ==
    /\ h \notin Pending
    /\ row # None
    /\ row' = c
    /\ chapter' = [chapter EXCEPT ![h] = c]
    /\ disturbed' = (Pending # {})
    /\ UNCHANGED <<log, server, sessions, written>>

(* The broker offers the update to the channel, which may be full. *)
Offer(c) ==
    IF Len(log) - taken < ChanCap
        THEN log' = Append(log, c) /\ Len(log) < MaxUpdates
        ELSE UNCHANGED log

Publish(h) ==
    /\ h \in Pending
    /\ Offer(chapter[h])
    /\ chapter' = [chapter EXCEPT ![h] = None]
    /\ disturbed' = (disturbed \/ log' = log)
    /\ UNCHANGED <<row, server, sessions, written>>

(* A TCP client's own progress, which is published and never stored. *)
PublishOnly(c) ==
    /\ Offer(c)
    /\ disturbed' = TRUE
    /\ UNCHANGED <<row, chapter, server, sessions, written>>

(* POST and DELETE /users/library, which publish nothing. *)
AddToLibrary(c) ==
    /\ row' = c
    /\ disturbed' = TRUE
    /\ UNCHANGED <<chapter, log, server, sessions, written>>

RemoveFromLibrary ==
    /\ row' = None
    /\ UNCHANGED <<chapter, disturbed, log, server, sessions, written>>

-------------------------------------------------------------------------------
(* broadcastLoop. *)
Receive ==
    /\ loop = "waiting"
    /\ taken < Len(log)
    /\ taken' = taken + 1
    /\ loop' = "collecting"
    /\ UNCHANGED <<store, log, targets, sessions, written>>

CollectTargets ==
    /\ loop = "collecting"
    /\ targets' = clients
    /\ loop' = "sending"
    /\ UNCHANGED <<store, log, taken, sessions, written>>

(* A line with the update is written to s. *)
Sent(s) == [lines EXCEPT ![s] = Append(@, log[taken])]

(* Mutant: a session is sent the update again and again. *)
SendAgain(s) ==
    /\ loop = "sending"
    /\ s \in targets
    /\ lines' = Sent(s)
    /\ UNCHANGED <<store, log, server, sessions, raced>>

(* One send of the loop over the targets.  Beside the welcome, which takes *)
(* no lock, the line may be lost or written twice, and the writer may be   *)
(* left with an error: then nothing is said of the session any more.  On a *)
(* closed connection the send fails, and the loop goes on.                 *)
Send(s) ==
    /\ loop = "sending"
    /\ s \in targets
    /\ targets' = targets \ {s}
    /\ \/ Joined(s) /\ s \notin raced /\ lines' = Sent(s) /\ UNCHANGED raced
       \/ conn[s] = "greeted" /\ raced' = raced \cup {s} /\ UNCHANGED lines
       \/ (~Joined(s) \/ s \in raced) /\ UNCHANGED written
    /\ UNCHANGED <<store, log, taken, loop, sessions>>

BroadcastDone ==
    /\ loop = "sending"
    /\ targets = {}
    /\ loop' = "waiting"
    /\ UNCHANGED <<store, log, taken, targets, sessions, written>>

-------------------------------------------------------------------------------
(* Sessions: the client dials and writes its token, and the server         *)
(* registers it; an update that is received but not collected is not over  *)
(* for it.                                                                 *)
Register(s) ==
    /\ conn[s] = "off"
    /\ conn' = [conn EXCEPT ![s] = "greeted"]
    /\ clients' = clients \cup {s}
    /\ start' = [start EXCEPT ![s] = IF loop = "collecting" THEN taken - 1
                                                            ELSE taken]
    /\ UNCHANGED <<store, log, server, read, written>>

(* The welcome is written. *)
Welcomed(s) ==
    /\ conn[s] = "greeted"
    /\ conn' = [conn EXCEPT ![s] = "live"]
    /\ UNCHANGED <<store, log, server, clients, read, start, written>>

(* Mutant: two lines are taken for one. *)
PrintTwo(s) ==
    /\ Joined(s)
    /\ read[s] < Len(lines[s])
    /\ read' = [read EXCEPT ![s] = @ + 2]
    /\ UNCHANGED <<store, log, server, conn, clients, start, written>>

(* The client's loop reads a line and prints it. *)
PrintLine(s) ==
    /\ Joined(s)
    /\ read[s] < Len(lines[s])
    /\ read' = [read EXCEPT ![s] = @ + 1]
    /\ UNCHANGED <<store, log, server, conn, clients, start, written>>

(* Ctrl-C, or the connection breaks; lines on their way are lost. *)
Disconnect(s) ==
    /\ Joined(s)
    /\ conn' = [conn EXCEPT ![s] = "closed"]
    /\ lines' = [lines EXCEPT ![s] = Printed(s)]
    /\ UNCHANGED <<store, log, server, clients, read, start, raced>>

Unregister(s) ==
    /\ conn[s] = "closed"
    /\ s \in clients
    /\ clients' = clients \ {s}
    /\ UNCHANGED <<store, log, server, conn, read, start, written>>

-------------------------------------------------------------------------------
Loop ==
    \/ Receive
    \/ CollectTargets
    \/ \E s \in Sessions : Send(s)
    \/ BroadcastDone

Next ==
    \/ \E c \in Chapters :
        \/ \E h \in Handlers : UpdateProgress(h, c)
        \/ PublishOnly(c)
        \/ AddToLibrary(c)
    \/ \E h \in Handlers : Publish(h)
    \/ RemoveFromLibrary
    \/ Loop
    \/ \E s \in Sessions :
        \/ Register(s) \/ Welcomed(s)
        \/ PrintLine(s) \/ Disconnect(s) \/ Unregister(s)

Spec == Init /\ [][Next]_vars

(* broadcastLoop runs, its writes end, for every client reads, and so do   *)
(* the clients.  Handlers and users owe nothing.                           *)
FairSpec ==
    /\ Spec
    /\ WF_vars(Loop)
    /\ \A s \in Sessions : WF_vars(PrintLine(s))

-------------------------------------------------------------------------------
TypeOK ==
    /\ row \in Chapters \cup {None}
    /\ chapter \in [Handlers -> Chapters \cup {None}]
    /\ log \in Seq(Chapters)
    /\ taken \in 0..Len(log)
    /\ loop \in {"waiting", "collecting", "sending"}
    /\ targets \subseteq Sessions
    /\ conn \in [Sessions -> {"off", "greeted", "live", "closed"}]
    /\ clients \subseteq Sessions
    /\ lines \in [Sessions -> Seq(Chapters)]
    /\ raced \subseteq Sessions
    /\ read \in [Sessions -> Nat]
    /\ \A s \in Sessions : read[s] <= Len(lines[s])
    /\ start \in [Sessions -> Nat]
    /\ disturbed \in BOOLEAN

Feed == INSTANCE Multicast WITH
    Readers <- Sessions,
    Updates <- Chapters,
    feed <- log,
    joined <- {s \in Sessions : Joined(s)},
    greeting <- {s \in Sessions : conn[s] = "greeted"},
    blurred <- raced,
    shown <- [s \in Sessions |-> Printed(s)]

(* Every session prints what the channel took after it registered: all of  *)
(* it, in order, each line once, whoever else joins, leaves or publishes.  *)
(* Nothing is promised of what the channel dropped, nor, from then on, to  *)
(* a session that an update was written to together with its welcome.      *)
FeedSpec == Feed!FairSpec

(* Handlers, store and channel implement ProgressStore with a single row,  *)
(* as the handlers of Library.tla do with many.                            *)
Store == INSTANCE ProgressStore WITH
    Keys <- {"row"},
    Listable <- {"row"},
    Workers <- Handlers,
    chapter <- [k \in {"row"} |-> row],
    owed <- {[worker |-> h, key |-> "row", chapter |-> chapter[h]] : h \in Pending},
    last <- [k \in {"row"} |-> IF log = <<>> THEN None ELSE log[Len(log)]],
    loose <- IF disturbed THEN {"row"} ELSE {}

StoreSpec == Store!StoreSpec

(* Once everything has come to rest, the last line a session has printed   *)
(* is the chapter that the library stores: unless two updates overlapped,  *)
(* the last one was dropped, a TCP client published a chapter of its own,  *)
(* or the row was added again since, or unless the session's own welcome   *)
(* has blurred an update.                                                  *)
LastLineIsRow ==
    \A s \in Sessions :
        /\ Joined(s) /\ s \notin raced
        /\ read[s] > 0
        /\ start[s] + read[s] = Len(log)
        /\ Pending = {} /\ row # None /\ ~disturbed
        => lines[s][read[s]] = row
===============================================================================
