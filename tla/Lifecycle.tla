------------------------------- MODULE Lifecycle ------------------------------
(***************************************************************************)
(* From start-up to exit: main of cmd/api-server, which runs five servers  *)
(* in goroutines and stops them one after the other on a signal, and the   *)
(* mains of the four standalone servers, where main itself serves and a    *)
(* goroutine stops it.  One behaviour is one process, of one program.      *)
(*                                                                         *)
(* What the servers do is in the other modules.  Here a server takes       *)
(* requests, and three of them hold requests that use the database.        *)
(* net/http and grpc-go are modelled as main uses them: Shutdown waits for *)
(* requests or for its context, Close does not wait, GracefulStop has no   *)
(* bound, and a hijacked connection belongs to nobody.                     *)
(***************************************************************************)
CONSTANTS Programs, \* the programs to check
          Callers,  \* clients of the HTTP, WebSocket and gRPC servers
          Stallers  \* those that may leave a request half sent for ever

Servers == {"http", "ws", "tcp", "udp", "grpc"}

ASSUME LifecycleAssumption ==
    /\ Programs \subseteq {"api", "ws", "tcp", "udp", "grpc"}
    /\ Stallers \subseteq Callers

VARIABLES program, \* the binary that runs
          main,    \* loading, setup, serving, the server being stopped,
                   \* stopped, closed (the database is), exited
          server,  \* where the goroutine of each server is
          told,    \* servers that Stop or Shutdown has reached
          missed,  \* servers whose Stop found nothing to stop yet
          open,    \* requests each server is working on
          chats,   \* connections the WebSocket hub has hijacked
          expired  \* the five seconds of the shutdown have passed

vars == <<program, main, server, told, missed, open, chats, expired>>
requests == <<open, chats>>
stopping == <<told, missed, expired>>

(* net/http servers: they look at inShutdown before they listen. *)
Http == {"http", "ws"}
(* Servers whose Stop works on a field that Start has yet to set. *)
Own == {"tcp", "udp", "grpc"}

Has(p) == IF p = "api" THEN Servers ELSE {p}
Alone == program # "api"
Running == main # "exited"
Idle(c) == c \notin chats /\ \A s \in Servers : c \notin open[s]

(* The order in which the servers are stopped. *)
First(p) == IF p = "api" THEN "http" ELSE p
After ==
    [http |-> "ws", ws |-> "tcp", tcp |-> "udp", udp |-> "grpc", grpc |-> "stopped"]
Following(s) == IF Alone THEN "stopped" ELSE After[s]

-------------------------------------------------------------------------------
Init ==
    /\ program \in Programs
    /\ main = "loading"
    /\ server = [s \in Servers |-> "off"]
    /\ told = {}
    /\ missed = {}
    /\ open = [s \in Servers |-> {}]
    /\ chats = {}
    /\ expired = FALSE

(* The configuration is read, or is the default one, and the database is   *)
(* open: every server's goroutine may run from here on.  An error is fatal. *)
Load ==
    /\ main = "loading"
    /\ \/ /\ main' = "setup"
          /\ server' = [s \in Servers |->
                           IF s \notin Has(program) THEN "off"
                           ELSE IF s \in Http THEN "starting" ELSE "binding"]
       \/ main' = "exited" /\ UNCHANGED server
    /\ UNCHANGED <<program, stopping, requests>>

(* The main goroutine has asked for signals. *)
Notify ==
    /\ main = "setup"
    /\ main' = "serving"
    /\ UNCHANGED <<program, server, stopping, requests>>

(* A signal before that ends the process; one after it starts the stop. *)
Interrupt ==
    /\ \/ main \in {"loading", "setup"} /\ main' = "exited"
       \/ main = "serving" /\ main' = First(program)
    /\ UNCHANGED <<program, server, stopping, requests>>

(* A failure that the program takes for fatal exits at once. *)
Fail(s) ==
    IF s = "http" \/ Alone
    THEN main' = "exited" /\ UNCHANGED server
    ELSE server' = [server EXCEPT ![s] = "ended"] /\ UNCHANGED main

(* ListenAndServe returns at once when Shutdown was first. *)
CheckShutdown(s) ==
    /\ Running
    /\ server[s] = "starting"
    /\ server' = [server EXCEPT ![s] = IF s \in told THEN "ended" ELSE "binding"]
    /\ UNCHANGED <<program, main, stopping, requests>>

Bind(s) ==
    /\ Running
    /\ server[s] = "binding"
    /\ \/ /\ server' = [server EXCEPT ![s] =
                           IF s \in {"tcp", "udp"} THEN "serving" ELSE "bound"]
          /\ UNCHANGED main
       \/ Fail(s)
    /\ UNCHANGED <<program, stopping, requests>>

(* Serve looks again: net/http then ends quietly, grpc-go with an error. *)
Serve(s) ==
    /\ Running
    /\ server[s] = "bound"
    /\ \/ /\ s \notin told
          /\ server' = [server EXCEPT ![s] = "serving"]
          /\ UNCHANGED main
       \/ /\ s \in told
          /\ s \in Http
          /\ server' = [server EXCEPT ![s] = "ended"]
          /\ UNCHANGED main
       \/ s \in told /\ s = "grpc" /\ Fail(s)
    /\ UNCHANGED <<program, stopping, requests>>

-------------------------------------------------------------------------------
(* Mutant: a client may call as soon as the port is bound. *)
AcceptBound(s, c) ==
    /\ Running
    /\ s \in {"http", "ws", "grpc"}
    /\ server[s] \in {"bound", "serving"}
    /\ s \notin told
    /\ Idle(c)
    /\ open' = [open EXCEPT ![s] = @ \cup {c}]
    /\ UNCHANGED <<program, main, server, stopping, chats>>

Accept(s, c) ==
    /\ Running
    /\ s \in {"http", "ws", "grpc"}
    /\ server[s] = "serving"
    /\ s \notin told
    /\ Idle(c)
    /\ open' = [open EXCEPT ![s] = @ \cup {c}]
    /\ UNCHANGED <<program, main, server, stopping, chats>>

(* Only the HTTP API limits the time of a request. *)
Finish(s, c) ==
    /\ Running
    /\ c \in open[s]
    /\ s = "http" \/ c \notin Stallers
    /\ open' = [open EXCEPT ![s] = @ \ {c}]
    /\ UNCHANGED <<program, main, server, stopping, chats>>

(* The hub hijacks the connection, which its server then forgets. *)
Upgrade(c) ==
    /\ Running
    /\ c \in open["ws"] \ Stallers
    /\ open' = [open EXCEPT !["ws"] = @ \ {c}]
    /\ chats' = chats \cup {c}
    /\ UNCHANGED <<program, main, server, stopping>>

LeaveChat(c) ==
    /\ Running
    /\ c \in chats
    /\ chats' = chats \ {c}
    /\ UNCHANGED <<program, main, server, stopping, open>>

-------------------------------------------------------------------------------
(* Mutant: a context that never ends. *)
AwaitAll(s) ==
    /\ main = s
    /\ s \in Http \cap told
    /\ open[s] = {}
    /\ main' = Following(s)
    /\ UNCHANGED <<program, server, stopping, requests>>

(* Mutant: Stop of grpc-go in the place of GracefulStop. *)
StopReturns ==
    /\ main = "grpc"
    /\ "grpc" \in told
    /\ main' = Following("grpc")
    /\ server' = [server EXCEPT !["grpc"] = IF @ = "serving" THEN "ended" ELSE @]
    /\ UNCHANGED <<program, stopping, requests>>

(* Shutdown and Close: the listener is closed and Serve returns. *)
CloseListener(s) ==
    /\ main = s
    /\ s \in Http \ told
    /\ told' = told \cup {s}
    /\ server' = [server EXCEPT ![s] = IF @ = "serving" THEN "ended" ELSE @]
    /\ main' = IF Alone THEN "stopped" ELSE main
    /\ UNCHANGED <<program, missed, expired, requests>>

(* Shutdown returns when no request is left, or when the time is up. *)
ShutdownReturns(s) ==
    /\ main = s
    /\ s \in Http \cap told
    /\ open[s] = {} \/ expired
    /\ main' = Following(s)
    /\ UNCHANGED <<program, server, stopping, requests>>

(* One context for both calls of Shutdown. *)
Expire ==
    /\ main \in Servers
    /\ ~Alone
    /\ ~expired
    /\ expired' = TRUE
    /\ UNCHANGED <<program, main, server, told, missed, requests>>

(* Stop finds no listener, socket or grpc.Server: Start has not set it yet, *)
(* or never will.                                                           *)
StopMisses(s) ==
    /\ main = s
    /\ s \in Own \ told
    /\ server[s] \in {"binding", "ended"}
    /\ missed' = missed \cup {s}
    /\ main' = Following(s)
    /\ UNCHANGED <<program, server, told, expired, requests>>

(* Stop of the TCP and of the UDP server: Start returns. *)
StopListener(s) ==
    /\ main = s
    /\ s \in {"tcp", "udp"}
    /\ server[s] = "serving"
    /\ told' = told \cup {s}
    /\ server' = [server EXCEPT ![s] = "ended"]
    /\ main' = Following(s)
    /\ UNCHANGED <<program, missed, expired, requests>>

(* GracefulStop refuses new calls and waits for the open ones. *)
GracefulStop ==
    /\ main = "grpc"
    /\ server["grpc"] \in {"bound", "serving"}
    /\ "grpc" \notin told
    /\ told' = told \cup {"grpc"}
    /\ UNCHANGED <<program, main, server, missed, expired, requests>>

GracefulStopReturns ==
    /\ main = "grpc"
    /\ "grpc" \in told
    /\ open["grpc"] = {}
    /\ main' = Following("grpc")
    /\ server' = [server EXCEPT !["grpc"] = IF @ = "serving" THEN "ended" ELSE @]
    /\ UNCHANGED <<program, stopping, requests>>

(* main returns and closes the database: in api-server after the last Stop, *)
(* in the others when Start has returned.                                   *)
Return ==
    /\ main = "stopped"
    /\ Alone => server[program] = "ended"
    /\ main' = "closed"
    /\ UNCHANGED <<program, server, stopping, requests>>

Exit ==
    /\ main = "closed"
    /\ main' = "exited"
    /\ UNCHANGED <<program, server, stopping, requests>>

-------------------------------------------------------------------------------
Starting(s) == CheckShutdown(s) \/ Bind(s) \/ Serve(s)

Stopping(s) == CloseListener(s) \/ ShutdownReturns(s) \/ StopMisses(s) \/ StopListener(s)

Main ==
    \/ Load \/ Notify \/ Return \/ Exit \/ GracefulStop \/ GracefulStopReturns
    \/ \E s \in Servers : Stopping(s)

Next ==
    \/ Main \/ Interrupt \/ Expire
    \/ \E s \in Servers : Starting(s)
    \/ \E c \in Callers :
          \/ Upgrade(c) \/ LeaveChat(c)
          \/ \E s \in Servers : Accept(s, c) \/ Finish(s, c)

Spec == Init /\ [][Next]_vars

(* The scheduler runs every goroutine, requests that can end do, and the *)
(* clock runs; no signal has to come.                                    *)
FairSpec ==
    /\ Spec
    /\ WF_vars(Main)
    /\ WF_vars(Expire)
    /\ \A s \in Servers : WF_vars(Starting(s))
    /\ \A s \in Servers, c \in Callers : WF_vars(Finish(s, c))

-------------------------------------------------------------------------------
(* Types; a server that has not begun to serve has no requests, and the    *)
(* programs stop only servers they have.                                   *)
TypeOK ==
    /\ program \in Programs
    /\ main \in Servers \cup {"loading", "setup", "serving", "stopped", "closed", "exited"}
    /\ main \in Servers => main \in Has(program)
    /\ server \in [Servers -> {"off", "starting", "binding", "bound", "serving", "ended"}]
    /\ told \subseteq Servers
    /\ missed \subseteq Own
    /\ open \in [Servers -> SUBSET Callers]
    /\ \A s \in Servers : open[s] # {} => server[s] \in {"serving", "ended"}
    /\ chats \subseteq Callers
    /\ expired \in BOOLEAN

(* The database is not closed under a request: an HTTP request is running  *)
(* then only if it outlasted the five seconds, a gRPC call only if the     *)
(* server was bound after its Stop (main of api-server, lines 110 to 116). *)
(* Hijacked chat connections have no such guarantee.                       *)
DbOutlivesRequests ==
    main = "closed" =>
        /\ open["http"] = {} \/ expired
        /\ open["grpc"] = {} \/ "grpc" \in missed

(* What may keep a signalled process alive: a gRPC call whose peer stalls, *)
(* or a standalone server that was told to stop before it was bound.       *)
HeldByCall == "grpc" \in told /\ open["grpc"] \cap Stallers # {}
HeldByLateStart == program \in missed

(* Nothing else does: no request of the other servers, no bind that fails, *)
(* no order of start-up and shutdown (main of cmd/*-server).               *)
ShutdownEnds ==
    main \in Servers ~> (main = "exited" \/ HeldByCall \/ HeldByLateStart)

===============================================================================
