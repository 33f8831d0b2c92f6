--------------------------- MODULE LifecycleProofs ----------------------------
(***************************************************************************)
(* Proofs about Lifecycle: its types, that the database is not closed      *)
(* under a request, that the servers are stopped in main's order, that a   *)
(* server told to stop only drains, and that a process told to end has a   *)
(* step to take; for any set of programs and clients.                      *)
(***************************************************************************)
EXTENDS Lifecycle, TLAPS

(* The servers main has already seen to stop, in the order it stops them. *)
PastHttp == program = "api" /\ main \in {"ws", "tcp", "udp", "grpc", "stopped", "closed"}
PastGrpc == program \in {"api", "grpc"} /\ main \in {"stopped", "closed"}

(* What each Stop leaves behind it stays so, for a server that was told to *)
(* stop accepts nothing.                                                   *)
StopInv ==
    /\ PastHttp => "http" \in told /\ (open["http"] = {} \/ expired)
    /\ PastGrpc => \/ "grpc" \in missed
                   \/ "grpc" \in told /\ open["grpc"] = {}
    /\ \A s \in Servers :
           s \notin Has(program) \/ main = "loading" => server[s] = "off"

IInv == TypeOK /\ StopInv

LEMMA InitIInv == ASSUME Init PROVE IInv
BY DEF Init, IInv, TypeOK, StopInv, PastHttp, PastGrpc, Servers, Has, Http, Own,
       LifecycleAssumption

(* The steps of start-up. *)
LEMMA StartKeeps ==
    ASSUME IInv, NEW s \in Servers, Starting(s)
    PROVE  IInv'
<1> USE DEF IInv, StopInv, PastHttp, PastGrpc, Servers, Has, Http, Own, Running,
            stopping, requests
<1>1. CASE CheckShutdown(s)
    <2>1. TypeOK'
        BY <1>1 DEF CheckShutdown, TypeOK
    <2>2. StopInv'
        BY <1>1 DEF CheckShutdown, TypeOK
    <2>3. QED
        BY <2>1, <2>2
<1>2. CASE Bind(s)
    <2>1. TypeOK'
        BY <1>2 DEF Bind, Fail, Alone, TypeOK
    <2>2. StopInv'
        BY <1>2 DEF Bind, Fail, Alone, TypeOK
    <2>3. QED
        BY <2>1, <2>2
<1>3. CASE Serve(s)
    <2>1. TypeOK'
        BY <1>3 DEF Serve, Fail, Alone, TypeOK
    <2>2. StopInv'
        BY <1>3 DEF Serve, Fail, Alone, TypeOK
    <2>3. QED
        BY <2>1, <2>2
<1>4. QED
    BY <1>1, <1>2, <1>3 DEF Starting

(* The steps of a client. *)
LEMMA RequestKeeps ==
    ASSUME IInv, NEW c \in Callers, NEW s \in Servers,
           Accept(s, c) \/ Finish(s, c) \/ Upgrade(c) \/ LeaveChat(c)
    PROVE  IInv'
<1> USE DEF IInv, Servers, Has, Http, Own, stopping
<1>1. CASE Accept(s, c)
    <2>1. TypeOK'
        BY <1>1 DEF Accept, TypeOK
    <2>2. StopInv'
        BY <1>1 DEF Accept, TypeOK, StopInv, PastHttp, PastGrpc
    <2>3. QED
        BY <2>1, <2>2
<1>2. CASE Finish(s, c)
    <2>1. TypeOK'
        BY <1>2 DEF Finish, TypeOK
    <2>2. StopInv'
        BY <1>2 DEF Finish, TypeOK, StopInv, PastHttp, PastGrpc
    <2>3. QED
        BY <2>1, <2>2
<1>3. CASE Upgrade(c)
    <2>1. TypeOK'
        BY <1>3 DEF Upgrade, TypeOK
    <2>2. StopInv'
        BY <1>3 DEF Upgrade, TypeOK, StopInv, PastHttp, PastGrpc
    <2>3. QED
        BY <2>1, <2>2
<1>4. CASE LeaveChat(c)
    BY <1>4 DEF LeaveChat, TypeOK, StopInv, PastHttp, PastGrpc
<1>5. QED
    BY <1>1, <1>2, <1>3, <1>4

(* The steps that stop one server. *)
LEMMA StoppingKeeps ==
    ASSUME IInv, NEW s \in Servers, Stopping(s)
    PROVE  IInv'
<1> USE DEF IInv, Servers, Has, Http, Own, Alone, requests, stopping, Following, After
<1>1. CASE CloseListener(s)
    <2>1. TypeOK'
        BY <1>1 DEF CloseListener, TypeOK
    <2>2. StopInv'
        BY <1>1 DEF CloseListener, TypeOK, StopInv, PastHttp, PastGrpc
    <2>3. QED
        BY <2>1, <2>2
<1>2. CASE ShutdownReturns(s)
    <2>1. TypeOK'
        BY <1>2 DEF ShutdownReturns, TypeOK
    <2>2. StopInv'
        BY <1>2 DEF ShutdownReturns, TypeOK, StopInv, PastHttp, PastGrpc
    <2>3. QED
        BY <2>1, <2>2
<1>3. CASE StopMisses(s)
    <2>1. TypeOK'
        BY <1>3 DEF StopMisses, TypeOK
    <2>2. StopInv'
        BY <1>3 DEF StopMisses, TypeOK, StopInv, PastHttp, PastGrpc
    <2>3. QED
        BY <2>1, <2>2
<1>4. CASE StopListener(s)
    <2>1. TypeOK'
        BY <1>4 DEF StopListener, TypeOK
    <2>2. StopInv'
        BY <1>4 DEF StopListener, TypeOK, StopInv, PastHttp, PastGrpc
    <2>3. QED
        BY <2>1, <2>2
<1>5. QED
    BY <1>1, <1>2, <1>3, <1>4 DEF Stopping

(* The other steps of main, and the clock's. *)
LEMMA MainKeeps ==
    ASSUME IInv,
           \/ Load \/ Notify \/ Return \/ Exit \/ GracefulStop \/ GracefulStopReturns
           \/ Interrupt \/ Expire
    PROVE  IInv'
<1> USE DEF IInv, Servers, Has, Http, Own, Alone, requests, stopping
<1>1. CASE Notify
    BY <1>1 DEF Notify, TypeOK, StopInv, PastHttp, PastGrpc
<1>2. CASE Return
    BY <1>2 DEF Return, TypeOK, StopInv, PastHttp, PastGrpc
<1>3. CASE Exit
    BY <1>3 DEF Exit, TypeOK, StopInv, PastHttp, PastGrpc
<1>4. CASE GracefulStop
    BY <1>4 DEF GracefulStop, TypeOK, StopInv, PastHttp, PastGrpc
<1>5. CASE GracefulStopReturns
    <2>1. TypeOK'
        BY <1>5 DEF GracefulStopReturns, TypeOK, Following, After
    <2>2. StopInv'
        BY <1>5 DEF GracefulStopReturns, TypeOK, StopInv, PastHttp, PastGrpc,
                    Following, After
    <2>3. QED
        BY <2>1, <2>2
<1>6. CASE Interrupt
    <2>1. First(program) \in Has(program) \cap Servers /\ First(program) \notin {"stopped", "closed"}
          /\ (program = "api" => First(program) = "http")
        BY LifecycleAssumption DEF First, TypeOK
    <2>2. TypeOK'
        BY <1>6, <2>1 DEF Interrupt, TypeOK
    <2>3. StopInv'
        BY <1>6, <2>1 DEF Interrupt, TypeOK, StopInv, PastHttp, PastGrpc
    <2>4. QED
        BY <2>2, <2>3
<1>7. CASE Expire
    BY <1>7 DEF Expire, TypeOK, StopInv, PastHttp, PastGrpc
<1>8. CASE Load
    <2>1. /\ main' \in {"setup", "exited"} /\ UNCHANGED <<program, stopping, requests>>
          /\ \A s \in Servers : open[s] = {}
        BY <1>8 DEF Load, TypeOK, StopInv
    <2>2. server' \in [Servers -> {"off", "starting", "binding", "bound", "serving", "ended"}]
        BY <1>8 DEF Load, TypeOK
    <2>3. TypeOK'
        BY <2>1, <2>2 DEF TypeOK
    <2>4. StopInv'
        BY <1>8, <2>1 DEF Load, StopInv, PastHttp, PastGrpc
    <2>5. QED
        BY <2>3, <2>4
<1>9. QED
    BY <1>1, <1>2, <1>3, <1>4, <1>5, <1>6, <1>7, <1>8

LEMMA IInvStep == ASSUME IInv, [Next]_vars PROVE IInv'
<1>1. CASE UNCHANGED vars
    BY <1>1 DEF vars, IInv, TypeOK, StopInv, PastHttp, PastGrpc
<1>2. CASE Main
    BY <1>2, MainKeeps, StoppingKeeps DEF Main
<1>3. CASE Interrupt \/ Expire
    BY <1>3, MainKeeps
<1>4. CASE \E s \in Servers : Starting(s)
    BY <1>4, StartKeeps
<1>5. ASSUME NEW c \in Callers,
             \/ Upgrade(c) \/ LeaveChat(c)
             \/ \E s \in Servers : Accept(s, c) \/ Finish(s, c)
      PROVE  IInv'
    <2>1. "ws" \in Servers
        BY DEF Servers
    <2>2. QED
        BY <1>5, <2>1, RequestKeeps
<1>6. QED
    BY <1>1, <1>2, <1>3, <1>4, <1>5 DEF Next

(* No database is closed under a request, but for an HTTP request that     *)
(* outlasts the five seconds and for calls of a gRPC server that started   *)
(* after its Stop (main of cmd/api-server and of cmd/grpc-server).         *)
THEOREM DbSafe == Spec => [](TypeOK /\ DbOutlivesRequests)
<1>1. IInv => TypeOK /\ DbOutlivesRequests
    <2>1. ASSUME IInv, main = "closed", open["http"] # {}
          PROVE  expired
        <3>1. server["http"] # "off"
            BY <2>1 DEF IInv, TypeOK, Servers
        <3>2. program = "api"
            BY <2>1, <3>1, LifecycleAssumption DEF IInv, StopInv, TypeOK, Servers, Has
        <3>3. QED
            BY <2>1, <3>2 DEF IInv, StopInv, PastHttp
    <2>2. ASSUME IInv, main = "closed", open["grpc"] # {}
          PROVE  "grpc" \in missed
        <3>1. server["grpc"] # "off"
            BY <2>2 DEF IInv, TypeOK, Servers
        <3>2. program \in {"api", "grpc"}
            BY <2>2, <3>1, LifecycleAssumption DEF IInv, StopInv, TypeOK, Servers, Has
        <3>3. QED
            BY <2>2, <3>2 DEF IInv, StopInv, PastGrpc
    <2>3. QED
        BY <2>1, <2>2 DEF IInv, DbOutlivesRequests
<1>2. QED
    BY InitIInv, IInvStep, <1>1, PTL DEF Spec

(* Every reachable state of a process has the declared types, and none of  *)
(* its servers has a request before it serves (main of cmd/*-server).      *)
THEOREM TypeCorrect == Spec => []TypeOK
BY DbSafe, PTL

-------------------------------------------------------------------------------
(* The order of the stops, and what a signalled process can wait for. *)

(* Of servers that a program does not have, or that have no such step,     *)
(* nothing is expected.                                                    *)
ServerStates ==
    /\ \A s \in Own : server[s] # "starting"
    /\ \A s \in {"tcp", "udp"} : server[s] # "bound"
    /\ main \notin {"loading", "exited"} =>
          \A s \in Has(program) : server[s] # "off"

(* A server that was told to stop does not serve, but for the gRPC server  *)
(* while main waits for its calls.                                         *)
ToldShut ==
    /\ \A s \in told \cap Http : server[s] # "serving"
    /\ \A s \in told \cap {"tcp", "udp"} : server[s] = "ended"
    /\ "grpc" \in told =>
          /\ server["grpc"] \in {"bound", "serving", "ended"}
          /\ main \notin {"grpc", "exited"} => server["grpc"] # "serving"

Before ==
    [http |-> {}, ws |-> {"http"}, tcp |-> {"http", "ws"},
     udp |-> {"http", "ws", "tcp"}, grpc |-> {"http", "ws", "tcp", "udp"}]

(* Every server before the one being stopped has been told or was missed,  *)
(* none after it has, and none is both; at the end all have.               *)
StopOrder ==
    /\ told \cap missed = {}
    /\ told \cup missed \subseteq Has(program)
    /\ main \in {"loading", "setup", "serving"} => told \cup missed = {}
    /\ main \in Servers =>
          /\ main \notin missed
          /\ main \in told =>
                main \in {"http", "ws", "grpc"} /\ (Alone => main = "grpc")
          /\ Alone => told \cup missed \subseteq {main}
          /\ ~Alone => (told \cup missed) \ {main} = Before[main]
    /\ main \in {"stopped", "closed"} => told \cup missed = Has(program)

OrderInv == ServerStates /\ ToldShut /\ StopOrder

LEMMA OrderInit == ASSUME Init PROVE OrderInv
BY DEF Init, OrderInv, ServerStates, ToldShut, StopOrder, Servers, Has, Http, Own

(* A server that moves on, to a state that only it can be in. *)
LEMMA MovesOn ==
    ASSUME IInv, ServerStates, NEW s \in Servers, NEW x,
           server' = [server EXCEPT ![s] = x],
           s \in {"tcp", "udp"} => x # "bound",
           x \notin {"starting", "off"},
           main' \in {main, "exited"},
           UNCHANGED program
    PROVE  ServerStates'
<1>1. \A q \in Servers : server'[q] = IF q = s THEN x ELSE server[q]
    BY DEF IInv, TypeOK
<1>2. /\ Own \subseteq Servers
      /\ {"tcp", "udp"} \subseteq Servers
      /\ Has(program) \subseteq Servers
    BY LifecycleAssumption DEF Own, Servers, Has, IInv, TypeOK
<1>3. \A q \in Own : server'[q] # "starting"
    BY <1>1, <1>2 DEF ServerStates
<1>4. \A q \in {"tcp", "udp"} : server'[q] # "bound"
    BY <1>1, <1>2 DEF ServerStates
<1>5. main' \notin {"loading", "exited"} =>
          \A q \in Has(program) : server'[q] # "off"
    BY <1>1, <1>2 DEF ServerStates
<1>6. QED
    BY <1>3, <1>4, <1>5 DEF ServerStates, Has

LEMMA OrderStart ==
    ASSUME IInv, OrderInv, NEW s \in Servers, Starting(s)
    PROVE  OrderInv'
<1> USE DEF Servers, Has, Http, Own, Running, stopping, requests, Alone, Before,
            Fail, IInv, TypeOK, OrderInv
<1>1. CASE CheckShutdown(s)
    <2>1. ServerStates' /\ ToldShut'
        BY <1>1 DEF CheckShutdown, ServerStates, ToldShut
    <2>2. StopOrder'
        BY <1>1 DEF CheckShutdown, StopOrder
    <2>3. QED
        BY <2>1, <2>2
<1>2. CASE Bind(s)
    <2>1. ServerStates'
        <3>1. PICK x \in {"serving", "bound", "ended", server[s]} :
                  /\ server' = [server EXCEPT ![s] = x]
                  /\ s \in {"tcp", "udp"} => x # "bound"
                  /\ x \notin {"starting", "off"}
                  /\ main' \in {main, "exited"}
                  /\ UNCHANGED program
            BY <1>2 DEF Bind
        <3>2. QED
            BY <3>1, MovesOn
    <2>2. ToldShut'
        BY <1>2 DEF Bind, ToldShut
    <2>3. StopOrder'
        BY <1>2 DEF Bind, StopOrder
    <2>4. QED
        BY <2>1, <2>2, <2>3
<1>3. CASE Serve(s)
    <2>1. ServerStates'
        <3>1. PICK x \in {"serving", "ended", server[s]} :
                  /\ server' = [server EXCEPT ![s] = x]
                  /\ s \in {"tcp", "udp"} => x # "bound"
                  /\ x \notin {"starting", "off"}
                  /\ main' \in {main, "exited"}
                  /\ UNCHANGED program
            BY <1>3 DEF Serve, ServerStates
        <3>2. QED
            BY <3>1, MovesOn
    <2>2. ToldShut'
        BY <1>3 DEF Serve, ToldShut
    <2>3. StopOrder'
        BY <1>3 DEF Serve, StopOrder
    <2>4. QED
        BY <2>1, <2>2, <2>3
<1>4. QED
    BY <1>1, <1>2, <1>3 DEF Starting

LEMMA OrderStopping ==
    ASSUME IInv, OrderInv, NEW s \in Servers, Stopping(s)
    PROVE  OrderInv'
<1> USE DEF Servers, Has, Http, Own, requests, Alone, Before, Following, After,
            IInv, TypeOK, OrderInv
<1>1. CASE CloseListener(s)
    <2>1. ServerStates' /\ ToldShut'
        BY <1>1 DEF CloseListener, ServerStates, ToldShut
    <2>2. StopOrder'
        BY <1>1 DEF CloseListener, StopOrder
    <2>3. QED
        BY <2>1, <2>2
<1>2. CASE ShutdownReturns(s)
    <2>1. ServerStates' /\ ToldShut'
        BY <1>2 DEF ShutdownReturns, ServerStates, ToldShut, StopOrder, stopping
    <2>2. StopOrder'
        BY <1>2 DEF ShutdownReturns, StopOrder, stopping
    <2>3. QED
        BY <2>1, <2>2
<1>3. CASE StopMisses(s)
    <2>1. ServerStates' /\ ToldShut'
        BY <1>3 DEF StopMisses, ServerStates, ToldShut
    <2>2. StopOrder'
        BY <1>3 DEF StopMisses, StopOrder
    <2>3. QED
        BY <2>1, <2>2
<1>4. CASE StopListener(s)
    <2>1. ServerStates' /\ ToldShut'
        BY <1>4 DEF StopListener, ServerStates, ToldShut, StopOrder
    <2>2. StopOrder'
        <3>1. CASE Alone
            <4>1. main' = "stopped" /\ told' = told \cup {s} /\ UNCHANGED <<program, missed>>
                BY <1>4, <3>1 DEF StopListener
            <4>2. Has(program) = {s}
                BY <1>4, <3>1 DEF StopListener
            <4>3. s \notin missed /\ told \cup missed \subseteq {s} /\ told \cap missed = {}
                BY <1>4, <3>1 DEF StopListener, StopOrder
            <4>4. told' \cap missed' = {}
                BY <4>1, <4>3
            <4>5. told' \cup missed' = Has(program')
                BY <4>1, <4>2, <4>3
            <4>6. QED
                BY <4>1, <4>4, <4>5 DEF StopOrder
        <3>2. CASE s = "tcp" /\ ~Alone
            BY <1>4, <3>2 DEF StopListener, StopOrder
        <3>3. CASE s = "udp" /\ ~Alone
            BY <1>4, <3>3 DEF StopListener, StopOrder
        <3>4. QED
            BY <1>4, <3>1, <3>2, <3>3 DEF StopListener
    <2>3. QED
        BY <2>1, <2>2
<1>5. QED
    BY <1>1, <1>2, <1>3, <1>4 DEF Stopping

LEMMA OrderMain ==
    ASSUME IInv, OrderInv,
           \/ Load \/ Notify \/ Return \/ Exit \/ GracefulStop
           \/ GracefulStopReturns \/ Interrupt \/ Expire
    PROVE  OrderInv'
<1> USE DEF Servers, Has, Http, Own, requests, Alone, Before, IInv, TypeOK, OrderInv
<1>1. CASE Load
    <2>1. ServerStates'
        <3>1. CASE main' = "exited" /\ UNCHANGED server
            BY <1>1, <3>1 DEF Load, ServerStates
        <3>2. CASE main' = "setup"
            <4>1. \A q \in Servers :
                      server'[q] = IF q \notin Has(program) THEN "off"
                                   ELSE IF q \in Http THEN "starting" ELSE "binding"
                BY <1>1, <3>2 DEF Load
            <4>2. UNCHANGED program /\ Has(program) \subseteq Servers
                BY <1>1, LifecycleAssumption DEF Load
            <4>3. \A q \in Own : server'[q] # "starting"
                BY <4>1
            <4>4. \A q \in {"tcp", "udp"} : server'[q] # "bound"
                BY <4>1
            <4>5. \A q \in Has(program) : server'[q] # "off"
                BY <4>1, <4>2
            <4>6. QED
                BY <4>2, <4>3, <4>4, <4>5 DEF ServerStates
        <3>3. QED
            BY <1>1, <3>1, <3>2 DEF Load
    <2>2. ToldShut' /\ StopOrder'
        BY <1>1 DEF Load, ToldShut, StopOrder, stopping
    <2>3. QED
        BY <2>1, <2>2
<1>2. CASE Notify \/ Return \/ Exit
    <2>1. ServerStates' /\ ToldShut'
        BY <1>2 DEF Notify, Return, Exit, ServerStates, ToldShut, stopping
    <2>2. StopOrder'
        BY <1>2 DEF Notify, Return, Exit, StopOrder, stopping
    <2>3. QED
        BY <2>1, <2>2
<1>3. CASE Interrupt
    <2>1. ServerStates' /\ ToldShut'
        BY <1>3 DEF Interrupt, First, ServerStates, ToldShut, StopOrder, stopping
    <2>2. StopOrder'
        <3>1. UNCHANGED <<program, told, missed>> /\ told = {} /\ missed = {}
            BY <1>3 DEF Interrupt, StopOrder, stopping
        <3>2. CASE main' = "exited"
            BY <3>1, <3>2 DEF StopOrder
        <3>3. CASE main = "serving" /\ main' = First(program)
            <4>1. CASE Alone
                BY <3>1, <3>3, <4>1, LifecycleAssumption DEF First, StopOrder
            <4>2. CASE ~Alone
                BY <3>1, <3>3, <4>2 DEF First, StopOrder
            <4>3. QED
                BY <4>1, <4>2
        <3>4. QED
            BY <1>3, <3>2, <3>3 DEF Interrupt
    <2>3. QED
        BY <2>1, <2>2
<1>4. CASE Expire
    BY <1>4 DEF Expire, ServerStates, ToldShut, StopOrder
<1>5. CASE GracefulStop
    <2>1. ServerStates' /\ ToldShut'
        BY <1>5 DEF GracefulStop, ServerStates, ToldShut
    <2>2. StopOrder'
        BY <1>5 DEF GracefulStop, StopOrder
    <2>3. QED
        BY <2>1, <2>2
<1>6. CASE GracefulStopReturns
    <2>1. ServerStates' /\ ToldShut'
        BY <1>6 DEF GracefulStopReturns, Following, After, ServerStates, ToldShut,
                    stopping
    <2>2. StopOrder'
        BY <1>6 DEF GracefulStopReturns, Following, After, StopOrder, stopping
    <2>3. QED
        BY <2>1, <2>2
<1>7. QED
    BY <1>1, <1>2, <1>3, <1>4, <1>5, <1>6

LEMMA OrderStep == ASSUME IInv, OrderInv, [Next]_vars PROVE OrderInv'
<1>1. CASE Main
    BY <1>1, OrderMain, OrderStopping DEF Main
<1>2. CASE Interrupt \/ Expire
    BY <1>2, OrderMain
<1>3. CASE \E s \in Servers : Starting(s)
    BY <1>3, OrderStart
<1>4. CASE UNCHANGED <<program, main, server, told, missed>>
    BY <1>4 DEF OrderInv, ServerStates, ToldShut, StopOrder, Alone
<1>5. ASSUME NEW c \in Callers,
             \/ Upgrade(c) \/ LeaveChat(c)
             \/ \E s \in Servers : Accept(s, c) \/ Finish(s, c)
      PROVE  UNCHANGED <<program, main, server, told, missed>>
    BY <1>5 DEF Upgrade, LeaveChat, Accept, Finish, stopping
<1>6. QED
    BY <1>1, <1>2, <1>3, <1>4, <1>5 DEF Next, vars

(* Servers are stopped in the order of main.go:110 to 116, none is passed  *)
(* over, and those told to stop do not serve again.                        *)
THEOREM StopsInOrder == Spec => [](StopOrder /\ ToldShut)
<1>1. Spec => [](IInv /\ OrderInv)
    BY InitIInv, IInvStep, OrderInit, OrderStep, PTL DEF Spec
<1>2. OrderInv => StopOrder /\ ToldShut
    BY DEF OrderInv
<1>3. QED
    BY <1>1, <1>2, PTL

(* A step that is possible in a process that stops, by the guards of, in   *)
(* this order, CloseListener, ShutdownReturns or Expire, StopMisses,       *)
(* StopListener, GracefulStop, GracefulStopReturns or Finish, Return, the  *)
(* start that finds itself stopped, and Exit.                              *)
CanGoOn ==
    \/ main \in Http \ told
    \/ main \in Http \cap told /\ (open[main] = {} \/ expired \/ ~Alone)
    \/ main \in Own \ told /\ server[main] \in {"binding", "ended"}
    \/ main \in {"tcp", "udp"} /\ server[main] = "serving"
    \/ main = "grpc" /\ "grpc" \notin told /\ server["grpc"] \in {"bound", "serving"}
    \/ /\ main = "grpc" /\ "grpc" \in told
       /\ open["grpc"] = {} \/ \E c \in open["grpc"] : c \notin Stallers
    \/ main = "stopped" /\ (Alone => server[program] = "ended")
    \/ /\ main = "stopped" /\ program \in told
       /\ server[program] \in {"starting", "binding", "bound"}
    \/ main = "closed"

(* The safety half of ShutdownEnds: from the signal to the exit a process  *)
(* always has a step of its own to take, of its clock, or of a client that *)
(* does not stall, unless it is held as HeldByCall and HeldByLateStart say. *)
StopGoesOn ==
    main \in Servers \cup {"stopped", "closed"} =>
        CanGoOn \/ HeldByCall \/ HeldByLateStart

THEOREM NeverStuck == Spec => []StopGoesOn
<1>1. Spec => [](IInv /\ OrderInv)
    BY InitIInv, IInvStep, OrderInit, OrderStep, PTL DEF Spec
<1>2. ASSUME IInv, OrderInv
      PROVE  StopGoesOn
    <2> USE DEF Servers, Has, Http, Own, Alone, IInv, TypeOK, OrderInv
    <2>1. ASSUME main \in Http
          PROVE  CanGoOn
        BY <1>2, <2>1 DEF CanGoOn, StopOrder
    <2>2. ASSUME main \in {"tcp", "udp"}
          PROVE  CanGoOn
        <3>1. server[main] \in {"binding", "serving", "ended"} /\ main \notin told
            BY <1>2, <2>2 DEF StopOrder, ServerStates
        <3>2. QED
            BY <2>2, <3>1 DEF CanGoOn
    <2>3. ASSUME main = "grpc"
          PROVE  CanGoOn \/ HeldByCall
        <3>1. server["grpc"] \in {"binding", "bound", "serving", "ended"}
            BY <1>2, <2>3 DEF ServerStates
        <3>2. CASE "grpc" \notin told
            BY <2>3, <3>1, <3>2 DEF CanGoOn
        <3>3. CASE "grpc" \in told
            BY <2>3, <3>3 DEF CanGoOn, HeldByCall
        <3>4. QED
            BY <3>2, <3>3
    <2>4. ASSUME main = "stopped"
          PROVE  CanGoOn \/ HeldByLateStart
        <3>1. CASE ~Alone
            BY <2>4, <3>1 DEF CanGoOn
        <3>2. CASE Alone /\ program \in told
            <4>1. program \in Servers /\ server[program] # "off"
                BY <1>2, <2>4, <3>2, LifecycleAssumption DEF ServerStates
            <4>2. server[program] # "serving"
                BY <1>2, <2>4, <3>2, <4>1 DEF ToldShut
            <4>3. server[program] \in {"starting", "binding", "bound", "ended"}
                BY <1>2, <4>1, <4>2
            <4>4. QED
                BY <2>4, <3>2, <4>3 DEF CanGoOn
        <3>3. CASE Alone /\ program \notin told
            BY <1>2, <2>4, <3>3, LifecycleAssumption DEF StopOrder, HeldByLateStart
        <3>4. QED
            BY <3>1, <3>2, <3>3
    <2>5. ASSUME main = "closed"
          PROVE  CanGoOn
        BY <2>5 DEF CanGoOn
    <2>6. QED
        BY <2>1, <2>2, <2>3, <2>4, <2>5 DEF StopGoesOn
<1>3. QED
    BY <1>1, <1>2, PTL

(* Who waits for the requests of a server that was told to stop waits for  *)
(* ever fewer: it takes none, and is never asked again to serve.           *)
THEOREM ToldDrain ==
    Spec => [][\A s \in told : s \in told' /\ open'[s] \subseteq open[s]]_vars
<1>1. ASSUME IInv, Next, NEW s \in told
      PROVE  s \in told' /\ open'[s] \subseteq open[s]
    <2>1. s \in Servers /\ open \in [Servers -> SUBSET Callers]
        BY <1>1 DEF IInv, TypeOK
    <2>2. ASSUME NEW r \in Servers, Starting(r) \/ Stopping(r)
          PROVE  s \in told' /\ open'[s] \subseteq open[s]
        BY <1>1, <2>2
        DEF Starting, Stopping, CheckShutdown, Bind, Serve, CloseListener,
            ShutdownReturns, StopMisses, StopListener, stopping, requests
    <2>3. ASSUME NEW c \in Callers, NEW r \in Servers,
                 Upgrade(c) \/ LeaveChat(c) \/ Accept(r, c) \/ Finish(r, c)
          PROVE  s \in told' /\ open'[s] \subseteq open[s]
        <3>1. told' = told
            BY <2>3 DEF Upgrade, LeaveChat, Accept, Finish, stopping
        <3>2. CASE Accept(r, c)
            BY <1>1, <2>1, <3>1, <3>2 DEF Accept
        <3>3. CASE Finish(r, c)
            BY <1>1, <2>1, <3>1, <3>3 DEF Finish
        <3>4. CASE Upgrade(c) \/ LeaveChat(c)
            BY <1>1, <2>1, <3>1, <3>4 DEF Upgrade, LeaveChat
        <3>5. QED
            BY <2>3, <3>2, <3>3, <3>4
    <2>4. ASSUME \/ Load \/ Notify \/ Return \/ Exit \/ GracefulStop
                 \/ GracefulStopReturns \/ Interrupt \/ Expire
          PROVE  s \in told' /\ open'[s] \subseteq open[s]
        BY <1>1, <2>4
        DEF Load, Notify, Return, Exit, GracefulStop, GracefulStopReturns,
            Interrupt, Expire, stopping, requests
    <2>5. "ws" \in Servers
        BY DEF Servers
    <2>6. QED
        BY <1>1, <2>2, <2>3, <2>4, <2>5 DEF Next, Main
<1>2. Spec => []IInv
    BY InitIInv, IInvStep, PTL DEF Spec
<1>3. IInv /\ [Next]_vars =>
          [\A s \in told : s \in told' /\ open'[s] \subseteq open[s]]_vars
    BY <1>1
<1>4. QED
    BY <1>2, <1>3, PTL DEF Spec
===============================================================================
