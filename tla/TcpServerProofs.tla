--------------------------- MODULE TcpServerProofs ---------------------------
(***************************************************************************)
(* Proofs about TcpServer: its type invariant, that the map holds exactly  *)
(* the registered open sessions, who may write to one at the same time,    *)
(* what Stop leaves behind, that a session sees its own user's updates     *)
(* only and misses none that entered the channel after it registered, but  *)
(* for what its welcome blurred, and the refinement of the abstract feeds; *)
(* for any number of connections, users and updates and any capacity.      *)
(***************************************************************************)
EXTENDS TcpServer, TLAPS

(* A connection that is not in the map yet: open while it authenticates,   *)
(* and unknown to the map before that.                                     *)
NotRegistered ==
    \A c \in Conns : /\ pc[c] = "new" => c \notin clients \cup open
                     /\ pc[c] = "auth" => c \in open \ clients

(* Start starts broadcastLoop.  It works on the update received last, and  *)
(* the sessions it has collected are that update's user's.                 *)
LoopState ==
    /\ acceptor = "down" => loop = "unborn"
    /\ loop \in {"collecting", "sending", "locking", "writing"} => taken > 0
    /\ loop \in {"locking", "writing"} <=> current # None
    /\ current # None => User[current] = log[taken]
    /\ loop \notin {"sending", "locking", "writing"} => targets = {}
    /\ \A c \in targets : User[c] = log[taken]

(* The map holds every session that is open, from its registration to its  *)
(* deletion, and a handler that leaves has lost its connection.            *)
MapComplete ==
    /\ \A c \in open : c \in clients \/ pc[c] \in {"auth", "closing"}
    /\ \A c \in Conns : pc[c] \in {"leaving", "closing"} => ~Healthy(c)

(* Where a session stands in the feed: it is shown updates after those     *)
(* that were over when it registered; one that the loop works on has been  *)
(* shown earlier ones only, and one that is not registered none.           *)
Shown ==
    \A c \in Conns :
        /\ pc[c] \in {"new", "auth"} =>
              got[c] = <<>> /\ c \notin targets /\ current # c
        /\ since[c] <= taken
        /\ \A i \in 1..Len(got[c]) : since[c] < got[c][i] /\ got[c][i] <= taken
        /\ c \in targets \/ current = c =>
              since[c] < taken /\ \A i \in 1..Len(got[c]) : got[c][i] < taken
        /\ c \in targets => current # c
        /\ loop = "collecting" =>
              since[c] < taken /\ \A i \in 1..Len(got[c]) : got[c][i] < taken

(* Who is open after Stop has registered after it, or is on its way in or  *)
(* out.                                                                    *)
StopClosed ==
    stopping = "done" =>
        \A c \in open : c \in late \/ pc[c] \in {"auth", "closing"}

(* The session's mutex: the loop and the handler's answers exclude each    *)
(* other in the write.                                                     *)
MutexKept == loop = "writing" => pc[current] # "writing"

IInv ==
    /\ TypeOK
    /\ SessionsOpen
    /\ NotRegistered
    /\ MapComplete
    /\ StopClosed
    /\ MutexKept
    /\ LoopState
    /\ Shown
    /\ OwnUpdatesOnly
    /\ NoMissedUpdate

-------------------------------------------------------------------------------
(* Appending to the log leaves its entries in place. *)
LEMMA AppendEntries ==
    ASSUME NEW S, NEW s \in Seq(S), NEW e \in S
    PROVE  /\ Append(s, e) \in Seq(S)
           /\ Len(Append(s, e)) = Len(s) + 1
           /\ \A i \in 1..Len(s) : Append(s, e)[i] = s[i]
  OBVIOUS

(* A publication leaves the log alone or extends it by one entry. *)
LEMMA PublishGrows ==
    ASSUME TypeOK, NEW u \in Users, Publish(u)
    PROVE  /\ log' \in Seq(Users)
           /\ Len(log') \in Nat
           /\ Len(log) <= Len(log')
           /\ \A i \in 1..Len(log) : log'[i] = log[i]
<1>1. log \in Seq(Users) /\ Len(log) \in Nat
  BY DEF TypeOK
<1>2. CASE UNCHANGED log
  BY <1>1, <1>2
<1>3. CASE log' = Append(log, u)
  BY <1>1, <1>3, AppendEntries
<1> QED
  BY <1>2, <1>3 DEF Publish

(* A sequence of positions in the log is one in a longer log, too. *)
LEMMA WiderSeq ==
    ASSUME NEW m \in Nat, NEW n \in Nat, m <= n, NEW s \in Seq(1..m)
    PROVE  s \in Seq(1..n)
<1>1. \A i \in 1..Len(s) : s[i] \in 1..n
  OBVIOUS
<1> QED
  BY <1>1

LEMMA WiderHistory ==
    ASSUME TypeOK, Len(log') \in Nat, Len(log) <= Len(log'), UNCHANGED <<got, raced>>
    PROVE  /\ got' \in [Conns -> Seq(1..Len(log'))]
           /\ raced' \in [Conns -> SUBSET (1..Len(log'))]
<1>1. Len(log) \in Nat
  BY DEF TypeOK
<1>2. \A c \in Conns : got[c] \in Seq(1..Len(log'))
  BY <1>1, WiderSeq DEF TypeOK
<1> QED
  BY <1>1, <1>2 DEF TypeOK

(* Every step keeps the types. *)
LEMMA TypeStep ==
    ASSUME TypeOK, LoopState, [Next]_vars
    PROVE  TypeOK'
<1> USE TcpServerAssumption
<1>1. CASE Start
  BY <1>1 DEF Start, TypeOK, handlers, peers, buffers
<1>2. CASE Stop
  BY <1>2 DEF Stop, TypeOK, handlers, peers, buffers, broadcast
<1>3. CASE StopClients
  BY <1>3 DEF StopClients, TypeOK, peers, buffers, broadcast
<1>4. CASE Loop
  <2>1. CASE Receive
    BY <1>4, <2>1 DEF Receive, TypeOK, lifecycle, handlers, peers, buffers
  <2>2. CASE CollectTargets
    BY <2>2 DEF CollectTargets, TypeOK, lifecycle, handlers, peers, buffers
  <2>3. ASSUME NEW c \in Conns, NextTarget(c)
        PROVE  TypeOK'
    BY <2>3 DEF NextTarget, TypeOK, lifecycle, handlers, peers, buffers
  <2>4. CASE Lock
    <3>1. taken \in 1..Len(log)
      BY <2>4 DEF Lock, LoopState, TypeOK
    <3>2. raced' \in [Conns -> SUBSET (1..Len(log))]
      BY <2>4, <3>1 DEF Lock, TypeOK
    <3> QED
      BY <2>4, <3>2 DEF Lock, TypeOK, lifecycle, handlers
  <2>5. CASE Written
    <3>1. taken \in 1..Len(log)
      BY <2>5 DEF Written, LoopState, TypeOK
    <3>2. current \in Conns
      BY <2>5 DEF Written, LoopState, TypeOK
    <3>3. Append(got[current], taken) \in Seq(1..Len(log))
      BY <3>1, <3>2 DEF TypeOK
    <3>4. got' \in [Conns -> Seq(1..Len(log))]
      BY <2>5, <3>3 DEF Written, TypeOK
    <3>5. jammed' \subseteq Conns
      BY <2>5, <3>2 DEF Written, Jam, TypeOK
    <3> QED
      BY <2>5, <3>4, <3>5 DEF Written, TypeOK, lifecycle, handlers
  <2>6. CASE BroadcastDone
    BY <2>6 DEF BroadcastDone, TypeOK, lifecycle, handlers, peers, buffers
  <2>7. CASE LoopStop
    BY <2>7 DEF LoopStop, TypeOK, lifecycle, handlers, peers, buffers
  <2> QED
    BY <1>4, <2>1, <2>2, <2>3, <2>4, <2>5, <2>6, <2>7 DEF Loop
<1>5. ASSUME NEW c \in Conns,
             Accept(c) \/ AuthFail(c) \/ Handler(c) \/ Stall(c) \/ Reset(c)
      PROVE  TypeOK'
  <2>1. CASE Accept(c)
    BY <2>1 DEF Accept, TypeOK, lifecycle, peers, buffers, broadcast
  <2>2. CASE AuthFail(c)
    BY <2>2 DEF AuthFail, TypeOK, lifecycle, peers, buffers, broadcast
  <2>3. CASE Register(c)
    <3>1. since' \in [Conns -> 0..Len(log)]
      BY <2>3 DEF Register, LoopState, TypeOK
    <3> QED
      BY <2>3, <3>1 DEF Register, TypeOK, lifecycle, peers, buffers, broadcast
  <2>4. CASE ReadProgress(c)
    <3>1. User[c] \in Users
      OBVIOUS
    <3>2. Publish(User[c])
      BY <2>4 DEF ReadProgress
    <3>3. log' \in Seq(Users) /\ Len(log) \in Nat /\ Len(log') \in Nat /\ Len(log) <= Len(log')
      BY <3>1, <3>2, PublishGrows DEF TypeOK
    <3>4. /\ got' \in [Conns -> Seq(1..Len(log'))]
          /\ raced' \in [Conns -> SUBSET (1..Len(log'))]
      BY <2>4, <3>3, WiderHistory DEF ReadProgress, peers, buffers, broadcast
    <3> QED
      BY <2>4, <3>3, <3>4 DEF ReadProgress, TypeOK, lifecycle, peers, buffers, broadcast
  <2>5. CASE ReadOther(c) \/ Answer(c) \/ Answered(c) \/ ReadError(c)
    BY <2>5 DEF ReadOther, Answer, Answered, ReadError, TypeOK, lifecycle, peers,
                buffers, broadcast
  <2>10. CASE Welcome(c)
    <3>1. loop = "writing" => taken \in 1..Len(log)
      BY DEF LoopState, TypeOK
    <3>2. raced' \in [Conns -> SUBSET (1..Len(log))]
      BY <2>10, <3>1 DEF Welcome, TypeOK
    <3> QED
      BY <2>10, <3>2 DEF Welcome, TypeOK, lifecycle, broadcast
  <2>11. CASE Welcomed(c)
    BY <2>11 DEF Welcomed, Jam, TypeOK, lifecycle, broadcast
  <2>6. CASE Unregister(c)
    BY <2>6 DEF Unregister, TypeOK, lifecycle, peers, buffers, broadcast
  <2>7. CASE Close(c)
    BY <2>7 DEF Close, TypeOK, lifecycle, peers, buffers, broadcast
  <2>8. CASE Stall(c)
    BY <2>8 DEF Stall, TypeOK, lifecycle, handlers, buffers, broadcast
  <2>9. CASE Reset(c)
    BY <2>9 DEF Reset, TypeOK, lifecycle, handlers, buffers, broadcast
  <2> QED
    BY <1>5, <2>1, <2>2, <2>3, <2>4, <2>5, <2>6, <2>7, <2>8, <2>9, <2>10, <2>11
    DEF Handler
<1>6. ASSUME NEW u \in Users, PublishElsewhere(u)
      PROVE  TypeOK'
  <2>1. log' \in Seq(Users) /\ Len(log) \in Nat /\ Len(log') \in Nat /\ Len(log) <= Len(log')
    BY <1>6, PublishGrows DEF PublishElsewhere, TypeOK
  <2>2. /\ got' \in [Conns -> Seq(1..Len(log'))]
        /\ raced' \in [Conns -> SUBSET (1..Len(log'))]
    BY <1>6, <2>1, WiderHistory DEF PublishElsewhere, peers, buffers, broadcast
  <2> QED
    BY <1>6, <2>1, <2>2 DEF PublishElsewhere, TypeOK, lifecycle, handlers, peers, buffers, broadcast
<1>7. CASE UNCHANGED vars
  BY <1>7 DEF vars, TypeOK, lifecycle, handlers, peers, buffers, broadcast
<1> QED
  BY <1>1, <1>2, <1>3, <1>4, <1>5, <1>6, <1>7 DEF Next
-------------------------------------------------------------------------------
(* Outside broadcastLoop and Start nothing of the broadcast changes, and   *)
(* the log only grows.                                                     *)
LEMMA OtherStep ==
    ASSUME TypeOK, [Next]_vars, ~Loop, ~Start
    PROVE  /\ UNCHANGED broadcast
           /\ log' \in Seq(Users)
           /\ Len(log') \in Nat
           /\ Len(log) <= Len(log')
           /\ \A i \in 1..Len(log) : log'[i] = log[i]
<1> USE TcpServerAssumption
<1>0. log \in Seq(Users) /\ Len(log) \in Nat
  BY DEF TypeOK
<1>1. ASSUME NEW u \in Users, PublishElsewhere(u)
      PROVE  UNCHANGED broadcast /\ Publish(u)
  BY <1>1 DEF PublishElsewhere
<1>2. ASSUME NEW c \in Conns, ReadProgress(c)
      PROVE  UNCHANGED broadcast /\ Publish(User[c]) /\ User[c] \in Users
  BY <1>2 DEF ReadProgress
<1>3. ASSUME NEW c \in Conns, ~ReadProgress(c),
             Accept(c) \/ AuthFail(c) \/ Handler(c) \/ Stall(c) \/ Reset(c)
      PROVE  UNCHANGED broadcast /\ UNCHANGED log
  BY <1>3 DEF Handler, Accept, AuthFail, Register, Welcome, Welcomed, ReadOther,
              Answer, Answered, ReadError, Unregister, Close, Stall, Reset
<1>4. CASE Stop \/ StopClients \/ UNCHANGED vars
  <2>1. UNCHANGED broadcast /\ UNCHANGED log
    BY <1>4 DEF Stop, StopClients, vars
  <2> QED
    BY <2>1, <1>0
<1>5. ASSUME NEW c \in Conns,
             Accept(c) \/ AuthFail(c) \/ Handler(c) \/ Stall(c) \/ Reset(c)
      PROVE  UNCHANGED broadcast /\ (UNCHANGED log \/ \E u \in Users : Publish(u))
  BY <1>2, <1>3, <1>5
<1> QED
  BY <1>0, <1>1, <1>4, <1>5, PublishGrows DEF Next

-------------------------------------------------------------------------------
(* The handlers' and Stop's steps on the map and the sockets. *)
LEMMA MapStep ==
    ASSUME TypeOK, SessionsOpen, NotRegistered, [Next]_vars
    PROVE  SessionsOpen' /\ NotRegistered'
<1>1. CASE UNCHANGED handlers
  BY <1>1 DEF handlers, SessionsOpen, NotRegistered
<1>2. CASE StopClients
  BY <1>2 DEF StopClients, SessionsOpen, NotRegistered
<1>3. ASSUME NEW c \in Conns,
             Accept(c) \/ AuthFail(c) \/ Handler(c) \/ Stall(c) \/ Reset(c)
      PROVE  SessionsOpen' /\ NotRegistered'
  <2>1. CASE Stall(c) \/ Reset(c)
    BY <1>1, <2>1 DEF Stall, Reset
  <2>2. CASE Accept(c)
    BY <2>2 DEF Accept, TypeOK, SessionsOpen, NotRegistered
  <2>3. CASE AuthFail(c)
    BY <2>3 DEF AuthFail, TypeOK, SessionsOpen, NotRegistered
  <2>4. CASE Register(c)
    BY <2>4 DEF Register, TypeOK, SessionsOpen, NotRegistered
  <2>5. CASE Unregister(c)
    BY <2>5 DEF Unregister, TypeOK, SessionsOpen, NotRegistered
  <2>6. CASE Close(c)
    BY <2>6 DEF Close, TypeOK, SessionsOpen, NotRegistered
  <2>7. CASE \/ Welcome(c) \/ Welcomed(c) \/ ReadProgress(c) \/ ReadOther(c)
             \/ Answer(c) \/ Answered(c) \/ ReadError(c)
    BY <2>7 DEF Welcome, Welcomed, ReadProgress, ReadOther, Answer, Answered,
                ReadError, TypeOK, SessionsOpen, NotRegistered
  <2> QED
    BY <1>3, <2>1, <2>2, <2>3, <2>4, <2>5, <2>6, <2>7 DEF Handler
<1>4. CASE Start \/ Stop \/ Loop \/ (\E u \in Users : PublishElsewhere(u)) \/ UNCHANGED vars
  BY <1>1, <1>4 DEF Start, Stop, Loop, Receive, CollectTargets, NextTarget, Lock,
                    Written, BroadcastDone, LoopStop, PublishElsewhere, vars
<1> QED
  BY <1>2, <1>3, <1>4 DEF Next

(* broadcastLoop's own bookkeeping. *)
LEMMA LoopStateStep ==
    ASSUME TypeOK, LoopState, [Next]_vars
    PROVE  LoopState'
<1> USE TcpServerAssumption
<1>1. taken \in Nat /\ Len(log) \in Nat /\ taken <= Len(log)
  BY DEF TypeOK
<1>2. CASE Start
  BY <1>2 DEF Start, LoopState
<1>3. CASE Loop
  <2>1. CASE Receive
    BY <1>1, <2>1 DEF Receive, LoopState, lifecycle
  <2>2. CASE CollectTargets
    BY <2>2 DEF CollectTargets, LoopState, lifecycle
  <2>3. ASSUME NEW c \in Conns, NextTarget(c)
        PROVE  LoopState'
    BY <2>3 DEF NextTarget, LoopState, lifecycle
  <2>4. CASE Lock
    BY <2>4 DEF Lock, LoopState, lifecycle
  <2>5. CASE Written
    BY <2>5 DEF Written, LoopState, lifecycle
  <2>6. CASE BroadcastDone
    BY <2>6 DEF BroadcastDone, LoopState, lifecycle
  <2>7. CASE LoopStop
    BY <2>7 DEF LoopStop, LoopState, lifecycle
  <2> QED
    BY <1>3, <2>1, <2>2, <2>3, <2>4, <2>5, <2>6, <2>7 DEF Loop
<1>4. CASE ~Loop /\ ~Start
  <2>1. UNCHANGED <<loop, taken, targets, current>>
    BY <1>4, OtherStep DEF broadcast
  <2>2. acceptor' = "down" => acceptor = "down"
    BY <1>4 DEF Next, Stop, StopClients, PublishElsewhere, Accept, AuthFail, Handler,
                Register, Welcome, Welcomed, ReadProgress, ReadOther, Answer, Answered,
                ReadError, Unregister, Close, Stall, Reset, lifecycle, vars
  <2>3. taken > 0 => log'[taken] = log[taken]
    BY <1>1, <1>4, OtherStep
  <2>4. loop \in {"sending", "locking", "writing"} => taken > 0
    BY DEF LoopState
  <2> QED
    BY <2>1, <2>2, <2>3, <2>4 DEF LoopState
<1> QED
  BY <1>2, <1>3, <1>4

(* What was written to a session stays its user's, and what is written is. *)
LEMMA OwnStep ==
    ASSUME TypeOK, LoopState, OwnUpdatesOnly, [Next]_vars
    PROVE  OwnUpdatesOnly'
<1>1. CASE Written
  <2>1. /\ current \in Conns /\ User[current] = log[taken]
        /\ log' = log
    BY <1>1 DEF Written, LoopState, TypeOK
  <2>2. ASSUME NEW c \in Conns
        PROVE  got'[c] = got[c] \/ (c = current /\ got'[c] = Append(got[c], taken))
    BY <1>1, <2>1 DEF Written, TypeOK
  <2>3. ASSUME NEW c \in Conns, NEW i \in 1..Len(got'[c])
        PROVE  log[got'[c][i]] = User[c]
    <3>1. got[c] \in Seq(1..Len(log))
      BY DEF TypeOK
    <3>2. CASE got'[c] = got[c]
      BY <2>3, <3>2 DEF OwnUpdatesOnly
    <3>3. CASE c = current /\ got'[c] = Append(got[c], taken)
      <4>1. got'[c][i] = taken \/ (i \in 1..Len(got[c]) /\ got'[c][i] = got[c][i])
        BY <3>1, <3>3
      <4> QED
        BY <2>1, <3>3, <4>1 DEF OwnUpdatesOnly
    <3> QED
      BY <2>2, <3>2, <3>3
  <2> QED
    BY <2>1, <2>3 DEF OwnUpdatesOnly
<1>2. CASE Start \/ (Loop /\ ~Written)
  <2>1. UNCHANGED <<got, log>>
    BY <1>2 DEF Start, Loop, Receive, CollectTargets, NextTarget, Lock,
                BroadcastDone, LoopStop
  <2> QED
    BY <2>1 DEF OwnUpdatesOnly
<1>3. CASE ~Loop /\ ~Start
  <2>1. got' = got /\ \A i \in 1..Len(log) : log'[i] = log[i]
    BY <1>3, OtherStep DEF broadcast
  <2>2. \A c \in Conns : \A i \in 1..Len(got[c]) : got[c][i] \in 1..Len(log)
    BY DEF TypeOK
  <2> QED
    BY <2>1, <2>2 DEF OwnUpdatesOnly
<1> QED
  BY <1>1, <1>2, <1>3

-------------------------------------------------------------------------------
(* Which sockets are open, and which of them the map holds. *)
LEMMA CompleteStep ==
    ASSUME TypeOK, SessionsOpen, NotRegistered, MapComplete, StopClosed, [Next]_vars
    PROVE  MapComplete' /\ StopClosed'
<1>1. CASE UNCHANGED <<handlers, stopping>> /\ broken \subseteq broken'
  BY <1>1 DEF handlers, MapComplete, StopClosed, Healthy
<1>2. CASE Stop
  BY <1>2 DEF Stop, handlers, peers, MapComplete, StopClosed, Healthy
<1>3. CASE StopClients
  BY <1>3 DEF StopClients, peers, MapComplete, StopClosed, Healthy
<1>4. ASSUME NEW c \in Conns,
             Accept(c) \/ AuthFail(c) \/ Handler(c) \/ Stall(c) \/ Reset(c)
      PROVE  MapComplete' /\ StopClosed'
  <2>1. CASE Stall(c) \/ Reset(c)
    BY <1>1, <2>1 DEF Stall, Reset, lifecycle
  <2>2. CASE Accept(c)
    BY <2>2 DEF Accept, lifecycle, peers, TypeOK, NotRegistered, MapComplete,
                StopClosed, Healthy
  <2>3. CASE AuthFail(c) \/ Close(c)
    BY <2>3 DEF AuthFail, Close, lifecycle, peers, TypeOK, MapComplete, StopClosed,
                Healthy
  <2>4. CASE Register(c)
    BY <2>4 DEF Register, lifecycle, peers, TypeOK, MapComplete, StopClosed, Healthy
  <2>5. CASE Unregister(c)
    BY <2>5 DEF Unregister, lifecycle, peers, TypeOK, MapComplete, StopClosed, Healthy
  <2>6. CASE \/ Welcome(c) \/ Welcomed(c) \/ ReadProgress(c) \/ ReadOther(c)
             \/ Answer(c) \/ Answered(c) \/ ReadError(c)
    BY <2>6 DEF Welcome, Welcomed, ReadProgress, ReadOther, Answer, Answered,
                ReadError, lifecycle, peers, TypeOK, MapComplete, StopClosed, Healthy
  <2> QED
    BY <1>4, <2>1, <2>2, <2>3, <2>4, <2>5, <2>6 DEF Handler
<1>5. CASE Start \/ Loop \/ (\E u \in Users : PublishElsewhere(u)) \/ UNCHANGED vars
  BY <1>1, <1>5 DEF Start, Loop, Receive, CollectTargets, NextTarget, Lock, Written,
                    BroadcastDone, LoopStop, PublishElsewhere, vars, lifecycle, peers
<1> QED
  BY <1>2, <1>3, <1>4, <1>5 DEF Next

(* The mutex is taken by the loop in Lock and by a handler in Answer. *)
LEMMA MutexStep ==
    ASSUME TypeOK, LoopState, NotRegistered, Shown, MutexKept, [Next]_vars
    PROVE  MutexKept'
<1>1. CASE UNCHANGED <<loop, current, pc>>
  BY <1>1 DEF MutexKept
<1>2. ASSUME NEW c \in Conns,
             Accept(c) \/ AuthFail(c) \/ Handler(c) \/ Stall(c) \/ Reset(c)
      PROVE  MutexKept'
  <2>1. CASE Answer(c)
    BY <2>1 DEF Answer, broadcast, TypeOK, MutexKept
  <2>2. CASE Accept(c) \/ AuthFail(c) \/ (Handler(c) /\ ~Answer(c)) \/ Stall(c) \/ Reset(c)
    <3>1. /\ UNCHANGED <<loop, current>>
          /\ \A d \in Conns : pc'[d] = "writing" => pc[d] = "writing"
      BY <2>2 DEF Accept, AuthFail, Handler, Register, Welcome, Welcomed, ReadProgress,
                  ReadOther, Answered, ReadError, Unregister, Close, Stall, Reset,
                  handlers, broadcast, TypeOK
    <3>2. loop = "writing" => current \in Conns
      BY DEF LoopState, TypeOK
    <3> QED
      BY <3>1, <3>2 DEF MutexKept
  <2> QED
    BY <1>2, <2>1, <2>2
<1>3. CASE Start \/ Loop
  BY <1>3 DEF Start, Loop, Receive, CollectTargets, NextTarget, Lock, Written,
              BroadcastDone, LoopStop, handlers, MutexKept
<1>4. CASE Stop \/ StopClients \/ (\E u \in Users : PublishElsewhere(u)) \/ UNCHANGED vars
  BY <1>1, <1>4 DEF Stop, StopClients, PublishElsewhere, vars, handlers, broadcast
<1> QED
  BY <1>2, <1>3, <1>4 DEF Next

(* Who is shown what: only the loop shows, and only the next update. *)
LEMMA ShownStep ==
    ASSUME TypeOK, LoopState, NotRegistered, Shown, [Next]_vars
    PROVE  Shown'
<1> USE TcpServerAssumption
<1>1. taken \in Nat /\ Len(log) \in Nat /\ taken <= Len(log)
  BY DEF TypeOK
<1>2. /\ since \in [Conns -> Nat]
      /\ \A c \in Conns : got[c] \in Seq(Nat) /\ Len(got[c]) \in Nat
  BY DEF TypeOK
<1>3. CASE ~Loop /\ ~Start
  <2>1. UNCHANGED <<loop, taken, targets, current, got>>
    BY <1>3, OtherStep DEF broadcast
  <2>2. ASSUME NEW c \in Conns, Register(c)
        PROVE  Shown'
    <3>1. /\ pc' = [pc EXCEPT ![c] = "registered"]
          /\ pc[c] = "auth"
          /\ since' = [since EXCEPT ![c] = IF loop = "collecting" THEN taken - 1
                                                                  ELSE taken]
      BY <2>2 DEF Register
    <3>2. got[c] = <<>> /\ c \notin targets /\ current # c
      BY <3>1 DEF Shown
    <3>3. loop = "collecting" => taken > 0
      BY DEF LoopState
    <3>4. ASSUME NEW d \in Conns, d # c
          PROVE  pc'[d] = pc[d] /\ since'[d] = since[d]
      BY <3>1, <3>4 DEF TypeOK
    <3>5. /\ pc'[c] = "registered"
          /\ since'[c] = IF loop = "collecting" THEN taken - 1 ELSE taken
      BY <3>1 DEF TypeOK
    <3>6. \A i \in 1..Len(got'[c]) : FALSE
      BY <2>1, <3>2
    <3>7. /\ since'[c] <= taken
          /\ loop = "collecting" => since'[c] < taken
      BY <1>1, <3>3, <3>5
    <3>8. pc'[c] \notin {"new", "auth"}
      BY <3>5
    <3> QED
      BY <2>1, <3>2, <3>4, <3>6, <3>7, <3>8 DEF Shown
  <2>3. CASE \A c \in Conns : ~Register(c)
    <3>1. /\ since' = since
          /\ \A c \in Conns : pc'[c] \in {"new", "auth"} => pc[c] \in {"new", "auth"}
      <4>1. ASSUME NEW c \in Conns,
                   Accept(c) \/ AuthFail(c) \/ Handler(c) \/ Stall(c) \/ Reset(c)
            PROVE  /\ since' = since
                   /\ \A d \in Conns :
                         pc'[d] \in {"new", "auth"} => pc[d] \in {"new", "auth"}
        BY <2>3, <4>1 DEF Accept, AuthFail, Handler, Welcome, Welcomed, ReadProgress,
                          ReadOther, Answer, Answered, ReadError, Unregister, Close,
                          Stall, Reset, handlers, TypeOK
      <4>2. CASE Stop \/ StopClients \/ (\E u \in Users : PublishElsewhere(u))
                 \/ UNCHANGED vars
        BY <4>2 DEF Stop, StopClients, PublishElsewhere, vars, handlers
      <4> QED
        BY <1>3, <4>1, <4>2 DEF Next
    <3> QED
      BY <2>1, <3>1 DEF Shown
  <2> QED
    BY <2>2, <2>3
<1>4. CASE Start
  BY <1>1, <1>2, <1>4 DEF Start, handlers, Shown, LoopState
<1>5. CASE Loop
  <2>1. UNCHANGED <<pc, clients, since>>
    BY <1>5 DEF Loop, Receive, CollectTargets, NextTarget, Lock, Written,
                BroadcastDone, LoopStop, handlers
  <2>2. CASE Receive
    BY <1>1, <1>2, <2>1, <2>2 DEF Receive, Shown, LoopState
  <2>3. CASE CollectTargets
    BY <1>1, <1>2, <2>1, <2>3 DEF CollectTargets, Shown, LoopState, NotRegistered
  <2>4. ASSUME NEW c \in Conns, NextTarget(c)
        PROVE  Shown'
    BY <1>1, <1>2, <2>1, <2>4 DEF NextTarget, Shown, LoopState
  <2>5. CASE Lock
    BY <2>1, <2>5 DEF Lock, Shown
  <2>6. CASE Written
    <3>1. /\ current \in Conns /\ current' = None
          /\ targets' = targets /\ taken' = taken /\ loop' = "sending"
      BY <2>6 DEF Written, LoopState, TypeOK
    <3>2. /\ since[current] < taken
          /\ pc[current] \notin {"new", "auth"}
          /\ current \notin targets
      BY <3>1 DEF Shown
    <3>3. \A c \in Conns : c # current => got'[c] = got[c]
      BY <2>6, <3>1 DEF Written, TypeOK
    <3>4. got'[current] \in {got[current], Append(got[current], taken)}
      BY <2>6, <3>1 DEF Written, TypeOK
    <3>5. ASSUME NEW i \in 1..Len(got'[current])
          PROVE  since[current] < got'[current][i] /\ got'[current][i] <= taken
      <4>1. got[current] \in Seq(Nat)
        BY <1>2, <3>1
      <4>2. \/ got'[current][i] = taken
            \/ i \in 1..Len(got[current]) /\ got'[current][i] = got[current][i]
        <5>1. CASE got'[current] = got[current]
          BY <5>1
        <5>2. CASE got'[current] = Append(got[current], taken)
          BY <1>1, <4>1, <5>2
        <5> QED
          BY <3>4, <5>1, <5>2
      <4> QED
        BY <1>1, <3>1, <3>2, <4>2 DEF Shown
    <3> QED
      BY <1>1, <1>2, <2>1, <3>1, <3>2, <3>3, <3>5 DEF Shown
  <2>7. CASE BroadcastDone
    BY <2>1, <2>7 DEF BroadcastDone, Shown
  <2>8. CASE LoopStop
    BY <2>1, <2>8 DEF LoopStop, Shown
  <2> QED
    BY <1>5, <2>2, <2>3, <2>4, <2>5, <2>6, <2>7, <2>8 DEF Loop
<1> QED
  BY <1>3, <1>4, <1>5

-------------------------------------------------------------------------------
(* Session c has update k, or it was blurred, or c is ahead of the         *)
(* broadcast that carries it.                                              *)
Has(c, k) ==
    \/ \E i \in 1..Len(got[c]) : got[c][i] = k
    \/ k \in raced[c]
    \/ k = taken /\ (loop = "collecting" \/ c \in targets \/ current = c)

(* It is there, and nothing has gone wrong with it. *)
Sound(c) == InSession(c) /\ Healthy(c) /\ c \notin jammed

(* A sound session either was there before, or has just registered. *)
LEMMA MapGrowth ==
    ASSUME TypeOK, NotRegistered, [Next]_vars, NEW c \in Conns, Sound(c)'
    PROVE  \/ Sound(c) /\ since'[c] = since[c]
           \/ /\ since'[c] = IF loop = "collecting" THEN taken - 1 ELSE taken
              /\ ~Loop /\ ~Start
<1> USE TcpServerAssumption DEF Sound, InSession, Healthy
<1>1. CASE UNCHANGED <<handlers, broken>> /\ jammed \subseteq jammed'
  BY <1>1 DEF handlers
<1>2. CASE StopClients
  BY <1>2 DEF StopClients, peers, buffers
<1>3. ASSUME NEW d \in Conns,
             Accept(d) \/ AuthFail(d) \/ Handler(d) \/ Stall(d) \/ Reset(d)
      PROVE  \/ Sound(c) /\ since'[c] = since[c]
             \/ /\ since'[c] = IF loop = "collecting" THEN taken - 1 ELSE taken
                /\ ~Loop /\ ~Start
  <2>1. CASE Register(d)
    <3>1. ~Loop /\ ~Start
      BY <2>1 DEF Register, TypeOK, handlers, Start, Loop, Receive, CollectTargets,
                  NextTarget, Lock, Written, BroadcastDone, LoopStop
    <3>2. c # d => Sound(c) /\ since'[c] = since[c]
      BY <2>1 DEF Register, TypeOK, peers, buffers
    <3>3. c = d => since'[c] = IF loop = "collecting" THEN taken - 1 ELSE taken
      BY <2>1 DEF Register, TypeOK
    <3> QED
      BY <3>1, <3>2, <3>3
  <2>2. CASE Accept(d) \/ AuthFail(d) \/ Unregister(d) \/ Close(d)
    BY <2>2 DEF Accept, AuthFail, Unregister, Close, TypeOK, peers, buffers
  <2>3. CASE \/ Welcome(d) \/ Welcomed(d) \/ ReadProgress(d) \/ ReadOther(d)
             \/ Answer(d) \/ Answered(d) \/ ReadError(d)
    <3>1. /\ UNCHANGED <<open, broken, since>> /\ jammed \subseteq jammed'
          /\ pc[d] \in {"registered", "welcoming", "serving", "answering", "writing"}
          /\ c # d => pc'[c] = pc[c]
      BY <2>3 DEF Welcome, Welcomed, Jam, ReadProgress, ReadOther, Answer, Answered,
                  ReadError, TypeOK, peers, buffers
    <3> QED
      BY <3>1
  <2>4. CASE Stall(d) \/ Reset(d)
    BY <2>4 DEF Stall, Reset, handlers, buffers
  <2> QED
    BY <1>3, <2>1, <2>2, <2>3, <2>4 DEF Handler
<1>4. CASE Start \/ Stop \/ Loop \/ (\E u \in Users : PublishElsewhere(u)) \/ UNCHANGED vars
  BY <1>1, <1>4 DEF Start, Stop, Loop, Receive, CollectTargets, NextTarget, Lock,
                    Written, Jam, BroadcastDone, LoopStop, PublishElsewhere, vars,
                    peers, buffers
<1> QED
  BY <1>2, <1>3, <1>4 DEF Next

(* What was written together with the welcome stays known. *)
LEMMA RacedGrows ==
    ASSUME TypeOK, [Next]_vars, NEW c \in Conns
    PROVE  raced[c] \subseteq raced'[c]
<1>1. CASE UNCHANGED raced
  BY <1>1
<1>2. ASSUME NEW d \in Conns, Welcome(d)
      PROVE  raced[c] \subseteq raced'[c]
  BY <1>2 DEF Welcome, TypeOK
<1>3. CASE Lock
  BY <1>3 DEF Lock, TypeOK
<1>4. CASE ~Lock /\ \A d \in Conns : ~Welcome(d)
  <2>1. UNCHANGED raced
    BY <1>4 DEF Next, Start, Stop, StopClients, Loop, Receive, CollectTargets,
                NextTarget, Written, BroadcastDone, LoopStop, PublishElsewhere, Accept,
                AuthFail, Handler, Register, Welcomed, ReadProgress, ReadOther, Answer,
                Answered, ReadError, Unregister, Close, Stall, Reset, peers, buffers,
                vars
  <2> QED
    BY <1>1, <2>1
<1> QED
  BY <1>2, <1>3, <1>4

(* No step loses an update that a session is owed. *)
LEMMA MissStep ==
    ASSUME IInv, [Next]_vars
    PROVE  NoMissedUpdate'
<1> USE TcpServerAssumption
<1>1. /\ taken \in Nat /\ Len(log) \in Nat /\ taken <= Len(log)
      /\ since \in [Conns -> Nat]
  BY DEF IInv, TypeOK
<1>2. \A c \in Conns : Sound(c) => \A k \in since[c] + 1..taken :
          log[k] = User[c] => Has(c, k)
  BY DEF IInv, NoMissedUpdate, Has, Sound
<1> SUFFICES ASSUME NEW c \in Conns, Sound(c)', NEW k \in since'[c] + 1..taken',
                    log'[k] = User[c]
             PROVE  Has(c, k)'
  BY DEF NoMissedUpdate, Has, Sound
<1>3. \/ Sound(c) /\ since'[c] = since[c]
      \/ /\ since'[c] = IF loop = "collecting" THEN taken - 1 ELSE taken
         /\ ~Loop /\ ~Start
  BY MapGrowth DEF IInv
<1>6. raced[c] \subseteq raced'[c]
  BY RacedGrows DEF IInv
<1>4. CASE ~Loop /\ ~Start
  <2>1. /\ UNCHANGED <<loop, taken, targets, current, got>>
        /\ \A i \in 1..Len(log) : log'[i] = log[i]
    BY <1>4, OtherStep DEF broadcast, IInv
  <2>2. CASE Sound(c) /\ since'[c] = since[c]
    <3>1. k \in since[c] + 1..taken /\ k \in 1..Len(log)
      BY <1>1, <1>3, <2>1, <2>2
    <3>2. Has(c, k)
      BY <1>2, <2>1, <2>2, <3>1
    <3> QED
      BY <1>6, <2>1, <3>2 DEF Has
  <2>3. CASE since'[c] = IF loop = "collecting" THEN taken - 1 ELSE taken
    <3>1. loop = "collecting" /\ k = taken
      BY <1>1, <2>1, <2>3
    <3> QED
      BY <2>1, <3>1 DEF Has
  <2> QED
    BY <1>3, <2>2, <2>3
<1>5. CASE Loop \/ Start
  <2>1. Sound(c) /\ since'[c] = since[c]
    BY <1>3, <1>5
  <2>2. CASE Start
    BY <1>1, <1>2, <1>6, <2>1, <2>2 DEF Start, Has, IInv, LoopState
  <2>3. CASE Receive
    <3>1. CASE k = taken'
      BY <2>3, <3>1 DEF Receive, Has
    <3>2. CASE k # taken'
      <4>1. k \in since[c] + 1..taken /\ log[k] = User[c]
        BY <1>1, <1>3, <2>1, <2>3, <3>2 DEF Receive
      <4>2. Has(c, k)
        BY <1>2, <2>1, <4>1
      <4>3. (\E i \in 1..Len(got[c]) : got[c][i] = k) \/ k \in raced[c]
        BY <1>3, <2>3, <4>2 DEF Receive, Has, IInv, LoopState
      <4> QED
        BY <1>6, <2>3, <4>3 DEF Receive, Has
    <3> QED
      BY <3>1, <3>2
  <2>4. CASE CollectTargets
    <3>1. c \in clients
      BY <2>1 DEF Sound, InSession, Healthy, IInv, MapComplete
    <3> QED
      BY <1>2, <1>6, <2>1, <2>4, <3>1 DEF CollectTargets, Has, IInv, LoopState
  <2>5. ASSUME NEW d \in Conns, NextTarget(d)
        PROVE  Has(c, k)'
    BY <1>2, <1>6, <2>1, <2>5 DEF NextTarget, Has, IInv, LoopState
  <2>6. CASE Lock
    BY <1>2, <1>6, <2>1, <2>6 DEF Lock, Has
  <2>7. CASE Written
    <3>1. Has(c, k)
      BY <1>2, <2>1, <2>7 DEF Written
    <3>2. \/ \E i \in 1..Len(got[c]) : got[c][i] = k
          \/ k \in raced[c]
          \/ k = taken /\ (c \in targets \/ current = c)
      BY <2>7, <3>1 DEF Written, Has
    <3>3. got'[c] = got[c] \/ got'[c] = Append(got[c], taken)
      BY <2>7 DEF Written, IInv, TypeOK
    <3>4. got[c] \in Seq(1..Len(log)) /\ Len(got[c]) \in Nat
      BY DEF IInv, TypeOK
    <3>5. CASE \E i \in 1..Len(got[c]) : got[c][i] = k
      <4>1. PICK i \in 1..Len(got[c]) : got[c][i] = k
        BY <3>5
      <4>2. i \in 1..Len(got'[c]) /\ got'[c][i] = k
        BY <3>3, <3>4, <4>1
      <4> QED
        BY <4>2 DEF Has
    <3>6. CASE k \in raced[c] \/ (c \in targets /\ k = taken)
      BY <1>6, <2>7, <3>6 DEF Written, Has
    <3>7. CASE k = taken /\ current = c /\ k \notin raced[c]
      <4>1. got'[c] = Append(got[c], taken)
        BY <2>1, <2>7, <3>7 DEF Written, Overlapped, Sound, IInv, TypeOK
      <4>2. /\ Len(got'[c]) = Len(got[c]) + 1
            /\ got'[c][Len(got[c]) + 1] = taken
        BY <3>4, <4>1
      <4> QED
        BY <3>4, <3>7, <4>2 DEF Has
    <3> QED
      BY <3>2, <3>5, <3>6, <3>7
  <2>8. CASE BroadcastDone
    BY <1>2, <1>6, <2>1, <2>8 DEF BroadcastDone, Has, IInv, LoopState
  <2>9. CASE LoopStop
    BY <1>2, <1>6, <2>1, <2>9 DEF LoopStop, Has, IInv, LoopState
  <2> QED
    BY <1>5, <2>2, <2>3, <2>4, <2>5, <2>6, <2>7, <2>8, <2>9 DEF Loop
<1> QED
  BY <1>4, <1>5

-------------------------------------------------------------------------------
LEMMA InitIInv == Init => IInv
<1> SUFFICES ASSUME Init PROVE IInv
  OBVIOUS
<1> USE TcpServerAssumption
<1>1. TypeOK
  BY DEF Init, TypeOK
<1>2. SessionsOpen /\ NotRegistered /\ LoopState
  BY DEF Init, SessionsOpen, NotRegistered, LoopState
<1>4. MapComplete /\ StopClosed /\ MutexKept /\ Shown
  BY DEF Init, MapComplete, StopClosed, MutexKept, Shown
<1>3. OwnUpdatesOnly /\ NoMissedUpdate
  BY DEF Init, OwnUpdatesOnly, NoMissedUpdate
<1> QED
  BY <1>1, <1>2, <1>3, <1>4 DEF IInv

LEMMA IInvStep == IInv /\ [Next]_vars => IInv'
<1> SUFFICES ASSUME IInv, [Next]_vars PROVE IInv'
  OBVIOUS
<1>1. TypeOK'
  BY TypeStep DEF IInv
<1>2. SessionsOpen' /\ NotRegistered'
  BY MapStep DEF IInv
<1>3. LoopState'
  BY LoopStateStep DEF IInv
<1>4. OwnUpdatesOnly'
  BY OwnStep DEF IInv
<1>5. NoMissedUpdate'
  BY MissStep
<1>6. MapComplete' /\ StopClosed'
  BY CompleteStep DEF IInv
<1>7. MutexKept'
  BY MutexStep DEF IInv
<1>8. Shown'
  BY ShownStep DEF IInv
<1> QED
  BY <1>1, <1>2, <1>3, <1>4, <1>5, <1>6, <1>7, <1>8 DEF IInv

(* The inductive invariant: the map and the sockets, what broadcastLoop    *)
(* works on, and what the sessions have been shown.                        *)
THEOREM ServerInvariant == Spec => []IInv
  BY InitIInv, IInvStep, PTL DEF Spec

(* Every variable of the server keeps its type: in particular, a session   *)
(* has only got updates that broadcastLoop has received.                   *)
THEOREM TypeCorrect == Spec => []TypeOK
<1>1. IInv => TypeOK
  BY DEF IInv
<1> QED
  BY <1>1, ServerInvariant, PTL

(* The map is exact: in whatever order Stop and the handlers' deferred     *)
(* calls run, it holds the sessions whose socket is open, from their       *)
(* registration to their deletion, and no other.                           *)
THEOREM MapIsExact == Spec => [](clients = {c \in open : pc[c] \notin {"auth", "closing"}})
<1>1. IInv => clients = {c \in open : pc[c] \notin {"auth", "closing"}}
  BY DEF IInv, TypeOK, SessionsOpen, NotRegistered, MapComplete
<1> QED
  BY <1>1, ServerInvariant, PTL

(* Two goroutines write to one session only while its welcome is written,  *)
(* which handleConn does without the session's mutex: everything that goes *)
(* through Client.send excludes each other.                                *)
THEOREM OnlyWelcomeRaces ==
    Spec => [](OneWriter \/ \E c \in Conns : current = c /\ pc[c] = "welcoming")
<1>1. IInv => OneWriter \/ \E c \in Conns : current = c /\ pc[c] = "welcoming"
  BY DEF IInv, MutexKept, OneWriter
<1> QED
  BY <1>1, ServerInvariant, PTL

(* What Stop leaves behind: connections that are still authenticating or   *)
(* already closing, and sessions that registered after it.  So a write     *)
(* that holds broadcastLoop then is one to such a late session, or ends    *)
(* with the Close its handler is about to make.                            *)
StopReached ==
    stopping = "done" =>
        /\ clients \subseteq late
        /\ \A c \in open \ late : pc[c] \in {"auth", "closing"}
        /\ loop = "writing" /\ Stuck(current) =>
              current \in late \/ pc[current] = "closing"

THEOREM StopReaches == Spec => []StopReached
<1>1. ASSUME IInv
      PROVE  StopReached
  <2>1. \A c \in clients : c \in open /\ pc[c] \notin {"auth", "closing"}
    BY <1>1 DEF IInv, SessionsOpen, NotRegistered, TypeOK
  <2>2. loop = "writing" => current \in Conns /\ pc[current] # "auth"
    BY <1>1 DEF IInv, LoopState, Shown, TypeOK
  <2> QED
    BY <1>1, <2>1, <2>2 DEF IInv, StopClosed, StopReached, Stuck
<1> QED
  BY <1>1, ServerInvariant, PTL

(* A session is shown its own user's updates only. *)
THEOREM NoForeignUpdate == Spec => []OwnUpdatesOnly
<1>1. IInv => OwnUpdatesOnly
  BY DEF IInv
<1> QED
  BY <1>1, ServerInvariant, PTL

(* A session whose connection is sound gets every update of its user that  *)
(* entered the channel after it registered, as soon as the broadcast of    *)
(* that update has passed it, but for those written while it was welcomed: *)
(* and if such a write has left an error in its writer, it gets no more.   *)
THEOREM NothingMissed == Spec => []NoMissedUpdate
<1>1. IInv => NoMissedUpdate
  BY DEF IInv
<1> QED
  BY <1>1, ServerInvariant, PTL

-------------------------------------------------------------------------------
(* The refinement: how each step of the server looks from the feed. *)

(* The sessions that are still to be welcomed. *)
Greeted == {c \in Conns : pc[c] \in {"registered", "welcoming"}}

(* A session is registered: it joins. *)
LEMMA RegisterJoins ==
    ASSUME IInv, NEW c \in Conns, Register(c)
    PROVE  Feeds!Join(c)
<1>1. /\ c \notin clients /\ got[c] = <<>>
      /\ clients' = clients \cup {c}
      /\ Greeted' = Greeted \cup {c}
      /\ UNCHANGED <<log, raced, got>>
  BY DEF Register, IInv, TypeOK, NotRegistered, Shown, Greeted, peers, buffers, broadcast
<1>2. (IF loop = "collecting" THEN taken - 1 ELSE taken) \in 0..Len(log)
  BY DEF IInv, TypeOK, LoopState
<1> QED
  BY <1>1, <1>2 DEF Register, Feeds!Join, Greeted

(* The update under way is the next that its session may see. *)
LEMMA UnderWay ==
    ASSUME IInv, loop \in {"locking", "writing"}
    PROVE  /\ current \in Conns
           /\ taken \in 1..Len(log)
           /\ Feeds!IsLater(current, taken)
<1>1. /\ current \in Conns /\ taken \in 1..Len(log)
      /\ log[taken] = User[current]
  BY DEF IInv, LoopState, TypeOK
<1>2. /\ since[current] < taken /\ since[current] \in Nat
      /\ \A i \in 1..Len(got[current]) : got[current][i] < taken
  BY <1>1 DEF IInv, Shown, TypeOK
<1> QED
  BY <1>1, <1>2 DEF Feeds!IsLater

(* A write that overlaps the welcome blurs its update. *)
LEMMA LockBlurs ==
    ASSUME IInv, Lock, ~UNCHANGED raced
    PROVE  \E c \in Conns : Feeds!Greet(c)
<1>1. /\ current \in Conns /\ taken \in 1..Len(log)
      /\ Feeds!IsLater(current, taken)
  BY UnderWay DEF Lock
<1>2. /\ pc[current] = "welcoming"
      /\ raced' = [raced EXCEPT ![current] = @ \cup {taken}]
      /\ UNCHANGED <<log, clients, pc, since, got>>
  BY DEF Lock, handlers
<1> QED
  BY <1>1, <1>2 DEF Feeds!Greet

LEMMA WelcomeBlurs ==
    ASSUME IInv, NEW c \in Conns, Welcome(c), ~UNCHANGED raced
    PROVE  Feeds!Greet(c)
<1>1. /\ loop = "writing" /\ current = c
      /\ raced' = [raced EXCEPT ![c] = @ \cup {taken}]
      /\ UNCHANGED <<log, clients, since, got>>
  BY DEF Welcome, broadcast
<1>2. taken \in 1..Len(log) /\ Feeds!IsLater(c, taken)
  BY <1>1, UnderWay
<1>3. Greeted' = Greeted /\ c \in Greeted
  BY DEF Welcome, Greeted, IInv, TypeOK
<1> QED
  BY <1>1, <1>2, <1>3 DEF Feeds!Greet, Greeted

(* A write that reaches a session shows it the next update of its user. *)
LEMMA WrittenShows ==
    ASSUME IInv, Written, ~UNCHANGED got
    PROVE  \E c \in Conns : Feeds!See(c)
<1>1. /\ Healthy(current) /\ current \notin jammed /\ taken \notin raced[current]
      /\ got' = [got EXCEPT ![current] = Append(@, taken)]
      /\ UNCHANGED <<log, clients, pc, since, raced>>
  BY DEF Written, Overlapped, handlers
<1>2. /\ current \in Conns /\ taken \in 1..Len(log)
      /\ Feeds!IsLater(current, taken)
  BY UnderWay DEF Written
<1>3. current \in clients /\ InSession(current)
  <2>1. current \in open /\ pc[current] \notin {"new", "auth", "closing"}
    BY <1>1, <1>2 DEF IInv, Shown, MapComplete, Healthy
  <2>2. current \in clients
    BY <2>1 DEF IInv, MapComplete
  <2>3. pc[current] \notin {"closing", "gone"}
    BY <1>2, <2>2 DEF IInv, SessionsOpen
  <2> QED
    BY <1>2, <2>1, <2>2, <2>3 DEF IInv, TypeOK, InSession
<1>4. ASSUME NEW j \in since[current] + 1..taken - 1, log[j] = User[current]
      PROVE  Feeds!WasShown(current, j) \/ j \in raced[current]
  <2>1. since[current] \in Nat /\ taken \in Nat
    BY <1>2 DEF IInv, TypeOK
  <2>2. j \in since[current] + 1..taken /\ j # taken
    BY <2>1
  <2> QED
    BY <1>1, <1>2, <1>3, <1>4, <2>2 DEF IInv, NoMissedUpdate, Feeds!WasShown
<1> QED
  BY <1>1, <1>2, <1>3, <1>4 DEF Feeds!See

LEMMA StepShows ==
    ASSUME IInv, [Next]_vars
    PROVE  [Feeds!FeedNext]_<<log, clients, Greeted, since, raced, got>>
<1>1. CASE UNCHANGED <<log, clients, pc, since, raced, got>>
  BY <1>1 DEF Greeted
<1>2. CASE StopClients
  BY <1>2 DEF StopClients, peers, buffers, broadcast, Feeds!Leave, Feeds!FeedNext
<1>3. CASE Loop
  <2>1. CASE Written /\ ~UNCHANGED got
    BY <2>1, WrittenShows DEF Feeds!FeedNext
  <2>2. CASE Written /\ UNCHANGED got
    BY <1>1, <2>2 DEF Written, handlers
  <2>3. CASE Lock /\ ~UNCHANGED raced
    BY <2>3, LockBlurs DEF Feeds!FeedNext
  <2>4. CASE Lock /\ UNCHANGED raced
    BY <1>1, <2>4 DEF Lock, handlers
  <2>5. CASE Loop /\ ~Written /\ ~Lock
    BY <1>1, <2>5 DEF Loop, Receive, CollectTargets, NextTarget, BroadcastDone,
                      LoopStop, handlers, peers, buffers
  <2> QED
    BY <1>3, <2>1, <2>2, <2>3, <2>4, <2>5
<1>4. ASSUME NEW u \in Users, Publish(u), UNCHANGED <<clients, Greeted, since, raced, got>>
      PROVE  [Feeds!FeedNext]_<<log, clients, Greeted, since, raced, got>>
  <2>1. log' = log \/ log' = Append(log, u)
    BY <1>4 DEF Publish
  <2>2. CASE log' = Append(log, u)
    BY <1>4, <2>2 DEF Feeds!Put, Feeds!FeedNext, Greeted
  <2> QED
    BY <1>4, <2>1, <2>2
<1>5. ASSUME NEW c \in Conns,
             Accept(c) \/ AuthFail(c) \/ Handler(c) \/ Stall(c) \/ Reset(c)
      PROVE  [Feeds!FeedNext]_<<log, clients, Greeted, since, raced, got>>
  <2>1. CASE Register(c)
    BY <2>1, RegisterJoins DEF Feeds!FeedNext
  <2>2. CASE Unregister(c)
    <3>1. Greeted' = Greeted
      BY <2>2 DEF Unregister, Greeted, IInv, TypeOK
    <3> QED
      BY <2>2, <3>1 DEF Unregister, peers, buffers, broadcast, Feeds!Leave,
                        Feeds!FeedNext, Greeted
  <2>3. CASE ReadProgress(c)
    <3>1. User[c] \in Users
      BY TcpServerAssumption
    <3>2. Greeted' = Greeted
      BY <2>3 DEF ReadProgress, Greeted, IInv, TypeOK
    <3> QED
      BY <1>4, <2>3, <3>1, <3>2 DEF ReadProgress, peers, buffers, broadcast
  <2>4. CASE Welcome(c) /\ ~UNCHANGED raced
    BY <2>4, WelcomeBlurs DEF Feeds!FeedNext
  <2>5. CASE Welcome(c) /\ UNCHANGED raced
    <3>1. Greeted' = Greeted
      BY <2>5 DEF Welcome, Greeted, IInv, TypeOK
    <3> QED
      BY <2>5, <3>1 DEF Welcome, broadcast
  <2>6. CASE Welcomed(c)
    <3>1. Greeted' = Greeted \ {c} /\ c \in Greeted
      BY <2>6 DEF Welcomed, Greeted, IInv, TypeOK
    <3>2. Feeds!Greet(c)
      BY <2>6, <3>1 DEF Welcomed, broadcast, Feeds!Greet, Greeted
    <3> QED
      BY <3>2 DEF Feeds!FeedNext
  <2>7. CASE \/ Accept(c) \/ AuthFail(c) \/ ReadOther(c) \/ Answer(c) \/ Answered(c)
             \/ ReadError(c) \/ Close(c) \/ Stall(c) \/ Reset(c)
    <3>1. Greeted' = Greeted
      BY <2>7 DEF Accept, AuthFail, ReadOther, Answer, Answered, ReadError, Close,
                  Stall, Reset, handlers, Greeted, IInv, TypeOK
    <3> QED
      BY <2>7, <3>1 DEF Accept, AuthFail, ReadOther, Answer, Answered, ReadError, Close,
                        Stall, Reset, handlers, peers, buffers, broadcast
  <2> QED
    BY <1>5, <2>1, <2>2, <2>3, <2>4, <2>5, <2>6, <2>7 DEF Handler
<1>6. CASE \E u \in Users : PublishElsewhere(u)
  BY <1>4, <1>6 DEF PublishElsewhere, handlers, peers, buffers, broadcast, Greeted
<1>7. CASE Start \/ Stop \/ UNCHANGED vars
  BY <1>1, <1>7 DEF Start, Stop, vars, handlers, peers, buffers, broadcast
<1> QED
  BY <1>2, <1>3, <1>5, <1>6, <1>7 DEF Next

(* The server implements the feeds: each session is shown its user's       *)
(* updates in the order of the channel, each once, with none left out but  *)
(* those written together with its welcome, for any number of sessions and *)
(* users, however peers stall and break and whenever Stop comes            *)
(* (broadcastProgress, handleConn).                                        *)
THEOREM ServerImplementsFeeds == Spec => FeedsSpec
<1>1. Init => Feeds!FeedInit
  BY DEF Init, Feeds!FeedInit
<1>2. IInv /\ [Next]_vars => [Feeds!FeedNext]_(Feeds!feedVars)
  <2>1. IInv /\ [Next]_vars =>
          [Feeds!FeedNext]_<<log, clients, Greeted, since, raced, got>>
    BY StepShows
  <2> QED
    BY <2>1 DEF Feeds!feedVars, Greeted
<1> QED
  BY <1>1, <1>2, ServerInvariant, PTL DEF Spec, FeedsSpec, Feeds!FeedSpec
===============================================================================
