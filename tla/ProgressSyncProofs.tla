-------------------------- MODULE ProgressSyncProofs --------------------------
(***************************************************************************)
(* Proofs about the progress sync: its types, that the last line is the    *)
(* row, and the refinements of the multicast and of the store; for every   *)
(* number of handlers, sessions and updates, and every capacity of the     *)
(* channel.                                                                *)
(***************************************************************************)
EXTENDS ProgressSync, SequenceTheorems, TLAPS

-------------------------------------------------------------------------------
(* Sequences. *)

LEMMA AppendFacts ==
    ASSUME NEW S, NEW q \in Seq(S), NEW x \in S
    PROVE  /\ Append(q, x) \in Seq(S)
           /\ Len(Append(q, x)) = Len(q) + 1 /\ Len(q) \in Nat
           /\ \A i \in 1..Len(q) : Append(q, x)[i] = q[i]
           /\ Append(q, x)[Len(q) + 1] = x
BY AppendProperties, LenProperties

(* What is written later does not change what has been printed. *)
LEMMA PrefixKept ==
    ASSUME NEW S, NEW q \in Seq(S), NEW x \in S, NEW n \in 0..Len(q)
    PROVE  SubSeq(Append(q, x), 1, n) = SubSeq(q, 1, n)
<1>1. /\ Append(q, x) \in Seq(S) /\ Len(Append(q, x)) = Len(q) + 1
      /\ Len(q) \in Nat
      /\ \A i \in 1..Len(q) : Append(q, x)[i] = q[i]
    BY AppendFacts
<1>2. CASE n = 0
    BY <1>1, <1>2, SubSeqEmpty
<1>3. CASE n # 0
    <2>1. 1 \in 1..Len(q) /\ n \in 1..Len(q)
          /\ 1 \in 1..Len(Append(q, x)) /\ n \in 1..Len(Append(q, x))
        BY <1>1, <1>3
    <2>2. QED
        BY <1>1, <2>1
<1>4. QED
    BY <1>2, <1>3

(* One more line is printed. *)
LEMMA PrefixGrows ==
    ASSUME NEW S, NEW q \in Seq(S), NEW n \in Nat, n < Len(q)
    PROVE  SubSeq(q, 1, n + 1) = Append(SubSeq(q, 1, n), q[n + 1])
OBVIOUS

LEMMA PrefixFacts ==
    ASSUME NEW S, NEW q \in Seq(S), NEW n \in 0..Len(q)
    PROVE  /\ SubSeq(q, 1, n) \in Seq(S)
           /\ Len(SubSeq(q, 1, n)) = n
           /\ SubSeq(SubSeq(q, 1, n), 1, n) = SubSeq(q, 1, n)
<1>1. SubSeq(q, 1, n) \in Seq(S) /\ Len(SubSeq(q, 1, n)) = n
    OBVIOUS
<1>2. \A i \in 1..n : SubSeq(q, 1, n)[i] = q[i]
    OBVIOUS
<1>3. SubSeq(SubSeq(q, 1, n), 1, n) = SubSeq(q, 1, n)
    BY <1>1
<1>4. QED
    BY <1>1, <1>3

-------------------------------------------------------------------------------
(* The inductive invariant. *)

(* How far the broadcast has come for a session: an update that is being   *)
(* collected, or that the session is still a target of, is ahead of it.    *)
Served(s) == IF loop = "collecting" \/ s \in targets THEN taken - 1 ELSE taken

(* A session that has joined is in the map, and its lines are the updates  *)
(* from its start as far as it has been served, or as far as its welcome   *)
(* has not raced with one; a session that has not joined has none.         *)
LinesInv ==
    /\ loop # "sending" => targets = {}
    /\ loop # "waiting" => taken > 0
    /\ \A s \in Sessions :
        /\ conn[s] = "off" =>
            s \notin clients /\ s \notin targets /\ lines[s] = <<>> /\ read[s] = 0
        /\ Joined(s) =>
            /\ s \in clients
            /\ start[s] + Len(lines[s]) <= Served(s)
            /\ s \notin raced => start[s] + Len(lines[s]) = Served(s)
            /\ \A i \in 1..Len(lines[s]) : lines[s][i] = log[start[s] + i]

(* What is stored is what the handler that may publish it will publish, or *)
(* what was published last.                                                *)
StoreInv ==
    ~disturbed =>
        /\ \A h, g \in Pending : h = g
        /\ \A h \in Pending : row = None \/ row = chapter[h]
        /\ Pending = {} /\ row # None =>
            log # <<>> /\ row = log[Len(log)]

IInv == TypeOK /\ LinesInv /\ StoreInv

LEMMA InitIInv ==
    ASSUME Init
    PROVE  IInv
<1>1. TypeOK
    <2>1. \A S : <<>> \in Seq(S) /\ Len(<<>>) = 0
        BY EmptySeq
    <2>2. log \in Seq(Chapters) /\ taken \in 0..Len(log)
        BY <2>1 DEF Init
    <2>3. /\ lines \in [Sessions -> Seq(Chapters)]
          /\ \A s \in Sessions : read[s] <= Len(lines[s])
        BY <2>1 DEF Init
    <2>4. QED
        BY <2>2, <2>3 DEF Init, TypeOK
<1>2. LinesInv
    BY DEF Init, LinesInv, Joined
<1>3. StoreInv
    BY DEF Init, StoreInv, Pending
<1>4. QED
    BY <1>1, <1>2, <1>3 DEF IInv

(* The log only grows at its end. *)
LEMMA OfferFacts ==
    ASSUME TypeOK, NEW c \in Chapters, Offer(c)
    PROVE  /\ log' \in Seq(Chapters)
           /\ Len(log) \in Nat /\ Len(log') \in Nat /\ Len(log) <= Len(log')
           /\ \A i \in 1..Len(log) : log'[i] = log[i]
           /\ log' # log => log' # <<>> /\ log'[Len(log')] = c
<1>1. log \in Seq(Chapters)
    BY DEF TypeOK
<1>2. CASE log' = Append(log, c)
    BY <1>1, <1>2, AppendFacts
<1>3. CASE log' = log
    BY <1>1, <1>3, LenProperties
<1>4. QED
    BY <1>2, <1>3 DEF Offer

(* A step that leaves the log alone or offers it a chapter, and nothing    *)
(* else of the broadcast and the sessions, keeps their invariant.          *)
LEMMA LogKeepsLines ==
    ASSUME TypeOK, LinesInv, NEW c \in Chapters, Offer(c),
           UNCHANGED <<server, sessions, written>>
    PROVE  LinesInv'
<1>1. /\ Len(log) \in Nat /\ \A i \in 1..Len(log) : log'[i] = log[i]
    BY OfferFacts
<1>2. ASSUME NEW s \in Sessions, Joined(s)'
      PROVE  /\ s \in clients'
             /\ start'[s] + Len(lines'[s]) <= Served(s)'
             /\ s \notin raced' => start'[s] + Len(lines'[s]) = Served(s)'
             /\ \A i \in 1..Len(lines'[s]) : lines'[s][i] = log'[start'[s] + i]
    <2>1. /\ s \in clients /\ start[s] + Len(lines[s]) <= Served(s)
          /\ s \notin raced => start[s] + Len(lines[s]) = Served(s)
          /\ \A i \in 1..Len(lines[s]) : lines[s][i] = log[start[s] + i]
        BY <1>2 DEF LinesInv, Joined, sessions
    <2>2. Served(s)' = Served(s)
        BY DEF Served, server
    <2>3. ASSUME NEW i \in 1..Len(lines[s])
          PROVE  start[s] + i \in 1..Len(log)
        <3>1. /\ start[s] \in Nat /\ Len(lines[s]) \in Nat
              /\ taken \in 0..Len(log)
            BY LenProperties DEF TypeOK
        <3>2. Served(s) <= Len(log) /\ Served(s) \in Int
            BY <1>1, <3>1 DEF Served
        <3>3. QED
            BY <1>1, <2>1, <3>1, <3>2
    <2>4. QED
        BY <1>1, <2>1, <2>2, <2>3 DEF sessions, written
<1>3. ASSUME NEW s \in Sessions, conn'[s] = "off"
      PROVE  s \notin clients' /\ s \notin targets' /\ lines'[s] = <<>>
             /\ read'[s] = 0
    BY <1>3 DEF LinesInv, sessions, server, written
<1>4. (loop' # "sending" => targets' = {}) /\ (loop' # "waiting" => taken' > 0)
    BY DEF LinesInv, server
<1>5. QED
    BY <1>2, <1>3, <1>4 DEF LinesInv

(* A step that changes nothing of log, broadcast, sessions and lines. *)
LEMMA LinesFrame ==
    ASSUME LinesInv, UNCHANGED <<log, server, sessions, written>>
    PROVE  LinesInv'
BY DEF LinesInv, Joined, Served, server, sessions, written

LEMMA StoreFrame ==
    ASSUME StoreInv, UNCHANGED <<store, log>>
    PROVE  StoreInv'
BY DEF StoreInv, Pending, store

(* Every step keeps the types. *)
LEMMA TypeStep ==
    ASSUME TypeOK, LinesInv, [Next]_vars
    PROVE  TypeOK'
<1> USE DEF store, server, sessions, written
<1>1. CASE UNCHANGED vars
    BY <1>1 DEF TypeOK, vars
<1>2. ASSUME NEW h \in Handlers, NEW c \in Chapters, UpdateProgress(h, c)
      PROVE  TypeOK'
    BY <1>2 DEF UpdateProgress, TypeOK
<1>3. ASSUME NEW c \in Chapters, PublishOnly(c)
      PROVE  TypeOK'
    <2>1. /\ log' \in Seq(Chapters) /\ Len(log) <= Len(log')
          /\ Len(log) \in Nat /\ Len(log') \in Nat
        BY <1>3, OfferFacts DEF PublishOnly
    <2>2. taken' \in 0..Len(log')
        BY <1>3, <2>1 DEF PublishOnly, TypeOK
    <2>3. QED
        BY <1>3, <2>1, <2>2 DEF PublishOnly, TypeOK
<1>4. ASSUME NEW h \in Handlers, Publish(h)
      PROVE  TypeOK'
    <2>1. chapter[h] \in Chapters
        BY <1>4 DEF Publish, Pending, TypeOK
    <2>2. /\ log' \in Seq(Chapters) /\ Len(log) <= Len(log')
          /\ Len(log) \in Nat /\ Len(log') \in Nat
        BY <1>4, <2>1, OfferFacts DEF Publish
    <2>3. taken' \in 0..Len(log')
        BY <1>4, <2>2 DEF Publish, TypeOK
    <2>4. disturbed' \in BOOLEAN
        BY <1>4 DEF Publish
    <2>5. QED
        BY <1>4, <2>2, <2>3, <2>4 DEF Publish, TypeOK
<1>5. ASSUME NEW c \in Chapters, AddToLibrary(c)
      PROVE  TypeOK'
    BY <1>5 DEF AddToLibrary, TypeOK
<1>6. CASE RemoveFromLibrary
    BY <1>6 DEF RemoveFromLibrary, TypeOK
<1>7. CASE Receive
    <2>1. taken' \in 0..Len(log')
        BY <1>7, LenProperties DEF Receive, TypeOK
    <2>2. QED
        BY <1>7, <2>1 DEF Receive, TypeOK
<1>8. CASE CollectTargets
    BY <1>8 DEF CollectTargets, TypeOK
<1>9. ASSUME NEW s \in Sessions, Send(s)
      PROVE  TypeOK'
    <2>1. log[taken] \in Chapters
        BY <1>9, LenProperties DEF Send, LinesInv, TypeOK
    <2>2. \A q \in Seq(Chapters) :
              /\ Append(q, log[taken]) \in Seq(Chapters)
              /\ Len(Append(q, log[taken])) = Len(q) + 1 /\ Len(q) \in Nat
        BY <2>1, AppendFacts
    <2>3. /\ lines' \in [Sessions -> Seq(Chapters)]
          /\ \A t \in Sessions : read[t] <= Len(lines'[t])
        <3>1. CASE lines' = Sent(s)
            BY <2>2, <3>1 DEF Sent, TypeOK
        <3>2. CASE lines' = lines
            BY <3>2 DEF TypeOK
        <3>3. QED
            BY <1>9, <3>1, <3>2 DEF Send
    <2>4. raced' \subseteq Sessions
        BY <1>9 DEF Send, TypeOK
    <2>5. QED
        BY <1>9, <2>3, <2>4 DEF Send, TypeOK
<1>10. CASE BroadcastDone
    BY <1>10 DEF BroadcastDone, TypeOK
<1>11. ASSUME NEW s \in Sessions, Welcomed(s) \/ Unregister(s)
       PROVE  TypeOK'
    BY <1>11 DEF Welcomed, Unregister, TypeOK
<1>12. ASSUME NEW s \in Sessions, Register(s)
       PROVE  TypeOK'
    <2>1. start' \in [Sessions -> Nat]
        BY <1>12, LenProperties DEF Register, LinesInv, TypeOK
    <2>2. QED
        BY <1>12, <2>1 DEF Register, TypeOK
<1>13. ASSUME NEW s \in Sessions, PrintLine(s)
       PROVE  TypeOK'
    <2>1. /\ read' \in [Sessions -> Nat]
          /\ \A t \in Sessions : read'[t] <= Len(lines[t])
        BY <1>13, LenProperties DEF PrintLine, TypeOK
    <2>2. QED
        BY <1>13, <2>1 DEF PrintLine, TypeOK
<1>14. ASSUME NEW s \in Sessions, Disconnect(s)
       PROVE  TypeOK'
    <2>1. Printed(s) \in Seq(Chapters) /\ Len(Printed(s)) = read[s]
        BY LenProperties, PrefixFacts DEF Printed, TypeOK
    <2>2. /\ lines' \in [Sessions -> Seq(Chapters)]
          /\ \A t \in Sessions : read[t] <= Len(lines'[t])
        BY <1>14, <2>1 DEF Disconnect, TypeOK
    <2>3. QED
        BY <1>14, <2>2 DEF Disconnect, TypeOK
<1>15. QED
    BY <1>1, <1>2, <1>3, <1>4, <1>5, <1>6, <1>7, <1>8, <1>9, <1>10, <1>11,
       <1>12, <1>13, <1>14 DEF Next, Loop

(* Every step of the broadcast and the sessions keeps their invariant. *)
LEMMA LinesStep ==
    ASSUME TypeOK, LinesInv, [Next]_vars
    PROVE  LinesInv'
<1> USE DEF store, server, sessions, written
<1>1. CASE UNCHANGED vars
    BY <1>1, LinesFrame DEF vars
<1>2. ASSUME NEW h \in Handlers, NEW c \in Chapters, UpdateProgress(h, c)
      PROVE  LinesInv'
    BY <1>2, LinesFrame DEF UpdateProgress
<1>3. ASSUME NEW c \in Chapters, PublishOnly(c)
      PROVE  LinesInv'
    BY <1>3, LogKeepsLines DEF PublishOnly
<1>4. ASSUME NEW h \in Handlers, Publish(h)
      PROVE  LinesInv'
    <2>1. chapter[h] \in Chapters
        BY <1>4 DEF Publish, Pending, TypeOK
    <2>2. QED
        BY <1>4, <2>1, LogKeepsLines DEF Publish
<1>5. ASSUME NEW c \in Chapters, AddToLibrary(c)
      PROVE  LinesInv'
    BY <1>5, LinesFrame DEF AddToLibrary
<1>6. CASE RemoveFromLibrary
    BY <1>6, LinesFrame DEF RemoveFromLibrary
<1>7. CASE Receive
    <2>1. taken \in Nat /\ taken' = taken + 1 /\ targets = {}
          /\ loop = "waiting" /\ loop' = "collecting"
        BY <1>7, LenProperties DEF Receive, LinesInv, TypeOK
    <2>2. \A s \in Sessions : Served(s)' = Served(s)
        BY <1>7, <2>1 DEF Receive, Served
    <2>3. QED
        BY <1>7, <2>1, <2>2 DEF Receive, LinesInv, Joined
<1>8. CASE CollectTargets
    <2>1. \A s \in Sessions : s \in clients => Served(s)' = Served(s)
        BY <1>8 DEF CollectTargets, Served
    <2>2. QED
        BY <1>8, <2>1 DEF CollectTargets, LinesInv, Joined
<1>9. ASSUME NEW s \in Sessions, Send(s)
      PROVE  LinesInv'
    <2>1. /\ taken \in 1..Len(log) /\ log[taken] \in Chapters
          /\ loop = "sending" /\ s \in targets
        BY <1>9, LenProperties DEF Send, LinesInv, TypeOK
    <2>2. \A t \in Sessions \ {s} :
              /\ Served(t)' = Served(t) /\ lines'[t] = lines[t]
              /\ t \in raced' <=> t \in raced
        BY <1>9 DEF Send, Sent, Served, TypeOK
    <2>3. Served(s) = taken - 1 /\ Served(s)' = taken
        BY <1>9, <2>1 DEF Send, Served
    <2>4. start[s] \in Nat /\ Len(lines[s]) \in Nat /\ taken \in Nat
        BY LenProperties DEF TypeOK
    <2>5. ASSUME Joined(s)
          PROVE  /\ start[s] + Len(lines'[s]) <= taken
                 /\ s \notin raced' => start[s] + Len(lines'[s]) = taken
                 /\ \A i \in 1..Len(lines'[s]) : lines'[s][i] = log[start[s] + i]
        <3> DEFINE q == lines[s]
        <3>1. CASE s \notin raced /\ lines' = Sent(s) /\ UNCHANGED raced
            <4>1. q \in Seq(Chapters) /\ lines'[s] = Append(q, log[taken])
                BY <3>1 DEF Sent, TypeOK
            <4>2. /\ Len(lines'[s]) = Len(q) + 1 /\ Len(q) \in Nat
                  /\ \A i \in 1..Len(q) : lines'[s][i] = q[i]
                  /\ lines'[s][Len(q) + 1] = log[taken]
                BY <2>1, <4>1, AppendFacts
            <4>3. start[s] + Len(q) = taken - 1
                BY <2>3, <2>5, <3>1 DEF LinesInv
            <4>4. start[s] + (Len(q) + 1) = taken
                BY <2>4, <4>3
            <4>5. \A i \in 1..Len(q) : q[i] = log[start[s] + i]
                BY <2>5 DEF LinesInv
            <4>6. ASSUME NEW i \in 1..Len(lines'[s])
                  PROVE  lines'[s][i] = log[start[s] + i]
                <5>1. CASE i \in 1..Len(q)
                    BY <4>2, <4>5, <5>1
                <5>2. CASE i = Len(q) + 1
                    BY <4>2, <4>4, <5>2
                <5>3. QED
                    BY <4>2, <4>6, <5>1, <5>2
            <4>7. QED
                BY <2>4, <4>2, <4>4, <4>6
        <3>2. CASE s \in raced' /\ UNCHANGED lines
            <4>1. /\ start[s] + Len(q) <= taken - 1
                  /\ \A i \in 1..Len(q) : q[i] = log[start[s] + i]
                BY <2>3, <2>5 DEF LinesInv
            <4>2. QED
                BY <2>4, <3>2, <4>1
        <3>3. QED
            BY <1>9, <2>5, <3>1, <3>2 DEF Send
    <2>6. conn[s] # "off"
        BY <2>1 DEF LinesInv
    <2>7. UNCHANGED <<log, start, read, conn, clients, loop, taken>>
        BY <1>9 DEF Send
    <2>8. loop = "sending" /\ taken > 0 /\ targets' \subseteq targets
        BY <1>9, <2>1 DEF Send
    <2>9. QED
        BY <2>2, <2>3, <2>5, <2>6, <2>7, <2>8 DEF LinesInv, Joined
<1>10. CASE BroadcastDone
    <2>1. \A s \in Sessions : Served(s)' = Served(s)
        BY <1>10 DEF BroadcastDone, Served
    <2>2. QED
        BY <1>10, <2>1 DEF BroadcastDone, LinesInv, Joined
<1>11. ASSUME NEW s \in Sessions, Welcomed(s) \/ Unregister(s)
       PROVE  LinesInv'
    <2>1. \A t \in Sessions : Served(t)' = Served(t)
        BY <1>11 DEF Welcomed, Unregister, Served
    <2>2. \A t \in Sessions : Joined(t)' => Joined(t)
        BY <1>11 DEF Welcomed, Unregister, Joined, TypeOK
    <2>3. \A t \in Sessions : conn'[t] = "off" => conn[t] = "off"
        BY <1>11 DEF Welcomed, Unregister, TypeOK
    <2>4. \A t \in Sessions : Joined(t)' => (t \in clients' <=> t \in clients)
        BY <1>11 DEF Welcomed, Unregister, Joined
    <2>5. clients' \subseteq clients /\ UNCHANGED <<log, start, read, targets, loop, taken, written>>
        BY <1>11 DEF Welcomed, Unregister
    <2>6. QED
        BY <2>1, <2>2, <2>3, <2>4, <2>5 DEF LinesInv
<1>12. ASSUME NEW s \in Sessions, Register(s)
       PROVE  LinesInv'
    <2>1. \A t \in Sessions : Served(t)' = Served(t)
        BY <1>12 DEF Register, Served
    <2>2. start'[s] = Served(s)
        BY <1>12 DEF Register, LinesInv, Served, TypeOK
    <2>3. start'[s] \in Nat
        BY <1>12, LenProperties DEF Register, LinesInv, TypeOK
    <2>4. lines[s] = <<>> /\ Len(lines[s]) = 0
        BY <1>12, EmptySeq DEF Register, LinesInv
    <2>5. start'[s] + Len(lines'[s]) = Served(s)' /\ 1..Len(lines'[s]) = {}
        BY <1>12, <2>1, <2>2, <2>3, <2>4 DEF Register
    <2>6. s \in clients' /\ conn'[s] = "greeted" /\ start'[s] + Len(lines'[s]) <= Served(s)'
        BY <1>12, <2>2, <2>3, <2>4, <2>5 DEF Register, TypeOK
    <2>7. \A t \in Sessions \ {s} :
              /\ conn'[t] = conn[t] /\ start'[t] = start[t] /\ lines'[t] = lines[t]
              /\ t \in clients' <=> t \in clients
        BY <1>12 DEF Register, TypeOK
    <2>8. UNCHANGED <<log, taken, loop, targets, read, raced>>
        BY <1>12 DEF Register
    <2>9. QED
        BY <2>1, <2>5, <2>6, <2>7, <2>8 DEF LinesInv, Joined
<1>13. ASSUME NEW s \in Sessions, PrintLine(s)
       PROVE  LinesInv'
    <2>1. \A t \in Sessions : Served(t)' = Served(t)
        BY <1>13 DEF PrintLine, Served
    <2>2. \A t \in Sessions \ {s} : read'[t] = read[t]
        BY <1>13 DEF PrintLine, TypeOK
    <2>3. QED
        BY <1>13, <2>1, <2>2 DEF PrintLine, LinesInv, Joined
<1>14. ASSUME NEW s \in Sessions, Disconnect(s)
       PROVE  LinesInv'
    <2>1. \A t \in Sessions : Served(t)' = Served(t)
        BY <1>14 DEF Disconnect, Served
    <2>2. conn'[s] = "closed" /\ conn[s] # "off"
        BY <1>14 DEF Disconnect, Joined, TypeOK
    <2>3. \A t \in Sessions \ {s} : conn'[t] = conn[t] /\ lines'[t] = lines[t]
        BY <1>14 DEF Disconnect, TypeOK
    <2>4. UNCHANGED <<log, start, read, clients, targets, loop, taken, raced>>
        BY <1>14 DEF Disconnect
    <2>5. QED
        BY <2>1, <2>2, <2>3, <2>4 DEF LinesInv, Joined
<1>15. QED
    BY <1>1, <1>2, <1>3, <1>4, <1>6, <1>5, <1>7, <1>8, <1>9, <1>10, <1>11,
       <1>12, <1>13, <1>14 DEF Next, Loop

(* Every step of the handlers keeps what they promise of the row. *)
LEMMA StoreStep ==
    ASSUME TypeOK, StoreInv, [Next]_vars
    PROVE  StoreInv'
<1> USE DEF store, server, sessions, written
<1>1. CASE UNCHANGED vars
    BY <1>1, StoreFrame DEF vars
<1>2. ASSUME NEW h \in Handlers, NEW c \in Chapters, UpdateProgress(h, c)
      PROVE  StoreInv'
    <2>1. Pending' = Pending \cup {h}
        BY <1>2, ProgressSyncAssumption DEF UpdateProgress, Pending, TypeOK
    <2>2. CASE Pending = {}
        <3>1. chapter'[h] = c /\ row' = c
            BY <1>2 DEF UpdateProgress, TypeOK
        <3>2. QED
            BY <2>1, <2>2, <3>1 DEF StoreInv
    <2>3. CASE Pending # {}
        BY <1>2, <2>3 DEF UpdateProgress, StoreInv
    <2>4. QED
        BY <2>2, <2>3
<1>3. ASSUME NEW c \in Chapters, PublishOnly(c) \/ AddToLibrary(c)
      PROVE  StoreInv'
    BY <1>3 DEF PublishOnly, AddToLibrary, StoreInv
<1>4. ASSUME NEW h \in Handlers, Publish(h)
      PROVE  StoreInv'
    <2>1. chapter[h] \in Chapters /\ h \in Pending
        BY <1>4 DEF Publish, Pending, TypeOK
    <2>2. Pending' = Pending \ {h}
        BY <1>4 DEF Publish, Pending, TypeOK
    <2>3. log' # log => log' # <<>> /\ log'[Len(log')] = chapter[h]
        BY <1>4, <2>1, OfferFacts DEF Publish
    <2>4. ASSUME ~disturbed'
          PROVE  /\ Pending' = {}
                 /\ row' # None => log' # <<>> /\ row' = log'[Len(log')]
        <3>1. ~disturbed /\ log' # log /\ row' = row
            BY <1>4, <2>4 DEF Publish
        <3>2. (\A g \in Pending : g = h) /\ (row = None \/ row = chapter[h])
            BY <2>1, <3>1 DEF StoreInv
        <3>3. QED
            BY <2>2, <2>3, <3>1, <3>2
    <2>5. QED
        BY <2>4 DEF StoreInv
<1>5. CASE RemoveFromLibrary
    BY <1>5 DEF RemoveFromLibrary, StoreInv, Pending
<1>6. CASE Loop
    BY <1>6, StoreFrame DEF Loop, Receive, CollectTargets, Send, BroadcastDone
<1>7. ASSUME NEW s \in Sessions,
             \/ Register(s) \/ Welcomed(s) \/ PrintLine(s)
             \/ Disconnect(s) \/ Unregister(s)
      PROVE  StoreInv'
    BY <1>7, StoreFrame DEF Register, Welcomed, PrintLine, Disconnect, Unregister
<1>8. QED
    BY <1>1, <1>2, <1>3, <1>4, <1>5, <1>6, <1>7 DEF Next

LEMMA IInvStep ==
    ASSUME IInv, [Next]_vars
    PROVE  IInv'
BY TypeStep, LinesStep, StoreStep DEF IInv

(* The invariant shows the end of the chain: what is printed last is what  *)
(* is stored.                                                              *)
LEMMA LastLine ==
    ASSUME IInv
    PROVE  LastLineIsRow
<1> SUFFICES ASSUME NEW s \in Sessions, Joined(s), read[s] > 0,
                    start[s] + read[s] = Len(log),
                    Pending = {}, row # None, ~disturbed
             PROVE  lines[s][read[s]] = row
    BY DEF LastLineIsRow
<1>1. row = log[Len(log)]
    BY DEF IInv, StoreInv
<1>2. read[s] \in 1..Len(lines[s])
    BY LenProperties DEF IInv, TypeOK
<1>3. lines[s][read[s]] = log[start[s] + read[s]]
    BY <1>2 DEF IInv, LinesInv
<1>4. QED
    BY <1>1, <1>3

(* Types, and the last line of a session at rest, for every instance       *)
(* (httpapi updateProgress, tcp broadcastProgress, cmd/cli cmdTCPSync).    *)
THEOREM SyncSafe == Spec => [](TypeOK /\ LastLineIsRow)
<1>1. Init => IInv
    BY InitIInv
<1>2. IInv /\ [Next]_vars => IInv'
    BY IInvStep
<1>3. IInv => TypeOK /\ LastLineIsRow
    BY LastLine DEF IInv
<1>4. QED
    BY <1>1, <1>2, <1>3, PTL DEF Spec

(* The types of the sync: the loop has taken no more than the channel has, *)
(* and nobody has printed more than it was sent (tcp broadcastLoop).       *)
THEOREM TypeCorrect == Spec => []TypeOK
BY SyncSafe, PTL

-------------------------------------------------------------------------------
(* The sync implements the multicast. *)

Present == {s \in Sessions : Joined(s)}
Greeting == {s \in Sessions : conn[s] = "greeted"}
Shown == [s \in Sessions |-> Printed(s)]

(* What is written to a session does not show before it is printed. *)
LEMMA ShownKept ==
    ASSUME TypeOK, LinesInv, NEW s \in Sessions, Send(s)
    PROVE  UNCHANGED Shown
<1>1. log[taken] \in Chapters
    BY LenProperties DEF Send, LinesInv, TypeOK
<1>2. \A t \in Sessions : lines[t] \in Seq(Chapters) /\ read[t] \in 0..Len(lines[t])
    BY LenProperties DEF TypeOK
<1>3. \A t \in Sessions :
          SubSeq(Append(lines[t], log[taken]), 1, read[t])
              = SubSeq(lines[t], 1, read[t])
    BY <1>1, <1>2, PrefixKept
<1>4. ASSUME NEW t \in Sessions
      PROVE  SubSeq(lines'[t], 1, read[t]) = SubSeq(lines[t], 1, read[t])
    <2>1. lines'[t] \in {lines[t], Append(lines[t], log[taken])}
        BY DEF Send, Sent, TypeOK, written
    <2>2. QED
        BY <1>3, <2>1
<1>5. read' = read
    BY DEF Send, sessions
<1>6. QED
    BY <1>4, <1>5 DEF Shown, Printed

(* A line that is printed is the next update of the feed. *)
LEMMA PrintSees ==
    ASSUME TypeOK, LinesInv, NEW s \in Sessions, PrintLine(s)
    PROVE  Feed!See(s)
<1>1. /\ lines[s] \in Seq(Chapters) /\ read[s] \in 0..Len(lines[s])
      /\ read[s] < Len(lines[s]) /\ read[s] \in Nat /\ Len(lines[s]) \in Nat
    BY LenProperties DEF TypeOK, PrintLine
<1>2. Len(Printed(s)) = read[s]
    BY <1>1, PrefixFacts DEF Printed
<1>3. Joined(s)
    BY DEF PrintLine
<1>4. /\ lines[s][read[s] + 1] = log[start[s] + (read[s] + 1)]
      /\ start[s] + Len(lines[s]) <= Served(s)
    BY <1>1, <1>3 DEF LinesInv
<1>5. start[s] \in Nat /\ taken \in 0..Len(log) /\ Len(log) \in Nat
    BY LenProperties DEF TypeOK
<1>6. start[s] + Len(lines[s]) <= Len(log)
    BY <1>1, <1>4, <1>5 DEF Served
<1>7. Feed!Position(s) = start[s] + (read[s] + 1)
    BY <1>1, <1>2, <1>5 DEF Feed!Position
<1>8. Feed!Position(s) <= Len(log)
    BY <1>1, <1>5, <1>6, <1>7
<1>9. SubSeq(lines[s], 1, read[s] + 1) = Append(Printed(s), lines[s][read[s] + 1])
    BY <1>1, PrefixGrows DEF Printed
<1>10. Shown' = [Shown EXCEPT ![s] = Append(@, log[Feed!Position(s)])]
    <2>1. /\ lines' = lines /\ read'[s] = read[s] + 1
          /\ \A t \in Sessions \ {s} : read'[t] = read[t]
        BY DEF PrintLine, TypeOK, written
    <2>2. Printed(s)' = Append(Printed(s), log[Feed!Position(s)])
        BY <1>4, <1>7, <1>9, <2>1 DEF Printed
    <2>3. \A t \in Sessions \ {s} : Printed(t)' = Printed(t)
        BY <2>1 DEF Printed
    <2>4. QED
        BY <2>2, <2>3 DEF Shown
<1>11. s \in Present /\ UNCHANGED <<log, Present, Greeting, start, raced>>
    BY <1>3 DEF PrintLine, Present, Greeting, Joined, written
<1>12. QED
    BY <1>8, <1>10, <1>11 DEF Feed!See, Shown, Present, Greeting

(* Each step is one of the multicast, or none. *)
LEMMA FeedStep ==
    ASSUME IInv, [Next]_vars
    PROVE  [Feed!Next]_<<log, Present, Greeting, start, raced, Shown>>
<1> USE DEF store, server, sessions, written
<1>0. TypeOK /\ LinesInv
    BY DEF IInv
<1>1. CASE UNCHANGED vars
    BY <1>1 DEF vars, Present, Greeting, Joined, Shown, Printed
<1>2. ASSUME NEW h \in Handlers, NEW c \in Chapters, UpdateProgress(h, c)
      PROVE  UNCHANGED <<log, Present, Greeting, start, raced, Shown>>
    BY <1>2 DEF UpdateProgress, Present, Greeting, Joined, Shown, Printed
<1>3. ASSUME NEW c \in Chapters, Offer(c), UNCHANGED <<conn, start, written, read>>
      PROVE  [Feed!Next]_<<log, Present, Greeting, start, raced, Shown>>
    <2>1. UNCHANGED <<Present, Greeting, start, raced, Shown>>
        BY <1>3 DEF Present, Greeting, Joined, Shown, Printed
    <2>2. CASE log' = log
        BY <2>1, <2>2
    <2>3. CASE log' = Append(log, c)
        <3>1. Feed!Put(c)
            BY <2>1, <2>3 DEF Feed!Put, Present, Greeting, Shown
        <3>2. QED
            BY <3>1 DEF Feed!Next
    <2>4. log' = log \/ log' = Append(log, c)
        BY <1>3 DEF Offer
    <2>5. QED
        BY <2>2, <2>3, <2>4
<1>4. ASSUME NEW h \in Handlers, Publish(h)
      PROVE  [Feed!Next]_<<log, Present, Greeting, start, raced, Shown>>
    <2>1. chapter[h] \in Chapters
        BY <1>0, <1>4 DEF Publish, Pending, TypeOK
    <2>2. QED
        BY <1>3, <1>4, <2>1 DEF Publish
<1>5. ASSUME NEW c \in Chapters, PublishOnly(c)
      PROVE  [Feed!Next]_<<log, Present, Greeting, start, raced, Shown>>
    BY <1>3, <1>5 DEF PublishOnly
<1>6. CASE Receive \/ CollectTargets \/ BroadcastDone
    BY <1>6 DEF Receive, CollectTargets, BroadcastDone,
                Present, Greeting, Joined, Shown, Printed
<1>7. ASSUME NEW s \in Sessions, Send(s)
      PROVE  [Feed!Next]_<<log, Present, Greeting, start, raced, Shown>>
    <2>1. UNCHANGED <<log, Present, Greeting, start, Shown>>
        BY <1>0, <1>7, ShownKept DEF Send, Present, Greeting, Joined
    <2>2. CASE UNCHANGED raced
        BY <2>1, <2>2
    <2>3. CASE conn[s] = "greeted" /\ raced' = raced \cup {s}
        <3>1. Feed!Blur(s)
            BY <2>1, <2>3 DEF Feed!Blur, Present, Greeting, Shown
        <3>2. QED
            BY <3>1 DEF Feed!Next
    <2>4. QED
        BY <1>7, <2>2, <2>3 DEF Send
<1>8. ASSUME NEW s \in Sessions, Welcomed(s)
      PROVE  [Feed!Next]_<<log, Present, Greeting, start, raced, Shown>>
    <2>1. Greeting' = Greeting \ {s} /\ Present' = Present
        BY <1>0, <1>8 DEF Welcomed, Present, Greeting, Joined, TypeOK
    <2>2. UNCHANGED <<log, start, raced, Shown>>
        BY <1>8 DEF Welcomed, Shown, Printed
    <2>3. Feed!Greeted(s)
        BY <2>1, <2>2 DEF Feed!Greeted, Present, Greeting, Shown
    <2>4. QED
        BY <2>3 DEF Feed!Next
<1>9. ASSUME NEW s \in Sessions, Register(s)
      PROVE  [Feed!Next]_<<log, Present, Greeting, start, raced, Shown>>
    <2>1. PICK over \in 0..Len(log) :
                over = IF loop = "collecting" THEN taken - 1 ELSE taken
        BY <1>0, LenProperties DEF LinesInv, TypeOK
    <2>2. /\ s \notin Present /\ Present' = Present \cup {s}
          /\ Greeting' = Greeting \cup {s}
        BY <1>0, <1>9 DEF Register, Present, Greeting, Joined, TypeOK
    <2>3. Shown[s] = <<>>
        <3>1. lines[s] = <<>> /\ read[s] = 0
            BY <1>0, <1>9 DEF Register, LinesInv
        <3>2. SubSeq(lines[s], 1, read[s]) = <<>>
            BY <1>0, <3>1, SubSeqEmpty DEF TypeOK
        <3>3. QED
            BY <3>2 DEF Shown, Printed
    <2>4. start' = [start EXCEPT ![s] = over] /\ UNCHANGED <<log, raced, Shown>>
        BY <1>9, <2>1 DEF Register, Shown, Printed
    <2>5. Feed!Join(s, over)
        BY <2>2, <2>3, <2>4 DEF Feed!Join, Present, Greeting, Shown
    <2>6. QED
        BY <2>5 DEF Feed!Next
<1>10. ASSUME NEW s \in Sessions, PrintLine(s)
       PROVE  [Feed!Next]_<<log, Present, Greeting, start, raced, Shown>>
    <2>1. Feed!See(s)
        BY <1>0, <1>10, PrintSees
    <2>2. QED
        BY <2>1 DEF Feed!Next
<1>11. ASSUME NEW s \in Sessions, Disconnect(s)
       PROVE  [Feed!Next]_<<log, Present, Greeting, start, raced, Shown>>
    <2>1. Present' = Present \ {s} /\ Greeting' = Greeting \ {s}
        BY <1>0, <1>11 DEF Disconnect, Present, Greeting, Joined, TypeOK
    <2>2. \A t \in Sessions : Printed(t)' = Printed(t)
        <3>1. SubSeq(SubSeq(lines[s], 1, read[s]), 1, read[s])
                  = SubSeq(lines[s], 1, read[s])
            BY <1>0, LenProperties, PrefixFacts DEF TypeOK
        <3>2. read' = read /\ lines' = [lines EXCEPT ![s] = SubSeq(lines[s], 1, read[s])]
            BY <1>11 DEF Disconnect, Printed
        <3>3. QED
            BY <1>0, <3>1, <3>2 DEF Printed, TypeOK
    <2>3. UNCHANGED <<log, start, raced, Shown>>
        BY <1>11, <2>2 DEF Disconnect, Shown
    <2>4. Feed!Leave(s)
        BY <2>1, <2>3 DEF Feed!Leave, Present, Greeting, Shown
    <2>5. QED
        BY <2>4 DEF Feed!Next
<1>12. CASE RemoveFromLibrary
    BY <1>12 DEF RemoveFromLibrary, Present, Greeting, Joined, Shown, Printed
<1>13. ASSUME NEW c \in Chapters, AddToLibrary(c)
      PROVE  UNCHANGED <<log, Present, Greeting, start, raced, Shown>>
    BY <1>13 DEF AddToLibrary, Present, Greeting, Joined, Shown, Printed
<1>14. ASSUME NEW s \in Sessions, Unregister(s)
       PROVE  UNCHANGED <<log, Present, Greeting, start, raced, Shown>>
    BY <1>14 DEF Unregister, Present, Greeting, Joined, Shown, Printed
<1>15. QED
    BY <1>1, <1>2, <1>4, <1>5, <1>6, <1>7, <1>8, <1>9, <1>10, <1>11, <1>12,
       <1>13, <1>14 DEF Next, Loop

(* Every session is shown what the channel took since it registered, in    *)
(* order, without a gap and each update once, up to an update that is      *)
(* written together with its welcome; nothing is said of the lines after   *)
(* that one, and that a session is shown all of it in the end is for TLC   *)
(* (broker offer, tcp handleConn, broadcastLoop, send, cmd/cli cmdTCPSync).*)
THEOREM SyncImplementsMulticast == Spec => Feed!Spec
<1>1. Init => Feed!Init
    <2>1. ASSUME Init, NEW s \in Sessions
          PROVE  Printed(s) = <<>>
        <3>1. lines[s] = <<>> /\ read[s] = 0
            BY <2>1 DEF Init
        <3>2. <<>> \in Seq(Chapters)
            BY EmptySeq
        <3>3. QED
            BY <3>1, <3>2, SubSeqEmpty DEF Printed
    <2>2. QED
        BY <2>1 DEF Init, Joined, Feed!Init
<1>2. IInv /\ [Next]_vars => [Feed!Next]_(Feed!vars)
    <2>1. IInv /\ [Next]_vars => [Feed!Next]_<<log, Present, Greeting, start, raced, Shown>>
        BY FeedStep
    <2>2. QED
        BY <2>1 DEF Feed!vars, Present, Greeting, Shown
<1>3. Init => IInv
    BY InitIInv
<1>4. IInv /\ [Next]_vars => IInv'
    BY IInvStep
<1>5. QED
    BY <1>1, <1>2, <1>3, <1>4, PTL DEF Spec, Feed!Spec

-------------------------------------------------------------------------------
(* The sync implements the progress store, with one row. *)

Only == {"row"}
Chap == [k \in Only |-> row]
Last == [k \in Only |-> IF log = <<>> THEN None ELSE log[Len(log)]]
Owed == {[worker |-> h, key |-> "row", chapter |-> chapter[h]] : h \in Pending}
Loose == IF disturbed THEN Only ELSE {}

LEMMA StoreVars ==
    Store!storeVars = <<Chap, Owed, Last, Loose>>
BY DEF Store!storeVars, Chap, Owed, Last, Loose, Only

(* The channel takes an update, which is then the last, or does not. *)
LEMMA OfferLast ==
    ASSUME TypeOK, NEW c \in Chapters, Offer(c)
    PROVE  \/ log' = log /\ Last' = Last
           \/ log' # log /\ Last' = [Last EXCEPT !["row"] = c]
<1>1. CASE log' = log
    BY <1>1 DEF Last
<1>2. CASE log' = Append(log, c)
    <2>1. /\ Len(log') = Len(log) + 1 /\ Len(log) \in Nat
          /\ log'[Len(log) + 1] = c
        BY <1>2, AppendFacts DEF TypeOK
    <2>2. log' # log /\ log' # <<>>
        BY <2>1
    <2>3. Last' = [k \in Only |-> c]
        BY <2>1, <2>2 DEF Last
    <2>4. QED
        BY <2>2, <2>3 DEF Last, Only
<1>3. QED
    BY <1>1, <1>2 DEF Offer

LEMMA StoreUpdates ==
    ASSUME TypeOK, NEW h \in Handlers, NEW c \in Chapters, UpdateProgress(h, c)
    PROVE  Store!StoreNext
<1>1. /\ h \notin Pending /\ row # None /\ row' = c /\ UNCHANGED log
      /\ chapter' = [chapter EXCEPT ![h] = c] /\ chapter \in [Handlers -> Chapters \cup {None}]
      /\ disturbed' = (Pending # {}) /\ c # None
    BY ProgressSyncAssumption DEF UpdateProgress, TypeOK
<1>2. Chap["row"] # None /\ Chap' = [Chap EXCEPT !["row"] = c] /\ Last' = Last
    BY <1>1 DEF Chap, Last, Only
<1>3. \A o \in Owed : o.worker # h
    BY <1>1 DEF Owed
<1>4. Owed' = Owed \cup {[worker |-> h, key |-> "row", chapter |-> c]}
    <2>1. Pending' = Pending \cup {h}
        BY <1>1 DEF Pending
    <2>2. chapter'[h] = c /\ \A g \in Pending : chapter'[g] = chapter[g]
        BY <1>1 DEF Pending
    <2>3. QED
        BY <1>1, <2>1, <2>2 DEF Owed
<1>5. {o \in Owed : o.key = "row"} = {} <=> Pending = {}
    <2>1. \A o \in Owed : o.key = "row"
        BY DEF Owed
    <2>2. Owed = {} <=> Pending = {}
        BY DEF Owed
    <2>3. QED
        BY <2>1, <2>2
<1>6. Loose' = IF {o \in Owed : o.key = "row"} = {} THEN Loose \ {"row"}
                                                    ELSE Loose \cup {"row"}
    BY <1>1, <1>5 DEF Loose, Only
<1>7. Store!Update(h, "row", c)
    BY <1>2, <1>3, <1>4, <1>6
    DEF Store!Update, Store!Owing, Chap, Owed, Last, Loose, Only
<1>8. QED
    BY <1>7 DEF Store!StoreNext

LEMMA StorePublishes ==
    ASSUME TypeOK, NEW h \in Handlers, Publish(h)
    PROVE  Store!StoreNext
<1>1. PICK c \in Chapters : c = chapter[h]
    BY DEF Publish, Pending, TypeOK
<1>2. /\ h \in Pending /\ Offer(c) /\ chapter' = [chapter EXCEPT ![h] = None]
      /\ UNCHANGED row /\ disturbed' = (disturbed \/ log' = log)
      /\ chapter \in [Handlers -> Chapters \cup {None}]
    BY <1>1 DEF Publish, TypeOK
<1>3. PICK o \in Owed : o = [worker |-> h, key |-> "row", chapter |-> c]
    BY <1>1, <1>2 DEF Owed
<1>4. Owed' = Owed \ {o}
    <2>1. Pending' = Pending \ {h}
        BY <1>2 DEF Pending
    <2>2. \A g \in Pending \ {h} : chapter'[g] = chapter[g]
        BY <1>2 DEF Pending
    <2>3. QED
        BY <1>1, <1>3, <2>1, <2>2 DEF Owed
<1>5. \/ Last' = [Last EXCEPT ![o.key] = o.chapter] /\ Loose' = Loose
      \/ Loose' = Loose \cup {o.key} /\ Last' = Last
    BY <1>2, <1>3, OfferLast DEF Loose, Only, TypeOK
<1>6. Chap' = Chap
    BY <1>2 DEF Chap
<1>7. Store!Publish(o)
    BY <1>4, <1>5, <1>6 DEF Store!Publish, Chap, Owed, Last, Loose, Only
<1>8. QED
    BY <1>7 DEF Store!StoreNext, Owed

(* What the other requests do to the row and the channel. *)
LEMMA StoreOthers ==
    ASSUME TypeOK, NEW c \in Chapters,
           PublishOnly(c) \/ AddToLibrary(c)
    PROVE  Store!StoreNext
<1>1. CASE PublishOnly(c)
    <2>1. Chap' = Chap /\ Owed' = Owed /\ Loose' = Loose \cup {"row"}
        BY <1>1 DEF PublishOnly, Chap, Owed, Loose, Only, Pending
    <2>2. Last' \in {Last, [Last EXCEPT !["row"] = c]}
        BY <1>1, OfferLast DEF PublishOnly
    <2>3. Store!PublishOnly("row", c)
        BY <2>1, <2>2 DEF Store!PublishOnly, Chap, Owed, Last, Loose, Only
    <2>4. QED
        BY <2>3 DEF Store!StoreNext
<1>2. CASE AddToLibrary(c)
    <2>1. /\ Chap' = [Chap EXCEPT !["row"] = c] /\ Owed' = Owed
          /\ Last' = Last /\ Loose' = Loose \cup {"row"}
        BY <1>2 DEF AddToLibrary, Chap, Owed, Last, Loose, Only, Pending
    <2>2. Store!Add("row", c)
        BY <2>1 DEF Store!Add, Chap, Owed, Last, Loose, Only
    <2>3. QED
        BY <2>2 DEF Store!StoreNext
<1>3. QED
    BY <1>1, <1>2

(* Handlers, row and channel are a progress store with one row: they keep  *)
(* the same promises as the handlers of httpapi/server.go and grpc/        *)
(* service.go with all their statements (LibraryProofs.tla), and whatever  *)
(* is shown of such a store holds for both.                                *)
THEOREM SyncImplementsStore == Spec => StoreSpec
<1>1. Init => Store!StoreInit
    BY DEF Init, Store!StoreInit, Pending
<1>2. ASSUME TypeOK, [Next]_vars
      PROVE  [Store!StoreNext]_(Store!storeVars)
    <2>1. CASE UNCHANGED <<store, log>>
        <3>1. UNCHANGED <<Chap, Owed, Last, Loose>>
            BY <2>1 DEF store, Chap, Owed, Last, Loose, Pending
        <3>2. QED
            BY <3>1, StoreVars DEF Chap, Owed, Last, Loose, Only, Store!storeVars
    <2>2. CASE UNCHANGED vars \/ Loop
        BY <2>1, <2>2 DEF vars, Loop, Receive, CollectTargets, Send, BroadcastDone
    <2>3. ASSUME NEW s \in Sessions,
                 \/ Register(s) \/ Welcomed(s) \/ PrintLine(s)
                 \/ Disconnect(s) \/ Unregister(s)
          PROVE  [Store!StoreNext]_(Store!storeVars)
        BY <2>1, <2>3 DEF Register, Welcomed, PrintLine, Disconnect, Unregister
    <2>4. CASE RemoveFromLibrary
        <3>1. Store!Remove("row")
            BY <2>4 DEF RemoveFromLibrary, Store!Remove, Pending
        <3>2. QED
            BY <3>1 DEF Store!StoreNext
    <2>5. QED
        BY <1>2, <2>2, <2>3, <2>4, StoreUpdates, StorePublishes, StoreOthers DEF Next
<1>3. QED
    BY <1>1, <1>2, TypeCorrect, PTL DEF Spec, StoreSpec, Store!StoreSpec
===============================================================================
