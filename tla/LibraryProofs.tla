---------------------------- MODULE LibraryProofs ----------------------------
(***************************************************************************)
(* Proofs about Library: its type invariant, the foreign keys, that stored *)
(* chapters which were checked are within the total, that the sessions are *)
(* shown what is stored, that ratings survive, and the refinement of the   *)
(* abstract store; for any number of workers, users and mangas, and any    *)
(* chapters and totals.                                                    *)
(***************************************************************************)
EXTENDS Library, TLAPS

(* What each point of a handler says of its request. *)
Serving ==
    \A w \in Workers :
        /\ pc[w] # "idle" => request[w] \in Request
        /\ pc[w] = "check" => request[w].op = "put" /\ Value(w) >= 0
        /\ pc[w] = "update" => request[w].op \in {"put", "grpc"}
        /\ pc[w] = "rate" => Value(w) \in 0..10

(* A chapter that has passed the check is still good, unless the total has *)
(* been changed since.                                                     *)
Checked ==
    \A w \in Workers :
        /\ pc[w] = "update"
        /\ request[w].op = "put"
        /\ request[w].manga \notin relisted
        => LET total == manga[request[w].manga]
           IN  /\ total # None
               /\ total > 0 => Value(w) \in 0..total

(* Of a row that is not disturbed the chapter was published, or a single   *)
(* handler is about to publish it.                                         *)
ShownOrPending ==
    \A k \in Keys \ disturbed :
        rows[k] # None =>
            \/ Pending(k) = {} /\ shown[k] = rows[k].chapter
            \/ \E w \in Workers : Pending(k) = {w} /\ Value(w) = rows[k].chapter

IInv ==
    /\ TypeOK
    /\ Serving
    /\ NoOrphans
    /\ Checked
    /\ WithinTotal
    /\ ShownOrPending

-------------------------------------------------------------------------------
(* Who answers leaves the others alone. *)
LEMMA AnswerFacts ==
    ASSUME TypeOK, NEW w \in Workers, Answer(w)
    PROVE  /\ pc'[w] = "idle" /\ request'[w] = None
           /\ \A x \in Workers \ {w} : pc'[x] = pc[x] /\ request'[x] = request[x]
           /\ pc' \in [Workers -> {"idle", "check", "update", "publish", "find",
                                   "insert", "delete", "rate", "upsert"}]
           /\ request' \in [Workers -> Request \cup {None}]
  BY DEF Answer, TypeOK

LEMMA ProceedFacts ==
    ASSUME TypeOK, NEW w \in Workers,
           NEW step \in {"update", "publish", "insert"}, Proceed(w, step)
    PROVE  /\ pc'[w] = step /\ request' = request
           /\ \A x \in Workers \ {w} : pc'[x] = pc[x]
           /\ pc' \in [Workers -> {"idle", "check", "update", "publish", "find",
                                   "insert", "delete", "rate", "upsert"}]
  BY DEF Proceed, TypeOK

(* A request that a handler serves names a key of user_progress. *)
LEMMA ServedKey ==
    ASSUME Serving, NEW w \in Workers, pc[w] # "idle"
    PROVE  /\ Key(w) \in Keys
           /\ request[w].user \in Users /\ request[w].manga \in Mangas
           /\ Value(w) \in Int /\ request[w].op \in Ops
  BY DEF Serving, Request, Key, Keys, Value

LEMMA ArriveFacts ==
    ASSUME TypeOK, NEW w \in Workers, NEW op \in Ops, NEW u \in Users, NEW m \in Mangas,
           NEW n \in Accepted(op),
           Arrive(w, [op |-> op, user |-> u, manga |-> m, value |-> n])
    PROVE  /\ pc[w] = "idle"
           /\ pc'[w] = FirstStep(op)
           /\ request'[w] = [op |-> op, user |-> u, manga |-> m, value |-> n]
           /\ n \in Int
           /\ \A x \in Workers \ {w} : pc'[x] = pc[x] /\ request'[x] = request[x]
           /\ pc' \in [Workers -> {"idle", "check", "update", "publish", "find",
                                   "insert", "delete", "rate", "upsert"}]
           /\ request' \in [Workers -> Request \cup {None}]
           /\ UNCHANGED <<tables, shown, history>>
<1> DEFINE r == [op |-> op, user |-> u, manga |-> m, value |-> n]
<1>1. n \in Int
  BY LibraryAssumption DEF Accepted, Ops
<1>2. r \in Request
  BY <1>1 DEF Request
<1>3. FirstStep(op) \in {"check", "update", "publish", "find", "insert", "delete", "rate", "upsert"}
  BY DEF FirstStep, Ops
<1>4. pc[w] = "idle" /\ UNCHANGED <<tables, shown, history>>
      /\ request' = [request EXCEPT ![w] = r] /\ pc' = [pc EXCEPT ![w] = FirstStep(op)]
  BY DEF Arrive
<1> HIDE DEF r
<1>5. /\ request'[w] = r
      /\ \A x \in Workers \ {w} : pc'[x] = pc[x] /\ request'[x] = request[x]
      /\ request' \in [Workers -> Request \cup {None}]
  BY <1>2, <1>4 DEF TypeOK
<1>6. /\ pc'[w] = FirstStep(op)
      /\ pc' \in [Workers -> {"idle", "check", "update", "publish", "find",
                                   "insert", "delete", "rate", "upsert"}]
  BY <1>3, <1>4 DEF TypeOK
<1> QED
  BY <1>1, <1>4, <1>5, <1>6 DEF r

(* Every step keeps the types. *)
LEMMA TypeStep ==
    ASSUME TypeOK, Serving, [Next]_vars
    PROVE  TypeOK'
<1> USE LibraryAssumption
<1>1. ASSUME NEW w \in Workers, NEW op \in Ops, NEW u \in Users, NEW m \in Mangas,
             NEW n \in Accepted(op),
             Arrive(w, [op |-> op, user |-> u, manga |-> m, value |-> n])
      PROVE  TypeOK'
  BY <1>1, ArriveFacts DEF TypeOK, tables, history
<1>2. ASSUME NEW w \in Workers, Fail(w) \/ UpdateNothing(w)
      PROVE  TypeOK'
  BY <1>2, AnswerFacts DEF Fail, UpdateNothing, TypeOK, tables, history
<1>3. ASSUME NEW w \in Workers, Check(w) \/ Find(w)
      PROVE  TypeOK'
  BY <1>3, AnswerFacts, ProceedFacts DEF Check, Find, TypeOK, tables, history
<1>4. ASSUME NEW w \in Workers, Update(w)
      PROVE  TypeOK'
  <2>1. Key(w) \in Keys /\ Value(w) \in Int
    BY <1>4, ServedKey DEF Update
  <2>2. rows[Key(w)] \in Row
    BY <1>4, <2>1 DEF Update, TypeOK
  <2>3. rows' = [rows EXCEPT ![Key(w)] = [@ EXCEPT !.chapter = Value(w)]]
    BY <1>4 DEF Update
  <2>4. [rows[Key(w)] EXCEPT !.chapter = Value(w)] \in Row
    BY <2>1, <2>2 DEF Row
  <2>5. rows' \in [Keys -> Row \cup {None}]
    BY <2>3, <2>4 DEF TypeOK
  <2>6. disturbed' \subseteq Keys /\ unchecked' \subseteq Keys
    BY <1>4, <2>1 DEF Update, TypeOK
  <2> QED
    BY <1>4, <2>5, <2>6, ProceedFacts DEF Update, TypeOK
<1>5. ASSUME NEW w \in Workers, Publish(w)
      PROVE  TypeOK'
  <2>1. Key(w) \in Keys /\ Value(w) \in Int
    BY <1>5, ServedKey DEF Publish
  <2>2. shown' \in [Keys -> Int \cup {None}] /\ disturbed' \subseteq Keys
    BY <1>5, <2>1 DEF Publish, TypeOK
  <2> QED
    BY <1>5, <2>2, AnswerFacts DEF Publish, TypeOK, tables
<1>6. ASSUME NEW w \in Workers, Insert(w)
      PROVE  TypeOK'
  <2>1. Key(w) \in Keys /\ Value(w) \in Int
    BY <1>6, ServedKey DEF Insert
  <2>2. rows[Key(w)] # None => rows[Key(w)].rating \in 0..10
    BY <2>1 DEF TypeOK, Row
  <2>3. [chapter |-> Value(w),
         rating |-> IF rows[Key(w)] = None THEN 0 ELSE rows[Key(w)].rating] \in Row
    BY <2>1, <2>2 DEF Row
  <2>4. rows' \in [Keys -> Row \cup {None}]
    BY <1>6, <2>3 DEF Insert, TypeOK
  <2>5. disturbed' \subseteq Keys /\ unchecked' \subseteq Keys
    BY <1>6, <2>1 DEF Insert, TypeOK
  <2> QED
    BY <1>6, <2>4, <2>5, AnswerFacts DEF Insert, TypeOK
<1>7. ASSUME NEW w \in Workers, Delete(w)
      PROVE  TypeOK'
  <2>1. rows' \in [Keys -> Row \cup {None}]
    BY <1>7 DEF Delete, TypeOK
  <2> QED
    BY <1>7, <2>1, AnswerFacts DEF Delete, TypeOK, history
<1>8. ASSUME NEW w \in Workers, Rate(w)
      PROVE  TypeOK'
  <2>1. Key(w) \in Keys /\ Value(w) \in 0..10
    BY <1>8, ServedKey DEF Rate, Serving
  <2>2. ASSUME rows[Key(w)] # None
        PROVE  [rows[Key(w)] EXCEPT !.rating = Value(w)] \in Row
    BY <2>1, <2>2 DEF Row, TypeOK
  <2>3. \/ rows' = rows
        \/ /\ rows[Key(w)] # None
           /\ rows' = [rows EXCEPT ![Key(w)] = [@ EXCEPT !.rating = Value(w)]]
    BY <1>8 DEF Rate
  <2>4. rows' \in [Keys -> Row \cup {None}]
    BY <2>2, <2>3 DEF TypeOK
  <2> QED
    BY <1>8, <2>4, AnswerFacts DEF Rate, TypeOK, history
<1>9. ASSUME NEW w \in Workers, Upsert(w)
      PROVE  TypeOK'
  <2>1. request[w].manga \in Mangas /\ Value(w) \in Int
    BY <1>9, ServedKey DEF Upsert
  <2> QED
    BY <1>9, <2>1, AnswerFacts DEF Upsert, TypeOK
<1>10. CASE UNCHANGED vars
  BY <1>10 DEF vars, workers, tables, history, TypeOK
<1> QED
  BY <1>1, <1>2, <1>3, <1>4, <1>5, <1>6, <1>7, <1>8, <1>9, <1>10 DEF Next

-------------------------------------------------------------------------------
(* Whoever was not the one to step is where it was; the one that stepped   *)
(* has answered, gone on or begun.                                         *)
LEMMA WorkerStep ==
    ASSUME TypeOK, [Next]_vars, NEW x \in Workers
    PROVE  \/ pc'[x] = pc[x] /\ request'[x] = request[x]
           \/ pc'[x] = "idle" /\ (pc[x] = "publish" => Publish(x))
           \/ /\ pc[x] = "check" /\ pc'[x] = "update" /\ request'[x] = request[x]
              /\ Check(x)
           \/ pc[x] = "update" /\ pc'[x] = "publish" /\ request'[x] = request[x] /\ Update(x)
           \/ pc[x] = "find" /\ pc'[x] = "insert" /\ request'[x] = request[x]
           \/ \E op \in Ops, u \in Users, m \in Mangas : \E n \in Accepted(op) :
                 Arrive(x, [op |-> op, user |-> u, manga |-> m, value |-> n])
<1>1. ASSUME NEW w \in Workers, w # x, Answer(w)
      PROVE  pc'[x] = pc[x] /\ request'[x] = request[x]
  BY <1>1, AnswerFacts
<1>2. ASSUME NEW w \in Workers, w # x, NEW step \in {"update", "publish", "insert"}, Proceed(w, step)
      PROVE  pc'[x] = pc[x] /\ request'[x] = request[x]
  BY <1>2, ProceedFacts
<1>3. ASSUME NEW w \in Workers, NEW op \in Ops, NEW u \in Users, NEW m \in Mangas,
             NEW n \in Accepted(op), w # x,
             Arrive(w, [op |-> op, user |-> u, manga |-> m, value |-> n])
      PROVE  pc'[x] = pc[x] /\ request'[x] = request[x]
  BY <1>3, ArriveFacts
<1>4. ASSUME NEW w \in Workers, w # x,
             Fail(w) \/ Check(w) \/ Update(w) \/ UpdateNothing(w) \/ Publish(w)
                \/ Find(w) \/ Insert(w) \/ Delete(w) \/ Rate(w) \/ Upsert(w)
      PROVE  pc'[x] = pc[x] /\ request'[x] = request[x]
  BY <1>1, <1>2, <1>4 DEF Fail, Check, Update, UpdateNothing, Publish, Find,
                          Insert, Delete, Rate, Upsert
<1>5. CASE Fail(x) \/ UpdateNothing(x) \/ Publish(x) \/ Insert(x) \/ Delete(x) \/ Rate(x) \/ Upsert(x)
  <2>1. Answer(x) /\ (pc[x] = "publish" => Publish(x))
    BY <1>5 DEF Fail, UpdateNothing, Publish, Insert, Delete, Rate, Upsert
  <2> QED
    BY <2>1, AnswerFacts
<1>6. CASE Check(x) \/ Find(x)
  BY <1>6, AnswerFacts, ProceedFacts DEF Check, Find
<1>7. CASE Update(x)
  BY <1>7, ProceedFacts DEF Update
<1>8. CASE UNCHANGED vars
  BY <1>8 DEF vars, workers
<1> QED
  BY <1>3, <1>4, <1>5, <1>6, <1>7, <1>8 DEF Next

LEMMA ServingStep ==
    ASSUME TypeOK, Serving, [Next]_vars
    PROVE  Serving'
<1>1. SUFFICES ASSUME NEW x \in Workers
               PROVE  /\ pc'[x] # "idle" => request'[x] \in Request
                      /\ pc'[x] = "check" => request'[x].op = "put" /\ request'[x].value >= 0
                      /\ pc'[x] = "update" => request'[x].op \in {"put", "grpc"}
                      /\ pc'[x] = "rate" => request'[x].value \in 0..10
  BY DEF Serving, Value
<1>2. ASSUME NEW op \in Ops, NEW u \in Users, NEW m \in Mangas, NEW n \in Accepted(op),
             Arrive(x, [op |-> op, user |-> u, manga |-> m, value |-> n])
      PROVE  /\ pc'[x] # "idle" => request'[x] \in Request
             /\ pc'[x] = "check" => request'[x].op = "put" /\ request'[x].value >= 0
             /\ pc'[x] = "update" => request'[x].op \in {"put", "grpc"}
             /\ pc'[x] = "rate" => request'[x].value \in 0..10
  <2>1. pc'[x] = FirstStep(op) /\ n \in Int
        /\ request'[x] = [op |-> op, user |-> u, manga |-> m, value |-> n]
    BY <1>2, ArriveFacts
  <2>2. request'[x] \in Request /\ request'[x].op = op /\ request'[x].value = n
    BY <2>1 DEF Request
  <2>3. FirstStep(op) = "check" => op = "put"
    BY DEF FirstStep, Ops
  <2>4. FirstStep(op) = "update" => op = "grpc"
    BY DEF FirstStep, Ops
  <2>5. FirstStep(op) = "rate" => op = "rate"
    BY DEF FirstStep, Ops
  <2>6. op = "put" => n >= 0
    BY <1>2 DEF Accepted
  <2>7. op = "rate" => n \in 0..10
    BY <1>2 DEF Accepted
  <2> QED
    BY <2>1, <2>2, <2>3, <2>4, <2>5, <2>6, <2>7
<1> QED
  BY <1>2, WorkerStep DEF Serving, Value

-------------------------------------------------------------------------------
(* Only these steps touch the tables and what is shown. *)
LEMMA TableStep ==
    ASSUME [Next]_vars
    PROVE  \/ UNCHANGED <<tables, shown, history>>
           \/ \E w \in Workers : Update(w) \/ Publish(w) \/ Insert(w) \/ Delete(w)
                                 \/ Rate(w) \/ Upsert(w)
<1>1. ASSUME NEW w \in Workers,
             \/ Fail(w) \/ Check(w) \/ UpdateNothing(w) \/ Find(w)
             \/ \E op \in Ops, u \in Users, m \in Mangas : \E n \in Accepted(op) :
                   Arrive(w, [op |-> op, user |-> u, manga |-> m, value |-> n])
      PROVE  UNCHANGED <<tables, shown, history>>
  BY <1>1 DEF Fail, Check, UpdateNothing, Find, Arrive
<1>2. CASE UNCHANGED vars
  BY <1>2 DEF vars
<1> QED
  BY <1>1, <1>2 DEF Next

(* What each of them does to rows and manga, key by key. *)
LEMMA RowStep ==
    ASSUME TypeOK, Serving, NEW w \in Workers, NEW k \in Keys
    PROVE  /\ Update(w) => /\ manga' = manga
                           /\ rows[Key(w)] # None /\ rows'[Key(w)] # None
                           /\ rows'[Key(w)].chapter = Value(w)
                           /\ rows'[Key(w)].rating = rows[Key(w)].rating
                           /\ k # Key(w) => rows'[k] = rows[k]
           /\ Insert(w) => /\ manga' = manga
                           /\ rows[Key(w)] # None => rows'[Key(w)].rating = rows[Key(w)].rating
                           /\ k # Key(w) => rows'[k] = rows[k]
           /\ Delete(w) => /\ manga' = manga
                           /\ rows'[Key(w)] = None
                           /\ k # Key(w) => rows'[k] = rows[k]
           /\ Rate(w) => /\ manga' = manga
                         /\ rows[Key(w)] = None <=> rows'[Key(w)] = None
                         /\ rows[Key(w)] # None =>
                               rows'[Key(w)].chapter = rows[Key(w)].chapter
                         /\ k # Key(w) => rows'[k] = rows[k]
<1>1. /\ rows \in [Keys -> Row \cup {None}]
      /\ pc[w] # "idle" => Key(w) \in Keys
      /\ \A r \in Row : r # None
  BY ServedKey, LibraryAssumption DEF TypeOK, Row
<1>2. CASE Update(w)
  <2>1. Key(w) \in Keys /\ rows[Key(w)] \in Row /\ Value(w) \in Int
    BY <1>1, <1>2, ServedKey DEF Update
  <2>2. /\ rows' = [rows EXCEPT ![Key(w)] = [@ EXCEPT !.chapter = Value(w)]]
        /\ pc[w] = "update" /\ manga' = manga
    BY <1>2 DEF Update
  <2>3. rows'[Key(w)] = [rows[Key(w)] EXCEPT !.chapter = Value(w)]
    BY <1>1, <2>1, <2>2
  <2>4. rows'[Key(w)] \in Row /\ rows'[Key(w)].chapter = Value(w)
        /\ rows'[Key(w)].rating = rows[Key(w)].rating
    BY <2>1, <2>3 DEF Row
  <2> QED
    BY <1>1, <2>1, <2>2, <2>4 DEF Insert, Delete, Rate
<1>3. CASE Insert(w)
  <2>1. Key(w) \in Keys /\ pc[w] = "insert" /\ manga' = manga
    BY <1>1, <1>3 DEF Insert
  <2>2. rows' = [rows EXCEPT ![Key(w)] =
                    [chapter |-> Value(w), rating |-> IF @ = None THEN 0 ELSE @.rating]]
    BY <1>3 DEF Insert
  <2>3. rows'[Key(w)] = [chapter |-> Value(w),
                         rating |-> IF rows[Key(w)] = None THEN 0 ELSE rows[Key(w)].rating]
    BY <1>1, <2>1, <2>2
  <2>4. k # Key(w) => rows'[k] = rows[k]
    BY <1>1, <2>1, <2>2
  <2>5. rows[Key(w)] # None => rows'[Key(w)].rating = rows[Key(w)].rating
    BY <2>3
  <2> QED
    BY <2>1, <2>4, <2>5 DEF Update, Delete, Rate
<1>4. CASE Delete(w)
  BY <1>1, <1>4 DEF Update, Insert, Delete, Rate
<1>5. CASE Rate(w)
  <2>1. Key(w) \in Keys /\ pc[w] = "rate" /\ manga' = manga /\ Value(w) \in 0..10
    BY <1>1, <1>5 DEF Rate, Serving
  <2>2. CASE rows[Key(w)] = None
    BY <1>5, <2>1, <2>2 DEF Update, Insert, Delete, Rate
  <2>3. CASE rows[Key(w)] # None
    <3>1. rows' = [rows EXCEPT ![Key(w)] = [@ EXCEPT !.rating = Value(w)]]
      BY <1>5, <2>3 DEF Rate
    <3>2. rows'[Key(w)] = [rows[Key(w)] EXCEPT !.rating = Value(w)] /\ rows[Key(w)] \in Row
      BY <1>1, <2>1, <2>3, <3>1
    <3>3. rows'[Key(w)] \in Row /\ rows'[Key(w)].chapter = rows[Key(w)].chapter
      BY <2>1, <3>2 DEF Row
    <3> QED
      BY <1>1, <2>1, <2>3, <3>1, <3>3 DEF Update, Insert, Delete
  <2> QED
    BY <2>2, <2>3
<1> QED
  BY <1>2, <1>3, <1>4, <1>5

LEMMA OrphansStep ==
    ASSUME TypeOK, Serving, NoOrphans, [Next]_vars
    PROVE  NoOrphans'
<1>1. SUFFICES ASSUME NEW u \in Users, NEW m \in Mangas, rows'[<<u, m>>] # None
               PROVE  u \in Registered /\ manga'[m] # None
  BY DEF NoOrphans, GetLibrary
<1>2. <<u, m>> \in Keys
  BY DEF Keys
<1>3. ASSUME rows[<<u, m>>] # None, manga' = manga
      PROVE  u \in Registered /\ manga'[m] # None
  BY <1>3 DEF NoOrphans, GetLibrary
<1>4. ASSUME NEW w \in Workers, Update(w) \/ Delete(w) \/ Rate(w)
      PROVE  u \in Registered /\ manga'[m] # None
  BY <1>1, <1>2, <1>3, <1>4, RowStep
<1>5. ASSUME NEW w \in Workers, Insert(w)
      PROVE  u \in Registered /\ manga'[m] # None
  <2>1. CASE Key(w) = <<u, m>>
    <3>1. u = request[w].user /\ m = request[w].manga
      BY <2>1 DEF Key
    <3> QED
      BY <1>5, <3>1 DEF Insert, References
  <2>2. CASE Key(w) # <<u, m>>
    BY <1>1, <1>2, <1>3, <1>5, <2>2, RowStep
  <2> QED
    BY <2>1, <2>2
<1>6. ASSUME NEW w \in Workers, Upsert(w)
      PROVE  u \in Registered /\ manga'[m] # None
  <2>1. u \in Registered /\ manga[m] # None
    BY <1>1, <1>6 DEF Upsert, NoOrphans, GetLibrary
  <2>2. Value(w) \in Int /\ Value(w) # None
    BY <1>6, ServedKey, LibraryAssumption DEF Upsert
  <2> QED
    BY <1>6, <2>1, <2>2 DEF Upsert, TypeOK
<1>7. ASSUME UNCHANGED <<tables, shown, history>> \/ \E w \in Workers : Publish(w)
      PROVE  u \in Registered /\ manga'[m] # None
  BY <1>1, <1>7, <1>3 DEF Publish, tables
<1> QED
  BY <1>4, <1>5, <1>6, <1>7, TableStep

(* The total of a known manga stays unless the manga is relisted. *)
LEMMA MangaStep ==
    ASSUME TypeOK, Serving, [Next]_vars, NEW m \in Mangas, m \notin relisted'
    PROVE  /\ m \notin relisted
           /\ manga[m] # None => manga'[m] = manga[m]
<1>1. ASSUME NEW w \in Workers, Upsert(w)
      PROVE  /\ m \notin relisted
             /\ manga[m] # None => manga'[m] = manga[m]
  BY <1>1 DEF Upsert, TypeOK
<1>2. ASSUME NEW w \in Workers, Update(w) \/ Publish(w) \/ Insert(w) \/ Delete(w) \/ Rate(w)
      PROVE  manga' = manga /\ relisted' = relisted
  BY <1>2 DEF Update, Publish, Insert, Delete, Rate, tables, history
<1>3. CASE UNCHANGED <<tables, shown, history>>
  BY <1>3 DEF tables, history
<1> QED
  BY <1>1, <1>2, <1>3, TableStep

LEMMA CheckedStep ==
    ASSUME TypeOK, Serving, Checked, [Next]_vars
    PROVE  Checked'
<1> DEFINE m(x) == request[x].manga
<1>1. SUFFICES ASSUME NEW x \in Workers, pc'[x] = "update", request'[x].op = "put",
                      request'[x].manga \notin relisted'
               PROVE  /\ manga'[request'[x].manga] # None
                      /\ manga'[request'[x].manga] > 0
                            => request'[x].value \in 0..manga'[request'[x].manga]
  BY DEF Checked, Value
<1>2. CASE pc[x] = "update" /\ request'[x] = request[x]
  <2>1. m(x) \in Mangas /\ m(x) \notin relisted' /\ request[x].op = "put"
    BY <1>1, <1>2, ServedKey
  <2>2. m(x) \notin relisted /\ (manga[m(x)] # None => manga'[m(x)] = manga[m(x)])
    BY <2>1, MangaStep
  <2>3. manga[m(x)] # None /\ (manga[m(x)] > 0 => Value(x) \in 0..manga[m(x)])
    BY <1>2, <2>1, <2>2 DEF Checked
  <2> QED
    BY <1>2, <2>2, <2>3 DEF Value
<1>3. CASE pc[x] = "check" /\ Check(x)
  <2>1. Value(x) \in Int /\ Value(x) >= 0 /\ m(x) \in Mangas
    BY <1>3, ServedKey DEF Serving
  <2>2. manga' = manga /\ (Answer(x) \/ request' = request)
    BY <1>3 DEF Check, Proceed, tables
  <2>3. request' = request
    BY <1>1, <2>2, AnswerFacts
  <2>4. ~Answer(x)
    BY <1>1, AnswerFacts
  <2>5. manga[m(x)] # None /\ ~(manga[m(x)] > 0 /\ Value(x) > manga[m(x)])
    BY <1>3, <2>4 DEF Check
  <2>6. manga[m(x)] \in Int
    BY <2>1, <2>5 DEF TypeOK
  <2> QED
    BY <2>1, <2>2, <2>3, <2>5, <2>6 DEF Value
<1>4. ASSUME NEW op \in Ops, NEW u \in Users, NEW y \in Mangas, NEW n \in Accepted(op),
             Arrive(x, [op |-> op, user |-> u, manga |-> y, value |-> n])
      PROVE  FALSE
  <2>1. FirstStep(op) = "update" /\ op = "put"
    BY <1>1, <1>4, ArriveFacts
  <2> QED
    BY <2>1 DEF FirstStep
<1>5. \/ pc[x] = "update" /\ request'[x] = request[x]
      \/ pc[x] = "check" /\ Check(x)
  BY <1>1, <1>4, WorkerStep
<1> QED
  BY <1>2, <1>3, <1>5

LEMMA WithinTotalStep ==
    ASSUME TypeOK, Serving, NoOrphans, Checked, WithinTotal, [Next]_vars
    PROVE  WithinTotal'
<1>1. SUFFICES ASSUME NEW u \in Users, NEW m \in Mangas,
                      rows'[<<u, m>>] # None, <<u, m>> \notin unchecked',
                      m \notin relisted', manga'[m] > 0
               PROVE  rows'[<<u, m>>].chapter \in 0..manga'[m]
  BY DEF WithinTotal
<1>2. <<u, m>> \in Keys
  BY DEF Keys
<1>3. ASSUME rows[<<u, m>>] # None, <<u, m>> \notin unchecked,
             rows'[<<u, m>>].chapter = rows[<<u, m>>].chapter
      PROVE  rows'[<<u, m>>].chapter \in 0..manga'[m]
  <2>1. manga[m] # None
    BY <1>3 DEF NoOrphans, GetLibrary
  <2>2. m \notin relisted /\ manga'[m] = manga[m]
    BY <1>1, <2>1, MangaStep
  <2> QED
    BY <1>1, <1>3, <2>2 DEF WithinTotal
<1>4. ASSUME NEW w \in Workers, Update(w)
      PROVE  rows'[<<u, m>>].chapter \in 0..manga'[m]
  <2>1. CASE Key(w) = <<u, m>>
    <3>1. request[w].manga = m /\ request[w].op = "put"
      BY <1>1, <1>4, <2>1 DEF Update, Key
    <3>2. manga' = manga /\ relisted' = relisted /\ pc[w] = "update"
      BY <1>4 DEF Update
    <3>3. Value(w) \in 0..manga[m]
      BY <1>1, <3>1, <3>2 DEF Checked
    <3>4. rows'[<<u, m>>].chapter = Value(w)
      BY <1>2, <1>4, <2>1, RowStep
    <3> QED
      BY <3>2, <3>3, <3>4
  <2>2. CASE Key(w) # <<u, m>>
    <3>1. rows'[<<u, m>>] = rows[<<u, m>>]
      BY <1>2, <1>4, <2>2, RowStep
    <3>2. <<u, m>> \notin unchecked
      BY <1>1, <1>4, <2>2 DEF Update
    <3> QED
      BY <1>1, <1>3, <3>1, <3>2
  <2> QED
    BY <2>1, <2>2
<1>5. ASSUME NEW w \in Workers, Insert(w)
      PROVE  rows'[<<u, m>>].chapter \in 0..manga'[m]
  <2>1. Key(w) # <<u, m>> /\ <<u, m>> \notin unchecked
    BY <1>1, <1>5 DEF Insert
  <2>2. rows'[<<u, m>>] = rows[<<u, m>>]
    BY <1>2, <1>5, <2>1, RowStep
  <2> QED
    BY <1>1, <1>3, <2>1, <2>2
<1>6. ASSUME NEW w \in Workers, Delete(w) \/ Rate(w)
      PROVE  rows'[<<u, m>>].chapter \in 0..manga'[m]
  <2>1. unchecked' = unchecked
    BY <1>6 DEF Delete, Rate, history
  <2>2. rows[<<u, m>>] # None /\ rows'[<<u, m>>].chapter = rows[<<u, m>>].chapter
    BY <1>1, <1>2, <1>6, RowStep
  <2> QED
    BY <1>1, <1>3, <2>1, <2>2
<1>7. ASSUME UNCHANGED <<tables, shown, history>> \/ \E w \in Workers : Publish(w) \/ Upsert(w)
      PROVE  rows' = rows /\ unchecked' = unchecked
  BY <1>7 DEF Publish, Upsert, tables, history
<1> QED
  BY <1>1, <1>3, <1>4, <1>5, <1>6, <1>7, TableStep

(* Only Update and Publish change who is about to publish. *)
LEMMA PendingStep ==
    ASSUME TypeOK, [Next]_vars, NEW k \in Keys, NEW x \in Workers,
           ~Update(x), ~Publish(x)
    PROVE  /\ x \in Pending(k) => request'[x] = request[x]
           /\ x \in Pending(k) <=> /\ pc'[x] = "publish"
                                   /\ <<request'[x].user, request'[x].manga>> = k
                                   /\ request'[x].op # "tcp"
<1>1. ASSUME NEW op \in Ops, NEW u \in Users, NEW m \in Mangas, NEW n \in Accepted(op),
             Arrive(x, [op |-> op, user |-> u, manga |-> m, value |-> n])
      PROVE  /\ pc[x] = "idle"
             /\ pc'[x] = "publish" => request'[x].op = "tcp"
  <2>1. pc[x] = "idle" /\ pc'[x] = FirstStep(op)
        /\ request'[x] = [op |-> op, user |-> u, manga |-> m, value |-> n]
    BY <1>1, ArriveFacts
  <2>2. FirstStep(op) = "publish" => op = "tcp"
    BY DEF FirstStep, Ops
  <2> QED
    BY <2>1, <2>2
<1> QED
  BY <1>1, WorkerStep DEF Pending, Key

LEMMA PendingPrime ==
    ASSUME NEW k \in Keys
    PROVE  /\ Pending(k) \subseteq Workers
           /\ Pending(k)' = {x \in Workers : /\ pc'[x] = "publish"
                                             /\ <<request'[x].user, request'[x].manga>> = k
                                             /\ request'[x].op # "tcp"}
  BY DEF Pending, Key

LEMMA PendingSame ==
    ASSUME TypeOK, [Next]_vars, NEW k \in Keys,
           \A x \in Workers : ~Update(x) /\ ~Publish(x)
    PROVE  /\ Pending(k)' = Pending(k)
           /\ \A x \in Pending(k) : request'[x] = request[x]
  BY PendingPrime, PendingStep

LEMMA ShownStep ==
    ASSUME TypeOK, Serving, ShownOrPending, [Next]_vars
    PROVE  ShownOrPending'
<1>1. SUFFICES ASSUME NEW k \in Keys, k \notin disturbed', rows'[k] # None
               PROVE  \/ Pending(k)' = {} /\ shown'[k] = rows'[k].chapter
                      \/ \E w \in Workers : /\ Pending(k)' = {w}
                                            /\ request'[w].value = rows'[k].chapter
  BY DEF ShownOrPending, Value
<1>2. ASSUME k \notin disturbed, rows[k] # None, rows'[k].chapter = rows[k].chapter,
             shown'[k] = shown[k], Pending(k)' = Pending(k),
             \A x \in Pending(k) : request'[x] = request[x]
      PROVE  \/ Pending(k)' = {} /\ shown'[k] = rows'[k].chapter
             \/ \E w \in Workers : /\ Pending(k)' = {w}
                                   /\ request'[w].value = rows'[k].chapter
  <2>1. CASE Pending(k) = {} /\ shown[k] = rows[k].chapter
    BY <1>2, <2>1
  <2>2. ASSUME NEW w \in Workers, Pending(k) = {w}, Value(w) = rows[k].chapter
        PROVE  Pending(k)' = {w} /\ request'[w].value = rows'[k].chapter
    BY <1>2, <2>2 DEF Value
  <2> QED
    BY <1>2, <2>1, <2>2 DEF ShownOrPending
<1>3. CASE \A x \in Workers : ~Update(x) /\ ~Publish(x)
  <2>1. Pending(k)' = Pending(k) /\ \A x \in Pending(k) : request'[x] = request[x]
    BY <1>3, PendingSame
  <2>2. /\ k \notin disturbed /\ shown' = shown /\ rows[k] # None
        /\ rows'[k].chapter = rows[k].chapter
    <3>1. ASSUME NEW w \in Workers, Insert(w)
          PROVE  k \notin disturbed /\ shown' = shown /\ k # Key(w)
      BY <1>1, <3>1 DEF Insert
    <3>2. ASSUME NEW w \in Workers, Delete(w)
          PROVE  k \notin disturbed /\ shown' = shown /\ k # Key(w)
      BY <1>1, <3>2, RowStep DEF Delete, history
    <3>3. ASSUME NEW w \in Workers, Rate(w)
          PROVE  k \notin disturbed /\ shown' = shown
      BY <1>1, <3>3 DEF Rate, history
    <3>4. ASSUME UNCHANGED <<tables, shown, history>> \/ \E w \in Workers : Upsert(w)
          PROVE  k \notin disturbed /\ shown' = shown /\ rows' = rows
      BY <1>1, <3>4 DEF Upsert, tables, history
    <3> QED
      BY <1>1, <1>3, <3>1, <3>2, <3>3, <3>4, RowStep, TableStep
  <2> QED
    BY <1>2, <2>1, <2>2
<1>4. ASSUME NEW w \in Workers, Update(w)
      PROVE  \/ Pending(k)' = {} /\ shown'[k] = rows'[k].chapter
             \/ \E x \in Workers : /\ Pending(k)' = {x}
                                   /\ request'[x].value = rows'[k].chapter
  <2>1. /\ pc[w] = "update" /\ pc'[w] = "publish" /\ request' = request
        /\ \A x \in Workers \ {w} : pc'[x] = pc[x]
        /\ shown' = shown
        /\ request[w].op # "tcp"
    BY <1>4, ProceedFacts DEF Update, Serving
  <2>2. CASE k = Key(w)
    <3>1. Pending(k) = {}
      BY <1>1, <1>4, <2>2 DEF Update
    <3>2. Pending(k)' = {w}
      BY <2>1, <2>2, <3>1, PendingPrime DEF Pending, Key
    <3>3. rows'[k].chapter = Value(w)
      BY <1>4, <2>2, RowStep
    <3> QED
      BY <2>1, <3>2, <3>3 DEF Value
  <2>3. CASE k # Key(w)
    <3>1. Pending(k)' = Pending(k)
      BY <2>1, <2>3, PendingPrime DEF Pending, Key
    <3>2. k \notin disturbed
      BY <1>1, <1>4, <2>3 DEF Update
    <3>3. rows'[k] = rows[k]
      BY <1>4, <2>3, RowStep
    <3> QED
      BY <1>1, <1>2, <2>1, <3>1, <3>2, <3>3
  <2> QED
    BY <2>2, <2>3
<1>5. ASSUME NEW w \in Workers, Publish(w)
      PROVE  \/ Pending(k)' = {} /\ shown'[k] = rows'[k].chapter
             \/ \E x \in Workers : /\ Pending(k)' = {x}
                                   /\ request'[x].value = rows'[k].chapter
  <2>1. /\ pc[w] = "publish" /\ pc'[w] = "idle" /\ rows' = rows
        /\ \A x \in Workers \ {w} : pc'[x] = pc[x] /\ request'[x] = request[x]
        /\ shown' = [shown EXCEPT ![Key(w)] = Value(w)]
        /\ k \notin disturbed
        /\ request[w].op = "tcp" => k # Key(w)
    BY <1>1, <1>5, AnswerFacts DEF Publish, tables
  <2>2. CASE k = Key(w)
    <3>1. w \in Pending(k)
      BY <2>1, <2>2 DEF Pending
    <3>2. Pending(k) = {w} /\ Value(w) = rows[k].chapter
      BY <1>1, <2>1, <3>1 DEF ShownOrPending
    <3>3. Pending(k)' = {}
      BY <2>1, <3>2, PendingPrime DEF Pending, Key
    <3>4. shown'[k] = Value(w)
      BY <2>1, <2>2 DEF TypeOK
    <3> QED
      BY <2>1, <3>2, <3>3, <3>4
  <2>3. CASE k # Key(w)
    <3>1. w \notin Pending(k) /\ Pending(k)' = Pending(k)
      BY <2>1, <2>3, PendingPrime DEF Pending, Key
    <3>2. shown'[k] = shown[k]
      BY <2>1, <2>3 DEF TypeOK
    <3>3. \A x \in Pending(k) : request'[x] = request[x]
      BY <2>1, <3>1, PendingPrime
    <3> QED
      BY <1>1, <1>2, <2>1, <3>1, <3>2, <3>3
  <2> QED
    BY <2>2, <2>3
<1> QED
  BY <1>3, <1>4, <1>5

-------------------------------------------------------------------------------
LEMMA InitIInv == Init => IInv
<1> SUFFICES ASSUME Init
             PROVE  IInv
  OBVIOUS
<1>1. TypeOK
  BY DEF Init, TypeOK
<1>2. Serving /\ Checked
  BY DEF Init, Serving, Checked
<1>3. NoOrphans /\ WithinTotal /\ ShownOrPending
  BY DEF Init, NoOrphans, GetLibrary, WithinTotal, ShownOrPending, Keys
<1> QED
  BY <1>1, <1>2, <1>3 DEF IInv

LEMMA NextIInv == IInv /\ [Next]_vars => IInv'
  BY TypeStep, ServingStep, OrphansStep, CheckedStep, WithinTotalStep, ShownStep DEF IInv

(* The inductive invariant: what each point of a handler says of its       *)
(* request, of the manga it has looked up and of the row it has written.   *)
THEOREM LibraryInvariant == Spec => []IInv
  BY InitIInv, NextIInv, PTL DEF Spec

(* Every reachable state of the library has the declared types; ratings    *)
(* are within 0..10.                                                       *)
THEOREM TypeCorrect == Spec => []TypeOK
<1>1. IInv => TypeOK
  BY DEF IInv
<1> QED
  BY <1>1, LibraryInvariant, PTL

(* A row of user_progress belongs to a registered user and is in what      *)
(* GetLibrary shows that user.                                             *)
THEOREM RowsRefer == Spec => []NoOrphans
<1>1. IInv => NoOrphans
  BY DEF IInv
<1> QED
  BY <1>1, LibraryInvariant, PTL

(* A chapter that PUT /users/progress stored is within the manga's total,  *)
(* unless that has been changed, although check and UPDATE are two steps.  *)
THEOREM CheckedChapters == Spec => []WithinTotal
<1>1. IInv => WithinTotal
  BY DEF IInv
<1> QED
  BY <1>1, LibraryInvariant, PTL

(* Once the handlers are done with a row, the sessions were shown last     *)
(* what it holds, but for overlapping updates, additions and TCP clients.  *)
THEOREM LastShownIsStored == Spec => []ShownIsStored
<1>1. IInv => ShownIsStored
  BY DEF IInv, ShownOrPending, ShownIsStored
<1> QED
  BY <1>1, LibraryInvariant, PTL

(* No step but UpdateRating changes the rating of a row that stays.        *)
THEOREM RatingKept == Spec => RatingSurvives
<1>1. ASSUME IInv, [Next]_vars, NEW k \in Keys,
             rows[k] # None, rows'[k] # None, rows'[k].rating # rows[k].rating
      PROVE  \E w \in Workers : pc[w] = "rate" /\ Key(w) = k
  <2>1. TypeOK /\ Serving
    BY <1>1 DEF IInv
  <2>2. ASSUME NEW w \in Workers, Update(w) \/ Insert(w) \/ Delete(w)
        PROVE  FALSE
    BY <1>1, <2>1, <2>2, RowStep
  <2>3. ASSUME NEW w \in Workers, Rate(w)
        PROVE  pc[w] = "rate" /\ Key(w) = k
    BY <1>1, <2>1, <2>3, RowStep DEF Rate
  <2>4. ASSUME UNCHANGED <<tables, shown, history>> \/ \E w \in Workers : Publish(w) \/ Upsert(w)
        PROVE  FALSE
    BY <1>1, <2>4 DEF Publish, Upsert, tables
  <2> QED
    BY <1>1, <2>2, <2>3, <2>4, TableStep
<1>2. IInv /\ [Next]_vars
        => [\A k \in Keys :
              rows[k] # None /\ rows'[k] # None /\ rows'[k].rating # rows[k].rating
              => \E w \in Workers : pc[w] = "rate" /\ Key(w) = k]_vars
  BY <1>1
<1> QED
  BY <1>2, LibraryInvariant, PTL DEF Spec, RatingSurvives

-------------------------------------------------------------------------------
(* Refinement: every row's handlers implement ProgressStore. *)

(* The chapter that a handler carries is one that requests may carry. *)
Carried ==
    \A w \in Workers :
        pc[w] \in {"check", "update", "publish", "find", "insert"} =>
            Value(w) \in Chapters

LEMMA CarriedStep ==
    ASSUME TypeOK, Serving, Carried, [Next]_vars
    PROVE  Carried'
<1>1. SUFFICES ASSUME NEW x \in Workers,
                      pc'[x] \in {"check", "update", "publish", "find", "insert"}
               PROVE  request'[x].value \in Chapters
  BY DEF Carried, Value
<1>2. ASSUME NEW op \in Ops, NEW u \in Users, NEW m \in Mangas, NEW n \in Accepted(op),
             Arrive(x, [op |-> op, user |-> u, manga |-> m, value |-> n])
      PROVE  request'[x].value \in Chapters
  <2>1. pc'[x] = FirstStep(op)
        /\ request'[x] = [op |-> op, user |-> u, manga |-> m, value |-> n]
    BY <1>2, ArriveFacts
  <2>2. op \in {"put", "grpc", "tcp", "add"}
    BY <1>1, <2>1 DEF FirstStep, Ops
  <2>3. n \in Chapters
    BY <2>2 DEF Accepted
  <2> QED
    BY <2>1, <2>3
<1> QED
  BY <1>1, <1>2, WorkerStep DEF Carried, Value

(* The mapped variables: chapters, and what is owed by whom. *)
Chap == [k \in Keys |-> IF rows[k] = None THEN None ELSE rows[k].chapter]
Owes(w) == pc[w] = "publish" /\ request[w].op # "tcp"
Owed == {[worker |-> w, key |-> Key(w), chapter |-> Value(w)] :
            w \in {x \in Workers : pc[x] = "publish" /\ request[x].op # "tcp"}}

LEMMA OwesStep ==
    ASSUME TypeOK, [Next]_vars, NEW x \in Workers, ~Update(x), ~Publish(x)
    PROVE  /\ (pc'[x] = "publish" /\ request'[x].op # "tcp") <=> Owes(x)
           /\ Owes(x) => request'[x] = request[x]
<1>1. ASSUME NEW op \in Ops, NEW u \in Users, NEW m \in Mangas, NEW n \in Accepted(op),
             Arrive(x, [op |-> op, user |-> u, manga |-> m, value |-> n])
      PROVE  /\ pc[x] = "idle"
             /\ pc'[x] = "publish" => request'[x].op = "tcp"
  <2>1. pc[x] = "idle" /\ pc'[x] = FirstStep(op)
        /\ request'[x] = [op |-> op, user |-> u, manga |-> m, value |-> n]
    BY <1>1, ArriveFacts
  <2>2. FirstStep(op) = "publish" => op = "tcp"
    BY DEF FirstStep, Ops
  <2> QED
    BY <2>1, <2>2
<1> QED
  BY <1>1, WorkerStep DEF Owes

(* Workers that step to and from nothing owed leave what is owed alone. *)
LEMMA OwedSame ==
    ASSUME \A x \in Workers :
              /\ (pc'[x] = "publish" /\ request'[x].op # "tcp") <=> Owes(x)
              /\ Owes(x) => request'[x] = request[x]
    PROVE  Owed' = Owed
<1> DEFINE W == {x \in Workers : pc[x] = "publish" /\ request[x].op # "tcp"}
<1>1. W' = W
  BY DEF Owes
<1>2. \A x \in W : Key(x)' = Key(x) /\ Value(x)' = Value(x)
  BY DEF Key, Value, Owes
<1>3. Owed = {[worker |-> x, key |-> Key(x), chapter |-> Value(x)] : x \in W}
  BY DEF Owed
<1>4. Owed' = {[worker |-> x, key |-> Key(x)', chapter |-> Value(x)'] : x \in W'}
  BY DEF Owed
<1> HIDE DEF W
<1> QED
  BY <1>1, <1>2, <1>3, <1>4

LEMMA OwedOf ==
    ASSUME NEW k
    PROVE  {o \in Owed : o.key = k} = {} <=> Pending(k) = {}
<1>1. ASSUME NEW o \in Owed, o.key = k
      PROVE  Pending(k) # {}
  <2>1. PICK w \in Workers : /\ pc[w] = "publish" /\ request[w].op # "tcp"
                             /\ o = [worker |-> w, key |-> Key(w), chapter |-> Value(w)]
    BY DEF Owed
  <2>2. Key(w) = k
    BY <1>1, <2>1
  <2> QED
    BY <2>1, <2>2 DEF Pending
<1>2. ASSUME NEW w \in Pending(k)
      PROVE  \E o \in Owed : o.key = k
  <2>1. [worker |-> w, key |-> Key(w), chapter |-> Value(w)] \in Owed
    BY DEF Owed, Pending
  <2> QED
    BY <2>1 DEF Pending
<1> QED
  BY <1>1, <1>2

(* The steps of the abstract store that the handlers take. *)
LEMMA StoreMoves ==
    ASSUME NEW w \in Workers, NEW k \in Keys, NEW n \in Chapters,
           \/ Store!Update(w, k, n) \/ Store!Add(k, n) \/ Store!PublishOnly(k, n)
           \/ Store!Remove(k)
    PROVE  Store!StoreNext
  BY DEF Store!StoreNext

LEMMA StoreUpdate ==
    ASSUME IInv, Carried, [Next]_vars, NEW w \in Workers, Update(w)
    PROVE  Store!StoreNext
<1> USE DEF IInv
<1>1. /\ Key(w) \in Keys /\ Value(w) \in Chapters /\ Value(w) \in Int
      /\ request[w].op # "tcp" /\ pc[w] = "update"
  BY ServedKey DEF Update, Serving, Carried
<1>2. /\ pc'[w] = "publish" /\ request' = request
      /\ \A x \in Workers \ {w} : pc'[x] = pc[x]
      /\ shown' = shown
  BY ProceedFacts DEF Update
<1>3. Chap[Key(w)] # None /\ Chap' = [Chap EXCEPT ![Key(w)] = Value(w)]
  <2>1. \A k \in Keys : Chap'[k] = IF k = Key(w) THEN Value(w) ELSE Chap[k]
    BY <1>1, RowStep DEF Chap
  <2>2. rows[Key(w)] \in Row
    BY <1>1, RowStep DEF TypeOK
  <2>3. Chap[Key(w)] # None
    BY <1>1, <2>2, LibraryAssumption, RowStep DEF Chap, Row
  <2> QED
    BY <1>1, <2>1, <2>3 DEF Chap
<1>4. /\ \A o \in Owed : o.worker # w
      /\ Owed' = Owed \cup {[worker |-> w, key |-> Key(w), chapter |-> Value(w)]}
  <2>1. \A x \in Workers : Key(x)' = Key(x) /\ Value(x)' = Value(x)
    BY <1>2 DEF Key, Value
  <2>2. {x \in Workers : pc'[x] = "publish" /\ request'[x].op # "tcp"}
            = {x \in Workers : pc[x] = "publish" /\ request[x].op # "tcp"} \cup {w}
    BY <1>1, <1>2
  <2> QED
    BY <1>1, <2>1, <2>2 DEF Owed
<1>5. disturbed' = IF {o \in Owed : o.key = Key(w)} = {} THEN disturbed \ {Key(w)}
                                                       ELSE disturbed \cup {Key(w)}
  BY OwedOf DEF Update
<1>6. PICK k \in Keys, n \in Chapters : k = Key(w) /\ n = Value(w)
  BY <1>1
<1>7. Store!Update(w, k, n)
  BY <1>2, <1>3, <1>4, <1>5, <1>6 DEF Store!Update, Store!Owing, Chap, Owed
<1> QED
  BY <1>6, <1>7, StoreMoves

LEMMA StorePublish ==
    ASSUME IInv, Carried, [Next]_vars, NEW w \in Workers, Publish(w)
    PROVE  Store!StoreNext
<1> USE DEF IInv
<1>1. Key(w) \in Keys /\ Value(w) \in Chapters /\ pc[w] = "publish"
  BY ServedKey DEF Publish, Carried
<1>2. /\ pc'[w] = "idle" /\ UNCHANGED rows
      /\ \A x \in Workers \ {w} : pc'[x] = pc[x] /\ request'[x] = request[x]
      /\ shown' = [shown EXCEPT ![Key(w)] = Value(w)]
  BY AnswerFacts DEF Publish, tables
<1>3. Chap' = Chap
  BY <1>2 DEF Chap
<1>4. CASE request[w].op = "tcp"
  <2>1. Owed' = Owed
    BY <1>2, <1>4, OwedSame DEF Owes
  <2>2. PICK k \in Keys, n \in Chapters : k = Key(w) /\ n = Value(w)
    BY <1>1
  <2>3. Store!PublishOnly(k, n)
    BY <1>2, <1>3, <1>4, <2>1, <2>2 DEF Publish, Store!PublishOnly, Chap, Owed
  <2> QED
    BY <2>2, <2>3, StoreMoves
<1>5. CASE request[w].op # "tcp"
  <2>1. PICK o \in Owed : o = [worker |-> w, key |-> Key(w), chapter |-> Value(w)]
    BY <1>1, <1>5 DEF Owed
  <2>2. Owed' = Owed \ {o}
    <3>1. {x \in Workers : pc'[x] = "publish" /\ request'[x].op # "tcp"}
              = {x \in Workers : pc[x] = "publish" /\ request[x].op # "tcp"} \ {w}
      BY <1>2
    <3>2. \A x \in Workers \ {w} : Key(x)' = Key(x) /\ Value(x)' = Value(x)
      BY <1>2 DEF Key, Value
    <3> QED
      BY <2>1, <3>1, <3>2 DEF Owed
  <2>3. disturbed' = disturbed
    BY <1>5 DEF Publish
  <2>4. Store!Publish(o)
    BY <1>2, <1>3, <2>1, <2>2, <2>3 DEF Store!Publish, Chap, Owed
  <2> QED
    BY <2>1, <2>4 DEF Store!StoreNext, Owed
<1> QED
  BY <1>4, <1>5

LEMMA StoreOther ==
    ASSUME IInv, Carried, [Next]_vars, \A x \in Workers : ~Update(x) /\ ~Publish(x)
    PROVE  [Store!StoreNext]_(Store!storeVars)
<1> USE DEF IInv
<1>1. Owed' = Owed
  BY OwesStep, OwedSame
<1>2. ASSUME NEW w \in Workers, Insert(w)
      PROVE  Store!StoreNext
  <2>1. Key(w) \in Keys /\ Value(w) \in Chapters /\ Value(w) \in Int
    BY <1>2, ServedKey DEF Insert, Carried
  <2>2. rows'[Key(w)] # None /\ rows'[Key(w)].chapter = Value(w)
    <3>1. rows'[Key(w)] = [chapter |-> Value(w),
                           rating |-> IF rows[Key(w)] = None THEN 0
                                      ELSE rows[Key(w)].rating]
      BY <1>2, <2>1 DEF Insert, TypeOK
    <3>2. rows'[Key(w)].chapter \in Int /\ rows'[Key(w)].chapter = Value(w)
      BY <2>1, <3>1
    <3>3. rows[Key(w)] # None => rows[Key(w)].rating \in 0..10
      BY <2>1 DEF TypeOK, Row
    <3>4. rows'[Key(w)] \in [chapter : Int, rating : Int]
      BY <2>1, <3>1, <3>3
    <3> QED
      BY <3>2, <3>4, LibraryAssumption
  <2>3. Chap' = [Chap EXCEPT ![Key(w)] = Value(w)]
    BY <1>2, <2>1, <2>2, RowStep DEF Chap
  <2>4. Key(w) \in Registered \X Mangas
    BY <1>2, ServedKey DEF Insert, References, Key
  <2>5. PICK k \in Keys, n \in Chapters : k = Key(w) /\ n = Value(w)
    BY <2>1
  <2>6. Store!Add(k, n)
    BY <1>1, <1>2, <2>3, <2>4, <2>5 DEF Insert, Store!Add, Chap, Owed
  <2> QED
    BY <1>2, <2>5, <2>6, StoreMoves
<1>3. ASSUME NEW w \in Workers, Delete(w)
      PROVE  Store!StoreNext
  <2>1. Key(w) \in Keys
    BY <1>3, ServedKey DEF Delete
  <2>2. Chap' = [Chap EXCEPT ![Key(w)] = None]
    BY <1>3, <2>1, RowStep DEF Chap
  <2>3. PICK k \in Keys : k = Key(w)
    BY <2>1
  <2>4. Store!Remove(k)
    BY <1>1, <1>3, <2>2, <2>3 DEF Delete, history, Store!Remove, Chap, Owed
  <2> QED
    BY <2>4 DEF Store!StoreNext
<1>4. ASSUME NEW w \in Workers, Rate(w)
      PROVE  UNCHANGED Store!storeVars
  <2>1. \A k \in Keys : Chap'[k] = Chap[k]
    BY <1>4, RowStep DEF Chap
  <2>2. Chap' = Chap
    BY <2>1 DEF Chap
  <2> QED
    BY <1>1, <1>4, <2>2 DEF Rate, history, Store!storeVars, Chap, Owed
<1>5. ASSUME UNCHANGED <<tables, shown, history>> \/ \E w \in Workers : Upsert(w)
      PROVE  UNCHANGED Store!storeVars
  <2>1. UNCHANGED <<rows, shown, disturbed>>
    BY <1>5 DEF Upsert, tables, history
  <2>2. Chap' = Chap
    BY <2>1 DEF Chap
  <2> QED
    BY <1>1, <2>1, <2>2 DEF Store!storeVars, Chap, Owed
<1> QED
  BY <1>2, <1>3, <1>4, <1>5, TableStep

(* The handlers of httpapi/server.go and grpc/service.go implement, for    *)
(* every row, ProgressStore: an update makes no row and revives none, and  *)
(* is published by its handler as it was written, once.                    *)
THEOREM LibraryImplementsStore == Spec => StoreSpec
<1>1. Init => Store!StoreInit /\ Carried
  BY DEF Init, Store!StoreInit, Carried, Keys
<1>2. IInv /\ Carried /\ [Next]_vars => [Store!StoreNext]_(Store!storeVars) /\ Carried'
  BY StoreUpdate, StorePublish, StoreOther, CarriedStep DEF IInv
<1> QED
  BY <1>1, <1>2, LibraryInvariant, PTL DEF Spec, StoreSpec, Store!StoreSpec
===============================================================================
