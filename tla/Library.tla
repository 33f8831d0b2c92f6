------------------------------- MODULE Library -------------------------------
(***************************************************************************)
(* The reading library: the tables manga and user_progress, and the HTTP   *)
(* handlers, the gRPC method and the TCP message that change them or       *)
(* publish progress (internal/httpapi/server.go, internal/manga/           *)
(* repository.go, internal/grpc/service.go).  A handler is a goroutine     *)
(* that runs its SQL statements one by one; each statement is atomic and   *)
(* may fail (SQLite is busy, for one).  Handlers interleave freely.        *)
(*                                                                         *)
(* Abstracted: a manga is its total_chapters, a row of user_progress its   *)
(* chapter and rating, and of the publications of an update only the last  *)
(* is kept (how they reach the sessions is Broker.tla and TcpServer.tla).  *)
(***************************************************************************)
EXTENDS Integers

CONSTANTS Workers,    \* goroutines that serve requests, one at a time each
          Users,      \* user ids that tokens or requests may carry
          Registered, \* those with a row in users
          Mangas,
          Chapters,   \* bound: chapters that requests may carry, any integers
          Ratings,    \* bound: ratings that requests may carry
          Totals,     \* bound: values of total_chapters, 0 is unlimited
          None        \* no row

ASSUME LibraryAssumption ==
    /\ Registered \subseteq Users
    /\ Chapters \subseteq Int
    /\ Ratings \subseteq Int
    /\ Totals \subseteq Int
    /\ None \notin Int
    /\ None \notin [chapter : Int, rating : Int]

VARIABLES manga,     \* per manga id, total_chapters or None
          rows,      \* user_progress: per user and manga, the row or None
          pc,        \* where each worker is in its handler
          request,   \* the request it serves
          shown,     \* per user and manga, the chapter published last
          disturbed, \* history: keys for which shown need not be stored
          unchecked, \* history: keys whose chapter was not checked
          relisted   \* history: mangas whose total has been changed

workers == <<pc, request>>
tables == <<manga, rows>>
history == <<disturbed, unchecked, relisted>>
vars == <<workers, tables, shown, history>>

Keys == Users \X Mangas
Row == [chapter : Int, rating : 0..10]
Ops == {"put", "grpc", "tcp", "add", "remove", "rate", "admin"}
Request == [op : Ops, user : Users, manga : Mangas, value : Int]

Key(w) == <<request[w].user, request[w].manga>>
Value(w) == request[w].value

-------------------------------------------------------------------------------
Init ==
    /\ manga = [m \in Mangas |-> None]
    /\ rows = [k \in Keys |-> None]
    /\ pc = [w \in Workers |-> "idle"]
    /\ request = [w \in Workers |-> None]
    /\ shown = [k \in Keys |-> None]
    /\ disturbed = {}
    /\ unchecked = {}
    /\ relisted = {}

(* Mutant: a rating is not looked at. *)
AcceptedUnrated(op) ==
    CASE op = "put" -> {n \in Chapters : n >= 0}
      [] op \in {"grpc", "tcp", "add"} -> Chapters
      [] op = "rate" -> Ratings
      [] op = "admin" -> Totals
      [] op = "remove" -> {0}

(* What a handler lets pass; other values are answered with an error.      *)
Accepted(op) ==
    CASE op = "put" -> {n \in Chapters : n >= 0}
      [] op \in {"grpc", "tcp", "add"} -> Chapters
      [] op = "rate" -> {n \in Ratings : n \in 0..10}
      [] op = "admin" -> Totals
      [] op = "remove" -> {0}

(* The handler's first step after that. *)
FirstStep(op) ==
    CASE op = "put" -> "check"
      [] op = "grpc" -> "update"
      [] op = "tcp" -> "publish"
      [] op = "add" -> "find"
      [] op = "remove" -> "delete"
      [] op = "rate" -> "rate"
      [] op = "admin" -> "upsert"

Arrive(w, r) ==
    /\ pc[w] = "idle"
    /\ r.value \in Accepted(r.op)
    /\ request' = [request EXCEPT ![w] = r]
    /\ pc' = [pc EXCEPT ![w] = FirstStep(r.op)]
    /\ UNCHANGED <<tables, shown, history>>

Proceed(w, step) ==
    /\ pc' = [pc EXCEPT ![w] = step]
    /\ UNCHANGED request

Answer(w) ==
    /\ pc' = [pc EXCEPT ![w] = "idle"]
    /\ request' = [request EXCEPT ![w] = None]

(* A statement fails: the handler answers with an error. *)
Fail(w) ==
    /\ pc[w] \notin {"idle", "publish"}
    /\ Answer(w)
    /\ UNCHANGED <<tables, shown, history>>

-------------------------------------------------------------------------------
(* PUT /users/progress and the UpdateProgress of gRPC. *)

(* Mutant: one chapter too many passes. *)
CheckLoose(w) ==
    /\ pc[w] = "check"
    /\ LET total == manga[request[w].manga]
       IN  IF total = None \/ (total > 0 /\ Value(w) > total + 1)
               THEN Answer(w)
               ELSE Proceed(w, "update")
    /\ UNCHANGED <<tables, shown, history>>

(* GetByID, then the chapter against the manga's total. *)
Check(w) ==
    /\ pc[w] = "check"
    /\ LET total == manga[request[w].manga]
       IN  IF total = None \/ (total > 0 /\ Value(w) > total)
               THEN Answer(w)
               ELSE Proceed(w, "update")
    /\ UNCHANGED <<tables, shown, history>>

(* Handlers that have written the row k but not published yet. *)
Pending(k) == {w \in Workers : pc[w] = "publish" /\ Key(w) = k
                                                 /\ request[w].op # "tcp"}

(* Mutant: the update is stored and never published. *)
UpdateSilently(w) ==
    /\ pc[w] = "update"
    /\ rows[Key(w)] # None
    /\ rows' = [rows EXCEPT ![Key(w)].chapter = Value(w)]
    /\ disturbed' = IF Pending(Key(w)) = {} THEN disturbed \ {Key(w)}
                                            ELSE disturbed \cup {Key(w)}
    /\ unchecked' = IF request[w].op = "put" THEN unchecked \ {Key(w)}
                                             ELSE unchecked \cup {Key(w)}
    /\ Answer(w)
    /\ UNCHANGED <<manga, shown, relisted>>

(* UPDATE user_progress: the row is there. *)
Update(w) ==
    /\ pc[w] = "update"
    /\ rows[Key(w)] # None
    /\ rows' = [rows EXCEPT ![Key(w)].chapter = Value(w)]
    /\ disturbed' = IF Pending(Key(w)) = {} THEN disturbed \ {Key(w)}
                                            ELSE disturbed \cup {Key(w)}
    /\ unchecked' = IF request[w].op = "put" THEN unchecked \ {Key(w)}
                                             ELSE unchecked \cup {Key(w)}
    /\ Proceed(w, "publish")
    /\ UNCHANGED <<manga, shown, relisted>>

(* Mutant: an update of no row makes one. *)
UpdateInserts(w) ==
    /\ pc[w] = "update"
    /\ rows[Key(w)] = None
    /\ request[w].user \in Registered
    /\ manga[request[w].manga] # None
    /\ rows' = [rows EXCEPT ![Key(w)] = [chapter |-> Value(w), rating |-> 0]]
    /\ disturbed' = disturbed \cup {Key(w)}
    /\ unchecked' = unchecked \cup {Key(w)}
    /\ Proceed(w, "publish")
    /\ UNCHANGED <<manga, shown, relisted>>

(* No row: "manga not in user library". *)
UpdateNothing(w) ==
    /\ pc[w] = "update"
    /\ rows[Key(w)] = None
    /\ Answer(w)
    /\ UNCHANGED <<tables, shown, history>>

(* broker.PublishProgress; a TCP client's progress is published as it is. *)
Publish(w) ==
    /\ pc[w] = "publish"
    /\ shown' = [shown EXCEPT ![Key(w)] = Value(w)]
    /\ disturbed' = IF request[w].op = "tcp" THEN disturbed \cup {Key(w)}
                                             ELSE disturbed
    /\ Answer(w)
    /\ UNCHANGED <<tables, unchecked, relisted>>

-------------------------------------------------------------------------------
(* The library's other handlers. *)

(* POST /users/library: GetByID. *)
Find(w) ==
    /\ pc[w] = "find"
    /\ IF manga[request[w].manga] = None THEN Answer(w)
                                         ELSE Proceed(w, "insert")
    /\ UNCHANGED <<tables, shown, history>>

(* The foreign keys of user_progress. *)
References(w) ==
    request[w].user \in Registered /\ manga[request[w].manga] # None

(* Mutant: foreign keys are not enforced. *)
InsertUnreferenced(w) ==
    /\ pc[w] = "insert"
    /\ rows' = [rows EXCEPT ![Key(w)] =
                   [chapter |-> Value(w),
                    rating |-> IF @ = None THEN 0 ELSE @.rating]]
    /\ disturbed' = disturbed \cup {Key(w)}
    /\ unchecked' = unchecked \cup {Key(w)}
    /\ Answer(w)
    /\ UNCHANGED <<manga, shown, relisted>>

(* AddToLibrary: INSERT, or the chapter and status of the row that is there. *)
Insert(w) ==
    /\ pc[w] = "insert"
    /\ References(w)
    /\ rows' = [rows EXCEPT ![Key(w)] =
                   [chapter |-> Value(w),
                    rating |-> IF @ = None THEN 0 ELSE @.rating]]
    /\ disturbed' = disturbed \cup {Key(w)}
    /\ unchecked' = unchecked \cup {Key(w)}
    /\ Answer(w)
    /\ UNCHANGED <<manga, shown, relisted>>

Delete(w) ==
    /\ pc[w] = "delete"
    /\ rows' = [rows EXCEPT ![Key(w)] = None]
    /\ Answer(w)
    /\ UNCHANGED <<manga, shown, history>>

(* UPDATE of the rating, answered with "updated" with or without a row. *)
Rate(w) ==
    /\ pc[w] = "rate"
    /\ rows' = IF rows[Key(w)] = None
                   THEN rows
                   ELSE [rows EXCEPT ![Key(w)].rating = Value(w)]
    /\ Answer(w)
    /\ UNCHANGED <<manga, shown, history>>

(* GET /users/library: the user's rows, joined with the manga table. *)
GetLibrary(u) == {m \in Mangas : rows[<<u, m>>] # None /\ manga[m] # None}

(* adminAddManga, and an entry of the seeder. *)
Upsert(w) ==
    LET m == request[w].manga
    IN  /\ pc[w] = "upsert"
        /\ manga' = [manga EXCEPT ![m] = Value(w)]
        /\ relisted' = IF manga[m] \in {None, Value(w)}
                           THEN relisted
                           ELSE relisted \cup {m}
        /\ Answer(w)
        /\ UNCHANGED <<rows, shown, disturbed, unchecked>>

Next ==
    \E w \in Workers :
        \/ \E op \in Ops, u \in Users, m \in Mangas : \E n \in Accepted(op) :
              Arrive(w, [op |-> op, user |-> u, manga |-> m, value |-> n])
        \/ Fail(w)
        \/ Check(w)
        \/ Update(w)
        \/ UpdateNothing(w)
        \/ Publish(w)
        \/ Find(w)
        \/ Insert(w)
        \/ Delete(w)
        \/ Rate(w)
        \/ Upsert(w)

Spec == Init /\ [][Next]_vars

-------------------------------------------------------------------------------
TypeOK ==
    /\ manga \in [Mangas -> Int \cup {None}]
    /\ rows \in [Keys -> Row \cup {None}]
    /\ pc \in [Workers -> {"idle", "check", "update", "publish", "find",
                           "insert", "delete", "rate", "upsert"}]
    /\ request \in [Workers -> Request \cup {None}]
    /\ shown \in [Keys -> Int \cup {None}]
    /\ disturbed \subseteq Keys
    /\ unchecked \subseteq Keys
    /\ relisted \subseteq Mangas

(* Every row belongs to a registered user, although a token may outlive    *)
(* its user's row, and is in the library that user is shown: the JOIN with *)
(* the manga table hides none (GetLibrary).                                *)
NoOrphans ==
    \A u \in Users, m \in Mangas :
        rows[<<u, m>>] # None => u \in Registered /\ m \in GetLibrary(u)

(* What the sessions were shown last is what the library stores, once the  *)
(* handlers are done with the row: unless two updates overlapped, the row  *)
(* was added (again) since, or a TCP client published a chapter of its own.*)
ShownIsStored ==
    \A k \in Keys \ disturbed :
        rows[k] # None /\ Pending(k) = {} => shown[k] = rows[k].chapter

(* A stored chapter is within the manga's total, unless it came by a way   *)
(* that does not check it (add, gRPC) or the total has been changed.       *)
WithinTotal ==
    \A u \in Users, m \in Mangas :
        /\ rows[<<u, m>>] # None
        /\ <<u, m>> \notin unchecked
        /\ m \notin relisted
        /\ manga[m] > 0
        => rows[<<u, m>>].chapter \in 0..manga[m]

(* A rating stays until it is changed or the row is removed: adding the    *)
(* manga again, or reading on, does not lose it.                           *)
RatingSurvives ==
    [][\A k \in Keys :
          rows[k] # None /\ rows'[k] # None /\ rows'[k].rating # rows[k].rating
          => \E w \in Workers : pc[w] = "rate" /\ Key(w) = k]_vars

(* For each row, its handlers implement ProgressStore, which the sync from *)
(* end to end builds on as well (ProgressSync.tla): what the statements    *)
(* before the UPDATE and other users' requests do is hidden.               *)
Store == INSTANCE ProgressStore WITH
    Listable <- Registered \X Mangas,
    chapter <- [k \in Keys |-> IF rows[k] = None THEN None ELSE rows[k].chapter],
    owed <- {[worker |-> w, key |-> Key(w), chapter |-> Value(w)] :
                w \in {x \in Workers : pc[x] = "publish" /\ request[x].op # "tcp"}},
    last <- shown,
    loose <- disturbed

StoreSpec == Store!StoreSpec
===============================================================================
