---------------------------- MODULE ProgressStore -----------------------------
(***************************************************************************)
(* What the handlers of progress promise, for every row of the library: an *)
(* update finds its row or does nothing, and its handler then publishes    *)
(* what it wrote, once.  Only adding makes a row and only removing ends    *)
(* one.  The row and the last publication agree once every handler is done *)
(* with the row, unless the row is loose: updates overlapped, it was added *)
(* again, somebody published without storing, or a publication was lost.   *)
(* Library.tla and ProgressSync.tla are shown to implement it.             *)
(***************************************************************************)
CONSTANTS Keys,      \* rows that may be asked for
          Listable,  \* those that may be added
          Workers, Chapters, None

VARIABLES chapter,   \* per row, the chapter or None
          owed,      \* what workers have written and not published
          last,      \* per row, the chapter published last or None
          loose      \* rows for which nothing is promised

storeVars == <<chapter, owed, last, loose>>

StoreInit ==
    /\ chapter = [k \in Keys |-> None]
    /\ owed = {}
    /\ last = [k \in Keys |-> None]
    /\ loose = {}

Owing(k) == {o \in owed : o.key = k}

Update(w, k, n) ==
    /\ \A o \in owed : o.worker # w
    /\ chapter[k] # None
    /\ chapter' = [chapter EXCEPT ![k] = n]
    /\ owed' = owed \cup {[worker |-> w, key |-> k, chapter |-> n]}
    /\ loose' = IF Owing(k) = {} THEN loose \ {k} ELSE loose \cup {k}
    /\ UNCHANGED last

(* The publication arrives, or is lost. *)
Publish(o) ==
    /\ owed' = owed \ {o}
    /\ \/ last' = [last EXCEPT ![o.key] = o.chapter] /\ UNCHANGED loose
       \/ loose' = loose \cup {o.key} /\ UNCHANGED last
    /\ UNCHANGED chapter

(* One that was never stored. *)
PublishOnly(k, n) ==
    /\ last' \in {last, [last EXCEPT ![k] = n]}
    /\ loose' = loose \cup {k}
    /\ UNCHANGED <<chapter, owed>>

Add(k, n) ==
    /\ k \in Listable
    /\ chapter' = [chapter EXCEPT ![k] = n]
    /\ loose' = loose \cup {k}
    /\ UNCHANGED <<owed, last>>

Remove(k) ==
    /\ chapter' = [chapter EXCEPT ![k] = None]
    /\ UNCHANGED <<owed, last, loose>>

StoreNext ==
    \/ \E o \in owed : Publish(o)
    \/ \E k \in Keys : Remove(k)
    \/ \E k \in Keys, n \in Chapters :
          \/ PublishOnly(k, n) \/ Add(k, n)
          \/ \E w \in Workers : Update(w, k, n)

StoreSpec == StoreInit /\ [][StoreNext]_storeVars
===============================================================================
