------------------------------- MODULE Accounts -------------------------------
(***************************************************************************)
(* Registration and login: the handlers of internal/httpapi/server.go with *)
(* internal/user/repository.go and internal/auth/auth.go behind them.  A   *)
(* worker is the goroutine of one HTTP request.  Each of its statements is *)
(* one step of the database, and between two of them other workers run.    *)
(*                                                                         *)
(* Names and addresses are of one set, for a login may give either.  An    *)
(* account's password stands for its hash, its name for its id; a request  *)
(* that a check refuses before the first statement is only "rejected".     *)
(***************************************************************************)
CONSTANTS Workers,
          Idents,     \* what may stand for a name or an address
          Trim,       \* strings.TrimSpace
          Lower,      \* strings.ToLower
          Blank,      \* the empty string
          Addresses,  \* what mail.ParseAddress accepts
          Passwords,
          Hashable,   \* passwords of at least 8 characters that bcrypt takes
          None

ASSUME AccountsAssumption ==
    /\ Trim \in [Idents -> Idents \cup {Blank}]
    /\ Lower \in [Idents -> Idents]
    /\ Addresses \subseteq Idents
    /\ Hashable \subseteq Passwords

Accounts == [name : Idents, email : Idents, password : Passwords]

ASSUME NoneAssumption == None \notin Accounts

VARIABLES users,   \* the table
          pc,      \* where each worker is, or its answer
          request, \* the account it registers, or what it logs in with
          found,   \* the row GetByUsername returned
          owners   \* history: the accounts its login named when it came in,
                   \* and whose password it gave

vars == <<users, pc, request, found, owners>>

Normal(n, e, p) == [name |-> Trim[n], email |-> Trim[Lower[e]], password |-> p]
Credentials(i, p) == [name |-> i, email |-> Lower[i], password |-> p]

(* WHERE username = ? OR email = ? *)
Matches(r) == {u \in users : u.name = r.name \/ u.email = r.email}

Answers == {"created", "exists", "rejected", "failed", "granted", "refused"}

-------------------------------------------------------------------------------
Init ==
    /\ users = {}
    /\ pc = [w \in Workers |-> "idle"]
    /\ request = [w \in Workers |-> None]
    /\ found = [w \in Workers |-> None]
    /\ owners = [w \in Workers |-> {}]

Goto(w, from, to) == pc[w] = from /\ pc' = [pc EXCEPT ![w] = to]

(* Mutant: the name is not looked at. *)
ValidNameless(r) ==
    /\ r.email \in Addresses
    /\ r.password \in Hashable

(* register, HashPassword and the checks of Create. *)
Valid(r) ==
    /\ r.name # Blank
    /\ r.email \in Addresses
    /\ r.password \in Hashable

RegisterCall(w, n, e, p) ==
    LET r == Normal(n, e, p) IN
    /\ Goto(w, "idle", IF Valid(r) THEN "select" ELSE "rejected")
    /\ request' = [request EXCEPT ![w] = IF Valid(r) THEN r ELSE None]
    /\ UNCHANGED <<users, found, owners>>

Select(w) ==
    /\ Goto(w, "select", IF Matches(request[w]) = {} THEN "insert" ELSE "exists")
    /\ UNCHANGED <<users, request, found, owners>>

(* Mutant: the columns are not UNIQUE. *)
InsertAnyway(w) ==
    /\ Goto(w, "insert", "read")
    /\ users' = users \cup {request[w]}
    /\ UNCHANGED <<request, found, owners>>

Insert(w) ==
    /\ Goto(w, "insert", "read")
    /\ Matches(request[w]) = {}
    /\ users' = users \cup {request[w]}
    /\ UNCHANGED <<request, found, owners>>

(* A UNIQUE constraint: someone was faster.  The answer is 500, not 409.   *)
InsertRefused(w) ==
    /\ Goto(w, "insert", "failed")
    /\ Matches(request[w]) # {}
    /\ UNCHANGED <<users, request, found, owners>>

(* GetByID. *)
ReadBack(w) ==
    /\ Goto(w, "read", "created")
    /\ UNCHANGED <<users, request, found, owners>>

(* A statement fails, GetByID's too: then the account stays. *)
RegisterFail(w) ==
    /\ pc[w] \in {"select", "insert", "read"}
    /\ pc' = [pc EXCEPT ![w] = "failed"]
    /\ UNCHANGED <<users, request, found, owners>>

-------------------------------------------------------------------------------
(* login. *)
LoginCall(w, i, p) ==
    /\ Goto(w, "idle", "lookup")
    /\ request' = [request EXCEPT ![w] = Credentials(i, p)]
    /\ owners' = [owners EXCEPT
           ![w] = {u \in Matches(Credentials(i, p)) : u.password = p}]
    /\ UNCHANGED <<users, found>>

(* Mutant: only the name is compared. *)
LookUpName(w) ==
    LET rows == {u \in users : u.name = request[w].name} IN
    /\ Goto(w, "lookup", IF rows = {} THEN "refused" ELSE "verify")
    /\ \/ \E u \in rows : found' = [found EXCEPT ![w] = u]
       \/ rows = {} /\ UNCHANGED found
    /\ UNCHANGED <<users, request, owners>>

(* GetByUsername: of several rows that match, SQLite returns any.          *)
LookUp(w) ==
    LET rows == Matches(request[w]) IN
    /\ Goto(w, "lookup", IF rows = {} THEN "refused" ELSE "verify")
    /\ \/ \E u \in rows : found' = [found EXCEPT ![w] = u]
       \/ rows = {} /\ UNCHANGED found
    /\ UNCHANGED <<users, request, owners>>

(* A failed query is answered like an unknown name. *)
LookUpFail(w) ==
    /\ Goto(w, "lookup", "refused")
    /\ owners' = [owners EXCEPT ![w] = {}]
    /\ UNCHANGED <<users, request, found>>

VerifyPassword(w) ==
    /\ Goto(w, "verify", IF found[w].password = request[w].password
                             THEN "granted" ELSE "refused")
    /\ UNCHANGED <<users, request, found, owners>>

(* The answer has been written. *)
Reply(w) ==
    /\ pc[w] \in Answers
    /\ pc' = [pc EXCEPT ![w] = "idle"]
    /\ request' = [request EXCEPT ![w] = None]
    /\ found' = [found EXCEPT ![w] = None]
    /\ owners' = [owners EXCEPT ![w] = {}]
    /\ UNCHANGED users

WorkerStep(w) ==
    \/ Select(w)
    \/ Insert(w)
    \/ InsertRefused(w)
    \/ ReadBack(w)
    \/ RegisterFail(w)
    \/ LookUp(w)
    \/ LookUpFail(w)
    \/ VerifyPassword(w)

Next ==
    \E w \in Workers :
        \/ WorkerStep(w)
        \/ Reply(w)
        \/ \E i \in Idents, p \in Passwords :
            \/ LoginCall(w, i, p)
            \/ \E e \in Idents : RegisterCall(w, i, e, p)

Spec == Init /\ [][Next]_vars

-------------------------------------------------------------------------------
TypeOK ==
    /\ users \subseteq Accounts
    /\ pc \in [Workers -> {"idle", "select", "insert", "read", "lookup",
                           "verify"} \cup Answers]
    /\ request \in [Workers -> Accounts \cup {None}]
    /\ \A w \in Workers : pc[w] \notin {"idle", "rejected"} => request[w] # None
    /\ found \in [Workers -> Accounts \cup {None}]
    /\ owners \in [Workers -> SUBSET Accounts]

(* What a registration has come to, for the one who asked. *)
Stage == [idle |-> "none", lookup |-> "none", verify |-> "none",
          granted |-> "none", refused |-> "none", rejected |-> "none",
          select |-> "waiting", insert |-> "waiting", read |-> "added",
          created |-> "created", exists |-> "exists", failed |-> "failed"]

Names == INSTANCE Directory WITH
    Askers <- Workers,
    directory <- users,
    answer <- [w \in Workers |-> Stage[pc[w]]],
    asked <- [w \in Workers |->
                 IF Stage[pc[w]] = "none" THEN None ELSE request[w]]

(* Registrations that race each other add to the directory one at a time:  *)
(* no name or address is given twice, 409 is answered only when one is     *)
(* taken, 201 only for an account that was added.                          *)
DirectorySpec == Names!Spec

(* A login with the name or the address of an account that was there when  *)
(* it came in, and with its password, is refused only when the query fails *)
(* or another account has the one for the other: the two columns are       *)
(* UNIQUE each, not together.                                              *)
OwnerGetsIn ==
    \A w \in Workers : pc[w] = "refused" =>
        \A a \in owners[w] : \E b \in Matches(request[w]) : b # a
===============================================================================
