------------------------------ MODULE CliProofs ------------------------------
(* Proofs about the accounts and the command line client: for every set of *)
(* shells, names and passwords, and every length of a session's text.      *)
EXTENDS Cli, TLAPS

-------------------------------------------------------------------------------
(* The account handlers. *)

(* What a login relies on: it was given rows that match it, and the owners *)
(* it has are among the rows that do.                                      *)
LoginInv ==
    \A w \in Workers :
        /\ owners[w] \subseteq users
        /\ pc[w] \in {"lookup", "verify"} =>
            \A a \in owners[w] :
                a \in Matches(request[w]) /\ a.password = request[w].password
        /\ pc[w] \in {"verify", "granted"} => found[w] \in users
        /\ pc[w] = "verify" => found[w] \in Matches(request[w])

AccountsInv == TypeOK /\ LoginInv /\ OwnerGetsIn

(* The initial states satisfy the invariant. *)
LEMMA AccountsInvInit ==
    ASSUME Init
    PROVE  AccountsInv
<1>1. TypeOK
    BY DEF Init, TypeOK, Answers
<1>2. LoginInv
    BY DEF Init, LoginInv
<1>3. OwnerGetsIn
    BY DEF Init, OwnerGetsIn
<1>4. QED
    BY <1>1, <1>2, <1>3 DEF AccountsInv

(* A registered account is an account. *)
LEMMA NormalAccount ==
    ASSUME NEW n \in Idents, NEW e \in Idents, NEW p \in Passwords,
           Valid(Normal(n, e, p))
    PROVE  Normal(n, e, p) \in Accounts
BY AccountsAssumption DEF Valid, Normal, Accounts

LEMMA CredentialsAccount ==
    ASSUME NEW i \in Idents, NEW p \in Passwords
    PROVE  Credentials(i, p) \in Accounts
BY AccountsAssumption DEF Credentials, Accounts

(* Every step keeps the types. *)
LEMMA AccountsTypes ==
    ASSUME TypeOK, [Next]_vars
    PROVE  TypeOK'
<1>1. CASE UNCHANGED vars
    BY <1>1 DEF TypeOK, vars
<1>2. ASSUME NEW w \in Workers, WorkerStep(w)
      PROVE  TypeOK'
    <2>1. CASE Select(w)
        BY <2>1 DEF Select, Goto, TypeOK, Answers
    <2>2. CASE Insert(w)
        <3>1. request[w] \in Accounts
            BY <2>2 DEF Insert, Goto, TypeOK
        <3>2. QED
            BY <2>2, <3>1 DEF Insert, Goto, TypeOK
    <2>3. CASE InsertRefused(w)
        BY <2>3 DEF InsertRefused, Goto, TypeOK, Answers
    <2>4. CASE ReadBack(w)
        BY <2>4 DEF ReadBack, Goto, TypeOK, Answers
    <2>5. CASE RegisterFail(w)
        BY <2>5 DEF RegisterFail, TypeOK, Answers
    <2>6. CASE LookUp(w)
        BY <2>6 DEF LookUp, Goto, TypeOK, Answers, Matches
    <2>7. CASE LookUpFail(w)
        BY <2>7 DEF LookUpFail, Goto, TypeOK, Answers
    <2>8. CASE VerifyPassword(w)
        BY <2>8 DEF VerifyPassword, Goto, TypeOK, Answers
    <2>9. QED
        BY <1>2, <2>1, <2>2, <2>3, <2>4, <2>5, <2>6, <2>7, <2>8 DEF WorkerStep
<1>3. ASSUME NEW w \in Workers, Reply(w)
      PROVE  TypeOK'
    BY <1>3 DEF Reply, TypeOK
<1>4. ASSUME NEW w \in Workers, NEW i \in Idents, NEW p \in Passwords,
             LoginCall(w, i, p)
      PROVE  TypeOK'
    <2>1. Credentials(i, p) \in Accounts
        BY CredentialsAccount
    <2>2. Credentials(i, p) # None
        BY <2>1, NoneAssumption
    <2>3. QED
        BY <1>4, <2>1, <2>2 DEF LoginCall, Goto, TypeOK, Matches
<1>5. ASSUME NEW w \in Workers, NEW i \in Idents, NEW e \in Idents,
             NEW p \in Passwords, RegisterCall(w, i, e, p)
      PROVE  TypeOK'
    <2>1. Valid(Normal(i, e, p)) => Normal(i, e, p) \in Accounts
        BY NormalAccount
    <2>2. Valid(Normal(i, e, p)) => Normal(i, e, p) # None
        BY <2>1, NoneAssumption
    <2>3. QED
        BY <1>5, <2>1, <2>2 DEF RegisterCall, Goto, TypeOK, Answers
<1>6. QED
    BY <1>1, <1>2, <1>3, <1>4, <1>5 DEF Next

(* Every step keeps what a login relies on. *)
LEMMA LoginSteps ==
    ASSUME TypeOK, LoginInv, [Next]_vars
    PROVE  LoginInv'
<1>1. CASE UNCHANGED vars
    BY <1>1 DEF LoginInv, vars, Matches
<1>2. ASSUME NEW w \in Workers, WorkerStep(w)
      PROVE  LoginInv'
    <2>1. users \subseteq users'
        BY <1>2 DEF WorkerStep, Select, Insert, InsertRefused, ReadBack,
            RegisterFail, LookUp, LookUpFail, VerifyPassword
    <2>2. request' = request
        BY <1>2 DEF WorkerStep, Select, Insert, InsertRefused, ReadBack,
            RegisterFail, LookUp, LookUpFail, VerifyPassword
    <2>3. \A v \in Workers : Matches(request[v]) \subseteq Matches(request[v])'
        BY <2>1, <2>2 DEF Matches
    <2>4. \A v \in Workers : owners'[v] = owners[v] \/ owners'[v] = {}
        BY <1>2 DEF WorkerStep, Select, Insert, InsertRefused, ReadBack,
            RegisterFail, LookUp, LookUpFail, VerifyPassword, TypeOK
    <2>5. \A v \in Workers \ {w} :
              pc'[v] = pc[v] /\ found'[v] = found[v]
        BY <1>2 DEF WorkerStep, Select, Insert, InsertRefused, ReadBack,
            RegisterFail, LookUp, LookUpFail, VerifyPassword, Goto, TypeOK
    <2>6. /\ pc'[w] \in {"lookup", "verify"} => pc[w] = "lookup"
          /\ pc'[w] = "verify" => found'[w] \in Matches(request[w])
          /\ pc'[w] = "granted" => pc[w] = "verify" /\ found'[w] = found[w]
        BY <1>2 DEF WorkerStep, Select, Insert, InsertRefused, ReadBack,
            RegisterFail, LookUp, LookUpFail, VerifyPassword, Goto, TypeOK
    <2>7. \A v \in Workers : owners'[v] \subseteq users'
        BY <2>1, <2>4 DEF LoginInv
    <2>8. ASSUME NEW v \in Workers, pc'[v] \in {"lookup", "verify"},
                 NEW a \in owners'[v]
          PROVE  a \in Matches(request[v])' /\ a.password = request'[v].password
        <3>1. pc[v] \in {"lookup", "verify"} /\ a \in owners[v]
            BY <2>4, <2>5, <2>6, <2>8
        <3>2. QED
            BY <2>2, <2>3, <3>1 DEF LoginInv
    <2>9. ASSUME NEW v \in Workers, pc'[v] \in {"verify", "granted"}
          PROVE  found'[v] \in users'
        BY <2>1, <2>5, <2>6, <2>9 DEF LoginInv, Matches
    <2>10. ASSUME NEW v \in Workers, pc'[v] = "verify"
           PROVE  found'[v] \in Matches(request[v])'
        BY <2>3, <2>5, <2>6, <2>10 DEF LoginInv
    <2>11. QED
        BY <2>7, <2>8, <2>9, <2>10 DEF LoginInv
<1>3. ASSUME NEW w \in Workers, Reply(w)
      PROVE  LoginInv'
    BY <1>3 DEF Reply, LoginInv, TypeOK, Matches
<1>4. ASSUME NEW w \in Workers, NEW i \in Idents, NEW p \in Passwords,
             LoginCall(w, i, p)
      PROVE  LoginInv'
    BY <1>4 DEF LoginCall, Goto, LoginInv, TypeOK, Matches, Credentials
<1>5. ASSUME NEW w \in Workers, NEW i \in Idents, NEW e \in Idents,
             NEW p \in Passwords, RegisterCall(w, i, e, p)
      PROVE  LoginInv'
    BY <1>5 DEF RegisterCall, Goto, LoginInv, TypeOK, Matches
<1>6. QED
    BY <1>1, <1>2, <1>3, <1>4, <1>5 DEF Next

(* A refusal with the right password has met another row that matches. *)
LEMMA OwnerSteps ==
    ASSUME TypeOK, LoginInv, OwnerGetsIn, [Next]_vars
    PROVE  OwnerGetsIn'
<1>1. CASE UNCHANGED vars
    BY <1>1 DEF OwnerGetsIn, vars, Matches
<1>2. ASSUME NEW w \in Workers, WorkerStep(w)
      PROVE  OwnerGetsIn'
    <2>1. users \subseteq users' /\ request' = request
        BY <1>2 DEF WorkerStep, Select, Insert, InsertRefused, ReadBack,
            RegisterFail, LookUp, LookUpFail, VerifyPassword
    <2>2. \A v \in Workers : Matches(request[v]) \subseteq Matches(request[v])'
        BY <2>1 DEF Matches
    <2>3. \A v \in Workers : owners'[v] = owners[v] \/ owners'[v] = {}
        BY <1>2 DEF WorkerStep, Select, Insert, InsertRefused, ReadBack,
            RegisterFail, LookUp, LookUpFail, VerifyPassword, TypeOK
    <2>4. \A v \in Workers \ {w} : pc'[v] = pc[v]
        BY <1>2 DEF WorkerStep, Select, Insert, InsertRefused, ReadBack,
            RegisterFail, LookUp, LookUpFail, VerifyPassword, Goto, TypeOK
    <2>5. pc'[w] = "refused" =>
              \/ pc[w] = "lookup" /\ Matches(request[w]) = {}
              \/ owners'[w] = {}
              \/ pc[w] = "verify" /\ found[w].password # request[w].password
        BY <1>2 DEF WorkerStep, Select, Insert, InsertRefused, ReadBack,
            RegisterFail, LookUp, LookUpFail, VerifyPassword, Goto, TypeOK
    <2>6. ASSUME NEW v \in Workers, pc'[v] = "refused", NEW a \in owners'[v]
          PROVE  \E b \in Matches(request[v]) : b # a
        <3>1. a \in owners[v]
            BY <2>3, <2>6
        <3>2. CASE v # w
            BY <2>4, <2>6, <3>1, <3>2 DEF OwnerGetsIn
        <3>3. CASE v = w
            <4>1. pc[v] = "verify" /\ found[v].password # request[v].password
                BY <2>5, <2>6, <3>1, <3>3 DEF LoginInv
            <4>2. found[v] \in Matches(request[v])
                BY <4>1 DEF LoginInv
            <4>3. a.password = request[v].password
                BY <4>1, <3>1 DEF LoginInv
            <4>4. QED
                BY <4>1, <4>2, <4>3
        <3>4. QED
            BY <3>2, <3>3
    <2>7. QED
        BY <2>2, <2>6 DEF OwnerGetsIn
<1>3. ASSUME NEW w \in Workers, Reply(w)
      PROVE  OwnerGetsIn'
    BY <1>3 DEF Reply, OwnerGetsIn, TypeOK, Matches
<1>4. ASSUME NEW w \in Workers, NEW i \in Idents, NEW p \in Passwords,
             LoginCall(w, i, p)
      PROVE  OwnerGetsIn'
    BY <1>4 DEF LoginCall, Goto, OwnerGetsIn, TypeOK, Matches
<1>5. ASSUME NEW w \in Workers, NEW i \in Idents, NEW e \in Idents,
             NEW p \in Passwords, RegisterCall(w, i, e, p)
      PROVE  OwnerGetsIn'
    BY <1>5 DEF RegisterCall, Goto, OwnerGetsIn, TypeOK, Matches
<1>6. QED
    BY <1>1, <1>2, <1>3, <1>4, <1>5 DEF Next

(* The invariant is inductive. *)
LEMMA AccountsInvStep ==
    ASSUME AccountsInv, [Next]_vars
    PROVE  AccountsInv'
<1>1. TypeOK'
    BY AccountsTypes DEF AccountsInv
<1>2. LoginInv'
    BY LoginSteps DEF AccountsInv
<1>3. OwnerGetsIn'
    BY OwnerSteps DEF AccountsInv
<1>4. QED
    BY <1>1, <1>2, <1>3 DEF AccountsInv

(* The account handlers keep their types, and refuse no owner but for the  *)
(* two reasons that OwnerGetsIn names (httpapi login, user GetByUsername). *)
THEOREM AccountsSafe == Spec => [](TypeOK /\ OwnerGetsIn)
<1>1. Init => AccountsInv
    BY AccountsInvInit
<1>2. AccountsInv /\ [Next]_vars => AccountsInv'
    BY AccountsInvStep
<1>3. AccountsInv => TypeOK /\ OwnerGetsIn
    BY DEF AccountsInv
<1>4. QED
    BY <1>1, <1>2, <1>3, PTL DEF Spec

-------------------------------------------------------------------------------
(* The accounts implement the directory. *)

(* What the directory sees of the workers. *)
Answer == [w \in Workers |-> Stage[pc[w]]]
Asked == [w \in Workers |->
             IF Stage[pc[w]] = "none" THEN None ELSE request[w]]

(* A worker's step through the stages of a registration. *)
LEMMA Staged ==
    ASSUME TypeOK, NEW w \in Workers, NEW from, NEW to, Goto(w, from, to),
           Stage[from] # "none", Stage[to] # "none", UNCHANGED request
    PROVE  /\ Answer[w] = Stage[from]
           /\ Answer' = [Answer EXCEPT ![w] = Stage[to]]
           /\ UNCHANGED Asked
BY DEF TypeOK, Goto, Answer, Asked

(* A worker's step before the first stage or beside the stages. *)
LEMMA Unstaged ==
    ASSUME TypeOK, NEW w \in Workers, NEW to, pc' = [pc EXCEPT ![w] = to],
           Stage[pc[w]] = "none", Stage[to] = "none",
           \A v \in Workers \ {w} : request'[v] = request[v]
    PROVE  UNCHANGED Answer /\ UNCHANGED Asked
BY DEF TypeOK, Answer, Asked

(* Each step of a worker is a step of the directory, or none. *)
LEMMA DirectoryStep ==
    ASSUME TypeOK, [Next]_vars
    PROVE  [Names!Next]_<<users, Asked, Answer>>
<1>1. CASE UNCHANGED vars
    BY <1>1 DEF vars, Asked, Answer
<1>2. ASSUME NEW w \in Workers, WorkerStep(w)
      PROVE  [Names!Next]_<<users, Asked, Answer>>
    <2>1. CASE Select(w)
        <3>1. CASE Matches(request[w]) = {}
            <4>1. Goto(w, "select", "insert") /\ UNCHANGED <<users, request>>
                BY <2>1, <3>1 DEF Select
            <4>2. Stage["select"] = "waiting" /\ Stage["insert"] = "waiting"
                BY DEF Stage
            <4>3. /\ Answer[w] = "waiting"
                  /\ Answer' = [Answer EXCEPT ![w] = "waiting"]
                  /\ UNCHANGED Asked
                BY <4>1, <4>2, Staged
            <4>4. UNCHANGED Answer
                BY <4>3 DEF Answer
            <4>5. QED
                BY <4>1, <4>3, <4>4
        <3>2. CASE Matches(request[w]) # {}
            <4>1. Goto(w, "select", "exists") /\ UNCHANGED <<users, request>>
                BY <2>1, <3>2 DEF Select
            <4>2. Stage["select"] = "waiting" /\ Stage["exists"] = "exists"
                BY DEF Stage
            <4>3. /\ Answer[w] = "waiting"
                  /\ Answer' = [Answer EXCEPT ![w] = "exists"]
                  /\ UNCHANGED Asked
                BY <4>1, <4>2, Staged
            <4>4. Asked[w] = request[w]
                BY <4>3 DEF Answer, Asked
            <4>5. Names!Refuse(w)
                BY <3>2, <4>1, <4>3, <4>4
                DEF Names!Refuse, Names!Answered, Names!Taken, Matches,
                    Answer, Asked
            <4>6. QED
                BY <4>5 DEF Names!Next
        <3>3. QED
            BY <3>1, <3>2
    <2>2. CASE Insert(w)
        <3>1. Goto(w, "insert", "read") /\ UNCHANGED request
            BY <2>2 DEF Insert
        <3>2. Stage["insert"] = "waiting" /\ Stage["read"] = "added"
            BY DEF Stage
        <3>3. /\ Answer[w] = "waiting"
              /\ Answer' = [Answer EXCEPT ![w] = "added"]
              /\ UNCHANGED Asked
            BY <3>1, <3>2, Staged
        <3>4. Asked[w] = request[w]
            BY <3>3 DEF Answer, Asked
        <3>5. Names!Add(w)
            BY <2>2, <3>3, <3>4
            DEF Insert, Names!Add, Names!Answered, Names!Taken, Matches,
                Answer, Asked
        <3>6. QED
            BY <3>5 DEF Names!Next
    <2>3. CASE InsertRefused(w)
        <3>1. Goto(w, "insert", "failed") /\ UNCHANGED <<users, request>>
            BY <2>3 DEF InsertRefused
        <3>2. Stage["insert"] = "waiting" /\ Stage["failed"] = "failed"
            BY DEF Stage
        <3>3. /\ Answer[w] = "waiting"
              /\ Answer' = [Answer EXCEPT ![w] = "failed"]
              /\ UNCHANGED Asked
            BY <3>1, <3>2, Staged
        <3>4. Names!Fail(w)
            BY <3>1, <3>3 DEF Names!Fail, Names!Answered, Answer, Asked
        <3>5. QED
            BY <3>4 DEF Names!Next
    <2>4. CASE ReadBack(w)
        <3>1. Goto(w, "read", "created") /\ UNCHANGED <<users, request>>
            BY <2>4 DEF ReadBack
        <3>2. Stage["read"] = "added" /\ Stage["created"] = "created"
            BY DEF Stage
        <3>3. /\ Answer[w] = "added"
              /\ Answer' = [Answer EXCEPT ![w] = "created"]
              /\ UNCHANGED Asked
            BY <3>1, <3>2, Staged
        <3>4. Names!Confirm(w)
            BY <3>1, <3>3 DEF Names!Confirm, Names!Answered, Answer, Asked
        <3>5. QED
            BY <3>4 DEF Names!Next
    <2>5. CASE RegisterFail(w)
        <3>1. /\ Goto(w, pc[w], "failed")
              /\ pc[w] \in {"select", "insert", "read"}
              /\ UNCHANGED <<users, request>>
            BY <2>5 DEF RegisterFail, Goto
        <3>2. Stage[pc[w]] \in {"waiting", "added"} /\ Stage["failed"] = "failed"
            BY <3>1 DEF Stage
        <3>3. Stage[pc[w]] # "none" /\ Stage["failed"] # "none"
            BY <3>2
        <3>4. /\ Answer[w] = Stage[pc[w]]
              /\ Answer' = [Answer EXCEPT ![w] = Stage["failed"]]
              /\ UNCHANGED Asked
            BY <3>1, <3>3, Staged
        <3>5. Names!Fail(w)
            BY <3>1, <3>2, <3>4 DEF Names!Fail, Names!Answered, Answer, Asked
        <3>6. QED
            BY <3>5 DEF Names!Next
    <2>6. CASE LookUp(w) \/ LookUpFail(w) \/ VerifyPassword(w)
        <3>1. PICK to \in {"verify", "granted", "refused"} :
                  pc' = [pc EXCEPT ![w] = to]
            BY <2>6 DEF LookUp, LookUpFail, VerifyPassword, Goto
        <3>2. pc[w] \in {"lookup", "verify"} /\ UNCHANGED <<users, request>>
            BY <2>6 DEF LookUp, LookUpFail, VerifyPassword, Goto
        <3>3. Stage[pc[w]] = "none" /\ Stage[to] = "none"
            BY <3>1, <3>2 DEF Stage
        <3>4. UNCHANGED Answer /\ UNCHANGED Asked
            BY <3>1, <3>2, <3>3, Unstaged
        <3>5. QED
            BY <3>2, <3>4
    <2>7. QED
        BY <1>2, <2>1, <2>2, <2>3, <2>4, <2>5, <2>6 DEF WorkerStep
<1>3. ASSUME NEW w \in Workers, Reply(w)
      PROVE  [Names!Next]_<<users, Asked, Answer>>
    <2>1. Stage["idle"] = "none"
        BY DEF Stage
    <2>2. CASE pc[w] \in {"created", "exists", "failed"}
        <3>1. Answer[w] \in {"created", "exists", "failed"}
            BY <2>2 DEF Answer, Stage
        <3>2. /\ Answer' = [Answer EXCEPT ![w] = "none"]
              /\ Asked' = [Asked EXCEPT ![w] = None]
            BY <1>3, <2>1 DEF Reply, Answer, Asked, TypeOK
        <3>3. Names!Done(w)
            BY <1>3, <3>1, <3>2 DEF Reply, Names!Done, Answer, Asked
        <3>4. QED
            BY <3>3 DEF Names!Next
    <2>3. CASE pc[w] \in {"rejected", "granted", "refused"}
        <3>1. Stage[pc[w]] = "none"
            BY <2>3 DEF Stage
        <3>2. /\ pc' = [pc EXCEPT ![w] = "idle"]
              /\ \A v \in Workers \ {w} : request'[v] = request[v]
              /\ UNCHANGED users
            BY <1>3 DEF Reply, TypeOK
        <3>3. QED
            BY <2>1, <3>1, <3>2, Unstaged
    <2>4. QED
        BY <1>3, <2>2, <2>3 DEF Reply, Answers
<1>4. ASSUME NEW w \in Workers, NEW i \in Idents, NEW p \in Passwords,
             LoginCall(w, i, p)
      PROVE  [Names!Next]_<<users, Asked, Answer>>
    <2>1. /\ pc[w] = "idle" /\ pc' = [pc EXCEPT ![w] = "lookup"]
          /\ \A v \in Workers \ {w} : request'[v] = request[v]
          /\ UNCHANGED users
        BY <1>4 DEF LoginCall, Goto, TypeOK
    <2>2. Stage["idle"] = "none" /\ Stage["lookup"] = "none"
        BY DEF Stage
    <2>3. QED
        BY <2>1, <2>2, Unstaged
<1>5. ASSUME NEW w \in Workers, NEW i \in Idents, NEW e \in Idents,
             NEW p \in Passwords, RegisterCall(w, i, e, p)
      PROVE  [Names!Next]_<<users, Asked, Answer>>
    <2> DEFINE r == Normal(i, e, p)
    <2>1. /\ Stage["idle"] = "none" /\ Stage["rejected"] = "none"
          /\ Stage["select"] = "waiting"
        BY DEF Stage
    <2>2. CASE Valid(r)
        <3>1. r \in Accounts
            BY <2>2, NormalAccount
        <3>2. /\ pc[w] = "idle" /\ pc' = [pc EXCEPT ![w] = "select"]
              /\ request' = [request EXCEPT ![w] = r]
              /\ UNCHANGED users
            BY <1>5, <2>2 DEF RegisterCall, Goto
        <3>3. Answer[w] = "none"
            BY <2>1, <3>2 DEF Answer
        <3>4. /\ Answer' = [Answer EXCEPT ![w] = "waiting"]
              /\ Asked' = [Asked EXCEPT ![w] = r]
            BY <2>1, <3>2 DEF Answer, Asked, TypeOK
        <3>5. Names!Ask(w)
            BY <3>1, <3>2, <3>3, <3>4 DEF Names!Ask, Answer, Asked
        <3>6. QED
            BY <3>5 DEF Names!Next
    <2>3. CASE ~Valid(r)
        <3>1. /\ pc[w] = "idle" /\ pc' = [pc EXCEPT ![w] = "rejected"]
              /\ \A v \in Workers \ {w} : request'[v] = request[v]
              /\ UNCHANGED users
            BY <1>5, <2>3 DEF RegisterCall, Goto, TypeOK
        <3>2. QED
            BY <2>1, <3>1, Unstaged
    <2>4. QED
        BY <2>2, <2>3
<1>6. QED
    BY <1>1, <1>2, <1>3, <1>4, <1>5 DEF Next

(* However registrations interleave, the users table is a directory to     *)
(* which accounts are added one at a time (httpapi register, user Create). *)
THEOREM AccountsImplementDirectory == Spec => DirectorySpec
<1>1. Init => Names!Init
    <2>1. Stage["idle"] = "none"
        BY DEF Stage
    <2>2. QED
        BY <2>1 DEF Init, Names!Init
<1>2. AccountsInv /\ [Next]_vars => [Names!Next]_(Names!vars)
    <2>1. AccountsInv /\ [Next]_vars => [Names!Next]_<<users, Asked, Answer>>
        BY DirectoryStep DEF AccountsInv
    <2>2. QED
        BY <2>1 DEF Names!vars, Asked, Answer
<1>3. Init => AccountsInv
    BY AccountsInvInit
<1>4. AccountsInv /\ [Next]_vars => AccountsInv'
    BY AccountsInvStep
<1>5. QED
    BY <1>1, <1>2, <1>3, <1>4, PTL DEF Spec, Names!Spec, DirectorySpec

-------------------------------------------------------------------------------
(* The client. *)

client == <<cmd, session, disk>>

(* A step of the client is a step of the account handlers, or none. *)
LEMMA CliStepsAccounts ==
    ASSUME [CliNext]_cliVars
    PROVE  [Next]_vars
BY DEF CliNext, cliVars, server, vars, Next, ClearSession, CmdLogin,
       CmdRegister, Receive, ReceiveOther, Open, Write, LoadSession, Act, Kill,
       Unheard

(* The client uses the account handlers as they are. *)
THEOREM CliImplementsAccounts == CliSpec => Spec
<1>1. CliInit => Init
    BY DEF CliInit
<1>2. [CliNext]_cliVars => [Next]_vars
    BY CliStepsAccounts
<1>3. QED
    BY <1>1, <1>2, PTL DEF CliSpec, Spec

(* So what was proved of them holds behind the client too. *)
THEOREM CliAccounts == CliSpec => DirectorySpec /\ []OwnerGetsIn
BY CliImplementsAccounts, AccountsImplementDirectory, AccountsSafe, PTL

(* The types of the client's own variables. *)
ClientTypes ==
    /\ cmd \in [Workers -> {"prompt", "waiting", "opening", "writing", "acting"}]
    /\ session \in [Workers -> Accounts \cup {None}]
    /\ file \in [text : Accounts \cup {None}, size : Nat] \cup {None}
    /\ handles \subseteq Workers
    /\ last \in Accounts \cup {None}
    /\ disturbed \in BOOLEAN

(* The sessions that are held or stored are those of accounts, and a text  *)
(* that was not written has no length.                                     *)
SessionInv ==
    /\ \A s \in Workers : cmd[s] \in {"opening", "writing", "acting"} =>
                            session[s] \in users
    /\ file # None => file.text \in users \/ file = Empty

(* A file that nobody disturbed is open at most once, and empty while it   *)
(* is.                                                                     *)
FileInv ==
    /\ \A s \in handles : cmd[s] = "writing"
    /\ handles # {} => file # None
    /\ ~disturbed => /\ \A s, t \in handles : s = t
                     /\ handles # {} => file = Empty
                     /\ handles = {} => Session = last

ClientInv == ClientTypes /\ SessionInv /\ FileInv

(* None is neither a file nor an account; Empty is a file. *)
LEMMA EmptyFile ==
    /\ Empty \in [text : Accounts \cup {None}, size : Nat]
    /\ Empty.text = None /\ Empty.size = 0
BY DEF Empty

(* A session's text has a length. *)
LEMMA SessionLength ==
    ASSUME NEW a \in Accounts
    PROVE  Length(a) \in Nat \ {0} /\ a # None
<1>1. a # None
    BY NoneAssumption
<1>2. a.name \in Idents
    BY DEF Accounts
<1>3. QED
    BY <1>1, <1>2, SizeAssumption DEF Length

(* The initial states satisfy the invariant. *)
LEMMA ClientInvInit ==
    ASSUME CliInit
    PROVE  ClientInv
<1>1. ClientTypes
    BY DEF CliInit, ClientTypes
<1>2. SessionInv
    BY DEF CliInit, SessionInv
<1>3. FileInv
    BY DEF CliInit, FileInv, Session, Parses
<1>4. QED
    BY <1>1, <1>2, <1>3 DEF ClientInv

(* A step of the server, alone or as the shells' requests and replies. *)
LEMMA ServerKeeps ==
    ASSUME AccountsInv, [Next]_vars
    PROVE  /\ users \subseteq users'
           /\ \A w \in Workers : pc[w] = "granted" => found[w] \in users
BY DEF AccountsInv, LoginInv, Next, vars, WorkerStep, Select, Insert,
       InsertRefused, ReadBack, RegisterFail, LookUp, LookUpFail,
       VerifyPassword, Reply, LoginCall, RegisterCall

(* Steps that leave the file and its history alone. *)
LEMMA DiskKept ==
    ASSUME ClientInv, users \subseteq users', UNCHANGED disk,
           NEW s \in Workers, cmd[s] # "writing" \/ s \notin handles,
           NEW to \in {"prompt", "waiting", "opening", "writing", "acting"},
           cmd' = [cmd EXCEPT ![s] = to],
           NEW a \in users \cup {None}, users \subseteq Accounts,
           session' = [session EXCEPT ![s] = a],
           to \in {"opening", "acting"} => a \in users,
           to # "writing"
    PROVE  ClientInv'
<1>1. ClientTypes'
    BY DEF ClientInv, ClientTypes, disk
<1>2. SessionInv'
    BY DEF ClientInv, ClientTypes, SessionInv, disk
<1>3. s \notin handles
    BY DEF ClientInv, FileInv
<1>4. FileInv'
    BY <1>3 DEF ClientInv, ClientTypes, FileInv, Session, Parses, disk
<1>5. QED
    BY <1>1, <1>2, <1>4 DEF ClientInv

(* Every step keeps the invariant. *)
LEMMA ClientInvStep ==
    ASSUME AccountsInv, ClientInv, [CliNext]_cliVars
    PROVE  ClientInv'
<1> USE DEF Run
<1>1. /\ users \subseteq users' /\ users \subseteq Accounts
      /\ \A w \in Workers : pc[w] = "granted" => found[w] \in users
    BY CliStepsAccounts, ServerKeeps DEF AccountsInv, TypeOK
<1>2. CASE UNCHANGED <<cmd, session, disk>>
    <2>1. ClientTypes'
        BY <1>2 DEF ClientInv, ClientTypes, disk
    <2>2. SessionInv'
        BY <1>1, <1>2 DEF ClientInv, SessionInv, disk
    <2>3. FileInv'
        BY <1>2 DEF ClientInv, FileInv, Session, Parses, disk
    <2>4. QED
        BY <2>1, <2>2, <2>3 DEF ClientInv
<1>3. CASE ClearSession
    <2>1. ClientTypes'
        BY <1>3 DEF ClearSession, ClientInv, ClientTypes
    <2>2. SessionInv'
        BY <1>1, <1>3 DEF ClearSession, ClientInv, SessionInv
    <2>3. FileInv'
        BY <1>3 DEF ClearSession, FileInv, Session, Parses
    <2>4. QED
        BY <2>1, <2>2, <2>3 DEF ClientInv
<1>4. ASSUME NEW s \in Workers, NEW i \in Idents, NEW p \in Passwords,
             CmdLogin(s, i, p)
      PROVE  ClientInv'
    <2>2. ClientTypes'
        BY <1>4 DEF CmdLogin, ClientInv, ClientTypes, disk
    <2>3. SessionInv'
        BY <1>1, <1>4 DEF CmdLogin, ClientInv, ClientTypes, SessionInv, disk
    <2>4. FileInv'
        BY <1>4 DEF CmdLogin, ClientInv, ClientTypes, FileInv, Session, Parses, disk
    <2>5. QED
        BY <2>2, <2>3, <2>4 DEF ClientInv
<1>5. ASSUME NEW s \in Workers, NEW i \in Idents, NEW e \in Idents,
             NEW p \in Passwords, CmdRegister(s, i, e, p)
      PROVE  ClientInv'
    <2>2. ClientTypes'
        BY <1>5 DEF CmdRegister, ClientInv, ClientTypes, disk
    <2>3. SessionInv'
        BY <1>1, <1>5 DEF CmdRegister, ClientInv, ClientTypes, SessionInv, disk
    <2>4. FileInv'
        BY <1>5 DEF CmdRegister, ClientInv, ClientTypes, FileInv, Session,
            Parses, disk
    <2>5. QED
        BY <2>2, <2>3, <2>4 DEF ClientInv
<1>6. ASSUME NEW s \in Workers, Receive(s)
      PROVE  ClientInv'
    <2>1. found[s] \in users
        BY <1>1, <1>6 DEF Receive
    <2>2. QED
        BY <1>1, <1>6, <2>1, DiskKept DEF Receive
<1>7. ASSUME NEW s \in Workers, ReceiveOther(s)
      PROVE  ClientInv'
    <2>2. ClientTypes'
        BY <1>7 DEF ReceiveOther, ClientInv, ClientTypes, disk
    <2>3. SessionInv'
        BY <1>1, <1>7 DEF ReceiveOther, ClientInv, ClientTypes, SessionInv, disk
    <2>4. FileInv'
        BY <1>7 DEF ReceiveOther, ClientInv, ClientTypes, FileInv, Session,
            Parses, disk
    <2>5. QED
        BY <2>2, <2>3, <2>4 DEF ClientInv
<1>8. ASSUME NEW s \in Workers, Open(s)
      PROVE  ClientInv'
    <2>1. ClientTypes'
        BY <1>8, EmptyFile DEF Open, ClientInv, ClientTypes
    <2>2. SessionInv'
        BY <1>1, <1>8 DEF Open, ClientInv, ClientTypes, SessionInv
    <2>3. FileInv'
        <3>1. Empty # None
            BY EmptyFile, FileAssumption
        <3>2. QED
            BY <1>8, <3>1 DEF Open, ClientInv, ClientTypes, FileInv
    <2>4. QED
        BY <2>1, <2>2, <2>3 DEF ClientInv
<1>9. ASSUME NEW s \in Workers, Write(s)
      PROVE  ClientInv'
    <2>1. session[s] \in users
        BY <1>9 DEF Write, ClientInv, SessionInv
    <2>2. /\ session[s] \in Accounts /\ session[s] # None
          /\ Length(session[s]) \in Nat \ {0}
        BY <1>1, <2>1, SessionLength
    <2>3. CASE s \in handles
        <3> DEFINE n == Length(session[s])
                   size == IF file.size > n THEN file.size ELSE n
        <3>1. /\ file' = [text |-> session[s], size |-> size]
              /\ last' = session[s] /\ handles' = handles \ {s}
              /\ cmd' = [cmd EXCEPT ![s] = "prompt"]
              /\ session' = [session EXCEPT ![s] = None]
              /\ UNCHANGED <<users, disturbed>>
            BY <1>9, <2>3 DEF Write, server
        <3>2. file # None /\ file.size \in Nat
            BY <2>3 DEF ClientInv, ClientTypes, FileInv
        <3>3. size \in Nat
            BY <2>2, <3>2
        <3>4. file' \in [text : Accounts \cup {None}, size : Nat]
            BY <2>2, <3>1, <3>3
        <3>5. file' # None /\ file'.text = session[s] /\ file'.size = size
            BY <3>1, <3>4, FileAssumption
        <3>6. ClientTypes'
            BY <2>2, <3>1, <3>4 DEF ClientInv, ClientTypes
        <3>7. SessionInv'
            BY <2>1, <3>1, <3>5 DEF ClientInv, ClientTypes, SessionInv
        <3>8. ASSUME ~disturbed
              PROVE  handles' = {} /\ Session' = session[s]
            <4>1. handles = {s} /\ file = Empty
                BY <2>3, <3>8 DEF ClientInv, FileInv
            <4>2. size = n
                BY <2>2, <4>1, EmptyFile
            <4>3. Length(file'.text) = n
                BY <3>5
            <4>4. file'.size = n
                BY <3>5, <4>2
            <4>5. Parses'
                BY <3>5, <4>3, <4>4 DEF Parses, Length
            <4>6. QED
                BY <3>1, <3>5, <4>1, <4>5 DEF Session
        <3>9. /\ \A t \in handles' : cmd'[t] = "writing"
              /\ handles' # {} => file' # None
            BY <3>1, <3>5 DEF ClientInv, ClientTypes, FileInv
        <3>10. FileInv'
            BY <3>1, <3>8, <3>9 DEF FileInv
        <3>11. QED
            BY <3>6, <3>7, <3>10 DEF ClientInv
    <2>4. CASE s \notin handles
        <3>1. handles' = handles /\ UNCHANGED <<file, last, disturbed, users>>
            BY <1>9, <2>4 DEF Write, server
        <3>2. /\ cmd' = [cmd EXCEPT ![s] = "prompt"]
              /\ session' = [session EXCEPT ![s] = None]
            BY <1>9 DEF Write
        <3>3. QED
            BY <1>1, <2>4, <3>1, <3>2, DiskKept DEF disk
    <2>5. QED
        BY <2>3, <2>4
<1>10. ASSUME NEW s \in Workers, LoadSession(s)
       PROVE  ClientInv'
    <2>1. Session \in users
        <3>1. file # None /\ file # Empty
            BY <1>10, EmptyFile DEF LoadSession, Parses, Length
        <3>2. QED
            BY <1>10, <3>1 DEF LoadSession, Session, ClientInv, SessionInv
    <2>2. QED
        BY <1>1, <1>10, <2>1, DiskKept DEF LoadSession
<1>11. ASSUME NEW s \in Workers, Act(s)
       PROVE  ClientInv'
    BY <1>1, <1>11, DiskKept DEF Act
<1>12. ASSUME NEW s \in Workers, Kill(s)
       PROVE  ClientInv'
    <2>1. ClientTypes'
        BY <1>12 DEF Kill, ClientInv, ClientTypes
    <2>2. SessionInv'
        BY <1>1, <1>12 DEF Kill, ClientInv, ClientTypes, SessionInv
    <2>3. FileInv'
        BY <1>12 DEF Kill, ClientInv, ClientTypes, FileInv, Session, Parses
    <2>4. QED
        BY <2>1, <2>2, <2>3 DEF ClientInv
<1>13. ASSUME NEW s \in Workers, Unheard(s)
       PROVE  ClientInv'
    BY <1>2, <1>13 DEF Unheard
<1>14. QED
    BY <1>2, <1>3, <1>4, <1>5, <1>6, <1>7, <1>8, <1>9, <1>10, <1>11, <1>12,
       <1>13 DEF CliNext, cliVars

(* Whoever a command acts for has an account, and the login that was saved *)
(* undisturbed is the one it finds (cmd/cli saveSession, loadSession).     *)
THEOREM ClientSafe ==
    CliSpec => [](CliTypeOK /\ ActsForAccount /\ LoginKept)
<1>1. CliInit => AccountsInv /\ ClientInv
    BY AccountsInvInit, ClientInvInit DEF CliInit
<1>2. AccountsInv /\ ClientInv /\ [CliNext]_cliVars => AccountsInv' /\ ClientInv'
    BY CliStepsAccounts, AccountsInvStep, ClientInvStep
<1>3. AccountsInv /\ ClientInv => CliTypeOK /\ ActsForAccount /\ LoginKept
    BY DEF AccountsInv, ClientInv, ClientTypes, SessionInv, FileInv, CliTypeOK,
           ActsForAccount, LoginKept
<1>4. QED
    BY <1>1, <1>2, <1>3, PTL DEF CliSpec

(* Client and server keep their types, and a request that was not refused  *)
(* at once is there until it is answered (httpapi register, login).        *)
THEOREM ClientTypesKept == CliSpec => []CliTypeOK
BY ClientSafe, PTL

(* A login that had the file for itself stays the one that is found there, *)
(* whatever was in it (cmd/cli saveSession).                               *)
THEOREM LoginSurvives == CliSpec => []LoginKept
BY ClientSafe, PTL
===============================================================================
