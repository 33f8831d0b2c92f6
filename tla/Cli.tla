--------------------------------- MODULE Cli ---------------------------------
(***************************************************************************)
(* The command line client, cmd/cli/main.go, in front of the account       *)
(* handlers: shells of one user, each running one command after another,   *)
(* that share the file ~/.mangahub-session.json.  login writes it with     *)
(* os.WriteFile, which truncates the file and then writes; the file has no *)
(* lock, and a command may be killed between any two of its steps.         *)
(*                                                                         *)
(* A session stands for the JSON text of its account's token, id and name. *)
(* A file is the text written last and its length: a text written over a   *)
(* longer one leaves a tail, and then it does not parse.                   *)
(***************************************************************************)
EXTENDS Accounts, Naturals

CONSTANT Size \* the length of a session's text, which depends on the name

ASSUME SizeAssumption == Size \in [Idents -> Nat \ {0}]

ASSUME FileAssumption == None \notin [text : Accounts \cup {None}, size : Nat]

VARIABLES cmd,       \* what each shell's command is doing
          session,   \* the session it holds
          file,      \* the session file, or None
          handles,   \* commands that have this file open for writing
          last,      \* history: whose login was the last to be saved
          disturbed  \* history: the file was opened twice, or left unwritten

server == <<users, pc, request, found, owners>>
disk == <<file, handles, last, disturbed>>
cliVars == <<server, cmd, session, disk>>

Empty == [text |-> None, size |-> 0]
Length(a) == IF a = None THEN 1 ELSE Size[a.name]  \* 1: the braces of nothing
Parses == file # None /\ file.size = Length(file.text)
Session == IF Parses THEN file.text ELSE None

-------------------------------------------------------------------------------
CliInit ==
    /\ Init
    /\ cmd = [s \in Workers |-> "prompt"]
    /\ session = [s \in Workers |-> None]
    /\ file = None
    /\ handles = {}
    /\ last = None
    /\ disturbed = FALSE

Run(s, from, to) == cmd[s] = from /\ cmd' = [cmd EXCEPT ![s] = to]

(* register and login: httpJSON posts the request and waits. *)
CmdRegister(s, n, e, p) ==
    /\ Run(s, "prompt", "waiting")
    /\ RegisterCall(s, n, e, p)
    /\ UNCHANGED <<session, disk>>

CmdLogin(s, i, p) ==
    /\ Run(s, "prompt", "waiting")
    /\ LoginCall(s, i, p)
    /\ UNCHANGED <<session, disk>>

(* Mutant: the status is not looked at, and an error makes a session too. *)
ReceiveAny(s) ==
    /\ pc[s] \in {"granted", "refused"}
    /\ Reply(s)
    /\ Run(s, "waiting", "opening")
    /\ session' = [session EXCEPT
           ![s] = IF pc[s] = "granted" THEN found[s] ELSE None]
    /\ UNCHANGED disk

(* A login is granted: the answer is the session. *)
Receive(s) ==
    /\ pc[s] = "granted"
    /\ Reply(s)
    /\ Run(s, "waiting", "opening")
    /\ session' = [session EXCEPT ![s] = found[s]]
    /\ UNCHANGED disk

(* Any other answer ends the command. *)
ReceiveOther(s) ==
    /\ pc[s] # "granted"
    /\ Reply(s)
    /\ Run(s, "waiting", "prompt")
    /\ UNCHANGED <<session, disk>>

-------------------------------------------------------------------------------
(* saveSession. *)

(* Mutant: the file is opened without O_TRUNC. *)
OpenKeeping(s) ==
    /\ Run(s, "opening", "writing")
    /\ file' = IF file = None THEN Empty ELSE file
    /\ handles' = handles \cup {s}
    /\ disturbed' = (handles # {})
    /\ UNCHANGED <<server, session, last>>

Open(s) ==
    /\ Run(s, "opening", "writing")
    /\ file' = Empty
    /\ handles' = handles \cup {s}
    /\ disturbed' = (handles # {})
    /\ UNCHANGED <<server, session, last>>

(* The text is written, to no effect when the file has been removed. *)
Write(s) ==
    LET n == Length(session[s]) IN
    /\ Run(s, "writing", "prompt")
    /\ session' = [session EXCEPT ![s] = None]
    /\ handles' = handles \ {s}
    /\ IF s \in handles
           THEN /\ file' = [text |-> session[s],
                            size |-> IF file.size > n THEN file.size ELSE n]
                /\ last' = session[s]
           ELSE UNCHANGED <<file, last>>
    /\ UNCHANGED <<server, disturbed>>

(* logout: os.Remove. *)
ClearSession ==
    /\ \E s \in Workers : cmd[s] = "prompt"
    /\ file' = None
    /\ handles' = {}
    /\ last' = None
    /\ disturbed' = FALSE
    /\ UNCHANGED <<server, cmd, session>>

(* loadSession in status, library, progress, rating, grpc:progress, chat,  *)
(* tcp:sync: whoever it finds is who the command acts for.                 *)
LoadSession(s) ==
    /\ Parses
    /\ Run(s, "prompt", "acting")
    /\ session' = [session EXCEPT ![s] = Session]
    /\ UNCHANGED <<server, disk>>

Act(s) ==
    /\ Run(s, "acting", "prompt")
    /\ session' = [session EXCEPT ![s] = None]
    /\ UNCHANGED <<server, disk>>

(* The command is killed, or its connection to the server breaks.  The     *)
(* server answers all the same.                                            *)
Kill(s) ==
    /\ cmd[s] # "prompt"
    /\ cmd' = [cmd EXCEPT ![s] = "prompt"]
    /\ session' = [session EXCEPT ![s] = None]
    /\ handles' = handles \ {s}
    /\ disturbed' = (disturbed \/ s \in handles)
    /\ UNCHANGED <<server, file, last>>

Unheard(s) ==
    /\ cmd[s] # "waiting"
    /\ Reply(s)
    /\ UNCHANGED <<cmd, session, disk>>

CliNext ==
    \/ ClearSession
    \/ \E s \in Workers :
        \/ WorkerStep(s) /\ UNCHANGED <<cmd, session, disk>>
        \/ \E i \in Idents, p \in Passwords :
            \/ CmdLogin(s, i, p)
            \/ \E e \in Idents : CmdRegister(s, i, e, p)
        \/ Receive(s)
        \/ ReceiveOther(s)
        \/ Open(s)
        \/ Write(s)
        \/ LoadSession(s)
        \/ Act(s)
        \/ Kill(s)
        \/ Unheard(s)

CliSpec == CliInit /\ [][CliNext]_cliVars

-------------------------------------------------------------------------------
CliTypeOK ==
    /\ TypeOK
    /\ cmd \in [Workers -> {"prompt", "waiting", "opening", "writing", "acting"}]
    /\ session \in [Workers -> Accounts \cup {None}]
    /\ file \in [text : Accounts \cup {None}, size : Nat] \cup {None}
    /\ handles \subseteq Workers
    /\ last \in Accounts \cup {None}
    /\ disturbed \in BOOLEAN

(* A command acts only for an account that the server has: nobody's        *)
(* session is read from a file that was refused, torn or half written.     *)
ActsForAccount ==
    \A s \in Workers : cmd[s] = "acting" => session[s] \in users

(* Whatever two shells or a kill did to the file before, a login that      *)
(* opens it alone and writes it is the one that the next command finds,    *)
(* until a logout.                                                         *)
LoginKept == handles = {} /\ ~disturbed => Session = last
===============================================================================
