------------------------------ MODULE Directory ------------------------------
(***************************************************************************)
(* What registration promises: a directory to which accounts are added one *)
(* at a time, each under a name and an address that no other has, and a    *)
(* truthful answer to everyone who asks for one.  Only "failed" leaves it  *)
(* open whether the account was added.                                     *)
(***************************************************************************)
CONSTANTS Askers, Accounts, None

VARIABLES directory, \* the accounts
          asked,     \* the account each asker asks for
          answer     \* how far its request has come

vars == <<directory, asked, answer>>

Taken(a) == \E b \in directory : b.name = a.name \/ b.email = a.email

Init ==
    /\ directory = {}
    /\ asked = [w \in Askers |-> None]
    /\ answer = [w \in Askers |-> "none"]

Answered(w, from, to) ==
    /\ answer[w] = from
    /\ answer' = [answer EXCEPT ![w] = to]
    /\ UNCHANGED asked

Ask(w) ==
    /\ answer[w] = "none"
    /\ answer' = [answer EXCEPT ![w] = "waiting"]
    /\ \E a \in Accounts : asked' = [asked EXCEPT ![w] = a]
    /\ UNCHANGED directory

Add(w) ==
    /\ Answered(w, "waiting", "added")
    /\ ~Taken(asked[w])
    /\ directory' = directory \cup {asked[w]}

Confirm(w) == Answered(w, "added", "created") /\ UNCHANGED directory

Refuse(w) ==
    /\ Answered(w, "waiting", "exists")
    /\ Taken(asked[w])
    /\ UNCHANGED directory

Fail(w) ==
    /\ Answered(w, "waiting", "failed") \/ Answered(w, "added", "failed")
    /\ UNCHANGED directory

Done(w) ==
    /\ answer[w] \in {"created", "exists", "failed"}
    /\ answer' = [answer EXCEPT ![w] = "none"]
    /\ asked' = [asked EXCEPT ![w] = None]
    /\ UNCHANGED directory

Next ==
    \E w \in Askers :
        \/ Ask(w)
        \/ Add(w)
        \/ Confirm(w)
        \/ Refuse(w)
        \/ Fail(w)
        \/ Done(w)

Spec == Init /\ [][Next]_vars
===============================================================================
