---------------------------- MODULE StateFeed ----------------------------
(***************************************************************************)
(* What the hub promises its clients, without its queues, locks and        *)
(* goroutines: there is one truth about the microphone, a client that      *)
(* joins is told it at once, and every client that stays is told each time *)
(* it is behind.  A client is never told anything but the truth of that    *)
(* moment, so it can be late but never wrong.  ServerHub implements it.    *)
(***************************************************************************)
CONSTANTS
    Clients,    \* the connections that may exist at the same time
    States,     \* the states the microphone may be in
    NoState     \* "no valid state"

VARIABLES
    truth,      \* what the hub last learned of the microphone
    joined,     \* the clients being served
    view        \* what each client has been told

vars == <<truth, joined, view>>

Init ==
    /\ truth = NoState
    /\ joined = {}
    /\ view = [c \in Clients |-> NoState]

(* A refresh reads a state, or finds the microphone gone.                  *)
Learn ==
    /\ truth' \in States \cup {NoState}
    /\ UNCHANGED <<joined, view>>

(* A new client starts with the truth.                                     *)
Join(c) ==
    /\ c \notin joined
    /\ joined' = joined \cup {c}
    /\ view' = [view EXCEPT ![c] = truth]
    /\ UNCHANGED truth

Tell(c) ==
    /\ c \in joined
    /\ view[c] # truth
    /\ view' = [view EXCEPT ![c] = truth]
    /\ UNCHANGED <<truth, joined>>

(* Clients go, or are dropped for not draining their queue; one meter      *)
(* reading can find several of those.                                      *)
Leave ==
    /\ joined' \in SUBSET joined
    /\ UNCHANGED <<truth, view>>

Next ==
    \/ Learn \/ Leave
    \/ \E c \in Clients : Join(c) \/ Tell(c)

Spec == Init /\ [][Next]_vars

(* A client that stays behind is told.                                     *)
FairSpec == Spec /\ \A c \in Clients : WF_vars(Tell(c))
===========================================================================
