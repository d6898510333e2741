------------------------------- MODULE Wishes -------------------------------
(***************************************************************************)
(* What a front end with delayed commands promises to its user.  A wish is  *)
(* a change that waits for a pause in the user's movements.  It is sent at   *)
(* most once, as it was last expressed, and only while a microphone has     *)
(* been on display without a break since; it is forgotten with the display,  *)
(* or replaced by what the user does meanwhile.  A factory reset that was    *)
(* asked for one microphone is never sent for another.                      *)
(***************************************************************************)
EXTENDS Naturals, Sequences

CONSTANTS
    Fields,         \* the settings
    Values,         \* what they can be set to
    Nothing         \* no wish

VARIABLES
    known,          \* the microphone on display, none or one
    wish,           \* what waits, for each setting
    ask,            \* the microphone that the user is asked to confirm a reset of
    cmds            \* what was sent and not yet executed

vars == <<known, wish, ask, cmds>>

NoWish == [f \in Fields |-> Nothing]

Init ==
    /\ known = {}
    /\ wish = NoWish
    /\ ask = {}
    /\ cmds = <<>>

(* A wish is expressed, or changed. *)
Wish(f, v) ==
    /\ known # {}
    /\ wish' = [wish EXCEPT ![f] = v]
    /\ UNCHANGED <<known, ask, cmds>>

(* The pause is over. *)
Grant(f) ==
    /\ known # {}
    /\ wish[f] # Nothing
    /\ cmds' = Append(cmds, [field |-> f, value |-> wish[f], by |-> "timer"])
    /\ wish' = [wish EXCEPT ![f] = Nothing]
    /\ UNCHANGED <<known, ask>>

(* A command of the user that does not wait takes the place of a wish.     *)
AtOnce(f, v) ==
    /\ known # {}
    /\ cmds' = Append(cmds, [field |-> f, value |-> v, by |-> "hand"])
    /\ wish' = [wish EXCEPT ![f] = Nothing]
    /\ UNCHANGED <<known, ask>>

(* A wish that cannot be granted any more. *)
Forget(f) ==
    /\ wish' = [wish EXCEPT ![f] = Nothing]
    /\ UNCHANGED <<known, ask, cmds>>

(* The user wants a reset and is asked to confirm it. *)
Asked ==
    /\ known # {}
    /\ ask' = known
    /\ UNCHANGED <<known, wish, cmds>>

Reset ==
    /\ ask # {}
    /\ ask = known
    /\ cmds' = Append(cmds, [field |-> "reset"])
    /\ ask' = {}
    /\ UNCHANGED <<known, wish>>

Withdraw ==
    /\ ask' = {}
    /\ UNCHANGED <<known, wish, cmds>>

(* The daemon takes a command, or the connection loses those on their way. *)
Depart ==
    /\ cmds # <<>>
    /\ cmds' \in {Tail(cmds), <<>>}
    /\ UNCHANGED <<known, wish, ask>>

(* The microphone is lost, with the wishes.                                 *)
Lose ==
    /\ known' = {}
    /\ wish' = NoWish
    /\ ask' \in {ask, {}}
    /\ cmds' \in {cmds, <<>>}

(* A microphone is on display, another one perhaps.                         *)
Find ==
    /\ known' # {}
    /\ UNCHANGED <<wish, ask, cmds>>

Next ==
    \/ \E f \in Fields, v \in Values : Wish(f, v) \/ AtOnce(f, v)
    \/ \E f \in Fields : Grant(f) \/ Forget(f)
    \/ Asked \/ Reset \/ Withdraw
    \/ Depart \/ Lose \/ Find

Spec == Init /\ [][Next]_vars

=============================================================================
