----------------------------- MODULE WebConsole -----------------------------
(***************************************************************************)
(* The web console (internal/webui/web/app.js): one page, one socket at a    *)
(* time, and a timer that dials again three seconds after a socket closed.   *)
(* A control sends when it has changed; the gain has a slider and an entry,  *)
(* which follow each other.                                                 *)
(*                                                                         *)
(* An action is one event handler.  The handlers of every socket use the     *)
(* page's variable ws, which may be another socket by then; the id of a      *)
(* closed socket is used again.  While confirm() is open no handler runs,    *)
(* and what happens meanwhile is seen afterwards.                            *)
(***************************************************************************)
EXTENDS DaemonLink, FiniteSets

CONSTANTS
    Sockets,        \* bound: sockets that exist at a time
    Invalid         \* an entry that is empty, out of range or between steps

ASSUME SocketsAssumption == IsFiniteSet(Sockets) /\ Cardinality(Sockets) >= 2
ASSUME InvalidAssumption == Invalid \notin AnyPosition

VARIABLES
    sockets,        \* readyState of each socket
    ws,
    reconnectTimer, \* the page's variable is set
    armed,          \* the timer runs
    state,          \* the page's state
    usable,         \* the controls that are not disabled
    shown,          \* what the controls show
    entry,          \* what the entry of the gain shows
    using,          \* the control of the gain in use
    confirming,     \* confirm() is open
    told            \* history: the last news of this connection

pageVars == <<sockets, ws, reconnectTimer, armed, state, usable, shown, entry, using, confirming>>
vars == <<linkVars, pageVars, told>>

(* The page loads: setConn(false) and connect(). *)
Init ==
    /\ LinkInit
    /\ ws \in Sockets
    /\ sockets = [k \in Sockets |-> IF k = ws THEN "connecting" ELSE "closed"]
    /\ reconnectTimer = FALSE /\ armed = FALSE
    /\ state = None
    /\ usable = {}
    /\ shown = [f \in Fields |-> 0]
    /\ entry = 0
    /\ using = "neither"
    /\ confirming = FALSE
    /\ told = None

-----------------------------------------------------------------------------
(* setConn(false). *)
Unknown ==
    /\ state' = None
    /\ usable' = {}
    /\ UNCHANGED <<shown, entry>>

(* Variant: the gain is not kept up to date while it is disabled.           *)
KnownIfUsable(s) ==
    /\ state' = s
    /\ usable' = IF s.settings["lock"] = On THEN Fields \ {"gain"} ELSE Fields
    /\ shown' = [f \in Fields |-> IF f \in usable' THEN s.settings[f] ELSE shown[f]]
    /\ entry' = IF using # "entry" THEN shown'["gain"] ELSE entry

(* setConn(true) and applyState.  The slider is set even while it is held.   *)
Known(s) ==
    /\ state' = s
    /\ usable' = IF s.settings["lock"] = On THEN Fields \ {"gain"} ELSE Fields
    /\ shown' = s.settings
    /\ entry' = IF using # "entry" THEN s.settings["gain"] ELSE entry

(* onmessage.  Frames of the type error only show a message, and a status    *)
(* that says connected only a label: a state follows it.                    *)
Hears ==
    /\ ~confirming
    /\ sockets[ws] = "open"
    /\ Reports
    /\ IF Head(news) = None THEN Unknown ELSE Known(Head(news))
    /\ UNCHANGED <<sockets, ws, reconnectTimer, armed, using, confirming, told>>

(* onopen.  The get_state that it sends asks for what the daemon sends to    *)
(* every new connection and at every tick.                                  *)
Opens ==
    /\ ~confirming
    /\ sockets[ws] = "connecting"
    /\ LinkBack
    /\ sockets' = [sockets EXCEPT ![ws] = "open"]
    /\ Unknown
    /\ told' = None
    /\ UNCHANGED <<ws, reconnectTimer, armed, using, confirming>>

(* scheduleReconnect. *)
ScheduleReconnect ==
    IF reconnectTimer THEN UNCHANGED <<reconnectTimer, armed>>
    ELSE reconnectTimer' = TRUE /\ armed' = TRUE

(* Variant: a closed socket leaves the page as it is.                       *)
ClosesSilently(k) ==
    /\ ~confirming
    /\ sockets[k] # "closed"
    /\ sockets[k] = "open" => link = "closed"
    /\ sockets' = [sockets EXCEPT ![k] = "closed"]
    /\ ScheduleReconnect
    /\ UNCHANGED <<linkVars, ws, state, usable, shown, entry, using, confirming, told>>

(* onerror closes the socket of the page, which is k itself, already closed, *)
(* or one that is closed by this; then onclose.                             *)
Closes(k) ==
    /\ ~confirming
    /\ sockets[k] # "closed"
    /\ sockets[k] = "open" => link = "closed"
    /\ \E error \in BOOLEAN :
          sockets' = [j \in Sockets |->
              IF j = k THEN "closed"
              ELSE IF error /\ j = ws /\ sockets[j] # "closed" THEN "closing"
              ELSE sockets[j]]
    /\ Unknown
    /\ ScheduleReconnect
    /\ UNCHANGED <<linkVars, ws, using, confirming, told>>

(* Variant: the page's variable keeps the timer that is over.               *)
RedialsOnce ==
    /\ ~confirming
    /\ armed
    /\ armed' = FALSE
    /\ \E k \in Sockets :
          /\ sockets[k] = "closed"
          /\ ws' = k
          /\ sockets' = [sockets EXCEPT ![k] = "connecting"]
    /\ UNCHANGED <<linkVars, reconnectTimer, state, usable, shown, entry, using, confirming, told>>

(* The timer is over: connect().                                            *)
Redials ==
    /\ ~confirming
    /\ armed
    /\ armed' = FALSE
    /\ reconnectTimer' = FALSE
    /\ \E k \in Sockets :
          /\ sockets[k] = "closed"
          /\ ws' = k
          /\ sockets' = [sockets EXCEPT ![k] = "connecting"]
    /\ UNCHANGED <<linkVars, state, usable, shown, entry, using, confirming, told>>

-----------------------------------------------------------------------------
(* The user.  A control that is disabled takes no input.                    *)

(* Variant: only the socket is asked.                                       *)
SendIfOpen(c) ==
    IF sockets[ws] = "open" /\ link = "open"
    THEN Sends(c) /\ UNCHANGED <<mic, link, news>>
    ELSE UNCHANGED linkVars

(* send, for a command: what is sent on a connection that is gone without    *)
(* the page having heard of it is lost.                                     *)
Send(c) ==
    IF sockets[ws] = "open" /\ state # None /\ link = "open"
    THEN Sends(c) /\ UNCHANGED <<mic, link, news>>
    ELSE UNCHANGED linkVars

Set(f, v) == [field |-> f, value |-> v, by |-> "hand"]

(* A check box or a list changes and shows it; the buttons for mute and mode *)
(* wait for the microphone.                                                 *)
Chooses(f, v) ==
    /\ ~confirming
    /\ f \in usable
    /\ shown' \in {shown, [shown EXCEPT ![f] = v]}
    /\ Send(Set(f, v))
    /\ UNCHANGED <<sockets, ws, reconnectTimer, armed, state, usable, entry, using, confirming, told>>

Slides(v) ==
    /\ ~confirming
    /\ "gain" \in usable
    /\ using \in {"neither", "slider"}
    /\ v # shown["gain"]
    /\ using' = "slider"
    /\ shown' = [shown EXCEPT !["gain"] = v]
    /\ entry' = v
    /\ UNCHANGED <<linkVars, sockets, ws, reconnectTimer, armed, state, usable, confirming, told>>

Types(v) ==
    /\ ~confirming
    /\ "gain" \in usable
    /\ using \in {"neither", "entry"}
    /\ v # entry
    /\ using' = "entry"
    /\ entry' = v
    /\ shown' = IF v = Invalid THEN shown ELSE [shown EXCEPT !["gain"] = v]
    /\ UNCHANGED <<linkVars, sockets, ws, reconnectTimer, armed, state, usable, confirming, told>>

(* Variant: the validity of the entry is not checked.                       *)
LeavesUnchecked ==
    /\ ~confirming
    /\ using # "neither"
    /\ using' = "neither"
    /\ Send(Set("gain", IF using = "slider" THEN shown["gain"] ELSE entry)) \/ UNCHANGED linkVars
    /\ UNCHANGED <<sockets, ws, reconnectTimer, armed, state, usable, shown, entry, confirming, told>>

(* The slider is released or the entry left, and the change event comes, if  *)
(* the browser finds that there was a change.  The control may have been     *)
(* disabled meanwhile.                                                      *)
Leaves ==
    /\ ~confirming
    /\ using # "neither"
    /\ using' = "neither"
    /\ LET v == IF using = "slider" THEN shown["gain"] ELSE entry IN
          \/ v # Invalid /\ Send(Set("gain", v))
          \/ UNCHANGED linkVars
    /\ UNCHANGED <<sockets, ws, reconnectTimer, armed, state, usable, shown, entry, confirming, told>>

(* The factory reset. *)
AsksToConfirm ==
    /\ ~confirming
    /\ using = "neither"
    /\ usable # {}
    /\ confirming' = TRUE
    /\ UNCHANGED <<linkVars, sockets, ws, reconnectTimer, armed, state, usable, shown, entry, using, told>>

Confirms ==
    /\ confirming
    /\ confirming' = FALSE
    /\ Send([field |-> "reset"]) \/ UNCHANGED linkVars
    /\ UNCHANGED <<sockets, ws, reconnectTimer, armed, state, usable, shown, entry, using, told>>

-----------------------------------------------------------------------------
GainEntries == Settings("gain") \cup {Invalid}

User ==
    \/ \E f \in Switches : \E v \in Positions(f) : Chooses(f, v)
    \/ \E v \in Settings("gain") : Slides(v)
    \/ \E v \in GainEntries : Types(v)
    \/ Leaves
    \/ AsksToConfirm \/ Confirms

Told == told' = IF news' = <<>> THEN told ELSE news'[Len(news')]

Behind ==
    /\ Works \/ Interferes \/ LinkLost(<<>>)
    /\ Told
    /\ UNCHANGED pageVars

Next ==
    \/ User \/ Behind \/ Hears \/ Opens \/ Redials
    \/ \E k \in Sockets : Closes(k)

(* The browser serves its events and notices that a connection is gone, the  *)
(* daemon works and is reachable, and a user leaves what was begun.          *)
Fairness ==
    /\ WF_vars(Hears)
    /\ WF_vars(Opens)
    /\ WF_vars(Redials)
    /\ WF_vars(\E k \in Sockets : link = "closed" /\ sockets[k] = "open" /\ Closes(k))
    /\ WF_vars(Leaves)
    /\ WF_vars(Confirms)
    /\ WF_vars((Tick(TRUE) \/ Tick(FALSE)) /\ Told /\ UNCHANGED pageVars)
    /\ SF_vars((Execute(TRUE) \/ Execute(FALSE)) /\ Told /\ UNCHANGED pageVars)

Spec == Init /\ [][Next]_vars
FairSpec == Spec /\ Fairness

-----------------------------------------------------------------------------
(* Properties. *)

TypeOK ==
    /\ LinkTypeOK
    /\ sockets \in [Sockets -> {"closed", "connecting", "open", "closing"}]
    /\ ws \in Sockets
    /\ reconnectTimer \in BOOLEAN /\ armed \in BOOLEAN
    /\ state \in Snapshots
    /\ usable \subseteq Fields
    /\ shown \in [Fields -> AnyPosition]
    /\ entry \in GainEntries
    /\ using \in {"neither", "slider", "entry"}
    /\ confirming \in BOOLEAN
    /\ told \in Snapshots

(* The page always has exactly one way back to the daemon: the one socket    *)
(* that is not closed, which is the one its handlers use, or the timer that  *)
(* will dial.  It never holds two sockets, and is never left with none and   *)
(* no timer.  (connect, onerror, onclose, scheduleReconnect)                *)
Live == {k \in Sockets : sockets[k] # "closed"}
Lifeline ==
    /\ Live = IF armed THEN {} ELSE {ws}
    /\ sockets[ws] # "closing"

(* What the page shows as the state of the microphone is what the daemon     *)
(* said last on the connection that the page has, once it has all been       *)
(* heard, and the controls that can be used are those of that state.         *)
(* (onopen, onmessage, onclose, setConn, applyState)                        *)
Truthful ==
    /\ sockets[ws] = "open" /\ link = "open" /\ news = <<>> => state = told
    /\ sockets[ws] # "open" => state = None
    /\ usable = IF state = None THEN {}
                ELSE {f \in Fields : f = "gain" => state.settings["lock"] # On}

(* A command is sent only while the page shows the state of a microphone,    *)
(* and a reset only while it shows the one that the user saw when asked.     *)
(* (wire, send, the factory reset's handler)                                *)
Promise == INSTANCE Wishes WITH
    Values <- AnyPosition, Nothing <- None,
    known <- IF state # None THEN {state.serial} ELSE {},
    wish <- [f \in Fields |-> None],
    ask <- IF confirming THEN {state.serial} ELSE {}
KeepsWishes == Promise!Spec

(* Neither the user nor the outside interferes. *)
Undisturbed ==
    \/ Works /\ Told /\ UNCHANGED pageVars
    \/ Hears \/ Opens \/ Redials
    \/ \E k \in Sockets : sockets[k] = "open" /\ Closes(k)
    \/ Leaves \/ Confirms

(* When nobody interferes any more, the page connects and its controls come  *)
(* to show the settings of the microphone.                                  *)
(* (scheduleReconnect, connect, applyState, send)                           *)
InStep ==
    /\ state = mic
    /\ cmds = <<>>
    /\ shown = mic.settings
    /\ entry = mic.settings["gain"]
Settles == <>[][Undisturbed]_vars => <>[]InStep

=============================================================================
