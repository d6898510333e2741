----------------------------- MODULE AppControls -----------------------------
(***************************************************************************)
(* The GNOME application (gnome-app/application.js with controls.js): every  *)
(* change of a control is sent when the control has been left alone for a    *)
(* quarter of a second, and the factory reset once a dialog is confirmed.    *)
(*                                                                         *)
(* One main loop: an action is one handler.  What interleaves is the order   *)
(* of the user's acts, the timers and the client's reports.  A source of     *)
(* the main loop carries the field and the value its closure captured;       *)
(* pending is the map from fields to sources, which the code keeps apart     *)
(* from the sources themselves.                                             *)
(***************************************************************************)
EXTENDS DaemonLink

VARIABLES
    client,         \* the application runs, and has a client
    snapshot,
    pending,        \* the value of the source in the map, for each field
    sources,        \* the sources that are armed: field and value
    shown,          \* what the controls show
    editing,        \* the gain's spin button has the focus
    asked,          \* the microphone named by the reset dialog, while it is open
    sameClient      \* the dialog is open and was opened with this client

appVars == <<client, snapshot, pending, sources, shown, editing, asked, sameClient>>
vars == <<linkVars, appVars>>

NoPending == [f \in Fields |-> None]

Init ==
    /\ LinkInit
    /\ client = TRUE
    /\ snapshot = None
    /\ pending = NoPending
    /\ sources = {}
    /\ shown = [f \in Fields |-> 0]
    /\ editing = FALSE
    /\ asked = {}
    /\ sameClient = FALSE

-----------------------------------------------------------------------------
(* controlEnabled. *)
Enabled(f) ==
    /\ snapshot # None
    /\ f = "gain" => snapshot.settings["lock"] = Off

(* Variant: what the control shows is sent.                                 *)
Unrounded(v) == v

(* commandFor: the nearest step, within the range.                          *)
Rounded(v) ==
    LET nearest == ((2 * v + Step) \div (2 * Step)) * Step
    IN  IF nearest > MaxGain THEN MaxGain ELSE nearest
CommandValue(f, v) == IF f = "gain" THEN Rounded(v) ELSE v

(* Variant: an insensitive control is not kept up to date.                  *)
DisplayedIfEnabled(s, p) ==
    [f \in Fields |-> IF s # None /\ p[f] = None /\ (f = "gain" => s.settings["lock"] = Off)
                      THEN s.settings[f] ELSE shown[f]]

(* What the controls show after a snapshot: not what is being changed.      *)
Displayed(s, p) ==
    [f \in Fields |-> IF s # None /\ p[f] = None /\ ~(f = "gain" /\ editing)
                      THEN s.settings[f] ELSE shown[f]]

(* Variant: a disconnected microphone leaves the commands for it waiting.   *)
ApplySnapshotKeepsPending(s, p, armed) ==
    /\ snapshot' = s
    /\ pending' = p
    /\ sources' = armed
    /\ shown' = Displayed(s, p)

(* _applySnapshot, after the map and the sources have become p and armed.   *)
ApplySnapshot(s, p, armed) ==
    /\ snapshot' = s
    /\ pending' = IF s = None THEN NoPending ELSE p
    /\ sources' = IF s = None THEN {t \in armed : p[t.field] = None} ELSE armed
    /\ shown' = Displayed(s, p)

Hears ==
    /\ client
    /\ Reports
    /\ ApplySnapshot(Head(news), pending, sources)
    /\ UNCHANGED <<client, editing, asked, sameClient>>

(* An error frame is reported with the snapshot the client has.             *)
HearsError ==
    /\ client
    /\ snapshot # None
    /\ ApplySnapshot(snapshot, pending, sources)
    /\ UNCHANGED <<linkVars, client, editing, asked, sameClient>>

-----------------------------------------------------------------------------
(* The user.  The dialog is modal: behind it no control can be used.        *)
UserActs == client /\ asked = {}

Source(f, v) == [field |-> f, value |-> v]

(* _queueCommand: the pause begins again.                                   *)
QueueCommand(f, v) ==
    /\ pending' = [pending EXCEPT ![f] = v]
    /\ sources' = (sources \ {Source(f, pending[f])}) \cup {Source(f, v)}

(* A control that is insensitive cannot be moved.                           *)
Moves(f, v) ==
    /\ UserActs
    /\ Enabled(f)
    /\ v # shown[f]
    /\ shown' = [shown EXCEPT ![f] = v]
    /\ QueueCommand(f, CommandValue(f, v))
    /\ UNCHANGED <<linkVars, client, snapshot, editing, asked, sameClient>>

Focuses ==
    /\ UserActs
    /\ Enabled("gain")
    /\ ~editing
    /\ editing' = TRUE
    /\ UNCHANGED <<linkVars, client, snapshot, pending, sources, shown, asked, sameClient>>

Leaves ==
    /\ editing
    /\ editing' = FALSE
    /\ UNCHANGED <<linkVars, client, snapshot, pending, sources, shown, asked, sameClient>>

(* The callback of a source.  A control that is no longer enabled drops the *)
(* change, a command that cannot be sent shows the snapshot again.          *)
Fires(t) ==
    /\ t \in sources
    /\ LET p == [pending EXCEPT ![t.field] = None]
           armed == sources \ {t}
       IN  \/ /\ ~Enabled(t.field)
              /\ pending' = p /\ sources' = armed
              /\ UNCHANGED <<linkVars, snapshot, shown>>
           \/ /\ Enabled(t.field)
              /\ Sends([field |-> t.field, value |-> t.value, by |-> "timer"])
              /\ pending' = p /\ sources' = armed
              /\ UNCHANGED <<mic, link, news, snapshot, shown>>
           \/ /\ Enabled(t.field)
              /\ CannotSend
              /\ ApplySnapshot(snapshot, p, armed)
              /\ UNCHANGED linkVars
    /\ UNCHANGED <<client, editing, asked, sameClient>>

-----------------------------------------------------------------------------
(* _stopClient removes the sources in the map.                              *)
LeftBehind == {t \in sources : pending[t.field] = None}

(* _connectClient, by the button or with another URL: a new generation.  The *)
(* old client's last reports carry the old one and are ignored.             *)
Reconnects ==
    /\ client
    /\ ClientStops
    /\ snapshot' = None
    /\ pending' = NoPending
    /\ sources' = LeftBehind
    /\ sameClient' = FALSE
    /\ UNCHANGED <<client, shown, editing, asked>>

(* 'shutdown': a new generation, nobody behind it, and no window.            *)
ShutsDown ==
    /\ client
    /\ ClientStops
    /\ client' = FALSE
    /\ pending' = NoPending
    /\ sources' = LeftBehind
    /\ asked' = {} /\ sameClient' = FALSE
    /\ shown' = [f \in Fields |-> 0]
    /\ editing' = FALSE
    /\ UNCHANGED snapshot

-----------------------------------------------------------------------------
(* _confirmReset, from a button that has taken the focus.                   *)
OpensDialog ==
    /\ UserActs
    /\ ~editing
    /\ snapshot # None
    /\ asked' = {snapshot.serial}
    /\ sameClient' = TRUE
    /\ UNCHANGED <<linkVars, client, snapshot, pending, sources, shown, editing>>

(* What the response handler compares.                                      *)
StillTheSame ==
    /\ sameClient
    /\ snapshot # None
    /\ asked = {snapshot.serial}

Cancels ==
    /\ asked # {}
    /\ asked' = {} /\ sameClient' = FALSE
    /\ UNCHANGED <<linkVars, client, snapshot, pending, sources, shown, editing>>

Confirms ==
    /\ asked # {}
    /\ asked' = {} /\ sameClient' = FALSE
    /\ \/ StillTheSame /\ Sends([field |-> "reset"]) /\ UNCHANGED <<mic, link, news>>
       \/ StillTheSame /\ CannotSend /\ UNCHANGED linkVars
       \/ ~StillTheSame /\ UNCHANGED linkVars
    /\ UNCHANGED <<client, snapshot, pending, sources, shown, editing>>

-----------------------------------------------------------------------------
User ==
    \/ \E f \in Fields : \E v \in Positions(f) : Moves(f, v)
    \/ Focuses \/ Leaves
    \/ Reconnects \/ ShutsDown
    \/ OpensDialog \/ Cancels \/ Confirms

(* Without a client nobody redials.                                         *)
Behind ==
    /\ Works \/ Interferes \/ LinkLost(<<None>>) \/ (client /\ LinkBack)
    /\ UNCHANGED appVars

Next == User \/ Behind \/ Hears \/ HearsError \/ \E t \in sources : Fires(t)

(* The main loop serves its sources, the daemon works and the client redials;*)
(* a user who is done leaves the spin button.  The worker's select cannot    *)
(* prefer its ticker for ever.                                             *)
Fairness ==
    /\ WF_vars(Hears)
    /\ WF_vars(\E t \in sources : Fires(t))
    /\ WF_vars(Leaves)
    /\ WF_vars(client /\ LinkBack /\ UNCHANGED appVars)
    /\ WF_vars((Tick(TRUE) \/ Tick(FALSE)) /\ UNCHANGED appVars)
    /\ SF_vars((Execute(TRUE) \/ Execute(FALSE)) /\ UNCHANGED appVars)

Spec == Init /\ [][Next]_vars
FairSpec == Spec /\ Fairness

-----------------------------------------------------------------------------
(* Properties. *)

(* The types: among others, no setting ever has a value between two steps.   *)
(* (commandFor)                                                             *)
TypeOK ==
    /\ LinkTypeOK
    /\ client \in BOOLEAN
    /\ snapshot \in Snapshots
    /\ pending \in [Fields -> AnyPosition \cup {None}]
    /\ sources \subseteq [field : Fields, value : AnyPosition]
    /\ shown \in [Fields -> AnyPosition]
    /\ editing \in BOOLEAN
    /\ asked \subseteq Serials
    /\ sameClient \in BOOLEAN

(* A change that waits is sent once and as last made, or not at all: never   *)
(* after a disconnection, a reconnection or the end.  A reset is sent for    *)
(* the microphone that was on display when the user asked for it and is      *)
(* again when the user confirms, on the same client.                        *)
(* (_queueCommand, _applySnapshot, _stopClient, _confirmReset)              *)
Promise == INSTANCE Wishes WITH
    Values <- AnyPosition, Nothing <- None,
    known <- IF client /\ snapshot # None THEN {snapshot.serial} ELSE {},
    wish <- pending,
    ask <- IF sameClient THEN asked ELSE {}
KeepsWishes == Promise!Spec

(* Neither the user nor the outside interferes. *)
Undisturbed ==
    \/ (Works \/ LinkBack) /\ UNCHANGED appVars
    \/ Hears \/ HearsError
    \/ \E t \in sources : Fires(t)
    \/ Leaves

(* When nobody interferes any more, the controls come to show the settings   *)
(* of the microphone, with nothing left to send: no change is stuck, and no  *)
(* control keeps a value that was refused, dropped or rounded.               *)
(* (_applySnapshot, _queueCommand)                                          *)
InStep ==
    /\ snapshot = mic
    /\ sources = {} /\ cmds = <<>>
    /\ shown = mic.settings
Settles == <>[][Undisturbed]_vars => <>[](client => InStep)

=============================================================================
