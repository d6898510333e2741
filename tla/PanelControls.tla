---------------------------- MODULE PanelControls ----------------------------
(***************************************************************************)
(* The GNOME Shell extension (gnome-extension/extension.js): a panel icon    *)
(* and a menu.  Switches and choices send at once, a slider sends when it is *)
(* released, and after a fifth of a second when it is moved by key or wheel. *)
(* The icon fills with the input level while the microphone is known to be   *)
(* live.  The extension is disabled and enabled again while the Shell runs.  *)
(*                                                                         *)
(* As in AppControls, an action is one handler of the main loop, and a       *)
(* source carries what its closure captured.                                *)
(***************************************************************************)
EXTENDS DaemonLink

CONSTANT
    Controls        \* the settings that have an item in the menu

ASSUME ControlsAssumption == {"gain", "lock"} \subseteq Controls /\ Controls \subseteq Fields
ASSUME MutedAssumption == "muted" \in Switches

VARIABLES
    enabled,        \* between enable() and disable()
    snapshot,
    pending,        \* the value of the source in the map, for each field
    sources,        \* the sources that are armed: field and value
    shown,          \* what the items of the menu show
    dragging,       \* the slider is held
    meterEnabled,   \* the setting
    level,          \* the client's last reading is an available one
    filled          \* the icon shows the level instead of its outline

panelVars == <<enabled, snapshot, pending, sources, shown, dragging,
               meterEnabled, level, filled>>
vars == <<linkVars, panelVars>>

NoPending == [f \in Controls |-> None]
Blank == [f \in Controls |-> 0]

(* enable() ends with _connect().                                           *)
Init ==
    /\ LinkInit
    /\ enabled = TRUE
    /\ snapshot = None
    /\ pending = NoPending
    /\ sources = {}
    /\ shown = Blank
    /\ dragging = FALSE
    /\ meterEnabled \in BOOLEAN
    /\ level = FALSE
    /\ filled = FALSE

-----------------------------------------------------------------------------
(* _enabled. *)
Enabled(f) ==
    /\ snapshot # None
    /\ f = "gain" => snapshot.settings["lock"] = Off

(* value() of a range: the nearest step, within the range.                  *)
Rounded(v) ==
    LET nearest == ((2 * v + Step) \div (2 * Step)) * Step
    IN  IF nearest > MaxGain THEN MaxGain ELSE nearest

(* _updateIconFill.  "muted" is one of the switches.                        *)
FillVisible(on, reading, s) ==
    on /\ reading /\ s # None /\ s.settings["muted"] = Off

(* _updateMeter: reading is kept, and the icon follows.                     *)
UpdateMeter(reading, on, s) ==
    /\ level' = reading
    /\ filled' = FillVisible(on, reading, s)

Source(f, v) == [field |-> f, value |-> v]

(* _cancelPending. *)
Cancelled(f) == sources \ {Source(f, pending[f])}

(* Variant: an insensitive item is not kept up to date.                     *)
DisplayedIfEnabled(s, p, held) ==
    [f \in Controls |-> IF s # None /\ p[f] = None /\ (f = "gain" => s.settings["lock"] = Off)
                        THEN s.settings[f] ELSE shown[f]]

(* What the items show after an update: not what the user is changing.      *)
Displayed(s, p, held) ==
    [f \in Controls |-> IF s # None /\ p[f] = None /\ ~(f = "gain" /\ held)
                        THEN s.settings[f] ELSE shown[f]]

(* Variant: the icon is drawn before the new snapshot is in place.          *)
UpdateIconFirst(s, p, armed, held) ==
    /\ snapshot' = s
    /\ UpdateMeter(s # None /\ level, meterEnabled, snapshot)
    /\ pending' = IF s = None THEN NoPending ELSE p
    /\ sources' = IF s = None THEN {t \in armed : p[t.field] = None} ELSE armed
    /\ shown' = Displayed(s, p, held)

(* _update, after the map and the sources have become p and armed, the       *)
(* slider being held or not.                                                *)
Update(s, p, armed, held) ==
    /\ snapshot' = s
    /\ UpdateMeter(s # None /\ level, meterEnabled, s)
    /\ pending' = IF s = None THEN NoPending ELSE p
    /\ sources' = IF s = None THEN {t \in armed : p[t.field] = None} ELSE armed
    /\ shown' = Displayed(s, p, held)

Hears ==
    /\ enabled
    /\ Reports
    /\ Update(Head(news), pending, sources, dragging)
    /\ UNCHANGED <<enabled, dragging, meterEnabled>>

(* An error frame is reported with the snapshot the client has.             *)
HearsError ==
    /\ enabled
    /\ snapshot # None
    /\ Update(snapshot, pending, sources, dragging)
    /\ UNCHANGED <<linkVars, enabled, dragging, meterEnabled>>

-----------------------------------------------------------------------------
(* The user.  An item that is not sensitive takes no input.                 *)
UserActs == enabled

(* Variant: what waited for the slider is not cancelled.                    *)
SendKeepsPending(f, v, by, p, armed, show) ==
    /\ Enabled(f)
    /\ Sends([field |-> f, value |-> v, by |-> by])
    /\ pending' = p /\ sources' = armed /\ shown' = show
    /\ UNCHANGED <<mic, link, news, snapshot, level, filled>>

(* _send, by hand or by a timer, the menu showing show.                     *)
Send(f, v, by, p, armed, show) ==
    LET q    == [p EXCEPT ![f] = None]
        left == armed \ {Source(f, p[f])}
    IN  \/ /\ ~Enabled(f)
           /\ pending' = q /\ sources' = left /\ shown' = show
           /\ UNCHANGED <<linkVars, snapshot, level, filled>>
        \/ /\ Enabled(f)
           /\ Sends([field |-> f, value |-> v, by |-> by])
           /\ pending' = q /\ sources' = left /\ shown' = show
           /\ UNCHANGED <<mic, link, news, snapshot, level, filled>>
        \/ /\ Enabled(f)
           /\ CannotSend
           /\ Update(snapshot, q, left, dragging')
           /\ UNCHANGED linkVars

(* A switch is toggled, or an entry of a choice is activated, which does     *)
(* not show itself before the microphone has it.                            *)
Toggles(f, v) ==
    /\ UserActs
    /\ Enabled(f)
    /\ UNCHANGED <<enabled, dragging, meterEnabled>>
    /\ \/ v # shown[f] /\ Send(f, v, "hand", pending, sources, [shown EXCEPT ![f] = v])
       \/ Send(f, v, "hand", pending, sources, shown)

DragBegins ==
    /\ UserActs
    /\ Enabled("gain")
    /\ ~dragging
    /\ dragging' = TRUE
    /\ UNCHANGED <<linkVars, enabled, snapshot, pending, sources, shown, meterEnabled, level, filled>>

DragMoves(v) ==
    /\ UserActs
    /\ dragging
    /\ v # shown["gain"]
    /\ shown' = [shown EXCEPT !["gain"] = v]
    /\ UNCHANGED <<linkVars, enabled, snapshot, pending, sources, dragging, meterEnabled, level, filled>>

(* 'drag-end'; a display restored by _update is that of a released slider.  *)
DragEnds ==
    /\ enabled
    /\ dragging
    /\ dragging' = FALSE
    /\ Send("gain", Rounded(shown["gain"]), "hand", pending, sources, shown)
    /\ UNCHANGED <<enabled, meterEnabled>>

(* _debounce, for a slider that is not held.                                *)
Nudges(v) ==
    /\ UserActs
    /\ Enabled("gain")
    /\ ~dragging
    /\ v # shown["gain"]
    /\ shown' = [shown EXCEPT !["gain"] = v]
    /\ pending' = [pending EXCEPT !["gain"] = Rounded(v)]
    /\ sources' = Cancelled("gain") \cup {Source("gain", Rounded(v))}
    /\ UNCHANGED <<linkVars, enabled, snapshot, dragging, meterEnabled, level, filled>>

(* The callback of a source. *)
Fires(t) ==
    /\ t \in sources
    /\ UNCHANGED <<enabled, dragging, meterEnabled>>
    /\ Send(t.field, t.value, "timer", [pending EXCEPT ![t.field] = None], sources \ {t}, shown)

-----------------------------------------------------------------------------
(* The meter. *)

(* onMeter: the client has a level only while it is connected and metering. *)
HearsLevel(available) ==
    /\ enabled
    /\ available => snapshot # None /\ meterEnabled
    /\ UpdateMeter(available, meterEnabled, snapshot)
    /\ UNCHANGED <<linkVars, enabled, snapshot, pending, sources, shown, dragging, meterEnabled>>

(* 'changed::meter-enabled', by the menu or by the preferences, which nobody *)
(* listens to while the extension is disabled.                              *)
MeterSetting(on) ==
    /\ UserActs
    /\ on # meterEnabled
    /\ meterEnabled' = on
    /\ UpdateMeter(FALSE, on, snapshot)
    /\ UNCHANGED <<linkVars, enabled, snapshot, pending, sources, shown, dragging>>

PreferencesChange(on) ==
    /\ ~enabled
    /\ meterEnabled' = on
    /\ UNCHANGED <<linkVars, enabled, snapshot, pending, sources, shown, dragging, level, filled>>

-----------------------------------------------------------------------------
(* _stopClient removes the sources in the map.                              *)
LeftBehind == {t \in sources : pending[t.field] = None}

(* disable(): the widgets are gone.                                         *)
Disables ==
    /\ UserActs
    /\ ClientStops
    /\ enabled' = FALSE
    /\ pending' = NoPending
    /\ sources' = LeftBehind
    /\ shown' = Blank /\ dragging' = FALSE /\ filled' = FALSE
    /\ UNCHANGED <<snapshot, meterEnabled, level>>

(* enable(): new widgets and a new map, and a client by _connect.           *)
Enables ==
    /\ ~enabled
    /\ enabled' = TRUE
    /\ snapshot' = None
    /\ pending' = NoPending
    /\ UpdateMeter(FALSE, meterEnabled, None)
    /\ UNCHANGED <<linkVars, sources, shown, dragging, meterEnabled>>

(* 'changed::daemon-url': _connect replaces the client.                     *)
Reconnects ==
    /\ UserActs
    /\ ClientStops
    /\ snapshot' = None
    /\ pending' = NoPending
    /\ sources' = LeftBehind
    /\ UpdateMeter(FALSE, meterEnabled, None)
    /\ UNCHANGED <<enabled, shown, dragging, meterEnabled>>

-----------------------------------------------------------------------------
User ==
    \/ \E f \in Controls \ {"gain"} : \E v \in Positions(f) : Toggles(f, v)
    \/ DragBegins \/ DragEnds
    \/ \E v \in Positions("gain") : DragMoves(v) \/ Nudges(v)
    \/ \E on \in BOOLEAN : MeterSetting(on) \/ PreferencesChange(on)
    \/ Disables \/ Enables \/ Reconnects

Behind ==
    /\ Works \/ Interferes \/ LinkLost(<<None>>) \/ (enabled /\ LinkBack)
    /\ UNCHANGED panelVars

Next ==
    \/ User \/ Behind \/ Hears \/ HearsError
    \/ \E available \in BOOLEAN : HearsLevel(available)
    \/ \E t \in sources : Fires(t)

(* The main loop serves its sources, the daemon works and the client        *)
(* redials, a slider is released.  The worker's select cannot prefer its     *)
(* ticker for ever.                                                        *)
Fairness ==
    /\ WF_vars(Hears)
    /\ WF_vars(\E t \in sources : Fires(t))
    /\ WF_vars(DragEnds)
    /\ WF_vars(enabled /\ LinkBack /\ UNCHANGED panelVars)
    /\ WF_vars((Tick(TRUE) \/ Tick(FALSE)) /\ UNCHANGED panelVars)
    /\ SF_vars((Execute(TRUE) \/ Execute(FALSE)) /\ UNCHANGED panelVars)

Spec == Init /\ [][Next]_vars
FairSpec == Spec /\ Fairness

-----------------------------------------------------------------------------
(* Properties. *)

(* The types: among others, no setting ever has a value between two steps.   *)
(* (value of a range, _debounce)                                            *)
TypeOK ==
    /\ LinkTypeOK
    /\ snapshot \in Snapshots
    /\ pending \in [Controls -> AnyPosition \cup {None}]
    /\ sources \subseteq [field : Controls, value : AnyPosition]
    /\ shown \in [Controls -> AnyPosition]
    /\ enabled \in BOOLEAN /\ dragging \in BOOLEAN
    /\ meterEnabled \in BOOLEAN /\ level \in BOOLEAN /\ filled \in BOOLEAN

(* A delayed change is sent once and as last made, or not at all: never      *)
(* after the user has sent something newer by hand, after a disconnection,   *)
(* or after the extension was disabled, even if it is enabled again.         *)
(* (_debounce, _cancelPending, _send, _update, _stopClient)                  *)
Promise == INSTANCE Wishes WITH
    Fields <- Controls, Values <- AnyPosition, Nothing <- None,
    known <- IF enabled /\ snapshot # None THEN {snapshot.serial} ELSE {},
    wish <- pending,
    ask <- {}
KeepsWishes == Promise!Spec

(* The icon shows a live input exactly while the meter is on, the client's   *)
(* last reading is an available one, and the last state says that the        *)
(* microphone is not muted, in whichever order these change.                 *)
(* (_updateIconFill, _updateMeter, _update)                                  *)
FillIsTrue ==
    enabled => (filled <=> FillVisible(meterEnabled, level, snapshot))

(* Neither the user nor the outside interferes. *)
Undisturbed ==
    \/ (Works \/ LinkBack) /\ UNCHANGED panelVars
    \/ Hears \/ HearsError
    \/ \E t \in sources : Fires(t)
    \/ DragEnds

(* When nobody interferes any more, the menu comes to show the settings of   *)
(* the microphone with nothing left to send.  (_update, _send, _debounce)    *)
InStep ==
    /\ snapshot = mic
    /\ sources = {} /\ cmds = <<>> /\ ~dragging
    /\ \A f \in Controls : shown[f] = mic.settings[f]
Settles == <>[][Undisturbed]_vars => <>[](enabled => InStep)

=============================================================================
