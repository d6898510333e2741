----------------------------- MODULE DaemonLink -----------------------------
(***************************************************************************)
(* What a front end has behind it: its connection, which is a DaemonClient's *)
(* for the desktop front ends, the daemon and the microphone.  The details   *)
(* are those of DaemonClient, ServerHub and HidDevice; here a snapshot is     *)
(* either None (nothing is known of the microphone) or a state that it once  *)
(* had, commands and news travel in order, and either direction can be cut   *)
(* at any moment.                                                          *)
(*                                                                         *)
(* Two settings stand for all: the gain, whose control moves in finer steps *)
(* than the microphone's, and switches.  One of the switches is the lock,   *)
(* for gain lock and Auto Level, while either of which the gain may not be  *)
(* changed.                                                                *)
(***************************************************************************)
EXTENDS Naturals, Sequences

CONSTANTS
    Switches,       \* the settings that are on or off
    MaxGain, Step,  \* the gain goes from 0 to MaxGain in steps of Step
    Serials,        \* of the microphones that may be plugged in
    None,           \* no snapshot
    MaxCmds,        \* bound: commands on their way to the microphone
    MaxNews         \* bound: snapshots on their way to the front end

ASSUME SwitchesAssumption == "lock" \in Switches /\ "gain" \notin Switches
ASSUME StepAssumption == MaxGain \in Nat \ {0} /\ Step \in Nat \ {0}
(* As every range of CONTROLS does, the gain's ends at one of its steps.    *)
ASSUME RangeAssumption == MaxGain % Step = 0
ASSUME LinkBoundsAssumption == MaxCmds \in Nat \ {0} /\ MaxNews \in Nat \ {0}

Fields == {"gain"} \cup Switches

(* A switch is Off or On; controls can be moved to any position, settings    *)
(* cannot have any.                                                        *)
Off == 0
On  == 1
AnyPosition  == 0 .. MaxGain
Positions(f) == IF f = "gain" THEN AnyPosition ELSE {Off, On}
Settings(f)  == IF f = "gain" THEN {g \in AnyPosition : g % Step = 0} ELSE {Off, On}

States == [settings : {s \in [Fields -> AnyPosition] : \A f \in Fields : s[f] \in Settings(f)},
           serial   : Serials]
Snapshots == States \cup {None}

ASSUME NoneAssumption == None \notin States \cup AnyPosition \cup Serials

(* A command of a control, sent by the hand of the user or by a timer, or   *)
(* the factory reset.                                                       *)
Commands == [field : Fields, value : AnyPosition, by : {"hand", "timer"}]
            \cup [field : {"reset"}]

VARIABLES
    mic,            \* the microphone, as the daemon would read it
    link,           \* the WebSocket of the client
    cmds,           \* commands sent and not yet executed
    news            \* what the client will report, oldest first

linkVars == <<mic, link, cmds, news>>

LinkInit ==
    /\ mic \in States
    /\ link = "closed"
    /\ cmds = <<>>
    /\ news = <<>>

(* DaemonClient.send: handed to an open socket, or refused.                 *)
Sends(c)  == link = "open" /\ Len(cmds) < MaxCmds /\ cmds' = Append(cmds, c)
CannotSend == link # "open"

-----------------------------------------------------------------------------
(* A refresh reports the microphone m, or that it cannot be read.           *)
Refreshed(m, readable) ==
    IF link = "open"
    THEN /\ Len(news) < MaxNews
         /\ news' = Append(news, IF readable THEN m ELSE None)
    ELSE UNCHANGED news

(* The microphone takes a command or refuses it; a refresh follows.         *)
Execute(readable) ==
    /\ cmds # <<>>
    /\ cmds' = Tail(cmds)
    /\ LET c == Head(cmds) IN
          mic' \in {mic} \cup (IF c.field = "reset" THEN {s \in States : s.serial = mic.serial}
                               ELSE {[mic EXCEPT !.settings[c.field] = c.value]})
    /\ Refreshed(mic', readable)
    /\ UNCHANGED <<link>>

Tick(readable) ==
    /\ link = "open"
    /\ Refreshed(mic, readable)
    /\ UNCHANGED <<mic, link, cmds>>

(* Another client, the touch panel, another microphone, or a command of a   *)
(* connection that is gone.                                                 *)
Elsewhere ==
    /\ mic' \in States \ {mic}
    /\ UNCHANGED <<link, cmds, news>>

(* What is on its way is lost, and the front end hears last of that.        *)
LinkLost(last) ==
    /\ link = "open"
    /\ link' = "closed"
    /\ cmds' = <<>>
    /\ news' = last
    /\ UNCHANGED mic

(* The client redials once it has noticed.                                  *)
LinkBack ==
    /\ link = "closed"
    /\ news = <<>>
    /\ link' = "open"
    /\ UNCHANGED <<mic, cmds, news>>

(* The daemon at work, and what interferes with it. *)
Works      == Execute(TRUE) \/ Tick(TRUE)
Interferes == Execute(FALSE) \/ Tick(FALSE) \/ Elsewhere

(* The front end stops its client: what was on its way to it is dropped.    *)
ClientStops ==
    /\ link' = "closed"
    /\ news' = <<>>
    /\ cmds' = <<>>
    /\ UNCHANGED mic

(* The client reports the head of its news, its snapshot from now on.       *)
Reports ==
    /\ news # <<>>
    /\ news' = Tail(news)
    /\ UNCHANGED <<mic, link, cmds>>

LinkTypeOK ==
    /\ mic \in States
    /\ link \in {"open", "closed"}
    /\ cmds \in Seq(Commands)
    /\ news \in Seq(Snapshots)

(* A control may be moved, and its change may wait, at positions that the    *)
(* microphone does not have; but every command on its way to it asks for a  *)
(* setting, a multiple of the step within the range, or for a reset.        *)
(* (commandFor, _queueCommand, _debounce, wire)                             *)
OnlySettingsAreSent ==
    \A i \in 1 .. Len(cmds) :
        cmds[i].field # "reset" => cmds[i].value \in Settings(cmds[i].field)

=============================================================================
