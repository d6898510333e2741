---------------------------- MODULE HidDevice ----------------------------
(***************************************************************************)
(* One call at a time on the microphone's HID console: GetState, a setter  *)
(* and FactoryReset of internal/mv7/device.go, over the descriptor that    *)
(* internal/hidraw/hidraw.go reopens after a failed write.  The callers    *)
(* are serialized (Device.mu); the interleaving is with the microphone,    *)
(* which answers in its own time, is changed and sends reports by itself   *)
(* (its touch panel), and is unplugged and plugged in again between any    *)
(* two steps.                                                              *)
(*                                                                         *)
(* A report is a record; packet layout, CRC and sequence numbers are left  *)
(* out: a damaged report is one that never arrives, and no answer is       *)
(* matched by its sequence number.  Three features stand for all: the two  *)
(* a refresh may not miss and one it may.                                  *)
(***************************************************************************)
EXTENDS Naturals, Sequences

CONSTANTS
    Values,         \* what a feature may be set to
    DefaultValue,   \* what DefaultState has for it
    Punctual,       \* every answer to a GET is read before it is given up
    MaxAttachments, \* bound: how often the microphone is plugged in
    MaxReopens,     \* bound: how often the descriptor is reopened
    MaxBacklog,     \* bound: reports it has yet to act on when a call begins
    BufferSize      \* reports the kernel keeps for a descriptor, 64 in Linux

ASSUME ValuesAssumption == DefaultValue \in Values
ASSUME PunctualAssumption == Punctual \in BOOLEAN
ASSUME BoundsAssumption ==
    MaxAttachments \in Nat /\ MaxReopens \in Nat /\ MaxBacklog \in Nat
ASSUME BufferAssumption == BufferSize \in Nat \ {0}

(* The order of the getters in GetState, and those it insists on.          *)
Getters == <<"gain", "mute", "serial">>
Features == {"gain", "mute", "serial"}
Required == {"gain", "mute"}

VARIABLES
    plugged,        \* the microphone is there
    attachment,     \* how often it has been plugged in
    hw,             \* its settings; its serial is its attachment
    pending,        \* SETs it holds until their CONFIRM
    wire,           \* reports it has yet to act on
    inbuf,          \* reports in the buffer of the open descriptor
    fd,             \* the attachment the descriptor was opened on
    generation,     \* Device.generation of hidraw
    pc,             \* where the call is
    next,           \* GetState: the getter whose turn it is
    got,            \* GetState: features answered (gotGain, gotMute)
    acc,            \* GetState: its local variable state
    known,          \* Device.state of mv7, DefaultState before the first
    request,        \* sendSet: the SET packet
    attempt,        \* sendSet: attempt
    setGeneration,  \* sendSet: generationAfterSet
    outcome,        \* how the last call ended
    seen,           \* history: what the required settings were meanwhile
    unapplied       \* history: the last setter's SET until it takes effect

micVars == <<plugged, attachment, hw, pending>>
linkVars == <<wire, inbuf, fd, generation>>
getVars == <<next, got, acc>>
setVars == <<request, attempt, setGeneration>>
vars == <<micVars, linkVars, pc, getVars, setVars, known, outcome, seen,
          unapplied>>

Requests ==
    [kind : {"get"}, feature : Features]
    \cup [kind : {"set"}, feature : Required, value : Values]
    \cup [kind : {"confirm", "reset"}]

Reports ==
    [kind : {"get", "set"}, feature : Features, value : Values \cup Nat]
    \cup [kind : {"ack", "panel"}]

NoRequest == [kind |-> "none"]

DefaultState ==
    [f \in Features |-> IF f \in Required THEN DefaultValue ELSE 0]

Init ==
    /\ plugged = TRUE
    /\ attachment = 1
    /\ hw \in [Required -> Values]
    /\ pending = {}
    /\ wire = <<>>
    /\ inbuf = <<>>
    /\ fd = 1
    /\ generation = 0
    /\ pc = "idle"
    /\ next = 1
    /\ got = {}
    /\ acc = DefaultState
    /\ known = DefaultState
    /\ request = NoRequest
    /\ attempt = 1
    /\ setGeneration = 0
    /\ outcome = "none"
    /\ seen = [f \in Required |-> {}]
    /\ unapplied = {}

(* The descriptor belongs to the microphone that is plugged in.            *)
Live == plugged /\ fd = attachment

---------------------------------------------------------------------------
(* The microphone.                                                         *)

(* The buffer of the open descriptor, once r has come for it: a full       *)
(* buffer drops the report, and a dead descriptor receives none.           *)
Received(buf, r) ==
    IF Live /\ Len(buf) < BufferSize THEN Append(buf, r) ELSE buf

(* The settings change; a refresh in progress may see either value.        *)
Settings(new) ==
    /\ hw' = new
    /\ seen' = IF pc \in {"get", "await"}
               THEN [f \in Required |-> seen[f] \cup {new[f]}]
               ELSE seen

MicAnswers ==
    /\ wire # <<>> /\ Head(wire).kind = "get"
    /\ wire' = Tail(wire)
    /\ LET f == Head(wire).feature
           v == IF f \in Required THEN hw[f] ELSE attachment
       IN  inbuf' = Received(inbuf,
                             [kind |-> "get", feature |-> f, value |-> v])
    /\ UNCHANGED <<micVars, fd, generation, pc, getVars, setVars, known,
                   outcome, seen, unapplied>>

(* No answer, or one without a usable value.                               *)
MicIgnores ==
    /\ wire # <<>> /\ Head(wire).kind = "get"
    /\ wire' = Tail(wire)
    /\ UNCHANGED <<micVars, inbuf, fd, generation, pc, getVars, setVars,
                   known, outcome, seen, unapplied>>

MicSet ==
    /\ wire # <<>> /\ Head(wire).kind = "set"
    /\ wire' = Tail(wire)
    /\ pending' = {Head(wire)}
    /\ UNCHANGED <<plugged, attachment, hw, inbuf, fd, generation, pc,
                   getVars, setVars, known, outcome, seen, unapplied>>

(* Every CONFIRM is acknowledged, and the SET it confirms is echoed.       *)
MicConfirm ==
    /\ wire # <<>> /\ Head(wire).kind = "confirm"
    /\ wire' = Tail(wire)
    /\ pending' = {}
    /\ \/ /\ pending = {}
          /\ inbuf' = Received(inbuf, [kind |-> "ack"])
          /\ UNCHANGED <<hw, seen, unapplied>>
       \/ \E s \in pending :
             /\ inbuf' = Received(Received(inbuf, [kind |-> "ack"]), s)
             /\ Settings([hw EXCEPT ![s.feature] = s.value])
             /\ unapplied' = unapplied \ {s}
    /\ UNCHANGED <<plugged, attachment, fd, generation, pc, getVars, setVars,
                   known, outcome>>

(* A report nobody asked for: sendGet skips it, well-formed or not.        *)
Unsolicited ==
    /\ Live /\ Len(inbuf) < BufferSize
    /\ inbuf' = Received(inbuf, [kind |-> "panel"])

(* Somebody changes a setting at the microphone; it may report the touch.  *)
Buttons(f, v) ==
    /\ plugged
    /\ v # hw[f]
    /\ Settings([hw EXCEPT ![f] = v])
    /\ Unsolicited \/ UNCHANGED inbuf
    /\ UNCHANGED <<plugged, attachment, pending, wire, fd, generation, pc,
                   getVars, setVars, known, outcome, unapplied>>

(* Or touches the panel without changing one, as often as they like.       *)
PanelReports ==
    /\ Unsolicited
    /\ UNCHANGED <<micVars, wire, fd, generation, pc, getVars, setVars,
                   known, outcome, seen, unapplied>>

(* The cable is pulled, or a reset makes the microphone re-enumerate.      *)
Unplug ==
    /\ plugged
    /\ plugged' = FALSE
    /\ pending' = {}
    /\ wire' = <<>>
    /\ UNCHANGED <<attachment, hw, inbuf, fd, generation, pc, getVars,
                   setVars, known, outcome, seen, unapplied>>

(* Another microphone, or the same one under a new number, with any         *)
(* settings.                                                               *)
Replug ==
    /\ ~plugged
    /\ attachment < MaxAttachments
    /\ plugged' = TRUE
    /\ attachment' = attachment + 1
    /\ \E new \in [Required -> Values] : Settings(new)
    /\ UNCHANGED <<pending, linkVars, pc, getVars, setVars, known, outcome,
                   unapplied>>

---------------------------------------------------------------------------
(* hidraw.                                                                 *)

(* Variant: a descriptor is reopened without a new generation.             *)
ReopenSilently ==
    /\ plugged
    /\ generation < MaxReopens
    /\ fd' = attachment
    /\ inbuf' = <<>>
    /\ UNCHANGED generation

Reopen ==
    /\ plugged
    /\ generation < MaxReopens
    /\ fd' = attachment
    /\ inbuf' = <<>>
    /\ generation' = generation + 1

(* Write returns nil: at once, or after a failed write (on a dead          *)
(* descriptor or a live one) and a reopen.                                 *)
Written(r) ==
    /\ wire' = Append(wire, r)
    /\ \/ Live /\ UNCHANGED <<inbuf, fd, generation>>
       \/ Reopen

(* Write returns an error: no console is found or it cannot be opened, or  *)
(* the second write fails too.                                             *)
NotWritten ==
    /\ UNCHANGED wire
    /\ UNCHANGED <<inbuf, fd, generation>> \/ Reopen

(* ReadTimeout finds nothing before its deadline, or fails at once on a    *)
(* dead descriptor.                                                        *)
NothingToRead == inbuf = <<>>

---------------------------------------------------------------------------
(* mv7: the call returns, leaving st in Device.state; its local variables  *)
(* are gone.                                                               *)
Return(o, st) ==
    /\ pc' = "idle"
    /\ outcome' = o
    /\ known' = st
    /\ next' = 1
    /\ got' = {}
    /\ acc' = st
    /\ request' = NoRequest
    /\ attempt' = 1
    /\ setGeneration' = 0

(* The next call begins, as soon as the worker or a client wants one.      *)
Begin(at) ==
    /\ pc = "idle"
    /\ Len(wire) <= MaxBacklog
    /\ pc' = at
    /\ outcome' = "none"

(* GetState. *)
BeginRefresh ==
    /\ Begin("get")
    /\ seen' = [f \in Required |-> {hw[f]}]
    /\ unapplied' = {}
    /\ UNCHANGED <<micVars, linkVars, getVars, setVars, known>>

WriteGet ==
    /\ pc = "get" /\ next <= Len(Getters)
    /\ Written([kind |-> "get", feature |-> Getters[next]])
    /\ pc' = "await"
    /\ UNCHANGED <<micVars, getVars, setVars, known, outcome, seen, unapplied>>

(* A feature that cannot be asked for is skipped.                          *)
WriteGetFails ==
    /\ pc = "get" /\ next <= Len(Getters)
    /\ NotWritten
    /\ next' = next + 1
    /\ UNCHANGED <<micVars, pc, got, acc, setVars, known, outcome, seen,
                   unapplied>>

(* Variant: an echo of a SET passes for the answer to a GET.               *)
MatchesFeature(r) == r.kind \in {"get", "set"} /\ r.feature = Getters[next]

(* The test sendGet makes of a report.                                     *)
Matches(r) == r.kind = "get" /\ r.feature = Getters[next]

ReadAnswer ==
    /\ pc = "await" /\ inbuf # <<>> /\ Matches(Head(inbuf))
    /\ inbuf' = Tail(inbuf)
    /\ got' = got \cup {Getters[next]}
    /\ acc' = [acc EXCEPT ![Getters[next]] = Head(inbuf).value]
    /\ next' = next + 1
    /\ pc' = "get"
    /\ UNCHANGED <<micVars, wire, fd, generation, setVars, known, outcome,
                   seen, unapplied>>

(* sendGet goes on reading after any other report.                         *)
ReadOther ==
    /\ pc = "await" /\ inbuf # <<>> /\ ~Matches(Head(inbuf))
    /\ inbuf' = Tail(inbuf)
    /\ UNCHANGED <<micVars, wire, fd, generation, pc, getVars, setVars,
                   known, outcome, seen, unapplied>>

(* The 200 ms of a GET are over.  This may happen with reports unread,     *)
(* between them or on the way the answer; not if the microphone, and who   *)
(* reads it, are punctual.                                                 *)
NoAnswerIn(s) == \A i \in 1 .. Len(s) : s[i].kind # "get"
OutOfTime == Punctual => NoAnswerIn(wire) /\ NoAnswerIn(inbuf)

(* Variant: the 200 ms begin anew with every report.                       *)
GetTimesOutOnSilence ==
    /\ pc = "await" /\ OutOfTime
    /\ NothingToRead
    /\ pc' = "get"
    /\ next' = next + 1
    /\ UNCHANGED <<micVars, linkVars, got, acc, setVars, known, outcome, seen,
                   unapplied>>

(* sendGet gives up, before its next read or when that one times out; the  *)
(* feature is skipped and what is unread stays in the buffer.              *)
GetTimesOut ==
    /\ pc = "await" /\ OutOfTime
    /\ pc' = "get"
    /\ next' = next + 1
    /\ UNCHANGED <<micVars, linkVars, got, acc, setVars, known, outcome, seen,
                   unapplied>>

EndRefresh ==
    /\ pc = "get" /\ next > Len(Getters)
    /\ \/ Required \subseteq got /\ Return("refreshed", acc)
       \/ ~(Required \subseteq got) /\ Return("failed", known)
    /\ UNCHANGED <<micVars, linkVars, seen, unapplied>>

(* A setter: set and sendSet. *)
BeginSet(f, v) ==
    /\ Begin("set")
    /\ request' = [kind |-> "set", feature |-> f, value |-> v]
    /\ seen' = [g \in Required |-> {}]
    /\ unapplied' = {request'}
    /\ UNCHANGED <<micVars, linkVars, getVars, attempt, setGeneration, known>>

WriteSet ==
    /\ pc = "set"
    /\ Written(request)
    /\ pc' = "confirm"
    /\ setGeneration' = generation'
    /\ UNCHANGED <<micVars, getVars, request, attempt, known, outcome, seen,
                   unapplied>>

WriteConfirm ==
    /\ pc = "confirm"
    /\ Written([kind |-> "confirm"])
    /\ generation' = setGeneration
    /\ pc' = "drain"
    /\ UNCHANGED <<micVars, getVars, setVars, known, outcome, seen, unapplied>>

(* The descriptor was reopened between SET and CONFIRM: once more.         *)
WriteConfirmElsewhere ==
    /\ pc = "confirm"
    /\ Written([kind |-> "confirm"])
    /\ generation' # setGeneration
    /\ \/ /\ attempt = 1
          /\ attempt' = 2
          /\ pc' = "set"
          /\ UNCHANGED <<getVars, request, setGeneration, known, outcome>>
       \/ attempt = 2 /\ Return("failed", known)
    /\ UNCHANGED <<micVars, seen, unapplied>>

WriteSetFails ==
    /\ pc \in {"set", "confirm"}
    /\ NotWritten
    /\ Return("failed", known)
    /\ UNCHANGED <<micVars, seen, unapplied>>

(* One of the two reads that drain the answers to a CONFIRM.               *)
Drained ==
    \/ /\ pc = "drain" /\ pc' = "drain more"
       /\ UNCHANGED <<getVars, setVars, known, outcome>>
    \/ pc = "drain more" /\ Return("set", known)

DrainReads ==
    /\ inbuf # <<>>
    /\ inbuf' = Tail(inbuf)
    /\ Drained
    /\ UNCHANGED <<micVars, wire, fd, generation, seen, unapplied>>

DrainTimesOut ==
    /\ NothingToRead
    /\ Drained
    /\ UNCHANGED <<micVars, linkVars, seen, unapplied>>

(* The packet that resets the microphone needs no CONFIRM.                 *)
BeginReset ==
    /\ Begin("reset")
    /\ seen' = [f \in Required |-> {}]
    /\ unapplied' = {}
    /\ UNCHANGED <<micVars, linkVars, getVars, setVars, known>>

WriteReset ==
    /\ pc = "reset"
    /\ \/ Written([kind |-> "reset"]) /\ Return("reset", known)
       \/ NotWritten /\ Return("failed", known)
    /\ UNCHANGED <<micVars, seen, unapplied>>

(* The microphone re-enumerates instead of answering.                      *)
MicReset ==
    /\ wire # <<>> /\ Head(wire).kind = "reset"
    /\ Unplug

---------------------------------------------------------------------------
Microphone == MicAnswers \/ MicIgnores \/ MicSet \/ MicConfirm \/ MicReset

Call ==
    \/ WriteGet \/ WriteGetFails \/ ReadAnswer \/ ReadOther \/ GetTimesOut
    \/ EndRefresh
    \/ WriteSet \/ WriteConfirm \/ WriteConfirmElsewhere \/ WriteSetFails
    \/ DrainReads \/ DrainTimesOut
    \/ WriteReset

Next ==
    \/ Microphone
    \/ Call
    \/ BeginRefresh
    \/ \E f \in Required, v \in Values : BeginSet(f, v)
    \/ BeginReset
    \/ Unplug \/ Replug
    \/ \E f \in Required, v \in Values : Buttons(f, v)
    \/ PanelReports

Spec == Init /\ [][Next]_vars

(* A call in progress goes on, and time passes: sendGet looks at its       *)
(* deadline before every read, so it gives up in the end whatever else     *)
(* there is to read.  Nothing is assumed of the microphone, which may      *)
(* answer never and send other reports for ever.                           *)
FairSpec == Spec /\ WF_vars(Call) /\ WF_vars(GetTimesOut)

---------------------------------------------------------------------------
(* The types of the state of hidraw.Device, mv7.Device and the microphone. *)
TypeOK ==
    /\ plugged \in BOOLEAN
    /\ attachment \in Nat
    /\ hw \in [Required -> Values]
    /\ pending \subseteq [kind : {"set"}, feature : Required, value : Values]
    /\ wire \in Seq(Requests)
    /\ inbuf \in Seq(Reports)
    /\ fd \in 0 .. attachment
    /\ generation \in Nat
    /\ pc \in {"idle", "get", "await", "set", "confirm", "drain",
               "drain more", "reset"}
    /\ next \in 1 .. 4
    /\ pc = "await" => next \in 1 .. 3
    /\ got \subseteq Features
    /\ acc \in [Features -> Values \cup Nat]
    /\ known \in [Features -> Values \cup Nat]
    /\ request \in {NoRequest}
         \cup [kind : {"set"}, feature : Required, value : Values]
    /\ pc \in {"set", "confirm"} => request # NoRequest
    /\ attempt \in {1, 2}
    /\ setGeneration \in Nat
    /\ outcome \in {"none", "refreshed", "set", "reset", "failed"}
    /\ seen \in [Required -> SUBSET Values]
    /\ unapplied \subseteq [kind : {"set"}, feature : Required, value : Values]

(* A refresh that reports success is a fresh reading: the gain and the     *)
(* mute it commits were the microphone's at some moment during this very   *)
(* call, whatever was left in the buffers by earlier calls, and whether or *)
(* not the microphone was unplugged and plugged in meanwhile.  (wsEvent:   *)
(* connected=true means the state is backed by a fresh successful read.)   *)
RefreshShowsHardware ==
    outcome = "refreshed" => \A f \in Required : known[f] \in seen[f]

(* The microphone is about to confirm these SETs, before any later request.*)
OnItsWay(sets) ==
    LET todo == {i \in 1 .. Len(wire) : wire[i] \in sets}
    IN  \/ pending = sets /\ wire # <<>> /\ Head(wire).kind = "confirm"
        \/ \E i \in todo : i < Len(wire) /\ wire[i + 1].kind = "confirm"

(* A setter that reports success takes effect on the microphone, if it is  *)
(* still the one plugged in: its SET has been confirmed, or both reports   *)
(* are on their way to it, one after the other.  They did not go to        *)
(* different attachments (sendSet).                                        *)
SetTakesEffect ==
    outcome = "set" /\ Live => unapplied = {} \/ OnItsWay(unapplied)

(* Every call comes back, also without a microphone, or with one that      *)
(* never answers and never stops sending other reports: the worker of the  *)
(* hub is never stuck in one.                                              *)
CallsReturn == pc # "idle" ~> pc = "idle"
===========================================================================
