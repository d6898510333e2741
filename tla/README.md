# A verified model of mv7-linux-support

TLA+ modules, TLC configurations and TLAPS proofs for the control software of the
Shure MV7+ microphone: the daemon `mv7web` (Go), which owns the microphone's HID
device and serves it over a WebSocket, and the clients that show its state (a GNOME
Shell extension, a GNOME application, a web page; JavaScript).

The promise that matters to a user is small: *when something says the microphone is
muted, it is muted*, and *a change is made as the user last meant it, while a microphone
is on display*. They are kept by eight pieces of concurrent code, each of them a module
here: the driver that reads the microphone, the hub that distributes what was read, the
client that decides whether what it last heard may still be shown, the two layers of the
live meter, which opens the microphone's audio and must let go of it, and the three front
ends with their controls.

To check: `tlc -workers 2 -config <run>.cfg <MC module>` for a run of `PROJECT.json`,
`tlapm <Component>_proofs.tla` for the proofs. `PROJECT.json` maps every definition
to the lines it models, and gives, for every property, a mutation of the code's model
that breaks it (the operators introduced as variants, outside every specification).

## 1. Inventory

| Component (source) | State | Operations | Talks to |
|---|---|---|---|
| Driver (`internal/mv7`) on hidraw (`internal/hidraw`) | descriptor, generation, last known state, sequence number | `GetState`, setters via `sendSet`, `FactoryReset`, `reopen` on a failed write | microphone: reports over a queue in each direction; called by the worker only |
| Hub and device worker (`internal/server/server.go`) | cache (`state`, `have`, `connected`), `clients`, a queue and a done channel per client, command queue | `register`, reader, writer, `refresh`, `broadcast`, `unregister` | worker, one reader and one writer goroutine per client, under `s.mu` and `stateMu` |
| Meter supervisor (`internal/server/meter.go`) | wake channel, the current capture's cancel and finished, retry timer | `runMeter`, `meterWanted`, `wakeMeter`, `publishMeter`, `setMeterSubscription` | every hub goroutine changes the demand it serves |
| Meter capture (`internal/meter`) | source, child `parec`, two goroutines, two channels, timers | `run`, `capture`, `readPCM`, `monitor`, `verifyRoute` | audio service through `pactl` and `parec`; `emit` into the supervisor |
| Daemon client (`gnome-extension/daemonClient.js`, reducer in `state.js`) | epoch, transport, connection state, watchdog, reconnect and meter timers, backoff | `start`, `stop`, `setUrl`, `send`, `setMeterEnabled`, socket callbacks, timers | hub over WebSocket; UI by callbacks |
| Wire algorithms (`state.js`, `protocol.go`, `pcm.go`, `source.go`) | none | parse, normalise, coerce, packets, levels, peak hold | called by the above |
| Extension (`extension.js`) | snapshot, sources of delayed commands, menu items, last reading, icon fill | `_update`, `_send`, `_debounce`, `_updateMeter`, `_connect`, `enable`, `disable` | daemon client; user; settings |
| Application (`gnome-app`) | snapshot, sources of delayed commands, controls, reset dialog; meter and peak hold | `_applySnapshot`, `_queueCommand`, `_confirmReset`, `_connectClient`, shutdown | daemon client; user |
| Web console (`internal/webui`) | socket, state, one reconnect timer, controls | `connect`, socket handlers, `applyState`, `send`, `wire` | hub; user |
| Commands, packaging | none at run time | wiring | |

**What is hard, and what makes each part correct**

* *Driver.* A reply is recognised by its command, prefix and feature, in a stream that
  also carries late replies, acknowledgements and echoes of earlier SETs, and touch
  panel reports; any write may silently reopen another attachment of the microphone. A
  refresh must report only what the microphone held during that refresh; a set that
  reports success must have reached one attachment with its confirmation; every call
  must return.
* *Hub.* The cache and the clients are under different locks, registration and four
  ways of dropping a client interleave with a broadcast, and no queue may block the
  worker. A client must end up knowing what the cache holds, never a state that its
  last status does not back.
* *Meter supervisor.* The demand is a function of state changed by many goroutines, and
  the wake-up that follows each change comes later, through a channel of capacity one.
  No wake-up may be lost, two captures may not overlap, and the join must not deadlock
  with a capture that wants `s.mu`.
* *Meter capture.* Verification runs beside the capture, in a goroutine that may be
  blocked on a channel, a pause or a tool. Nothing is published before a check, a
  failing check ends the capture, and nothing survives it.
* *Daemon client.* Callbacks of sockets, timers and imports that were given up arrive
  later. One socket at most, no life after `stop`, always something pending after a
  failure, and a mute state on screen only while a watchdog guards it.
* *Front ends.* A change waits for a pause of the user while states, disconnections, other
  changes, a dialog and the end of the client arrive in any order. It must be sent once, as
  last made, to a microphone on display, or be forgotten; and what a control shows must
  come back to what the microphone has, though nobody answers a refused command. The web
  console has no client below it and does its own reconnecting with handlers that share
  one variable.

`PROJECT.json` lists every hazard of this kind with its line, the properties that catch
it going wrong, or the reason why none does yet.

## 2. Modules

`MC*` modules add only a symmetry set where one is used. `*_proofs` modules extend their
component with inductive invariants and proofs.

**`HidDevice`** - one worker calling `GetState`, a setter or `FactoryReset`, step by step:
each write, each read of a reply, each drained report. The microphone (external) answers
or ignores requests, applies a confirmed SET, is changed at its touch panel, sends reports
that nobody asked for, with such a change or without, is unplugged, replugged, reset.
`wire` and `inbuf` are the two directions of the descriptor; a descriptor of an attachment
that is gone reaches nobody, and one whose buffer holds `BufferSize` reports drops the
next. `GetTimesOut` is the end of the 200 ms that `sendGet` has for all its reads: it may
come while reports, the answer among them, are still unread, and they stay in the buffer.
The constant `Punctual` rules that out for answers: if it is TRUE, every answer to a GET
that will come is read before that GET is given up. Two required features stand for
gain and mute, one optional feature for the others (its value identifies the attachment,
like a serial number). `seen` and `unapplied` are history: what the microphone held
during this refresh, and what it has not yet applied of the last set. Packet layout,
checksums and sequence numbers are left out (replies are not matched by the latter);
`Close` is not modelled.

**`ServerHub`** - worker, and for each connection a reader and a writer. A step is what one
goroutine does between two points where another can be seen: `Refresh` ends where the
cache is written, `BroadcastLock` takes `s.mu`, `BroadcastSubmit` hands one frame to one
client, `BroadcastUnlock` removes the dead, `BroadcastClose` closes them. A reader's own
errors need no lock. Two variables are history: `told` is what a client will have heard
when its queue is written, and `halfway` holds the clients that were sent a
`status(connected=true)` and nothing but errors since, whatever their writers have taken.
Merged into one step, because nothing between can be observed through the modelled state:
`wakeMeter` after a critical section; a writer that ends and waits for `s.mu`;
`unregister` and `close` at a reader's end; `register` and `startWriter`. The frame a
writer is writing is not kept. A command is a success or a failure here, and error texts
are left out. `PeerMessages` bounds what clients may send.

**`StateFeed`** - the hub's promise without queues, locks and goroutines: one truth about the
microphone, learned again and again; a client that joins is told it at once; a client that
is behind is told the truth of that moment, never anything else; clients leave.
`ServerHub` implements it under the mapping `Feed` (the truth is the state the cache backs,
a client is in it while registered and not about to be dropped, its view is `told`).

**`MeterSupervisor`** - the hub reduced to the facts `meterWanted` reads, every step of
`runMeter`, and its captures, which publish, end by themselves or end because they are
cancelled. A goroutine that changed the demand *owes* the wake-up until it has called
`wakeMeter`. Whether a submit is refused is left open. The `connected` test inside
`publishMeter` selects only the text of the frame and is left out.

**`MeterCapture`** - what such a capture does inside: one action per select arm of
`capture`, per step of `readPCM` and `monitor`, and the deferred cleanup in its order. The
audio service is external: the source goes and returns at any index, a stream is
registered late, elsewhere, or moved, tools fail at any time. Timers fire whenever they
are armed. `proven` is history: a check of this capture saw its stream on its source.

**`DaemonClient`** - the public calls, the runtime import, dial and socket callbacks, the
three timers and the reducer. `Handles` bounds the transports that may exist at once, of
which at most one is the client's; the others are dials and sockets given up earlier. An
epoch is only ever compared with the current one, so a captured epoch is `"current"` or
`"stale"`. A handler composed of several methods is one action: the record `k` carries
what the methods called so far have assigned, so that their order in the code is the
order here. Left out: factories that return promises, injected clocks, callers that call
back from `onUpdate`, commands other than the subscription, the text of URLs and frames
(valid or not).

**`DaemonLink`** - what the front ends have behind them, EXTENDed by the next three: commands
and snapshots travel in order on a connection that can be cut at any moment, the
microphone takes a command or refuses it and is refreshed, others change or replace it. A
snapshot is `None` (anything but connected with a valid state) or a state. Two kinds of
setting stand for all: the gain, whose control is finer than the microphone's steps, and
switches, one of which is the lock that disables the gain (gain lock and Auto Level). A
command that is still executed after its connection was lost is an act of others.

**`Wishes`** - the promise of a front end with delayed commands: a wish is expressed or
changed while a microphone is on display, granted at most once and as it last was, replaced
by what the user does at once, forgotten with the display. Which microphone is on display
matters to a reset only, which is sent while it is the one the user was asked about; a wish
stays when another microphone appears without a break, as the delayed commands of the code
do. Of a change event that comes when a newer state has disabled its control nothing is
promised: the page sends it on a connection that has a state. The front ends implement it
under the mapping `Promise`.

**`AppControls`** - the application: every control delays. `pending` (the map) and `sources`
(what the main loop will call) are separate, as in the code: that they agree is what has to
be shown, and a source out of the map would fire whatever happened. Handlers that apply a
snapshot are `ApplySnapshot` over the map and sources as they are by then. The dialog is
modal for the controls; a reconnection behind it, which the code guards against, is possible
and makes the dialog another client's. A serial number is taken to be that of the microphone it came with,
which the driver does not ensure when the optional read of it fails (device.go:133).

**`PanelControls`** - the extension: switches and choices send at once, the slider when
released, or after a delay when nudged; the icon's fill is a cache of the setting, the last
reading and the last snapshot; `disable` and `enable` at any moment, settings changing in
between. A new enable() starts with a new map and generation 0: sources left in the loop
would fire into it, and none is left. That a stopped client reports nothing is
`StoppedIsQuiet` of `DaemonClient`. The level and its texts are left out.

**`WebConsole`** - the page: sockets, of which several may exist while handlers use the
variable `ws`; the timer and its variable, kept apart; the gain's slider and entry, which
follow each other; the reset question, which stops the page. `told` is history: the last
news of this connection. The `get_state` of a new connection asks for what comes anyway.

**`MeterDemand`** - what the hub and the supervisor of the meter agree on: the demand may
change at any moment, but whoever changes it wakes the supervisor or owes it the wake-up
from then on, and only the supervisor takes the token. `ServerHub` implements it
(`AnnouncesDemand`; there a reader or writer that leaves wakes in the same step, and the
worker owes the wake-up until its broadcast is over) and so does `MeterSupervisor`, whose
hub is reduced to what `meterWanted` reads and whose every goroutine wakes in a step of
its own. What the supervisor's proofs assume of the hub is thus what the hub does.

The modules meet at narrow interfaces: `HidDevice`'s `outcome` is the success or failure
`ServerHub!Refresh` chooses; `ServerHub`'s `connected`, `clients` and `wantsMeter` are the
ones `MeterSupervisor` reads, through `MeterDemand`; `MeterCapture` between `discover` and `returned` is one
running capture of `MeterSupervisor`, `Emit` being its `PublishCheck`; the frames
`ServerHub` queues are the ones `DaemonClient` receives; a snapshot that `DaemonClient`
reports is a news of `DaemonLink`, whose refreshes are `ServerHub`'s.

## 3. Runs

| Run | Specification and bounds | States | Shows |
|---|---|---|---|
| `hub_single` | fair; 1 client that reconnects, 1 state, queue 2, commands 1, all messages | 55 k | `StateNeedsStatus`, `OnlyErrorsBetween`; `WorkerNeverBlocks`, `FullQueueDrains`, `DroppedPeerEnds`, `NobodyLeftBehind` (the fair `StateFeed`); `AnnouncesDemand` (`MeterDemand`) |
| `hub_pair` | 2 clients (symmetric), 2 states, bad messages only | 1.44 M | `UpToDate`, `RegisteredIsServed` and `ImplementsFeed` (`StateFeed`) with a broadcast interleaved with another client's life |
| `hub_follows` | as `hub_single` | - | *violated*: status and state adjacent |
| `meter_supervisor` | fair; 1 client, 2 captures | 19 k | `DemandMet`, `SingleCapture`; `MeterComesUp`, `MeterGoesDown`, `SupervisorStops` |
| `meter_capture` | fair; 2 indices | 144 k | `VerifiedBeforePublished`, `NeverUnsupervised`, `NothingLeftBehind`; `MisroutedStops`, `CancelReturns` |
| `hid_device` | punctual; 2 values, 2 attachments, 1 reopen, 1 request left over, buffer 2 | 6.7 M | `RefreshShowsHardware`, `SetTakesEffect` |
| `hid_calls` | fair, not punctual; 1 value, 2 attachments, 1 reopen, 1 request left over, buffer 2 | 391 k | `CallsReturn`, though other reports never stop |
| `hid_stale` | not punctual; 1 attachment, 2 requests left over, buffer 2 | - | *violated*: a fresh reading |
| `daemon_client` | fair; 3 transports, backoff saturating at 2 | 32 k | `ConnectedIsWatched`, `OneSocket`, `StoppedIsQuiet`, `NeverStranded`, `LevelIsLive`, `SubscriptionFollowsChoice`; `ConnectsAgain` |
| `app_controls` | fair; 2 microphones, the lock, gain 0..2 in steps of 2, 1 command, 1 news | 336 k | `OnlySettingsAreSent` (nothing between two steps), `KeepsWishes` (`Wishes`); `Settles` |
| `panel_controls` | fair; 1 microphone, gain 0..1, lock in the menu, mute observed, 1 command, 1 news | 229 k | `FillIsTrue`, `KeepsWishes`; `Settles` |
| `web_console` | fair; 2 sockets, 2 microphones, the lock, gain 0..1, 1 command, 1 news | 254 k | `Lifeline`, `Truthful`, `KeepsWishes`; `Settles` |

The `TypeOK` of every module is proved for all values of the constants (section 5), and so
is every invariant and every refinement of this table; only the liveness properties are not.

*Bounds and why they suffice.* A send queue of two holds exactly one status and state, so a
single error frame makes it overflow in the middle of a pair; a command queue of one is
full after one command. One client meets every step of its own life and of the worker; two
are needed for a broadcast that is at one client while the other comes or goes, and the
steps of a third are of the same kinds as the second's. Two captures are what a second one
needs to overlap with the first. Two source indices distinguish a microphone that comes
back in its old place from one that comes back elsewhere. Two attachments and one reopen
separate SET from CONFIRM; a buffer of two holds the acknowledgement and the echo of a SET,
or is kept from ever being empty by other reports (hidraw's holds 64), and a request left
over from one call is acted on during the next. Three transports allow two abandoned ones
beside the current one. A gain with one position between its two steps is what rounding
needs. One command and one news on their way separate a control from the microphone and the
microphone from the display; two microphones let the dialog and the page meet another one,
and the extension, which asks nothing about serial numbers, needs one. Two sockets are an
old and a new one. `MaxCmds` and `MaxNews` are bounds of the runs only: the proofs hold for
all. `MaxReopens`, `MaxAttachments`, `MaxBacklog` (requests the microphone has not acted on
when a call begins) and `MaxAttempt` are guards on counters that have no bound in the code
(the last one saturates, as the delay does); `BufferSize` is a limit of the kernel, where
reports are lost, not a guard.

*Deadlock* is checked in every run except where the configuration says otherwise; none
does.

*Fairness.* Goroutines and main-loop callbacks that can run do run (weak). A Go select
chooses at random among ready arms, and a mutex is granted again and again, so an arm or a
lock that is ready infinitely often is taken (strong: `HandleCommand` against the ticker,
the arms of `runMeter` and `capture`, a reader or writer that waits for `s.mu`). A
connection whose writer has closed it fails its reader's next read. A cancelled capture
returns (justified by `CancelReturns` of `MeterCapture`), and exec kills a child whose
context is done. A dial in progress ends. Time passes: `sendGet` looks at its deadline
before every read (device.go:107-112), so a GET that goes on reading is given up in the end
(`WF_vars(GetTimesOut)`); `CallsReturn` assumes nothing of the microphone. For
`ConnectsAgain` alone the environment must cooperate: a dial that is tried again and again
starts and succeeds again and again, and a valid state arrives again and again on
connections that stay open. In the front ends, the client redials, the daemon ticks, and
executes a command that waits again and again (its select cannot prefer the ticker for
ever); a user leaves a focused entry, a held slider and an open question in the end; the
browser notices that a connection is gone. `Settles` has its own premise beside these: from
some moment on nothing but the front end itself and a working daemon and microphone acts
(`Undisturbed`). Nothing else is assumed of users, of peers, of the microphone's content,
of the audio service or of the other timers.

## 4. Findings

Both are places where a comment claims more than the code does.

* `hub_follows`: `refresh` says (server.go:590-591) that clients receive
  `status(connected=true)` *immediately followed by the state*, enqueued together under the
  hub lock. The reader's own errors are submitted without that lock (169, 179, 192) and may
  come between. What does hold is `OnlyErrorsBetween`: after a `status(connected=true)` a
  client is sent nothing but errors until it is sent a state, whatever its writer has taken
  meanwhile.
* `hid_stale`: the contract of `connected=true` (server.go:86-88) is a *fresh successful read
  of the hardware*. A reply that is not read before the 200 ms deadline of its own request,
  because it came late or stood behind other reports, answers the same request of a later
  refresh (`sendGet` does not compare sequence numbers). If every reply is read before its
  request is given up (`Punctual`), the contract holds: checked by `hid_device` and proved
  (`FreshReading`).

## 5. What is proved

All proofs are checked by TLAPS for every value of the constants, from the named
assumptions of each module: sets disjoint from their "none" values, bounds in `Nat`, a
default among the values, a range that ends at one of its steps (as all of `CONTROLS` do: 0
to 36 by 0.5, -100 to 100 by 10, 0 to 100 by 1). Those are evaluated by TLC in the runs.

* `ServerHub_proofs`: `TypeCorrect`; `EveryRegisteredIsServed`; `ClientsAreUpToDate`;
  `NoStateWithoutStatus`; `HubImplementsFeed`; `StateOrErrorFollows`;
  `HubAnnouncesDemand`. `UpToDate` speaks of moments when a client has nothing left of the
  broadcast in progress, and alone is not inductive: the strengthening relates, for every
  client, what it was told, what is left of the batch for it, and the cache, so that
  telling it the rest always ends at the cache, and says that outside a broadcast nothing
  is left. Registration needs that a new client's snapshot is taken from the same cache,
  and that the drop of a peer and the end of its goroutines come in either order. The
  refinement follows from the same invariants: almost every step teaches nobody anything and
  lets nobody in (`LeaveStep`), a registration is a `Join`, and a submitted frame leaves the
  client's state alone or makes it the cache's (`SubmitTells`). Its fair half stays with TLC.
  `OnlyErrorsBetween` is an action property of everything a client is ever sent: who is
  `halfway` is sent a state or an error next. `HalfInv` says why: under the lock, a
  registered client that is half-way is either about to be sent exactly its state or was
  refused it and is dropped before anything else is sent to it; without the lock no registered
  client is half-way, and only a client's own reader, with errors, sends without it.
  `HubAnnouncesDemand` maps
  each step to `Change`, `Wake`, `Take` or a stutter; that a client which connects takes no
  subscription away needs `RegisteredIsServed`.
* `MeterSupervisor_proofs`: `Invariance`, `OneCapture`, `NoLostWakeup`, `JoinsAreAnswered`,
  `ChangesAreAnnounced`. `CaptureInv` ties each
  live capture to the supervisor's `current`; `DemandInv` says that unless a wake-up is
  waiting or owed, what the supervisor knows of the demand is true at each of its steps.
  `JoinsAreAnswered` is the safety half of `MeterGoesDown` and `SupervisorStops`: the capture
  that is waited for is alive and cancelled, and nobody but it holds `s.mu` in a publication.
* `HidDevice_proofs`: `TypeCorrect`, `FreshReading`, `SettersTakeEffect`. A reply is matched by feature only, so
  the invariant (`LinkInv`) follows every report in flight: while a refresh waits, a report
  that would match it was produced during this refresh, since no earlier request is
  unanswered when replies are punctual, and the buffer holds at most one answer, with any
  number of other reports around it; `SeenInv` says that the values read so far are among
  those the microphone held. `SettersTakeEffect` needs no punctuality, since `sendSet`
  drains reports without looking at them; it says nothing of a setter that reports an error,
  whose change may have been applied. Its `EffectInv` follows the one SET that is not
  applied: between SET and CONFIRM it is last on the wire or applied but unconfirmed, unless
  the attachment is gone (`HasSet`), and once both are written they stay together (`Effective`).
* `DaemonClient_proofs`: the six safety properties of the client, which are inductive
  together with `EpochInv` (what is current belongs to the transport in hand). The proof
  follows the code: lemmas for what teardown, dialling and the reducer establish, then one
  per action.
* `MeterCapture_proofs`: `OnlyVerifiedLevels`, `AlwaysSupervised`, `CleanBetweenCaptures`.
  `ProofInv` follows a success from the check through the channel to the loop; `JoinInv` and
  `SendInv` say that what is joined stays gone and that a send has a result.
* `AppControls_proofs` and `PanelControls_proofs`: `AppKeepsWishes`, `PanelKeepsWishes`, and
  `SettingsAreSent` and `TypeCorrect` in each. What
  makes the refinement work is that the armed sources are exactly those of the map
  (`sources = ArmedBy(pending)`), so that a source which fires is the wish as last expressed,
  and that there are none without a microphone on display. `Disarm` and `Rearm` say what
  removing and replacing an entry does to both. That the microphone has no value between
  two steps holds only if no command and no waiting source has one: `TypeInv` (and `LinkInv`)
  type them by `SettingCommands` and `SettingSources`. Rounding must then yield a multiple of
  the step within the range, which clamping after it keeps only because the range ends at a
  step (`MultipleHasNoRest`, `RoundedIsSetting`, from `RangeAssumption`). `FillAlwaysTrue` needs no strengthening.
* `WebConsole_proofs`: `TypeCorrect`, `SettingsAreSent`, `AlwaysALifeline` (with the timer's variable being set just while the
  timer runs), `AlwaysTruthful` and `WebKeepsWishes`. `TruthInv` relates what was told to the
  last of the news on their way, and to the page once there is none.

*Only model-checked:* every liveness property (fairness and ENABLED are beyond the prover),
the fair half of `StateFeed` among them. Every invariant, action property and safety
refinement of the runs that pass is proved. *Not provable here at all:* what a
recursive definition computes for every input (the induction theorems take an operator as
parameter), and anything in a module that reaches a RECURSIVE operator.

## 6. Not modelled

HTML, CSS, drawing, preferences, flags and packaging keep no protocol state. JSON and
packet encodings, checksums and decibels are data that no property above tells apart.
Times are not measured: a timer that is armed may fire at any moment, which includes the
moments it fires at, so no property speaks of how long something takes; the peak-hold
marker of the application, an animation in time, is left out for that reason with the
meter it belongs to. The pure functions of `state.js` that parse, coerce and normalise are
not modelled: a frame is valid or not. That the browser notices a dead connection is
assumed, so a half-open socket under the web console, which has no watchdog, is outside
the model.

## 7. Plan

Done, in this order: `ServerHub`, `MeterSupervisor`, `HidDevice`, `DaemonClient`,
`MeterCapture`, `StateFeed` and its refinement; then the front ends `AppControls`,
`PanelControls` and `WebConsole` on `DaemonLink`, with `Wishes` and its three refinements;
then the proofs of every safety property, and `MeterDemand` between hub and supervisor.
An abstract capture between `MeterCapture` and `MeterSupervisor` (running, emitting,
returned) would say no more than `NothingLeftBehind` and `CancelReturns` do, and is not
planned. To come:

1. `DaemonLink` implemented by `ServerHub` and `DaemonClient` composed through a lossy
   connection.
2. Algorithms as operators against reference definitions on bounded inputs: source
   selection and channel layouts, peak hold, backoff, value coercion.
