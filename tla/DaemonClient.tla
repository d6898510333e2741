---------------------------- MODULE DaemonClient ----------------------------
(***************************************************************************)
(* The WebSocket client of the GNOME extension and of the GTK application   *)
(* (gnome-extension/daemonClient.js), with the libsoup transport it builds  *)
(* and the reducer that decides what the user sees (state.js).              *)
(*                                                                         *)
(* The client runs on one main loop: every handler below is one step, and   *)
(* what interleaves is the order in which calls of the user interface,      *)
(* timers, promise continuations and socket callbacks are dispatched.       *)
(* Each of those callbacks captures the epoch it was created in.  Only      *)
(* whether a captured epoch is still the client's is ever tested, so an     *)
(* epoch is not a number here: incrementing it makes every captured epoch   *)
(* stale.  Time is abstract: an armed timer may fire at any moment.         *)
(***************************************************************************)
EXTENDS Naturals, FiniteSets

CONSTANTS
    Handles,        \* transports that can exist at once, the bound on redials
    None,           \* the null handle
    MaxAttempt      \* attempts the backoff tells apart: later ones wait for the cap

ASSUME HandlesAssumption == None \notin Handles
ASSUME AttemptAssumption == MaxAttempt \in Nat \ {0}

VARIABLES
    running,            \* between start() and stop()
    url,                \* the endpoint, as parseEndpoint judges it
    runtime,            \* the GI modules have been imported once
    boots,              \* epochs captured by pending continuations of _ensureRuntime
    phase,              \* the WebSocket of each transport
    closed,             \* transports whose close() ran before their dial ended
    live,               \* transports whose captured epoch is the client's
    asked,              \* the subscription each daemon connection was last sent
    transport,          \* the handle the client holds
    socketOpen,
    watchdog,           \* "off", or the epoch the armed timer captured
    reconnect,          \* the reconnect timer is armed
    attempt,
    conn,               \* what onUpdate reports
    meterEnabled,
    meterSupported,
    meterSubscribed,
    meterTimer,         \* the freshness timer of the level on display
    level               \* onMeter last reported an available reading

bootVars   == <<running, url, runtime, boots>>
socketVars == <<phase, closed, live, asked, transport, socketOpen>>
timerVars  == <<watchdog, reconnect, attempt>>
meterVars  == <<meterEnabled, meterSupported, meterSubscribed>>
levelVars  == <<meterTimer, level>>
vars == <<bootVars, socketVars, timerVars, conn, meterVars, levelVars>>

Connections == [connection : {"disconnected", "connecting", "connected", "error"},
                state      : BOOLEAN,           \* a snapshot is held
                error      : {"none", "config", "other"}]

Disconnected == [connection |-> "disconnected", state |-> FALSE, error |-> "none"]
Connecting   == [connection |-> "connecting",   state |-> FALSE, error |-> "none"]
Errored(e)   == [connection |-> "error",        state |-> FALSE, error |-> e]

-----------------------------------------------------------------------------
(* The reducer, event by event. *)

SocketClosed(e) == IF e = "none" THEN Disconnected ELSE Errored(e)

StatusReceived(c, up, e) ==
    IF up THEN [connection |-> IF c.state THEN "connected" ELSE "connecting",
                state |-> c.state, error |-> "none"]
          ELSE SocketClosed(e)

StateReceived(valid) ==
    IF valid THEN [connection |-> "connected", state |-> TRUE, error |-> "none"]
             ELSE Errored("other")

ErrorReceived(c) == [c EXCEPT !.error = "other"]

-----------------------------------------------------------------------------
Init ==
    /\ running = FALSE
    /\ url \in {"valid", "invalid"}
    /\ runtime = FALSE
    /\ boots = {}
    /\ phase = [h \in Handles |-> "free"]
    /\ closed = [h \in Handles |-> FALSE]
    /\ live = [h \in Handles |-> FALSE]
    /\ asked = [h \in Handles |-> FALSE]
    /\ transport = None
    /\ socketOpen = FALSE
    /\ watchdog = "off"
    /\ reconnect = FALSE
    /\ attempt = 0
    /\ conn = Disconnected
    /\ meterEnabled \in BOOLEAN
    /\ meterSupported = FALSE
    /\ meterSubscribed = FALSE
    /\ meterTimer = FALSE
    /\ level = FALSE

\* Captured by continuations before an epoch++.
StaleBoots == {"stale" : b \in boots}

ClearMeter == meterTimer' = FALSE /\ level' = FALSE

-----------------------------------------------------------------------------
(* What a handler that goes on to dial has already assigned. *)

Kept == [phase |-> phase, closed |-> closed, live |-> live, transport |-> transport,
         open |-> socketOpen, watchdog |-> watchdog, reconnect |-> reconnect,
         attempt |-> attempt, meterTimer |-> meterTimer, level |-> level]

Install(k) ==
    /\ phase' = k.phase /\ closed' = k.closed /\ live' = k.live
    /\ transport' = k.transport /\ socketOpen' = k.open
    /\ watchdog' = k.watchdog /\ reconnect' = k.reconnect /\ attempt' = k.attempt
    /\ meterTimer' = k.meterTimer /\ level' = k.level

\* _closeTransport: an open socket is closed and its handlers are detached, a dial
\* in progress is only marked.
HangUp(k) ==
    [k EXCEPT !.phase  = [h \in Handles |-> IF h = k.transport /\ k.phase[h] # "dialing"
                                            THEN "free" ELSE k.phase[h]],
              !.closed = [h \in Handles |-> \/ k.closed[h]
                                            \/ h = k.transport /\ k.phase[h] = "dialing"],
              !.transport = None,
              !.open = FALSE]

ClearTimers(k) ==
    [k EXCEPT !.watchdog = "off", !.reconnect = FALSE, !.meterTimer = FALSE, !.level = FALSE]

\* epoch++: what callbacks captured before is stale.
NewEpoch(k) == [k EXCEPT !.live = [h \in Handles |-> FALSE],
                         !.watchdog = IF @ = "off" THEN "off" ELSE "stale"]

\* What stop() and setUrl() of a running client tear down.
TornDown == [HangUp(ClearTimers(NewEpoch(Kept))) EXCEPT !.attempt = 0]

\* Only errors withdraw the level.
WithdrawsOnError(c) == c # conn /\ c.connection = "error"

\* _dispatch: a report of anything but "connected" withdraws the level on display.
Withdraws(c) == c # conn /\ c.connection # "connected"
Reporting(k, c) == IF Withdraws(c) THEN [k EXCEPT !.meterTimer = FALSE, !.level = FALSE] ELSE k

\* The delay of a later attempt is the cap of the backoff.
Later(n) == IF n = MaxAttempt THEN n ELSE n + 1

\* _onClose without _scheduleReconnect.
RedialingNever(k) == NewEpoch([HangUp(k) EXCEPT !.watchdog = "off"])

\* The rest of _onClose and _onWatchdog, with _scheduleReconnect.
Redialing(k) ==
    NewEpoch([HangUp(k) EXCEPT !.watchdog = "off", !.reconnect = TRUE,
                               !.attempt = Later(k.attempt)])

\* _fail: an error no redial can mend.
Fail(k) ==
    /\ Install(HangUp(ClearTimers(k)))
    /\ conn' = Errored("config")
    /\ UNCHANGED asked

Dials(k) ==
    \E h \in Handles :
        /\ k.phase[h] = "free"
        /\ Install([Reporting(k, Connecting) EXCEPT !.phase[h] = "dialing",
                                                    !.closed[h] = FALSE,
                                                    !.live[h] = TRUE,
                                                    !.transport = h])
        /\ conn' = Connecting
        /\ asked' = [asked EXCEPT ![h] = FALSE]

\* The factory throws: _onClose runs before _connect returns.
DialThrows(k) ==
    /\ Install([Redialing(k) EXCEPT !.meterTimer = FALSE, !.level = FALSE])
    /\ conn' = Errored("other")
    /\ UNCHANGED asked

\* _connect in the client's own epoch
Connect(u, k) == IF u = "invalid" THEN Fail(k) ELSE Dials(k) \/ DialThrows(k)

-----------------------------------------------------------------------------
(* Calls of the user interface. *)

\* The modules are imported before the first dial only: later calls dial at once.
ConnectOrBoot(u, k) ==
    IF runtime
    THEN boots' = StaleBoots /\ Connect(u, k)
    ELSE /\ boots' = StaleBoots \cup {"current"}
         /\ Install(k)
         /\ UNCHANGED <<asked, conn>>

Start ==
    /\ ~running
    /\ running' = TRUE
    /\ ConnectOrBoot(url, [NewEpoch(Kept) EXCEPT !.attempt = 0])
    /\ UNCHANGED <<url, runtime, meterVars>>

\* stop() that forgets the reconnect timer.
StopKeepsRedial ==
    /\ running
    /\ running' = FALSE
    /\ boots' = StaleBoots
    /\ Install([TornDown EXCEPT !.reconnect = reconnect])
    /\ conn' = Disconnected
    /\ UNCHANGED <<url, runtime, asked, meterVars>>

Stop ==
    /\ running
    /\ running' = FALSE
    /\ boots' = StaleBoots
    /\ Install(TornDown)
    /\ conn' = Disconnected
    /\ UNCHANGED <<url, runtime, asked, meterVars>>

SetUrl(u) ==
    /\ url' = u
    /\ IF running THEN ConnectOrBoot(u, TornDown)
       ELSE boots' = StaleBoots /\ Install(NewEpoch(Kept)) /\ UNCHANGED <<asked, conn>>
    /\ UNCHANGED <<running, runtime, meterVars>>

\* send('subscribe_meter'): it needs the socket, not a snapshot, and an open WebSocket.
CanSubscribe == running /\ socketOpen /\ transport # None /\ phase[transport] = "open"

\* _syncMeterSubscription, with the values the handler has just assigned.
SyncSubscription(enabled, supported) ==
    IF supported /\ enabled # meterSubscribed /\ CanSubscribe
    THEN /\ asked' = [asked EXCEPT ![transport] = enabled]
         /\ meterSubscribed' = enabled
    ELSE UNCHANGED <<asked, meterSubscribed>>

SetMeterEnabled(enabled) ==
    /\ meterEnabled' = enabled
    /\ SyncSubscription(enabled, meterSupported)
    /\ IF enabled THEN UNCHANGED levelVars ELSE ClearMeter
    /\ UNCHANGED <<bootVars, phase, closed, live, transport, socketOpen, timerVars, conn,
                   meterSupported>>

-----------------------------------------------------------------------------
(* Continuations and timers. *)

\* A continuation that does not look at its epoch.
ResumesWhileRunning(b) == running

\* A continuation goes on only for the epoch it captured.
Resumes(b) == running /\ b = "current"

BootReady ==
    \E b \in boots :
        /\ boots' = boots \ {b}
        /\ runtime' = TRUE
        /\ IF Resumes(b) THEN Connect(url, Kept)
           ELSE UNCHANGED <<socketVars, timerVars, conn, levelVars>>
        /\ UNCHANGED <<running, url, meterVars>>

\* The import of the modules is rejected.
BootFails ==
    \E b \in boots :
        /\ ~runtime
        /\ boots' = boots \ {b}
        /\ IF Resumes(b) THEN Fail(Kept) ELSE UNCHANGED <<socketVars, timerVars, conn, levelVars>>
        /\ UNCHANGED <<running, url, runtime, meterVars>>

ReconnectFires ==
    /\ reconnect
    /\ IF running
       THEN boots' = StaleBoots /\ Connect(url, [NewEpoch(Kept) EXCEPT !.reconnect = FALSE])
       ELSE /\ reconnect' = FALSE
            /\ UNCHANGED <<boots, socketVars, watchdog, attempt, conn, levelVars>>
    /\ UNCHANGED <<running, url, runtime, meterVars>>

\* _onClose and _onWatchdog: the transport is closed, callbacks of its epoch are
\* stale from here on, and the client dials again later.
Drop(k, c) ==
    /\ Install(Redialing(Reporting(k, c)))
    /\ conn' = c
    /\ boots' = StaleBoots

\* A silent daemon: the indicator goes down.
WatchdogFires ==
    /\ watchdog # "off"
    /\ IF running /\ watchdog = "current" THEN Drop(Kept, Errored("other"))
       ELSE /\ watchdog' = "off"
            /\ UNCHANGED <<boots, phase, closed, live, transport, socketOpen, reconnect,
                           attempt, conn, levelVars>>
    /\ UNCHANGED <<running, url, runtime, asked, meterVars>>

MeterExpires ==
    /\ meterTimer
    /\ ClearMeter
    /\ UNCHANGED <<bootVars, socketVars, timerVars, conn, meterVars>>

-----------------------------------------------------------------------------
(* Callbacks of the transport. *)

Dispatch(c) ==
    /\ conn' = c
    /\ IF Withdraws(c) THEN ClearMeter ELSE UNCHANGED levelVars

\* A new socket that inherits the subscription of the last.
OpensSubscribed ==
    /\ socketOpen' = TRUE
    /\ meterSupported' = FALSE
    /\ Dispatch(Connecting)
    /\ watchdog' = "current"
    /\ UNCHANGED <<reconnect, attempt, meterEnabled, meterSubscribed>>

\* A new socket watched only from its first snapshot on.
OpensUnwatched ==
    /\ socketOpen' = TRUE
    /\ meterSupported' = FALSE
    /\ meterSubscribed' = FALSE
    /\ Dispatch(Connecting)
    /\ UNCHANGED <<timerVars, meterEnabled>>

\* _onOpen
Opens ==
    /\ socketOpen' = TRUE
    /\ meterSupported' = FALSE
    /\ meterSubscribed' = FALSE
    /\ Dispatch(Connecting)
    /\ watchdog' = "current"
    /\ UNCHANGED <<reconnect, attempt, meterEnabled>>

\* A completed dial that does not notice it was given up.
DialSucceedsAnyway(h) ==
    /\ phase[h] = "dialing"
    /\ phase' = [phase EXCEPT ![h] = "open"]
    /\ IF running /\ live[h] THEN Opens
       ELSE UNCHANGED <<socketOpen, timerVars, conn, meterVars, levelVars>>
    /\ UNCHANGED <<bootVars, closed, live, asked, transport>>

DialSucceeds(h) ==
    /\ phase[h] = "dialing"
    /\ phase' = [phase EXCEPT ![h] = IF closed[h] THEN "free" ELSE "open"]
    /\ IF ~closed[h] /\ running /\ live[h] THEN Opens
       ELSE UNCHANGED <<socketOpen, timerVars, conn, meterVars, levelVars>>
    /\ UNCHANGED <<bootVars, closed, live, asked, transport>>

\* The dial failed or the connection ended; a stale epoch makes it inert.
EndOfSocket(h, e) ==
    /\ IF running /\ live[h] THEN Drop([Kept EXCEPT !.phase[h] = "free"], SocketClosed(e))
       ELSE /\ phase' = [phase EXCEPT ![h] = "free"]
            /\ UNCHANGED <<boots, closed, live, transport, socketOpen, timerVars, conn, levelVars>>
    /\ UNCHANGED <<running, url, runtime, asked, meterVars>>

DialFails(h) ==
    /\ phase[h] = "dialing"
    /\ ~closed[h]
    /\ EndOfSocket(h, "other")

ClosedDialFails(h) ==
    /\ phase[h] = "dialing"
    /\ closed[h]
    /\ phase' = [phase EXCEPT ![h] = "free"]
    /\ UNCHANGED <<bootVars, closed, live, asked, transport, socketOpen, timerVars, conn,
                   meterVars, levelVars>>

\* The daemon goes away; the closed or the error signal follows.
PeerCloses(h) ==
    /\ phase[h] = "open"
    /\ phase' = [phase EXCEPT ![h] = "closing"]
    /\ UNCHANGED <<bootVars, closed, live, asked, transport, socketOpen, timerVars, conn,
                   meterVars, levelVars>>

ClosedSignal(h) ==
    /\ phase[h] = "closing"
    /\ \E e \in {"none", "other"} : EndOfSocket(h, e)

\* _onMessage: the frame of a dead connection is dropped before it is parsed.
Receives(h) == phase[h] = "open" /\ running /\ live[h]

ReadState(h, valid) ==
    /\ Receives(h)
    /\ conn' = StateReceived(valid)
    /\ IF valid THEN /\ attempt' = 0
                     /\ watchdog' = "current"
                     /\ IF meterEnabled /\ ~meterSupported THEN ClearMeter
                        ELSE UNCHANGED levelVars
       ELSE /\ ClearMeter
            /\ UNCHANGED <<attempt, watchdog>>
    /\ UNCHANGED <<bootVars, socketVars, reconnect, meterVars>>

\* A heartbeat leaves the watchdog alone.
ReadStatus(h, up, supported, e) ==
    /\ Receives(h)
    /\ Dispatch(StatusReceived(conn, up, e))
    /\ meterSupported' = supported
    /\ SyncSubscription(meterEnabled, supported)
    /\ UNCHANGED <<bootVars, phase, closed, live, transport, socketOpen, timerVars,
                   meterEnabled>>

ReadError(h) ==
    /\ Receives(h)
    /\ Dispatch(ErrorReceived(conn))
    /\ UNCHANGED <<bootVars, socketVars, timerVars, meterVars>>

ReadInvalid(h) ==
    /\ Receives(h)
    /\ Dispatch(Errored("other"))
    /\ UNCHANGED <<bootVars, socketVars, timerVars, meterVars>>

ReadMeter(h, available) ==
    /\ Receives(h)
    /\ meterEnabled /\ meterSubscribed /\ conn.connection = "connected"
    /\ level' = available
    /\ meterTimer' = available
    /\ UNCHANGED <<bootVars, socketVars, timerVars, conn, meterVars>>

-----------------------------------------------------------------------------
Interface ==
    \/ Start \/ Stop
    \/ \E u \in {"valid", "invalid"} : SetUrl(u)
    \/ \E enabled \in BOOLEAN : SetMeterEnabled(enabled)

MainLoop == BootReady \/ BootFails \/ ReconnectFires \/ WatchdogFires \/ MeterExpires

Socket(h) ==
    \/ DialSucceeds(h) \/ DialFails(h) \/ ClosedDialFails(h)
    \/ PeerCloses(h) \/ ClosedSignal(h)
    \/ \E valid \in BOOLEAN : ReadState(h, valid)
    \/ \E up, supported \in BOOLEAN, e \in {"none", "other"} : ReadStatus(h, up, supported, e)
    \/ ReadError(h) \/ ReadInvalid(h)
    \/ \E available \in BOOLEAN : ReadMeter(h, available)

Next == Interface \/ MainLoop \/ \E h \in Handles : Socket(h)

\* The main loop dispatches what is due, and a dial ends one way or the other.
\* A daemon that is up answers some dial and sends some state.
Fairness ==
    /\ WF_vars(BootReady)
    /\ WF_vars(ReconnectFires)
    /\ SF_vars(ReconnectFires /\ transport' # None)
    /\ \A h \in Handles :
        /\ WF_vars(DialFails(h))
        /\ WF_vars(ClosedDialFails(h))
        /\ WF_vars(ClosedSignal(h))
        /\ SF_vars(DialSucceeds(h) /\ ~closed[h])
        /\ SF_vars(ReadState(h, TRUE))

Spec == Init /\ [][Next]_vars
FairSpec == Spec /\ Fairness

-----------------------------------------------------------------------------
(* Properties. *)

TypeOK ==
    /\ running \in BOOLEAN
    /\ url \in {"valid", "invalid"}
    /\ runtime \in BOOLEAN
    /\ boots \subseteq {"current", "stale"}
    /\ phase \in [Handles -> {"free", "dialing", "open", "closing"}]
    /\ closed \in [Handles -> BOOLEAN]
    /\ live \in [Handles -> BOOLEAN]
    /\ asked \in [Handles -> BOOLEAN]
    /\ transport \in Handles \cup {None}
    /\ socketOpen \in BOOLEAN
    /\ watchdog \in {"off", "current", "stale"}
    /\ reconnect \in BOOLEAN
    /\ attempt \in 0 .. MaxAttempt
    /\ conn \in Connections
    /\ meterEnabled \in BOOLEAN
    /\ meterSupported \in BOOLEAN
    /\ meterSubscribed \in BOOLEAN
    /\ meterTimer \in BOOLEAN
    /\ level \in BOOLEAN

\* "Connected" is never shown without a snapshot, and while the socket is open a
\* watchdog of this very connection is armed, so that a silent daemon cannot leave the
\* indicator up; a healthy connection has also reset the backoff.
\* (daemonClient.js 9-14, _onOpen, _onMessage, _onWatchdog)
ConnectedIsWatched ==
    /\ conn.connection = "connected" <=> conn.state
    /\ conn.connection = "connected" => socketOpen /\ attempt = 0
    /\ watchdog # "off" => watchdog = "current" /\ socketOpen
    /\ socketOpen => /\ transport # None
                     /\ live[transport]
                     /\ phase[transport] \in {"open", "closing"}
                     /\ watchdog = "current"

\* At most one WebSocket is open, the one the client holds: dials given up by stop(),
\* setUrl(), a timeout or an error never leave a second connection to the daemon.
\* (libsoupTransport close and its completion, _connect, _closeTransport)
OneSocket ==
    \A h \in Handles :
        phase[h] \in {"open", "closing"} \/ (phase[h] = "dialing" /\ ~closed[h]) => h = transport

\* After stop() nothing is left that could bring the client back: no timer, no handle,
\* no continuation or callback of a live epoch, nothing on display.  (daemonClient.js
\* 15-16, stop, and the epoch tests of every callback)
StoppedIsQuiet ==
    ~running => /\ watchdog = "off" /\ ~reconnect /\ ~meterTimer
                /\ transport = None /\ ~socketOpen
                /\ "current" \notin boots
                /\ conn = Disconnected
                /\ ~level

\* A running client is never stranded: it is importing its runtime, holds a transport
\* or waits to dial again, never two of these at once, and none of them only when its
\* configuration is at fault.  (_connect, _onClose, _onWatchdog, _scheduleReconnect, _fail)
Booting == "current" \in boots
Holding == transport # None
NeverStranded ==
    running => /\ Booting \/ Holding \/ reconnect \/ conn.error = "config"
               /\ ~(Booting /\ Holding) /\ ~(Booting /\ reconnect) /\ ~(Holding /\ reconnect)

\* A level is on display only while the client is connected, has asked the daemon for
\* levels, and a timer is armed that withdraws it if no fresh reading follows.
\* (_onMessage 'meter', _clearMeter, _emitUpdate)
LevelIsLive ==
    level => /\ meterTimer
             /\ conn.connection = "connected"
             /\ meterEnabled /\ meterSubscribed

\* What the daemon was last asked on this connection is what the user has chosen,
\* whatever the order of the choice, the daemon's capability message and reconnections.
\* (setMeterEnabled, _syncMeterSubscription, _onOpen)
SubscriptionFollowsChoice ==
    socketOpen /\ meterSupported /\ phase[transport] = "open" =>
        meterSubscribed = meterEnabled /\ asked[transport] = meterEnabled

\* With a daemon that comes back, a running client with a valid endpoint connects
\* again, unless it is stopped or pointed elsewhere first.  (_scheduleReconnect)
ConnectsAgain ==
    (running /\ url = "valid" /\ conn.error # "config") ~>
        (conn.connection = "connected" \/ ~running \/ url = "invalid" \/ conn.error = "config")

=============================================================================
