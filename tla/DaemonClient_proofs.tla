------------------------ MODULE DaemonClient_proofs ------------------------
(***************************************************************************)
(* Proofs about the client of the daemon, for any number of transports and  *)
(* any cap of the backoff.                                                  *)
(***************************************************************************)
EXTENDS DaemonClient, TLAPS

\* Which of the client's resources can be live together, and that a captured epoch
\* is current only for the transport the client holds.
EpochInv ==
    /\ Booting => running
    /\ \A h \in Handles : live[h] => h = transport
    /\ Holding => /\ running /\ runtime
                  /\ live[transport]
                  /\ phase[transport] # "free"
                  /\ ~closed[transport]
                  /\ socketOpen <=> phase[transport] \in {"open", "closing"}
                  /\ asked[transport] <=> socketOpen /\ meterSubscribed
    /\ socketOpen => Holding
    /\ reconnect => running /\ runtime
    /\ conn.error = "config" => ~Holding /\ ~reconnect
    /\ watchdog # "off" => socketOpen
    /\ meterTimer => conn.connection = "connected"

Inv == /\ TypeOK /\ EpochInv /\ ConnectedIsWatched /\ OneSocket /\ StoppedIsQuiet
       /\ NeverStranded /\ LevelIsLive /\ SubscriptionFollowsChoice

-----------------------------------------------------------------------------
(* Handlers that dial or hang up build the next state in a record.          *)

Ks == [phase : [Handles -> {"free", "dialing", "open", "closing"}],
       closed : [Handles -> BOOLEAN], live : [Handles -> BOOLEAN],
       transport : Handles \cup {None}, open : BOOLEAN,
       watchdog : {"off", "current", "stale"}, reconnect : BOOLEAN,
       attempt : 0 .. MaxAttempt, meterTimer : BOOLEAN, level : BOOLEAN]

\* OneSocket of such a record.
Sole(k) == \A h \in Handles :
    k.phase[h] \in {"open", "closing"} \/ (k.phase[h] = "dialing" /\ ~k.closed[h])
        => h = k.transport

\* No epoch is live in it.
Stale(k) == \A h \in Handles : ~k.live[h]

\* Nothing is held and every dial left has been given up.
Idle(k) == /\ k.transport = None /\ ~k.open
           /\ \A h \in Handles : /\ k.phase[h] \in {"free", "dialing"}
                                 /\ k.phase[h] = "dialing" => k.closed[h]

\* The record of the current state is of this kind.
LEMMA KeptFields ==
  ASSUME TypeOK
  PROVE  Kept \in Ks
BY DEF TypeOK, Kept, Ks

\* Installing such a record keeps the types.
LEMMA InstallTypes ==
  ASSUME NEW k \in Ks, Install(k)
  PROVE  /\ phase' \in [Handles -> {"free", "dialing", "open", "closing"}]
         /\ closed' \in [Handles -> BOOLEAN]
         /\ live' \in [Handles -> BOOLEAN]
         /\ transport' \in Handles \cup {None}
         /\ socketOpen' \in BOOLEAN
         /\ watchdog' \in {"off", "current", "stale"}
         /\ reconnect' \in BOOLEAN
         /\ attempt' \in 0 .. MaxAttempt
         /\ meterTimer' \in BOOLEAN
         /\ level' \in BOOLEAN
BY DEF Install, Ks

\* Hanging up leaves nothing open, whichever transport was held.
LEMMA HangUpIdles ==
  ASSUME NEW k \in Ks
  PROVE  /\ HangUp(k) \in Ks
         /\ HangUp(k).live = k.live
         /\ HangUp(k).attempt = k.attempt
         /\ HangUp(k).watchdog = k.watchdog
         /\ HangUp(k).reconnect = k.reconnect
         /\ HangUp(k).meterTimer = k.meterTimer
         /\ HangUp(k).level = k.level
         /\ Sole(k) => Idle(HangUp(k))
<1>1. HangUp(k) \in Ks
  BY DEF HangUp, Ks
<1>2. Sole(k) => Idle(HangUp(k))
  BY DEF HangUp, Ks, Sole, Idle
<1> QED
  BY <1>1, <1>2 DEF HangUp, Ks

\* Clearing the timers leaves the sockets alone.
LEMMA ClearTimersFields ==
  ASSUME NEW k \in Ks
  PROVE  /\ ClearTimers(k) \in Ks
         /\ ClearTimers(k).watchdog = "off"
         /\ ~ClearTimers(k).reconnect
         /\ ~ClearTimers(k).meterTimer
         /\ ~ClearTimers(k).level
         /\ ClearTimers(k).live = k.live
         /\ ClearTimers(k).attempt = k.attempt
         /\ Sole(k) => Sole(ClearTimers(k))
BY DEF ClearTimers, Ks, Sole

\* A new epoch makes every captured one stale.
LEMMA NewEpochFields ==
  ASSUME NEW k \in Ks
  PROVE  /\ NewEpoch(k) \in Ks
         /\ Stale(NewEpoch(k))
         /\ k.watchdog = "off" => NewEpoch(k).watchdog = "off"
         /\ NewEpoch(k).phase = k.phase
         /\ NewEpoch(k).closed = k.closed
         /\ NewEpoch(k).transport = k.transport
         /\ NewEpoch(k).open = k.open
         /\ NewEpoch(k).reconnect = k.reconnect
         /\ NewEpoch(k).attempt = k.attempt
         /\ NewEpoch(k).meterTimer = k.meterTimer
         /\ NewEpoch(k).level = k.level
BY DEF NewEpoch, Ks, Stale

-----------------------------------------------------------------------------
(* Two kinds of state in which Inv holds by inspection.                     *)

\* Nothing is held: the client is stopped, at fault, booting or waiting to redial.
Down ==
    /\ transport = None /\ ~socketOpen
    /\ \A h \in Handles : /\ ~live[h]
                          /\ phase[h] \in {"free", "dialing"}
                          /\ phase[h] = "dialing" => closed[h]
    /\ watchdog = "off" /\ ~meterTimer /\ ~level
    /\ conn.connection # "connected" /\ ~conn.state
    /\ Booting => running
    /\ reconnect => running /\ runtime /\ ~Booting /\ conn.error # "config"
    /\ running => Booting \/ reconnect \/ conn.error = "config"
    /\ ~running => conn = Disconnected

\* One transport has just begun to dial.
Dialing(h) ==
    /\ running /\ runtime /\ ~Booting /\ ~reconnect
    /\ transport = h /\ ~socketOpen
    /\ \A i \in Handles : live[i] <=> i = h
    /\ phase[h] = "dialing" /\ ~closed[h] /\ ~asked[h]
    /\ \A i \in Handles \ {h} : /\ phase[i] \in {"free", "dialing"}
                                /\ phase[i] = "dialing" => closed[i]
    /\ watchdog = "off" /\ ~meterTimer /\ ~level
    /\ conn = Connecting

\* The invariant holds when nothing is held.
LEMMA DownIsGood ==
  ASSUME TypeOK', Down'
  PROVE  Inv'
<1> USE HandlesAssumption DEF TypeOK, Down, Booting, Holding
<1>1. EpochInv' /\ ConnectedIsWatched'
  BY DEF EpochInv, ConnectedIsWatched
<1>2. OneSocket' /\ StoppedIsQuiet' /\ NeverStranded'
  BY DEF OneSocket, StoppedIsQuiet, NeverStranded, Disconnected
<1>3. LevelIsLive' /\ SubscriptionFollowsChoice'
  BY DEF LevelIsLive, SubscriptionFollowsChoice
<1> QED
  BY <1>1, <1>2, <1>3 DEF Inv

\* The invariant holds after a dial.
LEMMA DialingIsGood ==
  ASSUME NEW h \in Handles, TypeOK', Dialing(h)'
  PROVE  Inv'
<1> USE HandlesAssumption DEF TypeOK, Dialing, Booting, Holding, Connecting
<1>1. EpochInv' /\ ConnectedIsWatched'
  BY DEF EpochInv, ConnectedIsWatched
<1>2. OneSocket' /\ StoppedIsQuiet' /\ NeverStranded'
  BY DEF OneSocket, StoppedIsQuiet, NeverStranded
<1>3. LevelIsLive' /\ SubscriptionFollowsChoice'
  BY DEF LevelIsLive, SubscriptionFollowsChoice
<1> QED
  BY <1>1, <1>2, <1>3 DEF Inv

-----------------------------------------------------------------------------
(* The handlers that dial or hang up.                                       *)

\* What every caller of _connect hands it.
Ready(k) ==
    /\ k \in Ks /\ Idle(k) /\ Stale(k)
    /\ k.watchdog = "off" /\ ~k.reconnect /\ ~k.meterTimer /\ ~k.level

\* The variables that handlers of sockets and timers share out among themselves.
OtherTypes == /\ running \in BOOLEAN /\ url \in {"valid", "invalid"} /\ runtime \in BOOLEAN
              /\ boots \subseteq {"current", "stale"}
              /\ meterEnabled \in BOOLEAN /\ meterSupported \in BOOLEAN
              /\ meterSubscribed \in BOOLEAN

\* _fail leaves the client down and at fault.
LEMMA FailStep ==
  ASSUME TypeOK, NEW k \in Ks, Sole(k), Stale(k), Fail(k), OtherTypes',
         running', ~Booting'
  PROVE  Inv'
<1> DEFINE c == ClearTimers(k)
           d == HangUp(c)
<1>1. c \in Ks /\ Sole(c) /\ c.live = k.live
  BY ClearTimersFields
<1>2. d \in Ks /\ Idle(d) /\ d.live = c.live
  BY <1>1, HangUpIdles
<1>3. d.watchdog = "off" /\ ~d.reconnect /\ ~d.meterTimer /\ ~d.level
  BY <1>1, HangUpIdles, ClearTimersFields
<1>4. Install(d) /\ conn' = Errored("config") /\ asked' = asked
  BY DEF Fail
<1> HIDE DEF c, d
<1>5. TypeOK'
  BY <1>2, <1>4, InstallTypes DEF TypeOK, OtherTypes, Connections, Errored
<1>6. Down'
  BY <1>1, <1>2, <1>3, <1>4 DEF Install, Down, Idle, Stale, Errored
<1> QED
  BY <1>5, <1>6, DownIsGood

\* The end of a connection leaves nothing held, no live epoch and the redial armed.
LEMMA RedialFields ==
  ASSUME NEW k \in Ks, Sole(k)
  PROVE  /\ Redialing(k) \in Ks /\ Idle(Redialing(k)) /\ Stale(Redialing(k))
         /\ Redialing(k).watchdog = "off"
         /\ Redialing(k).reconnect
         /\ Redialing(k).meterTimer = k.meterTimer
         /\ Redialing(k).level = k.level
<1> DEFINE d == HangUp(k)
           e == [d EXCEPT !.watchdog = "off", !.reconnect = TRUE, !.attempt = Later(k.attempt)]
<1>1. d \in Ks /\ Idle(d) /\ d.meterTimer = k.meterTimer /\ d.level = k.level
  BY HangUpIdles
<1>2. k.attempt \in 0 .. MaxAttempt
  BY DEF Ks
<1>3. Later(k.attempt) \in 0 .. MaxAttempt
  BY <1>2, AttemptAssumption DEF Later
<1> HIDE DEF d
<1>4. /\ e \in Ks /\ Idle(e) /\ e.watchdog = "off" /\ e.reconnect
      /\ e.meterTimer = d.meterTimer /\ e.level = d.level
  BY <1>1, <1>3 DEF Ks, Idle
<1>5. Redialing(k) = NewEpoch(e)
  BY DEF Redialing, d
<1> HIDE DEF e
<1>6. /\ NewEpoch(e) \in Ks /\ Stale(NewEpoch(e)) /\ NewEpoch(e).watchdog = "off"
      /\ NewEpoch(e).phase = e.phase /\ NewEpoch(e).closed = e.closed
      /\ NewEpoch(e).transport = e.transport /\ NewEpoch(e).open = e.open
      /\ NewEpoch(e).reconnect = e.reconnect
      /\ NewEpoch(e).meterTimer = e.meterTimer /\ NewEpoch(e).level = e.level
  BY <1>4, NewEpochFields
<1>7. Idle(NewEpoch(e))
  BY <1>4, <1>6 DEF Idle
<1> QED
  BY <1>1, <1>4, <1>5, <1>6, <1>7

\* Dropping a connection leaves the client waiting to redial.
LEMMA DropStep ==
  ASSUME TypeOK, NEW k \in Ks, Sole(k), NEW c \in Connections,
         c.connection # "connected", ~c.state, c.error # "config",
         c = conn => ~k.meterTimer /\ ~k.level,
         Drop(k, c), running, runtime, OtherTypes', asked' = asked,
         running', runtime'
  PROVE  Inv'
<1> DEFINE r == Reporting(k, c)
           d == Redialing(r)
<1>1. r \in Ks /\ Sole(r) /\ ~r.meterTimer /\ ~r.level
  BY DEF Reporting, Withdraws, Ks, Sole
<1>2. Install(d) /\ conn' = c /\ boots' = StaleBoots
  BY DEF Drop
<1> HIDE DEF r
<1>3. /\ d \in Ks /\ Idle(d) /\ Stale(d) /\ d.watchdog = "off" /\ d.reconnect
      /\ ~d.meterTimer /\ ~d.level
  BY <1>1, RedialFields
<1> HIDE DEF d
<1>4. TypeOK'
  BY <1>2, <1>3, InstallTypes DEF TypeOK, OtherTypes
<1>5. ~Booting'
  BY <1>2 DEF Booting, StaleBoots
<1>6. Down'
  BY <1>2, <1>3, <1>5 DEF Install, Down, Idle, Stale
<1> QED
  BY <1>4, <1>6, DownIsGood

\* Whatever _connect does, the invariant holds afterwards.
LEMMA ConnectStep ==
  ASSUME TypeOK, NEW k, Ready(k), NEW u, Connect(u, k), OtherTypes',
         running', runtime', ~Booting'
  PROVE  Inv'
<1>1. k \in Ks /\ Sole(k) /\ Stale(k)
  BY DEF Ready, Idle, Sole
<1>2. CASE Fail(k)
  BY <1>1, <1>2, FailStep
<1>3. CASE DialThrows(k)
  <2> DEFINE d == Redialing(k)
             e == [d EXCEPT !.meterTimer = FALSE, !.level = FALSE]
  <2>1. d \in Ks /\ Idle(d) /\ Stale(d) /\ d.watchdog = "off" /\ d.reconnect
    BY <1>1, RedialFields
  <2>2. Install(e) /\ conn' = Errored("other") /\ asked' = asked
    BY <1>3 DEF DialThrows
  <2> HIDE DEF d
  <2>3. /\ e \in Ks /\ Idle(e) /\ Stale(e) /\ e.watchdog = "off" /\ e.reconnect
        /\ ~e.meterTimer /\ ~e.level
    BY <2>1 DEF Ks, Idle, Stale
  <2> HIDE DEF e
  <2>4. TypeOK'
    BY <2>2, <2>3, InstallTypes DEF TypeOK, OtherTypes, Connections, Errored
  <2>5. Down'
    BY <2>2, <2>3 DEF Install, Down, Idle, Stale, Errored
  <2> QED
    BY <2>4, <2>5, DownIsGood
<1>4. CASE Dials(k)
  <2> DEFINE r == Reporting(k, Connecting)
             e(h) == [r EXCEPT !.phase[h] = "dialing", !.closed[h] = FALSE,
                               !.live[h] = TRUE, !.transport = h]
  <2>1. PICK h \in Handles : /\ Install(e(h))
                             /\ conn' = Connecting
                             /\ asked' = [asked EXCEPT ![h] = FALSE]
    BY <1>4 DEF Dials
  <2>2. Ready(r)
    BY DEF Ready, Reporting, Ks, Idle, Stale
  <2> HIDE DEF r
  <2>3. e(h) \in Ks
    BY <2>2 DEF Ready, Ks
  <2>4. /\ e(h).phase[h] = "dialing" /\ ~e(h).closed[h]
        /\ \A i \in Handles : e(h).live[i] <=> i = h
        /\ \A i \in Handles \ {h} : /\ e(h).phase[i] = r.phase[i]
                                    /\ e(h).closed[i] = r.closed[i]
        /\ e(h).transport = h /\ ~e(h).open
        /\ e(h).watchdog = "off" /\ ~e(h).reconnect /\ ~e(h).meterTimer /\ ~e(h).level
    BY <2>2 DEF Ready, Ks, Stale, Idle
  <2>5. \A i \in Handles : /\ r.phase[i] \in {"free", "dialing"}
                           /\ r.phase[i] = "dialing" => r.closed[i]
    BY <2>2 DEF Ready, Idle
  <2> HIDE DEF e
  <2>6. TypeOK'
    BY <2>1, <2>3, InstallTypes DEF TypeOK, OtherTypes, Connections, Connecting
  <2>7. Dialing(h)'
    BY <2>1, <2>4, <2>5 DEF Install, Dialing, TypeOK
  <2> QED
    BY <2>6, <2>7, DialingIsGood
<1> QED
  BY <1>2, <1>3, <1>4 DEF Connect

\* What setUrl() and stop() tear down leaves the record ready for a new dial.
LEMMA TornDownIsReady ==
  ASSUME Inv
  PROVE  Ready(TornDown)
<1> DEFINE n == NewEpoch(Kept)
           c == ClearTimers(n)
           d == HangUp(c)
<1>1. Kept \in Ks /\ Sole(Kept)
  BY KeptFields DEF Inv, OneSocket, Sole, Kept
<1>2. n \in Ks /\ Stale(n) /\ Sole(n)
  BY <1>1, NewEpochFields DEF Sole
<1> HIDE DEF n
<1>3. /\ c \in Ks /\ Sole(c) /\ Stale(c) /\ c.watchdog = "off" /\ ~c.reconnect
      /\ ~c.meterTimer /\ ~c.level
  BY <1>2, ClearTimersFields DEF Stale
<1> HIDE DEF c
<1>4. /\ d \in Ks /\ Idle(d) /\ Stale(d) /\ d.watchdog = "off" /\ ~d.reconnect
      /\ ~d.meterTimer /\ ~d.level
  BY <1>3, HangUpIdles DEF Stale
<1>5. TornDown = [d EXCEPT !.attempt = 0]
  BY DEF TornDown, d, c, n
<1> HIDE DEF d
<1> QED
  BY <1>4, <1>5, AttemptAssumption DEF Ready, Ks, Idle, Stale

\* A record in which nothing is held keeps the client down while it boots.
LEMMA BootStep ==
  ASSUME TypeOK, NEW k, Ready(k), Install(k), OtherTypes', asked' = asked, conn' = conn,
         ~conn.state, conn.connection # "connected", running', Booting'
  PROVE  Inv'
<1>1. TypeOK'
  BY InstallTypes DEF Ready, TypeOK, OtherTypes
<1>2. Down'
  BY DEF Ready, Install, Idle, Stale, Down
<1> QED
  BY <1>1, <1>2, DownIsGood

-----------------------------------------------------------------------------
(* Every step of the client.                                                *)

\* The invariant holds in the state in which the extension creates the client.
LEMMA InitInv == Init => Inv
<1> SUFFICES ASSUME Init PROVE Inv
  OBVIOUS
<1>1. TypeOK
  <2>1. conn \in Connections
    BY DEF Init, Connections, Disconnected
  <2>2. attempt \in 0 .. MaxAttempt
    BY AttemptAssumption DEF Init
  <2> QED
    BY <2>1, <2>2 DEF Init, TypeOK
<1>2. EpochInv /\ ConnectedIsWatched /\ OneSocket /\ StoppedIsQuiet
  BY DEF Init, EpochInv, ConnectedIsWatched, OneSocket, StoppedIsQuiet, Disconnected,
         Booting, Holding
<1>3. NeverStranded /\ LevelIsLive /\ SubscriptionFollowsChoice
  BY DEF Init, NeverStranded, LevelIsLive, SubscriptionFollowsChoice
<1> QED
  BY <1>1, <1>2, <1>3 DEF Inv

\* While nothing is held, the current record is ready for a dial.
LEMMA KeptIsReady ==
  ASSUME Inv, ~Holding, NEW a \in 0 .. MaxAttempt
  PROVE  /\ ~reconnect => Ready(Kept)
         /\ ~reconnect => Ready([NewEpoch(Kept) EXCEPT !.attempt = a])
         /\ Ready([NewEpoch(Kept) EXCEPT !.reconnect = FALSE])
<1>1. Kept \in Ks
  BY KeptFields DEF Inv
<1>2. /\ transport = None /\ ~socketOpen /\ watchdog = "off"
      /\ \A h \in Handles : ~live[h]
  BY HandlesAssumption DEF Inv, TypeOK, EpochInv, Holding
<1>3. ~meterTimer /\ ~level
  BY <1>2 DEF Inv, TypeOK, EpochInv, ConnectedIsWatched, LevelIsLive
<1>4. \A h \in Handles : /\ phase[h] \in {"free", "dialing"}
                         /\ phase[h] = "dialing" => closed[h]
  BY <1>2, HandlesAssumption DEF Inv, TypeOK, OneSocket
<1>5. /\ Idle(Kept) /\ Stale(Kept) /\ Kept.watchdog = "off" /\ ~Kept.meterTimer
      /\ ~Kept.level /\ Kept.reconnect = reconnect
  BY <1>2, <1>3, <1>4 DEF Kept, Idle, Stale
<1> DEFINE n == NewEpoch(Kept)
<1>6. /\ n \in Ks /\ Idle(n) /\ Stale(n) /\ n.watchdog = "off" /\ ~n.meterTimer
      /\ ~n.level /\ n.reconnect = reconnect
  BY <1>1, <1>5, NewEpochFields DEF Idle
<1> HIDE DEF n
<1>7. ~reconnect => Ready([n EXCEPT !.attempt = a])
  BY <1>6 DEF Ready, Ks, Idle, Stale
<1>8. Ready([n EXCEPT !.reconnect = FALSE])
  BY <1>6 DEF Ready, Ks, Idle, Stale
<1> QED
  BY <1>1, <1>5, <1>7, <1>8 DEF Ready, n

\* Nothing is held before the modules are imported.
LEMMA NotYetConnected ==
  ASSUME Inv, ~Holding
  PROVE  conn.connection # "connected" /\ ~conn.state
BY DEF Inv, TypeOK, EpochInv, ConnectedIsWatched, Connections

\* start(), setUrl() and the end of the bootstrap all end in a dial or in a boot.
LEMMA ConnectOrBootStep ==
  ASSUME Inv, NEW k, Ready(k), NEW u, ConnectOrBoot(u, k), OtherTypes',
         running', runtime' = runtime, runtime \/ ~Holding
  PROVE  Inv'
<1>1. CASE runtime
  <2>1. ~Booting' /\ Connect(u, k)
    BY <1>1 DEF ConnectOrBoot, Booting, StaleBoots
  <2> QED
    BY <1>1, <2>1, ConnectStep DEF Inv
<1>2. CASE ~runtime
  <2>1. Install(k) /\ Booting' /\ asked' = asked /\ conn' = conn
    BY <1>2 DEF ConnectOrBoot, Booting
  <2> QED
    BY <1>2, <2>1, BootStep, NotYetConnected DEF Inv
<1> QED
  BY <1>1, <1>2

\* start()
LEMMA StartStep ==
  ASSUME Inv, Start
  PROVE  Inv'
<1>1. ~Holding /\ ~reconnect
  BY DEF Start, Inv, StoppedIsQuiet, Holding
<1>2. Ready([NewEpoch(Kept) EXCEPT !.attempt = 0])
  BY <1>1, KeptIsReady, AttemptAssumption
<1>3. OtherTypes'
  BY DEF Start, Inv, TypeOK, OtherTypes, meterVars, ConnectOrBoot, StaleBoots
<1> QED
  BY <1>1, <1>2, <1>3, ConnectOrBootStep DEF Start

\* stop()
LEMMA StopStep ==
  ASSUME Inv, Stop
  PROVE  Inv'
<1>1. Ready(TornDown)
  BY TornDownIsReady
<1>2. OtherTypes' /\ ~Booting'
  BY DEF Stop, Inv, TypeOK, OtherTypes, meterVars, Booting, StaleBoots
<1>3. TypeOK'
  BY <1>1, <1>2, InstallTypes
     DEF Stop, Inv, TypeOK, OtherTypes, Ready, Connections, Disconnected
<1>4. Down'
  BY <1>1, <1>2 DEF Stop, Ready, Install, Idle, Stale, Down, Disconnected
<1> QED
  BY <1>3, <1>4, DownIsGood

\* setUrl()
LEMMA SetUrlStep ==
  ASSUME Inv, NEW u \in {"valid", "invalid"}, SetUrl(u)
  PROVE  Inv'
<1>1. OtherTypes'
  BY DEF SetUrl, Inv, TypeOK, OtherTypes, meterVars, ConnectOrBoot, StaleBoots
<1>2. CASE running
  <2>1. runtime \/ ~Holding
    BY DEF Inv, EpochInv
  <2> QED
    BY <1>1, <1>2, <2>1, TornDownIsReady, ConnectOrBootStep DEF SetUrl
<1>3. CASE ~running
  <2>1. ~Holding /\ ~reconnect /\ conn = Disconnected
    BY <1>3 DEF Inv, StoppedIsQuiet, Holding
  <2>2. Kept \in Ks /\ NewEpoch(Kept) \in Ks
    BY KeptFields, NewEpochFields DEF Inv
  <2>3. Ready(Kept)
    <3>1. 0 \in 0 .. MaxAttempt
      BY AttemptAssumption
    <3> QED
      BY <2>1, <3>1, KeptIsReady
  <2>4. Ready(NewEpoch(Kept))
    BY <2>2, <2>3, NewEpochFields DEF Ready, Idle
  <2>5. /\ Install(NewEpoch(Kept)) /\ asked' = asked /\ conn' = conn
        /\ ~Booting' /\ ~running'
    BY <1>3 DEF SetUrl, Booting, StaleBoots
  <2>6. TypeOK'
    BY <1>1, <2>2, <2>5, InstallTypes DEF Inv, TypeOK, OtherTypes
  <2>7. Down'
    BY <2>1, <2>4, <2>5 DEF Ready, Install, Idle, Stale, Down, Disconnected
  <2> QED
    BY <2>6, <2>7, DownIsGood
<1> QED
  BY <1>2, <1>3

\* A bootstrap that ends.
LEMMA BootReadyStep ==
  ASSUME Inv, BootReady
  PROVE  Inv'
<1>1. PICK b \in boots :
        /\ boots' = boots \ {b}
        /\ runtime' = TRUE
        /\ IF Resumes(b) THEN Connect(url, Kept)
           ELSE UNCHANGED <<socketVars, timerVars, conn, levelVars>>
        /\ UNCHANGED <<running, url, meterVars>>
  BY DEF BootReady
<1>2. OtherTypes'
  BY <1>1 DEF Inv, TypeOK, OtherTypes, meterVars
<1>3. CASE Resumes(b)
  <2>1. running /\ Booting /\ ~Booting'
    BY <1>1, <1>3 DEF Resumes, Booting
  <2>2. ~Holding /\ ~reconnect
    BY <2>1 DEF Inv, NeverStranded
  <2>3. Ready(Kept)
    <3>1. 0 \in 0 .. MaxAttempt
      BY AttemptAssumption
    <3> QED
      BY <2>2, <3>1, KeptIsReady
  <2> QED
    BY <1>1, <1>2, <1>3, <2>1, <2>3, ConnectStep DEF Inv
<1>4. CASE ~Resumes(b)
  <2>1. UNCHANGED <<running, url, socketVars, timerVars, conn, levelVars, meterVars>>
    BY <1>1, <1>4
  <2>2. Booting' = Booting /\ Holding' = Holding
    BY <1>1, <1>4, <2>1 DEF Resumes, Booting, Holding, Inv, EpochInv, socketVars
  <2> QED
    BY <1>1, <1>2, <2>1, <2>2
       DEF Inv, TypeOK, OtherTypes, EpochInv, ConnectedIsWatched, OneSocket, StoppedIsQuiet,
           NeverStranded, LevelIsLive, SubscriptionFollowsChoice, socketVars, timerVars,
           levelVars, meterVars, Booting, Disconnected
<1> QED
  BY <1>3, <1>4

\* A bootstrap that fails.
LEMMA BootFailsStep ==
  ASSUME Inv, BootFails
  PROVE  Inv'
<1>1. PICK b \in boots :
        /\ ~runtime
        /\ boots' = boots \ {b}
        /\ IF Resumes(b) THEN Fail(Kept)
           ELSE UNCHANGED <<socketVars, timerVars, conn, levelVars>>
        /\ UNCHANGED <<running, url, runtime, meterVars>>
  BY DEF BootFails
<1>2. OtherTypes'
  BY <1>1 DEF Inv, TypeOK, OtherTypes, meterVars
<1>3. CASE Resumes(b)
  <2>1. running /\ Booting /\ ~Booting'
    BY <1>1, <1>3 DEF Resumes, Booting
  <2>2. ~Holding /\ ~reconnect
    BY <2>1 DEF Inv, NeverStranded
  <2>3. Ready(Kept)
    <3>1. 0 \in 0 .. MaxAttempt
      BY AttemptAssumption
    <3> QED
      BY <2>2, <3>1, KeptIsReady
  <2>4. Kept \in Ks /\ Sole(Kept) /\ Stale(Kept)
    BY <2>3 DEF Ready, Idle, Sole
  <2> QED
    BY <1>1, <1>2, <1>3, <2>1, <2>4, FailStep DEF Inv
<1>4. CASE ~Resumes(b)
  <2>1. UNCHANGED <<running, url, socketVars, timerVars, conn, levelVars, meterVars>>
    BY <1>1, <1>4
  <2>2. Booting' = Booting /\ Holding' = Holding
    BY <1>1, <1>4, <2>1 DEF Resumes, Booting, Holding, Inv, EpochInv, socketVars
  <2> QED
    BY <1>1, <1>2, <2>1, <2>2
       DEF Inv, TypeOK, OtherTypes, EpochInv, ConnectedIsWatched, OneSocket, StoppedIsQuiet,
           NeverStranded, LevelIsLive, SubscriptionFollowsChoice, socketVars, timerVars,
           levelVars, meterVars, Booting, Disconnected
<1> QED
  BY <1>3, <1>4

\* The reconnect timer.
LEMMA ReconnectStep ==
  ASSUME Inv, ReconnectFires
  PROVE  Inv'
<1>1. running /\ runtime /\ ~Holding
  BY DEF ReconnectFires, Inv, EpochInv, NeverStranded
<1>2. /\ boots' = StaleBoots
      /\ Connect(url, [NewEpoch(Kept) EXCEPT !.reconnect = FALSE])
      /\ UNCHANGED <<running, url, runtime, meterVars>>
  BY <1>1 DEF ReconnectFires
<1>3. OtherTypes' /\ ~Booting'
  BY <1>2 DEF Inv, TypeOK, OtherTypes, meterVars, Booting, StaleBoots
<1>4. Ready([NewEpoch(Kept) EXCEPT !.reconnect = FALSE])
  <2>1. 0 \in 0 .. MaxAttempt
    BY AttemptAssumption
  <2> QED
    BY <1>1, <2>1, KeptIsReady
<1> QED
  BY <1>1, <1>2, <1>3, <1>4, ConnectStep DEF Inv

\* The freshness watchdog.
LEMMA WatchdogStep ==
  ASSUME Inv, WatchdogFires
  PROVE  Inv'
<1>1. running /\ runtime /\ watchdog = "current"
  BY DEF WatchdogFires, Inv, EpochInv, ConnectedIsWatched
<1>2. Drop(Kept, Errored("other")) /\ UNCHANGED <<running, url, runtime, asked, meterVars>>
  BY <1>1 DEF WatchdogFires
<1>3. OtherTypes'
  BY <1>2 DEF Drop, Inv, TypeOK, OtherTypes, meterVars, StaleBoots
<1>4. Kept \in Ks /\ Sole(Kept)
  BY KeptFields DEF Inv, OneSocket, Sole, Kept
<1>5. Errored("other") = conn => ~Kept.meterTimer /\ ~Kept.level
  BY DEF Inv, TypeOK, EpochInv, LevelIsLive, Kept, Errored
<1>6. /\ Errored("other") \in Connections
      /\ Errored("other").connection # "connected"
      /\ ~Errored("other").state
      /\ Errored("other").error # "config"
  BY DEF Errored, Connections
<1> QED
  BY <1>1, <1>2, <1>3, <1>4, <1>5, <1>6, DropStep DEF Inv

-----------------------------------------------------------------------------
(* Callbacks of the transport.                                              *)

\* A callback that is not inert belongs to the transport the client holds.
LEMMA LiveIsHeld ==
  ASSUME Inv, NEW h \in Handles,
         live[h] \/ phase[h] \in {"open", "closing"} \/ (phase[h] = "dialing" /\ ~closed[h])
  PROVE  /\ h = transport /\ Holding /\ running /\ runtime /\ live[h] /\ ~closed[h]
         /\ socketOpen <=> phase[h] \in {"open", "closing"}
         /\ ~Booting /\ ~reconnect
BY HandlesAssumption DEF Inv, EpochInv, OneSocket, NeverStranded, Holding

\* The end of a dial or of a connection.
LEMMA EndStep ==
  ASSUME Inv, NEW h \in Handles, NEW e \in {"none", "other"}, EndOfSocket(h, e),
         phase[h] = "closing" \/ (phase[h] = "dialing" /\ ~closed[h])
  PROVE  Inv'
<1> DEFINE k == [Kept EXCEPT !.phase[h] = "free"]
           c == SocketClosed(e)
<1>1. running /\ runtime /\ live[h]
  BY LiveIsHeld
<1>2. Drop(k, c) /\ UNCHANGED <<running, url, runtime, asked, meterVars>>
  BY <1>1 DEF EndOfSocket
<1>3. OtherTypes'
  BY <1>2 DEF Drop, Inv, TypeOK, OtherTypes, meterVars, StaleBoots
<1>4. Kept \in Ks /\ Sole(Kept)
  BY KeptFields DEF Inv, OneSocket, Sole, Kept
<1>5. k \in Ks /\ Sole(k) /\ k.meterTimer = Kept.meterTimer /\ k.level = Kept.level
  BY <1>4 DEF Ks, Sole
<1>6. /\ c \in Connections /\ c.connection # "connected" /\ ~c.state /\ c.error # "config"
  BY DEF SocketClosed, Errored, Disconnected, Connections
<1>7. c = conn => ~Kept.meterTimer /\ ~Kept.level
  BY <1>6 DEF Inv, TypeOK, EpochInv, LevelIsLive, Kept
<1> HIDE DEF k, c
<1> QED
  BY <1>1, <1>2, <1>3, <1>5, <1>6, <1>7, DropStep DEF Inv

\* What no step of a dial that was given up, or of the daemon's side, can disturb.
LEMMA OffStageStep ==
  ASSUME Inv, NEW h \in Handles,
         \/ phase[h] = "dialing" /\ closed[h] /\ phase' = [phase EXCEPT ![h] = "free"]
         \/ phase[h] = "open" /\ phase' = [phase EXCEPT ![h] = "closing"],
         UNCHANGED <<bootVars, closed, live, asked, transport, socketOpen, timerVars, conn,
                     meterVars, levelVars>>
  PROVE  Inv'
<1>1. ASSUME phase[h] = "open"
      PROVE  h = transport /\ socketOpen
  BY <1>1, LiveIsHeld
<1> USE DEF Inv, TypeOK, bootVars, timerVars, meterVars, levelVars, Booting, Holding
<1>2. phase[h] = "dialing" => h # transport
  BY HandlesAssumption DEF EpochInv
<1>3. TypeOK'
  OBVIOUS
<1>4. EpochInv'
  BY <1>1, <1>2 DEF EpochInv
<1>5. ConnectedIsWatched' /\ OneSocket'
  BY <1>1, <1>2 DEF ConnectedIsWatched, OneSocket, EpochInv
<1>6. StoppedIsQuiet' /\ NeverStranded' /\ LevelIsLive'
  BY DEF StoppedIsQuiet, NeverStranded, LevelIsLive, Disconnected
<1>7. SubscriptionFollowsChoice'
  <2>1. socketOpen => transport \in Handles
    BY DEF ConnectedIsWatched
  <2>2. socketOpen /\ phase'[transport] = "open" => phase[transport] = "open"
    BY <1>1, <1>2, <2>1
  <2> QED
    BY <2>1, <2>2 DEF SubscriptionFollowsChoice
<1> QED
  BY <1>3, <1>4, <1>5, <1>6, <1>7

\* onOpen, and a dial that completes after it was given up.
LEMMA DialSucceedsStep ==
  ASSUME Inv, NEW h \in Handles, DialSucceeds(h)
  PROVE  Inv'
<1>1. CASE closed[h]
  BY <1>1, OffStageStep DEF DialSucceeds, bootVars, timerVars, meterVars, levelVars
<1>2. CASE ~closed[h]
  <2>1. /\ h = transport /\ Holding /\ running /\ runtime /\ live[h] /\ ~socketOpen
        /\ ~Booting /\ ~reconnect
    BY <1>2, LiveIsHeld DEF DialSucceeds
  <2>2. /\ Opens /\ phase' = [phase EXCEPT ![h] = "open"]
        /\ UNCHANGED <<bootVars, closed, live, asked, transport>>
    BY <1>2, <2>1 DEF DialSucceeds
  <2>3. ~level /\ ~meterTimer
    BY <2>1 DEF Inv, EpochInv, ConnectedIsWatched, LevelIsLive
  <2>4. /\ socketOpen' /\ conn' = Connecting /\ watchdog' = "current"
        /\ ~level' /\ ~meterTimer' /\ ~meterSupported' /\ ~meterSubscribed'
        /\ UNCHANGED <<reconnect, attempt, meterEnabled>>
    BY <2>2, <2>3 DEF Opens, Dispatch, ClearMeter, levelVars, Inv, TypeOK
  <2>5. TypeOK'
    <3>1. level' \in BOOLEAN /\ meterTimer' \in BOOLEAN
      BY <2>2 DEF Opens, Dispatch, ClearMeter, levelVars, Inv, TypeOK
    <3>2. conn' \in Connections
      BY <2>4 DEF Connections, Connecting
    <3> QED
      BY <2>2, <3>1, <3>2 DEF Inv, TypeOK, Opens, bootVars
  <2>6. ~Booting' /\ Holding' /\ running' /\ runtime' /\ live'[h] /\ h = transport'
    BY <2>1, <2>2 DEF Booting, Holding, bootVars
  <2>7. EpochInv'
    BY <2>1, <2>2, <2>4, <2>6 DEF Inv, TypeOK, EpochInv, bootVars, Connecting, Holding
  <2>8. ConnectedIsWatched' /\ OneSocket'
    BY <2>1, <2>2, <2>4, <2>6
       DEF Inv, TypeOK, ConnectedIsWatched, OneSocket, Connecting, Holding
  <2>9. StoppedIsQuiet' /\ NeverStranded' /\ LevelIsLive' /\ SubscriptionFollowsChoice'
    BY <2>1, <2>4, <2>6
       DEF StoppedIsQuiet, NeverStranded, LevelIsLive, SubscriptionFollowsChoice
  <2> QED
    BY <2>5, <2>7, <2>8, <2>9 DEF Inv
<1> QED
  BY <1>1, <1>2 DEF Inv, TypeOK

-----------------------------------------------------------------------------
(* Frames, and what the user asks of the meter.                             *)

\* Steps that leave the sockets, the timers of the socket and the epochs alone.
Settled == UNCHANGED <<bootVars, phase, closed, live, transport, socketOpen, reconnect>>

\* What a frame or a choice of the user can change without disturbing the rest.
LEMMA SettledStep ==
  ASSUME Inv, Settled, TypeOK', Holding \/ conn' = conn,
         Holding => (asked'[transport] <=> socketOpen /\ meterSubscribed'),
         conn'.error = "config" => conn.error = "config",
         watchdog' = watchdog \/ (Holding /\ socketOpen /\ watchdog' = "current"),
         conn'.connection = "connected" <=> conn'.state,
         conn'.connection = "connected" => socketOpen /\ attempt' = 0,
         meterTimer' => conn'.connection = "connected",
         level' => meterTimer' /\ meterEnabled' /\ meterSubscribed',
         SubscriptionFollowsChoice',
         ~running => ~level' /\ ~meterTimer'
  PROVE  Inv'
<1> USE DEF Settled, bootVars, Booting, Holding
<1>1. EpochInv'
  BY DEF Inv, TypeOK, EpochInv
<1>2. ConnectedIsWatched' /\ OneSocket'
  BY DEF Inv, TypeOK, ConnectedIsWatched, OneSocket
<1>3. StoppedIsQuiet' /\ NeverStranded' /\ LevelIsLive'
  BY DEF Inv, TypeOK, EpochInv, ConnectedIsWatched, StoppedIsQuiet, NeverStranded, LevelIsLive,
         Disconnected
<1> QED
  BY <1>1, <1>2, <1>3 DEF Inv

\* setMeterEnabled() and the capability message keep the daemon's subscription in step.
LEMMA SyncStep ==
  ASSUME Inv, NEW enabled \in BOOLEAN, NEW supported \in BOOLEAN,
         SyncSubscription(enabled, supported),
         meterEnabled' = enabled, meterSupported' = supported,
         UNCHANGED <<phase, transport, socketOpen>>,
         socketOpen => running /\ (enabled = meterEnabled \/ supported = meterSupported)
  PROVE  /\ asked' \in [Handles -> BOOLEAN] /\ meterSubscribed' \in BOOLEAN
         /\ SubscriptionFollowsChoice'
         /\ Holding => (asked'[transport] <=> socketOpen /\ meterSubscribed')
<1> USE DEF Inv, TypeOK, EpochInv, Holding
<1>1. socketOpen => transport \in Handles
  BY DEF ConnectedIsWatched
<1>2. CASE supported /\ enabled # meterSubscribed /\ CanSubscribe
  BY <1>1, <1>2 DEF SyncSubscription, CanSubscribe, SubscriptionFollowsChoice
<1>3. CASE ~(supported /\ enabled # meterSubscribed /\ CanSubscribe)
  <2>1. UNCHANGED <<asked, meterSubscribed>>
    BY <1>3 DEF SyncSubscription
  <2>2. socketOpen /\ phase[transport] = "open" => CanSubscribe
    BY <1>1, HandlesAssumption DEF CanSubscribe
  <2> QED
    BY <1>1, <1>3, <2>1, <2>2 DEF SubscriptionFollowsChoice
<1> QED
  BY <1>2, <1>3

\* The client's own choice.
LEMMA SetMeterStep ==
  ASSUME Inv, NEW enabled \in BOOLEAN, SetMeterEnabled(enabled)
  PROVE  Inv'
<1> USE DEF Inv, TypeOK
<1>1. socketOpen => running
  BY DEF EpochInv
<1>2. /\ asked' \in [Handles -> BOOLEAN] /\ meterSubscribed' \in BOOLEAN
      /\ SubscriptionFollowsChoice'
      /\ Holding => (asked'[transport] <=> socketOpen /\ meterSubscribed')
  BY <1>1, SyncStep DEF SetMeterEnabled
<1>3. /\ meterEnabled' = enabled
      /\ UNCHANGED <<bootVars, phase, closed, live, transport, socketOpen, timerVars, conn,
                     meterSupported>>
      /\ IF enabled THEN UNCHANGED levelVars ELSE ClearMeter
  BY DEF SetMeterEnabled
<1>4. meterSubscribed' = meterSubscribed \/ meterSubscribed' = enabled
  BY DEF SetMeterEnabled, SyncSubscription
<1>5. /\ meterTimer' \in BOOLEAN /\ level' \in BOOLEAN
      /\ meterTimer' => meterTimer
      /\ level' => level /\ meterTimer' /\ enabled
  BY <1>3 DEF ClearMeter, levelVars, LevelIsLive
<1>6. Settled /\ TypeOK'
  BY <1>2, <1>3, <1>5 DEF Settled, bootVars, timerVars
<1>7. level' => meterSubscribed'
  BY <1>4, <1>5 DEF LevelIsLive
<1>8. ~running => ~level' /\ ~meterTimer'
  BY <1>5 DEF StoppedIsQuiet
<1> QED
  BY <1>2, <1>3, <1>5, <1>6, <1>7, <1>8, SettledStep
     DEF ConnectedIsWatched, EpochInv, timerVars

\* A level that has not been refreshed is withdrawn.
LEMMA MeterExpiresStep ==
  ASSUME Inv, MeterExpires
  PROVE  Inv'
<1>1. UNCHANGED <<bootVars, socketVars, timerVars, conn, meterVars>>
  BY DEF MeterExpires
<1>2. /\ ~meterTimer' /\ ~level'
      /\ meterTimer' \in BOOLEAN /\ level' \in BOOLEAN
  BY Zenon DEF MeterExpires, ClearMeter
<1>3. TypeOK'
  BY <1>1, <1>2 DEF Inv, TypeOK, bootVars, socketVars, timerVars, meterVars
<1>4. SubscriptionFollowsChoice' /\ Settled
  BY <1>1 DEF Inv, SubscriptionFollowsChoice, Settled, socketVars, timerVars, meterVars
<1>5. /\ watchdog' = watchdog /\ attempt' = attempt
      /\ asked' = asked /\ meterSubscribed' = meterSubscribed
  BY <1>1 DEF timerVars, socketVars, meterVars
<1> QED
  BY <1>1, <1>2, <1>3, <1>4, <1>5, SettledStep DEF Inv, EpochInv, ConnectedIsWatched, Holding

\* A state frame.
LEMMA ReadStateStep ==
  ASSUME Inv, NEW h \in Handles, NEW valid \in BOOLEAN, ReadState(h, valid)
  PROVE  Inv'
<1>1. h = transport /\ Holding /\ running /\ socketOpen
  BY LiveIsHeld DEF ReadState, Receives
<1>2. /\ Settled /\ conn' = StateReceived(valid)
      /\ UNCHANGED <<asked, meterVars>>
  BY DEF ReadState, Settled, bootVars, socketVars
<1>3. /\ conn' \in Connections /\ conn'.error # "config"
      /\ conn'.connection = "connected" <=> valid
      /\ conn'.state = valid
  BY <1>2 DEF StateReceived, Errored, Connections
<1>4. /\ meterTimer' \in BOOLEAN /\ level' \in BOOLEAN
      /\ meterTimer' => meterTimer /\ valid
      /\ level' => level /\ meterTimer'
      /\ watchdog' = watchdog \/ watchdog' = "current"
      /\ attempt' \in 0 .. MaxAttempt
      /\ valid => attempt' = 0
  <2>1. /\ watchdog' = watchdog \/ watchdog' = "current"
        /\ attempt' = attempt \/ attempt' = 0
        /\ valid => attempt' = 0
    BY DEF ReadState
  <2>2. attempt' \in 0 .. MaxAttempt
    BY <2>1, AttemptAssumption DEF Inv, TypeOK
  <2>3. \/ UNCHANGED levelVars /\ valid
        \/ ClearMeter
    BY DEF ReadState
  <2>4. /\ meterTimer \in BOOLEAN /\ level \in BOOLEAN
        /\ level => meterTimer
    BY DEF Inv, TypeOK, LevelIsLive
  <2>5. /\ meterTimer' \in BOOLEAN /\ level' \in BOOLEAN
        /\ meterTimer' => meterTimer /\ valid
        /\ level' => level /\ meterTimer'
    <3>1. CASE UNCHANGED levelVars /\ valid
      BY <2>4, <3>1 DEF levelVars
    <3>2. CASE ClearMeter
      BY <3>2, Zenon DEF ClearMeter
    <3> QED
      BY <2>3, <3>1, <3>2
  <2> QED
    BY <2>1, <2>2, <2>5
<1>5. TypeOK'
  BY <1>2, <1>3, <1>4 DEF Inv, TypeOK, Settled, bootVars, meterVars
<1>6. SubscriptionFollowsChoice'
  BY <1>2 DEF Inv, SubscriptionFollowsChoice, Settled, meterVars
<1>7. Holding => (asked'[transport] <=> socketOpen /\ meterSubscribed')
  BY <1>2 DEF Inv, EpochInv, meterVars, Holding
<1>8. level' => meterEnabled' /\ meterSubscribed'
  BY <1>2, <1>4 DEF Inv, LevelIsLive, meterVars
<1> QED
  BY <1>1, <1>2, <1>3, <1>4, <1>5, <1>6, <1>7, <1>8, SettledStep

\* What a report does to the level on display.
LEMMA DispatchStep ==
  ASSUME Inv, NEW c, Dispatch(c)
  PROVE  /\ conn' = c
         /\ meterTimer' \in BOOLEAN /\ level' \in BOOLEAN
         /\ meterTimer' => meterTimer /\ c.connection = "connected"
         /\ level' => level /\ meterTimer'
<1>1. meterTimer => conn.connection = "connected"
  BY DEF Inv, EpochInv
<1> QED
  BY <1>1 DEF Dispatch, Withdraws, ClearMeter, levelVars, Inv, TypeOK, LevelIsLive

\* Frames that only report.
LEMMA ReportStep ==
  ASSUME Inv, NEW h \in Handles, Receives(h), NEW c \in Connections, Dispatch(c),
         c.error # "config",
         c.connection = "connected" <=> c.state,
         c.state => conn.state,
         UNCHANGED <<bootVars, socketVars, timerVars, meterVars>>
  PROVE  Inv'
<1>1. h = transport /\ Holding /\ running /\ socketOpen
  BY LiveIsHeld DEF Receives
<1>2. /\ conn' = c
      /\ meterTimer' \in BOOLEAN /\ level' \in BOOLEAN
      /\ meterTimer' => meterTimer /\ c.connection = "connected"
      /\ level' => level /\ meterTimer'
  BY DispatchStep
<1>3. Settled
  BY DEF Settled, socketVars, timerVars
<1>4. TypeOK'
  BY <1>2 DEF Inv, TypeOK, bootVars, socketVars, timerVars, meterVars
<1>5. SubscriptionFollowsChoice'
  BY DEF Inv, SubscriptionFollowsChoice, socketVars, meterVars
<1>6. Holding => (asked'[transport] <=> socketOpen /\ meterSubscribed')
  BY DEF Inv, EpochInv, meterVars, socketVars, Holding
<1>7. level' => meterEnabled' /\ meterSubscribed'
  BY <1>2 DEF Inv, LevelIsLive, meterVars
<1>8. c.state => attempt' = 0
  BY DEF Inv, ConnectedIsWatched, timerVars
<1>9. watchdog' = watchdog
  BY DEF timerVars
<1> QED
  BY <1>1, <1>2, <1>3, <1>4, <1>5, <1>6, <1>7, <1>8, <1>9, SettledStep

\* A status frame.
LEMMA ReadStatusStep ==
  ASSUME Inv, NEW h \in Handles, NEW up \in BOOLEAN, NEW supported \in BOOLEAN,
         NEW e \in {"none", "other"}, ReadStatus(h, up, supported, e)
  PROVE  Inv'
<1> DEFINE c == StatusReceived(conn, up, e)
<1>1. h = transport /\ Holding /\ running /\ socketOpen
  BY LiveIsHeld DEF ReadStatus, Receives
<1>2. /\ c \in Connections /\ c.error # "config"
      /\ c.connection = "connected" <=> c.state
      /\ c.state => conn.state
  BY DEF StatusReceived, SocketClosed, Errored, Disconnected, Connections, Inv, TypeOK
<1>3. Dispatch(c)
  BY DEF ReadStatus
<1> HIDE DEF c
<1>4. /\ conn' = c
      /\ meterTimer' \in BOOLEAN /\ level' \in BOOLEAN
      /\ meterTimer' => meterTimer /\ c.connection = "connected"
      /\ level' => level /\ meterTimer'
  BY <1>3, DispatchStep
<1>5. /\ SyncSubscription(meterEnabled, supported)
      /\ meterEnabled' = meterEnabled /\ meterSupported' = supported
      /\ UNCHANGED <<bootVars, phase, closed, live, transport, socketOpen, timerVars>>
  BY DEF ReadStatus
<1>6. meterEnabled \in BOOLEAN
  BY DEF Inv, TypeOK
<1>7. /\ asked' \in [Handles -> BOOLEAN] /\ meterSubscribed' \in BOOLEAN
      /\ SubscriptionFollowsChoice'
      /\ Holding => (asked'[transport] <=> socketOpen /\ meterSubscribed')
  BY <1>1, <1>5, <1>6, SyncStep
<1>8. Settled /\ watchdog' = watchdog /\ attempt' = attempt
  BY <1>5 DEF Settled, timerVars
<1>9. TypeOK'
  BY <1>2, <1>4, <1>5, <1>7 DEF Inv, TypeOK, bootVars, timerVars
<1>10. meterEnabled /\ meterSubscribed => meterSubscribed'
  BY <1>5 DEF SyncSubscription
<1>11. level' => meterEnabled' /\ meterSubscribed'
  BY <1>4, <1>5, <1>10 DEF Inv, LevelIsLive
<1>12. c.state => attempt' = 0
  BY <1>2, <1>8 DEF Inv, ConnectedIsWatched
<1> QED
  BY <1>1, <1>2, <1>4, <1>7, <1>8, <1>9, <1>11, <1>12, SettledStep

\* An error frame, and a frame that is not a message.
LEMMA ReadErrorStep ==
  ASSUME Inv, NEW h \in Handles, ReadError(h) \/ ReadInvalid(h)
  PROVE  Inv'
<1>1. Receives(h) /\ UNCHANGED <<bootVars, socketVars, timerVars, meterVars>>
  BY DEF ReadError, ReadInvalid
<1>2. conn \in Connections /\ (conn.connection = "connected" <=> conn.state)
  BY DEF Inv, TypeOK, ConnectedIsWatched
<1>3. CASE ReadError(h)
  <2>1. /\ ErrorReceived(conn) \in Connections
        /\ ErrorReceived(conn).error # "config"
        /\ ErrorReceived(conn).connection = "connected" <=> ErrorReceived(conn).state
        /\ ErrorReceived(conn).state => conn.state
    BY <1>2 DEF ErrorReceived, Connections
  <2> QED
    BY <1>1, <1>3, <2>1, ReportStep DEF ReadError
<1>4. CASE ReadInvalid(h)
  <2>1. /\ Errored("other") \in Connections
        /\ Errored("other").error # "config"
        /\ Errored("other").connection = "connected" <=> Errored("other").state
        /\ Errored("other").state => conn.state
    BY DEF Errored, Connections
  <2> QED
    BY <1>1, <1>4, <2>1, ReportStep DEF ReadInvalid
<1> QED
  BY <1>3, <1>4

\* A level.
LEMMA ReadMeterStep ==
  ASSUME Inv, NEW h \in Handles, NEW available \in BOOLEAN, ReadMeter(h, available)
  PROVE  Inv'
<1>1. /\ h = transport /\ Holding /\ running /\ socketOpen
      /\ meterEnabled /\ meterSubscribed /\ conn.connection = "connected"
      /\ level' = available /\ meterTimer' = available
      /\ UNCHANGED <<bootVars, socketVars, timerVars, conn, meterVars>>
  BY LiveIsHeld DEF ReadMeter, Receives
<1>2. Settled /\ TypeOK' /\ SubscriptionFollowsChoice'
  BY <1>1 DEF Inv, TypeOK, Settled, SubscriptionFollowsChoice, bootVars, socketVars, timerVars,
              meterVars
<1>3. Holding => (asked'[transport] <=> socketOpen /\ meterSubscribed')
  BY <1>1 DEF Inv, EpochInv, meterVars, socketVars, Holding
<1>4. /\ conn'.connection = "connected" <=> conn'.state
      /\ conn'.connection = "connected" => socketOpen /\ attempt' = 0
      /\ conn' = conn /\ watchdog' = watchdog
      /\ meterEnabled' = meterEnabled /\ meterSubscribed' = meterSubscribed
  BY <1>1 DEF Inv, ConnectedIsWatched, timerVars, meterVars
<1> QED
  BY <1>1, <1>2, <1>3, <1>4, SettledStep

-----------------------------------------------------------------------------
(* The theorems.                                                            *)

\* Every step of the client keeps the invariant.
LEMMA StepInv == Inv /\ [Next]_vars => Inv'
<1> SUFFICES ASSUME Inv, [Next]_vars
             PROVE  Inv'
  OBVIOUS
<1>1. CASE Interface
  BY <1>1, StartStep, StopStep, SetUrlStep, SetMeterStep DEF Interface
<1>2. CASE MainLoop
  BY <1>2, BootReadyStep, BootFailsStep, ReconnectStep, WatchdogStep, MeterExpiresStep
     DEF MainLoop
<1>3. ASSUME NEW h \in Handles, Socket(h)
      PROVE  Inv'
  <2>1. CASE DialSucceeds(h)
    BY <2>1, DialSucceedsStep
  <2>2. CASE DialFails(h)
    BY <2>2, EndStep DEF DialFails
  <2>3. CASE ClosedDialFails(h)
    BY <2>3, OffStageStep DEF ClosedDialFails
  <2>4. CASE PeerCloses(h)
    BY <2>4, OffStageStep DEF PeerCloses
  <2>5. CASE ClosedSignal(h)
    BY <2>5, EndStep DEF ClosedSignal
  <2>6. CASE \E valid \in BOOLEAN : ReadState(h, valid)
    BY <2>6, ReadStateStep
  <2>7. CASE \E up, supported \in BOOLEAN, e \in {"none", "other"} :
                ReadStatus(h, up, supported, e)
    BY <2>7, ReadStatusStep
  <2>8. CASE ReadError(h) \/ ReadInvalid(h)
    BY <2>8, ReadErrorStep
  <2>9. CASE \E available \in BOOLEAN : ReadMeter(h, available)
    BY <2>9, ReadMeterStep
  <2> QED
    BY <1>3, <2>1, <2>2, <2>3, <2>4, <2>5, <2>6, <2>7, <2>8, <2>9 DEF Socket
<1>4. CASE UNCHANGED vars
  BY <1>4 DEF vars, bootVars, socketVars, timerVars, meterVars, levelVars, Inv, TypeOK, EpochInv,
     ConnectedIsWatched, OneSocket, StoppedIsQuiet, NeverStranded, LevelIsLive,
     SubscriptionFollowsChoice, Booting, Holding
<1> QED
  BY <1>1, <1>2, <1>3, <1>4 DEF Next

\* The inductive invariant holds in every state of the client.
THEOREM Invariance == Spec => []Inv
BY InitInv, StepInv, PTL DEF Spec

\* The client's variables keep their types; no captured epoch outlives a timer.
THEOREM TypeCorrect == Spec => []TypeOK
<1>1. Inv => TypeOK
  BY DEF Inv
<1> QED
  BY <1>1, Invariance, PTL

\* A client shown as connected holds a snapshot, an open socket and an armed watchdog.
THEOREM ConnectedClientsAreWatched == Spec => []ConnectedIsWatched
<1>1. Inv => ConnectedIsWatched
  BY DEF Inv
<1> QED
  BY <1>1, Invariance, PTL

\* Never two WebSockets, however dials, timeouts, stop() and setUrl() interleave.
THEOREM NeverTwoSockets == Spec => []OneSocket
<1>1. Inv => OneSocket
  BY DEF Inv
<1> QED
  BY <1>1, Invariance, PTL

\* Nothing can bring a stopped client back.
THEOREM NothingResurrects == Spec => []StoppedIsQuiet
<1>1. Inv => StoppedIsQuiet
  BY DEF Inv
<1> QED
  BY <1>1, Invariance, PTL

\* A running client always pursues its connection, in one way at a time.
THEOREM ClientIsNeverStranded == Spec => []NeverStranded
<1>1. Inv => NeverStranded
  BY DEF Inv
<1> QED
  BY <1>1, Invariance, PTL

\* No level is displayed without a connection, a subscription and an armed timer.
THEOREM LevelsAreLive == Spec => []LevelIsLive
<1>1. Inv => LevelIsLive
  BY DEF Inv
<1> QED
  BY <1>1, Invariance, PTL

\* The daemon has been asked for what the user chose.
THEOREM ChoiceReachesDaemon == Spec => []SubscriptionFollowsChoice
<1>1. Inv => SubscriptionFollowsChoice
  BY DEF Inv
<1> QED
  BY <1>1, Invariance, PTL

=============================================================================
