---------------------------- MODULE MeterCapture ----------------------------
(***************************************************************************)
(* One run of the input meter (internal/meter): discover the microphone's   *)
(* audio source, capture it with a parec child, supervise where the broker  *)
(* routes the stream, publish levels, and start over after any failure.     *)
(*                                                                         *)
(* Three goroutines share a capture: the loop that selects among channels   *)
(* and timers, the reader of the child's output, and the monitor of the     *)
(* route.  The audio service is the environment: sources come and go, a     *)
(* stream is registered some time after its child starts and may be moved,  *)
(* and any tool may fail.  Timers may fire whenever they are armed.         *)
(***************************************************************************)
EXTENDS Naturals, Sequences

CONSTANTS
    Sources,        \* indices the broker gives to the microphone's source
    None            \* no index

ASSUME SourcesAssumption == None \notin Sources

VARIABLES
    cancelled,      \* the context of Run
    pc,             \* where the loop is
    selected,       \* the source this capture was started on
    stopped,        \* the capture's own context, and its end of the pipe
    verified,       \* the loop has been told the route holds
    pending,        \* the loop holds a chunk it has not published
    startup,        \* the startup timer still counts
    parec,          \* the child process
    reader,         \* the goroutine of readPCM
    chunk,          \* what it has to send
    pcm,            \* the channel of chunks, of capacity 1
    monitor,        \* the goroutine of monitor
    checked,        \* its own verified: a check has succeeded
    result,         \* what it has to report
    routes,         \* the channel of route checks, of capacity 1
    mic,            \* the index of the microphone's source at the broker
    stream,         \* where the broker routes the stream of this capture
    proven          \* history: a check of this capture saw it on the selected source

loopVars    == <<pc, selected, stopped, verified, pending, startup>>
readerVars  == <<reader, chunk, pcm>>
monitorVars == <<monitor, checked, result, routes, proven>>
brokerVars  == <<mic, stream>>
vars == <<cancelled, loopVars, parec, readerVars, monitorVars, brokerVars>>

Init ==
    /\ cancelled = FALSE
    /\ pc = "discover"
    /\ selected = None
    /\ stopped = FALSE
    /\ verified = FALSE
    /\ pending = FALSE
    /\ startup = FALSE
    /\ parec = "none"
    /\ reader = "done"
    /\ chunk = "none"
    /\ pcm = <<>>
    /\ monitor = "done"
    /\ checked = FALSE
    /\ result = "none"
    /\ routes = <<>>
    /\ mic \in Sources \cup {None}
    /\ stream = "absent"
    /\ proven = FALSE

\* The context the goroutines of a capture look at.
Done == cancelled \/ stopped

-----------------------------------------------------------------------------
(* run: discover, capture, report, pause, and again. *)

\* list and selectSource; a source that is absent or ambiguous is refused.
Discover ==
    /\ pc = "discover"
    /\ \/ /\ cancelled
          /\ pc' = "returned"
          /\ UNCHANGED selected
       \/ /\ ~cancelled /\ mic # None
          /\ selected' = mic
          /\ pc' = "start"
       \/ /\ ~cancelled
          /\ pc' = "report"
          /\ UNCHANGED selected
    /\ UNCHANGED <<cancelled, stopped, verified, pending, startup, parec, readerVars,
                   monitorVars, brokerVars>>

StartFails ==
    /\ pc = "start"
    /\ pc' = "report"
    /\ UNCHANGED <<cancelled, selected, stopped, verified, pending, startup, parec,
                   readerVars, monitorVars, brokerVars>>

StartCapture ==
    /\ pc = "start"
    /\ ~cancelled
    /\ pc' = "select"
    /\ stopped' = FALSE
    /\ verified' = FALSE
    /\ pending' = FALSE
    /\ startup' = TRUE
    /\ parec' = "running"
    /\ reader' = "reading" /\ chunk' = "none" /\ pcm' = <<>>
    /\ monitor' = "sources" /\ checked' = FALSE /\ result' = "none" /\ routes' = <<>>
    /\ proven' = FALSE
    /\ stream' = "absent"
    /\ UNCHANGED <<cancelled, selected, mic>>

\* The error of a capture or of a discovery is emitted unless Run is cancelled.
ReportError ==
    /\ pc = "report"
    /\ pc' = IF cancelled THEN "returned" ELSE "pause"
    /\ UNCHANGED <<cancelled, selected, stopped, verified, pending, startup, parec,
                   readerVars, monitorVars, brokerVars>>

Pause ==
    /\ pc = "pause"
    /\ pc' = IF cancelled THEN "returned" ELSE "discover"
    /\ UNCHANGED <<cancelled, selected, stopped, verified, pending, startup, parec,
                   readerVars, monitorVars, brokerVars>>

-----------------------------------------------------------------------------
(* capture: the select loop. *)

GiveUp ==
    /\ pc' = "cleanup"
    /\ UNCHANGED <<selected, stopped, verified, pending, startup>>

SelectDone ==
    /\ pc = "select"
    /\ Done
    /\ GiveUp
    /\ UNCHANGED <<cancelled, parec, readerVars, monitorVars, brokerVars>>

SelectStartup ==
    /\ pc = "select"
    /\ startup
    /\ GiveUp
    /\ UNCHANGED <<cancelled, parec, readerVars, monitorVars, brokerVars>>

SelectWatchdog ==
    /\ pc = "select"
    /\ GiveUp
    /\ UNCHANGED <<cancelled, parec, readerVars, monitorVars, brokerVars>>

\* A failed check that is only logged.
SelectRouteIgnoresError ==
    /\ pc = "select"
    /\ routes # <<>>
    /\ routes' = Tail(routes)
    /\ verified' = (verified \/ Head(routes) = "ok")
    /\ UNCHANGED <<cancelled, pc, selected, stopped, pending, startup, parec, readerVars,
                   monitor, checked, result, proven, brokerVars>>

SelectRoute ==
    /\ pc = "select"
    /\ routes # <<>>
    /\ routes' = Tail(routes)
    /\ IF Head(routes) = "error" THEN GiveUp
       ELSE /\ verified' = TRUE
            /\ UNCHANGED <<pc, selected, stopped, pending, startup>>
    /\ UNCHANGED <<cancelled, parec, readerVars, monitor, checked, result, proven, brokerVars>>

SelectChunk ==
    /\ pc = "select"
    /\ pcm # <<>>
    /\ pcm' = Tail(pcm)
    /\ IF Head(pcm) = "error" THEN GiveUp
       ELSE /\ pending' = TRUE
            /\ UNCHANGED <<pc, selected, stopped, verified, startup>>
    /\ UNCHANGED <<cancelled, parec, reader, chunk, monitorVars, brokerVars>>

\* The publish timer: a chunk that has aged is dropped, a fresh one is emitted once the
\* route is verified.
SelectPublish ==
    /\ pc = "select"
    /\ pending
    /\ \/ pending' = FALSE /\ pc' = pc
       \/ verified /\ ~Done /\ pc' = "emit" /\ UNCHANGED pending
    /\ UNCHANGED <<cancelled, selected, stopped, verified, startup, parec, readerVars,
                   monitorVars, brokerVars>>

Emit ==
    /\ pc = "emit"
    /\ pc' = "select"
    /\ pending' = FALSE
    /\ startup' = FALSE
    /\ UNCHANGED <<cancelled, selected, stopped, verified, parec, readerVars, monitorVars,
                   brokerVars>>

\* The deferred cleanup: cancel, close the pipe, join both goroutines, reap the child.
Cleanup ==
    /\ pc = "cleanup"
    /\ stopped' = TRUE
    /\ pc' = "join"
    /\ UNCHANGED <<cancelled, selected, verified, pending, startup, parec, readerVars,
                   monitorVars, brokerVars>>

\* The monitor is left to end by itself.
JoinReaderOnly ==
    /\ pc = "join"
    /\ reader = "done"
    /\ pc' = "wait"
    /\ UNCHANGED <<cancelled, selected, stopped, verified, pending, startup, parec,
                   readerVars, monitorVars, brokerVars>>

Join ==
    /\ pc = "join"
    /\ reader = "done" /\ monitor = "done"
    /\ pc' = "wait"
    /\ UNCHANGED <<cancelled, selected, stopped, verified, pending, startup, parec,
                   readerVars, monitorVars, brokerVars>>

Wait ==
    /\ pc = "wait"
    /\ parec = "exited"
    /\ parec' = "none"
    /\ pc' = "report"
    /\ UNCHANGED <<cancelled, selected, stopped, verified, pending, startup, readerVars,
                   monitorVars, brokerVars>>

-----------------------------------------------------------------------------
(* readPCM *)

\* What is in the pipe is still read after the stream has gone or the child has exited.
ReadChunk ==
    /\ reader = "reading"
    /\ ~stopped
    /\ chunk' \in {"ok", "error"}
    /\ reader' = "send"
    /\ UNCHANGED <<cancelled, loopVars, parec, pcm, monitorVars, brokerVars>>

\* The pipe is closed at one end or the other.
ReadEnds ==
    /\ reader = "reading"
    /\ stopped \/ parec = "exited"
    /\ chunk' = "error"
    /\ reader' = "send"
    /\ UNCHANGED <<cancelled, loopVars, parec, pcm, monitorVars, brokerVars>>

SendChunk ==
    /\ reader = "send"
    /\ pcm = <<>>
    /\ pcm' = <<chunk>>
    /\ reader' = IF chunk = "error" \/ Done THEN "done" ELSE "reading"
    /\ UNCHANGED <<cancelled, loopVars, parec, chunk, monitorVars, brokerVars>>

\* A send that only the loop can release.
SendNeverAborts ==
    /\ FALSE
    /\ UNCHANGED vars

SendAborts ==
    /\ reader = "send"
    /\ Done
    /\ reader' = "done"
    /\ UNCHANGED <<cancelled, loopVars, parec, chunk, pcm, monitorVars, brokerVars>>

-----------------------------------------------------------------------------
(* monitor and verifyRoute *)

\* The first list: is the source still the one selected?
CheckSources ==
    /\ monitor = "sources"
    /\ \/ ~Done /\ mic = selected /\ monitor' = "outputs" /\ UNCHANGED result
       \/ ~Done /\ monitor' = "report" /\ result' = "error"
       \/ Done /\ monitor' = "done" /\ UNCHANGED result
    /\ UNCHANGED <<cancelled, loopVars, parec, readerVars, checked, routes, proven, brokerVars>>

\* A check that takes an unregistered stream for a good one.
CheckOutputsLeniently ==
    /\ monitor = "outputs"
    /\ monitor' = "report"
    /\ result' = IF stream = "other" THEN "error" ELSE "ok"
    /\ proven' = (proven \/ stream = "mic")
    /\ UNCHANGED <<cancelled, loopVars, parec, readerVars, checked, routes, brokerVars>>

\* The second list: is this capture's stream on that source?  Before the first success
\* a stream that is not there yet is waited for.
CheckOutputs ==
    /\ monitor = "outputs"
    /\ \/ /\ stream = "mic"
          /\ monitor' = "report" /\ result' = "ok"
          /\ proven' = TRUE
       \/ /\ stream = "absent" /\ ~checked
          /\ monitor' = "retry"
          /\ UNCHANGED <<result, proven>>
       \/ /\ monitor' = "report" /\ result' = "error"
          /\ UNCHANGED proven
    /\ UNCHANGED <<cancelled, loopVars, parec, readerVars, checked, routes, brokerVars>>

ReportRoute ==
    /\ monitor = "report"
    /\ \/ /\ routes = <<>>
          /\ routes' = <<result>>
          /\ monitor' = IF result = "error" THEN "done" ELSE "interval"
       \/ /\ Done
          /\ monitor' = "done"
          /\ UNCHANGED routes
    /\ UNCHANGED <<cancelled, loopVars, parec, readerVars, checked, result, proven, brokerVars>>

\* A monitor that is content with one success.
MonitorPauseOnce ==
    /\ monitor \in {"retry", "interval"}
    /\ monitor = "interval" => Done
    /\ monitor' = IF Done THEN "done" ELSE "sources"
    /\ UNCHANGED <<cancelled, loopVars, parec, readerVars, checked, result, routes, proven,
                   brokerVars>>

MonitorPause ==
    /\ monitor \in {"retry", "interval"}
    /\ monitor' = IF Done THEN "done" ELSE "sources"
    /\ checked' = (checked \/ (monitor = "interval" /\ ~Done))
    /\ UNCHANGED <<cancelled, loopVars, parec, readerVars, result, routes, proven, brokerVars>>

-----------------------------------------------------------------------------
(* The caller and the audio service. *)

Cancel ==
    /\ ~cancelled
    /\ cancelled' = TRUE
    /\ UNCHANGED <<loopVars, parec, readerVars, monitorVars, brokerVars>>

\* Without its source the stream disappears, or falls back to another one.
MicGoes ==
    /\ mic # None
    /\ mic' = None
    /\ \/ stream' = IF stream = "mic" THEN "absent" ELSE stream
       \/ stream = "mic" /\ stream' = "other"
    /\ UNCHANGED <<cancelled, loopVars, parec, readerVars, monitorVars>>

MicComes ==
    /\ mic = None
    /\ mic' \in Sources
    /\ UNCHANGED <<cancelled, loopVars, parec, readerVars, monitorVars, stream>>

\* The broker registers the stream, on the source asked for or on another one, or moves it.
Routes ==
    /\ parec = "running"
    /\ stream' \in (IF mic = selected THEN {"mic"} ELSE {}) \cup {"other"}
    /\ stream' # stream
    /\ UNCHANGED <<cancelled, loopVars, parec, readerVars, monitorVars, mic>>

\* The child fails, or is killed once its context is done.
ChildExits ==
    /\ parec = "running"
    /\ parec' = "exited"
    /\ stream' = "absent"
    /\ UNCHANGED <<cancelled, loopVars, readerVars, monitorVars, mic>>

-----------------------------------------------------------------------------
Loop ==
    \/ Discover \/ StartFails \/ StartCapture \/ ReportError \/ Pause
    \/ SelectDone \/ SelectStartup \/ SelectWatchdog
    \/ SelectRoute \/ SelectChunk \/ SelectPublish \/ Emit
    \/ Cleanup \/ Join \/ Wait

Reader  == ReadChunk \/ ReadEnds \/ SendChunk \/ SendAborts
Monitor == CheckSources \/ CheckOutputs \/ ReportRoute \/ MonitorPause
Broker  == MicGoes \/ MicComes \/ Routes \/ ChildExits

Next == Loop \/ Reader \/ Monitor \/ Broker \/ Cancel

\* Goroutines are scheduled, a select that finds an arm ready again and again takes it
\* eventually, pauses end, and exec kills the child of a context that is done.  Nothing
\* is assumed of the other timers, of the broker or of the caller.
Fairness ==
    /\ WF_vars(Discover) /\ WF_vars(StartFails \/ StartCapture)
    /\ WF_vars(ReportError) /\ WF_vars(Pause)
    /\ WF_vars(Emit) /\ WF_vars(Cleanup) /\ WF_vars(Join) /\ WF_vars(Wait)
    /\ SF_vars(SelectDone) /\ SF_vars(SelectRoute) /\ SF_vars(SelectChunk)
    /\ WF_vars(ReadEnds) /\ WF_vars(SendChunk \/ SendAborts)
    /\ WF_vars(Monitor)
    /\ WF_vars(ChildExits /\ Done)

Spec == Init /\ [][Next]_vars
FairSpec == Spec /\ Fairness

-----------------------------------------------------------------------------
(* Properties. *)

TypeOK ==
    /\ cancelled \in BOOLEAN
    /\ pc \in {"discover", "start", "select", "emit", "cleanup", "join", "wait", "report",
               "pause", "returned"}
    /\ selected \in Sources \cup {None}
    /\ stopped \in BOOLEAN
    /\ verified \in BOOLEAN
    /\ pending \in BOOLEAN
    /\ startup \in BOOLEAN
    /\ parec \in {"none", "running", "exited"}
    /\ reader \in {"reading", "send", "done"}
    /\ chunk \in {"none", "ok", "error"}
    /\ pcm \in {<<>>, <<"ok">>, <<"error">>}
    /\ monitor \in {"sources", "outputs", "retry", "report", "interval", "done"}
    /\ checked \in BOOLEAN
    /\ result \in {"none", "ok", "error"}
    /\ routes \in {<<>>, <<"ok">>, <<"error">>}
    /\ mic \in Sources \cup {None}
    /\ stream \in {"absent", "mic", "other"}
    /\ proven \in BOOLEAN

Capturing == pc \in {"select", "emit"}

\* A level is published only by a capture whose stream has been seen on the source it
\* was started on.  (meter doc.go "Before publishing ... are checked", capture, monitor)
VerifiedBeforePublished == pc = "emit" => proven

\* A capture is never left unsupervised: while its loop runs, the monitor and the reader
\* are at work, or the loop is about to learn why they ended.  (monitor, readPCM, capture)
NeverUnsupervised ==
    Capturing /\ ~cancelled =>
        /\ monitor = "done" => routes = <<"error">>
        /\ reader = "done" => pcm = <<"error">>

\* Between captures and after Run has returned there is no child and no goroutine.
\* (capture's deferred cleanup; Run "stops and reaps all children before Run returns")
NothingLeftBehind ==
    pc \in {"discover", "start", "report", "pause", "returned"} =>
        parec = "none" /\ reader = "done" /\ monitor = "done"

\* A stream that is moved off its source, or disappears, after it was verified ends the
\* capture unless it comes back.  (monitor, verifyRoute)
MisroutedStops ==
    (Capturing /\ verified /\ stream # "mic") ~> (~Capturing \/ stream = "mic")

\* Cancellation always makes Run return, whatever its goroutines are blocked on.
\* (run, capture, sendPCM, monitor, pause)
CancelReturns == cancelled ~> (pc = "returned")

=============================================================================
