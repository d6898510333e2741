------------------------- MODULE MeterSupervisor -------------------------
(***************************************************************************)
(* The supervisor of the shared audio capture, internal/server/meter.go:   *)
(* runMeter, the capture goroutines it starts, publishMeter, and what the  *)
(* hub does to the demand for a meter.                                     *)
(*                                                                         *)
(* The hub is reduced to the facts meterWanted reads (connected, the       *)
(* registered clients, wantsMeter).  Whether a submit is refused depends   *)
(* on a queue that is not modelled here, so either outcome is possible.    *)
(* Every hub goroutine changes the demand first and calls wakeMeter later; *)
(* between the two it owes the supervisor a wake-up.                       *)
(*                                                                         *)
(* As in ServerHub, a "Variant" is a plausible bug in the definition after *)
(* it, outside every specification.                                        *)
(***************************************************************************)
EXTENDS Naturals

CONSTANTS
    Clients,    \* the connections that may exist at the same time
    Runs,       \* the capture goroutines that may exist at the same time
    NoRun       \* nil, for the supervisor's cancel and finished

ASSUME NoRunAssumption == NoRun \notin Runs

VARIABLES
    connected,  \* s.connected
    clients,    \* s.clients
    wants,      \* the clients whose wantsMeter is set
    wake,       \* s.meterWake holds its token
    workerOwes, \* the worker has changed the demand, wakeMeter is to come
    readerOwes, \* so have the HandleWS goroutines of these clients
    writerOwes, \* so have the writer goroutines of these clients
    sup,        \* where runMeter is
    wanted,     \* its local variable wanted
    current,    \* the capture its cancel and finished belong to
    retry,      \* its retry timer is set
    run,        \* where each capture goroutine is
    cancelled,  \* the captures whose context is cancelled
    stopped     \* the stop channel is closed

hubVars == <<connected, clients, wants, workerOwes, readerOwes, writerOwes,
             stopped>>
supVars == <<sup, wanted, current, retry, cancelled>>
vars == <<hubVars, supVars, wake, run>>

Init ==
    /\ connected = FALSE
    /\ clients = {}
    /\ wants = {}
    /\ wake = FALSE
    /\ workerOwes = FALSE
    /\ readerOwes = {}
    /\ writerOwes = {}
    /\ sup = "check"
    /\ wanted = FALSE
    /\ current = NoRun
    /\ retry = FALSE
    /\ run = [r \in Runs |-> "idle"]
    /\ cancelled = {}
    /\ stopped = FALSE

(* What meterWanted computes.                                              *)
Demand == connected /\ clients \cap wants # {}

(* s.mu is not held: publishMeter is the one to keep it over two steps.    *)
MuFree == \A r \in Runs : run[r] # "publishing"

---------------------------------------------------------------------------
(* The hub's side.                                                         *)

(* refresh writes the cache; broadcast and wakeMeter follow.               *)
Refresh(b) ==
    /\ ~workerOwes
    /\ connected' = b
    /\ workerOwes' = TRUE
    /\ UNCHANGED <<clients, wants, readerOwes, writerOwes, stopped, supVars,
                   wake, run>>

(* broadcast drops a peer whose queue is full.                             *)
BroadcastDrop(c) ==
    /\ MuFree
    /\ c \in clients
    /\ clients' = clients \ {c}
    /\ workerOwes' = TRUE
    /\ UNCHANGED <<connected, wants, readerOwes, writerOwes, stopped, supVars,
                   wake, run>>

Register(c) ==
    /\ MuFree
    /\ c \notin clients \cup readerOwes \cup writerOwes
    /\ clients' = clients \cup {c}
    /\ wants' = wants \ {c}
    /\ UNCHANGED <<connected, workerOwes, readerOwes, writerOwes, stopped,
                   supVars, wake, run>>

(* Variant: only a client that enables its meter wakes the supervisor.     *)
SetMeterSubscriptionWakesOnEnable(c, enabled) ==
    /\ MuFree
    /\ c \in clients \ readerOwes
    /\ wants' = IF enabled THEN wants \cup {c} ELSE wants \ {c}
    /\ readerOwes' = IF enabled THEN readerOwes \cup {c} ELSE readerOwes
    /\ UNCHANGED <<connected, clients, workerOwes, writerOwes, stopped,
                   supVars, wake, run>>

(* setMeterSubscription under s.mu; a refused notice drops the client.     *)
SetMeterSubscription(c, enabled) ==
    /\ MuFree
    /\ c \notin readerOwes
    /\ \/ /\ c \in clients
          /\ wants' = IF enabled THEN wants \cup {c} ELSE wants \ {c}
          /\ clients' \in {clients, clients \ {c}}
       \/ /\ c \notin clients
          /\ UNCHANGED <<wants, clients>>
    /\ readerOwes' = readerOwes \cup {c}
    /\ UNCHANGED <<connected, workerOwes, writerOwes, stopped, supVars, wake,
                   run>>

(* unregister under s.mu, by either goroutine of the client.               *)
ReaderUnregister(c) ==
    /\ MuFree
    /\ c \notin readerOwes
    /\ clients' = clients \ {c}
    /\ readerOwes' = readerOwes \cup {c}
    /\ UNCHANGED <<connected, wants, workerOwes, writerOwes, stopped, supVars,
                   wake, run>>

WriterUnregister(c) ==
    /\ MuFree
    /\ c \notin writerOwes
    /\ clients' = clients \ {c}
    /\ writerOwes' = writerOwes \cup {c}
    /\ UNCHANGED <<connected, wants, workerOwes, readerOwes, stopped, supVars,
                   wake, run>>

(* wakeMeter: a send that gives up when the token is already there.        *)
WorkerWake ==
    /\ workerOwes
    /\ workerOwes' = FALSE
    /\ wake' = TRUE
    /\ UNCHANGED <<connected, clients, wants, readerOwes, writerOwes, stopped,
                   supVars, run>>

ReaderWake(c) ==
    /\ c \in readerOwes
    /\ readerOwes' = readerOwes \ {c}
    /\ wake' = TRUE
    /\ UNCHANGED <<connected, clients, wants, workerOwes, writerOwes, stopped,
                   supVars, run>>

WriterWake(c) ==
    /\ c \in writerOwes
    /\ writerOwes' = writerOwes \ {c}
    /\ wake' = TRUE
    /\ UNCHANGED <<connected, clients, wants, workerOwes, readerOwes, stopped,
                   supVars, run>>

Stop ==
    /\ ~stopped
    /\ stopped' = TRUE
    /\ UNCHANGED <<connected, clients, wants, workerOwes, readerOwes,
                   writerOwes, supVars, wake, run>>

---------------------------------------------------------------------------
(* The capture goroutines.                                                 *)

(* publishMeter with the context not cancelled: the check and the submits  *)
(* are both under s.mu, but cancel() may come between them.                *)
PublishCheck(r) ==
    /\ MuFree
    /\ run[r] = "running"
    /\ r \notin cancelled
    /\ run' = [run EXCEPT ![r] = "publishing"]
    /\ UNCHANGED <<hubVars, supVars, wake>>

(* Variant: a dropped subscriber does not wake the supervisor.             *)
DropSubscribersSilently(lost) ==
    clients' = clients \ lost /\ UNCHANGED wake

(* The submits of publishMeter: refused ones drop their client and wake    *)
(* the supervisor under the lock.                                          *)
DropSubscribers(lost) ==
    /\ clients' = clients \ lost
    /\ wake' = (wake \/ lost # {})

PublishSubmit(r) ==
    /\ run[r] = "publishing"
    /\ run' = [run EXCEPT ![r] = "running"]
    /\ \E lost \in SUBSET (clients \cap wants) : DropSubscribers(lost)
    /\ UNCHANGED <<connected, wants, workerOwes, readerOwes, writerOwes,
                   stopped, supVars>>

(* meterRun returns: when its context is cancelled, or early.  The code    *)
(* is ready for both; meter.Run itself returns only when cancelled.        *)
CaptureEnds(r) ==
    /\ run[r] = "running"
    /\ run' = [run EXCEPT ![r] = "finished"]
    /\ UNCHANGED <<hubVars, supVars, wake>>

---------------------------------------------------------------------------
(* runMeter.                                                               *)

Check ==
    /\ sup = "check"
    /\ MuFree
    /\ wanted' = Demand
    /\ sup' = "act"
    /\ UNCHANGED <<hubVars, current, retry, cancelled, wake, run>>

(* Variant: stopCapture cancels without waiting for finished.              *)
StopCaptureWithoutJoin ==
    /\ sup = "act"
    /\ ~wanted
    /\ sup' = "select"
    /\ cancelled' = cancelled \cup ({current} \ {NoRun})
    /\ current' = NoRun
    /\ UNCHANGED <<hubVars, wanted, retry, wake, run>>

(* stopCapture up to its wait for finished.                                *)
StopCapture ==
    /\ sup = "act"
    /\ ~wanted
    /\ IF current = NoRun
       THEN sup' = "select" /\ UNCHANGED cancelled
       ELSE sup' = "join" /\ cancelled' = cancelled \cup {current}
    /\ UNCHANGED <<hubVars, wanted, current, retry, wake, run>>

Joined ==
    /\ current # NoRun
    /\ run[current] = "finished"
    /\ run' = [run EXCEPT ![current] = "idle"]
    /\ current' = NoRun

Join ==
    /\ sup = "join"
    /\ Joined
    /\ sup' = "select"
    /\ UNCHANGED <<hubVars, wanted, retry, cancelled, wake>>

StartCapture ==
    /\ sup = "act"
    /\ wanted /\ current = NoRun /\ ~retry
    /\ \E r \in Runs :
          /\ run[r] = "idle"
          /\ run' = [run EXCEPT ![r] = "running"]
          /\ cancelled' = cancelled \ {r}
          /\ current' = r
    /\ sup' = "select"
    /\ UNCHANGED <<hubVars, wanted, retry, wake>>

KeepCapture ==
    /\ sup = "act"
    /\ wanted /\ (current # NoRun \/ retry)
    /\ sup' = "select"
    /\ UNCHANGED <<hubVars, wanted, current, retry, cancelled, wake, run>>

SelectWake ==
    /\ sup = "select"
    /\ wake
    /\ wake' = FALSE
    /\ sup' = "check"
    /\ UNCHANGED <<hubVars, wanted, current, retry, cancelled, run>>

SelectRetry ==
    /\ sup = "select"
    /\ retry
    /\ retry' = FALSE
    /\ sup' = "check"
    /\ UNCHANGED <<hubVars, wanted, current, cancelled, wake, run>>

(* Variant: no retry timer after a capture that ended by itself, and back  *)
(* to the select without looking at the demand.                            *)
SelectFinishedNoRetry ==
    /\ sup = "select"
    /\ Joined
    /\ UNCHANGED <<hubVars, sup, wanted, retry, cancelled, wake>>

(* The capture ended by itself: publish the notice, arm the timer.         *)
SelectFinished ==
    /\ sup = "select"
    /\ MuFree
    /\ Joined
    /\ \E lost \in SUBSET (clients \cap wants) : DropSubscribers(lost)
    /\ retry' = TRUE
    /\ sup' = "check"
    /\ UNCHANGED <<connected, wants, workerOwes, readerOwes, writerOwes,
                   stopped, wanted, cancelled>>

(* Variant: the deferred stopCapture waits without cancelling.             *)
SelectStopWithoutCancel ==
    /\ sup = "select"
    /\ stopped
    /\ sup' = IF current = NoRun THEN "done" ELSE "exit"
    /\ UNCHANGED <<hubVars, wanted, current, retry, cancelled, wake, run>>

(* return, and the deferred stopCapture.                                   *)
SelectStop ==
    /\ sup = "select"
    /\ stopped
    /\ IF current = NoRun
       THEN sup' = "done" /\ UNCHANGED cancelled
       ELSE sup' = "exit" /\ cancelled' = cancelled \cup {current}
    /\ UNCHANGED <<hubVars, wanted, current, retry, wake, run>>

Exit ==
    /\ sup = "exit"
    /\ Joined
    /\ sup' = "done"
    /\ UNCHANGED <<hubVars, wanted, retry, cancelled, wake>>

---------------------------------------------------------------------------
Hub ==
    \/ \E b \in BOOLEAN : Refresh(b)
    \/ WorkerWake
    \/ Stop
    \/ \E c \in Clients :
          \/ BroadcastDrop(c) \/ Register(c)
          \/ \E enabled \in BOOLEAN : SetMeterSubscription(c, enabled)
          \/ ReaderUnregister(c) \/ WriterUnregister(c)
          \/ ReaderWake(c) \/ WriterWake(c)

Capture(r) == PublishCheck(r) \/ PublishSubmit(r) \/ CaptureEnds(r)

Supervisor ==
    \/ Check \/ StopCapture \/ Join \/ StartCapture \/ KeepCapture
    \/ SelectWake \/ SelectRetry \/ SelectFinished \/ SelectStop \/ Exit

Next == Hub \/ Supervisor \/ \E r \in Runs : Capture(r)

Spec == Init /\ [][Next]_vars

(* Goroutines that can go on do so, every arm of a select that is ready    *)
(* again and again is taken in the end, as is a mutex; a timer fires; a    *)
(* cancelled capture returns.  The hub need not do anything but its wakes. *)
Fairness ==
    /\ WF_vars(StopCapture \/ StartCapture \/ KeepCapture \/ Join \/ Exit)
    /\ SF_vars(Check)
    /\ SF_vars(SelectWake)
    /\ SF_vars(SelectRetry)
    /\ SF_vars(SelectFinished)
    /\ SF_vars(SelectStop)
    /\ WF_vars(WorkerWake)
    /\ \A c \in Clients : WF_vars(ReaderWake(c)) /\ WF_vars(WriterWake(c))
    /\ \A r \in Runs : /\ WF_vars(PublishSubmit(r))
                       /\ WF_vars(CaptureEnds(r) /\ r \in cancelled)

FairSpec == Spec /\ Fairness

---------------------------------------------------------------------------
(* The types of the supervisor's and the hub's state.                      *)
TypeOK ==
    /\ connected \in BOOLEAN
    /\ clients \subseteq Clients
    /\ wants \subseteq Clients
    /\ wake \in BOOLEAN
    /\ workerOwes \in BOOLEAN
    /\ readerOwes \subseteq Clients
    /\ writerOwes \subseteq Clients
    /\ sup \in {"check", "act", "join", "select", "exit", "done"}
    /\ wanted \in BOOLEAN
    /\ current \in Runs \cup {NoRun}
    /\ retry \in BOOLEAN
    /\ run \in [Runs -> {"idle", "running", "publishing", "finished"}]
    /\ cancelled \subseteq Runs
    /\ stopped \in BOOLEAN

(* Somebody is still to wake the supervisor, or has done so.               *)
WakePending ==
    wake \/ workerOwes \/ readerOwes # {} \/ writerOwes # {}

(* No wake-up is lost: a supervisor that sleeps in its select with nobody  *)
(* about to wake it has acted on the demand as it is now.  A capture runs, *)
(* uncancelled, or the retry timer will start one, exactly if a registered *)
(* client wants the meter of a connected microphone.                       *)
DemandMet ==
    sup = "select" /\ ~WakePending =>
        /\ Demand /\ ~retry => current # NoRun /\ current \notin cancelled
        /\ ~Demand => current = NoRun

(* The audio stream is shared: there is never a second capture goroutine,  *)
(* not even one that is winding down while its successor starts, and none  *)
(* is left when runMeter has returned.                                     *)
SingleCapture ==
    /\ \A r \in Runs : run[r] # "idle" => r = current
    /\ sup = "done" => current = NoRun

(* A lasting demand is served: a capture is started again and again, also  *)
(* after captures that end by themselves.                                  *)
MeterComesUp ==
    <>[](Demand /\ ~stopped) => []<>(current # NoRun)

(* Without demand the audio stream is released for good; no lock is held   *)
(* while runMeter waits for the capture, whose last publication needs it.  *)
MeterGoesDown ==
    <>[]~Demand => <>[](\A r \in Runs : run[r] = "idle")

(* Closing stop ends runMeter, which Server.Run waits for.                 *)
SupervisorStops == stopped ~> (sup = "done")

(* What is assumed here of the hub is what ServerHub keeps: no change of   *)
(* the demand without a wake-up that has come or is owed; and nobody but   *)
(* the select of runMeter takes it (wakeMeter and its callers).            *)
Announced == INSTANCE MeterDemand WITH
                 demand <- Demand,
                 owed <- workerOwes \/ readerOwes # {} \/ writerOwes # {},
                 wake <- wake
AnnouncesDemand == Announced!Spec
===========================================================================
