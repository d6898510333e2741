---------------------- MODULE MeterSupervisor_proofs ----------------------
(***************************************************************************)
(* Proofs about MeterSupervisor for any number of clients and captures:    *)
(* its types, that there is never a second capture, that no wake-up is     *)
(* lost, and that its hub behaves as MeterDemand says.                     *)
(***************************************************************************)
EXTENDS MeterSupervisor, TLAPS

(* The capture the supervisor holds is the only one, it is alive, and it   *)
(* is cancelled exactly while the supervisor waits for it to end.          *)
CaptureInv ==
    /\ \A r \in Runs : run[r] # "idle" => r = current
    /\ current # NoRun => run[current] # "idle"
    /\ sup \in {"join", "exit"} => current # NoRun /\ current \in cancelled
    /\ sup \in {"check", "act", "select"} => current \notin cancelled
    /\ sup = "done" => current = NoRun

(* Unless a wake-up is pending, the supervisor's knowledge of the demand   *)
(* is the truth at every point after its look at it.                       *)
DemandInv ==
    ~WakePending =>
        /\ sup = "act" => wanted = Demand
        /\ sup = "join" => ~Demand
        /\ sup = "select" => /\ Demand /\ ~retry => current # NoRun
                             /\ ~Demand => current = NoRun

Inv == TypeOK /\ CaptureInv /\ DemandInv

(***************************************************************************)
(* Every variable keeps the type TypeOK gives it.                          *)
(***************************************************************************)
THEOREM TypeCorrect == Spec => []TypeOK
<1>1. Init => TypeOK
  BY NoRunAssumption DEF Init, TypeOK
<1>2. TypeOK /\ [Next]_vars => TypeOK'
  <2> SUFFICES ASSUME TypeOK, [Next]_vars PROVE TypeOK'
    OBVIOUS
  <2> USE NoRunAssumption DEF TypeOK, hubVars, supVars
  <2>1. ASSUME NEW b \in BOOLEAN, Refresh(b) PROVE TypeOK'
    BY <2>1 DEF Refresh
  <2>2. CASE WorkerWake
    BY <2>2 DEF WorkerWake
  <2>3. CASE Stop
    BY <2>3 DEF Stop
  <2>4. ASSUME NEW c \in Clients, BroadcastDrop(c) \/ Register(c)
        PROVE TypeOK'
    BY <2>4 DEF BroadcastDrop, Register
  <2>5. ASSUME NEW c \in Clients, NEW enabled \in BOOLEAN,
               SetMeterSubscription(c, enabled)
        PROVE TypeOK'
    BY <2>5 DEF SetMeterSubscription
  <2>6. ASSUME NEW c \in Clients, ReaderUnregister(c) \/ WriterUnregister(c)
        PROVE TypeOK'
    BY <2>6 DEF ReaderUnregister, WriterUnregister
  <2>7. ASSUME NEW c \in Clients, ReaderWake(c) \/ WriterWake(c)
        PROVE TypeOK'
    BY <2>7 DEF ReaderWake, WriterWake
  <2>8. CASE Check
    BY <2>8 DEF Check, Demand
  <2>9. CASE StopCapture
    BY <2>9 DEF StopCapture
  <2>10. CASE Join
    BY <2>10 DEF Join, Joined
  <2>11. CASE StartCapture
    BY <2>11 DEF StartCapture
  <2>12. CASE KeepCapture
    BY <2>12 DEF KeepCapture
  <2>13. CASE SelectWake \/ SelectRetry
    BY <2>13 DEF SelectWake, SelectRetry
  <2>14. CASE SelectFinished
    BY <2>14 DEF SelectFinished, Joined, DropSubscribers
  <2>15. CASE SelectStop
    BY <2>15 DEF SelectStop
  <2>16. CASE Exit
    BY <2>16 DEF Exit, Joined
  <2>17. ASSUME NEW r \in Runs, PublishCheck(r) \/ CaptureEnds(r)
         PROVE TypeOK'
    BY <2>17 DEF PublishCheck, CaptureEnds
  <2>18. ASSUME NEW r \in Runs, PublishSubmit(r) PROVE TypeOK'
    BY <2>18 DEF PublishSubmit, DropSubscribers
  <2>19. CASE UNCHANGED vars
    BY <2>19 DEF vars
  <2> QED
    BY <2>1, <2>2, <2>3, <2>4, <2>5, <2>6, <2>7, <2>8, <2>9, <2>10, <2>11,
       <2>12, <2>13, <2>14, <2>15, <2>16, <2>17, <2>18, <2>19
       DEF Next, Hub, Supervisor, Capture
<1> QED
  BY <1>1, <1>2, PTL DEF Spec

(* What a step of the supervisor or of a capture does to CaptureInv.       *)
LEMMA CaptureStep ==
  ASSUME TypeOK, TypeOK', CaptureInv, [Next]_vars
  PROVE  CaptureInv'
<1> USE NoRunAssumption DEF TypeOK, CaptureInv, hubVars, supVars
<1>1. CASE Hub
  <2>1. UNCHANGED <<sup, current, cancelled, run>>
    BY <1>1 DEF Hub, Refresh, WorkerWake, Stop, BroadcastDrop, Register,
       SetMeterSubscription, ReaderUnregister, WriterUnregister, ReaderWake,
       WriterWake
  <2> QED
    BY <2>1
<1>2. CASE Check
  BY <1>2 DEF Check
<1>3. CASE StopCapture
  BY <1>3 DEF StopCapture
<1>4. CASE Join
  BY <1>4 DEF Join, Joined
<1>5. CASE StartCapture
  BY <1>5 DEF StartCapture
<1>6. CASE KeepCapture
  BY <1>6 DEF KeepCapture
<1>7. CASE SelectWake \/ SelectRetry
  BY <1>7 DEF SelectWake, SelectRetry
<1>8. CASE SelectFinished
  BY <1>8 DEF SelectFinished, Joined
<1>9. CASE SelectStop
  BY <1>9 DEF SelectStop
<1>10. CASE Exit
  BY <1>10 DEF Exit, Joined
<1>11. ASSUME NEW r \in Runs, Capture(r) PROVE CaptureInv'
  BY <1>11 DEF Capture, PublishCheck, PublishSubmit, CaptureEnds
<1>12. CASE UNCHANGED vars
  BY <1>12 DEF vars
<1> QED
  BY <1>1, <1>2, <1>3, <1>4, <1>5, <1>6, <1>7, <1>8, <1>9, <1>10, <1>11, <1>12
     DEF Next, Supervisor

(* Every step that changes the demand leaves a wake-up pending, and the    *)
(* supervisor consumes one only to look at the demand again.               *)
LEMMA DemandStep ==
  ASSUME TypeOK, TypeOK', CaptureInv, DemandInv, [Next]_vars
  PROVE  DemandInv'
<1> USE NoRunAssumption
    DEF TypeOK, CaptureInv, DemandInv, WakePending, Demand, hubVars, supVars
<1>1. ASSUME NEW b \in BOOLEAN, Refresh(b)
      PROVE DemandInv'
  BY <1>1 DEF Refresh
<1>2. CASE WorkerWake
  BY <1>2 DEF WorkerWake
<1>3. CASE Stop
  BY <1>3 DEF Stop
<1>4. ASSUME NEW c \in Clients, BroadcastDrop(c)
      PROVE DemandInv'
  BY <1>4 DEF BroadcastDrop
<1>5. ASSUME NEW c \in Clients, Register(c)
      PROVE DemandInv'
  BY <1>5 DEF Register
<1>6. ASSUME NEW c \in Clients, NEW enabled \in BOOLEAN, SetMeterSubscription(c, enabled)
      PROVE DemandInv'
  BY <1>6 DEF SetMeterSubscription
<1>7. ASSUME NEW c \in Clients, ReaderUnregister(c) \/ WriterUnregister(c)
      PROVE DemandInv'
  BY <1>7 DEF ReaderUnregister, WriterUnregister
<1>8. ASSUME NEW c \in Clients, ReaderWake(c) \/ WriterWake(c)
      PROVE DemandInv'
  BY <1>8 DEF ReaderWake, WriterWake
<1>9. CASE Check
  BY <1>9 DEF Check
<1>10. CASE StopCapture
  BY <1>10 DEF StopCapture
<1>11. CASE Join
  BY <1>11 DEF Join, Joined
<1>12. CASE StartCapture
  <2>1. ~WakePending => Demand
    BY <1>12 DEF StartCapture
  <2>2. UNCHANGED <<hubVars, wake, retry>> /\ sup' = "select"
    BY <1>12 DEF StartCapture
  <2>3. current' # NoRun
    BY <1>12 DEF StartCapture
  <2> QED
    BY <2>1, <2>2, <2>3
<1>13. CASE KeepCapture
  BY <1>13 DEF KeepCapture
<1>14. CASE SelectWake \/ SelectRetry
  BY <1>14 DEF SelectWake, SelectRetry
<1>15. CASE SelectFinished
  BY <1>15 DEF SelectFinished, Joined, DropSubscribers
<1>16. CASE SelectStop
  BY <1>16 DEF SelectStop
<1>17. CASE Exit
  BY <1>17 DEF Exit, Joined
<1>18. ASSUME NEW r \in Runs, PublishCheck(r)
      PROVE DemandInv'
  BY <1>18 DEF PublishCheck
<1>19. ASSUME NEW r \in Runs, CaptureEnds(r)
      PROVE DemandInv'
  BY <1>19 DEF CaptureEnds
<1>20. ASSUME NEW r \in Runs, PublishSubmit(r)
      PROVE DemandInv'
  BY <1>20 DEF PublishSubmit, DropSubscribers
<1>21. CASE UNCHANGED vars
  BY <1>21 DEF vars
<1> QED
  BY <1>1, <1>2, <1>3, <1>4, <1>5, <1>6, <1>7, <1>8, <1>9, <1>10,
     <1>11, <1>12, <1>13, <1>14, <1>15, <1>16, <1>17, <1>18, <1>19,
     <1>20, <1>21
     DEF Next, Hub, Supervisor, Capture

(***************************************************************************)
(* Both strengthenings are invariants of the supervisor.                   *)
(***************************************************************************)
THEOREM Invariance == Spec => []Inv
<1>1. Init => Inv
  BY NoRunAssumption
     DEF Init, Inv, TypeOK, CaptureInv, DemandInv
<1>2. CaptureInv /\ DemandInv /\ TypeOK /\ TypeOK' /\ [Next]_vars
        => CaptureInv' /\ DemandInv'
  BY CaptureStep, DemandStep
<1>3. Spec => []TypeOK
  BY TypeCorrect
<1> QED
  BY <1>1, <1>2, <1>3, PTL DEF Spec, Inv

(***************************************************************************)
(* The audio stream has one capture goroutine at most, whatever the        *)
(* subscribers do, and none after runMeter has returned.                   *)
(***************************************************************************)
THEOREM OneCapture == Spec => []SingleCapture
<1>1. Inv => SingleCapture
  BY DEF Inv, CaptureInv, SingleCapture
<1> QED
  BY <1>1, Invariance, PTL

(***************************************************************************)
(* No wake-up is lost: a sleeping supervisor whom nobody is about to wake  *)
(* has a capture exactly when the demand or the retry timer asks for it.   *)
(***************************************************************************)
THEOREM NoLostWakeup == Spec => []DemandMet
<1>1. Inv => DemandMet
  BY DEF Inv, CaptureInv, DemandInv, DemandMet
<1> QED
  BY <1>1, Invariance, PTL
(* While runMeter waits for finished, the capture it waits for is a        *)
(* cancelled one that has not been waited for yet, and whatever it is at,  *)
(* its next step waits for nobody: the capture returns, or it holds s.mu   *)
(* and publishes, or finished is closed (stopCapture, publishMeter).       *)
JoinIsAnswered ==
    sup \in {"join", "exit"} =>
        /\ current \in cancelled
        /\ run[current] \in {"running", "publishing", "finished"}
        /\ \A r \in Runs : run[r] = "publishing" => r = current

(***************************************************************************)
(* The join of a capture cannot deadlock: neither side waits for the other *)
(* with s.mu or for a capture that was not cancelled.                      *)
(***************************************************************************)
THEOREM JoinsAreAnswered == Spec => []JoinIsAnswered
<1>1. Inv => JoinIsAnswered
  <2> SUFFICES ASSUME Inv, sup \in {"join", "exit"}
               PROVE  /\ current \in cancelled
                      /\ run[current] \in {"running", "publishing", "finished"}
                      /\ \A r \in Runs : run[r] = "publishing" => r = current
    BY DEF JoinIsAnswered
  <2>1. current \in Runs /\ current \in cancelled /\ run[current] # "idle"
    BY DEF Inv, CaptureInv, TypeOK
  <2>2. run[current] \in {"running", "publishing", "finished"}
    BY <2>1 DEF Inv, TypeOK
  <2>3. \A r \in Runs : run[r] = "publishing" => r = current
    BY DEF Inv, CaptureInv
  <2> QED
    BY <2>1, <2>2, <2>3
<1> QED
  BY <1>1, Invariance, PTL

---------------------------------------------------------------------------
(* What is assumed of the hub.                                             *)

(* Somebody of the hub is still to call wakeMeter.                         *)
HubOwes == workerOwes \/ readerOwes # {} \/ writerOwes # {}

(* The ways a step can be one of MeterDemand.                              *)
LEMMA DemandSteps ==
  /\ HubOwes' /\ UNCHANGED wake => Announced!Change
  /\ wake' = TRUE /\ UNCHANGED <<workerOwes, readerOwes, writerOwes>>
       => Announced!Change
  /\ HubOwes /\ wake' = TRUE /\ (Demand' <=> Demand) => Announced!Wake
  /\ wake /\ wake' = FALSE /\ (Demand' <=> Demand)
       /\ UNCHANGED <<workerOwes, readerOwes, writerOwes>> => Announced!Take
  /\ UNCHANGED <<wake, workerOwes, readerOwes, writerOwes>> /\ (Demand' <=> Demand)
       => UNCHANGED Announced!vars
<1>1. UNCHANGED <<workerOwes, readerOwes, writerOwes>> => (HubOwes' <=> HubOwes)
  BY DEF HubOwes
<1>2. Demand \in BOOLEAN /\ HubOwes \in BOOLEAN /\ Demand' \in BOOLEAN /\ HubOwes' \in BOOLEAN
  BY DEF Demand, HubOwes
<1> QED
  BY <1>1, <1>2
     DEF Announced!Next, Announced!Change, Announced!Wake, Announced!Take, Announced!vars, HubOwes

(* What the demand depends on.                                             *)
LEMMA DemandDepends ==
  UNCHANGED <<connected, clients, wants>> => (Demand' <=> Demand)
BY DEF Demand

(* Captures and the supervisor drop a subscriber and wake in one step.     *)
LEMMA DropsAnnounce ==
  ASSUME TypeOK, NEW lost \in SUBSET (clients \cap wants), DropSubscribers(lost),
         UNCHANGED <<connected, wants, workerOwes, readerOwes, writerOwes>>
  PROVE  [Announced!Next]_(Announced!vars)
<1>1. CASE lost = {}
  <2>1. UNCHANGED clients
    BY <1>1 DEF DropSubscribers
  <2>2. UNCHANGED wake
    BY <1>1 DEF DropSubscribers, TypeOK
  <2> QED
    BY <2>1, <2>2, DemandSteps, DemandDepends
<1>2. CASE lost # {}
  <2>1. wake' = TRUE
    BY <1>2 DEF DropSubscribers
  <2> QED
    BY <2>1, DemandSteps DEF Announced!Next
<1> QED
  BY <1>1, <1>2

(* The hub's goroutines.                                                   *)
LEMMA HubAnnounces ==
  ASSUME TypeOK, Hub
  PROVE  [Announced!Next]_(Announced!vars)
<1> USE DEF Announced!Next
<1>1. ASSUME \/ \E b \in BOOLEAN : Refresh(b)
             \/ \E c \in Clients :
                   \/ BroadcastDrop(c)
                   \/ \E enabled \in BOOLEAN : SetMeterSubscription(c, enabled)
                   \/ ReaderUnregister(c) \/ WriterUnregister(c)
      PROVE  Announced!Change
  <2>1. HubOwes' /\ UNCHANGED wake
    BY <1>1 DEF Refresh, BroadcastDrop, SetMeterSubscription, ReaderUnregister,
                WriterUnregister, HubOwes, supVars
  <2> QED
    BY <2>1, DemandSteps
<1>2. ASSUME NEW c \in Clients, ReaderWake(c) \/ WriterWake(c)
      PROVE  Announced!Wake
  <2>1. HubOwes /\ wake' = TRUE /\ UNCHANGED <<connected, clients, wants>>
    BY <1>2 DEF ReaderWake, WriterWake, HubOwes
  <2> QED
    BY <2>1, DemandSteps, DemandDepends
<1>3. CASE WorkerWake
  <2>1. HubOwes /\ wake' = TRUE /\ UNCHANGED <<connected, clients, wants>>
    BY <1>3 DEF WorkerWake, HubOwes
  <2> QED
    BY <2>1, DemandSteps, DemandDepends
<1>4. ASSUME NEW c \in Clients, Register(c)
      PROVE  UNCHANGED Announced!vars
  <2>1. clients' \cap wants' = clients \cap wants
    BY <1>4 DEF Register
  <2>2. /\ Demand' <=> Demand
        /\ UNCHANGED <<wake, workerOwes, readerOwes, writerOwes>>
    BY <1>4, <2>1 DEF Register, Demand
  <2> QED
    BY <2>2, DemandSteps
<1>5. CASE Stop
  BY <1>5, DemandSteps, DemandDepends DEF Stop
<1> QED
  BY <1>1, <1>2, <1>3, <1>4, <1>5 DEF Hub

(* runMeter and its captures.                                              *)
LEMMA SupervisorTakes ==
  ASSUME TypeOK, Supervisor \/ \E r \in Runs : Capture(r)
  PROVE  [Announced!Next]_(Announced!vars)
<1>1. CASE \/ Check \/ StopCapture \/ Join \/ StartCapture \/ KeepCapture
           \/ SelectRetry \/ SelectStop \/ Exit
           \/ \E r \in Runs : PublishCheck(r) \/ CaptureEnds(r)
  <2>1. UNCHANGED <<connected, clients, wants, wake, workerOwes, readerOwes, writerOwes>>
    BY <1>1 DEF Check, StopCapture, Join, StartCapture, KeepCapture, SelectRetry,
                SelectStop, Exit, PublishCheck, CaptureEnds, hubVars
  <2> QED
    BY <2>1, DemandSteps, DemandDepends
<1>2. CASE SelectWake
  <2>1. /\ wake /\ wake' = FALSE
        /\ UNCHANGED <<connected, clients, wants, workerOwes, readerOwes, writerOwes>>
    BY <1>2 DEF SelectWake, hubVars
  <2> QED
    BY <2>1, DemandSteps, DemandDepends DEF Announced!Next
<1>3. CASE SelectFinished \/ \E r \in Runs : PublishSubmit(r)
  <2>1. PICK lost \in SUBSET (clients \cap wants) : DropSubscribers(lost)
    BY <1>3 DEF SelectFinished, PublishSubmit
  <2>2. UNCHANGED <<connected, wants, workerOwes, readerOwes, writerOwes>>
    BY <1>3 DEF SelectFinished, PublishSubmit
  <2> QED
    BY <2>1, <2>2, DropsAnnounce
<1> QED
  BY <1>1, <1>2, <1>3 DEF Supervisor, Capture

(***************************************************************************)
(* The reduced hub keeps the rule the whole hub is proved to keep (theorem *)
(* HubAnnouncesDemand of ServerHub_proofs): no change of the demand        *)
(* without a wake-up, and a token that only runMeter takes.                *)
(***************************************************************************)
THEOREM ChangesAreAnnounced == Spec => AnnouncesDemand
<1>1. Init => Announced!Init
  BY DEF Init, Demand, Announced!Init
<1>2. TypeOK /\ [Next]_vars => [Announced!Next]_(Announced!vars)
  <2>1. ASSUME UNCHANGED vars PROVE UNCHANGED Announced!vars
    BY <2>1, DemandSteps, DemandDepends DEF vars, hubVars
  <2> QED
    BY <2>1, HubAnnounces, SupervisorTakes DEF Next
<1> QED
  BY <1>1, <1>2, TypeCorrect, PTL DEF Spec, AnnouncesDemand, Announced!Spec
===========================================================================
