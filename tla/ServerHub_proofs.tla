-------------------------- MODULE ServerHub_proofs --------------------------
(***************************************************************************)
(* Proofs about ServerHub for any set of clients, any states and any queue *)
(* lengths: its types, that a registered client is served, that the frames *)
(* queued for it tell it what the cache holds, that nothing but errors     *)
(* comes between a status and its state, that the hub is a StateFeed, and  *)
(* that it changes the demand for a meter as MeterDemand says.             *)
(***************************************************************************)
EXTENDS ServerHub, TLAPS

(* Empty and one-element sequences.                                        *)
LEMMA Sequences01 ==
  ASSUME NEW S
  PROVE  /\ <<>> \in Seq(S)
         /\ \A a \in S : /\ <<a>> \in Seq(S)
                        /\ Len(<<a>>) = 1 /\ <<a>>[1] = a
                        /\ <<a>> # <<>>
                        /\ Head(<<a>>) = a /\ Tail(<<a>>) = <<>>
OBVIOUS

(* Sequences of two.                                                       *)
LEMMA Sequences2 ==
  ASSUME NEW S, NEW a \in S, NEW b \in S
  PROVE  /\ <<a, b>> \in Seq(S)
         /\ Len(<<a, b>>) = 2 /\ <<a, b>>[1] = a /\ <<a, b>>[2] = b
         /\ <<a, b>> # <<>>
         /\ Head(<<a, b>>) = a /\ Tail(<<a, b>>) = <<b>>
OBVIOUS

(* s.have and s.connected are set and cleared together.                    *)
CacheInv ==
    /\ cache.have = cache.connected
    /\ cache.connected => cache.state \in States

TypeInv == TypeOK /\ CacheInv

(* The four kinds of frames are frames, and differ in their type.          *)
LEMMA FrameTypes ==
  /\ \A b \in BOOLEAN : /\ StatusFrame(b) \in Frames
                        /\ StatusFrame(b).type = "status"
                        /\ StatusFrame(b).connected = b
  /\ \A s \in States : /\ StateFrame(s) \in Frames
                       /\ StateFrame(s).type = "state"
                       /\ StateFrame(s).state = s
  /\ ErrorFrame \in Frames /\ ErrorFrame.type = "error"
  /\ MeterFrame \in Frames /\ MeterFrame.type = "meter"
BY DEF Frames, StatusFrames, StateFrames, StatusFrame, StateFrame, ErrorFrame,
       MeterFrame

(* What each kind of frame teaches a client.                               *)
LEMMA HearFrames ==
  ASSUME NEW view \in Views
  PROVE  /\ \A b \in BOOLEAN : Hear(view, StatusFrame(b)) =
              [connected |-> b, state |-> IF b THEN view.state ELSE NoState]
         /\ \A s \in States :
              Hear(view, StateFrame(s)) =
                [connected |-> view.connected, state |-> s]
         /\ Hear(view, ErrorFrame) = view
BY FrameTypes DEF Hear

(* A status frame keeps the state of a view or erases it.                  *)
LEMMA HearStatus ==
  ASSUME NEW view \in Views
  PROVE  /\ Hear(view, StatusFrame(TRUE)) =
              [connected |-> TRUE, state |-> view.state]
         /\ Hear(view, StatusFrame(FALSE)) =
              [connected |-> FALSE, state |-> NoState]
BY HearFrames

(* A state frame replaces the state of a view.                             *)
LEMMA HearState ==
  ASSUME NEW view \in Views, view.connected, NEW s \in States
  PROVE  Hear(view, StateFrame(s)) = [connected |-> TRUE, state |-> s]
<1>1. view.connected = TRUE
  BY DEF Views
<1> QED
  BY <1>1, HearFrames

(* What a client hears leaves it with a view.                              *)
LEMMA HearType ==
  ASSUME NEW view \in Views, NEW frame \in Frames
  PROVE  Hear(view, frame) \in Views
<1>1. CASE frame \in StatusFrames
  BY <1>1, HearFrames DEF StatusFrames, Views
<1>2. CASE frame \in StateFrames
  BY <1>2, HearFrames DEF StateFrames, Views
<1>3. CASE frame \in {ErrorFrame, MeterFrame}
  BY <1>3, FrameTypes DEF Hear
<1> QED
  BY <1>1, <1>2, <1>3 DEF Frames

(* A snapshot is one or two frames.                                        *)
LEMMA SnapshotType ==
  ASSUME TypeInv
  PROVE  /\ Snapshot \in Seq(Frames)
         /\ Len(Snapshot) \in {1, 2}
<1>1. CASE cache.have /\ cache.connected
  <2>1. /\ StatusFrame(TRUE) \in Frames
        /\ StateFrame(cache.state) \in Frames
    BY <1>1, FrameTypes DEF TypeInv, CacheInv
  <2>2. Snapshot = <<StatusFrame(TRUE), StateFrame(cache.state)>>
    BY <1>1 DEF Snapshot
  <2> QED
    BY <2>1, <2>2, Sequences2
<1>2. CASE ~(cache.have /\ cache.connected)
  <2>1. StatusFrame(cache.connected) \in Frames
    BY FrameTypes DEF TypeInv, TypeOK
  <2>2. Snapshot = <<StatusFrame(cache.connected)>>
    BY <1>2 DEF Snapshot
  <2> QED
    BY <2>1, <2>2, Sequences01
<1> QED
  BY <1>1, <1>2

(* An accepted frame leaves queues of frames and views.                    *)
LEMMA AcceptType ==
  ASSUME TypeOK, NEW c \in Clients, NEW frame \in Frames, Accept(c, frame)
  PROVE  /\ queue' \in [Clients -> Seq(Frames)]
         /\ told' \in [Clients -> Views]
         /\ halfway' \subseteq Clients
<1>1. /\ queue' \in [Clients -> Seq(Frames)]
      /\ told' \in [Clients -> Views]
  BY HearType DEF TypeOK, Accept
<1>2. halfway' \subseteq Clients
  BY DEF TypeOK, Accept
<1> QED
  BY <1>1, <1>2

(* Reader actions that submit at most an error.                            *)
LEMMA SubmitErrorType ==
  ASSUME TypeOK, NEW c \in Clients, SubmitError(c)
  PROVE  /\ queue' \in [Clients -> Seq(Frames)]
         /\ told' \in [Clients -> Views]
         /\ halfway' \subseteq Clients
         /\ reader' \in [Clients -> {"none", "reading", "leaving"}]
<1>1. CASE Accept(c, ErrorFrame) /\ UNCHANGED reader
  BY <1>1, AcceptType, FrameTypes DEF TypeOK
<1>2. CASE Refuse(c) /\ reader' = [reader EXCEPT ![c] = "leaving"]
  BY <1>2 DEF TypeOK, Refuse
<1> QED
  BY <1>1, <1>2 DEF SubmitError

(***************************************************************************)
(* Every variable keeps its type; have and connected agree.                *)
(***************************************************************************)
THEOREM TypeCorrect == Spec => []TypeInv
<1>1. Init => TypeInv
  <2>1. Ignorant \in Views
    BY DEF Ignorant, Views
  <2> QED
    <3> SUFFICES ASSUME Init PROVE TypeInv
      OBVIOUS
    <3>1. <<>> \in Seq(Frames) /\ <<>> \in Seq(Clients)
      BY Sequences01
    <3>2. /\ queue \in [Clients -> Seq(Frames)]
          /\ rest \in [Clients -> Seq(Frames)]
          /\ told \in [Clients -> Views]
      BY <2>1, <3>1 DEF Init
    <3>3. /\ cache \in [have : BOOLEAN, connected : BOOLEAN,
                        state : States \cup {NoState}]
          /\ CacheInv
      BY DEF Init, CacheInv
    <3> QED
      BY <3>1, <3>2, <3>3 DEF Init, TypeInv, TypeOK
<1>2. TypeInv /\ [Next]_vars => TypeInv'
  <2> SUFFICES ASSUME TypeInv, [Next]_vars PROVE TypeInv'
    OBVIOUS
  <2> USE DEF TypeInv, workerVars
  <2>1. CASE Refresh
    <3>1. ASSUME NEW s \in States,
                 cache' = [have |-> TRUE, connected |-> TRUE, state |-> s],
                 batch' = <<StatusFrame(TRUE), StateFrame(s)>>
          PROVE  TypeInv'
      <4>1. batch' \in Seq(Frames)
        BY <3>1, FrameTypes, Sequences2
      <4> QED
        BY <2>1, <3>1, <4>1 DEF Refresh, TypeOK, CacheInv
    <3>2. ASSUME cache' = [cache EXCEPT !.have = FALSE, !.connected = FALSE],
                 batch' = <<StatusFrame(FALSE)>>
          PROVE  TypeInv'
      <4>1. batch' \in Seq(Frames)
        BY <3>2, FrameTypes, Sequences01
      <4> QED
        BY <2>1, <3>2, <4>1 DEF Refresh, TypeOK, CacheInv
    <3> QED
      BY <2>1, <3>1, <3>2 DEF Refresh
  <2>2. CASE BroadcastLock
    BY <2>2 DEF BroadcastLock, TypeOK, CacheInv
  <2>3. ASSUME NEW c \in Clients, BroadcastSubmit(c) PROVE TypeInv'
    <3>1. Head(rest[c]) \in Frames /\ Tail(rest[c]) \in Seq(Frames)
      BY <2>3 DEF BroadcastSubmit, TypeOK
    <3>2. /\ queue' \in [Clients -> Seq(Frames)]
          /\ told' \in [Clients -> Views]
          /\ halfway' \subseteq Clients
      BY <2>3, <3>1, AcceptType DEF BroadcastSubmit, Refuse, TypeOK
    <3>3. <<>> \in Seq(Frames)
      BY Sequences01
    <3>4. rest' \in [Clients -> Seq(Frames)]
      BY <2>3, <3>1, <3>3 DEF BroadcastSubmit, TypeOK
    <3>5. dead' \subseteq Clients
      BY <2>3 DEF BroadcastSubmit, TypeOK
    <3> QED
      BY <2>3, <3>2, <3>4, <3>5 DEF BroadcastSubmit, TypeOK, CacheInv
  <2>4. CASE BroadcastUnlock
    BY <2>4 DEF BroadcastUnlock, TypeOK, CacheInv
  <2>5. CASE BroadcastClose
    <3>1. batch' \in Seq(Frames)
      BY <2>5, Sequences01 DEF BroadcastClose
    <3>2. /\ wpc' \in {"refresh", "select"}
          /\ meterWake' \in BOOLEAN
      BY <2>5 DEF BroadcastClose, TypeOK
    <3> QED
      BY <2>5, <3>1, <3>2 DEF BroadcastClose, TypeOK, CacheInv
  <2>6. CASE HandleCommand
    <3>1. <<ErrorFrame>> \in Seq(Frames)
      BY FrameTypes, Sequences01
    <3>2. batch' \in Seq(Frames) /\ wpc' \in {"refresh", "lock"}
      BY <2>6, <3>1 DEF HandleCommand, TypeOK
    <3> QED
      BY <2>6, <3>2 DEF HandleCommand, TypeOK, CacheInv
  <2>7. CASE Tick
    BY <2>7 DEF Tick, TypeOK, CacheInv
  <2>8. ASSUME NEW c \in Clients, Connect(c) PROVE TypeInv'
    <3>1. told'[c] \in Views
      <4>1. Ignorant \in Views
        BY DEF Ignorant, Views
      <4>2. Snapshot[1] \in Frames
        BY SnapshotType
      <4>3. Len(Snapshot) # 1 => Snapshot[2] \in Frames
        BY SnapshotType
      <4>4. Hear(Ignorant, Snapshot[1]) \in Views
        BY <4>1, <4>2, HearType
      <4> QED
        BY <2>8, <4>3, <4>4, HearType DEF Connect, TypeOK
    <3>2. /\ queue' \in [Clients -> Seq(Frames)]
          /\ told' \in [Clients -> Views]
          /\ halfway' \subseteq Clients
      BY <2>8, <3>1, SnapshotType DEF Connect, TypeOK
    <3> QED
      BY <2>8, <3>2 DEF Connect, TypeOK, CacheInv
  <2>9. ASSUME NEW c \in Clients, ReadBadMessage(c) PROVE TypeInv'
    BY <2>9, SubmitErrorType DEF ReadBadMessage, TypeOK, CacheInv
  <2>10. ASSUME NEW c \in Clients, ReadCommand(c) PROVE TypeInv'
    <3>1. /\ queue' \in [Clients -> Seq(Frames)]
          /\ told' \in [Clients -> Views]
          /\ halfway' \subseteq Clients
          /\ reader' \in [Clients -> {"none", "reading", "leaving"}]
      <4>1. CASE UNCHANGED <<queue, told, halfway, reader>>
        BY <4>1 DEF TypeInv, TypeOK
      <4>2. CASE SubmitError(c)
        BY <4>2, SubmitErrorType
      <4> QED
        BY <2>10, <4>1, <4>2 DEF ReadCommand
    <3>2. cmds' \in Seq(Clients)
      <4>1. cmds' \in {cmds, Append(cmds, c)}
        BY <2>10 DEF ReadCommand
      <4>2. cmds \in Seq(Clients)
        BY DEF TypeOK
      <4>3. Append(cmds, c) \in Seq(Clients)
        BY <4>2
      <4> QED
        BY <4>1, <4>2, <4>3
    <3> QED
      BY <2>10, <3>1, <3>2 DEF ReadCommand, TypeOK, CacheInv
  <2>11. ASSUME NEW c \in Clients, NEW enabled \in BOOLEAN,
                ReadSubscribe(c, enabled)
         PROVE TypeInv'
    <3>1. /\ queue' \in [Clients -> Seq(Frames)]
          /\ told' \in [Clients -> Views]
          /\ halfway' \subseteq Clients
      BY <2>11, AcceptType, FrameTypes DEF ReadSubscribe, Refuse, TypeOK
    <3>2. /\ wantsMeter' \subseteq Clients
          /\ clients' \subseteq Clients
          /\ closed' \subseteq Clients
      BY <2>11 DEF ReadSubscribe, TypeOK
    <3> QED
      BY <2>11, <3>1, <3>2 DEF ReadSubscribe, TypeOK, CacheInv
  <2>12. ASSUME NEW c \in Clients, ReadFails(c) \/ ReaderLeaves(c)
         PROVE TypeInv'
    BY <2>12 DEF ReadFails, ReaderLeaves, TypeOK, CacheInv
  <2>13. ASSUME NEW c \in Clients, WriteFrame(c) PROVE TypeInv'
    BY <2>13 DEF WriteFrame, TypeOK, CacheInv
  <2>14. ASSUME NEW c \in Clients, WriteFails(c) PROVE TypeInv'
    BY <2>14 DEF WriteFails, WriterLeaves, TypeOK, CacheInv
  <2>15. ASSUME NEW c \in Clients, WriterSeesDone(c) PROVE TypeInv'
    BY <2>15 DEF WriterSeesDone, WriterLeaves, TypeOK, CacheInv
  <2>16. CASE PublishMeter
    <3>1. PICK lost \in SUBSET (clients \cap wantsMeter) :
            /\ queue' = [c \in Clients |->
                           IF c \in (clients \cap wantsMeter) \ lost
                           THEN Append(queue[c], MeterFrame) ELSE queue[c]]
            /\ clients' = clients \ lost
            /\ closed' = closed \cup lost
            /\ meterWake' = (meterWake \/ lost # {})
      BY <2>16 DEF PublishMeter
    <3>2. queue' \in [Clients -> Seq(Frames)]
      BY <3>1, FrameTypes DEF TypeOK
    <3> QED
      BY <2>16, <3>1, <3>2 DEF PublishMeter, TypeOK, CacheInv
  <2>17. CASE TakeMeterWake
    BY <2>17 DEF TakeMeterWake, TypeOK, CacheInv
  <2>18. CASE UNCHANGED vars
    BY <2>18 DEF vars, TypeOK, CacheInv
  <2> QED
    BY <2>1, <2>2, <2>3, <2>4, <2>5, <2>6, <2>7, <2>8, <2>9, <2>10, <2>11,
       <2>12, <2>13, <2>14, <2>15, <2>16, <2>17, <2>18
       DEF Next, Worker, Reader, Writer
<1> QED
  BY <1>1, <1>2, PTL DEF Spec

---------------------------------------------------------------------------
(* The worker's bookkeeping: a broadcast of an error, or of what the cache *)
(* holds; nothing is left over from the one before.                        *)
WorkerInv ==
    /\ wpc # "submit" => \A c \in Clients : rest[c] = <<>>
    /\ wpc \in {"refresh", "lock", "select"} => dead = {}
    /\ wpc = "close" => dead \cap clients = {}
    /\ wpc \in {"lock", "submit"} => batch \in {<<ErrorFrame>>, Snapshot}
    /\ wpc = "submit" => \A c \in Clients :
          /\ rest[c] \in {<<>>, batch, Tail(batch)}
          /\ rest[c] # <<>> => c \in clients \ dead

(* The two facts together are inductive: a dropped peer is unregistered    *)
(* before it is closed.                                                    *)
HubInv == WorkerInv /\ RegisteredIsServed

(* Frames of different kinds are different.                                *)
LEMMA Distinct ==
  ASSUME NEW b, NEW s
  PROVE  /\ <<ErrorFrame>> # <<StatusFrame(b)>>
         /\ <<ErrorFrame>> # <<StateFrame(s)>>
         /\ <<StatusFrame(b)>> # <<StateFrame(s)>>
BY DEF ErrorFrame, StatusFrame, StateFrame

(* What snapshotLocked returns, by the cache alone.                        *)
LEMMA SnapshotShapes ==
  ASSUME TypeInv
  PROVE  Snapshot = IF cache.connected
                    THEN <<StatusFrame(TRUE), StateFrame(cache.state)>>
                    ELSE <<StatusFrame(FALSE)>>
BY DEF TypeInv, TypeOK, CacheInv, Snapshot

(* refresh broadcasts a snapshot of the cache it has just written.         *)
LEMMA RefreshBatch ==
  ASSUME TypeInv, Refresh
  PROVE  batch' = Snapshot'
<1>1. ASSUME NEW s \in States,
             cache' = [have |-> TRUE, connected |-> TRUE, state |-> s],
             batch' = <<StatusFrame(TRUE), StateFrame(s)>>
      PROVE  batch' = Snapshot'
  BY <1>1 DEF Snapshot
<1>2. ASSUME cache' = [cache EXCEPT !.have = FALSE, !.connected = FALSE],
             batch' = <<StatusFrame(FALSE)>>
      PROVE  batch' = Snapshot'
  BY <1>2 DEF Snapshot, TypeInv, TypeOK
<1> QED
  BY <1>1, <1>2 DEF Refresh

(* What the lock holder can have before it for a client.                   *)
LEMMA RestShapes ==
  ASSUME TypeInv, WorkerInv, wpc = "submit", NEW c \in Clients,
         rest[c] # <<>>
  PROVE  \/ batch = <<ErrorFrame>> /\ rest[c] = <<ErrorFrame>>
         \/ ~cache.connected /\ rest[c] = <<StatusFrame(FALSE)>>
         \/ /\ cache.connected
            /\ rest[c] = <<StatusFrame(TRUE), StateFrame(cache.state)>>
            /\ batch = rest[c]
         \/ /\ cache.connected
            /\ rest[c] = <<StateFrame(cache.state)>>
<1>1. rest[c] \in {batch, Tail(batch)}
  BY DEF WorkerInv
<1>2. CASE batch = <<ErrorFrame>>
  BY <1>1, <1>2, FrameTypes, Sequences01
<1>3. CASE cache.connected /\ batch = Snapshot
  <2>1. batch = <<StatusFrame(TRUE), StateFrame(cache.state)>>
    BY <1>3, SnapshotShapes
  <2>2. StatusFrame(TRUE) \in Frames /\ StateFrame(cache.state) \in Frames
    BY <1>3, FrameTypes DEF TypeInv, CacheInv
  <2>3. Tail(batch) = <<StateFrame(cache.state)>>
    BY <2>1, <2>2, Sequences2
  <2> QED
    BY <1>1, <1>3, <2>1, <2>3
<1>4. CASE ~cache.connected /\ batch = Snapshot
  <2>1. batch = <<StatusFrame(FALSE)>>
    BY <1>4, SnapshotShapes
  <2>2. Tail(batch) = <<>>
    BY <2>1, FrameTypes, Sequences01
  <2> QED
    BY <1>1, <1>4, <2>1, <2>2
<1> QED
  BY <1>2, <1>3, <1>4 DEF WorkerInv

(* A submit leaves the client's tail of the batch, or nothing.             *)
LEMMA RestTail ==
  ASSUME TypeInv, WorkerInv, wpc = "submit", NEW c \in Clients,
         rest[c] # <<>>
  PROVE  Tail(rest[c]) \in {<<>>, Tail(batch)}
<1>1. CASE batch = rest[c]
  BY <1>1
<1>2. CASE rest[c] \in {<<ErrorFrame>>, <<StatusFrame(FALSE)>>}
  <2>1. Tail(<<ErrorFrame>>) = <<>> /\ Tail(<<StatusFrame(FALSE)>>) = <<>>
    BY FrameTypes, Sequences01
  <2> QED
    BY <1>2, <2>1
<1>3. CASE cache.connected /\ rest[c] = <<StateFrame(cache.state)>>
  <2>1. StateFrame(cache.state) \in Frames
    BY <1>3, FrameTypes DEF TypeInv, CacheInv
  <2> QED
    BY <1>3, <2>1, Sequences01
<1> QED
  BY <1>1, <1>2, <1>3, RestShapes

(* Every step keeps the inductive invariant of the worker and the clients. *)
LEMMA WorkerStep ==
  ASSUME TypeInv, TypeInv', HubInv, [Next]_vars
  PROVE  HubInv'
<1> USE DEF HubInv, RegisteredIsServed, workerVars
<1>1. CASE Refresh
  BY <1>1, RefreshBatch DEF Refresh, WorkerInv
<1>2. CASE BroadcastLock
  BY <1>2 DEF BroadcastLock, WorkerInv, Snapshot
<1>3. ASSUME NEW c \in Clients, BroadcastSubmit(c) PROVE HubInv'
  <2>1. Tail(rest[c]) \in {<<>>, Tail(batch)}
    BY <1>3, RestTail DEF BroadcastSubmit
  <2>2. c \in clients \ dead
    BY <1>3 DEF BroadcastSubmit, WorkerInv
  <2>3. /\ rest'[c] \in {<<>>, Tail(batch)}
        /\ rest'[c] # <<>> => dead' = dead
        /\ dead' \subseteq dead \cup {c}
        /\ \A d \in Clients \ {c} : rest'[d] = rest[d]
    BY <1>3, <2>1 DEF BroadcastSubmit, TypeInv, TypeOK
  <2> QED
    BY <1>3, <2>2, <2>3 DEF BroadcastSubmit, WorkerInv, Snapshot
<1>4. CASE BroadcastUnlock
  BY <1>4 DEF BroadcastUnlock, WorkerInv
<1>5. CASE BroadcastClose
  BY <1>5 DEF BroadcastClose, WorkerInv
<1>6. CASE HandleCommand
  BY <1>6 DEF HandleCommand, WorkerInv
<1>7. CASE Tick
  BY <1>7 DEF Tick, WorkerInv
<1>8. ASSUME NEW c \in Clients, Connect(c) PROVE HubInv'
  <2>1. RegisteredIsServed'
    BY <1>8 DEF Connect, TypeInv, TypeOK
  <2>2. WorkerInv'
    BY <1>8 DEF Connect, Idle, MuFree, WorkerInv, Snapshot
  <2> QED
    BY <2>1, <2>2
<1>9. ASSUME NEW c \in Clients, ReadBadMessage(c) \/ ReadCommand(c)
      PROVE HubInv'
  <2>1. reader'[c] # "none" /\ \A d \in Clients \ {c} : reader'[d] = reader[d]
    BY <1>9 DEF ReadBadMessage, ReadCommand, SubmitError, TypeInv, TypeOK
  <2> QED
    BY <1>9, <2>1
       DEF ReadBadMessage, ReadCommand, WorkerInv, Snapshot, TypeInv, TypeOK
<1>10. ASSUME NEW c \in Clients, NEW enabled \in BOOLEAN,
              ReadSubscribe(c, enabled)
       PROVE HubInv'
  <2>1. /\ clients' \subseteq clients
        /\ \/ closed' = closed
           \/ clients' = clients \ {c} /\ closed' = closed \cup {c}
    BY <1>10 DEF ReadSubscribe
  <2> QED
    BY <1>10, <2>1 DEF ReadSubscribe, MuFree, WorkerInv, Snapshot
<1>11. ASSUME NEW c \in Clients, ReadFails(c) PROVE HubInv'
  BY <1>11 DEF ReadFails, WorkerInv, Snapshot, TypeInv, TypeOK
<1>12. ASSUME NEW c \in Clients, ReaderLeaves(c) PROVE HubInv'
  BY <1>12 DEF ReaderLeaves, MuFree, WorkerInv, Snapshot, TypeInv, TypeOK
<1>13. ASSUME NEW c \in Clients, WriteFrame(c) PROVE HubInv'
  BY <1>13 DEF WriteFrame, WorkerInv, Snapshot
<1>14. ASSUME NEW c \in Clients, WriterLeaves(c) PROVE HubInv'
  BY <1>14 DEF WriterLeaves, MuFree, WorkerInv, Snapshot, TypeInv, TypeOK
<1>15. CASE PublishMeter
  <2>1. PICK lost \in SUBSET (clients \cap wantsMeter) :
          clients' = clients \ lost /\ closed' = closed \cup lost
    BY <1>15 DEF PublishMeter
  <2> QED
    BY <1>15, <2>1 DEF PublishMeter, MuFree, WorkerInv, Snapshot
<1>16. CASE TakeMeterWake
  BY <1>16 DEF TakeMeterWake, WorkerInv, Snapshot
<1>17. CASE UNCHANGED vars
  BY <1>17 DEF vars, WorkerInv, Snapshot
<1> QED
  BY <1>1, <1>2, <1>3, <1>4, <1>5, <1>6, <1>7, <1>8, <1>9, <1>10, <1>11,
     <1>12, <1>13, <1>14, <1>15, <1>16, <1>17
     DEF Next, Worker, Reader, Writer, WriteFails, WriterSeesDone

(* It holds in every reachable state.                                      *)
LEMMA HubInvariant == Spec => []HubInv
<1>1. Init => HubInv
  BY DEF Init, HubInv, WorkerInv, RegisteredIsServed
<1>2. TypeInv /\ TypeInv' /\ HubInv /\ [Next]_vars => HubInv'
  BY WorkerStep
<1> QED
  BY <1>1, <1>2, TypeCorrect, PTL DEF Spec

(***************************************************************************)
(* A registered client is not closed and has both its goroutines.          *)
(***************************************************************************)
THEOREM EveryRegisteredIsServed == Spec => []RegisteredIsServed
<1>1. HubInv => RegisteredIsServed
  BY DEF HubInv
<1> QED
  BY <1>1, HubInvariant, PTL

---------------------------------------------------------------------------
(* What the registered clients have been told, and what the broadcast in   *)
(* progress will add: after its status=true, the state completes the view. *)
ToldInv ==
    /\ StateNeedsStatus
    /\ \A c \in clients \ dead :
          /\ wpc \in {"refresh", "close", "select"} => told[c] = CacheView
          /\ wpc \in {"lock", "submit"} /\ batch = <<ErrorFrame>> =>
                told[c] = CacheView
          /\ wpc = "submit" =>
                /\ rest[c] = <<>> => told[c] = CacheView
                /\ rest[c] = <<StateFrame(cache.state)>> => told[c].connected

(* What the cache tells a client that has heard all of it.                 *)
LEMMA CacheViewShapes ==
  ASSUME TypeInv
  PROVE  CacheView = IF cache.connected
                     THEN [connected |-> TRUE, state |-> cache.state]
                     ELSE [connected |-> FALSE, state |-> NoState]
<1>1. cache.connected \in BOOLEAN /\ cache.have = cache.connected
  BY DEF TypeInv, TypeOK, CacheInv
<1>2. CASE cache.connected = TRUE
  BY <1>1, <1>2 DEF CacheView
<1>3. CASE cache.connected = FALSE
  BY <1>1, <1>3 DEF CacheView
<1> QED
  BY <1>1, <1>2, <1>3

(* The snapshot of register brings a new client up to date.                *)
LEMMA ConnectTold ==
  ASSUME TypeInv, NEW c \in Clients, Connect(c)
  PROVE  told' = [told EXCEPT ![c] = CacheView]
<1>1. Ignorant \in Views
  BY DEF Ignorant, Views
<1>2. CASE cache.connected
  <2>1. cache.state \in States
    BY <1>2 DEF TypeInv, CacheInv
  <2>2. Snapshot = <<StatusFrame(TRUE), StateFrame(cache.state)>>
    BY <1>2, SnapshotShapes
  <2>3. /\ Len(Snapshot) = 2
        /\ Snapshot[1] = StatusFrame(TRUE)
        /\ Snapshot[2] = StateFrame(cache.state)
    BY <2>1, <2>2, FrameTypes, Sequences2
  <2>4. Hear(Ignorant, Snapshot[1]) = [connected |-> TRUE, state |-> NoState]
    BY <1>1, <2>3, HearStatus DEF Ignorant
  <2>5. [connected |-> TRUE, state |-> NoState] \in Views
    BY DEF Views
  <2>6. Hear([connected |-> TRUE, state |-> NoState],
             StateFrame(cache.state)) = CacheView
    BY <1>2, <2>1, <2>5, HearState, CacheViewShapes
  <2>7. Hear(Hear(Ignorant, Snapshot[1]), Snapshot[2]) = CacheView
    BY <2>3, <2>4, <2>6
  <2>8. Len(Snapshot) # 1
    BY <2>3
  <2> QED
    BY <2>7, <2>8 DEF Connect
<1>3. CASE ~cache.connected
  <2>1. Snapshot = <<StatusFrame(FALSE)>>
    BY <1>3, SnapshotShapes
  <2>2. Len(Snapshot) = 1 /\ Snapshot[1] = StatusFrame(FALSE)
    BY <2>1, FrameTypes, Sequences01
  <2>3. Hear(Ignorant, Snapshot[1]) = CacheView
    BY <1>1, <1>3, <2>2, HearStatus, CacheViewShapes
  <2> QED
    BY <2>2, <2>3 DEF Connect
<1> QED
  BY <1>2, <1>3

(* A frame that is no status and no state teaches nothing.                 *)
LEMMA AcceptNothing ==
  ASSUME TypeInv, NEW c \in Clients, NEW frame \in {ErrorFrame, MeterFrame},
         Accept(c, frame)
  PROVE  UNCHANGED told
<1>1. Hear(told[c], frame) = told[c]
  BY FrameTypes DEF Hear
<1> QED
  BY <1>1 DEF Accept, TypeInv, TypeOK

(* An error teaches a client nothing.                                      *)
LEMMA SubmitErrorTold ==
  ASSUME TypeInv, NEW c \in Clients, SubmitError(c)
  PROVE  UNCHANGED told
BY AcceptNothing DEF SubmitError, Refuse

(* One submit of a broadcast brings its client one frame nearer.           *)
LEMMA BroadcastTold ==
  ASSUME TypeInv, HubInv, ToldInv, NEW c \in Clients, BroadcastSubmit(c)
  PROVE  ToldInv'
<1> USE DEF HubInv
<1>1. wpc = "submit" /\ rest[c] # <<>> /\ c \in clients \ dead
  BY DEF BroadcastSubmit, WorkerInv
<1>2. UNCHANGED <<cache, wpc, batch, clients, CacheView>>
  BY DEF BroadcastSubmit, CacheView
<1>3. \A d \in Clients \ {c} : rest'[d] = rest[d]
  BY DEF BroadcastSubmit, TypeInv, TypeOK
<1>4. CASE Refuse(c) /\ dead' = dead \cup {c}
  BY <1>2, <1>3, <1>4 DEF Refuse, ToldInv, StateNeedsStatus, TypeInv, TypeOK
<1>5. CASE Accept(c, Head(rest[c])) /\ rest' = [rest EXCEPT ![c] = Tail(@)]
           /\ UNCHANGED dead
  <2>1. /\ told'[c] = Hear(told[c], Head(rest[c]))
        /\ rest'[c] = Tail(rest[c])
        /\ \A d \in Clients \ {c} : told'[d] = told[d]
        /\ told[c] \in Views
    BY <1>5 DEF Accept, TypeInv, TypeOK
  <2>2. SUFFICES
          /\ ~told'[c].connected => told'[c].state = NoState
          /\ batch = <<ErrorFrame>> => told'[c] = CacheView
          /\ rest'[c] = <<>> => told'[c] = CacheView
          /\ rest'[c] = <<StateFrame(cache.state)>> => told'[c].connected
    <3>1. StateNeedsStatus'
      BY <2>1, <2>2 DEF ToldInv, StateNeedsStatus
    <3>2. ASSUME NEW d \in clients \ dead, d # c
          PROVE  /\ batch = <<ErrorFrame>> => told'[d] = CacheView
                 /\ rest'[d] = <<>> => told'[d] = CacheView
                 /\ rest'[d] = <<StateFrame(cache.state)>> =>
                       told'[d].connected
      BY <1>1, <1>3, <2>1, <3>2 DEF ToldInv, TypeInv, TypeOK
    <3> QED
      BY <1>1, <1>2, <1>5, <2>2, <3>1, <3>2 DEF ToldInv
  <2>3. CASE batch = <<ErrorFrame>> /\ rest[c] = <<ErrorFrame>>
    <3>1. Head(rest[c]) = ErrorFrame /\ Tail(rest[c]) = <<>>
      BY <2>3, FrameTypes, Sequences01
    <3>2. told'[c] = told[c]
      BY <2>1, <3>1, HearFrames
    <3>3. <<StateFrame(cache.state)>> # <<>>
      OBVIOUS
    <3> QED
      <4>1. told[c] = CacheView
        BY <1>1, <2>3 DEF ToldInv
      <4>2. ~told[c].connected => told[c].state = NoState
        BY DEF ToldInv, StateNeedsStatus
      <4> QED
        BY <2>1, <3>1, <3>2, <3>3, <4>1, <4>2
  <2>4. CASE ~cache.connected /\ rest[c] = <<StatusFrame(FALSE)>>
    <3>1. Head(rest[c]) = StatusFrame(FALSE) /\ Tail(rest[c]) = <<>>
      BY <2>4, FrameTypes, Sequences01
    <3>2. told'[c] = CacheView
      BY <2>1, <2>4, <3>1, HearStatus, CacheViewShapes
    <3>3. <<StateFrame(cache.state)>> # <<>>
      OBVIOUS
    <3> QED
      <4>1. told'[c] = [connected |-> FALSE, state |-> NoState]
        BY <2>4, <3>2, CacheViewShapes
      <4> QED
        BY <2>1, <3>1, <3>2, <3>3, <4>1
  <2>5. CASE /\ cache.connected
             /\ rest[c] = <<StatusFrame(TRUE), StateFrame(cache.state)>>
             /\ batch = rest[c]
    <3>1. cache.state \in States
      BY <2>5 DEF TypeInv, CacheInv
    <3>2. /\ Head(rest[c]) = StatusFrame(TRUE)
          /\ Tail(rest[c]) = <<StateFrame(cache.state)>>
      BY <2>5, <3>1, FrameTypes, Sequences2
    <3>3. told'[c].connected
      <4>1. told'[c] = [connected |-> TRUE, state |-> told[c].state]
        BY <2>1, <3>2, HearStatus
      <4> QED
        BY <4>1
    <3>4. batch # <<ErrorFrame>> /\ rest'[c] # <<>>
      BY <2>1, <2>5, <3>2
    <3> QED
      BY <3>3, <3>4
  <2>6. CASE cache.connected /\ rest[c] = <<StateFrame(cache.state)>>
    <3>1. cache.state \in States
      BY <2>6 DEF TypeInv, CacheInv
    <3>2. /\ Head(rest[c]) = StateFrame(cache.state)
          /\ Tail(rest[c]) = <<>>
      BY <2>6, <3>1, FrameTypes, Sequences01
    <3>3. told[c].connected
      BY <1>1, <2>6 DEF ToldInv
    <3>4. told'[c] = CacheView
      BY <2>1, <2>6, <3>1, <3>2, <3>3, HearState, CacheViewShapes
    <3>5. told'[c].connected
      BY <2>6, <3>4, CacheViewShapes
    <3> QED
      BY <3>4, <3>5
  <2> QED
    BY <1>1, <2>3, <2>4, <2>5, <2>6, RestShapes
<1> QED
  BY <1>4, <1>5 DEF BroadcastSubmit

(* Every step keeps the relation of what clients are told and the cache.   *)
LEMMA ToldStep ==
  ASSUME TypeInv, TypeInv', HubInv, ToldInv, [Next]_vars
  PROVE  ToldInv'
<1> USE DEF workerVars, CacheView, StateNeedsStatus
<1>1. CASE Refresh
  <2>1. <<ErrorFrame>> # batch'
    BY <1>1, Distinct DEF Refresh, ErrorFrame, StatusFrame
  <2> QED
    BY <1>1, <2>1 DEF Refresh, ToldInv
<1>2. CASE BroadcastLock
  <2>1. batch \in {<<ErrorFrame>>, Snapshot}
    BY <1>2 DEF BroadcastLock, HubInv, WorkerInv
  <2>2. batch # <<>> /\ batch # <<StateFrame(cache.state)>>
    BY <2>1, SnapshotShapes, Distinct DEF StatusFrame, StateFrame
  <2>3. \A c \in clients : rest'[c] = batch
    BY <1>2 DEF BroadcastLock, TypeInv, TypeOK
  <2> QED
    BY <1>2, <2>2, <2>3 DEF BroadcastLock, ToldInv
<1>3. ASSUME NEW c \in Clients, BroadcastSubmit(c) PROVE ToldInv'
  BY <1>3, BroadcastTold
<1>4. CASE BroadcastUnlock
  BY <1>4 DEF BroadcastUnlock, ToldInv, TypeInv, TypeOK
<1>5. CASE BroadcastClose
  BY <1>5 DEF BroadcastClose, ToldInv, HubInv, WorkerInv
<1>6. CASE HandleCommand
  BY <1>6 DEF HandleCommand, ToldInv
<1>7. CASE Tick
  BY <1>7 DEF Tick, ToldInv
<1>8. ASSUME NEW c \in Clients, Connect(c) PROVE ToldInv'
  <2>1. told' = [told EXCEPT ![c] = CacheView]
    BY <1>8, ConnectTold
  <2>2. UNCHANGED <<cache, wpc, batch, rest, dead>> /\ wpc # "submit"
        /\ clients' = clients \cup {c} /\ c \notin dead
    BY <1>8 DEF Connect, MuFree, Idle
  <2>3. told'[c] = CacheView /\ \A d \in Clients \ {c} : told'[d] = told[d]
    BY <2>1 DEF TypeInv, TypeOK
  <2>4. ~CacheView.connected => CacheView.state = NoState
    BY DEF TypeInv, CacheInv
  <2>5. StateNeedsStatus'
    BY <2>3, <2>4 DEF ToldInv
  <2> QED
    BY <2>2, <2>3, <2>5 DEF ToldInv, TypeInv, TypeOK
<1>9. ASSUME NEW c \in Clients, ReadBadMessage(c) \/ ReadCommand(c)
      PROVE ToldInv'
  <2>1. UNCHANGED told
    BY <1>9, SubmitErrorTold DEF ReadBadMessage, ReadCommand
  <2> QED
    BY <1>9, <2>1 DEF ReadBadMessage, ReadCommand, ToldInv
<1>10. ASSUME NEW c \in Clients, NEW enabled \in BOOLEAN,
              ReadSubscribe(c, enabled)
       PROVE ToldInv'
  <2>1. UNCHANGED told /\ clients' \subseteq clients
    BY <1>10, AcceptNothing DEF ReadSubscribe, Refuse
  <2> QED
    BY <1>10, <2>1 DEF ReadSubscribe, ToldInv
<1>11. ASSUME NEW c \in Clients, ReadFails(c) \/ ReaderLeaves(c)
       PROVE ToldInv'
  BY <1>11 DEF ReadFails, ReaderLeaves, ToldInv
<1>12. ASSUME NEW c \in Clients, WriteFrame(c) PROVE ToldInv'
  BY <1>12 DEF WriteFrame, ToldInv
<1>13. ASSUME NEW c \in Clients, WriterLeaves(c) PROVE ToldInv'
  BY <1>13 DEF WriterLeaves, ToldInv
<1>14. CASE PublishMeter
  <2>1. clients' \subseteq clients
    BY <1>14 DEF PublishMeter
  <2> QED
    BY <1>14, <2>1 DEF PublishMeter, ToldInv
<1>15. CASE TakeMeterWake
  BY <1>15 DEF TakeMeterWake, ToldInv
<1>16. CASE UNCHANGED vars
  BY <1>16 DEF vars, ToldInv
<1> QED
  BY <1>1, <1>2, <1>3, <1>4, <1>5, <1>6, <1>7, <1>8, <1>9, <1>10, <1>11,
     <1>12, <1>13, <1>14, <1>15, <1>16
     DEF Next, Worker, Reader, Writer, WriteFails, WriterSeesDone

(* It holds in every reachable state.                                      *)
LEMMA ToldInvariant == Spec => []ToldInv
<1>1. Init => ToldInv
  BY DEF Init, ToldInv, StateNeedsStatus, CacheView, Ignorant
<1>2. TypeInv /\ TypeInv' /\ HubInv /\ ToldInv /\ [Next]_vars => ToldInv'
  BY ToldStep
<1> QED
  BY <1>1, <1>2, TypeCorrect, HubInvariant, PTL DEF Spec

(***************************************************************************)
(* Whatever joins, leaves, drops, errors and failed reads come in between, *)
(* a registered client with no submit outstanding has been told exactly    *)
(* what the cache holds: no stale state, no stale availability.            *)
(***************************************************************************)
THEOREM ClientsAreUpToDate == Spec => []UpToDate
<1>1. TypeInv /\ HubInv /\ ToldInv => UpToDate
  BY DEF TypeInv, TypeOK, ToldInv, UpToDate
<1> QED
  BY <1>1, TypeCorrect, HubInvariant, ToldInvariant, PTL

(***************************************************************************)
(* No client is ever sent a state it would have to ignore.                 *)
(***************************************************************************)
THEOREM NoStateWithoutStatus == Spec => []StateNeedsStatus
<1>1. ToldInv => StateNeedsStatus
  BY DEF ToldInv
<1> QED
  BY <1>1, ToldInvariant, PTL

---------------------------------------------------------------------------
(* A client that has been sent a status=true and not yet its state is the  *)
(* lock holder's next to be sent it, or has refused it; once the lock is   *)
(* released it is no longer registered, and only its own reader can still  *)
(* reach its queue.                                                        *)
HalfInv ==
    \A c \in halfway \cap clients :
        wpc = "submit" /\ (c \in dead \/ rest[c] = <<StateFrame(cache.state)>>)

(* A step that sends nobody anything keeps to OnlyErrorsBetween.           *)
LEMMA SilentStep ==
  ASSUME \A c \in Clients : ~Sent(c), TypeInv
  PROVE  StateOrError
BY DEF StateOrError, TypeInv, TypeOK

(* A frame submitted to a client is the last of its queue, and the only    *)
(* one.                                                                    *)
LEMMA AcceptSends ==
  ASSUME TypeInv, NEW c \in Clients, NEW frame \in Frames, Accept(c, frame)
  PROVE  /\ LastSent(c) = frame
         /\ \A d \in Clients \ {c} : ~Sent(d)
<1>1. /\ queue[c] \in Seq(Frames)
      /\ queue'[c] = Append(queue[c], frame)
      /\ \A d \in Clients \ {c} : queue'[d] = queue[d]
  BY DEF TypeInv, TypeOK, Accept
<1>2. queue'[c][Len(queue'[c])] = frame
  BY <1>1
<1>3. \A d \in Clients \ {c} : ~(Len(queue'[d]) > Len(queue[d]))
  BY <1>1 DEF TypeInv, TypeOK
<1> QED
  BY <1>2, <1>3 DEF LastSent, Sent

(* What the frames do to halfway.                                          *)
LEMMA AcceptHalf ==
  ASSUME NEW c \in Clients, NEW frame, Accept(c, frame)
  PROVE  /\ frame = StatusFrame(TRUE) => halfway' = halfway \cup {c}
         /\ frame = ErrorFrame => halfway' = halfway
         /\ frame.type \notin {"error", "status"} => halfway' = halfway \ {c}
         /\ frame = StatusFrame(FALSE) => halfway' = halfway \ {c}
<1>1. /\ ErrorFrame # StatusFrame(TRUE)
      /\ StatusFrame(FALSE) # StatusFrame(TRUE)
      /\ StatusFrame(FALSE) # ErrorFrame
      /\ ErrorFrame.type = "error" /\ StatusFrame(TRUE).type = "status"
  BY FrameTypes
<1> QED
  BY <1>1 DEF Accept

(* Without the lock nobody registered is half-way.                         *)
LEMMA NobodyHalfway ==
  ASSUME HalfInv, wpc # "submit"
  PROVE  halfway \cap clients = {}
BY DEF HalfInv

(* A step that lets nobody in and leaves the broadcast alone.              *)
LEMMA QuietHalf ==
  ASSUME HalfInv, UNCHANGED <<cache, wpc, rest, dead>>,
         clients' \subseteq clients, halfway' \subseteq halfway
  PROVE  HalfInv'
BY DEF HalfInv

(* An error of its own leaves a client half-way where it was.              *)
LEMMA OwnErrorHalf ==
  ASSUME TypeInv, HalfInv, NEW c \in Clients, SubmitError(c),
         UNCHANGED <<cache, clients, wpc, rest, dead>>
  PROVE  HalfInv' /\ StateOrError
<1>1. ASSUME Accept(c, ErrorFrame) PROVE HalfInv' /\ StateOrError
  <2>1. /\ halfway' = halfway /\ LastSent(c) = ErrorFrame
        /\ \A d \in Clients \ {c} : ~Sent(d)
    BY <1>1, FrameTypes, AcceptSends, AcceptHalf
  <2>2. StateOrError
    BY <2>1 DEF StateOrError, TypeInv, TypeOK
  <2> QED
    BY <2>1, <2>2, QuietHalf
<1>2. ASSUME Refuse(c) PROVE HalfInv' /\ StateOrError
  <2>1. UNCHANGED <<queue, halfway>>
    BY <1>2 DEF Refuse
  <2>2. \A d \in Clients : ~Sent(d)
    BY <2>1 DEF Sent, TypeInv, TypeOK
  <2> QED
    BY <2>1, <2>2, QuietHalf, SilentStep
<1> QED
  BY <1>1, <1>2 DEF SubmitError

(* One submit of a broadcast: the status puts its client half-way with the *)
(* state as all that is left, the state brings it home, and a refusal      *)
(* drops it.                                                               *)
LEMMA SubmitHalf ==
  ASSUME TypeInv, HubInv, HalfInv, NEW c \in Clients, BroadcastSubmit(c)
  PROVE  HalfInv' /\ StateOrError
<1>1. /\ wpc = "submit" /\ wpc' = "submit" /\ rest[c] # <<>>
      /\ c \in clients \ dead
      /\ UNCHANGED <<cache, clients>>
  BY DEF BroadcastSubmit, HubInv, WorkerInv
<1>2. c \in halfway => rest[c] = <<StateFrame(cache.state)>>
  BY <1>1 DEF HalfInv
<1>3. /\ ErrorFrame \in Frames /\ StatusFrame(TRUE) \in Frames
      /\ StatusFrame(FALSE) \in Frames
  BY FrameTypes
<1>4. cache.connected => /\ StateFrame(cache.state) \in Frames
                         /\ StateFrame(cache.state).type = "state"
  BY FrameTypes DEF TypeInv, CacheInv
<1>5. ASSUME Accept(c, Head(rest[c])), rest' = [rest EXCEPT ![c] = Tail(@)],
             UNCHANGED dead
      PROVE  HalfInv' /\ StateOrError
  <2>1. /\ rest'[c] = Tail(rest[c])
        /\ \A d \in Clients \ {c} : rest'[d] = rest[d]
    BY <1>5 DEF TypeInv, TypeOK
  <2>2. /\ Head(rest[c]) \in Frames
        /\ c \in halfway => Head(rest[c]) = StateFrame(cache.state)
        /\ c \in halfway' => rest'[c] = <<StateFrame(cache.state)>>
        /\ \A d \in Clients \ {c} : d \in halfway' => d \in halfway
    <3>1. CASE rest[c] = <<ErrorFrame>>
      <4>1. Head(rest[c]) = ErrorFrame
        BY <1>3, <3>1, Sequences01
      <4>2. c \notin halfway
        BY <1>2, <3>1, Distinct
      <4>3. halfway' = halfway
        BY <1>5, <4>1, AcceptHalf
      <4> QED
        BY <1>3, <4>1, <4>2, <4>3
    <3>2. CASE rest[c] = <<StatusFrame(FALSE)>>
      <4>1. Head(rest[c]) = StatusFrame(FALSE)
        BY <1>3, <3>2, Sequences01
      <4>2. c \notin halfway
        BY <1>2, <3>2, Distinct
      <4>3. halfway' = halfway \ {c}
        BY <1>5, <4>1, AcceptHalf
      <4> QED
        BY <1>3, <4>1, <4>2, <4>3
    <3>3. CASE /\ cache.connected
               /\ rest[c] = <<StatusFrame(TRUE), StateFrame(cache.state)>>
      <4>1. /\ Head(rest[c]) = StatusFrame(TRUE)
            /\ Tail(rest[c]) = <<StateFrame(cache.state)>>
        BY <1>3, <1>4, <3>3, Sequences2
      <4>2. c \notin halfway
        BY <1>2, <1>3, <1>4, <3>3, Sequences01, Sequences2
      <4>3. halfway' = halfway \cup {c}
        BY <1>5, <4>1, AcceptHalf
      <4> QED
        BY <1>3, <2>1, <4>1, <4>2, <4>3
    <3>4. CASE /\ cache.connected
               /\ rest[c] = <<StateFrame(cache.state)>>
      <4>1. Head(rest[c]) = StateFrame(cache.state)
        BY <1>4, <3>4, Sequences01
      <4>2. halfway' = halfway \ {c}
        BY <1>4, <1>5, <3>4, <4>1, AcceptHalf
      <4> QED
        BY <1>4, <3>4, <4>1, <4>2
    <3> QED
      BY <1>1, <3>1, <3>2, <3>3, <3>4, RestShapes DEF HubInv
  <2>3. LastSent(c) = Head(rest[c]) /\ \A d \in Clients \ {c} : ~Sent(d)
    BY <1>5, <2>2, AcceptSends
  <2>4. StateOrError
    BY <2>2, <2>3 DEF StateOrError, TypeInv, TypeOK
  <2>5. halfway' \subseteq Clients
    BY <1>5 DEF Accept, TypeInv, TypeOK
  <2>6. HalfInv'
    BY <1>1, <1>5, <2>1, <2>2, <2>5 DEF HalfInv
  <2> QED
    BY <2>4, <2>6
<1>6. ASSUME Refuse(c), rest' = [rest EXCEPT ![c] = <<>>],
             dead' = dead \cup {c}
      PROVE  HalfInv' /\ StateOrError
  <2>1. /\ \A d \in Clients \ {c} : rest'[d] = rest[d]
        /\ UNCHANGED <<queue, halfway>>
    BY <1>6 DEF TypeInv, TypeOK, Refuse
  <2>2. HalfInv'
    BY <1>1, <1>6, <2>1 DEF HalfInv, TypeInv, TypeOK
  <2>3. \A d \in Clients : ~Sent(d)
    BY <2>1 DEF Sent, TypeInv, TypeOK
  <2> QED
    BY <2>2, <2>3, SilentStep
<1> QED
  BY <1>5, <1>6 DEF BroadcastSubmit

(* A reading for the subscribers reaches nobody half-way: they are         *)
(* registered, and the lock is free.                                       *)
LEMMA PublishHalf ==
  ASSUME TypeInv, HalfInv, PublishMeter
  PROVE  HalfInv' /\ StateOrError
<1>1. halfway \cap clients = {}
  BY NobodyHalfway DEF PublishMeter, MuFree
<1>2. PICK lost \in SUBSET (clients \cap wantsMeter) :
        /\ queue' = [c \in Clients |->
                       IF c \in (clients \cap wantsMeter) \ lost
                       THEN Append(queue[c], MeterFrame) ELSE queue[c]]
        /\ clients' = clients \ lost
        /\ halfway' = halfway \ ((clients \cap wantsMeter) \ lost)
  BY DEF PublishMeter
<1>3. \A c \in halfway : queue'[c] = queue[c]
  BY <1>1, <1>2 DEF TypeInv, TypeOK
<1>4. \A c \in halfway : ~Sent(c)
  BY <1>3 DEF Sent, TypeInv, TypeOK
<1>5. HalfInv'
  BY <1>1, <1>2 DEF HalfInv
<1> QED
  BY <1>4, <1>5 DEF StateOrError

(* Every step keeps the invariant, and is one OnlyErrorsBetween allows.    *)
LEMMA HalfStep ==
  ASSUME TypeInv, HubInv, HalfInv, [Next]_vars
  PROVE  HalfInv' /\ StateOrError
<1> USE DEF workerVars
<1> DEFINE Quiet == \A c \in Clients : ~Sent(c)
<1>1. ASSUME UNCHANGED queue PROVE Quiet
  BY <1>1 DEF Sent, TypeInv, TypeOK
<1>2. Quiet => StateOrError
  BY SilentStep
<1> HIDE DEF Quiet
<1>3. CASE Refresh \/ BroadcastLock \/ BroadcastClose \/ HandleCommand \/ Tick
  <2>1. UNCHANGED <<queue, clients, halfway>> /\ wpc # "submit"
    BY <1>3 DEF Refresh, BroadcastLock, BroadcastClose, HandleCommand, Tick
  <2>2. HalfInv'
    BY <2>1, NobodyHalfway DEF HalfInv
  <2> QED
    BY <1>1, <1>2, <2>1, <2>2
<1>4. ASSUME NEW c \in Clients, BroadcastSubmit(c)
      PROVE  HalfInv' /\ StateOrError
  BY <1>4, SubmitHalf
<1>5. CASE BroadcastUnlock
  <2>1. /\ UNCHANGED <<queue, halfway>> /\ clients' = clients \ dead
        /\ \A c \in Clients : rest[c] = <<>>
    BY <1>5 DEF BroadcastUnlock
  <2>2. \A c \in halfway \cap clients : c \in dead
    <3> SUFFICES ASSUME NEW c \in halfway \cap clients PROVE c \in dead
      OBVIOUS
    <3>1. <<StateFrame(cache.state)>> # <<>>
      OBVIOUS
    <3>2. c \in Clients /\ rest[c] = <<>>
      BY <2>1 DEF TypeInv, TypeOK
    <3>3. c \in dead \/ rest[c] = <<StateFrame(cache.state)>>
      BY DEF HalfInv
    <3> QED
      BY <3>1, <3>2, <3>3
  <2>3. HalfInv'
    BY <2>1, <2>2 DEF HalfInv
  <2> QED
    BY <1>1, <1>2, <2>1, <2>3
<1>6. ASSUME NEW c \in Clients, Connect(c) PROVE HalfInv' /\ StateOrError
  <2>1. /\ \A d \in Clients \ {c} : queue'[d] = queue[d]
        /\ clients' = clients \cup {c} /\ halfway' = halfway \ {c}
        /\ wpc # "submit" /\ Idle(c)
    BY <1>6 DEF Connect, MuFree, TypeInv, TypeOK
  <2>2. HalfInv'
    BY <2>1, NobodyHalfway DEF HalfInv
  <2>3. \A d \in Clients \ {c} : ~Sent(d)
    BY <2>1 DEF Sent, TypeInv, TypeOK
  <2>4. StateOrError
    BY <2>1, <2>3 DEF StateOrError, TypeInv, TypeOK
  <2> QED
    BY <2>2, <2>4
<1>7. ASSUME NEW c \in Clients, ReadBadMessage(c)
      PROVE  HalfInv' /\ StateOrError
  BY <1>7, OwnErrorHalf DEF ReadBadMessage
<1>8. ASSUME NEW c \in Clients, ReadCommand(c) PROVE HalfInv' /\ StateOrError
  <2>1. UNCHANGED <<cache, clients, wpc, rest, dead>>
    BY <1>8 DEF ReadCommand
  <2>2. ASSUME UNCHANGED <<queue, told, halfway, reader>>
        PROVE  HalfInv' /\ StateOrError
    BY <1>1, <1>2, <2>1, <2>2, QuietHalf
  <2> QED
    BY <1>8, <2>1, <2>2, OwnErrorHalf DEF ReadCommand
<1>9. ASSUME NEW c \in Clients, NEW enabled \in BOOLEAN,
             ReadSubscribe(c, enabled)
      PROVE  HalfInv' /\ StateOrError
  <2>1. /\ wpc # "submit" /\ UNCHANGED <<cache, wpc, rest, dead>>
        /\ clients' \subseteq clients
    BY <1>9 DEF ReadSubscribe, MuFree
  <2>2. ASSUME c \in clients, Accept(c, MeterFrame)
        PROVE  HalfInv' /\ StateOrError
    <3>1. c \notin halfway
      BY <2>1, <2>2, NobodyHalfway
    <3>2. \A d \in Clients \ {c} : ~Sent(d)
      BY <2>2, FrameTypes, AcceptSends
    <3>3. halfway' = halfway \ {c}
      BY <2>2, FrameTypes, AcceptHalf
    <3> QED
      BY <2>1, <3>1, <3>2, <3>3, QuietHalf DEF StateOrError, TypeInv, TypeOK
  <2>3. \/ UNCHANGED <<queue, halfway>>
        \/ c \in clients /\ Accept(c, MeterFrame)
    BY <1>9 DEF ReadSubscribe, Refuse
  <2> QED
    BY <1>1, <1>2, <2>1, <2>2, <2>3, QuietHalf
<1>10. ASSUME NEW c \in Clients, ReadFails(c) \/ ReaderLeaves(c)
       PROVE  HalfInv' /\ StateOrError
  <2>1. /\ UNCHANGED <<queue, halfway, cache, wpc, rest, dead>>
        /\ clients' \subseteq clients
    BY <1>10 DEF ReadFails, ReaderLeaves
  <2> QED
    BY <1>1, <1>2, <2>1, QuietHalf
<1>11. ASSUME NEW c \in Clients, Writer(c) PROVE HalfInv' /\ StateOrError
  <2>1. /\ UNCHANGED <<halfway, cache, wpc, rest, dead>>
        /\ clients' \subseteq clients
        /\ \/ UNCHANGED queue
           \/ /\ queue[c] # <<>>
              /\ queue' = [queue EXCEPT ![c] = Tail(@)]
    BY <1>11 DEF Writer, WriteFrame, WriteFails, WriterSeesDone, WriterLeaves
  <2>2. ASSUME queue[c] # <<>>, queue' = [queue EXCEPT ![c] = Tail(@)]
        PROVE  Quiet
    BY <2>2 DEF Quiet, Sent, TypeInv, TypeOK
  <2> QED
    BY <1>1, <1>2, <2>1, <2>2, QuietHalf
<1>12. CASE PublishMeter
  BY <1>12, PublishHalf
<1>13. CASE TakeMeterWake \/ UNCHANGED vars
  <2>1. UNCHANGED <<queue, halfway, cache, wpc, rest, dead, clients>>
    BY <1>13 DEF TakeMeterWake, vars
  <2> QED
    BY <1>1, <1>2, <2>1, QuietHalf
<1> QED
  BY <1>3, <1>4, <1>5, <1>6, <1>7, <1>8, <1>9, <1>10, <1>11, <1>12, <1>13
     DEF Next, Worker, Reader

(***************************************************************************)
(* Once a client has been sent a status=true, nothing but errors is sent   *)
(* to it on that connection until the very state the status belongs to, at *)
(* any queue length, however much its writer has taken meanwhile, and with *)
(* any number of peers dropped half-way.                                   *)
(***************************************************************************)
THEOREM StateOrErrorFollows == Spec => OnlyErrorsBetween
<1>1. Init => HalfInv
  BY DEF Init, HalfInv
<1>2. TypeInv /\ HubInv /\ HalfInv /\ [Next]_vars => HalfInv'
  BY HalfStep
<1>3. TypeInv /\ HubInv /\ HalfInv /\ [Next]_vars => [StateOrError]_vars
  BY HalfStep
<1> QED
  BY <1>1, <1>2, <1>3, TypeCorrect, HubInvariant, PTL
     DEF Spec, OnlyErrorsBetween

---------------------------------------------------------------------------
(* A step that teaches nobody anything and lets nobody in is a Leave.      *)
LEMMA LeaveStep ==
  ASSUME UNCHANGED <<cache, told>>, clients' \ dead' \subseteq clients \ dead
  PROVE  Feed!Next
<1>1. UNCHANGED CacheView
  BY DEF CacheView
<1> QED
  BY <1>1 DEF Feed!Next, Feed!Leave

(* A frame of a broadcast leaves a client's state alone or makes it true.  *)
LEMMA SubmitTells ==
  ASSUME TypeInv, HubInv, ToldInv, NEW c \in Clients, BroadcastSubmit(c),
         Accept(c, Head(rest[c]))
  PROVE  told'[c].state \in {told[c].state, CacheView.state}
<1>1. wpc = "submit" /\ rest[c] # <<>> /\ c \in clients \ dead
  BY DEF BroadcastSubmit, HubInv, WorkerInv
<1>2. told'[c] = Hear(told[c], Head(rest[c])) /\ told[c] \in Views
  BY DEF Accept, TypeInv, TypeOK
<1>3. CASE batch = <<ErrorFrame>> /\ rest[c] = <<ErrorFrame>>
  <2>1. Head(rest[c]) = ErrorFrame
    BY <1>3, FrameTypes, Sequences01
  <2> QED
    BY <1>2, <2>1, HearFrames
<1>4. CASE ~cache.connected /\ rest[c] = <<StatusFrame(FALSE)>>
  <2>1. Head(rest[c]) = StatusFrame(FALSE)
    BY <1>4, FrameTypes, Sequences01
  <2> QED
    BY <1>2, <1>4, <2>1, HearStatus, CacheViewShapes
<1>5. CASE /\ cache.connected
           /\ rest[c] = <<StatusFrame(TRUE), StateFrame(cache.state)>>
  <2>1. cache.state \in States
    BY <1>5 DEF TypeInv, CacheInv
  <2>2. Head(rest[c]) = StatusFrame(TRUE)
    BY <1>5, <2>1, FrameTypes, Sequences2
  <2>3. told'[c] = [connected |-> TRUE, state |-> told[c].state]
    BY <1>2, <2>2, HearStatus
  <2> QED
    BY <2>3
<1>6. CASE cache.connected /\ rest[c] = <<StateFrame(cache.state)>>
  <2>1. cache.state \in States
    BY <1>6 DEF TypeInv, CacheInv
  <2>2. Head(rest[c]) = StateFrame(cache.state)
    BY <1>6, <2>1, FrameTypes, Sequences01
  <2> QED
    BY <1>2, <1>6, <2>1, <2>2, HearFrames, CacheViewShapes
<1> QED
  BY <1>1, <1>3, <1>4, <1>5, <1>6, RestShapes DEF HubInv

(* So one submit is a Tell, or invisible, or the loss of a client.         *)
LEMMA SubmitStep ==
  ASSUME TypeInv, HubInv, ToldInv, NEW c \in Clients, BroadcastSubmit(c)
  PROVE  Feed!Next
<1>1. UNCHANGED <<cache, CacheView, clients>>
  BY DEF BroadcastSubmit, CacheView
<1>2. c \in clients \ dead
  BY DEF BroadcastSubmit, HubInv, WorkerInv
<1>3. CASE Refuse(c) /\ dead' = dead \cup {c}
  BY <1>1, <1>3, LeaveStep DEF Refuse
<1>4. CASE Accept(c, Head(rest[c])) /\ UNCHANGED dead
  <2>1. told' = [told EXCEPT ![c] = told'[c]]
    BY <1>4 DEF Accept, TypeInv, TypeOK
  <2>2. CASE told'[c].state = told[c].state
    <3>1. [d \in Clients |-> told'[d].state] = [d \in Clients |-> told[d].state]
      BY <2>1, <2>2 DEF TypeInv, TypeOK
    <3> QED
      BY <1>1, <1>4, <3>1 DEF Feed!Next, Feed!Leave
  <2>3. CASE told'[c].state = CacheView.state /\ told[c].state # CacheView.state
    <3>1. [d \in Clients |-> told'[d].state] =
            [[d \in Clients |-> told[d].state] EXCEPT ![c] = CacheView.state]
      BY <2>1, <2>3 DEF TypeInv, TypeOK
    <3>2. Feed!Tell(c)
      BY <1>1, <1>2, <1>4, <2>3, <3>1 DEF Feed!Tell
    <3> QED
      BY <3>2 DEF Feed!Next
  <2> QED
    BY <1>4, <2>2, <2>3, SubmitTells
<1> QED
  BY <1>3, <1>4 DEF BroadcastSubmit

(* Every step of the hub is a step of the feed, or invisible to it.        *)
LEMMA FeedStep ==
  ASSUME TypeInv, TypeInv', HubInv, ToldInv, [Next]_vars
  PROVE  [Feed!Next]_Feed!vars
<1> USE DEF workerVars
<1>1. CASE Refresh
  <2>1. CacheView.state' \in States \cup {NoState}
    BY DEF CacheView, TypeInv, TypeOK
  <2>2. UNCHANGED <<clients, dead, told>>
    BY <1>1 DEF Refresh
  <2>3. Feed!Learn
    BY <2>1, <2>2 DEF Feed!Learn
  <2> QED
    BY <2>3 DEF Feed!Next
<1>2. CASE BroadcastLock \/ HandleCommand \/ Tick
  BY <1>2, LeaveStep DEF BroadcastLock, HandleCommand, Tick
<1>3. ASSUME NEW c \in Clients, BroadcastSubmit(c) PROVE Feed!Next
  BY <1>3, SubmitStep
<1>4. CASE BroadcastUnlock
  BY <1>4, LeaveStep DEF BroadcastUnlock
<1>5. CASE BroadcastClose
  <2>1. dead \cap clients = {}
    BY <1>5 DEF BroadcastClose, HubInv, WorkerInv
  <2> QED
    BY <1>5, <2>1, LeaveStep DEF BroadcastClose
<1>6. ASSUME NEW c \in Clients, Connect(c) PROVE Feed!Next
  <2>1. c \notin clients /\ c \notin dead
    BY <1>6 DEF Connect, Idle, HubInv, RegisteredIsServed
  <2>2. UNCHANGED <<cache, dead, CacheView>> /\ clients' = clients \cup {c}
    BY <1>6 DEF Connect, CacheView
  <2>3. told' = [told EXCEPT ![c] = CacheView]
    BY <1>6, ConnectTold
  <2>4. [d \in Clients |-> told'[d].state] =
          [[d \in Clients |-> told[d].state] EXCEPT ![c] = CacheView.state]
    BY <2>3 DEF TypeInv, TypeOK
  <2>5. Feed!Join(c)
    BY <2>1, <2>2, <2>4 DEF Feed!Join
  <2> QED
    BY <2>5 DEF Feed!Next
<1>7. ASSUME NEW c \in Clients, ReadBadMessage(c) \/ ReadCommand(c)
      PROVE Feed!Next
  <2>1. UNCHANGED told
    BY <1>7, SubmitErrorTold DEF ReadBadMessage, ReadCommand
  <2> QED
    BY <1>7, <2>1, LeaveStep DEF ReadBadMessage, ReadCommand
<1>8. ASSUME NEW c \in Clients, NEW enabled \in BOOLEAN,
             ReadSubscribe(c, enabled)
      PROVE Feed!Next
  <2>1. UNCHANGED told /\ clients' \subseteq clients
    BY <1>8, AcceptNothing DEF ReadSubscribe, Refuse
  <2> QED
    BY <1>8, <2>1, LeaveStep DEF ReadSubscribe
<1>9. ASSUME NEW c \in Clients, ReadFails(c) \/ ReaderLeaves(c)
      PROVE Feed!Next
  BY <1>9, LeaveStep DEF ReadFails, ReaderLeaves
<1>10. ASSUME NEW c \in Clients, WriteFrame(c) \/ WriterLeaves(c)
       PROVE Feed!Next
  BY <1>10, LeaveStep DEF WriteFrame, WriterLeaves
<1>11. CASE PublishMeter
  BY <1>11, LeaveStep DEF PublishMeter
<1>12. CASE TakeMeterWake
  BY <1>12, LeaveStep DEF TakeMeterWake
<1>13. CASE UNCHANGED vars
  BY <1>13, LeaveStep DEF vars
<1> QED
  BY <1>1, <1>2, <1>3, <1>4, <1>5, <1>6, <1>7, <1>8, <1>9, <1>10, <1>11,
     <1>12, <1>13 DEF Next, Worker, Reader, Writer, WriteFails, WriterSeesDone

(***************************************************************************)
(* The hub implements StateFeed, for any number of clients and any queue   *)
(* lengths: a client that joins is told the truth, and is told nothing but *)
(* the truth of the moment for as long as it stays.                        *)
(***************************************************************************)
THEOREM HubImplementsFeed == Spec => ImplementsFeed
<1>1. Init => Feed!Init
  BY DEF Init, Feed!Init, CacheView, Ignorant
<1>2. TypeInv /\ TypeInv' /\ HubInv /\ ToldInv /\ [Next]_vars
        => [Feed!Next]_Feed!vars
  BY FeedStep
<1> QED
  BY <1>1, <1>2, TypeCorrect, HubInvariant, ToldInvariant, PTL
     DEF Spec, ImplementsFeed, Feed!Spec
---------------------------------------------------------------------------
(* The demand for a meter, and who announces its changes.                  *)

(* The ways a step can be one of MeterDemand.                              *)
LEMMA DemandSteps ==
  /\ WorkerOwes' /\ UNCHANGED meterWake => Announced!Change
  /\ meterWake' = TRUE /\ (WorkerOwes' <=> WorkerOwes) => Announced!Change
  /\ WorkerOwes /\ meterWake' = TRUE /\ (Demand' <=> Demand) => Announced!Wake
  /\ meterWake /\ meterWake' = FALSE /\ (Demand' <=> Demand)
       /\ (WorkerOwes' <=> WorkerOwes) => Announced!Take
  /\ UNCHANGED meterWake /\ (Demand' <=> Demand) /\ (WorkerOwes' <=> WorkerOwes)
       => UNCHANGED Announced!vars
<1>1. Demand \in BOOLEAN /\ WorkerOwes \in BOOLEAN
  BY DEF Demand, WorkerOwes
<1>2. Demand' \in BOOLEAN /\ WorkerOwes' \in BOOLEAN
  BY DEF Demand, WorkerOwes
<1> HIDE DEF Demand, WorkerOwes
<1> QED
  BY <1>1, <1>2
     DEF Announced!Change, Announced!Wake, Announced!Take, Announced!vars

(* What the demand and the worker's debt depend on.                        *)
LEMMA DemandDepends ==
  /\ UNCHANGED <<cache, clients, wantsMeter>> => (Demand' <=> Demand)
  /\ UNCHANGED <<wpc, batch, dead>> => (WorkerOwes' <=> WorkerOwes)
BY DEF Demand, WorkerOwes

(* The worker: a refresh owes the wake-up until its broadcast is over, any *)
(* broadcast does once it has dropped a client.                            *)
LEMMA WorkerAnnounces ==
  ASSUME TypeInv, HubInv, Worker
  PROVE  [Announced!Next]_(Announced!vars)
<1> USE DEF Announced!Next
<1>1. CASE Refresh
  <2>1. batch' # <<ErrorFrame>>
    BY <1>1, Distinct DEF Refresh, ErrorFrame, StatusFrame, StateFrame
  <2>2. wpc' = "lock" /\ UNCHANGED meterWake
    BY <1>1 DEF Refresh
  <2>3. WorkerOwes'
    BY <2>1, <2>2 DEF WorkerOwes
  <2> QED
    BY <2>2, <2>3, DemandSteps
<1>2. CASE BroadcastLock
  <2>1. UNCHANGED <<cache, clients, wantsMeter, batch, meterWake>>
    BY <1>2 DEF BroadcastLock
  <2>2. WorkerOwes' <=> WorkerOwes
    BY <1>2 DEF BroadcastLock, WorkerOwes
  <2> QED
    BY <2>1, <2>2, DemandSteps, DemandDepends
<1>3. ASSUME NEW c \in Clients, BroadcastSubmit(c)
      PROVE  [Announced!Next]_(Announced!vars)
  <2>1. UNCHANGED <<cache, clients, wantsMeter, batch, wpc, meterWake>>
    BY <1>3 DEF BroadcastSubmit
  <2>2. WorkerOwes' <=> WorkerOwes
    BY <1>3, <2>1 DEF BroadcastSubmit, WorkerOwes
  <2> QED
    BY <2>1, <2>2, DemandSteps, DemandDepends
<1>4. CASE BroadcastUnlock
  <2>1. /\ wpc = "submit" /\ wpc' = "close" /\ clients' = clients \ dead
        /\ UNCHANGED <<cache, wantsMeter, batch, dead, meterWake>>
    BY <1>4 DEF BroadcastUnlock
  <2>2. CASE dead = {}
    <3>1. UNCHANGED clients
      BY <2>1, <2>2
    <3>2. WorkerOwes' <=> WorkerOwes
      BY <2>1, <2>2 DEF WorkerOwes
    <3> QED
      BY <2>1, <3>1, <3>2, DemandSteps, DemandDepends
  <2>3. CASE dead # {}
    <3>1. WorkerOwes'
      BY <2>1, <2>3 DEF WorkerOwes
    <3> QED
      BY <2>1, <3>1, DemandSteps
  <2> QED
    BY <2>2, <2>3
<1>5. CASE BroadcastClose
  <2>1. wpc = "close" /\ UNCHANGED <<cache, clients, wantsMeter>>
    BY <1>5 DEF BroadcastClose
  <2>2. CASE batch = <<ErrorFrame>> /\ dead = {}
    <3>1. meterWake' = (meterWake \/ dead # {}) /\ dead' = {} /\ wpc' = "refresh"
      BY <1>5, <2>2 DEF BroadcastClose
    <3>2. UNCHANGED meterWake
      BY <2>2, <3>1 DEF TypeInv, TypeOK
    <3>3. ~WorkerOwes /\ ~WorkerOwes'
      BY <2>1, <2>2, <3>1 DEF WorkerOwes
    <3> QED
      BY <2>1, <3>2, <3>3, DemandSteps, DemandDepends
  <2>3. CASE batch # <<ErrorFrame>> \/ dead # {}
    <3>1. WorkerOwes
      BY <2>1, <2>3 DEF WorkerOwes
    <3>2. meterWake' = TRUE
      BY <1>5, <2>3 DEF BroadcastClose
    <3> QED
      BY <2>1, <3>1, <3>2, DemandSteps, DemandDepends
  <2> QED
    BY <2>2, <2>3
<1>6. CASE HandleCommand \/ Tick
  <2>1. /\ wpc = "select" /\ UNCHANGED <<cache, clients, wantsMeter, dead, meterWake>>
        /\ wpc' = "refresh" \/ (wpc' = "lock" /\ batch' = <<ErrorFrame>>)
    BY <1>6 DEF HandleCommand, Tick
  <2>2. ~WorkerOwes /\ ~WorkerOwes'
    BY <2>1 DEF WorkerOwes
  <2> QED
    BY <2>1, <2>2, DemandSteps, DemandDepends
<1> QED
  BY <1>1, <1>2, <1>3, <1>4, <1>5, <1>6 DEF Worker

(* The others wake the supervisor in the critical section that changes the *)
(* demand.  A client that connects was not registered: it cannot take a    *)
(* subscription away.                                                      *)
LEMMA OthersAnnounce ==
  ASSUME TypeInv, HubInv,
         \/ \E c \in Clients : Reader(c) \/ Writer(c)
         \/ PublishMeter \/ TakeMeterWake
  PROVE  [Announced!Next]_(Announced!vars)
<1> USE DEF Announced!Next
<1>1. WorkerOwes' <=> WorkerOwes
  <2>1. UNCHANGED workerVars
    BY DEF Reader, Writer, Connect, ReadBadMessage, ReadCommand, ReadSubscribe, ReadFails,
           ReaderLeaves, WriteFrame, WriteFails, WriterSeesDone, WriterLeaves,
           PublishMeter, TakeMeterWake
  <2> QED
    BY <2>1, DemandDepends DEF workerVars
<1>2. UNCHANGED cache
  BY DEF Reader, Writer, Connect, ReadBadMessage, ReadCommand, ReadSubscribe, ReadFails,
         ReaderLeaves, WriteFrame, WriteFails, WriterSeesDone, WriterLeaves,
         PublishMeter, TakeMeterWake, workerVars
<1>3. ASSUME NEW c \in Clients, Connect(c)
      PROVE  UNCHANGED Announced!vars
  <2>1. /\ clients' = clients \cup {c} /\ wantsMeter' = wantsMeter \ {c}
        /\ reader[c] = "none" /\ UNCHANGED meterWake
    BY <1>3 DEF Connect, Idle
  <2>2. c \notin clients
    BY <2>1 DEF HubInv, RegisteredIsServed
  <2>3. clients' \cap wantsMeter' = clients \cap wantsMeter
    BY <2>1, <2>2
  <2>4. Demand' <=> Demand
    BY <1>2, <2>3 DEF Demand
  <2> QED
    BY <1>1, <2>1, <2>4, DemandSteps
<1>4. ASSUME NEW c \in Clients,
             \/ ReadBadMessage(c) \/ ReadCommand(c) \/ ReadFails(c) \/ WriteFrame(c)
      PROVE  UNCHANGED Announced!vars
  <2>1. UNCHANGED <<cache, clients, wantsMeter, meterWake>>
    BY <1>2, <1>4 DEF ReadBadMessage, ReadCommand, ReadFails, WriteFrame
  <2> QED
    BY <1>1, <2>1, DemandSteps, DemandDepends
<1>5. ASSUME NEW c \in Clients,
             \/ \E enabled \in BOOLEAN : ReadSubscribe(c, enabled)
             \/ ReaderLeaves(c) \/ WriteFails(c) \/ WriterSeesDone(c)
      PROVE  Announced!Change
  <2>1. meterWake' = TRUE
    BY <1>5 DEF ReadSubscribe, ReaderLeaves, WriteFails, WriterSeesDone, WriterLeaves
  <2> QED
    BY <1>1, <2>1, DemandSteps
<1>6. CASE PublishMeter
  <2>1. PICK lost \in SUBSET (clients \cap wantsMeter) :
          clients' = clients \ lost /\ meterWake' = (meterWake \/ lost # {})
    BY <1>6 DEF PublishMeter
  <2>2. CASE lost = {}
    <3>1. UNCHANGED <<cache, clients, wantsMeter>>
      BY <1>2, <1>6, <2>1, <2>2 DEF PublishMeter
    <3>2. UNCHANGED meterWake
      BY <2>1, <2>2 DEF TypeInv, TypeOK
    <3> QED
      BY <1>1, <3>1, <3>2, DemandSteps, DemandDepends
  <2>3. CASE lost # {}
    <3>1. meterWake' = TRUE
      BY <2>1, <2>3
    <3> QED
      BY <1>1, <3>1, DemandSteps
  <2> QED
    BY <2>2, <2>3
<1>7. CASE TakeMeterWake
  <2>1. meterWake /\ meterWake' = FALSE /\ UNCHANGED <<clients, wantsMeter>>
    BY <1>7 DEF TakeMeterWake
  <2> QED
    BY <1>1, <1>2, <2>1, DemandSteps, DemandDepends
<1> QED
  BY <1>3, <1>4, <1>5, <1>6, <1>7 DEF Reader, Writer

(***************************************************************************)
(* Whatever its goroutines do, the hub never changes the demand for a      *)
(* meter without waking the supervisor or owing it the wake-up.            *)
(***************************************************************************)
THEOREM HubAnnouncesDemand == Spec => AnnouncesDemand
<1>1. Init => Announced!Init
  <2> SUFFICES ASSUME Init PROVE Announced!Init
    OBVIOUS
  <2>1. cache.connected = FALSE /\ wpc = "refresh" /\ dead = {} /\ meterWake = FALSE
    BY DEF Init
  <2>2. ~Demand /\ ~WorkerOwes
    BY <2>1 DEF Demand, WorkerOwes
  <2>3. Demand \in BOOLEAN /\ WorkerOwes \in BOOLEAN
    BY DEF Demand, WorkerOwes
  <2> QED
    BY <2>1, <2>2, <2>3 DEF Announced!Init
<1>2. TypeInv /\ HubInv /\ [Next]_vars => [Announced!Next]_(Announced!vars)
  <2>1. ASSUME UNCHANGED vars PROVE UNCHANGED Announced!vars
    BY <2>1, DemandSteps, DemandDepends DEF vars
  <2> QED
    BY <2>1, WorkerAnnounces, OthersAnnounce DEF Next
<1> QED
  BY <1>1, <1>2, TypeCorrect, HubInvariant, PTL
     DEF Spec, AnnouncesDemand, Announced!Spec
===========================================================================
