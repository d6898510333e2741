---------------------------- MODULE ServerHub ----------------------------
(***************************************************************************)
(* The WebSocket hub of internal/server/server.go: the device worker (Run, *)
(* refresh, broadcast), the goroutine that reads each peer (HandleWS), the *)
(* goroutine that writes to it (startWriter), the state cache and the      *)
(* queues between them.                                                    *)
(*                                                                         *)
(* Frames keep their kind and what a client may conclude from them; texts, *)
(* JSON and the fields of DeviceState do not matter here.  s.mu is held    *)
(* across steps only by broadcast; every other critical section is one     *)
(* step that waits for MuFree and includes the wakeMeter that follows its  *)
(* Unlock (module MeterSupervisor separates the two).  A submit from a     *)
(* reader takes no lock.                                                   *)
(*                                                                         *)
(* A definition commented "Variant" is what a plausible bug would make of  *)
(* the definition after it.  No specification uses it: it serves to show   *)
(* that a property would notice the bug.                                   *)
(***************************************************************************)
EXTENDS Naturals, Sequences

CONSTANTS
    Clients,        \* the connections that may exist at the same time
    States,         \* the values GetState may return
    NoState,        \* "no valid state", what a client holds without one
    PeerMessages,   \* what peers send in this instance: "bad", "command",
                    \* "subscribe"
    SendQueueLen,   \* sendQueueLen, 64 in the code
    CmdQueueLen     \* capacity of s.cmds, 64 in the code

ASSUME NoStateAssumption == NoState \notin States
ASSUME SendQueueAssumption == SendQueueLen \in Nat /\ SendQueueLen >= 2
ASSUME CmdQueueAssumption == CmdQueueLen \in Nat /\ CmdQueueLen >= 1

VARIABLES
    cache,      \* s.state, s.have, s.connected
    clients,    \* s.clients: the registered clients
    wantsMeter, \* the clients whose wantsMeter is set
    queue,      \* c.send of each client
    closed,     \* the clients whose done channel is closed
    cmds,       \* s.cmds: the client each queued command came from
    wpc,        \* where the device worker is
    batch,      \* the argument of the broadcast the worker is executing
    rest,       \* what that broadcast has still to submit to each client
    dead,       \* its list of peers to drop
    reader,     \* where the HandleWS goroutine of each client is
    writer,     \* where its writer goroutine is
    meterWake,  \* s.meterWake holds its token
    told,       \* history: what the hub frames queued so far tell a client
    halfway     \* history: the clients that were sent a status=true, and
                \* nothing but errors since: the state is still to come

vars == <<cache, clients, wantsMeter, queue, closed, cmds, wpc, batch, rest,
          dead, reader, writer, meterWake, told, halfway>>

workerVars == <<cache, wpc, batch, rest, dead>>

StatusFrame(connected) == [type |-> "status", connected |-> connected]
StateFrame(state) == [type |-> "state", state |-> state]
ErrorFrame == [type |-> "error"]
MeterFrame == [type |-> "meter"]

StatusFrames == {StatusFrame(b) : b \in BOOLEAN}
StateFrames == {StateFrame(s) : s \in States}
Frames == StatusFrames \cup StateFrames \cup {ErrorFrame, MeterFrame}

(* What a client knows: the link to the microphone and its latest state.   *)
Views == [connected : BOOLEAN, state : States \cup {NoState}]
Ignorant == [connected |-> FALSE, state |-> NoState]

(* The reading of a frame the wsEvent comment prescribes: a status=false   *)
(* takes the state away, a state counts after a status=true.               *)
Hear(view, frame) ==
    IF frame.type = "status"
    THEN [connected |-> frame.connected,
          state |-> IF frame.connected THEN view.state ELSE NoState]
    ELSE IF frame.type = "state"
    THEN [connected |-> view.connected, state |-> frame.state]
    ELSE view

(* snapshotLocked: the frames that bring a new client up to date.          *)
Snapshot ==
    IF cache.have /\ cache.connected
    THEN <<StatusFrame(TRUE), StateFrame(cache.state)>>
    ELSE <<StatusFrame(cache.connected)>>

(* What a client that is up to date knows.                                 *)
CacheView ==
    [connected |-> cache.connected,
     state |-> IF cache.have /\ cache.connected THEN cache.state ELSE NoState]

Init ==
    /\ cache = [have |-> FALSE, connected |-> FALSE, state |-> NoState]
    /\ clients = {}
    /\ wantsMeter = {}
    /\ queue = [c \in Clients |-> <<>>]
    /\ closed = {}
    /\ cmds = <<>>
    /\ wpc = "refresh"
    /\ batch = <<>>
    /\ rest = [c \in Clients |-> <<>>]
    /\ dead = {}
    /\ reader = [c \in Clients |-> "none"]
    /\ writer = [c \in Clients |-> "none"]
    /\ meterWake = FALSE
    /\ told = [c \in Clients |-> Ignorant]
    /\ halfway = {}

---------------------------------------------------------------------------
(* client.submit.  Its select has two arms and a default: with room the    *)
(* frame is accepted, a full queue refuses it, and a closed client may do  *)
(* either since select picks among ready arms.                             *)

(* Variant: a send that blocks, without the default of the select.         *)
RefusesOnlyClosed(c) == c \in closed

HasRoom(c) == Len(queue[c]) < SendQueueLen
MayRefuse(c) == Len(queue[c]) >= SendQueueLen \/ c \in closed

Accept(c, frame) ==
    /\ HasRoom(c)
    /\ queue' = [queue EXCEPT ![c] = Append(@, frame)]
    /\ told' = [told EXCEPT ![c] = Hear(@, frame)]
    /\ halfway' = IF frame = StatusFrame(TRUE) THEN halfway \cup {c}
                  ELSE IF frame = ErrorFrame THEN halfway
                  ELSE halfway \ {c}

Refuse(c) ==
    /\ MayRefuse(c)
    /\ UNCHANGED <<queue, told, halfway>>

(* Variant: the hub works without s.mu.                                    *)
Unlocked == TRUE

(* s.mu is not held.                                                       *)
MuFree == wpc # "submit"

---------------------------------------------------------------------------
(* The device worker.                                                      *)

(* refresh up to its call of broadcast: GetState succeeds with some state  *)
(* or fails, and the cache is written under stateMu.                       *)
Refresh ==
    /\ wpc = "refresh"
    /\ \/ \E s \in States :
            /\ cache' = [have |-> TRUE, connected |-> TRUE, state |-> s]
            /\ batch' = <<StatusFrame(TRUE), StateFrame(s)>>
       \/ /\ cache' = [cache EXCEPT !.have = FALSE, !.connected = FALSE]
          /\ batch' = <<StatusFrame(FALSE)>>
    /\ wpc' = "lock"
    /\ UNCHANGED <<clients, wantsMeter, queue, closed, cmds, rest, dead,
                   reader, writer, meterWake, told, halfway>>

BroadcastLock ==
    /\ wpc = "lock"
    /\ rest' = [c \in Clients |-> IF c \in clients THEN batch ELSE <<>>]
    /\ wpc' = "submit"
    /\ UNCHANGED <<cache, clients, wantsMeter, queue, closed, cmds, batch,
                   dead, reader, writer, meterWake, told, halfway>>

(* Variant: no break after a failed submit.                                *)
BroadcastSubmitGoesOn(c) ==
    /\ wpc = "submit"
    /\ rest[c] # <<>>
    /\ \A d \in Clients \ {c} : rest[d] \in {<<>>, batch}
    /\ \/ Accept(c, Head(rest[c])) /\ UNCHANGED dead
       \/ Refuse(c) /\ dead' = dead \cup {c}
    /\ rest' = [rest EXCEPT ![c] = Tail(@)]
    /\ UNCHANGED <<cache, clients, wantsMeter, closed, cmds, wpc, batch,
                   reader, writer, meterWake>>

(* One submit of the double loop of broadcast.  The peers come in any      *)
(* order, but one is served completely before the next.                    *)
BroadcastSubmit(c) ==
    /\ wpc = "submit"
    /\ rest[c] # <<>>
    /\ \A d \in Clients \ {c} : rest[d] \in {<<>>, batch}
    /\ \/ /\ Accept(c, Head(rest[c]))
          /\ rest' = [rest EXCEPT ![c] = Tail(@)]
          /\ UNCHANGED dead
       \/ /\ Refuse(c)
          /\ rest' = [rest EXCEPT ![c] = <<>>]
          /\ dead' = dead \cup {c}
    /\ UNCHANGED <<cache, clients, wantsMeter, closed, cmds, wpc, batch,
                   reader, writer, meterWake>>

(* Variant: the dead peers stay registered.                                *)
BroadcastUnlockKeepsDead ==
    /\ wpc = "submit"
    /\ \A c \in Clients : rest[c] = <<>>
    /\ wpc' = "close"
    /\ UNCHANGED <<cache, clients, wantsMeter, queue, closed, cmds, batch,
                   rest, dead, reader, writer, meterWake, told, halfway>>

BroadcastUnlock ==
    /\ wpc = "submit"
    /\ \A c \in Clients : rest[c] = <<>>
    /\ clients' = clients \ dead
    /\ wpc' = "close"
    /\ UNCHANGED <<cache, wantsMeter, queue, closed, cmds, batch, rest, dead,
                   reader, writer, meterWake, told, halfway>>

(* Variant: broadcast does not wake the supervisor for those it dropped.   *)
BroadcastCloseSilently ==
    /\ wpc = "close"
    /\ closed' = closed \cup dead
    /\ dead' = {}
    /\ batch' = <<>>
    /\ IF batch = <<ErrorFrame>>
       THEN wpc' = "refresh" /\ UNCHANGED meterWake
       ELSE wpc' = "select" /\ meterWake' = TRUE
    /\ UNCHANGED <<cache, clients, wantsMeter, queue, cmds, rest, reader,
                   writer, told, halfway>>

(* The dropped peers are closed after the lock is released.  An error      *)
(* broadcast is followed by the refresh after the command, a refresh by    *)
(* its own wakeMeter and the worker's select.                              *)
BroadcastClose ==
    /\ wpc = "close"
    /\ closed' = closed \cup dead
    /\ dead' = {}
    /\ batch' = <<>>
    /\ IF batch = <<ErrorFrame>>
       THEN wpc' = "refresh" /\ meterWake' = (meterWake \/ dead # {})
       ELSE wpc' = "select" /\ meterWake' = TRUE
    /\ UNCHANGED <<cache, clients, wantsMeter, queue, cmds, rest, reader,
                   writer, told, halfway>>

(* Variant: a command that failed stays at the head of the queue.          *)
HandleCommandRetries ==
    /\ wpc = "select"
    /\ cmds # <<>>
    /\ \/ cmds' = Tail(cmds) /\ wpc' = "refresh" /\ UNCHANGED batch
       \/ UNCHANGED cmds /\ wpc' = "lock" /\ batch' = <<ErrorFrame>>
    /\ UNCHANGED <<cache, clients, wantsMeter, queue, closed, rest, dead,
                   reader, writer, meterWake, told, halfway>>

(* The select of Run takes a command: handleAction succeeds, or fails and  *)
(* its error is broadcast to all clients; a refresh follows either way.    *)
HandleCommand ==
    /\ wpc = "select"
    /\ cmds # <<>>
    /\ cmds' = Tail(cmds)
    /\ \/ wpc' = "refresh" /\ UNCHANGED batch
       \/ wpc' = "lock" /\ batch' = <<ErrorFrame>>
    /\ UNCHANGED <<cache, clients, wantsMeter, queue, closed, rest, dead,
                   reader, writer, meterWake, told, halfway>>

Tick ==
    /\ wpc = "select"
    /\ wpc' = "refresh"
    /\ UNCHANGED <<cache, clients, wantsMeter, queue, closed, cmds, batch,
                   rest, dead, reader, writer, meterWake, told, halfway>>

---------------------------------------------------------------------------
(* The HandleWS goroutine of client c.                                     *)

(* A connection nobody refers to any more may be replaced by a new one.    *)
Idle(c) == reader[c] = "none" /\ writer[c] = "none" /\ c \notin dead

(* newClient, register with its snapshot under s.mu, startWriter.          *)
Connect(c) ==
    /\ Idle(c)
    /\ MuFree
    /\ clients' = clients \cup {c}
    /\ wantsMeter' = wantsMeter \ {c}
    /\ closed' = closed \ {c}
    /\ queue' = [queue EXCEPT ![c] = Snapshot]
    /\ told' = [told EXCEPT ![c] =
                    IF Len(Snapshot) = 1 THEN Hear(Ignorant, Snapshot[1])
                    ELSE Hear(Hear(Ignorant, Snapshot[1]), Snapshot[2])]
    /\ halfway' = halfway \ {c}
    /\ reader' = [reader EXCEPT ![c] = "reading"]
    /\ writer' = [writer EXCEPT ![c] = "loop"]
    /\ UNCHANGED <<workerVars, cmds, meterWake>>

(* An error for the peer itself: submitted without s.mu, and a refusal     *)
(* ends the read loop.                                                     *)
SubmitError(c) ==
    \/ Accept(c, ErrorFrame) /\ UNCHANGED reader
    \/ Refuse(c) /\ reader' = [reader EXCEPT ![c] = "leaving"]

(* Malformed JSON, or subscribe_meter without its boolean.                 *)
ReadBadMessage(c) ==
    /\ "bad" \in PeerMessages
    /\ reader[c] = "reading"
    /\ SubmitError(c)
    /\ UNCHANGED <<workerVars, clients, wantsMeter, closed, cmds, writer,
                   meterWake>>

ReadCommand(c) ==
    /\ "command" \in PeerMessages
    /\ reader[c] = "reading"
    /\ \/ /\ Len(cmds) < CmdQueueLen
          /\ cmds' = Append(cmds, c)
          /\ UNCHANGED <<queue, told, halfway, reader>>
       \/ /\ Len(cmds) >= CmdQueueLen
          /\ SubmitError(c)
          /\ UNCHANGED cmds
    /\ UNCHANGED <<workerVars, clients, wantsMeter, closed, writer, meterWake>>

(* setMeterSubscription: the notice is queued under the lock, a client     *)
(* that refuses it is dropped and closed; then wakeMeter.                  *)
ReadSubscribe(c, enabled) ==
    /\ "subscribe" \in PeerMessages
    /\ reader[c] = "reading"
    /\ MuFree
    /\ meterWake' = TRUE
    /\ IF c \in clients
       THEN /\ wantsMeter' = IF enabled THEN wantsMeter \cup {c}
                                        ELSE wantsMeter \ {c}
            /\ \/ Accept(c, MeterFrame) /\ UNCHANGED <<clients, closed>>
               \/ /\ Refuse(c)
                  /\ clients' = clients \ {c}
                  /\ closed' = closed \cup {c}
       ELSE UNCHANGED <<wantsMeter, queue, told, halfway, clients, closed>>
    /\ UNCHANGED <<workerVars, cmds, reader, writer>>

(* ReadMessage fails: the peer went away, or the writer closed the         *)
(* connection.                                                             *)
ReadFails(c) ==
    /\ reader[c] = "reading"
    /\ reader' = [reader EXCEPT ![c] = "leaving"]
    /\ UNCHANGED <<workerVars, clients, wantsMeter, queue, closed, cmds,
                   writer, meterWake, told, halfway>>

(* Variant: HandleWS returns without unregister.                           *)
ReaderLeavesRegistered(c) ==
    /\ reader[c] = "leaving"
    /\ closed' = closed \cup {c}
    /\ meterWake' = TRUE
    /\ reader' = [reader EXCEPT ![c] = "none"]
    /\ UNCHANGED <<workerVars, clients, wantsMeter, queue, cmds, writer,
                   told, halfway>>

(* Variant: HandleWS returns without c.close.                              *)
ReaderLeavesUnclosed(c) ==
    /\ reader[c] = "leaving"
    /\ MuFree
    /\ clients' = clients \ {c}
    /\ meterWake' = TRUE
    /\ reader' = [reader EXCEPT ![c] = "none"]
    /\ UNCHANGED <<workerVars, wantsMeter, queue, closed, cmds, writer,
                   told, halfway>>

(* The deferred unregister of HandleWS and c.close.                        *)
ReaderLeaves(c) ==
    /\ reader[c] = "leaving"
    /\ MuFree
    /\ clients' = clients \ {c}
    /\ closed' = closed \cup {c}
    /\ meterWake' = TRUE
    /\ reader' = [reader EXCEPT ![c] = "none"]
    /\ UNCHANGED <<workerVars, wantsMeter, queue, cmds, writer, told, halfway>>

---------------------------------------------------------------------------
(* The writer goroutine of client c.                                       *)

WriteFrame(c) ==
    /\ writer[c] = "loop"
    /\ queue[c] # <<>>
    /\ queue' = [queue EXCEPT ![c] = Tail(@)]
    /\ UNCHANGED <<workerVars, clients, wantsMeter, closed, cmds, reader,
                   writer, meterWake, told, halfway>>

(* Its deferred unregister and conn.Close, which ends the reader too.      *)
WriterLeaves(c) ==
    /\ MuFree
    /\ clients' = clients \ {c}
    /\ meterWake' = TRUE
    /\ writer' = [writer EXCEPT ![c] = "none"]
    /\ UNCHANGED <<workerVars, wantsMeter, closed, cmds, reader,
                   told, halfway>>

(* A write fails or exceeds writeWait.                                     *)
WriteFails(c) ==
    /\ writer[c] = "loop"
    /\ queue[c] # <<>>
    /\ queue' = [queue EXCEPT ![c] = Tail(@)]
    /\ WriterLeaves(c)

WriterSeesDone(c) ==
    /\ writer[c] = "loop"
    /\ c \in closed
    /\ WriterLeaves(c)
    /\ UNCHANGED queue

---------------------------------------------------------------------------
(* The meter's side of the hub (module MeterSupervisor has the rest).      *)

(* publishMeter: a reading for every subscriber; who does not take it is   *)
(* dropped and closed under the lock.                                      *)
PublishMeter ==
    LET to == clients \cap wantsMeter
    IN  /\ MuFree
        /\ to # {}
        /\ \E lost \in SUBSET to :
              /\ \A c \in lost : MayRefuse(c)
              /\ \A c \in to \ lost : HasRoom(c)
              /\ queue' = [c \in Clients |-> IF c \in to \ lost
                                             THEN Append(queue[c], MeterFrame)
                                             ELSE queue[c]]
              /\ clients' = clients \ lost
              /\ halfway' = halfway \ (to \ lost)
              /\ closed' = closed \cup lost
              /\ meterWake' = (meterWake \/ lost # {})
        /\ UNCHANGED <<workerVars, wantsMeter, cmds, reader, writer, told>>

(* runMeter receives from meterWake.                                       *)
TakeMeterWake ==
    /\ meterWake
    /\ meterWake' = FALSE
    /\ UNCHANGED <<workerVars, clients, wantsMeter, queue, closed, cmds,
                   reader, writer, told, halfway>>

---------------------------------------------------------------------------
Worker ==
    \/ Refresh \/ BroadcastLock \/ BroadcastUnlock \/ BroadcastClose
    \/ \E c \in Clients : BroadcastSubmit(c)
    \/ HandleCommand \/ Tick

Reader(c) ==
    \/ Connect(c) \/ ReadBadMessage(c) \/ ReadCommand(c)
    \/ \E enabled \in BOOLEAN : ReadSubscribe(c, enabled)
    \/ ReadFails(c) \/ ReaderLeaves(c)

Writer(c) == WriteFrame(c) \/ WriteFails(c) \/ WriterSeesDone(c)

Next ==
    \/ Worker
    \/ \E c \in Clients : Reader(c) \/ Writer(c)
    \/ PublishMeter \/ TakeMeterWake

Spec == Init /\ [][Next]_vars

(* What the Go runtime owes the goroutines.  The worker keeps running; its *)
(* select is random, so commands cannot lose against the ticker for ever;  *)
(* a mutex is not denied for ever, and a closed connection fails the read. *)
(* Nothing is assumed of WriteFrame: a peer may stop draining.             *)
Fairness ==
    /\ WF_vars(Worker)
    /\ SF_vars(HandleCommand)
    /\ \A c \in Clients :
          /\ SF_vars(ReadFails(c) /\ writer[c] = "none")
          /\ SF_vars(ReaderLeaves(c))
          /\ SF_vars(WriterSeesDone(c))

FairSpec == Spec /\ Fairness

---------------------------------------------------------------------------
(* The type of the hub's state and of the history variable.                *)
TypeOK ==
    /\ cache \in [have : BOOLEAN, connected : BOOLEAN,
                  state : States \cup {NoState}]
    /\ clients \subseteq Clients
    /\ wantsMeter \subseteq Clients
    /\ queue \in [Clients -> Seq(Frames)]
    /\ closed \subseteq Clients
    /\ cmds \in Seq(Clients)
    /\ wpc \in {"refresh", "lock", "submit", "close", "select"}
    /\ batch \in Seq(Frames)
    /\ rest \in [Clients -> Seq(Frames)]
    /\ dead \subseteq Clients
    /\ reader \in [Clients -> {"none", "reading", "leaving"}]
    /\ writer \in [Clients -> {"none", "loop"}]
    /\ meterWake \in BOOLEAN
    /\ told \in [Clients -> Views]
    /\ halfway \subseteq Clients

(* No client is left behind: apart from the broadcast in progress, the     *)
(* frames queued for a registered client tell it exactly what the cache    *)
(* holds, whatever registrations, drops and failed refreshes came in       *)
(* between (refresh, broadcast, register, snapshotLocked).                 *)
UpToDate ==
    \A c \in clients \ dead :
        wpc # "lock" /\ rest[c] = <<>> => told[c] = CacheView

(* A state is only ever queued for a client that has last been told that   *)
(* the microphone is connected (the wsEvent contract, lines 84-91).        *)
StateNeedsStatus ==
    \A c \in Clients : ~told[c].connected => told[c].state = NoState

(* A registered client has both its goroutines and is not closed: nobody   *)
(* is registered again, or kept, once one of them has unregistered it, so  *)
(* the hub never feeds a queue that no writer drains.                      *)
RegisteredIsServed ==
    \A c \in clients :
        /\ c \notin closed
        /\ reader[c] # "none"
        /\ writer[c] # "none"

(* A frame is put into the queue of c in this step, and which one.         *)
Sent(c) == Len(queue'[c]) > Len(queue[c])
LastSent(c) == queue'[c][Len(queue'[c])]

(* A client that waits for its state is sent that state or an error.       *)
StateOrError ==
    \A c \in halfway :
        ~Idle(c) /\ Sent(c) =>
            LastSent(c) \in {ErrorFrame, StateFrame(cache.state)}

(* What is left of "immediately followed by the state": once a status=true *)
(* has been sent to a client, nothing is sent to it on that connection but *)
(* errors raised by its own messages until the very state the status       *)
(* belongs to: never a meter frame, another status or a newer state, and   *)
(* whatever its writer has taken from the queue meanwhile (broadcast under *)
(* s.mu, setMeterSubscription, publishMeter, submitError).                 *)
OnlyErrorsBetween == [][StateOrError]_vars

(* refresh's comment as it stands: status=true is immediately followed by  *)
(* the state, the two enqueued together (server.go:590-591).               *)
StateImmediatelyFollows ==
    \A c \in Clients : \A i \in 1 .. Len(queue[c]) - 1 :
        queue[c][i] = StatusFrame(TRUE) => queue[c][i + 1].type = "state"

(* A peer that no longer drains its queue never blocks the device worker:  *)
(* it comes back to its select again and again.                            *)
WorkerNeverBlocks == []<>(wpc = "select")

(* A command queue at its limit is drained: no accepted command waits for  *)
(* ever behind the ticker or behind a broadcast.                           *)
FullQueueDrains ==
    (Len(cmds) = CmdQueueLen) ~> (Len(cmds) < CmdQueueLen)

(* A dropped peer is cleaned up: once it is unregistered, by whichever     *)
(* goroutine, both its goroutines end (c.close and conn.Close reach the    *)
(* other side).                                                            *)
DroppedPeerEnds ==
    \A c \in Clients : (c \notin clients) ~> Idle(c)

---------------------------------------------------------------------------
(* The hub as a StateFeed: the truth is what the cache holds, a client is  *)
(* served while it is registered and not about to be dropped, and it has   *)
(* been told what its queued frames say.                                   *)
Feed == INSTANCE StateFeed WITH
            truth <- CacheView.state,
            joined <- clients \ dead,
            view <- [c \in Clients |-> told[c].state]

(* The hub keeps the promise of StateFeed: whatever the goroutines do, a   *)
(* client is told the truth when it joins, and nothing else later.         *)
ImplementsFeed == Feed!Spec

(* And no client that stays is left behind for ever: it does not depend on *)
(* whether this or another peer drains its queue.                          *)
NobodyLeftBehind == Feed!FairSpec

(* What meterWanted would compute, and a worker that is still to call      *)
(* wakeMeter: refresh does so after its broadcast, and broadcast itself if *)
(* it has dropped a client.                                                *)
Demand == cache.connected /\ clients \cap wantsMeter # {}
WorkerOwes ==
    \/ wpc \in {"lock", "submit", "close"} /\ batch # <<ErrorFrame>>
    \/ wpc = "close" /\ dead # {}

(* The hub never changes the demand for a meter in silence, whoever comes, *)
(* goes, subscribes or is dropped, and whether the microphone comes or     *)
(* goes (refresh, broadcast, register, setMeterSubscription, unregister,   *)
(* publishMeter).                                                          *)
Announced == INSTANCE MeterDemand WITH
                 demand <- Demand, owed <- WorkerOwes, wake <- meterWake
AnnouncesDemand == Announced!Spec
===========================================================================
