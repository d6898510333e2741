------------------------- MODULE MeterCapture_proofs -------------------------
(***************************************************************************)
(* Proofs about MeterCapture, for any set of indices the broker may give:   *)
(* its types, that levels are published from a verified stream only, that a *)
(* capture never runs unsupervised, and that it leaves nothing behind.      *)
(***************************************************************************)
EXTENDS MeterCapture, TLAPS

Channel == {<<>>, <<"ok">>, <<"error">>}

\* The capture's own context ends only after the loop has given up.
StopInv == Capturing => ~stopped

\* A success is on its way to the loop, or known to it, only if the stream was seen.
ProofInv ==
    /\ monitor = "report" /\ result = "ok" => proven
    /\ routes = <<"ok">> => proven
    /\ verified => proven
    /\ pc = "emit" => verified

\* Once joined, both goroutines are gone for good.
JoinInv ==
    /\ NothingLeftBehind
    /\ pc = "wait" => reader = "done" /\ monitor = "done"

\* What the goroutines send is a result.
SendInv ==
    /\ reader = "send" => chunk # "none"
    /\ monitor = "report" => result # "none"

Inv == TypeOK /\ StopInv /\ ProofInv /\ JoinInv /\ SendInv /\ NeverUnsupervised

\* The contents of a channel of capacity one.
LEMMA ChannelFacts ==
  ASSUME NEW q \in Channel, q # <<>>
  PROVE  /\ Tail(q) = <<>>
         /\ Head(q) \in {"ok", "error"}
         /\ q = <<Head(q)>>
<1>1. CASE q = <<"ok">>
  BY <1>1
<1>2. CASE q = <<"error">>
  BY <1>2
<1> QED
  BY <1>1, <1>2 DEF Channel

\* Every variable keeps the type TypeOK gives it.
LEMMA TypeStep ==
  ASSUME TypeOK, SendInv, [Next]_vars
  PROVE  TypeOK'
<1> USE SourcesAssumption DEF TypeOK, SendInv, loopVars, readerVars, monitorVars, brokerVars
<1>r. routes # <<>> => Tail(routes) = <<>>
  BY ChannelFacts DEF Channel
<1>p. pcm # <<>> => Tail(pcm) = <<>>
  BY ChannelFacts DEF Channel
<1>1. CASE Discover
  BY <1>1 DEF Discover
<1>2. CASE StartFails
  BY <1>2 DEF StartFails
<1>3. CASE StartCapture
  BY <1>3 DEF StartCapture
<1>4. CASE ReportError
  BY <1>4 DEF ReportError
<1>5. CASE Pause
  BY <1>5 DEF Pause
<1>6. CASE SelectDone
  BY <1>6 DEF SelectDone, GiveUp, Done
<1>7. CASE SelectStartup
  BY <1>7 DEF SelectStartup, GiveUp
<1>8. CASE SelectWatchdog
  BY <1>8 DEF SelectWatchdog, GiveUp
<1>9. CASE SelectRoute
  <2>1. routes' = <<>>
    BY <1>9, <1>r DEF SelectRoute
  <2>2. pc' \in {pc, "cleanup"} /\ (verified' = verified \/ verified' = TRUE)
    BY <1>9, Zenon DEF SelectRoute, GiveUp
  <2>3. UNCHANGED <<cancelled, selected, stopped, pending, startup, parec, reader, chunk, pcm,
                    monitor, checked, result, proven, mic, stream>>
    BY <1>9 DEF SelectRoute, GiveUp
  <2>4. verified' \in BOOLEAN
    BY <2>2, Zenon
  <2> QED
    BY <2>1, <2>2, <2>3, <2>4
<1>10. CASE SelectChunk
  <2>1. pcm' = <<>>
    BY <1>10, <1>p DEF SelectChunk
  <2>2. pc' \in {pc, "cleanup"} /\ (pending' = pending \/ pending' = TRUE)
    BY <1>10, Zenon DEF SelectChunk, GiveUp
  <2>3. UNCHANGED <<cancelled, selected, stopped, verified, startup, parec, reader, chunk,
                    monitor, checked, result, routes, proven, mic, stream>>
    BY <1>10 DEF SelectChunk, GiveUp
  <2>4. pending' \in BOOLEAN
    BY <2>2, Zenon
  <2> QED
    BY <2>1, <2>2, <2>3, <2>4
<1>11. CASE SelectPublish
  <2>1. pc' \in {pc, "emit"} /\ (pending' = pending \/ pending' = FALSE)
    BY <1>11, Zenon DEF SelectPublish
  <2>2. UNCHANGED <<cancelled, selected, stopped, verified, startup, parec, reader, chunk, pcm,
                    monitor, checked, result, routes, proven, mic, stream>>
    BY <1>11 DEF SelectPublish
  <2>3. pending' \in BOOLEAN
    BY <2>1, Zenon
  <2> QED
    BY <2>1, <2>2, <2>3
<1>12. CASE Emit
  <2>1. pending' \in BOOLEAN /\ startup' \in BOOLEAN
    BY <1>12, Zenon DEF Emit
  <2>2. pc' = "select"
    BY <1>12 DEF Emit
  <2>3. UNCHANGED <<cancelled, selected, stopped, verified, parec, reader, chunk, pcm,
                    monitor, checked, result, routes, proven, mic, stream>>
    BY <1>12 DEF Emit
  <2> QED
    BY <2>1, <2>2, <2>3
<1>13. CASE Cleanup
  BY <1>13 DEF Cleanup
<1>14. CASE Join
  BY <1>14 DEF Join
<1>15. CASE Wait
  BY <1>15 DEF Wait
<1>16. CASE ReadChunk
  BY <1>16 DEF ReadChunk
<1>17. CASE ReadEnds
  BY <1>17 DEF ReadEnds
<1>18. CASE SendChunk
  BY <1>18 DEF SendChunk, Done
<1>19. CASE SendAborts
  BY <1>19 DEF SendAborts, Done
<1>20. CASE CheckSources
  BY <1>20 DEF CheckSources, Done
<1>21. CASE CheckOutputs
  <2>1. monitor' \in {"report", "retry"} /\ result' \in {result, "ok", "error"}
    BY <1>21 DEF CheckOutputs
  <2>2. proven' \in BOOLEAN
    BY <1>21, Zenon DEF CheckOutputs
  <2>3. UNCHANGED <<cancelled, pc, selected, stopped, verified, pending, startup, parec, reader,
                    chunk, pcm, checked, routes, mic, stream>>
    BY <1>21 DEF CheckOutputs
  <2> QED
    BY <2>1, <2>2, <2>3
<1>22. CASE ReportRoute
  BY <1>22 DEF ReportRoute, Done
<1>23. CASE MonitorPause
  BY <1>23 DEF MonitorPause, Done
<1>24. CASE MicGoes
  BY <1>24 DEF MicGoes
<1>25. CASE MicComes
  BY <1>25 DEF MicComes
<1>26. CASE Routes
  BY <1>26 DEF Routes
<1>27. CASE ChildExits
  BY <1>27 DEF ChildExits
<1>28. CASE Cancel
  BY <1>28 DEF Cancel
<1>29. CASE UNCHANGED vars
  BY <1>29 DEF vars
<1> QED
  BY <1>1, <1>2, <1>3, <1>4, <1>5, <1>6, <1>7, <1>8, <1>9, <1>10,
     <1>11, <1>12, <1>13, <1>14, <1>15, <1>16, <1>17, <1>18, <1>19,
     <1>20, <1>21, <1>22, <1>23, <1>24, <1>25, <1>26, <1>27, <1>28,
     <1>29
     DEF Next, Loop, Reader, Monitor, Broker

\* A capture's context is open while its loop runs.
LEMMA StopStep ==
  ASSUME TypeOK, StopInv, [Next]_vars
  PROVE  StopInv'
<1> USE DEF TypeOK, StopInv, Capturing, loopVars, readerVars, monitorVars, brokerVars
<1>1. CASE Discover
  BY <1>1 DEF Discover
<1>2. CASE StartFails
  BY <1>2 DEF StartFails
<1>3. CASE StartCapture
  BY <1>3 DEF StartCapture
<1>4. CASE ReportError
  BY <1>4 DEF ReportError
<1>5. CASE Pause
  BY <1>5 DEF Pause
<1>6. CASE SelectDone
  BY <1>6 DEF SelectDone, GiveUp, Done
<1>7. CASE SelectStartup
  BY <1>7 DEF SelectStartup, GiveUp
<1>8. CASE SelectWatchdog
  BY <1>8 DEF SelectWatchdog, GiveUp
<1>9. CASE SelectRoute
  BY <1>9 DEF SelectRoute, GiveUp
<1>10. CASE SelectChunk
  BY <1>10 DEF SelectChunk, GiveUp
<1>11. CASE SelectPublish
  BY <1>11 DEF SelectPublish, Done
<1>12. CASE Emit
  BY <1>12 DEF Emit
<1>13. CASE Cleanup
  BY <1>13 DEF Cleanup
<1>14. CASE Join
  BY <1>14 DEF Join
<1>15. CASE Wait
  BY <1>15 DEF Wait
<1>16. CASE ReadChunk
  BY <1>16 DEF ReadChunk
<1>17. CASE ReadEnds
  BY <1>17 DEF ReadEnds
<1>18. CASE SendChunk
  BY <1>18 DEF SendChunk, Done
<1>19. CASE SendAborts
  BY <1>19 DEF SendAborts, Done
<1>20. CASE CheckSources
  BY <1>20 DEF CheckSources, Done
<1>21. CASE CheckOutputs
  BY <1>21 DEF CheckOutputs
<1>22. CASE ReportRoute
  BY <1>22 DEF ReportRoute, Done
<1>23. CASE MonitorPause
  BY <1>23 DEF MonitorPause, Done
<1>24. CASE MicGoes
  BY <1>24 DEF MicGoes
<1>25. CASE MicComes
  BY <1>25 DEF MicComes
<1>26. CASE Routes
  BY <1>26 DEF Routes
<1>27. CASE ChildExits
  BY <1>27 DEF ChildExits
<1>28. CASE Cancel
  BY <1>28 DEF Cancel
<1>29. CASE UNCHANGED vars
  BY <1>29 DEF vars
<1> QED
  BY <1>1, <1>2, <1>3, <1>4, <1>5, <1>6, <1>7, <1>8, <1>9, <1>10,
     <1>11, <1>12, <1>13, <1>14, <1>15, <1>16, <1>17, <1>18, <1>19,
     <1>20, <1>21, <1>22, <1>23, <1>24, <1>25, <1>26, <1>27, <1>28,
     <1>29
     DEF Next, Loop, Reader, Monitor, Broker

\* A success passes from the monitor to the loop, never out of nothing.
LEMMA ProofStep ==
  ASSUME TypeOK, ProofInv, [Next]_vars
  PROVE  ProofInv'
<1> USE DEF TypeOK, ProofInv, loopVars, readerVars, monitorVars, brokerVars
<1>r. routes # <<>> => Tail(routes) = <<>> /\ (Head(routes) # "error" => routes = <<"ok">>)
  BY ChannelFacts DEF Channel
<1>1. CASE Discover
  BY <1>1 DEF Discover
<1>2. CASE StartFails
  BY <1>2 DEF StartFails
<1>3. CASE StartCapture
  BY <1>3 DEF StartCapture
<1>4. CASE ReportError
  BY <1>4 DEF ReportError
<1>5. CASE Pause
  BY <1>5 DEF Pause
<1>6. CASE SelectDone
  BY <1>6 DEF SelectDone, GiveUp, Done
<1>7. CASE SelectStartup
  BY <1>7 DEF SelectStartup, GiveUp
<1>8. CASE SelectWatchdog
  BY <1>8 DEF SelectWatchdog, GiveUp
<1>9. CASE SelectRoute
  BY <1>9, <1>r DEF SelectRoute, GiveUp
<1>10. CASE SelectChunk
  BY <1>10 DEF SelectChunk, GiveUp
<1>11. CASE SelectPublish
  BY <1>11 DEF SelectPublish, Done
<1>12. CASE Emit
  BY <1>12 DEF Emit
<1>13. CASE Cleanup
  BY <1>13 DEF Cleanup
<1>14. CASE Join
  BY <1>14 DEF Join
<1>15. CASE Wait
  BY <1>15 DEF Wait
<1>16. CASE ReadChunk
  BY <1>16 DEF ReadChunk
<1>17. CASE ReadEnds
  BY <1>17 DEF ReadEnds
<1>18. CASE SendChunk
  BY <1>18 DEF SendChunk, Done
<1>19. CASE SendAborts
  BY <1>19 DEF SendAborts, Done
<1>20. CASE CheckSources
  BY <1>20 DEF CheckSources, Done
<1>21. CASE CheckOutputs
  BY <1>21 DEF CheckOutputs
<1>22. CASE ReportRoute
  BY <1>22 DEF ReportRoute, Done
<1>23. CASE MonitorPause
  BY <1>23 DEF MonitorPause, Done
<1>24. CASE MicGoes
  BY <1>24 DEF MicGoes
<1>25. CASE MicComes
  BY <1>25 DEF MicComes
<1>26. CASE Routes
  BY <1>26 DEF Routes
<1>27. CASE ChildExits
  BY <1>27 DEF ChildExits
<1>28. CASE Cancel
  BY <1>28 DEF Cancel
<1>29. CASE UNCHANGED vars
  BY <1>29 DEF vars
<1> QED
  BY <1>1, <1>2, <1>3, <1>4, <1>5, <1>6, <1>7, <1>8, <1>9, <1>10,
     <1>11, <1>12, <1>13, <1>14, <1>15, <1>16, <1>17, <1>18, <1>19,
     <1>20, <1>21, <1>22, <1>23, <1>24, <1>25, <1>26, <1>27, <1>28,
     <1>29
     DEF Next, Loop, Reader, Monitor, Broker

\* Goroutines that have been joined, and a child that has been reaped, do not come back.
LEMMA JoinStep ==
  ASSUME TypeOK, JoinInv, [Next]_vars
  PROVE  JoinInv'
<1> USE DEF TypeOK, JoinInv, NothingLeftBehind, loopVars, readerVars, monitorVars, brokerVars
<1>1. CASE Discover
  BY <1>1 DEF Discover
<1>2. CASE StartFails
  BY <1>2 DEF StartFails
<1>3. CASE StartCapture
  BY <1>3 DEF StartCapture
<1>4. CASE ReportError
  BY <1>4 DEF ReportError
<1>5. CASE Pause
  BY <1>5 DEF Pause
<1>6. CASE SelectDone
  BY <1>6 DEF SelectDone, GiveUp, Done
<1>7. CASE SelectStartup
  BY <1>7 DEF SelectStartup, GiveUp
<1>8. CASE SelectWatchdog
  BY <1>8 DEF SelectWatchdog, GiveUp
<1>9. CASE SelectRoute
  BY <1>9 DEF SelectRoute, GiveUp
<1>10. CASE SelectChunk
  BY <1>10 DEF SelectChunk, GiveUp
<1>11. CASE SelectPublish
  BY <1>11 DEF SelectPublish, Done
<1>12. CASE Emit
  BY <1>12 DEF Emit
<1>13. CASE Cleanup
  BY <1>13 DEF Cleanup
<1>14. CASE Join
  BY <1>14 DEF Join
<1>15. CASE Wait
  BY <1>15 DEF Wait
<1>16. CASE ReadChunk
  BY <1>16 DEF ReadChunk
<1>17. CASE ReadEnds
  BY <1>17 DEF ReadEnds
<1>18. CASE SendChunk
  BY <1>18 DEF SendChunk, Done
<1>19. CASE SendAborts
  BY <1>19 DEF SendAborts, Done
<1>20. CASE CheckSources
  BY <1>20 DEF CheckSources, Done
<1>21. CASE CheckOutputs
  BY <1>21 DEF CheckOutputs
<1>22. CASE ReportRoute
  BY <1>22 DEF ReportRoute, Done
<1>23. CASE MonitorPause
  BY <1>23 DEF MonitorPause, Done
<1>24. CASE MicGoes
  BY <1>24 DEF MicGoes
<1>25. CASE MicComes
  BY <1>25 DEF MicComes
<1>26. CASE Routes
  BY <1>26 DEF Routes
<1>27. CASE ChildExits
  BY <1>27 DEF ChildExits
<1>28. CASE Cancel
  BY <1>28 DEF Cancel
<1>29. CASE UNCHANGED vars
  BY <1>29 DEF vars
<1> QED
  BY <1>1, <1>2, <1>3, <1>4, <1>5, <1>6, <1>7, <1>8, <1>9, <1>10,
     <1>11, <1>12, <1>13, <1>14, <1>15, <1>16, <1>17, <1>18, <1>19,
     <1>20, <1>21, <1>22, <1>23, <1>24, <1>25, <1>26, <1>27, <1>28,
     <1>29
     DEF Next, Loop, Reader, Monitor, Broker

\* A goroutine has a result when it comes to its send.
LEMMA SendStep ==
  ASSUME TypeOK, SendInv, [Next]_vars
  PROVE  SendInv'
<1> USE DEF TypeOK, SendInv, loopVars, readerVars, monitorVars, brokerVars
<1>1. CASE Discover
  BY <1>1 DEF Discover
<1>2. CASE StartFails
  BY <1>2 DEF StartFails
<1>3. CASE StartCapture
  BY <1>3 DEF StartCapture
<1>4. CASE ReportError
  BY <1>4 DEF ReportError
<1>5. CASE Pause
  BY <1>5 DEF Pause
<1>6. CASE SelectDone
  BY <1>6 DEF SelectDone, GiveUp, Done
<1>7. CASE SelectStartup
  BY <1>7 DEF SelectStartup, GiveUp
<1>8. CASE SelectWatchdog
  BY <1>8 DEF SelectWatchdog, GiveUp
<1>9. CASE SelectRoute
  BY <1>9 DEF SelectRoute, GiveUp
<1>10. CASE SelectChunk
  BY <1>10 DEF SelectChunk, GiveUp
<1>11. CASE SelectPublish
  BY <1>11 DEF SelectPublish, Done
<1>12. CASE Emit
  BY <1>12 DEF Emit
<1>13. CASE Cleanup
  BY <1>13 DEF Cleanup
<1>14. CASE Join
  BY <1>14 DEF Join
<1>15. CASE Wait
  BY <1>15 DEF Wait
<1>16. CASE ReadChunk
  BY <1>16 DEF ReadChunk
<1>17. CASE ReadEnds
  BY <1>17 DEF ReadEnds
<1>18. CASE SendChunk
  BY <1>18 DEF SendChunk, Done
<1>19. CASE SendAborts
  BY <1>19 DEF SendAborts, Done
<1>20. CASE CheckSources
  BY <1>20 DEF CheckSources, Done
<1>21. CASE CheckOutputs
  BY <1>21 DEF CheckOutputs
<1>22. CASE ReportRoute
  BY <1>22 DEF ReportRoute, Done
<1>23. CASE MonitorPause
  BY <1>23 DEF MonitorPause, Done
<1>24. CASE MicGoes
  BY <1>24 DEF MicGoes
<1>25. CASE MicComes
  BY <1>25 DEF MicComes
<1>26. CASE Routes
  BY <1>26 DEF Routes
<1>27. CASE ChildExits
  BY <1>27 DEF ChildExits
<1>28. CASE Cancel
  BY <1>28 DEF Cancel
<1>29. CASE UNCHANGED vars
  BY <1>29 DEF vars
<1> QED
  BY <1>1, <1>2, <1>3, <1>4, <1>5, <1>6, <1>7, <1>8, <1>9, <1>10,
     <1>11, <1>12, <1>13, <1>14, <1>15, <1>16, <1>17, <1>18, <1>19,
     <1>20, <1>21, <1>22, <1>23, <1>24, <1>25, <1>26, <1>27, <1>28,
     <1>29
     DEF Next, Loop, Reader, Monitor, Broker

\* Neither goroutine ends without its last error in the channel.
LEMMA SupervisedStep ==
  ASSUME TypeOK, StopInv, SendInv, NeverUnsupervised, [Next]_vars
  PROVE  NeverUnsupervised'
<1> USE DEF TypeOK, StopInv, SendInv, NeverUnsupervised, Capturing,
            loopVars, readerVars, monitorVars, brokerVars
<1>r. routes # <<>> => Tail(routes) = <<>> /\ (Head(routes) # "error" => routes = <<"ok">>)
  BY ChannelFacts DEF Channel
<1>p. pcm # <<>> => Tail(pcm) = <<>> /\ (Head(pcm) # "error" => pcm = <<"ok">>)
  BY ChannelFacts DEF Channel
<1>1. CASE Discover
  BY <1>1 DEF Discover
<1>2. CASE StartFails
  BY <1>2 DEF StartFails
<1>3. CASE StartCapture
  BY <1>3 DEF StartCapture
<1>4. CASE ReportError
  BY <1>4 DEF ReportError
<1>5. CASE Pause
  BY <1>5 DEF Pause
<1>6. CASE SelectDone
  BY <1>6 DEF SelectDone, GiveUp, Done
<1>7. CASE SelectStartup
  BY <1>7 DEF SelectStartup, GiveUp
<1>8. CASE SelectWatchdog
  BY <1>8 DEF SelectWatchdog, GiveUp
<1>9. CASE SelectRoute
  BY <1>9, <1>r DEF SelectRoute, GiveUp
<1>10. CASE SelectChunk
  BY <1>10, <1>p DEF SelectChunk, GiveUp
<1>11. CASE SelectPublish
  BY <1>11 DEF SelectPublish, Done
<1>12. CASE Emit
  BY <1>12 DEF Emit
<1>13. CASE Cleanup
  BY <1>13 DEF Cleanup
<1>14. CASE Join
  BY <1>14 DEF Join
<1>15. CASE Wait
  BY <1>15 DEF Wait
<1>16. CASE ReadChunk
  BY <1>16 DEF ReadChunk
<1>17. CASE ReadEnds
  BY <1>17 DEF ReadEnds
<1>18. CASE SendChunk
  BY <1>18 DEF SendChunk, Done
<1>19. CASE SendAborts
  BY <1>19 DEF SendAborts, Done
<1>20. CASE CheckSources
  BY <1>20 DEF CheckSources, Done
<1>21. CASE CheckOutputs
  BY <1>21 DEF CheckOutputs
<1>22. CASE ReportRoute
  BY <1>22 DEF ReportRoute, Done
<1>23. CASE MonitorPause
  BY <1>23 DEF MonitorPause, Done
<1>24. CASE MicGoes
  BY <1>24 DEF MicGoes
<1>25. CASE MicComes
  BY <1>25 DEF MicComes
<1>26. CASE Routes
  BY <1>26 DEF Routes
<1>27. CASE ChildExits
  BY <1>27 DEF ChildExits
<1>28. CASE Cancel
  BY <1>28 DEF Cancel
<1>29. CASE UNCHANGED vars
  BY <1>29 DEF vars
<1> QED
  BY <1>1, <1>2, <1>3, <1>4, <1>5, <1>6, <1>7, <1>8, <1>9, <1>10,
     <1>11, <1>12, <1>13, <1>14, <1>15, <1>16, <1>17, <1>18, <1>19,
     <1>20, <1>21, <1>22, <1>23, <1>24, <1>25, <1>26, <1>27, <1>28,
     <1>29
     DEF Next, Loop, Reader, Monitor, Broker

\* The strengthened invariant holds in every reachable state.
THEOREM Invariance == Spec => []Inv
<1>1. ASSUME Init PROVE Inv
  <2>1. TypeOK
    <3>1. pcm = <<>> /\ routes = <<>>
      BY <1>1, Zenon DEF Init
    <3>2. /\ cancelled \in BOOLEAN /\ stopped \in BOOLEAN /\ verified \in BOOLEAN
          /\ pending \in BOOLEAN /\ startup \in BOOLEAN /\ checked \in BOOLEAN
          /\ proven \in BOOLEAN
      BY <1>1, Zenon DEF Init
    <3>3. /\ pc = "discover" /\ selected = None /\ parec = "none" /\ reader = "done"
          /\ chunk = "none" /\ monitor = "done" /\ result = "none" /\ stream = "absent"
          /\ mic \in Sources \cup {None}
      BY <1>1, Zenon DEF Init
    <3> QED
      BY <3>1, <3>2, <3>3 DEF TypeOK
  <2>2. /\ pc = "discover" /\ parec = "none" /\ reader = "done" /\ monitor = "done"
        /\ routes = <<>> /\ ~verified
    BY <1>1, Zenon DEF Init
  <2>3. StopInv /\ ProofInv /\ JoinInv /\ SendInv /\ NeverUnsupervised
    BY <2>2 DEF StopInv, ProofInv, JoinInv, SendInv, NothingLeftBehind, NeverUnsupervised,
       Capturing
  <2> QED
    BY <2>1, <2>3 DEF Inv
<1>2. Inv /\ [Next]_vars => Inv'
  BY TypeStep, StopStep, ProofStep, JoinStep, SendStep, SupervisedStep DEF Inv
<1> QED
  BY <1>1, <1>2, PTL DEF Spec

\* Every variable of a capture keeps its type.
THEOREM TypeCorrect == Spec => []TypeOK
<1>1. Inv => TypeOK
  BY DEF Inv
<1> QED
  BY <1>1, Invariance, PTL

\* A level is published only by a capture whose stream a check has seen on the source
\* it was started on (capture, monitor, verifyOutput).
THEOREM OnlyVerifiedLevels == Spec => []VerifiedBeforePublished
<1>1. Inv => VerifiedBeforePublished
  BY DEF Inv, ProofInv, VerifiedBeforePublished
<1> QED
  BY <1>1, Invariance, PTL

\* While a capture's loop runs its monitor and its reader are at work, or the loop is
\* about to learn why they ended (monitor, readPCM, sendPCM).
THEOREM AlwaysSupervised == Spec => []NeverUnsupervised
<1>1. Inv => NeverUnsupervised
  BY DEF Inv
<1> QED
  BY <1>1, Invariance, PTL

\* Between captures and after Run has returned there is no child and no goroutine
\* (capture's deferred cleanup).
THEOREM CleanBetweenCaptures == Spec => []NothingLeftBehind
<1>1. Inv => NothingLeftBehind
  BY DEF Inv, JoinInv
<1> QED
  BY <1>1, Invariance, PTL
=============================================================================
