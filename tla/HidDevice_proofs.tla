------------------------- MODULE HidDevice_proofs -------------------------
(***************************************************************************)
(* Proofs about HidDevice for any settings and any number of attachments,  *)
(* reopens and left-over reports: its types, that a refresh shows what the *)
(* hardware had during it, provided the microphone is punctual, and that a *)
(* setter that reports success takes effect, punctual or not.              *)
(***************************************************************************)
EXTENDS HidDevice, SequenceTheorems, TLAPS

Sets == [kind : {"set"}, feature : Required, value : Values]

(* The values a field of a report may have, by its kind.                   *)
LEMMA ReportTypes ==
  /\ \A f \in Features, v \in Values \cup Nat :
        [kind |-> "get", feature |-> f, value |-> v] \in Reports
  /\ [kind |-> "ack"] \in Reports /\ [kind |-> "panel"] \in Reports
  /\ Sets \subseteq Reports
  /\ Sets \subseteq Requests
  /\ \A r \in Requests : r.kind = "set" => r \in Sets
  /\ \A r \in Requests : r.kind = "get" => r.feature \in Features
  /\ \A r \in Reports : r.kind = "get" =>
        r.feature \in Features /\ r.value \in Values \cup Nat
  /\ \A f \in Features : [kind |-> "get", feature |-> f] \in Requests
  /\ [kind |-> "confirm"] \in Requests /\ [kind |-> "reset"] \in Requests
  /\ \A s \in Sets : s.feature \in Required /\ s.value \in Values
  /\ NoRequest \notin Sets
BY DEF Reports, Requests, Sets, Features, Required, NoRequest

(* An emptied buffer is a buffer, an emptied wire a wire.                  *)
LEMMA EmptyBuffers ==
  /\ inbuf' = <<>> => inbuf' \in Seq(Reports)
  /\ wire' = <<>> => wire' \in Seq(Requests)
<1>1. <<>> \in Seq(Reports) /\ <<>> \in Seq(Requests)
  BY EmptySeq
<1> QED
  BY <1>1, Zenon

(* A reopened descriptor has an empty buffer and a new generation.         *)
LEMMA ReopenType ==
  ASSUME TypeOK, Reopen
  PROVE  /\ inbuf' \in Seq(Reports)
         /\ fd' \in 0 .. attachment
         /\ generation' \in Nat
<1>1. inbuf' \in Seq(Reports)
  BY EmptyBuffers, Zenon DEF Reopen
<1>2. fd' = attachment /\ generation' = generation + 1
  BY Zenon DEF Reopen
<1>3. attachment \in Nat /\ generation \in Nat
  BY DEF TypeOK
<1>4. fd' \in 0 .. attachment
  BY <1>2, <1>3
<1>5. generation' \in Nat
  BY <1>2, <1>3
<1> QED
  BY <1>1, <1>4, <1>5

(* A written report joins the wire; the buffer stays or is emptied.        *)
LEMMA WrittenType ==
  ASSUME TypeOK, NEW r \in Requests, Written(r)
  PROVE  /\ wire' \in Seq(Requests)
         /\ inbuf' \in Seq(Reports)
         /\ fd' \in 0 .. attachment
         /\ generation' \in Nat
<1>1. wire' \in Seq(Requests)
  BY AppendProperties DEF TypeOK, Written
<1>2. CASE UNCHANGED <<inbuf, fd, generation>>
  BY <1>1, <1>2 DEF TypeOK
<1>3. CASE Reopen
  BY <1>1, <1>3, ReopenType
<1> QED
  BY <1>2, <1>3 DEF Written

(* A failed write may have reopened the descriptor.                        *)
LEMMA NotWrittenType ==
  ASSUME TypeOK, NotWritten
  PROVE  /\ wire' \in Seq(Requests)
         /\ inbuf' \in Seq(Reports)
         /\ fd' \in 0 .. attachment
         /\ generation' \in Nat
<1>1. CASE UNCHANGED <<inbuf, fd, generation>>
  BY <1>1 DEF TypeOK, NotWritten
<1>2. CASE Reopen
  BY <1>2, ReopenType DEF TypeOK, NotWritten
<1> QED
  BY <1>1, <1>2 DEF NotWritten

(* A call that returns leaves a state behind and no local variables.       *)
LEMMA ReturnType ==
  ASSUME TypeOK, NEW st \in [Features -> Values \cup Nat],
         NEW o \in {"refreshed", "set", "reset", "failed"}, Return(o, st)
  PROVE  /\ pc' = "idle" /\ next' \in 1 .. 4
         /\ got' \subseteq Features
         /\ acc' \in [Features -> Values \cup Nat]
         /\ known' \in [Features -> Values \cup Nat]
         /\ request' = NoRequest
         /\ attempt' \in {1, 2} /\ setGeneration' \in Nat
         /\ outcome' \in {"none", "refreshed", "set", "reset", "failed"}
BY DEF Return

(* A buffer that receives a report is a buffer.                            *)
LEMMA ReceivedType ==
  ASSUME NEW b \in Seq(Reports), NEW r \in Reports
  PROVE  Received(b, r) \in Seq(Reports)
BY AppendProperties DEF Received

(* The microphone's steps keep the types.                                  *)
LEMMA MicrophoneType ==
  ASSUME TypeOK,
         \/ Microphone \/ Unplug \/ Replug \/ PanelReports
         \/ \E f \in Required, v \in Values : Buttons(f, v)
  PROVE  TypeOK'
<1> USE DEF micVars, linkVars, getVars, setVars
<1>1. ASSUME NEW new \in [Required -> Values], Settings(new)
      PROVE  hw' \in [Required -> Values] /\ seen' \in [Required -> SUBSET Values]
  BY <1>1 DEF TypeOK, Settings
<1>2. ASSUME wire # <<>>, wire' = Tail(wire)
      PROVE  Head(wire) \in Requests /\ wire' \in Seq(Requests)
  BY <1>2, HeadTailProperties DEF TypeOK
<1>3. inbuf \in Seq(Reports)
  BY DEF TypeOK
<1>4. CASE MicAnswers
  <2> DEFINE f == Head(wire).feature
             v == IF f \in Required THEN hw[f] ELSE attachment
  <2>1. f \in Features /\ v \in Values \cup Nat
    BY <1>2, <1>4, ReportTypes DEF MicAnswers, TypeOK
  <2>2. [kind |-> "get", feature |-> f, value |-> v] \in Reports
    BY <2>1, ReportTypes
  <2>3. inbuf' \in Seq(Reports)
    BY <1>3, <1>4, <2>2, ReceivedType DEF MicAnswers
  <2> QED
    BY <1>2, <1>4, <2>3 DEF MicAnswers, TypeOK
<1>5. CASE MicIgnores
  BY <1>2, <1>5 DEF MicIgnores, TypeOK
<1>6. CASE MicSet
  BY <1>2, <1>6, ReportTypes DEF MicSet, TypeOK, Sets
<1>7. CASE MicConfirm
  <2>0. Received(inbuf, [kind |-> "ack"]) \in Seq(Reports)
    BY <1>3, ReceivedType, ReportTypes
  <2>1. CASE pending = {} /\ inbuf' = Received(inbuf, [kind |-> "ack"])
             /\ UNCHANGED <<hw, seen, unapplied>>
    <3>1. inbuf' \in Seq(Reports)
      BY <2>0, <2>1
    <3> QED
      BY <1>2, <1>7, <2>1, <3>1 DEF MicConfirm, TypeOK
  <2>2. ASSUME NEW s \in pending,
               inbuf' = Received(Received(inbuf, [kind |-> "ack"]), s),
               Settings([hw EXCEPT ![s.feature] = s.value]),
               unapplied' = unapplied \ {s}
        PROVE  TypeOK'
    <3>1. s \in Sets
      BY DEF TypeOK, Sets
    <3>3. inbuf' \in Seq(Reports)
      BY <2>0, <2>2, <3>1, ReceivedType, ReportTypes
    <3>4. [hw EXCEPT ![s.feature] = s.value] \in [Required -> Values]
      BY <3>1, ReportTypes DEF TypeOK
    <3> QED
      BY <1>1, <1>2, <1>7, <2>2, <3>3, <3>4 DEF MicConfirm, TypeOK
  <2> QED
    BY <1>7, <2>1, <2>2 DEF MicConfirm
<1>8. CASE Unplug \/ MicReset
  <2>1. wire' \in Seq(Requests)
    BY <1>8, EmptyBuffers, Zenon DEF MicReset, Unplug
  <2>2. plugged' = FALSE /\ pending' = {}
    BY <1>8, Zenon DEF MicReset, Unplug
  <2>3. UNCHANGED <<attachment, hw, inbuf, fd, generation, pc, getVars,
                    setVars, known, outcome, seen, unapplied>>
    BY <1>8, Zenon DEF MicReset, Unplug
  <2>4. plugged' \in BOOLEAN /\ pending' \subseteq Sets
    BY <2>2
  <2> QED
    BY <2>1, <2>3, <2>4 DEF TypeOK, Sets
<1>9. CASE Replug
  <2>1. PICK new \in [Required -> Values] : Settings(new)
    BY <1>9, Zenon DEF Replug
  <2>2. hw' \in [Required -> Values] /\ seen' \in [Required -> SUBSET Values]
    BY <1>1, <2>1
  <2>3. attachment' = attachment + 1
    BY <1>9, Zenon DEF Replug
  <2>4. UNCHANGED <<pending, linkVars, pc, getVars, setVars, known, outcome,
                    unapplied>>
    BY <1>9, Zenon DEF Replug
  <2>5. fd' = fd /\ attachment \in Nat /\ fd \in 0 .. attachment
    BY <2>4 DEF TypeOK
  <2>6. attachment' \in Nat /\ fd' \in 0 .. attachment'
    BY <2>3, <2>5
  <2>7. plugged' \in BOOLEAN
    BY <1>9, Zenon DEF Replug
  <2> QED
    BY <2>2, <2>4, <2>6, <2>7 DEF TypeOK
<1>10. ASSUME NEW f \in Required, NEW v \in Values, Buttons(f, v)
       PROVE  TypeOK'
  <2>1. [hw EXCEPT ![f] = v] \in [Required -> Values]
    BY DEF TypeOK
  <2>2. inbuf' \in Seq(Reports)
    BY <1>3, <1>10, ReceivedType, ReportTypes DEF Buttons, Unsolicited
  <2> QED
    BY <1>1, <1>10, <2>1, <2>2 DEF Buttons, TypeOK
<1>11. CASE PanelReports
  <2>1. inbuf' \in Seq(Reports)
    BY <1>3, <1>11, ReceivedType, ReportTypes DEF PanelReports, Unsolicited
  <2> QED
    BY <1>11, <2>1 DEF PanelReports, TypeOK
<1> QED
  BY <1>4, <1>5, <1>6, <1>7, <1>8, <1>9, <1>10, <1>11 DEF Microphone

(* The initial state is well typed.                                        *)
LEMMA TypeInitially == Init => TypeOK
<1> SUFFICES ASSUME Init PROVE TypeOK
  OBVIOUS
<1>1. <<>> \in Seq(Requests) /\ <<>> \in Seq(Reports)
  BY EmptySeq
<1>2. DefaultState \in [Features -> Values \cup Nat]
  BY ValuesAssumption DEF DefaultState
<1> QED
  BY <1>1, <1>2 DEF Init, TypeOK

(* Every step keeps the types.                                             *)
LEMMA TypeStep ==
  ASSUME TypeOK, [Next]_vars
  PROVE  TypeOK'
<1> USE DEF micVars, linkVars, getVars, setVars
<1>1. CASE \/ Microphone \/ Unplug \/ Replug \/ PanelReports
           \/ \E f \in Required, v \in Values : Buttons(f, v)
  BY <1>1, MicrophoneType
<1>2. CASE BeginRefresh
  BY <1>2 DEF BeginRefresh, Begin, TypeOK
<1>3. ASSUME NEW f \in Required, NEW v \in Values, BeginSet(f, v)
      PROVE  TypeOK'
  BY <1>3 DEF BeginSet, Begin, TypeOK, NoRequest
<1>4. CASE BeginReset
  BY <1>4 DEF BeginReset, Begin, TypeOK
<1>5. CASE WriteGet
  <2>1. next \in 1 .. 3 /\ Getters[next] \in Features
    BY <1>5 DEF WriteGet, TypeOK, Getters, Features
  <2>2. [kind |-> "get", feature |-> Getters[next]] \in Requests
    BY <2>1, ReportTypes
  <2> QED
    BY <1>5, <2>1, <2>2, WrittenType DEF WriteGet, TypeOK
<1>6. CASE WriteGetFails
  BY <1>6, NotWrittenType DEF WriteGetFails, TypeOK, Getters
<1>7. CASE ReadAnswer
  <2>1. Head(inbuf) \in Reports /\ Tail(inbuf) \in Seq(Reports)
    BY <1>7, HeadTailProperties DEF ReadAnswer, TypeOK
  <2>2. Head(inbuf).value \in Values \cup Nat /\ Getters[next] \in Features
    BY <1>7, <2>1, ReportTypes DEF ReadAnswer, Matches
  <2> QED
    BY <1>7, <2>1, <2>2 DEF ReadAnswer, TypeOK
<1>8. CASE ReadOther
  BY <1>8, HeadTailProperties DEF ReadOther, TypeOK
<1>9. CASE GetTimesOut
  BY <1>9 DEF GetTimesOut, TypeOK
<1>10. CASE EndRefresh
  BY <1>10, ReturnType DEF EndRefresh, TypeOK
<1>11. CASE WriteSet
  <2>1. request \in Sets
    BY <1>11 DEF WriteSet, TypeOK, Sets
  <2> QED
    BY <1>11, <2>1, ReportTypes, WrittenType DEF WriteSet, TypeOK
<1>12. CASE WriteConfirm
  BY <1>12, ReportTypes, WrittenType DEF WriteConfirm, TypeOK
<1>13. CASE WriteConfirmElsewhere
  <2>1. /\ wire' \in Seq(Requests) /\ inbuf' \in Seq(Reports)
        /\ fd' \in 0 .. attachment /\ generation' \in Nat
    BY <1>13, ReportTypes, WrittenType DEF WriteConfirmElsewhere
  <2>2. CASE Return("failed", known)
    BY <1>13, <2>1, <2>2, ReturnType DEF WriteConfirmElsewhere, TypeOK
  <2>3. CASE attempt' = 2 /\ pc' = "set"
             /\ UNCHANGED <<getVars, request, setGeneration, known, outcome>>
    BY <1>13, <2>1, <2>3 DEF WriteConfirmElsewhere, TypeOK
  <2> QED
    BY <1>13, <2>2, <2>3 DEF WriteConfirmElsewhere
<1>14. CASE WriteSetFails
  BY <1>14, NotWrittenType, ReturnType DEF WriteSetFails, TypeOK
<1>15. CASE DrainReads
  <2>1. Tail(inbuf) \in Seq(Reports)
    BY <1>15, HeadTailProperties DEF DrainReads, TypeOK
  <2> QED
    BY <1>15, <2>1, ReturnType DEF DrainReads, Drained, TypeOK
<1>16. CASE DrainTimesOut
  BY <1>16, ReturnType DEF DrainTimesOut, Drained, TypeOK
<1>17. CASE WriteReset
  BY <1>17, ReportTypes, WrittenType, NotWrittenType, ReturnType
     DEF WriteReset, TypeOK
<1>18. CASE UNCHANGED vars
  BY <1>18 DEF vars, TypeOK
<1> QED
  BY <1>1, <1>2, <1>3, <1>4, <1>5, <1>6, <1>7, <1>8, <1>9, <1>10, <1>11,
     <1>12, <1>13, <1>14, <1>15, <1>16, <1>17, <1>18 DEF Next, Call

(***************************************************************************)
(* Every variable keeps the type TypeOK gives it.                          *)
(***************************************************************************)
THEOREM TypeCorrect == Spec => []TypeOK
<1>1. Init => TypeOK
  BY TypeInitially
<1>2. TypeOK /\ [Next]_vars => TypeOK'
  BY TypeStep
<1> QED
  BY <1>1, <1>2, PTL DEF Spec

---------------------------------------------------------------------------
(***************************************************************************)
(* Fresh readings.  With a punctual microphone, an answer on its way is    *)
(* the one sendGet waits for.                                              *)
(***************************************************************************)
Awaited(r) ==
    /\ r.feature = Getters[next]
    /\ r.feature \in Required => r.value \in seen[r.feature]

WireInv ==
    pc = "await" => \A i \in 1 .. Len(wire) : wire[i].kind = "get" =>
        i = Len(wire) /\ wire[i].feature = Getters[next]

InbufInv ==
    pc = "await" => \A i \in 1 .. Len(inbuf) : inbuf[i].kind = "get" =>
        /\ wire = <<>>
        /\ Awaited(inbuf[i])
        /\ \A j \in 1 .. Len(inbuf) : inbuf[j].kind = "get" => j = i

LinkInv ==
    /\ ~Live => wire = <<>>
    /\ pc # "await" => NoAnswerIn(wire) /\ NoAnswerIn(inbuf)
    /\ WireInv
    /\ InbufInv

SeenInv ==
    /\ pc \in {"get", "await"} => \A f \in Required :
          hw[f] \in seen[f] /\ (f \in got => acc[f] \in seen[f])
    /\ outcome = "refreshed" =>
          pc = "idle" /\ \A f \in Required : known[f] \in seen[f]
    /\ pc = "idle" => got = {}

FreshInv == TypeOK /\ LinkInv /\ SeenInv

(* Taking a report from a buffer without answers.                          *)
LEMMA NoAnswerTail ==
  ASSUME NEW S, NEW s \in Seq(S), s # <<>>, NoAnswerIn(s)
  PROVE  NoAnswerIn(Tail(s))
<1>1. /\ Len(s) \in Nat /\ Len(Tail(s)) = Len(s) - 1
      /\ \A i \in 1 .. Len(Tail(s)) : Tail(s)[i] = s[i + 1]
  BY HeadTailProperties, LenProperties
<1> QED
  BY <1>1 DEF NoAnswerIn

(* Adding a report that is no answer.                                      *)
LEMMA NoAnswerAppend ==
  ASSUME NEW S, NEW s \in Seq(S), NEW r \in S, r.kind # "get",
         NoAnswerIn(s)
  PROVE  NoAnswerIn(Append(s, r))
<1>1. /\ Len(s) \in Nat /\ Len(Append(s, r)) = Len(s) + 1
      /\ \A i \in 1 .. Len(s) : Append(s, r)[i] = s[i]
      /\ Append(s, r)[Len(s) + 1] = r
  BY AppendProperties, LenProperties
<1> QED
  BY <1>1 DEF NoAnswerIn

(* Receiving a report that is no answer.                                   *)
LEMMA NoAnswerReceived ==
  ASSUME NEW b \in Seq(Reports), NEW r \in Reports, r.kind # "get",
         NoAnswerIn(b)
  PROVE  NoAnswerIn(Received(b, r))
BY NoAnswerAppend DEF Received

(* An empty buffer holds no answer.                                        *)
LEMMA NoAnswerEmpty == NoAnswerIn(<<>>)
BY EmptySeq DEF NoAnswerIn

(* While anything is on the wire, its microphone is there; with an answer  *)
(* in the buffer nothing is.                                               *)
LEMMA WireMeansLive ==
  ASSUME FreshInv, wire # <<>>
  PROVE  Live /\ NoAnswerIn(inbuf)
<1>1. Live
  BY DEF FreshInv, LinkInv
<1>2. CASE pc = "await"
  BY <1>2 DEF FreshInv, LinkInv, InbufInv, NoAnswerIn
<1>3. CASE pc # "await"
  BY <1>3 DEF FreshInv, LinkInv
<1> QED
  BY <1>1, <1>2, <1>3

(* A GET at the head of the wire is the only report on it, and awaited.    *)
LEMMA HeadGet ==
  ASSUME FreshInv, wire # <<>>, Head(wire).kind = "get"
  PROVE  /\ pc = "await" /\ Tail(wire) = <<>>
         /\ Head(wire).feature = Getters[next]
<1>0. wire \in Seq(Requests)
  BY DEF FreshInv, TypeOK
<1>1. Len(wire) \in Nat \ {0} /\ Head(wire) = wire[1]
  BY <1>0, EmptySeq
<1>2. pc = "await"
  BY <1>1 DEF FreshInv, LinkInv, NoAnswerIn
<1>3. 1 = Len(wire) /\ wire[1].feature = Getters[next]
  BY <1>1, <1>2 DEF FreshInv, LinkInv, WireInv
<1>4. Tail(wire) \in Seq(Requests) /\ Len(Tail(wire)) = 0
  BY <1>0, <1>3, HeadTailProperties
<1>5. Tail(wire) = <<>>
  BY <1>4, EmptySeq
<1> QED
  BY <1>1, <1>2, <1>3, <1>5

(* Settings that change are seen by a refresh in progress.                 *)
LEMMA SettingsSeen ==
  ASSUME FreshInv, NEW new \in [Required -> Values], Settings(new),
         UNCHANGED <<pc, got, acc, known, outcome>>
  PROVE  /\ SeenInv'
         /\ pc = "await" => \A f \in Required : seen[f] \subseteq seen'[f]
<1>1. CASE pc \in {"get", "await"}
  <2>1. /\ hw' = new
        /\ seen' = [f \in Required |-> seen[f] \cup {new[f]}]
    BY <1>1 DEF Settings
  <2>2. outcome # "refreshed"
    BY <1>1 DEF FreshInv, SeenInv
  <2> QED
    BY <1>1, <2>1, <2>2 DEF FreshInv, SeenInv
<1>2. CASE pc \notin {"get", "await"}
  BY <1>2 DEF Settings, FreshInv, SeenInv
<1> QED
  BY <1>1, <1>2

(* Where no answer is awaited, there is none.                              *)
LEMMA Calm ==
  ASSUME pc' # "await", NoAnswerIn(wire'), NoAnswerIn(inbuf'),
         ~Live' => wire' = <<>>
  PROVE  LinkInv'
BY DEF LinkInv, WireInv, InbufInv

(* A reopened descriptor is the live one, with an empty buffer.            *)
LEMMA ReopenLive ==
  ASSUME Reopen, UNCHANGED micVars
  PROVE  Live' /\ NoAnswerIn(inbuf')
<1>1. inbuf' = <<>> /\ plugged /\ fd' = attachment
  BY Zenon DEF Reopen
<1>2. plugged' = plugged /\ attachment' = attachment
  BY Zenon DEF micVars
<1> QED
  BY <1>1, <1>2, NoAnswerEmpty, Zenon DEF Live

(* A write that is not a GET brings no answer.                             *)
LEMMA WrittenCalm ==
  ASSUME FreshInv, pc # "await", NEW r \in Requests, r.kind # "get",
         Written(r), UNCHANGED micVars
  PROVE  Live' /\ NoAnswerIn(wire') /\ NoAnswerIn(inbuf')
<1>1. NoAnswerIn(wire) /\ NoAnswerIn(inbuf) /\ wire \in Seq(Requests)
  BY DEF FreshInv, LinkInv, TypeOK
<1>2. wire' = Append(wire, r)
  BY Zenon DEF Written
<1>3. NoAnswerIn(wire')
  BY <1>1, <1>2, NoAnswerAppend
<1>4. CASE Live /\ UNCHANGED <<inbuf, fd, generation>>
  BY <1>1, <1>3, <1>4, Zenon DEF Live, micVars
<1>5. CASE Reopen
  BY <1>3, <1>5, ReopenLive, Zenon
<1> QED
  BY <1>4, <1>5, Zenon DEF Written

(* Nor does a write that fails.                                            *)
LEMMA NotWrittenCalm ==
  ASSUME FreshInv, pc # "await", NotWritten, UNCHANGED micVars
  PROVE  /\ ~Live' => wire' = <<>>
         /\ NoAnswerIn(wire') /\ NoAnswerIn(inbuf')
<1>1. /\ NoAnswerIn(wire) /\ NoAnswerIn(inbuf)
      /\ ~Live => wire = <<>>
  BY Zenon DEF FreshInv, LinkInv
<1>2. wire' = wire
  BY Zenon DEF NotWritten
<1>3. CASE UNCHANGED <<inbuf, fd, generation>>
  BY <1>1, <1>2, <1>3, Zenon DEF Live, micVars
<1>4. CASE Reopen
  BY <1>1, <1>2, <1>4, ReopenLive, Zenon
<1> QED
  BY <1>3, <1>4, Zenon DEF NotWritten

(* A report of the panel joins the buffer behind an answer or without one. *)
LEMMA PanelKeepsAnswer ==
  ASSUME FreshInv, UNCHANGED <<wire, pc, next>>,
         Unsolicited \/ UNCHANGED inbuf,
         pc = "await" => \A f \in Required : seen[f] \subseteq seen'[f]
  PROVE  /\ InbufInv'
         /\ NoAnswerIn(inbuf) => NoAnswerIn(inbuf')
<1>0. inbuf \in Seq(Reports)
  BY DEF FreshInv, TypeOK
<1>1. ASSUME Unsolicited
      PROVE  /\ Len(inbuf) \in Nat /\ Len(inbuf') = Len(inbuf) + 1
             /\ \A i \in 1 .. Len(inbuf) : inbuf'[i] = inbuf[i]
             /\ inbuf'[Len(inbuf) + 1].kind # "get"
  <2> DEFINE p == [kind |-> "panel"]
  <2>1. inbuf' = Append(inbuf, p) /\ p \in Reports /\ p.kind # "get"
    BY <1>1, ReportTypes DEF Unsolicited, Received
  <2> HIDE DEF p
  <2> QED
    BY <1>0, <2>1, AppendProperties, LenProperties
<1>2. ASSUME NEW i \in 1 .. Len(inbuf'), inbuf'[i].kind = "get"
      PROVE  i \in 1 .. Len(inbuf) /\ inbuf'[i] = inbuf[i]
  <2>1. CASE UNCHANGED inbuf
    BY <2>1
  <2>2. CASE Unsolicited
    BY <1>1, <1>2, <2>2
  <2> QED
    BY <2>1, <2>2
<1>3. NoAnswerIn(inbuf) => NoAnswerIn(inbuf')
  BY <1>2 DEF NoAnswerIn
<1>4. InbufInv'
  <2> SUFFICES ASSUME pc' = "await",
                      NEW i \in 1 .. Len(inbuf'), inbuf'[i].kind = "get"
               PROVE  /\ wire' = <<>>
                      /\ Awaited(inbuf[i])'
                      /\ \A j \in 1 .. Len(inbuf') :
                            inbuf'[j].kind = "get" => j = i
    BY DEF InbufInv
  <2>1. i \in 1 .. Len(inbuf) /\ inbuf'[i] = inbuf[i]
    BY <1>2
  <2>2. /\ wire = <<>> /\ Awaited(inbuf[i])
        /\ \A j \in 1 .. Len(inbuf) : inbuf[j].kind = "get" => j = i
    BY <2>1 DEF FreshInv, LinkInv, InbufInv
  <2>3. Awaited(inbuf[i])'
    BY <2>1, <2>2 DEF Awaited
  <2> QED
    BY <1>2, <2>2, <2>3
<1> QED
  BY <1>3, <1>4

(* The microphone's steps.                                                 *)
LEMMA MicrophoneFresh ==
  ASSUME FreshInv,
         \/ Microphone \/ Unplug \/ Replug \/ PanelReports
         \/ \E f \in Required, v \in Values : Buttons(f, v)
  PROVE  LinkInv' /\ SeenInv'
<1> USE DEF getVars
<1>0. /\ wire \in Seq(Requests) /\ inbuf \in Seq(Reports)
      /\ hw \in [Required -> Values] /\ seen \in [Required -> SUBSET Values]
      /\ fd \in 0 .. attachment /\ attachment \in Nat
      /\ \A s \in pending : s \in Sets
  BY DEF FreshInv, TypeOK, Sets
<1>1. ASSUME wire # <<>>, Head(wire).kind = "get", wire' = Tail(wire)
      PROVE  pc = "await" /\ wire' = <<>> /\ Head(wire).feature = Getters[next]
  BY <1>1, HeadGet
<1>2. ASSUME UNCHANGED <<hw, pc, got, acc, known, outcome, seen>>
      PROVE  SeenInv'
  BY <1>2 DEF FreshInv, SeenInv
<1>3. CASE MicAnswers
  <2> DEFINE f == Head(wire).feature
             v == IF f \in Required THEN hw[f] ELSE attachment
             r == [kind |-> "get", feature |-> f, value |-> v]
  <2>1. /\ wire # <<>> /\ Head(wire).kind = "get" /\ wire' = Tail(wire)
        /\ inbuf' = Received(inbuf, r)
        /\ UNCHANGED <<plugged, attachment, hw, fd, pc, next, got, acc, known,
                       outcome, seen>>
    BY <1>3 DEF MicAnswers, micVars
  <2>2. pc = "await" /\ wire' = <<>> /\ f = Getters[next]
    BY <1>1, <2>1
  <2>3. Live /\ NoAnswerIn(inbuf)
    BY <2>1, WireMeansLive
  <2>4. inbuf' = Append(inbuf, r) \/ inbuf' = inbuf
    BY <2>1 DEF Received
  <2>5. f \in Features
    BY <1>0, <2>1, HeadTailProperties, ReportTypes
  <2>6. v \in Values \cup Nat
    BY <1>0
  <2>7. r \in Reports /\ r.value = v /\ r.feature = f
    BY <2>5, <2>6, ReportTypes
  <2>8. f \in Required => v \in seen[f]
    BY <2>2 DEF FreshInv, SeenInv
  <2>9. PICK x \in Reports : x = r
    BY <2>7
  <2>10. Awaited(x)'
    <3>1. Awaited(x)
      BY <2>2, <2>7, <2>8, <2>9 DEF Awaited
    <3> QED
      BY <2>1, <3>1 DEF Awaited
  <2>11. ASSUME inbuf' = Append(inbuf, r)
         PROVE  /\ Len(inbuf) \in Nat /\ Len(inbuf') = Len(inbuf) + 1
                /\ \A i \in 1 .. Len(inbuf) : inbuf'[i] = inbuf[i]
                /\ inbuf'[Len(inbuf) + 1] = x
    <3>1. inbuf' = Append(inbuf, x)
      BY <2>9, <2>11
    <3> QED
      BY <1>0, <3>1, AppendProperties, LenProperties
  <2>12. InbufInv'
    <3>1. CASE inbuf' = inbuf
      BY <2>3, <3>1 DEF InbufInv, NoAnswerIn
    <3>2. CASE inbuf' = Append(inbuf, r)
      <4>1. ASSUME NEW i \in 1 .. Len(inbuf'), inbuf'[i].kind = "get"
            PROVE  i = Len(inbuf) + 1 /\ inbuf'[i] = x
        BY <2>3, <2>11, <3>2, <4>1 DEF NoAnswerIn
      <4> QED
        BY <2>2, <2>10, <4>1 DEF InbufInv, Awaited
    <3> QED
      BY <2>4, <3>1, <3>2
  <2>13. WireInv'
    <3>1. Len(wire') = 0
      BY <2>2, EmptySeq
    <3> QED
      BY <3>1 DEF WireInv
  <2>14. pc' = "await"
    BY <2>1, <2>2
  <2>15. LinkInv'
    BY <2>2, <2>12, <2>13, <2>14, Zenon DEF LinkInv
  <2> QED
    BY <1>2, <2>1, <2>15
<1>4. ASSUME wire # <<>>, wire' = Tail(wire), Head(wire).kind # "get",
             NoAnswerIn(inbuf'), UNCHANGED <<plugged, attachment, fd, pc, next>>
      PROVE  LinkInv'
  <2>1. Live'
    BY <1>4, WireMeansLive DEF Live
  <2>2. /\ Len(wire) \in Nat /\ Len(wire') = Len(wire) - 1
        /\ \A i \in 1 .. Len(wire') : wire'[i] = wire[i + 1]
    BY <1>0, <1>4, HeadTailProperties, LenProperties
  <2>3. CASE pc = "await"
    <3>0. \A i \in 1 .. Len(wire) : wire[i].kind = "get" =>
              i = Len(wire) /\ wire[i].feature = Getters[next]
      BY <2>3 DEF WireInv, FreshInv, LinkInv
    <3>1. WireInv'
      <4> SUFFICES ASSUME NEW i \in 1 .. Len(wire'), wire'[i].kind = "get"
                   PROVE  i = Len(wire') /\ wire'[i].feature = Getters[next']
        BY DEF WireInv
      <4>1. i + 1 \in 1 .. Len(wire) /\ wire'[i] = wire[i + 1]
        BY <2>2
      <4>2. i + 1 = Len(wire) /\ wire[i + 1].feature = Getters[next]
        BY <3>0, <4>1
      <4>3. i = Len(wire')
        BY <2>2, <4>2
      <4>4. next' = next
        BY <1>4
      <4> QED
        BY <4>1, <4>2, <4>3, <4>4
    <3>2. InbufInv'
      BY <1>4 DEF InbufInv, NoAnswerIn
    <3> QED
      BY <1>4, <2>1, <2>3, <3>1, <3>2 DEF LinkInv
  <2>4. CASE pc # "await"
    <3>1. NoAnswerIn(wire)
      BY <2>4 DEF FreshInv, LinkInv
    <3>2. NoAnswerIn(wire')
      BY <1>0, <1>4, <3>1, NoAnswerTail
    <3> QED
      BY <1>4, <2>1, <2>4, <3>2, Calm
  <2> QED
    BY <2>3, <2>4
<1>5. CASE MicIgnores
  <2>1. /\ wire # <<>> /\ Head(wire).kind = "get" /\ wire' = Tail(wire)
        /\ UNCHANGED <<plugged, attachment, fd, pc, inbuf, next, hw, got, acc,
                       known, outcome, seen>>
    BY <1>5 DEF MicIgnores, micVars
  <2>2. pc' = "await" /\ wire' = <<>>
    BY <1>1, <2>1
  <2>3. NoAnswerIn(inbuf')
    BY <2>1, WireMeansLive
  <2>4. WireInv' /\ InbufInv'
    <3>1. Len(wire') = 0
      BY <2>2, EmptySeq
    <3> QED
      BY <2>3, <3>1 DEF WireInv, InbufInv, NoAnswerIn
  <2>5. LinkInv'
    BY <2>2, <2>4, Zenon DEF LinkInv
  <2> QED
    BY <1>2, <2>1, <2>5
<1>6. CASE MicSet
  <2>1. /\ wire # <<>> /\ Head(wire).kind # "get" /\ wire' = Tail(wire)
        /\ UNCHANGED <<plugged, attachment, fd, pc, inbuf, next, hw, got, acc,
                       known, outcome, seen>>
    BY <1>6 DEF MicSet
  <2>2. NoAnswerIn(inbuf')
    BY <2>1, WireMeansLive
  <2> QED
    BY <1>2, <1>4, <2>1, <2>2
<1>7. CASE MicConfirm
  <2>1. /\ wire # <<>> /\ Head(wire).kind # "get" /\ wire' = Tail(wire)
        /\ UNCHANGED <<plugged, attachment, fd, pc, next, got, acc, known,
                       outcome>>
    BY <1>7 DEF MicConfirm
  <2>2. NoAnswerIn(inbuf) /\ Live
    BY <2>1, WireMeansLive
  <2>3. NoAnswerIn(inbuf') => LinkInv'
    BY <1>4, <2>1
  <2>4. /\ Received(inbuf, [kind |-> "ack"]) \in Seq(Reports)
        /\ NoAnswerIn(Received(inbuf, [kind |-> "ack"]))
    BY <1>0, <2>2, ReportTypes, ReceivedType, NoAnswerReceived
  <2>5. CASE /\ inbuf' = Received(inbuf, [kind |-> "ack"])
             /\ UNCHANGED <<hw, seen, unapplied>>
    BY <1>2, <2>1, <2>3, <2>4, <2>5
  <2>6. ASSUME NEW s \in pending,
               inbuf' = Received(Received(inbuf, [kind |-> "ack"]), s),
               Settings([hw EXCEPT ![s.feature] = s.value])
        PROVE  LinkInv' /\ SeenInv'
    <3>1. s \in Sets /\ s \in Reports /\ s.kind = "set"
      BY <1>0, ReportTypes DEF Sets
    <3>2. NoAnswerIn(inbuf')
      BY <2>4, <2>6, <3>1, NoAnswerReceived
    <3>4. [hw EXCEPT ![s.feature] = s.value] \in [Required -> Values]
      BY <1>0, <3>1, ReportTypes
    <3>5. SeenInv'
      BY <2>1, <2>6, <3>4, SettingsSeen
    <3> QED
      BY <2>3, <3>2, <3>5
  <2> QED
    BY <1>7, <2>5, <2>6 DEF MicConfirm
<1>8. ASSUME UNCHANGED <<wire, pc, next>>, ~Live' => wire = <<>>,
             Unsolicited \/ UNCHANGED inbuf,
             pc = "await" => \A f \in Required : seen[f] \subseteq seen'[f]
      PROVE  LinkInv'
  <2>1. InbufInv' /\ (NoAnswerIn(inbuf) => NoAnswerIn(inbuf'))
    BY <1>8, PanelKeepsAnswer
  <2>2. CASE pc # "await"
    <3>1. NoAnswerIn(wire') /\ NoAnswerIn(inbuf')
      BY <1>8, <2>1, <2>2 DEF FreshInv, LinkInv
    <3> QED
      BY <1>8, <2>2, <3>1, Calm
  <2>3. CASE pc = "await"
    <3>1. WireInv'
      BY <1>8 DEF WireInv, FreshInv, LinkInv
    <3> QED
      BY <1>8, <2>1, <2>3, <3>1 DEF LinkInv
  <2> QED
    BY <2>2, <2>3
<1>9. ASSUME NEW f \in Required, NEW v \in Values, Buttons(f, v)
      PROVE  LinkInv' /\ SeenInv'
  <2>1. [hw EXCEPT ![f] = v] \in [Required -> Values]
    BY <1>0
  <2>2. /\ Settings([hw EXCEPT ![f] = v])
        /\ Unsolicited \/ UNCHANGED inbuf
        /\ UNCHANGED <<plugged, attachment, fd, wire, pc, next, got, acc,
                       known, outcome>>
    BY <1>9 DEF Buttons
  <2>3. ~Live' => wire = <<>>
    BY <2>2 DEF Live, FreshInv, LinkInv
  <2>4. /\ SeenInv'
        /\ pc = "await" => \A g \in Required : seen[g] \subseteq seen'[g]
    BY <2>1, <2>2, SettingsSeen
  <2> QED
    BY <1>8, <2>2, <2>3, <2>4
<1>10. CASE Unplug \/ MicReset
  <2>1. /\ wire' = <<>>
        /\ UNCHANGED <<hw, inbuf, pc, getVars, known, outcome, seen>>
    BY <1>10, Zenon DEF Unplug, MicReset
  <2>2. SeenInv'
    BY <1>2, <2>1
  <2>3. WireInv' /\ InbufInv'
    <3>1. Len(wire') = 0
      BY <2>1, EmptySeq
    <3>2. WireInv'
      BY <3>1 DEF WireInv
    <3>3. InbufInv'
      BY <2>1 DEF InbufInv, FreshInv, LinkInv, Awaited
    <3> QED
      BY <3>2, <3>3
  <2>4. pc' # "await" => NoAnswerIn(wire') /\ NoAnswerIn(inbuf')
    BY <2>1, NoAnswerEmpty DEF FreshInv, LinkInv
  <2> QED
    BY <2>1, <2>2, <2>3, <2>4, Zenon DEF LinkInv
<1>11. CASE Replug
  <2>1. PICK new \in [Required -> Values] : Settings(new)
    BY <1>11, Zenon DEF Replug
  <2>2. /\ ~plugged
        /\ UNCHANGED <<fd, wire, inbuf, pc, next, got, acc, known, outcome>>
    BY <1>11 DEF Replug, linkVars
  <2>3. wire = <<>>
    BY <2>2, Zenon DEF Live, FreshInv, LinkInv
  <2>4. /\ SeenInv'
        /\ pc = "await" => \A g \in Required : seen[g] \subseteq seen'[g]
    BY <2>1, <2>2, SettingsSeen
  <2> QED
    BY <1>8, <2>2, <2>3, <2>4
<1>12. CASE PanelReports
  <2>1. /\ Unsolicited
        /\ UNCHANGED <<plugged, attachment, hw, fd, wire, pc, next, got, acc,
                       known, outcome, seen>>
    BY <1>12 DEF PanelReports, micVars
  <2>2. ~Live' => wire = <<>>
    BY <2>1 DEF Live, FreshInv, LinkInv
  <2>3. LinkInv'
    BY <1>8, <2>1, <2>2
  <2> QED
    BY <1>2, <2>1, <2>3
<1> QED
  BY <1>3, <1>5, <1>6, <1>7, <1>9, <1>10, <1>11, <1>12 DEF Microphone

(* The steps of GetState.                                                  *)
LEMMA RefreshFresh ==
  ASSUME Punctual, FreshInv,
         \/ BeginRefresh \/ WriteGet \/ WriteGetFails \/ ReadAnswer
         \/ ReadOther \/ GetTimesOut \/ EndRefresh
  PROVE  LinkInv' /\ SeenInv'
<1> USE DEF micVars, linkVars, getVars
<1>0. /\ wire \in Seq(Requests) /\ inbuf \in Seq(Reports)
      /\ hw \in [Required -> Values] /\ seen \in [Required -> SUBSET Values]
      /\ acc \in [Features -> Values \cup Nat]
  BY DEF FreshInv, TypeOK
<1>1. ASSUME pc' # "await", pc # "await",
             UNCHANGED <<plugged, attachment, fd, wire, inbuf>>
      PROVE  LinkInv'
  BY <1>1, Calm DEF FreshInv, LinkInv, Live
<1>2. CASE BeginRefresh
  <2>1. LinkInv'
    BY <1>1, <1>2 DEF BeginRefresh, Begin
  <2>2. /\ pc' = "get" /\ outcome' = "none" /\ got' = got /\ hw' = hw
        /\ seen' = [f \in Required |-> {hw[f]}] /\ got = {}
    BY <1>2 DEF BeginRefresh, Begin, FreshInv, SeenInv
  <2> QED
    BY <2>1, <2>2 DEF SeenInv
<1>3. CASE WriteGet
  <2> DEFINE g == Getters[next]
             r == [kind |-> "get", feature |-> g]
  <2>1. /\ pc = "get" /\ pc' = "await"
        /\ UNCHANGED <<plugged, attachment, hw, next, got, acc, known,
                       outcome, seen>>
        /\ UNCHANGED micVars
        /\ Written(r)
    BY <1>3, Zenon DEF WriteGet
  <2>2. NoAnswerIn(wire) /\ NoAnswerIn(inbuf)
    BY <2>1, Zenon DEF FreshInv, LinkInv
  <2>3. r \in Requests /\ r.feature = g
    <3>1. next \in 1 .. 3
      BY <1>3 DEF WriteGet, FreshInv, TypeOK, Getters
    <3> QED
      BY <3>1, ReportTypes DEF Getters, Features
  <2>4. Live' /\ NoAnswerIn(inbuf')
    <3>1. CASE Live /\ UNCHANGED <<inbuf, fd, generation>>
      <4>1. /\ inbuf' = inbuf /\ fd' = fd /\ plugged' = plugged
            /\ attachment' = attachment
        BY <2>1, <3>1, Zenon
      <4> QED
        BY <2>2, <3>1, <4>1, Zenon DEF Live
    <3>2. CASE Reopen
      BY <2>1, <3>2, ReopenLive, Zenon
    <3> QED
      BY <2>1, <3>1, <3>2, Zenon DEF Written
  <2>5. WireInv'
    <3>1. wire' = Append(wire, r)
      BY <2>1, Zenon DEF Written
    <3>2. /\ Len(wire) \in Nat /\ Len(wire') = Len(wire) + 1
          /\ \A i \in 1 .. Len(wire) : wire'[i] = wire[i]
          /\ wire'[Len(wire) + 1] = r
      BY <1>0, <2>3, <3>1, AppendProperties, LenProperties
    <3>3. g = Getters[next']
      BY <2>1
    <3> HIDE DEF r, g
    <3> QED
      BY <2>2, <2>3, <3>2, <3>3 DEF WireInv, NoAnswerIn
  <2>6. InbufInv'
    BY <2>4 DEF InbufInv, NoAnswerIn
  <2>7. LinkInv'
    BY <2>1, <2>4, <2>5, <2>6, Zenon DEF LinkInv
  <2>8. SeenInv'
    BY <2>1 DEF SeenInv, FreshInv
  <2> QED
    BY <2>7, <2>8
<1>4. CASE WriteGetFails
  <2>1. /\ pc = "get" /\ pc' = "get" /\ NotWritten
        /\ UNCHANGED <<plugged, attachment, hw, got, acc, known, outcome, seen>>
        /\ UNCHANGED micVars
    BY <1>4, Zenon DEF WriteGetFails
  <2>2. LinkInv'
    BY <2>1, NotWrittenCalm, Calm
  <2>3. SeenInv'
    BY <2>1 DEF SeenInv, FreshInv
  <2> QED
    BY <2>2, <2>3
<1>5. CASE ReadAnswer
  <2>1. /\ pc = "await" /\ inbuf # <<>> /\ pc' = "get"
        /\ Head(inbuf).kind = "get" /\ inbuf' = Tail(inbuf)
        /\ got' = got \cup {Getters[next]}
        /\ acc' = [acc EXCEPT ![Getters[next]] = Head(inbuf).value]
        /\ UNCHANGED <<plugged, attachment, hw, wire, fd, known, outcome, seen>>
    BY <1>5 DEF ReadAnswer, Matches
  <2>2. Len(inbuf) \in Nat \ {0} /\ Head(inbuf) = inbuf[1]
    BY <1>0, <2>1, EmptySeq
  <2>3. /\ wire = <<>> /\ Awaited(inbuf[1])
        /\ \A j \in 1 .. Len(inbuf) : inbuf[j].kind = "get" => j = 1
    <3>1. InbufInv /\ pc = "await" /\ inbuf[1].kind = "get"
      BY <2>1, <2>2 DEF FreshInv, LinkInv
    <3>2. 1 \in 1 .. Len(inbuf)
      BY <2>2
    <3> QED
      BY <3>1, <3>2, Zenon DEF InbufInv
  <2>4. /\ Len(inbuf') = Len(inbuf) - 1
        /\ \A i \in 1 .. Len(inbuf') : inbuf'[i] = inbuf[i + 1]
    BY <1>0, <2>1, HeadTailProperties, LenProperties
  <2>5. NoAnswerIn(inbuf') /\ NoAnswerIn(wire')
    <3>1. NoAnswerIn(inbuf')
      <4> SUFFICES ASSUME NEW i \in 1 .. Len(inbuf'), inbuf'[i].kind = "get"
                   PROVE  FALSE
        BY DEF NoAnswerIn
      <4>1. i + 1 \in 1 .. Len(inbuf) /\ inbuf[i + 1].kind = "get"
        BY <2>2, <2>4
      <4>2. i + 1 = 1
        BY <2>3, <4>1
      <4> QED
        BY <4>2
    <3>2. wire' = <<>>
      BY <2>1, <2>3
    <3> QED
      BY <3>1, <3>2, NoAnswerEmpty, Zenon
  <2>6. LinkInv'
    <3>1. wire' = <<>>
      BY <2>1, <2>3
    <3>2. pc' # "await"
      BY <2>1
    <3> QED
      BY <2>5, <3>1, <3>2, Calm, Zenon
  <2>7. SeenInv'
    <3>1. Getters[next] \in Required => Head(inbuf).value \in seen[Getters[next]]
      BY <2>2, <2>3 DEF Awaited
    <3>2. outcome # "refreshed"
      BY <2>1 DEF FreshInv, SeenInv
    <3>3. \A f \in Required : hw[f] \in seen[f] /\ (f \in got => acc[f] \in seen[f])
      BY <2>1 DEF FreshInv, SeenInv
    <3>4. ASSUME NEW f \in Required, f \in got' PROVE acc'[f] \in seen[f]
      <4>1. f \in Features
        BY DEF Required, Features
      <4>2. CASE f = Getters[next]
        BY <1>0, <2>1, <3>1, <4>1, <4>2
      <4>3. CASE f # Getters[next]
        BY <1>0, <2>1, <3>3, <3>4, <4>1, <4>3
      <4> QED
        BY <4>2, <4>3
    <3> QED
      BY <2>1, <3>2, <3>3, <3>4 DEF SeenInv
  <2> QED
    BY <2>6, <2>7
<1>6. CASE ReadOther
  <2>1. /\ pc = "await" /\ inbuf # <<>> /\ pc' = "await"
        /\ ~Matches(Head(inbuf)) /\ inbuf' = Tail(inbuf)
        /\ UNCHANGED <<plugged, attachment, hw, wire, fd, next, got, acc,
                       known, outcome, seen>>
    BY <1>6 DEF ReadOther
  <2>2. /\ Len(inbuf) \in Nat /\ Len(inbuf') = Len(inbuf) - 1
        /\ \A i \in 1 .. Len(inbuf') : inbuf'[i] = inbuf[i + 1]
    BY <1>0, <2>1, HeadTailProperties, LenProperties
  <2>3. InbufInv'
    <3> SUFFICES ASSUME NEW i \in 1 .. Len(inbuf'), inbuf'[i].kind = "get"
                 PROVE  /\ wire' = <<>>
                        /\ Awaited(inbuf[i])'
                        /\ \A j \in 1 .. Len(inbuf') :
                              inbuf'[j].kind = "get" => j = i
      BY DEF InbufInv
    <3>1. i + 1 \in 1 .. Len(inbuf) /\ inbuf'[i] = inbuf[i + 1]
      BY <2>2
    <3>2. /\ wire = <<>> /\ Awaited(inbuf[i + 1])
          /\ \A j \in 1 .. Len(inbuf) : inbuf[j].kind = "get" => j = i + 1
      BY <2>1, <3>1 DEF InbufInv, FreshInv, LinkInv
    <3>3. ASSUME NEW j \in 1 .. Len(inbuf'), inbuf'[j].kind = "get"
          PROVE  j = i
      <4>1. j + 1 \in 1 .. Len(inbuf) /\ inbuf[j + 1].kind = "get"
        BY <2>2, <3>3
      <4>2. j + 1 = i + 1
        BY <3>2, <4>1
      <4> QED
        BY <4>2
    <3>4. Awaited(inbuf[i])'
      BY <2>1, <3>1, <3>2 DEF Awaited
    <3> QED
      BY <2>1, <3>2, <3>3, <3>4
  <2>4. WireInv'
    BY <2>1 DEF WireInv, FreshInv, LinkInv
  <2>5. Live' = Live
    BY <2>1 DEF Live
  <2>6. LinkInv'
    BY <2>1, <2>3, <2>4, <2>5 DEF FreshInv, LinkInv
  <2>7. SeenInv'
    BY <2>1 DEF SeenInv, FreshInv
  <2> QED
    BY <2>6, <2>7
<1>7. CASE GetTimesOut
  <2>1. /\ pc = "await" /\ pc' = "get" /\ OutOfTime
        /\ UNCHANGED <<plugged, attachment, hw, wire, inbuf, fd, got, acc,
                       known, outcome, seen>>
    BY <1>7 DEF GetTimesOut
  <2>2. /\ NoAnswerIn(wire) /\ NoAnswerIn(inbuf)
        /\ ~Live => wire = <<>>
    BY <2>1, Zenon DEF OutOfTime, FreshInv, LinkInv
  <2>3. /\ NoAnswerIn(wire') /\ NoAnswerIn(inbuf') /\ pc' # "await"
        /\ ~Live' => wire' = <<>>
    BY <2>1, <2>2, Zenon DEF Live
  <2>4. LinkInv'
    BY <2>3, Calm, Zenon
  <2>5. SeenInv'
    BY <2>1 DEF SeenInv, FreshInv
  <2> QED
    BY <2>4, <2>5
<1>8. CASE EndRefresh
  <2>1. LinkInv'
    BY <1>1, <1>8 DEF EndRefresh, Return
  <2>2. CASE Required \subseteq got /\ Return("refreshed", acc)
    <3>1. \A f \in Required : acc[f] \in seen[f]
      BY <1>8, <2>2 DEF EndRefresh, FreshInv, SeenInv
    <3>2. /\ pc' = "idle" /\ known' = acc /\ seen' = seen /\ got' = {}
      BY <1>8, <2>2 DEF EndRefresh, Return
    <3> QED
      BY <2>1, <3>1, <3>2 DEF SeenInv
  <2>3. CASE Return("failed", known)
    <3>1. pc' = "idle" /\ outcome' = "failed" /\ got' = {}
      BY <2>3 DEF Return
    <3> QED
      BY <2>1, <3>1 DEF SeenInv
  <2> QED
    BY <1>8, <2>2, <2>3 DEF EndRefresh
<1> QED
  BY <1>2, <1>3, <1>4, <1>5, <1>6, <1>7, <1>8

(* The steps of the setters and of FactoryReset.                           *)
LEMMA SetFresh ==
  ASSUME FreshInv,
         \/ \E f \in Required, v \in Values : BeginSet(f, v)
         \/ BeginReset
         \/ WriteSet \/ WriteConfirm \/ WriteConfirmElsewhere
         \/ WriteSetFails \/ DrainReads \/ DrainTimesOut \/ WriteReset
  PROVE  LinkInv' /\ SeenInv'
<1> USE DEF linkVars
<1>0. wire \in Seq(Requests) /\ inbuf \in Seq(Reports)
  BY DEF FreshInv, TypeOK
<1>1. ASSUME pc' = "idle" => got' = {} /\ outcome' # "refreshed",
             outcome' # "refreshed", pc' \notin {"get", "await"}
      PROVE  SeenInv'
  BY <1>1 DEF SeenInv
<1>2. ASSUME NEW o \in {"set", "reset", "failed"}, Return(o, known)
      PROVE  SeenInv' /\ pc' # "await"
  BY <1>1, <1>2 DEF Return
<1>3. ASSUME NEW f \in Required, NEW v \in Values, BeginSet(f, v)
      PROVE  LinkInv' /\ SeenInv'
  <2>1. /\ pc = "idle" /\ pc' = "set" /\ outcome' = "none"
        /\ UNCHANGED <<micVars, wire, inbuf, fd>>
    BY <1>3 DEF BeginSet, Begin
  <2>2. LinkInv'
    BY <2>1, Calm DEF FreshInv, LinkInv, Live, micVars
  <2> QED
    BY <1>1, <2>1, <2>2
<1>4. CASE BeginReset
  <2>1. /\ pc = "idle" /\ pc' = "reset" /\ outcome' = "none"
        /\ UNCHANGED <<micVars, wire, inbuf, fd>>
    BY <1>4 DEF BeginReset, Begin
  <2>2. LinkInv'
    BY <2>1, Calm DEF FreshInv, LinkInv, Live, micVars
  <2> QED
    BY <1>1, <2>1, <2>2
<1>5. outcome # "refreshed" \/ pc = "idle"
  BY DEF FreshInv, SeenInv
<1>6. ASSUME pc \in {"set", "confirm", "reset"}, UNCHANGED micVars,
             NEW r \in Requests, r.kind # "get", Written(r), pc' # "await"
      PROVE  LinkInv'
  BY <1>6, WrittenCalm, Calm
<1>7. ASSUME pc \in {"set", "confirm", "reset"}, UNCHANGED micVars,
             NotWritten, pc' # "await"
      PROVE  LinkInv'
  BY <1>7, NotWrittenCalm, Calm
<1>8. CASE WriteSet
  <2>1. request \in Requests /\ request.kind # "get"
    BY <1>8, ReportTypes DEF WriteSet, FreshInv, TypeOK, Sets
  <2>2. /\ pc = "set" /\ pc' = "confirm" /\ outcome' = outcome
        /\ Written(request) /\ UNCHANGED micVars
    BY <1>8 DEF WriteSet
  <2> QED
    BY <1>1, <1>5, <1>6, <2>1, <2>2
<1>9. [kind |-> "confirm"] \in Requests /\ [kind |-> "reset"] \in Requests
  BY ReportTypes
<1>10. CASE WriteConfirm
  <2>1. /\ pc = "confirm" /\ pc' = "drain" /\ outcome' = outcome
        /\ Written([kind |-> "confirm"]) /\ UNCHANGED micVars
    BY <1>10 DEF WriteConfirm
  <2> QED
    BY <1>1, <1>5, <1>6, <1>9, <2>1
<1>11. CASE WriteConfirmElsewhere
  <2>1. pc = "confirm" /\ Written([kind |-> "confirm"]) /\ UNCHANGED micVars
    BY <1>11 DEF WriteConfirmElsewhere
  <2>2. CASE pc' = "set" /\ UNCHANGED outcome
    BY <1>1, <1>5, <1>6, <1>9, <2>1, <2>2
  <2>3. CASE Return("failed", known)
    BY <1>2, <1>6, <1>9, <2>1, <2>3
  <2> QED
    BY <1>11, <2>2, <2>3 DEF WriteConfirmElsewhere
<1>12. CASE WriteSetFails
  <2>1. /\ pc \in {"set", "confirm"} /\ NotWritten /\ UNCHANGED micVars
        /\ Return("failed", known)
    BY <1>12 DEF WriteSetFails
  <2> QED
    BY <1>2, <1>7, <2>1
<1>13. CASE WriteReset
  <2>1. pc = "reset" /\ UNCHANGED micVars
    BY <1>13 DEF WriteReset
  <2>2. CASE Written([kind |-> "reset"]) /\ Return("reset", known)
    BY <1>2, <1>6, <1>9, <2>1, <2>2
  <2>3. CASE NotWritten /\ Return("failed", known)
    BY <1>2, <1>7, <2>1, <2>3
  <2> QED
    BY <1>13, <2>2, <2>3 DEF WriteReset
<1>14. ASSUME Drained PROVE SeenInv' /\ pc # "await" /\ pc' # "await"
  <2>1. CASE pc = "drain" /\ pc' = "drain more" /\ UNCHANGED outcome
    BY <1>1, <1>5, <2>1
  <2>2. CASE pc = "drain more" /\ Return("set", known)
    BY <1>2, <2>2
  <2> QED
    BY <1>14, <2>1, <2>2 DEF Drained
<1>15. CASE DrainReads
  <2>1. /\ inbuf # <<>> /\ inbuf' = Tail(inbuf) /\ Drained
        /\ UNCHANGED <<plugged, attachment, fd, wire>>
    BY <1>15 DEF DrainReads, micVars
  <2>2. NoAnswerIn(wire') /\ NoAnswerIn(inbuf')
    BY <1>0, <1>14, <2>1, NoAnswerTail DEF FreshInv, LinkInv
  <2>3. ~Live' => wire' = <<>>
    BY <2>1 DEF Live, FreshInv, LinkInv
  <2> QED
    BY <1>14, <2>1, <2>2, <2>3, Calm
<1>16. CASE DrainTimesOut
  <2>1. Drained /\ UNCHANGED <<plugged, attachment, fd, wire, inbuf>>
    BY <1>16 DEF DrainTimesOut, micVars
  <2>2. LinkInv'
    BY <1>14, <2>1, Calm DEF Live, FreshInv, LinkInv
  <2> QED
    BY <1>14, <2>1, <2>2
<1> QED
  BY <1>3, <1>4, <1>8, <1>10, <1>11, <1>12, <1>13, <1>15, <1>16

(***************************************************************************)
(* A refresh that reports success committed a gain and a mute that were    *)
(* the microphone's during this very refresh, if the microphone answers    *)
(* before the reads of GetState time out.                                  *)
(***************************************************************************)
THEOREM FreshReading == ASSUME Punctual PROVE Spec => []RefreshShowsHardware
<1>1. Init => FreshInv
  <2> SUFFICES ASSUME Init PROVE FreshInv
    OBVIOUS
  <2>1. TypeOK
    BY TypeInitially
  <2>2. /\ wire = <<>> /\ inbuf = <<>> /\ pc = "idle" /\ got = {}
        /\ outcome = "none"
    BY Zenon DEF Init
  <2>3. NoAnswerIn(wire) /\ NoAnswerIn(inbuf)
    BY <2>2, NoAnswerEmpty, Zenon
  <2>4. LinkInv /\ SeenInv
    BY <2>2, <2>3 DEF LinkInv, SeenInv, WireInv, InbufInv
  <2> QED
    BY <2>1, <2>4 DEF FreshInv
<1>2. FreshInv /\ [Next]_vars => FreshInv'
  <2> SUFFICES ASSUME FreshInv, [Next]_vars PROVE FreshInv'
    OBVIOUS
  <2>1. TypeOK'
    BY TypeStep DEF FreshInv
  <2>2. CASE UNCHANGED vars
    BY <2>1, <2>2 DEF vars, micVars, linkVars, getVars, FreshInv, LinkInv,
       SeenInv, WireInv, InbufInv, Awaited, NoAnswerIn, Live
  <2>3. CASE Next
    BY <2>1, <2>3, MicrophoneFresh, RefreshFresh, SetFresh
       DEF Next, Call, FreshInv
  <2> QED
    BY <2>2, <2>3
<1>3. FreshInv => RefreshShowsHardware
  BY DEF FreshInv, SeenInv, RefreshShowsHardware
<1> QED
  BY <1>1, <1>2, <1>3, PTL DEF Spec

---------------------------------------------------------------------------
(***************************************************************************)
(* Setters.  No punctuality is needed: sendSet does not look at answers.   *)
(***************************************************************************)

(* The SET has reached the microphone last, or will.                       *)
HasSet(s) ==
    \/ wire # <<>> /\ wire[Len(wire)] = s
    \/ wire = <<>> /\ pending = {s}

(* Its CONFIRM comes next, or right after it.                              *)
Confirming(s) == pending = {s} /\ wire # <<>> /\ Head(wire).kind = "confirm"

Following(s) ==
    \E i \in 1 .. Len(wire) - 1 : wire[i] = s /\ wire[i + 1].kind = "confirm"

Effective ==
    Live => \A s \in unapplied : Confirming(s) \/ Following(s)

(* Between SET and CONFIRM the descriptor is the one the SET went to, or a *)
(* dead one; once both are written they stay together.                     *)
EffectInv ==
    /\ outcome # "none" => pc = "idle"
    /\ \A s, t \in unapplied : s = t
    /\ pc \in {"set", "confirm", "drain", "drain more"} =>
          unapplied \subseteq {request}
    /\ pc = "confirm" =>
          setGeneration = generation /\ (Live => HasSet(request))
    /\ pc \in {"drain", "drain more"} \/ outcome = "set" => Effective

(* The wire after its first report was taken.                              *)
LEMMA WireShift ==
  ASSUME TypeOK, wire # <<>>, wire' = Tail(wire)
  PROVE  /\ Len(wire) \in Nat \ {0} /\ Len(wire') = Len(wire) - 1
         /\ \A i \in 1 .. Len(wire') : wire'[i] = wire[i + 1]
         /\ Head(wire) = wire[1]
         /\ wire' = <<>> <=> Len(wire) = 1
         /\ wire' # <<>> => Head(wire') = wire'[1]
<1>1. wire \in Seq(Requests)
  BY DEF TypeOK
<1>2. /\ Len(wire) \in Nat \ {0} /\ Head(wire) = wire[1]
      /\ Tail(wire) \in Seq(Requests) /\ Len(Tail(wire)) = Len(wire) - 1
      /\ \A i \in 1 .. Len(Tail(wire)) : Tail(wire)[i] = wire[i + 1]
  BY <1>1, HeadTailProperties, LenProperties, EmptySeq
<1>3. Tail(wire) = <<>> <=> Len(Tail(wire)) = 0
  BY <1>2, EmptySeq
<1>4. Tail(wire) # <<>> => Head(Tail(wire)) = Tail(wire)[1]
  BY <1>2
<1> QED
  BY <1>2, <1>3, <1>4

(* The wire after a report was written to it.                              *)
LEMMA WireGrows ==
  ASSUME TypeOK, NEW r \in Requests, wire' = Append(wire, r)
  PROVE  /\ Len(wire) \in Nat /\ Len(wire') = Len(wire) + 1
         /\ \A i \in 1 .. Len(wire) : wire'[i] = wire[i]
         /\ wire'[Len(wire')] = r /\ wire' # <<>>
         /\ wire = <<>> => Head(wire') = r
<1>1. wire \in Seq(Requests)
  BY DEF TypeOK
<1>2. /\ Len(wire) \in Nat /\ Len(wire') = Len(wire) + 1
      /\ \A i \in 1 .. Len(wire) : wire'[i] = wire[i]
      /\ wire'[Len(wire')] = r
      /\ wire' \in Seq(Requests)
  BY <1>1, AppendProperties, LenProperties
<1>3. wire' # <<>>
  BY <1>2, EmptySeq
<1>4. wire = <<>> => Len(wire) = 0
  BY EmptySeq
<1>5. Head(wire') = wire'[1]
  BY <1>2, <1>3
<1> QED
  BY <1>2, <1>3, <1>4, <1>5

(* What the microphone does when it acts on a report other than a reset.   *)
MicActs == MicAnswers \/ MicIgnores \/ MicSet \/ MicConfirm

LEMMA MicEffects ==
  ASSUME TypeOK, MicActs
  PROVE  /\ wire # <<>> /\ wire' = Tail(wire)
         /\ unapplied' \subseteq unapplied
         /\ \A s \in Sets : Head(wire) = s => pending' = {s}
         /\ \A s \in Sets : Confirming(s) => s \notin unapplied'
         /\ UNCHANGED <<plugged, attachment, fd, generation, pc, request,
                        setGeneration, outcome>>
<1> USE DEF micVars, setVars, Sets, Confirming
<1>1. CASE MicAnswers
  BY <1>1 DEF MicAnswers
<1>2. CASE MicIgnores
  BY <1>2 DEF MicIgnores
<1>3. CASE MicSet
  BY <1>3 DEF MicSet
<1>4. CASE MicConfirm
  BY <1>4 DEF MicConfirm
<1> QED
  BY <1>1, <1>2, <1>3, <1>4 DEF MicActs

(* The microphone takes reports in their order: a SET that is last stays   *)
(* last or becomes pending, and its CONFIRM stays behind it.               *)
LEMMA MicKeepsOrder ==
  ASSUME TypeOK, MicActs, NEW s \in Sets
  PROVE  /\ HasSet(s) => HasSet(s)'
         /\ Following(s) => Following(s)' \/ Confirming(s)'
<1>1. /\ wire # <<>> /\ wire' = Tail(wire)
      /\ Head(wire) = s => pending' = {s}
  BY MicEffects
<1>2. /\ Len(wire) \in Nat \ {0} /\ Len(wire') = Len(wire) - 1
      /\ \A i \in 1 .. Len(wire') : wire'[i] = wire[i + 1]
      /\ Head(wire) = wire[1]
      /\ wire' = <<>> <=> Len(wire) = 1
      /\ wire' # <<>> => Head(wire') = wire'[1]
  BY <1>1, WireShift
<1>3. ASSUME HasSet(s) PROVE HasSet(s)'
  <2>1. wire[Len(wire)] = s
    BY <1>1, <1>3 DEF HasSet
  <2>2. CASE Len(wire) = 1
    BY <1>1, <1>2, <2>1, <2>2 DEF HasSet
  <2>3. CASE Len(wire) # 1
    <3>1. Len(wire') \in 1 .. Len(wire') /\ Len(wire') + 1 = Len(wire)
      BY <1>2, <2>3
    <3>2. wire'[Len(wire')] = s
      BY <1>2, <2>1, <3>1
    <3> QED
      BY <1>2, <2>3, <3>2 DEF HasSet
  <2> QED
    BY <2>2, <2>3
<1>4. ASSUME Following(s) PROVE Following(s)' \/ Confirming(s)'
  <2>1. PICK i \in 1 .. Len(wire) - 1 :
          wire[i] = s /\ wire[i + 1].kind = "confirm"
    BY <1>4 DEF Following
  <2>2. CASE i = 1
    <3>1. 1 \in 1 .. Len(wire') /\ wire' # <<>>
      BY <1>2, <2>2
    <3>2. wire'[1] = wire[1 + 1]
      BY <1>2, <3>1
    <3> QED
      BY <1>1, <1>2, <2>1, <2>2, <3>1, <3>2 DEF Confirming
  <2>3. CASE i # 1
    <3>1. /\ i - 1 \in 1 .. Len(wire') - 1
          /\ i - 1 \in 1 .. Len(wire') /\ (i - 1) + 1 \in 1 .. Len(wire')
          /\ (i - 1) + 1 = i
      BY <1>2, <2>1, <2>3
    <3>2. wire'[i - 1] = s /\ wire'[(i - 1) + 1].kind = "confirm"
      BY <1>2, <2>1, <3>1
    <3> QED
      BY <3>1, <3>2 DEF Following
  <2> QED
    BY <2>2, <2>3
<1> QED
  BY <1>3, <1>4

(* A microphone that goes away or comes back is not the one the open       *)
(* descriptor belongs to.                                                  *)
LEMMA NotLive ==
  ASSUME TypeOK, Unplug \/ MicReset \/ Replug
  PROVE  /\ ~Live'
         /\ UNCHANGED <<unapplied, generation, pc, request, setGeneration,
                        outcome>>
<1> USE DEF linkVars, setVars
<1>1. CASE Unplug \/ MicReset
  BY <1>1 DEF Unplug, MicReset, Live
<1>2. CASE Replug
  <2>1. attachment' = attachment + 1 /\ fd' = fd
    BY <1>2 DEF Replug
  <2>2. attachment \in Nat /\ fd \in 0 .. attachment
    BY DEF TypeOK
  <2>3. fd' # attachment'
    BY <2>1, <2>2
  <2> QED
    BY <1>2, <2>3 DEF Replug, Live
<1> QED
  BY <1>1, <1>2

(* Steps that touch neither the wire nor the call.                         *)
LEMMA EffectFrame ==
  ASSUME EffectInv,
         UNCHANGED <<wire, pending, plugged, attachment, fd, unapplied,
                     generation, pc, request, setGeneration, outcome>>
  PROVE  EffectInv'
<1>1. Live' <=> Live
  BY DEF Live
<1>2. /\ \A s : Confirming(s)' <=> Confirming(s)
      /\ \A s : Following(s)' <=> Following(s)
  BY DEF Confirming, Following
<1>3. Effective' <=> Effective
  BY <1>1, <1>2 DEF Effective
<1>4. HasSet(request)' <=> HasSet(request)
  BY DEF HasSet
<1> QED
  BY <1>1, <1>3, <1>4 DEF EffectInv

(* The microphone's own steps.                                             *)
LEMMA MicrophoneEffect ==
  ASSUME TypeOK, EffectInv,
         \/ Microphone \/ Unplug \/ Replug \/ PanelReports
         \/ \E f \in Required, v \in Values : Buttons(f, v)
  PROVE  EffectInv'
<1>1. CASE MicActs
  <2>1. /\ unapplied' \subseteq unapplied
        /\ UNCHANGED <<plugged, attachment, fd, generation, pc, request,
                       setGeneration, outcome>>
        /\ \A s \in Sets : Confirming(s) => s \notin unapplied'
    BY <1>1, MicEffects
  <2>2. Live' <=> Live
    BY <2>1 DEF Live
  <2>3. unapplied \subseteq Sets
    BY DEF TypeOK, Sets
  <2>4. Effective => Effective'
    BY <1>1, <2>1, <2>2, <2>3, MicKeepsOrder DEF Effective
  <2>5. ASSUME pc = "confirm", HasSet(request) PROVE HasSet(request)'
    <3>1. request \in Sets
      BY <2>5 DEF TypeOK, Sets
    <3>2. PICK s \in Sets : s = request
      BY <3>1
    <3>3. HasSet(s)
      BY <2>5, <3>2
    <3>4. HasSet(s)'
      BY <1>1, <3>3, MicKeepsOrder
    <3> QED
      BY <2>1, <3>2, <3>4 DEF HasSet
  <2> QED
    BY <2>1, <2>2, <2>4, <2>5 DEF EffectInv
<1>2. CASE Unplug \/ MicReset \/ Replug
  <2>1. /\ ~Live'
        /\ UNCHANGED <<unapplied, generation, pc, request, setGeneration,
                       outcome>>
    BY <1>2, NotLive
  <2> QED
    BY <2>1 DEF EffectInv, Effective
<1>3. ASSUME \/ \E f \in Required, v \in Values : Buttons(f, v)
             \/ PanelReports
      PROVE  EffectInv'
  <2>1. UNCHANGED <<wire, pending, plugged, attachment, fd, unapplied,
                    generation, pc, request, setGeneration, outcome>>
    BY <1>3 DEF Buttons, PanelReports, micVars, setVars
  <2> QED
    BY <2>1, EffectFrame
<1> QED
  BY <1>1, <1>2, <1>3 DEF Microphone, MicActs

(* The calls that are no setters, and the beginning of every call.         *)
LEMMA OtherCallsEffect ==
  ASSUME TypeOK, EffectInv,
         \/ WriteGet \/ WriteGetFails \/ ReadAnswer \/ ReadOther
         \/ GetTimesOut \/ EndRefresh \/ WriteReset
         \/ BeginRefresh \/ BeginReset
         \/ \E f \in Required, v \in Values : BeginSet(f, v)
  PROVE  EffectInv'
<1> USE DEF micVars, linkVars, getVars, setVars
<1>1. ASSUME \/ WriteGet \/ WriteGetFails \/ ReadAnswer \/ ReadOther
             \/ GetTimesOut
      PROVE  EffectInv'
  <2>1. /\ pc \in {"get", "await"} /\ pc' \in {"get", "await"}
        /\ UNCHANGED <<unapplied, outcome>>
    BY <1>1 DEF WriteGet, WriteGetFails, ReadAnswer, ReadOther, GetTimesOut
  <2> QED
    BY <2>1 DEF EffectInv
<1>2. ASSUME EndRefresh \/ WriteReset PROVE EffectInv'
  <2>1. pc' = "idle" /\ outcome' # "set" /\ UNCHANGED unapplied
    BY <1>2 DEF EndRefresh, WriteReset, Return
  <2> QED
    BY <2>1 DEF EffectInv
<1>3. ASSUME BeginRefresh \/ BeginReset PROVE EffectInv'
  <2>1. /\ pc' \in {"get", "reset"} /\ outcome' = "none"
        /\ unapplied' = {}
    BY <1>3 DEF BeginRefresh, BeginReset, Begin
  <2> QED
    BY <2>1 DEF EffectInv
<1>4. ASSUME NEW f \in Required, NEW v \in Values, BeginSet(f, v)
      PROVE  EffectInv'
  <2>1. /\ pc' = "set" /\ outcome' = "none"
        /\ unapplied' = {request'}
    BY <1>4 DEF BeginSet, Begin
  <2> QED
    BY <2>1 DEF EffectInv
<1> QED
  BY <1>1, <1>2, <1>3, <1>4

(* A CONFIRM written to the descriptor of its SET ends up behind it.       *)
LEMMA ConfirmFollows ==
  ASSUME TypeOK, NEW s \in Sets, HasSet(s), pending' = pending,
         wire' = Append(wire, [kind |-> "confirm"])
  PROVE  Following(s)' \/ Confirming(s)'
<1> DEFINE r == [kind |-> "confirm"]
<1>1. r \in Requests /\ r.kind = "confirm"
  BY ReportTypes
<1>2. /\ Len(wire) \in Nat /\ Len(wire') = Len(wire) + 1
      /\ \A i \in 1 .. Len(wire) : wire'[i] = wire[i]
      /\ wire'[Len(wire')] = r /\ wire' # <<>>
      /\ wire = <<>> => Head(wire') = r
  BY <1>1, WireGrows
<1> HIDE DEF r
<1>3. CASE wire = <<>>
  BY <1>1, <1>2, <1>3 DEF HasSet, Confirming
<1>4. CASE wire # <<>>
  <2>1. wire[Len(wire)] = s
    BY <1>4 DEF HasSet
  <2>2. Len(wire) # 0
    BY <1>4, EmptySeq DEF TypeOK
  <2>3. Len(wire) \in 1 .. Len(wire') - 1 /\ Len(wire) \in 1 .. Len(wire)
    BY <1>2, <2>2
  <2>4. wire'[Len(wire)] = s /\ wire'[Len(wire) + 1].kind = "confirm"
    BY <1>1, <1>2, <2>1, <2>3
  <2> QED
    BY <2>3, <2>4 DEF Following
<1> QED
  BY <1>3, <1>4

(* sendSet.                                                                *)
LEMMA SetterEffect ==
  ASSUME TypeOK, EffectInv,
         \/ WriteSet \/ WriteConfirm \/ WriteConfirmElsewhere
         \/ WriteSetFails \/ DrainReads \/ DrainTimesOut
  PROVE  EffectInv'
<1> USE DEF micVars, linkVars, getVars, setVars
<1>1. CASE WriteSet
  <2>1. /\ pc = "set" /\ pc' = "confirm" /\ setGeneration' = generation'
        /\ UNCHANGED <<request, outcome, unapplied>>
        /\ wire' = Append(wire, request)
    BY <1>1 DEF WriteSet, Written
  <2>2. request \in Sets
    BY <2>1 DEF TypeOK, Sets
  <2>3. wire' # <<>> /\ wire'[Len(wire')] = request
    BY <2>1, <2>2, ReportTypes, WireGrows
  <2>4. HasSet(request)'
    BY <2>1, <2>3 DEF HasSet
  <2> QED
    BY <2>1, <2>4 DEF EffectInv
<1>2. CASE WriteConfirm
  <2>1. /\ pc = "confirm" /\ pc' = "drain" /\ generation' = setGeneration
        /\ UNCHANGED <<plugged, attachment, pending, request, outcome,
                       unapplied>>
        /\ wire' = Append(wire, [kind |-> "confirm"])
        /\ (Live /\ UNCHANGED <<inbuf, fd, generation>>) \/ Reopen
    BY <1>2 DEF WriteConfirm, Written
  <2>2. setGeneration = generation /\ generation \in Nat
    BY <2>1 DEF EffectInv, TypeOK
  <2>3. Live /\ fd' = fd
    BY <2>1, <2>2 DEF Reopen
  <2>4. HasSet(request) /\ request \in Sets
    BY <2>1, <2>3 DEF EffectInv, TypeOK, Sets
  <2>5. Following(request)' \/ Confirming(request)'
    <3>1. PICK s \in Sets : s = request
      BY <2>4
    <3>2. Following(s)' \/ Confirming(s)'
      BY <2>1, <2>4, <3>1, ConfirmFollows
    <3> QED
      BY <2>1, <3>1, <3>2 DEF Following, Confirming
  <2>6. unapplied' \subseteq {request'} /\ outcome' # "set"
    BY <2>1 DEF EffectInv
  <2>7. Effective'
    BY <2>1, <2>5, <2>6 DEF Effective
  <2> QED
    BY <2>1, <2>6, <2>7 DEF EffectInv
<1>3. CASE WriteConfirmElsewhere
  <2>1. /\ UNCHANGED unapplied
        /\ \/ pc' = "set" /\ UNCHANGED <<request, outcome>>
           \/ pc' = "idle" /\ outcome' = "failed"
        /\ pc = "confirm"
    BY <1>3 DEF WriteConfirmElsewhere, Return
  <2> QED
    BY <2>1 DEF EffectInv
<1>4. CASE WriteSetFails
  <2>1. UNCHANGED unapplied /\ pc' = "idle" /\ outcome' = "failed"
    BY <1>4 DEF WriteSetFails, Return
  <2> QED
    BY <2>1 DEF EffectInv
<1>5. CASE DrainReads \/ DrainTimesOut
  <2>1. /\ UNCHANGED <<plugged, attachment, fd, wire, pending, unapplied>>
        /\ pc \in {"drain", "drain more"}
        /\ \/ pc' = "drain more" /\ UNCHANGED <<request, outcome>>
           \/ pc' = "idle"
    BY <1>5 DEF DrainReads, DrainTimesOut, Drained, Return
  <2>2. Effective
    BY <2>1 DEF EffectInv
  <2>3. Effective' <=> Effective
    <3>1. UNCHANGED Live
      BY <2>1 DEF Live
    <3>2. \A s : UNCHANGED <<Confirming(s), Following(s)>>
      BY <2>1 DEF Confirming, Following
    <3> QED
      BY <2>1, <3>1, <3>2 DEF Effective
  <2> QED
    BY <2>1, <2>2, <2>3 DEF EffectInv
<1> QED
  BY <1>1, <1>2, <1>3, <1>4, <1>5

(***************************************************************************)
(* A setter that reports success has taken effect or is about to, whatever *)
(* the microphone and the cable did meanwhile and however often the        *)
(* descriptor was reopened: SET and CONFIRM are behind one another on the  *)
(* attachment the descriptor belongs to.                                   *)
(***************************************************************************)
THEOREM SettersTakeEffect == Spec => []SetTakesEffect
<1>1. Init => EffectInv
  BY DEF Init, EffectInv
<1>2. TypeOK /\ EffectInv /\ [Next]_vars => EffectInv'
  <2>1. EffectInv /\ UNCHANGED vars => EffectInv'
    BY EffectFrame DEF vars, micVars, linkVars, setVars
  <2>2. TypeOK /\ EffectInv /\ Next => EffectInv'
    BY MicrophoneEffect, OtherCallsEffect, SetterEffect DEF Next, Call
  <2> QED
    BY <2>1, <2>2
<1>3. TypeOK /\ EffectInv => SetTakesEffect
  <2> SUFFICES ASSUME TypeOK, EffectInv, outcome = "set", Live,
                      NEW s \in unapplied
               PROVE  OnItsWay(unapplied)
    BY DEF SetTakesEffect
  <2>1. unapplied = {s}
    BY DEF EffectInv
  <2>2. Confirming(s) \/ Following(s)
    BY DEF EffectInv, Effective
  <2>3. CASE Confirming(s)
    BY <2>1, <2>3 DEF Confirming, OnItsWay
  <2>4. CASE Following(s)
    <3>1. PICK i \in 1 .. Len(wire) - 1 :
            wire[i] = s /\ wire[i + 1].kind = "confirm"
      BY <2>4 DEF Following
    <3>2. Len(wire) \in Nat
      BY LenProperties DEF TypeOK
    <3>3. i \in 1 .. Len(wire) /\ i < Len(wire)
      BY <3>1, <3>2
    <3> QED
      BY <2>1, <3>1, <3>3 DEF OnItsWay
  <2> QED
    BY <2>2, <2>3, <2>4
<1> QED
  BY <1>1, <1>2, <1>3, TypeCorrect, PTL DEF Spec
===========================================================================
