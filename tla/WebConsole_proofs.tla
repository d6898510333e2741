------------------------- MODULE WebConsole_proofs --------------------------
(***************************************************************************)
(* Proofs about WebConsole: the page is never without a way back to the      *)
(* daemon, shows what the daemon said, and keeps the promise of Wishes.      *)
(***************************************************************************)
EXTENDS WebConsole, SequenceTheorems, TLAPS

-----------------------------------------------------------------------------
(* The socket and the timer.  The page's variable for the timer is set just  *)
(* while the timer runs.                                                    *)

SocketsInv ==
    /\ sockets \in [Sockets -> {"closed", "connecting", "open", "closing"}]
    /\ ws \in Sockets
    /\ armed \in BOOLEAN
    /\ reconnectTimer = armed
    /\ Lifeline

LEMMA ClosesKeepsSockets ==
    ASSUME SocketsInv, NEW k \in Sockets, Closes(k)
    PROVE  SocketsInv' /\ k = ws /\ sockets'[ws'] = "closed"
<1>1. sockets[k] # "closed"  BY DEF Closes
<1>2. k = ws /\ ~armed /\ \A j \in Sockets : j # ws => sockets[j] = "closed"
  BY <1>1 DEF SocketsInv, Lifeline, Live
<1>3. /\ sockets' \in [Sockets -> {"closed", "connecting", "open", "closing"}]
      /\ \A j \in Sockets : sockets'[j] = "closed"
  BY <1>2 DEF Closes, SocketsInv
<1>4. ws' = ws  BY DEF Closes
<1>5. reconnectTimer' = TRUE /\ armed' = TRUE
  BY <1>2 DEF Closes, ScheduleReconnect, SocketsInv
<1>6. Live' = {} /\ sockets'[ws'] # "closing"
  BY <1>3, <1>4 DEF Live, SocketsInv
<1>7. armed' \in BOOLEAN /\ reconnectTimer' = armed' /\ Lifeline'
  BY <1>5, <1>6 DEF Lifeline
<1> QED  BY <1>2, <1>3, <1>4, <1>7 DEF SocketsInv

LEMMA RedialsKeepsSockets ==
    ASSUME SocketsInv, Redials
    PROVE  SocketsInv' /\ sockets'[ws'] = "connecting"
<1>1. armed /\ \A j \in Sockets : sockets[j] = "closed"
  BY DEF Redials, SocketsInv, Lifeline, Live
<1>2. PICK k \in Sockets : ws' = k /\ sockets' = [sockets EXCEPT ![k] = "connecting"]
  BY DEF Redials
<1>3. ~armed' /\ armed' \in BOOLEAN  BY DEF Redials
<1>4. ~reconnectTimer' /\ reconnectTimer' \in BOOLEAN  BY DEF Redials
<1>5. /\ sockets' \in [Sockets -> {"closed", "connecting", "open", "closing"}]
      /\ sockets'[k] = "connecting"
      /\ \A j \in Sockets : j # k => sockets'[j] = "closed"
  BY <1>1, <1>2 DEF SocketsInv
<1>6. Live' = {ws'}  BY <1>2, <1>5 DEF Live
<1>7. Lifeline'  BY <1>2, <1>3, <1>5, <1>6 DEF Lifeline
<1> QED  BY <1>2, <1>3, <1>4, <1>5, <1>7 DEF SocketsInv

LEMMA OpensKeepsSockets ==
    ASSUME SocketsInv, Opens
    PROVE  SocketsInv' /\ sockets'[ws'] = "open"
<1>1. sockets[ws] = "connecting" /\ sockets' = [sockets EXCEPT ![ws] = "open"]
  BY DEF Opens
<1>2. UNCHANGED <<ws, reconnectTimer, armed>>  BY DEF Opens
<1>3. /\ sockets' \in [Sockets -> {"closed", "connecting", "open", "closing"}]
      /\ sockets'[ws] = "open"
      /\ \A j \in Sockets : sockets[j] = "closed" <=> sockets'[j] = "closed"
  BY <1>1 DEF SocketsInv
<1>4. Live' = Live  BY <1>3 DEF Live
<1>5. Lifeline'  BY <1>2, <1>3, <1>4 DEF Lifeline, SocketsInv
<1> QED  BY <1>2, <1>3, <1>5 DEF SocketsInv

(* Every other action leaves them alone.                                    *)
socketVars == <<sockets, ws, reconnectTimer, armed>>

LEMMA OthersLeaveSockets ==
    ASSUME [Next]_vars
    PROVE  \/ \E k \in Sockets : Closes(k)
           \/ Redials \/ Opens
           \/ UNCHANGED socketVars
  BY DEF Next, User, Behind, Hears, Chooses, Slides, Types, Leaves, AsksToConfirm, Confirms,
         vars, pageVars, socketVars

LEMMA SocketsStep == SocketsInv /\ [Next]_vars => SocketsInv'
<1> SUFFICES ASSUME SocketsInv, [Next]_vars PROVE SocketsInv'
  OBVIOUS
<1>1. CASE UNCHANGED socketVars
  BY <1>1 DEF SocketsInv, Lifeline, Live, socketVars
<1> QED
  BY <1>1, OthersLeaveSockets, ClosesKeepsSockets, RedialsKeepsSockets, OpensKeepsSockets

LEMMA SocketsInit == Init => SocketsInv
<1> SUFFICES ASSUME Init PROVE SocketsInv
  OBVIOUS
<1>1. /\ ws \in Sockets
      /\ sockets = [k \in Sockets |-> IF k = ws THEN "connecting" ELSE "closed"]
      /\ ~armed /\ ~reconnectTimer /\ armed = FALSE /\ reconnectTimer = FALSE
  BY DEF Init
<1>2. Live = {ws} /\ sockets[ws] # "closing"  BY <1>1 DEF Live
<1>3. Lifeline  BY <1>1, <1>2 DEF Lifeline
<1> QED  BY <1>1, <1>3 DEF SocketsInv

(* The page holds one socket, the one its handlers use, or the timer that    *)
(* will dial, at every moment and whatever fails.                           *)
THEOREM AlwaysALifeline == Spec => []Lifeline
<1>1. Spec => []SocketsInv  BY SocketsInit, SocketsStep, PTL DEF Spec
<1>2. SocketsInv => Lifeline  BY DEF SocketsInv
<1> QED  BY <1>1, <1>2, PTL

-----------------------------------------------------------------------------
(* The link carries values that the settings can have, in both directions.   *)

SettingCommands == {c \in Commands : c.field # "reset" => c.value \in Settings(c.field)}

LinkInv ==
    /\ mic \in States
    /\ link \in {"open", "closed"}
    /\ cmds \in Seq(SettingCommands)
    /\ news \in Seq(Snapshots)

LEMMA SettingInRange ==
    ASSUME NEW f \in Fields, NEW v \in Settings(f)
    PROVE  v \in AnyPosition
  BY StepAssumption DEF Settings, AnyPosition, Off, On

LEMMA ChangedState ==
    ASSUME NEW s \in States, NEW f \in Fields, NEW v \in Settings(f)
    PROVE  [s EXCEPT !.settings[f] = v] \in States
<1>1. v \in AnyPosition  BY SettingInRange
<1>2. s.settings \in [Fields -> AnyPosition] /\ s.serial \in Serials
      /\ s = [settings |-> s.settings, serial |-> s.serial]
      /\ \A g \in Fields : s.settings[g] \in Settings(g)
  BY DEF States
<1> DEFINE new == [s.settings EXCEPT ![f] = v]
<1>3. new \in [Fields -> AnyPosition] /\ \A g \in Fields : new[g] \in Settings(g)
  BY <1>1, <1>2
<1>4. [s EXCEPT !.settings[f] = v] = [settings |-> new, serial |-> s.serial]
  BY <1>2
<1> HIDE DEF new
<1> QED  BY <1>2, <1>3, <1>4 DEF States

LEMMA ExecuteType ==
    ASSUME LinkInv, NEW ok \in BOOLEAN, Execute(ok)
    PROVE  LinkInv'
<1> DEFINE c == Head(cmds)
<1>1. c \in SettingCommands /\ cmds' \in Seq(SettingCommands)
  BY DEF LinkInv, Execute
<1>2. mic' \in States
  <2>1. CASE c.field = "reset"
    <3>1. mic' \in {mic} \cup {s \in States : s.serial = mic.serial}
      BY <2>1 DEF Execute
    <3> QED  BY <3>1 DEF LinkInv
  <2>2. CASE c.field # "reset"
    <3>1. c.field \in Fields /\ c.value \in Settings(c.field)
      BY <1>1, <2>2 DEF SettingCommands, Commands
    <3>2. mic' \in {mic, [mic EXCEPT !.settings[c.field] = c.value]}
      BY <2>2 DEF Execute
    <3> HIDE DEF c
    <3>3. [mic EXCEPT !.settings[c.field] = c.value] \in States
      BY <3>1, ChangedState DEF LinkInv
    <3> QED  BY <3>2, <3>3 DEF LinkInv
  <2> QED  BY <2>1, <2>2
<1>3. news' \in Seq(Snapshots)
  <2> DEFINE item == IF ok THEN mic' ELSE None
  <2>1. item \in Snapshots  BY <1>2 DEF Snapshots
  <2>2. news' = news \/ news' = Append(news, item)
    BY DEF Execute, Refreshed
  <2> HIDE DEF item
  <2> QED  BY <2>1, <2>2 DEF LinkInv
<1>4. link' = link  BY DEF Execute
<1> QED  BY <1>1, <1>2, <1>3, <1>4 DEF LinkInv

LEMMA LinkType ==
    ASSUME LinkInv,
           \/ Works \/ Interferes \/ LinkLost(<<>>)
           \/ LinkBack \/ Reports \/ UNCHANGED linkVars
    PROVE  LinkInv'
<1>1. ASSUME NEW ok \in BOOLEAN, Tick(ok) PROVE LinkInv'
  <2>1. UNCHANGED <<mic, link, cmds>>  BY <1>1 DEF Tick
  <2> DEFINE item == IF ok THEN mic ELSE None
  <2>2. item \in Snapshots  BY DEF LinkInv, Snapshots
  <2>3. news' = news \/ news' = Append(news, item)
    BY <1>1 DEF Tick, Refreshed
  <2> HIDE DEF item
  <2>4. news' \in Seq(Snapshots)  BY <2>2, <2>3 DEF LinkInv
  <2> QED  BY <2>1, <2>4 DEF LinkInv
<1>2. CASE Elsewhere  BY <1>2 DEF Elsewhere, LinkInv
<1>4. CASE LinkBack \/ UNCHANGED linkVars
  BY <1>4 DEF LinkBack, LinkInv, linkVars
<1>5. CASE LinkLost(<<>>)
  <2>1. mic' = mic /\ link' = "closed" /\ cmds' = <<>> /\ news' = <<>>
    BY <1>5 DEF LinkLost
  <2>2. news' \in Seq(Snapshots)  BY <2>1
  <2>3. cmds' \in Seq(SettingCommands)  BY <2>1
  <2>4. link' \in {"open", "closed"} /\ mic' \in States  BY <2>1 DEF LinkInv
  <2> QED  BY <2>2, <2>3, <2>4 DEF LinkInv
<1>6. CASE Reports  BY <1>6 DEF Reports, LinkInv
<1> QED
  BY <1>1, <1>2, <1>4, <1>5, <1>6, ExecuteType DEF Works, Interferes

LEMMA SendsType ==
    ASSUME LinkInv, NEW c \in SettingCommands, Sends(c), UNCHANGED <<mic, link, news>>
    PROVE  LinkInv'
  BY DEF Sends, LinkInv

-----------------------------------------------------------------------------
(* What the page shows, while its socket lags behind what was said by the    *)
(* news on their way.                                                       *)

Usable(s) ==
    IF s = None THEN {} ELSE {f \in Fields : f = "gain" => s.settings["lock"] # On}

(* A page only ever shows values that the settings can have.                *)
Displays == {d \in [Fields -> AnyPosition] : \A f \in Fields : d[f] \in Settings(f)}

TruthInv ==
    /\ state \in Snapshots
    /\ shown \in Displays
    /\ entry \in GainEntries
    /\ LinkInv
    /\ sockets[ws] = "open" /\ link = "open" =>
          told = IF news = <<>> THEN state ELSE news[Len(news)]
    /\ sockets[ws] # "open" => state = None
    /\ usable = Usable(state)
    /\ confirming => state # None

Inv == SocketsInv /\ TruthInv

(* The handlers that lose the microphone: TruthInv, but for what was told.   *)
LEMMA UnknownStep ==
    ASSUME TruthInv, Unknown, LinkInv', ~confirming, UNCHANGED <<confirming, cmds>>,
           sockets'[ws'] = "open" /\ link' = "open" =>
               told' = IF news' = <<>> THEN None ELSE news'[Len(news')]
    PROVE  TruthInv' /\ Promise!Lose
<1>1. /\ state' = None /\ usable' = {} /\ ~confirming'
      /\ UNCHANGED <<shown, entry, cmds>>
  BY DEF Unknown
<1>2. usable' = Usable(state)'  BY <1>1 DEF Usable
<1>3. TruthInv'  BY <1>1, <1>2 DEF TruthInv, Snapshots
<1>4. Promise!Lose  BY <1>1 DEF Promise!Lose, Promise!NoWish
<1> QED  BY <1>3, <1>4

LEMMA ClosesStep ==
    ASSUME Inv, NEW k \in Sockets, Closes(k)
    PROVE  TruthInv' /\ Promise!Lose
<1>1. sockets'[ws'] = "closed"  BY ClosesKeepsSockets DEF Inv
<1>2. Unknown /\ ~confirming /\ UNCHANGED confirming /\ UNCHANGED linkVars  BY DEF Closes
<1>3. UNCHANGED cmds  BY <1>2 DEF linkVars
<1>4. LinkInv'  BY <1>2, LinkType DEF Inv, TruthInv
<1> QED  BY <1>1, <1>2, <1>3, <1>4, UnknownStep DEF Inv

LEMMA OpensStep ==
    ASSUME Inv, Opens
    PROVE  TruthInv' /\ Promise!Lose
<1>1. /\ Unknown /\ ~confirming /\ UNCHANGED <<confirming, cmds>>
      /\ news' = <<>> /\ told' = None
  BY DEF Opens, LinkBack
<1>2. LinkInv'  BY LinkType DEF Opens, Inv, TruthInv
<1> QED  BY <1>1, <1>2, UnknownStep DEF Inv

LEMMA LastOfTail ==
    ASSUME NEW S, NEW q \in Seq(S), q # <<>>
    PROVE  /\ Head(q) \in S
           /\ q[Len(q)] = IF Tail(q) = <<>> THEN Head(q) ELSE Tail(q)[Len(Tail(q))]
<1>1. Head(q) = q[1] /\ Len(q) \in Nat \ {0}  OBVIOUS
<1>2. Len(Tail(q)) = Len(q) - 1  OBVIOUS
<1>3. CASE Len(q) = 1
  <2>1. Tail(q) \in Seq(S) /\ Len(Tail(q)) = 0  BY <1>2, <1>3
  <2>2. Tail(q) = <<>>  BY <2>1, EmptySeq
  <2>3. Head(q) \in S /\ q[Len(q)] = Head(q)  BY <1>1, <1>3
  <2> QED  BY <2>2, <2>3
<1>4. CASE Len(q) > 1
  <2>1. Len(Tail(q)) \in 1 .. Len(Tail(q)) /\ Len(Tail(q)) # 0
    BY <1>1, <1>2, <1>4
  <2>4. Tail(q) # <<>>
    <3>1. Tail(q) \in Seq(S)  OBVIOUS
    <3> QED  BY <2>1, <3>1, EmptySeq
  <2>2. Tail(q)[Len(Tail(q))] = q[Len(Tail(q)) + 1]
    BY <2>1
  <2>3. Head(q) \in S  BY <1>1
  <2> QED  BY <1>1, <1>2, <2>2, <2>3, <2>4
<1> QED  BY <1>1, <1>3, <1>4

LEMMA HearsStep ==
    ASSUME Inv, Hears
    PROVE  TruthInv' /\ (Promise!Lose \/ Promise!Find)
<1> DEFINE s == Head(news)
<1>1. /\ news # <<>> /\ news' = Tail(news)
      /\ ~confirming /\ sockets[ws] = "open"
      /\ UNCHANGED <<confirming, cmds, link, sockets, ws, told>>
  BY DEF Hears, Reports
<1>2. LinkInv'  BY LinkType DEF Hears, Inv, TruthInv
<1>3. /\ s \in Snapshots
      /\ news[Len(news)] = IF news' = <<>> THEN s ELSE news'[Len(news')]
  BY <1>1, LastOfTail DEF Inv, TruthInv, LinkInv
<1>4. IF s = None THEN Unknown ELSE Known(s)  BY DEF Hears
<1> HIDE DEF s
<1>5. link = "open" => told = news[Len(news)]
  BY <1>1 DEF Inv, TruthInv
<1>6. sockets'[ws'] = "open" /\ link' = "open" =>
          told' = IF news' = <<>> THEN s ELSE news'[Len(news')]
  BY <1>1, <1>3, <1>5
<1>7. CASE s = None
  BY <1>1, <1>2, <1>4, <1>6, <1>7, UnknownStep DEF Inv
<1>8. CASE s # None
  <2>1. s \in States /\ Known(s)  BY <1>3, <1>4, <1>8 DEF Snapshots
  <2>2. /\ state' = s /\ state' \in Snapshots
        /\ shown' \in Displays
        /\ entry' \in GainEntries
    BY <2>1 DEF Known, Snapshots, States, Displays, GainEntries, Fields, Inv, TruthInv
  <2>3. usable' = IF s.settings["lock"] = On THEN Fields \ {"gain"} ELSE Fields
    BY <2>1 DEF Known
  <2>4. usable' = Usable(s)  BY <1>8, <2>3 DEF Usable
  <2>5. usable' = Usable(state)'  BY <2>2, <2>4 DEF Usable
  <2>6. sockets'[ws'] = "open"  BY <1>1
  <2>7. TruthInv'
    BY <1>1, <1>2, <1>6, <1>8, <2>1, <2>2, <2>5, <2>6 DEF TruthInv
  <2>8. Promise!Find  BY <1>1, <1>8, <2>2 DEF Promise!Find
  <2> QED  BY <2>7, <2>8
<1> QED  BY <1>7, <1>8

LEMMA RedialsStep ==
    ASSUME Inv, Redials
    PROVE  TruthInv' /\ UNCHANGED Promise!vars
<1>1. sockets'[ws'] = "connecting"  BY RedialsKeepsSockets DEF Inv
<1>2. state = None  BY DEF Inv, TruthInv, SocketsInv, Lifeline, Live, Redials
<1>3. /\ UNCHANGED <<state, usable, shown, entry, confirming>>
      /\ UNCHANGED linkVars
  BY DEF Redials
<1>4. LinkInv'  BY <1>3, LinkType DEF Inv, TruthInv
<1>5. TruthInv'  BY <1>1, <1>2, <1>3, <1>4 DEF Inv, TruthInv, Usable
<1>6. UNCHANGED Promise!vars  BY <1>3 DEF Promise!vars, linkVars
<1> QED  BY <1>5, <1>6

-----------------------------------------------------------------------------
(* The user's handlers. *)

(* What the user does with a control, and what is sent for it, leave what is *)
(* known of the microphone and the news alone.                              *)
LEMMA UserKeepsTruth ==
    ASSUME Inv, LinkInv',
           shown' \in Displays,
           entry' \in GainEntries,
           confirming' => state # None,
           UNCHANGED <<sockets, ws, state, usable, told, link, news>>
    PROVE  TruthInv'
  BY DEF Inv, TruthInv, Usable

LEMMA SendStep ==
    ASSUME Inv, NEW c \in SettingCommands, Send(c)
    PROVE  /\ LinkInv'
           /\ UNCHANGED <<link, news>>
           /\ \/ UNCHANGED cmds
              \/ state # None /\ cmds' = Append(cmds, c)
<1>1. CASE Sends(c) /\ state # None /\ UNCHANGED <<mic, link, news>>
  <2>1. LinkInv'  BY <1>1, SendsType DEF Inv, TruthInv
  <2>2. cmds' = Append(cmds, c)  BY <1>1 DEF Sends
  <2> QED  BY <1>1, <2>1, <2>2
<1>2. CASE UNCHANGED linkVars
  <2>1. LinkInv'  BY <1>2, LinkType DEF Inv, TruthInv
  <2> QED  BY <1>2, <2>1 DEF linkVars
<1> QED  BY <1>1, <1>2 DEF Send

(* A command for a setting is one that Wishes sends at once.                 *)
LEMMA SetStep ==
    ASSUME Inv, NEW f \in Fields, NEW v \in Settings(f),
           Send(Set(f, v)), UNCHANGED <<state, confirming>>
    PROVE  /\ LinkInv'
           /\ UNCHANGED <<link, news>>
           /\ Promise!AtOnce(f, v) \/ UNCHANGED Promise!vars
<1> DEFINE c == Set(f, v)
<1>1. c \in SettingCommands /\ c = [field |-> f, value |-> v, by |-> "hand"]
  BY SettingInRange DEF SettingCommands, Commands, Set
<1> HIDE DEF c
<1>2. /\ LinkInv' /\ UNCHANGED <<link, news>>
      /\ UNCHANGED cmds \/ (state # None /\ cmds' = Append(cmds, c))
  <2>1. Send(c)  BY DEF c
  <2> QED  BY <1>1, <2>1, SendStep
<1>3. UNCHANGED cmds => UNCHANGED Promise!vars
  BY DEF Promise!vars
<1>4. state # None /\ cmds' = Append(cmds, c) => Promise!AtOnce(f, v)
  BY <1>1 DEF Promise!AtOnce
<1> QED  BY <1>2, <1>3, <1>4

LEMMA ChoosesStep ==
    ASSUME Inv, NEW f \in Switches, NEW v \in Positions(f), Chooses(f, v)
    PROVE  TruthInv' /\ \E w \in AnyPosition : Promise!AtOnce(f, w) \/ UNCHANGED Promise!vars
<1>1. f \in Fields /\ v \in Settings(f) /\ v \in AnyPosition
  BY StepAssumption, SwitchesAssumption DEF Fields, Positions, Settings, AnyPosition, On, Off
<1>2. /\ Send(Set(f, v))
      /\ shown' \in {shown, [shown EXCEPT ![f] = v]}
      /\ UNCHANGED <<sockets, ws, state, usable, entry, confirming, told>>
  BY DEF Chooses
<1>3. /\ LinkInv' /\ UNCHANGED <<link, news>>
      /\ Promise!AtOnce(f, v) \/ UNCHANGED Promise!vars
  BY <1>1, <1>2, SetStep
<1>4. shown' \in Displays
  BY <1>1, <1>2 DEF Displays, Inv, TruthInv
<1>5. entry' \in GainEntries /\ (confirming' => state # None)
  BY <1>2 DEF Inv, TruthInv
<1>6. TruthInv'  BY <1>2, <1>3, <1>4, <1>5, UserKeepsTruth
<1> QED  BY <1>1, <1>3, <1>6

LEMMA GainStep ==
    ASSUME Inv,
           \/ \E v \in Settings("gain") : Slides(v)
           \/ \E v \in GainEntries : Types(v)
    PROVE  TruthInv' /\ UNCHANGED Promise!vars
<1>1. /\ UNCHANGED <<sockets, ws, state, usable, confirming, told, cmds, link, news>>
      /\ UNCHANGED linkVars
  BY DEF Slides, Types, linkVars
<1>2. "gain" \in Fields /\ Settings("gain") \subseteq AnyPosition
  BY DEF Fields, Settings
<1>3. shown' \in Displays /\ entry' \in GainEntries
  BY <1>2 DEF Slides, Types, GainEntries, Displays, Inv, TruthInv
<1>4. LinkInv'  BY <1>1, LinkType DEF Inv, TruthInv
<1>5. confirming' => state # None  BY <1>1 DEF Inv, TruthInv
<1>6. TruthInv'  BY <1>1, <1>3, <1>4, <1>5, UserKeepsTruth
<1>7. UNCHANGED Promise!vars  BY <1>1 DEF Promise!vars
<1> QED  BY <1>6, <1>7

LEMMA LeavesStep ==
    ASSUME Inv, Leaves
    PROVE  TruthInv' /\ \E w \in AnyPosition : Promise!AtOnce("gain", w) \/ UNCHANGED Promise!vars
<1> DEFINE v == IF using = "slider" THEN shown["gain"] ELSE entry
<1>1. /\ UNCHANGED <<sockets, ws, state, usable, shown, entry, confirming, told>>
      /\ (v # Invalid /\ Send(Set("gain", v))) \/ UNCHANGED linkVars
  BY DEF Leaves
<1>2. "gain" \in Fields  BY DEF Fields
<1>3. v # Invalid => v \in Settings("gain") /\ v \in AnyPosition
  BY <1>2 DEF Displays, GainEntries, Settings, Inv, TruthInv
<1> HIDE DEF v
<1>4. /\ LinkInv' /\ UNCHANGED <<link, news>>
      /\ \E w \in AnyPosition : Promise!AtOnce("gain", w) \/ UNCHANGED Promise!vars
  <2>1. CASE v # Invalid /\ Send(Set("gain", v))
    BY <1>1, <1>2, <1>3, <2>1, SetStep
  <2>2. CASE UNCHANGED linkVars
    <3>1. LinkInv'  BY <2>2, LinkType DEF Inv, TruthInv
    <3>2. UNCHANGED Promise!vars  BY <1>1, <2>2 DEF Promise!vars, linkVars
    <3>3. 0 \in AnyPosition  BY StepAssumption DEF AnyPosition
    <3> QED  BY <2>2, <3>1, <3>2, <3>3 DEF linkVars
  <2> QED  BY <1>1, <2>1, <2>2
<1>5. /\ shown' \in Displays
      /\ entry' \in GainEntries
      /\ confirming' => state # None
  BY <1>1 DEF Inv, TruthInv
<1>6. TruthInv'  BY <1>1, <1>4, <1>5, UserKeepsTruth
<1> QED  BY <1>4, <1>6

LEMMA AsksStep ==
    ASSUME Inv, AsksToConfirm
    PROVE  TruthInv' /\ Promise!Asked
<1>1. state # None  BY DEF AsksToConfirm, Inv, TruthInv, Usable
<1>2. /\ UNCHANGED <<sockets, ws, state, usable, shown, entry, told, cmds, link, news>>
      /\ UNCHANGED linkVars /\ confirming'
  BY DEF AsksToConfirm, linkVars
<1>3. LinkInv'  BY <1>2, LinkType DEF Inv, TruthInv
<1>4. shown' \in Displays /\ entry' \in GainEntries
  BY <1>2 DEF Inv, TruthInv
<1>5. TruthInv'  BY <1>1, <1>2, <1>3, <1>4, UserKeepsTruth
<1>6. Promise!Asked  BY <1>1, <1>2 DEF Promise!Asked
<1> QED  BY <1>5, <1>6

LEMMA ConfirmsStep ==
    ASSUME Inv, Confirms
    PROVE  TruthInv' /\ (Promise!Reset \/ Promise!Withdraw)
<1> DEFINE c == [field |-> "reset"]
<1>1. c \in SettingCommands  BY DEF SettingCommands, Commands
<1>2. /\ UNCHANGED <<sockets, ws, state, usable, shown, entry, told>>
      /\ confirming /\ ~confirming'
      /\ Send(c) \/ UNCHANGED linkVars
  BY DEF Confirms
<1> HIDE DEF c
<1>3. /\ LinkInv' /\ UNCHANGED <<link, news>>
      /\ UNCHANGED cmds \/ (state # None /\ cmds' = Append(cmds, c))
  <2>1. CASE Send(c)  BY <1>1, <2>1, SendStep
  <2>2. CASE UNCHANGED linkVars
    <3>1. LinkInv'  BY <2>2, LinkType DEF Inv, TruthInv
    <3> QED  BY <2>2, <3>1 DEF linkVars
  <2> QED  BY <1>2, <2>1, <2>2
<1>4. shown' \in Displays /\ entry' \in GainEntries
  BY <1>2 DEF Inv, TruthInv
<1>5. TruthInv'  BY <1>2, <1>3, <1>4, UserKeepsTruth
<1>6. UNCHANGED cmds => Promise!Withdraw
  BY <1>2 DEF Promise!Withdraw
<1>7. state # None /\ cmds' = Append(cmds, c) => Promise!Reset
  BY <1>2 DEF Promise!Reset, c
<1> QED  BY <1>3, <1>5, <1>6, <1>7

-----------------------------------------------------------------------------
(* The daemon and the connection. *)

(* What is told is the last of the news, if any is on its way.               *)
LEMMA BehindStep ==
    ASSUME Inv, Behind
    PROVE  TruthInv' /\ (Promise!Depart \/ UNCHANGED Promise!vars)
<1>1. UNCHANGED <<sockets, ws, state, usable, shown, entry, confirming>>
  BY DEF Behind, pageVars
<1>2. LinkInv'  BY LinkType DEF Behind, Inv, TruthInv
<1>3. /\ UNCHANGED cmds \/ (cmds # <<>> /\ cmds' \in {Tail(cmds), <<>>})
      /\ link' = "open" => link = "open" /\ (news' = <<>> => news = <<>>)
  <2>1. ASSUME NEW ok \in BOOLEAN, Execute(ok)
        PROVE  cmds # <<>> /\ cmds' = Tail(cmds) /\ link' = link
               /\ (link = "open" /\ news' = <<>> => news = <<>>)
    BY <2>1 DEF Execute, Refreshed, Inv, TruthInv, LinkInv
  <2>2. ASSUME NEW ok \in BOOLEAN, Tick(ok)
        PROVE  UNCHANGED <<cmds, link>> /\ (news' = <<>> => news = <<>>)
    BY <2>2 DEF Tick, Refreshed, Inv, TruthInv, LinkInv
  <2>3. ASSUME LinkLost(<<>>) PROVE cmds' = <<>> /\ (cmds # <<>> \/ UNCHANGED cmds) /\ link' = "closed"
    BY <2>3 DEF LinkLost
  <2>4. ASSUME Elsewhere PROVE UNCHANGED <<cmds, link, news>>
    BY <2>4 DEF Elsewhere
  <2> QED  BY <2>1, <2>2, <2>3, <2>4 DEF Behind, Works, Interferes
<1>4. sockets'[ws'] = "open" /\ link' = "open" =>
          told' = IF news' = <<>> THEN state' ELSE news'[Len(news')]
  BY <1>1, <1>3 DEF Behind, Told, Inv, TruthInv
<1>5. TruthInv'  BY <1>1, <1>2, <1>4 DEF Inv, TruthInv, Usable
<1>6. UNCHANGED cmds => UNCHANGED Promise!vars
  BY <1>1 DEF Promise!vars
<1>7. cmds # <<>> /\ cmds' \in {Tail(cmds), <<>>} => Promise!Depart
  BY <1>1 DEF Promise!Depart
<1> QED  BY <1>3, <1>5, <1>6, <1>7

LEMMA InitStep == Init => TruthInv /\ Promise!Init
<1> SUFFICES ASSUME Init PROVE TruthInv /\ Promise!Init
  OBVIOUS
<1>1. LinkInv
  <2>1. mic \in States /\ link = "closed"  BY DEF Init, LinkInit
  <2>2. cmds = <<>> /\ news = <<>>  BY DEF Init, LinkInit
  <2> QED  BY <2>1, <2>2 DEF LinkInv
<1>2. 0 \in AnyPosition  BY StepAssumption DEF AnyPosition
<1>3. /\ state = None /\ usable = {} /\ ~confirming /\ entry = 0 /\ link = "closed"
      /\ shown = [f \in Fields |-> 0]
      /\ confirming = FALSE
  BY DEF Init, LinkInit
<1>4. TruthInv
  <2>1. 0 % Step = 0  BY StepAssumption
  <2>2. shown \in Displays /\ entry \in GainEntries /\ state \in Snapshots
    BY <1>2, <1>3, <2>1 DEF Displays, GainEntries, Settings, Off, Snapshots
  <2> QED  BY <1>1, <1>3, <2>2 DEF TruthInv, Usable
<1>5. cmds = <<>>  BY DEF Init, LinkInit
<1>6. Promise!Init
  BY <1>3, <1>5 DEF Promise!Init, Promise!NoWish
<1> QED  BY <1>4, <1>6

LEMMA StepKeeps == Inv /\ [Next]_vars => Inv' /\ [Promise!Next]_(Promise!vars)
<1> SUFFICES ASSUME Inv, [Next]_vars PROVE TruthInv' /\ [Promise!Next]_(Promise!vars)
  BY SocketsStep DEF Inv
<1>1. ASSUME NEW f \in Switches, NEW v \in Positions(f), Chooses(f, v)
      PROVE  TruthInv' /\ [Promise!Next]_(Promise!vars)
  <2>1. f \in Fields  BY DEF Fields
  <2> QED  BY <1>1, <2>1, ChoosesStep DEF Promise!Next
<1>2. CASE \/ \E v \in Settings("gain") : Slides(v)
           \/ \E v \in GainEntries : Types(v)
  BY <1>2, GainStep
<1>3. CASE Leaves
  <2>1. "gain" \in Fields  BY DEF Fields
  <2> QED  BY <1>3, <2>1, LeavesStep DEF Promise!Next
<1>4. CASE AsksToConfirm  BY <1>4, AsksStep DEF Promise!Next
<1>5. CASE Confirms  BY <1>5, ConfirmsStep DEF Promise!Next
<1>6. CASE Behind  BY <1>6, BehindStep DEF Promise!Next
<1>7. CASE Hears  BY <1>7, HearsStep DEF Promise!Next
<1>8. CASE Opens  BY <1>8, OpensStep DEF Promise!Next
<1>9. CASE Redials  BY <1>9, RedialsStep
<1>10. ASSUME NEW k \in Sockets, Closes(k)
       PROVE  TruthInv' /\ [Promise!Next]_(Promise!vars)
  BY <1>10, ClosesStep DEF Promise!Next
<1>11. CASE UNCHANGED vars
  <2>1. /\ UNCHANGED linkVars
        /\ UNCHANGED <<sockets, ws, state, usable, shown, entry, confirming, told, cmds, link, news>>
    BY <1>11 DEF vars, pageVars, linkVars
  <2>2. LinkInv'  BY <2>1, LinkType DEF Inv, TruthInv
  <2>3. TruthInv'  BY <2>1, <2>2 DEF Inv, TruthInv, Usable
  <2>4. UNCHANGED Promise!vars  BY <2>1 DEF Promise!vars
  <2> QED  BY <2>3, <2>4
<1> QED
  BY <1>1, <1>2, <1>3, <1>4, <1>5, <1>6, <1>7, <1>8, <1>9, <1>10, <1>11 DEF Next, User

LEMMA AlwaysInv == Spec => []Inv
<1>1. Init => Inv  BY SocketsInit, InitStep DEF Inv
<1>2. Inv /\ [Next]_vars => Inv'  BY StepKeeps
<1> QED  BY <1>1, <1>2, PTL DEF Spec

(* The rest of the page's types. *)
PageInv ==
    /\ using \in {"neither", "slider", "entry"}
    /\ confirming \in BOOLEAN
    /\ told \in Snapshots

LEMMA PageStep ==
    ASSUME PageInv, LinkInv', [Next]_vars
    PROVE  PageInv'
<1>1. using' \in {"neither", "slider", "entry"}
  BY DEF PageInv, Next, User, Behind, Hears, Opens, Closes, Redials, Chooses, Slides, Types,
         Leaves, AsksToConfirm, Confirms, vars, pageVars
<1>2. confirming' \in BOOLEAN
  BY DEF PageInv, Next, User, Behind, Hears, Opens, Closes, Redials, Chooses, Slides, Types,
         Leaves, AsksToConfirm, Confirms, vars, pageVars
<1>3. told' \in {told, None} \/ (news' # <<>> /\ told' = news'[Len(news')])
  BY DEF Told, Next, User, Behind, Hears, Opens, Closes, Redials, Chooses, Slides, Types,
         Leaves, AsksToConfirm, Confirms, vars, pageVars
<1>4. news' # <<>> => news'[Len(news')] \in Snapshots
  <2> SUFFICES ASSUME news' # <<>> PROVE news'[Len(news')] \in Snapshots
    OBVIOUS
  <2>1. news' \in Seq(Snapshots)  BY DEF LinkInv
  <2>2. Len(news') \in 1 .. Len(news')  BY <2>1
  <2> QED  BY <2>1, <2>2
<1>5. told' \in Snapshots  BY <1>3, <1>4 DEF PageInv, Snapshots
<1> QED  BY <1>1, <1>2, <1>5 DEF PageInv

(* Whatever the user types into the entry, what leaves is a setting (wire).  *)
THEOREM SettingsAreSent == Spec => []OnlySettingsAreSent
<1>1. Inv => OnlySettingsAreSent
  <2> SUFFICES ASSUME Inv, NEW i \in 1 .. Len(cmds), cmds[i].field # "reset"
               PROVE  cmds[i].value \in Settings(cmds[i].field)
    BY DEF OnlySettingsAreSent
  <2>1. cmds \in Seq(SettingCommands)  BY DEF Inv, TruthInv, LinkInv
  <2>2. cmds[i] \in SettingCommands  BY <2>1
  <2> QED  BY <2>2 DEF SettingCommands
<1> QED  BY <1>1, AlwaysInv, PTL

(* The types: the page shows and is told values in range, whatever the user  *)
(* types.                                                                   *)
THEOREM TypeCorrect == Spec => []TypeOK
<1>1. Init => PageInv  BY DEF Init, PageInv, Snapshots
<1>2. Inv' => LinkInv'  BY DEF Inv, TruthInv
<1>3. PageInv /\ Inv' /\ [Next]_vars => PageInv'  BY <1>2, PageStep
<1>4. Inv /\ PageInv => TypeOK
  <2> SUFFICES ASSUME Inv, PageInv PROVE TypeOK
    OBVIOUS
  <2>1. SettingCommands \subseteq Commands  BY DEF SettingCommands
  <2>2. cmds \in Seq(Commands)  BY <2>1 DEF Inv, TruthInv, LinkInv
  <2>3. usable \subseteq Fields  BY DEF Inv, TruthInv, Usable
  <2>4. shown \in [Fields -> AnyPosition]  BY DEF Inv, TruthInv, Displays
  <2>5. reconnectTimer \in BOOLEAN  BY DEF Inv, SocketsInv
  <2> QED
    BY <2>2, <2>3, <2>4, <2>5 DEF Inv, TruthInv, SocketsInv, PageInv, LinkInv, TypeOK, LinkTypeOK
<1> QED  BY <1>1, <1>3, <1>4, AlwaysInv, PTL DEF Spec

(* With no news on its way, the page shows what the daemon said last on this *)
(* connection; without a connection it shows nothing; and only the controls  *)
(* of what it shows can be used.                                            *)
THEOREM AlwaysTruthful == Spec => []Truthful
<1>1. Inv => Truthful  BY DEF Inv, TruthInv, Truthful, Usable
<1> QED  BY <1>1, AlwaysInv, PTL

(* Nothing is sent while the page shows no microphone, and a reset only      *)
(* while it shows the one that was shown when the user was asked.           *)
THEOREM WebKeepsWishes == Spec => KeepsWishes
<1>1. Init => Promise!Init  BY InitStep
<1>2. Inv /\ [Next]_vars => [Promise!Next]_(Promise!vars)  BY StepKeeps
<1> QED  BY <1>1, <1>2, AlwaysInv, PTL DEF Spec, KeepsWishes, Promise!Spec

=============================================================================
