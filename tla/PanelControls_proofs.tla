------------------------ MODULE PanelControls_proofs ------------------------
(***************************************************************************)
(* Proofs about PanelControls: the icon never lies, and the menu keeps the   *)
(* promise of Wishes.                                                       *)
(***************************************************************************)
EXTENDS PanelControls, Integers, TLAPS

-----------------------------------------------------------------------------
(* The icon. *)

LEMMA FillStep == FillIsTrue /\ [Next]_vars => FillIsTrue'
<1> SUFFICES ASSUME FillIsTrue, [Next]_vars PROVE FillIsTrue'
  OBVIOUS
<1> USE DEF FillIsTrue, FillVisible, UpdateMeter
<1>1. ASSUME NEW s, NEW p, NEW armed, NEW held, Update(s, p, armed, held), UNCHANGED meterEnabled
      PROVE  FillIsTrue'
  BY <1>1 DEF Update
<1>2. ASSUME UNCHANGED <<enabled, snapshot, meterEnabled, level, filled>>
      PROVE  FillIsTrue'
  BY <1>2
<1>3. ASSUME NEW f, NEW v, NEW by, NEW p, NEW armed, NEW show,
             Send(f, v, by, p, armed, show), UNCHANGED <<enabled, meterEnabled>>
      PROVE  FillIsTrue'
  BY <1>1, <1>2, <1>3 DEF Send
<1>4. CASE Hears \/ HearsError  BY <1>1, <1>4 DEF Hears, HearsError
<1>5. ASSUME NEW f, NEW v, Toggles(f, v) PROVE FillIsTrue'
  BY <1>3, <1>5 DEF Toggles
<1>6. CASE DragEnds  BY <1>3, <1>6 DEF DragEnds
<1>7. ASSUME NEW t \in sources, Fires(t) PROVE FillIsTrue'
  BY <1>3, <1>7 DEF Fires
<1>8. ASSUME NEW v, DragBegins \/ DragMoves(v) \/ Nudges(v) \/ Behind \/ UNCHANGED vars
      PROVE FillIsTrue'
  BY <1>2, <1>8 DEF DragBegins, DragMoves, Nudges, Behind, panelVars, vars
<1>9. ASSUME NEW on \in BOOLEAN, MeterSetting(on) \/ PreferencesChange(on) \/ HearsLevel(on) PROVE FillIsTrue'
  BY <1>9 DEF MeterSetting, PreferencesChange, HearsLevel
<1>10. CASE Disables \/ Enables \/ Reconnects
  BY <1>10 DEF Disables, Enables, Reconnects
<1> QED
  BY <1>4, <1>5, <1>6, <1>7, <1>8, <1>9, <1>10 DEF Next, User

(* The icon shows a live input only while the meter is on, the last reading  *)
(* is an available one and the microphone was last said not to be muted,     *)
(* whatever the order of states, readings, settings and reconnections.      *)
THEOREM FillAlwaysTrue == Spec => []FillIsTrue
<1>1. Init => FillIsTrue  BY DEF Init, FillIsTrue, FillVisible
<1> QED  BY <1>1, FillStep, PTL DEF Spec

-----------------------------------------------------------------------------
(* The link carries values that the settings can have, in both directions.   *)

SettingCommands == {c \in Commands : c.field # "reset" => c.value \in Settings(c.field)}

LinkInv ==
    /\ mic \in States
    /\ link \in {"open", "closed"}
    /\ cmds \in Seq(SettingCommands)
    /\ news \in Seq(Snapshots)

LEMMA SettingInRange ==
    ASSUME NEW f \in Fields, NEW v \in Settings(f)
    PROVE  v \in AnyPosition
  BY StepAssumption DEF Settings, AnyPosition, Off, On

LEMMA ChangedState ==
    ASSUME NEW s \in States, NEW f \in Fields, NEW v \in Settings(f)
    PROVE  [s EXCEPT !.settings[f] = v] \in States
<1>1. v \in AnyPosition  BY SettingInRange
<1>2. s.settings \in [Fields -> AnyPosition] /\ s.serial \in Serials
      /\ s = [settings |-> s.settings, serial |-> s.serial]
      /\ \A g \in Fields : s.settings[g] \in Settings(g)
  BY DEF States
<1> DEFINE new == [s.settings EXCEPT ![f] = v]
<1>3. new \in [Fields -> AnyPosition] /\ \A g \in Fields : new[g] \in Settings(g)
  BY <1>1, <1>2
<1>4. [s EXCEPT !.settings[f] = v] = [settings |-> new, serial |-> s.serial]
  BY <1>2
<1> HIDE DEF new
<1> QED  BY <1>2, <1>3, <1>4 DEF States

LEMMA ExecuteType ==
    ASSUME LinkInv, NEW ok \in BOOLEAN, Execute(ok)
    PROVE  LinkInv'
<1> DEFINE c == Head(cmds)
<1>1. c \in SettingCommands /\ cmds' \in Seq(SettingCommands)
  BY DEF LinkInv, Execute
<1>2. mic' \in States
  <2>1. CASE c.field = "reset"
    <3>1. mic' \in {mic} \cup {s \in States : s.serial = mic.serial}
      BY <2>1 DEF Execute
    <3> QED  BY <3>1 DEF LinkInv
  <2>2. CASE c.field # "reset"
    <3>1. c.field \in Fields /\ c.value \in Settings(c.field)
      BY <1>1, <2>2 DEF SettingCommands, Commands
    <3>2. mic' \in {mic, [mic EXCEPT !.settings[c.field] = c.value]}
      BY <2>2 DEF Execute
    <3> HIDE DEF c
    <3>3. [mic EXCEPT !.settings[c.field] = c.value] \in States
      BY <3>1, ChangedState DEF LinkInv
    <3> QED  BY <3>2, <3>3 DEF LinkInv
  <2> QED  BY <2>1, <2>2
<1>3. news' \in Seq(Snapshots)
  <2> DEFINE item == IF ok THEN mic' ELSE None
  <2>1. item \in Snapshots  BY <1>2 DEF Snapshots
  <2>2. news' = news \/ news' = Append(news, item)
    BY DEF Execute, Refreshed
  <2> HIDE DEF item
  <2> QED  BY <2>1, <2>2 DEF LinkInv
<1>4. link' = link  BY DEF Execute
<1> QED  BY <1>1, <1>2, <1>3, <1>4 DEF LinkInv

LEMMA LinkType ==
    ASSUME LinkInv,
           \/ Works \/ Interferes \/ LinkLost(<<None>>)
           \/ LinkBack \/ ClientStops \/ Reports \/ UNCHANGED linkVars
    PROVE  LinkInv'
<1>1. ASSUME NEW ok \in BOOLEAN, Tick(ok) PROVE LinkInv'
  <2>1. UNCHANGED <<mic, link, cmds>>  BY <1>1 DEF Tick
  <2> DEFINE item == IF ok THEN mic ELSE None
  <2>2. item \in Snapshots  BY DEF LinkInv, Snapshots
  <2>3. news' = news \/ news' = Append(news, item)
    BY <1>1 DEF Tick, Refreshed
  <2> HIDE DEF item
  <2>4. news' \in Seq(Snapshots)  BY <2>2, <2>3 DEF LinkInv
  <2> QED  BY <2>1, <2>4 DEF LinkInv
<1>2. CASE Elsewhere  BY <1>2 DEF Elsewhere, LinkInv
<1>3. CASE LinkLost(<<None>>)
  <2>1. mic' = mic /\ link' = "closed" /\ cmds' = <<>> /\ news' = <<None>>
    BY <1>3 DEF LinkLost
  <2>2. None \in Snapshots  BY DEF Snapshots
  <2>3. <<None>> \in Seq(Snapshots) /\ <<>> \in Seq(SettingCommands)
    BY <2>2
  <2>4. news' \in Seq(Snapshots)  BY <2>1, <2>3, Zenon
  <2>5. cmds' \in Seq(SettingCommands)  BY <2>1, <2>3, Zenon
  <2>6. link' \in {"open", "closed"} /\ mic' \in States  BY <2>1 DEF LinkInv
  <2> QED  BY <2>4, <2>5, <2>6 DEF LinkInv
<1>4. CASE LinkBack \/ UNCHANGED linkVars
  BY <1>4 DEF LinkBack, LinkInv, linkVars
<1>5. CASE ClientStops
  <2>1. mic' = mic /\ link' = "closed" /\ cmds' = <<>> /\ news' = <<>>
    BY <1>5 DEF ClientStops
  <2>2. news' \in Seq(Snapshots)  BY <2>1
  <2>3. cmds' \in Seq(SettingCommands)  BY <2>1
  <2>4. link' \in {"open", "closed"} /\ mic' \in States  BY <2>1 DEF LinkInv
  <2> QED  BY <2>2, <2>3, <2>4 DEF LinkInv
<1>6. CASE Reports  BY <1>6 DEF Reports, LinkInv
<1> QED
  BY <1>1, <1>2, <1>3, <1>4, <1>5, <1>6, ExecuteType DEF Works, Interferes

LEMMA SendsType ==
    ASSUME LinkInv, NEW c \in SettingCommands, Sends(c), UNCHANGED <<mic, link, news>>
    PROVE  LinkInv'
  BY DEF Sends, LinkInv

-----------------------------------------------------------------------------
(* The sources that the map p stands for. *)
ArmedBy(p) == {Source(f, p[f]) : f \in {g \in Controls : p[g] # None}}

(* What waits in the map is a value that its setting can have.              *)
Maps  == {p \in [Controls -> AnyPosition \cup {None}] :
             \A f \in Controls : p[f] \in Settings(f) \cup {None}}
Shows == [Controls -> AnyPosition]

(* The armed sources are those of the map, and while the extension is        *)
(* disabled or has no microphone on display there are none.                 *)
Inv ==
    /\ pending \in Maps
    /\ sources = ArmedBy(pending)
    /\ ~enabled \/ snapshot = None => pending = NoPending
    /\ snapshot \in Snapshots
    /\ shown \in Shows
    /\ LinkInv

(* Rounding stays within the range.                                         *)
LEMMA QuotientIsNat ==
    ASSUME NEW a \in Nat, NEW b \in Nat \ {0}
    PROVE  a \div b \in Nat
  OBVIOUS

LEMMA RoundedInRange ==
    ASSUME NEW v \in AnyPosition
    PROVE  Rounded(v) \in AnyPosition
<1>1. (2 * v + Step) \div (2 * Step) \in Nat
  <2>1. 2 * v + Step \in Nat /\ 2 * Step \in Nat \ {0}
    BY StepAssumption DEF AnyPosition
  <2> QED  BY <2>1, QuotientIsNat
<1> DEFINE q == (2 * v + Step) \div (2 * Step)
<1>2. q * Step \in Nat
  <2> HIDE DEF q
  <2>1. q \in Nat  BY <1>1 DEF q
  <2> QED  BY <2>1, StepAssumption
<1> DEFINE nearest == q * Step
<1>3. Rounded(v) = IF nearest > MaxGain THEN MaxGain ELSE nearest
  BY DEF Rounded
<1> HIDE DEF nearest
<1> QED  BY <1>2, <1>3, StepAssumption DEF AnyPosition, nearest

(* A multiple of k between 0 and k is 0.                                    *)
LEMMA NoMultipleBetween ==
    ASSUME NEW k \in Nat \ {0}, NEW e \in Int, NEW m \in Nat, m < k, k * e = m
    PROVE  m = 0
<1>1. e < 1
  <2> SUFFICES ASSUME e >= 1 PROVE FALSE
    OBVIOUS
  <2>1. k * e = k * (e - 1) + k /\ k * (e - 1) >= 0
    <3>1. k * e = k * (e - 1) + k  OBVIOUS
    <3>2. k * (e - 1) >= 0  OBVIOUS
    <3> QED  BY <3>1, <3>2
  <2> QED  BY <2>1
<1>2. e > -1
  <2> SUFFICES ASSUME e <= -1 PROVE FALSE
    OBVIOUS
  <2>1. k * e = 0 - k * (0 - e - 1) - k  OBVIOUS
  <2>2. k * (0 - e - 1) >= 0  OBVIOUS
  <2> QED  BY <2>1, <2>2
<1>3. e = 0  BY <1>1, <1>2
<1> QED  BY <1>3

LEMMA MultipleHasNoRest ==
    ASSUME NEW q \in Nat, NEW k \in Nat \ {0}
    PROVE  (q * k) % k = 0
<1> DEFINE a == q * k
           d == a \div k
           m == a % k
<1>1. a \in Nat  OBVIOUS
<1> HIDE DEF a
<1>2. d \in Int /\ m \in Nat /\ m < k /\ a = k * d + m  BY <1>1
<1> HIDE DEF d, m
<1>3. k * (q - d) = m  BY <1>2 DEF a
<1>4. m = 0  BY <1>2, <1>3, NoMultipleBetween
<1> QED  BY <1>4 DEF m, a

(* What is sent is a value that the gain can have (value).                  *)
LEMMA RoundedIsSetting ==
    ASSUME NEW v \in AnyPosition
    PROVE  Rounded(v) \in Settings("gain")
<1>1. Rounded(v) \in AnyPosition  BY RoundedInRange
<1>2. Rounded(v) % Step = 0
  <2> DEFINE q == (2 * v + Step) \div (2 * Step)
  <2>1. q \in Nat
    <3>1. 2 * v + Step \in Nat /\ 2 * Step \in Nat \ {0}
      BY StepAssumption DEF AnyPosition
    <3> QED  BY <3>1, QuotientIsNat
  <2>2. Rounded(v) = MaxGain \/ Rounded(v) = q * Step
    BY DEF Rounded
  <2> HIDE DEF q
  <2>3. (q * Step) % Step = 0
    BY <2>1, StepAssumption, MultipleHasNoRest
  <2> QED  BY <2>2, <2>3, RangeAssumption
<1> QED  BY <1>1, <1>2 DEF Settings

-----------------------------------------------------------------------------
(* The map and the sources. *)

LEMMA ArmedSource ==
    ASSUME NEW p \in Maps, NEW t \in ArmedBy(p)
    PROVE  /\ t.field \in Controls
           /\ p[t.field] = t.value /\ p[t.field] # None
           /\ t = Source(t.field, p[t.field])
  BY DEF ArmedBy, Source, Maps

LEMMA NoneArmed ==
    /\ NoPending \in Maps
    /\ ArmedBy(NoPending) = {}
  BY DEF ArmedBy, NoPending, Maps

(* The sources that _stopClient or an _update without a microphone leaves: none.            *)
LEMMA NoneLeft ==
    ASSUME NEW p \in Maps
    PROVE  {t \in ArmedBy(p) : p[t.field] = None} = {}
  BY ArmedSource

LEMMA Disarm ==
    ASSUME NEW p \in Maps, NEW f \in Controls
    PROVE  /\ [p EXCEPT ![f] = None] \in Maps
           /\ ArmedBy([p EXCEPT ![f] = None]) = ArmedBy(p) \ {Source(f, p[f])}
<1> DEFINE q == [p EXCEPT ![f] = None]
<1>1. q \in Maps /\ \A g \in Controls : q[g] = IF g = f THEN None ELSE p[g]
  BY DEF Maps
<1>2. ASSUME NEW t PROVE t \in ArmedBy(q) <=> t \in ArmedBy(p) \ {Source(f, p[f])}
  BY <1>1 DEF ArmedBy, Source
<1> QED  BY <1>1, <1>2

LEMMA Rearm ==
    ASSUME NEW p \in Maps, NEW f \in Controls, NEW v \in Settings(f)
    PROVE  /\ [p EXCEPT ![f] = v] \in Maps
           /\ ArmedBy([p EXCEPT ![f] = v])
                = (ArmedBy(p) \ {Source(f, p[f])}) \cup {Source(f, v)}
<1> DEFINE q == [p EXCEPT ![f] = v]
<1>1. q \in Maps /\ \A g \in Controls : q[g] = IF g = f THEN v ELSE p[g]
  BY SettingInRange, ControlsAssumption DEF Maps
<1>2. v # None  BY SettingInRange, ControlsAssumption, NoneAssumption
<1>3. ASSUME NEW t
      PROVE  t \in ArmedBy(q) <=> t \in (ArmedBy(p) \ {Source(f, p[f])}) \cup {Source(f, v)}
  BY <1>1, <1>2 DEF ArmedBy, Source
<1> QED  BY <1>1, <1>3

-----------------------------------------------------------------------------
(* The invariant, and the step of Wishes that each action is.               *)

LEMMA DisplayedInRange ==
    ASSUME NEW s \in Snapshots, NEW p, NEW held, shown \in Shows
    PROVE  Displayed(s, p, held) \in Shows
  BY ControlsAssumption DEF Displayed, Shows, Snapshots, States

LEMMA Updates ==
    ASSUME NEW p \in Maps, NEW s \in Snapshots, NEW held,
           Update(s, p, ArmedBy(p), held), shown \in Shows
    PROVE  /\ snapshot' = s
           /\ pending' \in Maps
           /\ sources' = ArmedBy(pending')
           /\ pending' = IF s = None THEN NoPending ELSE p
           /\ shown' \in Shows
<1>1. shown' \in Shows  BY DisplayedInRange DEF Update
<1>2. /\ snapshot' = s
      /\ pending' = IF s = None THEN NoPending ELSE p
      /\ sources' = IF s = None THEN {t \in ArmedBy(p) : p[t.field] = None} ELSE ArmedBy(p)
  BY DEF Update
<1> QED  BY <1>1, <1>2, NoneArmed, NoneLeft

LEMMA HearsKeeps ==
    ASSUME Inv, Hears
    PROVE  Inv' /\ (Promise!Lose \/ Promise!Find)
<1>1. UNCHANGED <<enabled, cmds>> /\ enabled
  BY DEF Hears, Reports
<1>2. Head(news) \in Snapshots
  BY DEF Hears, Reports, Inv, LinkInv
<1>3. /\ snapshot' = Head(news)
      /\ pending' \in Maps
      /\ sources' = ArmedBy(pending')
      /\ pending' = IF snapshot' = None THEN NoPending ELSE pending
      /\ shown' \in Shows
  <2> DEFINE s == Head(news)
  <2>1. Update(s, pending, ArmedBy(pending), dragging) /\ pending \in Maps /\ shown \in Shows
    BY DEF Hears, Inv
  <2> HIDE DEF s
  <2>2. s \in Snapshots  BY <1>2 DEF s
  <2>3. snapshot' = s  BY <2>1, <2>2, Updates
  <2>4. QED  BY <2>1, <2>2, <2>3, Updates DEF s
<1>4. LinkInv'  BY LinkType DEF Hears, Inv
<1>5. Inv'  BY <1>1, <1>2, <1>3, <1>4 DEF Inv, Maps, Shows, ArmedBy
<1>6. snapshot' = None => Promise!Lose
  BY <1>1, <1>3 DEF Promise!Lose, Promise!NoWish, NoPending
<1>7. snapshot' # None => Promise!Find
  BY <1>1, <1>3 DEF Promise!Find
<1> QED  BY <1>5, <1>6, <1>7

LEMMA HearsErrorKeeps ==
    ASSUME Inv, HearsError
    PROVE  Inv' /\ UNCHANGED Promise!vars
<1>1. /\ Update(snapshot, pending, ArmedBy(pending), dragging)
      /\ pending \in Maps /\ shown \in Shows
      /\ snapshot \in Snapshots /\ snapshot # None
  BY DEF HearsError, Inv
<1>2. UNCHANGED <<enabled, cmds>> /\ UNCHANGED linkVars
  BY DEF HearsError, linkVars
<1>3. /\ UNCHANGED <<snapshot, pending>>
      /\ sources' = ArmedBy(pending')
      /\ shown' \in Shows
  BY <1>1, Updates
<1>4. LinkInv'  BY <1>2, LinkType DEF Inv
<1>5. Inv'  BY <1>1, <1>2, <1>3, <1>4 DEF Inv, Maps, Shows, ArmedBy
<1>6. UNCHANGED Promise!vars  BY <1>2, <1>3 DEF Promise!vars
<1> QED  BY <1>5, <1>6

(* _send, from the map p and its sources: the entry of f is gone from both,  *)
(* and the command is sent or nothing is.                                   *)
LEMMA SendStep ==
    ASSUME Inv, NEW f \in Controls, NEW v \in Settings(f), NEW by \in {"hand", "timer"},
           NEW p \in Maps, NEW show \in Shows,
           Send(f, v, by, p, ArmedBy(p), show)
    PROVE  /\ pending' = [p EXCEPT ![f] = None]
           /\ pending' \in Maps
           /\ sources' = ArmedBy(pending')
           /\ UNCHANGED snapshot
           /\ shown' \in Shows
           /\ LinkInv'
           /\ \/ UNCHANGED cmds
              \/ /\ snapshot # None
                 /\ cmds' = Append(cmds, [field |-> f, value |-> v, by |-> by])
<1> DEFINE q == [p EXCEPT ![f] = None]
           left == ArmedBy(p) \ {Source(f, p[f])}
           c == [field |-> f, value |-> v, by |-> by]
<1>1. q \in Maps /\ left = ArmedBy(q)  BY Disarm
<1>2. \/ pending' = q /\ sources' = left /\ shown' = show /\ UNCHANGED <<linkVars, snapshot>>
      \/ /\ Enabled(f) /\ Sends(c)
         /\ pending' = q /\ sources' = left /\ shown' = show /\ UNCHANGED <<mic, link, news, snapshot>>
      \/ Enabled(f) /\ Update(snapshot, q, left, dragging') /\ UNCHANGED linkVars
  BY DEF Send
<1>3. c \in SettingCommands
  BY SettingInRange, ControlsAssumption DEF SettingCommands, Commands
<1> HIDE DEF q, left, c
<1>4. CASE pending' = q /\ sources' = left /\ shown' = show /\ UNCHANGED <<linkVars, snapshot>>
  <2>1. LinkInv'  BY <1>4, LinkType DEF Inv
  <2>2. UNCHANGED cmds  BY <1>4 DEF linkVars
  <2> QED  BY <1>1, <1>4, <2>1, <2>2 DEF q
<1>5. CASE /\ Enabled(f) /\ Sends(c)
           /\ pending' = q /\ sources' = left /\ shown' = show /\ UNCHANGED <<mic, link, news, snapshot>>
  <2>1. LinkInv'  BY <1>3, <1>5, SendsType DEF Inv
  <2>2. snapshot # None /\ cmds' = Append(cmds, c)  BY <1>5 DEF Enabled, Sends
  <2> QED  BY <1>1, <1>5, <2>1, <2>2 DEF q, c
<1>6. CASE Enabled(f) /\ Update(snapshot, q, left, dragging') /\ UNCHANGED linkVars
  <2>1. LinkInv'  BY <1>6, LinkType DEF Inv
  <2>2. UNCHANGED cmds  BY <1>6 DEF linkVars
  <2>3. snapshot # None  BY <1>6 DEF Enabled
  <2>4. Update(snapshot, q, ArmedBy(q), dragging')  BY <1>1, <1>6
  <2>5. snapshot \in Snapshots /\ shown \in Shows  BY DEF Inv
  <2>6. /\ UNCHANGED snapshot /\ pending' = q
        /\ sources' = ArmedBy(pending') /\ shown' \in Shows
    BY <1>1, <2>3, <2>4, <2>5, Updates
  <2> QED  BY <1>1, <2>1, <2>2, <2>6 DEF q
<1> QED  BY <1>2, <1>4, <1>5, <1>6

(* By hand, from the map as it is.                                          *)
LEMMA ByHandKeeps ==
    ASSUME Inv, NEW f \in Controls, NEW v \in Settings(f), NEW show \in Shows,
           Send(f, v, "hand", pending, sources, show),
           enabled, UNCHANGED enabled
    PROVE  Inv' /\ (Promise!AtOnce(f, v) \/ Promise!Forget(f))
<1>1. /\ pending' = [pending EXCEPT ![f] = None]
      /\ pending' \in Maps
      /\ sources' = ArmedBy(pending')
      /\ UNCHANGED snapshot
      /\ shown' \in Shows
      /\ LinkInv'
      /\ \/ UNCHANGED cmds
         \/ /\ snapshot # None
            /\ cmds' = Append(cmds, [field |-> f, value |-> v, by |-> "hand"])
  <2>1. pending \in Maps /\ sources = ArmedBy(pending)  BY DEF Inv
  <2>2. Send(f, v, "hand", pending, ArmedBy(pending), show)  BY <2>1
  <2> QED  BY <2>1, <2>2, SendStep
<1>2. snapshot = None => pending' = NoPending
  BY <1>1 DEF Inv, NoPending
<1>3. Inv'  BY <1>1, <1>2 DEF Inv, Maps, Shows, ArmedBy
<1>4. UNCHANGED cmds => Promise!Forget(f)  BY <1>1 DEF Promise!Forget
<1>5. snapshot # None /\ cmds' = Append(cmds, [field |-> f, value |-> v, by |-> "hand"])
        => Promise!AtOnce(f, v)
  BY <1>1 DEF Promise!AtOnce
<1> QED  BY <1>1, <1>3, <1>4, <1>5

LEMMA TogglesKeeps ==
    ASSUME Inv, NEW f \in Controls \ {"gain"}, NEW v \in Positions(f), Toggles(f, v)
    PROVE  Inv' /\ \E w \in AnyPosition : Promise!AtOnce(f, w) \/ Promise!Forget(f)
<1>1. v \in Settings(f) /\ v \in AnyPosition
  BY StepAssumption DEF Positions, Settings, AnyPosition, On, Off
<1>2. shown \in Shows /\ [shown EXCEPT ![f] = v] \in Shows
  BY <1>1 DEF Inv, Shows
<1>3. enabled /\ UNCHANGED enabled  BY DEF Toggles, UserActs
<1>4. \E show \in Shows : Send(f, v, "hand", pending, sources, show)
  BY <1>2 DEF Toggles
<1> QED  BY <1>1, <1>3, <1>4, ByHandKeeps

LEMMA DragEndsKeeps ==
    ASSUME Inv, DragEnds
    PROVE  Inv' /\ \E w \in AnyPosition : Promise!AtOnce("gain", w) \/ Promise!Forget("gain")
<1>1. shown \in Shows /\ shown["gain"] \in AnyPosition /\ "gain" \in Controls
  BY ControlsAssumption DEF Inv, Shows
<1>2. Rounded(shown["gain"]) \in Settings("gain") /\ Rounded(shown["gain"]) \in AnyPosition
  BY <1>1, RoundedIsSetting, RoundedInRange
<1>3. /\ Send("gain", Rounded(shown["gain"]), "hand", pending, sources, shown)
      /\ enabled /\ UNCHANGED enabled
  BY DEF DragEnds
<1> QED  BY <1>1, <1>2, <1>3, ByHandKeeps

LEMMA NudgesKeeps ==
    ASSUME Inv, NEW v \in Positions("gain"), Nudges(v)
    PROVE  Inv' /\ \E w \in AnyPosition : Promise!Wish("gain", w)
<1> DEFINE w == Rounded(v)
<1>1. v \in AnyPosition /\ "gain" \in Controls
  BY ControlsAssumption DEF Positions
<1>2. w \in Settings("gain") /\ w \in AnyPosition  BY <1>1, RoundedIsSetting, RoundedInRange
<1>3. /\ UNCHANGED <<enabled, snapshot, cmds>> /\ UNCHANGED linkVars
      /\ enabled /\ snapshot # None
      /\ pending' = [pending EXCEPT !["gain"] = w]
      /\ sources' = (sources \ {Source("gain", pending["gain"])}) \cup {Source("gain", w)}
      /\ shown' = [shown EXCEPT !["gain"] = v]
  BY DEF Nudges, UserActs, Enabled, linkVars, Cancelled
<1> HIDE DEF w
<1>4. pending' \in Maps /\ sources' = ArmedBy(pending')
  BY <1>1, <1>2, <1>3, Rearm DEF Inv
<1>5. LinkInv'  BY <1>3, LinkType DEF Inv
<1>6. shown' \in Shows  BY <1>1, <1>3 DEF Inv, Shows
<1>7. Inv'  BY <1>3, <1>4, <1>5, <1>6 DEF Inv, Maps, Shows, ArmedBy
<1>8. Promise!Wish("gain", w)  BY <1>3 DEF Promise!Wish
<1> QED  BY <1>2, <1>7, <1>8

LEMMA FiresKeeps ==
    ASSUME Inv, NEW t \in sources, Fires(t)
    PROVE  Inv' /\ \E f \in Controls : Promise!Grant(f) \/ Promise!Forget(f)
<1> DEFINE f == t.field
           p == [pending EXCEPT ![f] = None]
<1>1. /\ f \in Controls
      /\ pending[f] = t.value /\ pending[f] # None /\ t.value \in Settings(f)
      /\ t = Source(f, pending[f])
  BY ArmedSource DEF Inv, Maps
<1>2. p \in Maps /\ ArmedBy(p) = sources \ {t}
  BY <1>1, Disarm DEF Inv
<1>3. [p EXCEPT ![f] = None] = p
  BY <1>1 DEF Inv, Maps
<1>4. enabled /\ snapshot # None
  BY <1>1 DEF Inv, NoPending
<1>5. UNCHANGED enabled  BY DEF Fires
<1>6. /\ pending' = p
      /\ pending' \in Maps
      /\ sources' = ArmedBy(pending')
      /\ UNCHANGED snapshot
      /\ shown' \in Shows
      /\ LinkInv'
      /\ \/ UNCHANGED cmds
         \/ cmds' = Append(cmds, [field |-> f, value |-> t.value, by |-> "timer"])
  <2>1. Send(f, t.value, "timer", p, ArmedBy(p), shown)
    BY <1>2 DEF Fires
  <2>2. shown \in Shows  BY DEF Inv
  <2> HIDE DEF f, p
  <2> QED  BY <1>1, <1>2, <1>3, <2>1, <2>2, SendStep
<1>7. Inv'  BY <1>4, <1>5, <1>6 DEF Inv, Maps, Shows, ArmedBy
<1>8. UNCHANGED cmds => Promise!Forget(f)  BY <1>5, <1>6 DEF Promise!Forget
<1>9. cmds' = Append(cmds, [field |-> f, value |-> t.value, by |-> "timer"]) => Promise!Grant(f)
  BY <1>1, <1>4, <1>5, <1>6 DEF Promise!Grant
<1> QED  BY <1>1, <1>6, <1>7, <1>8, <1>9

(* The map is emptied with its sources when the client is stopped.           *)
LEMMA StopsKeeps ==
    ASSUME Inv, Disables \/ Reconnects
    PROVE  Inv' /\ Promise!Lose
<1>1. /\ pending' = NoPending
      /\ sources' = {t \in sources : pending[t.field] = None}
      /\ cmds' = <<>>
      /\ ~enabled' \/ snapshot' = None
      /\ snapshot' \in {snapshot, None}
  BY DEF Disables, Reconnects, ClientStops, LeftBehind
<1>2. sources' = ArmedBy(pending') /\ pending' \in Maps
  BY <1>1, NoneLeft, NoneArmed DEF Inv
<1>3. shown' \in Shows
  <2>1. shown' = Blank \/ shown' = shown  BY DEF Disables, Reconnects
  <2>2. Blank \in Shows  BY StepAssumption DEF Blank, Shows, AnyPosition
  <2> QED  BY <2>1, <2>2 DEF Inv
<1>4. LinkInv'  BY LinkType DEF Disables, Reconnects, Inv
<1>5. Inv'  BY <1>1, <1>2, <1>3, <1>4 DEF Inv, Snapshots
<1>6. Promise!Lose
  BY <1>1 DEF Promise!Lose, Promise!NoWish, NoPending
<1> QED  BY <1>5, <1>6

LEMMA EnablesKeeps ==
    ASSUME Inv, Enables
    PROVE  Inv' /\ UNCHANGED Promise!vars
<1>1. /\ ~enabled /\ snapshot' = None
      /\ pending' = NoPending /\ pending = NoPending
      /\ UNCHANGED <<sources, shown, cmds>> /\ UNCHANGED linkVars
  BY DEF Enables, Inv, linkVars
<1>2. LinkInv'  BY <1>1, LinkType DEF Inv
<1>3. Inv'  BY <1>1, <1>2, NoneArmed DEF Inv, Snapshots
<1>4. UNCHANGED Promise!vars  BY <1>1 DEF Promise!vars
<1> QED  BY <1>3, <1>4

(* What concerns the meter, or only the display.                            *)
LEMMA AsideKeeps ==
    ASSUME Inv,
           \/ DragBegins \/ UNCHANGED vars
           \/ \E v \in Positions("gain") : DragMoves(v)
           \/ \E on \in BOOLEAN : MeterSetting(on) \/ PreferencesChange(on) \/ HearsLevel(on)
    PROVE  Inv' /\ UNCHANGED Promise!vars
<1>1. UNCHANGED <<enabled, snapshot, pending, sources, cmds>> /\ UNCHANGED linkVars
  BY DEF DragBegins, DragMoves, MeterSetting, PreferencesChange, HearsLevel, vars, panelVars, linkVars
<1>2. shown' \in Shows
  BY DEF DragBegins, DragMoves, MeterSetting, PreferencesChange, HearsLevel, vars, panelVars,
         Inv, Shows, Positions
<1>3. LinkInv'  BY <1>1, LinkType DEF Inv
<1>4. Inv'  BY <1>1, <1>2, <1>3 DEF Inv, Maps, Shows, ArmedBy
<1>5. UNCHANGED Promise!vars  BY <1>1 DEF Promise!vars
<1> QED  BY <1>4, <1>5

LEMMA BehindKeeps ==
    ASSUME Inv, Behind
    PROVE  Inv' /\ (Promise!Depart \/ UNCHANGED Promise!vars)
<1>1. UNCHANGED <<enabled, snapshot, pending, sources, shown>>
  BY DEF Behind, panelVars
<1>2. LinkInv'  BY LinkType DEF Behind, Inv
<1>3. Inv'  BY <1>1, <1>2 DEF Inv, Maps, Shows, ArmedBy
<1>4. UNCHANGED cmds \/ (cmds # <<>> /\ cmds' \in {Tail(cmds), <<>>})
  <2>1. ASSUME NEW ok \in BOOLEAN, Execute(ok) PROVE cmds # <<>> /\ cmds' = Tail(cmds)
    BY <2>1 DEF Execute
  <2>2. ASSUME NEW ok \in BOOLEAN, Tick(ok) PROVE UNCHANGED cmds
    BY <2>2 DEF Tick
  <2>3. ASSUME LinkLost(<<None>>) PROVE cmds' = <<>>
    BY <2>3 DEF LinkLost
  <2>4. ASSUME Elsewhere \/ LinkBack PROVE UNCHANGED cmds
    BY <2>4 DEF Elsewhere, LinkBack
  <2> QED  BY <2>1, <2>2, <2>3, <2>4 DEF Behind, Works, Interferes
<1>5. UNCHANGED cmds => UNCHANGED Promise!vars
  BY <1>1 DEF Promise!vars
<1>6. cmds # <<>> /\ cmds' \in {Tail(cmds), <<>>} => Promise!Depart
  BY <1>1 DEF Promise!Depart
<1> QED  BY <1>3, <1>4, <1>5, <1>6

-----------------------------------------------------------------------------
LEMMA InitKeeps == Init => Inv /\ Promise!Init
<1> SUFFICES ASSUME Init PROVE Inv /\ Promise!Init
  OBVIOUS
<1>1. LinkInv
  <2>1. mic \in States /\ link = "closed"  BY DEF Init, LinkInit
  <2>2. cmds = <<>> /\ news = <<>>  BY DEF Init, LinkInit
  <2> QED  BY <2>1, <2>2 DEF LinkInv
<1>2. shown \in Shows
  BY StepAssumption DEF Init, Shows, Blank, AnyPosition
<1>3. Inv  BY <1>1, <1>2, NoneArmed DEF Init, Inv, Snapshots
<1>4. Promise!Init
  BY DEF Init, LinkInit, Promise!Init, Promise!NoWish, NoPending
<1> QED  BY <1>3, <1>4

LEMMA StepKeeps == Inv /\ [Next]_vars => Inv' /\ [Promise!Next]_(Promise!vars)
<1> SUFFICES ASSUME Inv, [Next]_vars PROVE Inv' /\ [Promise!Next]_(Promise!vars)
  OBVIOUS
<1>1. CASE Hears  BY <1>1, HearsKeeps DEF Promise!Next
<1>2. CASE HearsError  BY <1>2, HearsErrorKeeps
<1>3. ASSUME NEW f \in Controls \ {"gain"}, NEW v \in Positions(f), Toggles(f, v)
      PROVE  Inv' /\ [Promise!Next]_(Promise!vars)
  BY <1>3, TogglesKeeps DEF Promise!Next
<1>4. CASE DragEnds  BY <1>4, DragEndsKeeps, ControlsAssumption DEF Promise!Next
<1>5. ASSUME NEW v \in Positions("gain"), Nudges(v)
      PROVE  Inv' /\ [Promise!Next]_(Promise!vars)
  BY <1>5, NudgesKeeps, ControlsAssumption DEF Promise!Next
<1>6. ASSUME NEW t \in sources, Fires(t)
      PROVE  Inv' /\ [Promise!Next]_(Promise!vars)
  BY <1>6, FiresKeeps DEF Promise!Next
<1>7. CASE Disables \/ Reconnects  BY <1>7, StopsKeeps DEF Promise!Next
<1>8. CASE Enables  BY <1>8, EnablesKeeps
<1>9. CASE Behind  BY <1>9, BehindKeeps DEF Promise!Next
<1>10. CASE \/ DragBegins \/ UNCHANGED vars
            \/ \E v \in Positions("gain") : DragMoves(v)
            \/ \E on \in BOOLEAN : MeterSetting(on) \/ PreferencesChange(on) \/ HearsLevel(on)
  BY <1>10, AsideKeeps
<1> QED
  BY <1>1, <1>2, <1>3, <1>4, <1>5, <1>6, <1>7, <1>8, <1>9, <1>10 DEF Next, User

LEMMA AlwaysInv == Spec => []Inv
<1>1. Init => Inv  BY InitKeeps
<1>2. Inv /\ [Next]_vars => Inv'  BY StepKeeps
<1> QED  BY <1>1, <1>2, PTL DEF Spec

(* The flags of the extension. *)
FlagsInv ==
    /\ enabled \in BOOLEAN /\ dragging \in BOOLEAN
    /\ meterEnabled \in BOOLEAN /\ level \in BOOLEAN /\ filled \in BOOLEAN

LEMMA MeterFlags ==
    ASSUME NEW reading \in BOOLEAN, NEW on, NEW s, UpdateMeter(reading, on, s)
    PROVE  level' \in BOOLEAN /\ filled' \in BOOLEAN
  BY DEF UpdateMeter, FillVisible

LEMMA FlagsStep == FlagsInv /\ [Next]_vars => FlagsInv'
<1> SUFFICES ASSUME FlagsInv, [Next]_vars PROVE FlagsInv'
  OBVIOUS
<1>1. ASSUME NEW s, NEW p, NEW left, NEW held, Update(s, p, left, held)
      PROVE  level' \in BOOLEAN /\ filled' \in BOOLEAN
  <2> DEFINE reading == s # None /\ level
  <2>1. reading \in BOOLEAN  OBVIOUS
  <2>2. UpdateMeter(reading, meterEnabled, s)  BY <1>1 DEF Update
  <2> HIDE DEF reading
  <2> QED  BY <2>1, <2>2, MeterFlags
<1>2. ASSUME NEW f, NEW v, NEW by, NEW p, NEW left, NEW show, Send(f, v, by, p, left, show)
      PROVE  level' \in BOOLEAN /\ filled' \in BOOLEAN
  <2>1. CASE UNCHANGED <<level, filled>>  BY <2>1 DEF FlagsInv
  <2> QED  BY <1>1, <1>2, <2>1 DEF Send
<1>3. CASE Hears \/ HearsError
  BY <1>1, <1>3 DEF Hears, HearsError, FlagsInv
<1>4. ASSUME NEW f, NEW v, Toggles(f, v) PROVE FlagsInv'
  BY <1>2, <1>4 DEF Toggles, FlagsInv
<1>5. CASE DragEnds  BY <1>2, <1>5 DEF DragEnds, FlagsInv
<1>6. ASSUME NEW t, Fires(t) PROVE FlagsInv'
  BY <1>2, <1>6 DEF Fires, FlagsInv
<1>7. ASSUME NEW on \in BOOLEAN, MeterSetting(on) \/ PreferencesChange(on) \/ HearsLevel(on)
      PROVE  FlagsInv'
  BY <1>7, MeterFlags DEF MeterSetting, PreferencesChange, HearsLevel, FlagsInv
<1>8. CASE Enables \/ Reconnects
  BY <1>8, MeterFlags DEF Enables, Reconnects, FlagsInv
<1>9. CASE \/ Disables \/ DragBegins \/ UNCHANGED panelVars
           \/ \E v \in Positions("gain") : DragMoves(v) \/ Nudges(v)
  BY <1>9 DEF Disables, DragBegins, DragMoves, Nudges, panelVars, FlagsInv
<1> QED
  BY <1>3, <1>4, <1>5, <1>6, <1>7, <1>8, <1>9 DEF Next, User, Behind, vars

(* Wherever the slider is dragged or nudged to, what leaves is a setting     *)
(* (_send, _debounce).                                                       *)
THEOREM SettingsAreSent == Spec => []OnlySettingsAreSent
<1>1. Inv => OnlySettingsAreSent
  <2> SUFFICES ASSUME Inv, NEW i \in 1 .. Len(cmds), cmds[i].field # "reset"
               PROVE  cmds[i].value \in Settings(cmds[i].field)
    BY DEF OnlySettingsAreSent
  <2>1. cmds \in Seq(SettingCommands)  BY DEF Inv, LinkInv
  <2>2. cmds[i] \in SettingCommands  BY <2>1
  <2> QED  BY <2>2 DEF SettingCommands
<1> QED  BY <1>1, AlwaysInv, PTL

(* The types: whatever the slider goes through, the microphone has a setting *)
(* of its own, and the flags of the extension are flags.                    *)
THEOREM TypeCorrect == Spec => []TypeOK
<1>1. Init => FlagsInv  BY DEF Init, FlagsInv
<1>2. Inv /\ FlagsInv => TypeOK
  <2> SUFFICES ASSUME Inv, FlagsInv PROVE TypeOK
    OBVIOUS
  <2>1. SettingCommands \subseteq Commands  BY DEF SettingCommands
  <2>2. cmds \in Seq(Commands)  BY <2>1 DEF Inv, LinkInv
  <2>3. pending \in [Controls -> AnyPosition \cup {None}]  BY DEF Inv, Maps
  <2>4. sources \subseteq [field : Controls, value : AnyPosition]
    BY <2>3 DEF Inv, ArmedBy, Source
  <2> QED
    BY <2>2, <2>3, <2>4 DEF Inv, LinkInv, FlagsInv, Shows, TypeOK, LinkTypeOK
<1> QED  BY <1>1, <1>2, FlagsStep, AlwaysInv, PTL DEF Spec

(* A delayed change of the menu is sent once, as last made, or not at all:   *)
(* not after something newer, a disconnection, or the extension's end, for   *)
(* every number of settings, microphones and messages on their way.         *)
THEOREM PanelKeepsWishes == Spec => KeepsWishes
<1>1. Spec => []Inv  BY AlwaysInv
<1>2. Init => Promise!Init  BY InitKeeps
<1>3. Inv /\ [Next]_vars => [Promise!Next]_(Promise!vars)  BY StepKeeps
<1> QED  BY <1>1, <1>2, <1>3, PTL DEF Spec, KeepsWishes, Promise!Spec
=============================================================================
