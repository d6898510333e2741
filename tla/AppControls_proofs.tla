------------------------- MODULE AppControls_proofs -------------------------
(***************************************************************************)
(* Proofs about AppControls: the application keeps the promise of Wishes,    *)
(* whatever the microphone, the connection and the user do, and never lets a *)
(* setting have a value that it cannot have.                                *)
(***************************************************************************)
EXTENDS AppControls, Integers, TLAPS

(* The sources that the map p stands for. *)
ArmedBy(p) == {Source(f, p[f]) : f \in {g \in Fields : p[g] # None}}

(* The armed sources are those of the map, and without a client or a         *)
(* microphone on display there are none.  A dialog needs a client.          *)
Maps == [Fields -> AnyPosition \cup {None}]
Inv ==
    /\ pending \in Maps
    /\ sources = ArmedBy(pending)
    /\ ~client \/ snapshot = None => pending = NoPending
    /\ sameClient => client

-----------------------------------------------------------------------------
(* Rounding stays within the range.                                         *)
LEMMA QuotientIsNat ==
    ASSUME NEW a \in Nat, NEW b \in Nat \ {0}
    PROVE  a \div b \in Nat
  OBVIOUS

LEMMA RoundedInRange ==
    ASSUME NEW v \in AnyPosition
    PROVE  Rounded(v) \in AnyPosition
<1>1. (2 * v + Step) \div (2 * Step) \in Nat
  <2>1. 2 * v + Step \in Nat /\ 2 * Step \in Nat \ {0}
    BY StepAssumption DEF AnyPosition
  <2> QED  BY <2>1, QuotientIsNat
<1> DEFINE q == (2 * v + Step) \div (2 * Step)
<1>2. q * Step \in Nat
  <2> HIDE DEF q
  <2>1. q \in Nat  BY <1>1 DEF q
  <2> QED  BY <2>1, StepAssumption
<1> DEFINE nearest == q * Step
<1>3. Rounded(v) = IF nearest > MaxGain THEN MaxGain ELSE nearest
  BY DEF Rounded
<1> HIDE DEF nearest
<1> QED  BY <1>2, <1>3, StepAssumption DEF AnyPosition, nearest

-----------------------------------------------------------------------------
(* The map and the sources. *)

LEMMA ArmedSource ==
    ASSUME NEW p \in Maps, NEW t \in ArmedBy(p)
    PROVE  /\ t.field \in Fields
           /\ p[t.field] = t.value /\ p[t.field] # None
           /\ t = Source(t.field, p[t.field])
  BY DEF ArmedBy, Source, Maps

LEMMA NoneArmed ==
    /\ NoPending \in Maps
    /\ ArmedBy(NoPending) = {}
  BY DEF ArmedBy, NoPending, Maps

(* The sources that _stopClient or a disconnection leaves: none.            *)
LEMMA NoneLeft ==
    ASSUME NEW p \in Maps
    PROVE  {t \in ArmedBy(p) : p[t.field] = None} = {}
  BY ArmedSource

LEMMA Disarm ==
    ASSUME NEW p \in Maps, NEW f \in Fields
    PROVE  /\ [p EXCEPT ![f] = None] \in Maps
           /\ ArmedBy([p EXCEPT ![f] = None]) = ArmedBy(p) \ {Source(f, p[f])}
<1> DEFINE q == [p EXCEPT ![f] = None]
<1>1. q \in Maps /\ \A g \in Fields : q[g] = IF g = f THEN None ELSE p[g]
  BY DEF Maps
<1>2. ASSUME NEW t PROVE t \in ArmedBy(q) <=> t \in ArmedBy(p) \ {Source(f, p[f])}
  BY <1>1 DEF ArmedBy, Source
<1> QED  BY <1>1, <1>2

LEMMA Rearm ==
    ASSUME NEW p \in Maps, NEW f \in Fields, NEW v \in AnyPosition
    PROVE  /\ [p EXCEPT ![f] = v] \in Maps
           /\ ArmedBy([p EXCEPT ![f] = v])
                = (ArmedBy(p) \ {Source(f, p[f])}) \cup {Source(f, v)}
<1> DEFINE q == [p EXCEPT ![f] = v]
<1>1. q \in Maps /\ \A g \in Fields : q[g] = IF g = f THEN v ELSE p[g]
  BY DEF Maps
<1>2. v # None  BY NoneAssumption
<1>3. ASSUME NEW t
      PROVE  t \in ArmedBy(q) <=> t \in (ArmedBy(p) \ {Source(f, p[f])}) \cup {Source(f, v)}
  BY <1>1, <1>2 DEF ArmedBy, Source
<1> QED  BY <1>1, <1>3

-----------------------------------------------------------------------------
(* The invariant, and the step of Wishes that each action is.  ApplySnapshot *)
(* comes first: what it makes of a map and its sources.                     *)

LEMMA Applies ==
    ASSUME NEW p \in Maps, NEW s, ApplySnapshot(s, p, ArmedBy(p))
    PROVE  /\ snapshot' = s
           /\ pending' \in Maps
           /\ sources' = ArmedBy(pending')
           /\ pending' = IF s = None THEN NoPending ELSE p
  BY NoneArmed, NoneLeft DEF ApplySnapshot

LEMMA HearsKeeps ==
    ASSUME Inv, Hears
    PROVE  Inv' /\ (Promise!Lose \/ Promise!Find)
<1>1. ApplySnapshot(Head(news), pending, ArmedBy(pending)) /\ pending \in Maps
  BY DEF Hears, Inv
<1>2. UNCHANGED <<client, asked, sameClient, cmds>> /\ client
  BY DEF Hears, Reports
<1>3. /\ snapshot' = Head(news)
      /\ pending' \in Maps
      /\ sources' = ArmedBy(pending')
      /\ pending' = IF snapshot' = None THEN NoPending ELSE pending
  BY <1>1, Applies
<1>4. Inv'  BY <1>2, <1>3 DEF Inv, Maps, ArmedBy
<1>5. snapshot' = None => Promise!Lose
  BY <1>2, <1>3 DEF Promise!Lose, Promise!NoWish, NoPending
<1>6. snapshot' # None => Promise!Find
  BY <1>2, <1>3 DEF Promise!Find
<1> QED  BY <1>4, <1>5, <1>6

LEMMA HearsErrorKeeps ==
    ASSUME Inv, HearsError
    PROVE  Inv' /\ UNCHANGED Promise!vars
<1>1. ApplySnapshot(snapshot, pending, ArmedBy(pending)) /\ pending \in Maps /\ snapshot # None
  BY DEF HearsError, Inv
<1>2. UNCHANGED <<client, asked, sameClient, cmds>>
  BY DEF HearsError, linkVars
<1>3. /\ snapshot' = snapshot
      /\ pending' = pending
      /\ sources' = ArmedBy(pending')
  BY <1>1, Applies
<1>4. Inv'  BY <1>1, <1>2, <1>3 DEF Inv, Maps, ArmedBy
<1>5. UNCHANGED Promise!vars  BY <1>2, <1>3 DEF Promise!vars
<1> QED  BY <1>4, <1>5

LEMMA MovesKeeps ==
    ASSUME Inv, NEW f \in Fields, NEW v \in Positions(f), Moves(f, v)
    PROVE  Inv' /\ \E w \in AnyPosition : Promise!Wish(f, w)
<1> DEFINE w == CommandValue(f, v)
<1>1. v \in AnyPosition
  BY StepAssumption DEF Positions, AnyPosition, On, Off
<1>2. w \in AnyPosition  BY <1>1, RoundedInRange DEF CommandValue
<1>3. /\ UNCHANGED <<client, asked, sameClient, cmds, snapshot>>
      /\ client /\ snapshot # None
      /\ pending' = [pending EXCEPT ![f] = w]
      /\ sources' = (sources \ {Source(f, pending[f])}) \cup {Source(f, w)}
  BY DEF Moves, UserActs, Enabled, linkVars, QueueCommand
<1> HIDE DEF w
<1>4. pending' \in Maps /\ sources' = ArmedBy(pending')
  BY <1>2, <1>3, Rearm DEF Inv
<1>5. Inv'  BY <1>3, <1>4 DEF Inv, Maps, ArmedBy
<1>6. Promise!Wish(f, w)  BY <1>3 DEF Promise!Wish
<1> QED  BY <1>2, <1>5, <1>6

LEMMA FiresKeeps ==
    ASSUME Inv, NEW t \in sources, Fires(t)
    PROVE  Inv' /\ \E f \in Fields : Promise!Grant(f) \/ Promise!Forget(f)
<1> DEFINE p == [pending EXCEPT ![t.field] = None]
<1>1. /\ t.field \in Fields
      /\ pending[t.field] = t.value /\ pending[t.field] # None
      /\ t = Source(t.field, pending[t.field])
  BY ArmedSource DEF Inv
<1>2. p \in Maps /\ ArmedBy(p) = sources \ {t}
  BY <1>1, Disarm DEF Inv
<1>3. client /\ snapshot # None
  BY <1>1 DEF Inv, NoPending
<1>4. UNCHANGED <<client, asked, sameClient>>  BY DEF Fires
<1>5. CASE ~Enabled(t.field) /\ pending' = p /\ sources' = sources \ {t} /\ UNCHANGED <<linkVars, snapshot, shown>>
  <2>1. UNCHANGED <<cmds, snapshot>>  BY <1>5 DEF linkVars
  <2>2. Inv'  BY <1>2, <1>3, <1>4, <1>5, <2>1 DEF Inv, Maps, ArmedBy
  <2>3. Promise!Forget(t.field)  BY <1>4, <1>5, <2>1 DEF Promise!Forget
  <2> QED  BY <1>1, <2>2, <2>3
<1>6. CASE /\ Sends([field |-> t.field, value |-> t.value, by |-> "timer"])
           /\ pending' = p /\ sources' = sources \ {t} /\ UNCHANGED snapshot
  <2>1. cmds' = Append(cmds, [field |-> t.field, value |-> t.value, by |-> "timer"])
    BY <1>6 DEF Sends
  <2>2. Inv'  BY <1>2, <1>3, <1>4, <1>6 DEF Inv, Maps, ArmedBy
  <2>3. Promise!Grant(t.field)  BY <1>1, <1>3, <1>4, <1>6, <2>1 DEF Promise!Grant
  <2> QED  BY <1>1, <2>2, <2>3
<1>7. CASE ApplySnapshot(snapshot, p, sources \ {t}) /\ UNCHANGED linkVars
  <2>1. /\ UNCHANGED <<cmds, snapshot>>
        /\ pending' \in Maps /\ sources' = ArmedBy(pending')
        /\ pending' = p
    <3> HIDE DEF p
    <3> QED  BY <1>2, <1>3, <1>7, Applies DEF linkVars
  <2>2. Inv'  BY <1>3, <1>4, <2>1 DEF Inv, Maps, ArmedBy
  <2>3. Promise!Forget(t.field)  BY <1>4, <2>1 DEF Promise!Forget
  <2> QED  BY <1>1, <2>2, <2>3
<1> QED  BY <1>5, <1>6, <1>7 DEF Fires

(* The map is emptied with its sources when the client is stopped.           *)
LEMMA StopsKeeps ==
    ASSUME Inv, Reconnects \/ ShutsDown
    PROVE  Inv' /\ Promise!Lose
<1>1. /\ pending' = NoPending
      /\ sources' = {t \in sources : pending[t.field] = None}
      /\ sameClient' = FALSE
      /\ cmds' = <<>>
      /\ ~client' \/ snapshot' = None
  BY DEF Reconnects, ShutsDown, ClientStops, LeftBehind
<1>2. sources' = ArmedBy(pending')
  BY <1>1, NoneLeft, NoneArmed DEF Inv
<1>3. Inv'  BY <1>1, <1>2, NoneArmed DEF Inv, Maps, ArmedBy
<1>4. Promise!Lose
  BY <1>1 DEF Promise!Lose, Promise!NoWish, NoPending
<1> QED  BY <1>3, <1>4

LEMMA OpensDialogKeeps ==
    ASSUME Inv, OpensDialog
    PROVE  Inv' /\ Promise!Asked
<1>1. /\ UNCHANGED <<client, snapshot, pending, sources, cmds>>
      /\ client /\ snapshot # None
      /\ asked' = {snapshot.serial}
      /\ sameClient'
  BY DEF OpensDialog, UserActs, linkVars
<1>2. Inv'  BY <1>1 DEF Inv, Maps, ArmedBy
<1>3. Promise!Asked  BY <1>1 DEF Promise!Asked
<1> QED  BY <1>2, <1>3

LEMMA AnswersKeep ==
    ASSUME Inv, Cancels \/ Confirms
    PROVE  Inv' /\ (Promise!Reset \/ Promise!Withdraw)
<1>1. /\ UNCHANGED <<client, snapshot, pending, sources>>
      /\ ~sameClient'
  BY DEF Cancels, Confirms
<1>2. Inv'  BY <1>1 DEF Inv, Maps, ArmedBy
<1>3. CASE UNCHANGED linkVars
  <2>1. Promise!Withdraw  BY <1>1, <1>3 DEF Promise!Withdraw, linkVars
  <2> QED  BY <1>2, <2>1
<1>4. CASE StillTheSame /\ Sends([field |-> "reset"])
  <2>1. cmds' = Append(cmds, [field |-> "reset"])  BY <1>4 DEF Sends
  <2>2. Promise!Reset
    BY <1>1, <1>4, <2>1 DEF Promise!Reset, StillTheSame, Inv
  <2> QED  BY <1>2, <2>2
<1> QED  BY <1>3, <1>4 DEF Cancels, Confirms

(* The daemon takes commands or loses them; the connection comes back.      *)
LEMMA BehindKeeps ==
    ASSUME Inv, Behind
    PROVE  Inv' /\ (Promise!Depart \/ UNCHANGED Promise!vars)
<1>1. UNCHANGED <<client, snapshot, pending, sources, asked, sameClient>>
  BY DEF Behind, appVars
<1>2. Inv'  BY <1>1 DEF Inv, Maps, ArmedBy
<1>3. UNCHANGED cmds \/ (cmds # <<>> /\ cmds' \in {Tail(cmds), <<>>})
  <2>1. ASSUME NEW ok \in BOOLEAN, Execute(ok) PROVE cmds # <<>> /\ cmds' = Tail(cmds)
    BY <2>1 DEF Execute
  <2>2. ASSUME NEW ok \in BOOLEAN, Tick(ok) PROVE UNCHANGED cmds
    BY <2>2 DEF Tick
  <2>3. ASSUME LinkLost(<<None>>) PROVE cmds' = <<>>
    BY <2>3 DEF LinkLost
  <2>4. ASSUME Elsewhere \/ LinkBack PROVE UNCHANGED cmds
    BY <2>4 DEF Elsewhere, LinkBack
  <2> QED  BY <2>1, <2>2, <2>3, <2>4 DEF Behind, Works, Interferes
<1>4. UNCHANGED cmds => UNCHANGED Promise!vars
  BY <1>1 DEF Promise!vars
<1>5. cmds # <<>> /\ cmds' \in {Tail(cmds), <<>>} => Promise!Depart
  BY <1>1 DEF Promise!Depart
<1> QED  BY <1>2, <1>3, <1>4, <1>5

LEMMA FocusKeeps ==
    ASSUME Inv, Focuses \/ Leaves \/ UNCHANGED vars
    PROVE  Inv' /\ UNCHANGED Promise!vars
<1>1. UNCHANGED <<client, snapshot, pending, sources, asked, sameClient, cmds>>
  BY DEF Focuses, Leaves, vars, appVars, linkVars
<1>2. Inv'  BY <1>1 DEF Inv, Maps, ArmedBy
<1>3. UNCHANGED Promise!vars  BY <1>1 DEF Promise!vars
<1> QED  BY <1>2, <1>3

-----------------------------------------------------------------------------
LEMMA InitKeeps == Init => Inv /\ Promise!Init
<1> SUFFICES ASSUME Init PROVE Inv /\ Promise!Init
  OBVIOUS
<1>1. Inv  BY NoneArmed DEF Init, Inv
<1>2. Promise!Init
  BY DEF Init, LinkInit, Promise!Init, Promise!NoWish, NoPending
<1> QED  BY <1>1, <1>2

LEMMA StepKeeps == Inv /\ [Next]_vars => Inv' /\ [Promise!Next]_(Promise!vars)
<1> SUFFICES ASSUME Inv, [Next]_vars PROVE Inv' /\ [Promise!Next]_(Promise!vars)
  OBVIOUS
<1>1. CASE Hears  BY <1>1, HearsKeeps DEF Promise!Next
<1>2. CASE HearsError  BY <1>2, HearsErrorKeeps
<1>3. ASSUME NEW f \in Fields, NEW v \in Positions(f), Moves(f, v)
      PROVE  Inv' /\ [Promise!Next]_(Promise!vars)
  BY <1>3, MovesKeeps DEF Promise!Next
<1>4. ASSUME NEW t \in sources, Fires(t)
      PROVE  Inv' /\ [Promise!Next]_(Promise!vars)
  BY <1>4, FiresKeeps DEF Promise!Next
<1>5. CASE Reconnects \/ ShutsDown  BY <1>5, StopsKeeps DEF Promise!Next
<1>6. CASE OpensDialog  BY <1>6, OpensDialogKeeps DEF Promise!Next
<1>7. CASE Cancels \/ Confirms  BY <1>7, AnswersKeep DEF Promise!Next
<1>8. CASE Behind  BY <1>8, BehindKeeps DEF Promise!Next
<1>9. CASE Focuses \/ Leaves \/ UNCHANGED vars  BY <1>9, FocusKeeps
<1> QED
  BY <1>1, <1>2, <1>3, <1>4, <1>5, <1>6, <1>7, <1>8, <1>9 DEF Next, User

(* A change that waits is sent once, as last made, or not at all, and a      *)
(* reset goes to the microphone it was asked for, for every number of        *)
(* settings, microphones and messages on their way.                         *)
THEOREM AppKeepsWishes == Spec => KeepsWishes
<1>1. Spec => []Inv
  <2>1. Init => Inv  BY InitKeeps
  <2>2. Inv /\ [Next]_vars => Inv'  BY StepKeeps
  <2> QED  BY <2>1, <2>2, PTL DEF Spec
<1>2. Init => Promise!Init  BY InitKeeps
<1>3. Inv /\ [Next]_vars => [Promise!Next]_(Promise!vars)  BY StepKeeps
<1> QED  BY <1>1, <1>2, <1>3, PTL DEF Spec, KeepsWishes, Promise!Spec

-----------------------------------------------------------------------------
(* The types.  That the microphone only has values of its own steps needs    *)
(* the same of every source and of every command on its way.                *)

SettingCommands == {c \in Commands : c.field # "reset" => c.value \in Settings(c.field)}
SettingSources == {t \in [field : Fields, value : AnyPosition] : t.value \in Settings(t.field)}

LinkInv ==
    /\ mic \in States
    /\ link \in {"open", "closed"}
    /\ cmds \in Seq(SettingCommands)
    /\ news \in Seq(Snapshots)

TypeInv ==
    /\ LinkInv
    /\ client \in BOOLEAN
    /\ snapshot \in Snapshots
    /\ pending \in Maps
    /\ sources \subseteq SettingSources
    /\ shown \in [Fields -> AnyPosition]
    /\ editing \in BOOLEAN
    /\ asked \subseteq Serials
    /\ sameClient \in BOOLEAN

(* A multiple of k between 0 and k is 0.                                    *)
LEMMA NoMultipleBetween ==
    ASSUME NEW k \in Nat \ {0}, NEW e \in Int, NEW m \in Nat, m < k, k * e = m
    PROVE  m = 0
<1>1. e < 1
  <2> SUFFICES ASSUME e >= 1 PROVE FALSE
    OBVIOUS
  <2>1. k * e = k * (e - 1) + k /\ k * (e - 1) >= 0
    <3>1. k * e = k * (e - 1) + k  OBVIOUS
    <3>2. k * (e - 1) >= 0  OBVIOUS
    <3> QED  BY <3>1, <3>2
  <2> QED  BY <2>1
<1>2. e > -1
  <2> SUFFICES ASSUME e <= -1 PROVE FALSE
    OBVIOUS
  <2>1. k * e = 0 - k * (0 - e - 1) - k  OBVIOUS
  <2>2. k * (0 - e - 1) >= 0  OBVIOUS
  <2> QED  BY <2>1, <2>2
<1>3. e = 0  BY <1>1, <1>2
<1> QED  BY <1>3

LEMMA MultipleHasNoRest ==
    ASSUME NEW q \in Nat, NEW k \in Nat \ {0}
    PROVE  (q * k) % k = 0
<1> DEFINE a == q * k
           d == a \div k
           m == a % k
<1>1. a \in Nat  OBVIOUS
<1> HIDE DEF a
<1>2. d \in Int /\ m \in Nat /\ m < k /\ a = k * d + m  BY <1>1
<1> HIDE DEF d, m
<1>3. k * (q - d) = m  BY <1>2 DEF a
<1>4. m = 0  BY <1>2, <1>3, NoMultipleBetween
<1> QED  BY <1>4 DEF m, a

(* What is sent is a value that the setting can have (commandFor).          *)
LEMMA RoundedIsSetting ==
    ASSUME NEW f \in Fields, NEW v \in Positions(f)
    PROVE  CommandValue(f, v) \in Settings(f) /\ CommandValue(f, v) \in AnyPosition
<1>1. CASE f = "gain"
  <2>1. v \in AnyPosition  BY <1>1 DEF Positions
  <2>2. Rounded(v) \in AnyPosition  BY <2>1, RoundedInRange
  <2>3. Rounded(v) % Step = 0
    <3> DEFINE q == (2 * v + Step) \div (2 * Step)
    <3>1. q \in Nat
      <4>1. 2 * v + Step \in Nat /\ 2 * Step \in Nat \ {0}
        BY <2>1, StepAssumption DEF AnyPosition
      <4> QED  BY <4>1, QuotientIsNat
    <3>2. Rounded(v) = MaxGain \/ Rounded(v) = q * Step
      BY DEF Rounded
    <3> HIDE DEF q
    <3>3. (q * Step) % Step = 0
      BY <3>1, StepAssumption, MultipleHasNoRest
    <3> QED  BY <3>2, <3>3, RangeAssumption
  <2> QED  BY <1>1, <2>2, <2>3 DEF CommandValue, Settings
<1>2. CASE f # "gain"
  BY <1>2, StepAssumption DEF CommandValue, Positions, Settings, AnyPosition, Off, On
<1> QED  BY <1>1, <1>2

(* A snapshot that is not None is a state, with settings for every control.  *)
LEMMA SnapshotShape ==
    ASSUME NEW s \in Snapshots, s # None
    PROVE  /\ s \in States
           /\ s.settings \in [Fields -> AnyPosition]
           /\ s.serial \in Serials
  BY DEF Snapshots, States

LEMMA ChangedState ==
    ASSUME NEW s \in States, NEW f \in Fields, NEW v \in Settings(f)
    PROVE  [s EXCEPT !.settings[f] = v] \in States
<1>1. v \in AnyPosition
  BY StepAssumption DEF Settings, AnyPosition, Off, On
<1>2. s.settings \in [Fields -> AnyPosition] /\ s.serial \in Serials
      /\ s = [settings |-> s.settings, serial |-> s.serial]
      /\ \A g \in Fields : s.settings[g] \in Settings(g)
  BY DEF States
<1> DEFINE new == [s.settings EXCEPT ![f] = v]
<1>3. new \in [Fields -> AnyPosition] /\ \A g \in Fields : new[g] \in Settings(g)
  BY <1>1, <1>2
<1>4. [s EXCEPT !.settings[f] = v] = [settings |-> new, serial |-> s.serial]
  BY <1>2
<1> HIDE DEF new
<1> QED  BY <1>2, <1>3, <1>4 DEF States

(* The daemon, the microphone and the connection.                           *)
LEMMA ExecuteType ==
    ASSUME LinkInv, NEW ok \in BOOLEAN, Execute(ok)
    PROVE  LinkInv'
<1> DEFINE c == Head(cmds)
<1>1. c \in SettingCommands /\ cmds' \in Seq(SettingCommands)
  BY DEF LinkInv, Execute
<1>2. mic' \in States
  <2>1. CASE c.field = "reset"
    <3>1. mic' \in {mic} \cup {s \in States : s.serial = mic.serial}
      BY <2>1 DEF Execute
    <3> QED  BY <3>1 DEF LinkInv
  <2>2. CASE c.field # "reset"
    <3>1. c.field \in Fields /\ c.value \in Settings(c.field)
      BY <1>1, <2>2 DEF SettingCommands, Commands
    <3>2. mic' \in {mic, [mic EXCEPT !.settings[c.field] = c.value]}
      BY <2>2 DEF Execute
    <3> HIDE DEF c
    <3>3. [mic EXCEPT !.settings[c.field] = c.value] \in States
      BY <3>1, ChangedState DEF LinkInv
    <3> QED  BY <3>2, <3>3 DEF LinkInv
  <2> QED  BY <2>1, <2>2
<1>3. news' \in Seq(Snapshots)
  <2> DEFINE item == IF ok THEN mic' ELSE None
  <2>1. item \in Snapshots  BY <1>2 DEF Snapshots
  <2>2. news' = news \/ news' = Append(news, item)
    BY DEF Execute, Refreshed
  <2> HIDE DEF item
  <2> QED  BY <2>1, <2>2 DEF LinkInv
<1>4. link' = link  BY DEF Execute
<1> QED  BY <1>1, <1>2, <1>3, <1>4 DEF LinkInv

LEMMA LinkType ==
    ASSUME LinkInv,
           \/ Works \/ Interferes \/ LinkLost(<<None>>)
           \/ LinkBack \/ ClientStops \/ Reports \/ UNCHANGED linkVars
    PROVE  LinkInv'
<1>1. ASSUME NEW ok \in BOOLEAN, Tick(ok) PROVE LinkInv'
  <2>1. UNCHANGED <<mic, link, cmds>>  BY <1>1 DEF Tick
  <2> DEFINE item == IF ok THEN mic ELSE None
  <2>2. item \in Snapshots  BY DEF LinkInv, Snapshots
  <2>3. news' = news \/ news' = Append(news, item)
    BY <1>1 DEF Tick, Refreshed
  <2> HIDE DEF item
  <2>4. news' \in Seq(Snapshots)  BY <2>2, <2>3 DEF LinkInv
  <2> QED  BY <2>1, <2>4 DEF LinkInv
<1>2. CASE Elsewhere  BY <1>2 DEF Elsewhere, LinkInv
<1>3. CASE LinkLost(<<None>>)
  <2>1. mic' = mic /\ link' = "closed" /\ cmds' = <<>> /\ news' = <<None>>
    BY <1>3 DEF LinkLost
  <2>2. None \in Snapshots  BY DEF Snapshots
  <2>3. <<None>> \in Seq(Snapshots) /\ <<>> \in Seq(SettingCommands)
    BY <2>2
  <2>4. news' \in Seq(Snapshots)  BY <2>1, <2>3, Zenon
  <2>5. cmds' \in Seq(SettingCommands)  BY <2>1, <2>3, Zenon
  <2>6. link' \in {"open", "closed"} /\ mic' \in States  BY <2>1 DEF LinkInv
  <2> QED  BY <2>4, <2>5, <2>6 DEF LinkInv
<1>4. CASE LinkBack \/ UNCHANGED linkVars
  BY <1>4 DEF LinkBack, LinkInv, linkVars
<1>5. CASE ClientStops
  <2>1. mic' = mic /\ link' = "closed" /\ cmds' = <<>> /\ news' = <<>>
    BY <1>5 DEF ClientStops
  <2>2. news' \in Seq(Snapshots)  BY <2>1
  <2>3. cmds' \in Seq(SettingCommands)  BY <2>1
  <2>4. link' \in {"open", "closed"} /\ mic' \in States  BY <2>1 DEF LinkInv
  <2> QED  BY <2>2, <2>3, <2>4 DEF LinkInv
<1>6. CASE Reports  BY <1>6 DEF Reports, LinkInv
<1> QED
  BY <1>1, <1>2, <1>3, <1>4, <1>5, <1>6, ExecuteType DEF Works, Interferes

LEMMA SendsType ==
    ASSUME LinkInv, NEW c \in SettingCommands, Sends(c), UNCHANGED <<mic, link, news>>
    PROVE  LinkInv'
  BY DEF Sends, LinkInv

(* What the application knows and shows.                                    *)
LEMMA DisplayedType ==
    ASSUME NEW s \in Snapshots, NEW p \in Maps, shown \in [Fields -> AnyPosition]
    PROVE  Displayed(s, p) \in [Fields -> AnyPosition]
<1>1. s # None => s.settings \in [Fields -> AnyPosition]  BY SnapshotShape
<1> QED  BY <1>1 DEF Displayed

LEMMA ApplyType ==
    ASSUME NEW s \in Snapshots, NEW p \in Maps, NEW left \in SUBSET SettingSources,
           shown \in [Fields -> AnyPosition], ApplySnapshot(s, p, left)
    PROVE  /\ snapshot' \in Snapshots
           /\ pending' \in Maps
           /\ sources' \subseteq SettingSources
           /\ shown' \in [Fields -> AnyPosition]
<1>1. shown' \in [Fields -> AnyPosition]  BY DisplayedType DEF ApplySnapshot
<1>2. pending' \in Maps  BY DEF ApplySnapshot, NoPending, Maps
<1>3. sources' \subseteq SettingSources  BY DEF ApplySnapshot
<1>4. snapshot' \in Snapshots  BY DEF ApplySnapshot
<1> QED  BY <1>1, <1>2, <1>3, <1>4

LEMMA ClearedType ==
    ASSUME TypeInv, NEW t \in SettingSources
    PROVE  [pending EXCEPT ![t.field] = None] \in Maps
  BY DEF TypeInv, Maps

LEMMA HearingType ==
    ASSUME TypeInv, Hears \/ HearsError
    PROVE  TypeInv'
<1>1. PICK s \in Snapshots : ApplySnapshot(s, pending, sources)
  <2>1. CASE Hears
    <3>1. Head(news) \in Snapshots  BY <2>1 DEF Hears, Reports, TypeInv, LinkInv
    <3> QED  BY <2>1, <3>1 DEF Hears
  <2>2. CASE HearsError  BY <2>2 DEF HearsError, TypeInv
  <2> QED  BY <2>1, <2>2
<1>2. LinkInv'
  BY LinkType DEF Hears, HearsError, TypeInv
<1>3. pending \in Maps /\ sources \in SUBSET SettingSources /\ shown \in [Fields -> AnyPosition]
  BY DEF TypeInv
<1>4. /\ snapshot' \in Snapshots /\ pending' \in Maps
      /\ sources' \subseteq SettingSources /\ shown' \in [Fields -> AnyPosition]
  BY <1>1, <1>3, ApplyType
<1>5. UNCHANGED <<client, editing, asked, sameClient>>  BY DEF Hears, HearsError
<1> QED  BY <1>2, <1>4, <1>5 DEF TypeInv

LEMMA MovesType ==
    ASSUME TypeInv, NEW f \in Fields, NEW v \in Positions(f), Moves(f, v)
    PROVE  TypeInv'
<1> DEFINE w == CommandValue(f, v)
<1>1. w \in Settings(f) /\ w \in AnyPosition  BY RoundedIsSetting
<1>2. v \in AnyPosition
  BY StepAssumption DEF Positions, AnyPosition, Off, On
<1> HIDE DEF w
<1>3. /\ pending' = [pending EXCEPT ![f] = w]
      /\ sources' = (sources \ {Source(f, pending[f])}) \cup {Source(f, w)}
      /\ shown' = [shown EXCEPT ![f] = v]
      /\ UNCHANGED <<linkVars, client, snapshot, editing, asked, sameClient>>
  BY DEF Moves, QueueCommand, w
<1>4. Source(f, w) \in SettingSources  BY <1>1 DEF Source, SettingSources
<1>5. pending' \in Maps  BY <1>1, <1>3 DEF TypeInv, Maps
<1>6. sources' \subseteq SettingSources  BY <1>3, <1>4 DEF TypeInv
<1>7. shown' \in [Fields -> AnyPosition]  BY <1>2, <1>3 DEF TypeInv
<1>8. LinkInv'  BY <1>3, LinkType DEF TypeInv
<1> QED  BY <1>3, <1>5, <1>6, <1>7, <1>8 DEF TypeInv

LEMMA FiresType ==
    ASSUME TypeInv, NEW t \in sources, Fires(t)
    PROVE  TypeInv'
<1> DEFINE p == [pending EXCEPT ![t.field] = None]
           left == sources \ {t}
<1>1. t \in SettingSources  BY DEF TypeInv
<1>2. p \in Maps  BY <1>1, ClearedType
<1>3. left \in SUBSET SettingSources  BY DEF TypeInv
<1> HIDE DEF p, left
<1>4. UNCHANGED <<client, editing, asked, sameClient>>  BY DEF Fires
<1>5. CASE /\ pending' = p /\ sources' = left
           /\ UNCHANGED <<linkVars, snapshot, shown>>
  <2>1. LinkInv'  BY <1>5, LinkType DEF TypeInv
  <2> QED  BY <1>2, <1>3, <1>4, <1>5, <2>1 DEF TypeInv
<1>6. CASE /\ Sends([field |-> t.field, value |-> t.value, by |-> "timer"])
           /\ pending' = p /\ sources' = left
           /\ UNCHANGED <<mic, link, news, snapshot, shown>>
  <2> DEFINE c == [field |-> t.field, value |-> t.value, by |-> "timer"]
  <2>1. c \in SettingCommands
    BY <1>1 DEF SettingCommands, SettingSources, Commands
  <2>2. Sends(c) /\ UNCHANGED <<mic, link, news>>  BY <1>6
  <2> HIDE DEF c
  <2>3. LinkInv'  BY <2>1, <2>2, SendsType DEF TypeInv
  <2> QED  BY <1>2, <1>3, <1>4, <1>6, <2>3 DEF TypeInv
<1>7. CASE ApplySnapshot(snapshot, p, left) /\ UNCHANGED linkVars
  <2>1. LinkInv'  BY <1>7, LinkType DEF TypeInv
  <2>2. snapshot \in Snapshots /\ shown \in [Fields -> AnyPosition]  BY DEF TypeInv
  <2>3. /\ snapshot' \in Snapshots /\ pending' \in Maps
        /\ sources' \subseteq SettingSources /\ shown' \in [Fields -> AnyPosition]
    BY <1>2, <1>3, <1>7, <2>2, ApplyType
  <2> QED  BY <1>4, <2>1, <2>3 DEF TypeInv
<1> QED  BY <1>5, <1>6, <1>7 DEF Fires, p, left

LEMMA ConnectionType ==
    ASSUME TypeInv, Reconnects \/ ShutsDown
    PROVE  TypeInv'
<1>1. LinkInv'  BY LinkType DEF Reconnects, ShutsDown, TypeInv
<1>2. /\ pending' = NoPending /\ sources' \subseteq sources
      /\ snapshot' \in {None, snapshot}
      /\ shown' \in {shown, [f \in Fields |-> 0]}
      /\ asked' \in {asked, {}}
  BY DEF Reconnects, ShutsDown, LeftBehind
<1>3. client' \in {client, FALSE} /\ editing' \in {editing, FALSE} /\ sameClient' = FALSE
  BY DEF Reconnects, ShutsDown
<1>4. client' \in BOOLEAN /\ editing' \in BOOLEAN /\ sameClient' \in BOOLEAN
  BY <1>3, Zenon DEF TypeInv
<1>5. 0 \in AnyPosition /\ NoPending \in Maps
  BY StepAssumption DEF AnyPosition, NoPending, Maps
<1>6. shown' \in [Fields -> AnyPosition]  BY <1>2, <1>5 DEF TypeInv
<1>7. snapshot' \in Snapshots  BY <1>2 DEF TypeInv, Snapshots
<1>8. /\ pending' \in Maps /\ sources' \subseteq SettingSources /\ asked' \subseteq Serials
  BY <1>2, <1>5 DEF TypeInv
<1> QED  BY <1>1, <1>4, <1>6, <1>7, <1>8 DEF TypeInv

LEMMA DialogType ==
    ASSUME TypeInv, Focuses \/ Leaves \/ OpensDialog \/ Cancels \/ Confirms
    PROVE  TypeInv'
<1>1. UNCHANGED <<client, snapshot, pending, sources, shown>>
  BY DEF Focuses, Leaves, OpensDialog, Cancels, Confirms
<1>2. editing' \in BOOLEAN
  BY DEF Focuses, Leaves, OpensDialog, Cancels, Confirms, TypeInv
<1>3. sameClient' \in BOOLEAN
  BY DEF Focuses, Leaves, OpensDialog, Cancels, Confirms, TypeInv
<1>4. asked' \subseteq Serials
  BY SnapshotShape DEF Focuses, Leaves, OpensDialog, Cancels, Confirms, TypeInv
<1>5. LinkInv'
  <2>1. ASSUME UNCHANGED linkVars PROVE LinkInv'
    BY <2>1, LinkType DEF TypeInv
  <2>2. ASSUME Sends([field |-> "reset"]), UNCHANGED <<mic, link, news>> PROVE LinkInv'
    <3> DEFINE c == [field |-> "reset"]
    <3>1. c \in SettingCommands  BY DEF SettingCommands, Commands
    <3>2. Sends(c)  BY <2>2
    <3> HIDE DEF c
    <3> QED  BY <2>2, <3>1, <3>2, SendsType DEF TypeInv
  <2> QED  BY <2>1, <2>2 DEF Focuses, Leaves, OpensDialog, Cancels, Confirms
<1> QED  BY <1>1, <1>2, <1>3, <1>4, <1>5 DEF TypeInv

LEMMA TypeInit == Init => TypeInv
<1> SUFFICES ASSUME Init PROVE TypeInv
  OBVIOUS
<1>1. mic \in States /\ link = "closed"  BY DEF Init, LinkInit
<1>2. cmds \in Seq(SettingCommands)  BY DEF Init, LinkInit
<1>3. news \in Seq(Snapshots)  BY DEF Init, LinkInit
<1>4. LinkInv  BY <1>1, <1>2, <1>3 DEF LinkInv
<1>5. client \in BOOLEAN /\ editing \in BOOLEAN /\ sameClient \in BOOLEAN
  BY DEF Init
<1>6. snapshot \in Snapshots /\ sources \subseteq SettingSources /\ asked \subseteq Serials
  BY DEF Init, Snapshots
<1>7. pending \in Maps  BY DEF Init, NoPending, Maps
<1>8. shown \in [Fields -> AnyPosition]
  BY StepAssumption DEF Init, AnyPosition
<1> QED  BY <1>4, <1>5, <1>6, <1>7, <1>8 DEF TypeInv

LEMMA TypeStep == TypeInv /\ [Next]_vars => TypeInv'
<1> SUFFICES ASSUME TypeInv, [Next]_vars PROVE TypeInv'
  OBVIOUS
<1>1. ASSUME NEW f \in Fields, NEW v \in Positions(f), Moves(f, v) PROVE TypeInv'
  BY <1>1, MovesType
<1>2. CASE Focuses \/ Leaves \/ OpensDialog \/ Cancels \/ Confirms
  BY <1>2, DialogType
<1>3. CASE Reconnects \/ ShutsDown  BY <1>3, ConnectionType
<1>4. CASE Hears \/ HearsError  BY <1>4, HearingType
<1>5. ASSUME NEW t \in sources, Fires(t) PROVE TypeInv'
  BY <1>5, FiresType
<1>6. CASE Behind \/ UNCHANGED vars
  <2>1. UNCHANGED appVars  BY <1>6 DEF Behind, vars
  <2>2. LinkInv'  BY <1>6, LinkType DEF Behind, vars, TypeInv
  <2> QED  BY <2>1, <2>2 DEF TypeInv, appVars
<1> QED  BY <1>1, <1>2, <1>3, <1>4, <1>5, <1>6 DEF Next, User

(* No change of a control, though it is made between two steps and waits,    *)
(* leaves with a value between two steps (commandFor, _queueCommand).        *)
THEOREM SettingsAreSent == Spec => []OnlySettingsAreSent
<1>1. TypeInv => OnlySettingsAreSent
  <2> SUFFICES ASSUME TypeInv, NEW i \in 1 .. Len(cmds), cmds[i].field # "reset"
               PROVE  cmds[i].value \in Settings(cmds[i].field)
    BY DEF OnlySettingsAreSent
  <2>1. cmds \in Seq(SettingCommands)  BY DEF TypeInv, LinkInv
  <2>2. cmds[i] \in SettingCommands  BY <2>1
  <2> QED  BY <2>2 DEF SettingCommands
<1> QED  BY <1>1, TypeInit, TypeStep, PTL DEF Spec

(* The types: in particular the microphone, and every state reported of it,  *)
(* has no value between two steps.                                          *)
THEOREM TypeCorrect == Spec => []TypeOK
<1>1. TypeInv => TypeOK
  <2> SUFFICES ASSUME TypeInv PROVE TypeOK
    OBVIOUS
  <2>1. SettingCommands \subseteq Commands  BY DEF SettingCommands
  <2>2. cmds \in Seq(Commands)  BY <2>1 DEF TypeInv, LinkInv
  <2>3. sources \subseteq [field : Fields, value : AnyPosition]
    BY DEF TypeInv, SettingSources
  <2> QED  BY <2>2, <2>3 DEF TypeInv, LinkInv, TypeOK, LinkTypeOK, Maps
<1> QED  BY <1>1, TypeInit, TypeStep, PTL DEF Spec

=============================================================================
