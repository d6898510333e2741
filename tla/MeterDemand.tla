--------------------------- MODULE MeterDemand ---------------------------
(***************************************************************************)
(* What the hub and the supervisor of the meter agree on.  The hub may     *)
(* change the demand for a meter at any moment, but whoever does so wakes  *)
(* the supervisor in the same critical section or owes it the wake-up from *)
(* then on, and a wake-up that is owed comes; only the supervisor takes    *)
(* the token.  ServerHub, which has the hub's queues and goroutines, and   *)
(* MeterSupervisor, which has only what meterWanted reads, implement it.   *)
(***************************************************************************)
VARIABLES
    demand,     \* what meterWanted would compute
    owed,       \* a goroutine of the hub is still to call wakeMeter
    wake        \* s.meterWake holds its token

vars == <<demand, owed, wake>>

Init == demand = FALSE /\ owed = FALSE /\ wake = FALSE

(* A client or the microphone comes or goes, a client subscribes.          *)
Change ==
    /\ demand' \in BOOLEAN
    /\ \/ owed' = TRUE /\ UNCHANGED wake
       \/ wake' = TRUE /\ UNCHANGED owed

(* One of those that owe a wake-up calls wakeMeter.                        *)
Wake ==
    /\ owed
    /\ wake' = TRUE
    /\ owed' \in BOOLEAN
    /\ UNCHANGED demand

(* runMeter receives.                                                      *)
Take ==
    /\ wake
    /\ wake' = FALSE
    /\ UNCHANGED <<demand, owed>>

Next == Change \/ Wake \/ Take

Spec == Init /\ [][Next]_vars
===========================================================================
