CONSTANTS
    c1 = c1
    r1 = r1
    r2 = r2
    NoRun = NoRun
    Clients = {c1}
    Runs = {r1, r2}
SPECIFICATION FairSpec
INVARIANTS
    DemandMet
    SingleCapture
PROPERTIES
    MeterComesUp
    MeterGoesDown
    SupervisorStops
