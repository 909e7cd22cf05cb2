\* Two requests race on two payment rows and two checkout sessions of one
\* order; a verify may outlive its lock.
CONSTANTS
    Orders = {o1}
    Payments = {p1, p2}
    Sessions = {s1, s2}
    Gateways = {g1}
    Requests = {r1, r2}
    StaffTargets = {"PENDING_PAYMENT"}
    LeasesLapse = TRUE
    None = None
SPECIFICATION Spec
INVARIANTS TypeOK OneSuccessPerOrder SuccessIsFunded FlaggedHoldsMoney
PROPERTIES ImplementsLedger ImplementsLock
SYMMETRY Symmetry
\* The system may stop: all rows SUCCESS, the order in a terminal status.
CHECK_DEADLOCK FALSE
