\* Two requests, two purchases of a strategy, their payments and sessions; a
\* verify may outlive its lock.
CONSTANTS
    Strategies = {strategy}
    PlatformPlans = {}
    SignalPlans = {}
    Grants = {g1, g2}
    Payments = {p1, p2}
    Sessions = {s1, s2}
    Requests = {r1, r2}
    HandStatuses = {"SUSPENDED"}
    LeasesLapse = TRUE
    None = None
SPECIFICATION Spec
INVARIANTS TypeOK ActiveIsFunded OneActivePurchase SuccessIsActivated
SYMMETRY Symmetry
\* The system may stop: all rows and sessions used.
CHECK_DEADLOCK FALSE
