\* A strategy bought twice at once: the second payment takes the place of the
\* first, whose checkout session the customer may still pay.
CONSTANTS
    Strategies = {strategy}
    PlatformPlans = {}
    SignalPlans = {}
    Grants = {g1}
    Payments = {p1, p2}
    Sessions = {s1, s2}
    Requests = {r1, r2}
    HandStatuses = {"SUSPENDED"}
    LeasesLapse = FALSE
    None = None
SPECIFICATION Spec
INVARIANTS NoSilentMismatch
CHECK_DEADLOCK FALSE
