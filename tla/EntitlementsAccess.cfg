\* A purchase or a platform plan whose payment another creation may replace,
\* cancelled, renewed and expired, when every verify ends, or dies, within its
\* lease.
CONSTANTS
    Strategies = {strategy}
    PlatformPlans = {monthly}
    SignalPlans = {}
    Grants = {g1}
    Payments = {p1, p2}
    Sessions = {s1, s2}
    Requests = {r1, r2}
    HandStatuses = {"SUSPENDED"}
    LeasesLapse = FALSE
    None = None
SPECIFICATION Spec
PROPERTIES ImplementsAccess
SYMMETRY Symmetry
\* The system may stop: all rows and sessions used.
CHECK_DEADLOCK FALSE
