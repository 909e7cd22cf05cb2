\* A row that may become a strategy or either kind of plan, paid, cancelled,
\* renewed and expired, when every verify ends, or dies, within its lease.
CONSTANTS
    Strategies = {strategy}
    PlatformPlans = {monthly}
    SignalPlans = {signals}
    Grants = {g1}
    Payments = {p1, p2}
    Sessions = {s1}
    Requests = {r1, r2}
    HandStatuses = {"SUSPENDED"}
    LeasesLapse = FALSE
    None = None
SPECIFICATION JobSpec
PROPERTIES EndedPlansExpire
\* The system may stop: all rows and sessions used.
CHECK_DEADLOCK FALSE
