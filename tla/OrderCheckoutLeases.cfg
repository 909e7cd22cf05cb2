\* Every verify ends, or dies, within its lease; every served request goes on
\* and every lock ends.
CONSTANTS
    Orders = {o1}
    Payments = {p1}
    Sessions = {s1}
    Gateways = {g1, g2}
    Requests = {r1, r2}
    StaffTargets = {"PENDING_PAYMENT"}
    LeasesLapse = FALSE
    None = None
SPECIFICATION FairSpec
INVARIANTS InvoicedIffSuccess VerifiesExclude
PROPERTIES SuccessIsFinal LocksAreFreed RequestsReturn
\* The system may stop: all rows SUCCESS, the order in a terminal status.
CHECK_DEADLOCK FALSE
