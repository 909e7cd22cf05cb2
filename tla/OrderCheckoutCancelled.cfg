\* A cancel between a verify's read of the order and its transaction.
CONSTANTS
    Orders = {o1}
    Payments = {p1}
    Sessions = {s1}
    Gateways = {g1}
    Requests = {r1, r2}
    StaffTargets = {"PENDING_PAYMENT"}
    LeasesLapse = FALSE
    None = None
SPECIFICATION Spec
PROPERTIES CancelledIsNotForcedToPaid
CHECK_DEADLOCK FALSE
