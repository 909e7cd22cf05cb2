\* A full refund, and a verify of the payment afterwards.
CONSTANTS
    Orders = {o1}
    Payments = {p1}
    Sessions = {s1}
    Gateways = {g1}
    Requests = {r1}
    StaffTargets = {"PENDING_PAYMENT"}
    LeasesLapse = FALSE
    None = None
    RefundIds = {f1}
    Calls = {c1}
    Price = 100
    Amounts = {100}
    ReturnedBound = 100
    HandStatuses = {"REJECTED"}
SPECIFICATION RefundSpec
INVARIANTS ReturnedStaysRefunded
CHECK_DEADLOCK FALSE
