\* One refund, approved twice.
CONSTANTS
    Orders = {o1}
    Payments = {p1}
    Sessions = {s1}
    Gateways = {g1}
    Requests = {r1}
    StaffTargets = {"PENDING_PAYMENT"}
    LeasesLapse = FALSE
    None = None
    RefundIds = {f1, f2}
    Calls = {c1, c2}
    Price = 100
    Amounts = {51, 100}
    ReturnedBound = 102
    HandStatuses = {"REJECTED"}
SPECIFICATION RefundSpec
INVARIANTS ApprovalsWithinPrice
CHECK_DEADLOCK FALSE
