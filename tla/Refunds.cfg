\* Two calls on two refunds of one payment, beside one checkout request.
CONSTANTS
    Orders = {o1}
    Payments = {p1}
    Sessions = {s1}
    Gateways = {g1}
    Requests = {r1}
    StaffTargets = {"PENDING_PAYMENT"}
    LeasesLapse = FALSE
    None = None
    RefundIds = {f1, f2}
    Calls = {c1, c2}
    Price = 100
    Amounts = {50, 51}
    ReturnedBound = 100
    HandStatuses = {"REJECTED"}
SPECIFICATION RefundSpec
INVARIANTS RefundTypeOK RefundedIsReturned ReturnsWithinPrice ReturnedIsNotSuccess ProcessedIsReturned
SYMMETRY Symmetry
\* The system may stop: the order in a terminal status, all refunds asked for.
CHECK_DEADLOCK FALSE
