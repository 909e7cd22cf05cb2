\* An account, three sessions and two requests, one mix of operations at a time.
CONSTANTS
    c1 = c1
    c2 = c2
    c3 = c3
    c4 = c4
    Sessions = {s1, s2, s3}
    Links = {l1, l2}
    Batches <- TwoBatches
    Requests = {r1, r2}
    MaxPasswords = 2
    HandStatuses = {"PENDING_VERIFICATION", "ACTIVE", "SUSPENDED"}
    Mixes <- AllMixes
    None = None
SPECIFICATION Spec
INVARIANTS TypeOK OldPasswordsEnd FamilyIsKept CodesMatchShown CookieIsCurrent
SYMMETRY Symmetry
\* The system may stop: the bounds on sessions, links and codes are used up.
CHECK_DEADLOCK FALSE
