\* One registration, its verification link and logins.
CONSTANTS
    c1 = c1
    c2 = c2
    c3 = c3
    c4 = c4
    Sessions = {s1}
    Links = {l1}
    Batches <- TwoBatches
    Requests = {r1, r2}
    MaxPasswords = 0
    HandStatuses = {}
    Mixes <- RegisterMix
    None = None
SPECIFICATION Spec
INVARIANT VerifiedCanLogIn
\* The system may stop: the bounds on sessions and links are used up.
CHECK_DEADLOCK FALSE
