\* A browser whose refresh is answered, and the answer lost.
CONSTANTS
    c1 = c1
    c2 = c2
    c3 = c3
    c4 = c4
    Sessions = {s1, s2}
    Links = {l1}
    Batches <- TwoBatches
    Requests = {r1, r2}
    MaxPasswords = 1
    HandStatuses = {}
    Mixes <- LostMix
    None = None
SPECIFICATION Spec
INVARIANT AlwaysCurrent
\* The system may stop: the bounds on sessions, links and codes are used up.
CHECK_DEADLOCK FALSE
