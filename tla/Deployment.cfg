\* Two processes and what runs in them, a few activities at a time.
CONSTANTS
    Processes = {p1, p2}
    MaxEvents = 2
    Limit = 1
    Relays = {x1, x2}
    Jobs = {j1}
    Recipients = {u1, u2}
    Signals = {s1}
    MaxLog = 3
    Clients = {b1}
    Requests = {q1}
    Mixes <- AllMixes
    None = None
SPECIFICATION FairSpec
INVARIANTS TypeOK ClaimsAreDisjoint MailedOncePerRun OneCopyPerStream
PROPERTIES ImplementsOutbox CleanExit ShutdownEnds EventsAreClaimed
