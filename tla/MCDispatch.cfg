\* Two connections, two shards with channels of two, a DEL over both shards;
\* shards may panic or stop for ever.
SPECIFICATION FairSpec
CONSTANTS
    s1 = s1
    s2 = s2
    a = a
    b = b
    c1 = c1
    c2 = c2
    None = None
    Clients = {c1, c2}
    Shards = {s1, s2}
    Keys = {a, b}
    RouteKey <- MCRouteKey
    Commands <- MCCommands
    Capacity = 2
    MaxRequests <- MCMaxRequests
\* Connections issue a bounded number of commands.
CHECK_DEADLOCK FALSE
INVARIANTS
    TypeOK
    SessionOrder
    RefusedNeverExecuted
    AnswerIsOwn
PROPERTIES
    EveryCommandAnswered
