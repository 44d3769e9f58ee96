\* One item more than the network, the channel and the two tasks can hold.
SPECIFICATION FairSpec
CONSTANTS
    Capacity = 1
    Outgoing = 1
    MaxItems = 5
    None = None
\* Both tasks end; so does the client.
CHECK_DEADLOCK FALSE
INVARIANTS
    TypeOK
    ResponsesInOrder
    BoundedAhead
PROPERTIES
    EveryResponseDelivered
    ResetEndsConnection
