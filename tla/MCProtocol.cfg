\* Every command and every way to refuse one, pairs of values, malformed and
\* unfinished input, each cut into reads in every way.
SPECIFICATION Spec
CONSTANTS
    Tokens <- MCTokens
    Numbers <- MCNumbers
    Decimal <- MCDecimal
    MaxDepth = 2
    MaxValueSize = 4
    None = None
    Streams <- MCStreams
\* The connection ends.
CHECK_DEADLOCK FALSE
INVARIANTS
    TypeOK
    ParsedAsSent
    NothingWithheld
    RejectedOnlyWhenTorn
    RepliesReadBack
    CommandsAsAsked
