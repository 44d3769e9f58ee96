\* Expected to fail: see the findings in README.md.
SPECIFICATION Spec
CONSTANTS
    Tokens <- MCTokens
    Numbers <- MCNumbers
    Decimal <- MCDecimal
    MaxDepth = 2
    MaxValueSize = 4
    None = None
    Streams <- MCStreams
\* The connection ends.
CHECK_DEADLOCK FALSE
INVARIANT IncompleteWaits
