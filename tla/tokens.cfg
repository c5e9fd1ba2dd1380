\* Layout, brackets and f-strings, with every call of the parser.
SPECIFICATION Spec
CONSTANTS
    Sources <- StructuredSources
    Ipython = FALSE
    NoPending = NoPending
    Calls = {"peek", "rewind", "relex"}
    ReLexAt <- AllPoints
INVARIANTS
    IndentationsSorted
    BlocksMatchStack
    OutputInOrder
    FStringsNest
    ReLexEmitsNewline
PROPERTIES
    PeekIsHonest
    RewindIsExact
