\* All characters and f-strings, with lists given up at every token.
SPECIFICATION FairSpec
CONSTANTS
    Sources <- AllSources
    Ipython = TRUE
    NoPending = NoPending
    Calls = {"relex"}
    ReLexAt <- AllPoints
INVARIANTS
    EndOfFileIsClean
PROPERTIES
    ReachesEndOfFile
