SPECIFICATION Spec
CONSTANTS
    Programs <- AllPrograms
    Functions <- ParsingFunctions
INVARIANT NoPanic
INVARIANT ContextIsOpenLists
INVARIANT RangesNest
INVARIANT AcceptsAsGrammar
INVARIANT OperatorsBindAsGrammar
PROPERTY ParserTerminates
CHECK_DEADLOCK FALSE
