SPECIFICATION Spec
CONSTANTS
    LargeFile = 3
    NameOrder <- SortedNames
    PythonDirs <- Pythons
    StubsOf <- StubPackages
    Worlds <- AllWorlds
INVARIANTS
    PathsSpellModule
    TraditionalShadowsNamespace
    NonStubIsRuntime
    ChosenIsBest
CHECK_DEADLOCK FALSE
