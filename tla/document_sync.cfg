\* Two notifications of up to three changes, every encoding, positions inside the lines.
CONSTANTS
    Characters = {"x", "nl", "cr"}
    MaxLen = 3
    MaxChanges = 3
    MaxVersion = 2
SPECIFICATION Spec
INVARIANTS
    InSync
    NoPanic
    RoundTrip
