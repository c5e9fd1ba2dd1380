\* A notification of three changes, the second of which restores the text.
CONSTANTS
    Characters = {"x", "nl"}
    MaxLen = 2
    MaxChanges = 3
    MaxVersion = 1
SPECIFICATION Spec
INVARIANT StaysUpToDate
