\* All pairs of texts of up to four characters, ASCII or not, with both line terminators.
CONSTANTS
    Characters = {"a", "bom", "nl", "cr"}
    MaxLen = 4
SPECIFICATION TextsSpec
INVARIANTS
    ReplacementIsCorrect
    LocationsAreRight
    LinesAgree
