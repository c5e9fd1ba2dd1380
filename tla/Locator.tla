------------------------------- MODULE Locator -------------------------------
(***************************************************************************)
(* The other two notions of a line: the iterators over lines               *)
(* (crates/ruff_source_file/src/newlines.rs), and the lines around an      *)
(* offset that are found without an index (locator.rs).                    *)
(***************************************************************************)
EXTENDS LineIndex, SequencesExt

IsNewline(c) == c \in {"nl", "cr"}
Newlines(t) == {i \in DOMAIN t : IsNewline(t[i])}

(* find_newline: the position of the first newline character and the       *)
(* number of characters its line ending has, or 0 for none.                *)
FindNewline(t) ==
    IF Newlines(t) = {} THEN [position |-> Len(t), len |-> 0]
    ELSE LET i == CHOOSE i \in Newlines(t) : \A k \in Newlines(t) : i <= k
         IN  [position |-> i - 1,
              len |-> IF t[i] = "cr" /\ i < Len(t) /\ t[i + 1] = "nl" THEN 2 ELSE 1]

-----------------------------------------------------------------------------
(* UniversalNewlineIterator: the text that is left, its offsets at the     *)
(* front and at the back, and the lines that were taken from either end.   *)
Lines(t) == [text |-> t, offset |-> 0, offset_back |-> TextLen(t),
             front |-> <<>>, back |-> <<>>]

Line(t, offset) == [text |-> t, offset |-> offset]

NextFront(it) ==
    LET found == FindNewline(it.text)
        n == found.position + found.len
        line == Line(SubSeq(it.text, 1, n), it.offset)
    IN  IF it.text = <<>> THEN it
        ELSE [it EXCEPT !.text = SubSeq(@, n + 1, Len(@)),
                        !.offset = IF found.len = 0 THEN @ ELSE @ + TextLen(line.text),
                        !.front = Append(@, line)]

(* Mutant: a CRLF at the end is trimmed by one character only. *)
TrimmedOne(t) == IF IsNewline(Last(t)) THEN Front(t) ELSE t

(* The text without the line ending at its end. *)
Trimmed(t) ==
    IF Last(t) = "nl" /\ Len(t) > 1 /\ t[Len(t) - 1] = "cr" THEN Front(Front(t))
    ELSE IF IsNewline(Last(t)) THEN Front(t) ELSE t

NextBack(it) ==
    LET before == Newlines(Trimmed(it.text))
        n == IF before = {} THEN 0 ELSE CHOOSE i \in before : \A k \in before : k <= i
        line == SubSeq(it.text, n + 1, Len(it.text))
        offset_back == it.offset_back - TextLen(line)
    IN  IF it.text = <<>> THEN it
        ELSE [it EXCEPT !.text = SubSeq(@, 1, n),
                        !.offset_back = IF n = 0 THEN @ ELSE offset_back,
                        !.back = <<Line(line, offset_back)>> \o @]

(* NewlineWithTrailingNewline: an empty line after a newline at the end. *)
Trailing(t) ==
    IF t # <<>> /\ IsNewline(Last(t)) THEN <<Line(<<>>, TextLen(t))>> ELSE <<>>

(* Line::line_ending and the offsets where a line ends, without it.        *)
LineEndingLen(t) ==
    IF t = <<>> \/ ~IsNewline(Last(t)) THEN 0
    ELSE IF Last(t) = "nl" /\ Len(t) > 1 /\ t[Len(t) - 1] = "cr" THEN 2 ELSE 1

EndOf(line) == line.offset + TextLen(line.text) - LineEndingLen(line.text)

-----------------------------------------------------------------------------
(* Locator: the byte order mark is before the first line.                  *)
ContentsStart(t) == IF t # <<>> /\ t[1] = "bom" THEN LenUtf8["bom"] ELSE 0

LocatorLineStart(t, o) ==
    LET before == Newlines(Slice(t, 0, o))
    IN  IF before = {} THEN ContentsStart(t)
        ELSE Bytes(t, CHOOSE i \in before : \A k \in before : k <= i)

After(t, o) == Slice(t, o, TextLen(t))

LocatorFullLineEnd(t, o) ==
    LET found == FindNewline(After(t, o))
    IN  IF found.len = 0 THEN TextLen(t)
        ELSE o + Bytes(After(t, o), found.position) + found.len

LocatorLineEnd(t, o) ==
    LET found == FindNewline(After(t, o))
    IN  IF found.len = 0 THEN TextLen(t) ELSE o + Bytes(After(t, o), found.position)

LinesRange(t, from, to) == <<LocatorLineStart(t, from), LocatorLineEnd(t, to)>>
FullLinesRange(t, from, to) == <<LocatorLineStart(t, from), LocatorFullLineEnd(t, to)>>
LocatorLineRange(t, o) == LinesRange(t, o, o)
FullLineRange(t, o) == FullLinesRange(t, o, o)

IsAtStartOfLine(t, o) == LocatorLineStart(t, o) = o

LineAt(t, o) == Slice(t, LocatorLineRange(t, o)[1], LocatorLineRange(t, o)[2])
FullLineAt(t, o) == Slice(t, FullLineRange(t, o)[1], FullLineRange(t, o)[2])
LinesOf(t, from, to) == Slice(t, LinesRange(t, from, to)[1], LinesRange(t, from, to)[2])
FullLinesOf(t, from, to) ==
    Slice(t, FullLinesRange(t, from, to)[1], FullLinesRange(t, from, to)[2])

ContainsLineBreak(t, from, to) == Newlines(Slice(t, from, to)) # {}

(* The first character boundary within four bytes, going back. *)
FloorCharBoundary(t, o) ==
    LET boundaries == {k \in 0..3 : k <= o /\ IsBoundary(t, o - k)}
    IN  IF o >= TextLen(t) THEN TextLen(t)
        ELSE IF boundaries = {} THEN 0
        ELSE o - (CHOOSE k \in boundaries : \A m \in boundaries : k <= m)
=============================================================================
