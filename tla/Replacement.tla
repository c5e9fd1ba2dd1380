----------------------------- MODULE Replacement -----------------------------
(***************************************************************************)
(* crates/sith_server/src/edit/replacement.rs: the part of a text that has *)
(* to be replaced to turn it into another one, found by comparing their    *)
(* lines from the front and then from the back.  The machine builds every  *)
(* pair of texts up to a bound, a character at a time.                     *)
(***************************************************************************)
EXTENDS Locator

VARIABLES source, modified

texts == <<source, modified>>

TextsInit == source = <<>> /\ modified = <<>>

Type(c) ==
    \/ Len(source) < MaxLen /\ source' = Append(source, c) /\ UNCHANGED modified
    \/ Len(modified) < MaxLen /\ modified' = Append(modified, c) /\ UNCHANGED source

Complete == Len(source) = MaxLen /\ Len(modified) = MaxLen

TextsNext == (\E c \in Characters : Type(c)) \/ (Complete /\ UNCHANGED texts)

TextsSpec == TextsInit /\ [][TextsNext]_texts
-----------------------------------------------------------------------------
Starts(t) == FromSourceText(t).starts

(* The lines that `zip` pairs: those both texts have. *)
Paired == 1..(IF Len(Starts(source)) < Len(Starts(modified))
              THEN Len(Starts(source)) ELSE Len(Starts(modified)))

(* The loop from the front: both texts are the same up to line `n`. *)
SameUpTo(n) ==
    /\ \A i \in 1..n : Starts(source)[i] = Starts(modified)[i]
    /\ Slice(source, 0, Starts(source)[n]) = Slice(modified, 0, Starts(modified)[n])

FirstDifferent == CHOOSE n \in Paired : SameUpTo(n) /\ \A m \in Paired : SameUpTo(m) => m <= n

(* The loop from the back: both texts are the same from line `n` on. *)
SameFrom(n) ==
    Slice(source, Starts(source)[n], TextLen(source))
        = Slice(modified, Starts(modified)[n], TextLen(modified))

(* Mutant: the loop from the back may run into the common front, whose      *)
(* last line the one from the front has not consumed.                      *)
SuffixesOverlapping ==
    {n \in Paired : \A m \in Paired : m >= n => SameFrom(m)}

(* The line at which the loop from the front stopped has left the iterator. *)
SameSuffixes ==
    {n \in Paired : n > FirstDifferent + 1 /\ \A m \in Paired : m >= n => SameFrom(m)}

Between ==
    LET n == FirstDifferent
        end == IF SameSuffixes = {} THEN 0 ELSE CHOOSE k \in SameSuffixes : \A m \in SameSuffixes : k <= m
    IN  [source |-> <<Starts(source)[n], IF end = 0 THEN TextLen(source) ELSE Starts(source)[end]>>,
         modified |-> <<Starts(modified)[n], IF end = 0 THEN TextLen(modified) ELSE Starts(modified)[end]>>]
-----------------------------------------------------------------------------
(* Replacing the source range by the modified range gives the modified     *)
(* text, as the tests of replacement.rs assert on examples; both ranges    *)
(* are ordered.                                                            *)
ReplacementIsCorrect ==
    LET r == Between
    IN  /\ r.source[1] <= r.source[2] /\ r.modified[1] <= r.modified[2]
        /\ Slice(source, 0, r.source[1])
             \o Slice(modified, r.modified[1], r.modified[2])
             \o Slice(source, r.source[2], TextLen(source)) = modified

(* What a reader counts: the line breaks before an offset, a CRLF as one,  *)
(* and the characters since, a leading byte order mark not among them.     *)
ExpectedLocation(t, n) ==
    LET breaks == {i \in 1..n : EndsLine(t, i)}
        first == IF breaks = {} THEN 0 ELSE CHOOSE i \in breaks : \A k \in breaks : k <= i
    IN  [row |-> Cardinality(breaks),
         column |-> Cardinality({i \in first + 1..n : ~(i = 1 /\ t[i] = "bom")})]

(* source_location agrees with that count at every character boundary, in  *)
(* ASCII texts (which take a shortcut) and in others.                      *)
LocationsAreRight ==
    \A n \in 0..Len(source) :
        SourceLocation(FromSourceText(source), Bytes(source, n), source) = ExpectedLocation(source, n)

(* The lines of a text by its index; the row after the last one is empty.  *)
IndexLines(t) ==
    LET index == FromSourceText(t)
        range(i) == LineRange(index, i - 1, t)
    IN  [i \in DOMAIN index.starts |-> Line(Slice(t, range(i)[1], range(i)[2]), range(i)[1])]

(* The lines taken from a text by calls from the front and the back.       *)
Taken(t, back) ==
    LET it[k \in 0..Len(back)] ==
            IF k = 0 THEN Lines(t)
            ELSE IF back[k] THEN NextBack(it[k - 1]) ELSE NextFront(it[k - 1])
        end == it[Len(back)]
    IN  end.front \o end.back

(* Between the two characters of a CRLF. *)
InsideBreak(t, n) == n \in 1..Len(t) - 1 /\ t[n] = "cr" /\ t[n + 1] = "nl"

(* The text of a line, and of some lines, for the locator. *)
LocatorLine(t, row) ==
    LET text == IndexLines(t)[row + 1].text
    IN  IF row = 0 /\ ContentsStart(t) > 0 THEN Tail(text) ELSE text

LocatorLines(t, from, to) ==
    LET text[row \in from..to] ==
            IF row = from THEN LocatorLine(t, row) ELSE text[row - 1] \o LocatorLine(t, row)
    IN  text[to]

LocatorAgrees(t, n) ==
    LET o == Bytes(t, n)
        row == RowOf(FromSourceText(t), o)
    IN  /\ FullLineAt(t, o) = LocatorLine(t, row)
        /\ LocatorLineRange(t, o)[2] = EndOf(IndexLines(t)[row + 1])
        /\ IsAtStartOfLine(t, o)
              <=> o = LineStart(FromSourceText(t), row, t) + (IF row = 0 THEN ContentsStart(t) ELSE 0)

LocatorRangesAgree(t, n, m) ==
    LET from == RowOf(FromSourceText(t), Bytes(t, n))
        to == RowOf(FromSourceText(t), Bytes(t, m))
    IN  /\ ContainsLineBreak(t, Bytes(t, n), Bytes(t, m)) <=> from # to
        /\ FullLinesOf(t, Bytes(t, n), Bytes(t, m)) = LocatorLines(t, from, to)

FloorIsRight(t, o) ==
    /\ FloorCharBoundary(t, o) <= o /\ IsBoundary(t, FloorCharBoundary(t, o))
    /\ \A k \in FloorCharBoundary(t, o) + 1..o : ~IsBoundary(t, k)

(* A text has one division into lines: the index, the iterators, whichever *)
(* way their steps from the front and from the back alternate, and the     *)
(* locator at every offset that is not inside a CRLF find the same lines,  *)
(* the byte order mark left out by the locator; a line break is between    *)
(* two offsets exactly when they are in different lines (newlines.rs, next *)
(* and next_back, line_index.rs and locator.rs, each with a reading of     *)
(* CRLF of its own).                                                       *)
LinesAgree ==
    LET offsets == {n \in 0..Len(source) : ~InsideBreak(source, n)}
    IN  modified = <<>> =>
        /\ source # <<>> => \A back \in [1..Len(source) -> BOOLEAN] :
              Taken(source, back) \o Trailing(source) = IndexLines(source)
        /\ \A n \in offsets : LocatorAgrees(source, n)
        /\ \A n, m \in offsets : n <= m => LocatorRangesAgree(source, n, m)
        /\ \A o \in 0..TextLen(source) : FloorIsRight(source, o)
=============================================================================
