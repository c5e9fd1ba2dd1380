------------------------------ MODULE LineIndex ------------------------------
(***************************************************************************)
(* crates/ruff_source_file/src/line_index.rs: the starts of the lines of a *)
(* text, as byte offsets, and the conversions between offsets, lines and   *)
(* columns.  A text is a sequence of characters that stand for the lengths *)
(* an encoding may give a character; rows and columns are zero-indexed     *)
(* (OneIndexed::to_zero_indexed).                                          *)
(***************************************************************************)
EXTENDS Naturals, Sequences, FiniteSets

CONSTANTS
    Characters,     \* the characters of the texts
    MaxLen          \* bound: characters in a text

(* ASCII, two and four bytes of UTF-8, the byte order mark, line breaks. *)
LenUtf8 == [a |-> 1, e |-> 2, x |-> 4, bom |-> 3, nl |-> 1, cr |-> 1]
LenUtf16 == [a |-> 1, e |-> 1, x |-> 2, bom |-> 1, nl |-> 1, cr |-> 1]
IsAscii(c) == LenUtf8[c] = 1

ASSUME CharactersAssumption == Characters \subseteq DOMAIN LenUtf8
ASSUME MaxLenAssumption == MaxLen \in Nat

(* The length of the first `n` characters of a text, `len[c]` for each. *)
Size(len, t, n) ==
    LET size[k \in 0..n] == IF k = 0 THEN 0 ELSE size[k - 1] + len[t[k]]
    IN  size[n]

(* Byte offsets and the slices between them. *)
Bytes(t, n) == Size(LenUtf8, t, n)
TextLen(t) == Bytes(t, Len(t))
IsBoundary(t, o) == \E n \in 0..Len(t) : Bytes(t, n) = o
CharsBefore(t, o) == CHOOSE n \in 0..Len(t) : Bytes(t, n) = o
Slice(t, from, to) == SubSeq(t, CharsBefore(t, from) + 1, CharsBefore(t, to))

(* `\r\n` is one line break, at its second character. *)
EndsLine(t, i) ==
    \/ t[i] = "nl"
    \/ t[i] = "cr" /\ ~(i < Len(t) /\ t[i + 1] = "nl")

Breaks(t) == {i \in 1..Len(t) : EndsLine(t, i)}
BreaksUpTo(t, n) == {i \in Breaks(t) : i <= n}

(* The characters before a row: those up to the break that ends the last. *)
RowBegin(t, row) == CHOOSE n \in {0} \cup Breaks(t) : Cardinality(BreaksUpTo(t, n)) = row

FromSourceText(t) ==
    [starts |-> [k \in 1..Cardinality(Breaks(t)) + 1 |-> Bytes(t, RowBegin(t, k - 1))],
     ascii  |-> \A i \in 1..Len(t) : IsAscii(t[i])]

(* The row of an offset: the last line that starts at or before it. *)
RowOf(index, o) ==
    Cardinality({i \in 1..Len(index.starts) : index.starts[i] <= o}) - 1

LineStart(index, row, t) ==
    IF row = Len(index.starts) THEN TextLen(t) ELSE index.starts[row + 1]

LineEnd(index, row, t) ==
    IF row + 1 >= Len(index.starts) THEN TextLen(t) ELSE index.starts[row + 2]

LineRange(index, row, t) ==
    IF row = Len(index.starts)
    THEN <<TextLen(t), TextLen(t)>>
    ELSE <<LineStart(index, row, t), LineStart(index, row + 1, t)>>

(* Mutant: the byte order mark is counted as a column. *)
SourceLocationWithBom(index, o, t) ==
    LET row == RowOf(index, o)
        from == index.starts[row + 1]
    IN  [row |-> row, column |-> IF index.ascii THEN o - from ELSE Len(Slice(t, from, o))]

(* The byte order mark is not a column. *)
SourceLocation(index, o, t) ==
    LET row == RowOf(index, o)
        start == index.starts[row + 1]
        from == IF start = 0 /\ t # <<>> /\ t[1] = "bom" THEN LenUtf8["bom"] ELSE start
    IN  [row |-> row,
         column |-> IF o = start THEN 0
                    ELSE IF index.ascii THEN o - start
                    ELSE Len(Slice(t, from, o))]
=============================================================================
