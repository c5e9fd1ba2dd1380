------------------------------- MODULE Convert -------------------------------
(***************************************************************************)
(* crates/sith_server/src/edit/convert.rs: LSP positions, a line and a     *)
(* column in the negotiated encoding, to byte offsets of the document and  *)
(* back.                                                                   *)
(***************************************************************************)
EXTENDS LineIndex, Integers

PositionEncodings == {"UTF8", "UTF16", "UTF32"}

Smaller(m, n) == IF m < n THEN m ELSE n

(* Mutant: a character outside the basic plane counts once. *)
Utf8ColumnOffsetByCharacter(units, line) == Bytes(line, Smaller(units, Len(line)))

(* utf8_column_offset: the bytes of the shortest prefix of the line that   *)
(* has the given number of UTF-16 code units.                              *)
Utf8ColumnOffset(units, line) ==
    LET n == CHOOSE n \in 0..Len(line) :
                /\ n = Len(line) \/ Size(LenUtf16, line, n) >= units
                /\ \A m \in 0..n - 1 : Size(LenUtf16, line, m) < units
    IN  Bytes(line, n)

(* LineIndex::offset, a column in characters; not among the functions of   *)
(* line_index.rs, here from its use for UTF-32.                            *)
IndexOffset(index, row, column, t) ==
    LET r == LineRange(index, row, t)
        line == Slice(t, r[1], r[2])
    IN  r[1] + Bytes(line, Smaller(column, Len(line)))

(* Where the conversion of a position indexes past the lines, makes a      *)
(* range that ends before it starts, or cuts a character in two.           *)
LineRangePanics(index, row, t) ==
    \/ row > Len(index.starts)
    \/ LineRange(index, row, t)[1] > LineRange(index, row, t)[2]

ToOffsetPanics(p, t, index, encoding) ==
    \/ LineRangePanics(index, p.line, t)
    \/ /\ encoding = "UTF32" \/ (encoding = "UTF16" /\ ~index.ascii)
       /\ \E i \in {1, 2} : ~IsBoundary(t, LineRange(index, p.line, t)[i])

(* One end of to_text_range; the column is clamped to the offset, not the  *)
(* length, of the end of the line.                                         *)
ToOffset(p, t, index, encoding) ==
    LET r == LineRange(index, p.line, t)
    IN  IF encoding = "UTF32" THEN IndexOffset(index, p.line, p.character, t)
        ELSE LET column == IF encoding = "UTF8" \/ index.ascii
                           THEN p.character
                           ELSE Utf8ColumnOffset(p.character, Slice(t, r[1], r[2]))
             IN  r[1] + Smaller(column, r[2])

OffsetToPosition(o, t, index, encoding) ==
    LET row == RowOf(index, o)
        start == LineStart(index, row, t)
        upToOffset == Slice(t, start, o)
    IN  IF encoding = "UTF32"
        THEN [line |-> SourceLocation(index, o, t).row, character |-> SourceLocation(index, o, t).column]
        ELSE [line |-> row,
              character |-> IF encoding = "UTF8" \/ index.ascii
                            THEN o - start
                            ELSE Size(LenUtf16, upToOffset, Len(upToOffset))]
=============================================================================
