----------------------------- MODULE Indentation -----------------------------
(***************************************************************************)
(* Indentation levels, crates/python_parser/src/lexer/indentation.rs: a    *)
(* level is measured both in columns (a tab rounds up to the next multiple *)
(* of TAB_SIZE) and in characters, and two levels are only comparable when *)
(* the two measures agree.                                                 *)
(***************************************************************************)
EXTENDS Naturals, Sequences

TabSize == 2

IndentationLevel == [column : Nat, character : Nat]

Root == [column |-> 0, character |-> 0]

AddSpace(i) == [column |-> i.column + 1, character |-> i.character + 1]

AddTab(i) ==
    [column |-> (i.column \div TabSize + 1) * TabSize, character |-> i.character + 1]

Compare(m, n) == IF m < n THEN "Less" ELSE IF m = n THEN "Equal" ELSE "Greater"

(* Mutant: only the columns are compared, as if every tab were TAB_SIZE    *)
(* spaces.                                                                 *)
TryCompareColumns(i, j) == Compare(i.column, j.column)

(* Result<Ordering, UnexpectedIndentation>: "Err" when the measures differ. *)
TryCompare(i, j) ==
    IF Compare(i.column, j.column) = Compare(i.character, j.character)
    THEN Compare(i.column, j.column)
    ELSE "Err"

(* Indentations::current: the top of the stack, the root when it is empty. *)
CurrentLevel(stack) == IF stack = <<>> THEN Root ELSE stack[Len(stack)]

(* Indentations::dedent pops; popping the empty stack does nothing. *)
Popped(stack) == IF stack = <<>> THEN <<>> ELSE SubSeq(stack, 1, Len(stack) - 1)

(* Indentations::dedent_one: whether one level less suits the new line. *)
DedentOne(stack, level) ==
    IF TryCompare(level, CurrentLevel(Popped(stack))) \in {"Less", "Equal"} THEN "Dedent" ELSE "Err"
=============================================================================
