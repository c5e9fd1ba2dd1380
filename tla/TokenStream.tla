----------------------------- MODULE TokenStream -----------------------------
(***************************************************************************)
(* The token stream as the parser uses it: crates/python_parser/src/       *)
(* token.rs and what token_source.rs and lexer.rs promise the parser.      *)
(* Module TokenSource checks that promise character by character; here a   *)
(* source text is a sequence of items, one per token that is written down, *)
(* and the tokens that are not (Indent, Dedent, the kind of a newline, the *)
(* end of the file) are computed on demand.                                *)
(*                                                                         *)
(* An item is a token kind, or one of                                      *)
(*   Other Wild         a name that differs from the item Name, and `_`    *)
(*   Bytes BadString    a bytes literal, and a string that does not decode *)
(*   IpyMagic IpyHelp   escape commands, `%x` and `?x`                     *)
(*   nl0 nl1 nl2        a newline and the indentation of the next line     *)
(*   Unknown            a character that starts no token                   *)
(* Item number n covers the range n-1..n of the source.                    *)
(***************************************************************************)
EXTENDS Naturals, Sequences

Column == [nl0 |-> 0, nl1 |-> 1, nl2 |-> 2]
NewlineItems == DOMAIN Column

KindOf(item) ==
    CASE item \in {"Other", "Wild"} -> "Name"
      [] item \in {"Bytes", "BadString"} -> "String"
      [] item \in {"IpyMagic", "IpyHelp"} -> "IpyEscapeCommand"
      [] OTHER -> item

(* What distinguishes two names; `_` is the wildcard of patterns. *)
NameOf(item) == IF item = "Wild" THEN "_" ELSE item

OpeningKinds == {"Lpar", "Lsqb", "Lbrace"}
ClosingKinds == {"Rpar", "Rsqb", "Rbrace"}

SoftKeywords == {"Case", "Match", "Type"}
Keywords ==
    {"And", "As", "Assert", "Async", "Await", "Break", "Class", "Continue", "Def", "Del", "Elif",
     "Else", "Except", "False", "Finally", "For", "From", "Global", "If", "Import", "In", "Is",
     "Lambda", "None", "Nonlocal", "Not", "Or", "Pass", "Raise", "Return", "True", "Try", "While",
     "With", "Yield"} \cup SoftKeywords
Singletons == {"False", "True", "None"}
NameOrSoftKeyword == {"Name"} \cup SoftKeywords
NameOrKeyword == {"Name"} \cup Keywords

UnaryArithmetic == {"Plus", "Minus"}
UnaryOperators == UnaryArithmetic \cup {"Tilde", "Not"}
BoolOperators == {"And", "Or"}
BinaryOperators ==
    {"Plus", "Minus", "Star", "At", "DoubleStar", "Slash", "DoubleSlash", "Percent", "Amper", "Vbar",
     "CircumFlex", "LeftShift", "RightShift"}
AugmentedAssign ==
    {"PlusEqual", "MinusEqual", "StarEqual", "AtEqual", "DoubleStarEqual", "SlashEqual",
     "DoubleSlashEqual", "PercentEqual", "AmperEqual", "VbarEqual", "CircumflexEqual",
     "LeftShiftEqual", "RightShiftEqual"}
-----------------------------------------------------------------------------
(***************************************************************************)
(* The state of the stream:                                                *)
(*   at        items consumed                                              *)
(*   kind, start, end    the current token                                 *)
(*   run       where the trivia before the current token start             *)
(*   nesting   open brackets                                               *)
(*   levels    the indentation stack                                       *)
(*   fresh     a logical line starts and its indentation is to be handled  *)
(*   errors    where lexical errors were reported                          *)
(***************************************************************************)
BeforeFirst ==
    [at |-> 0, kind |-> "EndOfFile", start |-> 0, end |-> 0, run |-> 0, nesting |-> 0,
     levels |-> <<>>, fresh |-> TRUE, errors |-> <<>>]

SaturatingPred(n) == IF n = 0 THEN 0 ELSE n - 1

Level(levels) == IF levels = <<>> THEN 0 ELSE levels[Len(levels)]
Outer(levels) == SubSeq(levels, 1, Len(levels) - 1)

(* A token of no width, and one that is an item. *)
Virtual(t, k) == [t EXCEPT !.kind = k, !.start = t.at, !.end = t.at]
Real(t, k) == [t EXCEPT !.kind = k, !.start = t.at, !.end = t.at + 1, !.at = t.at + 1]

Bad(t) == [Virtual(t, "Unknown") EXCEPT !.errors = Append(@, t.at)]

(* Lexer::consume_end *)
LexEnd(t) ==
    CASE t.nesting > 0 -> [Bad(t) EXCEPT !.nesting = 0]
      [] t.nesting = 0 /\ ~t.fresh -> [Virtual(t, "Newline") EXCEPT !.fresh = TRUE]
      [] t.nesting = 0 /\ t.fresh /\ t.levels # <<>> -> [Virtual(t, "Dedent") EXCEPT !.levels = Outer(@)]
      [] OTHER -> Virtual(t, "EndOfFile")

(* Lexer::handle_indentation, and the dedents that stay pending after it. *)
LexIndentation(t, column) ==
    IF Level(t.levels) < column
    THEN [Virtual(t, "Indent") EXCEPT !.levels = Append(@, column), !.fresh = FALSE]
    ELSE LET outer == Outer(t.levels)
         IN  [(IF Level(outer) < column THEN Bad(t) ELSE Virtual(t, "Dedent"))
                  EXCEPT !.levels = outer, !.fresh = Level(outer) > column]

LexItem(t, k) ==
    [Real(t, k) EXCEPT
        !.fresh = FALSE,
        !.errors = IF k = "Unknown" THEN Append(@, t.at) ELSE @,
        !.nesting = CASE k \in OpeningKinds -> t.nesting + 1
                      [] k \in ClosingKinds -> SaturatingPred(t.nesting)
                      [] OTHER -> t.nesting]

(* Lexer::next_token *)
LexToken(items, t) ==
    IF t.at = Len(items) THEN LexEnd(t)
    ELSE LET item == items[t.at + 1]
             column == IF t.at = 0 THEN 0 ELSE Column[items[t.at]]
         IN  CASE item \in NewlineItems ->
                    IF t.nesting = 0 /\ ~t.fresh
                    THEN [Real(t, "Newline") EXCEPT !.fresh = TRUE]
                    ELSE Real(t, "NonLogicalNewline")
               [] item \notin NewlineItems /\ t.fresh /\ column # Level(t.levels) ->
                    LexIndentation(t, column)
               [] OTHER -> LexItem(t, KindOf(item))

(* The first item at or after `n` that is not a newline. *)
AfterNewlines(items, n) ==
    CHOOSE m \in n..Len(items) :
        /\ \A i \in n + 1..m : items[i] \in NewlineItems
        /\ m < Len(items) => items[m + 1] \notin NewlineItems

(* TokenSource::do_bump: the next token that is not trivia.  Newlines are  *)
(* trivia inside brackets and before the first token of a line.  A newline *)
(* that a re-lexing made the current token is trivia once it is bumped.    *)
NextToken(items, t) ==
    LET from == IF t.kind = "NonLogicalNewline" THEN t.run ELSE t.at
        past == IF t.nesting > 0 \/ t.fresh THEN AfterNewlines(items, t.at) ELSE t.at
    IN  [LexToken(items, [t EXCEPT !.at = past]) EXCEPT !.run = from]

FirstToken(items) == NextToken(items, BeforeFirst)

(* TokenSource::peek and peek2; the lexer is put back afterwards. *)
PeekKind(items, t) == NextToken(items, t).kind
Peek2Kind(items, t) == NextToken(items, NextToken(items, t)).kind

(* TokenSource::re_lex_logical_token and Lexer::re_lex_logical_token: one  *)
(* bracket is given up; if there are newlines between it and the current   *)
(* token the lexer goes back to the first of them, and into the brackets   *)
(* again if the current token closes one.                                  *)
ReLexToken(items, t) ==
    IF t.nesting = 0 THEN t
    ELSE IF t.run = t.start THEN [t EXCEPT !.nesting = @ - 1]
    ELSE LET back == [t EXCEPT !.at = t.run, !.fresh = FALSE,
                               !.nesting = IF t.kind \in ClosingKinds THEN @ ELSE @ - 1]
             u == LexToken(items, back)
         IN  [u EXCEPT !.run = u.start]
=============================================================================
