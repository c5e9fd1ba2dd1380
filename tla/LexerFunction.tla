---------------------------- MODULE LexerFunction ----------------------------
(***************************************************************************)
(* The lexer as a function: what a step of Lexer makes of the part of the  *)
(* state that later tokens depend on.  Each local variable counts only     *)
(* where it is in use, and the kind of the token only once it is returned. *)
(***************************************************************************)
EXTENDS Lexer

Local ==
    CASE pc = "indent" -> indentation
      [] pc = "string" -> triple
      [] pc = "fstring" -> <<start, named>>
      [] pc = "return" -> kind
      [] OTHER -> "unused"

LexerState == <<pc, cursor, state, nesting, indentations, pending, fstrings, Local>>

(* On to offset e, with `x` in use; a token of kind k up to e. *)
OnTo(p, e, x) == <<p, e, state, nesting, indentations, pending, fstrings, x>>
Gives(k, e, s) == <<"return", e, s, nesting, indentations, pending, fstrings, k>>
GivesNested(k, e, n, f) == <<"return", e, "Other", n, indentations, pending, f, k>>

OnToLayout(p) ==
    IF state = "AfterNewline"
    THEN <<"indent", cursor, state, nesting, indentations, p, fstrings, Root>>
    ELSE <<"space", cursor, state, nesting, indentations, p, fstrings, "unused">>

FromFString ==
    IF AtFStringEnd
    THEN <<"return", cursor + (IF Context.triple THEN 3 ELSE 1), state, nesting, indentations, pending,
           PopFString, "FStringEnd">>
    ELSE OnTo("fstring", cursor, <<cursor, FALSE>>)

FromPending ==
    CASE TryCompare(CurrentLevel(indentations), pending) = "Greater" ->
            <<"return", cursor, state, nesting, Popped(indentations), pending, fstrings,
              IF DedentOne(indentations, pending) = "Dedent" THEN "Dedent" ELSE "Unknown">>
      [] TryCompare(CurrentLevel(indentations), pending) = "Err" ->
            <<"return", cursor, state, nesting, indentations, NoPending, fstrings, "Unknown">>
      [] OTHER -> OnToLayout(NoPending)

FromNext ==
    IF fstrings # <<>>
    THEN IF InExpression(Context) THEN OnToLayout(pending) ELSE FromFString
    ELSE IF pending = NoPending THEN OnToLayout(pending) ELSE FromPending

OverContinuation(p, x) ==
    IF Char(2) = "cr" THEN OnTo(p, Eat(cursor + 2, "nl"), x)
    ELSE IF cursor + 1 = Len(src) THEN Gives("Unknown", cursor + 1, state)
    ELSE IF Char(2) = "nl" THEN OnTo(p, cursor + 2, x)
    ELSE Gives("Unknown", cursor + 1, state)

AtLevel(p, ind, pend, x) ==
    <<p, cursor, "NonEmptyLogicalLine", nesting, ind, pend, fstrings, x>>

FromIndentation ==
    CASE TryCompare(CurrentLevel(indentations), indentation) = "Greater" ->
            AtLevel("return", Popped(indentations), indentation,
                    IF DedentOne(indentations, indentation) = "Dedent" THEN "Dedent" ELSE "Unknown")
      [] TryCompare(CurrentLevel(indentations), indentation) = "Equal" ->
            AtLevel("char", indentations, pending, "unused")
      [] TryCompare(CurrentLevel(indentations), indentation) = "Less" ->
            AtLevel("return", Append(indentations, indentation), pending, "Indent")
      [] OTHER -> AtLevel("return", indentations, pending, "Unknown")

FromIndent ==
    CASE First = "sp" -> OnTo("indent", cursor + 1, AddSpace(indentation))
      [] First = "tab" -> OnTo("indent", cursor + 1, AddTab(indentation))
      [] First = "ff" -> OnTo("indent", cursor + 1, Root)
      [] First = "bs" -> OverContinuation("indent", Root)
      [] First \in {"nl", "cr", "hash", "nul"} -> OnTo("char", cursor, "unused")
      [] OTHER -> FromIndentation

FromSpace ==
    IF First \in {"sp", "tab", "ff"} THEN OnTo("space", cursor + 1, "unused")
    ELSE IF First = "bs" THEN OverContinuation("space", "unused")
    ELSE OnTo("char", cursor, "unused")

EndOfRun(S) == CHOOSE e \in cursor..Len(src) : RunEnd(S, e)

FromFOrN ==
    IF First = "f" /\ Char(2) = "quote"
    THEN LET isTriple == Char(3) = "quote" /\ Char(4) = "quote"
         IN  GivesNested("FStringStart", cursor + (IF isTriple THEN 4 ELSE 2), nesting,
                         Append(fstrings, [nesting |-> nesting, depth |-> 0, triple |-> isTriple]))
    ELSE Gives("Name", EndOfRun({"f", "N"}), "Other")

FromEscapeCharacter ==
    IF Ipython /\ state = "AfterEqual" /\ nesting = 0 THEN OnTo("escape", cursor + 1, "unused")
    ELSE IF Ipython /\ IsNewLogicalLine THEN OnTo("escape", Eat(cursor + 1, "esc"), "unused")
    ELSE Gives("Word", Eat(cursor + 1, "eq"), "Other")

(* The contexts after the end of a format spec, and at its start. *)
AfterSpec ==
    IF fstrings # <<>> /\ InFormatSpec(Context)
    THEN [fstrings EXCEPT ![Len(fstrings)].depth = Context.depth - 1] ELSE fstrings

InSpec == [fstrings EXCEPT ![Len(fstrings)].depth = Context.depth + 1]

FromRbrace ==
    IF fstrings # <<>> /\ Context.nesting = nesting THEN Gives("Unknown", cursor + 1, state)
    ELSE GivesNested("Rbrace", cursor + 1, SaturatingDec(nesting), AfterSpec)

FromColon ==
    IF fstrings # <<>> /\ StartsFormatSpec(Context)
    THEN GivesNested("Colon", cursor + 1, nesting, InSpec)
    ELSE IF Char(2) = "eq" THEN Gives("ColonEqual", cursor + 2, "Other")
    ELSE Gives("Colon", cursor + 1, "Other")

FromNewline ==
    LET e == IF First = "cr" THEN Eat(cursor + 1, "nl") ELSE cursor + 1
    IN  IF nesting = 0 /\ ~IsNewLogicalLine THEN Gives("Newline", e, "AfterNewline")
        ELSE <<"return", e, state, nesting, indentations, pending, AfterSpec, "NonLogicalNewline">>

FromEof ==
    IF nesting > 0 THEN <<"return", cursor, state, 0, indentations, pending, fstrings, "Unknown">>
    ELSE IF ~IsNewLogicalLine THEN Gives("Newline", cursor, "AfterNewline")
    ELSE IF indentations # <<>>
    THEN <<"return", cursor, state, nesting, Popped(indentations), pending, fstrings, "Dedent">>
    ELSE Gives("EndOfFile", cursor, state)

FromQuote ==
    LET isTriple == Char(2) = "quote" /\ Char(3) = "quote"
    IN  OnTo("string", cursor + (IF isTriple THEN 3 ELSE 1), isTriple)

FromChar ==
    CASE First \in {"f", "N"} -> FromFOrN
      [] First = "word" -> Gives("Word", cursor + 1, "Other")
      [] First = "hash" -> Gives("Comment", EndOfRun(Chars \ {"nl", "cr"}), state)
      [] First = "eq" -> IF Char(2) = "eq" THEN Gives("EqEqual", cursor + 2, "Other")
                         ELSE Gives("Equal", cursor + 1, "AfterEqual")
      [] First = "esc" -> FromEscapeCharacter
      [] First \in {"lpar", "lbrace"} ->
            GivesNested(IF First = "lpar" THEN "Lpar" ELSE "Lbrace", cursor + 1, nesting + 1, fstrings)
      [] First = "rpar" -> GivesNested("Rpar", cursor + 1, SaturatingDec(nesting), fstrings)
      [] First = "rbrace" -> FromRbrace
      [] First = "colon" -> FromColon
      [] First \in {"nl", "cr"} -> FromNewline
      [] First = "quote" -> FromQuote
      [] OTHER -> IF IsEof THEN FromEof
                  ELSE Gives("Unknown", cursor + 1, IF First = "ubad" THEN state ELSE "Other")

FromString ==
    IF IsEof THEN Gives("Unknown", cursor, "Other")
    ELSE IF First = "bs" THEN OnTo("string", AfterEscaped, triple)
    ELSE IF First = "quote" /\ ~triple THEN Gives("String", cursor + 1, "Other")
    ELSE IF First = "quote" /\ Char(2) = "quote" /\ Char(3) = "quote" THEN Gives("String", cursor + 3, "Other")
    ELSE IF First \in {"nl", "cr"} /\ ~triple THEN Gives("Unknown", cursor, "Other")
    ELSE OnTo("string", cursor + 1, triple)

Unterminated ==
    \/ IsEof
    \/ First \in {"nl", "cr"} /\ ~Context.triple /\ ~InFormatSpec(Context)

FromEscapeInText ==
    IF Char(2) \in {"lbrace", "rbrace"} THEN OnTo("fstring", cursor + 1, <<start, named>>)
    ELSE IF Char(2) = "N" /\ Char(3) = "lbrace" THEN OnTo("fstring", cursor + 3, <<start, TRUE>>)
    ELSE OnTo("fstring", AfterEscaped, <<start, named>>)

FromText ==
    IF Unterminated
    THEN <<"return", cursor, state, nesting, indentations, pending, PopFString, "Unknown">>
    ELSE IF FStringBreak
    THEN IF cursor = start THEN OnToLayout(pending) ELSE Gives("FStringMiddle", cursor, state)
    ELSE IF First = "bs" THEN FromEscapeInText
    ELSE IF First = "rbrace" /\ named THEN OnTo("fstring", cursor + 1, <<start, FALSE>>)
    ELSE IF First \in {"lbrace", "rbrace"} THEN OnTo("fstring", cursor + 2, <<start, named>>)
    ELSE OnTo("fstring", cursor + 1, <<start, named>>)

FromEscape ==
    IF First \in {"nl", "cr", "nul"} THEN Gives("IpyEscapeCommand", cursor, "Other")
    ELSE OnTo("escape", IF First = "bs" /\ Char(2) \in {"nl", "cr"} THEN AfterEscaped ELSE cursor + 1, "unused")

(* The state after one step; a token that was returned is followed by the  *)
(* next call.                                                              *)
Following ==
    CASE pc = "next" -> FromNext
      [] pc = "indent" -> FromIndent
      [] pc = "space" -> FromSpace
      [] pc = "char" -> FromChar
      [] pc = "string" -> FromString
      [] pc = "fstring" -> FromText
      [] pc = "escape" -> FromEscape
      [] OTHER -> OnTo("next", cursor, "unused")
=============================================================================
