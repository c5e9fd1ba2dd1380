-------------------------------- MODULE Lexer --------------------------------
(***************************************************************************)
(* The lexer of crates/python_parser/src/lexer.rs as a state machine: one  *)
(* step per iteration of its scanning loops, so that a token takes several *)
(* steps between pc = "next" (the call of `next_token`) and pc = "return". *)
(*                                                                         *)
(* The source is a sequence of character classes.  The classes keep apart  *)
(* what the lexer's control flow keeps apart:                              *)
(*   sp tab ff nl cr bs hash  white space, newlines, backslash, `#`        *)
(*   lpar rpar lbrace rbrace  brackets (lpar and rpar also stand for []),  *)
(*   colon eq quote           `:`, `=`, the quote character                *)
(*   f N                      the letters of f"..." and \N{...}            *)
(*   word                     any other token of one character, as `~`     *)
(*   esc                      `%`, an escape command in IPython mode       *)
(*   bad ubad nul             unrecognised ASCII and non-ASCII, and NUL    *)
(* Token values and the wording of errors are left out.                    *)
(***************************************************************************)
EXTENDS Indentation, Integers

CONSTANTS
    Sources,    \* the source texts, sequences of character classes
    Ipython,    \* Mode::Ipython rather than Mode::Module
    NoPending   \* pending_indentation: None

Chars == {"sp", "tab", "ff", "nl", "cr", "bs", "hash", "lpar", "rpar", "lbrace", "rbrace",
          "colon", "eq", "quote", "f", "N", "word", "esc", "bad", "ubad", "nul"}

Kinds == {"Indent", "Dedent", "Newline", "NonLogicalNewline", "Comment", "Unknown",
          "EndOfFile", "Lpar", "Rpar", "Lbrace", "Rbrace", "Colon", "ColonEqual", "Equal",
          "EqEqual", "Name", "Word", "String", "FStringStart", "FStringMiddle", "FStringEnd",
          "IpyEscapeCommand"}

ErrorTypes == {"Eof", "LineContinuation", "Indentation", "Unrecognized", "String",
               "UnclosedString", "SingleRbrace", "Unterminated"}

ASSUME SourcesAssumption == Sources \subseteq Seq(Chars)
ASSUME PendingAssumption == NoPending \notin IndentationLevel
ASSUME ModeAssumption == Ipython \in BOOLEAN

VARIABLES
    src,            \* the source code
    cursor,         \* number of characters consumed
    start,          \* where the token being lexed starts
    kind,           \* current_kind
    range,          \* current_range, the pair <<start, end>>
    flags,          \* whether current_flags say "triple-quoted f-string"
    state,          \* State
    nesting,        \* number of unclosed brackets
    indentations,   \* the indentation stack
    pending,        \* pending_indentation
    fstrings,       \* the stack of f-string contexts
    errors,         \* lexical errors, in the order they were found
    pc,             \* where in `next_token` the lexer is
    indentation,    \* eat_indentation: the level measured so far
    triple,         \* lex_string: the literal is triple-quoted
    named           \* lex_fstring_middle_or_end: in_named_unicode

(* What LexerCheckpoint saves, apart from the length of `errors`. *)
checkpointVars == <<cursor, kind, range, flags, state, nesting, indentations, pending, fstrings>>
localVars == <<start, indentation, triple, named>>
lexerVars == <<src, checkpointVars, errors, pc, localVars>>

Pcs == {"idle", "next", "indent", "space", "char", "string", "fstring", "escape", "return"}

States == {"AfterNewline", "NonEmptyLogicalLine", "AfterEqual", "Other"}

ErrorRecord == [error : ErrorTypes, start : Nat]

FStringContext == [nesting : Nat, depth : Nat, triple : BOOLEAN]

Offsets == 0..Len(src)

LexerTypeOK ==
    /\ src \in Seq(Chars)
    /\ cursor \in Offsets
    /\ start \in Offsets
    /\ kind \in Kinds
    /\ range \in Offsets \X Offsets
    /\ flags \in BOOLEAN
    /\ state \in States
    /\ nesting \in Nat
    /\ indentations \in Seq(IndentationLevel)
    /\ pending \in IndentationLevel \cup {NoPending}
    /\ fstrings \in Seq(FStringContext)
    /\ errors \in Seq(ErrorRecord)
    /\ pc \in Pcs
    /\ indentation \in IndentationLevel
    /\ triple \in BOOLEAN
    /\ named \in BOOLEAN

(* Lexer::new; TokenSource::from_source then asks for the first token. *)
LexerInit ==
    /\ src \in Sources
    /\ cursor = 0
    /\ start = 0
    /\ kind = "EndOfFile"
    /\ range = <<0, 0>>
    /\ flags = FALSE
    /\ state = "AfterNewline"
    /\ nesting = 0
    /\ indentations = <<>>
    /\ pending = NoPending
    /\ fstrings = <<>>
    /\ errors = <<>>
    /\ pc = "next"
    /\ indentation = Root
    /\ triple = FALSE
    /\ named = FALSE
-----------------------------------------------------------------------------
(* The cursor. *)

IsEof == cursor = Len(src)

(* Cursor::first, second, ...: NUL past the end of the source. *)
Char(n) == IF cursor + n <= Len(src) THEN src[cursor + n] ELSE "nul"
First == Char(1)

(* The offset after eating `c` at offset `o` if it is there. *)
Eat(o, c) == IF o < Len(src) /\ src[o + 1] = c THEN o + 1 ELSE o

(* `e` is the end of the longest run of characters of `S` at the cursor. *)
RunEnd(S, e) ==
    /\ \A i \in cursor + 1..e : src[i] \in S
    /\ e < Len(src) => src[e + 1] \notin S

SaturatingDec(n) == IF n = 0 THEN 0 ELSE n - 1

IsNewLogicalLine == state \in {"AfterNewline", "NonEmptyLogicalLine"}

(* A token of kind `k` ends at offset `e`. *)
Token(k, e) ==
    /\ kind' = k
    /\ range' = <<start, e>>
    /\ cursor' = e
    /\ pc' = "return"
    /\ UNCHANGED errors

(* push_error: an Unknown token with the range of the error. *)
PushError(error, from, e) ==
    /\ kind' = "Unknown"
    /\ range' = <<from, e>>
    /\ errors' = Append(errors, [error |-> error, start |-> from])
    /\ pc' = "return"

(* One more turn of the loop the lexer is in. *)
Advance(e) ==
    /\ cursor' = e
    /\ UNCHANGED <<kind, range, errors, pc>>
-----------------------------------------------------------------------------
(* f-string contexts, lexer/fstring.rs *)

Context == fstrings[Len(fstrings)]

PopFString == SubSeq(fstrings, 1, Len(fstrings) - 1)

OpenParentheses(c) == IF nesting > c.nesting THEN nesting - c.nesting ELSE 0

InExpression(c) == OpenParentheses(c) > c.depth

InFormatSpec(c) == c.depth > 0 /\ ~InExpression(c)

(* try_start_format_spec succeeds at the level of the replacement field. *)
StartsFormatSpec(c) == OpenParentheses(c) - c.depth = 1

SetDepth(d) == fstrings' = [fstrings EXCEPT ![Len(fstrings)].depth = d]

TryEndFormatSpec ==
    IF fstrings # <<>> /\ InFormatSpec(Context)
    THEN SetDepth(Context.depth - 1)
    ELSE UNCHANGED fstrings
-----------------------------------------------------------------------------
(* lex_token *)

(* Where lexing continues when no f-string text and no dedent is due. *)
AfterLayout == IF state = "AfterNewline" THEN "indent" ELSE "space"

EnterLayout ==
    /\ pc' = AfterLayout
    /\ indentation' = Root

AtFStringEnd == IF Context.triple
                THEN Char(1) = "quote" /\ Char(2) = "quote" /\ Char(3) = "quote"
                ELSE First = "quote"

(* The current f-string is not in a replacement field: its end, or the     *)
(* scan for its next piece of text.                                        *)
NextFStringToken ==
    /\ pc = "next"
    /\ fstrings # <<>>
    /\ ~InExpression(Context)
    /\ start' = cursor
    /\ IF AtFStringEnd
       THEN /\ kind' = "FStringEnd"
            /\ cursor' = cursor + IF Context.triple THEN 3 ELSE 1
            /\ range' = <<cursor, cursor'>>
            /\ flags' = Context.triple
            /\ fstrings' = PopFString
            /\ pc' = "return"
            /\ UNCHANGED named
       ELSE /\ flags' = FALSE
            /\ named' = FALSE
            /\ pc' = "fstring"
            /\ UNCHANGED <<kind, cursor, range, fstrings>>
    /\ UNCHANGED <<src, state, nesting, indentations, pending, errors, indentation, triple>>

(* A pending indentation: one dedent at a time until the top of the stack  *)
(* is no longer greater.                                                   *)
NextDedent ==
    /\ pc = "next"
    /\ fstrings = <<>>
    /\ pending # NoPending
    /\ start' = cursor
    /\ flags' = FALSE
    /\ CASE TryCompare(CurrentLevel(indentations), pending) = "Greater" ->
              /\ indentations' = Popped(indentations)
              /\ IF DedentOne(indentations, pending) = "Dedent"
                 THEN kind' = "Dedent" /\ range' = <<cursor, cursor>> /\ pc' = "return" /\ UNCHANGED errors
                 ELSE PushError("Indentation", cursor, cursor)
              /\ UNCHANGED <<pending, indentation>>
         [] TryCompare(CurrentLevel(indentations), pending) = "Err" ->
              /\ pending' = NoPending
              /\ PushError("Indentation", cursor, cursor)
              /\ UNCHANGED <<indentations, indentation>>
         [] OTHER ->
              /\ pending' = NoPending
              /\ EnterLayout
              /\ UNCHANGED <<kind, range, errors, indentations>>
    /\ UNCHANGED <<src, cursor, state, nesting, fstrings, triple, named>>

(* Neither: the white space before the token. *)
NextPlain ==
    /\ pc = "next"
    /\ IF fstrings = <<>> THEN pending = NoPending ELSE InExpression(Context)
    /\ start' = cursor
    /\ flags' = FALSE
    /\ EnterLayout
    /\ UNCHANGED <<src, cursor, kind, range, state, nesting, indentations, pending, fstrings,
                   errors, triple, named>>

(* A backslash in white space: the escaped newline is white space, at the  *)
(* end of the source and before anything else it is an error.              *)
Continuation ==
    CASE Char(2) = "cr" -> Advance(Eat(cursor + 2, "nl"))
      [] cursor + 1 = Len(src) -> PushError("Eof", start, cursor + 1) /\ cursor' = cursor + 1
      [] Char(2) = "nl" -> Advance(cursor + 2)
      [] OTHER -> PushError("LineContinuation", cursor, cursor + 1) /\ cursor' = cursor + 1

(* One turn of eat_indentation. *)
EatIndentation ==
    /\ pc = "indent"
    /\ \/ /\ First \in {"sp", "tab", "ff"}
          /\ indentation' = CASE First = "sp" -> AddSpace(indentation)
                              [] First = "tab" -> AddTab(indentation)
                              [] First = "ff" -> Root
          /\ Advance(cursor + 1)
       \/ /\ First = "bs"
          /\ Continuation
          /\ indentation' = Root
    /\ UNCHANGED <<src, start, flags, state, nesting, indentations, pending, fstrings, triple, named>>

(* eat_indentation stops before an empty line, a comment or the end of the *)
(* file: such lines have no indentation.                                   *)
SkipEmptyLine ==
    /\ pc = "indent"
    /\ First \in {"nl", "cr", "hash", "nul"}
    /\ start' = cursor
    /\ pc' = "char"
    /\ UNCHANGED <<src, checkpointVars, errors, indentation, triple, named>>

(* handle_indentation at the first character of a logical line. *)
HandleIndentation ==
    /\ pc = "indent"
    /\ First \notin {"sp", "tab", "ff", "bs", "nl", "cr", "hash", "nul"}
    /\ state' = "NonEmptyLogicalLine"
    /\ CASE TryCompare(CurrentLevel(indentations), indentation) = "Greater" ->
              /\ pending' = indentation
              /\ indentations' = Popped(indentations)
              /\ IF DedentOne(indentations, indentation) = "Dedent"
                 THEN kind' = "Dedent" /\ range' = <<cursor, cursor>> /\ start' = cursor
                      /\ pc' = "return" /\ UNCHANGED errors
                 ELSE PushError("Indentation", start, cursor) /\ UNCHANGED start
         [] TryCompare(CurrentLevel(indentations), indentation) = "Equal" ->
              /\ start' = cursor
              /\ pc' = "char"
              /\ UNCHANGED <<kind, range, errors, indentations, pending>>
         [] TryCompare(CurrentLevel(indentations), indentation) = "Less" ->
              /\ indentations' = Append(indentations, indentation)
              /\ kind' = "Indent" /\ range' = <<start, cursor>> /\ pc' = "return"
              /\ UNCHANGED <<errors, start, pending>>
         [] OTHER ->
              /\ PushError("Indentation", start, cursor)
              /\ UNCHANGED <<start, indentations, pending>>
    /\ UNCHANGED <<src, cursor, flags, nesting, fstrings, indentation, triple, named>>

(* One turn of skip_whitespace. *)
SkipWhitespace ==
    /\ pc = "space"
    /\ CASE First \in {"sp", "tab", "ff"} -> Advance(cursor + 1) /\ UNCHANGED start
         [] First = "bs" -> Continuation /\ UNCHANGED start
         [] OTHER -> start' = cursor /\ pc' = "char" /\ UNCHANGED <<cursor, kind, range, errors>>
    /\ UNCHANGED <<src, flags, state, nesting, indentations, pending, fstrings,
                   indentation, triple, named>>
-----------------------------------------------------------------------------
(* The character that starts a token: `lex_token` after the white space,   *)
(* with start = cursor, and consume_ascii_character.                       *)

LexName ==
    /\ pc = "char"
    /\ First \in {"f", "N"}
    /\ ~(First = "f" /\ Char(2) = "quote")
    /\ \E e \in cursor..Len(src) : RunEnd({"f", "N"}, e) /\ Token("Name", e)
    /\ state' = "Other"
    /\ UNCHANGED <<src, flags, nesting, indentations, pending, fstrings, localVars>>

(* lex_fstring_start: remember the nesting the f-string starts at. *)
LexFStringStart ==
    /\ pc = "char"
    /\ First = "f" /\ Char(2) = "quote"
    /\ LET isTriple == Char(3) = "quote" /\ Char(4) = "quote"
       IN  /\ Token("FStringStart", cursor + IF isTriple THEN 4 ELSE 2)
           /\ flags' = isTriple
           /\ fstrings' = Append(fstrings, [nesting |-> nesting, depth |-> 0, triple |-> isTriple])
    /\ state' = "Other"
    /\ UNCHANGED <<src, nesting, indentations, pending, localVars>>

LexWord ==
    /\ pc = "char"
    /\ First = "word"
    /\ Token("Word", cursor + 1)
    /\ state' = "Other"
    /\ UNCHANGED <<src, flags, nesting, indentations, pending, fstrings, localVars>>

LexComment ==
    /\ pc = "char"
    /\ First = "hash"
    /\ \E e \in cursor..Len(src) : RunEnd(Chars \ {"nl", "cr"}, e) /\ Token("Comment", e)
    /\ UNCHANGED <<src, flags, state, nesting, indentations, pending, fstrings, localVars>>

LexEqual ==
    /\ pc = "char"
    /\ First = "eq"
    /\ IF Char(2) = "eq"
       THEN Token("EqEqual", cursor + 2) /\ state' = "Other"
       ELSE Token("Equal", cursor + 1) /\ state' = "AfterEqual"
    /\ UNCHANGED <<src, flags, nesting, indentations, pending, fstrings, localVars>>

(* `%` starts an escape command after `=` outside brackets and at the      *)
(* start of a logical line, where it may be doubled; otherwise it is the   *)
(* operator `%` or `%=`.                                                   *)
LexEscapeCharacter ==
    /\ pc = "char"
    /\ First = "esc"
    /\ CASE Ipython /\ state = "AfterEqual" /\ nesting = 0 ->
              pc' = "escape" /\ cursor' = cursor + 1 /\ UNCHANGED <<kind, range, errors, state>>
         [] Ipython /\ IsNewLogicalLine ->
              pc' = "escape" /\ cursor' = Eat(cursor + 1, "esc") /\ UNCHANGED <<kind, range, errors, state>>
         [] OTHER -> Token("Word", Eat(cursor + 1, "eq")) /\ state' = "Other"
    /\ UNCHANGED <<src, flags, nesting, indentations, pending, fstrings, localVars>>

LexOpening ==
    /\ pc = "char"
    /\ First \in {"lpar", "lbrace"}
    /\ Token(IF First = "lpar" THEN "Lpar" ELSE "Lbrace", cursor + 1)
    /\ nesting' = nesting + 1
    /\ state' = "Other"
    /\ UNCHANGED <<src, flags, indentations, pending, fstrings, localVars>>

LexRpar ==
    /\ pc = "char"
    /\ First = "rpar"
    /\ Token("Rpar", cursor + 1)
    /\ nesting' = SaturatingDec(nesting)
    /\ state' = "Other"
    /\ UNCHANGED <<src, flags, indentations, pending, fstrings, localVars>>

(* Mutant: a `}` in the text of an f-string closes a bracket outside it. *)
LexRbraceUnchecked ==
    /\ pc = "char"
    /\ First = "rbrace"
    /\ Token("Rbrace", cursor + 1)
    /\ TryEndFormatSpec
    /\ nesting' = SaturatingDec(nesting)
    /\ state' = "Other"
    /\ UNCHANGED <<src, flags, indentations, pending, localVars>>

(* A `}` at the nesting level of the f-string itself is an error; another  *)
(* one may end a format spec.                                              *)
LexRbrace ==
    /\ pc = "char"
    /\ First = "rbrace"
    /\ IF fstrings # <<>> /\ Context.nesting = nesting
       THEN /\ PushError("SingleRbrace", cursor, cursor + 1)
            /\ cursor' = cursor + 1
            /\ UNCHANGED <<state, nesting, fstrings>>
       ELSE /\ Token("Rbrace", cursor + 1)
            /\ TryEndFormatSpec
            /\ nesting' = SaturatingDec(nesting)
            /\ state' = "Other"
    /\ UNCHANGED <<src, flags, indentations, pending, localVars>>

LexColon ==
    /\ pc = "char"
    /\ First = "colon"
    /\ IF fstrings # <<>> /\ StartsFormatSpec(Context)
       THEN Token("Colon", cursor + 1) /\ SetDepth(Context.depth + 1)
       ELSE /\ IF Char(2) = "eq" THEN Token("ColonEqual", cursor + 2) ELSE Token("Colon", cursor + 1)
            /\ UNCHANGED fstrings
    /\ state' = "Other"
    /\ UNCHANGED <<src, flags, nesting, indentations, pending, localVars>>

(* A newline ends a logical line only outside brackets, and only a line    *)
(* that is not empty.                                                      *)
LexNewline ==
    /\ pc = "char"
    /\ First \in {"nl", "cr"}
    /\ LET e == IF First = "cr" THEN Eat(cursor + 1, "nl") ELSE cursor + 1
       IN  IF nesting = 0 /\ ~IsNewLogicalLine
           THEN Token("Newline", e) /\ state' = "AfterNewline" /\ UNCHANGED fstrings
           ELSE Token("NonLogicalNewline", e) /\ TryEndFormatSpec /\ UNCHANGED state
    /\ UNCHANGED <<src, flags, nesting, indentations, pending, localVars>>

(* An unrecognised character; only an ASCII one changes the state. *)
LexUnrecognized ==
    /\ pc = "char"
    /\ First \in {"bad", "ubad", "nul"} /\ ~IsEof
    /\ PushError("Unrecognized", cursor, cursor + 1)
    /\ cursor' = cursor + 1
    /\ state' = IF First = "ubad" THEN state ELSE "Other"
    /\ UNCHANGED <<src, flags, nesting, indentations, pending, fstrings, localVars>>

(* Mutant: brackets still open at the end of the file are not noticed. *)
ConsumeEndIgnoresNesting ==
    /\ pc = "char"
    /\ IsEof
    /\ Token(IF ~IsNewLogicalLine THEN "Newline"
             ELSE IF indentations # <<>> THEN "Dedent" ELSE "EndOfFile", cursor)
    /\ state' = "AfterNewline"
    /\ indentations' = IF IsNewLogicalLine THEN Popped(indentations) ELSE indentations
    /\ UNCHANGED <<src, flags, nesting, pending, fstrings, localVars>>

(* consume_end: unclosed brackets are reported and reset, then the last    *)
(* line is ended, then the indentation stack is flushed.                   *)
ConsumeEnd ==
    /\ pc = "char"
    /\ IsEof
    /\ CASE nesting > 0 ->
              /\ PushError("Eof", cursor, cursor)
              /\ nesting' = 0
              /\ UNCHANGED <<cursor, state, indentations>>
         [] nesting = 0 /\ ~IsNewLogicalLine ->
              /\ Token("Newline", cursor)
              /\ state' = "AfterNewline"
              /\ UNCHANGED <<nesting, indentations>>
         [] nesting = 0 /\ IsNewLogicalLine /\ indentations # <<>> ->
              /\ Token("Dedent", cursor)
              /\ indentations' = Popped(indentations)
              /\ UNCHANGED <<nesting, state>>
         [] OTHER ->
              /\ Token("EndOfFile", cursor)
              /\ UNCHANGED <<nesting, state, indentations>>
    /\ UNCHANGED <<src, flags, pending, fstrings, localVars>>
-----------------------------------------------------------------------------
(* String literals, f-string text and escape commands. *)

(* The offset after a backslash and the character it escapes. *)
AfterEscaped ==
    IF Char(2) = "cr" THEN Eat(cursor + 2, "nl")
    ELSE IF cursor + 2 <= Len(src) THEN cursor + 2 ELSE Len(src)

LexStringStart ==
    /\ pc = "char"
    /\ First = "quote"
    /\ triple' = (Char(2) = "quote" /\ Char(3) = "quote")
    /\ cursor' = cursor + IF triple' THEN 3 ELSE 1
    /\ pc' = "string"
    /\ UNCHANGED <<src, start, kind, range, flags, state, nesting, indentations, pending,
                   fstrings, errors, indentation, named>>

(* One turn of lex_string. *)
LexString ==
    /\ pc = "string"
    /\ CASE IsEof ->
              /\ PushError(IF triple THEN "UnclosedString" ELSE "String", start, cursor)
              /\ state' = "Other"
              /\ UNCHANGED cursor
         [] First = "bs" -> Advance(AfterEscaped) /\ UNCHANGED state
         [] First = "quote" /\ ~triple -> Token("String", cursor + 1) /\ state' = "Other"
         [] First = "quote" /\ triple /\ Char(2) = "quote" /\ Char(3) = "quote" ->
              Token("String", cursor + 3) /\ state' = "Other"
         [] First \in {"nl", "cr"} /\ ~triple ->
              /\ PushError("UnclosedString", start, cursor)
              /\ state' = "Other"
              /\ UNCHANGED cursor
         [] OTHER -> Advance(cursor + 1) /\ UNCHANGED state
    /\ UNCHANGED <<src, flags, nesting, indentations, pending, fstrings, localVars>>

(* Characters that end a piece of f-string text, for another token to      *)
(* start there: the quote, a single brace, and in a format spec a newline. *)
FStringBreak ==
    \/ First = "quote" /\ AtFStringEnd
    \/ First = "lbrace" /\ (Char(2) # "lbrace" \/ InFormatSpec(Context))
    \/ First = "rbrace" /\ ~named /\ (Char(2) # "rbrace" \/ InFormatSpec(Context))
    \/ First \in {"nl", "cr"} /\ ~Context.triple /\ InFormatSpec(Context)

(* The text is over; an empty piece is not a token. *)
LexFStringMiddle ==
    /\ pc = "fstring"
    /\ ~IsEof /\ FStringBreak
    /\ IF cursor = start
       THEN EnterLayout /\ UNCHANGED <<kind, range, cursor, errors, flags>>
       ELSE Token("FStringMiddle", cursor) /\ flags' = Context.triple /\ UNCHANGED indentation
    /\ UNCHANGED <<src, start, state, nesting, indentations, pending, fstrings, triple, named>>

(* The end of the file, or of the line for a single-quoted f-string. *)
LexFStringUnterminated ==
    /\ pc = "fstring"
    /\ IsEof \/ (First \in {"nl", "cr"} /\ ~Context.triple /\ ~InFormatSpec(Context))
    /\ PushError("Unterminated", start, cursor)
    /\ fstrings' = PopFString
    /\ UNCHANGED <<src, cursor, flags, state, nesting, indentations, pending, localVars>>

(* One turn of the loop over the text of an f-string. *)
LexFStringText ==
    /\ pc = "fstring"
    /\ ~IsEof /\ ~FStringBreak
    /\ First \in {"nl", "cr"} => Context.triple
    /\ CASE First = "bs" /\ Char(2) \in {"lbrace", "rbrace"} ->
              Advance(cursor + 1) /\ UNCHANGED named
         [] First = "bs" /\ Char(2) = "N" /\ Char(3) = "lbrace" ->
              Advance(cursor + 3) /\ named' = TRUE
         [] First = "bs" /\ Char(2) \notin {"lbrace", "rbrace"} /\ ~(Char(2) = "N" /\ Char(3) = "lbrace") ->
              Advance(AfterEscaped) /\ UNCHANGED named
         [] First = "rbrace" /\ named -> Advance(cursor + 1) /\ named' = FALSE
         [] First = "lbrace" \/ (First = "rbrace" /\ ~named) -> Advance(cursor + 2) /\ UNCHANGED named
         [] OTHER -> Advance(cursor + 1) /\ UNCHANGED named
    /\ UNCHANGED <<src, start, flags, state, nesting, indentations, pending, fstrings,
                   indentation, triple>>

(* One turn of lex_ipython_escape_command; NUL ends a command as well. *)
LexEscapeCommand ==
    /\ pc = "escape"
    /\ IF First \in {"nl", "cr", "nul"}
       THEN Token("IpyEscapeCommand", cursor) /\ state' = "Other"
       ELSE /\ Advance(IF First = "bs" /\ Char(2) \in {"nl", "cr"} THEN AfterEscaped ELSE cursor + 1)
            /\ UNCHANGED state
    /\ UNCHANGED <<src, flags, nesting, indentations, pending, fstrings, localVars>>

LexChar ==
    \/ LexName \/ LexFStringStart \/ LexWord \/ LexComment \/ LexEqual \/ LexEscapeCharacter
    \/ LexOpening \/ LexRpar \/ LexRbrace \/ LexColon \/ LexNewline \/ LexUnrecognized
    \/ LexStringStart \/ ConsumeEnd

LexStep ==
    \/ NextFStringToken \/ NextDedent \/ NextPlain
    \/ EatIndentation \/ SkipEmptyLine \/ HandleIndentation \/ SkipWhitespace
    \/ LexChar
    \/ LexString
    \/ LexFStringMiddle \/ LexFStringUnterminated \/ LexFStringText
    \/ LexEscapeCommand
=============================================================================
