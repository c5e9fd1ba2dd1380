---------------------------- MODULE RecoveryProofs ----------------------------
(***************************************************************************)
(* Proofs about what the token source hands out when the parser gives up   *)
(* lists, for every source text and every sequence of calls: first that    *)
(* the contexts of f-strings nest, then the order of tokens and errors,    *)
(* the blocks, and the line breaks.                                        *)
(***************************************************************************)
EXTENDS LexerProofs, FiniteSetTheorems

(* No bracket left open at the end of the file has been reported among the *)
(* first `n` errors.                                                       *)
NoEof(n) == \A i \in 1..n : errors[i].error # "Eof"

(* f-string contexts within each other and within `n` open brackets. *)
Nested(f, n) ==
    /\ \A i \in 1..Len(f) : f[i].nesting + f[i].depth <= n
    /\ \A i \in 1..Len(f) - 1 : f[i].nesting + f[i].depth < f[i + 1].nesting

(* In the text of an f-string, not in a replacement field. *)
InText(f, n) == f # <<>> /\ n <= f[Len(f)].nesting + f[Len(f)].depth

(* A new line starts outside of brackets and f-strings, and the dedents of *)
(* a line are all emitted before the first of its characters.              *)
Sane(f, n, s, p, c) ==
    /\ Nested(f, n)
    /\ s = "AfterNewline" => n = 0 /\ f = <<>>
    /\ p # NoPending => n = 0 /\ f = <<>> /\ ~NewlineAt(c)

(* Trivia are not found in the text of f-strings, nor blocks in brackets.  *)
SaneToken(k, f, n) ==
    /\ k \in Trivia => ~InText(f, n)
    /\ k \in {"Indent", "Dedent"} => n = 0

SaneCheckpoint(c) ==
    /\ Sane(c.fstrings, c.nesting, c.state, c.pending, c.cursor)
    /\ SaneToken(c.kind, c.fstrings, c.nesting)

(* The lexer while it works on a token: it leaves the text of an f-string  *)
(* for a line break only in a format spec.                                 *)
SaneLexer ==
    /\ Sane(fstrings, nesting, state, pending, cursor)
    /\ pc \in {"idle", "return"} => SaneToken(kind, fstrings, nesting)
    /\ pc = "indent" => state = "AfterNewline"
    /\ pc \notin {"idle", "next", "return"} => pending = NoPending
    /\ pc \in {"space", "char"} /\ InText(fstrings, nesting) /\ First \in {"nl", "cr"} => Context.depth > 0

SaneInv ==
    /\ OrderInv /\ CleanInv
    /\ relexed # "fstring" /\ NoEof(Len(errors)) => SaneLexer
    /\ saved # <<>> /\ relexed # "fstring" /\ NoEof(saved[1].errors) => SaneCheckpoint(saved[1])
    /\ Speculating /\ relexed # "fstring" /\ NoEof(mark[1].lexer.errors) => SaneCheckpoint(mark[1].lexer)
-----------------------------------------------------------------------------
(* An f-string ends: the others still nest. *)
LEMMA NestedPop ==
    ASSUME NEW f \in Seq(FStringContext), NEW n \in Nat, f # <<>>, Nested(f, n)
    PROVE  Nested(SubSeq(f, 1, Len(f) - 1), n)
<1>. DEFINE g == SubSeq(f, 1, Len(f) - 1)
<1>1. Len(f) \in Nat /\ Len(f) - 1 \in Nat /\ Len(f) - 1 <= Len(f)
  OBVIOUS
<1>2. Len(g) = Len(f) - 1 /\ \A i \in 1..Len(f) - 1 : g[i] = f[i]
  BY <1>1, InitialPart
<1>. HIDE DEF g
<1>3. Nested(g, n)
  BY <1>1, <1>2, SMTT(30) DEF Nested
<1>. QED  BY <1>3 DEF g

(* A replacement field is left, or a format spec of it with one bracket:   *)
(* the innermost depth becomes `d`.                                        *)
LEMMA NestedDepth ==
    ASSUME NEW f \in Seq(FStringContext), NEW n \in Nat, f # <<>>, Nested(f, n),
           NEW d \in Nat, NEW m \in Nat, n <= m + 1, f[Len(f)].nesting + d <= m
    PROVE  Nested([f EXCEPT ![Len(f)].depth = d], m)
<1>. DEFINE l == Len(f)
            g == [f EXCEPT ![l].depth = d]
<1>1. l \in Nat /\ l >= 1 /\ \A i \in 1..l : f[i] \in FStringContext
  OBVIOUS
<1>2. /\ \A i \in 1..l : f[i].nesting \in Nat /\ f[i].depth \in Nat
      /\ DOMAIN f = 1..l
  BY <1>1 DEF FStringContext
<1>3. /\ Len(g) = l /\ g[l].nesting = f[l].nesting /\ g[l].depth = d
      /\ \A i \in 1..l - 1 : g[i] = f[i]
  BY <1>1, <1>2 DEF FStringContext
<1>4. \A i \in 1..l : g[i].nesting = f[i].nesting
  BY <1>1, <1>3
<1>. HIDE DEF g, l
<1>5. \A i \in 1..l - 1 : i \in 1..l /\ i + 1 \in 1..l
  BY <1>1
<1>6. \A i \in 1..l - 1 : f[i].nesting + f[i].depth < f[i + 1].nesting /\ f[i + 1].nesting <= n
  <2>. TAKE i \in 1..l - 1
  <2>1. f[i + 1].nesting + f[i + 1].depth <= n /\ f[i].nesting + f[i].depth < f[i + 1].nesting
    BY <1>5 DEF Nested, l
  <2>2. f[i + 1].nesting \in Nat /\ f[i + 1].depth \in Nat
    BY <1>2, <1>5
  <2>3. \A a, b \in Nat : a + b <= n => a <= n
    OBVIOUS
  <2>4. f[i + 1].nesting <= n
    BY <2>1, <2>2, <2>3
  <2>. QED  BY <2>1, <2>4
<1>7. \A i \in 1..l : g[i].nesting + g[i].depth <= m
  <2>. TAKE i \in 1..l
  <2>1. CASE i = l
    BY <1>3, <2>1 DEF l
  <2>2. CASE i \in 1..l - 1
    <3>1. \A a, b, c \in Nat : a + b < c /\ c <= n => a + b <= m
      OBVIOUS
    <3>2. g[i] = f[i] /\ i \in 1..l /\ i + 1 \in 1..l
      BY <1>3, <1>5, <2>2
    <3>3. f[i].nesting \in Nat /\ f[i].depth \in Nat /\ f[i + 1].nesting \in Nat
      BY <1>2, <3>2
    <3>4. f[i].nesting + f[i].depth < f[i + 1].nesting /\ f[i + 1].nesting <= n
      BY <1>6, <2>2
    <3>. QED  BY <3>1, <3>2, <3>3, <3>4
  <2>. QED  BY <1>1, <2>1, <2>2
<1>8. \A i \in 1..l - 1 : g[i].nesting + g[i].depth < g[i + 1].nesting
  BY <1>3, <1>4, <1>5, <1>6
<1>9. Nested(g, m)
  BY <1>3, <1>7, <1>8 DEF Nested
<1>. QED  BY <1>9 DEF g, l

(* A bracket is closed in a replacement field. *)
LEMMA NestedClose ==
    ASSUME NEW f \in Seq(FStringContext), NEW n \in Nat, Nested(f, n), ~InText(f, n)
    PROVE  Nested(f, SaturatingDec(n))
<1>1. CASE f = <<>>
  BY <1>1 DEF Nested
<1>2. CASE f # <<>>
  <2>. DEFINE l == Len(f)
  <2>1. l \in Nat /\ l >= 1 /\ \A i \in 1..l : f[i] \in FStringContext
    BY <1>2
  <2>2. \A i \in 1..l : f[i].nesting \in Nat /\ f[i].depth \in Nat
    BY <2>1 DEF FStringContext
  <2>3. n > f[l].nesting + f[l].depth
    BY <1>2, <2>1, <2>2 DEF InText
  <2>4. SaturatingDec(n) = n - 1 /\ n - 1 \in Nat
    BY <2>1, <2>2, <2>3 DEF SaturatingDec
  <2>5. \A i \in 1..l - 1 : f[i].nesting + f[i].depth < f[i + 1].nesting /\ f[i + 1].nesting + f[i + 1].depth <= n
    BY <2>1 DEF Nested
  <2>6. \A i \in 1..l - 1 : i \in 1..l /\ i + 1 \in 1..l
    BY <2>1
  <2>. HIDE DEF l
  <2>7. \A i \in 1..l : f[i].nesting + f[i].depth <= n - 1
    <3>. TAKE i \in 1..l
    <3>1. CASE i = l
      BY <2>1, <2>2, <2>3, <3>1
    <3>2. CASE i \in 1..l - 1
      <4>1. i \in 1..l /\ i + 1 \in 1..l
        BY <2>6, <3>2
      <4>2. /\ f[i].nesting \in Nat /\ f[i].depth \in Nat
            /\ f[i + 1].nesting \in Nat /\ f[i + 1].depth \in Nat
        BY <2>2, <4>1
      <4>3. f[i].nesting + f[i].depth < f[i + 1].nesting /\ f[i + 1].nesting + f[i + 1].depth <= n
        BY <2>5, <3>2
      <4>. QED  BY <4>2, <4>3, SMTT(30)
    <3>. QED  BY <2>1, <3>1, <3>2
  <2>. QED  BY <2>4, <2>7 DEF Nested, l
<1>. QED  BY <1>1, <1>2

(* An f-string starts outside of the text of the one around it. *)
LEMMA NestedAppend ==
    ASSUME NEW f \in Seq(FStringContext), NEW n \in Nat, Nested(f, n), ~InText(f, n),
           NEW c \in FStringContext, c.nesting = n, c.depth = 0
    PROVE  Nested(Append(f, c), n)
<1>. DEFINE l == Len(f)
            g == Append(f, c)
<1>1. l \in Nat /\ (\A i \in 1..l : f[i] \in FStringContext) /\ (f # <<>> => l >= 1) /\ (f = <<>> => l = 0)
  OBVIOUS
<1>2. \A i \in 1..l : f[i].nesting \in Nat /\ f[i].depth \in Nat
  BY <1>1 DEF FStringContext
<1>3. Len(g) = l + 1 /\ g[l + 1] = c /\ \A i \in 1..l : g[i] = f[i]
  OBVIOUS
<1>. HIDE DEF g
<1>4. \A i \in 1..l + 1 : g[i].nesting + g[i].depth <= n
  <2>. TAKE i \in 1..l + 1
  <2>1. CASE i = l + 1
    BY <1>3, <2>1
  <2>2. CASE i \in 1..l
    BY <1>3, <2>2 DEF Nested
  <2>. QED  BY <1>1, <2>1, <2>2
<1>5. \A i \in 1..l : g[i].nesting + g[i].depth < g[i + 1].nesting
  <2>. TAKE i \in 1..l
  <2>1. CASE i = l
    <3>1. n > f[l].nesting + f[l].depth
      BY <1>1, <1>2, <2>1 DEF InText
    <3>. QED  BY <1>3, <2>1, <3>1
  <2>2. CASE i \in 1..l - 1
    <3>1. i + 1 \in 1..l
      BY <1>1, <2>2
    <3>. QED  BY <1>3, <2>2, <3>1 DEF Nested
  <2>. QED  BY <1>1, <2>1, <2>2
<1>6. Nested(g, n)
  BY <1>1, <1>3, <1>4, <1>5 DEF Nested
<1>. QED  BY <1>6 DEF g

(* The innermost f-string and the brackets. *)
LEMMA TextContext ==
    ASSUME LexerTypeOK, fstrings # <<>>
    PROVE  /\ Context = fstrings[Len(fstrings)]
           /\ Context.nesting \in Nat /\ Context.depth \in Nat /\ nesting \in Nat
           /\ InExpression(Context) <=> nesting > Context.nesting + Context.depth
           /\ InText(fstrings, nesting) <=> nesting <= Context.nesting + Context.depth
           /\ InFormatSpec(Context) <=> Context.depth > 0 /\ nesting <= Context.nesting + Context.depth
           /\ StartsFormatSpec(Context) <=> nesting = Context.nesting + Context.depth + 1
           /\ Nested(fstrings, nesting) => Context.nesting + Context.depth <= nesting
<1>1. Context \in FStringContext /\ nesting \in Nat /\ Len(fstrings) \in 1..Len(fstrings)
  BY ContextType DEF LexerTypeOK
<1>. DEFINE c == Context
<1>2. c.nesting \in Nat /\ c.depth \in Nat /\ c = fstrings[Len(fstrings)]
  BY <1>1 DEF FStringContext, Context
<1>3. Nested(fstrings, nesting) => c.nesting + c.depth <= nesting
  BY <1>1, <1>2 DEF Nested
<1>. HIDE DEF c
<1>4. OpenParentheses(c) = IF nesting > c.nesting THEN nesting - c.nesting ELSE 0
  BY DEF OpenParentheses
<1>5. InExpression(c) <=> nesting > c.nesting + c.depth
  BY <1>1, <1>2, <1>4 DEF InExpression
<1>6. StartsFormatSpec(c) <=> nesting = c.nesting + c.depth + 1
  BY <1>1, <1>2, <1>4 DEF StartsFormatSpec
<1>7. InText(fstrings, nesting) <=> nesting <= c.nesting + c.depth
  BY <1>1, <1>2 DEF InText
<1>. QED  BY <1>1, <1>2, <1>3, <1>5, <1>6, <1>7 DEF InFormatSpec, c

(* An error about the end of the file stays known. *)
LEMMA PushEof ==
    ASSUME LexerTypeOK, NEW b \in Nat, NEW e, PushError("Eof", b, e)
    PROVE  ~NoEof(Len(errors))'
<1>1. errors' = Append(errors, [error |-> "Eof", start |-> b]) /\ errors \in Seq(ErrorRecord)
  BY DEF PushError, LexerTypeOK
<1>2. [error |-> "Eof", start |-> b] \in ErrorRecord
  BY DEF ErrorRecord, ErrorTypes
<1>3. Len(errors') = Len(errors) + 1 /\ errors'[Len(errors) + 1].error = "Eof" /\ Len(errors) \in Nat
  BY <1>1, <1>2
<1>. QED  BY <1>3 DEF NoEof

(* Outside of f-string text the lexer is where StartsClean says. *)
LEMMA CleanText ==
    ASSUME LexerTypeOK, StartsClean, First \notin {"quote", "lbrace", "rbrace", "nl", "cr"}
    PROVE  ~InText(fstrings, nesting)
<1>1. CASE fstrings = <<>>
  BY <1>1 DEF InText
<1>2. CASE fstrings # <<>>
  BY <1>2, TextContext DEF StartsClean
<1>. QED  BY <1>1, <1>2

(* The layout before a token. *)
LEMMA SaneLayout ==
    ASSUME LexerTypeOK, SaneLexer, pc \in {"indent", "space", "char"} => StartsClean,
           NextFStringToken \/ NextDedent \/ NextPlain \/ EatIndentation \/ SkipEmptyLine
           \/ HandleIndentation \/ SkipWhitespace
    PROVE  SaneLexer'
<1>0. /\ fstrings \in Seq(FStringContext) /\ nesting \in Nat /\ cursor \in Nat /\ Len(src) \in Nat
      /\ Sane(fstrings, nesting, state, pending, cursor)
      /\ Nested(fstrings, nesting)
  BY DEF LexerTypeOK, Offsets, SaneLexer, Sane
<1>1. CASE NextFStringToken
  <2>1. fstrings # <<>> /\ pending = NoPending /\ state # "AfterNewline" /\ UNCHANGED <<pending, state, nesting>>
    BY <1>0, <1>1 DEF NextFStringToken, Sane
  <2>2. CASE AtFStringEnd
    <3>1. fstrings' = PopFString /\ pc' = "return" /\ kind' = "FStringEnd"
      BY <1>1, <2>2 DEF NextFStringToken
    <3>2. Nested(fstrings', nesting)
      BY <1>0, <2>1, <3>1, NestedPop DEF PopFString
    <3>. QED  BY <2>1, <3>1, <3>2 DEF SaneLexer, Sane, SaneToken, Trivia
  <2>3. CASE ~AtFStringEnd
    <3>1. fstrings' = fstrings /\ pc' = "fstring"
      BY <1>1, <2>3 DEF NextFStringToken
    <3>. QED  BY <1>0, <2>1, <3>1 DEF SaneLexer, Sane, SaneToken
  <2>. QED  BY <2>2, <2>3
<1>2. CASE NextDedent
  <2>1. /\ fstrings = <<>> /\ nesting = 0 /\ ~NewlineAt(cursor)
        /\ UNCHANGED <<src, cursor, fstrings, nesting, state>>
    BY <1>0, <1>2 DEF NextDedent, Sane
  <2>2. \/ pc' = "return" /\ pending' \in {pending, NoPending}
        \/ pc' = AfterLayout /\ pending' = NoPending
    BY <1>2 DEF NextDedent, PushError, EnterLayout
  <2>3. Sane(fstrings, nesting, state, pending, cursor)'
    BY <1>0, <2>1, <2>2 DEF Sane, Nested, NewlineAt
  <2>. QED  BY <2>1, <2>2, <2>3 DEF SaneLexer, SaneToken, InText, AfterLayout
<1>3. CASE NextPlain
  <2>1. /\ ~InText(fstrings, nesting) /\ pending = NoPending
    <3>1. CASE fstrings = <<>>
      BY <1>3, <3>1 DEF NextPlain, InText
    <3>2. CASE fstrings # <<>>
      BY <1>0, <1>3, <3>2, TextContext DEF NextPlain, Sane
    <3>. QED  BY <3>1, <3>2
  <2>2. pc' = AfterLayout /\ UNCHANGED <<src, cursor, state, nesting, pending, fstrings>>
    BY <1>3 DEF NextPlain, EnterLayout
  <2>. QED  BY <1>0, <2>1, <2>2 DEF SaneLexer, Sane, AfterLayout, NewlineAt
<1>4. CASE EatIndentation
  <2>1. state = "AfterNewline" /\ nesting = 0 /\ fstrings = <<>> /\ pending = NoPending
    BY <1>0, <1>4 DEF EatIndentation, SaneLexer, Sane
  <2>2. UNCHANGED <<state, nesting, pending, fstrings>> /\ (pc' = "indent" \/ (pc' = "return" /\ kind' = "Unknown"))
    BY <1>4 DEF EatIndentation, Advance, Continuation, PushError
  <2>. QED  BY <1>0, <2>1, <2>2 DEF SaneLexer, Sane, SaneToken, InText, Trivia
<1>5. CASE SkipEmptyLine
  <2>1. state = "AfterNewline" /\ nesting = 0 /\ fstrings = <<>> /\ pending = NoPending
    BY <1>0, <1>5 DEF SkipEmptyLine, SaneLexer, Sane
  <2>2. UNCHANGED <<state, nesting, pending, fstrings>> /\ pc' = "char"
    BY <1>5 DEF SkipEmptyLine, checkpointVars
  <2>. QED  BY <1>0, <2>1, <2>2 DEF SaneLexer, Sane, InText
<1>6. CASE HandleIndentation
  <2>1. state = "AfterNewline" /\ nesting = 0 /\ fstrings = <<>> /\ pending = NoPending
    BY <1>0, <1>6 DEF HandleIndentation, SaneLexer, Sane
  <2>2. UNCHANGED <<src, cursor, nesting, fstrings>> /\ state' = "NonEmptyLogicalLine" /\ ~NewlineAt(cursor)
    BY <1>0, <1>6 DEF HandleIndentation, NewlineAt, First, Char
  <2>3. \/ pc' = "return" /\ kind' \in {"Dedent", "Indent", "Unknown"}
        \/ pc' = "char" /\ pending' = pending
    BY <1>6 DEF HandleIndentation, PushError
  <2>4. ~NewlineAt(cursor)'
    BY <2>2 DEF NewlineAt
  <2>. QED  BY <1>0, <2>1, <2>2, <2>3, <2>4 DEF SaneLexer, Sane, SaneToken, InText
<1>7. CASE SkipWhitespace
  <2>0. UNCHANGED <<src, state, nesting, pending, fstrings>> /\ pending = NoPending /\ pc = "space" /\ StartsClean
    BY <1>7 DEF SkipWhitespace, SaneLexer
  <2>1. CASE First \in {"sp", "tab", "ff", "bs"}
    <3>1. pc' = "space" \/ (pc' = "return" /\ kind' = "Unknown")
      BY <1>7, <2>1 DEF SkipWhitespace, Advance, Continuation, PushError
    <3>2. ~InText(fstrings, nesting)
      BY <2>0, <2>1, CleanText
    <3>. QED  BY <1>0, <2>0, <3>1, <3>2 DEF SaneLexer, Sane, SaneToken, Trivia
  <2>2. CASE First \notin {"sp", "tab", "ff", "bs"}
    <3>1. pc' = "char" /\ UNCHANGED cursor
      BY <1>7, <2>2 DEF SkipWhitespace
    <3>2. InText(fstrings, nesting) /\ First \in {"nl", "cr"} => Context.depth > 0
      BY <2>0 DEF SaneLexer
    <3>. QED  BY <1>0, <2>0, <3>1, <3>2 DEF SaneLexer, Sane, NewlineAt, First, Char, Context
  <2>. QED  BY <2>1, <2>2
<1>. QED  BY <1>1, <1>2, <1>3, <1>4, <1>5, <1>6, <1>7

(* Strings, the text of f-strings and escape commands. *)
LEMMA SaneText ==
    ASSUME LexerTypeOK, SaneLexer, pc = "fstring" => fstrings # <<>>,
           LexString \/ LexFStringMiddle \/ LexFStringUnterminated \/ LexFStringText \/ LexEscapeCommand
    PROVE  SaneLexer'
<1>0. /\ fstrings \in Seq(FStringContext) /\ nesting \in Nat
      /\ Sane(fstrings, nesting, state, pending, cursor)
      /\ Nested(fstrings, nesting)
  BY DEF LexerTypeOK, SaneLexer, Sane
<1>1. CASE LexString \/ LexEscapeCommand
  <2>1. pending = NoPending /\ UNCHANGED <<nesting, pending, fstrings>>
    BY <1>1 DEF LexString, LexEscapeCommand, SaneLexer
  <2>2. \/ pc' \in {"string", "escape"} /\ state' = state
        \/ pc' = "return" /\ kind' \in {"Unknown", "String", "IpyEscapeCommand"} /\ state' = "Other"
    BY <1>1 DEF LexString, LexEscapeCommand, Advance, Token, PushError
  <2>. QED  BY <1>0, <2>1, <2>2 DEF SaneLexer, Sane, SaneToken, Trivia
<1>2. CASE LexFStringMiddle
  <2>0. /\ fstrings # <<>> /\ pending = NoPending /\ state # "AfterNewline"
        /\ UNCHANGED <<src, state, nesting, pending, fstrings>>
    BY <1>0, <1>2 DEF LexFStringMiddle, SaneLexer, Sane
  <2>1. CASE cursor = start
    <3>1. pc' = "space" /\ UNCHANGED cursor
      BY <1>2, <2>0, <2>1 DEF LexFStringMiddle, EnterLayout, AfterLayout
    <3>2. First \in {"nl", "cr"} => Context.depth > 0
      BY <1>2, <2>0, TextContext DEF LexFStringMiddle, FStringBreak
    <3>. QED  BY <1>0, <2>0, <3>1, <3>2 DEF SaneLexer, Sane, First, Char, Context
  <2>2. CASE cursor # start
    <3>1. pc' = "return" /\ kind' = "FStringMiddle"
      BY <1>2, <2>2 DEF LexFStringMiddle, Token
    <3>. QED  BY <1>0, <2>0, <3>1 DEF SaneLexer, Sane, SaneToken, Trivia
  <2>. QED  BY <2>1, <2>2
<1>3. CASE LexFStringUnterminated
  <2>0. /\ fstrings # <<>> /\ pending = NoPending /\ state # "AfterNewline"
        /\ fstrings' = PopFString /\ pc' = "return" /\ kind' = "Unknown"
        /\ UNCHANGED <<state, nesting, pending>>
    BY <1>0, <1>3 DEF LexFStringUnterminated, PushError, SaneLexer, Sane
  <2>1. Nested(fstrings', nesting)
    BY <1>0, <2>0, NestedPop DEF PopFString
  <2>. QED  BY <2>0, <2>1 DEF SaneLexer, Sane, SaneToken, Trivia
<1>4. CASE LexFStringText
  <2>0. /\ fstrings # <<>> /\ pending = NoPending /\ pc' = "fstring"
        /\ UNCHANGED <<state, nesting, pending, fstrings>>
    BY <1>0, <1>4 DEF LexFStringText, Advance, SaneLexer, Sane
  <2>. QED  BY <1>0, <2>0 DEF SaneLexer, Sane
<1>. QED  BY <1>1, <1>2, <1>3, <1>4

(* A `}` or a line break in the innermost f-string may end a format spec;  *)
(* `m` brackets are open afterwards.                                       *)
LEMMA SaneSpecEnd ==
    ASSUME LexerTypeOK, Nested(fstrings, nesting), TryEndFormatSpec,
           fstrings # <<>> => Context.nesting # nesting,
           NEW m \in {nesting, SaturatingDec(nesting)}
    PROVE  Nested(fstrings', m)
<1>0. fstrings \in Seq(FStringContext) /\ nesting \in Nat /\ m \in Nat
  BY DEF LexerTypeOK, SaturatingDec
<1>1. CASE fstrings = <<>>
  BY <1>1 DEF TryEndFormatSpec, Nested
<1>2. CASE fstrings # <<>> /\ InFormatSpec(Context)
  <2>1. /\ Context.nesting \in Nat /\ Context.depth \in Nat /\ Context.depth - 1 \in Nat
        /\ nesting = Context.nesting + Context.depth
    BY <1>0, <1>2, TextContext
  <2>2. nesting <= m + 1 /\ Context.nesting + (Context.depth - 1) <= m
    BY <1>0, <2>1, SMTT(30) DEF SaturatingDec
  <2>3. fstrings' = [fstrings EXCEPT ![Len(fstrings)].depth = Context.depth - 1]
    BY <1>2 DEF TryEndFormatSpec, SetDepth
  <2>4. fstrings[Len(fstrings)].nesting + (Context.depth - 1) <= m
    BY <2>2 DEF Context
  <2>. QED  BY <1>0, <1>2, <2>1, <2>2, <2>3, <2>4, NestedDepth
<1>3. CASE fstrings # <<>> /\ ~InFormatSpec(Context)
  <2>1. fstrings' = fstrings
    BY <1>3 DEF TryEndFormatSpec
  <2>2. ~InText(fstrings, nesting)
    BY <1>0, <1>3, TextContext
  <2>3. Nested(fstrings, SaturatingDec(nesting))
    BY <1>0, <2>2, NestedClose
  <2>. QED  BY <2>1, <2>3
<1>. QED  BY <1>1, <1>2, <1>3

(* Outside of f-string text, or in a format spec, the line break that ends *)
(* the format spec leaves a replacement field around it.                   *)
LEMMA SaneLineEnd ==
    ASSUME LexerTypeOK, Nested(fstrings, nesting), TryEndFormatSpec,
           InText(fstrings, nesting) => Context.depth > 0
    PROVE  Nested(fstrings', nesting) /\ ~InText(fstrings', nesting)
<1>0. fstrings \in Seq(FStringContext) /\ nesting \in Nat
  BY DEF LexerTypeOK
<1>1. CASE ~InText(fstrings, nesting)
  <2>1. fstrings' = fstrings
    <3>1. CASE fstrings = <<>>
      BY <3>1 DEF TryEndFormatSpec
    <3>2. CASE fstrings # <<>>
      BY <1>1, <3>2, TextContext DEF TryEndFormatSpec
    <3>. QED  BY <3>1, <3>2
  <2>. QED  BY <1>1, <2>1
<1>2. CASE InText(fstrings, nesting)
  <2>0. fstrings # <<>>
    BY <1>2 DEF InText
  <2>1. /\ Context.nesting \in Nat /\ Context.depth \in Nat /\ Context.depth - 1 \in Nat
        /\ nesting = Context.nesting + Context.depth /\ InFormatSpec(Context)
    BY <1>0, <1>2, <2>0, TextContext
  <2>2. fstrings' = [fstrings EXCEPT ![Len(fstrings)].depth = Context.depth - 1]
    BY <2>0, <2>1 DEF TryEndFormatSpec, SetDepth
  <2>3. nesting <= nesting + 1 /\ fstrings[Len(fstrings)].nesting + (Context.depth - 1) <= nesting
    BY <1>0, <2>1, SMTT(30) DEF Context
  <2>4. Nested(fstrings', nesting)
    BY <1>0, <2>0, <2>1, <2>2, <2>3, NestedDepth
  <2>5. /\ Len(fstrings') = Len(fstrings) /\ Len(fstrings) \in DOMAIN fstrings
        /\ fstrings[Len(fstrings)] \in FStringContext
    BY <1>0, <2>0, <2>2
  <2>6. /\ fstrings'[Len(fstrings)].nesting = Context.nesting
        /\ fstrings'[Len(fstrings)].depth = Context.depth - 1
    BY <2>2, <2>5 DEF FStringContext, Context
  <2>7. ~InText(fstrings', nesting)
    BY <1>0, <2>1, <2>5, <2>6 DEF InText
  <2>. QED  BY <2>4, <2>7
<1>. QED  BY <1>1, <1>2

(* A token at the character at which it starts. *)
LEMMA SaneChar ==
    ASSUME LexerTypeOK, SaneLexer, pc = "char", StartsClean, LexChar, NoEof(Len(errors))'
    PROVE  SaneLexer'
<1>0. /\ fstrings \in Seq(FStringContext) /\ nesting \in Nat /\ cursor \in Nat
      /\ Nested(fstrings, nesting) /\ pending = NoPending
      /\ state = "AfterNewline" => nesting = 0 /\ fstrings = <<>>
      /\ InText(fstrings, nesting) /\ First \in {"nl", "cr"} => Context.depth > 0
  BY DEF LexerTypeOK, Offsets, SaneLexer, Sane
<1>. DEFINE Plain(k) == k \notin Trivia \cup {"Indent", "Dedent"}
<1>1. ASSUME pc' = "return", Plain(kind'), Nested(fstrings', nesting'), UNCHANGED pending,
             state' = "AfterNewline" => nesting' = 0 /\ fstrings' = <<>>
      PROVE  SaneLexer'
  BY <1>0, <1>1 DEF SaneLexer, Sane, SaneToken
<1>2. CASE LexName \/ LexWord \/ LexEqual
  <2>1. pc' = "return" /\ kind' \in {"Name", "Word", "EqEqual", "Equal"} /\ state' # "AfterNewline"
        /\ UNCHANGED <<nesting, pending, fstrings>>
    BY <1>2 DEF LexName, LexWord, LexEqual, Token
  <2>. QED  BY <1>0, <1>1, <2>1 DEF Trivia
<1>3. CASE LexUnrecognized
  <2>1. pc' = "return" /\ kind' = "Unknown" /\ state' \in {state, "Other"} /\ UNCHANGED <<nesting, pending, fstrings>>
    BY <1>3 DEF LexUnrecognized, PushError
  <2>. QED  BY <1>0, <1>1, <2>1 DEF Trivia
<1>4. CASE LexFStringStart
  <2>1. ~InText(fstrings, nesting)
    BY <1>4, CleanText DEF LexFStringStart
  <2>2. PICK t \in BOOLEAN : fstrings' = Append(fstrings, [nesting |-> nesting, depth |-> 0, triple |-> t])
    BY <1>4 DEF LexFStringStart
  <2>3. [nesting |-> nesting, depth |-> 0, triple |-> t] \in FStringContext
    BY <1>0 DEF FStringContext
  <2>4. Nested(fstrings', nesting)
    BY <1>0, <2>1, <2>2, <2>3, NestedAppend
  <2>5. pc' = "return" /\ kind' = "FStringStart" /\ state' = "Other" /\ UNCHANGED <<nesting, pending>>
    BY <1>4 DEF LexFStringStart, Token
  <2>. QED  BY <1>1, <2>4, <2>5 DEF Trivia
<1>5. CASE LexComment
  <2>1. ~InText(fstrings, nesting)
    BY <1>5, CleanText DEF LexComment
  <2>2. pc' = "return" /\ kind' = "Comment" /\ UNCHANGED <<state, nesting, pending, fstrings>>
    BY <1>5 DEF LexComment, Token
  <2>. QED  BY <1>0, <2>1, <2>2 DEF SaneLexer, Sane, SaneToken
<1>6. CASE LexEscapeCharacter
  <2>1. UNCHANGED <<nesting, pending, fstrings>>
    BY <1>6 DEF LexEscapeCharacter
  <2>2. \/ pc' = "escape" /\ state' = state
        \/ pc' = "return" /\ kind' = "Word" /\ state' = "Other"
    BY <1>6 DEF LexEscapeCharacter, Token
  <2>. QED  BY <1>0, <1>1, <2>1, <2>2 DEF SaneLexer, Sane, Trivia
<1>7. CASE LexOpening
  <2>1. pc' = "return" /\ kind' \in {"Lpar", "Lbrace"} /\ state' = "Other" /\ UNCHANGED <<pending, fstrings>>
        /\ nesting' = nesting + 1
    BY <1>7 DEF LexOpening, Token
  <2>2. Nested(fstrings, nesting + 1)
    <3>1. \A i \in 1..Len(fstrings) : fstrings[i].nesting \in Nat /\ fstrings[i].depth \in Nat
      <4>1. \A i \in 1..Len(fstrings) : fstrings[i] \in FStringContext
        BY <1>0
      <4>. QED  BY <4>1 DEF FStringContext
    <3>. QED  BY <1>0, <3>1 DEF Nested
  <2>. QED  BY <1>1, <2>1, <2>2 DEF Trivia
<1>8. CASE LexRpar
  <2>1. ~InText(fstrings, nesting)
    BY <1>8, CleanText DEF LexRpar
  <2>2. pc' = "return" /\ kind' = "Rpar" /\ state' = "Other" /\ UNCHANGED <<pending, fstrings>>
        /\ nesting' = SaturatingDec(nesting)
    BY <1>8 DEF LexRpar, Token
  <2>. QED  BY <1>0, <1>1, <2>1, <2>2, NestedClose DEF Trivia
<1>9. CASE LexRbrace
  <2>1. CASE fstrings # <<>> /\ Context.nesting = nesting
    <3>1. pc' = "return" /\ kind' = "Unknown" /\ UNCHANGED <<state, nesting, pending, fstrings>>
      BY <1>9, <2>1 DEF LexRbrace, PushError
    <3>. QED  BY <1>0, <1>1, <3>1 DEF Trivia
  <2>2. CASE ~(fstrings # <<>> /\ Context.nesting = nesting)
    <3>1. /\ pc' = "return" /\ kind' = "Rbrace" /\ state' = "Other" /\ nesting' = SaturatingDec(nesting)
          /\ TryEndFormatSpec /\ UNCHANGED pending
      BY <1>9, <2>2 DEF LexRbrace, Token
    <3>2. Nested(fstrings', nesting')
      BY <1>0, <2>2, <3>1, SaneSpecEnd
    <3>. QED  BY <1>1, <3>1, <3>2 DEF Trivia
  <2>. QED  BY <2>1, <2>2
<1>10. CASE LexColon
  <2>1. pc' = "return" /\ kind' \in {"Colon", "ColonEqual"} /\ state' = "Other" /\ UNCHANGED <<nesting, pending>>
    BY <1>10 DEF LexColon, Token
  <2>2. CASE fstrings # <<>> /\ StartsFormatSpec(Context)
    <3>1. fstrings' = [fstrings EXCEPT ![Len(fstrings)].depth = Context.depth + 1]
      BY <1>10, <2>2 DEF LexColon, SetDepth
    <3>2. /\ Context.nesting \in Nat /\ Context.depth + 1 \in Nat
          /\ fstrings[Len(fstrings)].nesting + (Context.depth + 1) <= nesting /\ nesting <= nesting + 1
      BY <1>0, <2>2, TextContext, SMTT(30)
    <3>3. Nested(fstrings', nesting)
      BY <1>0, <2>2, <3>1, <3>2, NestedDepth
    <3>. QED  BY <1>1, <2>1, <3>3 DEF Trivia
  <2>3. CASE ~(fstrings # <<>> /\ StartsFormatSpec(Context))
    <3>1. UNCHANGED fstrings
      BY <1>10, <2>3 DEF LexColon
    <3>. QED  BY <1>0, <1>1, <2>1, <3>1 DEF Trivia
  <2>. QED  BY <2>2, <2>3
<1>11. CASE LexNewline
  <2>0. First \in {"nl", "cr"} /\ UNCHANGED <<nesting, pending>>
    BY <1>11 DEF LexNewline
  <2>1. CASE nesting = 0 /\ ~IsNewLogicalLine
    <3>1. pc' = "return" /\ kind' = "Newline" /\ UNCHANGED fstrings
      BY <1>11, <2>1 DEF LexNewline, Token
    <3>2. fstrings = <<>>
      <4>. SUFFICES ASSUME fstrings # <<>> PROVE FALSE
        OBVIOUS
      <4>1. Context.nesting \in Nat /\ Context.depth \in Nat /\ InText(fstrings, nesting)
            /\ Context.nesting + Context.depth <= nesting
        BY <1>0, <2>1, TextContext
      <4>. QED  BY <1>0, <2>0, <2>1, <4>1
    <3>. QED  BY <1>0, <1>1, <2>0, <2>1, <3>1, <3>2 DEF Trivia
  <2>2. CASE ~(nesting = 0 /\ ~IsNewLogicalLine)
    <3>1. pc' = "return" /\ kind' = "NonLogicalNewline" /\ TryEndFormatSpec /\ UNCHANGED state
      BY <1>11, <2>2 DEF LexNewline, Token
    <3>2. Nested(fstrings', nesting) /\ ~InText(fstrings', nesting)
      BY <1>0, <2>0, <3>1, SaneLineEnd
    <3>3. fstrings = <<>> => fstrings' = <<>>
      BY <3>1 DEF TryEndFormatSpec
    <3>. QED  BY <1>0, <2>0, <3>1, <3>2, <3>3 DEF SaneLexer, Sane, SaneToken
  <2>. QED  BY <2>1, <2>2
<1>12. CASE LexStringStart
  <2>1. pc' = "string" /\ UNCHANGED <<state, nesting, pending, fstrings>>
    BY <1>12 DEF LexStringStart
  <2>. QED  BY <1>0, <2>1 DEF SaneLexer, Sane
<1>13. CASE ConsumeEnd
  <2>1. nesting = 0
    <3>. SUFFICES ASSUME nesting > 0 PROVE FALSE
      BY <1>0
    <3>1. PushError("Eof", cursor, cursor)
      <4>1. nesting # 0
        BY <1>0
      <4>. QED  BY <1>13, <4>1 DEF ConsumeEnd
    <3>. QED  BY <1>0, <3>1, PushEof
  <2>2. fstrings = <<>> /\ UNCHANGED <<nesting, pending, fstrings>>
    <3>1. IsEof
      BY <1>13 DEF ConsumeEnd
    <3>2. nesting' = nesting
      BY <1>0, <1>13, <2>1 DEF ConsumeEnd
    <3>. QED  BY <1>13, <2>1, <3>1, <3>2, EndIsClean DEF ConsumeEnd
  <2>3. pc' = "return"
    BY <1>13 DEF ConsumeEnd, Token, PushError
  <2>4. kind' \notin Trivia
    BY <1>13 DEF ConsumeEnd, Token, PushError, Trivia
  <2>. QED  BY <1>0, <2>1, <2>2, <2>3, <2>4 DEF SaneLexer, Sane, SaneToken
<1>. QED  BY <1>2, <1>3, <1>4, <1>5, <1>6, <1>7, <1>8, <1>9, <1>10, <1>11, <1>12, <1>13 DEF LexChar

(* The lexer stays sane until it reports an unexpected end. *)
LEMMA SaneLex ==
    ASSUME TypeInv, SaneLexer, pc \in {"indent", "space", "char"} => StartsClean, LexStep, NoEof(Len(errors))'
    PROVE  SaneLexer'
<1>0. LexerTypeOK /\ (pc = "fstring" => fstrings # <<>>)
  BY DEF TypeInv, TypeOK
<1>1. CASE NextFStringToken \/ NextDedent \/ NextPlain \/ EatIndentation \/ SkipEmptyLine
           \/ HandleIndentation \/ SkipWhitespace
  BY <1>0, <1>1, SaneLayout
<1>2. CASE LexChar
  <2>1. pc = "char"
    BY <1>2 DEF LexChar, LexName, LexFStringStart, LexWord, LexComment, LexEqual, LexEscapeCharacter,
           LexOpening, LexRpar, LexRbrace, LexColon, LexNewline, LexUnrecognized, LexStringStart, ConsumeEnd
  <2>. QED  BY <1>0, <1>2, <2>1, SaneChar
<1>3. CASE LexString \/ LexFStringMiddle \/ LexFStringUnterminated \/ LexFStringText \/ LexEscapeCommand
  BY <1>0, <1>3, SaneText
<1>. QED  BY <1>1, <1>2, <1>3 DEF LexStep
-----------------------------------------------------------------------------
(* What is known of the first errors only depends on them. *)
LEMMA NoEofKept ==
    ASSUME NEW n \in Nat, \A i \in 1..n : errors'[i] = errors[i]
    PROVE  NoEof(n)' <=> NoEof(n)
BY DEF NoEof

(* The errors of a checkpoint are the first of those reported. *)
LEMMA MarkedErrors ==
    ASSUME OrderInv, Speculating
    PROVE  /\ mark # <<>> /\ HistoryKept
           /\ mark[1].lexer.errors \in Nat /\ mark[1].lexer.errors <= Len(errors)
           /\ saved # <<>> => mark[1].lexer.errors <= saved[1].errors
<1>1. mark # <<>> /\ HistoryKept /\ TypeOK
  BY DEF OrderInv, Speculating, TypeInv
<1>2. mark[1].history[2] \in Seq(ErrorRecord)
  BY <1>1, MarkType
<1>. QED  BY <1>1, <1>2 DEF HistoryKept, Prefix

(* The lexer goes on. *)
LEMMA SaneStep ==
    ASSUME SaneInv, OrderInv', CleanInv', Lex
    PROVE  SaneInv'
<1>0. /\ TypeInv /\ TypeOK /\ LexerTypeOK /\ LexStep
      /\ UNCHANGED <<saved, mark, relexed>> /\ src' = src
  <2>1. src' = src
    BY DEF Lex, LexStep, NextFStringToken, NextDedent, NextPlain, EatIndentation, SkipEmptyLine,
         HandleIndentation, SkipWhitespace, LexChar, LexName, LexFStringStart, LexWord, LexComment,
         LexEqual, LexEscapeCharacter, LexOpening, LexRpar, LexRbrace, LexColon, LexNewline, LexUnrecognized,
         LexStringStart, ConsumeEnd, LexString, LexFStringMiddle, LexFStringUnterminated, LexFStringText,
         LexEscapeCommand
  <2>. QED  BY <2>1 DEF SaneInv, OrderInv, TypeInv, TypeOK, Lex, sourceVars
<1>1. errors \in Seq(ErrorRecord) /\ Len(errors) \in Nat
  BY <1>0 DEF LexerTypeOK
<1>2. Len(errors) <= Len(errors') /\ \A i \in 1..Len(errors) : errors'[i] = errors[i]
  BY <1>0, <1>1, LexErrorsType
<1>3. \A n \in Nat : n <= Len(errors) => (NoEof(n)' <=> NoEof(n))
  BY <1>1, <1>2, NoEofKept
<1>4. ASSUME (relexed # "fstring" /\ NoEof(Len(errors)))'
      PROVE  SaneLexer'
  <2>1. NoEof(Len(errors))
    <3>1. Len(errors') \in Nat
      BY <1>0, <1>1, LexErrorsType
    <3>. QED  BY <1>1, <1>2, <1>4, <3>1 DEF NoEof
  <2>. QED  BY <1>0, <1>4, <2>1, SaneLex DEF SaneInv, CleanInv
<1>5. (saved # <<>> /\ relexed # "fstring" /\ NoEof(saved[1].errors) => SaneCheckpoint(saved[1]))'
  <2>. SUFFICES ASSUME saved # <<>>, relexed # "fstring", NoEof(saved[1].errors)'
                PROVE  SaneCheckpoint(saved[1])'
    BY <1>0
  <2>1. saved[1].errors \in Nat /\ saved[1].errors <= Len(errors)
    BY <1>0, SavedType DEF SaneInv, OrderInv
  <2>2. NoEof(saved[1].errors)
    BY <1>0, <1>2, <2>1 DEF NoEof
  <2>. QED  BY <1>0, <2>2 DEF SaneInv, SaneCheckpoint, Sane, NewlineAt
<1>6. (Speculating /\ relexed # "fstring" /\ NoEof(mark[1].lexer.errors) => SaneCheckpoint(mark[1].lexer))'
  <2>. SUFFICES ASSUME Speculating, relexed # "fstring", NoEof(mark[1].lexer.errors)'
                PROVE  SaneCheckpoint(mark[1].lexer)'
    BY <1>0 DEF Speculating
  <2>1. mark[1].lexer.errors \in Nat /\ mark[1].lexer.errors <= Len(errors)
    BY MarkedErrors DEF SaneInv
  <2>2. NoEof(mark[1].lexer.errors)
    BY <1>0, <1>2, <2>1 DEF NoEof
  <2>. QED  BY <1>0, <2>2 DEF SaneInv, SaneCheckpoint, Sane, NewlineAt
<1>. QED  BY <1>4, <1>5, <1>6 DEF SaneInv

(* A call of the parser that leaves the errors and the checkpoints alone.  *)
LEMMA SaneCall ==
    ASSUME SaneInv, OrderInv', CleanInv', UNCHANGED <<src, errors, mark>>,
           saved' \in {saved, <<>>},
           relexed' # "fstring" => relexed # "fstring",
           relexed' # "fstring" /\ NoEof(Len(errors)) => SaneLexer'
    PROVE  SaneInv'
BY DEF SaneInv, SaneCheckpoint, Sane, NewlineAt, NoEof, Speculating

(* The parser takes tokens from the lexer, or what it emitted is returned. *)
LEMMA SaneReturn ==
    ASSUME SaneInv, OrderInv', CleanInv', ReturnBump \/ ReturnReLex \/ Bump \/ UNCHANGED vars
    PROVE  SaneInv'
<1>1. CASE UNCHANGED vars
  BY <1>1 DEF vars, lexerVars, checkpointVars, localVars, sourceVars, SaneInv, SaneCheckpoint, SaneLexer, Sane,
         SaneToken, NewlineAt, NoEof, Speculating, First, Char, Context
<1>2. CASE ReturnBump \/ ReturnReLex \/ Bump
  <2>1. /\ UNCHANGED <<src, kind, nesting, state, fstrings, pending, cursor, errors, saved, mark>>
        /\ pc' \in {"next", "idle"} /\ (pc' = "idle" => pc = "return")
        /\ (relexed' # "fstring" => relexed # "fstring")
    BY <1>2 DEF ReturnBump, ReturnReLex, Bump, checkpointVars, localVars, SettledReLexed
  <2>2. relexed' # "fstring" /\ NoEof(Len(errors)) => SaneLexer'
    BY <2>1 DEF SaneInv, SaneLexer, Sane, SaneToken, NewlineAt
  <2>. QED  BY <2>1, <2>2, SaneCall
<1>. QED  BY <1>1, <1>2

(* A look-ahead goes on, or puts back a lexer that was sane. *)
LEMMA SaneReturnPeek ==
    ASSUME SaneInv, OrderInv', CleanInv', ReturnPeek
    PROVE  SaneInv'
<1>0. /\ TypeOK /\ LexerTypeOK /\ saved # <<>> /\ pc = "return"
      /\ UNCHANGED <<src, mark, relexed>>
  BY DEF SaneInv, OrderInv, TypeInv, TypeOK, ReturnPeek
<1>1. CASE pc' = "next"
  <2>1. UNCHANGED <<kind, nesting, state, fstrings, pending, cursor, errors, saved>>
    BY <1>1 DEF ReturnPeek, checkpointVars
  <2>2. relexed' # "fstring" /\ NoEof(Len(errors)) => SaneLexer'
    BY <1>0, <1>1, <2>1 DEF SaneInv, SaneLexer, Sane, SaneToken, NewlineAt
  <2>. QED  BY <1>0, <2>1, <2>2, SaneCall
<1>2. CASE pc' # "next"
  <2>1. pc' = "idle" /\ RestoreLexer(saved[1]) /\ saved' = <<>>
    BY <1>2 DEF ReturnPeek
  <2>2. saved[1].errors \in Nat /\ saved[1].errors <= Len(errors) /\ errors \in Seq(ErrorRecord)
    BY <1>0, SavedType DEF SaneInv, OrderInv, LexerTypeOK
  <2>. DEFINE n == saved[1].errors
  <2>3. errors' = Truncate(errors, n) /\ n \in Nat /\ n <= Len(errors)
    BY <2>1, <2>2 DEF RestoreLexer
  <2>. HIDE DEF n
  <2>4. Len(errors') = n /\ \A i \in 1..n : errors'[i] = errors[i]
    <3>1. /\ Len(errors') = IF n < Len(errors) THEN n ELSE Len(errors)
          /\ \A i \in 1..Len(errors') : errors'[i] = errors[i]
      BY <2>2, <2>3, TruncateProperties
    <3>2. Len(errors) \in Nat
      BY <2>2
    <3>. QED  BY <2>3, <3>1, <3>2
  <2>5. ASSUME (relexed # "fstring" /\ NoEof(Len(errors)))'
        PROVE  SaneLexer'
    <3>1. NoEof(n)
      BY <2>4, <2>5 DEF NoEof
    <3>2. SaneCheckpoint(saved[1])
      BY <1>0, <2>5, <3>1 DEF SaneInv, n
    <3>. QED  BY <1>0, <2>1, <3>2 DEF SaneCheckpoint, SaneLexer, RestoreLexer, Sane, SaneToken, NewlineAt
  <2>6. (Speculating /\ relexed # "fstring" /\ NoEof(mark[1].lexer.errors) => SaneCheckpoint(mark[1].lexer))'
    <3>. SUFFICES ASSUME Speculating, relexed # "fstring", NoEof(mark[1].lexer.errors)'
                  PROVE  SaneCheckpoint(mark[1].lexer)'
      BY <1>0 DEF Speculating
    <3>1. mark[1].lexer.errors \in Nat /\ mark[1].lexer.errors <= n
      BY <1>0, MarkedErrors DEF SaneInv, n
    <3>2. NoEof(mark[1].lexer.errors)
      BY <1>0, <2>3, <2>4, <3>1 DEF NoEof
    <3>. QED  BY <1>0, <3>2 DEF SaneInv, SaneCheckpoint, Sane, NewlineAt
  <2>. QED  BY <2>1, <2>5, <2>6 DEF SaneInv
<1>. QED  BY <1>1, <1>2

(* The parser takes a checkpoint, for a look-ahead or for itself. *)
LEMMA SaneMark ==
    ASSUME SaneInv, OrderInv', CleanInv', Peek \/ Checkpoint
    PROVE  SaneInv'
<1>0. /\ TypeOK /\ pc = "idle" /\ pc' \in {"next", "idle"}
      /\ UNCHANGED <<src, kind, nesting, state, fstrings, pending, cursor, errors, relexed>>
  BY DEF SaneInv, OrderInv, TypeInv, Peek, Checkpoint, lexerVars, checkpointVars
<1>1. NoEof(Len(errors))' <=> NoEof(Len(errors))
  BY <1>0 DEF NoEof
<1>2. (relexed # "fstring" /\ NoEof(Len(errors)) => SaneLexer)'
  BY <1>0, <1>1 DEF SaneInv, SaneLexer, Sane, SaneToken, NewlineAt
<1>3. LET c == LexerCheckpoint IN
      /\ relexed # "fstring" /\ NoEof(c.errors) => SaneCheckpoint(c)
      /\ c.errors = Len(errors) /\ c.fstrings = fstrings /\ c.nesting = nesting /\ c.state = state
      /\ c.pending = pending /\ c.cursor = cursor /\ c.kind = kind
  BY <1>0 DEF SaneInv, SaneLexer, SaneCheckpoint, LexerCheckpoint
<1>4. CASE Peek
  <2>1. saved' = <<LexerCheckpoint>> /\ mark' = mark /\ saved'[1] = LexerCheckpoint
    BY <1>4 DEF Peek
  <2>. QED  BY <1>0, <1>2, <1>3, <2>1 DEF SaneInv, SaneCheckpoint, Sane, NewlineAt, NoEof, Speculating
<1>5. CASE Checkpoint
  <2>1. saved' = saved /\ mark'[1].lexer = LexerCheckpoint
    BY <1>5 DEF Checkpoint
  <2>. QED  BY <1>0, <1>2, <1>3, <2>1 DEF SaneInv, SaneCheckpoint, Sane, NewlineAt, NoEof
<1>. QED  BY <1>4, <1>5

(* After a rewind the parser is not speculating. *)
LEMMA RewindEnds ==
    ASSUME TypeOK, Rewind
    PROVE  mark # <<>> /\ ~Speculating'
<1>1. mark # <<>> /\ mark \in Seq(MarkRecord)
  BY DEF TypeOK, Rewind, Speculating
<1>2. mark[1] \in MarkRecord /\ 1 \in DOMAIN mark
  BY <1>1
<1>3. mark'[1].rewound
  BY <1>2 DEF Rewind, MarkRecord
<1>. QED  BY <1>1, <1>3 DEF Speculating

(* A rewind puts back a lexer that was sane. *)
LEMMA SaneRewind ==
    ASSUME SaneInv, OrderInv', CleanInv', Rewind
    PROVE  SaneInv'
<1>0. /\ TypeOK /\ pc' = "idle" /\ pc = "idle" /\ Speculating /\ ~Speculating' /\ RestoreLexer(mark[1].lexer)
      /\ UNCHANGED <<src, saved>> /\ saved = <<>> /\ (relexed' # "fstring" => relexed # "fstring")
  BY RewindEnds DEF SaneInv, OrderInv, TypeInv, Rewind, SettledReLexed
<1>1. HistoryKept /\ mark[1].lexer.errors \in Nat
  BY <1>0, MarkedErrors DEF SaneInv
<1>2. errors' = mark[1].history[2]
  BY RewindRestores DEF SaneInv
<1>3. NoEof(Len(errors))' => NoEof(mark[1].lexer.errors)
  BY <1>1, <1>2 DEF HistoryKept, Prefix, NoEof
<1>4. (relexed # "fstring" /\ NoEof(Len(errors)) => SaneLexer)'
  BY <1>0, <1>3 DEF SaneInv, SaneLexer, SaneCheckpoint, RestoreLexer, Sane, SaneToken, NewlineAt
<1>. QED  BY <1>0, <1>4 DEF SaneInv

(* The parser gives up a list, outside of f-strings as long as it matters. *)
LEMMA SaneReLex ==
    ASSUME SaneInv, OrderInv', CleanInv', ReLex
    PROVE  SaneInv'
<1>0. /\ TypeOK /\ LexerTypeOK /\ pc = "idle"
      /\ UNCHANGED <<src, kind, fstrings, pending, errors, saved, mark>>
      /\ (relexed' # "fstring" => relexed # "fstring" /\ fstrings = <<>>)
  BY DEF SaneInv, OrderInv, TypeInv, TypeOK, ReLex, InFString, ReLexTarget, SettledReLexed
<1>1. ASSUME relexed' # "fstring", NoEof(Len(errors))
      PROVE  SaneLexer'
  <2>1. SaneLexer /\ fstrings = <<>> /\ nesting \in Nat
    BY <1>0, <1>1 DEF SaneInv, LexerTypeOK
  <2>2. CASE ReLexMoves
    <3>1. nesting > 0 /\ pc' = "next" /\ state' = "Other"
      BY <2>2 DEF ReLexMoves
    <3>2. pending = NoPending
      BY <2>1, <3>1 DEF SaneLexer, Sane
    <3>. QED  BY <1>0, <2>1, <3>1, <3>2 DEF SaneLexer, Sane, Nested
  <2>3. CASE ReLexStays
    <3>1. UNCHANGED <<pc, cursor, state>> /\ (nesting = 0 => nesting' = 0)
      BY <2>3 DEF ReLexStays, SaturatingDec
    <3>. QED  BY <1>0, <2>1, <3>1 DEF SaneLexer, Sane, SaneToken, Nested, InText, NewlineAt
  <2>. QED  BY <2>2, <2>3 DEF ReLex
<1>. QED  BY <1>0, <1>1, SaneCall

(* Init establishes the invariant. *)
LEMMA InitSane == Init => SaneInv
<1>. SUFFICES ASSUME Init PROVE SaneInv
  OBVIOUS
<1>1. OrderInv /\ CleanInv
  BY InitOrder, InitClean
<1>. QED  BY <1>1 DEF Init, LexerInit, SaneInv, SaneLexer, Sane, Nested, Speculating

(* Every step keeps it. *)
LEMMA NextSane == SaneInv /\ [Next]_vars => SaneInv'
<1>. SUFFICES ASSUME SaneInv, [Next]_vars PROVE SaneInv'
  OBVIOUS
<1>1. OrderInv' /\ CleanInv'
  BY NextOrder, NextClean DEF SaneInv
<1>. QED  BY <1>1, SaneStep, SaneReturn, SaneReturnPeek, SaneMark, SaneRewind, SaneReLex DEF Next

(* As long as the parser gives up no list inside an f-string and the file  *)
(* does not end within brackets, no context claims more open brackets than *)
(* there are, and the contexts nest: a stray `)` or `}` cannot make the    *)
(* lexer leave an f-string it is in or stay in one it has left, nor can a  *)
(* look-ahead, a rewind or a recovery elsewhere.                           *)
THEOREM ContextsNest == Spec => []FStringsNest
<1>1. SaneInv => FStringsNest
  BY DEF SaneInv, SaneLexer, Sane, Nested, NoEof, FStringsNest
<1>. QED  BY <1>1, InitSane, NextSane, PTL DEF Spec
-----------------------------------------------------------------------------
(* What is handed out when lists are given up. *)

(* The newlines among the trivia at the end of `t`. *)
TrailingNewlines(t) ==
    {i \in 1..Len(t) : t[i].kind = "NonLogicalNewline" /\ \A j \in i..Len(t) : t[j].kind \in Trivia}

(* No trivia end at the `l`-th of the tokens `t`. *)
NoTrivia(t, l) == l = 0 \/ t[l].kind \notin Trivia

(* An empty token in front of a line break is the error of an f-string,    *)
(* and no trivia stand before it.                                          *)
EmptyIsError(t, l, k, s, e) == s = e /\ NewlineAt(s) => k = "Unknown" /\ NoTrivia(t, l)

(* The first `n` errors start at or before `b`. *)
ErrorsUpTo(n, b) == \A i \in 1..n : errors[i].start <= b

(* With a current token of kind `k`, the parser that gives up a list goes  *)
(* back to no place before one of the first `n` errors.                    *)
NoErrorBehind(t, k, n) ==
    k # "Unknown" /\ NoEof(n) => \A i \in TrailingNewlines(t) : ErrorsUpTo(n, t[i].start)

(* After an unexpected end the lexer is at the end, and the parser has no  *)
(* newline to go back to.                                                  *)
EndReached(t, k, c, n) ==
    ~NoEof(n) => c = Len(src) /\ k \notin Trivia /\ (k # "Unknown" => TrailingNewlines(t) = {})

(* The lexer at rest after the tokens `t`, with the current token `k`. *)
ErrRest(t, k, r, c, n) ==
    /\ ErrorsUpTo(n, r[1])
    /\ EmptyIsError(t, Len(t), k, r[1], r[2])
    /\ NoErrorBehind(t, k, n)
    /\ EndReached(t, k, c, n)

(* The lexer on behalf of a bump. *)
ErrBump ==
    LET k == IF pc = "return" THEN kind ELSE "" IN
    /\ pc = "return" => EmptyIsError(tokens, Len(tokens), kind, range[1], range[2])
    /\ NoErrorBehind(tokens, k, Len(errors))
    /\ EndReached(tokens, k, cursor, Len(errors))
    /\ NoEof(Len(errors)) /\ (pc = "fstring" \/ (pc = "next" /\ InText(fstrings, nesting))) =>
          NoTrivia(tokens, Len(tokens))

(* The lexer on behalf of a re-lexing: it emits the line break. *)
ErrReLex ==
    /\ NoEof(Len(errors))
    /\ fstrings = <<>> /\ pending = NoPending
    /\ pc = "return" => kind \in {"Newline", "NonLogicalNewline"} /\ range[1] < range[2]

(* Errors are found in order, and nothing makes the lexer go back before   *)
(* one of them.                                                            *)
ErrorsInOrder ==
    /\ \A i, j \in 1..Len(errors) : i < j => errors[i].start <= errors[j].start
    /\ \A i \in 1..Len(errors) : From(errors[i].start)
    /\ \A j \in 1..Len(tokens) : EmptyIsError(tokens, j - 1, tokens[j].kind, tokens[j].start, tokens[j].end)
    /\ pc \in {"string", "escape"} => start < cursor
    /\ pc = "idle" => ErrRest(tokens, kind, range, cursor, Len(errors))
    /\ pc # "idle" /\ caller = "bump" => ErrBump
    /\ pc # "idle" /\ caller = "relex" => ErrReLex
    /\ saved # <<>> => ErrRest(tokens, saved[1].kind, saved[1].range, saved[1].cursor, saved[1].errors)
    /\ Speculating =>
          LET m == mark[1] IN
          ErrRest(m.history[1], m.lexer.kind, m.lexer.range, m.lexer.cursor, m.lexer.errors)

ErrInv == SaneInv /\ (relexed # "fstring" => ErrorsInOrder)
-----------------------------------------------------------------------------
(* The blocks among the tokens. *)
Of(t, k) == {i \in 1..Len(t) : t[i].kind = k}

(* Of the blocks opened by the tokens `t` and one of kind `k`, `d` are     *)
(* still open.                                                             *)
Blocks(t, k, d) ==
    Cardinality(Of(t, "Indent")) + (IF k = "Indent" THEN 1 ELSE 0) =
        Cardinality(Of(t, "Dedent")) + (IF k = "Dedent" THEN 1 ELSE 0) + d

NoIndentationError(n) == \A i \in 1..n : errors[i].error # "Indentation"

(* The current token, once it is one of those handed out. *)
CountedKind == IF pc = "idle" \/ (pc = "return" /\ caller = "bump") THEN kind ELSE ""

BlocksNow ==
    NoIndentationError(Len(errors)) /\ saved = <<>> => Blocks(tokens, CountedKind, Len(indentations))

BlocksSaved ==
    saved # <<>> /\ NoIndentationError(saved[1].errors) =>
        Blocks(tokens, saved[1].kind, Len(saved[1].indentations))

BlocksMarked ==
    Speculating /\ NoIndentationError(mark[1].lexer.errors) =>
        Blocks(mark[1].history[1], mark[1].lexer.kind, Len(mark[1].lexer.indentations))

BlocksInStep == BlocksNow /\ BlocksSaved /\ BlocksMarked

BlockInv == ErrInv /\ (relexed # "fstring" => BlocksInStep)
-----------------------------------------------------------------------------
(* The lexer counts at most the brackets of the lists the parser is in,    *)
(* and the current token.                                                  *)
Counted(n, k, l) == IF k \in Closing THEN n = 0 \/ n + 1 <= l
                    ELSE n <= l + IF k \in Opening THEN 1 ELSE 0

(* What a re-lexing has just returned. *)
ReLexedKind(k) ==
    /\ relexed = "line" /\ lists = <<>> => k = "Newline"
    /\ relexed = "list" => k = "NonLogicalNewline"

LinesCounted ==
    /\ pc = "idle" => Counted(nesting, kind, Len(lists)) /\ ReLexedKind(kind)
    /\ pc # "idle" /\ caller = "bump" =>
          Counted(nesting, IF pc = "return" THEN kind ELSE "", Len(lists)) /\ relexed = "settled"
    /\ pc # "idle" /\ caller = "relex" =>
          /\ nesting <= Len(lists)
          /\ relexed = "list" => nesting > 0
          /\ pc = "return" => ReLexedKind(kind)
    /\ saved # <<>> => Counted(saved[1].nesting, saved[1].kind, Len(lists)) /\ ReLexedKind(saved[1].kind)
    /\ Speculating => Counted(mark[1].lexer.nesting, mark[1].lexer.kind, Len(mark[1].lists))

LineInv == ErrInv /\ (relexed \notin {"bracket", "fstring"} => LinesCounted)
-----------------------------------------------------------------------------
(* At the end of the source the lexer stays there, and finds no trivia. *)
LEMMA AtEnd ==
    ASSUME LexerTypeOK, IsEof, LexStep
    PROVE  UNCHANGED cursor /\ (pc' = "return" => kind' \notin Trivia)
<1>0. \A n \in {1, 2, 3} : Char(n) = "nul"
  BY DEF LexerTypeOK, IsEof, Char, Offsets
<1>1. First = "nul"
  BY <1>0 DEF First
<1>2. CASE NextFStringToken
  <2>1. ~AtFStringEnd
    BY <1>0, <1>1 DEF AtFStringEnd
  <2>. QED  BY <1>2, <2>1 DEF NextFStringToken
<1>3. CASE NextDedent \/ NextPlain \/ EatIndentation \/ SkipEmptyLine \/ HandleIndentation
  BY <1>1, <1>3 DEF NextDedent, NextPlain, EatIndentation, SkipEmptyLine, checkpointVars, HandleIndentation,
         EnterLayout, AfterLayout, PushError, Trivia
<1>4. CASE SkipWhitespace
  BY <1>1, <1>4 DEF SkipWhitespace
<1>5. CASE LexChar
  <2>1. ConsumeEnd
    BY <1>1, <1>5 DEF LexChar, LexName, LexFStringStart, LexWord, LexComment, LexEqual, LexEscapeCharacter,
           LexOpening, LexRpar, LexRbrace, LexColon, LexNewline, LexUnrecognized, LexStringStart
  <2>. QED  BY <2>1 DEF ConsumeEnd, Token, PushError, Trivia
<1>6. CASE LexString
  <2>1. PushError(IF triple THEN "UnclosedString" ELSE "String", start, cursor) /\ UNCHANGED cursor
    BY <1>1, <1>6 DEF LexString
  <2>. QED  BY <2>1 DEF PushError, Trivia
<1>7. CASE LexFStringMiddle \/ LexFStringUnterminated \/ LexFStringText \/ LexEscapeCommand
  BY <1>1, <1>7 DEF LexFStringMiddle, LexFStringUnterminated, LexFStringText, LexEscapeCommand, Token, PushError,
         Trivia
<1>. QED  BY <1>2, <1>3, <1>4, <1>5, <1>6, <1>7 DEF LexStep

(* An unexpected end is only reported at the end. *)
LEMMA EofAtEnd ==
    ASSUME LexStep
    PROVE  \/ errors' = errors
           \/ \E t \in ErrorTypes \ {"Eof"}, s \in {start, cursor} :
                 errors' = Append(errors, [error |-> t, start |-> s])
           \/ cursor' = Len(src)
<1>1. CASE Continuation
  BY <1>1 DEF Continuation, Advance, PushError, ErrorTypes
<1>2. CASE ConsumeEnd
  BY <1>2 DEF ConsumeEnd, IsEof, Token, PushError
<1>. QED  BY <1>1, <1>2 DEF LexStep, NextFStringToken, NextDedent, NextPlain, EatIndentation, SkipEmptyLine,
       checkpointVars, HandleIndentation, SkipWhitespace, EnterLayout, AfterLayout, LexChar, LexName,
       LexFStringStart, LexWord, LexComment, LexEqual, LexEscapeCharacter, LexOpening, LexRpar, LexRbrace,
       LexColon, LexNewline, LexUnrecognized, LexStringStart, LexString,
       LexFStringMiddle, LexFStringUnterminated, LexFStringText, LexEscapeCommand, Token, PushError, Advance,
       ErrorTypes

(* The only empty token in front of a line break is the error of an        *)
(* f-string that is not terminated.                                        *)
LEMMA EmptyLex ==
    ASSUME LexerTypeOK, From(0), pc = "char" => cursor = start, LexStep,
           pending # NoPending => ~NewlineAt(cursor),
           pc \in {"string", "escape"} => start < cursor,
           pc' = "return", range'[1] = range'[2], NewlineAt(range'[1])
    PROVE  pc = "fstring" /\ kind' = "Unknown"
<1>0. cursor \in Nat /\ start \in Nat /\ cursor <= Len(src) /\ Len(src) \in Nat
  BY DEF LexerTypeOK, Offsets
<1>1. NewlineAt(cursor) <=> ~IsEof /\ First \in {"nl", "cr"}
  BY <1>0 DEF NewlineAt, IsEof, First, Char
<1>2. ~NextFStringToken
  BY <1>0 DEF NextFStringToken
<1>3. ~NextDedent
  BY <1>0 DEF NextDedent, PushError, EnterLayout, AfterLayout
<1>4. ~NextPlain /\ ~SkipEmptyLine
  BY DEF NextPlain, EnterLayout, AfterLayout, SkipEmptyLine
<1>5. ASSUME pc \in {"indent", "space"}, Continuation PROVE FALSE
  <2>1. start <= cursor
    BY <1>5 DEF From
  <2>. QED  BY <1>0, <1>5, <2>1 DEF Continuation, Advance, PushError
<1>6. ~EatIndentation /\ ~SkipWhitespace
  BY <1>5 DEF EatIndentation, SkipWhitespace, Advance
<1>7. ~HandleIndentation
  <2>. SUFFICES ASSUME HandleIndentation PROVE FALSE
    OBVIOUS
  <2>1. range'[2] = cursor
    BY DEF HandleIndentation, PushError
  <2>. QED  BY <1>1, <2>1 DEF HandleIndentation
<1>8. ~LexChar
  <2>. SUFFICES ASSUME LexChar PROVE FALSE
    OBVIOUS
  <2>1. pc = "char"
    BY DEF LexChar, LexName, LexFStringStart, LexWord, LexComment, LexEqual, LexEscapeCharacter,
           LexOpening, LexRpar, LexRbrace, LexColon, LexNewline, LexUnrecognized, LexStringStart, ConsumeEnd
  <2>2. range'[1] = cursor
    BY <2>1 DEF LexChar, LexName, LexFStringStart, LexWord, LexComment, LexEqual, LexEscapeCharacter, LexOpening,
           LexRpar, LexRbrace, LexColon, LexNewline, LexUnrecognized, LexStringStart, ConsumeEnd, Token, PushError
  <2>3. LexNewline
    BY <1>1, <2>2 DEF LexChar, LexName, LexFStringStart, LexWord, LexComment, LexEqual, LexEscapeCharacter,
           LexOpening, LexRpar, LexRbrace, LexColon, LexUnrecognized, LexStringStart, ConsumeEnd
  <2>. DEFINE e == IF First = "cr" THEN Eat(cursor + 1, "nl") ELSE cursor + 1
  <2>4. e \in Nat /\ cursor + 1 <= e
    <3>1. Eat(cursor + 1, "nl") \in Nat /\ cursor + 1 <= Eat(cursor + 1, "nl")
      BY <1>0, EatForward
    <3>. QED  BY <1>0, <3>1
  <2>5. \E k \in Kinds : Token(k, e)
    BY <2>3 DEF LexNewline, Kinds
  <2>. HIDE DEF e
  <2>6. range'[2] = e
    BY <2>5 DEF Token
  <2>7. cursor = e
    BY <2>2, <2>6
  <2>. QED  BY <1>0, <2>4, <2>7
<1>9. ~LexString /\ ~LexEscapeCommand
  <2>. SUFFICES ASSUME LexString \/ LexEscapeCommand PROVE FALSE
    OBVIOUS
  <2>1. start < cursor
    BY DEF LexString, LexEscapeCommand
  <2>2. range'[1] = start /\ range'[2] \in {cursor, cursor + 1, cursor + 3}
    BY DEF LexString, LexEscapeCommand, Token, PushError, Advance
  <2>. QED  BY <1>0, <2>1, <2>2
<1>10. ~LexFStringMiddle /\ ~LexFStringText
  BY <1>0 DEF LexFStringMiddle, LexFStringText, EnterLayout, AfterLayout, Token, Advance
<1>11. LexFStringUnterminated
  BY <1>2, <1>3, <1>4, <1>6, <1>7, <1>8, <1>9, <1>10 DEF LexStep
<1>. QED  BY <1>11 DEF LexFStringUnterminated, PushError

(* Moved back to a line break, the lexer emits no bracket. *)
LEMMA BreakHasNoBracket ==
    ASSUME LexerTypeOK, LexStep, NEW p \in Nat, NewlineAt(p), At(p), pc = "char" => cursor = start
    PROVE  nesting' = nesting /\ (pc' = "return" => kind' \notin Opening \cup Closing)
<1>0. cursor \in Nat /\ Len(src) \in Nat
  BY DEF LexerTypeOK, Offsets
<1>1. pc \in {"next", "space", "char"} => First \in {"nl", "cr"} /\ ~IsEof
  BY <1>0 DEF At, NewlineAt, First, Char, IsEof
<1>2. pc \in {"next", "space", "char", "fstring", "return"}
  BY DEF At
<1>3. CASE LexChar
  <2>1. LexNewline
    BY <1>1, <1>3 DEF LexChar, LexName, LexFStringStart, LexWord, LexComment, LexEqual, LexEscapeCharacter,
           LexOpening, LexRpar, LexRbrace, LexColon, LexUnrecognized, LexStringStart, ConsumeEnd
  <2>. QED  BY <2>1 DEF LexNewline, Token, Opening, Closing
<1>. QED  BY <1>1, <1>2, <1>3 DEF LexStep, NextFStringToken, NextDedent, NextPlain, EnterLayout, AfterLayout,
            EatIndentation, SkipEmptyLine, HandleIndentation, SkipWhitespace, LexString, LexFStringMiddle,
            LexFStringUnterminated, LexFStringText, LexEscapeCommand, Token, PushError, Advance, Opening, Closing

(* Outside of f-strings it emits the line break, logical if and only if no *)
(* bracket is open.                                                        *)
LEMMA BreakIsEmitted ==
    ASSUME LexerTypeOK, LexStep, NEW p \in Nat, NewlineAt(p), At(p), pc = "char" => cursor = start,
           fstrings = <<>>, pending = NoPending, pc # "fstring"
    PROVE  /\ errors' = errors /\ fstrings' = <<>> /\ pending' = NoPending
           /\ indentations' = indentations /\ nesting' = nesting
           /\ pc' \in {"space", "char", "return"}
           /\ pc' = "return" => /\ kind' = IF nesting = 0 THEN "Newline" ELSE "NonLogicalNewline"
                                /\ range'[1] < range'[2]
<1>0. cursor \in Nat /\ Len(src) \in Nat
  BY DEF LexerTypeOK, Offsets
<1>1. pc \in {"next", "space", "char"} => First \in {"nl", "cr"} /\ ~IsEof /\ state = "Other"
  BY <1>0 DEF At, NewlineAt, First, Char, IsEof
<1>2. pc \in {"next", "space", "char", "fstring", "return"}
  BY DEF At
<1>3. CASE NextPlain
  BY <1>1, <1>3 DEF NextPlain, EnterLayout, AfterLayout
<1>4. CASE SkipWhitespace
  BY <1>1, <1>4 DEF SkipWhitespace
<1>5. CASE LexChar
  <2>0. pc = "char"
    BY <1>5 DEF LexChar, LexName, LexFStringStart, LexWord, LexComment, LexEqual, LexEscapeCharacter,
           LexOpening, LexRpar, LexRbrace, LexColon, LexNewline, LexUnrecognized, LexStringStart, ConsumeEnd
  <2>1. LexNewline
    BY <1>1, <1>5 DEF LexChar, LexName, LexFStringStart, LexWord, LexComment, LexEqual, LexEscapeCharacter,
           LexOpening, LexRpar, LexRbrace, LexColon, LexUnrecognized, LexStringStart, ConsumeEnd
  <2>. DEFINE e == IF First = "cr" THEN Eat(cursor + 1, "nl") ELSE cursor + 1
  <2>2. e \in Nat /\ start < e
    <3>1. Eat(cursor + 1, "nl") \in Nat /\ cursor + 1 <= Eat(cursor + 1, "nl")
      BY <1>0, EatForward
    <3>. QED  BY <1>0, <2>0, <3>1
  <2>3. /\ Token(IF nesting = 0 THEN "Newline" ELSE "NonLogicalNewline", e)
        /\ UNCHANGED <<pending, indentations, nesting>>
        /\ fstrings' = fstrings
    BY <1>1, <2>0, <2>1 DEF LexNewline, TryEndFormatSpec, IsNewLogicalLine
  <2>. HIDE DEF e
  <2>. QED  BY <2>2, <2>3 DEF Token
<1>6. ~NextFStringToken /\ ~NextDedent
  BY DEF NextFStringToken, NextDedent
<1>7. CASE LexFStringMiddle \/ LexFStringUnterminated \/ LexFStringText
  <2>1. pc = "fstring"
    BY <1>7 DEF LexFStringMiddle, LexFStringUnterminated, LexFStringText
  <2>. QED  BY <1>7, <2>1
<1>. QED  BY <1>1, <1>2, <1>3, <1>4, <1>5, <1>6, <1>7 DEF LexStep,
            EatIndentation, SkipEmptyLine, HandleIndentation, LexString, LexEscapeCommand
-----------------------------------------------------------------------------
(* The newlines a recovery would go back to after another token. *)
LEMMA TrailingAppend ==
    ASSUME NEW t \in Seq(TokenRecord), NEW x \in TokenRecord, NEW i \in TrailingNewlines(Append(t, x))
    PROVE  /\ x.kind \in Trivia
           /\ \/ i \in TrailingNewlines(t) /\ Append(t, x)[i] = t[i]
              \/ Append(t, x)[i] = x
<1>. DEFINE u == Append(t, x)
            n == Len(t)
<1>1. n \in Nat /\ Len(u) = n + 1 /\ u[n + 1] = x /\ \A j \in 1..n : u[j] = t[j]
  OBVIOUS
<1>2. i \in 1..Len(u) /\ u[i].kind = "NonLogicalNewline" /\ \A j \in i..Len(u) : u[j].kind \in Trivia
  BY DEF TrailingNewlines
<1>. HIDE DEF u
<1>3. x.kind \in Trivia
  <2>1. n + 1 \in i..Len(u)
    BY <1>1, <1>2
  <2>. QED  BY <1>1, <1>2, <2>1
<1>4. CASE i \in 1..n
  <2>1. \A j \in i..n : j \in 1..n /\ j \in i..Len(u)
    BY <1>1, <1>4
  <2>2. u[i] = t[i] /\ t[i].kind = "NonLogicalNewline" /\ \A j \in i..n : t[j].kind \in Trivia
    BY <1>1, <1>2, <1>4, <2>1
  <2>3. i \in TrailingNewlines(t)
    BY <1>4, <2>2 DEF TrailingNewlines, n
  <2>. QED  BY <1>3, <2>2, <2>3 DEF u
<1>5. CASE i = n + 1
  BY <1>1, <1>3, <1>5 DEF u
<1>. QED  BY <1>1, <1>2, <1>4, <1>5

(* They are where the parser goes back to. *)
LEMMA TrailingTokens == TrailingNewlines(tokens) = NonLogicalNewlines
BY DEF TrailingNewlines, NonLogicalNewlines, TrailingTrivia

(* What is known of a lexer at rest only depends on its errors. *)
LEMMA ErrRestKept ==
    ASSUME src' = src, NEW n \in Nat, \A i \in 1..n : errors'[i] = errors[i],
           NEW t, NEW k, NEW r, NEW c, ErrRest(t, k, r, c, n)
    PROVE  ErrRest(t, k, r, c, n)'
<1>1. NoEof(n)' <=> NoEof(n)
  BY NoEofKept
<1>2. \A b : ErrorsUpTo(n, b)' <=> ErrorsUpTo(n, b)
  BY DEF ErrorsUpTo
<1>3. EmptyIsError(t, Len(t), k, r[1], r[2])'
  BY DEF ErrRest, EmptyIsError, NewlineAt
<1>4. NoErrorBehind(t, k, n)'
  BY <1>1, <1>2 DEF ErrRest, NoErrorBehind
<1>5. EndReached(t, k, c, n)'
  BY <1>1 DEF ErrRest, EndReached
<1>. QED  BY <1>2, <1>3, <1>4, <1>5 DEF ErrRest

(* The current token is collected. *)
LEMMA ErrAppend ==
    ASSUME LexerTypeOK, tokens \in Seq(TokenRecord), CurrentToken \in TokenRecord, NEW n \in Nat,
           ErrRest(tokens, kind, range, cursor, n),
           \A j \in 1..Len(tokens) : EmptyIsError(tokens, j - 1, tokens[j].kind, tokens[j].start, tokens[j].end)
    PROVE  LET t == Append(tokens, CurrentToken) IN
           /\ \A j \in 1..Len(t) : EmptyIsError(t, j - 1, t[j].kind, t[j].start, t[j].end)
           /\ NoErrorBehind(t, "", n)
           /\ EndReached(t, "", cursor, n)
<1>. DEFINE t == Append(tokens, CurrentToken)
            l == Len(tokens)
<1>0. CurrentToken.kind = kind /\ CurrentToken.start = range[1] /\ CurrentToken.end = range[2]
  BY DEF CurrentToken
<1>1. l \in Nat /\ Len(t) = l + 1 /\ t[l + 1] = CurrentToken /\ \A j \in 1..l : t[j] = tokens[j]
  OBVIOUS
<1>2. \A i \in TrailingNewlines(t) :
          /\ kind \in Trivia
          /\ \/ i \in TrailingNewlines(tokens) /\ t[i] = tokens[i]
             \/ t[i] = CurrentToken
  BY <1>0, TrailingAppend
<1>. HIDE DEF t
<1>3. \A j \in 1..Len(t) : EmptyIsError(t, j - 1, t[j].kind, t[j].start, t[j].end)
  <2>. TAKE j \in 1..Len(t)
  <2>1. CASE j = l + 1
    <3>1. EmptyIsError(tokens, l, kind, range[1], range[2])
      BY DEF ErrRest, l
    <3>2. l = 0 \/ t[l] = tokens[l]
      BY <1>1
    <3>3. t[j] = CurrentToken /\ j - 1 = l
      BY <1>1, <2>1
    <3>. QED  BY <1>0, <3>1, <3>2, <3>3 DEF EmptyIsError, NoTrivia
  <2>2. CASE j \in 1..l
    <3>1. EmptyIsError(tokens, j - 1, t[j].kind, t[j].start, t[j].end)
      BY <1>1, <2>2 DEF l
    <3>2. j - 1 = 0 \/ t[j - 1] = tokens[j - 1]
      <4>1. j - 1 = 0 \/ j - 1 \in 1..l
        BY <1>1, <2>2
      <4>. QED  BY <1>1, <4>1
    <3>. QED  BY <3>1, <3>2 DEF EmptyIsError, NoTrivia
  <2>. QED  BY <1>1, <2>1, <2>2
<1>4. NoErrorBehind(t, "", n)
  <2>. SUFFICES ASSUME NoEof(n), NEW i \in TrailingNewlines(t)
                PROVE  ErrorsUpTo(n, t[i].start)
    BY DEF NoErrorBehind
  <2>1. kind \in Trivia /\ kind # "Unknown"
    BY <1>2 DEF Trivia
  <2>2. CASE i \in TrailingNewlines(tokens) /\ t[i] = tokens[i]
    BY <2>1, <2>2 DEF ErrRest, NoErrorBehind
  <2>3. CASE t[i] = CurrentToken
    BY <1>0, <2>3 DEF ErrRest
  <2>. QED  BY <1>2, <2>2, <2>3
<1>5. EndReached(t, "", cursor, n)
  <2>. SUFFICES ASSUME ~NoEof(n)
                PROVE  cursor = Len(src) /\ TrailingNewlines(t) = {}
    BY DEF EndReached, Trivia
  <2>1. cursor = Len(src) /\ kind \notin Trivia
    BY DEF ErrRest, EndReached
  <2>. QED  BY <1>2, <2>1
<1>. QED  BY <1>3, <1>4, <1>5 DEF t

(* The lexer goes on on behalf of a bump. *)
LEMMA ErrLexBump ==
    ASSUME SaneInv, ErrorsInOrder, LexStep, UNCHANGED <<src, tokens>>, pc # "idle", caller = "bump",
           relexed # "fstring"
    PROVE  ErrBump'
<1>0. /\ LexerTypeOK /\ From(0) /\ (pc = "char" => cursor = start) /\ ErrBump /\ pc # "return"
      /\ TypeInv
  BY LexErrors DEF SaneInv, OrderInv, TypeInv, TypeOK, ErrorsInOrder
<1>1. errors \in Seq(ErrorRecord) /\ Len(errors) \in Nat /\ cursor <= Len(src)
  BY <1>0 DEF LexerTypeOK, Offsets
<1>2. NoErrorBehind(tokens, "", Len(errors)) /\ EndReached(tokens, "", cursor, Len(errors))
  BY <1>0 DEF ErrBump
<1>3. \/ errors' = errors
      \/ /\ pc' = "return" /\ kind' = "Unknown" /\ Len(errors') = Len(errors) + 1
         /\ \A i \in 1..Len(errors) : errors'[i] = errors[i]
         /\ errors'[Len(errors) + 1].error # "Eof" \/ cursor' = Len(src)
  <2>1. CASE errors' # errors
    <3>1. PICK t \in ErrorTypes, s \in {start, cursor} :
              errors' = Append(errors, [error |-> t, start |-> s]) /\ pc' = "return" /\ kind' = "Unknown"
      BY <2>1, LexErrors
    <3>2. Len(errors') = Len(errors) + 1 /\ (\A i \in 1..Len(errors) : errors'[i] = errors[i])
          /\ errors'[Len(errors) + 1] = [error |-> t, start |-> s]
      <4>1. start \in Nat /\ cursor \in Nat
        BY <1>0 DEF LexerTypeOK, Offsets
      <4>2. [error |-> t, start |-> s] \in ErrorRecord
        BY <4>1 DEF ErrorRecord
      <4>. QED  BY <1>1, <3>1, <4>2
    <3>3. CASE \E u \in ErrorTypes \ {"Eof"}, v \in {start, cursor} :
                   errors' = Append(errors, [error |-> u, start |-> v])
      <4>1. PICK u \in ErrorTypes \ {"Eof"}, v \in {start, cursor} :
                   errors' = Append(errors, [error |-> u, start |-> v])
        BY <3>3
      <4>2. errors'[Len(errors) + 1] = [error |-> u, start |-> v]
        <5>1. start \in Nat /\ cursor \in Nat
          BY <1>0 DEF LexerTypeOK, Offsets
        <5>2. [error |-> u, start |-> v] \in ErrorRecord
          BY <5>1 DEF ErrorRecord
        <5>. QED  BY <1>1, <4>1, <5>2
      <4>3. errors'[Len(errors) + 1].error # "Eof"
        BY <4>2
      <4>. QED  BY <3>1, <3>2, <4>3
    <3>4. CASE cursor' = Len(src)
      BY <3>1, <3>2, <3>4
    <3>. QED  BY <2>1, <3>3, <3>4, EofAtEnd
  <2>. QED  BY <2>1
<1>4. pc' # "idle" /\ pc' # "next"
  <2>1. Moves
    BY <1>0, LexMoves
  <2>. QED  BY <2>1 DEF Moves, Emits, Continues
<1>5. NoEof(Len(errors))' => NoEof(Len(errors))
  BY <1>1, <1>3 DEF NoEof
<1>6. ~NoEof(Len(errors))' => cursor' = Len(src)
  <2>1. CASE ~NoEof(Len(errors))
    <3>1. IsEof
      BY <1>2, <2>1 DEF EndReached, IsEof
    <3>. QED  BY <1>0, <3>1, AtEnd DEF IsEof
  <2>2. CASE NoEof(Len(errors))
    BY <1>1, <1>3, <2>2 DEF NoEof
  <2>. QED  BY <2>1, <2>2
<1>7. ~NoEof(Len(errors))' /\ pc' = "return" => kind' \notin Trivia
  <2>1. CASE ~NoEof(Len(errors))
    <3>1. IsEof
      BY <1>2, <2>1 DEF EndReached, IsEof
    <3>. QED  BY <1>0, <3>1, AtEnd
  <2>2. CASE NoEof(Len(errors))
    BY <1>1, <1>3, <2>2 DEF NoEof, Trivia
  <2>. QED  BY <2>1, <2>2
<1>8. (pc' = "return" /\ kind' # "Unknown" => errors' = errors) /\ (pc' # "return" => errors' = errors)
  BY <1>3
<1>. DEFINE k == IF pc' = "return" THEN kind' ELSE ""
<1>9. k # "Unknown" => errors' = errors
  BY <1>8
<1>10. NoErrorBehind(tokens, IF pc = "return" THEN kind ELSE "", Len(errors))'
  BY <1>2, <1>9 DEF NoErrorBehind, NoEof, ErrorsUpTo, TrailingNewlines
<1>11. EndReached(tokens, IF pc = "return" THEN kind ELSE "", cursor, Len(errors))'
  BY <1>2, <1>6, <1>7, <1>9 DEF EndReached, TrailingNewlines, NoEof, Trivia
<1>12. ASSUME NoEof(Len(errors))', pc' = "fstring"
       PROVE  NoTrivia(tokens, Len(tokens))
  <2>1. pc = "fstring" \/ NextFStringToken
    BY <1>12 DEF LexStep, NextFStringToken, NextDedent, NextPlain, EatIndentation, SkipEmptyLine, checkpointVars,
         HandleIndentation, SkipWhitespace, Continuation, EnterLayout, AfterLayout, LexChar, LexName,
         LexFStringStart, LexWord, LexComment, LexEqual, LexEscapeCharacter, LexOpening, LexRpar, LexRbrace,
         LexColon, LexNewline, LexUnrecognized, LexStringStart, ConsumeEnd, LexString, LexFStringMiddle,
         LexFStringUnterminated, LexFStringText, LexEscapeCommand, Token, PushError, Advance
  <2>2. NextFStringToken => pc = "next" /\ InText(fstrings, nesting)
    BY <1>0, TextContext DEF NextFStringToken
  <2>. QED  BY <1>0, <1>5, <1>12, <2>1, <2>2 DEF ErrBump
<1>13. ASSUME pc' = "return"
       PROVE  EmptyIsError(tokens, Len(tokens), kind, range[1], range[2])'
  <2>. SUFFICES ASSUME range'[1] = range'[2], NewlineAt(range'[1])
                PROVE  kind' = "Unknown" /\ NoTrivia(tokens, Len(tokens))
    BY DEF EmptyIsError, NewlineAt, NoTrivia
  <2>1. NoEof(Len(errors))
    <3>. SUFFICES ASSUME ~NoEof(Len(errors)) PROVE FALSE
      OBVIOUS
    <3>1. IsEof
      BY <1>2 DEF EndReached, IsEof
    <3>2. cursor' = Len(src)
      BY <1>0, <3>1, AtEnd DEF IsEof
    <3>3. cursor' = range'[2]
      <4>1. Moves
        BY <1>0, LexMoves
      <4>. QED  BY <1>13, <4>1 DEF Moves, Emits, Continues
    <3>4. range'[1] = Len(src)
      BY <3>2, <3>3
    <3>5. Len(src) \in Nat
      BY <1>0 DEF LexerTypeOK
    <3>. QED  BY <3>4, <3>5 DEF NewlineAt
  <2>2. SaneLexer
    BY <2>1 DEF SaneInv
  <2>3. pc = "fstring" /\ kind' = "Unknown"
    BY <1>0, <1>13, <2>2, EmptyLex DEF SaneLexer, Sane, ErrorsInOrder
  <2>. QED  BY <1>0, <2>1, <2>3 DEF ErrBump
<1>. QED  BY <1>4, <1>10, <1>11, <1>12, <1>13 DEF ErrBump, NoTrivia

(* The lexer goes on on behalf of a re-lexing. *)
LEMMA ErrLexReLex ==
    ASSUME SaneInv, ErrorsInOrder, LexStep, UNCHANGED <<src, tokens>>, pc # "idle", caller = "relex"
    PROVE  /\ ErrReLex' /\ errors' = errors /\ indentations' = indentations /\ nesting' = nesting
           /\ pc' \in {"space", "char", "return"}
           /\ pc' = "return" => kind' = IF nesting = 0 THEN "Newline" ELSE "NonLogicalNewline"
<1>0. /\ LexerTypeOK /\ tokens \in Seq(TokenRecord) /\ (pc = "char" => cursor = start) /\ ErrReLex
      /\ pc # "fstring"
  BY DEF SaneInv, OrderInv, TypeInv, TypeOK, ErrorsInOrder, ErrReLex
<1>1. PICK i \in NonLogicalNewlines : At(tokens[i].start)
  BY DEF SaneInv, OrderInv
<1>2. i \in 1..Len(tokens) /\ tokens[i].kind = "NonLogicalNewline"
  BY DEF NonLogicalNewlines, TrailingTrivia
<1>3. tokens[i].start \in Nat /\ NewlineAt(tokens[i].start)
  <2>1. tokens[i] \in TokenRecord
    BY <1>0, <1>2
  <2>. QED  BY <1>2, <2>1 DEF SaneInv, OrderInv, Ordered, Extent, TokenRecord, Offsets
<1>4. \A p \in Nat : NewlineAt(p) /\ At(p) =>
          /\ errors' = errors /\ fstrings' = <<>> /\ pending' = NoPending
          /\ indentations' = indentations /\ nesting' = nesting
          /\ pc' \in {"space", "char", "return"}
          /\ pc' = "return" => /\ kind' = IF nesting = 0 THEN "Newline" ELSE "NonLogicalNewline"
                               /\ range'[1] < range'[2]
  BY <1>0, BreakIsEmitted DEF ErrReLex
<1>5. /\ errors' = errors /\ fstrings' = <<>> /\ pending' = NoPending
      /\ indentations' = indentations /\ nesting' = nesting
      /\ pc' \in {"space", "char", "return"}
      /\ pc' = "return" => kind' = (IF nesting = 0 THEN "Newline" ELSE "NonLogicalNewline") /\ range'[1] < range'[2]
  BY <1>1, <1>3, <1>4
<1>. QED  BY <1>0, <1>5 DEF ErrReLex, NoEof

(* The lexer goes on. *)
LEMMA ErrLex ==
    ASSUME ErrInv, SaneInv', Lex
    PROVE  ErrInv'
<1>. SUFFICES ASSUME relexed # "fstring"
              PROVE  ErrorsInOrder'
  BY DEF ErrInv, Lex, sourceVars
<1>0. /\ SaneInv /\ ErrorsInOrder /\ LexerTypeOK /\ LexerTypeOK' /\ LexStep /\ TypeOK /\ src' = src
      /\ From(0) /\ (pc = "char" => cursor = start)
      /\ UNCHANGED <<tokens, caller, saved, mark, bumped>>
  <2>1. src' = src
    BY DEF Lex, LexStep, NextFStringToken, NextDedent, NextPlain, EatIndentation, SkipEmptyLine,
         HandleIndentation, SkipWhitespace, LexChar, LexName, LexFStringStart, LexWord, LexComment,
         LexEqual, LexEscapeCharacter, LexOpening, LexRpar, LexRbrace, LexColon, LexNewline, LexUnrecognized,
         LexStringStart, ConsumeEnd, LexString, LexFStringMiddle, LexFStringUnterminated, LexFStringText,
         LexEscapeCommand
  <2>. QED  BY <2>1 DEF ErrInv, SaneInv, OrderInv, TypeInv, TypeOK, Lex, sourceVars
<1>1. pc \notin {"idle", "return"} /\ Moves /\ pc' # "idle"
  <2>1. pc \notin {"idle", "return"} /\ Moves
    BY <1>0, LexErrors, LexMoves
  <2>. QED  BY <2>1 DEF Moves, Emits, Continues
<1>2. errors \in Seq(ErrorRecord) /\ Len(errors) \in Nat /\ cursor \in Nat /\ start \in Nat
  BY <1>0 DEF LexerTypeOK, Offsets
<1>3. \/ errors' = errors
      \/ \E s \in {start, cursor} :
            /\ Len(errors') = Len(errors) + 1 /\ (\A i \in 1..Len(errors) : errors'[i] = errors[i])
            /\ errors'[Len(errors) + 1].start = s /\ pc' = "return" /\ range'[1] = s
  <2>1. CASE errors' # errors
    <3>1. PICK t \in ErrorTypes, s \in {start, cursor} :
              errors' = Append(errors, [error |-> t, start |-> s]) /\ pc' = "return" /\ range'[1] = s
      BY <1>0, <2>1, LexErrors
    <3>2. [error |-> t, start |-> s] \in ErrorRecord
      BY <1>2 DEF ErrorRecord
    <3>. QED  BY <1>2, <3>1, <3>2
  <2>. QED  BY <2>1
<1>4. \A b \in Nat : From(b) => From(b)'
  BY <1>0, <1>1, MovesFrom
<1>5. \A i \in 1..Len(errors) : errors[i].start \in Nat /\ From(errors[i].start)
  <2>1. \A i \in 1..Len(errors) : errors[i] \in ErrorRecord
    BY <1>2
  <2>. QED  BY <1>0, <2>1 DEF ErrorRecord, ErrorsInOrder
<1>6. (\A i \in 1..Len(errors) : From(errors[i].start))'
  <2>. DEFINE Bound(b) == /\ pc' = "next" => b <= cursor'
                          /\ pc' \notin {"idle", "next", "return"} => b <= start' /\ start' <= cursor'
                          /\ pc' = "return" => b <= range'[1]
  <2>1. \A b \in Nat : From(b) => Bound(b)
    BY <1>4 DEF From
  <2>2. \A i \in 1..Len(errors) : Bound(errors[i].start)
    BY <1>5, <2>1
  <2>3. \A i \in 1..Len(errors') : Bound(errors'[i].start)
    <3>1. CASE errors' = errors
      BY <2>2, <3>1
    <3>2. CASE errors' # errors
      <4>1. PICK s \in {start, cursor} :
                /\ Len(errors') = Len(errors) + 1 /\ (\A i \in 1..Len(errors) : errors'[i] = errors[i])
                /\ errors'[Len(errors) + 1].start = s /\ pc' = "return" /\ range'[1] = s
        BY <1>3, <3>2
      <4>. TAKE i \in 1..Len(errors')
      <4>2. CASE i \in 1..Len(errors)
        BY <2>2, <4>1, <4>2
      <4>3. CASE i = Len(errors) + 1
        <5>1. errors'[i].start = s /\ s \in Nat
          BY <1>2, <4>1, <4>3
        <5>. QED  BY <4>1, <5>1
      <4>. QED  BY <1>2, <4>1, <4>2, <4>3
    <3>. QED  BY <3>1, <3>2
  <2>. QED  BY <2>3 DEF From
<1>7. (\A i, j \in 1..Len(errors) : i < j => errors[i].start <= errors[j].start)'
  <2>1. CASE errors' = errors
    BY <1>0, <2>1 DEF ErrorsInOrder
  <2>2. CASE errors' # errors
    <3>1. PICK s \in {start, cursor} :
            /\ Len(errors') = Len(errors) + 1 /\ (\A i \in 1..Len(errors) : errors'[i] = errors[i])
            /\ errors'[Len(errors) + 1].start = s /\ pc' = "return" /\ range'[1] = s
      BY <1>3, <2>2
    <3>. TAKE i, j \in 1..Len(errors')
    <3>. HAVE i < j
    <3>2. i \in 1..Len(errors)
      BY <1>2, <3>1
    <3>3. CASE j \in 1..Len(errors)
      BY <1>0, <3>1, <3>2, <3>3 DEF ErrorsInOrder
    <3>4. CASE j = Len(errors) + 1
      <4>1. errors'[i].start <= range'[1]
        BY <1>6, <3>1 DEF From
      <4>. QED  BY <3>1, <3>4, <4>1
    <3>. QED  BY <1>2, <3>1, <3>3, <3>4
  <2>. QED  BY <2>1, <2>2
<1>8. (\A j \in 1..Len(tokens) :
          EmptyIsError(tokens, j - 1, tokens[j].kind, tokens[j].start, tokens[j].end))'
  BY <1>0 DEF ErrorsInOrder, EmptyIsError, NewlineAt, NoTrivia
<1>9. (pc \in {"string", "escape"} => start < cursor)'
  <2>1. CASE pc \in {"string", "escape"}
    <3>1. start < cursor
      BY <1>0, <2>1 DEF ErrorsInOrder
    <3>2. ~IsEof => AfterEscaped \in Nat /\ cursor <= AfterEscaped
      BY <1>0, EscapedForward
    <3>3. First \in {"bs", "quote"} => ~IsEof
      BY <1>0 DEF First, Char, IsEof, LexerTypeOK, Offsets
    <3>4. pc' \in {"string", "escape"} => start' = start /\ cursor' \in {cursor + 1, AfterEscaped}
                                          /\ (cursor' = AfterEscaped => ~IsEof \/ cursor' = cursor + 1)
      BY <1>0, <2>1, <3>3 DEF LexStep, NextFStringToken, NextDedent, NextPlain, EatIndentation, SkipEmptyLine,
         HandleIndentation, SkipWhitespace, LexChar, LexName, LexFStringStart, LexWord, LexComment,
         LexEqual, LexEscapeCharacter, LexOpening, LexRpar, LexRbrace, LexColon, LexNewline, LexUnrecognized,
         LexStringStart, ConsumeEnd, LexString, LexFStringMiddle, LexFStringUnterminated, LexFStringText,
         LexEscapeCommand, Token, PushError, Advance, localVars
    <3>. QED  BY <1>2, <3>1, <3>2, <3>4
  <2>2. CASE pc \notin {"string", "escape"}
    <3>1. pc' \in {"string", "escape"} => LexStringStart \/ LexEscapeCharacter
      BY <1>0, <2>2 DEF LexStep, NextFStringToken, NextDedent, NextPlain, EatIndentation, SkipEmptyLine, checkpointVars,
         HandleIndentation, SkipWhitespace, Continuation, EnterLayout, AfterLayout, LexChar, LexName,
         LexFStringStart, LexWord, LexComment, LexEqual, LexOpening, LexRpar, LexRbrace,
         LexColon, LexNewline, LexUnrecognized, ConsumeEnd, LexString, LexFStringMiddle,
         LexFStringUnterminated, LexFStringText, LexEscapeCommand, Token, PushError, Advance
    <3>2. LexStringStart => start' < cursor'
      BY <1>0, <1>2 DEF LexStringStart
    <3>3. Eat(cursor + 1, "esc") \in Nat /\ cursor + 1 <= Eat(cursor + 1, "esc")
      BY <1>2, EatForward
    <3>4. LexEscapeCharacter /\ pc' # "return" => start' = start /\ pc = "char" /\ cursor' \in {cursor + 1, Eat(cursor + 1, "esc")}
      BY DEF LexEscapeCharacter, Token, localVars
    <3>. QED  BY <1>0, <1>2, <3>1, <3>2, <3>3, <3>4
  <2>. QED  BY <2>1, <2>2
<1>10. (pc # "idle" /\ caller = "bump" => ErrBump)'
  BY <1>0, <1>1, ErrLexBump
<1>11. (pc # "idle" /\ caller = "relex" => ErrReLex)'
  BY <1>0, <1>1, ErrLexReLex
<1>12. \A i \in 1..Len(errors) : errors'[i] = errors[i]
  BY <1>3
<1>13. (saved # <<>> => ErrRest(tokens, saved[1].kind, saved[1].range, saved[1].cursor, saved[1].errors))'
  <2>. SUFFICES ASSUME saved # <<>>
                PROVE  ErrRest(tokens, saved[1].kind, saved[1].range, saved[1].cursor, saved[1].errors)'
    BY <1>0
  <2>1. saved[1].errors \in Nat /\ saved[1].errors <= Len(errors)
    BY <1>0, SavedType DEF SaneInv, OrderInv
  <2>2. \A i \in 1..saved[1].errors : errors'[i] = errors[i]
    BY <1>2, <1>12, <2>1
  <2>3. ErrRest(tokens, saved[1].kind, saved[1].range, saved[1].cursor, saved[1].errors)
    BY <1>0 DEF ErrorsInOrder
  <2>. QED  BY <1>0, <2>1, <2>2, <2>3, ErrRestKept
<1>14. (Speculating => ErrRest(mark[1].history[1], mark[1].lexer.kind, mark[1].lexer.range, mark[1].lexer.cursor, mark[1].lexer.errors))'
  <2>. SUFFICES ASSUME Speculating
                PROVE  ErrRest(mark[1].history[1], mark[1].lexer.kind, mark[1].lexer.range, mark[1].lexer.cursor, mark[1].lexer.errors)'
    BY <1>0 DEF Speculating
  <2>1. mark[1].lexer.errors \in Nat /\ mark[1].lexer.errors <= Len(errors)
    BY <1>0, MarkedErrors DEF SaneInv
  <2>2. \A i \in 1..mark[1].lexer.errors : errors'[i] = errors[i]
    BY <1>2, <1>12, <2>1
  <2>3. ErrRest(mark[1].history[1], mark[1].lexer.kind, mark[1].lexer.range, mark[1].lexer.cursor, mark[1].lexer.errors)
    BY <1>0 DEF ErrorsInOrder
  <2>. QED  BY <1>0, <2>1, <2>2, <2>3, ErrRestKept
<1>. QED  BY <1>1, <1>6, <1>7, <1>8, <1>9, <1>10, <1>11, <1>13, <1>14 DEF ErrorsInOrder

(* `do_bump` collects trivia and returns at the first other token. *)
LEMMA ErrReturnBump ==
    ASSUME ErrInv, SaneInv', ReturnBump
    PROVE  ErrInv'
<1>. SUFFICES ASSUME relexed # "fstring"
              PROVE  ErrorsInOrder'
  BY DEF ErrInv, ReturnBump
<1>0. /\ SaneInv /\ ErrorsInOrder /\ LexerTypeOK /\ TypeOK /\ tokens \in Seq(TokenRecord)
      /\ CurrentToken \in TokenRecord
      /\ pc = "return" /\ caller = "bump" /\ saved = <<>> /\ ErrBump
      /\ UNCHANGED <<src, kind, range, cursor, errors, start, state, nesting, fstrings, pending, caller, saved, mark>>
  BY DEF ErrInv, SaneInv, OrderInv, TypeInv, TypeOK, LexerTypeOK, CurrentToken, TokenRecord, ReturnBump,
         checkpointVars, localVars, ErrorsInOrder
<1>1. ErrRest(tokens, kind, range, cursor, Len(errors))
  BY <1>0 DEF ErrorsInOrder, ErrBump, ErrRest, ErrorsUpTo, From
<1>2. Len(errors) \in Nat /\ cursor \in Nat /\ range[1] \in Nat /\ range[2] \in Nat
      /\ range[1] <= range[2] /\ cursor = range[2]
  BY <1>0 DEF LexerTypeOK, Offsets, SaneInv, OrderInv, Extent
<1>3. \A i \in 1..Len(errors) : errors[i].start \in Nat
  <2>1. \A i \in 1..Len(errors) : errors[i] \in ErrorRecord
    BY <1>0 DEF LexerTypeOK
  <2>. QED  BY <2>1 DEF ErrorRecord
<1>4. pc' \in {"next", "idle"}
  BY DEF ReturnBump
<1>5. (\A i \in 1..Len(errors) : From(errors[i].start))'
  BY <1>0, <1>1, <1>2, <1>3, <1>4, SMTT(30) DEF ErrRest, ErrorsUpTo, From
<1>6. (Speculating => ErrRest(mark[1].history[1], mark[1].lexer.kind, mark[1].lexer.range, mark[1].lexer.cursor, mark[1].lexer.errors))'
  <2>. SUFFICES ASSUME Speculating
                PROVE  ErrRest(mark[1].history[1], mark[1].lexer.kind, mark[1].lexer.range, mark[1].lexer.cursor, mark[1].lexer.errors)'
    BY <1>0 DEF Speculating
  <2>1. mark[1].lexer.errors \in Nat
    BY <1>0, MarkedErrors DEF SaneInv
  <2>2. ErrRest(mark[1].history[1], mark[1].lexer.kind, mark[1].lexer.range, mark[1].lexer.cursor, mark[1].lexer.errors)
    BY <1>0 DEF ErrorsInOrder
  <2>. QED  BY <1>0, <2>1, <2>2, ErrRestKept
<1>7. CASE kind \in Trivia
  <2>1. pc' = "next" /\ tokens' = Append(tokens, CurrentToken)
    BY <1>7 DEF ReturnBump
  <2>. DEFINE t == Append(tokens, CurrentToken)
  <2>2. /\ \A j \in 1..Len(t) : EmptyIsError(t, j - 1, t[j].kind, t[j].start, t[j].end)
        /\ NoErrorBehind(t, "", Len(errors))
        /\ EndReached(t, "", cursor, Len(errors))
    BY <1>0, <1>1, <1>2, ErrAppend DEF ErrorsInOrder
  <2>3. NoEof(Len(errors)) => ~InText(fstrings, nesting)
    BY <1>0, <1>7 DEF SaneInv, SaneLexer, SaneToken
  <2>. HIDE DEF t
  <2>4. tokens' = t
    BY <2>1 DEF t
  <2>5. (\A j \in 1..Len(tokens) : EmptyIsError(tokens, j - 1, tokens[j].kind, tokens[j].start, tokens[j].end))'
    BY <1>0, <2>2, <2>4 DEF EmptyIsError, NewlineAt, NoTrivia
  <2>6. ErrBump'
    BY <1>0, <2>1, <2>2, <2>3, <2>4 DEF ErrBump, NoErrorBehind, EndReached, NoEof, ErrorsUpTo, TrailingNewlines,
           InText
  <2>. QED  BY <1>0, <1>5, <1>6, <2>1, <2>5, <2>6 DEF ErrorsInOrder
<1>8. CASE kind \notin Trivia
  <2>1. pc' = "idle" /\ tokens' = tokens
    BY <1>8 DEF ReturnBump
  <2>2. ErrRest(tokens, kind, range, cursor, Len(errors))'
    BY <1>0, <1>1, <1>2, <2>1, ErrRestKept
  <2>3. (\A j \in 1..Len(tokens) : EmptyIsError(tokens, j - 1, tokens[j].kind, tokens[j].start, tokens[j].end))'
    BY <1>0, <2>1 DEF ErrorsInOrder, EmptyIsError, NewlineAt, NoTrivia
  <2>. QED  BY <1>0, <1>5, <1>6, <2>1, <2>2, <2>3 DEF ErrorsInOrder
<1>. QED  BY <1>7, <1>8

(* The parser bumps the current token. *)
LEMMA ErrBumps ==
    ASSUME ErrInv, SaneInv', Bump
    PROVE  ErrInv'
<1>. SUFFICES ASSUME relexed # "fstring"
              PROVE  ErrorsInOrder'
  BY DEF ErrInv, Bump, SettledReLexed
<1>0. /\ SaneInv /\ ErrorsInOrder /\ LexerTypeOK /\ TypeOK /\ tokens \in Seq(TokenRecord)
      /\ CurrentToken \in TokenRecord
      /\ pc = "idle" /\ saved = <<>> /\ pc' = "next" /\ caller' = "bump"
      /\ tokens' = Append(tokens, CurrentToken)
      /\ UNCHANGED <<src, kind, range, cursor, errors, start, state, nesting, fstrings, pending, saved, mark>>
  BY DEF ErrInv, SaneInv, OrderInv, TypeInv, TypeOK, LexerTypeOK, CurrentToken, TokenRecord, Bump,
         checkpointVars, localVars
<1>1. ErrRest(tokens, kind, range, cursor, Len(errors))
  BY <1>0 DEF ErrorsInOrder
<1>2. Len(errors) \in Nat /\ cursor \in Nat /\ range[1] \in Nat /\ range[2] \in Nat
      /\ range[1] <= range[2] /\ cursor = range[2]
  BY <1>0 DEF LexerTypeOK, Offsets, SaneInv, OrderInv, Rest, Extent
<1>3. \A i \in 1..Len(errors) : errors[i].start \in Nat
  <2>1. \A i \in 1..Len(errors) : errors[i] \in ErrorRecord
    BY <1>0 DEF LexerTypeOK
  <2>. QED  BY <2>1 DEF ErrorRecord
<1>4. (\A i \in 1..Len(errors) : From(errors[i].start))'
  BY <1>0, <1>1, <1>2, <1>3 DEF ErrRest, ErrorsUpTo, From
<1>5. (Speculating => ErrRest(mark[1].history[1], mark[1].lexer.kind, mark[1].lexer.range, mark[1].lexer.cursor, mark[1].lexer.errors))'
  <2>. SUFFICES ASSUME Speculating
                PROVE  ErrRest(mark[1].history[1], mark[1].lexer.kind, mark[1].lexer.range, mark[1].lexer.cursor, mark[1].lexer.errors)'
    BY <1>0 DEF Speculating
  <2>1. mark[1].lexer.errors \in Nat
    BY <1>0, MarkedErrors DEF SaneInv
  <2>2. ErrRest(mark[1].history[1], mark[1].lexer.kind, mark[1].lexer.range, mark[1].lexer.cursor, mark[1].lexer.errors)
    BY <1>0 DEF ErrorsInOrder
  <2>. QED  BY <1>0, <2>1, <2>2, ErrRestKept
<1>. DEFINE t == Append(tokens, CurrentToken)
<1>6. /\ \A j \in 1..Len(t) : EmptyIsError(t, j - 1, t[j].kind, t[j].start, t[j].end)
      /\ NoErrorBehind(t, "", Len(errors))
      /\ EndReached(t, "", cursor, Len(errors))
  BY <1>0, <1>1, <1>2, ErrAppend DEF ErrorsInOrder
<1>7. Len(t) = Len(tokens) + 1 /\ t[Len(tokens) + 1].kind = kind
  BY <1>0 DEF CurrentToken
<1>8. NoEof(Len(errors)) /\ InText(fstrings, nesting) => kind \notin Trivia
  BY <1>0 DEF SaneInv, SaneLexer, SaneToken
<1>9. tokens' = t
  BY <1>0
<1>. HIDE DEF t
<1>10. NoEof(Len(errors)) /\ InText(fstrings, nesting) => NoTrivia(t, Len(t))
  BY <1>7, <1>8 DEF NoTrivia
<1>11. (\A j \in 1..Len(tokens) : EmptyIsError(tokens, j - 1, tokens[j].kind, tokens[j].start, tokens[j].end))'
  BY <1>0, <1>6, <1>9 DEF EmptyIsError, NewlineAt, NoTrivia
<1>12. ErrBump'
  BY <1>0, <1>6, <1>9, <1>10 DEF ErrBump, NoErrorBehind, EndReached, NoEof, ErrorsUpTo, TrailingNewlines, InText, NoTrivia
<1>. QED  BY <1>0, <1>4, <1>5, <1>11, <1>12 DEF ErrorsInOrder

(* The errors are cut to those of a checkpoint. *)
LEMMA ErrorsCut ==
    ASSUME errors \in Seq(ErrorRecord), NEW n \in Nat, n <= Len(errors), errors' = Truncate(errors, n)
    PROVE  Len(errors') = n /\ \A i \in 1..n : errors'[i] = errors[i]
<1>1. /\ Len(errors') = IF n < Len(errors) THEN n ELSE Len(errors)
      /\ \A i \in 1..Len(errors') : errors'[i] = errors[i]
  BY TruncateProperties
<1>2. Len(errors) \in Nat
  OBVIOUS
<1>. QED  BY <1>1, <1>2

(* A look-ahead goes on, or puts the lexer back. *)
LEMMA ErrReturnPeek ==
    ASSUME ErrInv, SaneInv', ReturnPeek
    PROVE  ErrInv'
<1>. SUFFICES ASSUME relexed # "fstring"
              PROVE  ErrorsInOrder'
  BY DEF ErrInv, ReturnPeek
<1>0. /\ SaneInv /\ ErrorsInOrder /\ LexerTypeOK /\ TypeOK /\ saved # <<>> /\ pc = "return"
      /\ caller' \in {"peek", "peek2"}
      /\ UNCHANGED <<src, tokens, mark>>
  BY DEF ErrInv, SaneInv, OrderInv, TypeInv, TypeOK, ReturnPeek
<1>1. /\ saved[1].errors \in Nat /\ saved[1].errors <= Len(errors) /\ errors \in Seq(ErrorRecord)
      /\ Len(errors) \in Nat
  BY <1>0, SavedType DEF SaneInv, OrderInv, LexerTypeOK
<1>2. ErrRest(tokens, saved[1].kind, saved[1].range, saved[1].cursor, saved[1].errors)
  BY <1>0 DEF ErrorsInOrder
<1>3. (\A j \in 1..Len(tokens) : EmptyIsError(tokens, j - 1, tokens[j].kind, tokens[j].start, tokens[j].end))'
  BY <1>0 DEF ErrorsInOrder, EmptyIsError, NewlineAt, NoTrivia
<1>4. ASSUME \A i \in 1..saved[1].errors : errors'[i] = errors[i]
      PROVE  (Speculating => ErrRest(mark[1].history[1], mark[1].lexer.kind, mark[1].lexer.range, mark[1].lexer.cursor, mark[1].lexer.errors))'
  <2>. SUFFICES ASSUME Speculating
                PROVE  ErrRest(mark[1].history[1], mark[1].lexer.kind, mark[1].lexer.range, mark[1].lexer.cursor, mark[1].lexer.errors)'
    BY <1>0 DEF Speculating
  <2>1. mark[1].lexer.errors \in Nat /\ mark[1].lexer.errors <= saved[1].errors
    BY <1>0, MarkedErrors DEF SaneInv
  <2>2. ErrRest(mark[1].history[1], mark[1].lexer.kind, mark[1].lexer.range, mark[1].lexer.cursor, mark[1].lexer.errors)
    BY <1>0 DEF ErrorsInOrder
  <2>3. \A i \in 1..mark[1].lexer.errors : errors'[i] = errors[i]
    BY <1>1, <1>4, <2>1
  <2>. QED  BY <1>0, <2>1, <2>2, <2>3, ErrRestKept
<1>5. CASE pc' = "next"
  <2>1. UNCHANGED <<kind, range, cursor, errors, saved>>
    BY <1>5 DEF ReturnPeek, checkpointVars
  <2>2. ErrRest(tokens, saved[1].kind, saved[1].range, saved[1].cursor, saved[1].errors)'
    BY <1>0, <1>1, <1>2, <2>1, ErrRestKept
  <2>3. cursor \in Nat /\ range[1] \in Nat /\ range[2] \in Nat /\ range[1] <= range[2] /\ cursor = range[2]
    BY <1>0 DEF LexerTypeOK, Offsets, SaneInv, OrderInv, Extent
  <2>4. \A i \in 1..Len(errors) : errors[i].start \in Nat
    <3>1. \A i \in 1..Len(errors) : errors[i] \in ErrorRecord
      BY <1>1
    <3>. QED  BY <3>1 DEF ErrorRecord
  <2>5. (\A i \in 1..Len(errors) : From(errors[i].start))'
    BY <1>0, <1>5, <2>1, <2>3, <2>4 DEF ErrorsInOrder, From
  <2>. QED  BY <1>0, <1>3, <1>4, <1>5, <2>1, <2>2, <2>5 DEF ErrorsInOrder
<1>6. CASE pc' # "next"
  <2>1. pc' = "idle" /\ RestoreLexer(saved[1]) /\ saved' = <<>>
    BY <1>6 DEF ReturnPeek
  <2>0. PICK n \in Nat : n = saved[1].errors
    BY <1>1
  <2>2. errors' = Truncate(errors, n) /\ n <= Len(errors)
    BY <1>1, <2>0, <2>1 DEF RestoreLexer
  <2>3. Len(errors') = n /\ \A i \in 1..n : errors'[i] = errors[i]
    BY <1>1, <2>2, ErrorsCut
  <2>4. ErrRest(tokens, saved[1].kind, saved[1].range, saved[1].cursor, n)
    BY <1>2, <2>0
  <2>5. /\ kind' = saved[1].kind /\ range' = saved[1].range /\ cursor' = saved[1].cursor
        /\ tokens' = tokens
    BY <1>0, <2>1 DEF RestoreLexer
  <2>6. ErrRest(tokens, kind, range, cursor, Len(errors))'
    <3>1. \A t, k, r, c : ErrRest(t, k, r, c, n) => ErrRest(t, k, r, c, n)'
      BY <1>0, <2>2, <2>3, ErrRestKept
    <3>2. \A t, k, r, c, m : m = n /\ ErrRest(t, k, r, c, m) => ErrRest(t, k, r, c, m)'
      BY <3>1
    <3>. QED  BY <2>3, <2>4, <2>5, <3>2
  <2>7. (\A i, j \in 1..Len(errors) : i < j => errors[i].start <= errors[j].start)'
    <3>1. \A i \in 1..n : i \in 1..Len(errors)
      BY <1>1, <2>2
    <3>. QED  BY <1>0, <2>3, <3>1 DEF ErrorsInOrder
  <2>8. (Speculating => ErrRest(mark[1].history[1], mark[1].lexer.kind, mark[1].lexer.range, mark[1].lexer.cursor, mark[1].lexer.errors))'
    BY <1>4, <2>0, <2>3
  <2>. QED  BY <1>3, <2>1, <2>6, <2>7, <2>8 DEF ErrorsInOrder, From
<1>. QED  BY <1>5, <1>6

(* The parser looks ahead or takes a checkpoint. *)
LEMMA ErrMark ==
    ASSUME ErrInv, SaneInv', Peek \/ Checkpoint
    PROVE  ErrInv'
<1>. SUFFICES ASSUME relexed # "fstring"
              PROVE  ErrorsInOrder'
  BY DEF ErrInv, Peek, Checkpoint
<1>0. /\ SaneInv /\ ErrorsInOrder /\ LexerTypeOK /\ TypeOK /\ pc = "idle" /\ saved = <<>>
      /\ UNCHANGED <<src, kind, range, cursor, errors, tokens, start, state>>
  BY DEF ErrInv, SaneInv, OrderInv, TypeInv, TypeOK, Peek, Checkpoint, lexerVars, checkpointVars, localVars
<1>1. ErrRest(tokens, kind, range, cursor, Len(errors))
  BY <1>0 DEF ErrorsInOrder
<1>2. Len(errors) \in Nat /\ cursor \in Nat /\ range[1] \in Nat /\ range[2] \in Nat
      /\ range[1] <= range[2] /\ cursor = range[2]
  BY <1>0 DEF LexerTypeOK, Offsets, SaneInv, OrderInv, Rest, Extent
<1>3. \A i \in 1..Len(errors) : errors[i].start \in Nat
  <2>1. \A i \in 1..Len(errors) : errors[i] \in ErrorRecord
    BY <1>0 DEF LexerTypeOK
  <2>. QED  BY <2>1 DEF ErrorRecord
<1>4. (\A j \in 1..Len(tokens) : EmptyIsError(tokens, j - 1, tokens[j].kind, tokens[j].start, tokens[j].end))'
  BY <1>0 DEF ErrorsInOrder, EmptyIsError, NewlineAt, NoTrivia
<1>5. ErrRest(tokens, kind, range, cursor, Len(errors))'
  BY <1>0, <1>1, <1>2, ErrRestKept
<1>6. /\ LexerCheckpoint.kind = kind /\ LexerCheckpoint.range = range /\ LexerCheckpoint.cursor = cursor
      /\ LexerCheckpoint.errors = Len(errors)
  BY DEF LexerCheckpoint
<1>7. CASE Peek
  <2>1. /\ saved' = <<LexerCheckpoint>> /\ saved'[1] = LexerCheckpoint /\ mark' = mark
        /\ pc' = "next" /\ caller' \in {"peek", "peek2"}
    BY <1>7 DEF Peek
  <2>2. (\A i \in 1..Len(errors) : From(errors[i].start))'
    BY <1>0, <1>1, <1>2, <1>3, <2>1 DEF ErrRest, ErrorsUpTo, From
  <2>3. ErrRest(tokens, saved[1].kind, saved[1].range, saved[1].cursor, saved[1].errors)'
    BY <1>0, <1>5, <1>6, <2>1
  <2>4. (Speculating => ErrRest(mark[1].history[1], mark[1].lexer.kind, mark[1].lexer.range, mark[1].lexer.cursor, mark[1].lexer.errors))'
    <3>. SUFFICES ASSUME Speculating
                  PROVE  ErrRest(mark[1].history[1], mark[1].lexer.kind, mark[1].lexer.range, mark[1].lexer.cursor, mark[1].lexer.errors)'
      BY <2>1 DEF Speculating
    <3>1. mark[1].lexer.errors \in Nat
      BY <1>0, MarkedErrors DEF SaneInv
    <3>2. ErrRest(mark[1].history[1], mark[1].lexer.kind, mark[1].lexer.range, mark[1].lexer.cursor, mark[1].lexer.errors)
      BY <1>0 DEF ErrorsInOrder
    <3>. QED  BY <1>0, <2>1, <3>1, <3>2, ErrRestKept
  <2>. QED  BY <1>0, <1>4, <2>1, <2>2, <2>3, <2>4 DEF ErrorsInOrder
<1>8. CASE Checkpoint
  <2>1. /\ mark'[1].lexer = LexerCheckpoint /\ mark'[1].history[1] = tokens /\ saved' = saved /\ pc' = "idle"
    BY <1>0, <1>8 DEF Checkpoint, lexerVars
  <2>2. (Speculating => ErrRest(mark[1].history[1], mark[1].lexer.kind, mark[1].lexer.range, mark[1].lexer.cursor, mark[1].lexer.errors))'
    BY <1>0, <1>5, <1>6, <2>1
  <2>. QED  BY <1>0, <1>4, <1>5, <2>1, <2>2 DEF ErrorsInOrder, From
<1>. QED  BY <1>7, <1>8

(* The parser goes back to its checkpoint. *)
LEMMA ErrRewind ==
    ASSUME ErrInv, SaneInv', Rewind
    PROVE  ErrInv'
<1>. SUFFICES ASSUME relexed # "fstring"
              PROVE  ErrorsInOrder'
  BY DEF ErrInv, Rewind, SettledReLexed
<1>0. /\ SaneInv /\ ErrorsInOrder /\ LexerTypeOK /\ TypeOK /\ pc = "idle" /\ pc' = "idle" /\ saved = <<>>
      /\ Speculating /\ ~Speculating' /\ UNCHANGED <<src, saved>> /\ mark # <<>> /\ HistoryKept
  BY RewindEnds, MarkedErrors DEF ErrInv, SaneInv, OrderInv, TypeInv, TypeOK, Rewind
<1>1. PICK n \in Nat : n = mark[1].lexer.errors /\ n <= Len(errors)
  BY <1>0, MarkedErrors DEF SaneInv
<1>2. tokens' = mark[1].history[1] /\ errors' = Truncate(errors, n)
  BY <1>0, <1>1, RewindRestores DEF SaneInv, Rewind, RestoreLexer
<1>3. Len(errors') = n /\ \A i \in 1..n : errors'[i] = errors[i]
  BY <1>0, <1>1, <1>2, ErrorsCut DEF LexerTypeOK
<1>4. /\ kind' = mark[1].lexer.kind /\ range' = mark[1].lexer.range /\ cursor' = mark[1].lexer.cursor
  BY DEF Rewind, RestoreLexer
<1>5. ErrRest(mark[1].history[1], mark[1].lexer.kind, mark[1].lexer.range, mark[1].lexer.cursor, n)
  BY <1>0, <1>1 DEF ErrorsInOrder
<1>6. ErrRest(tokens, kind, range, cursor, Len(errors))'
  <2>1. \A t, k, r, c : ErrRest(t, k, r, c, n) => ErrRest(t, k, r, c, n)'
    BY <1>0, <1>3, ErrRestKept
  <2>. QED  BY <1>2, <1>3, <1>4, <1>5, <2>1
<1>7. (\A i, j \in 1..Len(errors) : i < j => errors[i].start <= errors[j].start)'
  <2>1. \A i \in 1..n : i \in 1..Len(errors)
    BY <1>0, <1>1 DEF LexerTypeOK
  <2>. QED  BY <1>0, <1>3, <2>1 DEF ErrorsInOrder
<1>8. (\A j \in 1..Len(tokens) : EmptyIsError(tokens, j - 1, tokens[j].kind, tokens[j].start, tokens[j].end))'
  <2>. DEFINE h == mark[1].history[1]
  <2>1. h \in Seq(TokenRecord) /\ Len(h) \in Nat /\ Len(h) <= Len(tokens) /\ Len(tokens) \in Nat
        /\ \A i \in 1..Len(h) : tokens[i] = h[i]
    BY <1>0, MarkType DEF HistoryKept, Prefix, TypeOK
  <2>. HIDE DEF h
  <2>2. \A j \in 1..Len(h) : EmptyIsError(h, j - 1, h[j].kind, h[j].start, h[j].end)
    <3>. TAKE j \in 1..Len(h)
    <3>1. j \in 1..Len(tokens) /\ (j - 1 = 0 \/ j - 1 \in 1..Len(h))
      BY <2>1
    <3>2. EmptyIsError(tokens, j - 1, tokens[j].kind, tokens[j].start, tokens[j].end)
      BY <1>0, <3>1 DEF ErrorsInOrder
    <3>. QED  BY <2>1, <3>1, <3>2 DEF EmptyIsError, NoTrivia
  <2>. QED  BY <1>0, <1>2, <2>2 DEF EmptyIsError, NoTrivia, NewlineAt, h
<1>. QED  BY <1>0, <1>6, <1>7, <1>8 DEF ErrorsInOrder, From

(* The parser gives up a list: it goes back to no place before an error,   *)
(* and nowhere after an unexpected end.                                    *)
LEMMA ErrReLexes ==
    ASSUME ErrInv, SaneInv', ReLex
    PROVE  ErrInv'
<1>. SUFFICES ASSUME relexed' # "fstring"
              PROVE  ErrorsInOrder'
  BY DEF ErrInv
<1>0. /\ SaneInv /\ ErrorsInOrder /\ LexerTypeOK /\ TypeOK /\ pc = "idle" /\ saved = <<>> /\ caller' = "relex"
      /\ UNCHANGED <<src, kind, range, errors, tokens, fstrings, pending, start, saved, mark>>
      /\ fstrings = <<>> /\ kind # "Unknown" /\ relexed # "fstring"
  BY ReLexAtAssumption
     DEF ErrInv, SaneInv, OrderInv, TypeInv, TypeOK, ReLex, InFString, ReLexTarget, SettledReLexed, localVars
<1>1. ErrRest(tokens, kind, range, cursor, Len(errors))
  BY <1>0 DEF ErrorsInOrder
<1>2. Len(errors) \in Nat
  BY <1>0 DEF LexerTypeOK
<1>3. (\A j \in 1..Len(tokens) : EmptyIsError(tokens, j - 1, tokens[j].kind, tokens[j].start, tokens[j].end))'
  BY <1>0 DEF ErrorsInOrder, EmptyIsError, NewlineAt, NoTrivia
<1>4. (Speculating => ErrRest(mark[1].history[1], mark[1].lexer.kind, mark[1].lexer.range, mark[1].lexer.cursor, mark[1].lexer.errors))'
  <2>. SUFFICES ASSUME Speculating
                PROVE  ErrRest(mark[1].history[1], mark[1].lexer.kind, mark[1].lexer.range, mark[1].lexer.cursor, mark[1].lexer.errors)'
    BY <1>0 DEF Speculating
  <2>1. mark[1].lexer.errors \in Nat
    BY <1>0, MarkedErrors DEF SaneInv
  <2>2. ErrRest(mark[1].history[1], mark[1].lexer.kind, mark[1].lexer.range, mark[1].lexer.cursor, mark[1].lexer.errors)
    BY <1>0 DEF ErrorsInOrder
  <2>. QED  BY <1>0, <2>1, <2>2, ErrRestKept
<1>5. CASE ReLexStays
  <2>1. UNCHANGED <<pc, cursor>>
    BY <1>5 DEF ReLexStays
  <2>2. ErrRest(tokens, kind, range, cursor, Len(errors))'
    BY <1>0, <1>1, <1>2, <2>1, ErrRestKept
  <2>. QED  BY <1>0, <1>3, <1>4, <2>1, <2>2 DEF ErrorsInOrder, From
<1>6. CASE ReLexMoves
  <2>1. PICK i \in TrailingNewlines(tokens) : cursor' = tokens[i].start
    BY <1>6, TrailingTokens DEF ReLexMoves, ToNewline
  <2>2. pc' = "next" /\ nesting > 0 /\ nesting # 0
    BY <1>0, <1>6 DEF ReLexMoves, LexerTypeOK
  <2>3. NoEof(Len(errors))
    BY <1>0, <1>1, <2>1 DEF ErrRest, EndReached
  <2>4. pending = NoPending
    BY <1>0, <2>2, <2>3 DEF SaneInv, SaneLexer, Sane
  <2>5. ErrorsUpTo(Len(errors), tokens[i].start)
    BY <1>0, <1>1, <2>1, <2>3 DEF ErrRest, NoErrorBehind
  <2>6. (\A j \in 1..Len(errors) : From(errors[j].start))'
    BY <1>0, <2>1, <2>2, <2>5 DEF ErrorsUpTo, From
  <2>7. ErrReLex'
    BY <1>0, <2>2, <2>3, <2>4 DEF ErrReLex, NoEof
  <2>. QED  BY <1>0, <1>3, <1>4, <2>2, <2>6, <2>7 DEF ErrorsInOrder
<1>. QED  BY <1>5, <1>6 DEF ReLex

(* A re-lexing takes back the trivia from the line break on, and with them *)
(* the errors of f-strings in front of it that are empty.                  *)
LEMMA ReLexCut ==
    ASSUME SaneInv, ErrorsInOrder, ReturnReLex
    PROVE  \E n \in 0..Len(tokens) :
               /\ tokens' = SubSeq(tokens, 1, n)
               /\ \A i \in n + 1..Len(tokens) : tokens[i].kind \in Trivia \cup {"Unknown"}
               /\ TrailingNewlines(tokens') = {}
<1>0. /\ TypeOK /\ LexerTypeOK /\ tokens \in Seq(TokenRecord) /\ Len(tokens) \in Nat
      /\ pc = "return" /\ caller = "relex" /\ Ordered(tokens)
  BY DEF SaneInv, OrderInv, TypeInv, TypeOK, ReturnReLex
<1>1. PICK k \in NonLogicalNewlines : (\A j \in NonLogicalNewlines : k <= j) /\ range[1] = tokens[k].start
  BY <1>0 DEF SaneInv, OrderInv, At
<1>2. PICK n \in 0..Len(tokens) :
          /\ n > 0 => tokens[n].start < range[1]
          /\ \A i \in n + 1..Len(tokens) : tokens[i].start >= range[1]
          /\ tokens' = SubSeq(tokens, 1, n)
  BY DEF ReturnReLex
<1>3. k \in 1..Len(tokens) /\ (\A j \in k..Len(tokens) : tokens[j].kind \in Trivia)
      /\ tokens[k].kind = "NonLogicalNewline"
  BY DEF NonLogicalNewlines, TrailingTrivia
<1>4. \A i \in 1..Len(tokens) : tokens[i].start \in Nat /\ tokens[i].end \in Nat /\ tokens[i].start <= tokens[i].end
  <2>1. \A i \in 1..Len(tokens) : tokens[i] \in TokenRecord
    BY <1>0
  <2>. QED  BY <1>0, <2>1 DEF Ordered, Extent, TokenRecord, Offsets
<1>5. n \in Nat /\ n <= Len(tokens) /\ Len(tokens') = n /\ \A i \in 1..n : tokens'[i] = tokens[i]
  BY <1>0, <1>2, InitialPart
<1>6. n < k
  <2>. SUFFICES ASSUME n >= k PROVE FALSE
    BY <1>3, <1>5
  <2>1. n \in 1..Len(tokens) /\ tokens[n].start < tokens[k].start
    BY <1>1, <1>2, <1>3, <1>5
  <2>2. k < n
    BY <1>3, <1>4, <2>1
  <2>3. tokens[k].end <= tokens[n].start
    BY <1>0, <1>3, <2>1, <2>2 DEF Ordered
  <2>. QED  BY <1>3, <1>4, <2>1, <2>3
<1>7. ASSUME NEW i \in n + 1..k - 1
      PROVE  tokens[i].kind = "Unknown" /\ NoTrivia(tokens, i - 1)
  <2>1. i \in 1..Len(tokens) /\ i < k /\ i \in n + 1..Len(tokens)
    BY <1>0, <1>3, <1>5
  <2>2. tokens[i].start >= tokens[k].start /\ tokens[i].end <= tokens[k].start
    BY <1>0, <1>1, <1>2, <1>3, <2>1 DEF Ordered
  <2>3. tokens[i].start = tokens[k].start /\ tokens[i].end = tokens[k].start
    BY <1>3, <1>4, <2>1, <2>2, SMTT(30)
  <2>4. NewlineAt(tokens[k].start)
    BY <1>0, <1>3 DEF Ordered, Extent
  <2>5. EmptyIsError(tokens, i - 1, tokens[i].kind, tokens[i].start, tokens[i].end)
    BY <2>1 DEF ErrorsInOrder
  <2>. QED  BY <2>3, <2>4, <2>5 DEF EmptyIsError
<1>8. \A i \in n + 1..Len(tokens) : tokens[i].kind \in Trivia \cup {"Unknown"}
  <2>. TAKE i \in n + 1..Len(tokens)
  <2>1. i \in n + 1..k - 1 \/ i \in k..Len(tokens)
    BY <1>0, <1>3, <1>5
  <2>. QED  BY <1>3, <1>7, <2>1
<1>9. TrailingNewlines(tokens') = {}
  <2>. SUFFICES ASSUME NEW i \in TrailingNewlines(tokens') PROVE FALSE
    OBVIOUS
  <2>1. i \in 1..n /\ tokens'[i].kind = "NonLogicalNewline" /\ \A j \in i..n : tokens'[j].kind \in Trivia
    BY <1>5 DEF TrailingNewlines
  <2>2. tokens[i].kind = "NonLogicalNewline" /\ \A j \in i..n : tokens[j].kind \in Trivia
    BY <1>5, <2>1
  <2>3. n + 1 = k
    <3>. SUFFICES ASSUME n + 1 # k PROVE FALSE
      OBVIOUS
    <3>1. n + 1 \in n + 1..k - 1 /\ n + 1 - 1 = n /\ n \in i..n
      BY <1>3, <1>5, <1>6, <2>1
    <3>2. NoTrivia(tokens, n)
      BY <1>7, <3>1
    <3>. QED  BY <1>5, <2>1, <2>2, <3>1, <3>2 DEF NoTrivia
  <2>4. \A j \in i..Len(tokens) : tokens[j].kind \in Trivia
    <3>. TAKE j \in i..Len(tokens)
    <3>1. j \in i..n \/ j \in k..Len(tokens)
      BY <1>3, <1>5, <2>1, <2>3
    <3>. QED  BY <1>3, <2>2, <3>1
  <2>5. i \in NonLogicalNewlines
    BY <1>0, <1>5, <2>1, <2>2, <2>4 DEF NonLogicalNewlines, TrailingTrivia
  <2>. QED  BY <1>1, <1>3, <1>5, <1>6, <2>1, <2>5
<1>. QED  BY <1>2, <1>8, <1>9

(* After it the parser has no newline left to go back to. *)
LEMMA ErrReturnReLex ==
    ASSUME ErrInv, SaneInv', ReturnReLex
    PROVE  ErrInv'
<1>. SUFFICES ASSUME relexed # "fstring"
              PROVE  ErrorsInOrder'
  BY DEF ErrInv, ReturnReLex
<1>0. /\ SaneInv /\ ErrorsInOrder /\ LexerTypeOK /\ TypeOK /\ tokens \in Seq(TokenRecord)
      /\ pc = "return" /\ pc' = "idle" /\ caller = "relex" /\ saved = <<>> /\ ErrReLex
      /\ UNCHANGED <<src, kind, range, cursor, errors, saved, mark>>
  BY DEF ErrInv, SaneInv, OrderInv, TypeInv, TypeOK, ReturnReLex, checkpointVars, ErrorsInOrder
<1>1. PICK n \in 0..Len(tokens) :
          tokens' = SubSeq(tokens, 1, n) /\ TrailingNewlines(tokens') = {}
  BY <1>0, ReLexCut
<1>2. n \in Nat /\ Len(tokens') = n /\ (\A i \in 1..n : tokens'[i] = tokens[i]) /\ n <= Len(tokens)
      /\ Len(tokens) \in Nat
  BY <1>0, <1>1, InitialPart
<1>3. (\A j \in 1..Len(tokens) : EmptyIsError(tokens, j - 1, tokens[j].kind, tokens[j].start, tokens[j].end))'
  <2>. SUFFICES ASSUME NEW j \in 1..n
                PROVE  EmptyIsError(tokens, j - 1, tokens[j].kind, tokens[j].start, tokens[j].end)'
    BY <1>2
  <2>1. j \in 1..Len(tokens) /\ (j - 1 = 0 \/ j - 1 \in 1..n)
    BY <1>2
  <2>2. EmptyIsError(tokens, j - 1, tokens[j].kind, tokens[j].start, tokens[j].end)
    BY <1>0, <2>1 DEF ErrorsInOrder
  <2>. QED  BY <1>0, <1>2, <2>1, <2>2 DEF EmptyIsError, NewlineAt, NoTrivia
<1>4. (Speculating => ErrRest(mark[1].history[1], mark[1].lexer.kind, mark[1].lexer.range, mark[1].lexer.cursor, mark[1].lexer.errors))'
  <2>. SUFFICES ASSUME Speculating
                PROVE  ErrRest(mark[1].history[1], mark[1].lexer.kind, mark[1].lexer.range, mark[1].lexer.cursor, mark[1].lexer.errors)'
    BY <1>0 DEF Speculating
  <2>1. mark[1].lexer.errors \in Nat
    BY <1>0, MarkedErrors DEF SaneInv
  <2>2. ErrRest(mark[1].history[1], mark[1].lexer.kind, mark[1].lexer.range, mark[1].lexer.cursor, mark[1].lexer.errors)
    BY <1>0 DEF ErrorsInOrder
  <2>. QED  BY <1>0, <2>1, <2>2, ErrRestKept
<1>5. ErrorsUpTo(Len(errors), range[1])'
  BY <1>0 DEF ErrorsInOrder, From, ErrorsUpTo
<1>6. EmptyIsError(tokens, Len(tokens), kind, range[1], range[2])'
  <2>1. range[1] # range[2]
    BY <1>0 DEF ErrReLex, LexerTypeOK, Offsets
  <2>. QED  BY <1>0, <2>1 DEF EmptyIsError
<1>7. NoErrorBehind(tokens, kind, Len(errors))' /\ EndReached(tokens, kind, cursor, Len(errors))'
  BY <1>0, <1>1 DEF NoErrorBehind, EndReached, ErrReLex, NoEof
<1>. QED  BY <1>0, <1>3, <1>4, <1>5, <1>6, <1>7 DEF ErrorsInOrder, ErrRest, From

(* Nothing happens. *)
LEMMA ErrStutter ==
    ASSUME ErrInv, SaneInv', UNCHANGED vars
    PROVE  ErrInv'
<1>0. UNCHANGED <<src, pc, kind, range, cursor, start, state, nesting, fstrings, pending, errors, tokens, caller,
                  saved, mark, relexed>>
  BY DEF vars, lexerVars, checkpointVars, localVars, sourceVars
<1>1. SUFFICES ASSUME ErrorsInOrder PROVE ErrorsInOrder'
  BY <1>0 DEF ErrInv
<1>2. \A t, k, r, c, n : ErrRest(t, k, r, c, n) = ErrRest(t, k, r, c, n)'
  BY <1>0 DEF ErrRest, ErrorsUpTo, EmptyIsError, NoErrorBehind, EndReached, NoTrivia, NoEof, NewlineAt,
         TrailingNewlines
<1>3. ErrBump = ErrBump'
  BY <1>0 DEF ErrBump, ErrorsUpTo, EmptyIsError, NoErrorBehind, EndReached, NoTrivia, NoEof, NewlineAt,
         TrailingNewlines, InText
<1>4. ErrReLex = ErrReLex'
  BY <1>0 DEF ErrReLex, NoEof
<1>5. (Speculating <=> Speculating') /\ (\A b : From(b) <=> From(b)')
  BY <1>0 DEF Speculating, From
<1>6. /\ (\A i, j \in 1..Len(errors) : i < j => errors[i].start <= errors[j].start)'
      /\ (\A i \in 1..Len(errors) : From(errors[i].start))'
      /\ (\A j \in 1..Len(tokens) : EmptyIsError(tokens, j - 1, tokens[j].kind, tokens[j].start, tokens[j].end))'
  BY <1>0, <1>1 DEF ErrorsInOrder, From, EmptyIsError, NewlineAt, NoTrivia
<1>7. (pc = "idle" => ErrRest(tokens, kind, range, cursor, Len(errors)))'
  BY <1>0, <1>1, <1>2 DEF ErrorsInOrder
<1>8. (saved # <<>> => ErrRest(tokens, saved[1].kind, saved[1].range, saved[1].cursor, saved[1].errors))'
  BY <1>0, <1>1, <1>2 DEF ErrorsInOrder
<1>9. (Speculating => ErrRest(mark[1].history[1], mark[1].lexer.kind, mark[1].lexer.range, mark[1].lexer.cursor, mark[1].lexer.errors))'
  BY <1>0, <1>1, <1>2, <1>5 DEF ErrorsInOrder
<1>. QED  BY <1>0, <1>1, <1>3, <1>4, <1>6, <1>7, <1>8, <1>9 DEF ErrorsInOrder

(* Init establishes the invariant. *)
LEMMA InitErr == Init => ErrInv
<1>. SUFFICES ASSUME Init PROVE ErrInv
  OBVIOUS
<1>1. /\ tokens = <<>> /\ errors = <<>> /\ saved = <<>> /\ pc = "next" /\ caller = "bump" /\ mark = <<>>
      /\ fstrings = <<>>
  BY DEF Init, LexerInit
<1>2. TrailingNewlines(tokens) = {} /\ NoEof(Len(errors)) /\ Len(tokens) = 0 /\ Len(errors) = 0
  BY <1>1 DEF TrailingNewlines, NoEof
<1>3. \A k, n : NoErrorBehind(tokens, k, n)
  BY <1>2 DEF NoErrorBehind
<1>4. ErrBump
  BY <1>1, <1>2, <1>3 DEF ErrBump, EndReached, NoTrivia
<1>5. ErrorsInOrder
  BY <1>1, <1>2, <1>4 DEF ErrorsInOrder, Speculating
<1>. QED  BY <1>5, InitSane DEF ErrInv

(* Every step keeps it. *)
LEMMA NextErr == ErrInv /\ [Next]_vars => ErrInv'
<1>. SUFFICES ASSUME ErrInv, [Next]_vars PROVE ErrInv'
  OBVIOUS
<1>1. SaneInv'
  BY NextSane DEF ErrInv
<1>. QED  BY <1>1, ErrLex, ErrReturnBump, ErrReturnPeek, ErrReturnReLex, ErrBumps, ErrMark, ErrRewind, ErrReLexes,
             ErrStutter DEF Next

(* The tokens handed out do not overlap and are in source order, whatever  *)
(* was rewound and re-lexed; the lexical errors are in source order too,   *)
(* as their merge with the syntax errors takes for granted, unless the     *)
(* parser gives up a list inside an f-string.                              *)
THEOREM OutputOrdered == Spec => []OutputInOrder
<1>1. ErrInv => OutputInOrder
  <2>. SUFFICES ASSUME ErrInv PROVE OutputInOrder
    OBVIOUS
  <2>0. Len(errors) \in Nat /\ Len(tokens) \in Nat
    BY SMTT(30) DEF ErrInv, SaneInv, OrderInv, TypeInv, TypeOK, LexerTypeOK
  <2>1. \A i \in 1..Len(errors) - 1 : i \in 1..Len(errors) /\ i + 1 \in 1..Len(errors) /\ i < i + 1
    BY <2>0
  <2>2. \A i \in 1..Len(tokens) - 1 : i \in 1..Len(tokens) /\ i + 1 \in 1..Len(tokens) /\ i < i + 1
    BY <2>0
  <2>3. tokens # <<>> => Len(tokens) \in 1..Len(tokens)
    BY DEF ErrInv, SaneInv, OrderInv, TypeInv, TypeOK
  <2>. QED  BY <2>1, <2>2, <2>3 DEF ErrInv, ErrorsInOrder, SaneInv, OrderInv, Rest, Ordered, Extent, OutputInOrder
<1>. QED  BY <1>1, InitErr, NextErr, PTL DEF Spec
-----------------------------------------------------------------------------
(* The tokens of a kind can be counted. *)
LEMMA OfFinite ==
    ASSUME NEW t \in Seq(TokenRecord), NEW k
    PROVE  IsFiniteSet(Of(t, k)) /\ Cardinality(Of(t, k)) \in Nat
<1>1. Len(t) \in Nat
  OBVIOUS
<1>2. IsFiniteSet(1..Len(t))
  BY <1>1, FS_Interval
<1>3. Of(t, k) \subseteq 1..Len(t)
  BY DEF Of
<1>4. IsFiniteSet(Of(t, k))
  BY <1>2, <1>3, FS_Subset
<1>. QED  BY <1>4, FS_CardinalityType

(* One more token. *)
LEMMA OfAppend ==
    ASSUME NEW t \in Seq(TokenRecord), NEW x \in TokenRecord, NEW k
    PROVE  Cardinality(Of(Append(t, x), k)) = Cardinality(Of(t, k)) + IF x.kind = k THEN 1 ELSE 0
<1>. DEFINE u == Append(t, x)
            n == Len(t)
<1>1. n \in Nat /\ Len(u) = n + 1 /\ u[n + 1] = x /\ \A j \in 1..n : u[j] = t[j]
  OBVIOUS
<1>2. 1..n + 1 = 1..n \cup {n + 1} /\ n + 1 \notin 1..n
  BY <1>1
<1>. HIDE DEF u, n
<1>3. CASE x.kind = k
  <2>1. Of(u, k) = Of(t, k) \cup {n + 1} /\ n + 1 \notin Of(t, k)
    BY <1>1, <1>2, <1>3 DEF Of, n
  <2>2. Cardinality(Of(u, k)) = Cardinality(Of(t, k)) + 1
    BY <2>1, OfFinite, FS_AddElement
  <2>. QED  BY <1>3, <2>2 DEF u
<1>4. CASE x.kind # k
  <2>1. Of(u, k) = Of(t, k)
    BY <1>1, <1>2, <1>4 DEF Of, n
  <2>. QED  BY <1>4, <2>1, OfFinite DEF u
<1>. QED  BY <1>3, <1>4

(* The current token becomes the last one. *)
LEMMA BlocksAppend ==
    ASSUME NEW t \in Seq(TokenRecord), NEW x \in TokenRecord, NEW d \in Nat, Blocks(t, x.kind, d)
    PROVE  Blocks(Append(t, x), "", d)
<1>1. \A k : Cardinality(Of(t, k)) \in Nat
  BY OfFinite
<1>2. \A k : Cardinality(Of(Append(t, x), k)) = Cardinality(Of(t, k)) + IF x.kind = k THEN 1 ELSE 0
  BY OfAppend
<1>. QED  BY <1>1, <1>2 DEF Blocks

(* Tokens that are neither are dropped. *)
LEMMA BlocksCut ==
    ASSUME NEW t \in Seq(TokenRecord), NEW n \in 0..Len(t), NEW k, NEW d, Blocks(t, k, d),
           \A i \in n + 1..Len(t) : t[i].kind \notin {"Indent", "Dedent"}
    PROVE  Blocks(SubSeq(t, 1, n), k, d)
<1>. DEFINE u == SubSeq(t, 1, n)
<1>1. Len(t) \in Nat /\ n \in Nat /\ n <= Len(t)
  OBVIOUS
<1>2. Len(u) = n /\ \A i \in 1..n : u[i] = t[i]
  BY <1>1, InitialPart
<1>. HIDE DEF u
<1>3. 1..Len(t) = 1..n \cup n + 1..Len(t)
  BY <1>1
<1>4. Of(u, "Indent") = Of(t, "Indent") /\ Of(u, "Dedent") = Of(t, "Dedent")
  BY <1>2, <1>3 DEF Of
<1>. QED  BY <1>4 DEF Blocks, u

(* No level is less than the root. *)
LEMMA RootIsLeast ==
    ASSUME NEW stack \in Seq(IndentationLevel), NEW l \in IndentationLevel,
           TryCompare(CurrentLevel(stack), l) = "Greater"
    PROVE  /\ stack # <<>> /\ Len(stack) \in Nat /\ Len(Popped(stack)) = Len(stack) - 1
<1>1. stack # <<>>
  BY DEF CurrentLevel, Root, TryCompare, Compare, IndentationLevel
<1>2. Len(stack) \in Nat /\ Len(stack) - 1 \in Nat /\ Len(stack) - 1 <= Len(stack)
  BY <1>1
<1>3. Len(SubSeq(stack, 1, Len(stack) - 1)) = Len(stack) - 1
  BY <1>2, InitialPart
<1>. QED  BY <1>1, <1>2, <1>3 DEF Popped

(* The lexer opens a block with an Indent token and closes one with a      *)
(* Dedent token, unless it reports the indentation.                        *)
LEMMA LexBlocks ==
    ASSUME LexerTypeOK, LexStep, NoIndentationError(Len(errors))'
    PROVE  /\ pc' # "return" => indentations' = indentations
           /\ pc' = "return" => Len(indentations') + (IF kind' = "Dedent" THEN 1 ELSE 0) =
                                Len(indentations) + (IF kind' = "Indent" THEN 1 ELSE 0)
<1>0. /\ indentations \in Seq(IndentationLevel) /\ Len(indentations) \in Nat /\ errors \in Seq(ErrorRecord)
      /\ indentation \in IndentationLevel /\ (pending # NoPending => pending \in IndentationLevel)
  BY DEF LexerTypeOK
<1>1. \A s, e : ~PushError("Indentation", s, e)
  BY <1>0 DEF NoIndentationError, PushError
<1>2. CASE NextDedent
  <2>1. CASE TryCompare(CurrentLevel(indentations), pending) = "Greater"
    <3>1. indentations' = Popped(indentations) /\ kind' = "Dedent" /\ pc' = "return" /\ pending # NoPending
      BY <1>1, <1>2, <2>1 DEF NextDedent
    <3>2. Len(indentations') = Len(indentations) - 1
      BY <1>0, <2>1, <3>1, RootIsLeast
    <3>. QED  BY <1>0, <3>1, <3>2
  <2>2. CASE TryCompare(CurrentLevel(indentations), pending) # "Greater"
    BY <1>1, <1>2, <2>2 DEF NextDedent, EnterLayout, AfterLayout
  <2>. QED  BY <2>1, <2>2
<1>3. CASE HandleIndentation
  <2>1. CASE TryCompare(CurrentLevel(indentations), indentation) = "Greater"
    <3>1. indentations' = Popped(indentations) /\ kind' = "Dedent" /\ pc' = "return"
      BY <1>1, <1>3, <2>1 DEF HandleIndentation
    <3>2. Len(indentations') = Len(indentations) - 1
      BY <1>0, <2>1, <3>1, RootIsLeast
    <3>. QED  BY <1>0, <3>1, <3>2
  <2>2. CASE TryCompare(CurrentLevel(indentations), indentation) = "Less"
    BY <1>0, <1>3, <2>2 DEF HandleIndentation
  <2>3. CASE TryCompare(CurrentLevel(indentations), indentation) \notin {"Greater", "Less"}
    BY <1>1, <1>3, <2>3 DEF HandleIndentation
  <2>. QED  BY <2>1, <2>2, <2>3
<1>4. CASE ConsumeEnd
  BY <1>0, <1>4 DEF ConsumeEnd, Token, PushError, Popped
<1>5. CASE EatIndentation \/ SkipWhitespace \/ (LexChar /\ ~ConsumeEnd)
  <2>1. indentations' = indentations
    BY <1>5 DEF EatIndentation, SkipWhitespace, LexChar, LexName, LexFStringStart, LexWord, LexComment, LexEqual,
           LexEscapeCharacter, LexOpening, LexRpar, LexRbrace, LexColon, LexNewline, LexUnrecognized, LexStringStart
  <2>2. pc' = "return" => kind' \notin {"Indent", "Dedent"}
    BY <1>5 DEF EatIndentation, SkipWhitespace, Continuation, Advance, LexChar, LexName, LexFStringStart, LexWord,
           LexComment, LexEqual, LexEscapeCharacter, LexOpening, LexRpar, LexRbrace, LexColon, LexNewline,
           LexUnrecognized, LexStringStart, Token, PushError
  <2>. QED  BY <2>1, <2>2
<1>6. CASE NextFStringToken \/ NextPlain \/ SkipEmptyLine \/ LexString \/ LexFStringMiddle
           \/ LexFStringUnterminated \/ LexFStringText \/ LexEscapeCommand
  <2>1. indentations' = indentations
    BY <1>6 DEF NextFStringToken, NextPlain, SkipEmptyLine, checkpointVars, LexString, LexFStringMiddle,
           LexFStringUnterminated, LexFStringText, LexEscapeCommand
  <2>2. pc' = "return" => kind' \notin {"Indent", "Dedent"}
    BY <1>6 DEF NextFStringToken, NextPlain, SkipEmptyLine, LexString, LexFStringMiddle, EnterLayout, AfterLayout,
           LexFStringUnterminated, LexFStringText, LexEscapeCommand, Token, PushError, Advance
  <2>. QED  BY <2>1, <2>2
<1>. QED  BY <1>2, <1>3, <1>4, <1>5, <1>6 DEF LexStep

(* Whether the first `n` errors mention the indentation. *)
LEMMA NoIndentationKept ==
    ASSUME NEW n \in Nat, \A i \in 1..n : errors'[i] = errors[i]
    PROVE  NoIndentationError(n)' <=> NoIndentationError(n)
BY DEF NoIndentationError

(* The checkpoint of a look-ahead stays. *)
LEMMA SavedBlocks ==
    ASSUME SaneInv, BlocksSaved, saved # <<>>, UNCHANGED <<tokens, saved>>,
           \A i \in 1..Len(errors) : errors'[i] = errors[i]
    PROVE  BlocksSaved'
<1>1. PICK n \in Nat : n = saved[1].errors /\ n <= Len(errors)
  BY SavedType DEF SaneInv, OrderInv, TypeInv
<1>2. Len(errors) \in Nat
  BY DEF SaneInv, OrderInv, TypeInv, TypeOK, LexerTypeOK
<1>3. NoIndentationError(n)' <=> NoIndentationError(n)
  BY <1>1, <1>2, NoIndentationKept
<1>. QED  BY <1>1, <1>3 DEF BlocksSaved

(* The checkpoint of the parser stays. *)
LEMMA MarkBlocks ==
    ASSUME SaneInv, BlocksMarked, mark' = mark,
           Speculating => \A i \in 1..mark[1].lexer.errors : errors'[i] = errors[i]
    PROVE  BlocksMarked'
<1>1. CASE ~Speculating
  BY <1>1 DEF BlocksMarked, Speculating
<1>2. CASE Speculating
  <2>1. PICK n \in Nat : n = mark[1].lexer.errors
    BY <1>2, MarkedErrors DEF SaneInv
  <2>2. NoIndentationError(n)' <=> NoIndentationError(n)
    BY <1>2, <2>1, NoIndentationKept
  <2>. QED  BY <2>1, <2>2 DEF BlocksMarked, Speculating
<1>. QED  BY <1>1, <1>2

(* The lexer does not touch the source, and hands a token back. *)
LEMMA LexFrame ==
    ASSUME LexStep
    PROVE  src' = src /\ pc' # "idle"
<1>1. src' = src
  BY DEF LexStep, NextFStringToken, NextDedent, NextPlain, EatIndentation, SkipEmptyLine, HandleIndentation,
         SkipWhitespace, LexChar, LexName, LexFStringStart, LexWord, LexComment, LexEqual, LexEscapeCharacter,
         LexOpening, LexRpar, LexRbrace, LexColon, LexNewline, LexUnrecognized, LexStringStart, ConsumeEnd, LexString,
         LexFStringMiddle, LexFStringUnterminated, LexFStringText, LexEscapeCommand
<1>2. pc' # "idle"
  BY DEF LexStep, NextFStringToken, NextDedent, NextPlain, EatIndentation, SkipEmptyLine, HandleIndentation,
         SkipWhitespace, Continuation, EnterLayout, AfterLayout, LexChar, LexName, LexFStringStart, LexWord, LexComment,
         LexEqual, LexEscapeCharacter, LexOpening, LexRpar, LexRbrace, LexColon, LexNewline, LexUnrecognized,
         LexStringStart, ConsumeEnd, LexString, LexFStringMiddle, LexFStringUnterminated, LexFStringText,
         LexEscapeCommand, Token, PushError, Advance
<1>. QED  BY <1>1, <1>2

(* A step of the lexer. *)
LEMMA BlockLex ==
    ASSUME BlockInv, ErrInv', Lex
    PROVE  BlockInv'
<1>. SUFFICES ASSUME relexed # "fstring"
              PROVE  BlocksInStep'
  BY DEF BlockInv, Lex, sourceVars
<1>0. /\ SaneInv /\ ErrorsInOrder /\ LexerTypeOK /\ LexStep /\ TypeOK /\ BlocksInStep
      /\ UNCHANGED <<tokens, caller, saved, mark, lists>> /\ pc # "idle" /\ pc # "return" /\ Len(errors) \in Nat
  BY LexErrors DEF BlockInv, ErrInv, SaneInv, OrderInv, TypeInv, TypeOK, Lex, sourceVars, LexerTypeOK
<1>1. \A i \in 1..Len(errors) : errors'[i] = errors[i]
  <2>1. errors' = errors \/ \E x \in ErrorRecord : errors' = Append(errors, x)
    BY <1>0, LexErrorsType
  <2>. QED  BY <1>0, <2>1, SMTT(30) DEF LexerTypeOK
<1>2. BlocksNow'
  <2>. SUFFICES ASSUME NoIndentationError(Len(errors))', saved = <<>>
                PROVE  Blocks(tokens, CountedKind, Len(indentations))'
    BY <1>0 DEF BlocksNow
  <2>1. NoIndentationError(Len(errors))
    <3>1. Len(errors)' \in Nat /\ Len(errors) <= Len(errors)'
      <4>1. errors' = errors \/ \E x \in ErrorRecord : errors' = Append(errors, x)
        BY <1>0, LexErrorsType
      <4>. QED  BY <1>0, <4>1 DEF LexerTypeOK
    <3>. QED  BY <1>0, <1>1, <3>1 DEF NoIndentationError
  <2>2. Blocks(tokens, "", Len(indentations))
    BY <1>0, <2>1 DEF BlocksInStep, BlocksNow, CountedKind
  <2>3. caller \in {"bump", "relex"}
    BY <1>0 DEF SaneInv, OrderInv, TypeOK
  <2>4. CASE caller = "relex"
    <3>1. indentations' = indentations /\ pc' # "idle"
      BY <1>0, <2>4, LexFrame, ErrLexReLex
    <3>. QED  BY <1>0, <2>2, <2>4, <3>1 DEF CountedKind, Blocks, Of
  <2>5. CASE caller = "bump"
    <3>1. /\ pc' # "return" => indentations' = indentations
          /\ pc' = "return" => Len(indentations') + (IF kind' = "Dedent" THEN 1 ELSE 0) =
                               Len(indentations) + (IF kind' = "Indent" THEN 1 ELSE 0)
      BY <1>0, LexBlocks
    <3>2. /\ Cardinality(Of(tokens, "Indent")) \in Nat /\ Cardinality(Of(tokens, "Dedent")) \in Nat
          /\ Len(indentations) \in Nat /\ Len(indentations') \in Nat
      <4>1. LexerTypeOK'
        BY DEF ErrInv, SaneInv, OrderInv, TypeInv, TypeOK
      <4>. QED  BY <1>0, <4>1, OfFinite, SMTT(30) DEF TypeOK, LexerTypeOK
    <3>3. pc' # "idle"
      BY <1>0, LexFrame
    <3>4. CASE pc' = "return"
      <4>1. CountedKind' = kind'
        BY <1>0, <2>5, <3>4 DEF CountedKind
      <4>2. Of(tokens, "Indent")' = Of(tokens, "Indent") /\ Of(tokens, "Dedent")' = Of(tokens, "Dedent")
        BY <1>0 DEF Of
      <4>. QED  BY <2>2, <3>1, <3>2, <3>4, <4>1, <4>2 DEF Blocks
    <3>5. CASE pc' # "return"
      BY <1>0, <2>2, <3>1, <3>3, <3>5 DEF CountedKind, Blocks, Of
    <3>. QED  BY <3>4, <3>5
  <2>. QED  BY <2>3, <2>4, <2>5
<1>3. BlocksSaved'
  <2>1. CASE saved = <<>>
    BY <1>0, <2>1 DEF BlocksSaved
  <2>2. CASE saved # <<>>
    BY <1>0, <1>1, <2>2, SavedBlocks DEF BlocksInStep
  <2>. QED  BY <2>1, <2>2
<1>4. BlocksMarked'
  <2>1. Speculating => \A i \in 1..mark[1].lexer.errors : errors'[i] = errors[i]
    BY <1>0, <1>1, MarkedErrors DEF SaneInv
  <2>. QED  BY <1>0, <2>1, MarkBlocks DEF BlocksInStep
<1>. QED  BY <1>2, <1>3, <1>4 DEF BlocksInStep

(* A call of do_bump gets a token. *)
LEMMA BlockReturnBump ==
    ASSUME BlockInv, ErrInv', ReturnBump
    PROVE  BlockInv'
<1>. SUFFICES ASSUME relexed # "fstring"
              PROVE  BlocksInStep'
  BY DEF BlockInv, ReturnBump
<1>0. /\ SaneInv /\ LexerTypeOK /\ tokens \in Seq(TokenRecord) /\ CurrentToken \in TokenRecord /\ BlocksInStep
      /\ pc = "return" /\ caller = "bump" /\ saved = <<>>
      /\ UNCHANGED <<kind, errors, indentations, caller, saved, mark>>
  BY DEF BlockInv, ErrInv, SaneInv, OrderInv, TypeInv, TypeOK, LexerTypeOK, CurrentToken, TokenRecord, ReturnBump,
         checkpointVars
<1>1. BlocksNow'
  <2>. SUFFICES ASSUME NoIndentationError(Len(errors))
                PROVE  Blocks(tokens, CountedKind, Len(indentations))'
    BY <1>0 DEF BlocksNow, NoIndentationError
  <2>1. Blocks(tokens, kind, Len(indentations))
    BY <1>0 DEF BlocksInStep, BlocksNow, CountedKind
  <2>2. CASE kind \in Trivia
    <3>1. tokens' = Append(tokens, CurrentToken) /\ CountedKind' = ""
      BY <1>0, <2>2 DEF ReturnBump, CountedKind
    <3>2. CurrentToken.kind = kind /\ Len(indentations) \in Nat
      BY <1>0 DEF CurrentToken, LexerTypeOK
    <3>3. Blocks(Append(tokens, CurrentToken), "", Len(indentations))
      BY <1>0, <2>1, <3>2, BlocksAppend
    <3>. QED  BY <1>0, <3>1, <3>3 DEF Blocks, Of
  <2>3. CASE kind \notin Trivia
    <3>1. tokens' = tokens /\ CountedKind' = kind
      BY <1>0, <2>3 DEF ReturnBump, CountedKind
    <3>. QED  BY <1>0, <2>1, <3>1 DEF Blocks, Of
  <2>. QED  BY <2>2, <2>3
<1>2. BlocksSaved'
  BY <1>0 DEF BlocksSaved
<1>3. BlocksMarked'
  BY <1>0, MarkBlocks DEF BlocksInStep
<1>. QED  BY <1>1, <1>2, <1>3 DEF BlocksInStep

(* Parser::do_bump *)
LEMMA BlockBumps ==
    ASSUME BlockInv, ErrInv', Bump
    PROVE  BlockInv'
<1>. SUFFICES ASSUME relexed # "fstring"
              PROVE  BlocksInStep'
  BY DEF BlockInv, Bump, SettledReLexed
<1>0. /\ SaneInv /\ LexerTypeOK /\ tokens \in Seq(TokenRecord) /\ CurrentToken \in TokenRecord /\ BlocksInStep
      /\ pc = "idle" /\ pc' = "next" /\ saved = <<>> /\ tokens' = Append(tokens, CurrentToken)
      /\ UNCHANGED <<kind, errors, indentations, saved, mark>>
  BY DEF BlockInv, ErrInv, SaneInv, OrderInv, TypeInv, TypeOK, LexerTypeOK, CurrentToken, TokenRecord, Bump,
         checkpointVars
<1>1. BlocksNow'
  <2>. SUFFICES ASSUME NoIndentationError(Len(errors))
                PROVE  Blocks(tokens, CountedKind, Len(indentations))'
    BY <1>0 DEF BlocksNow, NoIndentationError
  <2>1. Blocks(tokens, kind, Len(indentations))
    BY <1>0 DEF BlocksInStep, BlocksNow, CountedKind
  <2>2. CurrentToken.kind = kind /\ Len(indentations) \in Nat /\ CountedKind' = ""
    BY <1>0 DEF CurrentToken, LexerTypeOK, CountedKind
  <2>3. Blocks(Append(tokens, CurrentToken), "", Len(indentations))
    BY <1>0, <2>1, <2>2, BlocksAppend
  <2>. QED  BY <1>0, <2>2, <2>3 DEF Blocks, Of
<1>2. BlocksSaved'
  BY <1>0 DEF BlocksSaved
<1>3. BlocksMarked'
  BY <1>0, MarkBlocks DEF BlocksInStep
<1>. QED  BY <1>1, <1>2, <1>3 DEF BlocksInStep

(* A look-ahead gets a token, and puts everything back after the last. *)
LEMMA BlockReturnPeek ==
    ASSUME BlockInv, ErrInv', ReturnPeek
    PROVE  BlockInv'
<1>. SUFFICES ASSUME relexed # "fstring"
              PROVE  BlocksInStep'
  BY DEF BlockInv, ReturnPeek
<1>0. /\ SaneInv /\ TypeOK /\ BlocksInStep /\ saved # <<>> /\ pc = "return" /\ UNCHANGED <<tokens, mark>>
  BY DEF BlockInv, ErrInv, SaneInv, OrderInv, TypeInv, TypeOK, ReturnPeek
<1>1. CASE pc' = "next"
  <2>1. UNCHANGED <<errors, saved>>
    BY <1>1 DEF ReturnPeek
  <2>2. BlocksSaved'
    BY <1>0, <2>1, SavedBlocks DEF BlocksInStep
  <2>3. BlocksMarked'
    BY <1>0, <2>1, MarkBlocks DEF BlocksInStep
  <2>4. BlocksNow'
    BY <1>0, <2>1 DEF BlocksNow
  <2>. QED  BY <2>2, <2>3, <2>4 DEF BlocksInStep
<1>2. CASE pc' # "next"
  <2>1. /\ pc' = "idle" /\ saved' = <<>> /\ kind' = saved[1].kind /\ indentations' = saved[1].indentations
        /\ errors' = Truncate(errors, saved[1].errors)
    BY <1>2 DEF ReturnPeek, RestoreLexer
  <2>2. PICK n \in Nat : n = saved[1].errors /\ n <= Len(errors)
    BY <1>0, SavedType DEF SaneInv, OrderInv
  <2>3. errors \in Seq(ErrorRecord)
    BY <1>0 DEF TypeOK, LexerTypeOK
  <2>4. Len(errors') = n /\ \A i \in 1..n : errors'[i] = errors[i]
    BY <2>1, <2>2, <2>3, ErrorsCut
  <2>5. NoIndentationError(n)' <=> NoIndentationError(n)
    BY <2>4, NoIndentationKept
  <2>6. BlocksNow'
    <3>. SUFFICES ASSUME NoIndentationError(Len(errors))'
                  PROVE  Blocks(tokens, CountedKind, Len(indentations))'
      BY DEF BlocksNow
    <3>1. NoIndentationError(n)
      BY <2>4, <2>5 DEF NoIndentationError
    <3>2. Blocks(tokens, saved[1].kind, Len(saved[1].indentations))
      BY <1>0, <2>2, <3>1 DEF BlocksInStep, BlocksSaved
    <3>. QED  BY <1>0, <2>1, <3>2 DEF CountedKind, Blocks, Of
  <2>7. BlocksMarked'
    <3>1. Speculating => \A i \in 1..mark[1].lexer.errors : errors'[i] = errors[i]
      BY <1>0, <2>2, <2>4, MarkedErrors DEF SaneInv
    <3>. QED  BY <1>0, <3>1, MarkBlocks DEF BlocksInStep
  <2>8. BlocksSaved'
    BY <2>1 DEF BlocksSaved
  <2>. QED  BY <2>6, <2>7, <2>8 DEF BlocksInStep
<1>. QED  BY <1>1, <1>2

(* A checkpoint for a look-ahead or of the parser. *)
LEMMA BlockMark ==
    ASSUME BlockInv, ErrInv', Peek \/ Checkpoint
    PROVE  BlockInv'
<1>. SUFFICES ASSUME relexed # "fstring"
              PROVE  BlocksInStep'
  BY DEF BlockInv, Peek, Checkpoint
<1>0. /\ SaneInv /\ TypeOK /\ BlocksInStep /\ pc = "idle" /\ saved = <<>>
      /\ UNCHANGED <<kind, errors, indentations, tokens>>
  BY DEF BlockInv, ErrInv, SaneInv, OrderInv, TypeInv, TypeOK, Peek, Checkpoint, lexerVars, checkpointVars
<1>1. NoIndentationError(Len(errors)) => Blocks(tokens, kind, Len(indentations))
  BY <1>0 DEF BlocksInStep, BlocksNow, CountedKind
<1>2. NoIndentationError(Len(errors))' <=> NoIndentationError(Len(errors))
  BY <1>0 DEF NoIndentationError
<1>3. CASE Peek
  <2>1. saved' = <<LexerCheckpoint>> /\ saved' # <<>> /\ saved'[1] = LexerCheckpoint /\ mark' = mark
    BY <1>3 DEF Peek
  <2>2. /\ LexerCheckpoint.kind = kind /\ LexerCheckpoint.errors = Len(errors)
        /\ LexerCheckpoint.indentations = indentations
    BY DEF LexerCheckpoint
  <2>3. BlocksSaved'
    BY <1>0, <1>1, <1>2, <2>1, <2>2 DEF BlocksSaved, Blocks, Of, NoIndentationError
  <2>4. BlocksMarked'
    BY <1>0, <2>1, MarkBlocks DEF BlocksInStep
  <2>. QED  BY <2>1, <2>3, <2>4 DEF BlocksInStep, BlocksNow
<1>4. CASE Checkpoint
  <2>1. /\ mark'[1].lexer = LexerCheckpoint /\ mark'[1].history[1] = tokens /\ pc' = pc /\ saved' = saved
    BY <1>4 DEF Checkpoint, lexerVars
  <2>2. /\ LexerCheckpoint.kind = kind /\ LexerCheckpoint.errors = Len(errors)
        /\ LexerCheckpoint.indentations = indentations
    BY DEF LexerCheckpoint
  <2>3. BlocksMarked'
    BY <1>0, <1>1, <1>2, <2>1, <2>2 DEF BlocksMarked, Blocks, Of, NoIndentationError
  <2>4. BlocksNow'
    BY <1>0, <1>1, <1>2, <2>1 DEF BlocksNow, Blocks, Of, CountedKind
  <2>5. BlocksSaved'
    BY <1>0, <2>1 DEF BlocksSaved
  <2>. QED  BY <2>3, <2>4, <2>5 DEF BlocksInStep
<1>. QED  BY <1>3, <1>4

(* Parser::rewind *)
LEMMA BlockRewind ==
    ASSUME BlockInv, ErrInv', Rewind
    PROVE  BlockInv'
<1>. SUFFICES ASSUME relexed # "fstring"
              PROVE  BlocksInStep'
  BY DEF BlockInv, Rewind, SettledReLexed
<1>0. /\ SaneInv /\ TypeOK /\ LexerTypeOK /\ BlocksInStep /\ pc = "idle" /\ pc' = "idle" /\ saved = <<>> /\ saved' = saved
      /\ Speculating /\ ~Speculating'
      /\ kind' = mark[1].lexer.kind /\ indentations' = mark[1].lexer.indentations
  BY RewindEnds DEF BlockInv, ErrInv, SaneInv, OrderInv, TypeInv, TypeOK, Rewind, RestoreLexer
<1>1. PICK n \in Nat : n = mark[1].lexer.errors /\ n <= Len(errors)
  BY <1>0, MarkedErrors DEF SaneInv
<1>2. Len(errors') = n /\ \A i \in 1..n : errors'[i] = errors[i]
  BY <1>0, <1>1, ErrorsCut DEF Rewind, RestoreLexer, LexerTypeOK
<1>3. NoIndentationError(n)' <=> NoIndentationError(n)
  BY <1>2, NoIndentationKept
<1>4. tokens' = mark[1].history[1]
  BY <1>0, RewindRestores DEF SaneInv
<1>5. BlocksNow'
  <2>. SUFFICES ASSUME NoIndentationError(Len(errors))'
                PROVE  Blocks(tokens, CountedKind, Len(indentations))'
    BY DEF BlocksNow
  <2>1. NoIndentationError(n)
    BY <1>2, <1>3 DEF NoIndentationError
  <2>2. Blocks(mark[1].history[1], mark[1].lexer.kind, Len(mark[1].lexer.indentations))
    BY <1>0, <1>1, <2>1 DEF BlocksInStep, BlocksMarked
  <2>. QED  BY <1>0, <1>4, <2>2 DEF CountedKind, Blocks, Of
<1>. QED  BY <1>0, <1>5 DEF BlocksInStep, BlocksSaved, BlocksMarked

(* A list is given up: the token to be lexed again opens or closes no block. *)
LEMMA BlockReLexes ==
    ASSUME BlockInv, ErrInv', ReLex
    PROVE  BlockInv'
<1>. SUFFICES ASSUME relexed' # "fstring"
              PROVE  BlocksInStep'
  BY DEF BlockInv
<1>0. /\ SaneInv /\ ErrorsInOrder /\ BlocksInStep /\ pc = "idle" /\ saved = <<>> /\ caller' = "relex"
      /\ UNCHANGED <<kind, errors, indentations, tokens, saved, mark>>
      /\ kind # "Unknown" /\ relexed # "fstring" /\ nesting \in Nat
  BY ReLexAtAssumption
     DEF BlockInv, ErrInv, SaneInv, OrderInv, TypeInv, TypeOK, LexerTypeOK, ReLex, InFString, ReLexTarget, SettledReLexed
<1>1. BlocksNow'
  <2>. SUFFICES ASSUME NoIndentationError(Len(errors))
                PROVE  Blocks(tokens, CountedKind, Len(indentations))'
    BY <1>0 DEF BlocksNow, NoIndentationError
  <2>1. Blocks(tokens, kind, Len(indentations))
    BY <1>0 DEF BlocksInStep, BlocksNow, CountedKind
  <2>2. CASE ReLexStays
    BY <1>0, <2>1, <2>2 DEF ReLexStays, CountedKind, Blocks, Of
  <2>3. CASE ReLexMoves
    <3>1. NoEof(Len(errors))
      BY <1>0, <2>3, TrailingTokens DEF ReLexMoves, ErrorsInOrder, ErrRest, EndReached
    <3>2. kind \notin {"Indent", "Dedent"}
      BY <1>0, <2>3, <3>1 DEF SaneInv, SaneLexer, SaneToken, ReLexMoves
    <3>3. CountedKind' = ""
      BY <1>0, <2>3 DEF ReLexMoves, CountedKind
    <3>. QED  BY <1>0, <2>1, <3>2, <3>3 DEF Blocks, Of
  <2>. QED  BY <2>2, <2>3 DEF ReLex
<1>2. BlocksSaved'
  BY <1>0 DEF BlocksSaved
<1>3. BlocksMarked'
  BY <1>0, MarkBlocks DEF BlocksInStep
<1>. QED  BY <1>1, <1>2, <1>3 DEF BlocksInStep

(* The token is lexed again: no block is lost with the tokens taken back. *)
LEMMA BlockReturnReLex ==
    ASSUME BlockInv, ErrInv', ReturnReLex
    PROVE  BlockInv'
<1>. SUFFICES ASSUME relexed # "fstring"
              PROVE  BlocksInStep'
  BY DEF BlockInv, ReturnReLex
<1>0. /\ SaneInv /\ ErrorsInOrder /\ BlocksInStep /\ tokens \in Seq(TokenRecord) /\ saved = <<>>
      /\ pc = "return" /\ pc' = "idle" /\ caller = "relex"
      /\ kind \in {"Newline", "NonLogicalNewline"}
      /\ UNCHANGED <<kind, errors, indentations, saved, mark>>
  BY DEF BlockInv, ErrInv, SaneInv, OrderInv, TypeInv, TypeOK, ReturnReLex, checkpointVars, ErrorsInOrder, ErrReLex
<1>1. PICK n \in 0..Len(tokens) :
          /\ tokens' = SubSeq(tokens, 1, n)
          /\ \A i \in n + 1..Len(tokens) : tokens[i].kind \in Trivia \cup {"Unknown"}
  BY <1>0, ReLexCut
<1>2. BlocksNow'
  <2>. SUFFICES ASSUME NoIndentationError(Len(errors))
                PROVE  Blocks(tokens, CountedKind, Len(indentations))'
    BY <1>0 DEF BlocksNow, NoIndentationError
  <2>1. Blocks(tokens, "", Len(indentations))
    BY <1>0 DEF BlocksInStep, BlocksNow, CountedKind
  <2>2. \A i \in n + 1..Len(tokens) : tokens[i].kind \notin {"Indent", "Dedent"}
    BY <1>1 DEF Trivia
  <2>3. Blocks(SubSeq(tokens, 1, n), "", Len(indentations))
    BY <1>0, <2>1, <2>2, BlocksCut
  <2>. QED  BY <1>0, <1>1, <2>3 DEF CountedKind, Blocks, Of
<1>3. BlocksSaved'
  BY <1>0 DEF BlocksSaved
<1>4. BlocksMarked'
  BY <1>0, MarkBlocks DEF BlocksInStep
<1>. QED  BY <1>2, <1>3, <1>4 DEF BlocksInStep

(* Init establishes the invariant. *)
LEMMA InitBlock == Init => BlockInv
<1>. SUFFICES ASSUME Init PROVE BlockInv
  OBVIOUS
<1>1. /\ tokens = <<>> /\ saved = <<>> /\ pc = "next" /\ mark = <<>> /\ indentations = <<>>
  BY DEF Init, LexerInit
<1>2. Of(tokens, "Indent") = {} /\ Of(tokens, "Dedent") = {} /\ CountedKind = "" /\ Len(indentations) = 0
  BY <1>1 DEF Of, CountedKind
<1>3. Cardinality(Of(tokens, "Indent")) = 0 /\ Cardinality(Of(tokens, "Dedent")) = 0
  BY <1>2, FS_EmptySet
<1>4. Blocks(tokens, "", 0)
  BY <1>3 DEF Blocks
<1>. QED  BY <1>1, <1>2, <1>4, InitErr DEF BlockInv, BlocksInStep, BlocksNow, BlocksSaved, BlocksMarked, Speculating

(* Every step keeps it. *)
LEMMA NextBlock == BlockInv /\ [Next]_vars => BlockInv'
<1>. SUFFICES ASSUME BlockInv, [Next]_vars PROVE BlockInv'
  OBVIOUS
<1>1. ErrInv'
  BY NextErr DEF BlockInv
<1>2. ASSUME UNCHANGED vars PROVE BlockInv'
  BY <1>1, <1>2 DEF vars, lexerVars, checkpointVars, localVars, sourceVars, BlockInv, BlocksInStep, BlocksNow,
         BlocksSaved, BlocksMarked, Blocks, Of, CountedKind, NoIndentationError, Speculating
<1>. QED  BY <1>1, <1>2, BlockLex, BlockReturnBump, BlockReturnPeek, BlockReturnReLex, BlockBumps, BlockMark,
             BlockRewind, BlockReLexes DEF Next

(* The parser has seen exactly the blocks on the lexer's stack opened and  *)
(* not closed, as long as no indentation error was reported: neither the   *)
(* look-ahead nor the re-lexing after a recovery outside f-strings loses   *)
(* an Indent or Dedent token or delivers one twice.                        *)
THEOREM BlocksInStepWithStack == Spec => []BlocksMatchStack
<1>1. BlockInv => BlocksMatchStack
  <2>. SUFFICES ASSUME BlockInv, pc = "idle", relexed # "fstring", NoIndentationError(Len(errors))
                PROVE  Count("Indent") = Count("Dedent") + Len(indentations)
    BY DEF BlocksMatchStack, NoIndentationError
  <2>0. saved = <<>> /\ tokens \in Seq(TokenRecord) /\ Len(indentations) \in Nat
    BY DEF BlockInv, ErrInv, SaneInv, OrderInv, TypeInv, TypeOK, LexerTypeOK
  <2>1. Blocks(tokens, kind, Len(indentations))
    BY <2>0 DEF BlockInv, BlocksInStep, BlocksNow, CountedKind
  <2>2. \A k : Cardinality(Of(tokens, k)) \in Nat /\ Count(k) = Cardinality(Of(tokens, k)) + IF kind = k THEN 1 ELSE 0
    BY <2>0, OfFinite DEF Of, Count
  <2>. QED  BY <2>0, <2>1, <2>2 DEF Blocks
<1>. QED  BY <1>1, InitBlock, NextBlock, PTL DEF Spec
-----------------------------------------------------------------------------
(* The lexer counts a bracket with its token. *)
LEMMA LexCounts ==
    ASSUME LexerTypeOK, LexStep, NEW l \in Nat, nesting <= l
    PROVE  Counted(nesting', IF pc' = "return" THEN kind' ELSE "", l)
<1>0. nesting \in Nat
  BY DEF LexerTypeOK
<1>1. CASE LexOpening
  BY <1>0, <1>1 DEF LexOpening, Token, Counted, Opening, Closing
<1>2. CASE LexRpar
  BY <1>0, <1>2 DEF LexRpar, Token, Counted, Opening, Closing, SaturatingDec
<1>3. CASE LexRbrace
  BY <1>0, <1>3 DEF LexRbrace, Token, PushError, Counted, Opening, Closing, SaturatingDec
<1>4. CASE ConsumeEnd
  BY <1>0, <1>4 DEF ConsumeEnd, Token, PushError, Counted, Opening, Closing
<1>5. CASE ~LexOpening /\ ~LexRpar /\ ~LexRbrace /\ ~ConsumeEnd
  <2>1. nesting' = nesting
    BY <1>5 DEF LexStep, NextFStringToken, NextDedent, NextPlain, EatIndentation, SkipEmptyLine, HandleIndentation,
         SkipWhitespace, checkpointVars, LexChar, LexName, LexFStringStart, LexWord, LexComment, LexEqual,
         LexEscapeCharacter, LexColon, LexNewline, LexUnrecognized, LexStringStart, LexString,
         LexFStringMiddle, LexFStringUnterminated, LexFStringText, LexEscapeCommand
  <2>2. pc' = "return" => kind' \notin Opening \cup Closing
    <3>1. CASE LexChar
      BY <1>5, <3>1 DEF LexChar, LexName, LexFStringStart, LexWord, LexComment, LexEqual, LexEscapeCharacter, LexColon,
         LexNewline, LexUnrecognized, LexStringStart, Token, PushError, Opening, Closing
    <3>2. CASE ~LexChar
      BY <3>2 DEF LexStep, NextFStringToken, NextDedent, NextPlain, EatIndentation, SkipEmptyLine, HandleIndentation,
         SkipWhitespace, Continuation, EnterLayout, AfterLayout, LexString, LexFStringMiddle,
         LexFStringUnterminated, LexFStringText, LexEscapeCommand, Token, PushError, Advance, Opening, Closing
    <3>. QED  BY <3>1, <3>2
  <2>. QED  BY <1>0, <2>1, <2>2 DEF Counted, Opening, Closing
<1>. QED  BY <1>1, <1>2, <1>3, <1>4, <1>5

(* The lexer goes on. *)
LEMMA LineLex ==
    ASSUME LineInv, ErrInv', Lex
    PROVE  LineInv'
<1>. SUFFICES ASSUME relexed \notin {"bracket", "fstring"}
              PROVE  LinesCounted'
  BY DEF LineInv, Lex, sourceVars
<1>0. /\ SaneInv /\ ErrorsInOrder /\ LexerTypeOK /\ LexStep /\ LinesCounted /\ pc # "idle" /\ pc # "return"
      /\ UNCHANGED <<src, tokens, caller, saved, mark, lists, relexed>> /\ Len(lists) \in Nat /\ pc' # "idle"
  BY LexErrors, LexFrame DEF LineInv, ErrInv, SaneInv, OrderInv, TypeInv, TypeOK, Lex, sourceVars
<1>1. (pc # "idle" /\ caller = "bump" =>
          Counted(nesting, IF pc = "return" THEN kind ELSE "", Len(lists)) /\ relexed = "settled")'
  <2>. SUFFICES ASSUME caller = "bump"
                PROVE  (Counted(nesting, IF pc = "return" THEN kind ELSE "", Len(lists)) /\ relexed = "settled")'
    BY <1>0
  <2>1. nesting <= Len(lists) /\ relexed = "settled"
    BY <1>0 DEF LinesCounted, Counted, Opening, Closing, LexerTypeOK
  <2>2. Counted(nesting', IF pc' = "return" THEN kind' ELSE "", Len(lists))
    BY <1>0, <2>1, LexCounts
  <2>. QED  BY <1>0, <2>1, <2>2
<1>2. (pc # "idle" /\ caller = "relex" =>
          /\ nesting <= Len(lists)
          /\ relexed = "list" => nesting > 0
          /\ pc = "return" => ReLexedKind(kind))'
  <2>. SUFFICES ASSUME caller = "relex"
                PROVE  (/\ nesting <= Len(lists)
                        /\ relexed = "list" => nesting > 0
                        /\ pc = "return" => ReLexedKind(kind))'
    BY <1>0
  <2>1. nesting <= Len(lists) /\ (relexed = "list" => nesting > 0) /\ nesting \in Nat
    BY <1>0 DEF LinesCounted, LexerTypeOK
  <2>2. nesting' = nesting /\ (pc' = "return" => kind' = IF nesting = 0 THEN "Newline" ELSE "NonLogicalNewline")
    BY <1>0, ErrLexReLex
  <2>3. lists = <<>> => Len(lists) = 0
    OBVIOUS
  <2>. QED  BY <1>0, <2>1, <2>2, <2>3 DEF ReLexedKind
<1>. QED  BY <1>0, <1>1, <1>2 DEF LinesCounted, ReLexedKind, Speculating

(* A token is handed out, a look-ahead begins or ends, or a checkpoint is  *)
(* taken: the lexer counts as before.                                      *)
LEMMA LineReturnBump ==
    ASSUME LineInv, ErrInv', ReturnBump
    PROVE  LineInv'
<1>. SUFFICES ASSUME relexed \notin {"bracket", "fstring"}
              PROVE  LinesCounted'
  BY DEF LineInv, ReturnBump
<1>0. /\ LinesCounted /\ pc = "return" /\ caller = "bump" /\ saved = <<>> /\ Len(lists) \in Nat /\ nesting \in Nat
      /\ UNCHANGED <<kind, nesting, caller, saved, mark, lists, relexed>>
  BY DEF LineInv, ErrInv, SaneInv, OrderInv, TypeInv, TypeOK, LexerTypeOK, ReturnBump, checkpointVars
<1>1. Counted(nesting, kind, Len(lists)) /\ relexed = "settled"
  BY <1>0 DEF LinesCounted
<1>2. kind \in Trivia => Counted(nesting, "", Len(lists))
  BY <1>1 DEF Counted, Trivia, Opening, Closing
<1>3. pc' = (IF kind \in Trivia THEN "next" ELSE "idle")
  BY DEF ReturnBump
<1>. QED  BY <1>0, <1>1, <1>2, <1>3 DEF LinesCounted, ReLexedKind, Speculating

LEMMA LineReturnPeek ==
    ASSUME LineInv, ErrInv', ReturnPeek
    PROVE  LineInv'
<1>. SUFFICES ASSUME relexed \notin {"bracket", "fstring"}
              PROVE  LinesCounted'
  BY DEF LineInv, ReturnPeek
<1>0. /\ LinesCounted /\ saved # <<>> /\ caller \in {"peek", "peek2"}
      /\ UNCHANGED <<caller, mark, lists, relexed>>
  BY DEF LineInv, ErrInv, SaneInv, OrderInv, ReturnPeek
<1>1. \/ pc' = "next" /\ UNCHANGED saved
      \/ pc' = "idle" /\ saved' = <<>> /\ kind' = saved[1].kind /\ nesting' = saved[1].nesting
  BY DEF ReturnPeek, RestoreLexer
<1>. QED  BY <1>0, <1>1 DEF LinesCounted, ReLexedKind, Speculating

LEMMA LineMark ==
    ASSUME LineInv, ErrInv', Peek \/ Checkpoint
    PROVE  LineInv'
<1>. SUFFICES ASSUME relexed \notin {"bracket", "fstring"}
              PROVE  LinesCounted'
  BY DEF LineInv, Peek, Checkpoint
<1>0. /\ LinesCounted /\ pc = "idle" /\ saved = <<>>
      /\ UNCHANGED <<kind, nesting, lists, relexed>>
      /\ LexerCheckpoint.kind = kind /\ LexerCheckpoint.nesting = nesting
  BY DEF LineInv, ErrInv, SaneInv, OrderInv, Peek, Checkpoint, lexerVars, checkpointVars, LexerCheckpoint
<1>1. Counted(nesting, kind, Len(lists)) /\ ReLexedKind(kind)
  BY <1>0 DEF LinesCounted
<1>2. CASE Peek
  <2>1. saved'[1] = LexerCheckpoint /\ pc' = "next" /\ caller' \in {"peek", "peek2"} /\ mark' = mark
    BY <1>2 DEF Peek
  <2>. QED  BY <1>0, <1>1, <2>1 DEF LinesCounted, ReLexedKind, Speculating
<1>3. CASE Checkpoint
  <2>1. /\ mark'[1].lexer = LexerCheckpoint /\ mark'[1].lists = lists
        /\ UNCHANGED <<pc, saved>>
    BY <1>3 DEF Checkpoint, lexerVars
  <2>. QED  BY <1>0, <1>1, <2>1 DEF LinesCounted, ReLexedKind, Speculating
<1>. QED  BY <1>2, <1>3

(* Parser::do_bump follows the lexer into and out of lists. *)
LEMMA LineBumps ==
    ASSUME LineInv, ErrInv', Bump
    PROVE  LineInv'
<1>. SUFFICES ASSUME relexed \notin {"bracket", "fstring"}
              PROVE  LinesCounted'
  BY DEF LineInv, Bump, SettledReLexed
<1>0. /\ LinesCounted /\ pc = "idle" /\ pc' = "next" /\ caller' = "bump" /\ saved = <<>> /\ relexed' = "settled"
      /\ UNCHANGED <<kind, nesting, saved, mark>> /\ lists \in Seq(Opening) /\ Len(lists) \in Nat /\ nesting \in Nat
  BY DEF LineInv, ErrInv, SaneInv, OrderInv, TypeInv, TypeOK, LexerTypeOK, Bump, checkpointVars, SettledReLexed, ReLexed
<1>1. Counted(nesting, kind, Len(lists))
  BY <1>0 DEF LinesCounted
<1>2. nesting <= Len(lists') /\ Len(lists') \in Nat
  <2>0. ClosesInner => kind \in Closing /\ kind \notin Opening
    BY <1>0 DEF ClosesInner, Closer, Opening, Closing
  <2>1. CASE kind \in Opening
    <3>1. lists' = Append(lists, kind)
      BY <2>0, <2>1 DEF Bump
    <3>. QED  BY <1>0, <1>1, <2>1, <3>1 DEF Counted, Opening, Closing
  <2>2. CASE ClosesInner
    <3>1. lists' = SubSeq(lists, 1, Len(lists) - 1) /\ lists # <<>>
      BY <2>0, <2>2 DEF Bump, ClosesInner
    <3>2. Len(lists) - 1 \in Nat /\ Len(lists) - 1 <= Len(lists)
      BY <1>0, <3>1
    <3>3. Len(lists') = Len(lists) - 1
      BY <1>0, <3>1, <3>2, InitialPart
    <3>. QED  BY <1>0, <1>1, <2>0, <2>2, <3>2, <3>3 DEF Counted
  <2>3. CASE kind \notin Opening /\ ~ClosesInner
    <3>1. lists' = lists
      BY <2>3 DEF Bump
    <3>. QED  BY <1>0, <1>1, <2>3, <3>1 DEF Counted
  <2>. QED  BY <2>1, <2>2, <2>3
<1>3. Counted(nesting, "", Len(lists'))
  BY <1>0, <1>2 DEF Counted, Opening, Closing
<1>. QED  BY <1>0, <1>3 DEF LinesCounted, Speculating

(* Parser::rewind *)
LEMMA LineRewind ==
    ASSUME LineInv, ErrInv', Rewind
    PROVE  LineInv'
<1>. SUFFICES ASSUME relexed \notin {"bracket", "fstring"}
              PROVE  LinesCounted'
  BY DEF LineInv, Rewind, SettledReLexed
<1>0. /\ LinesCounted /\ pc = "idle" /\ pc' = "idle" /\ saved = <<>> /\ saved' = saved /\ relexed' = "settled"
      /\ Speculating /\ ~Speculating'
      /\ kind' = mark[1].lexer.kind /\ nesting' = mark[1].lexer.nesting /\ lists' = mark[1].lists
  BY RewindEnds DEF LineInv, ErrInv, SaneInv, OrderInv, TypeInv, TypeOK, Rewind, RestoreLexer, SettledReLexed, ReLexed
<1>1. Counted(mark[1].lexer.nesting, mark[1].lexer.kind, Len(mark[1].lists))
  BY <1>0 DEF LinesCounted
<1>. QED  BY <1>0, <1>1 DEF LinesCounted, ReLexedKind

(* A list is given up, and its bracket with it. *)
LEMMA LineReLexes ==
    ASSUME LineInv, ErrInv', ReLex
    PROVE  LineInv'
<1>. SUFFICES ASSUME relexed' \notin {"bracket", "fstring"}
              PROVE  LinesCounted'
  BY DEF LineInv
<1>0. /\ LinesCounted /\ pc = "idle" /\ saved = <<>> /\ caller' = "relex"
      /\ UNCHANGED <<kind, saved, mark>> /\ nesting \in Nat /\ lists \in Seq(Opening) /\ Len(lists) \in Nat
  <2>1. relexed \notin {"bracket", "fstring"}
    BY DEF ReLex, InFString, ReLexTarget, SettledReLexed
  <2>. QED  BY <2>1 DEF LineInv, ErrInv, SaneInv, OrderInv, TypeInv, TypeOK, LexerTypeOK, ReLex
<1>1. Counted(nesting, kind, Len(lists))
  BY <1>0 DEF LinesCounted
<1>2. Len(lists') = Len(lists) - 1 /\ Len(lists') \in Nat
  <2>1. lists' = SubSeq(lists, 1, Len(lists) - 1) /\ lists # <<>>
    BY DEF ReLex
  <2>2. Len(lists) - 1 \in Nat /\ Len(lists) - 1 <= Len(lists)
    BY <1>0, <2>1
  <2>. QED  BY <1>0, <2>1, <2>2, InitialPart
<1>3. CASE ReLexStays /\ relexed' = SettledReLexed
  <2>1. Counted(nesting', kind, Len(lists'))
    BY <1>0, <1>1, <1>2, <1>3 DEF ReLexStays, SaturatingDec, Counted
  <2>2. pc' = "idle" /\ relexed' \notin {"line", "list"}
    BY <1>0, <1>3 DEF ReLexStays, SettledReLexed
  <2>. QED  BY <1>0, <2>1, <2>2 DEF LinesCounted, ReLexedKind, Speculating
<1>4. CASE ReLexMoves /\ relexed' = ReLexTarget
  <2>1. kind \notin Opening /\ pc' = "next" /\ nesting > 0
        /\ nesting' = (IF kind \in Closing THEN nesting ELSE nesting - 1)
    BY <1>4 DEF ReLexMoves, ReLexTarget
  <2>2. nesting' <= Len(lists')
    BY <1>0, <1>1, <1>2, <2>1 DEF Counted
  <2>3. relexed' = "list" => nesting' > 0
    BY <1>0, <1>4, <2>1 DEF ReLexTarget
  <2>. QED  BY <1>0, <2>1, <2>2, <2>3 DEF LinesCounted, Speculating
<1>. QED  BY <1>3, <1>4 DEF ReLex

LEMMA LineReturnReLex ==
    ASSUME LineInv, ErrInv', ReturnReLex
    PROVE  LineInv'
<1>. SUFFICES ASSUME relexed \notin {"bracket", "fstring"}
              PROVE  LinesCounted'
  BY DEF LineInv, ReturnReLex
<1>0. /\ LinesCounted /\ saved = <<>> /\ pc = "return" /\ pc' = "idle" /\ caller = "relex"
      /\ kind \in {"Newline", "NonLogicalNewline"}
      /\ UNCHANGED <<kind, nesting, lists, relexed, saved, mark>>
  BY DEF LineInv, ErrInv, SaneInv, OrderInv, ReturnReLex, checkpointVars, ErrorsInOrder, ErrReLex
<1>1. Counted(nesting, kind, Len(lists)) /\ ReLexedKind(kind)
  BY <1>0 DEF LinesCounted, Counted, Opening, Closing
<1>. QED  BY <1>0, <1>1 DEF LinesCounted, ReLexedKind, Speculating

(* Init establishes the invariant. *)
LEMMA InitLine == Init => LineInv
<1>. SUFFICES ASSUME Init PROVE LineInv
  OBVIOUS
<1>1. /\ saved = <<>> /\ pc = "next" /\ caller = "bump" /\ mark = <<>> /\ nesting = 0 /\ Len(lists) = 0
      /\ relexed = "settled"
  BY DEF Init, LexerInit
<1>2. Counted(0, "", 0)
  BY DEF Counted
<1>. QED  BY <1>1, <1>2, InitErr DEF LineInv, LinesCounted, Speculating

(* Every step keeps it. *)
LEMMA NextLine == LineInv /\ [Next]_vars => LineInv'
<1>. SUFFICES ASSUME LineInv, [Next]_vars PROVE LineInv'
  OBVIOUS
<1>1. ErrInv'
  BY NextErr DEF LineInv
<1>2. ASSUME UNCHANGED vars PROVE LineInv'
  BY <1>1, <1>2 DEF vars, lexerVars, checkpointVars, localVars, sourceVars, LineInv, LinesCounted, ReLexedKind,
         Speculating
<1>. QED  BY <1>1, <1>2, LineLex, LineReturnBump, LineReturnPeek, LineReturnReLex, LineBumps, LineMark,
             LineRewind, LineReLexes DEF Next

(* When the parser gives up the last list and the lexer moves back, the    *)
(* line break becomes a logical newline; in front of the closing bracket   *)
(* of an outer list it stays non-logical.  The lexer's count of brackets   *)
(* is right for that after any number of lists given up, at any tokens but *)
(* opening brackets and outside f-strings, and after a rewind.             *)
THEOREM ReLexedLineEnds == Spec => []ReLexEmitsNewline
<1>1. LineInv => ReLexEmitsNewline
  <2>. SUFFICES ASSUME LineInv, pc = "idle", relexed \in {"line", "list"}
                PROVE  ReLexedKind(kind)
    BY DEF ReLexEmitsNewline, ReLexedKind
  <2>. QED  BY DEF LineInv, LinesCounted
<1>. QED  BY <1>1, InitLine, NextLine, PTL DEF Spec
=============================================================================
