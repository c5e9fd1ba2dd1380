----------------------------- MODULE LexerProofs -----------------------------
(***************************************************************************)
(* Proofs about TokenSource for every source text and every sequence of    *)
(* calls of the parser: its types, the stacks of the lexer, the order of   *)
(* its output, which makes rewinds exact, and that look-aheads are honest, *)
(* because the lexer is a function.                                        *)
(***************************************************************************)
EXTENDS TokenSource, LexerFunction, SequenceTheorems, TLAPS

(* What the cursor sees lies inside the source unless it sees NUL. *)
LEMMA CharInSource ==
    ASSUME LexerTypeOK, NEW n \in {1, 2, 3, 4}, Char(n) # "nul"
    PROVE  cursor + n \in Offsets
BY DEF LexerTypeOK, Char, Offsets

(* Not at the end of the source, the cursor can move. *)
LEMMA NotEof ==
    ASSUME LexerTypeOK, ~IsEof
    PROVE  cursor + 1 \in Offsets
BY DEF LexerTypeOK, IsEof, Offsets

(* Eating a character stays inside the source. *)
LEMMA EatType ==
    ASSUME LexerTypeOK, NEW o \in Offsets, NEW c
    PROVE  Eat(o, c) \in Offsets
BY DEF LexerTypeOK, Eat, Offsets

(* Skipping an escaped character stays inside the source. *)
LEMMA AfterEscapedType ==
    ASSUME LexerTypeOK
    PROVE  AfterEscaped \in Offsets
<1>1. CASE Char(2) = "cr"
  <2>1. cursor + 2 \in Offsets
    BY <1>1, CharInSource
  <2>. QED  BY <1>1, <2>1, EatType DEF AfterEscaped
<1>2. CASE Char(2) # "cr"
  BY <1>2 DEF AfterEscaped, LexerTypeOK, Offsets
<1>. QED  BY <1>1, <1>2

(* The context at the top of the stack. *)
LEMMA ContextType ==
    ASSUME LexerTypeOK, fstrings # <<>>
    PROVE  /\ Context \in FStringContext
           /\ Len(fstrings) \in 1..Len(fstrings)
           /\ PopFString \in Seq(FStringContext)
BY DEF LexerTypeOK, Context, PopFString

(* Changing the depth of the top context. *)
LEMMA SetDepthType ==
    ASSUME LexerTypeOK, fstrings # <<>>, NEW d \in Nat, SetDepth(d)
    PROVE  fstrings' \in Seq(FStringContext)
<1>. DEFINE n == Len(fstrings)
           c == [fstrings[n] EXCEPT !.depth = d]
<1>1. n \in 1..Len(fstrings) /\ fstrings \in Seq(FStringContext)
  BY ContextType DEF LexerTypeOK
<1>2. fstrings[n] \in FStringContext
  BY <1>1
<1>3. c \in FStringContext
  BY <1>2 DEF FStringContext
<1>4. fstrings' = [fstrings EXCEPT ![n] = c]
  BY DEF SetDepth
<1>. HIDE DEF c, n
<1>. QED  BY <1>1, <1>3, <1>4, ExceptSeq

(* Ending a format spec. *)
LEMMA TryEndType ==
    ASSUME LexerTypeOK, TryEndFormatSpec
    PROVE  fstrings' \in Seq(FStringContext)
<1>1. CASE fstrings # <<>> /\ InFormatSpec(Context)
  <2>1. Context.depth - 1 \in Nat
    BY <1>1, ContextType DEF InFormatSpec, FStringContext
  <2>. QED  BY <1>1, <2>1, SetDepthType DEF TryEndFormatSpec
<1>2. CASE ~(fstrings # <<>> /\ InFormatSpec(Context))
  BY <1>2 DEF TryEndFormatSpec, LexerTypeOK
<1>. QED  BY <1>1, <1>2

(* The indentation stack after a dedent. *)
LEMMA PoppedType ==
    ASSUME NEW s \in Seq(IndentationLevel)
    PROVE  /\ Popped(s) \in Seq(IndentationLevel)
           /\ CurrentLevel(s) \in IndentationLevel
<1>1. Root \in IndentationLevel
  BY DEF Root, IndentationLevel
<1>2. CASE s = <<>>
  BY <1>1, <1>2 DEF Popped, CurrentLevel
<1>3. CASE s # <<>>
  <2>1. Len(s) \in 1..Len(s) /\ s[Len(s)] \in IndentationLevel
    BY <1>3
  <2>2. SubSeq(s, 1, Len(s) - 1) \in Seq(IndentationLevel)
    BY <1>3
  <2>. QED  BY <1>3, <2>1, <2>2 DEF Popped, CurrentLevel
<1>. QED  BY <1>2, <1>3

(* A wider indentation is still one. *)
LEMMA LevelType ==
    ASSUME NEW i \in IndentationLevel
    PROVE  AddSpace(i) \in IndentationLevel /\ AddTab(i) \in IndentationLevel
BY DEF IndentationLevel, AddSpace, AddTab, TabSize

(* Tokens and errors of the right shape. *)
LEMMA TokenType ==
    ASSUME LexerTypeOK, NEW k \in Kinds, NEW e \in Offsets, Token(k, e), UNCHANGED src
    PROVE  /\ kind' \in Kinds
           /\ range' \in Offsets' \X Offsets'
           /\ cursor' \in Offsets'
           /\ pc' \in Pcs
           /\ errors' \in Seq(ErrorRecord)
BY DEF LexerTypeOK, Token, Offsets, Pcs

(* The same for an error. *)
LEMMA PushErrorType ==
    ASSUME LexerTypeOK, NEW t \in ErrorTypes, NEW b \in Offsets, NEW e \in Offsets,
           PushError(t, b, e), UNCHANGED src
    PROVE  /\ kind' \in Kinds
           /\ range' \in Offsets' \X Offsets'
           /\ pc' \in Pcs
           /\ errors' \in Seq(ErrorRecord)
<1>1. b \in Nat
  BY DEF Offsets, LexerTypeOK
<1>2. [error |-> t, start |-> b] \in ErrorRecord
  BY <1>1 DEF ErrorRecord
<1>3. errors' \in Seq(ErrorRecord)
  BY <1>2 DEF PushError, LexerTypeOK
<1>. QED  BY <1>3 DEF LexerTypeOK, PushError, Kinds, Pcs, Offsets

(* The same for a further turn of a loop. *)
LEMMA AdvanceType ==
    ASSUME LexerTypeOK, NEW e \in Offsets, Advance(e), UNCHANGED src
    PROVE  /\ kind' \in Kinds
           /\ range' \in Offsets' \X Offsets'
           /\ cursor' \in Offsets'
           /\ pc' \in Pcs
           /\ errors' \in Seq(ErrorRecord)
BY DEF LexerTypeOK, Advance, Offsets

(* A backslash in white space. *)
LEMMA ContinuationType ==
    ASSUME LexerTypeOK, First = "bs", Continuation, UNCHANGED src
    PROVE  /\ kind' \in Kinds
           /\ range' \in Offsets' \X Offsets'
           /\ cursor' \in Offsets'
           /\ pc' \in Pcs
           /\ errors' \in Seq(ErrorRecord)
<1>0. /\ cursor + 1 \in Offsets
      /\ cursor \in Offsets /\ start \in Offsets
      /\ Offsets' = Offsets
  BY CharInSource DEF First, LexerTypeOK, Offsets
<1>1. CASE Char(2) = "cr"
  <2>0. cursor + 2 \in Offsets
    BY <1>1, CharInSource
  <2>1. Eat(cursor + 2, "nl") \in Offsets
    BY <2>0, EatType
  <2>2. cursor + 1 # Len(src)
    BY <2>0 DEF Offsets, LexerTypeOK
  <2>3. Advance(Eat(cursor + 2, "nl"))
    BY <1>1, <2>2 DEF Continuation
  <2>. QED  BY <2>1, <2>3, AdvanceType
<1>2. CASE Char(2) # "cr" /\ cursor + 1 = Len(src)
  <2>0. Char(2) = "nul"
    BY <1>2 DEF Char, LexerTypeOK, Offsets
  <2>1. PushError("Eof", start, cursor + 1) /\ cursor' = cursor + 1
    BY <1>2, <2>0 DEF Continuation
  <2>. QED  BY <1>0, <2>1, PushErrorType DEF ErrorTypes
<1>3. CASE Char(2) = "nl"
  <2>1. cursor + 2 \in Offsets
    BY <1>3, CharInSource
  <2>0. cursor + 1 # Len(src)
    BY <2>1 DEF Offsets, LexerTypeOK
  <2>2. Advance(cursor + 2)
    BY <1>3, <2>0 DEF Continuation
  <2>. QED  BY <2>1, <2>2, AdvanceType
<1>4. CASE Char(2) # "cr" /\ cursor + 1 # Len(src) /\ Char(2) # "nl"
  <2>1. PushError("LineContinuation", cursor, cursor + 1) /\ cursor' = cursor + 1
    BY <1>4 DEF Continuation
  <2>. QED  BY <1>0, <2>1, PushErrorType DEF ErrorTypes
<1>. QED  BY <1>1, <1>2, <1>3, <1>4

(* Measuring and handling the indentation of a line. *)
LEMMA LayoutType ==
    ASSUME LexerTypeOK,
           NextFStringToken \/ NextDedent \/ NextPlain \/ EatIndentation \/ SkipEmptyLine
           \/ HandleIndentation \/ SkipWhitespace
    PROVE  LexerTypeOK'
<1>0. /\ src' = src
      /\ Offsets' = Offsets
      /\ cursor \in Offsets /\ start \in Offsets
  BY DEF LexerTypeOK, Offsets, NextFStringToken, NextDedent, NextPlain, EatIndentation,
         SkipEmptyLine, HandleIndentation, SkipWhitespace
<1>1. CASE NextFStringToken
  <2>1. CASE AtFStringEnd
    <3>1. (IF Context.triple THEN cursor + 3 ELSE cursor + 1) \in Offsets
      BY <2>1, CharInSource DEF AtFStringEnd, First
    <3>2. cursor' \in Offsets
      BY <1>1, <2>1, <3>1 DEF NextFStringToken
    <3>. QED  BY <1>0, <1>1, <2>1, <3>2, ContextType
              DEF NextFStringToken, LexerTypeOK, Kinds, Pcs, FStringContext
  <2>2. CASE ~AtFStringEnd
    BY <1>0, <1>1, <2>2 DEF NextFStringToken, LexerTypeOK, Kinds, Pcs
  <2>. QED  BY <2>1, <2>2
<1>2. CASE NextDedent
  <2>1. Popped(indentations) \in Seq(IndentationLevel)
    BY PoppedType DEF LexerTypeOK
  <2>2. Root \in IndentationLevel
    BY DEF Root, IndentationLevel
  <2>3. CASE TryCompare(CurrentLevel(indentations), pending) = "Greater"
    <3>1. CASE DedentOne(indentations, pending) = "Dedent"
      <4>1. /\ indentations' = Popped(indentations)
            /\ kind' = "Dedent" /\ range' = <<cursor, cursor>> /\ pc' = "return"
            /\ errors' = errors /\ pending' = pending /\ indentation' = indentation
        BY <1>2, <2>3, <3>1 DEF NextDedent
      <4>. QED  BY <1>0, <1>2, <2>1, <4>1 DEF NextDedent, LexerTypeOK, Kinds, Pcs
    <3>2. CASE DedentOne(indentations, pending) # "Dedent"
      <4>1. PushError("Indentation", cursor, cursor)
        BY <1>2, <2>3, <3>2 DEF NextDedent
      <4>. QED  BY <1>0, <1>2, <2>1, <2>3, <3>2, <4>1, PushErrorType DEF NextDedent, LexerTypeOK, ErrorTypes
    <3>. QED  BY <3>1, <3>2
  <2>4. CASE TryCompare(CurrentLevel(indentations), pending) = "Err"
    <3>1. PushError("Indentation", cursor, cursor)
      BY <1>2, <2>4 DEF NextDedent
    <3>. QED  BY <1>0, <1>2, <2>4, <3>1, PushErrorType DEF NextDedent, LexerTypeOK, ErrorTypes
  <2>5. CASE TryCompare(CurrentLevel(indentations), pending) \notin {"Greater", "Err"}
    BY <1>0, <1>2, <2>2, <2>5 DEF NextDedent, EnterLayout, AfterLayout, LexerTypeOK, Pcs
  <2>. QED  BY <2>3, <2>4, <2>5
<1>3. CASE NextPlain
  <2>2. Root \in IndentationLevel
    BY DEF Root, IndentationLevel
  <2>. QED  BY <1>0, <1>3, <2>2 DEF NextPlain, EnterLayout, AfterLayout, LexerTypeOK, Pcs
<1>4. CASE EatIndentation
  <2>2. Root \in IndentationLevel
    BY DEF Root, IndentationLevel
  <2>3. CASE First \in {"sp", "tab", "ff"} /\ Advance(cursor + 1)
    <3>1. cursor + 1 \in Offsets
      BY <2>3, CharInSource DEF First
    <3>2. indentation' \in IndentationLevel
      BY <1>4, <2>2, <2>3, LevelType DEF EatIndentation, LexerTypeOK
    <3>. QED  BY <1>0, <1>4, <2>3, <3>1, <3>2, AdvanceType DEF EatIndentation, LexerTypeOK
  <2>4. CASE First = "bs" /\ Continuation
    <3>2. indentation' \in IndentationLevel
      BY <1>4, <2>2, <2>4 DEF EatIndentation
    <3>. QED  BY <1>0, <1>4, <2>4, <3>2, ContinuationType DEF EatIndentation, LexerTypeOK
  <2>. QED  BY <1>4, <2>3, <2>4 DEF EatIndentation
<1>5. CASE SkipEmptyLine
  BY <1>0, <1>5 DEF SkipEmptyLine, checkpointVars, LexerTypeOK, Pcs
<1>6. CASE HandleIndentation
  <2>1. Popped(indentations) \in Seq(IndentationLevel)
    BY PoppedType DEF LexerTypeOK
  <2>2. Append(indentations, indentation) \in Seq(IndentationLevel)
    BY DEF LexerTypeOK
  <2>3. CASE TryCompare(CurrentLevel(indentations), indentation) = "Greater"
    <3>1. CASE DedentOne(indentations, indentation) = "Dedent"
      BY <1>0, <1>6, <2>1, <2>3, <3>1 DEF HandleIndentation, LexerTypeOK, Kinds, Pcs, States
    <3>2. CASE DedentOne(indentations, indentation) # "Dedent"
      <4>1. PushError("Indentation", start, cursor)
        BY <1>6, <2>3, <3>2 DEF HandleIndentation
      <4>. QED  BY <1>0, <1>6, <2>1, <2>3, <3>2, <4>1, PushErrorType
                DEF HandleIndentation, LexerTypeOK, ErrorTypes, States
    <3>. QED  BY <3>1, <3>2
  <2>4. CASE TryCompare(CurrentLevel(indentations), indentation) = "Equal"
    BY <1>0, <1>6, <2>4 DEF HandleIndentation, LexerTypeOK, Pcs, States
  <2>5. CASE TryCompare(CurrentLevel(indentations), indentation) = "Less"
    <3>1. /\ indentations' = Append(indentations, indentation)
          /\ kind' = "Indent" /\ range' = <<start, cursor>> /\ pc' = "return"
          /\ errors' = errors /\ start' = start /\ pending' = pending
      BY <1>6, <2>5 DEF HandleIndentation
    <3>. QED  BY <1>0, <1>6, <2>2, <3>1 DEF HandleIndentation, LexerTypeOK, Kinds, Pcs, States
  <2>6. CASE TryCompare(CurrentLevel(indentations), indentation) \notin {"Greater", "Equal", "Less"}
    <3>1. PushError("Indentation", start, cursor)
      BY <1>6, <2>6 DEF HandleIndentation
    <3>. QED  BY <1>0, <1>6, <2>6, <3>1, PushErrorType DEF HandleIndentation, LexerTypeOK, ErrorTypes, States
  <2>. QED  BY <2>3, <2>4, <2>5, <2>6
<1>7. CASE SkipWhitespace
  <2>1. CASE First \in {"sp", "tab", "ff"}
    <3>1. cursor + 1 \in Offsets
      BY <2>1, CharInSource DEF First
    <3>2. Advance(cursor + 1)
      BY <1>7, <2>1 DEF SkipWhitespace
    <3>. QED  BY <1>0, <1>7, <2>1, <3>1, <3>2, AdvanceType DEF SkipWhitespace, LexerTypeOK
  <2>2. CASE First = "bs"
    <3>1. Continuation
      BY <1>7, <2>2 DEF SkipWhitespace
    <3>. QED  BY <1>0, <1>7, <2>2, <3>1, ContinuationType DEF SkipWhitespace, LexerTypeOK
  <2>3. CASE First \notin {"sp", "tab", "ff", "bs"}
    BY <1>0, <1>7, <2>3 DEF SkipWhitespace, LexerTypeOK, Pcs
  <2>. QED  BY <2>1, <2>2, <2>3
<1>. QED  BY <1>1, <1>2, <1>3, <1>4, <1>5, <1>6, <1>7

(* The token that starts at the cursor. *)
LEMMA CharType ==
    ASSUME LexerTypeOK, LexChar
    PROVE  LexerTypeOK'
<1>0. /\ src' = src
      /\ Offsets' = Offsets
      /\ cursor \in Offsets /\ start \in Offsets
      /\ "Other" \in States /\ "AfterEqual" \in States /\ "AfterNewline" \in States
  BY DEF LexerTypeOK, Offsets, States, LexChar, LexName, LexFStringStart, LexWord, LexComment,
         LexEqual, LexEscapeCharacter, LexOpening, LexRpar, LexRbrace, LexColon, LexNewline,
         LexUnrecognized, LexStringStart, ConsumeEnd
<1>1. CASE LexName
  <2>1. PICK e \in cursor..Len(src) : Token("Name", e)
    BY <1>1 DEF LexName
  <2>2. e \in Offsets
    BY <1>0 DEF Offsets, LexerTypeOK
  <2>. QED  BY <1>0, <1>1, <2>1, <2>2, TokenType DEF LexName, localVars, LexerTypeOK, Kinds
<1>2. CASE LexFStringStart
  <2>. DEFINE t == Char(3) = "quote" /\ Char(4) = "quote"
              e == cursor + IF t THEN 4 ELSE 2
              c == [nesting |-> nesting, depth |-> 0, triple |-> t]
  <2>1. e \in Offsets
    <3>1. CASE t
      BY <3>1, CharInSource
    <3>2. CASE ~t
      BY <1>2, <3>2, CharInSource DEF LexFStringStart
    <3>. QED  BY <3>1, <3>2
  <2>2. c \in FStringContext
    BY DEF LexerTypeOK, FStringContext
  <2>3. Token("FStringStart", e) /\ flags' = t /\ fstrings' = Append(fstrings, c)
    BY <1>2 DEF LexFStringStart
  <2>4. flags' \in BOOLEAN /\ fstrings' \in Seq(FStringContext)
    BY <2>2, <2>3 DEF LexerTypeOK
  <2>. HIDE DEF e, c, t
  <2>. QED  BY <1>0, <1>2, <2>1, <2>3, <2>4, TokenType DEF LexFStringStart, localVars, LexerTypeOK, Kinds
<1>3. CASE LexWord
  <2>1. cursor + 1 \in Offsets /\ Token("Word", cursor + 1)
    BY <1>3, CharInSource DEF LexWord, First
  <2>. QED  BY <1>0, <1>3, <2>1, TokenType DEF LexWord, localVars, LexerTypeOK, Kinds
<1>4. CASE LexComment
  <2>1. PICK e \in cursor..Len(src) : Token("Comment", e)
    BY <1>4 DEF LexComment
  <2>2. e \in Offsets
    BY <1>0 DEF Offsets, LexerTypeOK
  <2>. QED  BY <1>0, <1>4, <2>1, <2>2, TokenType DEF LexComment, localVars, LexerTypeOK, Kinds
<1>5. CASE LexEqual
  <2>1. CASE Char(2) = "eq"
    <3>1. cursor + 2 \in Offsets /\ Token("EqEqual", cursor + 2) /\ state' = "Other"
      BY <1>5, <2>1, CharInSource DEF LexEqual
    <3>. QED  BY <1>0, <1>5, <3>1, TokenType DEF LexEqual, localVars, LexerTypeOK, Kinds
  <2>2. CASE Char(2) # "eq"
    <3>1. cursor + 1 \in Offsets /\ Token("Equal", cursor + 1) /\ state' = "AfterEqual"
      BY <1>5, <2>2, CharInSource DEF LexEqual, First
    <3>. QED  BY <1>0, <1>5, <3>1, TokenType DEF LexEqual, localVars, LexerTypeOK, Kinds
  <2>. QED  BY <2>1, <2>2
<1>6. CASE LexEscapeCharacter
  <2>1. /\ cursor + 1 \in Offsets
        /\ Eat(cursor + 1, "esc") \in Offsets
        /\ Eat(cursor + 1, "eq") \in Offsets
    BY <1>6, CharInSource, EatType DEF LexEscapeCharacter, First
  <2>2. CASE Ipython /\ state = "AfterEqual" /\ nesting = 0
    BY <1>0, <1>6, <2>1, <2>2 DEF LexEscapeCharacter, IsNewLogicalLine, localVars, LexerTypeOK, Pcs
  <2>3. CASE Ipython /\ IsNewLogicalLine /\ state # "AfterEqual"
    BY <1>0, <1>6, <2>1, <2>3 DEF LexEscapeCharacter, localVars, LexerTypeOK, Pcs
  <2>4. CASE ~(Ipython /\ state = "AfterEqual" /\ nesting = 0) /\ ~(Ipython /\ IsNewLogicalLine)
    <3>1. Token("Word", Eat(cursor + 1, "eq")) /\ state' = "Other"
      BY <1>6, <2>4 DEF LexEscapeCharacter
    <3>. QED  BY <1>0, <1>6, <2>1, <3>1, TokenType DEF LexEscapeCharacter, localVars, LexerTypeOK, Kinds
  <2>. QED  BY <2>2, <2>3, <2>4 DEF IsNewLogicalLine
<1>7. CASE LexOpening
  <2>. DEFINE k == IF First = "lpar" THEN "Lpar" ELSE "Lbrace"
  <2>1. cursor + 1 \in Offsets /\ Token(k, cursor + 1) /\ k \in Kinds
    BY <1>7, CharInSource DEF LexOpening, First, Kinds
  <2>. HIDE DEF k
  <2>. QED  BY <1>0, <1>7, <2>1, TokenType DEF LexOpening, localVars, LexerTypeOK
<1>8. CASE LexRpar
  <2>1. cursor + 1 \in Offsets /\ Token("Rpar", cursor + 1)
    BY <1>8, CharInSource DEF LexRpar, First
  <2>. QED  BY <1>0, <1>8, <2>1, TokenType DEF LexRpar, SaturatingDec, localVars, LexerTypeOK, Kinds
<1>9. CASE LexRbrace
  <2>1. cursor + 1 \in Offsets
    BY <1>9, CharInSource DEF LexRbrace, First
  <2>2. CASE fstrings # <<>> /\ Context.nesting = nesting
    <3>1. PushError("SingleRbrace", cursor, cursor + 1)
      BY <1>9, <2>2 DEF LexRbrace
    <3>. QED  BY <1>0, <1>9, <2>1, <2>2, <3>1, PushErrorType DEF LexRbrace, localVars, LexerTypeOK, ErrorTypes
  <2>3. CASE ~(fstrings # <<>> /\ Context.nesting = nesting)
    <3>1. Token("Rbrace", cursor + 1) /\ TryEndFormatSpec /\ nesting' = SaturatingDec(nesting) /\ state' = "Other"
      BY <1>9, <2>3 DEF LexRbrace
    <3>2. nesting' \in Nat
      BY <3>1 DEF SaturatingDec, LexerTypeOK
    <3>. QED  BY <1>0, <1>9, <2>1, <3>1, <3>2, TokenType, TryEndType DEF LexRbrace, localVars, LexerTypeOK, Kinds
  <2>. QED  BY <2>2, <2>3
<1>10. CASE LexColon
  <2>1. cursor + 1 \in Offsets
    BY <1>10, CharInSource DEF LexColon, First
  <2>2. CASE fstrings # <<>> /\ StartsFormatSpec(Context)
    <3>1. Token("Colon", cursor + 1) /\ SetDepth(Context.depth + 1)
      BY <1>10, <2>2 DEF LexColon
    <3>2. Context.depth + 1 \in Nat
      BY <2>2, ContextType DEF FStringContext
    <3>3. fstrings' \in Seq(FStringContext)
      BY <2>2, <3>1, <3>2, SetDepthType
    <3>. QED  BY <1>0, <1>10, <2>1, <3>1, <3>3, TokenType DEF LexColon, localVars, LexerTypeOK, Kinds
  <2>3. CASE ~(fstrings # <<>> /\ StartsFormatSpec(Context))
    <3>1. PICK k \in Kinds, e \in Offsets : Token(k, e)
      <4>1. CASE Char(2) = "eq"
        BY <1>10, <2>3, <4>1, CharInSource DEF LexColon, Kinds
      <4>2. CASE Char(2) # "eq"
        BY <1>10, <2>1, <2>3, <4>2 DEF LexColon, Kinds
      <4>. QED  BY <4>1, <4>2
    <3>. QED  BY <1>0, <1>10, <2>3, <3>1, TokenType DEF LexColon, localVars, LexerTypeOK
  <2>. QED  BY <2>2, <2>3
<1>11. CASE LexNewline
  <2>. DEFINE e == IF First = "cr" THEN Eat(cursor + 1, "nl") ELSE cursor + 1
  <2>1. e \in Offsets
    BY <1>11, CharInSource, EatType DEF LexNewline, First
  <2>2. CASE nesting = 0 /\ ~IsNewLogicalLine
    <3>1. Token("Newline", e) /\ state' = "AfterNewline" /\ fstrings' = fstrings
      BY <1>11, <2>2 DEF LexNewline
    <3>. HIDE DEF e
    <3>. QED  BY <1>0, <1>11, <2>1, <3>1, TokenType DEF LexNewline, localVars, LexerTypeOK, Kinds
  <2>3. CASE ~(nesting = 0 /\ ~IsNewLogicalLine)
    <3>1. Token("NonLogicalNewline", e) /\ TryEndFormatSpec /\ state' = state
      BY <1>11, <2>3 DEF LexNewline
    <3>. HIDE DEF e
    <3>. QED  BY <1>0, <1>11, <2>1, <3>1, TokenType, TryEndType DEF LexNewline, localVars, LexerTypeOK, Kinds
  <2>. QED  BY <2>2, <2>3
<1>12. CASE LexUnrecognized
  <2>1. cursor + 1 \in Offsets /\ PushError("Unrecognized", cursor, cursor + 1)
    BY <1>12, NotEof DEF LexUnrecognized
  <2>. QED  BY <1>0, <1>12, <2>1, PushErrorType DEF LexUnrecognized, localVars, LexerTypeOK, ErrorTypes
<1>13. CASE LexStringStart
  <2>1. triple' \in BOOLEAN /\ cursor' \in Offsets
    <3>1. CASE Char(2) = "quote" /\ Char(3) = "quote"
      BY <1>13, <3>1, CharInSource DEF LexStringStart
    <3>2. CASE ~(Char(2) = "quote" /\ Char(3) = "quote")
      BY <1>13, <3>2, CharInSource DEF LexStringStart, First
    <3>. QED  BY <3>1, <3>2
  <2>. QED  BY <1>0, <1>13, <2>1 DEF LexStringStart, LexerTypeOK, Pcs
<1>14. CASE ConsumeEnd
  <2>1. Popped(indentations) \in Seq(IndentationLevel)
    BY PoppedType DEF LexerTypeOK
  <2>2. CASE nesting > 0
    <3>1. nesting # 0
      BY <2>2 DEF LexerTypeOK
    <3>2. PushError("Eof", cursor, cursor) /\ nesting' = 0 /\ UNCHANGED <<cursor, state, indentations>>
      BY <1>14, <2>2, <3>1 DEF ConsumeEnd
    <3>. QED  BY <1>0, <1>14, <3>2, PushErrorType DEF ConsumeEnd, localVars, LexerTypeOK, ErrorTypes
  <2>3. CASE nesting = 0 /\ ~IsNewLogicalLine
    <3>1. Token("Newline", cursor) /\ state' = "AfterNewline" /\ UNCHANGED <<nesting, indentations>>
      BY <1>14, <2>3 DEF ConsumeEnd
    <3>. QED  BY <1>0, <1>14, <3>1, TokenType DEF ConsumeEnd, localVars, LexerTypeOK, Kinds
  <2>4. CASE nesting = 0 /\ IsNewLogicalLine /\ indentations # <<>>
    <3>1. Token("Dedent", cursor) /\ indentations' = Popped(indentations) /\ UNCHANGED <<nesting, state>>
      BY <1>14, <2>4 DEF ConsumeEnd
    <3>. QED  BY <1>0, <1>14, <2>1, <3>1, TokenType DEF ConsumeEnd, localVars, LexerTypeOK, Kinds
  <2>5. CASE nesting = 0 /\ IsNewLogicalLine /\ indentations = <<>>
    <3>1. Token("EndOfFile", cursor) /\ UNCHANGED <<nesting, state, indentations>>
      BY <1>14, <2>5 DEF ConsumeEnd
    <3>. QED  BY <1>0, <1>14, <3>1, TokenType DEF ConsumeEnd, localVars, LexerTypeOK, Kinds
  <2>. QED  BY <2>2, <2>3, <2>4, <2>5 DEF LexerTypeOK
<1>. QED  BY <1>1, <1>2, <1>3, <1>4, <1>5, <1>6, <1>7, <1>8, <1>9, <1>10, <1>11, <1>12, <1>13, <1>14
          DEF LexChar

(* String literals, f-string text and escape commands. *)
LEMMA TextType ==
    ASSUME LexerTypeOK, pc = "fstring" => fstrings # <<>>,
           LexString \/ LexFStringMiddle \/ LexFStringUnterminated \/ LexFStringText
           \/ LexEscapeCommand
    PROVE  LexerTypeOK'
<1>0. /\ src' = src
      /\ Offsets' = Offsets
      /\ cursor \in Offsets /\ start \in Offsets
      /\ AfterEscaped \in Offsets
      /\ "Other" \in States
  BY AfterEscapedType DEF LexerTypeOK, Offsets, States, LexString, LexFStringMiddle,
         LexFStringUnterminated, LexFStringText, LexEscapeCommand
<1>1. CASE LexString
  <2>1. CASE IsEof
    <3>. DEFINE t == IF triple THEN "UnclosedString" ELSE "String"
    <3>0. First = "nul"
      BY <2>1 DEF IsEof, First, Char, LexerTypeOK, Offsets
    <3>1. PushError(t, start, cursor) /\ state' = "Other" /\ UNCHANGED cursor
      BY <1>1, <2>1, <3>0 DEF LexString
    <3>2. t \in ErrorTypes
      BY DEF ErrorTypes
    <3>. HIDE DEF t
    <3>. QED  BY <1>0, <1>1, <3>1, <3>2, PushErrorType DEF LexString, localVars, LexerTypeOK
  <2>2. CASE ~IsEof /\ First = "bs"
    <3>1. Advance(AfterEscaped) /\ UNCHANGED state
      BY <1>1, <2>2 DEF LexString
    <3>. QED  BY <1>0, <1>1, <3>1, AdvanceType DEF LexString, localVars, LexerTypeOK
  <2>3. CASE ~IsEof /\ First = "quote" /\ ~triple
    <3>1. Token("String", cursor + 1) /\ state' = "Other" /\ cursor + 1 \in Offsets
      BY <1>1, <2>3, NotEof DEF LexString
    <3>. QED  BY <1>0, <1>1, <3>1, TokenType DEF LexString, localVars, LexerTypeOK, Kinds
  <2>4. CASE ~IsEof /\ First = "quote" /\ triple /\ Char(2) = "quote" /\ Char(3) = "quote"
    <3>1. Token("String", cursor + 3) /\ state' = "Other" /\ cursor + 3 \in Offsets
      BY <1>1, <2>4, CharInSource DEF LexString
    <3>. QED  BY <1>0, <1>1, <3>1, TokenType DEF LexString, localVars, LexerTypeOK, Kinds
  <2>5. CASE ~IsEof /\ First \in {"nl", "cr"} /\ ~triple
    <3>1. PushError("UnclosedString", start, cursor) /\ state' = "Other" /\ UNCHANGED cursor
      BY <1>1, <2>5 DEF LexString
    <3>. QED  BY <1>0, <1>1, <3>1, PushErrorType DEF LexString, localVars, LexerTypeOK, ErrorTypes
  <2>6. CASE /\ ~IsEof /\ First # "bs" /\ ~(First = "quote" /\ ~triple)
             /\ ~(First = "quote" /\ triple /\ Char(2) = "quote" /\ Char(3) = "quote")
             /\ ~(First \in {"nl", "cr"} /\ ~triple)
    <3>1. Advance(cursor + 1) /\ UNCHANGED state /\ cursor + 1 \in Offsets
      BY <1>1, <2>6, NotEof DEF LexString
    <3>. QED  BY <1>0, <1>1, <3>1, AdvanceType DEF LexString, localVars, LexerTypeOK
  <2>. QED  BY <2>1, <2>2, <2>3, <2>4, <2>5, <2>6
<1>2. CASE LexFStringMiddle
  <2>1. CASE cursor = start
    <3>1. Root \in IndentationLevel
      BY DEF Root, IndentationLevel
    <3>. QED  BY <1>0, <1>2, <2>1, <3>1 DEF LexFStringMiddle, EnterLayout, AfterLayout, LexerTypeOK, Pcs
  <2>2. CASE cursor # start
    <3>1. Token("FStringMiddle", cursor) /\ flags' = Context.triple /\ UNCHANGED indentation
      BY <1>2, <2>2 DEF LexFStringMiddle
    <3>2. flags' \in BOOLEAN
      BY <1>2, <3>1, ContextType DEF LexFStringMiddle, FStringContext
    <3>. QED  BY <1>0, <1>2, <3>1, <3>2, TokenType DEF LexFStringMiddle, LexerTypeOK, Kinds
  <2>. QED  BY <2>1, <2>2
<1>3. CASE LexFStringUnterminated
  <2>1. PushError("Unterminated", start, cursor) /\ fstrings' = PopFString /\ fstrings # <<>>
    BY <1>3 DEF LexFStringUnterminated
  <2>. QED  BY <1>0, <1>3, <2>1, PushErrorType, ContextType DEF LexFStringUnterminated, localVars, LexerTypeOK, ErrorTypes
<1>4. CASE LexFStringText
  <2>1. \E e \in Offsets : Advance(e) /\ named' \in BOOLEAN
    <3>1. cursor + 1 \in Offsets
      BY <1>4, NotEof DEF LexFStringText
    <3>2. CASE First = "bs" /\ Char(2) \in {"lbrace", "rbrace"}
      BY <1>4, <3>1, <3>2 DEF LexFStringText, LexerTypeOK
    <3>3. CASE First = "bs" /\ Char(2) = "N" /\ Char(3) = "lbrace"
      BY <1>4, <3>3, CharInSource DEF LexFStringText
    <3>4. CASE First = "bs" /\ Char(2) \notin {"lbrace", "rbrace"} /\ ~(Char(2) = "N" /\ Char(3) = "lbrace")
      BY <1>0, <1>4, <3>4 DEF LexFStringText, LexerTypeOK
    <3>5. CASE First = "rbrace" /\ named
      BY <1>4, <3>1, <3>5 DEF LexFStringText
    <3>6. CASE First = "lbrace" \/ (First = "rbrace" /\ ~named)
      <4>1. Char(2) # "nul"
        BY <1>4, <3>6 DEF LexFStringText, FStringBreak
      <4>. QED  BY <1>4, <3>6, <4>1, CharInSource DEF LexFStringText, LexerTypeOK
    <3>7. CASE First \notin {"bs", "lbrace", "rbrace"}
      BY <1>4, <3>1, <3>7 DEF LexFStringText, LexerTypeOK
    <3>. QED  BY <3>2, <3>3, <3>4, <3>5, <3>6, <3>7
  <2>. QED  BY <1>0, <1>4, <2>1, AdvanceType DEF LexFStringText, LexerTypeOK
<1>5. CASE LexEscapeCommand
  <2>1. CASE First \in {"nl", "cr", "nul"}
    BY <1>0, <1>5, <2>1, TokenType DEF LexEscapeCommand, localVars, LexerTypeOK, Kinds
  <2>2. CASE First \notin {"nl", "cr", "nul"}
    <3>1. \E e \in Offsets : Advance(e)
      BY <1>0, <1>5, <2>2, CharInSource DEF LexEscapeCommand, First
    <3>. QED  BY <1>0, <1>5, <2>2, <3>1, AdvanceType DEF LexEscapeCommand, localVars, LexerTypeOK
  <2>. QED  BY <2>1, <2>2
<1>. QED  BY <1>1, <1>2, <1>3, <1>4, <1>5
-----------------------------------------------------------------------------
(* What the type invariant needs to be inductive: the text of an f-string  *)
(* is only scanned inside of one, and a look-ahead that is running has a   *)
(* checkpoint to return to and has not yet seen its last token.            *)
TypeInv ==
    /\ TypeOK
    /\ pc = "fstring" => fstrings # <<>>
    /\ pc # "idle" /\ caller \in {"peek", "peek2"} => saved # <<>>
    /\ pc # "idle" /\ caller = "peek" => peeked = <<>>
    /\ pc # "idle" /\ caller = "peek2" => Len(peeked) <= 1

(* Vec::truncate keeps the type. *)
LEMMA TruncateType ==
    ASSUME NEW S, NEW s \in Seq(S), NEW n \in Nat
    PROVE  Truncate(s, n) \in Seq(S)
BY DEF Truncate

(* A lexer step keeps the types and the facts about f-string text. *)
LEMMA LexStepType ==
    ASSUME LexerTypeOK, pc = "fstring" => fstrings # <<>>, LexStep
    PROVE  /\ LexerTypeOK'
           /\ (pc = "fstring" => fstrings # <<>>)'
           /\ Offsets' = Offsets
           /\ pc # "idle"
<1>1. LexerTypeOK'
  BY LayoutType, CharType, TextType DEF LexStep
<1>2. (pc = "fstring" => fstrings # <<>>)' /\ src' = src /\ pc # "idle"
  BY DEF LexStep, NextFStringToken, NextDedent, NextPlain, EatIndentation, SkipEmptyLine, checkpointVars,
         HandleIndentation, SkipWhitespace, Continuation, EnterLayout, AfterLayout, LexChar, LexName,
         LexFStringStart, LexWord, LexComment, LexEqual, LexEscapeCharacter, LexOpening, LexRpar, LexRbrace,
         LexColon, LexNewline, LexUnrecognized, LexStringStart, ConsumeEnd, LexString, LexFStringMiddle,
         LexFStringUnterminated, LexFStringText, LexEscapeCommand, Token, PushError, Advance
<1>. QED  BY <1>1, <1>2 DEF Offsets

(* A checkpoint has the type of a checkpoint. *)
LEMMA CheckpointType ==
    ASSUME LexerTypeOK
    PROVE  LexerCheckpoint \in CheckpointRecord
BY DEF LexerTypeOK, LexerCheckpoint, CheckpointRecord

(* Rewinding to one keeps the types. *)
LEMMA RestoreType ==
    ASSUME LexerTypeOK, NEW c \in CheckpointRecord, RestoreLexer(c), src' = src, UNCHANGED localVars,
           pc' = "idle"
    PROVE  LexerTypeOK'
<1>1. errors' \in Seq(ErrorRecord)
  BY TruncateType DEF RestoreLexer, LexerTypeOK, CheckpointRecord
<1>2. Offsets' = Offsets
  BY DEF Offsets
<1>. QED  BY <1>1, <1>2 DEF RestoreLexer, LexerTypeOK, CheckpointRecord, localVars, Pcs

(* The record types only depend on the source, which never changes. *)
LEMMA RecordsUnchanged ==
    ASSUME Offsets' = Offsets
    PROVE  /\ TokenRecord' = TokenRecord
           /\ CheckpointRecord' = CheckpointRecord
           /\ MarkRecord' = MarkRecord
BY DEF TokenRecord, CheckpointRecord, MarkRecord

(* Init establishes the invariant. *)
LEMMA InitType == Init => TypeInv
<1>. SUFFICES ASSUME Init PROVE TypeInv
  OBVIOUS
<1>1. src \in Seq(Chars) /\ 0 \in Offsets
  BY SourcesAssumption DEF Init, LexerInit, Offsets
<1>2. Root \in IndentationLevel
  BY DEF Root, IndentationLevel
<1>0. \A S : <<>> \in Seq(S)
  OBVIOUS
<1>3. LexerTypeOK
  <2>1. cursor \in Offsets /\ start \in Offsets /\ range \in Offsets \X Offsets
    BY <1>1 DEF Init, LexerInit
  <2>2. kind \in Kinds /\ state \in States /\ pc \in Pcs
    BY DEF Init, LexerInit, Kinds, States, Pcs
  <2>3. indentations \in Seq(IndentationLevel) /\ fstrings \in Seq(FStringContext) /\ errors \in Seq(ErrorRecord)
    BY <1>0 DEF Init, LexerInit
  <2>. QED  BY <1>1, <1>2, <2>1, <2>2, <2>3 DEF Init, LexerInit, LexerTypeOK
<1>4. TypeOK
  <2>1. /\ tokens \in Seq(TokenRecord) /\ saved \in Seq(CheckpointRecord) /\ lists \in Seq(Opening)
        /\ peeked \in Seq(Kinds) /\ mark \in Seq(MarkRecord)
    BY <1>0 DEF Init
  <2>2. Len(saved) <= 1 /\ Len(peeked) <= 2 /\ Len(mark) <= 1
    BY DEF Init
  <2>3. relexed \in ReLexed
    BY DEF Init, ReLexed
  <2>. QED  BY <1>1, <1>3, <2>1, <2>2, <2>3 DEF Init, TypeOK
<1>. QED  BY <1>4 DEF Init, LexerInit, TypeInv

(* Every step preserves it. *)
LEMMA NextType == TypeInv /\ [Next]_vars => TypeInv'
<1>. SUFFICES ASSUME TypeInv, [Next]_vars PROVE TypeInv'
  OBVIOUS
<1>0. LexerTypeOK /\ TypeOK
  BY DEF TypeInv, TypeOK
<1>1. CASE Lex
  <2>1. LexerTypeOK' /\ (pc = "fstring" => fstrings # <<>>)' /\ Offsets' = Offsets /\ pc # "idle"
    BY <1>0, <1>1, LexStepType DEF Lex, TypeInv
  <2>. QED  BY <1>1, <2>1, RecordsUnchanged DEF Lex, sourceVars, TypeInv, TypeOK
<1>. DEFINE Quiet == UNCHANGED <<src, checkpointVars, errors, localVars>>
<1>2. ASSUME Quiet, pc' \in Pcs
      PROVE  LexerTypeOK' /\ Offsets' = Offsets /\ UNCHANGED <<TokenRecord, CheckpointRecord, MarkRecord>>
  <2>1. Offsets' = Offsets
    BY <1>2 DEF Offsets
  <2>. QED  BY <1>0, <1>2, <2>1, RecordsUnchanged DEF checkpointVars, localVars, LexerTypeOK
<1>. DEFINE Same == LexerTypeOK' /\ Offsets' = Offsets /\ UNCHANGED <<TokenRecord, CheckpointRecord, MarkRecord>>
<1>3. CurrentToken \in TokenRecord
  BY <1>0 DEF CurrentToken, TokenRecord, LexerTypeOK
<1>4. CASE ReturnBump
  <2>1. Same
    BY <1>2, <1>4 DEF ReturnBump, Pcs
  <2>2. peeked' \in Seq(Kinds) /\ Len(peeked') <= 2
    BY <1>4 DEF ReturnBump, TypeInv, TypeOK
  <2>3. tokens' \in Seq(TokenRecord)
    <3>1. tokens' = Append(tokens, CurrentToken) \/ tokens' = tokens
      BY <1>4 DEF ReturnBump
    <3>2. tokens \in Seq(TokenRecord)
      BY <1>0 DEF TypeOK
    <3>. QED  BY <1>3, <3>1, <3>2
  <2>. QED  BY <1>4, <2>1, <2>2, <2>3 DEF ReturnBump, TypeInv, TypeOK
<1>5. CASE ReturnPeek
  <2>1. kind \in Kinds /\ saved # <<>> /\ peeked \in Seq(Kinds) /\ saved \in Seq(CheckpointRecord)
    BY <1>5 DEF ReturnPeek, TypeInv, TypeOK, LexerTypeOK
  <2>2. saved[1] \in CheckpointRecord
    BY <2>1
  <2>3. peeked' \in Seq(Kinds) /\ Len(peeked') <= 2
    BY <1>5, <2>1 DEF ReturnPeek, TypeInv
  <2>4. CASE kind \in Trivia \/ (caller = "peek2" /\ Len(peeked') = 1)
    <3>1. Same
      BY <1>2, <1>5, <2>4 DEF ReturnPeek, Pcs
    <3>. QED  BY <1>5, <2>1, <2>3, <2>4, <3>1 DEF ReturnPeek, TypeInv, TypeOK
  <2>5. CASE ~(kind \in Trivia \/ (caller = "peek2" /\ Len(peeked') = 1))
    <3>1. RestoreLexer(saved[1]) /\ saved' = <<>> /\ pc' = "idle" /\ src' = src
      BY <1>5, <2>5 DEF ReturnPeek
    <3>2. LexerTypeOK'
      BY <1>0, <1>5, <2>2, <3>1, RestoreType DEF ReturnPeek
    <3>3. Same
      BY <3>1, <3>2, RecordsUnchanged DEF Offsets
    <3>. QED  BY <1>5, <2>3, <3>1, <3>3 DEF ReturnPeek, TypeInv, TypeOK
  <2>. QED  BY <2>4, <2>5
<1>6. CASE ReturnReLex
  <2>1. Same
    BY <1>2, <1>6 DEF ReturnReLex, Pcs
  <2>2. tokens' \in Seq(TokenRecord)
    BY <1>6 DEF ReturnReLex, TypeInv, TypeOK
  <2>. QED  BY <1>6, <2>1, <2>2 DEF ReturnReLex, TypeInv, TypeOK
<1>7. CASE Bump
  <2>1. Same
    BY <1>2, <1>7 DEF Bump, Pcs
  <2>2. tokens' \in Seq(TokenRecord) /\ prevTokenEnd' \in Offsets
    BY <1>3, <1>7 DEF Bump, TypeInv, TypeOK, LexerTypeOK
  <2>3. lists' \in Seq(Opening)
    <3>1. CASE kind \in Opening
      <4>1. ~ClosesInner
        BY <3>1 DEF ClosesInner, Closer, Opening, TypeInv, TypeOK
      <4>. QED  BY <1>7, <3>1, <4>1 DEF Bump, TypeInv, TypeOK
    <3>2. CASE kind \notin Opening /\ ClosesInner
      BY <1>7, <3>2 DEF Bump, ClosesInner, TypeInv, TypeOK
    <3>3. CASE kind \notin Opening /\ ~ClosesInner
      BY <1>7, <3>3 DEF Bump, TypeInv, TypeOK
    <3>. QED  BY <3>1, <3>2, <3>3
  <2>4. relexed' \in ReLexed
    BY <1>7 DEF Bump, SettledReLexed, ReLexed, TypeInv, TypeOK
  <2>. QED  BY <1>7, <2>1, <2>2, <2>3, <2>4 DEF Bump, TypeInv, TypeOK
<1>8. CASE Peek
  <2>1. Same
    BY <1>2, <1>8 DEF Peek, Pcs
  <2>2. saved' \in Seq(CheckpointRecord) /\ saved' # <<>> /\ Len(saved') <= 1
    BY <1>0, <1>8, CheckpointType DEF Peek
  <2>. QED  BY <1>8, <2>1, <2>2 DEF Peek, TypeInv, TypeOK
<1>9. CASE Checkpoint
  <2>1. Same
    BY <1>0, <1>2, <1>9 DEF Checkpoint, lexerVars, LexerTypeOK
  <2>. DEFINE m == [lexer |-> LexerCheckpoint, tokens |-> Len(tokens), prevTokenEnd |-> prevTokenEnd,
                    lists |-> lists, rewound |-> FALSE, history |-> <<tokens, errors>>]
  <2>2. m \in MarkRecord
    BY <1>0, CheckpointType DEF MarkRecord, TypeOK, LexerTypeOK
  <2>3. mark' = <<m>>
    BY <1>9 DEF Checkpoint
  <2>. HIDE DEF m
  <2>4. mark' \in Seq(MarkRecord) /\ Len(mark') <= 1
    BY <2>2, <2>3
  <2>. QED  BY <1>9, <2>1, <2>4 DEF Checkpoint, lexerVars, TypeInv, TypeOK
<1>10. CASE Rewind
  <2>1. mark \in Seq(MarkRecord) /\ mark # <<>> /\ Len(mark) <= 1
    BY <1>10 DEF Rewind, Speculating, TypeInv, TypeOK
  <2>2. 1 \in 1..Len(mark) /\ mark[1] \in MarkRecord
    BY <2>1
  <2>3. LexerTypeOK'
    <3>1. mark[1].lexer \in CheckpointRecord
      BY <2>2 DEF MarkRecord
    <3>. QED  BY <1>0, <1>10, <3>1, RestoreType DEF Rewind
  <2>4. Same
    BY <1>10, <2>3, RecordsUnchanged DEF Rewind, Offsets
  <2>5. tokens' \in Seq(TokenRecord)
    BY <1>10, <2>2, TruncateType DEF Rewind, MarkRecord, TypeInv, TypeOK
  <2>6. mark' \in Seq(MarkRecord) /\ Len(mark') <= 1
    <3>. DEFINE m == [mark[1] EXCEPT !.rewound = TRUE]
    <3>1. m \in MarkRecord
      BY <2>2 DEF MarkRecord
    <3>2. mark' = [mark EXCEPT ![1] = m]
      BY <1>10 DEF Rewind
    <3>. HIDE DEF m
    <3>. QED  BY <2>1, <2>2, <3>1, <3>2, ExceptSeq
  <2>7. prevTokenEnd' \in Offsets /\ lists' \in Seq(Opening) /\ peeked' = <<>>
    BY <1>10, <2>2 DEF Rewind, MarkRecord
  <2>8. pc' = "idle" /\ bumped' = FALSE /\ relexed' = SettledReLexed /\ UNCHANGED <<caller, saved>>
    BY <1>10 DEF Rewind
  <2>9. TypeOK'
    <3>1. /\ caller \in {"bump", "peek", "peek2", "relex"} /\ saved \in Seq(CheckpointRecord) /\ Len(saved) <= 1
          /\ relexed \in ReLexed
      BY <1>0 DEF TypeOK
    <3>2. peeked' \in Seq(Kinds) /\ Len(peeked') <= 2
      BY <2>7
    <3>. QED  BY <2>4, <2>5, <2>6, <2>7, <2>8, <3>1, <3>2 DEF TypeOK, SettledReLexed, ReLexed
  <2>. QED  BY <2>8, <2>9 DEF TypeInv
<1>11. CASE ReLex
  <2>1. /\ nesting' \in Nat /\ cursor' \in Offsets /\ state' \in States /\ pc' \in Pcs
        /\ pc' # "fstring" /\ relexed' \in ReLexed
    <3>0. relexed' \in ReLexed
      BY <1>11 DEF ReLex, ReLexTarget, ReLexed, SettledReLexed, TypeInv, TypeOK
    <3>1. CASE ReLexMoves
      <4>1. nesting' \in Nat
        BY <3>1 DEF ReLexMoves, TypeInv, TypeOK, LexerTypeOK
      <4>2. cursor' \in Offsets
        <5>1. PICK i \in NonLogicalNewlines : cursor' = tokens[i].start
          BY <3>1 DEF ReLexMoves, ToNewline
        <5>2. i \in 1..Len(tokens)
          BY <5>1 DEF NonLogicalNewlines, TrailingTrivia
        <5>3. tokens[i] \in TokenRecord
          BY <1>0, <5>2 DEF TypeOK
        <5>. QED  BY <5>1, <5>3 DEF TokenRecord
      <4>. QED  BY <3>0, <3>1, <4>1, <4>2 DEF ReLexMoves, States, Pcs
    <3>2. CASE ReLexStays
      BY <1>0, <1>11, <3>0, <3>2 DEF ReLex, ReLexStays, SaturatingDec, LexerTypeOK
    <3>. QED  BY <1>11, <3>1, <3>2 DEF ReLex
  <2>2. Offsets' = Offsets
    BY <1>11 DEF ReLex, Offsets
  <2>3. LexerTypeOK'
    BY <1>0, <1>11, <2>1, <2>2 DEF ReLex, localVars, LexerTypeOK
  <2>4. lists' \in Seq(Opening)
    BY <1>11 DEF ReLex, TypeInv, TypeOK
  <2>. QED  BY <1>11, <2>1, <2>2, <2>3, <2>4, RecordsUnchanged DEF ReLex, TypeInv, TypeOK
<1>12. CASE UNCHANGED vars
  <2>1. Same
    BY <1>0, <1>2, <1>12 DEF vars, lexerVars, LexerTypeOK
  <2>. QED  BY <1>12, <2>1 DEF vars, lexerVars, checkpointVars, sourceVars, TypeInv, TypeOK
<1>. QED  BY <1>1, <1>4, <1>5, <1>6, <1>7, <1>8, <1>9, <1>10, <1>11, <1>12 DEF Next

(* The type invariant holds for every source and every sequence of calls;  *)
(* in particular the cursor never leaves the source text.                  *)
THEOREM TypeCorrect == Spec => []TypeOK
<1>1. TypeInv => TypeOK
  BY DEF TypeInv
<1>. QED  BY <1>1, InitType, NextType, PTL DEF Spec
-----------------------------------------------------------------------------
(* The stack is sorted, and so is every stack it may be rewound to. *)
SortedInv ==
    /\ TypeInv
    /\ IndentationsSorted
    /\ saved # <<>> => Sorted(saved[1].indentations)
    /\ mark # <<>> => Sorted(mark[1].lexer.indentations)

(* Popping keeps the order. *)
LEMMA PoppedSorted ==
    ASSUME NEW s \in Seq(IndentationLevel), Sorted(s)
    PROVE  Sorted(Popped(s))
<1>1. CASE s = <<>>
  BY <1>1 DEF Popped, Sorted
<1>2. CASE s # <<>>
  <2>. DEFINE t == SubSeq(s, 1, Len(s) - 1)
  <2>0. Len(s) \in Nat /\ Len(s) >= 1
    BY <1>2
  <2>1. Len(t) = Len(s) - 1 /\ \A i \in 1..Len(t) : t[i] = s[i]
    <3>1. \A i \in 1..Len(s) - 1 : s[i] \in IndentationLevel
      BY <2>0
    <3>2. /\ Len(t) = IF 1 <= Len(s) - 1 THEN (Len(s) - 1) - 1 + 1 ELSE 0
          /\ \A i \in 1..(Len(s) - 1) - 1 + 1 : t[i] = s[1 + i - 1]
      BY <2>0, <3>1, SubSeqProperties
    <3>3. Len(t) = Len(s) - 1
      <4>1. PICK n \in Nat : n = Len(s) /\ n >= 1
        BY <2>0
      <4>2. Len(t) = IF 1 <= n - 1 THEN (n - 1) - 1 + 1 ELSE 0
        BY <3>2, <4>1
      <4>. HIDE DEF t
      <4>3. Len(t) = n - 1
        BY <4>1, <4>2
      <4>. QED  BY <4>1, <4>3
    <3>4. ASSUME NEW i \in 1..Len(t)
          PROVE  t[i] = s[i]
      <4>1. i \in 1..(Len(s) - 1) - 1 + 1 /\ 1 + i - 1 = i
        BY <2>0, <3>3
      <4>. QED  BY <3>2, <4>1
    <3>. QED  BY <3>3, <3>4
  <2>2. Popped(s) = t
    BY <1>2 DEF Popped
  <2>. HIDE DEF t
  <2>3. Len(s) \in Nat /\ \A i \in 1..Len(t) : i \in 1..Len(s)
    BY <2>1
  <2>. QED  BY <2>1, <2>2, <2>3 DEF Sorted
<1>. QED  BY <1>1, <1>2

(* `try_compare` answers Less only when both measures are less. *)
LEMMA LessMeansDeeper ==
    ASSUME NEW i \in IndentationLevel, NEW j \in IndentationLevel, TryCompare(i, j) = "Less"
    PROVE  i.column < j.column /\ i.character < j.character
BY DEF IndentationLevel, TryCompare, Compare

(* Pushing a deeper level keeps the order. *)
LEMMA AppendSorted ==
    ASSUME NEW s \in Seq(IndentationLevel), Sorted(s), NEW x \in IndentationLevel,
           TryCompare(CurrentLevel(s), x) = "Less"
    PROVE  Sorted(Append(s, x))
<1>. DEFINE t == Append(s, x)
<1>0. Len(s) \in Nat
  OBVIOUS
<1>1. /\ Len(t) = Len(s) + 1
      /\ t[Len(t)] = x
      /\ \A i \in 1..Len(s) : t[i] = s[i]
  OBVIOUS
<1>2. CurrentLevel(s) \in IndentationLevel
  BY PoppedType
<1>3. CurrentLevel(s).column < x.column /\ CurrentLevel(s).character < x.character
  BY <1>2, LessMeansDeeper
<1>4. CASE s = <<>>
  <2>1. x.column > 0 /\ x.character > 0
    BY <1>3, <1>4 DEF CurrentLevel, Root, IndentationLevel
  <2>2. Len(t) = 1 /\ t[1] = x
    BY <1>1, <1>4
  <2>3. Sorted(t)
    <3>. HIDE DEF t
    <3>. QED  BY <2>1, <2>2 DEF Sorted
  <2>. QED  BY <2>3
<1>5. CASE s # <<>>
  <2>1. Len(s) \in 1..Len(s) /\ CurrentLevel(s) = s[Len(s)]
    BY <1>5 DEF CurrentLevel
  <2>2. \A i \in 1..Len(s) : s[i] \in IndentationLevel
    OBVIOUS
  <2>3. ASSUME NEW i \in 1..Len(s)
        PROVE  s[i].column < x.column /\ s[i].character < x.character
    <3>1. CASE i = Len(s)
      BY <1>3, <2>1, <3>1
    <3>2. CASE i < Len(s)
      <4>1. s[i].column < s[Len(s)].column /\ s[i].character < s[Len(s)].character
        BY <2>1, <3>2 DEF Sorted
      <4>2. s[i] \in IndentationLevel /\ s[Len(s)] \in IndentationLevel
        BY <2>1, <2>2
      <4>3. s[Len(s)].column < x.column /\ s[Len(s)].character < x.character
        BY <1>3, <2>1
      <4>. QED  BY <4>1, <4>2, <4>3 DEF IndentationLevel
    <3>. QED  BY <1>0, <3>1, <3>2
  <2>4. x.column > 0 /\ x.character > 0
    BY <2>1, <2>2, <2>3, SMTT(30) DEF IndentationLevel
  <2>5. ASSUME NEW i \in 1..Len(t)
        PROVE  t[i].column > 0 /\ t[i].character > 0
    <3>. HIDE DEF t
    <3>. QED  BY <1>0, <1>1, <2>4, <2>5 DEF Sorted
  <2>6. ASSUME NEW i \in 1..Len(t), NEW j \in 1..Len(t), i < j
        PROVE  t[i].column < t[j].column /\ t[i].character < t[j].character
    <3>1. i \in 1..Len(s) /\ (j \in 1..Len(s) \/ j = Len(t))
      BY <1>0, <1>1, <2>6
    <3>. HIDE DEF t
    <3>. QED  BY <1>0, <1>1, <2>3, <2>6, <3>1 DEF Sorted
  <2>7. Sorted(t)
    <3>. HIDE DEF t
    <3>. QED  BY <2>5, <2>6 DEF Sorted
  <2>. QED  BY <2>7
<1>. QED  BY <1>4, <1>5

(* A step of the lexer leaves the stack alone, pops it or pushes a deeper  *)
(* level.                                                                  *)
LEMMA LexStack ==
    ASSUME LexerTypeOK, LexStep
    PROVE  \/ indentations' = indentations
           \/ indentations' = Popped(indentations)
           \/ /\ TryCompare(CurrentLevel(indentations), indentation) = "Less"
              /\ indentations' = Append(indentations, indentation)
<1>1. CASE NextDedent
  BY <1>1 DEF NextDedent
<1>2. CASE HandleIndentation
  <2>1. CASE TryCompare(CurrentLevel(indentations), indentation) = "Less"
    BY <1>2, <2>1 DEF HandleIndentation
  <2>2. CASE TryCompare(CurrentLevel(indentations), indentation) # "Less"
    BY <1>2, <2>2 DEF HandleIndentation
  <2>. QED  BY <2>1, <2>2
<1>3. CASE ConsumeEnd
  <2>1. CASE nesting > 0
    <3>1. nesting # 0
      BY <2>1 DEF LexerTypeOK
    <3>. QED  BY <1>3, <2>1, <3>1 DEF ConsumeEnd
  <2>2. CASE ~(nesting > 0) /\ ~IsNewLogicalLine
    BY <1>3, <2>2 DEF ConsumeEnd, LexerTypeOK
  <2>3. CASE ~(nesting > 0) /\ IsNewLogicalLine
    BY <1>3, <2>3 DEF ConsumeEnd, LexerTypeOK
  <2>. QED  BY <2>1, <2>2, <2>3
<1>4. CASE LexStep /\ ~NextDedent /\ ~HandleIndentation /\ ~ConsumeEnd
  BY <1>4 DEF LexStep, NextFStringToken, NextPlain, EatIndentation, SkipEmptyLine, checkpointVars,
         SkipWhitespace, LexChar, LexName, LexFStringStart, LexWord, LexComment, LexEqual,
         LexEscapeCharacter, LexOpening, LexRpar, LexRbrace, LexColon, LexNewline, LexUnrecognized,
         LexStringStart, LexString, LexFStringMiddle, LexFStringUnterminated, LexFStringText,
         LexEscapeCommand
<1>. QED  BY <1>1, <1>2, <1>3, <1>4

(* Every step keeps every stack sorted. *)
LEMMA NextSorted == SortedInv /\ [Next]_vars => SortedInv'
<1>. SUFFICES ASSUME SortedInv, [Next]_vars PROVE SortedInv'
  OBVIOUS
<1>0. TypeInv /\ TypeInv' /\ TypeOK /\ LexerTypeOK /\ Sorted(indentations)
  BY NextType DEF SortedInv, TypeInv, TypeOK, IndentationsSorted
<1>1. CASE Lex
  <2>1. Sorted(indentations')
    BY <1>0, <1>1, LexStack, PoppedSorted, AppendSorted DEF Lex, LexerTypeOK
  <2>. QED  BY <1>0, <1>1, <2>1 DEF Lex, sourceVars, SortedInv, IndentationsSorted, Sorted
<1>2. CASE ReturnBump \/ ReturnReLex \/ Bump \/ ReLex \/ UNCHANGED vars
  BY <1>0, <1>2 DEF ReturnBump, ReturnReLex, Bump, ReLex, vars, lexerVars, sourceVars, checkpointVars,
         SortedInv, IndentationsSorted, Sorted
<1>3. CASE ReturnPeek
  <2>1. saved # <<>>
    BY <1>0, <1>3 DEF ReturnPeek, TypeInv
  <2>2. \/ indentations' = indentations /\ saved' = saved
        \/ indentations' = saved[1].indentations /\ saved' = <<>>
    BY <1>3 DEF ReturnPeek, RestoreLexer, checkpointVars
  <2>3. mark' = mark
    BY <1>3 DEF ReturnPeek
  <2>. QED  BY <1>0, <2>1, <2>2, <2>3 DEF SortedInv, IndentationsSorted, Sorted
<1>4. CASE Peek
  <2>1. saved' = <<LexerCheckpoint>> /\ LexerCheckpoint.indentations = indentations
    BY <1>4 DEF Peek, LexerCheckpoint
  <2>2. saved'[1] = LexerCheckpoint
    BY <2>1
  <2>3. Sorted(saved'[1].indentations)
    BY <1>0, <2>1, <2>2
  <2>. QED  BY <1>0, <1>4, <2>3 DEF Peek, checkpointVars, SortedInv, IndentationsSorted, Sorted
<1>5. CASE Checkpoint
  <2>1. mark'[1].lexer.indentations = indentations
    BY <1>5 DEF Checkpoint, LexerCheckpoint
  <2>2. Sorted(mark'[1].lexer.indentations)
    BY <1>0, <2>1
  <2>. QED  BY <1>0, <1>5, <2>2 DEF Checkpoint, lexerVars, checkpointVars, SortedInv, IndentationsSorted, Sorted
<1>6. CASE Rewind
  <2>1. mark # <<>> /\ mark \in Seq(MarkRecord)
    BY <1>0, <1>6 DEF Rewind, Speculating, TypeOK
  <2>2. 1 \in DOMAIN mark /\ mark[1] \in MarkRecord
    BY <2>1
  <2>3. mark'[1].lexer = mark[1].lexer
    BY <1>6, <2>2 DEF Rewind, MarkRecord
  <2>4. indentations' = mark[1].lexer.indentations /\ saved' = saved
    BY <1>6 DEF Rewind, RestoreLexer
  <2>. QED  BY <1>0, <2>1, <2>3, <2>4 DEF SortedInv, IndentationsSorted, Sorted
<1>. QED  BY <1>1, <1>2, <1>3, <1>4, <1>5, <1>6 DEF Next

(* The indentation stack is strictly increasing in columns and characters  *)
(* in every reachable state: the dedent loop of lex_token meets the levels *)
(* in order, and the debug assertion of Indentations::indent cannot fail.  *)
THEOREM StackSorted == Spec => []IndentationsSorted
<1>1. Init => SortedInv
  <2>. SUFFICES ASSUME Init PROVE SortedInv
    OBVIOUS
  <2>. QED  BY InitType DEF Init, LexerInit, SortedInv, IndentationsSorted, Sorted
<1>2. SortedInv => IndentationsSorted
  BY DEF SortedInv
<1>. QED  BY <1>1, <1>2, NextSorted, PTL DEF Spec
-----------------------------------------------------------------------------
(* Where a token can start: with nothing pending, in a replacement field,  *)
(* or at one of the characters that interrupt the text of an f-string.     *)
StartsClean ==
    \/ fstrings = <<>> /\ pending = NoPending
    \/ fstrings # <<>> /\ InExpression(Context)
    \/ First \in {"quote", "lbrace", "rbrace", "nl", "cr"}

(* EndOfFile is emitted from such a place, at the end of the source; after *)
(* it the parser neither looks ahead nor rewinds to it.                    *)
CleanInv ==
    /\ TypeInv
    /\ pc \in {"indent", "space", "char"} => StartsClean
    /\ pc \in {"return", "idle"} /\ kind = "EndOfFile" =>
          nesting = 0 /\ indentations = <<>> /\ fstrings = <<>> /\ pending = NoPending
    /\ saved # <<>> => saved[1].kind # "EndOfFile"
    /\ mark # <<>> => mark[1].lexer.kind # "EndOfFile"

(* consume_end: at the end of the source with no bracket open there is no  *)
(* replacement field, hence no f-string and nothing pending.               *)
LEMMA EndIsClean ==
    ASSUME LexerTypeOK, StartsClean, IsEof, nesting = 0
    PROVE  fstrings = <<>> /\ pending = NoPending
<1>1. First = "nul"
  BY DEF IsEof, First, Char, LexerTypeOK, Offsets
<1>2. CASE fstrings # <<>>
  <2>1. Context \in FStringContext
    BY <1>2, ContextType
  <2>2. ~InExpression(Context)
    BY <2>1 DEF InExpression, OpenParentheses, FStringContext
  <2>. QED  BY <1>1, <1>2, <2>2 DEF StartsClean
<1>. QED  BY <1>1, <1>2 DEF StartsClean

(* A lexer step keeps the two facts about the lexer. *)
LEMMA LexClean ==
    ASSUME TypeInv, LexStep, pc \in {"indent", "space", "char"} => StartsClean
    PROVE  /\ (pc \in {"indent", "space", "char"} => StartsClean)'
           /\ (pc = "return" /\ kind = "EndOfFile" =>
                 nesting = 0 /\ indentations = <<>> /\ fstrings = <<>> /\ pending = NoPending)'
           /\ pc' # "idle"
<1>0. LexerTypeOK
  BY DEF TypeInv, TypeOK
<1>1. CASE ConsumeEnd
  <2>1. pc' = "return" /\ StartsClean /\ IsEof /\ UNCHANGED <<pending, fstrings>>
    BY <1>1 DEF ConsumeEnd, Token, PushError
  <2>2. kind' = "EndOfFile" => nesting = 0 /\ nesting' = 0 /\ indentations' = <<>>
    <3>1. CASE nesting > 0
      <4>1. nesting # 0
        BY <3>1
      <4>. QED  BY <1>1, <3>1, <4>1 DEF ConsumeEnd, PushError
    <3>2. CASE nesting = 0 /\ ~IsNewLogicalLine
      BY <1>1, <3>2 DEF ConsumeEnd, Token
    <3>3. CASE nesting = 0 /\ IsNewLogicalLine /\ indentations # <<>>
      BY <1>1, <3>3 DEF ConsumeEnd, Token
    <3>4. CASE nesting = 0 /\ IsNewLogicalLine /\ indentations = <<>>
      BY <1>1, <3>4 DEF ConsumeEnd, Token
    <3>. QED  BY <1>0, <3>1, <3>2, <3>3, <3>4 DEF LexerTypeOK
  <2>. QED  BY <1>0, <2>1, <2>2, EndIsClean
<1>2. CASE NextFStringToken \/ NextDedent \/ NextPlain
  BY <1>2 DEF NextFStringToken, NextDedent, NextPlain, EnterLayout, AfterLayout, PushError, StartsClean,
         Context, InExpression, OpenParentheses
<1>3. CASE EatIndentation \/ SkipWhitespace
  <2>1. CASE First \in {"sp", "tab", "ff", "bs"}
    <3>1. pc' = pc \/ (pc' = "return" /\ kind' = "Unknown")
      BY <1>3, <2>1 DEF EatIndentation, SkipWhitespace, Continuation, Advance, PushError
    <3>2. UNCHANGED <<pending, fstrings, nesting>>
      BY <1>3 DEF EatIndentation, SkipWhitespace
    <3>3. StartsClean /\ pc \in {"indent", "space"}
      BY <1>3 DEF EatIndentation, SkipWhitespace
    <3>. QED  BY <2>1, <3>1, <3>2, <3>3 DEF StartsClean, Context, InExpression, OpenParentheses
  <2>2. CASE First \notin {"sp", "tab", "ff", "bs"}
    <3>1. SkipWhitespace
      BY <1>3, <2>2 DEF EatIndentation
    <3>2. UNCHANGED <<src, cursor, pending, fstrings, nesting>> /\ pc' = "char" /\ StartsClean
      BY <2>2, <3>1 DEF SkipWhitespace
    <3>. QED  BY <3>2 DEF StartsClean, Context, InExpression, OpenParentheses, First, Char
  <2>. QED  BY <2>1, <2>2
<1>4. CASE SkipEmptyLine \/ HandleIndentation
  <2>1. CASE pc' = "char"
    <3>1. UNCHANGED <<src, cursor, pending, fstrings, nesting>> /\ StartsClean
      BY <1>4, <2>1 DEF SkipEmptyLine, HandleIndentation, checkpointVars, PushError
    <3>. QED  BY <2>1, <3>1 DEF StartsClean, Context, InExpression, OpenParentheses, First, Char
  <2>2. CASE pc' # "char"
    BY <1>4, <2>2 DEF SkipEmptyLine, HandleIndentation, PushError
  <2>. QED  BY <2>1, <2>2
<1>5. CASE LexChar /\ ~ConsumeEnd
  BY <1>5 DEF LexChar, LexName, LexFStringStart, LexWord, LexComment, LexEqual, LexEscapeCharacter,
         LexOpening, LexRpar, LexRbrace, LexColon, LexNewline, LexUnrecognized, LexStringStart, Token,
         PushError
<1>6. CASE LexString \/ LexEscapeCommand \/ LexFStringUnterminated \/ LexFStringText
  BY <1>6 DEF LexString, LexEscapeCommand, LexFStringUnterminated, LexFStringText, Token, PushError, Advance
<1>7. CASE LexFStringMiddle
  <2>1. CASE cursor = start
    <3>1. First \in {"quote", "lbrace", "rbrace", "nl", "cr"}
      BY <1>7 DEF LexFStringMiddle, FStringBreak
    <3>2. UNCHANGED <<src, cursor>> /\ pc' \in {"indent", "space"}
      BY <1>7, <2>1 DEF LexFStringMiddle, EnterLayout, AfterLayout
    <3>. QED  BY <3>1, <3>2 DEF StartsClean, First, Char
  <2>2. CASE cursor # start
    BY <1>7, <2>2 DEF LexFStringMiddle, Token
  <2>. QED  BY <2>1, <2>2
<1>. QED  BY <1>1, <1>2, <1>3, <1>4, <1>5, <1>6, <1>7 DEF LexStep

(* Init establishes the invariant. *)
LEMMA InitClean == Init => CleanInv
<1>. SUFFICES ASSUME Init PROVE CleanInv
  OBVIOUS
<1>. QED  BY InitType DEF Init, LexerInit, CleanInv

(* Every step keeps the whole invariant. *)
LEMMA NextClean == CleanInv /\ [Next]_vars => CleanInv'
<1>. SUFFICES ASSUME CleanInv, [Next]_vars PROVE CleanInv'
  OBVIOUS
<1>0. TypeInv /\ TypeInv' /\ TypeOK
  BY NextType DEF CleanInv, TypeInv
<1>1. CASE Lex
  <2>1. UNCHANGED <<saved, mark>>
    BY <1>1 DEF Lex, sourceVars
  <2>. QED  BY <1>0, <1>1, <2>1, LexClean DEF Lex, CleanInv
<1>2. CASE ReturnBump \/ ReturnReLex \/ Bump
  <2>1. UNCHANGED <<kind, nesting, indentations, fstrings, pending, saved, mark>> /\ pc' \in {"next", "idle"}
    BY <1>2 DEF ReturnBump, ReturnReLex, Bump, checkpointVars, sourceVars
  <2>2. pc' = "idle" => pc = "return"
    BY <1>2 DEF ReturnBump, ReturnReLex, Bump
  <2>. QED  BY <1>0, <2>1, <2>2 DEF CleanInv
<1>3. CASE ReturnPeek
  <2>1. saved # <<>>
    BY <1>0, <1>3 DEF ReturnPeek, TypeInv
  <2>2. \/ pc' = "next" /\ saved' = saved
        \/ pc' = "idle" /\ kind' = saved[1].kind /\ saved' = <<>>
    BY <1>3 DEF ReturnPeek, RestoreLexer
  <2>3. mark' = mark
    BY <1>3 DEF ReturnPeek
  <2>. QED  BY <1>0, <2>1, <2>2, <2>3 DEF CleanInv
<1>4. CASE Peek
  <2>1. saved' = <<LexerCheckpoint>> /\ LexerCheckpoint.kind # "EndOfFile" /\ pc' = "next" /\ mark' = mark
    BY <1>4 DEF Peek, LexerCheckpoint
  <2>. QED  BY <1>0, <2>1 DEF CleanInv
<1>5. CASE Checkpoint
  <2>1. /\ mark'[1].lexer.kind # "EndOfFile" /\ pc' = "idle" /\ saved' = saved
        /\ kind' = kind /\ kind # "EndOfFile"
    BY <1>5 DEF Checkpoint, LexerCheckpoint, lexerVars, checkpointVars
  <2>. QED  BY <1>0, <2>1 DEF CleanInv
<1>6. CASE Rewind
  <2>1. mark # <<>> /\ mark \in Seq(MarkRecord)
    BY <1>0, <1>6 DEF Rewind, Speculating, TypeOK
  <2>2. 1 \in DOMAIN mark /\ mark[1] \in MarkRecord
    BY <2>1
  <2>3. mark'[1].lexer = mark[1].lexer
    BY <1>6, <2>2 DEF Rewind, MarkRecord
  <2>4. kind' = mark[1].lexer.kind /\ saved' = saved /\ pc' = "idle"
    BY <1>6 DEF Rewind, RestoreLexer
  <2>. QED  BY <1>0, <2>1, <2>3, <2>4 DEF CleanInv
<1>7. CASE ReLex
  <2>1. kind # "EndOfFile" /\ kind' = kind /\ pc' \in {"next", "idle"} /\ UNCHANGED <<saved, mark>>
    BY <1>7, ReLexAtAssumption DEF ReLex, ReLexMoves, ReLexStays
  <2>. QED  BY <1>0, <2>1 DEF CleanInv
<1>8. CASE UNCHANGED vars
  BY <1>0, <1>8 DEF vars, lexerVars, checkpointVars, sourceVars, CleanInv, StartsClean, Context,
         InExpression, OpenParentheses, First, Char
<1>. QED  BY <1>1, <1>2, <1>3, <1>4, <1>5, <1>6, <1>7, <1>8 DEF Next

(* The parser never sees EndOfFile while a bracket, an f-string, a block   *)
(* or a dedent is outstanding, whatever it peeked, rewound or re-lexed.    *)
THEOREM EndOfFileClean == Spec => []EndOfFileIsClean
<1>1. CleanInv => EndOfFileIsClean
  BY DEF CleanInv, EndOfFileIsClean
<1>. QED  BY <1>1, InitClean, NextClean, PTL DEF Spec
-----------------------------------------------------------------------------
(* The output stays in order. *)

(* There is a line break at offset `o`. *)
NewlineAt(o) == o < Len(src) /\ src[o + 1] \in {"nl", "cr"}

(* The running call emits nothing before `b`. *)
From(b) ==
    /\ pc = "next" => b <= cursor
    /\ pc \notin {"idle", "next", "return"} => b <= start /\ start <= cursor
    /\ pc = "return" => b <= range[1]

(* The running call is going to emit the token at the line break at `p`,   *)
(* or the piece of an f-string that begins there.                          *)
At(p) ==
    /\ pc \in {"next", "space", "char", "fstring", "return"}
    /\ pc # "return" => state = "Other"
    /\ pc \in {"next", "space", "char"} => cursor = p
    /\ pc \in {"space", "char", "fstring"} => start = p
    /\ pc = "return" => range[1] = p

(* Kinds of which no token is empty, as far as it matters. *)
Solid == {"Lpar", "Word"}

(* The extent of a token of kind `k`. *)
Extent(k, s, e) ==
    /\ s <= e
    /\ k \in Solid => s < e
    /\ k = "NonLogicalNewline" => NewlineAt(s)

(* Tokens in source order that do not overlap. *)
Ordered(t) ==
    /\ \A i \in 1..Len(t) : Extent(t[i].kind, t[i].start, t[i].end)
    /\ \A i, j \in 1..Len(t) : i < j => t[i].end <= t[j].start

(* A current token of kind `k` and range `r` after the tokens `t`; the     *)
(* cursor `c` is at its end.                                               *)
Rest(t, k, r, c) ==
    /\ Ordered(t)
    /\ \A i \in 1..Len(t) : t[i].end <= r[1]
    /\ Extent(k, r[1], r[2])
    /\ c = r[2]

(* `h` is an initial part of `s`. *)
Prefix(h, s) == Len(h) <= Len(s) /\ \A i \in 1..Len(h) : s[i] = h[i]

(* The tokens and errors of the checkpoint are still there, followed by    *)
(* the bracket or keyword at which it was taken.                           *)
HistoryKept ==
    LET m == mark[1] h == m.history IN
    /\ m.tokens = Len(h[1]) /\ m.lexer.errors = Len(h[2])
    /\ Prefix(h[1], tokens) /\ Prefix(h[2], errors)
    /\ saved # <<>> => Len(h[2]) <= saved[1].errors
    /\ Rest(h[1], m.lexer.kind, m.lexer.range, m.lexer.cursor)
    /\ m.lexer.kind \in Solid
    /\ bumped => Len(tokens) > Len(h[1]) /\ tokens[Len(h[1]) + 1].kind \in Solid
    /\ ~bumped => Len(tokens) = Len(h[1])
    /\ ~bumped /\ pc = "idle" => kind \in Solid
    /\ ~bumped /\ pc # "idle" => saved # <<>> /\ saved[1].kind \in Solid

OrderInv ==
    /\ TypeInv
    /\ Ordered(tokens)
    /\ From(0)
    /\ pc = "char" => cursor = start
    /\ pc = "return" => Extent(kind, range[1], range[2]) /\ cursor = range[2]
    /\ pc = "idle" => Rest(tokens, kind, range, cursor)
    /\ pc # "idle" /\ caller = "bump" => \A i \in 1..Len(tokens) : From(tokens[i].end)
    /\ saved # <<>> <=> pc # "idle" /\ caller \in {"peek", "peek2"}
    /\ saved # <<>> =>
          /\ Rest(tokens, saved[1].kind, saved[1].range, saved[1].cursor)
          /\ saved[1].errors <= Len(errors)
    /\ pc # "idle" /\ caller = "relex" =>
          \E i \in NonLogicalNewlines :
              (\A j \in NonLogicalNewlines : i <= j) /\ At(tokens[i].start)
    /\ Speculating => HistoryKept
-----------------------------------------------------------------------------
(* Characters are only eaten forward. *)
LEMMA EatForward ==
    ASSUME NEW o \in Nat, NEW c
    PROVE  Eat(o, c) \in Nat /\ o <= Eat(o, c)
BY DEF Eat

(* Past a character that is there. *)
LEMMA EscapedForward ==
    ASSUME LexerTypeOK, ~IsEof
    PROVE  AfterEscaped \in Nat /\ cursor <= AfterEscaped
BY EatForward DEF AfterEscaped, LexerTypeOK, Offsets, IsEof

(* Where the running call is. *)
Base == IF pc = "next" THEN cursor ELSE start

(* A step of the lexer emits a token that starts no earlier, or goes on    *)
(* with one.                                                               *)
Emits(b) ==
    /\ pc' = "return"
    /\ b <= range'[1]
    /\ Extent(kind', range'[1], range'[2])
    /\ cursor' = range'[2]

Continues(b) ==
    /\ pc' \notin {"idle", "next", "return"}
    /\ b <= start' /\ start' <= cursor'
    /\ pc' = "char" => cursor' = start'

Moves == Emits(Base) \/ Continues(Base)

(* A backslash in white space. *)
LEMMA ContinuationMoves ==
    ASSUME LexerTypeOK, pc \in {"indent", "space"}, start <= cursor, First = "bs", Continuation,
           UNCHANGED start
    PROVE  Moves
<1>0. cursor \in Nat /\ start \in Nat
  BY DEF LexerTypeOK, Offsets
<1>1. ASSUME NEW e \in Nat, cursor <= e, Advance(e)
      PROVE  Moves
  BY <1>0, <1>1 DEF Advance, Moves, Continues, Base
<1>2. ASSUME NEW t, NEW s \in Nat, start <= s, s <= cursor, PushError(t, s, cursor + 1), cursor' = cursor + 1
      PROVE  Moves
  BY <1>0, <1>2 DEF PushError, Moves, Emits, Base, Extent, Solid
<1>3. Eat(cursor + 2, "nl") \in Nat /\ cursor <= Eat(cursor + 2, "nl")
  BY <1>0, EatForward
<1>. QED  BY <1>0, <1>1, <1>2, <1>3 DEF Continuation

(* The layout before a token. *)
LEMMA LayoutMoves ==
    ASSUME LexerTypeOK, From(0),
           NextFStringToken \/ NextDedent \/ NextPlain \/ EatIndentation \/ SkipEmptyLine
           \/ HandleIndentation \/ SkipWhitespace
    PROVE  Moves
<1>0. cursor \in Nat /\ start \in Nat
  BY DEF LexerTypeOK, Offsets
<1>1. CASE NextFStringToken
  BY <1>0, <1>1 DEF NextFStringToken, Moves, Emits, Continues, Base, Extent, Solid
<1>2. CASE NextDedent
  BY <1>0, <1>2 DEF NextDedent, PushError, EnterLayout, AfterLayout, Moves, Emits, Continues, Base, Extent, Solid
<1>3. CASE NextPlain
  BY <1>0, <1>3 DEF NextPlain, EnterLayout, AfterLayout, Moves, Continues, Base
<1>4. CASE EatIndentation
  <2>0. pc = "indent" /\ start <= cursor /\ start' = start
    BY <1>4 DEF EatIndentation, From
  <2>1. CASE Advance(cursor + 1)
    BY <1>0, <2>0, <2>1 DEF Advance, Moves, Continues, Base
  <2>. QED  BY <1>4, <2>0, <2>1, ContinuationMoves DEF EatIndentation
<1>5. CASE SkipEmptyLine
  BY <1>0, <1>5 DEF SkipEmptyLine, checkpointVars, From, Moves, Continues, Base
<1>6. CASE HandleIndentation
  <2>0. pc = "indent" /\ start <= cursor /\ cursor' = cursor
    BY <1>6 DEF HandleIndentation, From
  <2>. QED  BY <1>0, <1>6, <2>0 DEF HandleIndentation, PushError, Moves, Emits, Continues, Base, Extent, Solid
<1>7. CASE SkipWhitespace
  <2>0. pc = "space" /\ start <= cursor
    BY <1>7 DEF SkipWhitespace, From
  <2>1. CASE First \in {"sp", "tab", "ff"}
    BY <1>0, <1>7, <2>0, <2>1 DEF SkipWhitespace, Advance, Moves, Continues, Base
  <2>2. CASE First = "bs"
    BY <1>7, <2>0, <2>2, ContinuationMoves DEF SkipWhitespace
  <2>3. CASE First \notin {"sp", "tab", "ff", "bs"}
    BY <1>0, <1>7, <2>0, <2>3 DEF SkipWhitespace, Moves, Continues, Base
  <2>. QED  BY <2>1, <2>2, <2>3
<1>. QED  BY <1>1, <1>2, <1>3, <1>4, <1>5, <1>6, <1>7

(* A token from the character at which it starts. *)
LEMMA CharMoves ==
    ASSUME LexerTypeOK, pc = "char", cursor = start, LexChar
    PROVE  Moves
<1>0. cursor \in Nat /\ start \in Nat /\ cursor <= Len(src) /\ Len(src) \in Nat
  BY DEF LexerTypeOK, Offsets
<1>1. ASSUME NEW k, NEW e \in Nat, Token(k, e), Extent(k, start, e)
      PROVE  Moves
  BY <1>0, <1>1 DEF Token, Moves, Emits, Base
<1>2. ASSUME NEW t, NEW e \in Nat, PushError(t, cursor, e), cursor' = e, cursor <= e
      PROVE  Moves
  BY <1>0, <1>2 DEF PushError, Moves, Emits, Base, Extent, Solid
<1>3. \A n \in Nat : cursor + n \in Nat /\ start <= cursor + n
  BY <1>0
<1>. DEFINE Plain(k) == k \notin Solid /\ k # "NonLogicalNewline"
<1>4. ASSUME NEW k, NEW e \in Nat, Token(k, e), Plain(k), cursor <= e
      PROVE  Moves
  BY <1>0, <1>1, <1>4 DEF Extent
<1>5. CASE LexName
  BY <1>0, <1>4, <1>5 DEF LexName, Solid
<1>6. CASE LexFStringStart
  BY <1>0, <1>4, <1>6 DEF LexFStringStart, Solid
<1>7. CASE LexWord
  BY <1>0, <1>1, <1>7 DEF LexWord, Extent
<1>8. CASE LexComment
  BY <1>0, <1>4, <1>8 DEF LexComment, Solid
<1>9. CASE LexEqual
  BY <1>0, <1>4, <1>9 DEF LexEqual, Solid
<1>10. CASE LexEscapeCharacter
  <2>1. ASSUME NEW c PROVE Eat(cursor + 1, c) \in Nat /\ start < Eat(cursor + 1, c)
    <3>1. Eat(cursor + 1, c) \in Nat /\ cursor + 1 <= Eat(cursor + 1, c)
      BY <1>0, EatForward
    <3>. QED  BY <1>0, <3>1
  <2>2. CASE pc' = "escape" /\ start' = start /\ start <= cursor'
    BY <1>0, <2>2 DEF Moves, Continues, Base
  <2>3. CASE Token("Word", Eat(cursor + 1, "eq"))
    <3>1. Extent("Word", start, Eat(cursor + 1, "eq"))
      BY <1>0, <2>1 DEF Extent
    <3>. QED  BY <1>1, <2>1, <2>3, <3>1
  <2>4. CASE Ipython /\ state = "AfterEqual" /\ nesting = 0
    <3>1. pc' = "escape" /\ cursor' = cursor + 1 /\ start' = start
      BY <1>10, <2>4 DEF LexEscapeCharacter, IsNewLogicalLine, localVars
    <3>. QED  BY <1>0, <2>2, <3>1
  <2>5. CASE ~(Ipython /\ state = "AfterEqual" /\ nesting = 0) /\ Ipython /\ IsNewLogicalLine
    <3>1. pc' = "escape" /\ cursor' = Eat(cursor + 1, "esc") /\ start' = start
      BY <1>10, <2>5 DEF LexEscapeCharacter, IsNewLogicalLine, localVars
    <3>2. start <= cursor'
      BY <1>0, <2>1, <3>1
    <3>. QED  BY <2>2, <3>1, <3>2
  <2>6. CASE ~(Ipython /\ state = "AfterEqual" /\ nesting = 0) /\ ~(Ipython /\ IsNewLogicalLine)
    BY <1>10, <2>3, <2>6 DEF LexEscapeCharacter
  <2>. QED  BY <2>4, <2>5, <2>6
<1>11. CASE LexOpening
  BY <1>0, <1>1, <1>11 DEF LexOpening, Extent
<1>12. CASE LexRpar
  BY <1>0, <1>4, <1>12 DEF LexRpar, Solid
<1>13. CASE LexRbrace
  BY <1>0, <1>2, <1>4, <1>13 DEF LexRbrace, Solid
<1>14. CASE LexColon
  BY <1>0, <1>4, <1>14 DEF LexColon, Solid
<1>15. CASE LexNewline
  <2>. DEFINE e == IF First = "cr" THEN Eat(cursor + 1, "nl") ELSE cursor + 1
  <2>1. e \in Nat /\ start <= e
    <3>1. Eat(cursor + 1, "nl") \in Nat /\ cursor + 1 <= Eat(cursor + 1, "nl")
      BY <1>0, EatForward
    <3>. QED  BY <1>0, <3>1
  <2>2. NewlineAt(start)
    BY <1>0, <1>15 DEF LexNewline, First, Char, NewlineAt
  <2>3. \E k \in {"Newline", "NonLogicalNewline"} : Token(k, e)
    BY <1>15 DEF LexNewline
  <2>. HIDE DEF e
  <2>. QED  BY <1>1, <2>1, <2>2, <2>3 DEF Extent, Solid
<1>16. CASE LexUnrecognized
  BY <1>0, <1>2, <1>16 DEF LexUnrecognized
<1>17. CASE LexStringStart
  BY <1>0, <1>17 DEF LexStringStart, Moves, Continues, Base
<1>18. CASE ConsumeEnd
  BY <1>0, <1>2, <1>4, <1>18 DEF ConsumeEnd, Solid
<1>. QED  BY <1>5, <1>6, <1>7, <1>8, <1>9, <1>10, <1>11, <1>12, <1>13, <1>14, <1>15, <1>16, <1>17, <1>18
          DEF LexChar

(* Strings, the text of f-strings and escape commands. *)
LEMMA TextMoves ==
    ASSUME LexerTypeOK, pc \in {"string", "fstring", "escape"}, start <= cursor,
           LexString \/ LexFStringMiddle \/ LexFStringUnterminated \/ LexFStringText \/ LexEscapeCommand
    PROVE  Moves
<1>0. cursor \in Nat /\ start \in Nat /\ cursor <= Len(src) /\ Len(src) \in Nat
  BY DEF LexerTypeOK, Offsets
<1>1. ASSUME NEW k, NEW e \in Nat, Token(k, e), k \notin Solid, k # "NonLogicalNewline", start <= e
      PROVE  Moves
  BY <1>0, <1>1 DEF Token, Moves, Emits, Base, Extent
<1>2. ASSUME NEW t, PushError(t, start, cursor), UNCHANGED cursor
      PROVE  Moves
  BY <1>0, <1>2 DEF PushError, Moves, Emits, Base, Extent, Solid
<1>3. ASSUME NEW e \in Nat, Advance(e), cursor <= e, UNCHANGED start
      PROVE  Moves
  BY <1>0, <1>3 DEF Advance, Moves, Continues, Base
<1>4. ~IsEof => AfterEscaped \in Nat /\ cursor <= AfterEscaped
  BY EscapedForward
<1>5. First = "bs" => ~IsEof
  BY <1>0 DEF First, Char, IsEof
<1>6. CASE LexString
  <2>1. UNCHANGED start
    BY <1>6 DEF LexString, localVars
  <2>2. CASE IsEof
    <3>1. PushError(IF triple THEN "UnclosedString" ELSE "String", start, cursor) /\ UNCHANGED cursor
      <4>1. First = "nul"
        BY <1>0, <2>2 DEF First, Char, IsEof
      <4>. QED  BY <1>6, <2>2, <4>1 DEF LexString
    <3>. QED  BY <1>2, <3>1
  <2>3. CASE ~IsEof /\ First = "bs"
    BY <1>3, <1>4, <1>6, <2>1, <2>3 DEF LexString
  <2>4. CASE ~IsEof /\ First = "quote"
    BY <1>0, <1>1, <1>3, <1>6, <2>1, <2>4 DEF LexString, Solid
  <2>5. CASE ~IsEof /\ First \notin {"bs", "quote"}
    BY <1>0, <1>2, <1>3, <1>6, <2>1, <2>5 DEF LexString
  <2>. QED  BY <2>2, <2>3, <2>4, <2>5
<1>7. CASE LexFStringMiddle
  <2>1. CASE cursor = start
    BY <1>0, <1>7, <2>1 DEF LexFStringMiddle, EnterLayout, AfterLayout, Moves, Continues, Base
  <2>2. CASE cursor # start
    BY <1>0, <1>1, <1>7, <2>2 DEF LexFStringMiddle, Solid
  <2>. QED  BY <2>1, <2>2
<1>8. CASE LexFStringUnterminated
  BY <1>2, <1>8 DEF LexFStringUnterminated
<1>9. CASE LexFStringText
  <2>1. UNCHANGED start /\ ~IsEof
    BY <1>9 DEF LexFStringText
  <2>2. \E e \in Nat : cursor <= e /\ Advance(e)
    BY <1>0, <1>4, <1>9, <2>1 DEF LexFStringText
  <2>. QED  BY <1>3, <2>1, <2>2
<1>10. CASE LexEscapeCommand
  <2>1. UNCHANGED start
    BY <1>10 DEF LexEscapeCommand, localVars
  <2>2. CASE First \in {"nl", "cr", "nul"}
    BY <1>0, <1>1, <1>10, <2>2 DEF LexEscapeCommand, Solid
  <2>3. CASE First \notin {"nl", "cr", "nul"}
    BY <1>0, <1>3, <1>4, <1>5, <1>10, <2>1, <2>3 DEF LexEscapeCommand
  <2>. QED  BY <2>2, <2>3
<1>. QED  BY <1>6, <1>7, <1>8, <1>9, <1>10

(* A step of the lexer emits a token that starts no earlier than the step  *)
(* began, or goes on with one.                                             *)
LEMMA LexMoves ==
    ASSUME LexerTypeOK, From(0), pc = "char" => cursor = start, LexStep
    PROVE  Moves
<1>1. CASE NextFStringToken \/ NextDedent \/ NextPlain \/ EatIndentation \/ SkipEmptyLine
           \/ HandleIndentation \/ SkipWhitespace
  BY <1>1, LayoutMoves
<1>2. CASE LexChar
  <2>1. pc = "char"
    BY <1>2 DEF LexChar, LexName, LexFStringStart, LexWord, LexComment, LexEqual, LexEscapeCharacter,
           LexOpening, LexRpar, LexRbrace, LexColon, LexNewline, LexUnrecognized, LexStringStart, ConsumeEnd
  <2>. QED  BY <1>2, <2>1, CharMoves
<1>3. CASE LexString \/ LexFStringMiddle \/ LexFStringUnterminated \/ LexFStringText \/ LexEscapeCommand
  <2>1. pc \in {"string", "fstring", "escape"}
    BY <1>3 DEF LexString, LexFStringMiddle, LexFStringUnterminated, LexFStringText, LexEscapeCommand
  <2>2. start <= cursor
    BY <2>1 DEF From
  <2>. QED  BY <1>3, <2>1, <2>2, TextMoves
<1>. QED  BY <1>1, <1>2, <1>3 DEF LexStep

(* So nothing is emitted before what was a bound for the call.             *)
LEMMA MovesFrom ==
    ASSUME LexerTypeOK, LexerTypeOK', From(0), Moves, pc \notin {"idle", "return"},
           NEW b \in Nat, From(b)
    PROVE  From(b)'
<1>0. /\ cursor \in Nat /\ start \in Nat /\ cursor' \in Nat /\ start' \in Nat
      /\ range'[1] \in Nat
  BY DEF LexerTypeOK, Offsets
<1>1. Base \in Nat /\ b <= Base
  BY <1>0 DEF Base, From
<1>. QED  BY <1>0, <1>1 DEF Moves, Emits, Continues, From

(* When the lexer has been moved back to a line break, the next token      *)
(* starts at it.                                                           *)
LEMMA LexAt ==
    ASSUME LexerTypeOK, From(0), pc = "char" => cursor = start, LexStep,
           NEW p \in Nat, NewlineAt(p), At(p)
    PROVE  At(p)'
<1>0. cursor \in Nat /\ start \in Nat /\ Len(src) \in Nat
  BY DEF LexerTypeOK, Offsets
<1>. DEFINE Newline == First \in {"nl", "cr"} /\ ~IsEof
<1>1. pc \in {"next", "space", "char"} => Newline
  BY <1>0 DEF At, NewlineAt, First, Char, IsEof
<1>2. CASE NextFStringToken
  BY <1>0, <1>2 DEF NextFStringToken, At
<1>3. CASE NextDedent
  BY <1>3 DEF NextDedent, PushError, EnterLayout, AfterLayout, At
<1>4. CASE NextPlain
  BY <1>4 DEF NextPlain, EnterLayout, AfterLayout, At
<1>5. CASE SkipWhitespace
  BY <1>1, <1>5 DEF SkipWhitespace, At
<1>6. CASE LexNewline
  BY <1>6 DEF LexNewline, Token, At
<1>7. CASE LexChar /\ ~LexNewline
  <2>1. pc = "char" /\ ~Newline
    BY <1>7 DEF LexChar, LexName, LexFStringStart, LexWord, LexComment, LexEqual, LexEscapeCharacter,
           LexOpening, LexRpar, LexRbrace, LexColon, LexUnrecognized, LexStringStart, ConsumeEnd
  <2>. QED  BY <1>1, <2>1
<1>8. CASE LexFStringMiddle
  BY <1>8 DEF LexFStringMiddle, EnterLayout, AfterLayout, Token, At
<1>9. CASE LexFStringUnterminated
  BY <1>9 DEF LexFStringUnterminated, PushError, At
<1>10. CASE LexFStringText
  BY <1>10 DEF LexFStringText, Advance, At
<1>11. CASE EatIndentation \/ SkipEmptyLine \/ HandleIndentation \/ LexString \/ LexEscapeCommand
  BY <1>11 DEF EatIndentation, SkipEmptyLine, HandleIndentation, LexString, LexEscapeCommand, At
<1>. QED  BY <1>2, <1>3, <1>4, <1>5, <1>6, <1>7, <1>8, <1>9, <1>10, <1>11 DEF LexStep

-----------------------------------------------------------------------------
(* An initial part of a sequence. *)
LEMMA InitialPart ==
    ASSUME NEW S, NEW s \in Seq(S), NEW n \in Nat, n <= Len(s)
    PROVE  /\ SubSeq(s, 1, n) \in Seq(S)
           /\ Len(SubSeq(s, 1, n)) = n
           /\ \A i \in 1..n : SubSeq(s, 1, n)[i] = s[i]
<1>0. Len(s) \in Nat /\ \A i \in 1..n : s[i] \in S
  OBVIOUS
<1>1. SubSeq(s, 1, n) \in Seq(S)
  OBVIOUS
<1>2. /\ Len(SubSeq(s, 1, n)) = IF 1 <= n THEN n - 1 + 1 ELSE 0
      /\ \A i \in 1..n - 1 + 1 : SubSeq(s, 1, n)[i] = s[1 + i - 1]
  BY <1>0, SubSeqProperties
<1>3. Len(SubSeq(s, 1, n)) = n
  BY <1>2
<1>4. ASSUME NEW i \in 1..n PROVE SubSeq(s, 1, n)[i] = s[i]
  <2>1. i \in 1..n - 1 + 1 /\ 1 + i - 1 = i
    OBVIOUS
  <2>. QED  BY <1>2, <2>1
<1>. QED  BY <1>1, <1>3, <1>4

(* What Vec::truncate leaves. *)
LEMMA TruncateProperties ==
    ASSUME NEW S, NEW s \in Seq(S), NEW n \in Nat
    PROVE  /\ Truncate(s, n) \in Seq(S)
           /\ Len(Truncate(s, n)) = IF n < Len(s) THEN n ELSE Len(s)
           /\ \A i \in 1..Len(Truncate(s, n)) : Truncate(s, n)[i] = s[i]
<1>1. CASE n < Len(s)
  <2>1. Truncate(s, n) = SubSeq(s, 1, n)
    BY <1>1 DEF Truncate
  <2>. QED  BY <1>1, <2>1, InitialPart
<1>2. CASE ~(n < Len(s))
  BY <1>2 DEF Truncate
<1>. QED  BY <1>1, <1>2

(* Truncating to the length of an initial part gives that part. *)
LEMMA TruncateToPrefix ==
    ASSUME NEW S, NEW s \in Seq(S), NEW h \in Seq(S), Prefix(h, s)
    PROVE  Truncate(s, Len(h)) = h
<1>. DEFINE t == Truncate(s, Len(h))
<1>1. Len(h) \in Nat /\ Len(s) \in Nat
  OBVIOUS
<1>2. t \in Seq(S) /\ Len(t) = Len(h) /\ \A i \in 1..Len(t) : t[i] = s[i]
  BY <1>1, TruncateProperties DEF Prefix
<1>. HIDE DEF t
<1>3. \A i \in 1..Len(h) : t[i] = h[i]
  BY <1>2 DEF Prefix
<1>4. t = h
  BY <1>2, <1>3, SeqEqual
<1>. QED  BY <1>4 DEF t

(* A longer sequence keeps its initial part. *)
LEMMA PrefixAppend ==
    ASSUME NEW S, NEW s \in Seq(S), NEW h \in Seq(S), Prefix(h, s), NEW x \in S
    PROVE  Prefix(h, Append(s, x))
<1>. DEFINE t == Append(s, x)
<1>1. Len(h) \in Nat /\ Len(s) \in Nat
  OBVIOUS
<1>2. Len(t) = Len(s) + 1 /\ \A i \in 1..Len(s) : t[i] = s[i]
  OBVIOUS
<1>. HIDE DEF t
<1>3. Prefix(h, t)
  BY <1>1, <1>2 DEF Prefix
<1>. QED  BY <1>3 DEF t

(* A truncation above it does too. *)
LEMMA PrefixTruncate ==
    ASSUME NEW S, NEW s \in Seq(S), NEW h \in Seq(S), Prefix(h, s), NEW n \in Nat, Len(h) <= n
    PROVE  Prefix(h, Truncate(s, n))
<1>. DEFINE t == Truncate(s, n)
<1>1. Len(h) \in Nat /\ Len(s) \in Nat
  OBVIOUS
<1>2. Len(t) = (IF n < Len(s) THEN n ELSE Len(s)) /\ \A i \in 1..Len(t) : t[i] = s[i]
  BY TruncateProperties
<1>. HIDE DEF t
<1>3. Prefix(h, t)
  BY <1>1, <1>2 DEF Prefix
<1>. QED  BY <1>3 DEF t

(* The part of ordered tokens before an index is ordered. *)
LEMMA OrderedPart ==
    ASSUME NEW s \in Seq(TokenRecord), Ordered(s), NEW n \in Nat, n <= Len(s)
    PROVE  Ordered(SubSeq(s, 1, n))
<1>. DEFINE t == SubSeq(s, 1, n)
<1>1. Len(t) = n /\ (\A i \in 1..n : t[i] = s[i]) /\ Len(s) \in Nat
  BY InitialPart
<1>. HIDE DEF t
<1>2. \A i \in 1..Len(t) : i \in 1..Len(s)
  BY <1>1
<1>3. Ordered(t)
  BY <1>1, <1>2 DEF Ordered
<1>. QED  BY <1>3 DEF t

(* Bumping the current token keeps the order. *)
LEMMA OrderedAppend ==
    ASSUME LexerTypeOK, NEW s \in Seq(TokenRecord), Rest(s, kind, range, cursor)
    PROVE  LET t == Append(s, CurrentToken) IN
           /\ Ordered(t)
           /\ \A i \in 1..Len(t) : t[i].end <= cursor
<1>. DEFINE t == Append(s, CurrentToken)
            n == Len(s)
<1>1. n \in Nat /\ Len(t) = n + 1 /\ t[n + 1] = CurrentToken /\ \A i \in 1..n : t[i] = s[i]
  OBVIOUS
<1>2. /\ CurrentToken.kind = kind /\ CurrentToken.start = range[1] /\ CurrentToken.end = range[2]
      /\ range[1] \in Nat /\ range[2] \in Nat /\ range[1] <= range[2] /\ cursor = range[2]
  BY DEF CurrentToken, LexerTypeOK, Offsets, Rest, Extent
<1>3. \A i \in 1..n : s[i].end \in Nat /\ s[i].end <= range[1]
  <2>1. \A i \in 1..n : s[i] \in TokenRecord
    OBVIOUS
  <2>. QED  BY <2>1, SMTT(30) DEF TokenRecord, Offsets, LexerTypeOK, Rest
<1>. HIDE DEF t
<1>4. \A i \in 1..Len(t) : Extent(t[i].kind, t[i].start, t[i].end)
  BY <1>1, <1>2 DEF Rest, Ordered, n
<1>5. \A i, j \in 1..Len(t) : i < j => t[i].end <= t[j].start
  <2>. TAKE i, j \in 1..Len(t)
  <2>. HAVE i < j
  <2>1. i \in 1..n
    BY <1>1
  <2>2. CASE j \in 1..n
    BY <1>1, <2>1, <2>2 DEF Rest, Ordered, n
  <2>3. CASE j = n + 1
    BY <1>1, <1>2, <1>3, <2>1, <2>3
  <2>. QED  BY <1>1, <2>2, <2>3
<1>6. \A i \in 1..Len(t) : t[i].end <= cursor
  <2>. TAKE i \in 1..Len(t)
  <2>1. CASE i \in 1..n
    BY <1>1, <1>2, <1>3, <2>1
  <2>2. CASE i = n + 1
    BY <1>1, <1>2, <2>2
  <2>. QED  BY <1>1, <2>1, <2>2
<1>. QED  BY <1>4, <1>5, <1>6 DEF Ordered, t

(* A step of the lexer reports at most one error. *)
LEMMA LexErrors ==
    ASSUME LexStep
    PROVE  /\ pc \notin {"idle", "return"}
           /\ \/ errors' = errors
              \/ \E t \in ErrorTypes, s \in {start, cursor} :
                    errors' = Append(errors, [error |-> t, start |-> s]) /\ pc' = "return"
                    /\ kind' = "Unknown" /\ range'[1] = s
BY DEF LexStep, NextFStringToken, NextDedent, NextPlain, EatIndentation, SkipEmptyLine, checkpointVars,
       HandleIndentation, SkipWhitespace, Continuation, EnterLayout, AfterLayout, LexChar, LexName,
       LexFStringStart, LexWord, LexComment, LexEqual, LexEscapeCharacter, LexOpening, LexRpar, LexRbrace,
       LexColon, LexNewline, LexUnrecognized, LexStringStart, ConsumeEnd, LexString, LexFStringMiddle,
       LexFStringUnterminated, LexFStringText, LexEscapeCommand, Token, PushError, Advance, ErrorTypes

(* The types of a checkpoint of the parser. *)
LEMMA MarkType ==
    ASSUME TypeOK, mark # <<>>
    PROVE  /\ mark[1] \in MarkRecord
           /\ mark[1].history[1] \in Seq(TokenRecord) /\ mark[1].history[2] \in Seq(ErrorRecord)
           /\ mark[1].lexer \in CheckpointRecord
<1>1. mark \in Seq(MarkRecord)
  BY DEF TypeOK
<1>2. mark[1] \in MarkRecord
  BY <1>1
<1>3. mark[1].history \in Seq(TokenRecord) \X Seq(ErrorRecord) /\ mark[1].lexer \in CheckpointRecord
  BY <1>2 DEF MarkRecord
<1>. QED  BY <1>2, <1>3

(* The types of the checkpoint of a look-ahead. *)
LEMMA SavedType ==
    ASSUME TypeOK, saved # <<>>
    PROVE  /\ saved[1] \in CheckpointRecord
           /\ saved[1].errors \in Nat
           /\ saved[1].cursor \in Offsets
           /\ saved[1].range \in Offsets \X Offsets
           /\ saved[1].kind \in Kinds
<1>1. saved \in Seq(CheckpointRecord)
  BY DEF TypeOK
<1>2. saved[1] \in CheckpointRecord
  BY <1>1
<1>. QED  BY <1>2 DEF CheckpointRecord

(* The errors after a step of the lexer. *)
LEMMA LexErrorsType ==
    ASSUME LexerTypeOK, LexStep
    PROVE  errors' = errors \/ \E x \in ErrorRecord : errors' = Append(errors, x)
<1>1. start \in Nat /\ cursor \in Nat
  BY DEF LexerTypeOK, Offsets
<1>2. CASE errors' # errors
  <2>1. PICK t \in ErrorTypes, s \in {start, cursor} : errors' = Append(errors, [error |-> t, start |-> s])
    BY <1>2, LexErrors
  <2>2. [error |-> t, start |-> s] \in ErrorRecord
    BY <1>1 DEF ErrorRecord
  <2>. QED  BY <2>1, <2>2
<1>. QED  BY <1>2

(* Init establishes the invariant. *)
LEMMA InitOrder == Init => OrderInv
<1>. SUFFICES ASSUME Init PROVE OrderInv
  OBVIOUS
<1>1. TypeInv
  BY InitType
<1>2. /\ tokens = <<>> /\ saved = <<>> /\ pc = "next" /\ caller = "bump" /\ mark = <<>> /\ cursor = 0
  BY DEF Init, LexerInit
<1>. QED  BY <1>1, <1>2 DEF OrderInv, Ordered, From, Speculating

(* The lexer goes on. *)
LEMMA OrderLex ==
    ASSUME OrderInv, TypeInv', Lex
    PROVE  OrderInv'
<1>0. /\ TypeOK /\ LexerTypeOK /\ LexerTypeOK' /\ LexStep
      /\ UNCHANGED <<src, tokens, caller, saved, mark, bumped>>
  <2>1. src' = src
    BY DEF Lex, LexStep, NextFStringToken, NextDedent, NextPlain, EatIndentation, SkipEmptyLine,
         HandleIndentation, SkipWhitespace, LexChar, LexName, LexFStringStart, LexWord, LexComment,
         LexEqual, LexEscapeCharacter, LexOpening, LexRpar, LexRbrace, LexColon, LexNewline, LexUnrecognized,
         LexStringStart, ConsumeEnd, LexString, LexFStringMiddle, LexFStringUnterminated, LexFStringText,
         LexEscapeCommand
  <2>. QED  BY <2>1 DEF OrderInv, TypeInv, TypeOK, Lex, sourceVars
<1>1. pc \notin {"idle", "return"} /\ Moves
  BY <1>0, LexErrors, LexMoves DEF OrderInv
<1>2. pc' # "idle" /\ (pc = "char" => cursor = start)'
      /\ (pc = "return" => Extent(kind, range[1], range[2]) /\ cursor = range[2])'
  BY <1>0, <1>1 DEF Moves, Emits, Continues, Extent, NewlineAt
<1>3. From(0)'
  BY <1>0, <1>1, MovesFrom DEF OrderInv
<1>4. Ordered(tokens)'
  BY <1>0 DEF OrderInv, Ordered, Extent, NewlineAt
<1>5. ASSUME caller = "bump", NEW i \in 1..Len(tokens)
      PROVE  From(tokens[i].end)'
  <2>1. tokens[i] \in TokenRecord
    BY <1>0 DEF TypeOK
  <2>2. tokens[i].end \in Nat /\ From(tokens[i].end)
    BY <1>1, <1>5, <2>1 DEF OrderInv, TokenRecord, Offsets
  <2>. DEFINE b == tokens[i].end
  <2>3. b' = b
    BY <1>0
  <2>4. \A c \in Nat : From(c) => From(c)'
    BY <1>0, <1>1, MovesFrom DEF OrderInv
  <2>. QED  BY <2>2, <2>3, <2>4 DEF From
<1>6. ASSUME NEW h \in Seq(ErrorRecord), Prefix(h, errors)
      PROVE  Prefix(h, errors')
  <2>1. CASE errors' = errors
    BY <1>6, <2>1
  <2>2. CASE errors' # errors
    <3>1. PICK x \in ErrorRecord : errors' = Append(errors, x)
      BY <1>0, <2>2, LexErrorsType
    <3>. QED  BY <1>0, <1>6, <3>1, PrefixAppend DEF LexerTypeOK
  <2>. QED  BY <2>1, <2>2
<1>7. Len(errors) <= Len(errors')
  <2>1. errors \in Seq(ErrorRecord)
    BY <1>0 DEF LexerTypeOK
  <2>. QED  BY <1>0, <2>1, LexErrorsType
<1>8. (saved # <<>> =>
          /\ Rest(tokens, saved[1].kind, saved[1].range, saved[1].cursor)
          /\ saved[1].errors <= Len(errors))'
  <2>. SUFFICES ASSUME saved # <<>>
                PROVE  /\ Rest(tokens, saved[1].kind, saved[1].range, saved[1].cursor)'
                       /\ saved[1].errors <= Len(errors')
    BY <1>0
  <2>1. saved[1].errors \in Nat /\ Len(errors) \in Nat /\ Len(errors') \in Nat
    BY <1>0, SavedType DEF LexerTypeOK
  <2>2. saved[1].errors <= Len(errors')
    BY <1>7, <2>1 DEF OrderInv
  <2>. QED  BY <1>0, <2>2 DEF OrderInv, Rest, Ordered, Extent, NewlineAt
<1>9. (caller = "relex" =>
          \E i \in NonLogicalNewlines :
              (\A j \in NonLogicalNewlines : i <= j) /\ At(tokens[i].start))'
  <2>. SUFFICES ASSUME caller = "relex"
                PROVE  (\E i \in NonLogicalNewlines :
                           (\A j \in NonLogicalNewlines : i <= j) /\ At(tokens[i].start))'
    BY <1>0
  <2>1. PICK i \in NonLogicalNewlines : (\A j \in NonLogicalNewlines : i <= j) /\ At(tokens[i].start)
    BY <1>1 DEF OrderInv
  <2>2. i \in 1..Len(tokens) /\ tokens[i].kind = "NonLogicalNewline"
    BY DEF NonLogicalNewlines, TrailingTrivia
  <2>3. tokens[i].start \in Nat /\ NewlineAt(tokens[i].start)
    <3>1. tokens[i] \in TokenRecord
      BY <1>0, <2>2 DEF TypeOK
    <3>. QED  BY <2>2, <3>1 DEF OrderInv, Ordered, Extent, TokenRecord, Offsets
  <2>4. \A c \in Nat : NewlineAt(c) /\ At(c) => At(c)'
    BY <1>0, LexAt DEF OrderInv
  <2>5. NonLogicalNewlines' = NonLogicalNewlines
    BY <1>0 DEF NonLogicalNewlines, TrailingTrivia
  <2>6. At(tokens[i].start)'
    BY <1>0, <2>1, <2>3, <2>4, SMTT(30) DEF At
  <2>. QED  BY <1>0, <2>1, <2>5, <2>6
<1>10. (Speculating => HistoryKept)'
  <2>. SUFFICES ASSUME Speculating PROVE HistoryKept'
    BY <1>0 DEF Speculating
  <2>1. mark # <<>> /\ HistoryKept
    BY DEF OrderInv, Speculating
  <2>2. Prefix(mark[1].history[2], errors')
    BY <1>0, <1>6, <2>1, MarkType DEF HistoryKept
  <2>. QED  BY <1>0, <1>1, <1>2, <2>1, <2>2 DEF HistoryKept, Rest, Ordered, Extent, NewlineAt
<1>11. (pc # "idle" /\ caller = "bump" => \A i \in 1..Len(tokens) : From(tokens[i].end))'
  BY <1>0, <1>5
<1>. QED  BY <1>0, <1>1, <1>2, <1>3, <1>4, <1>8, <1>9, <1>10, <1>11 DEF OrderInv

(* `do_bump` collects trivia and returns at the first other token. *)
LEMMA OrderReturnBump ==
    ASSUME OrderInv, TypeInv', ReturnBump
    PROVE  OrderInv'
<1>0. /\ TypeOK /\ LexerTypeOK /\ tokens \in Seq(TokenRecord) /\ CurrentToken \in TokenRecord
      /\ pc = "return" /\ caller = "bump" /\ saved = <<>>
      /\ UNCHANGED <<src, kind, range, cursor, errors, start, state, caller, saved, mark, bumped>>
  BY DEF OrderInv, TypeInv, TypeOK, LexerTypeOK, CurrentToken, TokenRecord, ReturnBump, checkpointVars, localVars
<1>1. Rest(tokens, kind, range, cursor)
  BY <1>0 DEF OrderInv, From, Rest
<1>2. cursor \in Nat
  BY <1>0 DEF LexerTypeOK, Offsets
<1>3. Speculating => bumped
  BY <1>0 DEF OrderInv, HistoryKept
<1>4. CASE kind \in Trivia
  <2>1. pc' = "next" /\ tokens' = Append(tokens, CurrentToken)
    BY <1>4 DEF ReturnBump
  <2>2. /\ Ordered(tokens')
        /\ \A i \in 1..Len(tokens') : tokens'[i].end <= cursor
    BY <1>0, <1>1, <2>1, OrderedAppend
  <2>3. Ordered(tokens)'
    BY <1>0, <2>2, SMTT(30) DEF Ordered, Extent, NewlineAt
  <2>4. (Speculating => HistoryKept)'
    <3>. SUFFICES ASSUME Speculating PROVE HistoryKept'
      BY <1>0 DEF Speculating
    <3>. DEFINE h == mark[1].history
    <3>1. mark # <<>> /\ HistoryKept /\ bumped
      BY <1>3 DEF OrderInv, Speculating
    <3>2. h[1] \in Seq(TokenRecord)
      BY <1>0, <3>1, MarkType
    <3>3. Prefix(h[1], tokens')
      BY <1>0, <2>1, <3>1, <3>2, PrefixAppend DEF HistoryKept
    <3>4. Len(h[1]) \in Nat /\ Len(tokens) \in Nat /\ Len(tokens) > Len(h[1])
      BY <1>0, <3>1, <3>2 DEF HistoryKept
    <3>5. Len(tokens') = Len(tokens) + 1 /\ \A i \in 1..Len(tokens) : tokens'[i] = tokens[i]
      BY <1>0, <2>1
    <3>. HIDE DEF h
    <3>6. Len(tokens') > Len(h[1]) /\ tokens'[Len(h[1]) + 1] = tokens[Len(h[1]) + 1]
      BY <3>4, <3>5
    <3>. QED  BY <1>0, <2>1, <3>1, <3>3, <3>6 DEF HistoryKept, Rest, Ordered, Extent, NewlineAt, h
  <2>. QED  BY <1>0, <1>2, <2>1, <2>2, <2>3, <2>4 DEF OrderInv, From
<1>5. CASE kind \notin Trivia
  <2>1. pc' = "idle" /\ tokens' = tokens
    BY <1>5 DEF ReturnBump
  <2>2. Ordered(tokens)' /\ Rest(tokens, kind, range, cursor)'
    BY <1>0, <1>1, <2>1, SMTT(30) DEF Rest, Ordered, Extent, NewlineAt
  <2>3. (Speculating => HistoryKept)'
    BY <1>0, <1>3, <2>1 DEF OrderInv, Speculating, HistoryKept, Rest, Ordered, Extent, NewlineAt
  <2>. QED  BY <1>0, <2>1, <2>2, <2>3 DEF OrderInv, From
<1>. QED  BY <1>4, <1>5

(* A look-ahead goes on, or puts the lexer back. *)
LEMMA OrderReturnPeek ==
    ASSUME OrderInv, TypeInv', ReturnPeek
    PROVE  OrderInv'
<1>0. /\ TypeOK /\ LexerTypeOK
      /\ pc = "return" /\ caller \in {"peek", "peek2"} /\ saved # <<>>
      /\ UNCHANGED <<src, tokens, caller, mark, bumped>>
  BY DEF OrderInv, TypeInv, TypeOK, ReturnPeek
<1>1. cursor \in Nat /\ saved[1].errors \in Nat /\ errors \in Seq(ErrorRecord)
  BY <1>0, SavedType, SMTT(30) DEF LexerTypeOK, Offsets
<1>2. CASE pc' = "next"
  <2>1. UNCHANGED <<kind, range, cursor, errors, saved>>
    BY <1>2 DEF ReturnPeek, checkpointVars
  <2>2. Ordered(tokens)' /\ (saved # <<>> => Rest(tokens, saved[1].kind, saved[1].range, saved[1].cursor))'
    BY <1>0, <2>1 DEF OrderInv, Rest, Ordered, Extent, NewlineAt
  <2>3. ASSUME Speculating PROVE HistoryKept'
    <3>1. mark # <<>> /\ HistoryKept
      BY <2>3 DEF OrderInv, Speculating
    <3>2. Prefix(mark[1].history[1], tokens)' /\ Prefix(mark[1].history[2], errors)'
      BY <1>0, <2>1, <3>1, ZenonT(30) DEF HistoryKept
    <3>3. Rest(mark[1].history[1], mark[1].lexer.kind, mark[1].lexer.range, mark[1].lexer.cursor)'
      BY <1>0, <3>1, ZenonT(30) DEF HistoryKept, Rest, Ordered, Extent, NewlineAt
    <3>. QED  BY <1>0, <1>2, <2>1, <3>1, <3>2, <3>3 DEF HistoryKept
  <2>4. (saved # <<>> => saved[1].errors <= Len(errors))' /\ From(0)'
    BY <1>0, <1>1, <1>2, <2>1 DEF OrderInv, From
  <2>5. (Speculating => HistoryKept)'
    BY <1>0, <2>3 DEF Speculating
  <2>. QED  BY <1>0, <1>2, <2>1, <2>2, <2>4, <2>5 DEF OrderInv
<1>3. CASE pc' # "next"
  <2>1. pc' = "idle" /\ RestoreLexer(saved[1]) /\ saved' = <<>>
    BY <1>3 DEF ReturnPeek
  <2>2. Rest(tokens, kind, range, cursor)' /\ Ordered(tokens)'
    BY <1>0, <2>1, SMTT(30) DEF OrderInv, RestoreLexer, Rest, Ordered, Extent, NewlineAt
  <2>3. (Speculating => HistoryKept)'
    <3>. SUFFICES ASSUME Speculating PROVE HistoryKept'
      BY <1>0 DEF Speculating
    <3>. DEFINE h == mark[1].history
    <3>1. mark # <<>> /\ HistoryKept
      BY DEF OrderInv, Speculating
    <3>2. h[2] \in Seq(ErrorRecord)
      BY <1>0, <3>1, MarkType
    <3>3. Prefix(h[2], errors')
      BY <1>0, <1>1, <2>1, <3>1, <3>2, PrefixTruncate DEF HistoryKept, RestoreLexer
    <3>. QED  BY <1>0, <2>1, <3>1, <3>3 DEF RestoreLexer, HistoryKept, Rest, Ordered, Extent, NewlineAt, h
  <2>. QED  BY <1>0, <2>1, <2>2, <2>3 DEF OrderInv, From
<1>. QED  BY <1>2, <1>3

(* The tokens from the re-lexed one on are taken back. *)
LEMMA OrderReturnReLex ==
    ASSUME OrderInv, TypeInv', ReturnReLex
    PROVE  OrderInv'
<1>0. /\ TypeOK /\ LexerTypeOK /\ tokens \in Seq(TokenRecord)
      /\ pc = "return" /\ caller = "relex" /\ saved = <<>> /\ pc' = "idle"
      /\ UNCHANGED <<src, kind, range, cursor, errors, caller, saved, mark, bumped>>
  BY DEF OrderInv, TypeInv, TypeOK, ReturnReLex, checkpointVars
<1>1. PICK k \in NonLogicalNewlines : range[1] = tokens[k].start
  BY <1>0 DEF OrderInv, At
<1>2. PICK n \in 0..Len(tokens) :
          /\ n > 0 => tokens[n].start < range[1]
          /\ \A i \in n + 1..Len(tokens) : tokens[i].start >= range[1]
          /\ tokens' = SubSeq(tokens, 1, n)
  BY DEF ReturnReLex
<1>3. k \in 1..Len(tokens) /\ \A j \in k..Len(tokens) : tokens[j].kind \in Trivia
  BY DEF NonLogicalNewlines, TrailingTrivia
<1>4. \A i \in 1..Len(tokens) : tokens[i].start \in Nat /\ tokens[i].end \in Nat /\ tokens[i].start <= tokens[i].end
  <2>1. \A i \in 1..Len(tokens) : tokens[i] \in TokenRecord
    BY <1>0
  <2>. QED  BY <2>1 DEF OrderInv, Ordered, Extent, TokenRecord, Offsets
<1>5. range[1] \in Nat /\ Len(tokens) \in Nat
  BY <1>0, <1>1, <1>3, <1>4
<1>6. n < k
  <2>. SUFFICES ASSUME n >= k PROVE FALSE
    BY <1>3, <1>5
  <2>1. n \in 1..Len(tokens) /\ tokens[n].start < tokens[k].start
    BY <1>1, <1>2, <1>3, <1>5
  <2>2. k < n
    BY <1>3, <1>4, <2>1
  <2>3. tokens[k].end <= tokens[n].start
    BY <1>3, <2>1, <2>2 DEF OrderInv, Ordered
  <2>. QED  BY <1>3, <1>4, <2>1, <2>3
<1>7. n \in Nat /\ n <= Len(tokens) /\ Len(tokens') = n /\ \A i \in 1..n : tokens'[i] = tokens[i]
  BY <1>0, <1>2, <1>5, InitialPart
<1>8. Rest(tokens, kind, range, cursor)' /\ Ordered(tokens)'
  <2>1. Ordered(tokens')
    BY <1>0, <1>2, <1>7, OrderedPart DEF OrderInv
  <2>2. \A i \in 1..Len(tokens') : tokens'[i].end <= range[1]
    <3>. TAKE i \in 1..Len(tokens')
    <3>1. i \in 1..Len(tokens) /\ i < k /\ tokens'[i] = tokens[i]
      BY <1>3, <1>5, <1>6, <1>7, SMTT(30)
    <3>. QED  BY <1>1, <1>3, <3>1 DEF OrderInv, Ordered
  <2>. QED  BY <1>0, <2>1, <2>2 DEF OrderInv, Rest, Ordered, Extent, NewlineAt
<1>9. (Speculating => HistoryKept)'
  <2>. SUFFICES ASSUME Speculating PROVE HistoryKept'
    BY <1>0 DEF Speculating
  <2>. DEFINE h == mark[1].history
              l == Len(h[1])
  <2>1. mark # <<>> /\ HistoryKept /\ bumped
    BY <1>0 DEF OrderInv, Speculating, HistoryKept
  <2>2. l \in Nat
    BY <1>0, <2>1, MarkType
  <2>3. l + 1 \in 1..Len(tokens) /\ tokens[l + 1].kind \in Solid
    BY <1>5, <2>1, <2>2 DEF HistoryKept
  <2>4. l + 1 < k
    BY <1>3, <2>2, <2>3, SMTT(30) DEF Solid, Trivia
  <2>5. tokens[l + 1].start < tokens[l + 1].end /\ tokens[l + 1].end <= tokens[k].start
    BY <1>3, <2>3, <2>4 DEF OrderInv, Ordered, Extent
  <2>6. l + 1 <= n
    <3>. SUFFICES ASSUME n < l + 1 PROVE FALSE
      BY <1>7, <2>2
    <3>1. l + 1 \in n + 1..Len(tokens)
      BY <1>7, <2>2, <2>3
    <3>2. tokens[l + 1].start >= tokens[k].start
      BY <1>1, <1>2, <3>1
    <3>. QED  BY <1>3, <1>4, <2>3, <2>5, <3>2, SMTT(30)
  <2>7. \A i \in 1..l : tokens'[i] = h[1][i]
    BY <1>7, <2>1, <2>2, <2>6 DEF HistoryKept, Prefix
  <2>8. Prefix(h[1], tokens') /\ Len(tokens') > l /\ tokens'[l + 1].kind \in Solid
    BY <1>7, <2>2, <2>3, <2>6, <2>7 DEF Prefix
  <2>. QED  BY <1>0, <2>1, <2>8 DEF HistoryKept, Rest, Ordered, Extent, NewlineAt
<1>. QED  BY <1>0, <1>8, <1>9 DEF OrderInv, From

(* The parser bumps the current token. *)
LEMMA OrderBump ==
    ASSUME OrderInv, TypeInv', Bump
    PROVE  OrderInv'
<1>0. /\ TypeOK /\ LexerTypeOK /\ tokens \in Seq(TokenRecord) /\ CurrentToken \in TokenRecord
      /\ pc = "idle" /\ saved = <<>> /\ pc' = "next" /\ caller' = "bump" /\ bumped' = TRUE
      /\ tokens' = Append(tokens, CurrentToken)
      /\ UNCHANGED <<src, kind, range, cursor, errors, saved, mark>>
  BY DEF OrderInv, TypeInv, TypeOK, LexerTypeOK, CurrentToken, TokenRecord, Bump, checkpointVars
<1>1. Rest(tokens, kind, range, cursor)
  BY <1>0 DEF OrderInv
<1>2. cursor \in Nat
  BY <1>0 DEF LexerTypeOK, Offsets
<1>3. /\ Ordered(tokens')
      /\ \A i \in 1..Len(tokens') : tokens'[i].end <= cursor
  BY <1>0, <1>1, OrderedAppend
<1>4. Ordered(tokens)'
  BY <1>0, <1>3, SMTT(30) DEF Ordered, Extent, NewlineAt
<1>5. (Speculating => HistoryKept)'
  <2>. SUFFICES ASSUME Speculating PROVE HistoryKept'
    BY <1>0 DEF Speculating
  <2>. DEFINE h == mark[1].history
              l == Len(h[1])
  <2>1. mark # <<>> /\ HistoryKept
    BY DEF OrderInv, Speculating
  <2>2. h[1] \in Seq(TokenRecord)
    BY <1>0, <2>1, MarkType
  <2>3. Prefix(h[1], tokens')
    BY <1>0, <2>1, <2>2, PrefixAppend DEF HistoryKept
  <2>4. l \in Nat /\ Len(tokens) \in Nat
    BY <1>0, <2>2
  <2>5. /\ Len(tokens') = Len(tokens) + 1 /\ tokens'[Len(tokens) + 1] = CurrentToken
        /\ \A i \in 1..Len(tokens) : tokens'[i] = tokens[i]
    BY <1>0
  <2>6. Len(tokens') > l /\ tokens'[l + 1].kind \in Solid
    <3>1. CASE bumped
      <4>1. Len(tokens) > l /\ tokens[l + 1].kind \in Solid
        BY <2>1, <3>1 DEF HistoryKept
      <4>. QED  BY <2>4, <2>5, <4>1, SMTT(30)
    <3>2. CASE ~bumped
      <4>1. Len(tokens) = l /\ CurrentToken.kind \in Solid
        BY <1>0, <2>1, <3>2 DEF HistoryKept, CurrentToken
      <4>. QED  BY <2>4, <2>5, <4>1
    <3>. QED  BY <3>1, <3>2
  <2>. QED  BY <1>0, <2>1, <2>3, <2>6 DEF HistoryKept, Rest, Ordered, Extent, NewlineAt
<1>. QED  BY <1>0, <1>2, <1>3, <1>4, <1>5 DEF OrderInv, From

(* The parser looks ahead. *)
LEMMA OrderPeek ==
    ASSUME OrderInv, TypeInv', Peek
    PROVE  OrderInv'
<1>0. /\ TypeOK /\ LexerTypeOK /\ pc = "idle" /\ saved = <<>> /\ pc' = "next" /\ caller' \in {"peek", "peek2"}
      /\ saved' = <<LexerCheckpoint>> /\ saved' # <<>> /\ saved'[1] = LexerCheckpoint
      /\ UNCHANGED <<src, kind, range, cursor, errors, tokens, mark, bumped>>
  BY DEF OrderInv, TypeInv, TypeOK, Peek, checkpointVars
<1>1. /\ saved'[1].kind = kind /\ saved'[1].range = range /\ saved'[1].cursor = cursor
      /\ saved'[1].errors = Len(errors)
  BY <1>0 DEF LexerCheckpoint
<1>2. cursor \in Nat /\ Len(errors) \in Nat
  BY <1>0 DEF LexerTypeOK, Offsets
<1>3. Rest(tokens, saved[1].kind, saved[1].range, saved[1].cursor)' /\ Ordered(tokens)'
  BY <1>0, <1>1, SMTT(30) DEF OrderInv, Rest, Ordered, Extent, NewlineAt
<1>4. (Speculating => HistoryKept)'
  <2>. SUFFICES ASSUME Speculating PROVE HistoryKept'
    BY <1>0 DEF Speculating
  <2>1. mark # <<>> /\ HistoryKept
    BY DEF OrderInv, Speculating
  <2>2. Len(mark[1].history[2]) <= saved'[1].errors
    BY <1>1, <2>1 DEF HistoryKept, Prefix
  <2>. QED  BY <1>0, <1>1, <2>1, <2>2 DEF HistoryKept, Rest, Ordered, Extent, NewlineAt
<1>. QED  BY <1>0, <1>1, <1>2, <1>3, <1>4 DEF OrderInv, From

(* The parser takes a checkpoint. *)
LEMMA OrderCheckpoint ==
    ASSUME OrderInv, TypeInv', Checkpoint
    PROVE  OrderInv'
<1>0. /\ TypeOK /\ LexerTypeOK /\ pc = "idle" /\ saved = <<>> /\ kind \in Solid
      /\ UNCHANGED <<src, pc, kind, range, cursor, errors, start, state, tokens, caller, saved>>
      /\ bumped' = FALSE
  BY DEF OrderInv, TypeInv, TypeOK, Checkpoint, lexerVars, checkpointVars, localVars, Solid
<1>1. /\ mark'[1].lexer.kind = kind /\ mark'[1].lexer.range = range /\ mark'[1].lexer.cursor = cursor
      /\ mark'[1].lexer.errors = Len(errors) /\ mark'[1].tokens = Len(tokens)
      /\ mark'[1].history = <<tokens, errors>>
  BY DEF Checkpoint, LexerCheckpoint
<1>2. Rest(tokens, kind, range, cursor)
  BY <1>0 DEF OrderInv
<1>3. Rest(tokens, kind, range, cursor)' /\ Ordered(tokens)'
  BY <1>0, <1>2 DEF Rest, Ordered, Extent, NewlineAt
<1>4. HistoryKept'
  <2>1. Len(errors) \in Nat /\ Len(tokens) \in Nat
    BY <1>0 DEF LexerTypeOK, TypeOK
  <2>2. mark'[1].history[1] = tokens /\ mark'[1].history[2] = errors
    BY <1>1
  <2>3. Prefix(tokens, tokens') /\ Prefix(errors, errors')
    BY <1>0, <2>1 DEF Prefix
  <2>4. Rest(mark[1].history[1], mark[1].lexer.kind, mark[1].lexer.range, mark[1].lexer.cursor)'
    BY <1>0, <1>1, <1>3, <2>2
  <2>. QED  BY <1>0, <1>1, <2>2, <2>3, <2>4 DEF HistoryKept
<1>. QED  BY <1>0, <1>3, <1>4 DEF OrderInv, From

(* The parser goes back to its checkpoint: the tokens and the errors are   *)
(* those of the checkpoint.                                                *)
LEMMA RewindRestores ==
    ASSUME OrderInv, Rewind
    PROVE  tokens' = mark[1].history[1] /\ errors' = mark[1].history[2]
<1>1. mark # <<>> /\ HistoryKept /\ TypeOK /\ LexerTypeOK
  BY DEF OrderInv, Rewind, Speculating, TypeInv, TypeOK
<1>. DEFINE h == mark[1].history
<1>2. h[1] \in Seq(TokenRecord) /\ h[2] \in Seq(ErrorRecord)
  BY <1>1, MarkType
<1>3. tokens' = Truncate(tokens, Len(h[1])) /\ errors' = Truncate(errors, Len(h[2]))
  BY <1>1 DEF Rewind, RestoreLexer, HistoryKept
<1>4. tokens \in Seq(TokenRecord) /\ errors \in Seq(ErrorRecord)
  BY <1>1 DEF TypeOK, LexerTypeOK
<1>. QED  BY <1>1, <1>2, <1>3, <1>4, TruncateToPrefix DEF HistoryKept

(* So the lexer is again at rest after them. *)
LEMMA OrderRewind ==
    ASSUME OrderInv, TypeInv', Rewind
    PROVE  OrderInv'
<1>0. /\ TypeOK /\ pc = "idle" /\ pc' = "idle" /\ saved = <<>> /\ mark # <<>> /\ HistoryKept
      /\ UNCHANGED <<src, start, saved, caller>>
  BY DEF OrderInv, TypeInv, TypeOK, Rewind, Speculating, localVars
<1>1. /\ tokens' = mark[1].history[1]
      /\ kind' = mark[1].lexer.kind /\ range' = mark[1].lexer.range /\ cursor' = mark[1].lexer.cursor
  BY RewindRestores DEF Rewind, RestoreLexer
<1>2. Rest(tokens, kind, range, cursor)' /\ Ordered(tokens)'
  BY <1>0, <1>1 DEF HistoryKept, Rest, Ordered, Extent, NewlineAt
<1>3. ~Speculating'
  <2>1. mark \in Seq(MarkRecord)
    BY <1>0 DEF TypeOK
  <2>2. mark[1] \in MarkRecord /\ 1 \in DOMAIN mark
    BY <1>0, <2>1
  <2>3. mark'[1].rewound
    BY <2>2 DEF Rewind, MarkRecord
  <2>. QED  BY <2>3 DEF Speculating
<1>. QED  BY <1>0, <1>2, <1>3 DEF OrderInv, From

(* The parser gives up a list. *)
LEMMA OrderReLex ==
    ASSUME OrderInv, TypeInv', ReLex
    PROVE  OrderInv'
<1>0. /\ TypeOK /\ LexerTypeOK /\ pc = "idle" /\ saved = <<>> /\ caller' = "relex"
      /\ UNCHANGED <<src, kind, range, errors, start, tokens, saved, mark, bumped>>
      /\ Speculating => bumped
  BY SMTT(30) DEF OrderInv, TypeInv, TypeOK, ReLex, localVars
<1>1. Ordered(tokens)' /\ (Speculating => HistoryKept)'
  BY <1>0 DEF OrderInv, Speculating, HistoryKept, Rest, Ordered, Extent, NewlineAt
<1>2. CASE ReLexStays
  <2>1. UNCHANGED <<pc, cursor, state>>
    BY <1>2 DEF ReLexStays
  <2>2. Rest(tokens, kind, range, cursor)'
    BY <1>0, <2>1 DEF OrderInv, Rest, Ordered, Extent, NewlineAt
  <2>. QED  BY <1>0, <1>1, <2>1, <2>2 DEF OrderInv, From
<1>3. CASE ReLexMoves
  <2>1. PICK i \in NonLogicalNewlines :
            (\A j \in NonLogicalNewlines : i <= j) /\ cursor' = tokens[i].start
    BY <1>3 DEF ReLexMoves, ToNewline
  <2>2. pc' = "next" /\ state' = "Other"
    BY <1>3 DEF ReLexMoves
  <2>3. NonLogicalNewlines' = NonLogicalNewlines
    BY <1>0 DEF NonLogicalNewlines, TrailingTrivia
  <2>4. At(tokens[i].start)'
    BY <1>0, <2>1, <2>2 DEF At
  <2>5. cursor' \in Nat
    BY <1>0 DEF TypeInv, TypeOK, LexerTypeOK, Offsets
  <2>. QED  BY <1>0, <1>1, <2>1, <2>2, <2>3, <2>4, <2>5 DEF OrderInv, From
<1>. QED  BY <1>2, <1>3 DEF ReLex

(* Every step keeps the order. *)
LEMMA NextOrder == OrderInv /\ [Next]_vars => OrderInv'
<1>. SUFFICES ASSUME OrderInv, [Next]_vars PROVE OrderInv'
  OBVIOUS
<1>1. TypeInv'
  BY NextType, SMTT(30) DEF OrderInv
<1>2. CASE UNCHANGED vars
  <2>1. /\ UNCHANGED <<src, cursor, start, kind, range, state, errors, pc>>
        /\ UNCHANGED <<tokens, caller, saved, mark, bumped>>
    BY <1>2 DEF vars, lexerVars, checkpointVars, localVars, sourceVars
  <2>2. /\ Ordered(tokens)' /\ From(0)' /\ (pc = "char" => cursor = start)'
        /\ (pc = "return" => Extent(kind, range[1], range[2]) /\ cursor = range[2])'
        /\ (pc = "idle" => Rest(tokens, kind, range, cursor))'
        /\ (pc # "idle" /\ caller = "bump" => \A i \in 1..Len(tokens) : From(tokens[i].end))'
    BY <2>1 DEF OrderInv, Ordered, From, Extent, NewlineAt, Rest
  <2>3. /\ (saved # <<>> <=> pc # "idle" /\ caller \in {"peek", "peek2"})'
        /\ (saved # <<>> =>
              /\ Rest(tokens, saved[1].kind, saved[1].range, saved[1].cursor)
              /\ saved[1].errors <= Len(errors))'
    BY <2>1 DEF OrderInv, Ordered, Extent, NewlineAt, Rest
  <2>4. (pc # "idle" /\ caller = "relex" =>
            \E i \in NonLogicalNewlines :
                (\A j \in NonLogicalNewlines : i <= j) /\ At(tokens[i].start))'
    BY <2>1, SMTT(30) DEF OrderInv, At, NonLogicalNewlines, TrailingTrivia
  <2>5. (Speculating => HistoryKept)'
    BY <2>1, ZenonT(60) DEF OrderInv, Speculating, HistoryKept, Ordered, Extent, NewlineAt, Rest
  <2>. QED  BY <1>1, <2>2, <2>3, <2>4, <2>5 DEF OrderInv
<1>. QED  BY <1>1, <1>2, OrderLex, OrderReturnBump, OrderReturnPeek, OrderReturnReLex, OrderBump, OrderPeek,
             OrderCheckpoint, OrderRewind, OrderReLex DEF Next

(* A rewind puts back every token and error of the checkpoint: nothing the *)
(* parser did since, the recovery included, has cut the two below it.      *)
THEOREM RewindsAreExact == Spec => RewindIsExact
<1>1. OrderInv /\ [Next]_vars =>
          [(Speculating /\ ~Speculating') => <<tokens', errors'>> = mark[1].history]_vars
  <2>. SUFFICES ASSUME OrderInv, [Next]_vars, Speculating, ~Speculating'
                PROVE  <<tokens', errors'>> = mark[1].history
    OBVIOUS
  <2>1. Rewind
    <3>1. mark' # mark /\ mark # <<>>
      BY DEF Speculating
    <3>. QED  BY <3>1 DEF Next, Lex, ReturnBump, ReturnPeek, ReturnReLex, Bump, Peek, Checkpoint, ReLex,
                vars, sourceVars
  <2>2. mark # <<>> /\ TypeOK
    BY DEF Speculating, OrderInv, TypeInv
  <2>3. mark[1].history \in Seq(TokenRecord) \X Seq(ErrorRecord)
    BY <2>2, MarkType DEF MarkRecord
  <2>. QED  BY <2>1, <2>3, RewindRestores
<1>. QED  BY <1>1, InitOrder, NextOrder, PTL DEF Spec, RewindIsExact
-----------------------------------------------------------------------------
(* A step of the lexer computes the function of LexerFunction.             *)
LEMMA LocalNext ==
    /\ pc' = "indent" => Local' = indentation'
    /\ pc' = "string" => Local' = triple'
    /\ pc' = "fstring" => Local' = <<start', named'>>
    /\ pc' = "return" => Local' = kind'
    /\ pc' \in {"next", "space", "char", "escape"} => Local' = "unused"
  BY DEF Local

(* The state of the lexer after a step. *)
LEMMA StateNext ==
    LexerState' = <<pc', cursor', state', nesting', indentations', pending', fstrings', Local'>>
  BY DEF LexerState

(* The end of an f-string, or on to its text. *)
LEMMA FStringFunction == ASSUME NextFStringToken PROVE LexerState' = Following
<1>1. pc = "next" /\ fstrings # <<>> /\ ~InExpression(Context)
  BY DEF NextFStringToken
<1>2. Following = FromFString
  BY <1>1 DEF Following, FromNext
<1>3. state' = state /\ nesting' = nesting /\ indentations' = indentations /\ pending' = pending /\ start' = cursor
  BY DEF NextFStringToken
<1>4. CASE AtFStringEnd
  <2>1. /\ kind' = "FStringEnd" /\ cursor' = cursor + (IF Context.triple THEN 3 ELSE 1)
        /\ fstrings' = PopFString /\ pc' = "return"
    BY <1>4 DEF NextFStringToken
  <2>. QED  BY <1>2, <1>3, <1>4, <2>1, LocalNext, StateNext DEF FromFString
<1>5. CASE ~AtFStringEnd
  <2>1. named' = FALSE /\ cursor' = cursor /\ fstrings' = fstrings /\ pc' = "fstring"
    BY <1>5 DEF NextFStringToken
  <2>. QED  BY <1>2, <1>3, <1>5, <2>1, LocalNext, StateNext DEF FromFString, OnTo
<1>. QED  BY <1>4, <1>5

(* One dedent of a pending indentation. *)
LEMMA DedentFunction == ASSUME NextDedent PROVE LexerState' = Following
<1>1. pc = "next" /\ fstrings = <<>> /\ pending # NoPending
  BY DEF NextDedent
<1>2. Following = FromPending
  BY <1>1 DEF Following, FromNext
<1>3. /\ state' = state /\ nesting' = nesting /\ cursor' = cursor /\ fstrings' = fstrings
  BY DEF NextDedent
<1>4. CASE TryCompare(CurrentLevel(indentations), pending) = "Greater"
  <2>1. /\ indentations' = Popped(indentations) /\ pending' = pending /\ pc' = "return"
        /\ kind' = IF DedentOne(indentations, pending) = "Dedent" THEN "Dedent" ELSE "Unknown"
    BY <1>4 DEF NextDedent, PushError
  <2>. QED  BY <1>2, <1>3, <1>4, <2>1, LocalNext, StateNext DEF FromPending
<1>5. CASE TryCompare(CurrentLevel(indentations), pending) = "Err"
  <2>1. indentations' = indentations /\ pending' = NoPending /\ pc' = "return" /\ kind' = "Unknown"
    BY <1>5 DEF NextDedent, PushError
  <2>. QED  BY <1>2, <1>3, <1>5, <2>1, LocalNext, StateNext DEF FromPending
<1>6. CASE TryCompare(CurrentLevel(indentations), pending) \notin {"Greater", "Err"}
  <2>1. indentations' = indentations /\ pending' = NoPending /\ EnterLayout
    BY <1>6 DEF NextDedent
  <2>2. Following = OnToLayout(NoPending)
    BY <1>2, <1>6 DEF FromPending
  <2>. QED  BY <1>3, <2>1, <2>2, LocalNext, StateNext DEF OnToLayout, EnterLayout, AfterLayout
<1>. QED  BY <1>4, <1>5, <1>6

(* On to the white space before the token. *)
LEMMA PlainFunction == ASSUME NextPlain PROVE LexerState' = Following
<1>1. /\ pc = "next" /\ EnterLayout
      /\ IF fstrings = <<>> THEN pending = NoPending ELSE InExpression(Context)
  BY DEF NextPlain
<1>2. Following = OnToLayout(pending)
  BY <1>1 DEF Following, FromNext
<1>3. /\ state' = state /\ nesting' = nesting /\ cursor' = cursor /\ fstrings' = fstrings
      /\ indentations' = indentations /\ pending' = pending
  BY DEF NextPlain
<1>. QED  BY <1>1, <1>2, <1>3, LocalNext, StateNext DEF OnToLayout, EnterLayout, AfterLayout

(* The cursor sees NUL past the last character. *)
LEMMA SecondAtEnd == ASSUME LexerTypeOK, cursor + 1 = Len(src) PROVE Char(2) = "nul"
  BY DEF LexerTypeOK, Char, Offsets

(* A backslash in white space. *)
LEMMA ContinuationFunction ==
    ASSUME LexerTypeOK, Continuation, pc \in {"indent", "space"}, NEW x, pc' = pc => Local' = x,
           UNCHANGED <<state, nesting, indentations, pending, fstrings>>
    PROVE  LexerState' = OverContinuation(pc, x)
<1>1. CASE Char(2) = "cr"
  <2>1. cursor + 1 # Len(src) /\ Char(2) # "nl"
    BY <1>1, SecondAtEnd
  <2>2. cursor' = Eat(cursor + 2, "nl") /\ pc' = pc
    BY <1>1, <2>1 DEF Continuation, Advance
  <2>. QED  BY <1>1, <2>2, StateNext DEF OverContinuation, OnTo
<1>2. CASE Char(2) # "cr" /\ cursor + 1 = Len(src)
  <2>1. Char(2) = "nul"
    BY <1>2, SecondAtEnd
  <2>2. cursor' = cursor + 1 /\ pc' = "return" /\ kind' = "Unknown"
    BY <1>2, <2>1 DEF Continuation, PushError
  <2>. QED  BY <1>2, <2>2, LocalNext, StateNext DEF OverContinuation, Gives
<1>3. CASE Char(2) = "nl" /\ cursor + 1 # Len(src)
  <2>1. cursor' = cursor + 2 /\ pc' = pc
    BY <1>3 DEF Continuation, Advance
  <2>. QED  BY <1>3, <2>1, StateNext DEF OverContinuation, OnTo
<1>4. CASE Char(2) \notin {"cr", "nl"} /\ cursor + 1 # Len(src)
  <2>1. cursor' = cursor + 1 /\ pc' = "return" /\ kind' = "Unknown"
    BY <1>4 DEF Continuation, PushError
  <2>. QED  BY <1>4, <2>1, LocalNext, StateNext DEF OverContinuation, Gives
<1>. QED  BY <1>1, <1>2, <1>3, <1>4

(* A turn of eat_indentation. *)
LEMMA EatIndentationFunction == ASSUME LexerTypeOK, EatIndentation PROVE LexerState' = Following
<1>1. pc = "indent" /\ UNCHANGED <<state, nesting, indentations, pending, fstrings>> /\ Following = FromIndent
  BY DEF EatIndentation, Following
<1>2. CASE First \in {"sp", "tab", "ff"}
  <2>1. /\ indentation' = (CASE First = "sp" -> AddSpace(indentation)
                             [] First = "tab" -> AddTab(indentation)
                             [] First = "ff" -> Root)
        /\ cursor' = cursor + 1 /\ pc' = pc
    BY <1>2 DEF EatIndentation, Advance
  <2>2. LexerState' = OnTo("indent", cursor + 1, indentation')
    BY <1>1, <2>1, LocalNext, StateNext DEF OnTo
  <2>3. CASE First = "sp"
    BY <1>1, <2>1, <2>2, <2>3 DEF FromIndent
  <2>4. CASE First = "tab"
    BY <1>1, <2>1, <2>2, <2>4 DEF FromIndent
  <2>5. CASE First = "ff"
    BY <1>1, <2>1, <2>2, <2>5 DEF FromIndent
  <2>. QED  BY <1>2, <2>3, <2>4, <2>5
<1>3. CASE First \notin {"sp", "tab", "ff"}
  <2>1. First = "bs" /\ Continuation /\ indentation' = Root
    BY <1>3 DEF EatIndentation
  <2>2. pc' = pc => Local' = Root
    BY <1>1, <2>1, LocalNext
  <2>3. LexerState' = OverContinuation("indent", Root)
    BY <1>1, <2>1, <2>2, ContinuationFunction
  <2>4. Following = OverContinuation("indent", Root)
    BY <1>1, <2>1 DEF FromIndent
  <2>. QED  BY <2>3, <2>4
<1>. QED  BY <1>2, <1>3

(* The indentation of an empty line. *)
LEMMA SkipEmptyLineFunction == ASSUME SkipEmptyLine PROVE LexerState' = Following
<1>1. Following = FromIndent /\ pc' = "char" /\ UNCHANGED checkpointVars /\ First \in {"nl", "cr", "hash", "nul"}
  BY DEF SkipEmptyLine, Following
<1>2. FromIndent = OnTo("char", cursor, "unused")
  BY <1>1 DEF FromIndent
<1>. QED  BY <1>1, <1>2, LocalNext, StateNext DEF OnTo, checkpointVars

(* handle_indentation. *)
LEMMA HandleIndentationFunction == ASSUME HandleIndentation PROVE LexerState' = Following
<1>. DEFINE order == TryCompare(CurrentLevel(indentations), indentation)
<1>1. /\ Following = FromIndentation
      /\ cursor' = cursor /\ nesting' = nesting /\ fstrings' = fstrings /\ state' = "NonEmptyLogicalLine"
  BY DEF HandleIndentation, Following, FromIndent
<1>2. CASE order = "Greater"
  <2>1. /\ pending' = indentation /\ indentations' = Popped(indentations) /\ pc' = "return"
        /\ kind' = IF DedentOne(indentations, indentation) = "Dedent" THEN "Dedent" ELSE "Unknown"
    BY <1>2 DEF HandleIndentation, PushError
  <2>2. Following = AtLevel("return", Popped(indentations), indentation,
                    IF DedentOne(indentations, indentation) = "Dedent" THEN "Dedent" ELSE "Unknown")
    BY <1>1, <1>2 DEF FromIndentation
  <2>. QED  BY <1>1, <2>1, <2>2, LocalNext, StateNext DEF AtLevel
<1>3. CASE order = "Equal"
  <2>1. pc' = "char" /\ UNCHANGED <<indentations, pending>>
    BY <1>3 DEF HandleIndentation
  <2>2. Following = AtLevel("char", indentations, pending, "unused")
    BY <1>1, <1>3 DEF FromIndentation
  <2>. QED  BY <1>1, <2>1, <2>2, LocalNext, StateNext DEF AtLevel
<1>4. CASE order = "Less"
  <2>1. indentations' = Append(indentations, indentation) /\ pending' = pending /\ kind' = "Indent" /\ pc' = "return"
    BY <1>4 DEF HandleIndentation
  <2>2. Following = AtLevel("return", Append(indentations, indentation), pending, "Indent")
    BY <1>1, <1>4 DEF FromIndentation
  <2>. QED  BY <1>1, <2>1, <2>2, LocalNext, StateNext DEF AtLevel
<1>5. CASE order \notin {"Greater", "Equal", "Less"}
  <2>1. indentations' = indentations /\ pending' = pending /\ kind' = "Unknown" /\ pc' = "return"
    BY <1>5 DEF HandleIndentation, PushError
  <2>2. Following = AtLevel("return", indentations, pending, "Unknown")
    BY <1>1, <1>5 DEF FromIndentation
  <2>. QED  BY <1>1, <2>1, <2>2, LocalNext, StateNext DEF AtLevel
<1>. QED  BY <1>2, <1>3, <1>4, <1>5

(* A turn of skip_whitespace. *)
LEMMA SkipWhitespaceFunction == ASSUME LexerTypeOK, SkipWhitespace PROVE LexerState' = Following
<1>1. pc = "space" /\ UNCHANGED <<state, nesting, indentations, pending, fstrings>> /\ Following = FromSpace
  BY DEF SkipWhitespace, Following
<1>2. CASE First \in {"sp", "tab", "ff"}
  <2>1. cursor' = cursor + 1 /\ pc' = pc
    BY <1>2 DEF SkipWhitespace, Advance
  <2>. QED  BY <1>1, <1>2, <2>1, LocalNext, StateNext DEF FromSpace, OnTo
<1>3. CASE First = "bs"
  <2>1. Continuation
    BY <1>3 DEF SkipWhitespace
  <2>2. pc' = pc => Local' = "unused"
    BY <1>1, LocalNext
  <2>3. LexerState' = OverContinuation("space", "unused")
    BY <1>1, <2>1, <2>2, ContinuationFunction
  <2>. QED  BY <1>1, <1>3, <2>3 DEF FromSpace
<1>4. CASE First \notin {"sp", "tab", "ff", "bs"}
  <2>1. pc' = "char" /\ cursor' = cursor
    BY <1>4 DEF SkipWhitespace
  <2>. QED  BY <1>1, <1>4, <2>1, LocalNext, StateNext DEF FromSpace, OnTo
<1>. QED  BY <1>2, <1>3, <1>4

(* The longest run of characters ends in one place. *)
LEMMA RunEndUnique ==
    ASSUME LexerTypeOK, NEW S, NEW e \in cursor..Len(src), RunEnd(S, e)
    PROVE  e = EndOfRun(S)
<1>1. EndOfRun(S) \in cursor..Len(src) /\ RunEnd(S, EndOfRun(S))
  BY DEF EndOfRun
<1>2. ASSUME NEW a \in cursor..Len(src), NEW b \in cursor..Len(src), RunEnd(S, a), RunEnd(S, b), a < b
      PROVE  FALSE
  <2>1. a + 1 \in cursor + 1..b /\ a < Len(src)
    BY <1>2 DEF LexerTypeOK, Offsets
  <2>. QED  BY <1>2, <2>1 DEF RunEnd
<1>. QED  BY <1>1, <1>2 DEF LexerTypeOK, Offsets

(* The cursor sees NUL at the end of the source. *)
LEMMA FirstAtEnd == ASSUME LexerTypeOK, IsEof PROVE First = "nul"
  BY DEF LexerTypeOK, First, Char, IsEof, Offsets

(* Each token's first character: names, *)
LEMMA LexNameFunction == ASSUME LexerTypeOK, LexName PROVE LexerState' = Following
<1>1. /\ pc = "char" /\ First \in {"f", "N"} /\ ~(First = "f" /\ Char(2) = "quote")
      /\ state' = "Other" /\ UNCHANGED <<nesting, indentations, pending, fstrings>>
  BY DEF LexName
<1>2. PICK e \in cursor..Len(src) : RunEnd({"f", "N"}, e) /\ Token("Name", e)
  BY DEF LexName
<1>3. e = EndOfRun({"f", "N"})
  BY <1>2, RunEndUnique
<1>4. Following = Gives("Name", e, "Other")
  BY <1>1, <1>3 DEF Following, FromChar, FromFOrN
<1>. QED  BY <1>1, <1>2, <1>4, LocalNext, StateNext DEF Gives, Token

(* the start of an f-string, *)
LEMMA LexFStringStartFunction == ASSUME LexFStringStart PROVE LexerState' = Following
<1>. DEFINE isTriple == Char(3) = "quote" /\ Char(4) = "quote"
           e == cursor + (IF isTriple THEN 4 ELSE 2)
           f == Append(fstrings, [nesting |-> nesting, depth |-> 0, triple |-> isTriple])
<1>1. /\ pc = "char" /\ First = "f" /\ Char(2) = "quote" /\ Token("FStringStart", e)
      /\ fstrings' = f /\ state' = "Other" /\ UNCHANGED <<nesting, indentations, pending>>
  BY DEF LexFStringStart
<1>2. Following = GivesNested("FStringStart", e, nesting, f)
  BY <1>1 DEF Following, FromChar, FromFOrN
<1>. QED  BY <1>1, <1>2, LocalNext, StateNext DEF GivesNested, Token

(* tokens of one character, *)
LEMMA LexWordFunction == ASSUME LexWord PROVE LexerState' = Following
<1>1. Following = Gives("Word", cursor + 1, "Other")
  BY DEF LexWord, Following, FromChar
<1>. QED  BY <1>1, LocalNext, StateNext DEF LexWord, Gives, Token

(* comments, *)
LEMMA LexCommentFunction == ASSUME LexerTypeOK, LexComment PROVE LexerState' = Following
<1>1. pc = "char" /\ First = "hash" /\ UNCHANGED <<state, nesting, indentations, pending, fstrings>>
  BY DEF LexComment
<1>2. PICK e \in cursor..Len(src) : RunEnd(Chars \ {"nl", "cr"}, e) /\ Token("Comment", e)
  BY DEF LexComment
<1>3. e = EndOfRun(Chars \ {"nl", "cr"})
  BY <1>2, RunEndUnique
<1>4. Following = Gives("Comment", e, state)
  BY <1>1, <1>3 DEF Following, FromChar
<1>. QED  BY <1>1, <1>2, <1>4, LocalNext, StateNext DEF Gives, Token

(* equals signs, *)
LEMMA LexEqualFunction == ASSUME LexEqual PROVE LexerState' = Following
<1>1. /\ pc = "char" /\ First = "eq" /\ UNCHANGED <<nesting, indentations, pending, fstrings>>
      /\ IF Char(2) = "eq" THEN Token("EqEqual", cursor + 2) /\ state' = "Other"
                           ELSE Token("Equal", cursor + 1) /\ state' = "AfterEqual"
  BY DEF LexEqual
<1>2. Following = IF Char(2) = "eq" THEN Gives("EqEqual", cursor + 2, "Other")
                                    ELSE Gives("Equal", cursor + 1, "AfterEqual")
  BY <1>1 DEF Following, FromChar
<1>. QED  BY <1>1, <1>2, LocalNext, StateNext DEF Gives, Token

(* the character of an escape command, *)
LEMMA LexEscapeCharacterFunction == ASSUME LexEscapeCharacter PROVE LexerState' = Following
<1>1. pc = "char" /\ First = "esc" /\ UNCHANGED <<nesting, indentations, pending, fstrings>>
  BY DEF LexEscapeCharacter
<1>2. Following = FromEscapeCharacter
  BY <1>1 DEF Following, FromChar
<1>3. CASE Ipython /\ state = "AfterEqual" /\ nesting = 0
  <2>1. pc' = "escape" /\ cursor' = cursor + 1 /\ state' = state
    BY <1>3 DEF LexEscapeCharacter, IsNewLogicalLine
  <2>. QED  BY <1>1, <1>2, <1>3, <2>1, LocalNext, StateNext DEF FromEscapeCharacter, OnTo
<1>4. CASE ~(Ipython /\ state = "AfterEqual" /\ nesting = 0) /\ Ipython /\ IsNewLogicalLine
  <2>1. pc' = "escape" /\ cursor' = Eat(cursor + 1, "esc") /\ state' = state
    BY <1>4 DEF LexEscapeCharacter
  <2>. QED  BY <1>1, <1>2, <1>4, <2>1, LocalNext, StateNext DEF FromEscapeCharacter, OnTo
<1>5. CASE ~(Ipython /\ state = "AfterEqual" /\ nesting = 0) /\ ~(Ipython /\ IsNewLogicalLine)
  <2>1. Token("Word", Eat(cursor + 1, "eq")) /\ state' = "Other"
    BY <1>5 DEF LexEscapeCharacter
  <2>. QED  BY <1>1, <1>2, <1>5, <2>1, LocalNext, StateNext DEF FromEscapeCharacter, Gives, Token
<1>. QED  BY <1>3, <1>4, <1>5

(* opening brackets, *)
LEMMA LexOpeningFunction == ASSUME LexOpening PROVE LexerState' = Following
<1>1. Following = GivesNested(IF First = "lpar" THEN "Lpar" ELSE "Lbrace", cursor + 1, nesting + 1, fstrings)
  BY DEF LexOpening, Following, FromChar
<1>. QED  BY <1>1, LocalNext, StateNext DEF LexOpening, GivesNested, Token

(* closing parentheses, *)
LEMMA LexRparFunction == ASSUME LexRpar PROVE LexerState' = Following
<1>1. Following = GivesNested("Rpar", cursor + 1, SaturatingDec(nesting), fstrings)
  BY DEF LexRpar, Following, FromChar
<1>. QED  BY <1>1, LocalNext, StateNext DEF LexRpar, GivesNested, Token

(* try_end_format_spec, *)
LEMMA EndFormatSpecFunction == ASSUME TryEndFormatSpec PROVE fstrings' = AfterSpec
  BY DEF TryEndFormatSpec, SetDepth, AfterSpec

(* closing braces, *)
LEMMA LexRbraceFunction == ASSUME LexRbrace PROVE LexerState' = Following
<1>1. pc = "char" /\ First = "rbrace" /\ UNCHANGED <<indentations, pending>> /\ Following = FromRbrace
  BY DEF LexRbrace, Following, FromChar
<1>2. CASE fstrings # <<>> /\ Context.nesting = nesting
  <2>1. cursor' = cursor + 1 /\ pc' = "return" /\ kind' = "Unknown" /\ UNCHANGED <<state, nesting, fstrings>>
    BY <1>2 DEF LexRbrace, PushError
  <2>. QED  BY <1>1, <1>2, <2>1, LocalNext, StateNext DEF FromRbrace, Gives
<1>3. CASE ~(fstrings # <<>> /\ Context.nesting = nesting)
  <2>1. Token("Rbrace", cursor + 1) /\ TryEndFormatSpec /\ nesting' = SaturatingDec(nesting) /\ state' = "Other"
    BY <1>3 DEF LexRbrace
  <2>. QED  BY <1>1, <1>3, <2>1, EndFormatSpecFunction, LocalNext, StateNext DEF FromRbrace, GivesNested, Token
<1>. QED  BY <1>2, <1>3

(* colons, *)
LEMMA LexColonFunction == ASSUME LexColon PROVE LexerState' = Following
<1>1. /\ pc = "char" /\ First = "colon" /\ UNCHANGED <<nesting, indentations, pending>> /\ Following = FromColon
      /\ state' = "Other"
  BY DEF LexColon, Following, FromChar
<1>2. CASE fstrings # <<>> /\ StartsFormatSpec(Context)
  <2>1. Token("Colon", cursor + 1) /\ SetDepth(Context.depth + 1)
    BY <1>2 DEF LexColon
  <2>. QED  BY <1>1, <1>2, <2>1, LocalNext, StateNext DEF FromColon, InSpec, GivesNested, Token, SetDepth
<1>3. CASE ~(fstrings # <<>> /\ StartsFormatSpec(Context))
  <2>1. /\ IF Char(2) = "eq" THEN Token("ColonEqual", cursor + 2) ELSE Token("Colon", cursor + 1)
        /\ UNCHANGED fstrings
    BY <1>3 DEF LexColon
  <2>. QED  BY <1>1, <1>3, <2>1, LocalNext, StateNext DEF FromColon, Gives, Token
<1>. QED  BY <1>2, <1>3

(* newlines, *)
LEMMA LexNewlineFunction == ASSUME LexNewline PROVE LexerState' = Following
<1>. DEFINE e == IF First = "cr" THEN Eat(cursor + 1, "nl") ELSE cursor + 1
<1>1. pc = "char" /\ First \in {"nl", "cr"} /\ UNCHANGED <<nesting, indentations, pending>> /\ Following = FromNewline
  BY DEF LexNewline, Following, FromChar
<1>2. CASE nesting = 0 /\ ~IsNewLogicalLine
  <2>1. Token("Newline", e) /\ state' = "AfterNewline" /\ UNCHANGED fstrings
    BY <1>2 DEF LexNewline
  <2>2. Following = Gives("Newline", e, "AfterNewline")
    BY <1>1, <1>2 DEF FromNewline
  <2>. QED  BY <1>1, <2>1, <2>2, LocalNext, StateNext DEF Gives, Token
<1>3. CASE ~(nesting = 0 /\ ~IsNewLogicalLine)
  <2>1. Token("NonLogicalNewline", e) /\ TryEndFormatSpec /\ UNCHANGED state
    BY <1>3 DEF LexNewline
  <2>2. Following = <<"return", e, state, nesting, indentations, pending, AfterSpec, "NonLogicalNewline">>
    BY <1>1, <1>3 DEF FromNewline
  <2>. QED  BY <1>1, <2>1, <2>2, EndFormatSpecFunction, LocalNext, StateNext DEF Token
<1>. QED  BY <1>2, <1>3

(* characters of no token, *)
LEMMA LexUnrecognizedFunction == ASSUME LexUnrecognized PROVE LexerState' = Following
<1>1. Following = Gives("Unknown", cursor + 1, IF First = "ubad" THEN state ELSE "Other")
  BY DEF LexUnrecognized, Following, FromChar
<1>. QED  BY <1>1, LocalNext, StateNext DEF LexUnrecognized, Gives, PushError

(* the quote of a string literal, *)
LEMMA LexStringStartFunction == ASSUME LexStringStart PROVE LexerState' = Following
<1>1. /\ pc = "char" /\ First = "quote" /\ triple' = (Char(2) = "quote" /\ Char(3) = "quote")
      /\ cursor' = cursor + (IF triple' THEN 3 ELSE 1) /\ pc' = "string"
      /\ UNCHANGED <<state, nesting, indentations, pending, fstrings>>
  BY DEF LexStringStart
<1>2. Following = FromQuote
  BY <1>1 DEF Following, FromChar
<1>3. Following = OnTo("string", cursor + (IF triple' THEN 3 ELSE 1), triple')
  BY <1>1, <1>2, Zenon DEF FromQuote
<1>. QED  BY <1>1, <1>3, LocalNext, StateNext DEF OnTo

(* and the end of the source. *)
LEMMA ConsumeEndFunction == ASSUME LexerTypeOK, ConsumeEnd PROVE LexerState' = Following
<1>1. pc = "char" /\ IsEof /\ First = "nul" /\ UNCHANGED <<pending, fstrings>> /\ nesting \in Nat
  BY FirstAtEnd DEF ConsumeEnd, LexerTypeOK
<1>2. Following = FromEof
  BY <1>1 DEF Following, FromChar
<1>3. CASE nesting > 0
  <2>1. UNCHANGED <<cursor, state, indentations>> /\ nesting' = 0 /\ pc' = "return" /\ kind' = "Unknown"
    BY <1>1, <1>3 DEF ConsumeEnd, PushError
  <2>. QED  BY <1>1, <1>2, <1>3, <2>1, LocalNext, StateNext DEF FromEof
<1>4. CASE nesting = 0 /\ ~IsNewLogicalLine
  <2>1. Token("Newline", cursor) /\ state' = "AfterNewline" /\ UNCHANGED <<nesting, indentations>>
    BY <1>4 DEF ConsumeEnd
  <2>. QED  BY <1>1, <1>2, <1>4, <2>1, LocalNext, StateNext DEF FromEof, Gives, Token
<1>5. CASE nesting = 0 /\ IsNewLogicalLine /\ indentations # <<>>
  <2>1. Token("Dedent", cursor) /\ indentations' = Popped(indentations) /\ UNCHANGED <<nesting, state>>
    BY <1>5 DEF ConsumeEnd
  <2>. QED  BY <1>1, <1>2, <1>5, <2>1, LocalNext, StateNext DEF FromEof, Gives, Token
<1>6. CASE nesting = 0 /\ IsNewLogicalLine /\ indentations = <<>>
  <2>1. Token("EndOfFile", cursor) /\ UNCHANGED <<nesting, state, indentations>>
    BY <1>6 DEF ConsumeEnd
  <2>. QED  BY <1>1, <1>2, <1>6, <2>1, LocalNext, StateNext DEF FromEof, Gives, Token
<1>. QED  BY <1>1, <1>3, <1>4, <1>5, <1>6

(* A turn of lex_string. *)
LEMMA LexStringFunction == ASSUME LexerTypeOK, LexString PROVE LexerState' = Following
<1>1. /\ pc = "string" /\ UNCHANGED <<nesting, indentations, pending, fstrings, triple>>
      /\ Following = FromString
  BY DEF LexString, Following, localVars
<1>2. CASE IsEof
  <2>1. First = "nul"
    BY <1>2, FirstAtEnd
  <2>2. state' = "Other" /\ cursor' = cursor /\ pc' = "return" /\ kind' = "Unknown"
    BY <1>2, <2>1 DEF LexString, PushError
  <2>. QED  BY <1>1, <1>2, <2>2, LocalNext, StateNext DEF FromString, Gives
<1>3. CASE ~IsEof /\ First = "bs"
  <2>1. Advance(AfterEscaped) /\ UNCHANGED state
    BY <1>3 DEF LexString
  <2>. QED  BY <1>1, <1>3, <2>1, LocalNext, StateNext DEF FromString, OnTo, Advance
<1>4. CASE ~IsEof /\ First = "quote" /\ ~triple
  <2>1. Token("String", cursor + 1) /\ state' = "Other"
    BY <1>4 DEF LexString
  <2>. QED  BY <1>1, <1>4, <2>1, LocalNext, StateNext DEF FromString, Gives, Token
<1>5. CASE ~IsEof /\ First = "quote" /\ triple /\ Char(2) = "quote" /\ Char(3) = "quote"
  <2>1. Token("String", cursor + 3) /\ state' = "Other"
    BY <1>5 DEF LexString
  <2>. QED  BY <1>1, <1>5, <2>1, LocalNext, StateNext DEF FromString, Gives, Token
<1>6. CASE ~IsEof /\ First \in {"nl", "cr"} /\ ~triple
  <2>1. state' = "Other" /\ cursor' = cursor /\ pc' = "return" /\ kind' = "Unknown"
    BY <1>6 DEF LexString, PushError
  <2>. QED  BY <1>1, <1>6, <2>1, LocalNext, StateNext DEF FromString, Gives
<1>7. CASE /\ ~IsEof /\ First # "bs" /\ ~(First = "quote" /\ ~triple)
           /\ ~(First = "quote" /\ triple /\ Char(2) = "quote" /\ Char(3) = "quote")
           /\ ~(First \in {"nl", "cr"} /\ ~triple)
  <2>1. Advance(cursor + 1) /\ UNCHANGED state
    BY <1>7 DEF LexString
  <2>. QED  BY <1>1, <1>7, <2>1, LocalNext, StateNext DEF FromString, OnTo, Advance
<1>. QED  BY <1>2, <1>3, <1>4, <1>5, <1>6, <1>7

(* The end of a piece of f-string text. *)
LEMMA LexFStringMiddleFunction == ASSUME LexFStringMiddle PROVE LexerState' = Following
<1>1. /\ pc = "fstring" /\ ~IsEof /\ FStringBreak /\ Following = FromText
      /\ UNCHANGED <<state, nesting, indentations, pending, fstrings>>
  BY DEF LexFStringMiddle, Following
<1>2. ~Unterminated
  BY <1>1 DEF Unterminated, FStringBreak
<1>3. Following = IF cursor = start THEN OnToLayout(pending) ELSE Gives("FStringMiddle", cursor, state)
  BY <1>1, <1>2 DEF FromText
<1>4. CASE cursor = start
  <2>1. EnterLayout /\ cursor' = cursor
    BY <1>4 DEF LexFStringMiddle
  <2>. QED  BY <1>1, <1>3, <1>4, <2>1, LocalNext, StateNext DEF OnToLayout, EnterLayout, AfterLayout
<1>5. CASE cursor # start
  <2>1. Token("FStringMiddle", cursor)
    BY <1>5 DEF LexFStringMiddle
  <2>. QED  BY <1>1, <1>3, <1>5, <2>1, LocalNext, StateNext DEF Gives, Token
<1>. QED  BY <1>4, <1>5

(* An f-string that is not terminated. *)
LEMMA LexFStringUnterminatedFunction == ASSUME LexFStringUnterminated PROVE LexerState' = Following
<1>1. Following = <<"return", cursor, state, nesting, indentations, pending, PopFString, "Unknown">>
  BY DEF LexFStringUnterminated, Following, FromText, Unterminated
<1>. QED  BY <1>1, LocalNext, StateNext DEF LexFStringUnterminated, PushError

(* A turn of the loop over f-string text. *)
LEMMA LexFStringTextFunction == ASSUME LexFStringText PROVE LexerState' = Following
<1>1. /\ pc = "fstring" /\ ~IsEof /\ ~FStringBreak /\ Following = FromText
      /\ UNCHANGED <<state, nesting, indentations, pending, fstrings, start>>
      /\ First \in {"nl", "cr"} => Context.triple
  BY DEF LexFStringText, Following
<1>2. ~Unterminated
  BY <1>1 DEF Unterminated
<1>3. CASE First = "bs"
  <2>1. Following = FromEscapeInText
    BY <1>1, <1>2, <1>3 DEF FromText
  <2>2. CASE Char(2) \in {"lbrace", "rbrace"}
    <3>1. Advance(cursor + 1) /\ UNCHANGED named
      BY <1>3, <2>2 DEF LexFStringText
    <3>. QED  BY <1>1, <2>1, <2>2, <3>1, LocalNext, StateNext DEF FromEscapeInText, OnTo, Advance
  <2>3. CASE Char(2) = "N" /\ Char(3) = "lbrace"
    <3>1. Advance(cursor + 3) /\ named' = TRUE
      BY <1>3, <2>3 DEF LexFStringText
    <3>. QED  BY <1>1, <2>1, <2>3, <3>1, LocalNext, StateNext DEF FromEscapeInText, OnTo, Advance
  <2>4. CASE Char(2) \notin {"lbrace", "rbrace"} /\ ~(Char(2) = "N" /\ Char(3) = "lbrace")
    <3>1. Advance(AfterEscaped) /\ UNCHANGED named
      BY <1>3, <2>4 DEF LexFStringText
    <3>. QED  BY <1>1, <2>1, <2>4, <3>1, LocalNext, StateNext DEF FromEscapeInText, OnTo, Advance
  <2>. QED  BY <2>2, <2>3, <2>4
<1>4. CASE First = "rbrace" /\ named
  <2>1. Advance(cursor + 1) /\ named' = FALSE
    BY <1>4 DEF LexFStringText
  <2>. QED  BY <1>1, <1>2, <1>4, <2>1, LocalNext, StateNext DEF FromText, OnTo, Advance
<1>5. CASE First = "lbrace" \/ (First = "rbrace" /\ ~named)
  <2>1. Advance(cursor + 2) /\ UNCHANGED named
    BY <1>5 DEF LexFStringText
  <2>. QED  BY <1>1, <1>2, <1>5, <2>1, LocalNext, StateNext DEF FromText, OnTo, Advance
<1>6. CASE First \notin {"bs", "lbrace", "rbrace"}
  <2>1. Advance(cursor + 1) /\ UNCHANGED named
    BY <1>6 DEF LexFStringText
  <2>. QED  BY <1>1, <1>2, <1>6, <2>1, LocalNext, StateNext DEF FromText, OnTo, Advance
<1>. QED  BY <1>3, <1>4, <1>5, <1>6

(* A turn of lex_ipython_escape_command. *)
LEMMA LexEscapeCommandFunction == ASSUME LexEscapeCommand PROVE LexerState' = Following
<1>1. /\ pc = "escape" /\ Following = FromEscape
      /\ UNCHANGED <<nesting, indentations, pending, fstrings>>
  BY DEF LexEscapeCommand, Following
<1>2. CASE First \in {"nl", "cr", "nul"}
  <2>1. Token("IpyEscapeCommand", cursor) /\ state' = "Other"
    BY <1>2 DEF LexEscapeCommand
  <2>. QED  BY <1>1, <1>2, <2>1, LocalNext, StateNext DEF FromEscape, Gives, Token
<1>3. CASE First \notin {"nl", "cr", "nul"}
  <2>1. /\ Advance(IF First = "bs" /\ Char(2) \in {"nl", "cr"} THEN AfterEscaped ELSE cursor + 1)
        /\ UNCHANGED state
    BY <1>3 DEF LexEscapeCommand
  <2>. QED  BY <1>1, <1>3, <2>1, LocalNext, StateNext DEF FromEscape, OnTo, Advance
<1>. QED  BY <1>2, <1>3

(* Any first character of a token. *)
LEMMA LexCharFunction == ASSUME LexerTypeOK, LexChar PROVE LexerState' = Following
  BY LexNameFunction, LexFStringStartFunction, LexWordFunction, LexCommentFunction, LexEqualFunction,
     LexEscapeCharacterFunction, LexOpeningFunction, LexRparFunction, LexRbraceFunction, LexColonFunction,
     LexNewlineFunction, LexUnrecognizedFunction, LexStringStartFunction, ConsumeEndFunction DEF LexChar

(* The lexer is deterministic: a step is what the function says.           *)
LEMMA LexerIsFunction == ASSUME LexerTypeOK, LexStep PROVE LexerState' = Following /\ src' = src
<1>1. LexerState' = Following
  BY FStringFunction, DedentFunction, PlainFunction, EatIndentationFunction, SkipEmptyLineFunction,
     HandleIndentationFunction, SkipWhitespaceFunction, LexCharFunction, LexStringFunction,
     LexFStringMiddleFunction, LexFStringUnterminatedFunction, LexFStringTextFunction,
     LexEscapeCommandFunction DEF LexStep
<1>. QED  BY <1>1 DEF LexStep, NextFStringToken, NextDedent, NextPlain, EatIndentation, SkipEmptyLine,
     HandleIndentation, SkipWhitespace, LexChar, LexName, LexFStringStart, LexWord, LexComment, LexEqual,
     LexEscapeCharacter, LexOpening, LexRpar, LexRbrace, LexColon, LexNewline, LexUnrecognized, LexStringStart,
     ConsumeEnd, LexString, LexFStringMiddle, LexFStringUnterminated, LexFStringText, LexEscapeCommand
-----------------------------------------------------------------------------
(* The same function of a value: source text s, lexer state l.             *)
Lexing(s, l) ==
    INSTANCE LexerFunction WITH
        src <- s, pc <- l[1], cursor <- l[2], state <- l[3], nesting <- l[4], indentations <- l[5],
        pending <- l[6], fstrings <- l[7], indentation <- l[8], triple <- l[8], start <- l[8][1],
        named <- l[8][2], kind <- l[8], range <- <<0, 0>>, flags <- FALSE, errors <- <<>>

Step(s, l) == Lexing(s, l)!Following

(* On the state of the lexer, the operators of the instance are those of   *)
(* LexerFunction: the cursor,                                              *)
LEMMA LexingChars ==
    /\ \A n : Lexing(src, LexerState)!Char(n) = Char(n)
    /\ Lexing(src, LexerState)!First = First
    /\ \A o, c : Lexing(src, LexerState)!Eat(o, c) = Eat(o, c)
    /\ Lexing(src, LexerState)!IsEof = IsEof
    /\ \A S : Lexing(src, LexerState)!EndOfRun(S) = EndOfRun(S)
    /\ Lexing(src, LexerState)!AfterEscaped = AfterEscaped
  BY DEF Lexing!Char, Lexing!First, Lexing!Eat, Lexing!IsEof, Lexing!EndOfRun, Lexing!RunEnd, Lexing!AfterEscaped,
         Char, First, Eat, IsEof, EndOfRun, RunEnd, AfterEscaped, LexerState

(* the contexts of f-strings, *)
LEMMA LexingContext ==
    /\ Lexing(src, LexerState)!Context = Context
    /\ Lexing(src, LexerState)!PopFString = PopFString
    /\ \A c : Lexing(src, LexerState)!InExpression(c) = InExpression(c)
    /\ \A c : Lexing(src, LexerState)!InFormatSpec(c) = InFormatSpec(c)
    /\ \A c : Lexing(src, LexerState)!StartsFormatSpec(c) = StartsFormatSpec(c)
    /\ Lexing(src, LexerState)!AtFStringEnd = AtFStringEnd
    /\ Lexing(src, LexerState)!AfterSpec = AfterSpec
    /\ Lexing(src, LexerState)!InSpec = InSpec
    /\ Lexing(src, LexerState)!IsNewLogicalLine = IsNewLogicalLine
  BY LexingChars
     DEF Lexing!Context, Lexing!PopFString, Lexing!InExpression, Lexing!OpenParentheses, Lexing!InFormatSpec,
         Lexing!StartsFormatSpec, Lexing!AtFStringEnd, Lexing!AfterSpec, Lexing!InSpec, Lexing!IsNewLogicalLine,
         Context, PopFString, InExpression, OpenParentheses, InFormatSpec, StartsFormatSpec, AtFStringEnd, AfterSpec,
         InSpec, IsNewLogicalLine, LexerState

(* the results of a step, *)
LEMMA LexingResults ==
    /\ \A p, e, x : Lexing(src, LexerState)!OnTo(p, e, x) = OnTo(p, e, x)
    /\ \A k, e, s : Lexing(src, LexerState)!Gives(k, e, s) = Gives(k, e, s)
    /\ \A k, e, n, f : Lexing(src, LexerState)!GivesNested(k, e, n, f) = GivesNested(k, e, n, f)
    /\ \A p : Lexing(src, LexerState)!OnToLayout(p) = OnToLayout(p)
    /\ \A p, i, q, x : Lexing(src, LexerState)!AtLevel(p, i, q, x) = AtLevel(p, i, q, x)
  BY DEF Lexing!OnTo, Lexing!Gives, Lexing!GivesNested, Lexing!OnToLayout, Lexing!AtLevel, Lexing!Root,
         OnTo, Gives, GivesNested, OnToLayout, AtLevel, Root, LexerState

(* the levels of indentation, *)
LEMMA LexingLevels ==
    /\ Lexing(src, LexerState)!Root = Root
    /\ \A i : Lexing(src, LexerState)!AddSpace(i) = AddSpace(i)
    /\ \A i : Lexing(src, LexerState)!AddTab(i) = AddTab(i)
    /\ \A i, j : Lexing(src, LexerState)!TryCompare(i, j) = TryCompare(i, j)
    /\ \A s : Lexing(src, LexerState)!CurrentLevel(s) = CurrentLevel(s)
    /\ \A s : Lexing(src, LexerState)!Popped(s) = Popped(s)
    /\ \A s, i : Lexing(src, LexerState)!DedentOne(s, i) = DedentOne(s, i)
<1>1. Lexing(src, LexerState)!Root = Root
  BY DEF Lexing!Root, Root
<1>2. \A i : Lexing(src, LexerState)!AddSpace(i) = AddSpace(i)
  BY DEF Lexing!AddSpace, AddSpace
<1>3. \A i : Lexing(src, LexerState)!AddTab(i) = AddTab(i)
  BY DEF Lexing!AddTab, AddTab, Lexing!TabSize, TabSize
<1>4. \A m, n : Lexing(src, LexerState)!Compare(m, n) = Compare(m, n)
  BY DEF Lexing!Compare, Compare
<1>5. \A i, j : Lexing(src, LexerState)!TryCompare(i, j) = TryCompare(i, j)
  BY <1>4 DEF Lexing!TryCompare, TryCompare
<1>6. \A s : Lexing(src, LexerState)!CurrentLevel(s) = CurrentLevel(s)
  BY <1>1 DEF Lexing!CurrentLevel, CurrentLevel
<1>7. \A s : Lexing(src, LexerState)!Popped(s) = Popped(s)
  BY DEF Lexing!Popped, Popped
<1>8. \A s, i : Lexing(src, LexerState)!DedentOne(s, i) = DedentOne(s, i)
  BY <1>5, <1>6, <1>7 DEF Lexing!DedentOne, DedentOne
<1>. QED  BY <1>1, <1>2, <1>3, <1>5, <1>6, <1>7, <1>8

(* and the steps: at the call of next_token, *)
LEMMA LexingNext == Lexing(src, LexerState)!FromNext = FromNext
<1>1. Lexing(src, LexerState)!FromFString = FromFString
  BY LexingContext, LexingResults DEF Lexing!FromFString, FromFString, LexerState
<1>2. Lexing(src, LexerState)!FromPending = FromPending
  BY LexingLevels, LexingResults DEF Lexing!FromPending, FromPending, LexerState
<1>. QED  BY <1>1, <1>2, LexingContext, LexingResults DEF Lexing!FromNext, FromNext, LexerState

(* over a continued line, *)
LEMMA LexingContinuation == \A p, x : Lexing(src, LexerState)!OverContinuation(p, x) = OverContinuation(p, x)
  BY LexingChars, LexingResults DEF Lexing!OverContinuation, OverContinuation, LexerState

(* in the indentation, *)
LEMMA LexingIndent == pc = "indent" => Lexing(src, LexerState)!FromIndent = FromIndent
<1>. SUFFICES ASSUME pc = "indent" PROVE Lexing(src, LexerState)!FromIndent = FromIndent
  OBVIOUS
<1>1. Local = indentation
  BY DEF Local
<1>2. Lexing(src, LexerState)!FromIndentation = FromIndentation
  BY <1>1, LexingLevels, LexingResults DEF Lexing!FromIndentation, FromIndentation, LexerState
<1>. QED  BY <1>1, <1>2, LexingChars, LexingLevels, LexingResults, LexingContinuation
     DEF Lexing!FromIndent, FromIndent, LexerState

(* in white space, *)
LEMMA LexingSpace == Lexing(src, LexerState)!FromSpace = FromSpace
  BY LexingChars, LexingResults, LexingContinuation DEF Lexing!FromSpace, FromSpace, LexerState

(* at the first character of a token, *)
LEMMA LexingChar == Lexing(src, LexerState)!FromChar = FromChar
<1>1. Lexing(src, LexerState)!FromFOrN = FromFOrN
  BY LexingChars, LexingResults DEF Lexing!FromFOrN, FromFOrN, LexerState
<1>2. Lexing(src, LexerState)!FromEscapeCharacter = FromEscapeCharacter
  BY LexingChars, LexingContext, LexingResults DEF Lexing!FromEscapeCharacter, FromEscapeCharacter, LexerState
<1>3. Lexing(src, LexerState)!FromRbrace = FromRbrace
  BY LexingContext, LexingResults DEF Lexing!FromRbrace, FromRbrace, LexerState, Lexing!SaturatingDec, SaturatingDec
<1>4. Lexing(src, LexerState)!FromColon = FromColon
  BY LexingChars, LexingContext, LexingResults DEF Lexing!FromColon, FromColon, LexerState
<1>5. Lexing(src, LexerState)!FromNewline = FromNewline
  BY LexingChars, LexingContext, LexingResults DEF Lexing!FromNewline, FromNewline, LexerState
<1>6. Lexing(src, LexerState)!FromEof = FromEof
  BY LexingContext, LexingResults DEF Lexing!FromEof, FromEof, LexerState, Lexing!Popped, Popped
<1>7. Lexing(src, LexerState)!FromQuote = FromQuote
  BY LexingChars, LexingResults DEF Lexing!FromQuote, FromQuote, LexerState
<1>. QED  BY <1>1, <1>2, <1>3, <1>4, <1>5, <1>6, <1>7, LexingChars, LexingResults
         DEF Lexing!FromChar, FromChar, LexerState, Lexing!SaturatingDec, SaturatingDec, Lexing!Chars, Chars

(* in a string literal, *)
LEMMA LexingString == pc = "string" => Lexing(src, LexerState)!FromString = FromString
  BY LexingChars, LexingResults DEF Lexing!FromString, FromString, LexerState, Local

(* in the text of an f-string, *)
LEMMA LexingText == pc = "fstring" => Lexing(src, LexerState)!FromText = FromText
<1>. SUFFICES ASSUME pc = "fstring" PROVE Lexing(src, LexerState)!FromText = FromText
  OBVIOUS
<1>1. Local = <<start, named>>
  BY DEF Local
<1>2. Lexing(src, LexerState)!Unterminated = Unterminated
  BY LexingChars, LexingContext DEF Lexing!Unterminated, Unterminated
<1>3. Lexing(src, LexerState)!FStringBreak = FStringBreak
  BY <1>1, LexingChars, LexingContext DEF Lexing!FStringBreak, FStringBreak, LexerState
<1>4. Lexing(src, LexerState)!FromEscapeInText = FromEscapeInText
  BY <1>1, LexingChars, LexingResults DEF Lexing!FromEscapeInText, FromEscapeInText, LexerState
<1>. QED  BY <1>1, <1>2, <1>3, <1>4, LexingChars, LexingContext, LexingResults DEF Lexing!FromText, FromText, LexerState

(* in an escape command. *)
LEMMA LexingEscape == Lexing(src, LexerState)!FromEscape = FromEscape
  BY LexingChars, LexingResults DEF Lexing!FromEscape, FromEscape, LexerState

(* On the state of the lexer it is the step of the lexer. *)
LEMMA StepIsFollowing == Step(src, LexerState) = Following
  BY LexingNext, LexingIndent, LexingSpace, LexingChar, LexingString, LexingText, LexingEscape, LexingResults
     DEF Step, Lexing!Following, Following, LexerState
-----------------------------------------------------------------------------
(* State l is where a token other than trivia is returned. *)
Solids(l) == l[1] = "return" /\ l[8] \notin Trivia

(* A run of the lexer over source s of n steps from state l to state m, on *)
(* which no token but trivia is returned before the end.                   *)
Run(s, r, n, l, m) ==
    /\ n \in Nat
    /\ r[0] = l /\ r[n] = m
    /\ \A i \in 0..n - 1 : ~Solids(r[i]) /\ r[i + 1] = Step(s, r[i])

Leads(s, l, m) == \E n, r : Run(s, r, n, l, m)

Delivers(s, l, k, m) == Leads(s, l, m) /\ Solids(m) /\ m[8] = k

(* From state l the lexer delivers the tokens of `kinds`, none, one or two. *)
Foresees(s, l, kinds) ==
    Len(kinds) > 0 => \E m : /\ Delivers(s, l, kinds[1], m)
                             /\ Len(kinds) > 1 => \E m2 : Delivers(s, Step(s, m), kinds[2], m2)

(* A run of no steps. *)
LEMMA LeadsToItself == ASSUME NEW s, NEW l PROVE Leads(s, l, l)
<1>1. Run(s, [i \in {0} |-> l], 0, l, l)
  BY DEF Run
<1>. QED  BY <1>1 DEF Leads

(* A run goes on by a step from its end. *)
LEMMA LeadsOn == ASSUME NEW s, NEW l, NEW m, Leads(s, l, m), ~Solids(m) PROVE Leads(s, l, Step(s, m))
<1>1. PICK n, r : Run(s, r, n, l, m)
  BY DEF Leads
<1>. DEFINE q == [i \in 0..n + 1 |-> IF i <= n THEN r[i] ELSE Step(s, m)]
<1>2. n \in Nat
  BY <1>1 DEF Run
<1>3. q[0] = l /\ q[n + 1] = Step(s, m)
  BY <1>1, <1>2 DEF Run
<1>4. ASSUME NEW i \in 0..(n + 1) - 1 PROVE ~Solids(q[i]) /\ q[i + 1] = Step(s, q[i])
  <2>1. CASE i = n
    <3>1. q[i] = m /\ q[i + 1] = Step(s, m)
      BY <1>1, <1>2, <2>1 DEF Run
    <3>. QED  BY <3>1
  <2>2. CASE i # n
    <3>1. i \in 0..n - 1 /\ q[i] = r[i] /\ q[i + 1] = r[i + 1]
      BY <1>2, <2>2
    <3>. HIDE DEF q
    <3>. QED  BY <1>1, <3>1 DEF Run
  <2>. QED  BY <2>1, <2>2
<1>. HIDE DEF q
<1>5. Run(s, q, n + 1, l, Step(s, m))
  BY <1>2, <1>3, <1>4 DEF Run
<1>. QED  BY <1>5 DEF Leads

(* What a state leads to, its successor leads to. *)
LEMMA LeadsAfter ==
    ASSUME NEW s, NEW l, NEW m, Leads(s, l, m), l # m PROVE ~Solids(l) /\ Leads(s, Step(s, l), m)
<1>1. PICK n, r : Run(s, r, n, l, m)
  BY DEF Leads
<1>. DEFINE q == [i \in 0..n - 1 |-> r[i + 1]]
<1>2. n \in Nat /\ n # 0
  BY <1>1 DEF Run
<1>3. 0 \in 0..n - 1 /\ ~Solids(l) /\ r[0 + 1] = Step(s, l)
  BY <1>1, <1>2 DEF Run
<1>4. q[0] = Step(s, l) /\ q[n - 1] = m
  BY <1>1, <1>2, <1>3 DEF Run
<1>5. ASSUME NEW i \in 0..(n - 1) - 1 PROVE ~Solids(q[i]) /\ q[i + 1] = Step(s, q[i])
  <2>1. i + 1 \in 0..n - 1 /\ q[i] = r[i + 1] /\ q[i + 1] = r[(i + 1) + 1]
    BY <1>2
  <2>. HIDE DEF q
  <2>. QED  BY <1>1, <2>1 DEF Run
<1>. HIDE DEF q
<1>6. Run(s, q, n - 1, Step(s, l), m)
  BY <1>2, <1>4, <1>5 DEF Run
<1>. QED  BY <1>3, <1>6 DEF Leads

(* A step of the lexer that returns no such token keeps what it delivers.  *)
LEMMA DeliversAfter ==
    ASSUME NEW s, NEW l, NEW k, NEW m, Delivers(s, l, k, m), ~Solids(l) PROVE Delivers(s, Step(s, l), k, m)
  BY LeadsAfter DEF Delivers

(* At a returned token the run is over. *)
LEMMA DeliversNow ==
    ASSUME NEW s, NEW l, NEW k, NEW m, Delivers(s, l, k, m), Solids(l) PROVE m = l /\ l[8] = k
  BY LeadsAfter DEF Delivers

(* The same for the next two tokens. *)
LEMMA ForeseesAfter ==
    ASSUME NEW s, NEW l, NEW kinds, Foresees(s, l, kinds), ~Solids(l) PROVE Foresees(s, Step(s, l), kinds)
  BY DeliversAfter DEF Foresees

(* The first foreseen token is the returned one, and the others are still  *)
(* foreseen after it.                                                      *)
LEMMA ForeseesTail ==
    ASSUME NEW s, NEW l, NEW kinds \in Seq(Kinds), Len(kinds) \in {1, 2}, Foresees(s, l, kinds), Solids(l)
    PROVE  kinds[1] = l[8] /\ Foresees(s, Step(s, l), Tail(kinds))
<1>1. PICK m : /\ Delivers(s, l, kinds[1], m)
               /\ Len(kinds) > 1 => \E m2 : Delivers(s, Step(s, m), kinds[2], m2)
  BY DEF Foresees
<1>2. m = l /\ l[8] = kinds[1]
  BY <1>1, DeliversNow
<1>3. CASE Len(kinds) = 1
  <2>1. Len(Tail(kinds)) = 0
    BY <1>3
  <2>. QED  BY <1>2, <2>1 DEF Foresees
<1>4. CASE Len(kinds) = 2
  <2>1. Len(Tail(kinds)) = 1 /\ Tail(kinds)[1] = kinds[2]
    <3>1. kinds # <<>>
      BY <1>4
    <3>. QED  BY <1>4, <3>1, HeadTailProperties
  <2>2. \E m2 : Delivers(s, Step(s, l), kinds[2], m2)
    BY <1>1, <1>2, <1>4
  <2>. QED  BY <1>2, <2>1, <2>2 DEF Foresees
<1>. QED  BY <1>3, <1>4
-----------------------------------------------------------------------------
(* The lexer at the start of a token, at the values of a checkpoint.       *)
Begin(c) == <<"next", c.cursor, c.state, c.nesting, c.indentations, c.pending, c.fstrings, "unused">>

(* Where the next token is lexed from. *)
Ahead == IF pc = "idle" THEN Begin(LexerCheckpoint) ELSE LexerState

(* While the lexer looks ahead, it has run from the checkpoint to where it *)
(* is, past the tokens seen; afterwards, and while the tokens are bumped,  *)
(* it delivers what was seen.                                              *)
PeekInv ==
    /\ OrderInv
    /\ caller = "relex" => peeked = <<>>
    /\ saved = <<>> => Foresees(src, Ahead, peeked)
    /\ saved # <<>> =>
          IF peeked = <<>> THEN Leads(src, Begin(saved[1]), LexerState)
          ELSE /\ caller = "peek2" /\ Len(peeked) = 1
               /\ \E m : /\ Delivers(src, Begin(saved[1]), peeked[1], m)
                         /\ Leads(src, Step(src, m), LexerState)

(* What a checkpoint of the present state begins with. *)
LEMMA BeginState ==
    Begin(LexerCheckpoint) = <<"next", cursor, state, nesting, indentations, pending, fstrings, "unused">>
  BY DEF Begin, LexerCheckpoint

(* The state of the lexer depends on these variables only. *)
LEMMA StateKept ==
    ASSUME UNCHANGED <<src, pc, cursor, state, nesting, indentations, pending, fstrings, kind, localVars>>
    PROVE  LexerState' = LexerState
  BY DEF LexerState, Local, localVars

(* Every state foresees no token at all. *)
LEMMA NothingForeseen == ASSUME NEW s, NEW l PROVE Foresees(s, l, <<>>)
  BY DEF Foresees

(* Nothing has been looked at when the lexer starts. *)
LEMMA InitPeek == Init => PeekInv
<1>. SUFFICES ASSUME Init PROVE PeekInv
  OBVIOUS
<1>. QED  BY InitOrder, NothingForeseen DEF Init, PeekInv

(* A step of the lexer, while it looks ahead or while what it saw is       *)
(* bumped.                                                                 *)
LEMMA PeekLex ==
    ASSUME PeekInv, Lex, OrderInv'
    PROVE  PeekInv'
<1>1. LexerTypeOK /\ LexStep /\ UNCHANGED sourceVars
  BY DEF PeekInv, OrderInv, TypeInv, TypeOK, Lex
<1>2. pc \notin {"idle", "return"} /\ pc' # "idle"
  <2>1. pc \notin {"idle", "return"} /\ Moves
    BY <1>1, LexErrors, LexMoves DEF PeekInv, OrderInv
  <2>. QED  BY <2>1 DEF Moves, Emits, Continues
<1>3. LexerState' = Step(src, LexerState) /\ src' = src
  BY <1>1, LexerIsFunction, StepIsFollowing
<1>4. ~Solids(LexerState)
  BY <1>2 DEF Solids, LexerState
<1>5. UNCHANGED <<saved, peeked, caller>>
  BY <1>1 DEF sourceVars
<1>6. ASSUME saved = <<>> PROVE Foresees(src, Ahead, peeked)'
  <2>1. Ahead = LexerState /\ Ahead' = LexerState'
    BY <1>2 DEF Ahead
  <2>2. Foresees(src, LexerState, peeked)
    BY <1>6, <2>1 DEF PeekInv
  <2>. QED  BY <1>3, <1>4, <1>5, <2>1, <2>2, ForeseesAfter
<1>7. ASSUME saved # <<>>, peeked = <<>> PROVE Leads(src, Begin(saved[1]), LexerState)'
  <2>1. Leads(src, Begin(saved[1]), LexerState)
    BY <1>7 DEF PeekInv
  <2>2. Begin(saved[1])' = Begin(saved[1])
    BY <1>5
  <2>. QED  BY <1>3, <1>4, <2>1, <2>2, LeadsOn
<1>8. ASSUME saved # <<>>, peeked # <<>>
      PROVE  /\ caller' = "peek2" /\ Len(peeked') = 1
             /\ (\E m : /\ Delivers(src, Begin(saved[1]), peeked[1], m)
                        /\ Leads(src, Step(src, m), LexerState))'
  <2>1. /\ caller = "peek2" /\ Len(peeked) = 1
        /\ \E m : /\ Delivers(src, Begin(saved[1]), peeked[1], m)
                  /\ Leads(src, Step(src, m), LexerState)
    BY <1>8 DEF PeekInv
  <2>2. PICK m : /\ Delivers(src, Begin(saved[1]), peeked[1], m)
                 /\ Leads(src, Step(src, m), LexerState)
    BY <2>1
  <2>3. Leads(src, Step(src, m), LexerState')
    BY <1>3, <1>4, <2>2, LeadsOn
  <2>. QED  BY <1>3, <1>5, <2>1, <2>2, <2>3
<1>. QED  BY <1>5, <1>6, <1>7, <1>8 DEF PeekInv

(* After a returned token the lexer begins the next one where it is. *)
LEMMA ReturnStep ==
    ASSUME pc = "return" PROVE Step(src, LexerState) = Begin(LexerCheckpoint)
  BY StepIsFollowing, BeginState DEF Following, OnTo

(* A run stops at a returned token unless it is trivia. *)
LEMMA ReturnsTrivia ==
    ASSUME pc = "return" PROVE Solids(LexerState) <=> kind \notin Trivia
  BY DEF Solids, LexerState, Local

(* The call for another token is the next step of the run, *)
LEMMA NextState ==
    ASSUME pc = "return", pc' = "next", UNCHANGED <<src, cursor, state, nesting, indentations, pending, fstrings>>
    PROVE  LexerState' = Step(src, LexerState)
  BY ReturnStep, BeginState DEF LexerState, Local

(* and so is the parser's next call. *)
LEMMA IdleState ==
    ASSUME pc = "return", pc' = "idle", UNCHANGED <<src, cursor, state, nesting, indentations, pending, fstrings>>
    PROVE  Ahead' = Step(src, LexerState)
  BY ReturnStep, BeginState DEF Ahead, Begin, LexerCheckpoint

(* Lengths of what is peeked. *)
LEMMA OneOrTwo ==
    ASSUME NEW S, NEW s \in Seq(S), s # <<>>, Len(s) <= 2 PROVE Len(s) \in {1, 2}
<1>1. Len(s) # 0
  BY EmptySeq
<1>2. Len(s) \in Nat
  BY LenProperties
<1>3. \A n \in Nat : n # 0 /\ n <= 2 => n \in {1, 2}
  OBVIOUS
<1>. QED  BY <1>1, <1>2, <1>3

(* The second token is appended to the first. *)
LEMMA OneMore ==
    ASSUME NEW S, NEW s \in Seq(S), NEW x \in S, Len(s) = 1
    PROVE  Len(Append(s, x)) = 2 /\ Append(s, x)[1] = s[1] /\ Append(s, x)[2] = x
<1>1. ASSUME NEW e \in S
      PROVE  /\ Len(Append(s, e)) = Len(s) + 1
             /\ \A i \in 1..Len(s) : Append(s, e)[i] = s[i]
             /\ Append(s, e)[Len(s) + 1] = e
  BY AppendProperties, ZenonT(60)
<1>2. 1 \in 1..Len(s) /\ Len(s) + 1 = 2
  OBVIOUS
<1>. QED  BY <1>1, <1>2

(* The types of what is peeked. *)
LEMMA PeekedTypes == ASSUME PeekInv PROVE peeked \in Seq(Kinds) /\ Len(peeked) <= 2
  BY DEF PeekInv, OrderInv, TypeInv, TypeOK

(* A bump delivers the first foreseen token, past trivia. *)
LEMMA PeekReturnBump ==
    ASSUME PeekInv, ReturnBump, OrderInv'
    PROVE  PeekInv' /\ (pc' = "idle" /\ peeked # <<>> => kind = Head(peeked))
<1>1. /\ pc = "return" /\ caller = "bump" /\ saved = <<>>
      /\ UNCHANGED <<src, cursor, state, nesting, indentations, pending, fstrings, saved, caller>>
  BY DEF ReturnBump, PeekInv, OrderInv, checkpointVars
<1>2. Foresees(src, LexerState, peeked)
  BY <1>1 DEF PeekInv, Ahead
<1>3. CASE kind \in Trivia
  <2>1. pc' = "next" /\ peeked' = peeked
    BY <1>3 DEF ReturnBump
  <2>2. Ahead' = Step(src, LexerState)
    BY <1>1, <2>1, NextState DEF Ahead
  <2>3. Foresees(src, Ahead, peeked)'
    BY <1>1, <1>2, <1>3, <2>1, <2>2, ReturnsTrivia, ForeseesAfter
  <2>. QED  BY <1>1, <2>1, <2>3 DEF PeekInv
<1>4. CASE kind \notin Trivia
  <2>1. pc' = "idle" /\ peeked' = (IF peeked = <<>> THEN <<>> ELSE Tail(peeked))
    BY <1>4 DEF ReturnBump
  <2>2. Ahead' = Step(src, LexerState)
    BY <1>1, <2>1, IdleState
  <2>3. Solids(LexerState) /\ LexerState[8] = kind
    BY <1>1, <1>4, ReturnsTrivia DEF LexerState, Local
  <2>4. CASE peeked = <<>>
    BY <1>1, <2>1, <2>4, NothingForeseen DEF PeekInv
  <2>5. CASE peeked # <<>>
    <3>1. peeked \in Seq(Kinds) /\ Len(peeked) \in {1, 2}
      BY <2>5, PeekedTypes, OneOrTwo
    <3>2. peeked[1] = kind /\ Foresees(src, Step(src, LexerState), Tail(peeked))
      BY <1>2, <2>3, <3>1, ForeseesTail
    <3>3. Foresees(src, Ahead, peeked)'
      BY <1>1, <2>1, <2>2, <2>5, <3>2
    <3>4. Head(peeked) = kind
      BY <3>1, <3>2
    <3>. QED  BY <1>1, <3>3, <3>4 DEF PeekInv
  <2>. QED  BY <2>4, <2>5
<1>. QED  BY <1>3, <1>4

(* A look-ahead goes on to the next token, or remembers what it saw and    *)
(* puts the lexer back.                                                    *)
LEMMA PeekReturnPeek ==
    ASSUME PeekInv, ReturnPeek, OrderInv'
    PROVE  PeekInv'
<1>. DEFINE seen == IF kind \in Trivia THEN peeked ELSE Append(peeked, kind)
           goesOn == kind \in Trivia \/ (caller = "peek2" /\ Len(seen) = 1)
<1>1. /\ pc = "return" /\ caller \in {"peek", "peek2"} /\ saved # <<>> /\ src' = src /\ caller' = caller
      /\ peeked' = seen
  BY DEF ReturnPeek, PeekInv, OrderInv
<1>2. peeked \in Seq(Kinds) /\ kind \in Kinds
  BY DEF PeekInv, OrderInv, TypeInv, TypeOK, LexerTypeOK
<1>3. Solids(LexerState) <=> kind \notin Trivia
  BY <1>1, ReturnsTrivia
<1>4. LexerState[8] = kind
  BY <1>1 DEF LexerState, Local
<1>5. CASE goesOn
  <2>1. pc' = "next" /\ UNCHANGED <<cursor, state, nesting, indentations, pending, fstrings, saved>>
    BY <1>5 DEF ReturnPeek, checkpointVars
  <2>2. LexerState' = Step(src, LexerState)
    BY <1>1, <2>1, NextState
  <2>3. Begin(saved[1])' = Begin(saved[1])
    BY <2>1
  <2>4. CASE kind \in Trivia /\ peeked = <<>>
    <3>1. Leads(src, Begin(saved[1]), LexerState)
      BY <1>1, <2>4 DEF PeekInv
    <3>2. Leads(src, Begin(saved[1]), LexerState')
      BY <1>3, <2>2, <2>4, <3>1, LeadsOn
    <3>. QED  BY <1>1, <2>1, <2>3, <2>4, <3>2 DEF PeekInv
  <2>5. CASE kind \in Trivia /\ peeked # <<>>
    <3>1. /\ caller = "peek2" /\ Len(peeked) = 1
          /\ \E m : /\ Delivers(src, Begin(saved[1]), peeked[1], m)
                    /\ Leads(src, Step(src, m), LexerState)
      BY <1>1, <2>5 DEF PeekInv
    <3>2. PICK m : /\ Delivers(src, Begin(saved[1]), peeked[1], m)
                   /\ Leads(src, Step(src, m), LexerState)
      BY <3>1
    <3>3. Leads(src, Step(src, m), LexerState')
      BY <1>3, <2>2, <2>5, <3>2, LeadsOn
    <3>. QED  BY <1>1, <2>1, <2>3, <2>5, <3>1, <3>2, <3>3 DEF PeekInv
  <2>6. CASE kind \notin Trivia
    <3>1. caller = "peek2" /\ Len(Append(peeked, kind)) = 1
      BY <1>5, <2>6
    <3>2. peeked = <<>> /\ peeked'[1] = kind /\ Len(peeked') = 1
      BY <1>1, <1>2, <2>6, <3>1
    <3>3. Delivers(src, Begin(saved[1]), kind, LexerState)
      BY <1>1, <1>3, <1>4, <2>6, <3>2 DEF PeekInv, Delivers
    <3>4. Leads(src, Step(src, LexerState), LexerState')
      BY <2>2, LeadsToItself
    <3>. QED  BY <1>1, <2>1, <2>3, <3>1, <3>2, <3>3, <3>4 DEF PeekInv
  <2>. QED  BY <2>4, <2>5, <2>6
<1>6. CASE ~goesOn
  <2>1. pc' = "idle" /\ RestoreLexer(saved[1]) /\ saved' = <<>> /\ kind \notin Trivia
    BY <1>6 DEF ReturnPeek
  <2>2. Ahead' = Begin(saved[1])
    BY <2>1 DEF Ahead, Begin, LexerCheckpoint, RestoreLexer
  <2>3. peeked' = Append(peeked, kind)
    BY <1>1, <2>1
  <2>4. CASE peeked = <<>>
    <3>1. Len(peeked') = 1 /\ peeked'[1] = kind
      BY <1>2, <2>3, <2>4
    <3>2. Delivers(src, Begin(saved[1]), kind, LexerState)
      BY <1>1, <1>3, <1>4, <2>1, <2>4 DEF PeekInv, Delivers
    <3>3. Foresees(src, Ahead, peeked)'
      BY <1>1, <2>2, <3>1, <3>2 DEF Foresees
    <3>. QED  BY <1>1, <2>1, <3>3 DEF PeekInv
  <2>5. CASE peeked # <<>>
    <3>1. /\ caller = "peek2" /\ Len(peeked) = 1
          /\ \E m : /\ Delivers(src, Begin(saved[1]), peeked[1], m)
                    /\ Leads(src, Step(src, m), LexerState)
      BY <1>1, <2>5 DEF PeekInv
    <3>2. PICK m : /\ Delivers(src, Begin(saved[1]), peeked[1], m)
                   /\ Leads(src, Step(src, m), LexerState)
      BY <3>1
    <3>3. Len(peeked') = 2 /\ peeked'[1] = peeked[1] /\ peeked'[2] = kind
      BY <1>2, <2>3, <3>1, OneMore
    <3>4. Delivers(src, Step(src, m), kind, LexerState)
      BY <1>3, <1>4, <2>1, <3>2 DEF Delivers
    <3>5. Foresees(src, Ahead, peeked)'
      BY <1>1, <2>2, <3>2, <3>3, <3>4 DEF Foresees
    <3>. QED  BY <1>1, <2>1, <3>5 DEF PeekInv
  <2>. QED  BY <2>4, <2>5
<1>. QED  BY <1>5, <1>6

(* The parser's calls. *)
LEMMA PeekCalls ==
    ASSUME PeekInv, ReturnReLex \/ Bump \/ Peek \/ Checkpoint \/ Rewind \/ ReLex, OrderInv'
    PROVE  PeekInv'
<1>1. CASE ReturnReLex \/ Rewind \/ ReLex
  <2>1. saved' = <<>> /\ peeked' = <<>>
    BY <1>1 DEF PeekInv, OrderInv, ReturnReLex, Rewind, ReLex
  <2>. QED  BY <2>1, NothingForeseen DEF PeekInv
<1>2. CASE Bump
  <2>1. /\ pc = "idle" /\ pc' = "next" /\ saved = <<>> /\ caller' = "bump"
        /\ UNCHANGED <<src, cursor, state, nesting, indentations, pending, fstrings, saved, peeked>>
    BY <1>2 DEF Bump, PeekInv, OrderInv, checkpointVars
  <2>2. Ahead' = Ahead
    BY <2>1, BeginState DEF Ahead, LexerState, Local
  <2>. QED  BY <2>1, <2>2 DEF PeekInv
<1>3. CASE Peek
  <2>1. /\ pc' = "next" /\ peeked' = <<>> /\ saved' = <<LexerCheckpoint>> /\ caller' # "relex" /\ src' = src
        /\ UNCHANGED <<cursor, state, nesting, indentations, pending, fstrings>>
    BY <1>3 DEF Peek, checkpointVars
  <2>2. LexerState' = Begin(saved'[1])
    BY <2>1, BeginState DEF LexerState, Local
  <2>. QED  BY <2>1, <2>2, LeadsToItself DEF PeekInv
<1>4. CASE Checkpoint
  <2>1. /\ pc = "idle" /\ saved = <<>> /\ UNCHANGED lexerVars /\ UNCHANGED <<saved, peeked, caller>>
    BY <1>4 DEF Checkpoint, PeekInv, OrderInv
  <2>2. Ahead' = Ahead /\ src' = src
    BY <2>1 DEF Ahead, Begin, LexerCheckpoint, lexerVars, checkpointVars
  <2>. QED  BY <2>1, <2>2 DEF PeekInv
<1>. QED  BY <1>1, <1>2, <1>3, <1>4

(* A step of nothing. *)
LEMMA PeekStutters == ASSUME PeekInv, UNCHANGED vars, OrderInv' PROVE PeekInv'
<1>1. LexerState' = LexerState /\ Begin(LexerCheckpoint)' = Begin(LexerCheckpoint)
  BY BeginState, StateKept DEF vars, lexerVars, checkpointVars, LexerCheckpoint
<1>2. Ahead' = Ahead /\ UNCHANGED <<src, saved, peeked, caller>>
  BY <1>1 DEF Ahead, vars, lexerVars, sourceVars
<1>. QED  BY <1>1, <1>2 DEF PeekInv

(* Every step keeps it. *)
LEMMA NextPeek == PeekInv /\ [Next]_vars => PeekInv'
<1>. SUFFICES ASSUME PeekInv, [Next]_vars PROVE PeekInv'
  OBVIOUS
<1>1. OrderInv'
  BY NextOrder DEF PeekInv
<1>. QED  BY <1>1, PeekLex, PeekReturnBump, PeekReturnPeek, PeekCalls, PeekStutters DEF Next

(* A look-ahead says what the next bumps then deliver: the lexer, put back *)
(* to the checkpoint, finds the same one or two tokens again, with every   *)
(* kind of trivia, blocks, f-strings and brackets between them, whatever   *)
(* the source and whichever calls came before.                             *)
THEOREM PeeksAreHonest == Spec => PeekIsHonest
<1>1. PeekInv /\ [Next]_vars =>
        [(pc = "return" /\ pc' = "idle" /\ caller = "bump" /\ peeked # <<>>) => kind = Head(peeked)]_vars
  <2>. SUFFICES ASSUME PeekInv, [Next]_vars, pc = "return", pc' = "idle", caller = "bump", peeked # <<>>
               PROVE  kind = Head(peeked)
    OBVIOUS
  <2>1. ReturnBump
    BY LexErrors DEF Next, Lex, ReturnPeek, ReturnReLex, Bump, Peek, Checkpoint, Rewind, ReLex, Finished, vars,
       lexerVars
  <2>2. OrderInv'
    BY NextOrder DEF PeekInv
  <2>. QED  BY <2>1, <2>2, PeekReturnBump
<1>. QED  BY <1>1, InitPeek, NextPeek, PTL DEF Spec, PeekIsHonest
=============================================================================
