----------------------------- MODULE TokenSource -----------------------------
(***************************************************************************)
(* crates/python_parser/src/token_source.rs: the token stream between the  *)
(* lexer and the parser, and the part of the parser's state that moves     *)
(* with it (parser/mod.rs: do_bump, checkpoint, rewind).                   *)
(*                                                                         *)
(* The parser itself is the environment: between two calls it may bump,    *)
(* look ahead, checkpoint and rewind, or, when it gives up on a            *)
(* parenthesised list, ask for the current token to be lexed again in the  *)
(* context of a logical line.  `lists` is the stack of brackets whose      *)
(* lists the parser is inside of; unparenthesised lists are left out.      *)
(***************************************************************************)
EXTENDS Lexer, FiniteSets

CONSTANTS
    Calls,      \* which of "peek", "rewind" and "relex" the parser makes
    ReLexAt     \* the kinds of token at which the parser leaves a list

ASSUME CallsAssumption == Calls \subseteq {"peek", "rewind", "relex"}
ASSUME ReLexAtAssumption ==
    ReLexAt \subseteq Kinds \ {"Unknown", "Indent", "NonLogicalNewline", "EqEqual", "ColonEqual", "EndOfFile"}

VARIABLES
    tokens,         \* all tokens bumped so far, trivia included
    prevTokenEnd,   \* Parser::prev_token_end
    caller,         \* which call of the token source is running, or ran last
    saved,          \* the checkpoint of a peek, a sequence of at most one
    lists,          \* the parenthesised lists the parser is inside of
    peeked,         \* what the last look-ahead said about the next tokens
    mark,           \* the parser's checkpoint, a sequence of at most one
    bumped,         \* the parser has bumped since the checkpoint
    relexed         \* history: what a re-lexing has just moved the lexer back into

sourceVars == <<tokens, prevTokenEnd, caller, saved, lists, peeked, mark, bumped, relexed>>
vars == <<lexerVars, sourceVars>>

Trivia == {"Comment", "NonLogicalNewline"}
Opening == {"Lpar", "Lbrace"}
Closing == {"Rpar", "Rbrace"}
Closer == [o \in Opening |-> IF o = "Lpar" THEN "Rpar" ELSE "Rbrace"]

TokenRecord == [kind : Kinds, start : Offsets, end : Offsets]

(* "line" or "list" when the parser has just given up a list and the lexer *)
(* has moved back, until the next token; "bracket", for good, once that    *)
(* happened at an opening bracket, which stays counted, and "fstring" once *)
(* a list was given up while the lexer was inside an f-string.             *)
ReLexed == {"settled", "line", "list", "bracket", "fstring"}
SettledReLexed == IF relexed \in {"line", "list"} THEN "settled" ELSE relexed

CurrentToken == [kind |-> kind, start |-> range[1], end |-> range[2]]

(* Vec::truncate *)
Truncate(s, n) == IF n < Len(s) THEN SubSeq(s, 1, n) ELSE s

LexerCheckpoint ==
    [kind |-> kind, range |-> range, flags |-> flags, cursor |-> cursor, state |-> state,
     nesting |-> nesting, indentations |-> indentations, pending |-> pending,
     fstrings |-> fstrings, errors |-> Len(errors)]

(* Mutant: the indentation still to be dedented to is not put back. *)
RestoreLexerNotPending(c) ==
    /\ kind' = c.kind /\ range' = c.range /\ flags' = c.flags
    /\ cursor' = c.cursor /\ state' = c.state /\ nesting' = c.nesting
    /\ indentations' = c.indentations /\ pending' = pending /\ fstrings' = c.fstrings
    /\ errors' = Truncate(errors, c.errors)

(* Mutant: the blocks opened while looking ahead stay open. *)
RestoreLexerNotIndentations(c) ==
    /\ kind' = c.kind /\ range' = c.range /\ flags' = c.flags
    /\ cursor' = c.cursor /\ state' = c.state /\ nesting' = c.nesting
    /\ indentations' = indentations /\ pending' = c.pending /\ fstrings' = c.fstrings
    /\ errors' = Truncate(errors, c.errors)

(* Lexer::rewind *)
RestoreLexer(c) ==
    /\ kind' = c.kind /\ range' = c.range /\ flags' = c.flags
    /\ cursor' = c.cursor /\ state' = c.state /\ nesting' = c.nesting
    /\ indentations' = c.indentations /\ pending' = c.pending /\ fstrings' = c.fstrings
    /\ errors' = Truncate(errors, c.errors)

Init ==
    /\ LexerInit
    /\ tokens = <<>>
    /\ prevTokenEnd = 0
    /\ caller = "bump"
    /\ saved = <<>>
    /\ lists = <<>>
    /\ peeked = <<>>
    /\ mark = <<>>
    /\ bumped = FALSE
    /\ relexed = "settled"
-----------------------------------------------------------------------------
(* A step of the lexer on behalf of the running call. *)
Lex ==
    /\ LexStep
    /\ UNCHANGED sourceVars

(* do_bump collects trivia and stops at the first other token. *)
ReturnBump ==
    /\ pc = "return"
    /\ caller = "bump"
    /\ IF kind \in Trivia
       THEN pc' = "next" /\ tokens' = Append(tokens, CurrentToken) /\ UNCHANGED peeked
       ELSE pc' = "idle" /\ peeked' = (IF peeked = <<>> THEN <<>> ELSE Tail(peeked)) /\ UNCHANGED tokens
    /\ UNCHANGED <<src, checkpointVars, errors, localVars, prevTokenEnd, caller, saved, lists, mark, bumped, relexed>>

(* next_non_trivia_token, once for `peek` and twice for `peek2`; then the  *)
(* lexer is rewound.                                                       *)
ReturnPeek ==
    /\ pc = "return"
    /\ caller \in {"peek", "peek2"}
    /\ peeked' = IF kind \in Trivia THEN peeked ELSE Append(peeked, kind)
    /\ IF kind \in Trivia \/ (caller = "peek2" /\ Len(peeked') = 1)
       THEN pc' = "next" /\ UNCHANGED <<checkpointVars, errors, saved>>
       ELSE pc' = "idle" /\ RestoreLexer(saved[1]) /\ saved' = <<>>
    /\ UNCHANGED <<src, localVars, tokens, prevTokenEnd, caller, lists, mark, bumped, relexed>>

(* Mutant: the trivia after the newline stay in the token vector. *)
ReturnReLexKeepsTokens ==
    /\ pc = "return"
    /\ caller = "relex"
    /\ pc' = "idle"
    /\ UNCHANGED <<src, checkpointVars, errors, localVars, sourceVars>>

(* The tail of TokenSource::re_lex_logical_token: the tokens from the      *)
(* re-lexed one on are taken back.                                         *)
ReturnReLex ==
    /\ pc = "return"
    /\ caller = "relex"
    /\ pc' = "idle"
    /\ \E n \in 0..Len(tokens) :
          /\ n > 0 => tokens[n].start < range[1]
          /\ \A i \in n + 1..Len(tokens) : tokens[i].start >= range[1]
          /\ tokens' = SubSeq(tokens, 1, n)
    /\ UNCHANGED <<src, checkpointVars, errors, localVars, prevTokenEnd, caller, saved, lists, peeked, mark, bumped, relexed>>

-----------------------------------------------------------------------------
(* The calls of the parser, made when no other call is running. *)

(* The current token closes a list around the innermost one. *)
ClosesOuter == \E i \in 1..Len(lists) : kind = Closer[lists[i]]

ClosesInner == lists # <<>> /\ kind = Closer[lists[Len(lists)]]

(* Parser::do_bump and TokenSource::bump.  The closing bracket of an outer *)
(* list is never bumped from inside an inner one.                          *)
Bump ==
    /\ pc = "idle"
    /\ "relex" \in Calls => (ClosesOuter => ClosesInner)
    /\ ~(tokens # <<>> /\ tokens[Len(tokens)].kind = "EndOfFile")
    /\ tokens' = Append(tokens, CurrentToken)
    /\ prevTokenEnd' = IF kind \in {"Dedent", "Newline"} THEN prevTokenEnd ELSE range[2]
    /\ lists' = CASE kind \in Opening -> Append(lists, kind)
                  [] ClosesInner -> SubSeq(lists, 1, Len(lists) - 1)
                  [] OTHER -> lists
    /\ pc' = "next"
    /\ caller' = "bump"
    /\ bumped' = TRUE
    /\ relexed' = SettledReLexed
    /\ UNCHANGED <<src, checkpointVars, errors, localVars, saved, peeked, mark>>

(* peek and peek2; a second look at the same tokens would repeat the first. *)
Peek ==
    /\ "peek" \in Calls
    /\ pc = "idle"
    /\ kind # "EndOfFile"
    /\ peeked = <<>>
    /\ \E c \in {"peek", "peek2"} : caller' = c
    /\ saved' = <<LexerCheckpoint>>
    /\ pc' = "next"
    /\ UNCHANGED <<src, checkpointVars, errors, localVars, tokens, prevTokenEnd, lists, peeked, mark, bumped, relexed>>

Speculating == mark # <<>> /\ ~mark[1].rewound

(* Parser::checkpoint, taken at the `match` keyword and at the bracket     *)
(* after `with`.  Bound: one per behaviour.  `history` remembers the       *)
(* tokens and errors at the checkpoint; the code keeps their number.       *)
Checkpoint ==
    /\ "rewind" \in Calls
    /\ pc = "idle"
    /\ kind \in {"Lpar", "Word"} /\ lists = <<>>
    /\ mark = <<>>
    /\ mark' = <<[lexer |-> LexerCheckpoint, tokens |-> Len(tokens), prevTokenEnd |-> prevTokenEnd,
                  lists |-> lists, rewound |-> FALSE, history |-> <<tokens, errors>>]>>
    /\ bumped' = FALSE
    /\ UNCHANGED <<lexerVars, tokens, prevTokenEnd, caller, saved, lists, peeked, relexed>>

(* Parser::rewind *)
Rewind ==
    /\ pc = "idle"
    /\ Speculating /\ bumped
    /\ RestoreLexer(mark[1].lexer)
    /\ tokens' = Truncate(tokens, mark[1].tokens)
    /\ prevTokenEnd' = mark[1].prevTokenEnd
    /\ lists' = mark[1].lists
    /\ mark' = [mark EXCEPT ![1].rewound = TRUE]
    /\ bumped' = FALSE
    /\ peeked' = <<>>
    /\ relexed' = SettledReLexed
    /\ UNCHANGED <<src, pc, localVars, caller, saved>>

(* Mutant: the search for the newline does not stop at other tokens. *)
TrailingTriviaAnywhere == 1..Len(tokens)

(* The trivia before the current token, and the newlines among them. *)
TrailingTrivia ==
    {i \in 1..Len(tokens) : \A j \in i..Len(tokens) : tokens[j].kind \in Trivia}

NonLogicalNewlines == {i \in TrailingTrivia : tokens[i].kind = "NonLogicalNewline"}

(* The lexer moves back to the first of them. *)
ToNewline ==
    \E i \in NonLogicalNewlines :
        /\ \A j \in NonLogicalNewlines : i <= j
        /\ cursor' = tokens[i].start

(* Mutant: the closing bracket is not put back. *)
ReLexMovesOut ==
    /\ nesting > 0
    /\ ~flags
    /\ NonLogicalNewlines # {}
    /\ nesting' = nesting - 1
    /\ ToNewline
    /\ state' = "Other"
    /\ pc' = "next"

(* Lexer::re_lex_logical_token moves the lexer back only outside a         *)
(* triple-quoted f-string and over a non-logical newline; a closing        *)
(* bracket that was already counted will be lexed again.                   *)
ReLexMoves ==
    /\ nesting > 0
    /\ ~flags
    /\ NonLogicalNewlines # {}
    /\ nesting' = IF kind \in Closing THEN nesting ELSE nesting - 1
    /\ ToNewline
    /\ state' = "Other"
    /\ pc' = "next"

ReLexStays ==
    /\ nesting = 0 \/ flags \/ NonLogicalNewlines = {}
    /\ nesting' = SaturatingDec(nesting)
    /\ UNCHANGED <<cursor, state, pc>>

(* Mutant: the token is re-lexed, but the parser stays in its list. *)
ReLexWithoutLeaving ==
    /\ "relex" \in Calls
    /\ pc = "idle"
    /\ lists # <<>>
    /\ kind \in ReLexAt /\ ~ClosesInner
    /\ nesting > 0 /\ ~flags /\ NonLogicalNewlines # {}
    /\ ToNewline
    /\ state' = "Other"
    /\ pc' = "next"
    /\ caller' = "relex"
    /\ peeked' = <<>>
    /\ UNCHANGED <<src, kind, range, flags, nesting, indentations, pending, fstrings, errors, localVars,
                   tokens, prevTokenEnd, saved, lists, mark, bumped, relexed>>

(* What the lexer is moved back into: a list whose closing bracket comes   *)
(* next, or a line of an unclosed list.                                    *)
ReLexTarget ==
    IF relexed = "bracket" \/ kind \in Opening THEN "bracket"
    ELSE IF kind \in Closing THEN "list" ELSE "line"

InFString == relexed = "fstring" \/ fstrings # <<>>

(* parse_list and parse_comma_separated_list leave a list at a token of an *)
(* enclosing one.  The parser bumps a token after every checkpoint before  *)
(* it parses a list.                                                       *)
ReLex ==
    /\ "relex" \in Calls
    /\ pc = "idle"
    /\ lists # <<>>
    /\ kind \in ReLexAt /\ ~ClosesInner
    /\ kind \in Closing => ClosesOuter
    /\ Speculating => bumped
    /\ lists' = SubSeq(lists, 1, Len(lists) - 1)
    /\ \/ /\ ReLexMoves
          /\ relexed' = IF InFString THEN "fstring" ELSE ReLexTarget
       \/ /\ ReLexStays
          /\ relexed' = IF InFString THEN "fstring" ELSE SettledReLexed
    /\ caller' = "relex"
    /\ peeked' = <<>>
    /\ UNCHANGED <<src, kind, range, flags, indentations, pending, fstrings, errors, localVars,
                   tokens, prevTokenEnd, saved, mark, bumped>>

(* TokenSource::finish, after the parser has bumped the EndOfFile token. *)
Finished ==
    /\ pc = "idle"
    /\ tokens # <<>> /\ tokens[Len(tokens)].kind = "EndOfFile"

Next ==
    \/ Lex
    \/ ReturnBump \/ ReturnPeek \/ ReturnReLex
    \/ Bump \/ Peek \/ Checkpoint \/ Rewind \/ ReLex
    \/ Finished /\ UNCHANGED vars

Spec == Init /\ [][Next]_vars

(* The parser runs to the end: its loops assert that every iteration bumps *)
(* a token.                                                                *)
FairSpec == Spec /\ WF_vars(Next)
-----------------------------------------------------------------------------
CheckpointRecord ==
    [kind : Kinds, range : Offsets \X Offsets, flags : BOOLEAN, cursor : Offsets, state : States,
     nesting : Nat, indentations : Seq(IndentationLevel), pending : IndentationLevel \cup {NoPending},
     fstrings : Seq(FStringContext), errors : Nat]

MarkRecord ==
    [lexer : CheckpointRecord, tokens : Nat, prevTokenEnd : Offsets, lists : Seq(Opening),
     rewound : BOOLEAN, history : Seq(TokenRecord) \X Seq(ErrorRecord)]

(* The type invariant. *)
TypeOK ==
    /\ LexerTypeOK
    /\ tokens \in Seq(TokenRecord)
    /\ prevTokenEnd \in Offsets
    /\ caller \in {"bump", "peek", "peek2", "relex"}
    /\ saved \in Seq(CheckpointRecord) /\ Len(saved) <= 1
    /\ lists \in Seq(Opening)
    /\ peeked \in Seq(Kinds) /\ Len(peeked) <= 2
    /\ mark \in Seq(MarkRecord) /\ Len(mark) <= 1
    /\ bumped \in BOOLEAN
    /\ relexed \in ReLexed

Sorted(stack) ==
    /\ \A i \in 1..Len(stack) : stack[i].column > 0 /\ stack[i].character > 0
    /\ \A i, j \in 1..Len(stack) : i < j =>
          stack[i].column < stack[j].column /\ stack[i].character < stack[j].character

(* The indentation stack is strictly increasing in both measures, so that  *)
(* the dedent loop of lex_token, which pops while the top is greater,      *)
(* leaves exactly the enclosing blocks; `Indentations::indent` asserts it  *)
(* in debug builds only.                                                   *)
IndentationsSorted == Sorted(indentations)

Count(k) ==
    Cardinality({i \in 1..Len(tokens) : tokens[i].kind = k}) + IF kind = k THEN 1 ELSE 0

(* As long as no indentation error was reported, the blocks the parser has *)
(* seen opened and not closed are the levels on the lexer's stack.  The    *)
(* re-lexing after a recovery, outside f-strings, and the look-ahead must  *)
(* keep the two in step.                                                   *)
BlocksMatchStack ==
    (pc = "idle" /\ relexed # "fstring" /\ \A i \in 1..Len(errors) : errors[i].error # "Indentation")
        => Count("Indent") = Count("Dedent") + Len(indentations)

(* EndOfFile is only emitted once everything that was open is closed:      *)
(* brackets, f-strings, blocks and pending dedents (consume_end).          *)
EndOfFileIsClean ==
    pc = "idle" /\ kind = "EndOfFile" =>
        nesting = 0 /\ indentations = <<>> /\ fstrings = <<>> /\ pending = NoPending

(* The tokens handed out, the current one included, do not overlap and are *)
(* in source order, whatever was re-lexed or rewound; so are the lexical   *)
(* errors, which the merge of lexical and syntax errors in Parser::finish  *)
(* takes for granted, unless a list was given up inside an f-string.       *)
OutputInOrder ==
    /\ relexed # "fstring" =>
        \A i \in 1..Len(errors) - 1 : errors[i].start <= errors[i + 1].start
    /\ pc = "idle" =>
        /\ \A i \in 1..Len(tokens) - 1 : tokens[i].end <= tokens[i + 1].start
        /\ tokens # <<>> => tokens[Len(tokens)].end <= range[1]
        /\ range[1] <= range[2]

(* A look-ahead says what the next bumps then deliver. *)
PeekIsHonest ==
    [][(pc = "return" /\ pc' = "idle" /\ caller = "bump" /\ peeked # <<>>) => kind = Head(peeked)]_vars

(* A rewind puts back every token and error of the checkpoint although     *)
(* only their numbers were saved: nothing in between shortens the two      *)
(* below the checkpoint.                                                   *)
RewindIsExact ==
    [][(Speculating /\ ~Speculating') => <<tokens', errors'>> = mark[1].history]_vars

(* Until brackets are given up, by the parser inside an f-string or at the *)
(* end of the file, a context never claims more open brackets than there   *)
(* are, and contexts nest: a stray `)` or `}` in a replacement field       *)
(* cannot make the lexer leave an f-string it is in, or stay in one it has *)
(* left, and a look-ahead, a rewind or another recovery does not either.   *)
FStringsNest ==
    (relexed # "fstring" /\ \A i \in 1..Len(errors) : errors[i].error # "Eof") =>
        /\ \A i \in 1..Len(fstrings) : fstrings[i].nesting + fstrings[i].depth <= nesting
        /\ \A i \in 1..Len(fstrings) - 1 :
              fstrings[i].nesting + fstrings[i].depth < fstrings[i + 1].nesting

(* When the parser has given up the last list, re-lexing turns the newline *)
(* before the current token into a logical one; before the closing bracket *)
(* of an outer list the newline stays non-logical (re_lex_logical_token).  *)
(* Not so once the lexer has moved back from an opening bracket.           *)
ReLexEmitsNewline ==
    pc = "idle" =>
        /\ relexed = "line" /\ lists = <<>> => kind = "Newline"
        /\ relexed = "list" => kind = "NonLogicalNewline"

(* Every source is lexed to its end, through all recoveries. *)
ReachesEndOfFile == <>Finished
=============================================================================
