-------------------------------- MODULE Parser --------------------------------
(***************************************************************************)
(* crates/python_parser/src/parser/mod.rs: the recursive descent parser    *)
(* with its error recovery and its speculation.                            *)
(*                                                                         *)
(* Modules Expressions, Statements and Patterns hold the parser's          *)
(* functions as sequences of steps; this module runs them.  The call stack *)
(* of the program is `todo`; what the functions have parsed and not yet    *)
(* put into a node is on `vals`.                                           *)
(***************************************************************************)
EXTENDS ListKinds, FiniteSets, TLC
LOCAL INSTANCE SequencesExt

CONSTANTS
    Programs,     \* what is parsed: records [mode, items]
    Functions     \* the parsing functions of the other files: ParsingFunctions

VARIABLES
    input,      \* the member of Programs that is parsed
    tok,        \* Parser::tokens, see TokenStream
    prevEnd,    \* Parser::prev_token_end
    id,         \* Parser::current_token_id
    errors,     \* Parser::errors: where they start
    context,    \* Parser::recovery_context: the flags that are set
    todo,       \* the functions and lists that are running, the innermost last
    vals,       \* what they have parsed
    panic       \* an assertion of the parser has failed

vars == <<input, tok, prevEnd, id, errors, context, todo, vals, panic>>

items == input.items

(* Parser::parse_module and Parser::parse_single_expression *)
ParseModule == List("ModuleStatements", "parse_statement") \o Bump("EndOfFile") \o Node("ModModule")

ParseSingleExpression ==
    Call("parse_expression_list", Default)
    \o Eat("Newline", Skip)
    \o When(NotAt({"EndOfFile"}), Error \o While(NotAt({"EndOfFile"}), BumpAny))
    \o Bump("EndOfFile") \o Node("ModExpression")

(* All functions, by name. *)
Rules == [rule \in DOMAIN Functions \cup {"parse_module", "parse_single_expression"} |->
             CASE rule = "parse_module" -> ParseModule
               [] rule = "parse_single_expression" -> ParseSingleExpression
               [] OTHER -> Functions[rule]]

(* Functions call functions that exist and parse lists of kinds that do. *)
ASSUME RulesAssumption ==
    /\ "list" \notin DOMAIN Rules
    /\ \A rule \in DOMAIN Rules : \A n \in DOMAIN Rules[rule] :
          LET step == Rules[rule][n] IN
          /\ step.do \in {"call", "operand"} => step.rule \in DOMAIN Rules
          /\ step.do = "list" => step.list \in RecoveryContextKinds /\ step.elem \in DOMAIN Rules

ParsingFunctions ==
    LET operands == ExpressionRules @@ PatternRules
    IN  StatementRules @@ operands
-----------------------------------------------------------------------------
(***************************************************************************)
(* Values.                                                                 *)
(*   is, start, end   the kind of the node and its range                   *)
(*   par              ParsedExpr::is_parenthesized                         *)
(*   name             what it names: names, keywords and parameters        *)
(*   op               the operator of a binary-like expression             *)
(*   kids             its parts                                            *)
(*   bad, del, help   where validate_assignment_target,                    *)
(*                    validate_delete_target and unparse_expr complain     *)
(*   real             is_real_number                                       *)
(***************************************************************************)
Leaves(c, from, to, n) ==
    [is |-> c, start |-> from, end |-> to, par |-> FALSE, name |-> n, op |-> "", kids |-> <<>>,
     bad |-> IF c = "Name" THEN <<>> ELSE <<from>>,
     del |-> IF c = "Name" THEN <<>> ELSE <<from>>,
     help |-> IF c = "Name" THEN <<>> ELSE <<from>>,
     real |-> c \in {"Int", "Float"}]

Part(v) == [is |-> v.is, start |-> v.start, end |-> v.end, par |-> v.par, op |-> v.op]

(* The operator after a left operand, whose parentheses are not part of it. *)
OperatorAfter(n) == LET f[i \in Nat] == IF items[i] = "Rpar" THEN f[i + 1] ELSE items[i] IN f[n + 1]

All(parts, F(_)) == FoldLeft(LAMBDA acc, v : acc \o F(v), <<>>, parts)

SequenceExprs == {"List", "Tuple", "ParenthesizedTuple"}

(* validate_assignment_target, validate_delete_target and unparse_expr. *)
AssignmentComplaints(c, whole, parts) ==
    CASE c \in SingleTarget -> <<>>
      [] c = "Starred" -> parts[1].bad
      [] c \in SequenceExprs -> All(parts, LAMBDA v : v.bad)
      [] OTHER -> whole

DeleteComplaints(c, whole, parts) ==
    CASE c \in SingleTarget -> <<>>
      [] c \in SequenceExprs -> All(parts, LAMBDA v : v.del)
      [] OTHER -> whole

HelpComplaints(c, whole, parts) ==
    CASE c = "Attribute" -> parts[1].help
      [] c = "Subscript" -> parts[1].help \o IF parts[2].is = "Int" THEN <<>> ELSE <<parts[2].start>>
      [] OTHER -> whole

MakeNode(c, range, keep, parts) ==
    LET first == parts[1]
        some == parts # <<>>
        whole == <<range[1]>>
    IN  [is |-> c, start |-> range[1], end |-> range[2],
         par |-> keep /\ first.par,
         name |-> IF some /\ first.is = "Name" THEN first.name ELSE "",
         op |-> IF c \in {"BinOp", "BoolOp", "Compare"} THEN OperatorAfter(first.end) ELSE "",
         kids |-> [i \in DOMAIN parts |-> Part(parts[i])],
         bad |-> AssignmentComplaints(c, whole, parts),
         del |-> DeleteComplaints(c, whole, parts),
         help |-> HelpComplaints(c, whole, parts),
         real |-> c \in {"UAdd", "USub", "MatchValue"} /\ first.real]
-----------------------------------------------------------------------------
Depth == Len(todo)
Here == todo[Depth]                       \* the function that runs
Own == SubSeq(vals, Here.base + 1, Len(vals))
LastVal == vals[Len(vals)]
Siblings == SubSeq(vals, todo[Depth - 1].base + 1, Here.base)
Among(S, values) == \E i \in DOMAIN values : values[i].is \in S

(* Mutant: the end of a node may lie before its start. *)
NodeRangeUnclamped(start) == <<start, prevEnd>>

(* Parser::node_range *)
NodeRange(start) == IF prevEnd <= start THEN <<prevEnd, prevEnd>> ELSE <<start, prevEnd>>

(* Parser::add_error *)
AddError(log, start) == IF log # <<>> /\ Last(log) = start THEN log ELSE Append(log, start)

CmpOperatorAt == tok.kind \in CmpOperators \/ (tok.kind = "Not" /\ PeekKind(items, tok) = "In")
InExcluded == tok.kind = "In" /\ "exclude_in" \in Here.ctx

(* Mutant: operators of equal precedence lean to the right. *)
OperatorBindsAsTightly ==
    /\ ~InExcluded
    /\ CmpOperatorAt \/ tok.kind \in BinaryOperators \cup BoolOperators
    /\ PrecedenceOf(tok.kind) >= Here.prec

(* The test of parse_binary_expression_or_higher_recursive. *)
OperatorBindsTighter ==
    /\ ~InExcluded
    /\ CmpOperatorAt \/ tok.kind \in BinaryOperators \cup BoolOperators
    /\ LET p == PrecedenceOf(tok.kind)
       IN  IF p = Exponent THEN p >= Here.prec ELSE p > Here.prec

BareWithItem(v) == ~v.par /\ v.kids[1].is \in {"Named", "Starred", "Yield", "YieldFrom"}

Fact(name) ==
    CASE name = "operator binds tighter" -> OperatorBindsTighter
      [] name = "comparison" -> CmpOperatorAt /\ ~InExcluded
      [] name = "exponent" -> Here.prec = Exponent
      [] name = "help end" -> input.mode = "Ipython" /\ tok.kind = "Question"
      [] name = "star among others" -> Among({"AliasStar"}, Own) /\ Len(Own) > 1
      [] name = "items of an expression" -> Own = <<>> \/ \E i \in DOMAIN Own : BareWithItem(Own[i])
      [] name = "no parameter after the star" ->
            \E i \in DOMAIN Siblings :
                /\ Siblings[i].is = "StarSep"
                /\ \A j \in i + 1..Len(Siblings) : Siblings[j].is \notin {"Param", "ParamDefault"}
                /\ \A j \in 1..i - 1 : Siblings[j].is # "StarSep"
      [] name = "real number" -> LastVal.is = "MatchValue" /\ LastVal.real
      [] name = "complex number" -> LastVal.is = "MatchValue" /\ LastVal.kids[1].is = "Complex"
      [] name = "class name" ->
            LastVal.is = "MatchCapture" \/ (LastVal.is = "MatchValue" /\ LastVal.kids[1].is = "Attribute")

Holds(c) ==
    CASE c.test = "at" -> tok.kind \in c.set
      [] c.test = "not at" -> tok.kind \notin c.set
      [] c.test = "item" -> tok.end > tok.start /\ items[tok.end] \in c.set
      [] c.test = "peek" -> PeekKind(items, tok) \in c.set
      [] c.test = "peek2" -> PeekKind(items, tok) \in c.first /\ Peek2Kind(items, tok) \in c.second
      [] c.test = "top" -> Own # <<>> /\ LastVal.is \in c.set
      [] c.test = "bare" -> LastVal.is \in c.set /\ ~LastVal.par
      [] c.test = "parenthesized" -> LastVal.par
      [] c.test = "allows" -> c.flag \in Here.ctx
      [] c.test = "above" -> Here.prec > c.prec
      [] c.test = "seen" -> Among(c.set, Siblings)
      [] c.test = "has" -> Among(c.set, Own)
      [] c.test = "nothing" -> Own = <<>>
      [] c.test = "mode" -> input.mode = c.mode
      [] c.test = "is" -> Fact(c.fact)

(* The next step of the function that runs, past the branches. *)
Code == Rules[Here.rule]
PastBranches[n \in 1..Len(Code) + 1] ==
    IF n > Len(Code) THEN n
    ELSE CASE Code[n].do = "if" -> PastBranches[IF Holds(Code[n].cond) THEN n + 1 ELSE n + Code[n].skip]
           [] Code[n].do = "jump" /\ Code[n].by > 0 -> PastBranches[n + Code[n].by]
           [] OTHER -> n
NextPc == PastBranches[Here.pc]

Returns(pc) == pc > Len(Code)
Does(pc, what) == pc \in DOMAIN Code /\ Code[pc].do \in what

InFunction == ~panic /\ todo # <<>> /\ Here.rule # "list"
Running(what) == InFunction /\ Does(NextPc, what)

Step == Code[NextPc]
Goto(pc) == todo' = [todo EXCEPT ![Depth].pc = pc]
Advance == Goto(NextPc + 1)
-----------------------------------------------------------------------------
(* Parser::do_bump *)
DoBump ==
    /\ tok' = NextToken(items, tok)
    /\ prevEnd' = IF tok.kind \in {"Dedent", "Newline", "Semi"} THEN prevEnd ELSE tok.end
    /\ id' = id + 1

Stay == UNCHANGED <<tok, prevEnd, id>>

Panic == panic' = TRUE /\ Stay /\ UNCHANGED <<errors, context, todo, vals>>

(* Parser::bump, bump_ts, bump_value and bump_any: the assertion, then the *)
(* token is consumed.  unreachable!() is an assertion that always fails.   *)
MayBump(step) ==
    CASE step.do = "bump" -> tok.kind \in step.set
      [] step.do = "bump_any" -> tok.kind # "EndOfFile"
      [] step.do = "unreachable" -> FALSE

BumpStep ==
    /\ Running({"bump", "bump_any", "unreachable"})
    /\ IF MayBump(Step)
       THEN DoBump /\ Advance /\ UNCHANGED <<errors, context, vals, panic>>
       ELSE Panic
    /\ UNCHANGED input

(* Parser::expect *)
ExpectStep ==
    /\ Running({"expect"})
    /\ IF tok.kind = Step.kind
       THEN DoBump /\ UNCHANGED errors
       ELSE Stay /\ errors' = AddError(errors, tok.start)
    /\ Advance
    /\ UNCHANGED <<input, context, vals, panic>>

(* Nodes of one token, and a node where nothing is written. *)
MakeLeaf(step) ==
    IF step.do = "missing"
    THEN Stay /\ vals' = Append(vals, Leaves("Name", prevEnd, prevEnd, ""))
    ELSE /\ DoBump
         /\ vals' = Append(vals, Leaves(IF step.do = "leaf" THEN step.is ELSE tok.kind,
                                        tok.start, tok.end, NameOf(items[tok.end])))

LeafStep ==
    /\ Running({"leaf", "literal", "missing"})
    /\ MakeLeaf(Step)
    /\ Advance
    /\ UNCHANGED <<input, errors, context, panic>>

NodeOf(step) == MakeNode(step.is, NodeRange(Here.start), step.keep, Own)

NodeStep ==
    /\ Running({"node"})
    /\ vals' = Append(SubSeq(vals, 1, Here.base), NodeOf(Step))
    /\ Advance
    /\ Stay
    /\ UNCHANGED <<input, errors, context, panic>>

Changed(how) ==
    CASE how = "parenthesize" -> [vals EXCEPT ![Len(vals)].par = TRUE]
      [] how = "pattern_to_expr" -> [vals EXCEPT ![Len(vals)].is = PatternToExpr(LastVal)]
      [] how = "discard" -> SubSeq(vals, 1, Here.base)

ChangeStep ==
    /\ Running({"change"})
    /\ vals' = Changed(Step.how)
    /\ Advance
    /\ Stay
    /\ UNCHANGED <<input, errors, context, panic>>

ErrorPlace(at) ==
    CASE at = "token" -> tok.start
      [] at = "top" -> LastVal.start
      [] at = "start" -> NodeRange(Here.start)[1]
      [] at = "block" -> IF tok.start = tok.end THEN Here.start ELSE tok.start

ErrorStep ==
    /\ Running({"error"})
    /\ errors' = AddError(errors, ErrorPlace(Step.at))
    /\ Advance
    /\ Stay
    /\ UNCHANGED <<input, context, vals, panic>>

(* The names that occur before, as validate_arguments and                  *)
(* validate_parameters find them.                                          *)
Repeated(named, place(_)) ==
    LET again == SelectSeq([i \in DOMAIN named |-> i],
                           LAMBDA i : \E j \in 1..i - 1 : named[j].name = named[i].name)
    IN  [i \in DOMAIN again |-> place(named[again[i]])]

(* Parameters in the order of ParametersIterator: only the first `*args`   *)
(* and the last `**kwargs` are in the tree.                                *)
Iterated(parameters) ==
    LET Of(S) == SelectSeq(parameters, LAMBDA v : v.is \in S)
        separator(i) == \E j \in 1..i - 1 : parameters[j].is \in {"StarSep", "VarArg"}
        Plain(after) ==
            LET at == SelectSeq([i \in DOMAIN parameters |-> i],
                                LAMBDA i : parameters[i].is \in {"Param", "ParamDefault"} /\ separator(i) = after)
            IN  [i \in DOMAIN at |-> parameters[at[i]]]
        varargs == Of({"VarArg"})
        kwargs == Of({"KwArg"})
    IN  Plain(FALSE) \o (IF varargs = <<>> THEN <<>> ELSE <<Head(varargs)>>)
        \o Plain(TRUE) \o (IF kwargs = <<>> THEN <<>> ELSE <<Last(kwargs)>>)

ValidateArguments(arguments) ==
    Repeated(SelectSeq(arguments, LAMBDA v : v.is = "Keyword"), LAMBDA v : v.start)
ValidateParameters(parameters) == Repeated(Iterated(parameters), LAMBDA v : v.kids[1].start)

Complaints(what) ==
    CASE what = "assignment target" -> LastVal.bad
      [] what = "assignment targets" -> All(SubSeq(Own, 1, Len(Own) - 1), LAMBDA v : v.bad)
      [] what = "delete target" -> LastVal.del
      [] what = "help target" -> LastVal.help
      [] what = "with items" -> All(SelectSeq(Own, BareWithItem), LAMBDA v : <<v.kids[1].start>>)
      [] what = "duplicate keywords" -> ValidateArguments(Own)
      [] what = "duplicate parameters" -> ValidateParameters(Own)

ReportStep ==
    /\ Running({"report"})
    /\ errors' = FoldLeft(AddError, errors, Complaints(Step.what))
    /\ Advance
    /\ Stay
    /\ UNCHANGED <<input, context, vals, panic>>

(* A loop of a function, with ParserProgress::assert_progressing. *)
Loop(step, pc) ==
    CASE step.do = "jump" -> Goto(pc + step.by) /\ UNCHANGED panic
      [] step.do = "while" ->
            IF ~Holds(step.cond) THEN Goto(pc + step.skip) /\ UNCHANGED panic
            ELSE IF Here.progress = <<pc, id>> THEN panic' = TRUE /\ UNCHANGED todo
            ELSE /\ todo' = [todo EXCEPT ![Depth].pc = pc + 1, ![Depth].progress = <<pc, id>>]
                 /\ UNCHANGED panic

LoopStep ==
    /\ Running({"while", "jump"})
    /\ Stay
    /\ Loop(Step, NextPc)
    /\ UNCHANGED <<input, errors, context, vals>>

Frame(rule, ctx, prec, start, base) ==
    [rule |-> rule, pc |-> 1, ctx |-> ctx, prec |-> prec, start |-> start, base |-> base, progress |-> <<>>,
     mark |-> <<>>]

Push(frame) == todo' = Append([todo EXCEPT ![Depth].pc = NextPc + 1], frame)

Context(step) == IF step.same THEN Here.ctx ELSE step.ctx

Called(step) ==
    Frame(step.rule, Context(step), IF step.prec = SamePrecedence THEN Here.prec ELSE step.prec,
          IF step.lhs THEN Here.start ELSE tok.start, IF step.lhs THEN Here.base ELSE Len(vals))

CallStep ==
    /\ Running({"call"})
    /\ Push(Called(Step))
    /\ Stay
    /\ UNCHANGED <<input, errors, context, vals, panic>>

(* parse_binary_expression_or_higher_recursive consumes an operator and    *)
(* parses its right operand.                                               *)
OperandStep ==
    /\ Running({"operand"})
    /\ DoBump
    /\ Push(Frame(Step.rule, Here.ctx, PrecedenceOf(tok.kind), tok'.start, Len(vals)))
    /\ UNCHANGED <<input, errors, context, vals, panic>>

ReturnStep ==
    /\ InFunction
    /\ Returns(NextPc)
    /\ todo' = SubSeq(todo, 1, Depth - 1)
    /\ Stay
    /\ UNCHANGED <<input, errors, context, vals, panic>>

(* Parser::checkpoint and Parser::rewind.  The checkpoint is a local of    *)
(* the function, which gives it away when it rewinds.                      *)
CheckpointStep ==
    /\ Running({"checkpoint"})
    /\ todo' = [todo EXCEPT ![Depth].pc = NextPc + 1,
                            ![Depth].mark = <<[tok |-> tok, errors |-> Len(errors), id |-> id,
                                               prevEnd |-> prevEnd, context |-> context]>>]
    /\ Stay
    /\ UNCHANGED <<input, errors, context, vals, panic>>

RewindStep ==
    /\ Running({"rewind"})
    /\ Here.mark # <<>>
    /\ LET mark == Here.mark[1]
       IN  /\ tok' = mark.tok
           /\ errors' = SubSeq(errors, 1, mark.errors)
           /\ id' = mark.id
           /\ prevEnd' = mark.prevEnd
           /\ context' = mark.context
    /\ vals' = SubSeq(vals, 1, Here.base)
    /\ todo' = [todo EXCEPT ![Depth].pc = NextPc + 1, ![Depth].mark = <<>>]
    /\ UNCHANGED <<input, panic>>
-----------------------------------------------------------------------------
(***************************************************************************)
(* Lists: parse_list, parse_comma_separated_list and parse_clauses.  The   *)
(* frame of a list holds its kind, what it parses, the recovery context to *)
(* put back, the trailing comma and whether an element has just been       *)
(* parsed (`after`).                                                       *)
(***************************************************************************)
NoComma == 0 - 1

Started(step) ==
    [rule |-> "list", list |-> step.list, sort |-> step.sort, elem |-> step.elem, ctx |-> Context(step),
     base |-> Len(vals), saved |-> context, trailing |-> NoComma, after |-> FALSE, progress |-> NoComma]

ListStep ==
    /\ Running({"list"})
    /\ Push(Started(Step))
    /\ context' = context \cup {FromKind(Step.list)}
    /\ Stay
    /\ UNCHANGED <<input, errors, vals, panic>>

InList == ~panic /\ todo # <<>> /\ Here.rule = "list"
AtStart == InList /\ ~Here.after
AtElementStart == AtElement(Here.list, tok.kind)

(* An iteration starts: assert_progressing, and an element is parsed. *)
ElementStep ==
    /\ AtStart
    /\ AtElementStart
    /\ IF Here.progress = id
       THEN Panic
       ELSE /\ todo' = Append([todo EXCEPT ![Depth].progress = id,
                                           ![Depth].after = Here.sort = "comma"],
                              Frame(Here.elem, Here.ctx, Initial, tok.start, Len(vals)))
            /\ Stay
            /\ UNCHANGED <<errors, context, vals, panic>>
    /\ UNCHANGED input

(* The comma after an element. *)
CommaStep ==
    /\ InList
    /\ Here.after
    /\ tok.kind = "Comma"
    /\ DoBump
    /\ todo' = [todo EXCEPT ![Depth].after = FALSE, ![Depth].trailing = tok.start]
    /\ UNCHANGED <<input, errors, context, vals, panic>>

(* What follows when there is no element to parse, or an element without a *)
(* comma: the place of the trailing comma, and the three ways on.          *)
NoElement == (AtStart /\ ~AtElementStart) \/ (InList /\ Here.after /\ tok.kind # "Comma")
TrailingComma == IF Here.after THEN NoComma ELSE Here.trailing
TailProgress == IF Here.after THEN Here.progress ELSE id
TailStuck == ~Here.after /\ Here.progress = id

(* Mutant: a list that ends clears its own flag. *)
ExitClearsFlag ==
    /\ UNCHANGED errors
    /\ context' = context \ {FromKind(Here.list)}
    /\ todo' = SubSeq(todo, 1, Depth - 1)

Exit ==
    /\ errors' = IF Here.sort = "comma" /\ TrailingComma # NoComma /\ Here.list \notin AllowTrailingComma
                 THEN AddError(errors, TrailingComma) ELSE errors
    /\ context' = Here.saved
    /\ todo' = SubSeq(todo, 1, Depth - 1)

(* Mutant: clauses, too, go on until their terminator. *)
ListEndAtTerminator ==
    /\ NoElement
    /\ AtRegularTerminator(Here.list, tok.kind)
    /\ Exit
    /\ Stay
    /\ UNCHANGED <<input, vals, panic>>

(* A list ends at its terminator; clauses end wherever no clause starts. *)
ListEnd ==
    /\ NoElement
    /\ Here.sort = "clauses" \/ AtRegularTerminator(Here.list, tok.kind)
    /\ IF Here.sort # "clauses" /\ TailStuck THEN Panic
       ELSE Exit /\ Stay /\ UNCHANGED <<vals, panic>>
    /\ UNCHANGED input

NotAtEnd == Here.sort # "clauses" /\ ~AtRegularTerminator(Here.list, tok.kind)
AtNextElement == Here.sort = "comma" /\ AtElementStart

(* `a b`: the comma is missing, and the next element follows. *)
MissingComma ==
    /\ NoElement
    /\ NotAtEnd
    /\ AtNextElement
    /\ errors' = AddError(errors, tok.start)
    /\ todo' = [todo EXCEPT ![Depth].after = FALSE, ![Depth].trailing = TrailingComma]
    /\ Stay
    /\ UNCHANGED <<input, context, vals, panic>>

(* An enclosing list can go on here: the list gives up, and the token is   *)
(* lexed again outside of its brackets.                                    *)
GiveUp ==
    /\ NoElement
    /\ NotAtEnd
    /\ ~AtNextElement
    /\ AtEnclosing(context, tok.kind)
    /\ IF TailStuck THEN Panic
       ELSE /\ tok' = ReLexToken(items, tok)
            /\ Exit
            /\ UNCHANGED <<prevEnd, id, vals, panic>>
    /\ UNCHANGED input

(* No list can go on here: the token is reported and skipped. *)
SkipToken ==
    /\ NoElement
    /\ NotAtEnd
    /\ ~AtNextElement
    /\ ~AtEnclosing(context, tok.kind)
    /\ IF TailStuck \/ tok.kind = "EndOfFile" THEN Panic
       ELSE /\ errors' = AddError(errors, tok.start)
            /\ todo' = [todo EXCEPT ![Depth].after = FALSE, ![Depth].progress = TailProgress,
                                    ![Depth].trailing = IF tok.kind = "Comma" THEN tok.start ELSE NoComma]
            /\ DoBump
            /\ UNCHANGED <<context, vals, panic>>
    /\ UNCHANGED input
-----------------------------------------------------------------------------
Init ==
    /\ input \in Programs
    /\ tok = FirstToken(items)
    /\ prevEnd = 0
    /\ id = 0
    /\ errors = <<>>
    /\ context = {}
    /\ vals = <<>>
    /\ panic = FALSE
    /\ todo = <<IF input.mode = "Expression"
                THEN Frame("parse_single_expression", Default, Initial, tok.start, 0)
                ELSE Frame("parse_module", Default, Initial, 0, 0)>>

Next ==
    \/ BumpStep \/ ExpectStep \/ LeafStep \/ NodeStep \/ ChangeStep \/ ErrorStep \/ ReportStep
    \/ LoopStep \/ CallStep \/ OperandStep \/ ReturnStep
    \/ CheckpointStep \/ RewindStep
    \/ ListStep \/ ElementStep \/ CommaStep \/ ListEnd \/ MissingComma \/ GiveUp \/ SkipToken

(* The parser runs to its end without waiting for anything. *)
Spec == Init /\ [][Next]_vars /\ WF_vars(Next)
-----------------------------------------------------------------------------
Finished == todo = <<>> /\ ~panic

(* No assertion of the parser fails: bump and bump_any meet the tokens     *)
(* they are told to expect, no unreachable!() is reached, every iteration  *)
(* of a loop and of a list consumes a token, every flag of the recovery    *)
(* context has a kind (kind_iter), and the parser stops at the end of the  *)
(* file (finish).                                                          *)
NoPanic ==
    /\ ~panic
    /\ KindIter(context) \subseteq RecoveryContextKinds
    /\ Finished => tok.kind = "EndOfFile"

(* The recovery context holds exactly the kinds of the lists that are      *)
(* being parsed, whatever was skipped, given up or rewound: a kind left    *)
(* behind would let a list end at a token nobody waits for.                *)
ContextIsOpenLists ==
    KindIter(context) = {todo[i].list : i \in {j \in DOMAIN todo : todo[j].rule = "list"}}

(* The parts of a node lie inside of it, in the order of the source, even  *)
(* in trees with errors (node_range).  Missing nodes are an exception that *)
(* missing_node_range documents.                                           *)
RangesNest ==
    \A n \in DOMAIN vals :
        LET v == vals[n]
            there == {i \in DOMAIN v.kids : v.kids[i].start < v.kids[i].end}
        IN  /\ v.start <= v.end
            /\ \A i \in there : v.start <= v.kids[i].start /\ v.kids[i].end <= v.end
            /\ \A i, j \in there : i < j => v.kids[i].end <= v.kids[j].start

(* Parsing ends: the parser relies on its recovery sets alone to get past  *)
(* every token.                                                            *)
ParserTerminates == <>Finished
=============================================================================
