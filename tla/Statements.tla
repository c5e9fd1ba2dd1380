------------------------------ MODULE Statements ------------------------------
(***************************************************************************)
(* The functions of crates/python_parser/src/parser/statement.rs.          *)
(***************************************************************************)
EXTENDS Expressions

CompoundStmtSet == {"Match", "If", "With", "While", "For", "Try", "Def", "Class", "Async", "At"}

SimpleStmtSet ==
    {"Pass", "Return", "Break", "Continue", "Global", "Nonlocal", "Assert", "Yield", "Del", "Raise",
     "Import", "From", "Type", "IpyEscapeCommand"}

(* at_simple_stmt, at_stmt and at_type_param *)
SimpleStart == SimpleStmtSet \cup ExprSet \cup SoftKeywords
StmtStart == SimpleStart \cup CompoundStmtSet
TypeParamStart == {"Star", "DoubleStar"} \cup NameOrKeyword

AtSimpleStmt == At(SimpleStart)

(* What the parser expects where an expression may be left out wrongly. *)
ExpectExpr(parse) == If(AtExpr, parse, Error)
ExpectName == If(At(NameOrSoftKeyword), Call("parse_identifier", Default), Error)
NotBareTuple == When(Top({"Tuple"}), ErrorTop)
ParseBody == Call("parse_body", Default)
ParseClauseBody == Expect("Colon") \o ParseBody

(* classify_match_token, by the token after `match`: what to do for a       *)
(* keyword, for one that may be an identifier as well, and for an           *)
(* identifier.                                                              *)
ClassifyMatchToken(keyword, keyword_or_identifier, identifier) ==
    If(Peek2({"Not"}, {"In"}), identifier,
    If(Peek({"Name", "Int", "Float", "Complex", "String", "FStringStart", "Lbrace", "Tilde", "Ellipsis", "Not",
             "Await", "Yield", "Lambda"} \cup SoftKeywords \cup Singletons),
       keyword,
    If(Peek({"Lpar", "Lsqb", "Star", "Plus", "Minus"}), keyword_or_identifier, identifier)))

ParseStatement ==
    LET Simple == Call("parse_single_simple_statement", Default)
    IN  If(At({"If"}), Lhs("parse_if_statement"),
        If(At({"For"}), Lhs("parse_for_statement"),
        If(At({"While"}), Lhs("parse_while_statement"),
        If(At({"Def"}), Lhs("parse_function_definition"),
        If(At({"Class"}), Lhs("parse_class_definition"),
        If(At({"Try"}), Lhs("parse_try_statement"),
        If(At({"With"}), Lhs("parse_with_statement"),
        If(At({"At"}), Lhs("parse_decorators"),
        If(At({"Async"}), Lhs("parse_async_statement"),
        If(At({"Match"}),
           ClassifyMatchToken(Lhs("parse_match_statement"),
                              Lhs("try_parse_match_statement") \o When(Nothing, Simple),
                              Simple),
           Simple))))))))))

ParseSingleSimpleStatement ==
    LET Compound == When(At(CompoundStmtSet), Error)
    IN  Call("parse_simple_statement", Default)
        \o If(At({"Semi"}),
              Bump("Semi") \o If(At({"Newline"}), Bump("Newline"), Compound),
              If(At({"Newline"}), Bump("Newline"), If(AtSimpleStmt, Error, Compound)))

(* The loop is entered at a simple statement (parse_body). *)
ParseSimpleStatements ==
    While(AtSimpleStmt,
          Call("parse_simple_statement", Default)
          \o If(At({"Semi"}), Bump("Semi"), When(AtSimpleStmt, Error)))
    \o If(At({"Newline"}), Bump("Newline"), Error)

(* parse_pass_statement, parse_continue_statement and parse_break_statement *)
ParseKeywordStatement(k) == Leaf(k)

ParseSimpleStatement ==
    LET Expression ==
            Call("parse_expression_list", YieldOrStarredBitwiseOr)
            \o If(At({"Equal"}), Lhs("parse_assign_statement"),
               If(At({"Colon"}), Lhs("parse_annotated_assignment_statement"),
               If(At(AugmentedAssign), Lhs("parse_augmented_assignment_statement"),
               If(Is("help end"), Lhs("parse_ipython_help_end_escape_command_statement"),
                  Node("Expr")))))
    IN  If(At({"Return"}), Lhs("parse_return_statement"),
        If(At({"Import"}), Lhs("parse_import_statement"),
        If(At({"From"}), Lhs("parse_from_import_statement"),
        If(At({"Pass"}), ParseKeywordStatement("Pass"),
        If(At({"Continue"}), ParseKeywordStatement("Continue"),
        If(At({"Break"}), ParseKeywordStatement("Break"),
        If(At({"Raise"}), Lhs("parse_raise_statement"),
        If(At({"Del"}), Lhs("parse_delete_statement"),
        If(At({"Assert"}), Lhs("parse_assert_statement"),
        If(At({"Global"}), Lhs("parse_global_statement"),
        If(At({"Nonlocal"}), Lhs("parse_nonlocal_statement"),
        If(At({"IpyEscapeCommand"}), Lhs("parse_ipython_escape_command_statement"),
        If(At({"Type"}),
           If(Peek2(NameOrSoftKeyword, {"Lsqb", "Equal"}), Lhs("parse_type_alias_statement"), Expression),
           Expression)))))))))))))

ParseDeleteStatement ==
    Bump("Del") \o Commas("DeleteTargets", "delete_target", Default) \o When(Nothing, Error) \o Node("Delete")

(* The closure of parse_delete_statement. *)
DeleteTarget ==
    Call("parse_conditional_expression_or_higher_impl", StarredConditional) \o Report("delete target")

ParseReturnStatement ==
    Bump("Return") \o When(AtExpr, Call("parse_expression_list", StarredBitwiseOr)) \o Node("Return")

ParseRaiseStatement ==
    LET Exception == Call("parse_expression_list", Default) \o NotBareTuple
    IN  Bump("Raise") \o Unless(At({"Newline"}), Exception \o Eat("From", Exception)) \o Node("Raise")

ParseImportStatement ==
    Bump("Import") \o Commas("ImportNames", "parse_import_alias", Default) \o When(Nothing, Error)
    \o Node("Import")

ParseFromImportStatement ==
    Bump("From")
    \o While(At({"Dot", "Ellipsis"}), Leaf("Dots"))
    \o If(At(NameOrSoftKeyword), Call("parse_dotted_name", Default), When(Nothing, Error))
    \o Expect("Import")
    \o Call("import_from_names", Default)
    \o Node("ImportFrom")

(* The names of parse_from_import_statement, from names_start on. *)
ImportFromNames ==
    LET Checks == When(Nothing, Error) \o When(Is("star among others"), ErrorStart)
    IN  If(At({"Lpar"}),
           Bump("Lpar") \o Commas("ImportFromAsNames(Parenthesized)", "parse_import_from_alias", Default)
           \o Checks \o Expect("Rpar"),
           Commas("ImportFromAsNames", "parse_import_from_alias", Default) \o Checks)

(* parse_alias; the name is a dotted one for ImportStyle::Import. *)
ParseAlias(name) ==
    If(At({"Star"}), Leaf("AliasStar"),
       Call(name, Default) \o Eat("As", ExpectName) \o Node("Alias"))

ParseDottedName ==
    Call("parse_identifier", Default)
    \o While(At({"Dot"}), Bump("Dot") \o Call("parse_identifier", Default))
    \o Node("DottedName")

ParseAssertStatement ==
    Bump("Assert") \o ParseConditional \o Eat("Comma", ExpectExpr(ParseConditional)) \o Node("Assert")

(* parse_global_statement and parse_nonlocal_statement *)
ParseNamesStatement(k) ==
    Bump(k) \o Commas("Identifiers", "parse_identifier", Default) \o When(Nothing, Error) \o Node(k)

ParseTypeAliasStatement ==
    Bump("Type") \o Call("parse_identifier", Default)
    \o When(At({"Lsqb"}), Call("parse_type_params", Default))
    \o Expect("Equal") \o ParseConditional \o Node("TypeAlias")

ParseIpythonEscapeCommandStatement == Leaf("IpyEscapeCommand") \o Unless(InMode("Ipython"), ErrorTop)

ParseIpythonHelpEnd ==
    When(Parenthesized, Error)
    \o Bump("Question") \o Eat("Question", Skip) \o When(At({"Question"}), Error)
    \o Report("help target") \o Node("IpyEscapeCommand")

(* The values of an assignment are its targets and, last, its value. *)
ParseAssignStatement ==
    Bump("Equal")
    \o Call("parse_expression_list", YieldOrStarredBitwiseOr)
    \o When(At({"Equal"}), List("AssignmentTargets", "assignment_value"))
    \o Report("assignment targets") \o Node("Assign")

(* The closure of parse_assign_statement. *)
AssignmentValue == Bump("Equal") \o Call("parse_expression_list", YieldOrStarredBitwiseOr)

SingleTarget == {"Name", "Attribute", "Subscript"}

ValidateAnnotatedAssignmentTarget == Unless(Top(SingleTarget), ErrorTop)

ParseAnnotatedAssignmentStatement ==
    Bump("Colon") \o ValidateAnnotatedAssignmentTarget
    \o ParseConditional
    \o Eat("Equal", ExpectExpr(Call("parse_expression_list", YieldOrStarredBitwiseOr)))
    \o Node("AnnAssign")

ParseAugmentedAssignmentStatement ==
    BumpOneOf(AugmentedAssign) \o Unless(Top(SingleTarget), ErrorTop)
    \o Call("parse_expression_list", YieldOrStarredBitwiseOr)
    \o Node("AugAssign")
-----------------------------------------------------------------------------
ParseIfStatement ==
    Bump("If") \o ParseNamed(Default) \o ParseClauseBody
    \o Clauses("Elif", "parse_elif_clause")
    \o When(At({"Else"}), Call("parse_else_clause", Default))
    \o Node("If")

ParseElifClause == Bump("Elif") \o ParseNamed(Default) \o ParseClauseBody \o Node("ElifElseClause")
ParseElseClause == Bump("Else") \o ParseClauseBody \o Node("ElifElseClause")

ParseTryStatement ==
    Bump("Try") \o ParseClauseBody
    \o Clauses("Except", "parse_except_clause")
    \o Eat("Else", ParseClauseBody)
    \o If(At({"Finally"}),
          Bump("Finally") \o ParseClauseBody \o When(At({"Else"}), Error),
          Unless(Has({"ExceptHandler"}), Error))
    \o Node("Try")

ParseExceptClause ==
    LET Types == Call("parse_expression_list", Default) \o NotBareTuple
    IN  Bump("Except")
        \o If(At({"Star"}),
              Bump("Star") \o ExpectExpr(Types),
              If(AtExpr, Types, When(At({"As"}), Error)))
        \o Eat("As", ExpectName)
        \o ParseClauseBody \o Node("ExceptHandler")

ParseForStatement ==
    Bump("For")
    \o Call("parse_expression_list", StarredConditional \cup {"exclude_in"}) \o Report("assignment target")
    \o Expect("In") \o Call("parse_expression_list", StarredBitwiseOr)
    \o ParseClauseBody \o Eat("Else", ParseClauseBody)
    \o Node("For")

ParseWhileStatement ==
    Bump("While") \o ParseNamed(Default) \o ParseClauseBody \o Eat("Else", ParseClauseBody) \o Node("While")

TryParseTypeParams == When(At({"Lsqb"}), Call("parse_type_params", Default))

ParseFunctionDefinition ==
    Bump("Def") \o Call("parse_identifier", Default)
    \o TryParseTypeParams
    \o Call("parse_parameters", Default)
    \o Eat("Rarrow", ExpectExpr(Call("parse_expression_list", Default) \o NotBareTuple))
    \o ParseClauseBody \o Node("FunctionDef")

ParseClassDefinition ==
    Bump("Class") \o Call("parse_identifier", Default)
    \o TryParseTypeParams
    \o When(At({"Lpar"}), Call("parse_arguments", Default))
    \o ParseClauseBody \o Node("ClassDef")

ParseWithStatement == Bump("With") \o Call("parse_with_items", Default) \o ParseClauseBody \o Node("With")

(* The speculation succeeds with at least one item. *)
ParseWithItems ==
    If(At({"Lpar"}),
       Call("try_parse_parenthesized_with_items", Default)
       \o If(Nothing,
             Commas("WithItems(ParenthesizedExpression)", "parse_with_item", Default),
             Expect("Rpar")),
    If(AtExpr, Commas("WithItems(Unparenthesized)", "parse_with_item", Default), Error))

(* Mutant: the items are kept although one of them is only legal in a      *)
(* parenthesised expression.                                               *)
TryParseWithItemsAnyItem ==
    Checkpoint \o Bump("Lpar")
    \o Commas("WithItems(Parenthesized)", "parse_speculative_with_item", Default)
    \o If(Has({"WithItemAs"}), Report("with items"),
       If(At({"Rpar"}), When(Nothing, Rewind), Rewind))

TryParseParenthesizedWithItems ==
    Checkpoint \o Bump("Lpar")
    \o Commas("WithItems(Parenthesized)", "parse_speculative_with_item", Default)
    \o If(Has({"WithItemAs"}),
          Report("with items"),
       If(At({"Rpar"}),
          If(Peek({"Colon", "Newline"}), When(Is("items of an expression"), Rewind), Rewind),
          Rewind))

(* parse_with_item in its two states, with parse_with_item_optional_vars. *)
ParseWithItem(context_expr) ==
    context_expr
    \o If(At({"As"}),
          Bump("As") \o Call("parse_conditional_expression_or_higher_impl", StarredConditional)
          \o Report("assignment target") \o NodeKeep("WithItemAs"),
          NodeKeep("WithItem"))

TryParseMatchStatement ==
    LET Cases == Call("parse_match_body", Default) \o Node("Match")
    IN  Checkpoint \o Bump("Match") \o Call("parse_match_subject_expression", Default)
        \o If(At({"Colon"}), Bump("Colon") \o Cases,
           If(At({"Newline"}),
              If(Peek2({"Indent"}, {"Case"}), Error \o Cases, Rewind),
              Rewind))

ParseMatchStatement ==
    Bump("Match") \o Call("parse_match_subject_expression", Default) \o Expect("Colon")
    \o Call("parse_match_body", Default) \o Node("Match")

ParseMatchSubjectExpression ==
    ParseNamed(StarredBitwiseOr)
    \o If(At({"Comma"}), Lhs("parse_tuple_of_named"), When(OneStarred, ErrorTop))

ParseMatchCaseBlocks ==
    If(At({"Case"}), While(At({"Case"}), Call("parse_match_case", Default)), Error)

ParseMatchBody ==
    Expect("Newline")
    \o If(At({"Indent"}), Bump("Indent"), Error)
    \o ParseMatchCaseBlocks
    \o Expect("Dedent")

ParseMatchCase ==
    Bump("Case") \o Call("parse_match_patterns", Default)
    \o Eat("If", ExpectExpr(ParseNamed(Default)))
    \o ParseClauseBody \o Node("MatchCase")

ParseAsyncStatement ==
    Bump("Async")
    \o If(At({"Def"}), Lhs("parse_function_definition"),
       If(At({"With"}), Lhs("parse_with_statement"),
       If(At({"For"}), Lhs("parse_for_statement"),
          Error \o Call("parse_statement", Default))))

(* The decorators of what is no definition are dropped. *)
ParseDecorators ==
    LET NoDefinition == Error \o Change("discard") \o Call("parse_statement", Default)
    IN  While(At({"At"}), Call("decorator", Default) \o Expect("Newline"))
        \o If(At({"Def"}), Lhs("parse_function_definition"),
           If(At({"Class"}), Lhs("parse_class_definition"),
           If(At({"Async"}),
              If(Peek({"Def"}), Bump("Async") \o Lhs("parse_function_definition"), NoDefinition),
              NoDefinition)))

(* One decorator of parse_decorators. *)
Decorator == Bump("At") \o ParseNamed(Default) \o Node("Decorator")

ParseBodyStatements ==
    If(At({"Newline"}),
       Bump("Newline") \o If(At({"Indent"}), Call("parse_block", Default), ErrorBlock),
       If(AtSimpleStmt, Call("parse_simple_statements", Default), Error))

ParseBlock == Bump("Indent") \o List("BlockStatements", "parse_statement") \o Expect("Dedent")
-----------------------------------------------------------------------------
(* parse_parameter: lambdas have no annotations. *)
ParseParameter(annotation) ==
    Call("parse_identifier", Default)
    \o IF annotation = Skip THEN Skip ELSE Eat("Colon", ExpectExpr(annotation))

StarAnnotation == Call("parse_conditional_expression_or_higher_impl", StarredBitwiseOr)

(* The closure of parse_parameters.  Its flags and ast::Parameters are     *)
(* read off the parameters before: VarArg, KwArg, Param (ParamDefault with *)
(* a default), StarSep and SlashSep.                                       *)
KeywordOnly == Seen({"StarSep", "VarArg"})

StarParameter(annotation) ==
    Bump("Star")
    \o If(At(NameOrSoftKeyword),
          ParseParameter(annotation) \o When(At({"Equal"}), Error)
          \o When(KeywordOnly, ErrorStart) \o Node("VarArg"),
          When(KeywordOnly, ErrorStart) \o Node("StarSep"))

DoubleStarParameter(annotation) ==
    Bump("DoubleStar") \o ParseParameter(annotation)
    \o When(Seen({"KwArg"}), ErrorStart) \o When(At({"Equal"}), Error)
    \o When(Is("no parameter after the star"), ErrorStart) \o Node("KwArg")

SlashSeparator ==
    Bump("Slash")
    \o Unless(Seen({"Param", "ParamDefault", "VarArg", "KwArg"}), ErrorStart)
    \o When(Seen({"SlashSep"}), ErrorStart)
    \o When(KeywordOnly, ErrorStart) \o Node("SlashSep")

(* The steps of a parameter without a default are `none`. *)
ParseParameterWithDefault(annotation, none) ==
    ParseParameter(annotation)
    \o If(At({"Equal"}),
          Bump("Equal") \o If(AtExpr, ParseConditional \o Node("ParamDefault"), Error \o none),
          none)

PlainParameter(annotation) ==
    ParseParameterWithDefault(
        annotation, Node("Param") \o When(Seen({"ParamDefault"}), Unless(KeywordOnly, ErrorTop)))

Parameter(star, annotation) ==
    When(Seen({"KwArg"}), Error)
    \o If(At({"Star"}), StarParameter(star),
       If(At({"DoubleStar"}), DoubleStarParameter(annotation),
       If(At({"Slash"}), SlashSeparator,
       If(At(NameOrSoftKeyword), PlainParameter(annotation), Unreachable))))

(* parse_parameters and validate_parameters *)
ParseParameters ==
    Expect("Lpar") \o Commas("Parameters(FunctionDef)", "parameter", Default)
    \o When(Top({"StarSep"}), ErrorTop) \o Expect("Rpar")
    \o Report("duplicate parameters") \o Node("Parameters")

ParseLambdaParameters ==
    Commas("Parameters(Lambda)", "lambda_parameter", Default)
    \o When(Top({"StarSep"}), ErrorTop)
    \o Report("duplicate parameters") \o Node("Parameters")

ParseTypeParams ==
    Bump("Lsqb") \o Commas("TypeParams", "parse_type_param", Default) \o When(Nothing, Error)
    \o Expect("Rsqb") \o Node("TypeParams")

TypeParamDefault(parse) == Eat("Equal", ExpectExpr(parse))
ParamName == Call("parse_identifier", Default)

TypeVarTuple == Bump("Star") \o ParamName \o TypeParamDefault(StarAnnotation) \o Node("TypeVarTuple")
ParamSpec == Bump("DoubleStar") \o ParamName \o TypeParamDefault(ParseConditional) \o Node("ParamSpec")
TypeVar ==
    ParamName \o Eat("Colon", ExpectExpr(ParseConditional)) \o TypeParamDefault(ParseConditional) \o Node("TypeVar")

ParseTypeParam == If(At({"Star"}), TypeVarTuple, If(At({"DoubleStar"}), ParamSpec, TypeVar))

StatementRules == [
    parse_statement |-> ParseStatement,
    parse_single_simple_statement |-> ParseSingleSimpleStatement,
    parse_simple_statements |-> ParseSimpleStatements,
    parse_simple_statement |-> ParseSimpleStatement,
    parse_delete_statement |-> ParseDeleteStatement,
    delete_target |-> DeleteTarget,
    parse_return_statement |-> ParseReturnStatement,
    parse_raise_statement |-> ParseRaiseStatement,
    parse_import_statement |-> ParseImportStatement,
    parse_from_import_statement |-> ParseFromImportStatement,
    import_from_names |-> ImportFromNames,
    parse_import_alias |-> ParseAlias("parse_dotted_name"),
    parse_import_from_alias |-> ParseAlias("parse_identifier"),
    parse_dotted_name |-> ParseDottedName,
    parse_assert_statement |-> ParseAssertStatement,
    parse_global_statement |-> ParseNamesStatement("Global"),
    parse_nonlocal_statement |-> ParseNamesStatement("Nonlocal"),
    parse_type_alias_statement |-> ParseTypeAliasStatement,
    parse_ipython_escape_command_statement |-> ParseIpythonEscapeCommandStatement,
    parse_ipython_help_end_escape_command_statement |-> ParseIpythonHelpEnd,
    parse_assign_statement |-> ParseAssignStatement,
    assignment_value |-> AssignmentValue,
    parse_annotated_assignment_statement |-> ParseAnnotatedAssignmentStatement,
    parse_augmented_assignment_statement |-> ParseAugmentedAssignmentStatement,
    parse_if_statement |-> ParseIfStatement,
    parse_elif_clause |-> ParseElifClause,
    parse_else_clause |-> ParseElseClause,
    parse_try_statement |-> ParseTryStatement,
    parse_except_clause |-> ParseExceptClause,
    parse_for_statement |-> ParseForStatement,
    parse_while_statement |-> ParseWhileStatement,
    parse_function_definition |-> ParseFunctionDefinition,
    parse_class_definition |-> ParseClassDefinition,
    parse_with_statement |-> ParseWithStatement,
    parse_with_items |-> ParseWithItems,
    try_parse_parenthesized_with_items |-> TryParseParenthesizedWithItems,
    parse_with_item |-> ParseWithItem(ParseConditional),
    parse_speculative_with_item |-> ParseWithItem(ParseNamed(YieldOrStarredBitwiseOr)),
    try_parse_match_statement |-> TryParseMatchStatement,
    parse_match_statement |-> ParseMatchStatement,
    parse_match_subject_expression |-> ParseMatchSubjectExpression,
    parse_match_body |-> ParseMatchBody,
    parse_match_case |-> ParseMatchCase,
    parse_async_statement |-> ParseAsyncStatement,
    parse_decorators |-> ParseDecorators,
    decorator |-> Decorator,
    parse_body |-> ParseBodyStatements,
    parse_block |-> ParseBlock,
    parameter |-> Parameter(StarAnnotation, ParseConditional),
    lambda_parameter |-> Parameter(Skip, Skip),
    parse_parameters |-> ParseParameters,
    parse_lambda_parameters |-> ParseLambdaParameters,
    parse_type_params |-> ParseTypeParams,
    parse_type_param |-> ParseTypeParam]
=============================================================================
