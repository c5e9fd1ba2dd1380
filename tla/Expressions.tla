----------------------------- MODULE Expressions -----------------------------
(***************************************************************************)
(* The functions of crates/python_parser/src/parser/expression.rs.         *)
(***************************************************************************)
EXTENDS ParserSteps

NewlineEof == {"Newline", "EndOfFile"}

LiteralSet == {"Int", "Float", "Complex", "String", "Ellipsis", "True", "False", "None"}

(* EXPR_SET and at_expr *)
ExprSet ==
    {"Name", "Minus", "Plus", "Tilde", "Star", "DoubleStar", "Lpar", "Lbrace", "Lsqb", "Lambda",
     "Await", "Not", "Yield", "FStringStart", "IpyEscapeCommand"} \cup LiteralSet
AtExpr == At(ExprSet \cup SoftKeywords)

EndExprSet ==
    {"EndOfFile", "Newline", "Semi", "Colon", "Rbrace", "Rsqb", "Rpar", "Comma", "Dedent", "If",
     "Else", "As", "From", "For", "Async", "In", "Equal", "Exclamation"}

EndSequenceSet == EndExprSet \ {"Comma"}

(* ExpressionContext *)
Default == {}
StarredConditional == {"starred"}
StarredBitwiseOr == {"starred", "bitwise_or"}
YieldOrStarredBitwiseOr == {"starred", "bitwise_or", "yield"}

(* OperatorPrecedence, in the order of the enumeration. *)
Initial == 0
NotPrecedence == 3
ComparisonPrecedence == 4
BitOrPrecedence == 5
PosNegBitNot == 11
Exponent == 12
AwaitPrecedence == 13

(* BinaryLikeOperator::precedence for the kind an operator starts with. *)
PrecedenceOf(k) ==
    CASE k = "Or" -> 1
      [] k = "And" -> 2
      [] k = "Vbar" -> BitOrPrecedence
      [] k = "CircumFlex" -> 6
      [] k = "Amper" -> 7
      [] k \in {"LeftShift", "RightShift"} -> 8
      [] k \in {"Plus", "Minus"} -> 9
      [] k \in {"Star", "At", "Slash", "DoubleSlash", "Percent"} -> 10
      [] k = "DoubleStar" -> Exponent
      [] OTHER -> ComparisonPrecedence

(* token_kind_to_cmp_op: the first token of a comparison; `not` counts     *)
(* only before `in`.                                                       *)
CmpOperators == {"EqEqual", "NotEqual", "Less", "LessEqual", "Greater", "GreaterEqual", "Is", "In"}

OneStarred == Bare({"Starred"})
ParseConditional == Call("parse_conditional_expression_or_higher_impl", Default)
ParseNamed(ctx) == Call("parse_named_expression_or_higher", ctx)
ParseSimple == Call("parse_simple_expression", Default)

ParseExpressionList ==
    CallSame("parse_conditional_expression_or_higher_impl")
    \o When(At({"Comma"}), LhsSame("parse_tuple_expression"))

ParseNamedExpressionOrHigher ==
    CallSame("parse_conditional_expression_or_higher_impl")
    \o When(At({"ColonEqual"}), Lhs("parse_named_expression"))

ParseConditionalExpressionOrHigher ==
    If(At({"Lambda"}),
       Call("parse_lambda_expr", Default),
       CallSame("parse_simple_expression") \o When(At({"If"}), Lhs("parse_if_expression")))

ParseSimpleExpression == CallSame("parse_binary_expression_or_higher")

ParseBinaryExpressionOrHigher ==
    Calls("parse_lhs_expression", {}, TRUE, SamePrecedence, FALSE)
    \o Calls("parse_binary_expression_or_higher_recursive", {}, TRUE, SamePrecedence, TRUE)

(* The left part stays parenthesised in the eyes of the callers. *)
ParseBinaryExpressionRecursive ==
    While(Is("operator binds tighter"),
          If(At({"And"}), LhsSame("parse_boolean_and"),
          If(At({"Or"}), LhsSame("parse_boolean_or"),
          If(At(BinaryOperators),
             Operand("parse_binary_expression_or_higher") \o NodeKeep("BinOp"),
             LhsSame("parse_comparison_expression")))))

ParseLhsExpression ==
    If(At(UnaryOperators),
       If(At({"Not"}),
          CallSame("parse_unary_expression") \o When(Above(NotPrecedence), ErrorTop),
          CallSame("parse_unary_expression")
          \o When(Above(PosNegBitNot), Unless(Is("exponent"), ErrorTop))),
    If(At({"Star"}),
       CallSame("parse_starred_expression")
       \o If(Above(Initial), ErrorTop, Unless(Allows("starred"), ErrorTop)),
    If(At({"Await"}),
       Call("parse_await_expression", Default) \o When(Above(AwaitPrecedence - 1), ErrorTop),
    If(At({"Lambda"}),
       Call("parse_lambda_expr", Default) \o ErrorTop,
    If(At({"Yield"}),
       Call("parse_yield_expression", Default)
       \o If(Above(Initial), ErrorTop, Unless(Allows("yield"), ErrorTop)),
       Call("parse_atom", Default) \o Lhs("parse_postfix_expression"))))))

ParseExpressionWithBitwiseOrPrecedence ==
    ParseConditional
    \o When(Bare({"Compare", "BoolOp", "Not", "IfExp", "Lambda"}), ErrorTop)

ParseIdentifier ==
    If(At(NameOrSoftKeyword), Leaf("Name"),
    If(At(Keywords), Error \o Leaf("Name"), Error \o Missing))

ParseName == Leaf("Name")

ParseAtom ==
    If(At({"Float", "Complex", "Int", "True", "False", "None", "Ellipsis"}), Literal,
    If(At({"Name"}), ParseName,
    If(At({"IpyEscapeCommand"}), Call("parse_ipython_escape_command_expression", Default),
    If(At({"String", "FStringStart"}), Call("parse_strings", Default),
    If(At({"Lpar"}), Call("parse_parenthesized_expression", Default),
    If(At({"Lsqb"}), Call("parse_list_like_expression", Default),
    If(At({"Lbrace"}), Call("parse_set_or_dict_like_expression", Default),
    If(At(Keywords), Call("parse_identifier", Default), Error \o Missing))))))))

(* parse_postfix_expression and parse_call_expression.  The expression     *)
(* around the postfixes is as parenthesised as the atom it starts with.    *)
ParsePostfixExpression ==
    While(At({"Lpar", "Lsqb", "Dot"}),
          If(At({"Lpar"}), Call("parse_arguments", Default) \o NodeKeep("Call"),
          If(At({"Lsqb"}), Lhs("parse_subscript_expression"), Lhs("parse_attribute_expression"))))

ParseArguments ==
    Bump("Lpar") \o Commas("Arguments", "argument", Default) \o Expect("Rpar")
    \o Report("duplicate keywords") \o Node("Arguments")

(* The closure of parse_arguments. *)
Argument ==
    If(At({"DoubleStar"}),
       Bump("DoubleStar") \o ParseConditional \o Node("Unpacking"),
       ParseNamed(StarredConditional)
       \o If(At({"Async", "For"}),
             When(OneStarred, ErrorTop) \o Lhs("parse_generator_expression"),
             When(Seen({"Unpacking"}), When(OneStarred, ErrorTop)))
       \o If(At({"Equal"}),
             Bump("Equal") \o Unless(Top({"Name"}), ErrorTop) \o ParseConditional \o Node("Keyword"),
             Unless(OneStarred, When(Seen({"Unpacking", "Keyword"}), ErrorTop))))

ParseSubscriptExpression ==
    Bump("Lsqb")
    \o If(At({"Rsqb"}), Error \o Leaf("Name"), Call("subscript_slices", Default) \o Expect("Rsqb"))
    \o NodeKeep("Subscript")

(* The slices of parse_subscript_expression, from slice_start on. *)
SubscriptSlices ==
    Call("parse_slice", Default)
    \o If(At({"Comma"}),
          Bump("Comma") \o Commas("Slices", "parse_slice", Default) \o Node("Tuple"),
          When(Top({"Starred"}), Node("Tuple")))

ParseSlice ==
    LET Rest == Expect("Colon")
                \o Unless(At({"Comma", "Colon", "Rsqb"} \cup NewlineEof), ParseConditional)
                \o Eat("Colon", Unless(At({"Comma", "Rsqb"} \cup NewlineEof), ParseConditional))
                \o Node("Slice")
    IN  If(AtExpr,
           ParseNamed(StarredConditional)
           \o Unless(At({"Rsqb", "Comma"} \cup NewlineEof),
                     When(Bare({"Starred", "Named"}), ErrorTop) \o Rest),
           Rest)

(* parse_unary_expression *)
ParseUnaryExpression ==
    LET Unary(k, c, p) ==
            Bump(k) \o Calls("parse_binary_expression_or_higher", {}, TRUE, p, FALSE) \o Node(c)
    IN  If(At({"Not"}), Unary("Not", "Not", NotPrecedence),
        If(At({"Plus"}), Unary("Plus", "UAdd", PosNegBitNot),
        If(At({"Minus"}), Unary("Minus", "USub", PosNegBitNot), Unary("Tilde", "Invert", PosNegBitNot))))

ParseAttributeExpression == Bump("Dot") \o Call("parse_identifier", Default) \o NodeKeep("Attribute")

ParseBooleanExpression(op) ==
    LET Value == Bump(op)
                 \o Calls("parse_binary_expression_or_higher", {}, TRUE, PrecedenceOf(op), FALSE)
    IN  Value \o While(At({op}), Value) \o NodeKeep("BoolOp")

BumpCmpOp ==
    If(At({"Is"}), Bump("Is") \o When(At({"Not"}), Bump("Not")),
    If(At({"Not"}), Bump("Not") \o Bump("In"), BumpOneOf(CmpOperators)))

ParseComparisonExpression ==
    While(Is("comparison"),
          BumpCmpOp
          \o Calls("parse_binary_expression_or_higher", {}, TRUE, ComparisonPrecedence, FALSE))
    \o NodeKeep("Compare")

ParseStringOrByteLiteral ==
    When(Item({"BadString"}), Error) \o If(Item({"Bytes"}), Leaf("Bytes"), Leaf("Str"))

HandleImplicitlyConcatenatedStrings == When(Has({"Bytes"}), When(Has({"Str", "FString"}), ErrorStart))

ParseStrings ==
    While(At({"String", "FStringStart"}),
          If(At({"String"}), ParseStringOrByteLiteral, Call("parse_fstring", Default)))
    \o HandleImplicitlyConcatenatedStrings
    \o Node("Strings")

ParseFString ==
    Bump("FStringStart") \o List("FStringElements", "fstring_element") \o Expect("FStringEnd")
    \o Node("FString")

(* The closure of parse_fstring_elements. *)
FStringElement ==
    If(At({"Lbrace"}), Call("parse_fstring_expression_element", Default),
    If(At({"FStringMiddle"}), Leaf("FStringMiddle"),
    If(At({"Unknown"}), BumpAny, Unreachable)))

ParseFStringExpressionElement ==
    Bump("Lbrace")
    \o Call("parse_expression_list", YieldOrStarredBitwiseOr)
    \o When(Bare({"Lambda"}), ErrorTop)
    \o Eat("Equal", Skip)
    \o Eat("Exclamation",
           If(At({"Name"}), When(Item({"Wild"}), Error) \o Bump("Name"), Error \o BumpAny))
    \o Eat("Colon", Call("format_spec", Default))
    \o If(At({"Rbrace"}), Bump("Rbrace"), Error)
    \o Node("FStringExpression")

(* The format spec of parse_fstring_expression_element. *)
FormatSpec == List("FStringElements(FormatSpec)", "fstring_element") \o Node("FormatSpec")

ParseListLikeExpression ==
    Bump("Lsqb")
    \o When(At(NewlineEof), Error)
    \o If(At({"Rsqb"}), Bump("Rsqb") \o Node("List"),
          ParseNamed(StarredBitwiseOr)
          \o If(At({"Async", "For"}),
                When(OneStarred, ErrorTop) \o Lhs("parse_list_comprehension_expression"),
                Lhs("parse_list_expression")))

ParseSetOrDictLikeExpression ==
    Bump("Lbrace")
    \o When(At(NewlineEof), Error)
    \o If(At({"Rbrace"}), Bump("Rbrace") \o Node("Dict"),
       If(At({"DoubleStar"}),
          Bump("DoubleStar") \o Call("parse_expression_with_bitwise_or_precedence", Default)
          \o Lhs("parse_dictionary_expression"),
          ParseNamed(StarredBitwiseOr)
          \o If(At({"Async", "For"}),
                When(OneStarred, ErrorTop) \o Lhs("parse_set_comprehension_expression"),
             If(At({"Colon"}),
                When(Bare({"Starred", "Named"}), ErrorTop)
                \o Bump("Colon") \o ParseConditional \o Node("DictItem")
                \o If(At({"Async", "For"}),
                      Lhs("parse_dictionary_comprehension_expression"),
                      Lhs("parse_dictionary_expression")),
                Lhs("parse_set_expression")))))

ParseParenthesizedExpression ==
    Bump("Lpar")
    \o When(At(NewlineEof), Error)
    \o If(At({"Rpar"}), Bump("Rpar") \o Node("ParenthesizedTuple"),
          ParseNamed(YieldOrStarredBitwiseOr)
          \o If(At({"Comma"}), Lhs("parse_parenthesized_tuple"),
             If(At({"Async", "For"}),
                When(OneStarred, ErrorTop) \o Lhs("parse_parenthesized_generator"),
                When(Top({"Starred"}), ErrorTop) \o Expect("Rpar") \o Change("parenthesize"))))

(* What parse_tuple_expression, parse_list_expression, parse_set_expression *)
(* and parse_dictionary_expression do first. *)
CommaAfterFirst == Unless(At(EndSequenceSet), Expect("Comma"))

ParseTupleExpression ==
    CommaAfterFirst
    \o CommasSame("TupleElements", "parse_conditional_expression_or_higher_impl")
    \o Node("Tuple")

ParseTupleExpressionOfNamed ==
    CommaAfterFirst
    \o Commas("TupleElements", "parse_named_expression_or_higher", StarredBitwiseOr)
    \o Node("Tuple")

ParseTupleExpressionParenthesized ==
    CommaAfterFirst
    \o Commas("TupleElements(Parenthesized)", "parse_named_expression_or_higher", StarredBitwiseOr)
    \o Expect("Rpar")
    \o Node("ParenthesizedTuple")

ParseListExpression ==
    CommaAfterFirst
    \o Commas("ListElements", "parse_named_expression_or_higher", StarredBitwiseOr)
    \o Expect("Rsqb")
    \o Node("List")

ParseSetExpression ==
    CommaAfterFirst
    \o Commas("SetElements", "parse_named_expression_or_higher", StarredBitwiseOr)
    \o Expect("Rbrace")
    \o Node("Set")

ParseDictionaryExpression ==
    CommaAfterFirst \o Commas("DictElements", "dict_item", Default) \o Expect("Rbrace") \o Node("Dict")

(* The closure of parse_dictionary_expression. *)
DictItem ==
    If(At({"DoubleStar"}),
       Bump("DoubleStar") \o Call("parse_expression_with_bitwise_or_precedence", Default),
       ParseConditional \o Expect("Colon") \o ParseConditional)
    \o Node("DictItem")

ParseGenerators == While(At({"For", "Async"}), Call("parse_comprehension", Default))

ParseComprehension ==
    If(At({"Async"}), Bump("Async") \o Expect("For"), Bump("For"))
    \o Call("parse_expression_list", StarredConditional \cup {"exclude_in"})
    \o Report("assignment target")
    \o Expect("In")
    \o ParseSimple
    \o While(At({"If"}), Bump("If") \o ParseSimple)
    \o Node("Comprehension")

ParseGeneratorExpression == ParseGenerators \o Node("Generator")
ParseGeneratorExpressionParenthesized == ParseGenerators \o Expect("Rpar") \o Node("Generator")
ParseListComprehensionExpression == ParseGenerators \o Expect("Rsqb") \o Node("ListComp")
ParseDictionaryComprehensionExpression == ParseGenerators \o Expect("Rbrace") \o Node("DictComp")
ParseSetComprehensionExpression == ParseGenerators \o Expect("Rbrace") \o Node("SetComp")

ParseStarredExpression ==
    Bump("Star")
    \o If(Allows("bitwise_or"),
          Call("parse_expression_with_bitwise_or_precedence", Default),
          CallSame("parse_conditional_expression_or_higher_impl"))
    \o Node("Starred")

ParseAwaitExpression ==
    Bump("Await")
    \o Calls("parse_binary_expression_or_higher", {}, FALSE, AwaitPrecedence, FALSE)
    \o Node("Await")

ParseYieldFromExpression ==
    Bump("From") \o Call("parse_expression_list", Default) \o When(Top({"Tuple"}), ErrorTop) \o Node("YieldFrom")

ParseYieldExpression ==
    Bump("Yield")
    \o If(At({"From"}),
          ParseYieldFromExpression,
          When(AtExpr, Call("parse_expression_list", StarredBitwiseOr)) \o Node("Yield"))

ParseNamedExpression ==
    Bump("ColonEqual") \o Unless(Top({"Name"}), ErrorTop) \o ParseConditional \o Node("Named")

ParseLambdaExpr ==
    Bump("Lambda")
    \o Unless(At({"Colon"}), Call("parse_lambda_parameters", Default))
    \o Expect("Colon") \o ParseConditional \o Node("Lambda")

ParseIfExpression ==
    Bump("If") \o ParseSimple \o Expect("Else") \o ParseConditional \o Node("IfExp")

ParseIpythonEscapeCommandExpression ==
    If(Item({"IpyMagic"}), Leaf("IpyEscapeCommand"), Unreachable)
    \o Unless(InMode("Ipython"), ErrorTop)

ExpressionRules == [
    parse_expression_list |-> ParseExpressionList,
    parse_named_expression_or_higher |-> ParseNamedExpressionOrHigher,
    parse_conditional_expression_or_higher_impl |-> ParseConditionalExpressionOrHigher,
    parse_simple_expression |-> ParseSimpleExpression,
    parse_binary_expression_or_higher |-> ParseBinaryExpressionOrHigher,
    parse_binary_expression_or_higher_recursive |-> ParseBinaryExpressionRecursive,
    parse_lhs_expression |-> ParseLhsExpression,
    parse_expression_with_bitwise_or_precedence |-> ParseExpressionWithBitwiseOrPrecedence,
    parse_identifier |-> ParseIdentifier,
    parse_atom |-> ParseAtom,
    parse_postfix_expression |-> ParsePostfixExpression,
    parse_arguments |-> ParseArguments,
    argument |-> Argument,
    parse_subscript_expression |-> ParseSubscriptExpression,
    subscript_slices |-> SubscriptSlices,
    parse_slice |-> ParseSlice,
    parse_unary_expression |-> ParseUnaryExpression,
    parse_attribute_expression |-> ParseAttributeExpression,
    parse_boolean_and |-> ParseBooleanExpression("And"),
    parse_boolean_or |-> ParseBooleanExpression("Or"),
    parse_comparison_expression |-> ParseComparisonExpression,
    parse_strings |-> ParseStrings,
    parse_fstring |-> ParseFString,
    fstring_element |-> FStringElement,
    parse_fstring_expression_element |-> ParseFStringExpressionElement,
    format_spec |-> FormatSpec,
    parse_list_like_expression |-> ParseListLikeExpression,
    parse_set_or_dict_like_expression |-> ParseSetOrDictLikeExpression,
    parse_parenthesized_expression |-> ParseParenthesizedExpression,
    parse_tuple_expression |-> ParseTupleExpression,
    parse_parenthesized_tuple |-> ParseTupleExpressionParenthesized,
    parse_tuple_of_named |-> ParseTupleExpressionOfNamed,
    parse_list_expression |-> ParseListExpression,
    parse_set_expression |-> ParseSetExpression,
    parse_dictionary_expression |-> ParseDictionaryExpression,
    dict_item |-> DictItem,
    parse_comprehension |-> ParseComprehension,
    parse_generator_expression |-> ParseGeneratorExpression,
    parse_parenthesized_generator |-> ParseGeneratorExpressionParenthesized,
    parse_list_comprehension_expression |-> ParseListComprehensionExpression,
    parse_dictionary_comprehension_expression |-> ParseDictionaryComprehensionExpression,
    parse_set_comprehension_expression |-> ParseSetComprehensionExpression,
    parse_starred_expression |-> ParseStarredExpression,
    parse_await_expression |-> ParseAwaitExpression,
    parse_yield_expression |-> ParseYieldExpression,
    parse_named_expression |-> ParseNamedExpression,
    parse_lambda_expr |-> ParseLambdaExpr,
    parse_if_expression |-> ParseIfExpression,
    parse_ipython_escape_command_expression |-> ParseIpythonEscapeCommandExpression]
=============================================================================
