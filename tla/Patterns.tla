------------------------------- MODULE Patterns -------------------------------
(***************************************************************************)
(* The functions of crates/python_parser/src/parser/pattern.rs and         *)
(* recovery.rs.  MatchCapture is a name, MatchWildcard is `_`, and MatchAs *)
(* a pattern with a name (all are PatternMatchAs in the code).             *)
(***************************************************************************)
EXTENDS Statements

NumberKinds == {"Int", "Float", "Complex"}
LiteralPatternStart == {"None", "True", "False", "String", "Minus"} \cup NumberKinds
PatternStart == {"Star", "Name", "Lpar", "Lsqb", "Lbrace"} \cup LiteralPatternStart \cup SoftKeywords
MappingPatternStart == {"DoubleStar", "Name"} \cup LiteralPatternStart \cup SoftKeywords

(* AllowStarPattern *)
AllowStar == {"star pattern"}

ParsePattern(ctx) == Call("parse_match_pattern", ctx)
ParsePatternLhs == Call("parse_match_pattern_lhs", Default)
ToExpr == Change("pattern_to_expr")

ParseMatchPatterns ==
    ParsePattern(AllowStar)
    \o If(At({"Comma"}), Lhs("parse_sequence_match_pattern"), When(Top({"MatchStar"}), ErrorTop))

ParseMatchPattern ==
    LET NoStar == When(Top({"MatchStar"}), ErrorTop)
    IN  CallSame("parse_match_pattern_lhs")
        \o When(At({"Vbar"}),
                NoStar \o While(At({"Vbar"}), Bump("Vbar") \o ParsePatternLhs) \o Node("MatchOr"))
        \o Eat("As", NoStar \o Call("parse_identifier", Default) \o Node("MatchAs"))

ParseMatchPatternLhs ==
    If(At({"Lbrace"}), Call("parse_match_pattern_mapping", Default),
    If(At({"Star"}), Call("parse_match_pattern_star", Default) \o Unless(Allows("star pattern"), ErrorTop),
    If(At({"Lpar", "Lsqb"}), Call("parse_parenthesized_or_sequence_pattern", Default),
       Call("parse_match_pattern_literal", Default))))
    \o When(At({"Lpar"}), Lhs("parse_match_pattern_class"))
    \o When(At({"Plus", "Minus"}), Lhs("parse_complex_literal_pattern"))

ParseMatchPatternMapping ==
    Bump("Lbrace") \o Commas("MatchPatternMapping", "mapping_item", Default) \o Expect("Rbrace")
    \o Node("MatchMapping")

(* The closure of parse_match_pattern_mapping. *)
MappingItem ==
    If(At({"DoubleStar"}),
       Bump("DoubleStar") \o Call("parse_identifier", Default)
       \o When(Seen({"Rest"}), ErrorStart) \o Node("Rest"),
       ParsePatternLhs \o Unless(Top({"MatchValue", "MatchSingleton"}), ErrorTop) \o ToExpr
       \o Expect("Colon") \o ParsePattern(Default) \o When(Seen({"Rest"}), ErrorStart))

ParseMatchPatternStar == Bump("Star") \o Call("parse_identifier", Default) \o Node("MatchStar")

ParseParenthesizedOrSequencePattern ==
    LET Open(open, close, rest) ==
            Bump(open) \o When(At({"Newline", "Colon"}), Error)
            \o If(At({close}), Bump(close) \o Node("MatchSequence"), ParsePattern(AllowStar) \o rest)
    IN  If(At({"Lpar"}),
           Open("Lpar", "Rpar", If(At({"Comma"}), Lhs("parse_tuple_match_pattern"), Expect("Rpar"))),
           Open("Lsqb", "Rsqb", Lhs("parse_list_match_pattern")))

(* parse_sequence_match_pattern, without and with parentheses.  The comma  *)
(* is not expected when the token after the current one closes.            *)
ParseSequenceMatchPattern ==
    Expect("Comma") \o Commas("SequenceMatchPattern", "parse_match_pattern", AllowStar)
    \o Node("MatchSequence")

ParseSequenceMatchPatternIn(close, list) ==
    If(At({close}), Skip, If(Peek({close}), Eat("Comma", Skip), Expect("Comma")))
    \o Commas(list, "parse_match_pattern", AllowStar)
    \o Expect(close) \o Node("MatchSequence")

(* The end of parse_match_pattern_literal, with                            *)
(* parse_attr_expr_for_match_pattern: a name, dotted or not.                *)
ValueOf(A) == A \o Node("MatchValue")

ParseNamePattern ==
    If(At(NameOrKeyword),
       If(Peek({"Dot"}),
          ValueOf(Call("parse_identifier", Default) \o While(At({"Dot"}), Lhs("parse_attribute_expression"))),
       If(Item({"Wild"}), Leaf("MatchWildcard"),
          Call("parse_identifier", Default) \o Node("MatchCapture"))),
       Error \o ValueOf(Missing))

ParseMatchPatternLiteral ==
    If(At(Singletons), Leaf("MatchSingleton"),
    If(At({"String", "FStringStart"}), ValueOf(Call("parse_strings", Default)),
    If(At(NumberKinds), ValueOf(Literal),
    If(At(UnaryArithmetic),
       If(Peek(NumberKinds),
          ValueOf(Call("parse_unary_expression", Default) \o When(Top({"UAdd"}), ErrorTop)),
          ParseNamePattern),
       ParseNamePattern))))

ParseComplexLiteralPattern ==
    BumpOneOf({"Plus", "Minus"})
    \o Unless(Is("real number"), ErrorTop) \o ToExpr
    \o ParsePatternLhs
    \o Unless(Is("complex number"), ErrorTop) \o ToExpr
    \o Node("BinOp") \o Node("MatchValue")

ParseMatchPatternClass ==
    Unless(Is("class name"), ErrorTop) \o ToExpr
    \o Call("pattern_arguments", Default) \o Node("MatchClass")

(* The arguments of parse_match_pattern_class, from arguments_start on, and *)
(* the closure that parses one.                                            *)
PatternArguments ==
    Bump("Lpar") \o Commas("MatchPatternClassArguments", "pattern_argument", Default) \o Expect("Rpar")
    \o Node("PatternArguments")

PatternArgument ==
    ParsePattern(Default)
    \o If(At({"Equal"}),
          Bump("Equal") \o Unless(Top({"MatchCapture"}), ErrorTop) \o ParsePattern(Default)
          \o Node("PatternKeyword"),
          When(Seen({"PatternKeyword"}), ErrorStart))

(* recovery::pattern_to_expr: the expression a pattern becomes; a value    *)
(* pattern becomes its value.                                              *)
PatternToExpr(pattern) ==
    CASE pattern.is = "MatchValue" -> pattern.kids[1].is
      [] pattern.is = "MatchSingleton" -> "Singleton"
      [] pattern.is = "MatchSequence" -> "List"
      [] pattern.is = "MatchMapping" -> "Dict"
      [] pattern.is = "MatchClass" -> "Call"
      [] pattern.is = "MatchStar" -> "Starred"
      [] pattern.is = "MatchOr" -> "BinOp"
      [] OTHER -> "Name"

PatternRules == [
    parse_match_patterns |-> ParseMatchPatterns,
    parse_match_pattern |-> ParseMatchPattern,
    parse_match_pattern_lhs |-> ParseMatchPatternLhs,
    parse_match_pattern_mapping |-> ParseMatchPatternMapping,
    mapping_item |-> MappingItem,
    parse_match_pattern_star |-> ParseMatchPatternStar,
    parse_parenthesized_or_sequence_pattern |-> ParseParenthesizedOrSequencePattern,
    parse_sequence_match_pattern |-> ParseSequenceMatchPattern,
    parse_tuple_match_pattern |-> ParseSequenceMatchPatternIn("Rpar", "SequenceMatchPattern(Tuple)"),
    parse_list_match_pattern |-> ParseSequenceMatchPatternIn("Rsqb", "SequenceMatchPattern(List)"),
    parse_match_pattern_literal |-> ParseMatchPatternLiteral,
    parse_complex_literal_pattern |-> ParseComplexLiteralPattern,
    parse_match_pattern_class |-> ParseMatchPatternClass,
    pattern_arguments |-> PatternArguments,
    pattern_argument |-> PatternArgument]
=============================================================================
