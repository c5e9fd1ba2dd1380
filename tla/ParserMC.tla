------------------------------- MODULE ParserMC -------------------------------
(***************************************************************************)
(* Programs to parse, by theme, and the grammar of Python to compare the   *)
(* parser with.                                                            *)
(***************************************************************************)
EXTENDS Parser, PythonGrammar
LOCAL INSTANCE SequencesExt

Program(mode, theme, parts, tokens) == [mode |-> mode, theme |-> theme, parts |-> parts, items |-> tokens]

Upto(n, S) == UNION {[1..k -> S] : k \in 0..n}
Joined(pieces, comma) ==
    FoldLeft(LAMBDA acc, p : IF acc = <<>> THEN p ELSE acc \o comma \o p, <<>>, pieces)

(* What could stand between `with` and its body: everything up to three    *)
(* tokens, the same in parentheses, and more around a parenthesis.         *)
WithTokens == {"Lpar", "Rpar", "Name", "Comma", "As", "ColonEqual", "Star"}
WithItemTokens ==
    Upto(3, WithTokens)
    \cup {<<"Lpar">> \o s \o <<"Rpar">> : s \in Upto(3, WithTokens)}
    \cup {<<"Lpar", "Name", "Comma">> \o s \o <<"Rpar">> : s \in Upto(2, WithTokens)}
    \cup {<<"Lpar", "Name", "Rpar">> \o s : s \in Upto(2, WithTokens)}
    \cup {<<"Lpar", "Name", "As", "Name", "Comma">> \o s \o <<"Rpar">> : s \in Upto(2, WithTokens)}
WithPrograms ==
    {Program("Module", "with", s, <<"With">> \o s \o <<"Colon", "Pass">>) : s \in WithItemTokens}

(* Parameters of functions and lambdas. *)
ParameterItems == [
    a |-> <<"Name">>, b |-> <<"Other">>, default |-> <<"Name", "Equal", "Int">>,
    star |-> <<"Star">>, args |-> <<"Star", "Other">>, kwargs |-> <<"DoubleStar", "Other">>, slash |-> <<"Slash">>]
ParameterPrograms ==
    LET Written(ps) == Joined([i \in DOMAIN ps |-> ParameterItems[ps[i]]], <<"Comma">>)
    IN  {Program("Module", "parameters", ps, <<"Def", "Name", "Lpar">> \o Written(ps) \o <<"Rpar", "Colon", "Pass">>) :
            ps \in Upto(3, DOMAIN ParameterItems)}
        \cup {Program("Expression", "parameters", ps, <<"Lambda">> \o Written(ps) \o <<"Colon", "Name">>) :
            ps \in Upto(2, DOMAIN ParameterItems)}

(* Three operands and the operators between them. *)
Operands == {<<"Name">>, <<"Minus", "Name">>, <<"Not", "Name">>, <<"Await", "Name">>,
             <<"Lpar", "Name", "Plus", "Name", "Rpar">>}
InfixOperators == {"Or", "And", "Less", "Vbar", "Plus", "Star", "DoubleStar"}
OperatorPrograms ==
    {Program("Expression", "operators", <<>>, x \o <<f>> \o y \o <<g>> \o z) :
        x \in Operands, f \in InfixOperators, y \in Operands, g \in InfixOperators, z \in {<<"Name">>}}

(* Every token after every prefix that opens some list or clause, with and *)
(* without something behind it: the parser has to get past all of it.      *)
AllItems ==
    {"Name", "Int", "Complex", "String", "FStringStart", "Lpar", "Rpar", "Lsqb", "Rsqb", "Lbrace",
     "Rbrace", "Comma", "Colon", "Semi", "Equal", "ColonEqual", "Dot", "Star", "DoubleStar", "Plus", "Vbar",
     "Slash", "At", "Rarrow", "Exclamation", "Question", "Unknown", "nl0", "nl1", "nl2",
     "IpyMagic", "As", "Async", "Await", "Case", "Class", "Def", "Elif", "Else", "Except", "False", "Finally",
     "For", "From", "If", "Import", "In", "Lambda", "Match", "Not", "Pass", "Return",
     "Try", "Type", "With", "Yield"}
CaseOf(s) == <<"Match", "Name", "Colon", "nl1", "Case">> \o s
Openings ==
    {<<>>, <<"Lpar">>, <<"Name", "Lpar">>, <<"Name", "Lsqb">>, <<"Lsqb">>, <<"Lbrace">>, <<"Lbrace", "Name", "Colon">>,
     <<"Def", "Name", "Lpar">>, <<"Def", "Name", "Lsqb">>, <<"Lambda">>, <<"With", "Lpar">>, <<"With", "Name", "As">>,
     <<"From", "Name", "Import">>, <<"From", "Name", "Import", "Lpar">>, <<"From", "Dot">>, <<"Import">>, <<"Del">>,
     <<"Global">>, <<"Nonlocal">>, <<"Assert", "Name", "Comma">>, <<"Raise">>, <<"Return">>, <<"Yield">>,
     <<"If">>, <<"If", "Name", "Colon", "nl1">>, <<"If", "Name", "Colon", "nl1", "Pass", "nl0">>,
     <<"While", "Name", "Colon">>, <<"For", "Name">>, <<"Try", "Colon", "Pass", "nl0">>,
     <<"Try", "Colon", "Pass", "nl0", "Except">>, <<"Class", "Name">>, <<"Class", "Name", "Lpar">>, <<"At">>,
     <<"At", "Name", "nl0">>, <<"Async">>, <<"Type", "Name", "Lsqb">>, <<"Name", "Equal">>, <<"Name", "Colon">>,
     <<"Name", "PlusEqual">>, <<"Name", "Semi">>, <<"Name">>, <<"Name", "If">>, <<"Name", "For">>, <<"Lsqb", "Name", "For">>,
     <<"Match">>, <<"Match", "Lpar", "Name", "Rpar">>, <<"Match", "Name", "Colon", "nl1">>, CaseOf(<<>>), CaseOf(<<"Lsqb">>),
     CaseOf(<<"Lpar">>), CaseOf(<<"Lbrace">>), CaseOf(<<"Name", "Lpar">>), CaseOf(<<"Int", "Plus">>), CaseOf(<<"Minus">>),
     <<"FStringStart", "Lbrace">>, <<"FStringStart", "Lbrace", "Name">>}
Endings == {<<>>, <<"Rpar", "nl0", "Pass">>}
JunkPrograms ==
    {Program("Module", "junk", <<>>, p \o <<k>> \o s) : p \in Openings, k \in AllItems, s \in Endings}
    \cup {Program(m, "junk", <<>>, <<j, k>>) : m \in {"Ipython", "Expression"}, j \in AllItems, k \in {"Question", "Name", "Rpar"}}

(* Well formed f-strings, and the forms that only Ipython has. *)
FStringPrograms ==
    {Program("Module", "junk", <<>>, <<"FStringStart">> \o s \o <<"FStringEnd">> \o t) :
        s \in {<<"Lbrace">> \o e \o f \o <<"Rbrace", "FStringMiddle">> :
                e \in {<<"Name">>, <<"Star", "Name">>, <<"Yield">>, <<"Lambda">>, <<>>},
                f \in {<<>>, <<"Equal">>, <<"Exclamation", "Name">>, <<"Exclamation", "Wild">>, <<"Exclamation">>,
                       <<"Colon", "FStringMiddle">>, <<"Colon", "Lbrace", "Name", "Rbrace">>}},
        t \in {<<>>, <<"String">>, <<"Bytes">>}}
HelpPrograms ==
    {Program("Ipython", "junk", <<>>, e \o <<"Question">> \o q) :
        e \in {<<"Name", "Lsqb", "Int", "Rsqb">>, <<"Name", "Dot", "Name">>, <<"Lpar", "Name", "Rpar">>, <<"Int">>},
        q \in Upto(2, {"Question"})}

AllPrograms ==
    WithPrograms \cup ParameterPrograms \cup OperatorPrograms \cup JunkPrograms \cup FStringPrograms \cup HelpPrograms
-----------------------------------------------------------------------------
(* A with statement, and a list of parameters of a function or a lambda,  *)
(* are accepted exactly when the grammar has them.  The parser decides     *)
(* with one speculation (try_parse_parenthesized_with_items) and a handful *)
(* of flags whether an opening parenthesis belongs to the statement or to  *)
(* the first expression; the flags of parse_parameters, the tree they      *)
(* leave behind and validate_parameters together find every illegal order, *)
(* every second star and slash, and every repeated name.                   *)
AcceptsAsGrammar ==
    Finished =>
        /\ input.theme = "with" => (errors = <<>> <=> LegalWithItems(input.parts))
        /\ input.theme = "parameters" => (errors = <<>> <=> LegalParameters(input.parts))

(* The operands of an operator bind more tightly than the operator does,   *)
(* to its right in particular, unless they are written in parentheses; and *)
(* an expression is accepted exactly when `not` stands nowhere but at the  *)
(* start and after `and` and `or`                                          *)
(* (parse_binary_expression_or_higher_recursive and the precedence checks  *)
(* of parse_lhs_expression).                                               *)
InParentheses(part) ==
    part.start > 0 /\ part.end < Len(items) /\ items[part.start] = "Lpar" /\ items[part.end + 1] = "Rpar"

Tightness(part) ==
    CASE InParentheses(part) \/ part.is = "Name" -> Len(Levels) + 1
      [] ~InParentheses(part) /\ part.op # "" -> GrammarLevel(part.op)
      [] ~InParentheses(part) /\ part.is \in {"Not", "USub", "Await"} -> GrammarLevel(part.is)

OperatorsBindAsGrammar ==
    input.theme = "operators" =>
        /\ Finished => (errors = <<>> <=> LegalNots(items))
        /\ errors = <<>> =>
            \A n \in DOMAIN vals :
                vals[n].is \in {"BinOp", "BoolOp", "Compare"} =>
                    \A i \in DOMAIN vals[n].kids :
                        OperandFits(vals[n].op, i = 1, Tightness(vals[n].kids[i]))
=============================================================================
