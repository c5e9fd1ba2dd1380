---------------------------- MODULE PythonGrammar ----------------------------
(***************************************************************************)
(* What the grammar of Python says about parts of the language, to compare *)
(* the parser with: the items of a with statement, the parameters of a     *)
(* function, and how operators bind.  The with statement is spelled with   *)
(* names, parentheses, commas, `as`, `:=` and `*`.                         *)
(***************************************************************************)
EXTENDS Naturals, Sequences, FiniteSets

Without(s, k) == SubSeq(s, k + 1, Len(s))
Starts(s, k) == s # <<>> /\ s[1] = k
Ends(s, k) == s # <<>> /\ s[Len(s)] = k

(* s is written in parentheses, with something of the language L inside. *)
InParens(s, L(_)) == Len(s) >= 2 /\ Starts(s, "Lpar") /\ Ends(s, "Rpar") /\ L(SubSeq(s, 2, Len(s) - 1))

CommasOf(s) == {i \in DOMAIN s : s[i] = "Comma"}
Cut(s, C) ==
    LET E == C \cup {0, Len(s) + 1}
    IN  {SubSeq(s, e[1] + 1, e[2] - 1) :
            e \in {e \in E \X E : e[1] < e[2] /\ \A c \in C : ~(e[1] < c /\ c < e[2])}}

(* At least n + 1 members of L, separated by commas; the same with an      *)
(* optional trailing comma, that makes a tuple of one member.              *)
Separated(s, n, L(_)) ==
    \E C \in SUBSET CommasOf(s) : Cardinality(C) >= n /\ \A piece \in Cut(s, C) : L(piece)
Trailing(s, L(_)) == Separated(s, 0, L) \/ (Ends(s, "Comma") /\ Separated(SubSeq(s, 1, Len(s) - 1), 0, L))
TupleItems(s, L(_)) ==
    s = <<>> \/ Separated(s, 1, L) \/ (Ends(s, "Comma") /\ Separated(SubSeq(s, 1, Len(s) - 1), 0, L))

RECURSIVE Expression(_), Target(_)

NamedExpression(s) ==
    Expression(s) \/ (Len(s) > 2 /\ Starts(s, "Name") /\ s[2] = "ColonEqual" /\ Expression(Without(s, 2)))
StarNamed(s) == NamedExpression(s) \/ (Starts(s, "Star") /\ Expression(Without(s, 1)))
GroupOrTuple(s) == NamedExpression(s) \/ TupleItems(s, StarNamed)
CallArguments(s) == s = <<>> \/ Trailing(s, StarNamed)

(* A name, a group, a tuple, a call or a product. *)
Expression(s) ==
    \/ s = <<"Name">>
    \/ InParens(s, GroupOrTuple)
    \/ \E k \in 1..Len(s) - 2 : Expression(SubSeq(s, 1, k)) /\ InParens(Without(s, k), CallArguments)
    \/ \E k \in DOMAIN s : s[k] = "Star" /\ Expression(SubSeq(s, 1, k - 1)) /\ Expression(Without(s, k))

StarTarget(s) == Target(s) \/ (Starts(s, "Star") /\ Target(Without(s, 1)))
GroupOrTupleTarget(s) == Target(s) \/ TupleItems(s, StarTarget)
Target(s) == s = <<"Name">> \/ InParens(s, GroupOrTupleTarget)

WithItemOf(s) ==
    \/ Expression(s)
    \/ \E k \in DOMAIN s : s[k] = "As" /\ Expression(SubSeq(s, 1, k - 1)) /\ StarTarget(Without(s, k))

LegalWithItems(s) == Separated(s, 0, WithItemOf) \/ InParens(s, LAMBDA t : Trailing(t, WithItemOf))
-----------------------------------------------------------------------------
(* Parameters: a, b, a=1, *, *b, **b and /.  At most one slash, after some *)
(* parameter and before every star; at most one star, a bare one followed  *)
(* by a parameter; no parameter after the double star; before the star,    *)
(* none without default after one with; and every name only once.          *)
Stars == {"star", "args"}
Defaults == {"a", "b", "default"}

LegalParameters(ps) ==
    LET Names(i) == CASE ps[i] \in {"a", "default"} -> {"a"}
                      [] ps[i] \in {"b", "args", "kwargs"} -> {"b"}
                      [] OTHER -> {}
        AtMostOne(S) == Cardinality({i \in DOMAIN ps : ps[i] \in S}) <= 1
        After(S, i) == \E j \in 1..i - 1 : ps[j] \in S
    IN  /\ AtMostOne({"slash"}) /\ AtMostOne(Stars)
        /\ \A i \in DOMAIN ps :
            /\ ps[i] = "slash" => i > 1 /\ ~After(Stars, i)
            /\ ps[i] = "star" => i < Len(ps) /\ ps[i + 1] \in Defaults
            /\ ~After({"kwargs"}, i)
            /\ ps[i] \in {"a", "b"} /\ After({"default"}, i) => After(Stars, i)
            /\ \A j \in 1..i - 1 : Names(i) \cap Names(j) = {}
-----------------------------------------------------------------------------
(* Operators: the levels of the grammar from disjunction to await_primary, *)
(* and which level an operand must have: sums and the like lean to the     *)
(* left, a power takes a signed exponent.                                  *)
Levels == <<{"Or"}, {"And"}, {"Not"}, {"Less"}, {"Vbar"}, {"Plus"}, {"Star"}, {"USub"}, {"DoubleStar"}, {"Await"}>>
GrammarLevel(op) == CHOOSE l \in DOMAIN Levels : op \in Levels[l]

OperandFits(op, left, level) ==
    CASE op = "DoubleStar" -> IF left THEN level > GrammarLevel(op) ELSE level >= GrammarLevel("USub")
      [] op \in {"Or", "And", "Less"} -> level > GrammarLevel(op)
      [] OTHER -> IF left THEN level >= GrammarLevel(op) ELSE level > GrammarLevel(op)

LegalNots(s) == \A i \in DOMAIN s : s[i] = "Not" => i = 1 \/ s[i - 1] \in {"Or", "And"}
=============================================================================
