----------------------------- MODULE ParserSteps -----------------------------
(***************************************************************************)
(* The vocabulary in which the parser's functions are written down.  A     *)
(* function of crates/python_parser/src/parser is a sequence of steps; the *)
(* constructors below return sequences, to be put together with \o, and    *)
(* module Parser says what each step does.  A branch is a conditional      *)
(* forward jump, a loop ends in a backward one.                            *)
(***************************************************************************)
EXTENDS TokenStream, Integers

Skip == <<>>

(* bump (and bump_ts, bump_value), bump_any, expect *)
Bump(k) == <<[do |-> "bump", set |-> {k}]>>
BumpOneOf(S) == <<[do |-> "bump", set |-> S]>>
BumpAny == <<[do |-> "bump_any"]>>
Expect(k) == <<[do |-> "expect", kind |-> k]>>

(* An assertion that fails: unreachable!() *)
Unreachable == <<[do |-> "unreachable"]>>

(* add_error at the current token, at the value parsed last, at the start  *)
(* of the function's node, at the missing block of a clause, and at every  *)
(* place that a validation finds.                                          *)
Error == <<[do |-> "error", at |-> "token"]>>
ErrorTop == <<[do |-> "error", at |-> "top"]>>
ErrorStart == <<[do |-> "error", at |-> "start"]>>
ErrorBlock == <<[do |-> "error", at |-> "block"]>>
Report(what) == <<[do |-> "report", what |-> what]>>

(* A node of one token, whose class is given or the kind of the token; a   *)
(* missing node; a node made of all values the function has parsed, the    *)
(* same keeping whether its first part was parenthesised.                  *)
Leaf(c) == <<[do |-> "leaf", is |-> c]>>
Literal == <<[do |-> "literal"]>>
Missing == <<[do |-> "missing"]>>
Node(c) == <<[do |-> "node", is |-> c, keep |-> FALSE]>>
NodeKeep(c) == <<[do |-> "node", is |-> c, keep |-> TRUE]>>

(* Other changes to the value parsed last: ParsedExpr::is_parenthesized,   *)
(* recovery::pattern_to_expr; dropping all values of the function.         *)
Change(how) == <<[do |-> "change", how |-> how]>>

(* Calls: the callee starts a node of its own at the current token, or     *)
(* goes on with the node its caller has started and the values that the    *)
(* caller has parsed (`lhs`, `start`).  It gets its own expression context *)
(* or the caller's.                                                        *)
SamePrecedence == 100
Calls(rule, ctx, same, prec, lhs) ==
    <<[do |-> "call", rule |-> rule, ctx |-> ctx, same |-> same, prec |-> prec, lhs |-> lhs]>>
Call(rule, ctx) == Calls(rule, ctx, FALSE, 0, FALSE)
CallSame(rule) == Calls(rule, {}, TRUE, 0, FALSE)
Lhs(rule) == Calls(rule, {}, FALSE, 0, TRUE)
LhsSame(rule) == Calls(rule, {}, TRUE, 0, TRUE)

(* bump an operator and parse its right operand with its precedence *)
Operand(rule) == <<[do |-> "operand", rule |-> rule]>>

(* parse_list, parse_comma_separated_list and parse_clauses *)
Lists(list, elem, ctx, same, sort) ==
    <<[do |-> "list", list |-> list, elem |-> elem, ctx |-> ctx, same |-> same, sort |-> sort]>>
List(list, elem) == Lists(list, elem, {}, FALSE, "plain")
Commas(list, elem, ctx) == Lists(list, elem, ctx, FALSE, "comma")
CommasSame(list, elem) == Lists(list, elem, {}, TRUE, "comma")
Clauses(list, elem) == Lists(list, elem, {}, FALSE, "clauses")

(* Parser::checkpoint and Parser::rewind, of one function. *)
Checkpoint == <<[do |-> "checkpoint"]>>
Rewind == <<[do |-> "rewind"]>>

(* Conditions: on the kind or the item of the current token and the kinds  *)
(* of the next two, on the value parsed last (`Bare`: and it is not in     *)
(* parentheses), on the expression context and the precedence the function *)
(* was called with, on the values parsed before by the same function or    *)
(* list, and on the mode.                                                  *)
At(S) == [test |-> "at", set |-> S]
NotAt(S) == [test |-> "not at", set |-> S]
Item(S) == [test |-> "item", set |-> S]
Peek(S) == [test |-> "peek", set |-> S]
Peek2(S, T) == [test |-> "peek2", first |-> S, second |-> T]
Top(S) == [test |-> "top", set |-> S]
Bare(S) == [test |-> "bare", set |-> S]
Parenthesized == [test |-> "parenthesized"]
Allows(flag) == [test |-> "allows", flag |-> flag]
Above(p) == [test |-> "above", prec |-> p]
Seen(S) == [test |-> "seen", set |-> S]
Has(S) == [test |-> "has", set |-> S]
Nothing == [test |-> "nothing"]
Is(fact) == [test |-> "is", fact |-> fact]
InMode(m) == [test |-> "mode", mode |-> m]

If(c, A, B) ==
    <<[do |-> "if", cond |-> c, skip |-> Len(A) + 2]>> \o A \o <<[do |-> "jump", by |-> Len(B) + 1]>> \o B
When(c, A) == <<[do |-> "if", cond |-> c, skip |-> Len(A) + 1]>> \o A
Unless(c, B) == If(c, Skip, B)

(* A loop with its ParserProgress. *)
While(c, A) ==
    <<[do |-> "while", cond |-> c, skip |-> Len(A) + 2]>> \o A \o <<[do |-> "jump", by |-> 0 - (Len(A) + 1)]>>

(* `if self.eat(kind) { ... }` *)
Eat(k, A) == When(At({k}), Bump(k) \o A)
=============================================================================
