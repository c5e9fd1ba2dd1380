------------------------------ MODULE ListKinds ------------------------------
(***************************************************************************)
(* RecoveryContextKind of crates/python_parser/src/parser/mod.rs: what a   *)
(* list of each kind is made of and where it ends.  A kind with a          *)
(* parameter that changes nothing but the flag has one name per parameter. *)
(***************************************************************************)
EXTENDS Patterns, TLC

WithItemsKinds ==
    {"WithItems(Parenthesized)", "WithItems(ParenthesizedExpression)", "WithItems(Unparenthesized)"}
SequencePatternKinds ==
    {"SequenceMatchPattern", "SequenceMatchPattern(Tuple)", "SequenceMatchPattern(List)"}
ParametersKinds == {"Parameters(FunctionDef)", "Parameters(Lambda)"}
FStringKinds == {"FStringElements", "FStringElements(FormatSpec)"}
TupleKinds == {"TupleElements", "TupleElements(Parenthesized)"}

(* allow_trailing_comma *)
AllowTrailingComma ==
    {"Slices", "SetElements", "ListElements", "DictElements", "Arguments", "MatchPatternMapping",
     "MatchPatternClassArguments", "WithItems(Parenthesized)", "TypeParams", "DeleteTargets",
     "ImportFromAsNames(Parenthesized)"}
    \cup TupleKinds \cup SequencePatternKinds \cup ParametersKinds

(* The tokens for which list_terminator_kind is Regular, besides the end   *)
(* of the file.                                                            *)
RegularTerminators(kind) ==
    CASE kind = "BlockStatements" -> {"Dedent"}
      [] kind = "Elif" -> {"Else"}
      [] kind = "Except" -> {"Finally", "Else"}
      [] kind \in {"AssignmentTargets", "ImportNames", "DeleteTargets", "Identifiers"} -> {"Newline", "Semi"}
      [] kind \in {"ImportFromAsNames", "ImportFromAsNames(Parenthesized)"} -> {"Rpar", "Semi", "Newline"}
      [] kind \in {"TypeParams", "Slices", "ListElements", "SequenceMatchPattern(List)"} -> {"Rsqb"}
      [] kind \in {"SetElements", "DictElements", "MatchPatternMapping", "FStringElements(FormatSpec)"} ->
            {"Rbrace"}
      [] kind \in {"TupleElements(Parenthesized)", "SequenceMatchPattern(Tuple)", "Arguments",
                   "MatchPatternClassArguments", "Parameters(FunctionDef)", "WithItems(Parenthesized)"} ->
            {"Rpar"}
      [] kind = "TupleElements" -> EndSequenceSet
      [] kind = "SequenceMatchPattern" -> {"Colon", "If"}
      [] kind \in {"Parameters(Lambda)", "WithItems(Unparenthesized)", "WithItems(ParenthesizedExpression)"} ->
            {"Colon"}
      [] kind = "FStringElements" -> {"FStringEnd"}
      [] OTHER -> {}

(* The tokens for which it is ErrorRecovery. *)
RecoveryTerminators(kind) ==
    CASE kind = "TypeParams" -> {"Newline", "Colon", "Equal", "Lpar"}
      [] kind \in ParametersKinds -> {"Rarrow"} \cup CompoundStmtSet
      [] kind = "WithItems(Parenthesized)" -> {"Colon"}
      [] kind \in FStringKinds -> {"Newline"}
      [] OTHER -> {}

(* is_list_element *)
ElementStart(kind) ==
    CASE kind \in {"ModuleStatements", "BlockStatements"} -> StmtStart
      [] kind = "Elif" -> {"Elif"}
      [] kind = "Except" -> {"Except"}
      [] kind = "AssignmentTargets" -> {"Equal"}
      [] kind = "TypeParams" -> TypeParamStart
      [] kind \in {"ImportNames", "Identifiers"} -> NameOrSoftKeyword
      [] kind \in {"ImportFromAsNames", "ImportFromAsNames(Parenthesized)"} -> {"Star"} \cup NameOrSoftKeyword
      [] kind = "Slices" -> {"Colon"} \cup ExprSet \cup SoftKeywords
      [] kind \in SequencePatternKinds -> {"Plus"} \cup PatternStart
      [] kind = "MatchPatternMapping" -> {"Star"} \cup MappingPatternStart
      [] kind = "MatchPatternClassArguments" -> PatternStart
      [] kind \in ParametersKinds -> {"Star", "DoubleStar", "Slash"} \cup NameOrSoftKeyword
      [] kind \in FStringKinds -> {"FStringMiddle", "Lbrace"}
      [] OTHER -> ExprSet \cup SoftKeywords

(* Mutant: a keyword counts as the start of a parameter. *)
AtElementOrKeyword(kind, k) == k \in ElementStart(kind) \/ (kind \in ParametersKinds /\ k \in Keywords)

AtElement(kind, k) == k \in ElementStart(kind)
AtRegularTerminator(kind, k) == k = "EndOfFile" \/ k \in RegularTerminators(kind)
AtTerminator(kind, k) == AtRegularTerminator(kind, k) \/ k \in RecoveryTerminators(kind)

-----------------------------------------------------------------------------
(* RecoveryContext: a set of flags, one bit for each kind.  Bit 27 has no  *)
(* kind.                                                                   *)
RecoveryContextKinds ==
    {"ModuleStatements", "BlockStatements", "Elif", "Except", "AssignmentTargets", "TypeParams",
     "ImportFromAsNames(Parenthesized)", "ImportFromAsNames", "ImportNames", "Slices",
     "ListElements", "SetElements", "DictElements", "TupleElements(Parenthesized)", "TupleElements",
     "SequenceMatchPattern", "SequenceMatchPattern(List)", "SequenceMatchPattern(Tuple)",
     "MatchPatternMapping", "MatchPatternClassArguments", "Arguments", "DeleteTargets",
     "Identifiers", "Parameters(FunctionDef)", "Parameters(Lambda)", "WithItems(Parenthesized)",
     "WithItems(ParenthesizedExpression)", "WithItems(Unparenthesized)", "FStringElements",
     "FStringElements(FormatSpec)"}

FromKind(kind) ==
    CASE kind = "ModuleStatements" -> 0 [] kind = "BlockStatements" -> 1 [] kind = "Elif" -> 2
      [] kind = "Except" -> 3 [] kind = "AssignmentTargets" -> 4 [] kind = "TypeParams" -> 5
      [] kind = "ImportFromAsNames(Parenthesized)" -> 6 [] kind = "ImportFromAsNames" -> 7
      [] kind = "ImportNames" -> 8 [] kind = "Slices" -> 9 [] kind = "ListElements" -> 10
      [] kind = "SetElements" -> 11 [] kind = "DictElements" -> 12
      [] kind = "TupleElements(Parenthesized)" -> 13 [] kind = "TupleElements" -> 14
      [] kind = "SequenceMatchPattern" -> 15 [] kind = "SequenceMatchPattern(List)" -> 16
      [] kind = "SequenceMatchPattern(Tuple)" -> 17 [] kind = "MatchPatternMapping" -> 18
      [] kind = "MatchPatternClassArguments" -> 19 [] kind = "Arguments" -> 20
      [] kind = "DeleteTargets" -> 21 [] kind = "Identifiers" -> 22
      [] kind = "Parameters(FunctionDef)" -> 23 [] kind = "Parameters(Lambda)" -> 24
      [] kind = "WithItems(Parenthesized)" -> 25
      [] kind = "WithItems(ParenthesizedExpression)" -> 26
      [] kind = "WithItems(Unparenthesized)" -> 28 [] kind = "FStringElements" -> 29
      [] kind = "FStringElements(FormatSpec)" -> 30

ToKind(flag) ==
    CASE flag = 0 -> "ModuleStatements" [] flag = 1 -> "BlockStatements" [] flag = 2 -> "Elif"
      [] flag = 3 -> "Except" [] flag = 4 -> "AssignmentTargets" [] flag = 5 -> "TypeParams"
      [] flag = 6 -> "ImportFromAsNames(Parenthesized)" [] flag = 7 -> "ImportFromAsNames"
      [] flag = 8 -> "ImportNames" [] flag = 9 -> "Slices" [] flag = 10 -> "ListElements"
      [] flag = 11 -> "SetElements" [] flag = 12 -> "DictElements"
      [] flag = 13 -> "TupleElements(Parenthesized)" [] flag = 14 -> "TupleElements"
      [] flag = 15 -> "SequenceMatchPattern" [] flag = 16 -> "SequenceMatchPattern(List)"
      [] flag = 17 -> "SequenceMatchPattern(Tuple)" [] flag = 18 -> "MatchPatternMapping"
      [] flag = 19 -> "MatchPatternClassArguments" [] flag = 20 -> "Arguments"
      [] flag = 21 -> "DeleteTargets" [] flag = 22 -> "Identifiers"
      [] flag = 23 -> "Parameters(FunctionDef)" [] flag = 24 -> "Parameters(Lambda)"
      [] flag = 25 -> "WithItems(Parenthesized)"
      [] flag = 26 -> "WithItems(ParenthesizedExpression)"
      [] flag = 28 -> "WithItems(Unparenthesized)" [] flag = 29 -> "FStringElements"
      [] flag = 30 -> "FStringElements(FormatSpec)" [] OTHER -> "no kind"

KindIter(flags) == {ToKind(flag) : flag \in flags}

(* is_enclosing_list_element_or_terminator *)
AtEnclosing(flags, k) == \E kind \in KindIter(flags) : AtTerminator(kind, k) \/ AtElement(kind, k)
=============================================================================
