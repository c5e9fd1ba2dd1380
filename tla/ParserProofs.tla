----------------------------- MODULE ParserProofs -----------------------------
(***************************************************************************)
(* Proof that the recovery context of the parser is that of the lists it   *)
(* is parsing, for any parsing functions and any programs.                 *)
(***************************************************************************)
EXTENDS Parser, SequenceTheorems, TLAPS

(* to_kind is the inverse of from_kind. *)
LEMMA KindsHaveFlags ==
    ASSUME NEW kind \in RecoveryContextKinds
    PROVE  ToKind(FromKind(kind)) = kind
<1> DEFINE KeepsFlag(k) == ToKind(FromKind(k)) = k
<1>1. /\ KeepsFlag("ModuleStatements") /\ KeepsFlag("BlockStatements") /\ KeepsFlag("Elif")
      /\ KeepsFlag("Except") /\ KeepsFlag("AssignmentTargets")
  BY DEF FromKind, ToKind
<1>2. /\ KeepsFlag("TypeParams") /\ KeepsFlag("ImportFromAsNames(Parenthesized)")
      /\ KeepsFlag("ImportFromAsNames") /\ KeepsFlag("ImportNames") /\ KeepsFlag("Slices")
  BY DEF FromKind, ToKind
<1>3. /\ KeepsFlag("ListElements") /\ KeepsFlag("SetElements") /\ KeepsFlag("DictElements")
      /\ KeepsFlag("TupleElements(Parenthesized)") /\ KeepsFlag("TupleElements")
  BY DEF FromKind, ToKind
<1>4. /\ KeepsFlag("SequenceMatchPattern") /\ KeepsFlag("SequenceMatchPattern(List)")
      /\ KeepsFlag("SequenceMatchPattern(Tuple)") /\ KeepsFlag("MatchPatternMapping")
      /\ KeepsFlag("MatchPatternClassArguments")
  BY DEF FromKind, ToKind
<1>5. /\ KeepsFlag("Arguments") /\ KeepsFlag("DeleteTargets") /\ KeepsFlag("Identifiers")
      /\ KeepsFlag("Parameters(FunctionDef)") /\ KeepsFlag("Parameters(Lambda)")
  BY SMTT(30) DEF FromKind, ToKind
<1>6. /\ KeepsFlag("WithItems(Parenthesized)") /\ KeepsFlag("WithItems(ParenthesizedExpression)")
      /\ KeepsFlag("WithItems(Unparenthesized)") /\ KeepsFlag("FStringElements")
      /\ KeepsFlag("FStringElements(FormatSpec)")
  BY DEF FromKind, ToKind
<1> HIDE DEF KeepsFlag
<1>7. KeepsFlag(kind)
  BY <1>1, <1>2, <1>3, <1>4, <1>5, <1>6, SMTT(30) DEF RecoveryContextKinds
<1> QED BY <1>7 DEF KeepsFlag
-----------------------------------------------------------------------------
(* The flags of the lists among the first `n` frames of the stack `s`. *)
ListsAmong(s, n) == {j \in 1..n : s[j].rule = "list"}
FlagsOf(s, n) == {FromKind(s[i].list) : i \in ListsAmong(s, n)}

(* A list puts back the flags of the lists around it, and so does a        *)
(* function that rewinds.                                                  *)
FrameInv(s, i) ==
    /\ "rule" \in DOMAIN s[i]
    /\ s[i].rule = "list" =>
          /\ {"list", "elem", "saved"} \subseteq DOMAIN s[i]
          /\ s[i].list \in RecoveryContextKinds
          /\ s[i].elem \in DOMAIN Rules
          /\ s[i].saved = FlagsOf(s, i - 1)
    /\ s[i].rule # "list" =>
          /\ "mark" \in DOMAIN s[i]
          /\ s[i].rule \in DOMAIN Rules
          /\ s[i].mark # <<>> => s[i].mark[1].context = FlagsOf(s, i - 1)

IsStack(s) == \E S : s \in Seq(S)

ContextInv ==
    /\ IsStack(todo)
    /\ \A i \in 1..Len(todo) : FrameInv(todo, i)
    /\ context = FlagsOf(todo, Len(todo))
-----------------------------------------------------------------------------
(* What the invariant reads of a frame. *)
Similar(f, g) ==
    /\ DOMAIN g = DOMAIN f
    /\ \A x \in DOMAIN f \ {"pc", "progress", "after", "trailing"} : g[x] = f[x]

(* Stacks that do not differ in their first `n` frames. *)
SimilarUpTo(s, t, n) == \A i \in 1..n : Similar(s[i], t[i])

LEMMA FlagsStay ==
    ASSUME NEW s, NEW t, NEW n \in Nat, SimilarUpTo(s, t, n), \A i \in 1..n : FrameInv(s, i)
    PROVE  /\ \A m \in 0..n : FlagsOf(t, m) = FlagsOf(s, m)
           /\ \A i \in 1..n : FrameInv(t, i)
<1>1. ASSUME NEW i \in 1..n PROVE t[i].rule = s[i].rule /\ (s[i].rule = "list" => t[i].list = s[i].list)
  BY DEF SimilarUpTo, Similar, FrameInv
<1>2. ASSUME NEW m \in 0..n PROVE FlagsOf(t, m) = FlagsOf(s, m)
  <2>1. 1..m \subseteq 1..n
    OBVIOUS
  <2>2. ListsAmong(t, m) = ListsAmong(s, m)
    BY <1>1, <2>1 DEF ListsAmong
  <2>3. \A i \in ListsAmong(s, m) : t[i].list = s[i].list
    BY <1>1, <2>1 DEF ListsAmong
  <2> QED BY <2>2, <2>3 DEF FlagsOf
<1>3. ASSUME NEW i \in 1..n PROVE FrameInv(t, i)
  <2>1. FlagsOf(t, i - 1) = FlagsOf(s, i - 1)
    BY <1>2
  <2>2. FrameInv(s, i) /\ Similar(s[i], t[i])
    BY DEF SimilarUpTo
  <2> QED BY <2>1, <2>2 DEF FrameInv, Similar
<1> QED BY <1>2, <1>3

(* A frame more or less. *)
LEMMA FlagsPush ==
    ASSUME NEW s, NEW n \in Nat
    PROVE  /\ s[n + 1].rule = "list" => FlagsOf(s, n + 1) = FlagsOf(s, n) \cup {FromKind(s[n + 1].list)}
           /\ s[n + 1].rule # "list" => FlagsOf(s, n + 1) = FlagsOf(s, n)
<1>1. 1..n + 1 = 1..n \cup {n + 1}
  OBVIOUS
<1>2. ListsAmong(s, n + 1) = ListsAmong(s, n) \cup IF s[n + 1].rule = "list" THEN {n + 1} ELSE {}
  BY <1>1 DEF ListsAmong
<1> QED BY <1>2 DEF FlagsOf
-----------------------------------------------------------------------------
LEMMA StackOf ==
    ASSUME NEW S, NEW s \in Seq(S)
    PROVE  IsStack(s)
BY DEF IsStack

LEMMA StackSize ==
    ASSUME NEW s, IsStack(s)
    PROVE  Len(s) \in Nat /\ DOMAIN s = 1..Len(s) /\ (s # <<>> => Len(s) \in 1..Len(s))
BY DEF IsStack

LEMMA StackAppend ==
    ASSUME NEW s, IsStack(s), NEW g
    PROVE  /\ IsStack(Append(s, g)) /\ Len(Append(s, g)) = Len(s) + 1
           /\ \A i \in 1..Len(s) : Append(s, g)[i] = s[i]
           /\ Append(s, g)[Len(s) + 1] = g
<1>1. PICK S : s \in Seq(S)
  BY DEF IsStack
<1> DEFINE T == S \cup {g}
<1>2. s \in Seq(T) /\ g \in T
  BY <1>1
<1> HIDE DEF T
<1>3. Append(s, g) \in Seq(T)
  BY <1>2
<1>4. IsStack(Append(s, g))
  BY <1>3, StackOf
<1> QED BY <1>2, <1>4, AppendProperties

(* The stack whose frame on top becomes `f`. *)
OnTop(s, f) == [s EXCEPT ![Len(s)] = f]

LEMMA TopReplaced ==
    ASSUME NEW s, IsStack(s), s # <<>>, NEW f
    PROVE  /\ IsStack(OnTop(s, f)) /\ Len(OnTop(s, f)) = Len(s)
           /\ \A i \in 1..Len(s) - 1 : OnTop(s, f)[i] = s[i]
           /\ OnTop(s, f)[Len(s)] = f
<1>1. PICK S : s \in Seq(S)
  BY DEF IsStack
<1> DEFINE T == S \cup {f}
<1>2. s \in Seq(T) /\ f \in T
  BY <1>1
<1> HIDE DEF T
<1>3. Len(s) \in Nat /\ Len(s) \in 1..Len(s) /\ DOMAIN s = 1..Len(s)
  BY <1>1
<1>4. OnTop(s, f) \in Seq(T) /\ Len(OnTop(s, f)) = Len(s)
  BY <1>2, <1>3, ExceptSeq DEF OnTop
<1>5. IsStack(OnTop(s, f))
  BY <1>4, StackOf, SMTT(30)
<1>6. \A i \in 1..Len(s) - 1 : OnTop(s, f)[i] = s[i]
  <2>1. \A n \in Nat : \A i \in 1..n - 1 : i \in 1..n /\ i # n
    OBVIOUS
  <2> QED BY <1>3, <2>1 DEF OnTop
<1>7. OnTop(s, f)[Len(s)] = f
  BY <1>3 DEF OnTop
<1> QED BY <1>4, <1>5, <1>6, <1>7

(* A changed frame on top. *)
LEMMA TopSimilar ==
    ASSUME ContextInv, todo # <<>>, NEW f, Similar(Here, f)
    PROVE  LET t == OnTop(todo, f) IN
           /\ IsStack(t) /\ Len(t) = Len(todo) /\ t[Len(todo)] = f
           /\ FlagsOf(t, Len(todo)) = context
           /\ FlagsOf(t, Len(todo) - 1) = FlagsOf(todo, Len(todo) - 1)
           /\ \A i \in 1..Len(todo) : FrameInv(t, i)
<1> DEFINE t == OnTop(todo, f)
           n == Len(todo)
<1>1. n \in Nat /\ n \in 1..n /\ n \in 0..n /\ n - 1 \in 0..n
  BY StackSize DEF ContextInv
<1>2. /\ IsStack(t) /\ Len(t) = n /\ t[n] = f
      /\ \A i \in 1..n - 1 : t[i] = todo[i]
  BY TopReplaced DEF ContextInv
<1> HIDE DEF t, n
<1>3. SimilarUpTo(todo, t, n)
  <2>1. Similar(todo[n], t[n]) /\ \A x : Similar(x, x)
    BY <1>2 DEF Similar, Here, Depth, n
  <2>2. \A i \in 1..n : i = n \/ i \in 1..n - 1
    BY <1>1
  <2>3. \A i \in 1..n : Similar(todo[i], t[i])
    BY <1>2, <2>1, <2>2
  <2> QED BY <2>3 DEF SimilarUpTo
<1>4. \A i \in 1..n : FrameInv(todo, i)
  BY DEF ContextInv, n
<1>5. /\ \A m \in 0..n : FlagsOf(t, m) = FlagsOf(todo, m)
      /\ \A i \in 1..n : FrameInv(t, i)
  BY <1>1, <1>3, <1>4, FlagsStay
<1>6. FlagsOf(t, n) = context
  BY <1>1, <1>5 DEF ContextInv, n
<1> QED BY <1>1, <1>2, <1>5, <1>6 DEF t, n

(* The invariant when the frame on top changes and its context does not. *)
LEMMA TopStays ==
    ASSUME ContextInv, todo # <<>>, NEW f, Similar(Here, f),
           todo' = OnTop(todo, f), context' = context
    PROVE  ContextInv'
BY TopSimilar DEF ContextInv

(* The invariant when a frame is put on top of a changed frame. *)
LEMMA Pushed ==
    ASSUME ContextInv, todo # <<>>, NEW f, Similar(Here, f), NEW g,
           todo' = Append(OnTop(todo, f), g),
           "rule" \in DOMAIN g,
           g.rule = "list" =>
              /\ {"list", "elem", "saved"} \subseteq DOMAIN g
              /\ g.list \in RecoveryContextKinds
              /\ g.elem \in DOMAIN Rules
              /\ g.saved = context,
           g.rule # "list" =>
              "mark" \in DOMAIN g /\ g.rule \in DOMAIN Rules /\ g.mark = <<>>,
           context' = context \cup IF g.rule = "list" THEN {FromKind(g.list)} ELSE {}
    PROVE  ContextInv'
<1> DEFINE t == OnTop(todo, f)
           n == Len(todo)
<1>1. /\ IsStack(t) /\ Len(t) = n
      /\ FlagsOf(t, n) = context
      /\ \A i \in 1..n : FrameInv(t, i)
  BY TopSimilar
<1>2. n \in Nat
  BY StackSize DEF ContextInv
<1>3. todo' = Append(t, g)
  OBVIOUS
<1> HIDE DEF t, n
<1>4. /\ IsStack(todo') /\ Len(todo') = n + 1
      /\ \A i \in 1..n : todo'[i] = t[i]
      /\ todo'[n + 1] = g
  BY <1>1, <1>3, StackAppend
<1>5. SimilarUpTo(t, todo', n)
  BY <1>4 DEF SimilarUpTo, Similar
<1>6. FlagsOf(todo', n) = context /\ \A i \in 1..n : FrameInv(todo', i)
  <2>1. n \in 0..n
    BY <1>2
  <2> QED BY <1>1, <1>2, <1>5, <2>1, FlagsStay
<1>7. context' = FlagsOf(todo', n + 1)
  <2> DEFINE s == todo'
  <2>1. s[n + 1] = g
    BY <1>4
  <2> HIDE DEF s
  <2>2. /\ s[n + 1].rule = "list" => FlagsOf(s, n + 1) = FlagsOf(s, n) \cup {FromKind(s[n + 1].list)}
        /\ s[n + 1].rule # "list" => FlagsOf(s, n + 1) = FlagsOf(s, n)
    BY <1>2, FlagsPush
  <2>3. FlagsOf(s, n + 1) = FlagsOf(s, n) \cup IF g.rule = "list" THEN {FromKind(g.list)} ELSE {}
    BY <2>1, <2>2
  <2> QED BY <1>6, <2>3 DEF s
<1>8. FrameInv(todo', n + 1)
  <2>1. (n + 1) - 1 = n
    BY <1>2
  <2> QED BY <1>4, <1>6, <2>1 DEF FrameInv
<1>9. \A i \in 1..n + 1 : i \in 1..n \/ i = n + 1
  BY <1>2
<1> QED BY <1>4, <1>6, <1>7, <1>8, <1>9 DEF ContextInv

(* The invariant when the frame on top goes. *)
LEMMA Popped ==
    ASSUME ContextInv, todo # <<>>, todo' = SubSeq(todo, 1, Depth - 1),
           IF Here.rule = "list" THEN context' = Here.saved ELSE context' = context
    PROVE  ContextInv'
<1> DEFINE n == Len(todo) - 1
<1>1. PICK S : todo \in Seq(S)
  BY DEF ContextInv, IsStack
<1>2. n \in Nat /\ n + 1 = Len(todo) /\ n + 1 \in 1..Len(todo)
  BY <1>1
<1>3. todo' \in Seq(S) /\ Len(todo') = n /\ \A i \in 1..n : todo'[i] = todo[i]
  BY <1>1, <1>2 DEF Depth
<1> HIDE DEF n
<1>4. SimilarUpTo(todo, todo', n)
  BY <1>3 DEF SimilarUpTo, Similar
<1>5. FlagsOf(todo', n) = FlagsOf(todo, n) /\ \A i \in 1..n : FrameInv(todo', i)
  <2>1. \A i \in 1..n : FrameInv(todo, i)
    BY <1>2 DEF ContextInv
  <2> QED BY <1>2, <1>4, <2>1, FlagsStay
<1>6. context' = FlagsOf(todo, n)
  <2>1. Here = todo[n + 1] /\ FrameInv(todo, n + 1) /\ (n + 1) - 1 = n /\ context = FlagsOf(todo, n + 1)
    BY <1>2 DEF ContextInv, Here, Depth
  <2>2. CASE Here.rule = "list"
    BY <2>1, <2>2 DEF FrameInv
  <2>3. CASE Here.rule # "list"
    <3>1. FlagsOf(todo, n + 1) = FlagsOf(todo, n)
      BY <1>2, <2>1, <2>3, FlagsPush
    <3> QED BY <2>1, <2>3, <3>1
  <2> QED BY <2>2, <2>3
<1> QED BY <1>3, <1>5, <1>6 DEF ContextInv, IsStack
-----------------------------------------------------------------------------
(* A function's own checkpoint holds the context that it runs in. *)
LEMMA OwnContext ==
    ASSUME ContextInv, todo # <<>>, Here.rule # "list"
    PROVE  /\ {"rule", "mark"} \subseteq DOMAIN Here
           /\ Here.rule \in DOMAIN Rules
           /\ context = FlagsOf(todo, Len(todo) - 1)
           /\ Here.mark # <<>> => Here.mark[1].context = context
<1> DEFINE n == Len(todo) - 1
<1>1. n \in Nat /\ n + 1 = Len(todo) /\ n + 1 \in 1..Len(todo) /\ (n + 1) - 1 = n
  BY StackSize DEF ContextInv
<1> HIDE DEF n
<1>2. Here = todo[n + 1] /\ FrameInv(todo, n + 1) /\ context = FlagsOf(todo, n + 1)
  BY <1>1 DEF ContextInv, Here, Depth
<1>3. FlagsOf(todo, n + 1) = FlagsOf(todo, n)
  BY <1>1, <1>2, FlagsPush
<1>4. context = FlagsOf(todo, n)
  BY <1>2, <1>3
<1>5. "rule" \in DOMAIN Here /\ "mark" \in DOMAIN Here /\ Here.rule \in DOMAIN Rules
  BY <1>2 DEF FrameInv
<1>6. Here.mark # <<>> => Here.mark[1].context = FlagsOf(todo, n)
  BY <1>1, <1>2 DEF FrameInv
<1> QED BY <1>4, <1>5, <1>6 DEF n

(* The invariant when a function makes or gives away a checkpoint. *)
LEMMA MarkChanges ==
    ASSUME ContextInv, todo # <<>>, Here.rule # "list", NEW f,
           DOMAIN f = DOMAIN Here, f.rule = Here.rule,
           f.mark # <<>> => f.mark[1].context = context,
           todo' = OnTop(todo, f), context' = context
    PROVE  ContextInv'
<1> DEFINE n == Len(todo) - 1
<1>1. /\ n \in Nat /\ n + 1 = Len(todo) /\ (n + 1) - 1 = n /\ n \in 0..n
      /\ 1..n \subseteq 1..Len(todo) /\ \A i \in 1..n + 1 : i \in 1..n \/ i = n + 1
  BY StackSize, SMTT(30) DEF ContextInv
<1>2. /\ IsStack(todo') /\ Len(todo') = n + 1 /\ todo'[n + 1] = f
      /\ \A i \in 1..n : todo'[i] = todo[i]
  <2>1. /\ IsStack(todo') /\ Len(todo') = Len(todo) /\ todo'[Len(todo)] = f
        /\ \A i \in 1..Len(todo) - 1 : todo'[i] = todo[i]
    BY TopReplaced DEF ContextInv
  <2> QED BY <1>1, <2>1
<1> HIDE DEF n
<1>3. SimilarUpTo(todo, todo', n)
  BY <1>2 DEF SimilarUpTo, Similar
<1>4. FlagsOf(todo', n) = FlagsOf(todo, n) /\ \A i \in 1..n : FrameInv(todo', i)
  <2>1. \A i \in 1..n : FrameInv(todo, i)
    BY <1>1 DEF ContextInv
  <2> QED BY <1>1, <1>3, <2>1, FlagsStay
<1>5. FlagsOf(todo, n) = context
  BY <1>1, OwnContext
<1>6. FrameInv(todo', n + 1)
  BY <1>1, <1>2, <1>4, <1>5, OwnContext DEF FrameInv
<1>7. FlagsOf(todo', n + 1) = context'
  <2>1. FlagsOf(todo', n + 1) = FlagsOf(todo', n)
    BY <1>1, <1>2, FlagsPush
  <2> QED BY <1>4, <1>5, <2>1
<1> QED BY <1>1, <1>2, <1>4, <1>6, <1>7 DEF ContextInv
-----------------------------------------------------------------------------
(* A step that a function takes is one of its rule's. *)
LEMMA StepOfRule ==
    ASSUME ContextInv, NEW W, Running(W)
    PROVE  /\ todo # <<>> /\ Here.rule # "list" /\ Step.do \in W
           /\ Step.do \in {"call", "operand"} => Step.rule \in DOMAIN Rules
           /\ Step.do = "list" => Step.list \in RecoveryContextKinds /\ Step.elem \in DOMAIN Rules
<1>1. /\ todo # <<>> /\ Here.rule # "list"
      /\ NextPc \in DOMAIN Code /\ Code[NextPc].do \in W
  BY DEF Running, InFunction, Does
<1>2. Here.rule \in DOMAIN Rules
  BY <1>1, OwnContext
<1> QED BY <1>1, <1>2, RulesAssumption DEF Step, Code

(* What a list is made of. *)
LEMMA ListOnTop ==
    ASSUME ContextInv, InList
    PROVE  todo # <<>> /\ Here.rule = "list" /\ Here.elem \in DOMAIN Rules
<1>1. todo # <<>> /\ Here.rule = "list" /\ FrameInv(todo, Depth)
  BY StackSize, SMTT(30) DEF InList, ContextInv, Depth
<1> QED BY <1>1 DEF FrameInv, Here

(* The function or list on top goes on. *)
LEMMA GoesOn ==
    ASSUME ContextInv, todo # <<>>, context' = context,
           NEW p,
           \/ Goto(p)
           \/ \E a : todo' = [todo EXCEPT ![Depth].pc = p, ![Depth].progress = a]
           \/ \E a, t : todo' = [todo EXCEPT ![Depth].after = a, ![Depth].trailing = t]
           \/ \E a, t : todo' = [todo EXCEPT ![Depth].after = a, ![Depth].progress = p, ![Depth].trailing = t]
    PROVE  ContextInv'
<1>1. ASSUME Goto(p) PROVE ContextInv'
  <2>1. todo' = OnTop(todo, [Here EXCEPT !.pc = p])
    BY <1>1, SMTT(30) DEF Goto, OnTop, Here, Depth
  <2>2. Similar(Here, [Here EXCEPT !.pc = p])
    BY DEF Similar
  <2> QED BY <2>1, <2>2, TopStays
<1>2. ASSUME NEW a, todo' = [todo EXCEPT ![Depth].pc = p, ![Depth].progress = a] PROVE ContextInv'
  <2>1. todo' = OnTop(todo, [Here EXCEPT !.pc = p, !.progress = a])
    BY <1>2, StackSize DEF OnTop, Here, Depth, ContextInv
  <2>2. Similar(Here, [Here EXCEPT !.pc = p, !.progress = a])
    BY DEF Similar
  <2> QED BY <2>1, <2>2, TopStays
<1>3. ASSUME NEW a, NEW t, todo' = [todo EXCEPT ![Depth].after = a, ![Depth].trailing = t] PROVE ContextInv'
  <2>1. todo' = OnTop(todo, [Here EXCEPT !.after = a, !.trailing = t])
    BY <1>3, StackSize DEF OnTop, Here, Depth, ContextInv
  <2>2. Similar(Here, [Here EXCEPT !.after = a, !.trailing = t])
    BY DEF Similar
  <2> QED BY <2>1, <2>2, TopStays
<1>4. ASSUME NEW a, NEW t,
             todo' = [todo EXCEPT ![Depth].after = a, ![Depth].progress = p, ![Depth].trailing = t]
      PROVE  ContextInv'
  <2>1. todo' = OnTop(todo, [Here EXCEPT !.after = a, !.progress = p, !.trailing = t])
    BY <1>4, StackSize DEF OnTop, Here, Depth, ContextInv
  <2>2. Similar(Here, [Here EXCEPT !.after = a, !.progress = p, !.trailing = t])
    BY DEF Similar
  <2> QED BY <2>1, <2>2, TopStays
<1> QED BY <1>1, <1>2, <1>3, <1>4

(* Nothing is called and no list begins or ends. *)
LEMMA Rests == ASSUME ContextInv, UNCHANGED <<todo, context>> PROVE ContextInv'
BY DEF ContextInv

LEMMA PanicRests == ASSUME ContextInv, Panic PROVE ContextInv'
BY Rests DEF Panic

(* Steps of a function that only go on. *)
LEMMA StraightSteps ==
    ASSUME ContextInv,
           BumpStep \/ ExpectStep \/ LeafStep \/ NodeStep \/ ChangeStep \/ ErrorStep \/ ReportStep
    PROVE  ContextInv'
<1>1. todo # <<>>
  BY DEF Running, InFunction, BumpStep, ExpectStep, LeafStep, NodeStep, ChangeStep, ErrorStep, ReportStep
<1>2. Panic \/ (Advance /\ context' = context)
  BY DEF BumpStep, ExpectStep, LeafStep, NodeStep, ChangeStep, ErrorStep, ReportStep
<1>3. ASSUME Advance, context' = context PROVE ContextInv'
  <2>1. Goto(NextPc + 1)
    BY <1>3, SMTT(30) DEF Advance
  <2> QED BY <1>1, <1>3, <2>1, GoesOn
<1> QED BY <1>2, <1>3, PanicRests

LEMMA LoopSteps == ASSUME ContextInv, LoopStep PROVE ContextInv'
<1>1. todo # <<>> /\ context' = context
  BY DEF Running, InFunction, LoopStep
<1>2. \/ \E p : Goto(p)
      \/ UNCHANGED todo
      \/ \E p, a : todo' = [todo EXCEPT ![Depth].pc = p, ![Depth].progress = a]
  BY DEF LoopStep, Loop, Running, Does, Step
<1> QED BY <1>1, <1>2, GoesOn, Rests
-----------------------------------------------------------------------------
(* Steps that call a function, and those that return. *)
LEMMA Calling ==
    ASSUME ContextInv, todo # <<>>, context' = context,
           NEW f, Similar(Here, f), NEW rule \in DOMAIN Rules, NEW ctx, NEW prec, NEW start, NEW base,
           todo' = Append(OnTop(todo, f), Frame(rule, ctx, prec, start, base))
    PROVE  ContextInv'
<1> DEFINE g == Frame(rule, ctx, prec, start, base)
<1>1. /\ {"rule", "mark"} \subseteq DOMAIN g
      /\ g.rule = rule /\ g.mark = <<>>
  BY DEF Frame
<1>2. g.rule # "list"
  BY <1>1, RulesAssumption
<1>3. todo' = Append(OnTop(todo, f), g)
  OBVIOUS
<1> HIDE DEF g
<1> QED BY <1>1, <1>2, <1>3, Pushed

LEMMA CallSteps == ASSUME ContextInv, CallStep \/ OperandStep PROVE ContextInv'
<1> DEFINE f == [Here EXCEPT !.pc = NextPc + 1]
<1>1. Similar(Here, f)
  BY DEF Similar
<1>2. \A g : Push(g) => todo' = Append(OnTop(todo, f), g)
  BY DEF Push, OnTop, Here, Depth
<1>3. CASE CallStep
  <2>1. Running({"call"}) /\ Push(Called(Step)) /\ context' = context
    BY <1>3 DEF CallStep
  <2>2. todo # <<>> /\ Step.rule \in DOMAIN Rules
    BY <2>1, StepOfRule
  <2>3. \E ctx, prec, start, base : Called(Step) = Frame(Step.rule, ctx, prec, start, base)
    BY DEF Called
  <2> HIDE DEF f
  <2> QED BY <1>1, <1>2, <2>1, <2>2, <2>3, Calling
<1>4. CASE OperandStep
  <2>1. Running({"operand"}) /\ context' = context
        /\ Push(Frame(Step.rule, Here.ctx, PrecedenceOf(tok.kind), tok'.start, Len(vals)))
    BY <1>4 DEF OperandStep
  <2>2. todo # <<>> /\ Step.rule \in DOMAIN Rules
    BY <2>1, StepOfRule
  <2> HIDE DEF f
  <2> QED BY <1>1, <1>2, <2>1, <2>2, Calling
<1> QED BY <1>3, <1>4

LEMMA ElementSteps == ASSUME ContextInv, ElementStep PROVE ContextInv'
<1> DEFINE f == [Here EXCEPT !.progress = id, !.after = Here.sort = "comma"]
<1>1. InList
  BY DEF ElementStep, AtStart
<1>2. todo # <<>> /\ Here.elem \in DOMAIN Rules
  BY <1>1, ListOnTop
<1>3. CASE Panic
  BY <1>3, PanicRests
<1>4. CASE ~Panic
  <2>1. /\ context' = context
        /\ todo' = Append([todo EXCEPT ![Depth].progress = id, ![Depth].after = Here.sort = "comma"],
                          Frame(Here.elem, Here.ctx, Initial, tok.start, Len(vals)))
    BY <1>4 DEF ElementStep
  <2>2. [todo EXCEPT ![Depth].progress = id, ![Depth].after = Here.sort = "comma"] = OnTop(todo, f)
    BY <1>2, StackSize DEF OnTop, Here, Depth, ContextInv
  <2>3. Similar(Here, f)
    BY DEF Similar
  <2>4. todo' = Append(OnTop(todo, f), Frame(Here.elem, Here.ctx, Initial, tok.start, Len(vals)))
    BY <2>1, <2>2
  <2> HIDE DEF f
  <2> QED BY <1>2, <2>1, <2>3, <2>4, Calling
<1> QED BY <1>3, <1>4

LEMMA ReturnSteps == ASSUME ContextInv, ReturnStep PROVE ContextInv'
<1>1. /\ todo # <<>> /\ Here.rule # "list"
      /\ todo' = SubSeq(todo, 1, Depth - 1) /\ context' = context
  BY DEF ReturnStep, InFunction
<1> QED BY <1>1, Popped
-----------------------------------------------------------------------------
(* Checkpoints. *)
LEMMA MarkSteps == ASSUME ContextInv, CheckpointStep \/ RewindStep PROVE ContextInv'
<1>1. CASE CheckpointStep
  <2> DEFINE m == [tok |-> tok, errors |-> Len(errors), id |-> id, prevEnd |-> prevEnd, context |-> context]
             f == [Here EXCEPT !.pc = NextPc + 1, !.mark = <<m>>]
  <2>1. /\ todo # <<>> /\ Here.rule # "list" /\ context' = context
        /\ todo' = [todo EXCEPT ![Depth].pc = NextPc + 1, ![Depth].mark = <<m>>]
    BY <1>1 DEF CheckpointStep, Running, InFunction
  <2>2. m.context = context
    OBVIOUS
  <2> HIDE DEF m
  <2>3. todo' = OnTop(todo, f)
    BY <2>1, StackSize DEF OnTop, Here, Depth, ContextInv
  <2>4. DOMAIN f = DOMAIN Here /\ f.rule = Here.rule /\ f.mark = <<m>>
    BY <2>1, OwnContext
  <2>5. f.mark # <<>> => f.mark[1].context = context
    BY <2>2, <2>4
  <2> HIDE DEF f
  <2> QED BY <2>1, <2>3, <2>4, <2>5, MarkChanges
<1>2. CASE RewindStep
  <2> DEFINE f == [Here EXCEPT !.pc = NextPc + 1, !.mark = <<>>]
  <2>1. /\ todo # <<>> /\ Here.rule # "list" /\ Here.mark # <<>>
        /\ context' = Here.mark[1].context
        /\ todo' = [todo EXCEPT ![Depth].pc = NextPc + 1, ![Depth].mark = <<>>]
    BY <1>2 DEF RewindStep, Running, InFunction
  <2>2. context' = context
    BY <2>1, OwnContext
  <2>3. todo' = OnTop(todo, f)
    BY <2>1, StackSize DEF OnTop, Here, Depth, ContextInv
  <2>4. DOMAIN f = DOMAIN Here /\ f.rule = Here.rule /\ f.mark = <<>>
    BY <2>1, OwnContext
  <2> HIDE DEF f
  <2> QED BY <2>1, <2>2, <2>3, <2>4, MarkChanges
<1> QED BY <1>1, <1>2
-----------------------------------------------------------------------------
(* Lists begin, go on and end. *)
LEMMA ListSteps == ASSUME ContextInv, ListStep PROVE ContextInv'
<1> DEFINE f == [Here EXCEPT !.pc = NextPc + 1]
           g == Started(Step)
<1>1. Running({"list"}) /\ Push(g) /\ context' = context \cup {FromKind(Step.list)}
  BY DEF ListStep
<1>2. todo # <<>> /\ Step.list \in RecoveryContextKinds /\ Step.elem \in DOMAIN Rules
  BY <1>1, StepOfRule
<1>3. /\ {"rule", "list", "elem", "saved"} \subseteq DOMAIN g
      /\ g.rule = "list" /\ g.list = Step.list /\ g.elem = Step.elem /\ g.saved = context
  BY DEF Started
<1>4. Similar(Here, f)
  BY DEF Similar
<1>5. todo' = Append(OnTop(todo, f), g)
  BY <1>1 DEF Push, OnTop, Here, Depth
<1> HIDE DEF f, g
<1> QED BY <1>1, <1>2, <1>3, <1>4, <1>5, Pushed

LEMMA ListGoesOn == ASSUME ContextInv, CommaStep \/ MissingComma \/ SkipToken PROVE ContextInv'
<1>1. todo # <<>>
  BY SMTT(30) DEF CommaStep, MissingComma, SkipToken, NoElement, AtStart, InList
<1>2. ASSUME context' = context,
             \/ \E a, t : todo' = [todo EXCEPT ![Depth].after = a, ![Depth].trailing = t]
             \/ \E a, p, t : todo' = [todo EXCEPT ![Depth].after = a, ![Depth].progress = p, ![Depth].trailing = t]
      PROVE  ContextInv'
  BY <1>1, <1>2, GoesOn
<1>3. CASE CommaStep
  BY <1>2, <1>3 DEF CommaStep
<1>4. CASE MissingComma
  BY <1>2, <1>4 DEF MissingComma
<1>5. CASE SkipToken
  <2>1. CASE Panic
    BY <2>1, PanicRests
  <2>2. CASE ~Panic
    <3> DEFINE place == IF tok.kind = "Comma" THEN tok.start ELSE NoComma
    <3>1. /\ context' = context
          /\ todo' = [todo EXCEPT ![Depth].after = FALSE, ![Depth].progress = TailProgress, ![Depth].trailing = place]
      BY <1>5, <2>2 DEF SkipToken
    <3> HIDE DEF place
    <3> QED BY <1>2, <3>1
  <2> QED BY <2>1, <2>2
<1> QED BY <1>3, <1>4, <1>5

LEMMA ListExits == ASSUME ContextInv, ListEnd \/ GiveUp PROVE ContextInv'
<1>1. InList
  BY DEF ListEnd, GiveUp, NoElement, AtStart
<1>2. todo # <<>> /\ Here.rule = "list"
  BY <1>1, ListOnTop
<1>3. Panic \/ Exit
  BY DEF ListEnd, GiveUp
<1>4. ASSUME Exit PROVE ContextInv'
  <2>1. context' = Here.saved /\ todo' = SubSeq(todo, 1, Depth - 1)
    BY <1>4 DEF Exit
  <2> QED BY <1>2, <2>1, Popped
<1> QED BY <1>3, <1>4, PanicRests
-----------------------------------------------------------------------------
(* The functions that parsing starts with are there. *)
LEMMA EntryRules == {"parse_module", "parse_single_expression"} \subseteq DOMAIN Rules
BY DEF Rules

(* When the parser starts, one function runs and no flag is set. *)
LEMMA InitContext == Init => ContextInv
<1> SUFFICES ASSUME Init PROVE ContextInv
  OBVIOUS
<1>1. PICK rule, start : rule \in {"parse_module", "parse_single_expression"} /\
         todo = <<Frame(rule, Default, Initial, start, 0)>>
  BY DEF Init
<1> DEFINE g == Frame(rule, Default, Initial, start, 0)
<1>2. {"rule", "mark"} \subseteq DOMAIN g /\ g.rule = rule /\ g.mark = <<>>
  BY DEF Frame
<1>3. todo = <<g>>
  BY <1>1
<1> HIDE DEF g
<1>4. todo \in Seq({g}) /\ Len(todo) = 1 /\ todo[1] = g
  BY <1>3
<1>5. g.rule # "list" /\ g.rule \in DOMAIN Rules
  BY <1>1, <1>2, EntryRules, RulesAssumption
<1>6. FlagsOf(todo, 1) = {}
  BY <1>4, <1>5 DEF FlagsOf, ListsAmong
<1>7. context = FlagsOf(todo, Len(todo))
  BY <1>4, <1>6 DEF Init
<1>8. \A i \in 1..Len(todo) : FrameInv(todo, i)
  BY <1>2, <1>4, <1>5 DEF FrameInv
<1> QED BY <1>4, <1>7, <1>8, StackOf DEF ContextInv

(* Every step keeps the invariant. *)
LEMMA NextContext == ContextInv /\ [Next]_vars => ContextInv'
<1> SUFFICES ASSUME ContextInv, [Next]_vars PROVE ContextInv'
  OBVIOUS
<1>1. CASE UNCHANGED vars
  BY <1>1, Rests DEF vars
<1>2. CASE Next
  BY <1>2, StraightSteps, LoopSteps, CallSteps, ReturnSteps, MarkSteps, ListSteps, ElementSteps, ListGoesOn, ListExits
     DEF Next
<1> QED BY <1>1, <1>2

LEMMA OpenLists == ContextInv => ContextIsOpenLists
<1> SUFFICES ASSUME ContextInv PROVE ContextIsOpenLists
  OBVIOUS
<1> DEFINE lists == ListsAmong(todo, Len(todo))
<1>1. lists = {j \in DOMAIN todo : todo[j].rule = "list"}
  BY StackSize DEF ContextInv, ListsAmong
<1>2. \A i \in lists : ToKind(FromKind(todo[i].list)) = todo[i].list
  BY KindsHaveFlags DEF ContextInv, FrameInv, ListsAmong
<1>3. context = {FromKind(todo[i].list) : i \in lists}
  BY DEF ContextInv, FlagsOf
<1> HIDE DEF lists
<1>4. KindIter(context) = {todo[i].list : i \in lists}
  BY <1>2, <1>3 DEF KindIter
<1> QED BY <1>1, <1>4 DEF ContextIsOpenLists

(* The recovery context holds exactly the kinds of the lists that are      *)
(* being parsed, in every state: whatever the functions call, skip, give   *)
(* up or rewind, no kind is left behind when its list has ended and none   *)
(* is missing while it is open.                                            *)
THEOREM ContextIsThatOfLists == Spec => []ContextIsOpenLists
<1>1. Spec => []ContextInv
  BY InitContext, NextContext, PTL DEF Spec
<1> QED BY <1>1, OpenLists, PTL
=============================================================================
