--------------------------- MODULE ResolverProofs ---------------------------
(***************************************************************************)
(* The import resolver on any world of files: the result it chooses is the *)
(* best of those found, a namespace package never hides a traditional one, *)
(* and the files it finds spell the module.                                *)
(***************************************************************************)
EXTENDS Resolver, FiniteSetTheorems, SequenceTheorems, WellFoundedInduction, TLAPS

(* A nonempty set of numbers has a least one.                              *)
LEMMA Least ==
    ASSUME NEW T \in SUBSET Nat, T # {}
    PROVE  \E n \in T : \A m \in T : n <= m
<1> DEFINE R == OpToRel(<, Nat)
<1>1. IsWellFoundedOn(R, Nat)
  BY NatLessThanWellFounded
<1>2. \A x, y \in Nat : x < y => <<x, y>> \in R
  BY DEF OpToRel
<1> HIDE DEF R
<1>3. PICK x \in T : \A y \in T : ~ (<<y, x>> \in R)
  BY <1>1, WFMin
<1>4. ASSUME NEW y \in T PROVE x <= y
  <2>1. x \in Nat /\ y \in Nat
    OBVIOUS
  <2>2. ~ (y < x)
    BY <1>2, <1>3, <2>1
  <2> QED  BY <2>1, <2>2
<1> QED  BY <1>4

(* Induction up to a bound, over a set of numbers.                         *)
LEMMA UpTo ==
    ASSUME NEW N \in Nat, NEW S, 0 \in S,
           \A n \in 0..N - 1 : n \in S => n + 1 \in S
    PROVE  \A n \in 0..N : n \in S
<1> DEFINE T == {n \in 0..N : n \notin S}
<1> SUFFICES ASSUME T # {} PROVE FALSE
  OBVIOUS
<1>0. T \in SUBSET Nat
  OBVIOUS
<1>1. PICK n \in T : \A m \in T : n <= m
  <2> HIDE DEF T
  <2> QED  BY <1>0, Least
<1>2. n \in 0..N /\ n \notin S /\ n # 0
  OBVIOUS
<1>3. n - 1 \in 0..N - 1 /\ n - 1 \notin T
  BY <1>1, <1>2
<1>4. n - 1 \in S
  BY <1>3
<1>5. (n - 1) + 1 \in S
  BY <1>3, <1>4
<1> QED  BY <1>2, <1>5

(* The same from one on.                                                   *)
LEMMA FromOneUpTo ==
    ASSUME NEW N \in Nat, NEW S, 1 \in S,
           \A n \in 1..N - 1 : n \in S => n + 1 \in S
    PROVE  \A n \in 1..N : n \in S
<1> DEFINE T == {n \in 0..N : n = 0 \/ n \in S}
<1>1. 0 \in T
  OBVIOUS
<1>2. ASSUME NEW n \in 0..N - 1, n \in T PROVE n + 1 \in T
  <2>1. CASE n = 0
    BY <2>1
  <2>2. CASE n # 0
    <3>1. n \in 1..N - 1 /\ n \in S
      BY <1>2, <2>2
    <3> QED  BY <3>1
  <2> QED  BY <2>1, <2>2
<1>3. \A n \in 0..N : n \in T
  <2> HIDE DEF T
  <2> QED  BY <1>1, <1>2, UpTo
<1> QED  BY <1>3

-----------------------------------------------------------------------------
(* The best of a sequence of results.                                      *)

(* Each best is picked from the one before it and the next result.         *)
LEMMA BestUnfolds ==
    ASSUME NEW w, NEW results, Len(results) \in Nat \ {0}
    PROVE  \E best :
             /\ BestOf(w, results) = best[Len(results)]
             /\ best[1] = results[1]
             /\ \A i \in 2..Len(results) :
                  best[i] = pick_best_import(best[i - 1], results[i],
                                             w.descriptor.imported_symbols)
<1> DEFINE n == Len(results)
           Pick(b, i) == pick_best_import(b, results[i], w.descriptor.imported_symbols)
           Good(f, m) == /\ DOMAIN f = 1..m
                         /\ f[1] = results[1] /\ \A i \in 2..m : f[i] = Pick(f[i - 1], i)
           S == {m \in 1..n : \E f : Good(f, m)}
           Is(f) == f = [i \in 1..n |-> IF i = 1 THEN results[1] ELSE Pick(f[i - 1], i)]
           best == CHOOSE f : Is(f)
<1>0. n \in Nat /\ 1 \in 1..n /\ n \in 1..n
  OBVIOUS
<1> HIDE DEF n
<1>1. 1 \in S
  <2>1. Good([i \in 1..1 |-> results[1]], 1)
    OBVIOUS
  <2> HIDE DEF Good
  <2> QED  BY <1>0, <2>1
<1>2. ASSUME NEW m \in 1..n - 1, m \in S PROVE m + 1 \in S
  <2>1. PICK f : Good(f, m)
    BY <1>2
  <2> DEFINE g == [i \in 1..m + 1 |-> IF i = m + 1 THEN Pick(f[m], m + 1) ELSE f[i]]
  <2>2. g[1] = results[1]
    <3>1. 1 \in 1..m + 1 /\ 1 # m + 1
      OBVIOUS
    <3> HIDE DEF Pick
    <3> QED  BY <2>1, <3>1
  <2>3. ASSUME NEW i \in 2..m + 1 PROVE g[i] = Pick(g[i - 1], i)
    <3>1. i \in 1..m + 1 /\ i - 1 \in 1..m + 1 /\ i - 1 # m + 1
      OBVIOUS
    <3> HIDE DEF Pick
    <3>2. CASE i = m + 1
      <4>1. g[i] = Pick(f[m], m + 1) /\ g[i - 1] = f[m]
        BY <3>1, <3>2
      <4> QED  BY <3>2, <4>1
    <3>3. CASE i # m + 1
      <4>1. i \in 2..m
        BY <3>1, <3>3
      <4>2. g[i] = f[i] /\ g[i - 1] = f[i - 1]
        BY <3>1, <3>3
      <4> QED  BY <2>1, <4>1, <4>2
    <3> QED  BY <3>2, <3>3
  <2>4. DOMAIN g = 1..m + 1
    OBVIOUS
  <2>5. Good(g, m + 1)
    <3> HIDE DEF Pick, g
    <3> QED  BY <2>2, <2>3, <2>4
  <2>6. m + 1 \in 1..n
    BY <1>0
  <2> HIDE DEF Good, g
  <2> QED  BY <2>5, <2>6
<1>3. n \in S
  <2> HIDE DEF S
  <2> QED  BY <1>0, <1>1, <1>2, FromOneUpTo
<1>4. PICK f : Good(f, n)
  BY <1>3
<1>5. Is([i \in 1..n |-> f[i]])
  <2> DEFINE h == [i \in 1..n |-> f[i]]
  <2> HIDE DEF Pick
  <2>1. ASSUME NEW i \in 1..n PROVE h[i] = IF i = 1 THEN results[1] ELSE Pick(h[i - 1], i)
    <3>1. CASE i = 1
      BY <1>4, <3>1
    <3>2. CASE i # 1
      <4>1. i \in 2..n /\ i - 1 \in 1..n
        BY <1>0, <3>2
      <4> QED  BY <1>4, <3>2, <4>1
    <3> QED  BY <3>1, <3>2
  <2> QED  BY <2>1
<1>6. Is(best)
  <2> HIDE DEF Is
  <2> QED  BY <1>5
<1>7. BestOf(w, results) = best[n]
  BY DEF BestOf, n
<1> HIDE DEF best
<1>8. best[1] = results[1]
  BY <1>0, <1>6
<1>9. ASSUME NEW i \in 2..n PROVE best[i] = Pick(best[i - 1], i)
  <2>1. i \in 1..n /\ i # 1
    BY <1>0
  <2> HIDE DEF Pick
  <2> QED  BY <1>6, <2>1
<1> QED  BY <1>7, <1>8, <1>9 DEF n

(* What a result says of its paths: there is at most one for each of the n *)
(* parts, found says that there are n, and partly resolved that there are  *)
(* some.                                                                   *)
IsCounted(r, n) ==
    /\ Len(r.resolved_paths) \in 0..n /\ DOMAIN r.resolved_paths = 1..Len(r.resolved_paths)
    /\ r.is_import_found = (Len(r.resolved_paths) = n)
    /\ r.is_partly_resolved = (0 < Len(r.resolved_paths) /\ Len(r.resolved_paths) < n)

LEMMA FirstTraditionalIs ==
    ASSUME NEW n \in Nat \ {0}, NEW r, IsCounted(r, n)
    PROVE  /\ FirstTraditional(r) \in 0..n
           /\ Len(r.resolved_paths) = 0 => FirstTraditional(r) = 0
           /\ FirstTraditional(r) # 0 =>
                /\ FirstTraditional(r) \in DOMAIN r.resolved_paths
                /\ r.resolved_paths[FirstTraditional(r)] # EmptyPath
           /\ 1 \in DOMAIN r.resolved_paths /\ r.resolved_paths[1] # EmptyPath
                => FirstTraditional(r) = 1
<1> DEFINE real == {i \in DOMAIN r.resolved_paths : r.resolved_paths[i] # EmptyPath}
<1>1. /\ real \in SUBSET Nat /\ real \in SUBSET (1..n)
      /\ Len(r.resolved_paths) = 0 => real = {}
  BY DEF IsCounted
<1>2. FirstTraditional(r) = IF real = {} THEN 0 ELSE CHOOSE i \in real : \A j \in real : i <= j
  BY DEF FirstTraditional
<1>3. 1 \in DOMAIN r.resolved_paths /\ r.resolved_paths[1] # EmptyPath => 1 \in real
  OBVIOUS
<1>4. real \subseteq DOMAIN r.resolved_paths /\ \A i \in real : r.resolved_paths[i] # EmptyPath
  OBVIOUS
<1> HIDE DEF real
<1>5. CASE real = {}
  BY <1>2, <1>3, <1>5
<1>6. CASE real # {}
  <2>1. \E i \in real : \A j \in real : i <= j
    BY <1>1, <1>6, Least
  <2> DEFINE least == CHOOSE i \in real : \A j \in real : i <= j
  <2>2. least \in real /\ \A j \in real : least <= j
    BY <2>1
  <2>3. FirstTraditional(r) = least
    BY <1>2, <1>6
  <2> HIDE DEF least
  <2>4. least \in 1..n /\ real \in SUBSET (1..n)
    BY <1>1, <2>2
  <2>5. 1 \in real => least = 1
    BY <2>2, <2>4
  <2>6. Len(r.resolved_paths) # 0
    BY <1>1, <1>6
  <2>7. least # 0 /\ least \in 0..n
    BY <2>4
  <2> QED  BY <1>3, <1>4, <2>2, <2>3, <2>5, <2>6, <2>7
<1> QED  BY <1>5, <1>6

(* Better is a strict weak order of the results.                           *)
LEMMA BetterIsOrder ==
    ASSUME NEW n \in Nat \ {0},
           NEW r, IsCounted(r, n), NEW s, IsCounted(s, n), NEW t, IsCounted(t, n)
    PROVE  /\ ~Better(r, r)
           /\ Better(r, s) => ~Better(s, r)
           /\ Better(r, t) => Better(r, s) \/ Better(s, t)
<1>1. /\ FirstTraditional(r) \in Nat /\ FirstTraditional(s) \in Nat
      /\ FirstTraditional(t) \in Nat
  BY FirstTraditionalIs
<1>2. /\ r.is_import_found \in BOOLEAN /\ s.is_import_found \in BOOLEAN
      /\ t.is_import_found \in BOOLEAN
  BY DEF IsCounted
<1> DEFINE a == FirstTraditional(r)
           b == FirstTraditional(s)
           c == FirstTraditional(t)
<1>3. \A x, y : Better(x, y) <=>
          \/ /\ FirstTraditional(x) # FirstTraditional(y) /\ FirstTraditional(x) # 0
             /\ FirstTraditional(y) = 0 \/ FirstTraditional(x) < FirstTraditional(y)
          \/ /\ FirstTraditional(x) = FirstTraditional(y)
             /\ x.is_import_found /\ ~y.is_import_found
  BY DEF Better, NewIsMoreTraditional
<1> QED  BY <1>1, <1>2, <1>3

(* One comparison keeps one of the two results and never the worse one.    *)
LEMMA PickKeepsBetter ==
    ASSUME NEW n \in Nat \ {0}, NEW symbols,
           NEW best, IsCounted(best, n), NEW new, IsCounted(new, n)
    PROVE  \/ /\ pick_best_import(best, new, symbols) = best
              /\ ~Better(new, best)
           \/ /\ pick_best_import(best, new, symbols) = new
              /\ ~Better(best, new)
<1> DEFINE a == FirstTraditional(best)
           b == FirstTraditional(new)
           picked == pick_best_import(best, new, symbols)
<1>1. /\ a \in Nat /\ b \in Nat
      /\ Len(new.resolved_paths) = 0 => b = 0
  BY FirstTraditionalIs
<1>2. /\ best.is_import_found \in BOOLEAN /\ new.is_import_found \in BOOLEAN
      /\ ~new.is_import_found /\ ~new.is_partly_resolved => Len(new.resolved_paths) = 0
  <2>1. best.is_import_found \in BOOLEAN /\ new.is_import_found \in BOOLEAN
    BY Zenon DEF IsCounted
  <2>2. ASSUME ~new.is_import_found, ~new.is_partly_resolved
        PROVE  ~(Len(new.resolved_paths) = n) /\ ~(0 < Len(new.resolved_paths) /\ Len(new.resolved_paths) < n)
    BY <2>2, Zenon DEF IsCounted
  <2>3. Len(new.resolved_paths) \in 0..n
    BY DEF IsCounted
  <2> QED  BY <2>1, <2>2, <2>3
<1>3. /\ Better(new, best) <=> \/ a # b /\ NewIsMoreTraditional(best, new)
                               \/ a = b /\ new.is_import_found /\ ~best.is_import_found
      /\ Better(best, new) <=> \/ a # b /\ NewIsMoreTraditional(new, best)
                               \/ a = b /\ best.is_import_found /\ ~new.is_import_found
  BY DEF Better
<1>4. /\ NewIsMoreTraditional(best, new) <=> b # 0 /\ (a = 0 \/ b < a)
      /\ NewIsMoreTraditional(new, best) <=> a # 0 /\ (b = 0 \/ a < b)
  BY DEF NewIsMoreTraditional
<1> HIDE DEF a, b
<1>5. CASE ~new.is_import_found /\ ~new.is_partly_resolved
  <2>1. picked = best
    BY <1>5 DEF pick_best_import
  <2>2. b = 0 /\ ~new.is_import_found
    BY <1>1, <1>2, <1>5
  <2> QED  BY <1>1, <1>3, <1>4, <2>1, <2>2
<1>6. CASE ~(~new.is_import_found /\ ~new.is_partly_resolved) /\ a # b
  <2>1. picked = IF NewIsMoreTraditional(best, new) THEN new ELSE best
    BY <1>6 DEF pick_best_import, a, b
  <2> QED  BY <1>1, <1>3, <1>4, <1>6, <2>1
<1>7. CASE ~(~new.is_import_found /\ ~new.is_partly_resolved) /\ a = b
  <2>1. CASE ~new.is_import_found
    <3>1. picked = best
      BY <1>7, <2>1 DEF pick_best_import, a, b
    <3> QED  BY <1>3, <1>7, <2>1, <3>1
  <2>2. CASE new.is_import_found /\ ~best.is_import_found
    <3>1. picked = new
      BY <1>7, <2>2 DEF pick_best_import, a, b
    <3> QED  BY <1>3, <1>7, <2>2, <3>1
  <2>3. CASE new.is_import_found /\ best.is_import_found
    <3>1. picked = best \/ picked = new
      <4>1. LateRules(best, new) \in {best, new}
        BY DEF LateRules
      <4>2. NamespaceRule(best, new, symbols) \in {"new", "best", "neither"}
        BY DEF NamespaceRule
      <4> QED  BY <1>7, <2>3, <4>1, <4>2 DEF pick_best_import, a, b
    <3> QED  BY <1>3, <1>7, <2>3, <3>1
  <2> QED  BY <1>2, <2>1, <2>2, <2>3
<1> QED  BY <1>5, <1>6, <1>7

(* Without symbols a tie goes to a stub, unless best is typed and new not. *)
LEMMA TiesAreForStubs ==
    ASSUME NEW n \in Nat \ {0},
           NEW best, IsCounted(best, n), NEW new, IsCounted(new, n),
           ~Better(new, best), ~Better(best, new), best.is_import_found
    PROVE  \/ /\ pick_best_import(best, new, {}) = best
              /\ new.is_stub_file /\ ~best.is_stub_file => best.py_typed
           \/ /\ pick_best_import(best, new, {}) = new
              /\ new.is_stub_file
<1> DEFINE a == FirstTraditional(best)
           b == FirstTraditional(new)
           picked == pick_best_import(best, new, {})
<1>1. a \in Nat /\ b \in Nat
  BY FirstTraditionalIs
<1>2. a = b
  BY <1>1 DEF Better, NewIsMoreTraditional
<1>3. new.is_import_found
  BY <1>2 DEF Better
<1>4. Len(best.resolved_paths) = n /\ Len(new.resolved_paths) = n
  BY <1>3 DEF IsCounted
<1>5. NamespaceRule(best, new, {}) = "neither"
  BY DEF NamespaceRule
<1>6. picked = LateRules(best, new)
  BY <1>2, <1>3, <1>5 DEF pick_best_import
<1>7. LateRules(best, new) = IF best.py_typed /\ ~new.py_typed THEN best
                             ELSE IF best.is_stub_file # new.is_stub_file
                                THEN (IF new.is_stub_file THEN new ELSE best)
                             ELSE best
  BY <1>4 DEF LateRules
<1> HIDE DEF picked
<1> QED  BY <1>6, <1>7 DEF picked

(* The best of the first m results, in the words of ChosenIsBest.          *)
BestOfFirst(chosen, results, m, symbols) ==
    /\ \E k \in 1..m : chosen = results[k]
    /\ \A j \in 1..m : ~Better(results[j], chosen)
    /\ symbols = {} /\ chosen.is_import_found /\ ~chosen.is_stub_file =>
         /\ \E k \in 1..m : chosen = results[k] /\ \A j \in 1..k - 1 : Better(chosen, results[j])
         /\ \A j \in 1..m :
              results[j].is_stub_file /\ ~Better(chosen, results[j]) => chosen.py_typed

(* One more comparison.                                                    *)
LEMMA BestOfOneMore ==
    ASSUME NEW n \in Nat \ {0}, NEW symbols, NEW m \in Nat \ {0},
           NEW results, \A i \in 1..m + 1 : IsCounted(results[i], n),
           NEW best, BestOfFirst(best, results, m, symbols)
    PROVE  BestOfFirst(pick_best_import(best, results[m + 1], symbols), results, m + 1, symbols)
<1> DEFINE new == results[m + 1]
           chosen == pick_best_import(best, new, symbols)
<1>1. PICK k \in 1..m : best = results[k]
  BY DEF BestOfFirst
<1>2. m + 1 \in 1..m + 1 /\ k \in 1..m + 1 /\ \A j \in 1..m + 1 : j \in 1..m \/ j = m + 1
  OBVIOUS
<1>3. IsCounted(best, n) /\ IsCounted(new, n)
  BY <1>1, <1>2
<1>4. \A j \in 1..m : IsCounted(results[j], n) /\ ~Better(results[j], best)
  BY DEF BestOfFirst
<1>5. ~Better(new, new) /\ (Better(new, best) => ~Better(best, new))
  BY <1>3, BetterIsOrder
<1>6. \/ chosen = best /\ ~Better(new, best)
      \/ chosen = new /\ ~Better(best, new)
  BY <1>3, PickKeepsBetter
<1>7. ASSUME symbols = {}, chosen.is_import_found, ~chosen.is_stub_file
      PROVE  \/ chosen = best /\ (new.is_stub_file /\ ~Better(best, new) => best.py_typed)
             \/ chosen = new /\ Better(new, best)
  <2>1. CASE Better(new, best)
    BY <1>6, <2>1
  <2>2. CASE ~Better(new, best) /\ Better(best, new)
    BY <1>6, <2>2
  <2>3. CASE ~Better(new, best) /\ ~Better(best, new)
    <3>1. best.is_import_found
      <4>1. CASE chosen = best
        BY <1>7, <4>1
      <4>2. CASE chosen = new /\ ~best.is_import_found
        <5>1. FirstTraditional(new) \in Nat /\ FirstTraditional(best) \in Nat
          BY <1>3, FirstTraditionalIs
        <5>2. new.is_import_found
          BY <1>7, <4>2
        <5> HIDE DEF new
        <5> QED  BY <2>3, <4>2, <5>1, <5>2 DEF Better, NewIsMoreTraditional
      <4> QED  BY <1>6, <4>1, <4>2
    <3>2. \/ chosen = best /\ (new.is_stub_file /\ ~best.is_stub_file => best.py_typed)
          \/ chosen = new /\ new.is_stub_file
      BY <1>3, <1>7, <2>3, <3>1, TiesAreForStubs
    <3> QED  BY <1>7, <3>2
  <2> QED  BY <2>1, <2>2, <2>3
<1> HIDE DEF chosen, new
<1>8. \E i \in 1..m + 1 : chosen = results[i]
  BY <1>1, <1>2, <1>6 DEF new
<1>9. ASSUME NEW j \in 1..m + 1 PROVE ~Better(results[j], chosen)
  <2>1. CASE j \in 1..m
    <3>1. Better(results[j], new) => Better(results[j], best) \/ Better(best, new)
      BY <1>3, <1>4, <2>1, BetterIsOrder
    <3> QED  BY <1>4, <1>6, <2>1, <3>1
  <2>2. CASE j = m + 1
    BY <1>5, <1>6, <2>2 DEF new
  <2> QED  BY <1>2, <2>1, <2>2
<1>10. ASSUME symbols = {}, chosen.is_import_found, ~chosen.is_stub_file
       PROVE  /\ \E i \in 1..m + 1 : chosen = results[i] /\ \A j \in 1..i - 1 : Better(chosen, results[j])
              /\ \A j \in 1..m + 1 :
                   results[j].is_stub_file /\ ~Better(chosen, results[j]) => chosen.py_typed
  <2>1. CASE chosen = best /\ (new.is_stub_file /\ ~Better(best, new) => best.py_typed)
    <3>1. /\ \E i \in 1..m : best = results[i] /\ \A j \in 1..i - 1 : Better(best, results[j])
          /\ \A j \in 1..m : results[j].is_stub_file /\ ~Better(best, results[j]) => best.py_typed
      BY <1>10, <2>1 DEF BestOfFirst
    <3>2. \A i \in 1..m : i \in 1..m + 1
      OBVIOUS
    <3> QED  BY <1>2, <2>1, <3>1, <3>2 DEF new
  <2>2. CASE chosen = new /\ Better(new, best)
    <3>1. ASSUME NEW j \in 1..m PROVE Better(new, results[j])
      <4>1. Better(new, best) => Better(new, results[j]) \/ Better(results[j], best)
        BY <1>3, <1>4, BetterIsOrder
      <4> QED  BY <1>4, <2>2, <4>1
    <3>2. (m + 1) - 1 = m
      OBVIOUS
    <3>3. chosen = results[m + 1] /\ \A j \in 1..(m + 1) - 1 : Better(chosen, results[j])
      BY <2>2, <3>1, <3>2 DEF new
    <3>4. \A j \in 1..m + 1 : results[j].is_stub_file /\ ~Better(chosen, results[j]) => chosen.py_typed
      BY <1>2, <1>10, <2>2, <3>1 DEF new
    <3> QED  BY <1>2, <3>3, <3>4
  <2> QED  BY <1>7, <1>10, <2>1, <2>2
<1>11. BestOfFirst(chosen, results, m + 1, symbols)
  BY <1>8, <1>9, <1>10 DEF BestOfFirst
<1> QED  BY <1>11 DEF chosen, new

(* The chain of comparisons leaves the best result standing.               *)
LEMMA BestOfIsBest ==
    ASSUME NEW n \in Nat \ {0}, NEW w, NEW results, Len(results) \in Nat \ {0},
           \A i \in 1..Len(results) : IsCounted(results[i], n)
    PROVE  BestOfFirst(BestOf(w, results), results, Len(results), w.descriptor.imported_symbols)
<1> DEFINE symbols == w.descriptor.imported_symbols
           len == Len(results)
<1>1. PICK best :
        /\ BestOf(w, results) = best[len]
        /\ best[1] = results[1]
        /\ \A i \in 2..len : best[i] = pick_best_import(best[i - 1], results[i], symbols)
  BY BestUnfolds
<1> DEFINE S == {m \in 1..len : BestOfFirst(best[m], results, m, symbols)}
<1>0. len \in Nat \ {0} /\ len \in Nat /\ 1 \in 1..len /\ len \in 1..len
  OBVIOUS
<1> HIDE DEF len, symbols
<1>2. 1 \in S
  <2>1. IsCounted(results[1], n)
    BY <1>0 DEF len
  <2>2. ~Better(results[1], results[1])
    BY <2>1, BetterIsOrder
  <2>3. /\ 1 \in 1..1 /\ \A j \in 1..1 : j = 1
        /\ \A j : ~(j \in 1..1 - 1)
    OBVIOUS
  <2>4. BestOfFirst(results[1], results, 1, symbols)
    BY <2>2, <2>3 DEF BestOfFirst
  <2> QED  BY <1>0, <1>1, <2>4
<1>3. ASSUME NEW m \in 1..len - 1, m \in S PROVE m + 1 \in S
  <2>1. m + 1 \in 2..len /\ m + 1 \in 1..len /\ (m + 1) - 1 = m /\ m \in Nat \ {0}
    BY <1>0
  <2>2. \A i \in 1..m + 1 : i \in 1..len
    BY <1>0, <2>1
  <2>3. \A i \in 1..m + 1 : IsCounted(results[i], n)
    BY <2>2 DEF len
  <2>4. BestOfFirst(best[m], results, m, symbols)
    BY <1>3
  <2>5. BestOfFirst(pick_best_import(best[m], results[m + 1], symbols), results, m + 1, symbols)
    BY <2>1, <2>3, <2>4, BestOfOneMore
  <2>6. best[m + 1] = pick_best_import(best[m], results[m + 1], symbols)
    BY <1>1, <2>1
  <2> QED  BY <2>1, <2>5, <2>6
<1>4. len \in S
  <2> HIDE DEF S
  <2> QED  BY <1>0, <1>2, <1>3, FromOneUpTo
<1> QED  BY <1>1, <1>4 DEF len, symbols

-----------------------------------------------------------------------------
(* The file system.                                                        *)

(* The image of a finite set is finite.                                    *)
LEMMA FiniteImage ==
    ASSUME NEW f, IsFiniteSet(DOMAIN f), f = [x \in DOMAIN f |-> f[x]]
    PROVE  IsFiniteSet({f[x] : x \in DOMAIN f})
<1> DEFINE T == {f[x] : x \in DOMAIN f}
<1>1. f \in [DOMAIN f -> T] /\ \A t \in T : \E x \in DOMAIN f : f[x] = t
  OBVIOUS
<1>2. f \in Surjection(DOMAIN f, T)
  BY <1>1 DEF Surjection
<1> HIDE DEF T
<1>3. IsFiniteSet(T)
  BY <1>2, FS_Surjection
<1> QED  BY <1>3 DEF T

(* A listing holds elements of the set that is listed.                     *)
LEMMA ListingIs ==
    ASSUME NEW w, NEW S, IsFiniteSet(S)
    PROVE  SetToSeq(S) \in Seq(S) /\ ReadDir(w, S) \in Seq(S)
<1> DEFINE n == Cardinality(S)
           s == SetToSeq(S)
<1>1. n \in Nat /\ ExistsBijection(1..n, S)
  BY FS_CardinalityType
<1>2. \E f \in [1..n -> S] : IsInjective(f)
  BY <1>1 DEF ExistsBijection, Bijection, Injection
<1>3. s \in [1..n -> S]
  BY <1>2 DEF SetToSeq
<1> HIDE DEF s, n
<1>4. s \in Seq(S) /\ Len(s) = n
  BY <1>1, <1>3
<1>5. Reverse(s) \in Seq(S)
  <2>1. \A i \in 1..Len(s) : (Len(s) - i) + 1 \in 1..Len(s)
    BY <1>1, <1>4
  <2>2. \A i \in 1..Len(s) : s[(Len(s) - i) + 1] \in S
    BY <1>4, <2>1, ElementOfSeq
  <2>3. Reverse(s) \in [1..Len(s) -> S]
    BY <2>2 DEF Reverse
  <2> QED  BY <1>1, <1>4, <2>3
<1> QED  BY <1>4, <1>5 DEF ReadDir, s

LEMMA FirstIfAnyIs ==
    ASSUME NEW S, NEW s \in Seq(S)
    PROVE  \/ s = <<>> /\ FirstIfAny(s) = <<>>
           \/ \E x \in S : FirstIfAny(s) = <<x>>
<1>1. CASE s = <<>>
  BY <1>1 DEF FirstIfAny
<1>2. CASE s # <<>>
  BY <1>2, HeadTailProperties DEF FirstIfAny
<1> QED  BY <1>1, <1>2

LEMMA FirstAtIs ==
    ASSUME NEW s, NEW positions \in SUBSET Nat
    PROVE  \/ FirstAt(s, positions) = <<>>
           \/ \E i \in positions : FirstAt(s, positions) = <<s[i]>>
<1>1. CASE positions = {}
  BY <1>1 DEF FirstAt
<1>2. CASE positions # {}
  <2>1. \E i \in positions : \A j \in positions : i <= j
    BY <1>2, Least
  <2> DEFINE first == CHOOSE i \in positions : \A j \in positions : i <= j
  <2>2. first \in positions
    BY <2>1
  <2>3. FirstAt(s, positions) = <<s[first]>>
    BY <1>2 DEF FirstAt
  <2> QED  BY <2>2, <2>3
<1> QED  BY <1>1, <1>2

(* A native module that is found is a file of the directory.               *)
LEMMA NativeModuleIs ==
    ASSUME NEW w \in Worlds, WorldsAssumption, NEW name, NEW dir,
           find_native_module(w, name, dir) # <<>>
    PROVE  \E file \in DOMAIN w.files :
             /\ find_native_module(w, name, dir) = <<file>>
             /\ file.dir = dir /\ is_native_module_file_name(name, file)
<1> DEFINE S == {file \in FilesIn(w, dir) : is_native_module_file_name(name, file)}
<1>1. S \in SUBSET (DOMAIN w.files) /\ IsFiniteSet(DOMAIN w.files)
  BY DEF FilesIn, WorldsAssumption, FilesAssumption
<1>2. \A file \in S : file.dir = dir /\ is_native_module_file_name(name, file)
  BY DEF FilesIn
<1>3. find_native_module(w, name, dir) = FirstIfAny(ReadDir(w, S))
  BY DEF find_native_module
<1> HIDE DEF S
<1>4. ReadDir(w, S) \in Seq(S)
  BY <1>1, FS_Subset, ListingIs
<1>5. \E x \in S : FirstIfAny(ReadDir(w, S)) = <<x>>
  BY <1>3, <1>4, FirstIfAnyIs
<1> QED  BY <1>1, <1>2, <1>3, <1>5

LEMMA StubOrSourceIs ==
    ASSUME NEW w, NEW allow, NEW dir, NEW name
    PROVE  \/ StubOrSource(w, allow, dir, name) = <<>>
           \/ \E e \in {"py", "pyi"} :
                /\ StubOrSource(w, allow, dir, name) = <<File(dir, name, <<e>>)>>
                /\ IsFile(w, File(dir, name, <<e>>))
                /\ IsStub(StubOrSource(w, allow, dir, name)) <=> e = "pyi"
<1>1. \A e : IsStub(<<File(dir, name, <<e>>)>>) <=> e = "pyi"
  BY DEF IsStub, File, Last
<1> QED  BY <1>1 DEF StubOrSource

-----------------------------------------------------------------------------
(* What each step of the walk makes of the result.                         *)

Fields == DOMAIN not_found

LEMMA FieldsAre ==
    Fields = {"is_relative", "is_import_found", "is_partly_resolved", "is_namespace_package",
              "is_init_file_present", "is_stub_package", "import_type", "resolved_paths",
              "search_path", "is_stub_file", "is_native_lib", "typeshed",
              "is_local_typings_file", "implicit_imports", "non_stub", "py_typed",
              "package_directory"}
  BY DEF Fields, not_found

(* The fields that no step of the walk changes.                            *)
Fixed(r, s) ==
    /\ DOMAIN r = Fields
    /\ r.search_path = s.search_path /\ r.is_stub_package = s.is_stub_package
    /\ r.non_stub = s.non_stub

LEMMA NamespacePackageIs ==
    ASSUME NEW w, NEW dir, NEW name, NEW is_last, NEW r, DOMAIN r = Fields
    PROVE  LET t == NamespacePackage(w, dir, name, is_last, r)
           IN /\ Fixed(t, r) /\ t.is_native_lib = r.is_native_lib
              /\ t.is_stub_file = r.is_stub_file
              /\ t.package_directory = r.package_directory
              /\ t.resolved_paths = Append(r.resolved_paths, EmptyPath)
  BY FieldsAre DEF NamespacePackage, Fixed

(* A part that ends the walk: with nothing, with a file in lieu of a       *)
(* directory, with a native module, or with a namespace package.           *)
LastLookFinds(w, dir, name, allow, found_directory, is_last, r, t) ==
    \/ t = r
    \/ \E e \in {"py", "pyi"} :
         /\ IsFile(w, File(dir, name, <<e>>))
         /\ t.resolved_paths = r.resolved_paths \o <<File(dir, name, <<e>>)>>
         /\ t.is_stub_file = (r.is_stub_file \/ (is_last /\ e = "pyi"))
    \/ \E file \in DOMAIN w.files :
         /\ allow.native_lib /\ t.is_native_lib
         /\ file.dir = dir /\ is_native_module_file_name(name, file)
         /\ t.resolved_paths = r.resolved_paths \o <<file>>
         /\ t.is_stub_file = r.is_stub_file
    \/ /\ found_directory
       /\ t.resolved_paths = Append(r.resolved_paths, EmptyPath)
       /\ t.is_stub_file = r.is_stub_file

LEMMA ResolveFileIs ==
    ASSUME NEW w \in Worlds, WorldsAssumption, NEW dir, NEW name, NEW allow,
           NEW found_directory, NEW is_last, NEW r, DOMAIN r = Fields,
           NEW t, t = ResolveFile(w, dir, name, allow, found_directory, is_last, r)
    PROVE  /\ Fixed(t, r) /\ t.package_directory = r.package_directory
           /\ LastLookFinds(w, dir, name, allow, found_directory, is_last, r, t)
<1> DEFINE file == StubOrSource(w, allow, dir, name)
           native == find_native_module(w, name, dir)
<1>0. t = CASE file # <<>> ->
                  [r EXCEPT !.resolved_paths = @ \o file,
                            !.is_stub_file = @ \/ (is_last /\ IsStub(file))]
             [] file = <<>> /\ allow.native_lib /\ native # <<>> ->
                  [r EXCEPT !.resolved_paths = @ \o native, !.is_native_lib = TRUE]
             [] OTHER ->
                  IF found_directory THEN NamespacePackage(w, dir, name, is_last, r) ELSE r
  BY DEF ResolveFile
<1>1. CASE file # <<>>
  <2>1. t = [r EXCEPT !.resolved_paths = @ \o file,
                      !.is_stub_file = @ \/ (is_last /\ IsStub(file))]
    BY <1>0, <1>1
  <2>2. PICK e \in {"py", "pyi"} :
                /\ file = <<File(dir, name, <<e>>)>>
                /\ IsFile(w, File(dir, name, <<e>>))
                /\ IsStub(file) <=> e = "pyi"
    BY <1>1, StubOrSourceIs
  <2> HIDE DEF file
  <2>3. /\ Fixed(t, r) /\ t.package_directory = r.package_directory
        /\ t.resolved_paths = r.resolved_paths \o file
        /\ t.is_stub_file = (r.is_stub_file \/ (is_last /\ IsStub(file)))
    BY <2>1, FieldsAre DEF Fixed
  <2>4. t.is_stub_file = (r.is_stub_file \/ (is_last /\ e = "pyi"))
    BY <2>2, <2>3, Zenon
  <2> QED  BY <2>2, <2>3, <2>4 DEF LastLookFinds
<1>2. CASE file = <<>> /\ allow.native_lib /\ native # <<>>
  <2>1. t = [r EXCEPT !.resolved_paths = @ \o native, !.is_native_lib = TRUE]
    BY <1>0, <1>2
  <2>2. PICK f \in DOMAIN w.files :
             native = <<f>> /\ f.dir = dir /\ is_native_module_file_name(name, f)
    BY <1>2, NativeModuleIs
  <2> HIDE DEF file, native
  <2>3. /\ Fixed(t, r) /\ t.package_directory = r.package_directory
        /\ t.resolved_paths = r.resolved_paths \o native
        /\ t.is_native_lib /\ t.is_stub_file = r.is_stub_file
    BY <2>1, FieldsAre DEF Fixed
  <2> QED  BY <1>2, <2>2, <2>3 DEF LastLookFinds
<1>3. CASE ~(file # <<>>) /\ ~(file = <<>> /\ allow.native_lib /\ native # <<>>)
  <2>1. t = IF found_directory THEN NamespacePackage(w, dir, name, is_last, r) ELSE r
    BY <1>0, <1>3
  <2>2. CASE found_directory
    <3>1. t = NamespacePackage(w, dir, name, is_last, r)
      BY <2>1, <2>2
    <3>2. /\ Fixed(t, r) /\ t.package_directory = r.package_directory
          /\ t.resolved_paths = Append(r.resolved_paths, EmptyPath)
          /\ t.is_stub_file = r.is_stub_file
      BY <3>1, NamespacePackageIs
    <3> HIDE DEF native
    <3> QED  BY <2>2, <3>2 DEF LastLookFinds
  <2>3. CASE ~found_directory
    <3>1. t = r /\ Fixed(r, r)
      BY <2>1, <2>3 DEF Fixed
    <3> QED  BY <3>1 DEF LastLookFinds
  <2> QED  BY <2>2, <2>3
<1> QED  BY <1>1, <1>2, <1>3

PathsOf(w) == DOMAIN w.files \cup {EmptyPath}

PartName(w, allow, i) ==
    LET parts == w.descriptor.name_parts
    IN IF allow.stub_package /\ i = 1 THEN StubsOf[parts[i]] ELSE parts[i]

IsWalk(w, s) ==
    /\ DOMAIN s = {"dir", "goes_on", "result"} /\ s.goes_on \in BOOLEAN
    /\ DOMAIN s.result = Fields /\ s.result.resolved_paths \in Seq(PathsOf(w))
    /\ s.result.is_stub_file \in BOOLEAN

(* The path p of a part: the directory up to it without an __init__ file,  *)
(* an __init__ file or a file of its name, or a native module.  Here dir   *)
(* is the directory the walk has come to, r the result before the part and *)
(* q the result after it.                                                  *)
NewPath(w, allow, dir, name, is_last, r, q, p) ==
    \/ /\ p = EmptyPath /\ IsDir(w, Append(dir, name))
       /\ q.is_stub_file = r.is_stub_file
    \/ \E e \in {"py", "pyi"} :
         /\ p \in {File(Append(dir, name), "__init__", <<e>>), File(dir, name, <<e>>)}
         /\ IsFile(w, p)
         /\ q.is_stub_file = (r.is_stub_file \/ (is_last /\ e = "pyi"))
    \/ /\ allow.native_lib /\ q.is_native_lib
       /\ p \in DOMAIN w.files /\ p.dir = dir /\ is_native_module_file_name(name, p)
       /\ q.is_stub_file = r.is_stub_file

OnePathMore(w, allow, dir, name, is_last, r, q) ==
    \E p \in PathsOf(w) :
      /\ NewPath(w, allow, dir, name, is_last, r, q, p)
      /\ q.resolved_paths = Append(r.resolved_paths, p)

(* The last look adds one path or nothing.                                 *)
LEMMA LastLook ==
    ASSUME NEW w \in Worlds, WorldsAssumption, NEW dir, NEW name, NEW allow,
           NEW found_directory, found_directory => IsDir(w, Append(dir, name)),
           NEW is_last, NEW r, DOMAIN r = Fields, r.resolved_paths \in Seq(PathsOf(w)),
           NEW q, q = ResolveFile(w, dir, name, allow, found_directory, is_last, r)
    PROVE  /\ Fixed(q, r) /\ q.package_directory = r.package_directory
           /\ \/ q = r
              \/ OnePathMore(w, allow, dir, name, is_last, r, q)
<1> DEFINE S == PathsOf(w)
<1>0. \A p \in S : r.resolved_paths \o <<p>> = Append(r.resolved_paths, p)
  BY AppendIsConcat
<1>1. /\ Fixed(q, r) /\ q.package_directory = r.package_directory
      /\ LastLookFinds(w, dir, name, allow, found_directory, is_last, r, q)
  BY ResolveFileIs
<1>2. ASSUME NEW e \in {"py", "pyi"}, IsFile(w, File(dir, name, <<e>>)),
             q.resolved_paths = r.resolved_paths \o <<File(dir, name, <<e>>)>>,
             q.is_stub_file = (r.is_stub_file \/ (is_last /\ e = "pyi"))
      PROVE  OnePathMore(w, allow, dir, name, is_last, r, q)
  <2> DEFINE p == File(dir, name, <<e>>)
  <2>1. p \in S
    BY <1>2 DEF IsFile, PathsOf
  <2>2. NewPath(w, allow, dir, name, is_last, r, q, p)
    BY <1>2, Zenon DEF NewPath
  <2> HIDE DEF p
  <2> QED  BY <1>0, <1>2, <2>1, <2>2 DEF p, OnePathMore
<1>3. ASSUME NEW file \in DOMAIN w.files, allow.native_lib, q.is_native_lib,
             file.dir = dir, is_native_module_file_name(name, file),
             q.resolved_paths = r.resolved_paths \o <<file>>,
             q.is_stub_file = r.is_stub_file
      PROVE  OnePathMore(w, allow, dir, name, is_last, r, q)
  BY <1>0, <1>3 DEF OnePathMore, NewPath, PathsOf
<1>4. ASSUME found_directory, q.resolved_paths = Append(r.resolved_paths, EmptyPath),
             q.is_stub_file = r.is_stub_file
      PROVE  OnePathMore(w, allow, dir, name, is_last, r, q)
  BY <1>4 DEF OnePathMore, NewPath, PathsOf
<1>5. \/ q = r
      \/ OnePathMore(w, allow, dir, name, is_last, r, q)
  BY <1>1, <1>2, <1>3, <1>4 DEF LastLookFinds
<1> QED  BY <1>1, <1>5

(* What one part adds to a walk that goes on.                              *)
PartAdds(w, allow, i, s, t) ==
    LET name == PartName(w, allow, i)
        is_last == i = Len(w.descriptor.name_parts)
    IN /\ IsWalk(w, t) /\ Fixed(t.result, s.result)
       /\ t.goes_on =>
            /\ ~is_last /\ t.dir = Append(s.dir, name)
            /\ t.result.is_native_lib = s.result.is_native_lib
       /\ ~IsDir(w, Append(s.dir, name)) =>
            ~t.goes_on /\ t.result.package_directory = s.result.package_directory
       /\ \/ t.result.resolved_paths = s.result.resolved_paths /\ ~t.goes_on
          \/ OnePathMore(w, allow, s.dir, name, is_last, s.result, t.result)

LEMMA LastLookKeepsTypes ==
    ASSUME NEW w \in Worlds, WorldsAssumption, NEW dir, NEW name, NEW allow, NEW is_last,
           NEW r, r.resolved_paths \in Seq(PathsOf(w)), r.is_stub_file \in BOOLEAN,
           NEW q, q = r \/ OnePathMore(w, allow, dir, name, is_last, r, q)
    PROVE  q.resolved_paths \in Seq(PathsOf(w)) /\ q.is_stub_file \in BOOLEAN
<1>1. CASE q = r
  BY <1>1
<1>2. ASSUME NEW p \in PathsOf(w), NewPath(w, allow, dir, name, is_last, r, q, p),
             q.resolved_paths = Append(r.resolved_paths, p)
      PROVE  q.resolved_paths \in Seq(PathsOf(w)) /\ q.is_stub_file \in BOOLEAN
  <2>1. q.resolved_paths \in Seq(PathsOf(w))
    BY <1>2, AppendProperties
  <2>2. q.is_stub_file \in BOOLEAN
    BY <1>2, Zenon DEF NewPath
  <2> QED  BY <2>1, <2>2
<1> QED  BY <1>1, <1>2 DEF OnePathMore

LEMMA WalkPartAdds ==
    ASSUME NEW w \in Worlds, WorldsAssumption, NEW allow,
           NEW i \in 1..Len(w.descriptor.name_parts),
           NEW s, IsWalk(w, s), s.goes_on, NEW t, t = WalkPart(w, allow, s, i)
    PROVE  PartAdds(w, allow, i, s, t)
<1> DEFINE parts == w.descriptor.name_parts
           is_last == i = Len(parts)
           name == PartName(w, allow, i)
           dir == Append(s.dir, name)
           init == StubOrSource(w, allow, dir, "__init__")
           entered == Entered(w, allow, s.result, dir, init, i = 1, is_last)
           r == s.result
           q == t.result
<1>0. /\ DOMAIN s = {"dir", "goes_on", "result"} /\ s.goes_on \in BOOLEAN
      /\ DOMAIN r = Fields /\ r.resolved_paths \in Seq(PathsOf(w)) /\ r.is_stub_file \in BOOLEAN
  BY DEF IsWalk
<1>1. t = IF IsDir(w, dir) THEN WalkDirectory(w, allow, s, name, dir, init, entered, is_last)
          ELSE [s EXCEPT !.goes_on = FALSE,
                         !.result = ResolveFile(w, s.dir, name, allow, FALSE, is_last, @)]
  BY DEF WalkPart, PartName
<1> HIDE DEF is_last
<1>2. CASE ~IsDir(w, dir)
  <2> DEFINE found == ResolveFile(w, s.dir, name, allow, FALSE, is_last, r)
  <2>1. t = [s EXCEPT !.goes_on = FALSE, !.result = found]
    BY <1>1, <1>2
  <2> HIDE DEF found, name
  <2>2. DOMAIN t = {"dir", "goes_on", "result"} /\ t.goes_on = FALSE /\ q = found
    BY <1>0, <2>1
  <2>3. /\ Fixed(q, r) /\ q.package_directory = r.package_directory
        /\ \/ q = r
           \/ OnePathMore(w, allow, s.dir, name, is_last, r, q)
    BY <1>0, <2>2, LastLook DEF found
  <2>4. q.resolved_paths \in Seq(PathsOf(w)) /\ q.is_stub_file \in BOOLEAN
    BY <1>0, <2>3, LastLookKeepsTypes
  <2>5. IsWalk(w, t)
    BY <2>2, <2>3, <2>4 DEF IsWalk, Fixed
  <2>6. PartAdds(w, allow, i, s, t)
    BY <2>2, <2>3, <2>5 DEF PartAdds, is_last, name
  <2> QED  BY <2>6
<1>3. CASE IsDir(w, dir)
  <2>1. t = WalkDirectory(w, allow, s, name, dir, init, entered, is_last)
    BY <1>1, <1>3
  <2>2. /\ Fixed(entered, r) /\ entered.is_native_lib = r.is_native_lib
        /\ entered.resolved_paths = r.resolved_paths \o init
        /\ entered.is_stub_file = (r.is_stub_file \/ (is_last /\ IsStub(init)))
    <3>1. entered = Entered(w, allow, r, dir, init, i = 1, is_last)
      OBVIOUS
    <3> HIDE DEF entered, init, dir
    <3> QED  BY <1>0, <3>1, FieldsAre DEF Entered, Fixed
  <2>3. \/ init = <<>>
        \/ \E e \in {"py", "pyi"} :
             /\ init = <<File(dir, "__init__", <<e>>)>> /\ IsFile(w, File(dir, "__init__", <<e>>))
             /\ IsStub(init) <=> e = "pyi"
    BY StubOrSourceIs
  <2> HIDE DEF name, dir, init, entered
  \* An __init__ file is the path of the part.
  <2>4. ASSUME NEW u, u.resolved_paths = entered.resolved_paths,
               u.is_stub_file = entered.is_stub_file, init # <<>>
        PROVE  /\ OnePathMore(w, allow, s.dir, name, is_last, r, u)
               /\ u.resolved_paths \in Seq(PathsOf(w)) /\ u.is_stub_file \in BOOLEAN
    <3>1. PICK e \in {"py", "pyi"} :
             /\ init = <<File(dir, "__init__", <<e>>)>> /\ IsFile(w, File(dir, "__init__", <<e>>))
             /\ IsStub(init) <=> e = "pyi"
      BY <2>3, <2>4
    <3> DEFINE p == File(dir, "__init__", <<e>>)
    <3>2. u.is_stub_file = (r.is_stub_file \/ (is_last /\ e = "pyi"))
      BY <2>2, <2>4, <3>1, Zenon
    <3>3. NewPath(w, allow, s.dir, name, is_last, r, u, p)
      BY <3>1, <3>2, Zenon DEF NewPath, dir
    <3>4. p \in PathsOf(w)
      BY <3>1 DEF IsFile, PathsOf
    <3> HIDE DEF p
    <3>5. u.resolved_paths = Append(r.resolved_paths, p)
      BY <1>0, <2>2, <2>4, <3>1, <3>4, AppendIsConcat DEF p
    <3>6. u.resolved_paths \in Seq(PathsOf(w)) /\ u.is_stub_file \in BOOLEAN
      <4>1. u.resolved_paths \in Seq(PathsOf(w))
        BY <1>0, <3>4, <3>5, AppendProperties
      <4>2. u.is_stub_file \in BOOLEAN
        BY <3>2, Zenon
      <4> QED  BY <4>1, <4>2
    <3> QED  BY <3>3, <3>4, <3>5, <3>6 DEF OnePathMore
  \* Without one nothing is added yet.
  <2>5. ASSUME init = <<>>
        PROVE  entered.resolved_paths = r.resolved_paths /\ entered.is_stub_file = r.is_stub_file
    <3>1. entered.resolved_paths = r.resolved_paths
      BY <1>0, <2>2, <2>5, ConcatEmptySeq
    <3>2. ~IsStub(init)
      BY <2>5 DEF IsStub
    <3> QED  BY <1>0, <2>2, <3>1, <3>2
  <2>6. CASE ~is_last
    <3>1. t = EnterDirectory(s, dir, init, entered)
      BY <2>1, <2>6 DEF WalkDirectory
    <3>2. DOMAIN entered = Fields
      BY <2>2 DEF Fixed
    <3>3. /\ DOMAIN t = {"dir", "goes_on", "result"}
          /\ t.dir = dir /\ t.goes_on = s.goes_on
          /\ Fixed(q, entered) /\ q.is_native_lib = entered.is_native_lib
          /\ q.is_stub_file = entered.is_stub_file
          /\ init # <<>> => q.resolved_paths = entered.resolved_paths
          /\ init = <<>> => q.resolved_paths = Append(entered.resolved_paths, EmptyPath)
      <4> DEFINE changed == IF init # <<>> THEN entered
                            ELSE [entered EXCEPT !.resolved_paths = Append(@, EmptyPath),
                                                 !.is_namespace_package = TRUE,
                                                 !.py_typed = FALSE]
      <4>1. t = [s EXCEPT !.dir = dir, !.result = changed]
        BY <3>1 DEF EnterDirectory
      <4>2. /\ Fixed(changed, entered) /\ changed.is_native_lib = entered.is_native_lib
            /\ changed.is_stub_file = entered.is_stub_file
            /\ init # <<>> => changed.resolved_paths = entered.resolved_paths
            /\ init = <<>> => changed.resolved_paths = Append(entered.resolved_paths, EmptyPath)
        BY <3>2, FieldsAre DEF Fixed
      <4> HIDE DEF changed
      <4>3. /\ DOMAIN t = {"dir", "goes_on", "result"}
            /\ t.dir = dir /\ t.goes_on = s.goes_on /\ q = changed
        BY <1>0, <4>1
      <4> QED  BY <4>2, <4>3
    <3>4. /\ OnePathMore(w, allow, s.dir, name, is_last, r, q)
          /\ q.resolved_paths \in Seq(PathsOf(w)) /\ q.is_stub_file \in BOOLEAN
      <4>1. CASE init # <<>>
        <5>1. q.resolved_paths = entered.resolved_paths
          BY <3>3, <4>1
        <5> QED  BY <2>4, <3>3, <4>1, <5>1
      <4>2. CASE init = <<>>
        <5>1. q.resolved_paths = Append(r.resolved_paths, EmptyPath) /\ q.is_stub_file = r.is_stub_file
          BY <2>5, <3>3, <4>2
        <5>2. EmptyPath \in PathsOf(w) /\ NewPath(w, allow, s.dir, name, is_last, r, q, EmptyPath)
          BY <1>3, <5>1 DEF PathsOf, NewPath, dir
        <5>3. q.resolved_paths \in Seq(PathsOf(w))
          BY <1>0, <5>1, <5>2, AppendProperties
        <5> QED  BY <1>0, <5>1, <5>2, <5>3 DEF OnePathMore
      <4> QED  BY <4>1, <4>2
    <3>5. Fixed(q, r)
      BY <2>2, <3>3 DEF Fixed
    <3>6. IsWalk(w, t)
      BY <3>3, <3>4, <3>5 DEF IsWalk, Fixed
    <3> QED  BY <1>3, <2>2, <2>6, <3>3, <3>4, <3>5, <3>6 DEF PartAdds, is_last, dir, name
  <2>7. CASE is_last
    <3> DEFINE found == ResolveFile(w, s.dir, name, allow, TRUE, TRUE, entered)
               package == [entered EXCEPT !.implicit_imports =
                              find_implicit_imports(w, dir, BothFiles(dir, "__init__"))]
    <3>1. t = [s EXCEPT !.goes_on = FALSE, !.result = IF init = <<>> THEN found ELSE package]
      BY <2>1, <2>7 DEF WalkDirectory
    <3> HIDE DEF found, package
    <3>2. /\ DOMAIN t = {"dir", "goes_on", "result"} /\ t.goes_on = FALSE
          /\ q = IF init = <<>> THEN found ELSE package
      BY <1>0, <3>1
    <3>3. /\ Fixed(q, r)
          /\ \/ q.resolved_paths = r.resolved_paths
             \/ OnePathMore(w, allow, s.dir, name, is_last, r, q)
          /\ q.resolved_paths \in Seq(PathsOf(w)) /\ q.is_stub_file \in BOOLEAN
      <4>0. DOMAIN entered = Fields
        BY <2>2 DEF Fixed
      <4>1. CASE init # <<>>
        <5>1. q = package
          BY <3>2, <4>1
        <5>2. /\ Fixed(q, entered) /\ q.resolved_paths = entered.resolved_paths
              /\ q.is_stub_file = entered.is_stub_file
          BY <4>0, <5>1, FieldsAre DEF package, Fixed
        <5>3. Fixed(q, r)
          BY <2>2, <5>2 DEF Fixed
        <5> QED  BY <2>4, <4>1, <5>2, <5>3
      <4>2. CASE init = <<>>
        <5>1. entered.resolved_paths = r.resolved_paths /\ entered.is_stub_file = r.is_stub_file
          BY <2>5, <4>2
        <5>2. q = ResolveFile(w, s.dir, name, allow, TRUE, is_last, entered)
          BY <2>7, <3>2, <4>2 DEF found
        <5>3. IsDir(w, Append(s.dir, name)) /\ entered.resolved_paths \in Seq(PathsOf(w))
              /\ entered.is_stub_file \in BOOLEAN
          BY <1>0, <1>3, <5>1 DEF dir
        <5>4. /\ Fixed(q, entered)
              /\ \/ q = entered
                 \/ OnePathMore(w, allow, s.dir, name, is_last, entered, q)
          BY <4>0, <5>2, <5>3, LastLook
        <5>5. q.resolved_paths \in Seq(PathsOf(w)) /\ q.is_stub_file \in BOOLEAN
          BY <5>3, <5>4, LastLookKeepsTypes
        <5>6. OnePathMore(w, allow, s.dir, name, is_last, entered, q)
                => OnePathMore(w, allow, s.dir, name, is_last, r, q)
          BY <5>1 DEF OnePathMore, NewPath
        <5>7. Fixed(q, r)
          BY <2>2, <5>4 DEF Fixed
        <5> QED  BY <5>1, <5>4, <5>5, <5>6, <5>7
      <4> QED  BY <4>1, <4>2
    <3>4. IsWalk(w, t)
      BY <3>2, <3>3 DEF IsWalk, Fixed
    <3> QED  BY <1>3, <3>2, <3>3, <3>4 DEF PartAdds, is_last, dir, name
  <2> QED  BY <2>6, <2>7
<1> QED  BY <1>2, <1>3

-----------------------------------------------------------------------------
(* The walk over all parts.                                                *)

LEMMA WalkUnfolds ==
    ASSUME NEW w, NEW root, NEW allow, NEW start, Len(w.descriptor.name_parts) \in Nat
    PROVE  \E walk :
             /\ Walk(w, root, allow, start) = walk[Len(w.descriptor.name_parts)].result
             /\ walk[0] = [dir |-> root, goes_on |-> TRUE, result |-> start]
             /\ \A i \in 1..Len(w.descriptor.name_parts) :
                  walk[i] = WalkPart(w, allow, walk[i - 1], i)
<1> DEFINE n == Len(w.descriptor.name_parts)
           first == [dir |-> root, goes_on |-> TRUE, result |-> start]
           Step(s, i) == WalkPart(w, allow, s, i)
           Good(f, m) == /\ DOMAIN f = 0..m
                         /\ f[0] = first /\ \A i \in 1..m : f[i] = Step(f[i - 1], i)
           S == {m \in 0..n : \E f : Good(f, m)}
           Is(f) == f = [i \in 0..n |-> IF i = 0 THEN first ELSE Step(f[i - 1], i)]
           walk == CHOOSE f : Is(f)
<1>0. n \in Nat /\ 0 \in 0..n /\ n \in 0..n
  OBVIOUS
<1>7. Walk(w, root, allow, start) = walk[n].result
  BY DEF Walk
<1> HIDE DEF n, first, Step
<1>1. 0 \in S
  <2>1. Good([i \in 0..0 |-> first], 0)
    OBVIOUS
  <2> HIDE DEF Good
  <2> QED  BY <1>0, <2>1
<1>2. ASSUME NEW m \in 0..n - 1, m \in S PROVE m + 1 \in S
  <2>1. PICK f : Good(f, m)
    BY <1>2
  <2> DEFINE g == [i \in 0..m + 1 |-> IF i = m + 1 THEN Step(f[m], m + 1) ELSE f[i]]
  <2>2. g[0] = first
    <3>1. 0 \in 0..m + 1 /\ 0 # m + 1
      OBVIOUS
    <3> QED  BY <2>1, <3>1
  <2>3. ASSUME NEW i \in 1..m + 1 PROVE g[i] = Step(g[i - 1], i)
    <3>1. i \in 0..m + 1 /\ i - 1 \in 0..m + 1 /\ i - 1 # m + 1
      OBVIOUS
    <3>2. CASE i = m + 1
      <4>1. g[i] = Step(f[m], m + 1) /\ g[i - 1] = f[m]
        BY <3>1, <3>2
      <4> QED  BY <3>2, <4>1
    <3>3. CASE i # m + 1
      <4>1. i \in 1..m
        BY <3>1, <3>3
      <4>2. g[i] = f[i] /\ g[i - 1] = f[i - 1]
        BY <3>1, <3>3
      <4> QED  BY <2>1, <4>1, <4>2
    <3> QED  BY <3>2, <3>3
  <2>4. DOMAIN g = 0..m + 1
    OBVIOUS
  <2>5. Good(g, m + 1)
    <3> HIDE DEF g
    <3> QED  BY <2>2, <2>3, <2>4
  <2>6. m + 1 \in 0..n
    BY <1>0
  <2> HIDE DEF Good, g
  <2> QED  BY <2>5, <2>6
<1>3. n \in S
  <2> HIDE DEF S
  <2> QED  BY <1>0, <1>1, <1>2, UpTo
<1>4. PICK f : Good(f, n)
  BY <1>3
<1>5. Is([i \in 0..n |-> f[i]])
  <2> DEFINE h == [i \in 0..n |-> f[i]]
  <2>1. ASSUME NEW i \in 0..n PROVE h[i] = IF i = 0 THEN first ELSE Step(h[i - 1], i)
    <3>1. CASE i = 0
      BY <1>4, <3>1
    <3>2. CASE i # 0
      <4>1. i \in 1..n /\ i - 1 \in 0..n
        BY <1>0, <3>2
      <4> QED  BY <1>4, <3>2, <4>1
    <3> QED  BY <3>1, <3>2
  <2> QED  BY <2>1
<1>6. Is(walk)
  <2> HIDE DEF Is
  <2> QED  BY <1>5
<1> HIDE DEF walk
<1>8. walk[0] = first
  BY <1>0, <1>6
<1>9. ASSUME NEW i \in 1..n PROVE walk[i] = Step(walk[i - 1], i)
  <2>1. i \in 0..n /\ i # 0
    BY <1>0
  <2> QED  BY <1>6, <2>1
<1> QED  BY <1>7, <1>8, <1>9 DEF n, first, Step

LEMMA ConcatAppend ==
    ASSUME NEW S, NEW d \in Seq(S), NEW s \in Seq(S), NEW x \in S
    PROVE  d \o Append(s, x) = Append(d \o s, x)
<1>1. <<x>> \in Seq(S) /\ d \o s \in Seq(S)
  BY ConcatProperties
<1>2. Append(s, x) = s \o <<x>> /\ Append(d \o s, x) = (d \o s) \o <<x>>
  BY <1>1, AppendIsConcat
<1>3. (d \o s) \o <<x>> = d \o (s \o <<x>>)
  BY <1>1, ConcatAssociative
<1> QED  BY <1>2, <1>3

(* The directory that spells a part is the one of the part before it and   *)
(* the name of the part.                                                   *)
LEMMA SpelledDirIs ==
    ASSUME NEW w \in Worlds, WorldsAssumption, NEW allow, NEW r,
           r.search_path \in Dir, r.is_stub_package = allow.stub_package
    PROVE  /\ Len(w.descriptor.name_parts) \in Nat
           /\ SpelledDir(w, r, 0) = r.search_path
           /\ \A i \in 0..Len(w.descriptor.name_parts) : SpelledDir(w, r, i) \in Dir
           /\ \A i \in 1..Len(w.descriptor.name_parts) :
                /\ SpelledDir(w, r, i) = Append(SpelledDir(w, r, i - 1), PartName(w, allow, i))
                /\ Front(SpelledDir(w, r, i)) = SpelledDir(w, r, i - 1)
                /\ Last(SpelledDir(w, r, i)) = PartName(w, allow, i)
<1> DEFINE parts == w.descriptor.name_parts
           Spelled(j) == IF r.is_stub_package /\ j = 1 THEN StubsOf[parts[j]] ELSE parts[j]
           Names(i) == [j \in 1..i |-> Spelled(j)]
<1>1. parts \in Dir /\ Len(parts) \in Nat /\ (parts # <<>> => StubsOf[parts[1]] \in Name)
  BY DEF WorldsAssumption, DescriptorAssumption
<1>2. \A j \in 1..Len(parts) : Spelled(j) = PartName(w, allow, j) /\ Spelled(j) \in Name
  <2> SUFFICES ASSUME NEW j \in 1..Len(parts)
               PROVE  Spelled(j) = PartName(w, allow, j) /\ Spelled(j) \in Name
    OBVIOUS
  <2>1. Spelled(j) = PartName(w, allow, j)
    BY DEF PartName
  <2>2. parts[j] \in Name /\ parts # <<>>
    <3>1. parts[j] \in Name
      BY <1>1, ElementOfSeq DEF Dir
    <3>2. parts # <<>>
      BY <1>1
    <3> QED  BY <3>1, <3>2
  <2>3. StubsOf[parts[1]] \in Name
    BY <1>1, <2>2
  <2> QED  BY <2>1, <2>2, <2>3
<1>3. \A i : SpelledDir(w, r, i) = r.search_path \o Names(i)
  BY DEF SpelledDir
<1> HIDE DEF Spelled
<1>4. \A i \in 0..Len(parts) : Names(i) \in Seq(Name) /\ Len(Names(i)) = i
  <2> SUFFICES ASSUME NEW i \in 0..Len(parts)
               PROVE  Names(i) \in Seq(Name) /\ Len(Names(i)) = i
    OBVIOUS
  <2>1. i \in Nat /\ \A j \in 1..i : j \in 1..Len(parts)
    BY <1>1
  <2>2. Names(i) \in [1..i -> Name]
    BY <1>2, <2>1
  <2> QED  BY <2>1, <2>2
<1>5. SpelledDir(w, r, 0) = r.search_path
  <2>1. Names(0) \in Seq(Name) /\ Len(Names(0)) = 0
    BY <1>1, <1>4
  <2>2. Names(0) = <<>>
    BY <2>1, EmptySeq
  <2> HIDE DEF Names
  <2> QED  BY <1>3, <2>2, ConcatEmptySeq DEF Dir
<1>6. \A i \in 0..Len(parts) : SpelledDir(w, r, i) \in Dir
  <2> HIDE DEF Names
  <2> QED  BY <1>3, <1>4, ConcatProperties, ZenonT(60) DEF Dir
<1>7. ASSUME NEW i \in 1..Len(parts)
      PROVE  SpelledDir(w, r, i) = Append(SpelledDir(w, r, i - 1), PartName(w, allow, i))
  <2>1. i \in 0..Len(parts) /\ i - 1 \in 0..Len(parts) /\ PartName(w, allow, i) \in Name
    BY <1>1, <1>2
  <2> DEFINE s == Names(i - 1)
             x == PartName(w, allow, i)
  <2>2. /\ s \in Seq(Name) /\ Len(s) = i - 1
        /\ Names(i) \in Seq(Name) /\ Len(Names(i)) = i
    BY <1>4, <2>1
  <2>3. Names(i) = Append(s, x)
    <3>1. /\ Append(s, x) \in Seq(Name) /\ Len(Append(s, x)) = (i - 1) + 1
          /\ \A j \in 1..i - 1 : Append(s, x)[j] = s[j]
          /\ Append(s, x)[(i - 1) + 1] = x
      <4> HIDE DEF s, x
      <4> QED  BY <2>1, <2>2, AppendProperties DEF x
    <3>2. \A j \in 1..i - 1 : Names(i)[j] = s[j]
      OBVIOUS
    <3>3. Names(i)[i] = x
      BY <1>2
    <3>4. (i - 1) + 1 = i /\ \A j \in 1..i : j \in 1..i - 1 \/ j = i
      OBVIOUS
    <3> HIDE DEF Names, s, x
    <3>5. \A j \in 1..Len(Names(i)) : Names(i)[j] = Append(s, x)[j]
      BY <2>2, <3>1, <3>2, <3>3, <3>4
    <3> QED  BY <2>2, <3>1, <3>4, <3>5, SeqEqual
  <2> HIDE DEF Names, s, x
  <2>4. /\ r.search_path \in Seq(Name) /\ <<x>> \in Seq(Name)
        /\ r.search_path \o s \in Seq(Name)
    BY <2>1, <2>2, ConcatProperties DEF Dir, x
  <2>5. r.search_path \o Append(s, x) = Append(r.search_path \o s, x)
    <3>1. x \in Name
      BY <2>1 DEF x
    <3>2. \A d \in Seq(Name) : \A u \in Seq(Name) : \A y \in Name :
            d \o Append(u, y) = Append(d \o u, y)
      BY ConcatAppend
    <3>3. \A u \in Seq(Name) : \A y \in Name : r.search_path \o Append(u, y) = Append(r.search_path \o u, y)
      BY <2>4, <3>2
    <3> QED  BY <2>2, <3>1, <3>3
  <2>6. SpelledDir(w, r, i) = r.search_path \o Names(i)
    BY <1>3
  <2>7. SpelledDir(w, r, i - 1) = r.search_path \o s
    BY <1>3 DEF s
  <2> QED  BY <2>3, <2>5, <2>6, <2>7 DEF x
<1>8. ASSUME NEW i \in 1..Len(parts)
      PROVE  /\ Front(SpelledDir(w, r, i)) = SpelledDir(w, r, i - 1)
             /\ Last(SpelledDir(w, r, i)) = PartName(w, allow, i)
  <2> DEFINE d == SpelledDir(w, r, i - 1)
             x == PartName(w, allow, i)
  <2>1. d \in Seq(Name) /\ x \in Name /\ SpelledDir(w, r, i) = Append(d, x)
    <3>1. i - 1 \in 0..Len(parts)
      BY <1>1
    <3>2. d \in Dir
      BY <1>6, <3>1
    <3>3. x \in Name
      BY <1>2
    <3> QED  BY <1>7, <3>2, <3>3 DEF Dir
  <2> HIDE DEF d, x
  <2>2. /\ Append(d, x) \in Seq(Name) /\ Len(Append(d, x)) = Len(d) + 1
        /\ \A j \in 1..Len(d) : Append(d, x)[j] = d[j]
        /\ Append(d, x)[Len(d) + 1] = x
    BY <2>1, AppendProperties
  <2>3. Last(Append(d, x)) = x
    BY <2>2 DEF Last
  <2>4. Front(Append(d, x)) = d
    <3>1. Len(d) \in Nat /\ (Len(d) + 1) - 1 = Len(d)
      BY <2>1
    <3>2. Front(Append(d, x)) = SubSeq(Append(d, x), 1, Len(d))
      BY <2>2, <3>1 DEF Front
    <3>3. \A j \in 1..Len(d) : Append(d, x)[j] \in Name
      BY <2>1, <2>2, ElementOfSeq
    <3>4. /\ SubSeq(Append(d, x), 1, Len(d)) \in Seq(Name)
          /\ Len(SubSeq(Append(d, x), 1, Len(d))) = IF 1 <= Len(d) THEN Len(d) - 1 + 1 ELSE 0
          /\ \A j \in 1..Len(d) - 1 + 1 : SubSeq(Append(d, x), 1, Len(d))[j] = Append(d, x)[1 + j - 1]
      BY <3>1, <3>3, SubSeqProperties
    <3>5. \A j \in 1..Len(d) : j \in 1..Len(d) - 1 + 1 /\ 1 + j - 1 = j
      BY <3>1
    <3>6. Len(SubSeq(Append(d, x), 1, Len(d))) = Len(d)
      BY <3>1, <3>4
    <3>7. \A j \in 1..Len(SubSeq(Append(d, x), 1, Len(d))) : SubSeq(Append(d, x), 1, Len(d))[j] = d[j]
      BY <2>2, <3>4, <3>5, <3>6
    <3> QED  BY <2>1, <3>2, <3>4, <3>6, <3>7, SeqEqual
  <2> QED  BY <2>1, <2>3, <2>4 DEF d, x
<1> QED  BY <1>1, <1>5, <1>6, <1>7, <1>8

(* The path a part adds spells the module up to the part.                  *)
LEMMA NewPathSpells ==
    ASSUME NEW w \in Worlds, WorldsAssumption, NEW allow, allow.stub_package => ~allow.native_lib,
           NEW i \in 1..Len(w.descriptor.name_parts),
           NEW r, r.search_path \in Dir, r.is_stub_package = allow.stub_package,
           r.resolved_paths \in Seq(PathsOf(w)), Len(r.resolved_paths) = i - 1,
           ~r.is_stub_file,
           NEW q, Fixed(q, r), q.is_native_lib => i = Len(w.descriptor.name_parts),
           OnePathMore(w, allow, SpelledDir(w, r, i - 1), PartName(w, allow, i),
                       i = Len(w.descriptor.name_parts), r, q)
    PROVE  /\ Len(q.resolved_paths) = i
           /\ \A j \in 1..i - 1 : q.resolved_paths[j] = r.resolved_paths[j]
           /\ PathSpells(w, q, i)
           /\ i = Len(w.descriptor.name_parts) => (q.is_stub_file <=> EndsInStub(q))
           /\ i # Len(w.descriptor.name_parts) => ~q.is_stub_file
<1> DEFINE n == Len(w.descriptor.name_parts)
           d == SpelledDir(w, r, i - 1)
           name == PartName(w, allow, i)
           is_last == i = n
<1>1. /\ n \in Nat
      /\ SpelledDir(w, r, i) = Append(d, name)
      /\ Front(SpelledDir(w, r, i)) = d /\ Last(SpelledDir(w, r, i)) = name
  BY SpelledDirIs
<1>2. SpelledDir(w, q, i) = SpelledDir(w, r, i)
  BY DEF Fixed, SpelledDir
<1> HIDE DEF n, d, name
<1>3. PICK p \in PathsOf(w) :
        /\ NewPath(w, allow, d, name, is_last, r, q, p)
        /\ q.resolved_paths = Append(r.resolved_paths, p)
  BY DEF OnePathMore, n, d, name
<1>4. /\ Len(q.resolved_paths) = (i - 1) + 1 /\ (i - 1) + 1 = i
      /\ \A j \in 1..i - 1 : q.resolved_paths[j] = r.resolved_paths[j]
      /\ q.resolved_paths[(i - 1) + 1] = p
  BY <1>1, <1>3, AppendProperties DEF n
<1>5. q.resolved_paths[i] = p /\ Len(q.resolved_paths) = i
  BY <1>4
<1>6. EndsInStub(q) <=> p.ext # <<>> /\ Last(p.ext) = "pyi"
  BY <1>5 DEF EndsInStub, Last
<1>7. PathSpells(w, q, i) <=>
        IF p = EmptyPath THEN IsDir(w, Append(d, name))
        ELSE /\ IsFile(w, p)
             /\ \/ p \in BothFiles(Append(d, name), "__init__") \cup BothFiles(d, name)
                \/ /\ q.is_native_lib /\ i = n
                   /\ p.dir = d /\ is_native_module_file_name(w.descriptor.name_parts[i], p)
  BY <1>1, <1>2, <1>5, Zenon DEF PathSpells, SpelledFiles, n
<1>9. EmptyPath.ext = <<>>
  BY DEF EmptyPath, File
<1>8. PathSpells(w, q, i) /\ (q.is_stub_file <=> is_last /\ EndsInStub(q))
  <2>1. CASE p = EmptyPath /\ IsDir(w, Append(d, name)) /\ q.is_stub_file = r.is_stub_file
    <3>1. p.ext = <<>>
      BY <2>1 DEF EmptyPath, File
    <3> QED  BY <1>6, <1>7, <2>1, <3>1
  <2>2. ASSUME NEW e \in {"py", "pyi"},
               p \in {File(Append(d, name), "__init__", <<e>>), File(d, name, <<e>>)},
               IsFile(w, p), q.is_stub_file = (r.is_stub_file \/ (is_last /\ e = "pyi"))
        PROVE  PathSpells(w, q, i) /\ (q.is_stub_file <=> is_last /\ EndsInStub(q))
    <3>1. p.ext = <<e>>
      BY <2>2 DEF File
    <3>2. <<e>> # <<>> /\ Last(<<e>>) = e
      BY DEF Last
    <3>3. p # EmptyPath
      BY <1>9, <3>1, <3>2
    <3>4. p \in BothFiles(Append(d, name), "__init__") \cup BothFiles(d, name)
      BY <2>2 DEF BothFiles
    <3>5. EndsInStub(q) <=> e = "pyi"
      BY <1>6, <3>1, <3>2
    <3>6. q.is_stub_file <=> is_last /\ EndsInStub(q)
      BY <2>2, <3>5, Zenon
    <3> QED  BY <1>7, <2>2, <3>3, <3>4, <3>6
  <2>3. CASE /\ allow.native_lib /\ q.is_native_lib
             /\ p \in DOMAIN w.files /\ p.dir = d /\ is_native_module_file_name(name, p)
             /\ q.is_stub_file = r.is_stub_file
    <3>1. name = w.descriptor.name_parts[i]
      BY <2>3 DEF name, PartName
    <3>2. p.ext # <<>> /\ Last(p.ext) \in {"so", "pyd", "dylib"}
      BY <2>3 DEF is_native_module_file_name, is_native_module_file_extension
    <3>3. p # EmptyPath
      BY <1>9, <3>2
    <3>4. ~EndsInStub(q)
      BY <1>6, <3>2
    <3>5. i = n
      BY <2>3 DEF n
    <3>6. PathSpells(w, q, i)
      BY <1>7, <2>3, <3>1, <3>3, <3>5 DEF IsFile
    <3> QED  BY <2>3, <3>4, <3>6
  <2> QED  BY <1>3, <2>1, <2>2, <2>3 DEF NewPath
<1> QED  BY <1>4, <1>5, <1>8 DEF n

(* A walk that has come to the i-th part, or that has ended before.        *)
WalkSpells(w, root, allow, i, s) ==
    LET n == Len(w.descriptor.name_parts)
        r == s.result
    IN /\ IsWalk(w, s)
       /\ r.search_path = root /\ r.is_stub_package = allow.stub_package /\ r.non_stub = <<>>
       /\ Len(r.resolved_paths) <= i
       /\ s.goes_on =>
            /\ i < n /\ Len(r.resolved_paths) = i /\ s.dir = SpelledDir(w, r, i)
            /\ ~r.is_stub_file /\ ~r.is_native_lib
       /\ s.goes_on \/ Len(r.resolved_paths) = n =>
            \A j \in 1..Len(r.resolved_paths) : PathSpells(w, r, j)
       /\ Len(r.resolved_paths) = n => (r.is_stub_file <=> EndsInStub(r))

(* Each part keeps it so.                                                  *)
LEMMA WalkPartSpells ==
    ASSUME NEW w \in Worlds, WorldsAssumption, NEW root \in Dir, NEW allow,
           allow.stub_package => ~allow.native_lib,
           NEW i \in 1..Len(w.descriptor.name_parts),
           NEW s, WalkSpells(w, root, allow, i - 1, s),
           NEW t, t = WalkPart(w, allow, s, i)
    PROVE  WalkSpells(w, root, allow, i, t)
<1> DEFINE n == Len(w.descriptor.name_parts)
           r == s.result
           q == t.result
<1>0. n \in Nat /\ IsWalk(w, s) /\ r.resolved_paths \in Seq(PathsOf(w)) /\ i - 1 \in 0..n
  BY DEF WalkSpells, IsWalk, WorldsAssumption, DescriptorAssumption
<1>1. CASE ~s.goes_on
  <2>1. t = s
    BY <1>1 DEF WalkPart
  <2>2. Len(r.resolved_paths) <= i
    BY <1>0 DEF WalkSpells
  <2> QED  BY <1>1, <2>1, <2>2 DEF WalkSpells
<1>2. CASE s.goes_on
  <2>1. /\ r.search_path = root /\ r.is_stub_package = allow.stub_package /\ r.non_stub = <<>>
        /\ Len(r.resolved_paths) = i - 1 /\ s.dir = SpelledDir(w, r, i - 1)
        /\ ~r.is_stub_file /\ ~r.is_native_lib
        /\ \A j \in 1..i - 1 : PathSpells(w, r, j)
    BY <1>2 DEF WalkSpells
  <2>2. PartAdds(w, allow, i, s, t)
    BY <1>0, <1>2, WalkPartAdds
  <2>3. /\ IsWalk(w, t) /\ Fixed(q, r)
        /\ t.goes_on => i # n /\ t.dir = Append(s.dir, PartName(w, allow, i))
                          /\ q.is_native_lib = r.is_native_lib
        /\ \/ q.resolved_paths = r.resolved_paths /\ ~t.goes_on
           \/ OnePathMore(w, allow, s.dir, PartName(w, allow, i), i = n, r, q)
    BY <2>2 DEF PartAdds
  <2>4. q.search_path = root /\ q.is_stub_package = allow.stub_package /\ q.non_stub = <<>>
    BY <2>1, <2>3 DEF Fixed
  <2>5. CASE q.resolved_paths = r.resolved_paths /\ ~t.goes_on
    <3>1. Len(q.resolved_paths) = i - 1 /\ i - 1 <= i /\ i - 1 # n
      BY <1>0, <2>1, <2>5
    <3> QED  BY <2>3, <2>4, <2>5, <3>1 DEF WalkSpells
  <2>6. CASE OnePathMore(w, allow, s.dir, PartName(w, allow, i), i = n, r, q)
    <3>1. CASE q.is_native_lib => i = n
      <4>1. /\ Len(q.resolved_paths) = i
            /\ \A j \in 1..i - 1 : q.resolved_paths[j] = r.resolved_paths[j]
            /\ PathSpells(w, q, i)
            /\ i = n => (q.is_stub_file <=> EndsInStub(q))
            /\ i # n => ~q.is_stub_file
        BY <1>0, <2>1, <2>3, <2>6, <3>1, NewPathSpells, SMTT(30)
      <4>2. ASSUME NEW j \in 1..i PROVE PathSpells(w, q, j)
        <5>1. CASE j = i
          BY <4>1, <5>1
        <5>2. CASE j # i
          <6>1. j \in 1..i - 1 /\ j # n
            BY <1>0, <5>2
          <6>2. q.resolved_paths[j] = r.resolved_paths[j] /\ SpelledDir(w, q, j) = SpelledDir(w, r, j)
            BY <2>3, <4>1, <6>1 DEF Fixed, SpelledDir
          <6>3. PathSpells(w, r, j)
            BY <2>1, <6>1
          <6> QED  BY <6>1, <6>2, <6>3 DEF PathSpells
        <5> QED  BY <5>1, <5>2
      <4>3. t.goes_on => t.dir = SpelledDir(w, q, i) /\ i < n
        <5>1. SpelledDir(w, q, i) = SpelledDir(w, r, i)
          BY <2>3 DEF Fixed, SpelledDir
        <5>2. SpelledDir(w, r, i) = Append(SpelledDir(w, r, i - 1), PartName(w, allow, i))
          BY <2>1, SpelledDirIs
        <5> QED  BY <1>0, <2>1, <2>3, <5>1, <5>2
      <4> QED  BY <1>0, <2>1, <2>3, <2>4, <4>1, <4>2, <4>3 DEF WalkSpells
    <3>2. CASE ~(q.is_native_lib => i = n)
      <4>1. ~t.goes_on
        BY <2>1, <2>3, <3>2
      <4>2. Len(q.resolved_paths) = i
        <5>1. PICK p \in PathsOf(w) : q.resolved_paths = Append(r.resolved_paths, p)
          BY <2>6 DEF OnePathMore
        <5>2. Len(q.resolved_paths) = (i - 1) + 1
          BY <1>0, <2>1, <5>1, AppendProperties
        <5> QED  BY <5>2
      <4> QED  BY <1>0, <2>3, <2>4, <3>2, <4>1, <4>2 DEF WalkSpells
    <3> QED  BY <3>1, <3>2
  <2> QED  BY <2>3, <2>5, <2>6
<1>3. s.goes_on \in BOOLEAN
  BY <1>0 DEF IsWalk
<1> QED  BY <1>1, <1>2, <1>3

(* The first path is no namespace package.                                 *)
IsTraditional(r) == 1 \in DOMAIN r.resolved_paths /\ r.resolved_paths[1] # EmptyPath

WalkStart(root, allow) ==
    [dir |-> root, goes_on |-> TRUE,
     result |-> [not_found EXCEPT !.search_path = root, !.is_stub_package = allow.stub_package]]

LEMMA WalkStartSpells ==
    ASSUME NEW w \in Worlds, WorldsAssumption, NEW root \in Dir, NEW allow,
           w.descriptor.name_parts # <<>>, allow.stub_package \in BOOLEAN
    PROVE  /\ WalkSpells(w, root, allow, 0, WalkStart(root, allow))
           /\ WalkStart(root, allow).goes_on = TRUE /\ WalkStart(root, allow).dir = root
           /\ WalkStart(root, allow).result.resolved_paths = <<>>
           /\ WalkStart(root, allow).result.package_directory = NoDir
           /\ Len(w.descriptor.name_parts) \in Nat \ {0}
<1> DEFINE s == WalkStart(root, allow)
           r == [not_found EXCEPT !.search_path = root, !.is_stub_package = allow.stub_package]
<1>0. Len(w.descriptor.name_parts) \in Nat \ {0}
  BY EmptySeq DEF WorldsAssumption, DescriptorAssumption
<1>1. /\ DOMAIN not_found = Fields /\ not_found.resolved_paths = <<>> /\ not_found.non_stub = <<>>
      /\ not_found.is_stub_file = FALSE /\ not_found.is_native_lib = FALSE
      /\ not_found.package_directory = NoDir
  BY DEF Fields, not_found
<1>2. /\ DOMAIN r = Fields /\ r.resolved_paths = <<>> /\ r.non_stub = <<>>
      /\ r.is_stub_file = FALSE /\ r.is_native_lib = FALSE /\ r.package_directory = NoDir
      /\ r.search_path = root /\ r.is_stub_package = allow.stub_package
  BY <1>1, FieldsAre
<1> HIDE DEF r
<1>3. s.dir = root /\ s.goes_on = TRUE /\ s.result = r /\ DOMAIN s = {"dir", "goes_on", "result"}
  BY DEF WalkStart, r
<1> HIDE DEF s
<1>4. IsWalk(w, s)
  <2>1. <<>> \in Seq(PathsOf(w))
    OBVIOUS
  <2> QED  BY <1>2, <1>3, <2>1 DEF IsWalk
<1>5. SpelledDir(w, r, 0) = root
  BY <1>2, SpelledDirIs
<1>6. Len(<<>>) = 0 /\ \A j \in 1..0 : FALSE
  OBVIOUS
<1>7. WalkSpells(w, root, allow, 0, s)
  BY <1>0, <1>2, <1>3, <1>4, <1>5, <1>6 DEF WalkSpells
<1> QED  BY <1>0, <1>2, <1>3, <1>7 DEF s

(* The walk from its first part s1 to its end s.                           *)
WalkEnds(w, root, allow, s1, s) ==
    /\ WalkSpells(w, root, allow, Len(w.descriptor.name_parts), s)
    /\ s1 = WalkPart(w, allow, WalkStart(root, allow), 1)
    /\ ~s1.goes_on => s = s1
    /\ IsTraditional(s1.result) => IsTraditional(s.result)

LEMMA WalkPartKeepsTraditional ==
    ASSUME NEW w \in Worlds, WorldsAssumption, NEW allow,
           NEW i \in 1..Len(w.descriptor.name_parts),
           NEW s, IsWalk(w, s), NEW t, t = WalkPart(w, allow, s, i), IsTraditional(s.result)
    PROVE  IsTraditional(t.result)
<1> DEFINE r == s.result
           q == t.result
<1>1. CASE ~s.goes_on
  BY <1>1 DEF WalkPart
<1>2. CASE s.goes_on
  <2>1. PartAdds(w, allow, i, s, t)
    BY <1>2, WalkPartAdds
  <2>2. \/ q.resolved_paths = r.resolved_paths
        \/ \E p \in PathsOf(w) : q.resolved_paths = Append(r.resolved_paths, p)
    BY <2>1 DEF PartAdds, OnePathMore
  <2>3. CASE q.resolved_paths = r.resolved_paths
    BY <2>3 DEF IsTraditional
  <2>4. ASSUME NEW p \in PathsOf(w), q.resolved_paths = Append(r.resolved_paths, p)
        PROVE  IsTraditional(q)
    <3>1. r.resolved_paths \in Seq(PathsOf(w))
      BY DEF IsWalk
    <3>2. 1 \in 1..Len(r.resolved_paths) /\ DOMAIN r.resolved_paths = 1..Len(r.resolved_paths)
      BY <3>1, LenProperties DEF IsTraditional
    <3>3. /\ Append(r.resolved_paths, p)[1] = r.resolved_paths[1]
          /\ Append(r.resolved_paths, p) \in Seq(PathsOf(w))
          /\ Len(Append(r.resolved_paths, p)) = Len(r.resolved_paths) + 1
      BY <3>1, <3>2, AppendProperties
    <3>4. 1 \in DOMAIN Append(r.resolved_paths, p)
      BY <3>1, <3>2, <3>3, LenProperties
    <3> QED  BY <2>4, <3>3, <3>4 DEF IsTraditional
  <2> QED  BY <2>2, <2>3, <2>4
<1> QED  BY <1>1, <1>2

LEMMA WalkIs ==
    ASSUME NEW w \in Worlds, WorldsAssumption, NEW root \in Dir, NEW allow,
           w.descriptor.name_parts # <<>>, allow.stub_package \in BOOLEAN,
           allow.stub_package => ~allow.native_lib
    PROVE  \E s1, s : /\ WalkEnds(w, root, allow, s1, s)
                      /\ Walk(w, root, allow, WalkStart(root, allow).result) = s.result
<1> DEFINE n == Len(w.descriptor.name_parts)
           first == WalkStart(root, allow)
<1>0. /\ WalkSpells(w, root, allow, 0, first) /\ n \in Nat \ {0}
      /\ first = [dir |-> root, goes_on |-> TRUE, result |-> first.result]
  <2>1. first = [dir |-> root, goes_on |-> TRUE, result |-> first.result]
    BY DEF WalkStart
  <2> QED  BY <2>1, WalkStartSpells
<1> HIDE DEF first
<1>1. PICK walk : /\ Walk(w, root, allow, first.result) = walk[n].result
                  /\ walk[0] = first
                  /\ \A i \in 1..n : walk[i] = WalkPart(w, allow, walk[i - 1], i)
  BY <1>0, WalkUnfolds
<1> HIDE DEF n
<1>2. 1 \in 1..n /\ n \in 1..n /\ n \in Nat
  BY <1>0
<1>3. walk[1] = WalkPart(w, allow, first, 1)
  <2>1. 1 - 1 = 0
    OBVIOUS
  <2> QED  BY <1>1, <1>2, <2>1
<1> DEFINE Holds(i) == /\ WalkSpells(w, root, allow, i, walk[i])
                       /\ ~walk[1].goes_on => walk[i] = walk[1]
                       /\ IsTraditional(walk[1].result) => IsTraditional(walk[i].result)
           T == {i \in 1..n : Holds(i)}
<1>4. 1 \in T
  <2>1. 1 - 1 = 0 /\ 1 \in 1..Len(w.descriptor.name_parts)
    BY <1>2 DEF n
  <2>2. WalkSpells(w, root, allow, 1, walk[1])
    BY <1>0, <1>3, <2>1, WalkPartSpells
  <2> QED  BY <1>2, <2>2
<1>5. ASSUME NEW i \in 1..n - 1, i \in T PROVE i + 1 \in T
  <2>1. i + 1 \in 1..n /\ (i + 1) - 1 = i /\ i + 1 \in 1..Len(w.descriptor.name_parts)
    BY <1>2 DEF n
  <2>2. walk[i + 1] = WalkPart(w, allow, walk[i], i + 1)
    BY <1>1, <2>1
  <2>3. Holds(i)
    BY <1>5
  <2>4. WalkSpells(w, root, allow, i + 1, walk[i + 1])
    BY <2>1, <2>2, <2>3, WalkPartSpells
  <2>5. ASSUME ~walk[1].goes_on PROVE walk[i + 1] = walk[1]
    <3>1. walk[i] = walk[1]
      BY <2>3, <2>5
    <3> QED  BY <2>2, <2>5, <3>1 DEF WalkPart
  <2>6. ASSUME IsTraditional(walk[1].result) PROVE IsTraditional(walk[i + 1].result)
    <3>1. IsWalk(w, walk[i]) /\ IsTraditional(walk[i].result)
      BY <2>3, <2>6 DEF WalkSpells
    <3> QED  BY <2>1, <2>2, <3>1, WalkPartKeepsTraditional
  <2> QED  BY <2>1, <2>4, <2>5, <2>6
<1>6. Holds(n)
  <2>1. n \in T
    <3> HIDE DEF T
    <3> QED  BY <1>2, <1>4, <1>5, FromOneUpTo
  <2> QED  BY <2>1
<1>7. WalkEnds(w, root, allow, walk[1], walk[n])
  BY <1>3, <1>6 DEF WalkEnds, n, first
<1> QED  BY <1>1, <1>7 DEF first

-----------------------------------------------------------------------------
(* The result of one search path.                                          *)

(* A result spells the module if it is found, and says of its paths what   *)
(* they are; an import that names no module is never found.                *)
Spells(w, r) ==
    /\ DOMAIN r = Fields
    /\ r.is_import_found =>
         /\ \A i \in DOMAIN w.descriptor.name_parts : PathSpells(w, r, i)
         /\ r.is_stub_file <=> EndsInStub(r)
    /\ w.descriptor.name_parts # <<>> => IsCounted(r, Len(w.descriptor.name_parts))

(* What Spells depends on is the same in both.                             *)
Agree(q, r) ==
    /\ DOMAIN q = Fields
    /\ q.resolved_paths = r.resolved_paths /\ q.search_path = r.search_path
    /\ q.is_stub_package = r.is_stub_package /\ q.is_native_lib = r.is_native_lib
    /\ q.is_stub_file = r.is_stub_file /\ q.is_import_found = r.is_import_found
    /\ q.is_partly_resolved = r.is_partly_resolved

LEMMA AgreeSpells ==
    ASSUME NEW w, NEW r, Spells(w, r), NEW q, Agree(q, r)
    PROVE  Spells(w, q)
<1>1. \A i : PathSpells(w, q, i) <=> PathSpells(w, r, i)
  <2>1. \A i : SpelledDir(w, q, i) = SpelledDir(w, r, i)
    BY DEF Agree, SpelledDir
  <2> QED  BY <2>1 DEF Agree, PathSpells
<1>2. EndsInStub(q) <=> EndsInStub(r)
  BY DEF Agree, EndsInStub
<1>3. \A n : IsCounted(q, n) <=> IsCounted(r, n)
  BY Zenon DEF Agree, IsCounted
<1>4. /\ DOMAIN q = Fields
      /\ q.is_import_found <=> r.is_import_found
      /\ q.is_stub_file <=> r.is_stub_file
  BY Zenon DEF Agree
<1>5. /\ r.is_import_found =>
           /\ \A i \in DOMAIN w.descriptor.name_parts : PathSpells(w, r, i)
           /\ r.is_stub_file <=> EndsInStub(r)
      /\ w.descriptor.name_parts # <<>> => IsCounted(r, Len(w.descriptor.name_parts))
  BY Zenon DEF Spells
<1>6. w.descriptor.name_parts # <<>> => IsCounted(q, Len(w.descriptor.name_parts))
  BY <1>3, <1>5
<1>7. q.is_import_found =>
        /\ \A i \in DOMAIN w.descriptor.name_parts : PathSpells(w, q, i)
        /\ q.is_stub_file <=> EndsInStub(q)
  BY <1>1, <1>2, <1>4, <1>5, Zenon
<1> QED  BY <1>4, <1>6, <1>7, Zenon DEF Spells

LEMMA NotFoundSpells ==
    ASSUME NEW w \in Worlds, WorldsAssumption
    PROVE  Spells(w, not_found) /\ not_found.non_stub = <<>> /\ ~not_found.is_import_found
<1>1. /\ DOMAIN not_found = Fields /\ not_found.resolved_paths = <<>> /\ not_found.non_stub = <<>>
      /\ not_found.is_import_found = FALSE /\ not_found.is_partly_resolved = FALSE
  BY DEF Fields, not_found
<1>2. ASSUME w.descriptor.name_parts # <<>>
      PROVE  IsCounted(not_found, Len(w.descriptor.name_parts))
  <2>1. Len(w.descriptor.name_parts) \in Nat \ {0}
    BY <1>2, EmptySeq DEF WorldsAssumption, DescriptorAssumption
  <2> DEFINE n == Len(w.descriptor.name_parts)
             len == Len(not_found.resolved_paths)
  <2>2. len = 0 /\ len \in 0..n /\ DOMAIN not_found.resolved_paths = 1..len
    BY <1>1, <2>1
  <2>3. ~(len = n) /\ ~(0 < len /\ len < n)
    BY <2>1, <2>2
  <2> HIDE DEF len, n
  <2>4. /\ not_found.is_import_found = (len = n)
        /\ not_found.is_partly_resolved = (0 < len /\ len < n)
    BY <1>1, <2>3, Zenon
  <2> QED  BY <2>2, <2>4, Zenon DEF IsCounted, len, n
<1> QED  BY <1>1, <1>2 DEF Spells

(* The walk's result, counted.                                             *)
LEMMA CountedSpells ==
    ASSUME NEW w \in Worlds, WorldsAssumption, NEW root \in Dir, NEW allow, NEW s,
           w.descriptor.name_parts # <<>>,
           WalkSpells(w, root, allow, Len(w.descriptor.name_parts), s)
    PROVE  /\ Spells(w, Counted(s.result, Len(w.descriptor.name_parts)))
           /\ Fixed(Counted(s.result, Len(w.descriptor.name_parts)), s.result)
           /\ Counted(s.result, Len(w.descriptor.name_parts)).resolved_paths = s.result.resolved_paths
           /\ Counted(s.result, Len(w.descriptor.name_parts)).package_directory = s.result.package_directory
<1> DEFINE n == Len(w.descriptor.name_parts)
           r == s.result
           q == Counted(r, n)
<1>0. n \in Nat \ {0} /\ DOMAIN w.descriptor.name_parts = 1..n
  BY EmptySeq DEF WorldsAssumption, DescriptorAssumption
<1>1. /\ IsWalk(w, s)
      /\ Len(r.resolved_paths) <= n
      /\ Len(r.resolved_paths) = n => \A j \in 1..Len(r.resolved_paths) : PathSpells(w, r, j)
      /\ Len(r.resolved_paths) = n => (r.is_stub_file <=> EndsInStub(r))
  BY DEF WalkSpells
<1>2. DOMAIN r = Fields /\ r.resolved_paths \in Seq(PathsOf(w))
  BY <1>1 DEF IsWalk
<1>3. /\ Fixed(q, r) /\ q.resolved_paths = r.resolved_paths /\ q.package_directory = r.package_directory
      /\ q.is_native_lib = r.is_native_lib /\ q.is_stub_file = r.is_stub_file
      /\ q.is_import_found = (Len(r.resolved_paths) = n)
      /\ q.is_partly_resolved = (r.resolved_paths # <<>> /\ Len(r.resolved_paths) < n)
  <2> HIDE DEF n
  <2> QED  BY <1>2, FieldsAre DEF Counted, Fixed
<1> HIDE DEF n, q
<1>4. /\ Len(q.resolved_paths) \in 0..n /\ DOMAIN q.resolved_paths = 1..Len(q.resolved_paths)
      /\ q.resolved_paths # <<>> <=> 0 < Len(q.resolved_paths)
  <2>1. Len(r.resolved_paths) \in Nat /\ DOMAIN r.resolved_paths = 1..Len(r.resolved_paths)
    BY <1>2, LenProperties
  <2>2. r.resolved_paths = <<>> <=> Len(r.resolved_paths) = 0
    BY <1>2, EmptySeq
  <2> QED  BY <1>0, <1>1, <1>3, <2>1, <2>2
<1>5. IsCounted(q, n)
  <2>1. q.is_import_found = (Len(q.resolved_paths) = n)
    BY <1>3, Zenon
  <2>2. q.is_partly_resolved = (0 < Len(q.resolved_paths) /\ Len(q.resolved_paths) < n)
    BY <1>3, <1>4, Zenon
  <2> QED  BY <1>4, <2>1, <2>2, Zenon DEF IsCounted
<1>6. ASSUME q.is_import_found
      PROVE  /\ \A i \in DOMAIN w.descriptor.name_parts : PathSpells(w, q, i)
             /\ q.is_stub_file <=> EndsInStub(q)
  <2>1. Len(r.resolved_paths) = n
    BY <1>3, <1>6, Zenon
  <2>2. /\ \A j \in 1..n : PathSpells(w, r, j)
        /\ r.is_stub_file <=> EndsInStub(r)
    BY <1>1, <2>1
  <2>3. \A i : SpelledDir(w, q, i) = SpelledDir(w, r, i)
    BY <1>3 DEF Fixed, SpelledDir
  <2>4. \A i : PathSpells(w, q, i) <=> PathSpells(w, r, i)
    BY <1>3, <2>3 DEF PathSpells
  <2>5. EndsInStub(q) <=> EndsInStub(r)
    BY <1>3 DEF EndsInStub
  <2> QED  BY <1>0, <1>3, <2>2, <2>4, <2>5
<1>7. Spells(w, q)
  BY <1>3, <1>5, <1>6, Zenon DEF Spells, Fixed, n
<1> QED  BY <1>3, <1>7 DEF n, q

(* An import that names no module.                                         *)
LEMMA PackageSpells ==
    ASSUME NEW w \in Worlds, WorldsAssumption, NEW root, NEW allow, NEW r, DOMAIN r = Fields,
           r.non_stub = <<>>, w.descriptor.name_parts = <<>>,
           NEW q, q = Counted(ResolvePackage(w, root, allow, r), Len(w.descriptor.name_parts))
    PROVE  Spells(w, q) /\ q.non_stub = <<>>
<1> DEFINE init == StubOrSource(w, allow, root, "__init__")
           paths == IF init = <<>> THEN <<EmptyPath>> ELSE init
           p == ResolvePackage(w, root, allow, r)
<1>0. Len(w.descriptor.name_parts) = 0
  OBVIOUS
<1>1. Len(paths) = 1
  <2>1. Len(<<EmptyPath>>) = 1 /\ \A e : Len(<<File(root, "__init__", <<e>>)>>) = 1
    OBVIOUS
  <2>2. \/ init = <<>>
        \/ \E e \in {"py", "pyi"} : init = <<File(root, "__init__", <<e>>)>>
    BY StubOrSourceIs
  <2> HIDE DEF init
  <2>3. CASE init = <<>>
    BY <2>1, <2>3
  <2>4. ASSUME NEW e \in {"py", "pyi"}, init = <<File(root, "__init__", <<e>>)>>
        PROVE  Len(paths) = 1
    <3>1. init # <<>>
      BY <2>4
    <3> QED  BY <2>1, <2>4, <3>1
  <2> QED  BY <2>2, <2>3, <2>4
<1> HIDE DEF init, paths
<1>2. DOMAIN p = Fields /\ p.resolved_paths = paths /\ p.non_stub = <<>>
  BY FieldsAre DEF ResolvePackage, paths, init
<1> HIDE DEF p
<1>3. DOMAIN q = Fields /\ q.is_import_found = (Len(p.resolved_paths) = 0) /\ q.non_stub = <<>>
  <2>1. q = Counted(p, 0)
    BY <1>0 DEF p
  <2> QED  BY <1>2, <2>1, FieldsAre DEF Counted
<1>4. ~q.is_import_found
  <2>1. Len(p.resolved_paths) = 1
    BY <1>1, <1>2, Zenon
  <2>2. 1 # 0
    OBVIOUS
  <2> QED  BY <1>3, <2>1, <2>2, Zenon
<1> QED  BY <1>0, <1>3, <1>4 DEF Spells

LEMMA DescriptorSpells ==
    ASSUME NEW w \in Worlds, WorldsAssumption, NEW root \in Dir, NEW allow,
           allow.stub_package \in BOOLEAN, allow.stub_package => ~allow.native_lib,
           NEW q, q = resolve_module_descriptor(w, root, allow)
    PROVE  /\ Spells(w, q) /\ q.non_stub = <<>>
           /\ w.descriptor.name_parts # <<>> =>
                \E s1, s : /\ WalkEnds(w, root, allow, s1, s)
                           /\ q.resolved_paths = s.result.resolved_paths
                           /\ q.package_directory = s.result.package_directory
           /\ w.descriptor.name_parts # <<>> => q.search_path = root
<1> DEFINE parts == w.descriptor.name_parts
           start == [not_found EXCEPT !.search_path = root,
                                      !.is_stub_package = allow.stub_package /\ parts # <<>>]
<1>1. q = Counted(IF parts = <<>> THEN ResolvePackage(w, root, allow, start)
                                  ELSE Walk(w, root, allow, start), Len(parts))
  BY DEF resolve_module_descriptor
<1>2. CASE parts = <<>>
  <2>1. DOMAIN start = Fields /\ start.non_stub = <<>>
    <3>1. DOMAIN not_found = Fields /\ not_found.non_stub = <<>>
      BY DEF Fields, not_found
    <3> QED  BY <3>1, FieldsAre
  <2> HIDE DEF start
  <2>2. q = Counted(ResolvePackage(w, root, allow, start), Len(parts))
    BY <1>1, <1>2
  <2> QED  BY <1>2, <2>1, <2>2, PackageSpells
<1>3. CASE parts # <<>>
  <2>1. start = WalkStart(root, allow).result
    <3>1. (allow.stub_package /\ parts # <<>>) = allow.stub_package
      BY <1>3, Zenon
    <3>2. start = [not_found EXCEPT !.search_path = root, !.is_stub_package = allow.stub_package]
      BY <3>1, Zenon
    <3> QED  BY <3>2 DEF WalkStart
  <2> HIDE DEF start
  <2>2. PICK s1, s : /\ WalkEnds(w, root, allow, s1, s)
                     /\ Walk(w, root, allow, start) = s.result
    BY <1>3, <2>1, WalkIs
  <2>3. WalkSpells(w, root, allow, Len(parts), s)
    BY <2>2 DEF WalkEnds
  <2>4. q = Counted(s.result, Len(parts))
    BY <1>1, <1>3, <2>2
  <2>5. /\ Spells(w, q) /\ Fixed(q, s.result)
        /\ q.resolved_paths = s.result.resolved_paths
        /\ q.package_directory = s.result.package_directory
    BY <1>3, <2>3, <2>4, CountedSpells
  <2>6. q.non_stub = <<>> /\ q.search_path = root
    BY <2>3, <2>5 DEF WalkSpells, Fixed
  <2> QED  BY <2>2, <2>5, <2>6
<1> QED  BY <1>2, <1>3

(* Stub packages first.                                                    *)
IsAllow(allow) == DOMAIN allow = {"native_lib", "stub_package", "pyi", "py_typed"}

LEMMA AbsoluteSpells ==
    ASSUME NEW w \in Worlds, WorldsAssumption, NEW root \in Dir, NEW allow, IsAllow(allow),
           NEW q, q = resolve_absolute_import(w, root, allow)
    PROVE  Spells(w, q) /\ q.non_stub = <<>>
<1> DEFINE forStubs == Allow(FALSE, TRUE, TRUE, TRUE)
           noStubs == [allow EXCEPT !.stub_package = FALSE]
           stubs == IF allow.pyi /\ allow.stub_package
                       THEN resolve_module_descriptor(w, root, forStubs) ELSE not_found
           other == resolve_module_descriptor(w, root, noStubs)
<1>1. forStubs.stub_package = TRUE /\ forStubs.native_lib = FALSE
  BY DEF Allow
<1>2. noStubs.stub_package = FALSE
  BY DEF IsAllow
<1>3. q \in {stubs, other}
  BY DEF resolve_absolute_import, StubsOrElse
<1> HIDE DEF forStubs, noStubs
<1>4. Spells(w, other) /\ other.non_stub = <<>>
  <2>1. noStubs.stub_package \in BOOLEAN /\ (noStubs.stub_package => ~noStubs.native_lib)
    BY <1>2
  <2>2. other = resolve_module_descriptor(w, root, noStubs)
    OBVIOUS
  <2> HIDE DEF other
  <2> QED  BY <2>1, <2>2, DescriptorSpells
<1>5. Spells(w, resolve_module_descriptor(w, root, forStubs))
      /\ resolve_module_descriptor(w, root, forStubs).non_stub = <<>>
  <2> DEFINE r == resolve_module_descriptor(w, root, forStubs)
  <2>1. forStubs.stub_package \in BOOLEAN /\ (forStubs.stub_package => ~forStubs.native_lib)
    BY <1>1
  <2>2. r = resolve_module_descriptor(w, root, forStubs)
    OBVIOUS
  <2> HIDE DEF r
  <2>3. Spells(w, r) /\ r.non_stub = <<>>
    BY <2>1, <2>2, DescriptorSpells
  <2> QED  BY <2>3 DEF r
<1>6. Spells(w, stubs) /\ stubs.non_stub = <<>>
  BY <1>5, NotFoundSpells
<1> QED  BY <1>3, <1>4, <1>6

(* Without stub packages a result is that of the one directory.            *)
LEMMA WithoutStubPackages ==
    ASSUME NEW w \in Worlds, WorldsAssumption, NEW root \in Dir, NEW allow, IsAllow(allow),
           allow.stub_package = FALSE, w.descriptor.name_parts # <<>>
    PROVE  resolve_absolute_import(w, root, allow).search_path = root
<1> DEFINE noStubs == [allow EXCEPT !.stub_package = FALSE]
           other == resolve_module_descriptor(w, root, noStubs)
<1>1. noStubs.stub_package = FALSE
  BY DEF IsAllow
<1>2. resolve_absolute_import(w, root, allow) = StubsOrElse(not_found, other)
  BY DEF resolve_absolute_import
<1>3. StubsOrElse(not_found, other) = other
  BY DEF StubsOrElse, not_found
<1>4. other = resolve_module_descriptor(w, root, noStubs)
  OBVIOUS
<1>5. noStubs.stub_package \in BOOLEAN /\ (noStubs.stub_package => ~noStubs.native_lib)
  BY <1>1
<1> HIDE DEF other, noStubs
<1>6. other.search_path = root
  BY <1>4, <1>5, DescriptorSpells
<1> QED  BY <1>2, <1>3, <1>6

-----------------------------------------------------------------------------
(* The directories of the world.                                           *)

LEMMA PartOfSeq ==
    ASSUME NEW S, NEW s \in Seq(S), NEW k \in 0..Len(s)
    PROVE  /\ SubSeq(s, 1, k) \in Seq(S) /\ Len(SubSeq(s, 1, k)) = k
           /\ \A i \in 1..k : SubSeq(s, 1, k)[i] = s[i]
<1>1. k \in Int /\ 1 \in Int /\ \A i \in 1..k : i \in 1..Len(s)
  OBVIOUS
<1>2. \A i \in 1..k : s[i] \in S
  BY <1>1, ElementOfSeq
<1>3. /\ SubSeq(s, 1, k) \in Seq(S)
      /\ Len(SubSeq(s, 1, k)) = IF 1 <= k THEN k - 1 + 1 ELSE 0
      /\ \A i \in 1..k - 1 + 1 : SubSeq(s, 1, k)[i] = s[1 + i - 1]
  BY <1>1, <1>2, SubSeqProperties
<1>4. /\ Len(SubSeq(s, 1, k)) = k
      /\ \A i \in 1..k : i \in 1..k - 1 + 1 /\ 1 + i - 1 = i
  BY <1>1, <1>3
<1> QED  BY <1>3, <1>4

LEMMA WholeSeq ==
    ASSUME NEW S, NEW s \in Seq(S)
    PROVE  SubSeq(s, 1, Len(s)) = s
<1>1. Len(s) \in 0..Len(s)
  OBVIOUS
<1>2. /\ SubSeq(s, 1, Len(s)) \in Seq(S) /\ Len(SubSeq(s, 1, Len(s))) = Len(s)
      /\ \A i \in 1..Len(s) : SubSeq(s, 1, Len(s))[i] = s[i]
  BY <1>1, PartOfSeq
<1> QED  BY <1>2, SeqEqual

LEMMA PrefixIs ==
    ASSUME NEW S, NEW d \in Seq(S), NEW e \in Seq(S), IsPrefix(d, e)
    PROVE  Len(d) \in 0..Len(e) /\ d = SubSeq(e, 1, Len(d))
<1>1. Len(d) <= Len(e) /\ SubSeq(d, 1, Len(d)) = SubSeq(e, 1, Len(d))
  BY DEF IsPrefix
<1>2. SubSeq(d, 1, Len(d)) = d
  BY WholeSeq
<1>3. Len(d) \in 0..Len(e)
  BY <1>1
<1> QED  BY <1>1, <1>2, <1>3

LEMMA PrefixNext ==
    ASSUME NEW S, NEW d \in Seq(S), NEW e \in Seq(S), IsStrictPrefix(d, e)
    PROVE  /\ e[Len(d) + 1] \in S /\ Append(d, e[Len(d) + 1]) \in Seq(S)
           /\ IsPrefix(Append(d, e[Len(d) + 1]), e)
<1> DEFINE k == Len(d)
           x == e[k + 1]
           dx == Append(d, x)
<1>1. k \in 0..Len(e) /\ d = SubSeq(e, 1, k) /\ d # e
  BY PrefixIs DEF IsStrictPrefix
<1>2. k # Len(e)
  BY <1>1, WholeSeq
<1>3. k \in Nat /\ k + 1 \in 1..Len(e) /\ k + 1 \in 0..Len(e)
  BY <1>1, <1>2
<1>4. x \in S
  BY <1>3, ElementOfSeq
<1> HIDE DEF x
<1>5. /\ dx \in Seq(S) /\ Len(dx) = k + 1
      /\ \A i \in 1..k : dx[i] = d[i]
      /\ dx[k + 1] = x
  BY <1>4, AppendProperties
<1> HIDE DEF dx, k
<1>6. /\ SubSeq(e, 1, k + 1) \in Seq(S) /\ Len(SubSeq(e, 1, k + 1)) = k + 1
      /\ \A i \in 1..k + 1 : SubSeq(e, 1, k + 1)[i] = e[i]
  BY <1>3, PartOfSeq
<1>7. \A i \in 1..k : SubSeq(e, 1, k)[i] = e[i]
  BY <1>1, PartOfSeq
<1>8. \A i \in 1..k + 1 : dx[i] = SubSeq(e, 1, k + 1)[i]
  <2>1. \A i \in 1..k + 1 : i \in 1..k \/ i = k + 1
    BY <1>3
  <2>2. \A i \in 1..k : dx[i] = e[i]
    BY <1>1, <1>5, <1>7
  <2>3. dx[k + 1] = e[k + 1]
    BY <1>5 DEF x
  <2> QED  BY <1>6, <2>1, <2>2, <2>3
<1>9. dx = SubSeq(e, 1, k + 1)
  BY <1>5, <1>6, <1>8, SeqEqual
<1>10. SubSeq(dx, 1, Len(dx)) = dx
  BY <1>5, WholeSeq
<1>11. IsPrefix(dx, e)
  BY <1>3, <1>5, <1>9, <1>10 DEF IsPrefix
<1> QED  BY <1>4, <1>5, <1>11 DEF dx, x, k

DirsOf(w) == {dir \in Dir : IsDir(w, dir)}

LEMMA DirsFinite ==
    ASSUME NEW w \in Worlds, WorldsAssumption
    PROVE  IsFiniteSet(DirsOf(w))
<1> DEFINE F == DOMAIN w.files
           Up(d) == [k \in 0..Len(d) |-> SubSeq(d, 1, k)]
           Above == [file \in F |-> {Up(file.dir)[k] : k \in DOMAIN Up(file.dir)}]
           All == UNION {Above[file] : file \in DOMAIN Above}
<1>1. IsFiniteSet(F) /\ \A file \in F : file.dir \in Dir
  BY DEF WorldsAssumption, FilesAssumption
<1>2. ASSUME NEW file \in F PROVE IsFiniteSet(Above[file])
  <2> DEFINE up == Up(file.dir)
  <2>1. DOMAIN up = 0..Len(file.dir) /\ Len(file.dir) \in Int /\ 0 \in Int
    <3>1. file.dir \in Seq(Name)
      BY <1>1 DEF Dir
    <3> QED  BY <3>1
  <2>2. IsFiniteSet(DOMAIN up)
    BY <2>1, FS_Interval
  <2>3. up = [k \in DOMAIN up |-> up[k]]
    OBVIOUS
  <2>4. Above[file] = {up[k] : k \in DOMAIN up}
    OBVIOUS
  <2> HIDE DEF up, Above
  <2>5. IsFiniteSet({up[k] : k \in DOMAIN up})
    BY <2>2, <2>3, FiniteImage
  <2> QED  BY <2>4, <2>5
<1>3. IsFiniteSet({Above[file] : file \in DOMAIN Above})
  <2>1. IsFiniteSet(DOMAIN Above) /\ Above = [file \in DOMAIN Above |-> Above[file]]
    BY <1>1
  <2> HIDE DEF Above
  <2> QED  BY <2>1, FiniteImage
<1>4. IsFiniteSet(All)
  <2>1. \A T \in {Above[file] : file \in DOMAIN Above} : IsFiniteSet(T)
    BY <1>2
  <2> HIDE DEF Above
  <2> QED  BY <1>3, <2>1, FS_UNION
<1>5. ASSUME NEW d \in DirsOf(w) PROVE d \in All
  <2>1. d \in Dir /\ \E file \in F : IsPrefix(d, file.dir)
    BY DEF DirsOf, IsDir
  <2>2. PICK file \in F : IsPrefix(d, file.dir)
    BY <2>1
  <2>3. Len(d) \in 0..Len(file.dir) /\ d = SubSeq(file.dir, 1, Len(d))
    <3> DEFINE T == Name
               e == file.dir
    <3>1. d \in Seq(T) /\ e \in Seq(T)
      BY <1>1, <2>1 DEF Dir
    <3> HIDE DEF T, e
    <3>2. IsPrefix(d, e)
      BY <2>2 DEF e
    <3>3. Len(d) \in 0..Len(e) /\ d = SubSeq(e, 1, Len(d))
      BY <3>1, <3>2, PrefixIs, SMTT(30)
    <3> QED  BY <3>3 DEF e
  <2>4. d \in Above[file]
    BY <2>3
  <2> QED  BY <2>4
<1> QED
  <2> HIDE DEF All
  <2>1. DirsOf(w) \in SUBSET All
    BY <1>5
  <2> QED  BY <1>4, <2>1, FS_Subset

LEMMA SubDirIs ==
    ASSUME NEW w \in Worlds, WorldsAssumption, NEW dir \in Dir, NEW p \in SubDirs(w, dir)
    PROVE  p \in Name /\ Append(dir, p) \in DirsOf(w)
<1>1. PICK file \in DOMAIN w.files : IsStrictPrefix(dir, file.dir) /\ p = file.dir[Len(dir) + 1]
  BY DEF SubDirs
<1> DEFINE T == Name
           e == file.dir
<1>2. dir \in Seq(T) /\ e \in Seq(T)
  BY DEF Dir, WorldsAssumption, FilesAssumption
<1>3. IsStrictPrefix(dir, e) /\ p = e[Len(dir) + 1]
  BY <1>1
<1> HIDE DEF T, e
<1>4. p \in T /\ Append(dir, p) \in Seq(T) /\ IsPrefix(Append(dir, p), e)
  BY <1>2, <1>3, PrefixNext
<1> QED  BY <1>4 DEF T, e, DirsOf, IsDir, Dir

LEMMA DirSeqs ==
    ASSUME WorldsAssumption
    PROVE  /\ \A d \in Dir : \A name \in Name : Append(d, name) \in Dir
           /\ \A d \in Dir : \A e \in Dir : d \o e \in Dir
           /\ \A name \in Name : <<name, "site-packages">> \in Dir /\ <<name>> \in Dir
           /\ <<>> \in Seq(Dir) /\ \A d \in Dir : <<d>> \in Seq(Dir)
<1>1. \A d \in Dir : \A e \in Dir : d \o e \in Dir
  BY ConcatProperties DEF Dir
<1>2. \A d \in Dir : \A name \in Name : Append(d, name) \in Dir
  BY AppendProperties DEF Dir
<1>3. ASSUME NEW name \in Name PROVE <<name, "site-packages">> \in Dir /\ <<name>> \in Dir
  <2>1. \A x \in Name : <<x>> \in Seq(Name) /\ \A y \in Name : <<x, y>> \in Seq(Name)
    OBVIOUS
  <2> QED  BY <2>1 DEF Dir, WorldsAssumption, NamesAssumption
<1>4. <<>> \in Seq(Dir) /\ \A d \in Dir : <<d>> \in Seq(Dir)
  OBVIOUS
<1> QED  BY <1>1, <1>2, <1>3, <1>4

(* The site-packages directory is one of the world's.                      *)
LEMMA SitePackagesIs ==
    ASSUME NEW w \in Worlds, WorldsAssumption, NEW lib \in Dir,
           NEW site \in ToSet(find_site_packages_path(w, lib))
    PROVE  site \in DirsOf(w)
<1> DEFINE direct == Append(lib, "site-packages")
           below == {lib \o <<python, "site-packages">> : python \in SubDirs(w, lib) \cap PythonDirs}
           listed == {dir \in below : IsDir(w, dir)}
           found == find_site_packages_path(w, lib)
<1>1. found = IF IsDir(w, direct) THEN <<direct>> ELSE FirstIfAny(ReadDir(w, listed))
  BY DEF find_site_packages_path
<1>2. direct \in Dir
  <2>1. "site-packages" \in Name
    BY DEF WorldsAssumption, NamesAssumption
  <2>2. \A name \in Name : Append(lib, name) \in Dir
    BY DirSeqs
  <2> QED  BY <2>1, <2>2
<1>3. listed \in SUBSET DirsOf(w)
  <2> SUFFICES ASSUME NEW dir \in listed PROVE dir \in DirsOf(w)
    OBVIOUS
  <2>1. PICK python \in SubDirs(w, lib) : dir = lib \o <<python, "site-packages">>
    OBVIOUS
  <2>2. python \in Name
    BY SubDirIs
  <2>3. <<python, "site-packages">> \in Dir
    BY <2>2, DirSeqs
  <2>4. dir \in Dir
    BY <2>1, <2>3, DirSeqs
  <2> QED  BY <2>4 DEF DirsOf
<1>4. IsFiniteSet(listed)
  <2> HIDE DEF listed
  <2> QED  BY <1>3, DirsFinite, FS_Subset
<1> HIDE DEF direct, listed, found
<1>5. ReadDir(w, listed) \in Seq(listed)
  BY <1>4, ListingIs
<1>6. \/ IsDir(w, direct) /\ found = <<direct>>
      \/ found = <<>>
      \/ \E x \in listed : found = <<x>>
  BY <1>1, <1>5, FirstIfAnyIs
<1>7. site \in ToSet(found)
  BY DEF found
<1>8. \A x : ToSet(<<x>>) = {x}
  BY DEF ToSet
<1>9. ToSet(<<>>) = {}
  BY DEF ToSet
<1>10. CASE IsDir(w, direct) /\ found = <<direct>>
  BY <1>2, <1>7, <1>8, <1>10 DEF DirsOf
<1>11. CASE found = <<>>
  BY <1>7, <1>9, <1>11
<1>12. ASSUME NEW x \in listed, found = <<x>> PROVE site \in DirsOf(w)
  BY <1>3, <1>7, <1>8, <1>12
<1> QED  BY <1>6, <1>10, <1>11, <1>12

(* So is what a .pth file names.                                           *)
LEMMA PthPathsAre ==
    ASSUME NEW w \in Worlds, WorldsAssumption, NEW dir \in Dir
    PROVE  find_paths_from_pth_files(w, dir) \subseteq DirsOf(w)
<1> SUFFICES ASSUME NEW pth \in FilesIn(w, dir), NEW path \in PthPaths(w, dir, pth)
             PROVE  path \in DirsOf(w)
  BY DEF find_paths_from_pth_files
<1> DEFINE lines == w.files[pth]
           named == {i \in DOMAIN lines : lines[i] \notin {<<>>, <<"#">>} /\ IsDir(w, dir \o lines[i])}
<1>1. lines \in Seq(Dir)
  BY DEF FilesIn, WorldsAssumption, FilesAssumption
<1>2. PICK line \in ToSet(FirstAt(lines, named)) : path = dir \o line
  BY DEF PthPaths
<1>3. DOMAIN lines = 1..Len(lines) /\ Len(lines) \in Nat
  BY <1>1, LenProperties
<1>4. /\ named \in SUBSET Nat
      /\ \A i \in named : i \in 1..Len(lines) /\ IsDir(w, dir \o lines[i])
  BY <1>3
<1> HIDE DEF lines, named
<1>5. PICK i \in named : line = lines[i]
  <2>1. \/ FirstAt(lines, named) = <<>>
        \/ \E i \in named : FirstAt(lines, named) = <<lines[i]>>
    BY <1>4, FirstAtIs
  <2>2. FirstAt(lines, named) # <<>>
    BY DEF ToSet
  <2>3. \A x : ToSet(<<x>>) = {x}
    BY DEF ToSet
  <2> QED  BY <2>1, <2>2, <2>3
<1>6. lines[i] \in Dir
  BY <1>1, <1>4, ElementOfSeq
<1>7. dir \o lines[i] \in Dir
  BY <1>6, DirSeqs
<1> QED  BY <1>2, <1>4, <1>5, <1>7 DEF DirsOf

(* Sorting makes a sequence of directories of one.                         *)
LEMMA InsertedIs ==
    ASSUME NEW S, NEW s \in Seq(S), NEW p \in S
    PROVE  Inserted(s, p) \in Seq(S)
<1> DEFINE before == {i \in DOMAIN s : PathBefore(s[i], p)}
           at == Cardinality(before) + 1
<1>1. Len(s) \in Nat /\ DOMAIN s = 1..Len(s)
  BY LenProperties
<1>2. IsFiniteSet(1..Len(s)) /\ Cardinality(1..Len(s)) = Len(s)
  BY <1>1, FS_Interval, SMTT(30)
<1>3. before \in SUBSET (1..Len(s))
  BY <1>1
<1>4. Inserted(s, p) = InsertAt(s, at, p)
  BY DEF Inserted
<1> HIDE DEF before
<1>5. Cardinality(before) \in 0..Len(s)
  <2>1. IsFiniteSet(before) /\ Cardinality(before) <= Cardinality(1..Len(s))
    BY <1>2, <1>3, FS_Subset
  <2>2. Cardinality(before) \in Nat
    BY <2>1, FS_CardinalityType
  <2> QED  BY <1>1, <1>2, <2>1, <2>2
<1>6. at \in 1..Len(s) + 1 /\ at \in Int /\ at - 1 \in Int /\ 1 \in Int /\ Len(s) \in Int
  BY <1>1, <1>5
<1> HIDE DEF at
<1>7. SubSeq(s, 1, at - 1) \in Seq(S)
  <2>1. \A i \in 1..at - 1 : i \in 1..Len(s)
    BY <1>1, <1>6
  <2>2. \A i \in 1..at - 1 : s[i] \in S
    BY <2>1, ElementOfSeq
  <2> QED  BY <1>6, <2>2, SubSeqProperties
<1>8. SubSeq(s, at, Len(s)) \in Seq(S)
  <2>1. \A i \in at..Len(s) : i \in 1..Len(s)
    BY <1>1, <1>6
  <2>2. \A i \in at..Len(s) : s[i] \in S
    BY <2>1, ElementOfSeq
  <2> QED  BY <1>6, <2>2, SubSeqProperties
<1>9. <<p>> \in Seq(S)
  OBVIOUS
<1>10. SubSeq(s, 1, at - 1) \o <<p>> \in Seq(S)
  BY <1>7, <1>9, ConcatProperties
<1>11. (SubSeq(s, 1, at - 1) \o <<p>>) \o SubSeq(s, at, Len(s)) \in Seq(S)
  BY <1>8, <1>10, ConcatProperties
<1> QED  BY <1>4, <1>11 DEF InsertAt

LEMMA SortedIs ==
    ASSUME NEW S, NEW s \in Seq(S)
    PROVE  Sorted(s) \in Seq(S)
<1> DEFINE n == Len(s)
           Good(f, m) == /\ DOMAIN f = 0..m
                         /\ f[0] = <<>> /\ \A i \in 1..m : f[i] = Inserted(f[i - 1], s[i])
           T == {m \in 0..n : \E f : Good(f, m)}
           Is(f) == f = [i \in 0..n |-> IF i = 0 THEN <<>> ELSE Inserted(f[i - 1], s[i])]
           sorted == CHOOSE f : Is(f)
<1>0. n \in Nat /\ 0 \in 0..n /\ n \in 0..n
  OBVIOUS
<1>7. Sorted(s) = sorted[n]
  BY DEF Sorted
<1> HIDE DEF n
<1>1. 0 \in T
  <2>1. Good([i \in 0..0 |-> <<>>], 0)
    OBVIOUS
  <2> HIDE DEF Good
  <2> QED  BY <1>0, <2>1
<1>2. ASSUME NEW m \in 0..n - 1, m \in T PROVE m + 1 \in T
  <2>1. PICK f : Good(f, m)
    BY <1>2
  <2> DEFINE g == [i \in 0..m + 1 |-> IF i = m + 1 THEN Inserted(f[m], s[m + 1]) ELSE f[i]]
  <2>2. g[0] = <<>>
    <3>1. 0 \in 0..m + 1 /\ 0 # m + 1
      OBVIOUS
    <3> QED  BY <2>1, <3>1
  <2>3. ASSUME NEW i \in 1..m + 1 PROVE g[i] = Inserted(g[i - 1], s[i])
    <3>1. i \in 0..m + 1 /\ i - 1 \in 0..m + 1 /\ i - 1 # m + 1
      OBVIOUS
    <3>2. CASE i = m + 1
      <4>1. g[i] = Inserted(f[m], s[m + 1]) /\ g[i - 1] = f[m]
        BY <3>1, <3>2
      <4> QED  BY <3>2, <4>1
    <3>3. CASE i # m + 1
      <4>1. i \in 1..m
        BY <3>1, <3>3
      <4>2. g[i] = f[i] /\ g[i - 1] = f[i - 1]
        BY <3>1, <3>3
      <4> QED  BY <2>1, <4>1, <4>2
    <3> QED  BY <3>2, <3>3
  <2>4. DOMAIN g = 0..m + 1
    OBVIOUS
  <2>5. Good(g, m + 1)
    <3> HIDE DEF g
    <3> QED  BY <2>2, <2>3, <2>4
  <2>6. m + 1 \in 0..n
    BY <1>0
  <2> HIDE DEF Good, g
  <2> QED  BY <2>5, <2>6
<1>3. n \in T
  <2> HIDE DEF T
  <2> QED  BY <1>0, <1>1, <1>2, UpTo
<1>4. PICK f : Good(f, n)
  BY <1>3
<1>5. Is([i \in 0..n |-> f[i]])
  <2> DEFINE h == [i \in 0..n |-> f[i]]
  <2>1. ASSUME NEW i \in 0..n PROVE h[i] = IF i = 0 THEN <<>> ELSE Inserted(h[i - 1], s[i])
    <3>1. CASE i = 0
      BY <1>4, <3>1
    <3>2. CASE i # 0
      <4>1. i \in 1..n /\ i - 1 \in 0..n
        BY <1>0, <3>2
      <4> QED  BY <1>4, <3>2, <4>1
    <3> QED  BY <3>1, <3>2
  <2> QED  BY <2>1
<1>6. Is(sorted)
  <2> HIDE DEF Is
  <2> QED  BY <1>5
<1> HIDE DEF sorted
<1> DEFINE U == {i \in 0..n : sorted[i] \in Seq(S)}
<1>8. 0 \in U
  <2>1. sorted[0] = <<>>
    BY <1>0, <1>6
  <2>2. <<>> \in Seq(S)
    OBVIOUS
  <2> QED  BY <1>0, <2>1, <2>2
<1>9. ASSUME NEW m \in 0..n - 1, m \in U PROVE m + 1 \in U
  <2>1. m + 1 \in 0..n /\ m + 1 # 0 /\ (m + 1) - 1 = m /\ m + 1 \in 1..Len(s)
    BY <1>0 DEF n
  <2>2. sorted[m + 1] = Inserted(sorted[m], s[m + 1])
    BY <1>6, <2>1
  <2>3. s[m + 1] \in S
    BY <2>1, ElementOfSeq
  <2>4. sorted[m + 1] \in Seq(S)
    BY <1>9, <2>2, <2>3, InsertedIs
  <2> QED  BY <2>1, <2>4
<1>10. n \in U
  <2> HIDE DEF U
  <2> QED  BY <1>0, <1>8, <1>9, UpTo
<1> QED  BY <1>7, <1>10

(* The search paths are directories.                                       *)
LEMMA SearchPathsAre ==
    ASSUME NEW w \in Worlds, WorldsAssumption
    PROVE  python_search_paths(w) \in Seq(Dir)
<1> DEFINE Libs == ToSet(lib_names(w.host.platform))
           sites == {find_site_packages_path(w, w.config.venv \o <<lib>>) : lib \in Libs}
           Paths(dir) == {dir} \cup find_paths_from_pth_files(w, dir)
           dirs == UNION {ToSet(site) : site \in sites}
           found == UNION {Paths(dir) : dir \in dirs}
<1>0. w.host.search_paths \in Seq(Dir) /\ w.config.venv \in Dir
  BY DEF WorldsAssumption, SettingsAssumption
<1>1. python_search_paths(w) = IF w.config.venv = NoDir THEN w.host.search_paths
                               ELSE SortedOr(found, w.host.search_paths)
  BY DEF python_search_paths
<1>2. ASSUME NEW lib \in Libs PROVE w.config.venv \o <<lib>> \in Dir
  <2>1. lib \in Name
    <3>1. w.host.platform \in {"Darwin", "Linux", "Windows"}
      BY DEF WorldsAssumption, SettingsAssumption
    <3>2. Libs \subseteq {"lib", "lib64", "Lib"}
      BY <3>1 DEF lib_names, ToSet
    <3> QED  BY <3>2 DEF WorldsAssumption, NamesAssumption
  <2>2. <<lib>> \in Dir
    BY <2>1, DirSeqs
  <2> QED  BY <1>0, <2>2, DirSeqs
<1>3. dirs \subseteq DirsOf(w)
  <2> SUFFICES ASSUME NEW lib \in Libs,
                      NEW dir \in ToSet(find_site_packages_path(w, w.config.venv \o <<lib>>))
               PROVE  dir \in DirsOf(w)
    OBVIOUS
  <2> QED  BY <1>2, SitePackagesIs
<1> HIDE DEF dirs
<1>4. found \subseteq DirsOf(w)
  <2> SUFFICES ASSUME NEW dir \in dirs, NEW path \in Paths(dir) PROVE path \in DirsOf(w)
    OBVIOUS
  <2>1. dir \in DirsOf(w) /\ dir \in Dir
    BY <1>3 DEF DirsOf
  <2>2. find_paths_from_pth_files(w, dir) \subseteq DirsOf(w)
    BY <2>1, PthPathsAre
  <2> QED  BY <2>1, <2>2
<1> HIDE DEF found
<1>5. IsFiniteSet(found) /\ found \subseteq Dir
  <2>1. found \in SUBSET DirsOf(w)
    BY <1>4
  <2> QED  BY <2>1, DirsFinite, FS_Subset DEF DirsOf
<1>6. SetToSeq(found) \in Seq(Dir)
  <2>1. SetToSeq(found) \in Seq(found)
    BY <1>5, ListingIs
  <2> QED  BY <1>5, <2>1
<1>7. Sorted(SetToSeq(found)) \in Seq(Dir)
  BY <1>6, SortedIs
<1> QED  BY <1>0, <1>1, <1>7 DEF SortedOr

LEMMA FirstBelowIs ==
    ASSUME NEW w \in Worlds, WorldsAssumption, NEW dirs \in Seq(Dir), NEW name \in Name
    PROVE  FirstBelow(w, dirs, name) \in Seq(Dir)
<1> DEFINE below == [i \in DOMAIN dirs |-> Append(dirs[i], name)]
           there == {i \in DOMAIN dirs : IsDir(w, below[i])}
<1>1. DOMAIN dirs = 1..Len(dirs) /\ Len(dirs) \in Nat
  BY LenProperties
<1>2. there \in SUBSET Nat /\ there \subseteq 1..Len(dirs)
  BY <1>1
<1>3. \A i \in 1..Len(dirs) : below[i] \in Dir
  <2> SUFFICES ASSUME NEW i \in 1..Len(dirs) PROVE below[i] \in Dir
    OBVIOUS
  <2>1. dirs[i] \in Dir
    BY ElementOfSeq
  <2>2. below[i] = Append(dirs[i], name)
    BY <1>1
  <2> QED  BY <2>1, <2>2, DirSeqs
<1>4. FirstBelow(w, dirs, name) = FirstAt(below, there)
  BY DEF FirstBelow
<1> HIDE DEF below, there
<1>5. \/ FirstAt(below, there) = <<>>
      \/ \E i \in there : FirstAt(below, there) = <<below[i]>>
  BY <1>2, FirstAtIs
<1> QED  BY <1>2, <1>3, <1>4, <1>5, DirSeqs

LEMMA TypeshedPathsAre ==
    ASSUME NEW w \in Worlds, WorldsAssumption
    PROVE  /\ stdlib_typeshed_path(w) \in Seq(Dir)
           /\ third_party_typeshed_package_paths(w) \in Seq(Dir)
<1>1. "typeshed" \in Name /\ "stdlib" \in Name /\ "stubs" \in Name
  BY DEF WorldsAssumption, NamesAssumption
<1>2. typeshed_root(w) \in Seq(Dir)
  <2>1. w.config.typeshed_path \in Dir
    BY DEF WorldsAssumption, SettingsAssumption
  <2>2. FirstBelow(w, python_search_paths(w), "typeshed") \in Seq(Dir)
    BY <1>1, SearchPathsAre, FirstBelowIs
  <2>3. <<>> \in Seq(Dir) /\ <<w.config.typeshed_path>> \in Seq(Dir)
    BY <2>1, DirSeqs
  <2> QED  BY <2>2, <2>3 DEF typeshed_root
<1>3. stdlib_typeshed_path(w) \in Seq(Dir) /\ typeshed_subdirectory(w, FALSE) \in Seq(Dir)
  BY <1>1, <1>2, FirstBelowIs DEF stdlib_typeshed_path, typeshed_subdirectory
<1> DEFINE stubs == typeshed_subdirectory(w, FALSE)
           name == w.descriptor.name_parts[1]
           Holds(package) ==
              \/ name \in SubDirs(w, package)
              \/ \E file \in FilesIn(w, package) :
                    /\ file.ext # <<>> /\ Last(file.ext) = "pyi"
                    /\ ModuleName(file) = <<name>>
           packages == UNION {{Append(dir, p) : p \in SubDirs(w, dir)} : dir \in ToSet(stubs)}
           holding == {package \in packages : Holds(package)}
<1>4. third_party_typeshed_package_paths(w)
        = IF w.descriptor.name_parts = <<>> THEN <<>> ELSE ReadDir(w, holding)
  BY DEF third_party_typeshed_package_paths, build_typeshed_third_party_package_map
<1>5. packages \subseteq DirsOf(w)
  <2> SUFFICES ASSUME NEW package \in packages PROVE package \in DirsOf(w)
    <3> HIDE DEF packages
    <3> QED  OBVIOUS
  <2>0. PICK dir \in ToSet(stubs) : \E p \in SubDirs(w, dir) : package = Append(dir, p)
    OBVIOUS
  <2>1. stubs \in Seq(Dir)
    BY <1>3
  <2>2. dir \in Dir
    <3> HIDE DEF stubs
    <3>1. DOMAIN stubs = 1..Len(stubs)
      BY <2>1, LenProperties
    <3>2. PICK i \in DOMAIN stubs : dir = stubs[i]
      BY DEF ToSet
    <3> QED  BY <2>1, <3>1, <3>2, ElementOfSeq
  <2> QED  BY <2>0, <2>2, SubDirIs
<1>6. holding \in SUBSET DirsOf(w)
  <2> HIDE DEF packages, Holds
  <2> QED  BY <1>5
<1> HIDE DEF holding
<1>7. IsFiniteSet(holding) /\ holding \subseteq Dir
  BY <1>6, DirsFinite, FS_Subset DEF DirsOf
<1>8. ReadDir(w, holding) \in Seq(Dir)
  <2>1. ReadDir(w, holding) \in Seq(holding)
    BY <1>7, ListingIs
  <2> QED  BY <1>7, <2>1
<1>9. <<>> \in Seq(Dir)
  BY DirSeqs
<1> QED  BY <1>3, <1>4, <1>8, <1>9

-----------------------------------------------------------------------------
(* Results of several search paths.                                        *)

(* A result of the first pass: it has no second one of its own.            *)
IsResult(w, r) == Spells(w, r) /\ r.non_stub = <<>>

IsResults(w, results) ==
    /\ Len(results) \in Nat /\ DOMAIN results = 1..Len(results)
    /\ results = [i \in 1..Len(results) |-> results[i]]
    /\ \A i \in 1..Len(results) : IsResult(w, results[i])

LEMMA InEachIs ==
    ASSUME NEW w \in Worlds, WorldsAssumption, NEW dirs \in Seq(Dir), NEW allow, IsAllow(allow),
           NEW results, results = ResolveInEach(w, dirs, allow)
    PROVE  /\ IsResults(w, results) /\ Len(results) = Len(dirs)
           /\ \A i \in 1..Len(dirs) : results[i] = resolve_absolute_import(w, dirs[i], allow)
<1>1. results = [i \in DOMAIN dirs |-> resolve_absolute_import(w, dirs[i], allow)]
  BY DEF ResolveInEach
<1>2. DOMAIN dirs = 1..Len(dirs) /\ Len(dirs) \in Nat
  BY LenProperties
<1>3. \A i \in 1..Len(dirs) : IsResult(w, resolve_absolute_import(w, dirs[i], allow))
  <2> SUFFICES ASSUME NEW i \in 1..Len(dirs)
               PROVE  IsResult(w, resolve_absolute_import(w, dirs[i], allow))
    OBVIOUS
  <2> DEFINE q == resolve_absolute_import(w, dirs[i], allow)
  <2>1. dirs[i] \in Dir
    BY ElementOfSeq
  <2>2. q = resolve_absolute_import(w, dirs[i], allow)
    OBVIOUS
  <2> HIDE DEF q
  <2>3. Spells(w, q) /\ q.non_stub = <<>>
    BY <2>1, <2>2, AbsoluteSpells
  <2> QED  BY <2>2, <2>3 DEF IsResult
<1>4. results = [i \in 1..Len(dirs) |-> resolve_absolute_import(w, dirs[i], allow)]
  BY <1>1, <1>2
<1>5. Len(results) = Len(dirs) /\ DOMAIN results = 1..Len(dirs)
  BY <1>2, <1>4
<1>6. \A i \in 1..Len(dirs) : results[i] = resolve_absolute_import(w, dirs[i], allow)
  BY <1>4
<1>7. results = [i \in 1..Len(dirs) |-> results[i]]
  BY <1>4
<1>8. IsResults(w, results)
  BY <1>2, <1>3, <1>5, <1>6, <1>7 DEF IsResults
<1> QED  BY <1>5, <1>6, <1>8

(* Two sequences of results, one behind the other.                         *)
IsConcat(u, s, t) ==
    /\ Len(u) = Len(s) + Len(t)
    /\ \A i \in 1..Len(s) : u[i] = s[i]
    /\ \A i \in 1..Len(t) : u[Len(s) + i] = t[i]

LEMMA ConcatResults ==
    ASSUME NEW w, NEW s, IsResults(w, s), NEW t, IsResults(w, t), NEW u, u = s \o t
    PROVE  IsResults(w, u) /\ IsConcat(u, s, t)
<1> DEFINE S == {s[i] : i \in 1..Len(s)} \cup {t[i] : i \in 1..Len(t)}
<1>1. s \in Seq(S) /\ t \in Seq(S) /\ Len(s) \in Nat /\ Len(t) \in Nat
  <2>1. /\ Len(s) \in Nat /\ s = [i \in 1..Len(s) |-> s[i]]
        /\ Len(t) \in Nat /\ t = [i \in 1..Len(t) |-> t[i]]
    BY Zenon DEF IsResults
  <2>2. s \in Seq(S)
    BY <2>1, SMTT(30)
  <2>3. t \in Seq(S)
    BY <2>1
  <2> QED  BY <2>1, <2>2, <2>3
<1>2. \A x \in S : IsResult(w, x)
  BY DEF IsResults
<1> HIDE DEF S
<1>3. /\ s \o t \in Seq(S) /\ Len(s \o t) = Len(s) + Len(t)
      /\ \A i \in 1..Len(s) + Len(t) : (s \o t)[i] = IF i <= Len(s) THEN s[i] ELSE t[i - Len(s)]
  BY <1>1, ConcatProperties
<1>4. \A i \in 1..Len(s) : (s \o t)[i] = s[i]
  BY <1>1, <1>3
<1>5. ASSUME NEW i \in 1..Len(t) PROVE (s \o t)[Len(s) + i] = t[i]
  <2>1. /\ Len(s) + i \in 1..Len(s) + Len(t) /\ ~(Len(s) + i <= Len(s))
        /\ (Len(s) + i) - Len(s) = i
    BY <1>1
  <2> QED  BY <1>3, <2>1
<1>6. u \in Seq(S)
  BY <1>3
<1>7. /\ Len(u) \in Nat /\ DOMAIN u = 1..Len(u) /\ u = [i \in 1..Len(u) |-> u[i]]
      /\ \A i \in 1..Len(u) : u[i] \in S
  BY <1>6, LenProperties, ElementOfSeq
<1>8. IsResults(w, u)
  BY <1>2, <1>7 DEF IsResults
<1> QED  BY <1>3, <1>4, <1>5, <1>8 DEF IsConcat

(* The same results with another type.                                     *)
LEMMA OfTypeIs ==
    ASSUME NEW w, NEW s, IsResults(w, s), NEW import_type, NEW typeshed,
           NEW t, t = OfType(s, import_type, typeshed)
    PROVE  /\ IsResults(w, t) /\ Len(t) = Len(s)
           /\ \A i \in 1..Len(s) : /\ t[i].resolved_paths = s[i].resolved_paths
                                   /\ t[i].typeshed = typeshed
                                   /\ t[i].is_import_found = s[i].is_import_found
<1> DEFINE Typed(i) == [s[i] EXCEPT !.import_type = import_type, !.typeshed = typeshed]
<1>1. Len(s) \in Nat /\ DOMAIN s = 1..Len(s) /\ \A i \in 1..Len(s) : IsResult(w, s[i])
  BY DEF IsResults
<1>2. t = [i \in 1..Len(s) |-> Typed(i)]
  BY <1>1 DEF OfType
<1>3. ASSUME NEW i \in 1..Len(s)
      PROVE  /\ Agree(Typed(i), s[i]) /\ Typed(i).non_stub = s[i].non_stub
             /\ Typed(i).typeshed = typeshed
  <2> DEFINE r == s[i]
             q == [r EXCEPT !.import_type = import_type, !.typeshed = typeshed]
  <2>1. DOMAIN r = Fields
    BY <1>1 DEF IsResult, Spells
  <2> HIDE DEF r
  <2>2. Agree(q, r) /\ q.non_stub = r.non_stub /\ q.typeshed = typeshed
    BY <2>1, FieldsAre DEF Agree
  <2> QED  BY <2>2 DEF r
<1> HIDE DEF Typed
<1>4. \A i \in 1..Len(s) : IsResult(w, Typed(i))
  BY <1>1, <1>3, AgreeSpells DEF IsResult
<1>5. /\ Len(t) = Len(s) /\ DOMAIN t = 1..Len(s)
      /\ \A i \in 1..Len(s) : t[i] = Typed(i)
      /\ t = [i \in 1..Len(s) |-> t[i]]
  BY <1>1, <1>2
<1>6. IsResults(w, t)
  BY <1>1, <1>4, <1>5 DEF IsResults
<1> QED  BY <1>3, <1>5, <1>6 DEF Agree

(* The first that is found, if any.                                        *)
LEMMA FirstFoundIs ==
    ASSUME NEW w, NEW s, IsResults(w, s)
    PROVE  IsResults(w, FirstFound(s)) /\ Len(FirstFound(s)) <= 1
<1> DEFINE found == {i \in DOMAIN s : s[i].is_import_found}
<1>1. Len(s) \in Nat /\ DOMAIN s = 1..Len(s) /\ \A i \in 1..Len(s) : IsResult(w, s[i])
  BY DEF IsResults
<1>2. found \in SUBSET Nat /\ found \subseteq 1..Len(s)
  BY <1>1
<1>3. FirstFound(s) = FirstAt(s, found)
  BY DEF FirstFound
<1> HIDE DEF found
<1>4. IsResults(w, <<>>) /\ Len(<<>>) <= 1
  BY DEF IsResults
<1>5. ASSUME NEW r, IsResult(w, r) PROVE IsResults(w, <<r>>) /\ Len(<<r>>) <= 1
  BY <1>5 DEF IsResults
<1>6. FirstAt(s, found) = <<>> \/ \E i \in found : FirstAt(s, found) = <<s[i]>>
  BY <1>2, FirstAtIs
<1> QED  BY <1>1, <1>2, <1>3, <1>4, <1>5, <1>6

LEMMA FoundAreFound ==
    ASSUME NEW w, NEW s, IsResults(w, s), NEW k \in 1..Len(FirstFound(s))
    PROVE  \E i \in 1..Len(s) : FirstFound(s)[k] = s[i] /\ s[i].is_import_found
<1> DEFINE found == {i \in DOMAIN s : s[i].is_import_found}
           one == FirstFound(s)
<1>1. found \in SUBSET Nat /\ \A i \in found : i \in 1..Len(s) /\ s[i].is_import_found
  BY DEF IsResults
<1>2. one = FirstAt(s, found)
  BY DEF FirstFound
<1> HIDE DEF found
<1>3. one = <<>> \/ \E i \in found : one = <<s[i]>>
  BY <1>1, <1>2, FirstAtIs
<1>4. k \in 1..Len(one)
  OBVIOUS
<1> HIDE DEF one
<1>5. PICK i \in found : one = <<s[i]>>
  BY <1>3, <1>4
<1>6. one[k] = s[i]
  BY <1>4, <1>5
<1> QED  BY <1>1, <1>6 DEF one

SearchPathAllows(pyi) == {Allow(TRUE, TRUE, pyi, FALSE), Allow(TRUE, TRUE, pyi, TRUE)}

LEMMA SearchPathResultsAre ==
    ASSUME NEW w \in Worlds, WorldsAssumption, NEW pyi
    PROVE  /\ IsResults(w, SearchPathResults(w, pyi)) /\ Len(SearchPathResults(w, pyi)) \in Nat \ {0}
           /\ \A dir \in ToSet(Searched(w)) : dir \in Dir
                /\ \E i \in 1..Len(SearchPathResults(w, pyi)), allow \in SearchPathAllows(pyi) :
                     SearchPathResults(w, pyi)[i].resolved_paths
                       = resolve_absolute_import(w, dir, allow).resolved_paths
<1> DEFINE local == <<w.root>> \o w.extra_paths
           python == python_search_paths(w)
           untyped == Allow(TRUE, TRUE, pyi, FALSE)
           typed == Allow(TRUE, TRUE, pyi, TRUE)
           s == ResolveInEach(w, local, untyped)
           u == ResolveInEach(w, python, typed)
           t == OfType(u, "ThirdParty", "no")
           all == SearchPathResults(w, pyi)
<1>1. all = s \o t
  BY DEF SearchPathResults
<1>2. local \in Seq(Dir) /\ Len(local) \in Nat \ {0} /\ python \in Seq(Dir)
  <2>1. w.root \in Dir /\ w.extra_paths \in Seq(Dir)
    BY DEF WorldsAssumption, SettingsAssumption
  <2>2. <<w.root>> \in Seq(Dir) /\ Len(<<w.root>>) = 1
    BY <2>1
  <2>3. local \in Seq(Dir) /\ Len(local) = Len(<<w.root>>) + Len(w.extra_paths)
    BY <2>1, <2>2, ConcatProperties
  <2>4. Len(w.extra_paths) \in Nat
    BY <2>1
  <2> QED  BY <2>2, <2>3, <2>4, SearchPathsAre
<1>3. Searched(w) = local \o python
  BY DEF Searched
<1>4. /\ s = ResolveInEach(w, local, untyped) /\ u = ResolveInEach(w, python, typed)
      /\ IsAllow(untyped) /\ IsAllow(typed)
  BY DEF Allow, IsAllow
<1>12. t = OfType(u, "ThirdParty", "no")
  OBVIOUS
<1> HIDE DEF local, python, untyped, typed, s, u, t, all
<1>5. /\ IsResults(w, s) /\ Len(s) = Len(local)
      /\ \A i \in 1..Len(local) : s[i] = resolve_absolute_import(w, local[i], untyped)
  BY <1>2, <1>4, InEachIs
<1>6. /\ IsResults(w, u) /\ Len(u) = Len(python)
      /\ \A i \in 1..Len(python) : u[i] = resolve_absolute_import(w, python[i], typed)
  BY <1>2, <1>4, InEachIs
<1>7. /\ IsResults(w, t) /\ Len(t) = Len(u)
      /\ \A i \in 1..Len(u) : t[i].resolved_paths = u[i].resolved_paths
  BY <1>6, <1>12, OfTypeIs
<1>8. /\ IsResults(w, all) /\ Len(all) = Len(local) + Len(python)
      /\ \A i \in 1..Len(local) : all[i] = s[i]
      /\ \A i \in 1..Len(python) : all[Len(local) + i] = t[i]
  <2>1. IsResults(w, s) /\ IsResults(w, t) /\ Len(s) = Len(local) /\ Len(t) = Len(python)
    BY <1>5, <1>6, <1>7
  <2>2. IsResults(w, all) /\ IsConcat(all, s, t)
    BY <1>1, <2>1, ConcatResults
  <2> QED  BY <2>1, <2>2 DEF IsConcat
<1>9. Len(python) \in Nat
  BY <1>2
<1>10. Len(all) \in Nat \ {0}
  BY <1>2, <1>8, <1>9
<1>11. ASSUME NEW dir \in ToSet(Searched(w))
       PROVE  /\ dir \in Dir
              /\ \E i \in 1..Len(all), allow \in SearchPathAllows(pyi) :
                   all[i].resolved_paths = resolve_absolute_import(w, dir, allow).resolved_paths
  <2>1. PICK i \in DOMAIN Searched(w) : dir = Searched(w)[i]
    BY DEF ToSet
  <2>2. /\ Searched(w) \in Seq(Dir) /\ Len(Searched(w)) = Len(local) + Len(python)
        /\ \A j \in 1..Len(local) + Len(python) :
             Searched(w)[j] = IF j <= Len(local) THEN local[j] ELSE python[j - Len(local)]
    BY <1>2, <1>3, ConcatProperties
  <2>3. i \in 1..Len(local) + Len(python)
    BY <2>1, <2>2, LenProperties
  <2>4. dir \in Dir
    BY <2>1, <2>2, <2>3, ElementOfSeq
  <2>7. untyped \in SearchPathAllows(pyi) /\ typed \in SearchPathAllows(pyi)
    BY DEF SearchPathAllows, untyped, typed
  <2>5. CASE i <= Len(local)
    <3>1. i \in 1..Len(local) /\ i \in 1..Len(all)
      BY <1>2, <1>8, <1>9, <2>3, <2>5
    <3>2. all[i] = resolve_absolute_import(w, dir, untyped)
      BY <1>5, <1>8, <2>1, <2>2, <2>3, <2>5, <3>1
    <3>3. all[i].resolved_paths
            = resolve_absolute_import(w, dir, untyped).resolved_paths
      BY <3>2
    <3> QED  BY <2>4, <2>7, <3>1, <3>3
  <2>6. CASE ~(i <= Len(local))
    <3> DEFINE k == i - Len(local)
    <3>1. k \in 1..Len(python) /\ i \in 1..Len(all) /\ Len(local) + k = i
      BY <1>2, <1>8, <1>9, <2>3, <2>6
    <3>2. python[k] = dir
      BY <2>1, <2>2, <2>3, <2>6
    <3> HIDE DEF k
    <3>3. all[i] = t[k]
      BY <1>8, <3>1
    <3>4. t[k].resolved_paths = u[k].resolved_paths
      BY <1>6, <1>7, <3>1
    <3>5. u[k] = resolve_absolute_import(w, dir, typed)
      BY <1>6, <3>1, <3>2
    <3>6. all[i].resolved_paths
            = resolve_absolute_import(w, dir, typed).resolved_paths
      BY <3>3, <3>4, <3>5
    <3> QED  BY <2>4, <2>7, <3>1, <3>6
  <2> QED  BY <2>5, <2>6
<1> QED  BY <1>8, <1>10, <1>11 DEF all

(* The best of several results is one of them.                             *)
LEMMA BestOfIsOne ==
    ASSUME NEW w, NEW results, Len(results) \in Nat \ {0}
    PROVE  \E k \in 1..Len(results) : BestOf(w, results) = results[k]
<1> DEFINE symbols == w.descriptor.imported_symbols
           len == Len(results)
<1>1. PICK best :
        /\ BestOf(w, results) = best[len]
        /\ best[1] = results[1]
        /\ \A i \in 2..len : best[i] = pick_best_import(best[i - 1], results[i], symbols)
  BY BestUnfolds
<1> DEFINE S == {m \in 1..len : \E k \in 1..len : best[m] = results[k]}
<1>0. len \in Nat \ {0} /\ len \in Nat /\ 1 \in 1..len /\ len \in 1..len
  OBVIOUS
<1> HIDE DEF len, symbols
<1>2. 1 \in S
  BY <1>0, <1>1
<1>3. ASSUME NEW m \in 1..len - 1, m \in S PROVE m + 1 \in S
  <2>1. m + 1 \in 2..len /\ m + 1 \in 1..len /\ (m + 1) - 1 = m
    BY <1>0
  <2>2. best[m + 1] = pick_best_import(best[m], results[m + 1], symbols)
    BY <1>1, <2>1
  <2>3. \A b, r : pick_best_import(b, r, symbols) \in {b, r}
    <3> SUFFICES ASSUME NEW b, NEW r PROVE pick_best_import(b, r, symbols) \in {b, r}
      OBVIOUS
    <3>1. LateRules(b, r) \in {b, r}
      BY DEF LateRules
    <3>2. NamespaceRule(b, r, symbols) \in {"new", "best", "neither"}
      BY DEF NamespaceRule
    <3> QED  BY <3>1, <3>2 DEF pick_best_import
  <2>4. best[m + 1] \in {best[m], results[m + 1]}
    BY <2>2, <2>3
  <2> QED  BY <1>3, <2>1, <2>4
<1>4. len \in S
  <2> HIDE DEF S
  <2> QED  BY <1>0, <1>2, <1>3, FromOneUpTo
<1> QED  BY <1>1, <1>4 DEF len

LEMMA BestOfIsResult ==
    ASSUME NEW w, NEW results, IsResults(w, results), Len(results) \in Nat \ {0}
    PROVE  IsResult(w, BestOf(w, results))
  BY BestOfIsOne DEF IsResults

(* Typeshed has at most one result.                                        *)
IsStdlib(r) == r.typeshed = "stdlib" /\ r.is_import_found

LEMMA TypeshedIs ==
    ASSUME NEW w \in Worlds, WorldsAssumption, NEW is_std_lib \in BOOLEAN
    PROVE  /\ IsResults(w, find_typeshed_path(w, is_std_lib))
           /\ Len(find_typeshed_path(w, is_std_lib)) <= 1
           /\ is_std_lib => \A i \in 1..Len(find_typeshed_path(w, is_std_lib)) :
                              IsStdlib(find_typeshed_path(w, is_std_lib)[i])
<1> DEFINE paths == IF is_std_lib THEN stdlib_typeshed_path(w)
                                  ELSE third_party_typeshed_package_paths(w)
           allow == Allow(FALSE, FALSE, TRUE, FALSE)
           s == ResolveInEach(w, paths, allow)
           found == FirstFound(s)
           import_type == IF is_std_lib THEN "BuiltIn" ELSE "ThirdParty"
           typeshed == IF is_std_lib THEN "stdlib" ELSE "third_party"
           t == find_typeshed_path(w, is_std_lib)
<1>1. t = OfType(found, import_type, typeshed)
  BY DEF find_typeshed_path
<1>2. paths \in Seq(Dir)
  BY TypeshedPathsAre
<1>3. s = ResolveInEach(w, paths, allow) /\ IsAllow(allow)
  BY DEF Allow, IsAllow
<1>4. is_std_lib => typeshed = "stdlib"
  OBVIOUS
<1>5. found = FirstFound(s)
  OBVIOUS
<1> HIDE DEF paths, allow, s, found, import_type, typeshed, t
<1>6. IsResults(w, s)
  BY <1>2, <1>3, InEachIs
<1>7. IsResults(w, found) /\ Len(found) <= 1
  BY <1>5, <1>6, FirstFoundIs
<1>8. \A i \in 1..Len(found) : found[i].is_import_found
  BY <1>5, <1>6, FoundAreFound
<1>9. /\ IsResults(w, t) /\ Len(t) = Len(found)
      /\ \A i \in 1..Len(found) :
            t[i].typeshed = typeshed /\ t[i].is_import_found = found[i].is_import_found
  BY <1>1, <1>7, OfTypeIs
<1>10. /\ Len(t) <= 1
       /\ is_std_lib => \A i \in 1..Len(t) : IsStdlib(t[i])
  BY <1>4, <1>7, <1>8, <1>9 DEF IsStdlib
<1> QED  BY <1>9, <1>10 DEF t

(* A traditional result among the others makes the best one traditional.   *)
LEMMA BestOfIsTraditional ==
    ASSUME NEW w \in Worlds, WorldsAssumption, w.descriptor.name_parts # <<>>,
           NEW results, IsResults(w, results), Len(results) \in Nat \ {0},
           NEW k \in 1..Len(results), IsTraditional(results[k])
    PROVE  IsTraditional(BestOf(w, results))
<1> DEFINE n == Len(w.descriptor.name_parts)
           best == BestOf(w, results)
<1>1. n \in Nat \ {0}
  BY EmptySeq DEF WorldsAssumption, DescriptorAssumption, Dir
<1>2. \A i \in 1..Len(results) : IsCounted(results[i], n)
  BY DEF IsResults, IsResult, Spells
<1> HIDE DEF n, best
<1>3. BestOfFirst(best, results, Len(results), w.descriptor.imported_symbols)
  BY <1>1, <1>2, BestOfIsBest DEF best
<1>4. PICK j \in 1..Len(results) : best = results[j]
  BY <1>3 DEF BestOfFirst
<1>5. ~Better(results[k], best)
  BY <1>3 DEF BestOfFirst
<1>6. IsCounted(best, n) /\ IsCounted(results[k], n)
  BY <1>2, <1>4
<1>7. FirstTraditional(results[k]) = 1
  BY <1>1, <1>6, FirstTraditionalIs DEF IsTraditional
<1>8. /\ FirstTraditional(best) \in 0..n
      /\ FirstTraditional(best) # 0 =>
           /\ FirstTraditional(best) \in DOMAIN best.resolved_paths
           /\ best.resolved_paths[FirstTraditional(best)] # EmptyPath
  BY <1>1, <1>6, FirstTraditionalIs
<1>9. FirstTraditional(best) = 1
  BY <1>1, <1>5, <1>7, <1>8 DEF Better, NewIsMoreTraditional
<1>10. IsTraditional(best)
  BY <1>8, <1>9 DEF IsTraditional
<1> QED  BY <1>10 DEF best

(* Typeshed's standard library wins, its other stubs are compared.         *)
AfterSearchPathsIs(w, best, s) ==
    /\ IsResults(w, s) /\ Len(s) = 1
    /\ w.descriptor.name_parts # <<>> /\ IsTraditional(best) =>
         IsStdlib(s[1]) \/ IsTraditional(s[1])

LEMMA OneResult ==
    ASSUME NEW w, NEW r, IsResult(w, r), NEW s, s = <<r>>
    PROVE  IsResults(w, s) /\ Len(s) = 1 /\ s[1] = r
<1>1. Len(<<r>>) = 1 /\ DOMAIN <<r>> = 1..1 /\ <<r>>[1] = r /\ <<r>> = [i \in 1..1 |-> <<r>>[i]]
  OBVIOUS
<1> QED  BY <1>1 DEF IsResults

LEMMA SearchPathsThenTypeshed ==
    ASSUME NEW w \in Worlds, WorldsAssumption, NEW pyi, NEW best, IsResult(w, best),
           NEW s, s = AfterSearchPaths(w, best, pyi)
    PROVE  AfterSearchPathsIs(w, best, s)
<1> DEFINE stdlib == find_typeshed_path(w, TRUE)
           third_party == find_typeshed_path(w, FALSE)
           all == <<best>> \o third_party
           one == <<best>>
<1>1. \/ s = one
      \/ s = BestWithTypeshed(w, best, stdlib, third_party)
  BY DEF AfterSearchPaths
<1>2. /\ IsResults(w, stdlib) /\ Len(stdlib) <= 1
      /\ \A i \in 1..Len(stdlib) : IsStdlib(stdlib[i])
  BY TypeshedIs
<1>3. IsResults(w, third_party)
  BY TypeshedIs
<1>4. BestWithTypeshed(w, best, stdlib, third_party)
        = IF stdlib # <<>> THEN stdlib ELSE <<BestOf(w, all)>>
  BY DEF BestWithTypeshed
<1>5. all = one \o third_party /\ one = <<best>>
  OBVIOUS
<1> HIDE DEF stdlib, third_party, all, one
<1>6. IsResults(w, one) /\ Len(one) = 1 /\ one[1] = best
  BY <1>5, OneResult
<1>7. CASE s = one
  BY <1>6, <1>7 DEF AfterSearchPathsIs
<1>8. CASE s = stdlib /\ stdlib # <<>>
  <2>1. Len(stdlib) \in Nat /\ Len(stdlib) # 0
    <3>1. stdlib = [i \in 1..Len(stdlib) |-> stdlib[i]] /\ Len(stdlib) \in Nat
      BY <1>2, Zenon DEF IsResults
    <3>2. stdlib \in Seq({stdlib[i] : i \in 1..Len(stdlib)})
      BY <3>1
    <3> QED  BY <1>8, <3>1, <3>2, EmptySeq
  <2>2. Len(stdlib) = 1 /\ 1 \in 1..Len(stdlib)
    <3>1. Len(stdlib) <= 1
      BY <1>2
    <3>2. \A k \in Nat : k # 0 /\ k <= 1 => k = 1
      OBVIOUS
    <3>3. Len(stdlib) = 1
      BY <2>1, <3>1, <3>2, Zenon
    <3> QED  BY <3>3
  <2> QED  BY <1>2, <1>8, <2>2 DEF AfterSearchPathsIs
<1>9. CASE s = <<BestOf(w, all)>>
  <2>1. IsResults(w, all) /\ IsConcat(all, one, third_party)
    BY <1>3, <1>5, <1>6, ConcatResults
  <2>2. Len(third_party) \in Nat
    BY <1>3 DEF IsResults
  <2>3. Len(all) \in Nat \ {0} /\ 1 \in 1..Len(all) /\ all[1] = best
    <3>1. Len(all) = 1 + Len(third_party) /\ 1 \in 1..Len(one) /\ all[1] = one[1]
      BY <1>6, <2>1 DEF IsConcat
    <3> QED  BY <1>6, <2>2, <3>1
  <2> DEFINE chosen == BestOf(w, all)
  <2>4. IsResult(w, chosen)
    BY <2>1, <2>3, BestOfIsResult
  <2>5. w.descriptor.name_parts # <<>> /\ IsTraditional(best) => IsTraditional(chosen)
    BY <2>1, <2>3, BestOfIsTraditional
  <2>6. s = <<chosen>>
    BY <1>9
  <2> HIDE DEF chosen
  <2>7. IsResults(w, s) /\ Len(s) = 1 /\ s[1] = chosen
    BY <2>4, <2>6, OneResult
  <2> QED  BY <2>5, <2>7 DEF AfterSearchPathsIs
<1> QED  BY <1>1, <1>4, <1>7, <1>8, <1>9

(* A configured stub path has at most one result.                          *)
LEMMA StubPathIs ==
    ASSUME NEW w \in Worlds, WorldsAssumption, NEW s, s = ResolveInStubPath(w)
    PROVE  IsResults(w, s)
<1> DEFINE allow == Allow(FALSE, TRUE, TRUE, FALSE)
           r == resolve_absolute_import(w, w.config.stub_path, allow)
           q == [r EXCEPT !.is_local_typings_file = TRUE]
<1>1. s = <<>> \/ s = <<q>>
  BY DEF ResolveInStubPath, StubPathResult
<1>2. w.config.stub_path \in Dir
  BY DEF WorldsAssumption, SettingsAssumption
<1>3. IsAllow(allow) /\ r = resolve_absolute_import(w, w.config.stub_path, allow)
  BY DEF IsAllow, Allow
<1> HIDE DEF allow, r
<1>4. Spells(w, r) /\ r.non_stub = <<>>
  BY <1>2, <1>3, AbsoluteSpells
<1>5. DOMAIN r = Fields
  BY <1>4 DEF Spells
<1>6. Agree(q, r) /\ q.non_stub = r.non_stub
  BY <1>5, FieldsAre DEF Agree
<1> HIDE DEF q
<1>7. IsResult(w, q)
  BY <1>4, <1>6, AgreeSpells DEF IsResult
<1>8. CASE s = <<>>
  <2>1. Len(<<>>) = 0 /\ DOMAIN <<>> = 1..0 /\ <<>> = [i \in 1..0 |-> <<>>[i]]
    OBVIOUS
  <2> QED  BY <1>8, <2>1 DEF IsResults
<1>9. CASE s = <<q>>
  BY <1>7, <1>9, OneResult
<1> QED  BY <1>1, <1>8, <1>9

LEMMA BestAbsoluteIs ==
    ASSUME NEW w \in Worlds, WorldsAssumption, NEW pyi,
           NEW s, s = resolve_best_absolute_import(w, pyi)
    PROVE  IsResults(w, s)
<1> DEFINE results == SearchPathResults(w, pyi)
           best == BestOf(w, results)
<1>1. s = IF pyi /\ w.config.stub_path # NoDir THEN ResolveInStubPath(w)
          ELSE AfterSearchPaths(w, best, pyi)
  BY DEF resolve_best_absolute_import
<1>2. IsResults(w, results) /\ Len(results) \in Nat \ {0}
  BY SearchPathResultsAre
<1> HIDE DEF results
<1>3. IsResult(w, best)
  BY <1>2, BestOfIsResult
<1> HIDE DEF best
<1>4. s = AfterSearchPaths(w, best, pyi) => IsResults(w, s)
  BY <1>3, SearchPathsThenTypeshed DEF AfterSearchPathsIs
<1>5. s = ResolveInStubPath(w) => IsResults(w, s)
  BY StubPathIs
<1> QED  BY <1>1, <1>4, <1>5

-----------------------------------------------------------------------------
(* The answer.                                                             *)

\* The result and the one without stubs, if it was looked for.
IsAnswer(w, r) == Spells(w, r) /\ \A x \in ToSet(r.non_stub) : Spells(w, x)

LEMMA FoundOrIs ==
    ASSUME NEW w \in Worlds, WorldsAssumption, NEW found, IsResults(w, found)
    PROVE  IsResult(w, FoundOr(found, not_found))
<1>1. CASE found = <<>>
  BY <1>1, NotFoundSpells DEF FoundOr, IsResult
<1>2. CASE found # <<>>
  <2> DEFINE S == {found[i] : i \in 1..Len(found)}
  <2>1. found = [i \in 1..Len(found) |-> found[i]] /\ Len(found) \in Nat
        /\ \A i \in 1..Len(found) : IsResult(w, found[i])
    BY Zenon DEF IsResults
  <2>2. found \in Seq(S)
    BY <2>1
  <2>3. \A x \in S : IsResult(w, x)
    BY <2>1
  <2> HIDE DEF S
  <2>4. Head(found) \in S
    BY <1>2, <2>2, HeadTailProperties
  <2> QED  BY <1>2, <2>3, <2>4 DEF FoundOr
<1> QED  BY <1>1, <1>2

LEMMA ResultIsAnswer ==
    ASSUME NEW w, NEW r, IsResult(w, r)
    PROVE  IsAnswer(w, r)
<1>1. ToSet(<<>>) = {}
  BY DEF ToSet
<1> QED  BY <1>1 DEF IsResult, IsAnswer

LEMMA WithNonStubIs ==
    ASSUME NEW w, NEW r, IsResult(w, r), NEW s, IsResults(w, s)
    PROVE  /\ IsAnswer(w, WithNonStub(r, s)) /\ DOMAIN WithNonStub(r, s) = Fields
           /\ WithNonStub(r, s).resolved_paths = r.resolved_paths
           /\ WithNonStub(r, s).typeshed = r.typeshed
           /\ WithNonStub(r, s).is_import_found = r.is_import_found
<1> DEFINE q == [r EXCEPT !.non_stub = s]
<1>1. DOMAIN r = Fields
  BY DEF IsResult, Spells
<1>2. /\ Agree(q, r) /\ q.non_stub = s /\ DOMAIN q = Fields
      /\ q.resolved_paths = r.resolved_paths /\ q.typeshed = r.typeshed
      /\ q.is_import_found = r.is_import_found
  BY <1>1, FieldsAre DEF Agree
<1> HIDE DEF q
<1>3. \A x \in ToSet(s) : IsResult(w, x)
  BY DEF IsResults, ToSet
<1>4. IsAnswer(w, q)
  BY <1>2, <1>3, AgreeSpells DEF IsAnswer, IsResult
<1>5. IsAnswer(w, r)
  BY ResultIsAnswer
<1>6. WithNonStub(r, s) = IF r.is_stub_file THEN q ELSE r
  BY DEF WithNonStub, q
<1> QED  BY <1>1, <1>2, <1>4, <1>5, <1>6

LEMMA RelativeIs ==
    ASSUME NEW w \in Worlds, WorldsAssumption, w.descriptor.leading_dots > 0
    PROVE  IsAnswer(w, resolve_relative_import(w))
<1> DEFINE up == w.descriptor.leading_dots - 1
           k == Len(w.source) - up
           dir == <<SubSeq(w.source, 1, k)>>
           stubs == Allow(TRUE, FALSE, TRUE, FALSE)
           source == Allow(TRUE, FALSE, FALSE, FALSE)
           first == ResolveInEach(w, dir, stubs)
           second == ResolveInEach(w, dir, source)
           r == WithNonStub(first[1], second)
           q == [r EXCEPT !.is_relative = TRUE]
<1>1. resolve_relative_import(w) = IF up > Len(w.source) THEN not_found ELSE q
  BY DEF resolve_relative_import
<1>2. CASE up > Len(w.source)
  BY <1>1, <1>2, NotFoundSpells, ResultIsAnswer DEF IsResult
<1>3. CASE ~(up > Len(w.source))
  <2>1. k \in 0..Len(w.source) /\ w.source \in Seq(Name)
    <3>1. w.source \in Seq(Name) /\ w.descriptor.leading_dots \in Nat
      BY DEF WorldsAssumption, SettingsAssumption, DescriptorAssumption, Dir
    <3> QED  BY <1>3, <3>1, SMTT(30)
  <2> HIDE DEF k
  <2>2. SubSeq(w.source, 1, k) \in Dir
    BY <2>1, PartOfSeq DEF Dir
  <2>3. dir \in Seq(Dir) /\ Len(dir) = 1
    BY <2>2
  <2>4. /\ first = ResolveInEach(w, dir, stubs) /\ IsAllow(stubs)
        /\ second = ResolveInEach(w, dir, source) /\ IsAllow(source)
    BY DEF IsAllow, Allow
  <2> HIDE DEF dir, stubs, source, first, second
  <2>5. IsResults(w, first) /\ Len(first) = 1
    BY <2>3, <2>4, InEachIs
  <2>6. IsResults(w, second)
    BY <2>3, <2>4, InEachIs
  <2>7. IsResult(w, first[1])
    BY <2>5 DEF IsResults
  <2>8. IsAnswer(w, r) /\ DOMAIN r = Fields
    BY <2>6, <2>7, WithNonStubIs
  <2> HIDE DEF r
  <2>9. Agree(q, r) /\ q.non_stub = r.non_stub
    BY <2>8, FieldsAre DEF Agree
  <2> HIDE DEF q
  <2>10. IsAnswer(w, q)
    BY <2>8, <2>9, AgreeSpells DEF IsAnswer
  <2> QED  BY <1>1, <1>3, <2>10
<1> QED  BY <1>2, <1>3

LEMMA ParentsAreDirs ==
    ASSUME NEW w \in Worlds, WorldsAssumption
    PROVE  ParentsUpToRoot(w) \in Seq(Dir)
<1> DEFINE n == Len(w.source) - Len(w.root) + 1
           parents == ParentsUpToRoot(w)
<1>1. w.source \in Seq(Name) /\ w.root \in Seq(Name)
  BY DEF WorldsAssumption, SettingsAssumption, Dir
<1>2. CASE ~IsPrefix(w.root, w.source)
  BY <1>2 DEF ParentsUpToRoot
<1>3. CASE IsPrefix(w.root, w.source)
  <2>1. parents = [i \in 1..n |-> SubSeq(w.source, 1, Len(w.source) - i + 1)]
    BY <1>3 DEF ParentsUpToRoot
  <2>2. Len(w.root) \in 0..Len(w.source)
    BY <1>1, <1>3, PrefixIs
  <2>3. n \in Nat /\ \A i \in 1..n : Len(w.source) - i + 1 \in 0..Len(w.source)
    BY <1>1, <2>2
  <2> HIDE DEF n, parents
  <2>4. \A i \in 1..n : SubSeq(w.source, 1, Len(w.source) - i + 1) \in Dir
    BY <1>1, <2>3, PartOfSeq DEF Dir
  <2>5. parents \in Seq(Dir)
    BY <2>1, <2>3, <2>4
  <2> QED  BY <2>5 DEF parents
<1> QED  BY <1>2, <1>3

LEMMA InParentsIs ==
    ASSUME NEW w \in Worlds, WorldsAssumption
    PROVE  IsAnswer(w, ResolveInParents(w))
<1> DEFINE parents == ParentsUpToRoot(w)
           allow == Allow(FALSE, FALSE, TRUE, FALSE)
           results == ResolveInEach(w, parents, allow)
           r == FoundOr(FirstFound(results), not_found)
           q == [r EXCEPT !.implicit_imports = filter(@, w.descriptor.imported_symbols)]
<1>1. ResolveInParents(w) = q
  BY DEF ResolveInParents
<1>2. parents \in Seq(Dir)
  BY ParentsAreDirs
<1>3. results = ResolveInEach(w, parents, allow) /\ IsAllow(allow)
  BY DEF IsAllow, Allow
<1> HIDE DEF parents, allow, results
<1>4. IsResults(w, results)
  BY <1>2, <1>3, InEachIs
<1>5. IsResults(w, FirstFound(results))
  BY <1>4, FirstFoundIs
<1>6. IsResult(w, r)
  BY <1>5, FoundOrIs
<1>7. DOMAIN r = Fields /\ IsAnswer(w, r)
  BY <1>6, ResultIsAnswer DEF IsResult, Spells
<1> HIDE DEF r
<1>8. Agree(q, r) /\ q.non_stub = r.non_stub
  BY <1>7, FieldsAre DEF Agree
<1> HIDE DEF q
<1>9. IsAnswer(w, q)
  BY <1>7, <1>8, AgreeSpells DEF IsAnswer
<1> QED  BY <1>1, <1>9

(* What is found there is found in one of the parents.                     *)
LEMMA InParentsIsFromParents ==
    ASSUME NEW w \in Worlds, WorldsAssumption, w.descriptor.name_parts # <<>>,
           ResolveInParents(w).is_import_found
    PROVE  ResolveInParents(w).search_path \in ToSet(ParentsUpToRoot(w))
<1> DEFINE parents == ParentsUpToRoot(w)
           allow == Allow(FALSE, FALSE, TRUE, FALSE)
           results == ResolveInEach(w, parents, allow)
           found == FirstFound(results)
           r == FoundOr(found, not_found)
           q == [r EXCEPT !.implicit_imports = filter(@, w.descriptor.imported_symbols)]
<1>1. ResolveInParents(w) = q
  BY DEF ResolveInParents
<1>2. parents \in Seq(Dir)
  BY ParentsAreDirs
<1>3. results = ResolveInEach(w, parents, allow) /\ IsAllow(allow)
  BY DEF IsAllow, Allow
<1>4. allow.stub_package = FALSE
  BY DEF Allow
<1>5. found = FirstFound(results)
  OBVIOUS
<1> HIDE DEF parents, allow, results, found
<1>6. /\ IsResults(w, results) /\ Len(results) = Len(parents)
      /\ \A i \in 1..Len(parents) : results[i] = resolve_absolute_import(w, parents[i], allow)
  BY <1>2, <1>3, InEachIs
<1>7. IsResults(w, found)
  BY <1>5, <1>6, FirstFoundIs
<1>8. IsResult(w, r)
  BY <1>7, FoundOrIs
<1>9. DOMAIN r = Fields
  BY <1>8 DEF IsResult, Spells
<1>10. r.is_import_found /\ q.search_path = r.search_path
  <2> HIDE DEF r
  <2>1. q.is_import_found = r.is_import_found /\ q.search_path = r.search_path
    BY <1>9, FieldsAre
  <2> QED  BY <1>1, <2>1
<1>11. r = found[1] /\ 1 \in 1..Len(found)
  <2>1. ~not_found.is_import_found
    BY DEF not_found
  <2>2. found # <<>>
    BY <1>10, <2>1 DEF FoundOr
  <2>3. found = [i \in 1..Len(found) |-> found[i]] /\ Len(found) \in Nat
    BY <1>7, Zenon DEF IsResults
  <2>4. found \in Seq({found[i] : i \in 1..Len(found)})
    BY <2>3
  <2>5. Len(found) # 0
    BY <2>2, <2>4, EmptySeq
  <2> QED  BY <2>2, <2>3, <2>4, <2>5 DEF FoundOr
<1>12. PICK i \in 1..Len(results) : found[1] = results[i]
  BY <1>5, <1>6, <1>11, FoundAreFound
<1> HIDE DEF r, q
<1>13. r = resolve_absolute_import(w, parents[i], allow) /\ i \in 1..Len(parents)
  BY <1>6, <1>11, <1>12
<1>14. parents[i] \in Dir
  BY <1>2, <1>13, ElementOfSeq
<1>15. r.search_path = parents[i]
  BY <1>3, <1>4, <1>13, <1>14, WithoutStubPackages
<1>16. parents[i] \in ToSet(parents)
  BY <1>2, <1>13 DEF ToSet
<1> QED  BY <1>1, <1>10, <1>15, <1>16 DEF parents

LEMMA AnswerIs ==
    ASSUME NEW w \in Worlds, WorldsAssumption
    PROVE  IsAnswer(w, resolve_import(w))
<1>1. IsAnswer(w, resolve_import_strict(w))
  <2>1. CASE w.descriptor.leading_dots > 0
    BY <2>1, RelativeIs DEF resolve_import_strict
  <2>2. CASE ~(w.descriptor.leading_dots > 0)
    <3> DEFINE first == resolve_best_absolute_import(w, TRUE)
               second == resolve_best_absolute_import(w, FALSE)
    <3>1. resolve_import_strict(w) = WithNonStub(FoundOr(first, not_found), second)
      BY <2>2 DEF resolve_import_strict
    <3>2. IsResults(w, first) /\ IsResults(w, second)
      BY BestAbsoluteIs
    <3> HIDE DEF first, second
    <3>3. IsResult(w, FoundOr(first, not_found))
      BY <3>2, FoundOrIs
    <3> QED  BY <3>1, <3>2, <3>3, WithNonStubIs
  <2> QED  BY <2>1, <2>2
<1> QED  BY <1>1, InParentsIs DEF resolve_import, OrInParents

-----------------------------------------------------------------------------
(* A directory with a traditional module or package.                       *)

(* Nothing but a file makes a path traditional.                            *)
LEMMA FileIsTraditional ==
    ASSUME NEW w, NEW allow, allow.pyi, NEW dir, NEW name, NEW f \in BothFiles(dir, name), IsFile(w, f),
           NEW r, r.resolved_paths = <<>> \o StubOrSource(w, allow, dir, name)
    PROVE  StubOrSource(w, allow, dir, name) # <<>> /\ IsTraditional(r)
<1> DEFINE file == StubOrSource(w, allow, dir, name)
<1>1. file # <<>>
  BY DEF StubOrSource, BothFiles
<1>2. PICK e \in {"py", "pyi"} : file = <<File(dir, name, <<e>>)>>
  BY <1>1, StubOrSourceIs
<1> DEFINE p == File(dir, name, <<e>>)
<1>3. p # EmptyPath
  <2>1. p.ext = <<e>> /\ EmptyPath.ext = <<>> /\ <<e>> # <<>>
    BY DEF File, EmptyPath
  <2> HIDE DEF p
  <2> QED  BY <2>1
<1>4. r.resolved_paths = <<>> \o <<p>>
  BY <1>2
<1> HIDE DEF p, file
<1>5. r.resolved_paths = <<p>>
  <2>1. <<p>> \in Seq({p})
    OBVIOUS
  <2> QED  BY <1>4, <2>1, ConcatEmptySeq
<1>6. 1 \in DOMAIN <<p>> /\ <<p>>[1] = p
  OBVIOUS
<1>7. IsTraditional(r)
  BY <1>3, <1>5, <1>6 DEF IsTraditional
<1> QED  BY <1>1, <1>7 DEF file

(* The first part of a walk in such a directory.                           *)
LEMMA FirstPartIsTraditional ==
    ASSUME NEW w \in Worlds, WorldsAssumption, w.descriptor.name_parts # <<>>,
           NEW dir \in Dir, Traditional(w, dir),
           NEW allow, allow.pyi, ~allow.stub_package,
           NEW s, DOMAIN s = {"dir", "goes_on", "result"}, s.dir = dir, s.goes_on = TRUE,
           DOMAIN s.result = Fields, s.result.resolved_paths = <<>>,
           NEW t, t = WalkPart(w, allow, s, 1)
    PROVE  IsTraditional(t.result)
<1> DEFINE parts == w.descriptor.name_parts
           name == parts[1]
           package == Append(dir, name)
           is_last == 1 = Len(parts)
           init == StubOrSource(w, allow, package, "__init__")
           entered == Entered(w, allow, s.result, package, init, TRUE, is_last)
           q == t.result
<1>0. package \in Dir
  <2>1. parts \in Seq(Name)
    BY DEF WorldsAssumption, DescriptorAssumption, Dir
  <2>2. name \in Name
    BY <2>1
  <2> QED  BY <2>2, DirSeqs
<1>1. \/ \E f \in BothFiles(package, "__init__") : IsFile(w, f)
      \/ /\ \E f \in BothFiles(dir, name) : IsFile(w, f)
         /\ is_last \/ ~IsDir(w, package)
  BY DEF Traditional
<1>2. t = IF IsDir(w, package) THEN WalkDirectory(w, allow, s, name, package, init, entered, is_last)
          ELSE [s EXCEPT !.goes_on = FALSE,
                         !.result = ResolveFile(w, dir, name, allow, FALSE, is_last, s.result)]
  BY DEF WalkPart
<1>3. /\ DOMAIN entered = Fields /\ entered.resolved_paths = <<>> \o init
  <2>1. entered = Entered(w, allow, s.result, package, init, TRUE, is_last)
    OBVIOUS
  <2> HIDE DEF entered, init, package
  <2> QED  BY <2>1, FieldsAre DEF Entered
<1> HIDE DEF package, is_last, entered
\* A directory with an __init__ file is a directory of the world.
<1>4. ASSUME NEW f \in BothFiles(package, "__init__"), IsFile(w, f) PROVE IsTraditional(q)
  <2>1. f.dir = package
    BY <1>4 DEF BothFiles, File
  <2>2. IsPrefix(package, package)
    <3>1. Len(package) \in Nat
      BY <1>0 DEF Dir
    <3> QED  BY <3>1 DEF IsPrefix
  <2>3. IsDir(w, package)
    BY <1>4, <2>1, <2>2 DEF IsDir, IsFile
  <2>4. init # <<>>
    BY <1>4, <1>3, FileIsTraditional
  <2> HIDE DEF init
  <2>5. t = WalkDirectory(w, allow, s, name, package, init, entered, is_last)
    BY <1>2, <2>3
  <2>6. q.resolved_paths = entered.resolved_paths
    <3>1. CASE ~is_last
      <4>1. t = [s EXCEPT !.dir = package, !.result = entered]
        BY <2>4, <2>5, <3>1 DEF WalkDirectory, EnterDirectory
      <4> QED  BY <4>1
    <3>2. CASE is_last
      <4> DEFINE made == [entered EXCEPT !.implicit_imports =
                             find_implicit_imports(w, package, BothFiles(package, "__init__"))]
      <4>1. t = [s EXCEPT !.goes_on = FALSE, !.result = made]
        BY <2>4, <2>5, <3>2 DEF WalkDirectory
      <4>2. made.resolved_paths = entered.resolved_paths
        BY <1>3, FieldsAre
      <4> HIDE DEF made
      <4> QED  BY <4>1, <4>2
    <3> QED  BY <3>1, <3>2
  <2>7. q.resolved_paths = <<>> \o StubOrSource(w, allow, package, "__init__")
    BY <1>3, <2>6 DEF init
  <2> QED  BY <1>4, <2>7, FileIsTraditional
\* A file is found in the last look.
<1>5. ASSUME NEW f \in BothFiles(dir, name), IsFile(w, f), NEW found_directory, NEW r,
             DOMAIN r = Fields, r.resolved_paths = <<>>,
             q = ResolveFile(w, dir, name, allow, found_directory, is_last, r)
      PROVE  IsTraditional(q)
  <2> DEFINE file == StubOrSource(w, allow, dir, name)
             kept == [r EXCEPT !.resolved_paths = @ \o file,
                               !.is_stub_file = @ \/ (is_last /\ IsStub(file))]
  <2>1. kept.resolved_paths = r.resolved_paths \o file
    <3> HIDE DEF file
    <3> QED  BY <1>5, FieldsAre
  <2>2. kept.resolved_paths = <<>> \o file
    BY <1>5, <2>1
  <2> HIDE DEF kept
  <2>3. file # <<>> /\ IsTraditional(kept)
    BY <1>5, <2>2, FileIsTraditional
  <2>4. q = kept
    BY <1>5, <2>3 DEF ResolveFile, kept
  <2> QED  BY <2>3, <2>4
<1>6. ASSUME NEW f \in BothFiles(dir, name), IsFile(w, f), is_last \/ ~IsDir(w, package)
      PROVE  IsTraditional(q)
  <2>1. CASE ~IsDir(w, package)
    <3>1. q = ResolveFile(w, dir, name, allow, FALSE, is_last, s.result)
      BY <1>2, <2>1
    <3> QED  BY <1>5, <1>6, <3>1
  <2>2. CASE IsDir(w, package)
    <3>1. is_last
      BY <1>6, <2>2
    <3>2. CASE init = <<>>
      <4>1. t = [s EXCEPT !.goes_on = FALSE,
                          !.result = ResolveFile(w, dir, name, allow, TRUE, TRUE, entered)]
        BY <1>2, <2>2, <3>1, <3>2 DEF WalkDirectory
      <4>2. q = ResolveFile(w, dir, name, allow, TRUE, is_last, entered)
        BY <3>1, <4>1
      <4>3. entered.resolved_paths = <<>>
        BY <1>3, <3>2
      <4> QED  BY <1>3, <1>5, <1>6, <4>2, <4>3
    <3>3. CASE init # <<>>
      <4>1. PICK e \in {"py", "pyi"} : IsFile(w, File(package, "__init__", <<e>>))
        BY <3>3, StubOrSourceIs
      <4>2. File(package, "__init__", <<e>>) \in BothFiles(package, "__init__")
        BY DEF BothFiles
      <4> QED  BY <1>4, <4>1, <4>2
    <3> QED  BY <3>2, <3>3
  <2> QED  BY <2>1, <2>2
<1> QED  BY <1>1, <1>4, <1>6

(* Without a stub package the walk is over before it has begun.            *)
LEMMA NoStubPackage ==
    ASSUME NEW w \in Worlds, WorldsAssumption, w.descriptor.name_parts # <<>>,
           NEW dir \in Dir, ~IsDir(w, Append(dir, StubsOf[w.descriptor.name_parts[1]])),
           NEW allow, allow.stub_package = TRUE, allow.native_lib = FALSE,
           NEW q, q = resolve_module_descriptor(w, dir, allow)
    PROVE  q.package_directory = NoDir
<1> DEFINE first == WalkStart(dir, allow)
<1>1. PICK s1, s : /\ WalkEnds(w, dir, allow, s1, s)
                   /\ q.package_directory = s.result.package_directory
  <2>1. allow.stub_package \in BOOLEAN /\ (allow.stub_package => ~allow.native_lib)
    OBVIOUS
  <2> QED  BY <2>1, DescriptorSpells
<1>2. /\ WalkSpells(w, dir, allow, 0, first) /\ first.goes_on = TRUE /\ first.dir = dir
      /\ first.result.package_directory = NoDir /\ Len(w.descriptor.name_parts) \in Nat \ {0}
  <2>0. allow.stub_package \in BOOLEAN
    OBVIOUS
  <2>1. WalkSpells(w, dir, allow, 0, first)
    BY <2>0, WalkStartSpells
  <2>2. first.goes_on = TRUE
    BY <2>0, WalkStartSpells
  <2>3. first.dir = dir
    BY <2>0, WalkStartSpells
  <2>4. first.result.package_directory = NoDir
    BY DEF WalkStart, not_found
  <2>5. Len(w.descriptor.name_parts) \in Nat \ {0}
    BY <2>0, WalkStartSpells
  <2> QED  BY <2>1, <2>2, <2>3, <2>4, <2>5
<1> HIDE DEF first
<1>3. IsWalk(w, first) /\ 1 \in 1..Len(w.descriptor.name_parts)
  BY <1>2 DEF WalkSpells
<1>4. s1 = WalkPart(w, allow, first, 1) /\ (~s1.goes_on => s = s1)
  BY <1>1 DEF WalkEnds, first
<1>5. PartAdds(w, allow, 1, first, s1)
  BY <1>2, <1>3, <1>4, WalkPartAdds
<1>6. PartName(w, allow, 1) = StubsOf[w.descriptor.name_parts[1]]
  BY DEF PartName
<1>7. ~s1.goes_on /\ s1.result.package_directory = first.result.package_directory
  BY <1>2, <1>5, <1>6 DEF PartAdds
<1> QED  BY <1>1, <1>2, <1>4, <1>7

LEMMA AbsoluteIsTraditional ==
    ASSUME NEW w \in Worlds, WorldsAssumption, w.descriptor.name_parts # <<>>,
           NEW dir \in Dir, Traditional(w, dir), NEW allow \in SearchPathAllows(TRUE),
           NEW q, q = resolve_absolute_import(w, dir, allow)
    PROVE  IsTraditional(q)
<1> DEFINE forStubs == Allow(FALSE, TRUE, TRUE, TRUE)
           noStubs == [allow EXCEPT !.stub_package = FALSE]
           stubs == resolve_module_descriptor(w, dir, forStubs)
           other == resolve_module_descriptor(w, dir, noStubs)
           first == WalkStart(dir, noStubs)
<1>1. /\ forStubs.stub_package = TRUE /\ forStubs.native_lib = FALSE
      /\ noStubs.stub_package = FALSE /\ noStubs.pyi = TRUE
      /\ allow.pyi = TRUE /\ allow.stub_package = TRUE
  BY DEF Allow, SearchPathAllows
<1>2. q = StubsOrElse(stubs, other)
  BY <1>1 DEF resolve_absolute_import
<1> HIDE DEF forStubs, noStubs
<1>3. stubs.package_directory = NoDir
  <2>1. ~IsDir(w, Append(dir, StubsOf[w.descriptor.name_parts[1]]))
    BY DEF Traditional
  <2>2. stubs = resolve_module_descriptor(w, dir, forStubs)
    OBVIOUS
  <2> HIDE DEF stubs
  <2> QED  BY <1>1, <2>1, <2>2, NoStubPackage
<1>4. q = other
  BY <1>2, <1>3 DEF StubsOrElse
<1>5. PICK s1, s : WalkEnds(w, dir, noStubs, s1, s) /\ other.resolved_paths = s.result.resolved_paths
  <2>1. noStubs.stub_package \in BOOLEAN /\ (noStubs.stub_package => ~noStubs.native_lib)
    BY <1>1
  <2>2. other = resolve_module_descriptor(w, dir, noStubs)
    OBVIOUS
  <2> HIDE DEF other
  <2> QED  BY <2>1, <2>2, DescriptorSpells
<1> HIDE DEF other, stubs
<1>6. /\ WalkSpells(w, dir, noStubs, 0, first) /\ first.goes_on = TRUE /\ first.dir = dir
      /\ first.result.resolved_paths = <<>>
  <2>0. noStubs.stub_package \in BOOLEAN
    BY <1>1
  <2>1. WalkSpells(w, dir, noStubs, 0, first)
    BY <2>0, WalkStartSpells
  <2>2. first.goes_on = TRUE
    BY <2>0, WalkStartSpells
  <2>3. first.dir = dir
    BY <2>0, WalkStartSpells
  <2>4. first.result.resolved_paths = <<>>
    BY DEF WalkStart, not_found
  <2> QED  BY <2>1, <2>2, <2>3, <2>4
<1> HIDE DEF first
<1>7. DOMAIN first = {"dir", "goes_on", "result"} /\ DOMAIN first.result = Fields
  BY <1>6 DEF WalkSpells, IsWalk
<1>8. /\ s1 = WalkPart(w, noStubs, first, 1)
      /\ IsTraditional(s1.result) => IsTraditional(s.result)
  BY <1>5 DEF WalkEnds, first
<1>9. IsTraditional(s1.result)
  BY <1>1, <1>6, <1>7, <1>8, FirstPartIsTraditional
<1> QED  BY <1>4, <1>5, <1>8, <1>9 DEF IsTraditional

(* The result of an absolute import where some directory searched has a    *)
(* traditional module or package.                                          *)
LEMMA StrictIsTraditional ==
    ASSUME NEW w \in Worlds, WorldsAssumption, w.descriptor.name_parts # <<>>,
           w.descriptor.leading_dots = 0, w.config.stub_path = NoDir,
           NEW dir \in ToSet(Searched(w)), Traditional(w, dir)
    PROVE  /\ ThroughPackage(resolve_import_strict(w))
           /\ Len(w.descriptor.name_parts) > 1 \/ resolve_import_strict(w).is_import_found
<1> DEFINE pyi == TRUE
           results == SearchPathResults(w, pyi)
           best == BestOf(w, results)
           first == resolve_best_absolute_import(w, pyi)
           second == resolve_best_absolute_import(w, FALSE)
           answers == WithNonStub(FoundOr(first, not_found), second)
<1>0. results = SearchPathResults(w, pyi)
  OBVIOUS
<1> HIDE DEF pyi, results
<1>1. /\ IsResults(w, results) /\ Len(results) \in Nat \ {0} /\ dir \in Dir
      /\ \E i \in 1..Len(results), allow \in SearchPathAllows(pyi) :
           results[i].resolved_paths = resolve_absolute_import(w, dir, allow).resolved_paths
  BY <1>0, SearchPathResultsAre
<1> USE DEF pyi
<1>2. first = AfterSearchPaths(w, best, pyi)
  BY <1>0 DEF resolve_best_absolute_import
<1>3. resolve_import_strict(w) = answers
  <2>1. w.descriptor.leading_dots > 0 <=> FALSE
    OBVIOUS
  <2> QED  BY <2>1 DEF resolve_import_strict
<1>4. IsResults(w, first) /\ IsResults(w, second)
  BY BestAbsoluteIs
<1> HIDE DEF first, second
<1>5. PICK i \in 1..Len(results) : IsTraditional(results[i])
  <2>1. PICK i \in 1..Len(results), allow \in SearchPathAllows(TRUE) :
           results[i].resolved_paths = resolve_absolute_import(w, dir, allow).resolved_paths
    BY <1>1
  <2> DEFINE q == resolve_absolute_import(w, dir, allow)
  <2>2. q = resolve_absolute_import(w, dir, allow)
    OBVIOUS
  <2>3. results[i].resolved_paths = q.resolved_paths
    BY <2>1
  <2> HIDE DEF q
  <2>4. IsTraditional(q)
    BY <1>1, <2>2, AbsoluteIsTraditional
  <2> QED  BY <2>3, <2>4 DEF IsTraditional
<1>6. IsResult(w, best) /\ IsTraditional(best)
  BY <1>1, <1>5, BestOfIsResult, BestOfIsTraditional
<1> HIDE DEF best, pyi
<1>7. AfterSearchPathsIs(w, best, first)
  BY <1>2, <1>6, SearchPathsThenTypeshed
<1>8. /\ Len(first) = 1
      /\ IsStdlib(first[1]) \/ IsTraditional(first[1])
  BY <1>6, <1>7 DEF AfterSearchPathsIs
<1>9. FoundOr(first, not_found) = first[1]
  <2>1. Len(first) = 1
    BY <1>8
  <2>2. Len(<<>>) = 0
    OBVIOUS
  <2>3. first # <<>>
    BY ONLY <2>1, <2>2
  <2> QED  BY <2>3 DEF FoundOr
<1>10. IsResult(w, first[1])
  BY <1>4, <1>8 DEF IsResults
<1>11. /\ answers.resolved_paths = first[1].resolved_paths
       /\ answers.typeshed = first[1].typeshed
       /\ answers.is_import_found = first[1].is_import_found
  BY <1>4, <1>9, <1>10, WithNonStubIs
<1> HIDE DEF answers
<1>12. ThroughPackage(answers)
  BY <1>8, <1>11 DEF ThroughPackage, IsTraditional, IsStdlib
<1>13. Len(w.descriptor.name_parts) > 1 \/ first[1].is_import_found
  <2>1. CASE IsStdlib(first[1])
    BY <2>1 DEF IsStdlib
  <2>2. CASE IsTraditional(first[1])
    <3>1. IsCounted(first[1], Len(w.descriptor.name_parts))
      BY <1>10 DEF IsResult, Spells
    <3>2. Len(w.descriptor.name_parts) \in Nat \ {0}
      BY EmptySeq DEF WorldsAssumption, DescriptorAssumption
    <3>3. Len(first[1].resolved_paths) \in 1..Len(w.descriptor.name_parts)
      BY <2>2, <3>1, <3>2 DEF IsTraditional, IsCounted
    <3>4. \/ Len(w.descriptor.name_parts) > 1
          \/ Len(first[1].resolved_paths) = Len(w.descriptor.name_parts)
      BY <3>2, <3>3
    <3>5. first[1].is_import_found =
             (Len(first[1].resolved_paths) = Len(w.descriptor.name_parts))
      BY <3>1 DEF IsCounted
    <3> QED  BY <3>4, <3>5, Zenon
  <2> QED  BY <1>8, <2>1, <2>2
<1> QED  BY <1>3, <1>11, <1>12, <1>13

-----------------------------------------------------------------------------
(* The theorems.                                                           *)

Answered ==
    /\ world \in Worlds
    /\ \A k \in DOMAIN answer : answer[k] = resolve_import(world)

LEMMA AlwaysAnswered == Spec => []Answered
<1>1. Init => Answered
  BY DEF Init, Answered
<1>2. Answered /\ [Next]_vars => Answered'
  <2> SUFFICES ASSUME Answered, [Next]_vars PROVE Answered'
    OBVIOUS
  <2>1. CASE Resolve
    <3>1. world' = world /\ answer' = <<resolve_import(world)>>
      BY <2>1 DEF Resolve
    <3> QED  BY <3>1 DEF Answered
  <2>2. CASE UNCHANGED vars
    BY <2>2 DEF Answered, vars
  <2> QED  BY <2>1, <2>2 DEF Next
<1> QED  BY <1>1, <1>2, PTL DEF Spec

(* Every path of a result that is found, with or without stubs, is a file  *)
(* of the world that spells the module up to its part, an empty one a      *)
(* directory that does, and the result is a stub exactly when its last     *)
(* file is (resolver.rs, resolve_module_descriptor).                       *)
THEOREM PathsAlwaysSpellModule == Spec => []PathsSpellModule
<1>1. Answered => PathsSpellModule
  <2> SUFFICES ASSUME Answered, NEW k \in DOMAIN answer,
                      NEW r \in {answer[k]} \cup ToSet(answer[k].non_stub), r.is_import_found
               PROVE  /\ \A i \in DOMAIN world.descriptor.name_parts : PathSpells(world, r, i)
                      /\ r.is_stub_file <=> EndsInStub(r)
    BY Zenon DEF PathsSpellModule
  <2>1. world \in Worlds /\ answer[k] = resolve_import(world)
    BY DEF Answered
  <2>2. IsAnswer(world, answer[k])
    BY <2>1, WorldsAssumption, AnswerIs
  <2>3. Spells(world, r)
    BY <2>2 DEF IsAnswer
  <2> QED  BY <2>3 DEF Spells
<1> QED  BY <1>1, AlwaysAnswered, PTL

(* When the first part of an import is a module or a package with an       *)
(* __init__ file in some directory searched, the search never ends in a    *)
(* namespace package, wherever the directory stands in the search order    *)
(* (resolver.rs, pick_best_import), and the answer goes through one only   *)
(* where the search found not all of several parts and a parent directory  *)
(* of the importing file has them (resolve_import).                        *)
THEOREM TraditionalAlwaysShadowsNamespace == Spec => []TraditionalShadowsNamespace
<1>1. Answered => TraditionalShadowsNamespace
  <2> SUFFICES ASSUME Answered, NEW k \in DOMAIN answer, world.descriptor.leading_dots = 0,
                      world.descriptor.name_parts # <<>>, world.config.stub_path = NoDir,
                      NEW dir \in ToSet(Searched(world)), Traditional(world, dir)
               PROVE  /\ ThroughPackage(resolve_import_strict(world))
                      /\ answer[k].is_import_found =>
                            ThroughPackage(answer[k]) \/ FromParents(world, answer[k])
    BY DEF TraditionalShadowsNamespace
  <2> DEFINE strict == resolve_import_strict(world)
  <2>1. world \in Worlds /\ answer[k] = OrInParents(world, strict)
    BY DEF Answered, resolve_import
  <2>2. ThroughPackage(strict) /\ (Len(world.descriptor.name_parts) > 1 \/ strict.is_import_found)
    BY <2>1, WorldsAssumption, StrictIsTraditional
  <2> HIDE DEF strict
  <2>3. CASE strict.is_import_found
    BY <2>1, <2>2, <2>3 DEF OrInParents, strict
  <2>4. CASE ~strict.is_import_found
    <3>1. answer[k] = ResolveInParents(world)
      <4>1. ~(world.descriptor.leading_dots > 0)
        OBVIOUS
      <4> QED  BY <2>1, <2>4, <4>1 DEF OrInParents
    <3>2. ResolveInParents(world).is_import_found =>
             ResolveInParents(world).search_path \in ToSet(ParentsUpToRoot(world))
      BY <2>1, WorldsAssumption, InParentsIsFromParents
    <3> QED  BY <2>2, <2>4, <3>1, <3>2 DEF FromParents, strict
  <2> QED  BY <2>3, <2>4
<1> QED  BY <1>1, AlwaysAnswered, PTL

(* The chain of comparisons leaves the best result standing: none of the   *)
(* others is better, among the equally good a stub is chosen unless a      *)
(* typed package came first, and otherwise the first in the search order   *)
(* (resolver.rs, resolve_best_absolute_import and pick_best_import).       *)
THEOREM ChosenIsAlwaysBest == Spec => []ChosenIsBest
<1>1. Answered => ChosenIsBest
  <2> SUFFICES ASSUME Answered, world.descriptor.name_parts # <<>>,
                      world.descriptor.imported_symbols = {}
               PROVE  IsBestOf(BestOf(world, SearchPathResults(world, TRUE)),
                               SearchPathResults(world, TRUE))
    BY DEF ChosenIsBest
  <2> DEFINE n == Len(world.descriptor.name_parts)
             results == SearchPathResults(world, TRUE)
             chosen == BestOf(world, results)
  <2>0. world \in Worlds
    BY DEF Answered
  <2>1. n \in Nat \ {0}
    BY <2>0, WorldsAssumption, EmptySeq DEF WorldsAssumption, DescriptorAssumption, Dir
  <2>2. IsResults(world, results) /\ Len(results) \in Nat \ {0}
    BY <2>0, WorldsAssumption, SearchPathResultsAre
  <2> HIDE DEF results
  <2>3. \A i \in 1..Len(results) : IsCounted(results[i], n)
    BY <2>2 DEF IsResults, IsResult, Spells
  <2> HIDE DEF n, chosen
  <2>4. BestOfFirst(chosen, results, Len(results), {})
    BY <2>1, <2>2, <2>3, BestOfIsBest DEF chosen
  <2>5. DOMAIN results = 1..Len(results)
    BY <2>2 DEF IsResults
  <2>6. IsBestOf(chosen, results)
    BY <2>4, <2>5 DEF IsBestOf, NoneBetter, FirstOfEquals, BestOfFirst
  <2> QED  BY <2>6 DEF chosen, results
<1> QED  BY <1>1, AlwaysAnswered, PTL

=============================================================================
