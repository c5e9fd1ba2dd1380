----------------------------- MODULE EditProofs -----------------------------
(***************************************************************************)
(* The server's copy of a document is the client's text, for texts of any  *)
(* length over any characters, notifications of any number of changes, and *)
(* every encoding, unless a change was read with a stale index; the        *)
(* replacement between any two texts is right; and the index, the line     *)
(* iterator and the locator divide any text into the same lines.  First    *)
(* what the operators of LineIndex and Convert compute, for every text.    *)
(***************************************************************************)
EXTENDS Document, Replacement, FiniteSetTheorems, SequenceTheorems,
        WellFoundedInduction, TLAPS

Chars == DOMAIN LenUtf8

(* A nonempty set of numbers has a least one.                              *)
LEMMA Least ==
    ASSUME NEW T \in SUBSET Nat, T # {}
    PROVE  \E n \in T : \A m \in T : n <= m
<1> DEFINE R == OpToRel(<, Nat)
<1>1. IsWellFoundedOn(R, Nat)
  BY NatLessThanWellFounded
<1>2. \A x, y \in Nat : x < y => <<x, y>> \in R
  BY DEF OpToRel
<1> HIDE DEF R
<1>3. PICK x \in T : \A y \in T : ~ (<<y, x>> \in R)
  BY <1>1, WFMin
<1>4. ASSUME NEW y \in T PROVE x <= y
  <2>1. x \in Nat /\ y \in Nat
    OBVIOUS
  <2>2. ~ (y < x)
    BY <1>2, <1>3, <2>1
  <2> QED  BY <2>1, <2>2
<1> QED  BY <1>4

(* Induction up to a bound, over a set of numbers.                         *)
LEMMA UpTo ==
    ASSUME NEW N \in Nat, NEW S, 0 \in S,
           \A n \in 0..N - 1 : n \in S => n + 1 \in S
    PROVE  \A n \in 0..N : n \in S
<1> DEFINE T == {n \in 0..N : n \notin S}
<1> SUFFICES ASSUME T # {} PROVE FALSE
  OBVIOUS
<1>0. T \in SUBSET Nat
  OBVIOUS
<1>1. PICK n \in T : \A m \in T : n <= m
  <2> HIDE DEF T
  <2> QED  BY <1>0, Least
<1>2. n \in 0..N /\ n \notin S /\ n # 0
  OBVIOUS
<1>3. n - 1 \in 0..N - 1 /\ n - 1 \notin T
  BY <1>1, <1>2
<1>4. n - 1 \in S
  BY <1>3
<1>5. (n - 1) + 1 \in S
  BY <1>3, <1>4
<1> QED  BY <1>2, <1>5

(* A nonempty set of numbers up to a bound has a greatest one.             *)
LEMMA Greatest ==
    ASSUME NEW N \in Nat, NEW T \in SUBSET (0..N), T # {}
    PROVE  \E n \in T : \A m \in T : m <= n
<1> DEFINE U == {k \in 0..N : N - k \in T}
<1>1. PICK t \in T : TRUE
  OBVIOUS
<1>2. U \in SUBSET Nat /\ N - t \in U
  <2>1. t \in 0..N /\ N - t \in 0..N /\ N - (N - t) = t
    OBVIOUS
  <2> QED  BY <2>1
<1>3. PICK k \in U : \A l \in U : k <= l
  <2> HIDE DEF U
  <2> QED  BY <1>2, Least
<1>4. ASSUME NEW m \in T PROVE m <= N - k
  <2>1. m \in 0..N /\ N - m \in 0..N /\ N - (N - m) = m
    OBVIOUS
  <2>2. N - m \in U
    BY <2>1
  <2>3. k <= N - m /\ k \in 0..N
    BY <1>3, <2>2
  <2> QED  BY <2>1, <2>3
<1> QED  BY <1>4

LEMMA CharLengths ==
    /\ Chars = {"a", "e", "x", "bom", "nl", "cr"}
    /\ LenUtf8 \in [Chars -> 1..4]
    /\ LenUtf16 \in [Chars -> 1..2]
    /\ \A c \in Chars : LenUtf16[c] <= LenUtf8[c]
    /\ \A c \in Chars : IsAscii(c) => LenUtf16[c] = 1
  BY DEF Chars, LenUtf8, LenUtf16, IsAscii
-----------------------------------------------------------------------------
(* The sizes of the prefixes of a text.                                    *)
LEMMA SizeFunction ==
    ASSUME NEW N \in Nat, NEW d, \A k \in 1..N : d[k] \in Nat
    PROVE  \E f \in [0..N -> Nat] :
             f[0] = 0 /\ \A k \in 1..N : f[k] = f[k - 1] + d[k]
<1> DEFINE Good(f, n) == /\ f \in [0..n -> Nat] /\ f[0] = 0
                         /\ \A k \in 1..n : f[k] = f[k - 1] + d[k]
           S == {n \in 0..N : \E f : Good(f, n)}
<1>1. 0 \in S
  <2>1. Good([k \in 0..0 |-> 0], 0)
    OBVIOUS
  <2> HIDE DEF Good
  <2> QED  BY <2>1
<1>2. ASSUME NEW n \in 0..N - 1, n \in S PROVE n + 1 \in S
  <2>1. PICK f : Good(f, n)
    BY <1>2
  <2> DEFINE g == [k \in 0..n + 1 |-> IF k = n + 1 THEN f[n] + d[n + 1] ELSE f[k]]
  <2>2. n + 1 \in 1..N /\ d[n + 1] \in Nat /\ f[n] \in Nat
    BY <2>1
  <2>3. g \in [0..n + 1 -> Nat] /\ g[0] = 0
    BY <2>1, <2>2
  <2>4. ASSUME NEW k \in 1..n + 1 PROVE g[k] = g[k - 1] + d[k]
    <3>1. CASE k = n + 1
      BY <3>1
    <3>2. CASE k # n + 1
      <4>1. k \in 1..n /\ k - 1 \in 0..n
        BY <3>2
      <4>2. g[k] = f[k] /\ g[k - 1] = f[k - 1]
        BY <4>1
      <4> QED  BY <2>1, <4>1, <4>2
    <3> QED  BY <3>1, <3>2
  <2>5. Good(g, n + 1)
    BY <2>3, <2>4
  <2> HIDE DEF Good, g
  <2>6. n + 1 \in 0..N /\ \E e : Good(e, n + 1)
    BY <2>2, <2>5
  <2> QED  BY <2>6
<1> HIDE DEF S
<1>3. \A n \in 0..N - 1 : n \in S => n + 1 \in S
  BY <1>2
<1>4. \A n \in 0..N : n \in S
  <2> HIDE DEF Good
  <2> QED  BY <1>1, <1>3, UpTo
<1>5. N \in S
  <2>1. N \in 0..N
    OBVIOUS
  <2> QED  BY <1>4, <2>1
<1> QED  BY <1>5 DEF S

LEMMA SizeUnfolds ==
    ASSUME NEW len \in [Chars -> Nat], NEW t \in Seq(Chars)
    PROVE  /\ Size(len, t, 0) = 0
           /\ \A n \in 0..Len(t) : Size(len, t, n) \in Nat
           /\ \A n \in 1..Len(t) : Size(len, t, n) = Size(len, t, n - 1) + len[t[n]]
<1> DEFINE d == [k \in 1..Len(t) |-> len[t[k]]]
<1>0. \A k \in 1..Len(t) : d[k] = len[t[k]] /\ d[k] \in Nat
  OBVIOUS
<1>1. PICK f \in [0..Len(t) -> Nat] :
             f[0] = 0 /\ \A k \in 1..Len(t) : f[k] = f[k - 1] + d[k]
  <2>1. Len(t) \in Nat
    OBVIOUS
  <2> HIDE DEF d
  <2> QED  BY <1>0, <2>1, SizeFunction, ZenonT(60)
<1>2. ASSUME NEW n \in 0..Len(t) PROVE Size(len, t, n) = f[n]
  <2> DEFINE Is(g) == g = [k \in 0..n |-> IF k = 0 THEN 0 ELSE g[k - 1] + len[t[k]]]
             h == [k \in 0..n |-> f[k]]
             size == CHOOSE g : Is(g)
  <2>1. Is(h)
    <3>1. \A k \in 0..n : h[k] = IF k = 0 THEN 0 ELSE h[k - 1] + len[t[k]]
      <4> SUFFICES ASSUME NEW k \in 0..n, k # 0 PROVE h[k] = h[k - 1] + len[t[k]]
        BY <1>1
      <4>1. k \in 1..Len(t) /\ k - 1 \in 0..n
        OBVIOUS
      <4> QED  BY <1>0, <1>1, <4>1
    <3> QED  BY <3>1
  <2>2. Is(size)
    BY <2>1
  <2> HIDE DEF size
  <2> DEFINE S == {k \in 0..n : size[k] = f[k]}
  <2>3. 0 \in S
    <3>1. size[0] = 0
      BY <2>2
    <3> QED  BY <1>1, <3>1
  <2>4. ASSUME NEW k \in 0..n - 1, k \in S PROVE k + 1 \in S
    <3>1. k + 1 \in 1..Len(t) /\ k + 1 \in 0..n /\ (k + 1) - 1 = k
      OBVIOUS
    <3>2. size[k + 1] = size[k] + len[t[k + 1]]
      BY <2>2, <3>1
    <3>3. f[k + 1] = f[k] + len[t[k + 1]]
      BY <1>0, <1>1, <3>1
    <3> QED  BY <2>4, <3>1, <3>2, <3>3
  <2>5. n \in S
    <3>1. n \in Nat /\ n \in 0..n
      OBVIOUS
    <3> HIDE DEF S
    <3> QED  BY <2>3, <2>4, <3>1, UpTo
  <2> QED  BY <2>5 DEF Size, size
<1>3. ASSUME NEW n \in 1..Len(t) PROVE Size(len, t, n) = Size(len, t, n - 1) + len[t[n]]
  <2>1. n \in 0..Len(t) /\ n - 1 \in 0..Len(t)
    OBVIOUS
  <2> HIDE DEF d
  <2> QED  BY <1>0, <1>1, <1>2, <2>1
<1> QED  BY <1>1, <1>2, <1>3

(* The part of a sequence between two positions.                           *)
LEMMA Part ==
    ASSUME NEW S, NEW t \in Seq(S), NEW i \in 0..Len(t), NEW j \in i..Len(t)
    PROVE  /\ SubSeq(t, i + 1, j) \in Seq(S)
           /\ Len(SubSeq(t, i + 1, j)) = j - i
           /\ \A k \in 1..j - i : SubSeq(t, i + 1, j)[k] = t[i + k]
<1>1. i + 1 \in Int /\ j \in Int /\ Len(t) \in Nat
  OBVIOUS
<1>2. \A k \in i + 1..j : t[k] \in S
  BY <1>1, ElementOfSeq
<1>3. /\ SubSeq(t, i + 1, j) \in Seq(S)
      /\ Len(SubSeq(t, i + 1, j)) = IF i + 1 <= j THEN j - (i + 1) + 1 ELSE 0
      /\ \A k \in 1..j - (i + 1) + 1 : SubSeq(t, i + 1, j)[k] = t[(i + 1) + k - 1]
  BY <1>1, <1>2, SubSeqProperties
<1>4. \A k \in 1..j - i : k \in 1..j - (i + 1) + 1 /\ (i + 1) + k - 1 = i + k
  OBVIOUS
<1>5. \A k \in 1..j - i : SubSeq(t, i + 1, j)[k] = t[i + k]
  BY <1>3, <1>4
<1>6. Len(SubSeq(t, i + 1, j)) = j - i
  BY <1>3
<1> QED  BY <1>3, <1>5, <1>6

(* The sizes of a part are differences of sizes of the whole.              *)
LEMMA SizeOfPart ==
    ASSUME NEW len \in [Chars -> Nat], NEW t \in Seq(Chars),
           NEW i \in 0..Len(t), NEW j \in i..Len(t), NEW n \in 0..j - i
    PROVE  Size(len, SubSeq(t, i + 1, j), n) = Size(len, t, i + n) - Size(len, t, i)
<1> DEFINE s == SubSeq(t, i + 1, j)
           T == {m \in 0..j - i : Size(len, s, m) = Size(len, t, i + m) - Size(len, t, i)}
<1>1. s \in Seq(Chars) /\ Len(s) = j - i /\ \A k \in 1..j - i : s[k] = t[i + k]
  BY Part
<1> HIDE DEF s
<1>2. /\ Size(len, s, 0) = 0
      /\ \A m \in 0..j - i : Size(len, s, m) \in Nat
      /\ \A m \in 1..j - i : Size(len, s, m) = Size(len, s, m - 1) + len[s[m]]
  BY <1>1, SizeUnfolds
<1>3. /\ \A m \in 0..Len(t) : Size(len, t, m) \in Nat
      /\ \A m \in 1..Len(t) : Size(len, t, m) = Size(len, t, m - 1) + len[t[m]]
  BY SizeUnfolds
<1>4. 0 \in T
  BY <1>2, <1>3
<1>5. ASSUME NEW m \in 0..(j - i) - 1, m \in T PROVE m + 1 \in T
  <2>1. m + 1 \in 1..j - i /\ (m + 1) - 1 = m
    OBVIOUS
  <2>2. i + (m + 1) \in 1..Len(t) /\ (i + (m + 1)) - 1 = i + m /\ i + m \in 0..Len(t)
    OBVIOUS
  <2>3. Size(len, s, m + 1) = Size(len, s, m) + len[s[m + 1]]
    BY <1>2, <2>1
  <2>4. Size(len, t, i + (m + 1)) = Size(len, t, i + m) + len[t[i + (m + 1)]]
    BY <1>3, <2>2
  <2>5. s[m + 1] = t[i + (m + 1)] /\ t[i + (m + 1)] \in Chars
    BY <1>1, <2>1, <2>2, ElementOfSeq
  <2>6. Size(len, s, m) = Size(len, t, i + m) - Size(len, t, i)
    BY <1>5
  <2>7. /\ len[t[i + (m + 1)]] \in Nat /\ Size(len, t, i + m) \in Nat
        /\ Size(len, t, i) \in Nat
    BY <1>3, <2>2, <2>5
  <2> QED  BY <2>1, <2>3, <2>4, <2>5, <2>6, <2>7, SMTT(30)
<1>6. n \in T
  <2>1. j - i \in Nat
    OBVIOUS
  <2> HIDE DEF T
  <2> QED  BY <1>4, <1>5, <2>1, UpTo
<1> QED  BY <1>6 DEF s

(* Every character counts, so longer prefixes are larger.                  *)
LEMMA SizeIncreases ==
    ASSUME NEW len \in [Chars -> Nat \ {0}], NEW t \in Seq(Chars),
           NEW i \in 0..Len(t), NEW j \in i..Len(t)
    PROVE  /\ Size(len, t, i) <= Size(len, t, j)
           /\ i < j => Size(len, t, i) < Size(len, t, j)
<1> DEFINE T == {m \in 0..Len(t) - i : Size(len, t, i) + m <= Size(len, t, i + m)}
<1>1. /\ \A m \in 0..Len(t) : Size(len, t, m) \in Nat
      /\ \A m \in 1..Len(t) : Size(len, t, m) = Size(len, t, m - 1) + len[t[m]]
  <2>1. len \in [Chars -> Nat]
    OBVIOUS
  <2> QED  BY <2>1, SizeUnfolds
<1>2. 0 \in T
  BY <1>1
<1>3. ASSUME NEW m \in 0..(Len(t) - i) - 1, m \in T PROVE m + 1 \in T
  <2>1. i + (m + 1) \in 1..Len(t) /\ (i + (m + 1)) - 1 = i + m /\ i + m \in 0..Len(t)
    OBVIOUS
  <2>2. Size(len, t, i + (m + 1)) = Size(len, t, i + m) + len[t[i + (m + 1)]]
    BY <1>1, <2>1
  <2>3. t[i + (m + 1)] \in Chars
    BY <2>1, ElementOfSeq
  <2>4. len[t[i + (m + 1)]] \in Nat /\ len[t[i + (m + 1)]] >= 1
    BY <2>3
  <2>5. Size(len, t, i) + m <= Size(len, t, i + m)
    BY <1>3
  <2>6. Size(len, t, i) \in Nat /\ Size(len, t, i + m) \in Nat
    BY <1>1, <2>1
  <2> QED  BY <2>2, <2>4, <2>5, <2>6, SMTT(30)
<1>4. j - i \in T
  <2>1. Len(t) - i \in Nat /\ j - i \in 0..Len(t) - i
    OBVIOUS
  <2> HIDE DEF T
  <2> QED  BY <1>2, <1>3, <2>1, UpTo
<1>5. Size(len, t, i) + (j - i) <= Size(len, t, j)
  BY <1>4
<1> QED  BY <1>1, <1>5, SMTT(30)

(* The bytes of the prefixes of a text.                                    *)
LEMMA BytesFacts ==
    ASSUME NEW t \in Seq(Chars)
    PROVE  /\ Bytes(t, 0) = 0
           /\ \A n \in 0..Len(t) : Bytes(t, n) \in Nat
           /\ \A i, j \in 0..Len(t) : i <= j <=> Bytes(t, i) <= Bytes(t, j)
           /\ \A i, j \in 0..Len(t) : i = j <=> Bytes(t, i) = Bytes(t, j)
           /\ TextLen(t) = Bytes(t, Len(t))
<1>1. LenUtf8 \in [Chars -> Nat] /\ LenUtf8 \in [Chars -> Nat \ {0}]
  <2>1. 1..4 \subseteq Nat \ {0}
    OBVIOUS
  <2> QED  BY <2>1, CharLengths
<1>2. Bytes(t, 0) = 0 /\ \A n \in 0..Len(t) : Bytes(t, n) \in Nat
  BY <1>1, SizeUnfolds DEF Bytes
<1>3. \A i, j \in 0..Len(t) : i <= j => Bytes(t, i) <= Bytes(t, j)
  <2> SUFFICES ASSUME NEW i \in 0..Len(t), NEW j \in 0..Len(t), i <= j
               PROVE  Bytes(t, i) <= Bytes(t, j)
    OBVIOUS
  <2>1. j \in i..Len(t)
    OBVIOUS
  <2> QED  BY <1>1, <2>1, SizeIncreases DEF Bytes
<1>4. \A i, j \in 0..Len(t) : i < j => Bytes(t, i) < Bytes(t, j)
  <2> SUFFICES ASSUME NEW i \in 0..Len(t), NEW j \in 0..Len(t), i < j
               PROVE  Bytes(t, i) < Bytes(t, j)
    OBVIOUS
  <2>1. j \in i..Len(t)
    OBVIOUS
  <2> QED  BY <1>1, <2>1, SizeIncreases DEF Bytes
<1>5. ASSUME NEW i \in 0..Len(t), NEW j \in 0..Len(t)
      PROVE  /\ Bytes(t, i) <= Bytes(t, j) => i <= j
             /\ i = j <=> Bytes(t, i) = Bytes(t, j)
  <2>1. Bytes(t, i) \in Nat /\ Bytes(t, j) \in Nat /\ i \in Nat /\ j \in Nat
    BY <1>2
  <2>2. (j < i => Bytes(t, j) < Bytes(t, i)) /\ (i < j => Bytes(t, i) < Bytes(t, j))
    BY <1>4
  <2> QED  BY <2>1, <2>2
<1> QED  BY <1>2, <1>3, <1>5 DEF TextLen

(* Offsets of characters are boundaries, and slices between them are parts.*)
LEMMA Slices ==
    ASSUME NEW t \in Seq(Chars), NEW i \in 0..Len(t), NEW j \in 0..Len(t)
    PROVE  /\ IsBoundary(t, Bytes(t, i))
           /\ CharsBefore(t, Bytes(t, i)) = i
           /\ Slice(t, Bytes(t, i), Bytes(t, j)) = SubSeq(t, i + 1, j)
<1>1. \A k, l \in 0..Len(t) : k = l <=> Bytes(t, k) = Bytes(t, l)
  BY BytesFacts
<1>2. ASSUME NEW k \in 0..Len(t) PROVE CharsBefore(t, Bytes(t, k)) = k
  BY <1>1 DEF CharsBefore
<1> QED  BY <1>2 DEF IsBoundary, Slice
-----------------------------------------------------------------------------
(* Lines: the row of a character is the number of breaks up to it.         *)
Rows(t, n) == Cardinality(BreaksUpTo(t, n))

(* `b` begins the row that the first `n` characters end in.                *)
Begins(t, b, n) ==
    /\ b \in {0} \cup Breaks(t)
    /\ b <= n
    /\ \A k \in Breaks(t) : k <= n => k <= b

LEMMA RowsFacts ==
    ASSUME NEW t \in Seq(Chars)
    PROVE  /\ Breaks(t) \in SUBSET (1..Len(t)) /\ IsFiniteSet(Breaks(t))
           /\ Rows(t, 0) = 0 /\ Rows(t, Len(t)) = Cardinality(Breaks(t))
           /\ \A n \in 0..Len(t) : Rows(t, n) \in Nat
           /\ \A i \in 0..Len(t) : \A j \in i..Len(t) :
                /\ Rows(t, i) <= Rows(t, j)
                /\ Rows(t, i) = Rows(t, j) <=> ~ \E b \in Breaks(t) : i < b /\ b <= j
<1>0. Len(t) \in Nat
  OBVIOUS
<1>1. Breaks(t) \in SUBSET (1..Len(t))
  BY DEF Breaks
<1>2. IsFiniteSet(Breaks(t))
  <2>1. IsFiniteSet(1..Len(t))
    BY <1>0, FS_Interval
  <2> QED  BY <1>1, <2>1, FS_Subset
<1>3. \A n : IsFiniteSet(BreaksUpTo(t, n)) /\ Rows(t, n) \in Nat
  <2> TAKE n
  <2>1. BreaksUpTo(t, n) \in SUBSET Breaks(t)
    BY DEF BreaksUpTo
  <2>2. IsFiniteSet(BreaksUpTo(t, n))
    BY <1>2, <2>1, FS_Subset
  <2> QED  BY <2>2, FS_CardinalityType DEF Rows
<1>4. Rows(t, 0) = 0
  <2>1. BreaksUpTo(t, 0) = {}
    BY <1>1 DEF BreaksUpTo
  <2> QED  BY <2>1, FS_EmptySet DEF Rows
<1>5. Rows(t, Len(t)) = Cardinality(Breaks(t))
  <2>1. BreaksUpTo(t, Len(t)) = Breaks(t)
    BY <1>0, <1>1 DEF BreaksUpTo
  <2> QED  BY <2>1 DEF Rows
<1>6. ASSUME NEW i \in 0..Len(t), NEW j \in i..Len(t)
      PROVE  /\ Rows(t, i) <= Rows(t, j)
             /\ Rows(t, i) = Rows(t, j) <=> ~ \E b \in Breaks(t) : i < b /\ b <= j
  <2>1. BreaksUpTo(t, i) \in SUBSET BreaksUpTo(t, j)
    BY <1>1 DEF BreaksUpTo
  <2>2. /\ Rows(t, i) <= Rows(t, j)
        /\ Rows(t, j) = Rows(t, i) => BreaksUpTo(t, j) = BreaksUpTo(t, i)
    BY <1>3, <2>1, FS_Subset DEF Rows
  <2>3. BreaksUpTo(t, j) = BreaksUpTo(t, i) <=> ~ \E b \in Breaks(t) : i < b /\ b <= j
    BY <1>0, <1>1 DEF BreaksUpTo
  <2>4. BreaksUpTo(t, j) = BreaksUpTo(t, i) => Rows(t, i) = Rows(t, j)
    BY DEF Rows
  <2> QED  BY <2>2, <2>3, <2>4
<1> QED  BY <1>1, <1>2, <1>3, <1>4, <1>5, <1>6

(* Every character is in a row, which begins at most once.                 *)
LEMMA RowBegins ==
    ASSUME NEW t \in Seq(Chars), NEW n \in 0..Len(t)
    PROVE  \E b \in 0..n : Begins(t, b, n)
<1> DEFINE T == {b \in 0..n : (n - b) \in {0} \cup Breaks(t) \/ n - b = 0}
<1>1. Breaks(t) \in SUBSET (1..Len(t)) /\ n \in Nat
  BY RowsFacts
<1>2. T \in SUBSET Nat /\ n \in T
  OBVIOUS
<1>3. PICK d \in T : \A e \in T : d <= e
  <2> HIDE DEF T
  <2> QED  BY <1>2, Least
<1>4. n - d \in 0..n /\ n - d \in {0} \cup Breaks(t) /\ n - d <= n
  BY <1>1
<1>5. ASSUME NEW k \in Breaks(t), k <= n PROVE k <= n - d
  <2>1. k \in 0..n /\ n - k \in 0..n /\ n - (n - k) = k
    BY <1>1, <1>5
  <2>2. n - k \in T
    BY <2>1
  <2>3. d <= n - k
    BY <1>3, <2>2
  <2> QED  BY <1>1, <2>1, <2>3
<1>6. Begins(t, n - d, n)
  BY <1>4, <1>5 DEF Begins
<1> QED  BY <1>4, <1>6

(* The row that a character is in begins after the last break before it.   *)
LEMMA LastBreak ==
    ASSUME NEW t \in Seq(Chars), NEW n \in 0..Len(t), NEW b \in 0..n, Begins(t, b, n)
    PROVE  LET breaks == {k \in 1..n : EndsLine(t, k)}
           IN  /\ breaks = BreaksUpTo(t, n)
               /\ (IF breaks = {} THEN 0 ELSE CHOOSE k \in breaks : \A l \in breaks : l <= k) = b
<1> DEFINE breaks == {k \in 1..n : EndsLine(t, k)}
           last == IF breaks = {} THEN 0 ELSE CHOOSE k \in breaks : \A l \in breaks : l <= k
<1>1. breaks = BreaksUpTo(t, n)
  <2>1. Len(t) \in Nat
    OBVIOUS
  <2>2. ASSUME NEW k PROVE k \in 1..n <=> k \in 1..Len(t) /\ k <= n
    BY <2>1
  <2> QED  BY <2>2 DEF BreaksUpTo, Breaks
<1>2. last = b
  <2>1. b \in {0} \cup breaks
    BY <1>1 DEF Begins, BreaksUpTo
  <2>2. \A k \in breaks : k <= b /\ k \in Nat /\ k # 0
    BY <1>1 DEF Begins, BreaksUpTo
  <2>3. CASE b = 0
    <3>1. breaks = {}
      BY <2>2, <2>3
    <3> QED  BY <2>3, <3>1
  <2>4. CASE b # 0
    <3>1. b \in breaks
      BY <2>1, <2>4
    <3>2. \A k \in breaks : (\A l \in breaks : l <= k) => k = b
      BY <2>2, <3>1
    <3>3. \A l \in breaks : l <= b
      BY <2>2
    <3> HIDE DEF breaks
    <3> QED  BY <3>1, <3>2, <3>3
  <2> QED  BY <2>3, <2>4
<1> QED  BY <1>1, <1>2

(* RowBegin finds the beginning of the row.                                *)
LEMMA RowBeginIsUnique ==
    ASSUME NEW t \in Seq(Chars), NEW n \in 0..Len(t), NEW b \in 0..n, Begins(t, b, n)
    PROVE  /\ Rows(t, b) = Rows(t, n)
           /\ RowBegin(t, Rows(t, n)) = b
<1>1. Breaks(t) \in SUBSET (1..Len(t)) /\ n \in Nat /\ Len(t) \in Nat
  BY RowsFacts
<1>2. \A i \in 0..Len(t) : \A j \in i..Len(t) :
          Rows(t, i) = Rows(t, j) <=> ~ \E k \in Breaks(t) : i < k /\ k <= j
  BY RowsFacts
<1>3. Rows(t, b) = Rows(t, n)
  <2>1. b \in 0..Len(t) /\ n \in b..Len(t)
    OBVIOUS
  <2>2. ~ \E k \in Breaks(t) : b < k /\ k <= n
    BY <1>1 DEF Begins
  <2> QED  BY <1>2, <2>1, <2>2
<1>4. ASSUME NEW c \in {0} \cup Breaks(t), Rows(t, c) = Rows(t, b) PROVE c = b
  <2>1. c \in 0..Len(t) /\ b \in 0..Len(t) /\ b \in {0} \cup Breaks(t)
    BY <1>1 DEF Begins
  <2>2. CASE b < c
    <3>1. c \in b..Len(t) /\ c \in Breaks(t)
      BY <2>1, <2>2
    <3> QED  BY <1>2, <1>4, <2>1, <2>2, <3>1
  <2>3. CASE c < b
    <3>1. b \in c..Len(t) /\ b \in Breaks(t)
      BY <2>1, <2>3
    <3> QED  BY <1>2, <1>4, <2>1, <2>3, <3>1
  <2> QED  BY <2>1, <2>2, <2>3
<1>5. b \in {0} \cup Breaks(t)
  BY DEF Begins
<1> QED  BY <1>3, <1>4, <1>5 DEF RowBegin, Rows

(* There is a beginning for every row, in the order of the rows.           *)
LEMMA RowBeginFacts ==
    ASSUME NEW t \in Seq(Chars), NEW row \in 0..Cardinality(Breaks(t))
    PROVE  /\ RowBegin(t, row) \in 0..Len(t)
           /\ Rows(t, RowBegin(t, row)) = row
           /\ \A n \in 0..Len(t) : RowBegin(t, row) <= n <=> row <= Rows(t, n)
<1> DEFINE T == {n \in 0..Len(t) : Rows(t, n) >= row}
<1>1. /\ Breaks(t) \in SUBSET (1..Len(t)) /\ Len(t) \in Nat
      /\ Rows(t, 0) = 0 /\ Rows(t, Len(t)) = Cardinality(Breaks(t))
      /\ \A n \in 0..Len(t) : Rows(t, n) \in Nat
  BY RowsFacts
<1>2. \A i \in 0..Len(t) : \A j \in i..Len(t) :
          /\ Rows(t, i) <= Rows(t, j)
          /\ Rows(t, i) = Rows(t, j) <=> ~ \E k \in Breaks(t) : i < k /\ k <= j
  BY RowsFacts
<1>3. T \in SUBSET Nat /\ Len(t) \in T /\ row \in Nat
  BY <1>1
<1>4. PICK n \in T : \A m \in T : n <= m
  <2> HIDE DEF T
  <2> QED  BY <1>3, Least
<1>5. n \in 0..Len(t) /\ Rows(t, n) \in Nat /\ Rows(t, n) >= row
  BY <1>1
<1>6. n \in {0} \cup Breaks(t) /\ Rows(t, n) = row
  <2>1. CASE n = 0
    BY <1>1, <1>3, <1>5, <2>1
  <2>2. CASE n # 0
    <3>1. n - 1 \in 0..Len(t) /\ n \in (n - 1)..Len(t) /\ n - 1 \notin T
      BY <1>4, <1>5, <2>2
    <3>2. Rows(t, n - 1) \in Nat /\ Rows(t, n - 1) < row
      BY <1>1, <1>3, <3>1
    <3>3. Rows(t, n - 1) # Rows(t, n)
      BY <1>3, <1>5, <3>2
    <3>4. PICK k \in Breaks(t) : n - 1 < k /\ k <= n
      BY <1>2, <3>1, <3>3
    <3>5. k = n /\ k \in 1..Len(t)
      BY <1>1, <1>5, <3>4
    <3>6. Rows(t, n) <= Rows(t, n - 1) + 1
      <4>1. BreaksUpTo(t, n) \in SUBSET (BreaksUpTo(t, n - 1) \cup {n})
        BY <1>1, <1>5 DEF BreaksUpTo
      <4>2. BreaksUpTo(t, n - 1) \in SUBSET Breaks(t)
        BY DEF BreaksUpTo
      <4>3. IsFiniteSet(BreaksUpTo(t, n - 1))
        BY <4>2, RowsFacts, FS_Subset
      <4>4. /\ IsFiniteSet(BreaksUpTo(t, n - 1) \cup {n})
            /\ Cardinality(BreaksUpTo(t, n - 1) \cup {n}) <= Rows(t, n - 1) + 1
        <5> DEFINE B == BreaksUpTo(t, n - 1)
        <5>1. Rows(t, n - 1) = Cardinality(B)
          BY DEF Rows
        <5> HIDE DEF B
        <5>2. /\ IsFiniteSet(B \cup {n})
              /\ \/ Cardinality(B \cup {n}) = Cardinality(B)
                 \/ Cardinality(B \cup {n}) = Cardinality(B) + 1
          <6>1. IsFiniteSet(B)
            BY <4>3 DEF B
          <6> QED  BY <6>1, FS_AddElement
        <5>3. /\ IsFiniteSet(B \cup {n})
              /\ Cardinality(B \cup {n}) <= Rows(t, n - 1) + 1
          BY <3>2, <5>1, <5>2
        <5> QED  BY <5>3 DEF B
      <4>5. Rows(t, n) <= Cardinality(BreaksUpTo(t, n - 1) \cup {n})
        BY <4>1, <4>4, FS_Subset DEF Rows
      <4>6. Cardinality(BreaksUpTo(t, n - 1) \cup {n}) \in Nat
        BY <4>4, FS_CardinalityType
      <4> QED  BY <1>5, <3>2, <4>4, <4>5, <4>6
    <3> QED  BY <1>3, <1>5, <3>2, <3>4, <3>5, <3>6
  <2> QED  BY <2>1, <2>2
<1>7. Begins(t, n, n) /\ n \in 0..n
  BY <1>5, <1>6 DEF Begins
<1>8. RowBegin(t, row) = n
  BY <1>5, <1>6, <1>7, RowBeginIsUnique
<1>9. ASSUME NEW m \in 0..Len(t) PROVE n <= m <=> row <= Rows(t, m)
  <2>1. n <= m => m \in n..Len(t)
    BY <1>5
  <2>2. n <= m => row <= Rows(t, m)
    BY <1>2, <1>5, <1>6, <2>1
  <2>3. row <= Rows(t, m) => m \in T
    BY <1>1, <1>3
  <2> QED  BY <1>4, <2>2, <2>3
<1> QED  BY <1>5, <1>6, <1>8, <1>9
-----------------------------------------------------------------------------
(* The line index of a text.                                               *)
LEMMA IndexFacts ==
    ASSUME NEW t \in Seq(Chars)
    PROVE  /\ Cardinality(Breaks(t)) \in Nat
           /\ Len(FromSourceText(t).starts) = Cardinality(Breaks(t)) + 1
           /\ \A row \in 0..Cardinality(Breaks(t)) :
                FromSourceText(t).starts[row + 1] = Bytes(t, RowBegin(t, row))
           /\ \A n \in 0..Len(t) : Rows(t, n) \in 0..Cardinality(Breaks(t))
<1> DEFINE C == Cardinality(Breaks(t))
<1>1. C \in Nat /\ \A n \in 0..Len(t) : Rows(t, n) \in Nat
  BY RowsFacts, FS_CardinalityType
<1>2. FromSourceText(t).starts = [k \in 1..C + 1 |-> Bytes(t, RowBegin(t, k - 1))]
  BY DEF FromSourceText
<1> HIDE DEF C
<1>3. Len(FromSourceText(t).starts) = C + 1
  BY <1>1, <1>2
<1>4. ASSUME NEW row \in 0..C PROVE FromSourceText(t).starts[row + 1] = Bytes(t, RowBegin(t, row))
  <2>1. row + 1 \in 1..C + 1 /\ (row + 1) - 1 = row
    BY <1>1
  <2> QED  BY <1>2, <2>1
<1>5. ASSUME NEW n \in 0..Len(t) PROVE Rows(t, n) \in 0..C
  <2>1. Len(t) \in n..Len(t)
    OBVIOUS
  <2>2. Rows(t, n) <= Rows(t, Len(t)) /\ Rows(t, Len(t)) = C
    BY <2>1, RowsFacts DEF C
  <2> QED  BY <1>1, <2>2
<1> QED  BY <1>1, <1>3, <1>4, <1>5 DEF C

(* row_index: counting the starts up to an offset gives its row.           *)
LEMMA RowOfIsRows ==
    ASSUME NEW t \in Seq(Chars), NEW n \in 0..Len(t)
    PROVE  RowOf(FromSourceText(t), Bytes(t, n)) = Rows(t, n)
<1> DEFINE C == Cardinality(Breaks(t))
           starts == FromSourceText(t).starts
<1>1. /\ C \in Nat /\ Len(starts) = C + 1
      /\ \A row \in 0..C : starts[row + 1] = Bytes(t, RowBegin(t, row))
      /\ Rows(t, n) \in 0..C
  BY IndexFacts
<1>2. ASSUME NEW i \in 1..C + 1 PROVE starts[i] <= Bytes(t, n) <=> i <= Rows(t, n) + 1
  <2>1. i - 1 \in 0..C /\ (i - 1) + 1 = i
    BY <1>1
  <2>2. starts[i] = Bytes(t, RowBegin(t, i - 1))
    BY <1>1, <2>1
  <2>3. RowBegin(t, i - 1) \in 0..Len(t) /\ (RowBegin(t, i - 1) <= n <=> i - 1 <= Rows(t, n))
    BY <2>1, RowBeginFacts
  <2>4. RowBegin(t, i - 1) <= n <=> Bytes(t, RowBegin(t, i - 1)) <= Bytes(t, n)
    BY <2>3, BytesFacts
  <2> QED  BY <1>1, <2>2, <2>3, <2>4
<1> DEFINE R == {i \in 1..Len(starts) : starts[i] <= Bytes(t, n)}
<1>3. R = 1..Rows(t, n) + 1
  <2> HIDE DEF starts, C
  <2>1. ASSUME NEW i PROVE i \in R <=> i \in 1..Rows(t, n) + 1
    BY <1>1, <1>2
  <2> QED  BY <2>1
<1>4. Cardinality(R) = Rows(t, n) + 1
  <2>1. Rows(t, n) + 1 \in Int /\ ~ (1 > Rows(t, n) + 1) /\ Rows(t, n) + 1 - 1 + 1 = Rows(t, n) + 1
    BY <1>1
  <2>2. Cardinality(1..Rows(t, n) + 1) = Rows(t, n) + 1
    BY <2>1, FS_Interval
  <2> QED  BY <1>3, <2>2
<1>5. RowOf(FromSourceText(t), Bytes(t, n)) = Cardinality(R) - 1
  BY DEF RowOf
<1> QED  BY <1>1, <1>4, <1>5

(* line_range of the row of a character is around it.                      *)
LEMMA RowRange ==
    ASSUME NEW t \in Seq(Chars), NEW n \in 0..Len(t), NEW b \in 0..n, Begins(t, b, n)
    PROVE  /\ LineStart(FromSourceText(t), Rows(t, n), t) = Bytes(t, b)
           /\ FromSourceText(t).starts[Rows(t, n) + 1] = Bytes(t, b)
           /\ Rows(t, n) \in Nat /\ Rows(t, n) < Len(FromSourceText(t).starts)
           /\ \E e \in n..Len(t) :
                LineRange(FromSourceText(t), Rows(t, n), t) = <<Bytes(t, b), Bytes(t, e)>>
<1> DEFINE C == Cardinality(Breaks(t))
           ix == FromSourceText(t)
           row == Rows(t, n)
<1>1. /\ C \in Nat /\ Len(ix.starts) = C + 1
      /\ \A r \in 0..C : ix.starts[r + 1] = Bytes(t, RowBegin(t, r))
      /\ row \in 0..C
  BY IndexFacts
<1>2. RowBegin(t, row) = b
  BY RowBeginIsUnique
<1> HIDE DEF C, ix, row
<1>3. ix.starts[row + 1] = Bytes(t, b) /\ row \in Nat /\ row < Len(ix.starts)
  BY <1>1, <1>2
<1>4. LineStart(ix, row, t) = Bytes(t, b)
  BY <1>3 DEF LineStart
<1>5. \E e \in n..Len(t) : LineStart(ix, row + 1, t) = Bytes(t, e)
  <2>1. CASE row = C
    <3>1. LineStart(ix, row + 1, t) = Bytes(t, Len(t))
      BY <1>1, <2>1, BytesFacts DEF LineStart
    <3> QED  BY <3>1
  <2>2. CASE row # C
    <3>1. row + 1 \in 0..C /\ row + 1 # Len(ix.starts)
      BY <1>1, <2>2
    <3>2. LineStart(ix, row + 1, t) = Bytes(t, RowBegin(t, row + 1))
      BY <1>1, <3>1 DEF LineStart
    <3>3. RowBegin(t, row + 1) \in 0..Len(t) /\ ~ (RowBegin(t, row + 1) <= n)
      <4>1. row + 1 \in 0..Cardinality(Breaks(t))
        BY <3>1 DEF C
      <4>2. /\ RowBegin(t, row + 1) \in 0..Len(t)
            /\ RowBegin(t, row + 1) <= n <=> row + 1 <= Rows(t, n)
        BY <4>1, RowBeginFacts
      <4> QED  BY <1>1, <4>2 DEF row
    <3>4. RowBegin(t, row + 1) \in n..Len(t)
      BY <3>3
    <3> QED  BY <3>2, <3>4
  <2> QED  BY <2>1, <2>2
<1>6. LineRange(ix, row, t) = <<LineStart(ix, row, t), LineStart(ix, row + 1, t)>>
  BY <1>1 DEF LineRange
<1> QED  BY <1>3, <1>4, <1>5, <1>6 DEF ix, row

(* In an ASCII text every character has one byte and one UTF-16 unit.      *)
LEMMA AsciiSizes ==
    ASSUME NEW t \in Seq(Chars), FromSourceText(t).ascii, NEW n \in 0..Len(t)
    PROVE  Bytes(t, n) = n /\ Size(LenUtf16, t, n) = n
<1> DEFINE T == {m \in 0..Len(t) : Bytes(t, m) = m /\ Size(LenUtf16, t, m) = m}
<1>1. LenUtf8 \in [Chars -> Nat] /\ LenUtf16 \in [Chars -> Nat]
  <2>1. 1..4 \subseteq Nat /\ 1..2 \subseteq Nat
    OBVIOUS
  <2> QED  BY <2>1, CharLengths
<1>2. /\ Size(LenUtf8, t, 0) = 0
      /\ \A m \in 1..Len(t) : Size(LenUtf8, t, m) = Size(LenUtf8, t, m - 1) + LenUtf8[t[m]]
  BY <1>1, SizeUnfolds
<1>3. /\ Size(LenUtf16, t, 0) = 0
      /\ \A m \in 1..Len(t) : Size(LenUtf16, t, m) = Size(LenUtf16, t, m - 1) + LenUtf16[t[m]]
  BY <1>1, SizeUnfolds
<1>4. ASSUME NEW m \in 1..Len(t) PROVE LenUtf8[t[m]] = 1 /\ LenUtf16[t[m]] = 1
  <2>1. t[m] \in Chars /\ IsAscii(t[m])
    BY ElementOfSeq DEF FromSourceText
  <2> QED  BY <2>1, CharLengths DEF IsAscii
<1>5. 0 \in T
  BY <1>2, <1>3 DEF Bytes
<1>6. ASSUME NEW m \in 0..Len(t) - 1, m \in T PROVE m + 1 \in T
  <2>1. m + 1 \in 1..Len(t) /\ (m + 1) - 1 = m /\ m + 1 \in 0..Len(t)
    OBVIOUS
  <2>2. Size(LenUtf8, t, m) = m /\ Size(LenUtf16, t, m) = m
    BY <1>6 DEF Bytes
  <2>3. Size(LenUtf8, t, m + 1) = m + 1 /\ Size(LenUtf16, t, m + 1) = m + 1
    <3>1. /\ Size(LenUtf8, t, m + 1) = Size(LenUtf8, t, m) + LenUtf8[t[m + 1]]
          /\ Size(LenUtf16, t, m + 1) = Size(LenUtf16, t, m) + LenUtf16[t[m + 1]]
      BY <1>2, <1>3, <2>1
    <3>2. LenUtf8[t[m + 1]] = 1 /\ LenUtf16[t[m + 1]] = 1
      BY <1>4, <2>1
    <3> QED  BY <2>2, <3>1, <3>2
  <2> QED  BY <2>1, <2>3 DEF Bytes
<1>7. n \in T
  <2>1. Len(t) \in Nat
    OBVIOUS
  <2> HIDE DEF T
  <2> QED  BY <1>5, <1>6, <2>1, UpTo
<1> QED  BY <1>7
-----------------------------------------------------------------------------
(* utf8_column_offset inverts the counting of UTF-16 code units.           *)
LEMMA Utf8ColumnOffsetInverts ==
    ASSUME NEW line \in Seq(Chars), NEW m \in 0..Len(line)
    PROVE  Utf8ColumnOffset(Size(LenUtf16, line, m), line) = Bytes(line, m)
<1> DEFINE units == Size(LenUtf16, line, m)
           Is(n) == /\ n = Len(line) \/ Size(LenUtf16, line, n) >= units
                    /\ \A k \in 0..n - 1 : Size(LenUtf16, line, k) < units
           found == CHOOSE n \in 0..Len(line) : Is(n)
<1>1. LenUtf16 \in [Chars -> Nat \ {0}] /\ LenUtf16 \in [Chars -> Nat]
  <2>1. 1..2 \subseteq Nat \ {0}
    OBVIOUS
  <2> QED  BY <2>1, CharLengths
<1>2. \A n \in 0..Len(line) : Size(LenUtf16, line, n) \in Nat
  BY <1>1, SizeUnfolds
<1>3. ASSUME NEW k \in 0..Len(line), NEW n \in 0..Len(line), k < n
      PROVE  Size(LenUtf16, line, k) < Size(LenUtf16, line, n)
  <2>1. n \in k..Len(line)
    BY <1>3
  <2> QED  BY <1>1, <1>3, <2>1, SizeIncreases
<1>4. Is(m)
  <2>1. ASSUME NEW k \in 0..m - 1 PROVE Size(LenUtf16, line, k) < units
    <3>1. k \in 0..Len(line) /\ k < m
      OBVIOUS
    <3> QED  BY <1>3, <3>1
  <2>2. units \in Nat
    BY <1>2
  <2> QED  BY <2>1, <2>2
<1>5. ASSUME NEW n \in 0..Len(line), Is(n) PROVE n = m
  <2>1. CASE n < m
    <3>1. n # Len(line)
      BY <2>1
    <3>2. Size(LenUtf16, line, n) >= units
      BY <1>5, <3>1
    <3>3. Size(LenUtf16, line, n) < units
      BY <1>3, <2>1
    <3> QED  BY <1>2, <3>2, <3>3
  <2>2. CASE m < n
    <3>1. m \in 0..n - 1
      BY <2>2
    <3>2. units < units
      BY <1>5, <3>1
    <3> QED  BY <1>2, <3>2
  <2> QED  BY <2>1, <2>2
<1>6. found = m
  <2> HIDE DEF Is
  <2> QED  BY <1>4, <1>5
<1> QED  BY <1>6 DEF Utf8ColumnOffset

(* The position after the first `n` characters, in a row that begins at    *)
(* `b`: the columns are counted in the units of the encoding.              *)
PositionAt(t, enc, b, n) ==
    [line |-> Rows(t, n),
     character |-> CASE enc = "UTF8" -> Bytes(SubSeq(t, b + 1, n), n - b)
                     [] enc = "UTF16" -> Size(LenUtf16, SubSeq(t, b + 1, n), n - b)
                     [] enc = "UTF32" -> n - b]

(* Such a position converts to the offset of the character it stands for,  *)
(* in every text and encoding, and without a panic.                        *)
LEMMA ToOffsetIsExact ==
    ASSUME NEW t \in Seq(Chars), NEW n \in 0..Len(t), NEW b \in 0..n, Begins(t, b, n),
           NEW enc \in PositionEncodings
    PROVE  LET p == PositionAt(t, enc, b, n)
           IN  /\ ~ ToOffsetPanics(p, t, FromSourceText(t), enc)
               /\ ToOffset(p, t, FromSourceText(t), enc) = Bytes(t, n)
<1> DEFINE ix == FromSourceText(t)
           p == PositionAt(t, enc, b, n)
           row == Rows(t, n)
           r == LineRange(ix, row, t)
<1>1. row \in Nat /\ row < Len(ix.starts)
  BY RowRange
<1>2. PICK e \in n..Len(t) : r = <<Bytes(t, b), Bytes(t, e)>>
  BY RowRange
<1>3. p.line = row
  BY DEF PositionAt
<1>4. e \in 0..Len(t) /\ b \in 0..Len(t) /\ e \in b..Len(t) /\ n \in b..Len(t) /\ n - b \in 0..e - b
      /\ n - b \in 0..n - b /\ b + (n - b) = n /\ Len(t) \in Nat
  OBVIOUS
<1> DEFINE line == SubSeq(t, b + 1, e)
           part == SubSeq(t, b + 1, n)
<1>5. /\ line \in Seq(Chars) /\ Len(line) = e - b
      /\ Slice(t, r[1], r[2]) = line
  <2>1. Slice(t, Bytes(t, b), Bytes(t, e)) = line
    BY <1>4, Slices
  <2> QED  BY <1>2, <1>4, <2>1, Part
<1>6. LenUtf8 \in [Chars -> Nat] /\ LenUtf16 \in [Chars -> Nat]
  <2>1. 1..4 \subseteq Nat /\ 1..2 \subseteq Nat
    OBVIOUS
  <2> QED  BY <2>1, CharLengths
<1>7. /\ Bytes(part, n - b) = Bytes(t, n) - Bytes(t, b)
      /\ Bytes(line, n - b) = Bytes(t, n) - Bytes(t, b)
      /\ Size(LenUtf16, part, n - b) = Size(LenUtf16, t, n) - Size(LenUtf16, t, b)
      /\ Size(LenUtf16, line, n - b) = Size(LenUtf16, t, n) - Size(LenUtf16, t, b)
  <2>1. ASSUME NEW len \in [Chars -> Nat]
        PROVE  /\ Size(len, part, n - b) = Size(len, t, n) - Size(len, t, b)
               /\ Size(len, line, n - b) = Size(len, t, n) - Size(len, t, b)
    BY <1>4, SizeOfPart
  <2> HIDE DEF part, line
  <2> QED  BY <1>6, <2>1 DEF Bytes
<1>8. /\ Bytes(t, n) \in Nat /\ Bytes(t, b) \in Nat /\ Bytes(t, e) \in Nat
      /\ Bytes(t, b) <= Bytes(t, n) /\ Bytes(t, n) <= Bytes(t, e)
  BY <1>4, BytesFacts
<1>9. ~ ToOffsetPanics(p, t, ix, enc)
  <2>1. ~ LineRangePanics(ix, p.line, t)
    <3>1. r[1] = Bytes(t, b) /\ r[2] = Bytes(t, e)
      BY <1>2
    <3>2. Len(ix.starts) \in Nat
      BY IndexFacts
    <3> HIDE DEF r, ix, p, row
    <3>3. ~ (r[1] > r[2])
      BY <1>8, <3>1
    <3>4. ~ (row > Len(ix.starts))
      BY <1>1, <3>2
    <3> QED  BY <1>3, <3>3, <3>4 DEF LineRangePanics, r
  <2>2. \A i \in {1, 2} : IsBoundary(t, LineRange(ix, p.line, t)[i])
    <3>1. IsBoundary(t, Bytes(t, b)) /\ IsBoundary(t, Bytes(t, e))
      BY <1>4, Slices
    <3> HIDE DEF ix, p, row
    <3> QED  BY <1>2, <1>3, <3>1
  <2> HIDE DEF ix, p
  <2> QED  BY <2>1, <2>2 DEF ToOffsetPanics
<1>10. ToOffset(p, t, ix, enc) = Bytes(t, n)
  <2>1. CASE enc = "UTF32"
    <3>1. p.character = n - b
      BY <2>1 DEF PositionAt
    <3>2. Smaller(n - b, Len(line)) = n - b
      BY <1>4, <1>5 DEF Smaller
    <3>3. r[1] = Bytes(t, b)
      BY <1>2
    <3> HIDE DEF line, p, ix, row
    <3>4. IndexOffset(ix, row, n - b, t) = Bytes(t, b) + Bytes(line, n - b)
      BY <1>5, <3>2, <3>3 DEF IndexOffset
    <3> HIDE DEF r
    <3> QED  BY <1>3, <1>7, <1>8, <2>1, <3>1, <3>4 DEF ToOffset
  <2>2. CASE enc # "UTF32"
    <3> DEFINE column == IF enc = "UTF8" \/ ix.ascii THEN p.character
                         ELSE Utf8ColumnOffset(p.character, Slice(t, r[1], r[2]))
    <3>1. column = Bytes(t, n) - Bytes(t, b)
      <4>1. CASE enc = "UTF8"
        <5>1. p.character = Bytes(part, n - b)
          BY <4>1 DEF PositionAt
        <5> QED  BY <1>7, <4>1, <5>1
      <4>2. CASE enc = "UTF16"
        <5>1. p.character = Size(LenUtf16, part, n - b)
          BY <4>2 DEF PositionAt
        <5>2. CASE ix.ascii
          <6>1. Bytes(t, n) = n /\ Size(LenUtf16, t, n) = n
            BY <5>2, AsciiSizes
          <6>2. Bytes(t, b) = b /\ Size(LenUtf16, t, b) = b
            BY <1>4, <5>2, AsciiSizes
          <6> QED  BY <1>7, <5>1, <5>2, <6>1, <6>2
        <5>3. CASE ~ ix.ascii
          <6>1. n - b \in 0..Len(line)
            BY <1>4, <1>5
          <6> HIDE DEF p, line, part, r, ix
          <6>2. column = Utf8ColumnOffset(p.character, line)
            BY <1>5, <4>2, <5>3
          <6>3. p.character = Size(LenUtf16, line, n - b)
            BY <1>7, <5>1
          <6>4. Utf8ColumnOffset(Size(LenUtf16, line, n - b), line) = Bytes(line, n - b)
            BY <1>5, <6>1, Utf8ColumnOffsetInverts
          <6> HIDE DEF column
          <6> QED  BY <1>7, <6>2, <6>3, <6>4
        <5> QED  BY <5>2, <5>3
      <4> QED  BY <2>2, <4>1, <4>2 DEF PositionEncodings
    <3>2. r[1] = Bytes(t, b) /\ r[2] = Bytes(t, e)
      BY <1>2
    <3>3. ToOffset(p, t, ix, enc) = r[1] + Smaller(column, r[2])
      <4> HIDE DEF p, ix, row
      <4> QED  BY <1>3, <2>2 DEF ToOffset
    <3>4. Smaller(column, r[2]) = Bytes(t, n) - Bytes(t, b)
      <4> HIDE DEF column, r
      <4> QED  BY <1>8, <3>1, <3>2 DEF Smaller
    <3> HIDE DEF column, r, p, ix
    <3> QED  BY <1>8, <3>2, <3>3, <3>4
  <2> QED  BY <2>1, <2>2
<1> QED  BY <1>9, <1>10

(* source_location: a leading byte order mark is not counted as a column.  *)
HasBom(t) == t # <<>> /\ t[1] = "bom"

LEMMA SourceLocationIs ==
    ASSUME NEW t \in Seq(Chars), NEW n \in 0..Len(t), NEW b \in 0..n, Begins(t, b, n)
    PROVE  SourceLocation(FromSourceText(t), Bytes(t, n), t)
             = [row |-> Rows(t, n), column |-> IF b = 0 /\ n > 0 /\ HasBom(t) THEN n - 1 ELSE n - b]
<1> DEFINE ix == FromSourceText(t)
           o == Bytes(t, n)
           start == ix.starts[RowOf(ix, o) + 1]
           from == IF start = 0 /\ t # <<>> /\ t[1] = "bom" THEN LenUtf8["bom"] ELSE start
           column == IF o = start THEN 0
                     ELSE IF ix.ascii THEN o - start
                     ELSE Len(Slice(t, from, o))
<1>1. RowOf(ix, o) = Rows(t, n) /\ start = Bytes(t, b)
  BY RowOfIsRows, RowRange
<1>2. b \in 0..Len(t) /\ n \in b..Len(t) /\ 0 \in 0..Len(t) /\ Len(t) \in Nat
  OBVIOUS
<1>3. (start = 0 <=> b = 0) /\ (o = start <=> n = b)
  BY <1>1, <1>2, BytesFacts
<1>4. column = IF b = 0 /\ n > 0 /\ HasBom(t) THEN n - 1 ELSE n - b
  <2>1. CASE n = b
    BY <1>3, <2>1
  <2>2. CASE n # b /\ b = 0 /\ HasBom(t)
    <3>1. 1 \in 0..Len(t) /\ 1 \in 1..Len(t) /\ n \in 1..Len(t) /\ t[1] = "bom"
      BY <1>2, <2>2 DEF HasBom
    <3>2. ~ ix.ascii
      <4>1. ~ IsAscii("bom")
        BY DEF IsAscii, LenUtf8
      <4> QED  BY <3>1, <4>1 DEF FromSourceText
    <3>3. Bytes(t, 1) = LenUtf8["bom"]
      <4>1. LenUtf8 \in [Chars -> Nat]
        <5>1. 1..4 \subseteq Nat
          OBVIOUS
        <5> QED  BY <5>1, CharLengths
      <4>2. Size(LenUtf8, t, 1) = Size(LenUtf8, t, 1 - 1) + LenUtf8[t[1]] /\ Size(LenUtf8, t, 0) = 0
        BY <3>1, <4>1, SizeUnfolds
      <4>3. LenUtf8["bom"] = 3
        BY DEF LenUtf8
      <4> QED  BY <3>1, <4>2, <4>3 DEF Bytes
    <3>4. from = Bytes(t, 1)
      <4> HIDE DEF start
      <4> QED  BY <1>3, <2>2, <3>3 DEF HasBom
    <3>5. Slice(t, Bytes(t, 1), o) = SubSeq(t, 1 + 1, n)
      BY <3>1, <1>2, Slices
    <3>6. Len(SubSeq(t, 1 + 1, n)) = n - 1
      BY <3>1, Part
    <3>7. column = n - 1
      <4> HIDE DEF start, ix, o, from
      <4> QED  BY <1>3, <2>2, <3>2, <3>4, <3>5, <3>6
    <3> HIDE DEF column
    <3> QED  BY <1>2, <2>2, <3>1, <3>7
  <2>3. CASE n # b /\ ~ (b = 0 /\ HasBom(t))
    <3>1. from = Bytes(t, b)
      <4> HIDE DEF start
      <4> QED  BY <1>1, <1>3, <2>3 DEF HasBom
    <3>2. Slice(t, Bytes(t, b), o) = SubSeq(t, b + 1, n)
      BY <1>2, Slices
    <3>3. Len(SubSeq(t, b + 1, n)) = n - b
      BY <1>2, Part
    <3>4. CASE ix.ascii
      <4>1. o = n /\ Bytes(t, b) = b
        BY <1>2, <3>4, AsciiSizes
      <4> HIDE DEF start, ix, o, from
      <4> QED  BY <1>1, <1>3, <2>3, <3>4, <4>1
    <3>5. CASE ~ ix.ascii
      <4> HIDE DEF start, ix, o, from
      <4> QED  BY <1>3, <2>3, <3>1, <3>2, <3>3, <3>5
    <3> QED  BY <3>4, <3>5
  <2> QED  BY <2>1, <2>2, <2>3
<1>5. SourceLocation(ix, o, t) = [row |-> RowOf(ix, o), column |-> column]
  BY DEF SourceLocation
<1> QED  BY <1>1, <1>4, <1>5

(* to_range gives the position of a character, and so the two conversions  *)
(* are inverse to each other; but for the columns after a byte order mark. *)
LEMMA OffsetToPositionIs ==
    ASSUME NEW t \in Seq(Chars), NEW n \in 0..Len(t), NEW b \in 0..n, Begins(t, b, n),
           NEW enc \in PositionEncodings, ~ (enc = "UTF32" /\ HasBom(t))
    PROVE  OffsetToPosition(Bytes(t, n), t, FromSourceText(t), enc) = PositionAt(t, enc, b, n)
<1> DEFINE ix == FromSourceText(t)
           o == Bytes(t, n)
           part == SubSeq(t, b + 1, n)
<1>1. RowOf(ix, o) = Rows(t, n) /\ LineStart(ix, Rows(t, n), t) = Bytes(t, b)
  BY RowOfIsRows, RowRange
<1>2. b \in 0..Len(t) /\ n \in b..Len(t) /\ n - b \in 0..n - b /\ b + (n - b) = n /\ Len(t) \in Nat
  OBVIOUS
<1>3. part \in Seq(Chars) /\ Len(part) = n - b /\ Slice(t, Bytes(t, b), o) = part
  <2>1. Slice(t, Bytes(t, b), o) = part
    BY <1>2, Slices
  <2> QED  BY <1>2, <2>1, Part
<1>4. LenUtf8 \in [Chars -> Nat] /\ LenUtf16 \in [Chars -> Nat]
  <2>1. 1..4 \subseteq Nat /\ 1..2 \subseteq Nat
    OBVIOUS
  <2> QED  BY <2>1, CharLengths
<1>5. /\ Bytes(part, n - b) = Bytes(t, n) - Bytes(t, b)
      /\ Size(LenUtf16, part, n - b) = Size(LenUtf16, t, n) - Size(LenUtf16, t, b)
  <2>1. ASSUME NEW len \in [Chars -> Nat]
        PROVE  Size(len, part, n - b) = Size(len, t, n) - Size(len, t, b)
    BY <1>2, SizeOfPart
  <2> HIDE DEF part
  <2> QED  BY <1>4, <2>1 DEF Bytes
<1>6. ix.ascii => Bytes(t, n) - Bytes(t, b) = Size(LenUtf16, t, n) - Size(LenUtf16, t, b)
  <2> SUFFICES ASSUME ix.ascii PROVE Bytes(t, n) - Bytes(t, b) = Size(LenUtf16, t, n) - Size(LenUtf16, t, b)
    OBVIOUS
  <2>1. Bytes(t, n) = n /\ Size(LenUtf16, t, n) = n
    BY AsciiSizes
  <2>2. Bytes(t, b) = b /\ Size(LenUtf16, t, b) = b
    BY <1>2, AsciiSizes
  <2> QED  BY <2>1, <2>2
<1>7. CASE enc = "UTF32"
  <2>1. ~ HasBom(t)
    BY <1>7
  <2>2. SourceLocation(ix, o, t) = [row |-> Rows(t, n), column |-> n - b]
    BY <2>1, SourceLocationIs
  <2>3. OffsetToPosition(o, t, ix, enc) = [line |-> Rows(t, n), character |-> n - b]
    <3> HIDE DEF ix, o
    <3> QED  BY <1>7, <2>2 DEF OffsetToPosition
  <2> QED  BY <1>7, <2>3 DEF PositionAt
<1>8. CASE enc = "UTF8"
  <2>1. OffsetToPosition(o, t, ix, enc) = [line |-> Rows(t, n), character |-> o - Bytes(t, b)]
    <3> HIDE DEF ix, o
    <3> QED  BY <1>1, <1>8 DEF OffsetToPosition
  <2>2. PositionAt(t, enc, b, n) = [line |-> Rows(t, n), character |-> Bytes(part, n - b)]
    BY <1>8 DEF PositionAt
  <2> HIDE DEF part
  <2> QED  BY <1>5, <2>1, <2>2
<1>9. CASE enc = "UTF16"
  <2>1. OffsetToPosition(o, t, ix, enc)
          = [line |-> Rows(t, n),
             character |-> IF ix.ascii THEN o - Bytes(t, b) ELSE Size(LenUtf16, part, n - b)]
    <3> HIDE DEF ix, o, part
    <3> QED  BY <1>1, <1>3, <1>9 DEF OffsetToPosition
  <2>2. PositionAt(t, enc, b, n) = [line |-> Rows(t, n), character |-> Size(LenUtf16, part, n - b)]
    BY <1>9 DEF PositionAt
  <2>3. (IF ix.ascii THEN o - Bytes(t, b) ELSE Size(LenUtf16, part, n - b))
          = Size(LenUtf16, part, n - b)
    <3> HIDE DEF part, ix
    <3> QED  BY <1>5, <1>6
  <2> QED  BY <2>1, <2>2, <2>3
<1> QED  BY <1>7, <1>8, <1>9 DEF PositionEncodings
-----------------------------------------------------------------------------
(* apply_changes and the conversions of positions. *)

(* Between and during notifications: the index is that of the contents; a  *)
(* notification in progress has made the same changes as the client, and   *)
(* has the index of the new contents unless these are the old ones again.  *)
DocumentInv ==
    /\ encoding \in PositionEncodings
    /\ handler \in {"idle", "changing", "panicked"}
    /\ misled \in BOOLEAN
    /\ text \in Seq(Characters)
    /\ ~ misled =>
         /\ handler # "panicked"
         /\ contents \in Seq(Characters)
         /\ index = FromSourceText(contents)
         /\ handler = "idle" => contents = text
         /\ handler = "changing" =>
              /\ new_contents = text
              /\ active_index = FromSourceText(new_contents) \/ new_contents = contents

LEMMA CharactersAreChars ==
    ASSUME NEW t \in Seq(Characters)
    PROVE  t \in Seq(Chars)
  BY CharactersAssumption, SeqMonotonic DEF Chars

LEMMA TextsAreSequences == Texts \subseteq Seq(Characters)
<1> SUFFICES ASSUME NEW t \in Texts PROVE t \in Seq(Characters)
  OBVIOUS
<1>1. PICK n \in 0..MaxLen : t \in [1..n -> Characters]
  BY DEF Texts
<1>2. n \in Nat
  BY MaxLenAssumption
<1> QED  BY <1>1, <1>2

LEMMA ReplacedIsText ==
    ASSUME NEW t \in Seq(Characters), NEW i \in 0..Len(t), NEW j \in i..Len(t),
           NEW s \in Seq(Characters)
    PROVE  Replaced(t, i, j, s) \in Seq(Characters)
<1>1. 0 \in 0..Len(t) /\ i \in 0..Len(t) /\ j \in 0..Len(t) /\ Len(t) \in j..Len(t) /\ 0 + 1 = 1
  OBVIOUS
<1>2. SubSeq(t, 1, i) \in Seq(Characters)
  BY <1>1, Part
<1>3. SubSeq(t, j + 1, Len(t)) \in Seq(Characters)
  BY <1>1, Part
<1>4. SubSeq(t, 1, i) \o s \in Seq(Characters)
  BY <1>2, ConcatProperties
<1>5. (SubSeq(t, 1, i) \o s) \o SubSeq(t, j + 1, Len(t)) \in Seq(Characters)
  BY <1>3, <1>4, ConcatProperties
<1> QED  BY <1>5 DEF Replaced

(* The client counts lines and columns as the index does.                  *)
LEMMA ClientPositionIs ==
    ASSUME text \in Seq(Chars), encoding \in PositionEncodings,
           NEW n \in 0..Len(text), NEW b \in 0..n, Begins(text, b, n)
    PROVE  ClientPosition(n) = PositionAt(text, encoding, b, n)
<1> DEFINE lines == {k \in 1..n : EndsLine(text, k)}
           start == IF lines = {} THEN 0 ELSE CHOOSE k \in lines : \A l \in lines : l <= k
           column == SubSeq(text, start + 1, n)
<1>1. lines = BreaksUpTo(text, n) /\ start = b
  BY LastBreak
<1>2. start = b
  BY <1>1
<1>3. Len(SubSeq(text, b + 1, n)) = n - b
  <2>1. b \in 0..Len(text) /\ n \in b..Len(text)
    OBVIOUS
  <2> QED  BY <2>1, Part
<1>4. ClientPosition(n) =
        [line |-> Cardinality(lines),
         character |-> CASE encoding = "UTF8" -> Bytes(column, Len(column))
                         [] encoding = "UTF16" -> Size(LenUtf16, column, Len(column))
                         [] encoding = "UTF32" -> Len(column)]
  BY DEF ClientPosition
<1>5. Cardinality(lines) = Rows(text, n)
  BY <1>1 DEF Rows
<1>6. column = SubSeq(text, b + 1, n)
  <2> HIDE DEF start
  <2> QED  BY <1>2
<1> HIDE DEF lines, start, column
<1> QED  BY <1>3, <1>4, <1>5, <1>6 DEF PositionAt

(* The server finds the client's position in its copy of the text.         *)
LEMMA PositionsAreFound ==
    ASSUME text \in Seq(Chars), encoding \in PositionEncodings, NEW n \in 0..Len(text)
    PROVE  /\ ~ ToOffsetPanics(ClientPosition(n), text, FromSourceText(text), encoding)
           /\ ToOffset(ClientPosition(n), text, FromSourceText(text), encoding) = Bytes(text, n)
           /\ IsBoundary(text, Bytes(text, n)) /\ CharsBefore(text, Bytes(text, n)) = n
<1>1. PICK b \in 0..n : Begins(text, b, n)
  BY RowBegins
<1>2. ClientPosition(n) = PositionAt(text, encoding, b, n)
  BY <1>1, ClientPositionIs
<1>3. /\ ~ ToOffsetPanics(PositionAt(text, encoding, b, n), text, FromSourceText(text), encoding)
      /\ ToOffset(PositionAt(text, encoding, b, n), text, FromSourceText(text), encoding) = Bytes(text, n)
  BY <1>1, ToOffsetIsExact
<1>4. IsBoundary(text, Bytes(text, n)) /\ CharsBefore(text, Bytes(text, n)) = n
  BY Slices
<1> QED  BY <1>2, <1>3, <1>4
-----------------------------------------------------------------------------
LEMMA DocumentInit == Init => DocumentInv
  BY TextsAreSequences DEF Init, DocumentInv

(* A ranged change read with the right index makes the client's change.    *)
LEMMA RangeStep ==
    ASSUME DocumentInv, NEW i \in 0..Len(text), NEW j \in i..Len(text),
           NEW s \in Seq(Characters), ChangeRange(i, j, s)
    PROVE  DocumentInv'
<1> DEFINE start == ClientPosition(i)
           end == ClientPosition(j)
<1>1. text' = Replaced(text, i, j, s) /\ text' \in Seq(Characters)
  BY ReplacedIsText DEF ChangeRange, DocumentInv
<1>2. handler' \in {"changing", "panicked"}
  BY DEF ChangeRange
<1>3. UNCHANGED <<encoding, contents, index>> /\ misled' \in BOOLEAN /\ misled' = (misled \/ StaleIndex)
  BY DEF ChangeRange, DocumentInv, documentVars
<1>4. ASSUME ~ misled' PROVE /\ handler' = "changing" /\ new_contents' = text'
                             /\ active_index' = FromSourceText(new_contents') \/ new_contents' = contents
  <2>1. /\ ~ misled /\ ~ StaleIndex /\ handler = "changing"
        /\ new_contents = text /\ index = FromSourceText(contents)
    BY <1>3, <1>4 DEF ChangeRange, DocumentInv
  <2>2. active_index = FromSourceText(text)
    BY <2>1 DEF DocumentInv, StaleIndex
  <2>3. text \in Seq(Chars) /\ encoding \in PositionEncodings /\ j \in 0..Len(text)
    BY CharactersAreChars DEF DocumentInv
  <2>4. /\ ~ ToOffsetPanics(start, text, active_index, encoding)
        /\ ToOffset(start, text, active_index, encoding) = Bytes(text, i)
        /\ IsBoundary(text, Bytes(text, i)) /\ CharsBefore(text, Bytes(text, i)) = i
    BY <2>2, <2>3, PositionsAreFound
  <2>5. /\ ~ ToOffsetPanics(end, text, active_index, encoding)
        /\ ToOffset(end, text, active_index, encoding) = Bytes(text, j)
        /\ IsBoundary(text, Bytes(text, j)) /\ CharsBefore(text, Bytes(text, j)) = j
    BY <2>2, <2>3, PositionsAreFound
  <2>6. ~ (Bytes(text, i) > Bytes(text, j))
    BY <2>3, BytesFacts
  <2> HIDE DEF start, end
  <2>7. ~ Unordered(start, end) /\ ~ OutOfText(start, end)
    BY <2>1, <2>4, <2>5, <2>6 DEF Unordered, OutOfText
  <2>8. /\ handler' = handler
        /\ new_contents' = Replaced(text, i, j, s)
        /\ Reindex(new_contents')
    BY <2>1, <2>4, <2>5, <2>7 DEF ChangeRange, start, end
  <2> QED  BY <1>1, <2>1, <2>8 DEF Reindex
<1> QED  BY <1>1, <1>2, <1>3, <1>4 DEF DocumentInv

LEMMA DocumentStep == DocumentInv /\ [Next]_vars => DocumentInv'
<1> SUFFICES ASSUME DocumentInv, [Next]_vars PROVE DocumentInv'
  OBVIOUS
<1>1. CASE StartChanges
  BY <1>1 DEF StartChanges, DocumentInv, clientVars, documentVars
<1>2. CASE \E i \in 0..Len(text) : \E j \in i..Len(text), s \in {t \in Texts : Len(t) <= 1} :
              ChangeRange(i, j, s)
  BY <1>2, RangeStep, TextsAreSequences
<1>3. CASE \E t \in Texts : ChangeFull(t)
  <2>1. PICK t \in Texts : ChangeFull(t)
    BY <1>3
  <2>2. t \in Seq(Characters)
    BY TextsAreSequences
  <2> QED  BY <2>1, <2>2 DEF ChangeFull, Reindex, DocumentInv, documentVars
<1>4. CASE FinishFull
  BY <1>4 DEF FinishFull, DocumentInv, clientVars, localVars
<1>5. CASE FinishChanges
  BY <1>5 DEF FinishChanges, DocumentInv, clientVars, localVars
<1>6. CASE UNCHANGED vars
  BY <1>6 DEF vars, clientVars, documentVars, localVars, DocumentInv
<1> QED  BY <1>1, <1>2, <1>3, <1>4, <1>5, <1>6 DEF Next

LEMMA DocumentInvariant == Spec => []DocumentInv
<1>1. DocumentInv /\ UNCHANGED vars => DocumentInv'
  BY DocumentStep
<1> QED  BY DocumentInit, DocumentStep, PTL DEF Spec
-----------------------------------------------------------------------------
(* Between notifications the document is the client's text and its index   *)
(* that of the text (apply_changes, document.rs:61), whatever the          *)
(* notifications were, unless one was read with a stale index.             *)
THEOREM DocumentInSync == Spec => []InSync
<1>1. DocumentInv => InSync
  BY DEF DocumentInv, InSync, StaysUpToDate
<1> QED  BY <1>1, DocumentInvariant, PTL

(* No position of the client's makes apply_changes panic, with the same    *)
(* exception.                                                              *)
THEOREM DocumentNoPanic == Spec => []NoPanic
<1>1. DocumentInv => NoPanic
  BY DEF DocumentInv, NoPanic
<1> QED  BY <1>1, DocumentInvariant, PTL

(* to_range and to_text_range (convert.rs) are inverse to each other.      *)
THEOREM DocumentRoundTrip == Spec => []RoundTrip
<1>1. DocumentInv => RoundTrip
  <2> SUFFICES ASSUME DocumentInv, handler = "idle", ~ misled, NEW n \in 0..Len(contents),
                      ~ (encoding = "UTF32" /\ contents # <<>> /\ contents[1] = "bom")
               PROVE  LET o == Bytes(contents, n)
                      IN  ToOffset(OffsetToPosition(o, contents, index, encoding), contents, index, encoding) = o
    BY DEF RoundTrip
  <2>1. contents \in Seq(Chars) /\ index = FromSourceText(contents) /\ encoding \in PositionEncodings
    BY CharactersAreChars DEF DocumentInv
  <2>2. PICK b \in 0..n : Begins(contents, b, n)
    BY <2>1, RowBegins
  <2>3. OffsetToPosition(Bytes(contents, n), contents, index, encoding) = PositionAt(contents, encoding, b, n)
    BY <2>1, <2>2, OffsetToPositionIs DEF HasBom
  <2>4. ToOffset(PositionAt(contents, encoding, b, n), contents, index, encoding) = Bytes(contents, n)
    BY <2>1, <2>2, ToOffsetIsExact
  <2> QED  BY <2>3, <2>4
<1> QED  BY <1>1, DocumentInvariant, PTL
-----------------------------------------------------------------------------
(* Replacement::between and source_location. *)

TextsTyped == source \in Seq(Characters) /\ modified \in Seq(Characters)

LEMMA TextsAreTyped == TextsSpec => []TextsTyped
<1>1. TextsInit => TextsTyped
  BY DEF TextsInit, TextsTyped
<1>2. TextsTyped /\ [TextsNext]_texts => TextsTyped'
  <2> SUFFICES ASSUME TextsTyped, [TextsNext]_texts PROVE TextsTyped'
    OBVIOUS
  <2>1. ASSUME NEW c \in Characters, Type(c) PROVE TextsTyped'
    <3>1. Append(source, c) \in Seq(Characters) /\ Append(modified, c) \in Seq(Characters)
      BY AppendProperties DEF TextsTyped
    <3>2. \/ source' = Append(source, c) /\ modified' = modified
          \/ modified' = Append(modified, c) /\ source' = source
      BY <2>1 DEF Type
    <3> QED  BY <3>1, <3>2 DEF TextsTyped
  <2>2. CASE UNCHANGED texts
    BY <2>2 DEF texts, TextsTyped
  <2> QED  BY <2>1, <2>2 DEF TextsNext
<1> QED  BY <1>1, <1>2, PTL DEF TextsSpec

LEMMA TypedTexts ==
    ASSUME TextsTyped
    PROVE  source \in Seq(Chars) /\ modified \in Seq(Chars)
  BY CharactersAssumption, SeqMonotonic DEF TextsTyped, Chars
-----------------------------------------------------------------------------
(* The lines start at characters, the first at the beginning, in order.    *)
LEMMA StartsFacts ==
    ASSUME NEW t \in Seq(Chars)
    PROVE  /\ Len(Starts(t)) \in Nat \ {0}
           /\ Starts(t)[1] = Bytes(t, 0)
           /\ \A n \in 1..Len(Starts(t)) : \E k \in 0..Len(t) : Starts(t)[n] = Bytes(t, k)
           /\ \A n \in 1..Len(Starts(t)) : \A m \in 1..n : Starts(t)[m] <= Starts(t)[n]
<1> DEFINE C == Cardinality(Breaks(t))
<1>1. /\ C \in Nat /\ Len(Starts(t)) = C + 1
      /\ \A row \in 0..C : Starts(t)[row + 1] = Bytes(t, RowBegin(t, row))
  BY IndexFacts DEF Starts
<1>2. ASSUME NEW row \in 0..C
      PROVE  /\ RowBegin(t, row) \in 0..Len(t) /\ Rows(t, RowBegin(t, row)) = row
             /\ \A n \in 0..Len(t) : RowBegin(t, row) <= n <=> row <= Rows(t, n)
  BY RowBeginFacts
<1> HIDE DEF C
<1>3. ASSUME NEW n \in 1..C + 1
      PROVE  n - 1 \in 0..C /\ Starts(t)[n] = Bytes(t, RowBegin(t, n - 1))
  <2>1. n - 1 \in 0..C /\ (n - 1) + 1 = n
    BY <1>1
  <2> QED  BY <1>1, <2>1
<1>4. Starts(t)[1] = Bytes(t, 0)
  <2>1. 0 \in 0..C /\ 1 \in 1..C + 1 /\ 1 - 1 = 0
    BY <1>1
  <2>2. 0 \in 0..Len(t) /\ 0 <= Rows(t, 0)
    BY RowsFacts
  <2>3. RowBegin(t, 0) = 0
    BY <1>2, <2>1, <2>2
  <2> QED  BY <1>3, <2>1, <2>3
<1>5. ASSUME NEW n \in 1..C + 1, NEW m \in 1..n PROVE Starts(t)[m] <= Starts(t)[n]
  <2>1. m \in 1..C + 1 /\ m - 1 <= n - 1
    BY <1>1
  <2>2. RowBegin(t, m - 1) <= RowBegin(t, n - 1)
    BY <1>2, <1>3, <2>1
  <2>3. RowBegin(t, m - 1) \in 0..Len(t) /\ RowBegin(t, n - 1) \in 0..Len(t)
    BY <1>2, <1>3, <2>1
  <2>4. Bytes(t, RowBegin(t, m - 1)) <= Bytes(t, RowBegin(t, n - 1))
    BY <2>2, <2>3, BytesFacts
  <2> QED  BY <1>3, <2>1, <2>4
<1>6. ASSUME NEW n \in 1..C + 1 PROVE \E k \in 0..Len(t) : Starts(t)[n] = Bytes(t, k)
  <2>1. RowBegin(t, n - 1) \in 0..Len(t)
    BY <1>2, <1>3
  <2> QED  BY <1>3, <2>1
<1> QED  BY <1>1, <1>4, <1>5, <1>6

(* A text is its parts up to, between and after two positions.             *)
LEMMA ThreeParts ==
    ASSUME NEW t \in Seq(Chars), NEW a \in 0..Len(t), NEW c \in a..Len(t)
    PROVE  SubSeq(t, 1, a) \o SubSeq(t, a + 1, c) \o SubSeq(t, c + 1, Len(t)) = t
<1>1. /\ 1 \in 1..Len(t) + 1 /\ a \in 1 - 1..Len(t) /\ c \in a..Len(t) /\ c \in 1 - 1..Len(t)
      /\ Len(t) \in c..Len(t)
  OBVIOUS
<1>2. SubSeq(t, 1, a) \o SubSeq(t, a + 1, c) = SubSeq(t, 1, c)
  BY <1>1, ConcatAdjacentSubSeq
<1>3. SubSeq(t, 1, c) \o SubSeq(t, c + 1, Len(t)) = SubSeq(t, 1, Len(t))
  BY <1>1, ConcatAdjacentSubSeq
<1>4. SubSeq(t, 1, Len(t)) = t
  BY SubSeqFull
<1> QED  BY <1>2, <1>3, <1>4, ZenonT(60)

(* The loop from the front stops at a line, the first at the earliest.     *)
LEMMA FirstDifferentIs ==
    ASSUME source \in Seq(Chars), modified \in Seq(Chars)
    PROVE  FirstDifferent \in Paired /\ SameUpTo(FirstDifferent)
<1> DEFINE N == IF Len(Starts(source)) < Len(Starts(modified))
                THEN Len(Starts(source)) ELSE Len(Starts(modified))
           T == {n \in Paired : SameUpTo(n)}
<1>1. N \in Nat \ {0} /\ Paired = 1..N
  BY StartsFacts DEF Paired
<1> HIDE DEF N
<1>2. SameUpTo(1)
  <2>1. Starts(source)[1] = Bytes(source, 0) /\ Starts(modified)[1] = Bytes(modified, 0)
    BY StartsFacts
  <2>2. Bytes(source, 0) = 0 /\ Bytes(modified, 0) = 0
    BY BytesFacts
  <2>3. /\ Slice(source, Bytes(source, 0), Bytes(source, 0)) = SubSeq(source, 0 + 1, 0)
        /\ Slice(modified, Bytes(modified, 0), Bytes(modified, 0)) = SubSeq(modified, 0 + 1, 0)
    <3>1. 0 \in 0..Len(source) /\ 0 \in 0..Len(modified)
      OBVIOUS
    <3> QED  BY <3>1, Slices
  <2>4. SubSeq(source, 0 + 1, 0) = <<>> /\ SubSeq(modified, 0 + 1, 0) = <<>>
    BY SubSeqEmpty
  <2>5. \A i \in 1..1 : Starts(source)[i] = Starts(modified)[i]
    BY <2>1, <2>2
  <2> QED  BY <2>1, <2>2, <2>3, <2>4, <2>5 DEF SameUpTo
<1>3. T \in SUBSET (0..N) /\ T # {}
  BY <1>1, <1>2
<1>4. \E n \in T : \A m \in T : m <= n
  <2> HIDE DEF T
  <2> QED  BY <1>1, <1>3, Greatest
<1>5. \E n \in Paired : SameUpTo(n) /\ \A m \in Paired : SameUpTo(m) => m <= n
  BY <1>4
<1> QED  BY <1>5 DEF FirstDifferent

LEMMA BetweenIsCorrect ==
    ASSUME source \in Seq(Chars), modified \in Seq(Chars)
    PROVE  ReplacementIsCorrect
<1> DEFINE n == FirstDifferent
           end == IF SameSuffixes = {} THEN 0 ELSE CHOOSE k \in SameSuffixes : \A m \in SameSuffixes : k <= m
           sourceEnd == IF end = 0 THEN TextLen(source) ELSE Starts(source)[end]
           modifiedEnd == IF end = 0 THEN TextLen(modified) ELSE Starts(modified)[end]
<1>1. n \in Paired /\ SameUpTo(n)
  BY FirstDifferentIs
<1>2. \A k \in Paired : k \in 1..Len(Starts(source)) /\ k \in 1..Len(Starts(modified)) /\ k \in Nat \ {0}
  BY StartsFacts DEF Paired
<1>3. PICK a \in 0..Len(modified) : Starts(modified)[n] = Bytes(modified, a)
  BY <1>1, <1>2, StartsFacts
<1>4. PICK d \in 0..Len(source) : Starts(source)[n] = Bytes(source, d)
  BY <1>1, <1>2, StartsFacts
<1>5. Slice(source, 0, Starts(source)[n]) = SubSeq(modified, 1, a)
  <2>1. Slice(source, 0, Starts(source)[n]) = Slice(modified, 0, Starts(modified)[n])
    BY <1>1 DEF SameUpTo
  <2>2. Bytes(modified, 0) = 0 /\ 0 \in 0..Len(modified)
    BY BytesFacts
  <2>3. Slice(modified, Bytes(modified, 0), Bytes(modified, a)) = SubSeq(modified, 0 + 1, a)
    BY <2>2, Slices
  <2> QED  BY <1>3, <2>1, <2>2, <2>3
<1>6. \/ end = 0
      \/ end \in SameSuffixes /\ end # 0
  <2>1. CASE SameSuffixes = {}
    BY <2>1
  <2>2. CASE SameSuffixes # {}
    <3>1. SameSuffixes \in SUBSET Nat
      BY <1>2 DEF SameSuffixes
    <3>2. \E k \in SameSuffixes : \A m \in SameSuffixes : k <= m
      BY <2>2, <3>1, Least
    <3>3. end \in SameSuffixes
      BY <2>2, <3>2
    <3> QED  BY <1>2, <3>3 DEF SameSuffixes
  <2> QED  BY <2>1, <2>2
<1> HIDE DEF end, n
<1>7. \E c \in a..Len(modified) :
        /\ modifiedEnd = Bytes(modified, c)
        /\ Slice(source, sourceEnd, TextLen(source)) = SubSeq(modified, c + 1, Len(modified))
        /\ Starts(source)[n] <= sourceEnd /\ Starts(modified)[n] <= modifiedEnd
  <2>1. CASE end = 0
    <3>1. sourceEnd = Bytes(source, Len(source)) /\ modifiedEnd = Bytes(modified, Len(modified))
      BY <2>1, BytesFacts
    <3>2. /\ Len(source) \in 0..Len(source) /\ Len(modified) \in a..Len(modified)
          /\ Len(modified) \in 0..Len(modified) /\ d <= Len(source) /\ a <= Len(modified)
      OBVIOUS
    <3>3. Slice(source, Bytes(source, Len(source)), Bytes(source, Len(source)))
            = SubSeq(source, Len(source) + 1, Len(source))
      BY <3>2, Slices
    <3>4. /\ SubSeq(source, Len(source) + 1, Len(source)) = <<>>
          /\ SubSeq(modified, Len(modified) + 1, Len(modified)) = <<>>
      <4>1. /\ Len(source) + 1 \in Int /\ Len(source) \in Int /\ Len(source) < Len(source) + 1
            /\ Len(modified) + 1 \in Int /\ Len(modified) \in Int /\ Len(modified) < Len(modified) + 1
        OBVIOUS
      <4> QED  BY <4>1, SubSeqEmpty
    <3>5. Bytes(source, d) <= Bytes(source, Len(source)) /\ Bytes(modified, a) <= Bytes(modified, Len(modified))
      BY <3>2, BytesFacts
    <3>6. TextLen(source) = Bytes(source, Len(source))
      BY BytesFacts
    <3> HIDE DEF sourceEnd, modifiedEnd
    <3> QED  BY <1>3, <1>4, <3>1, <3>2, <3>3, <3>4, <3>5, <3>6
  <2>2. CASE end \in SameSuffixes /\ end # 0
    <3>1. end \in Paired /\ end > n + 1 /\ SameFrom(end)
      <4>1. end \in Paired /\ end > n + 1 /\ \A m \in Paired : m >= end => SameFrom(m)
        BY <2>2 DEF SameSuffixes, n
      <4>2. end >= end
        BY <1>2, <4>1
      <4> QED  BY <4>1, <4>2
    <3>2. n \in 1..end
      BY <1>1, <1>2, <3>1
    <3>3. Starts(source)[n] <= Starts(source)[end] /\ Starts(modified)[n] <= Starts(modified)[end]
      BY <1>2, <3>1, <3>2, StartsFacts
    <3>4. PICK c \in 0..Len(modified) : Starts(modified)[end] = Bytes(modified, c)
      BY <1>2, <3>1, StartsFacts
    <3>5. sourceEnd = Starts(source)[end] /\ modifiedEnd = Starts(modified)[end]
      BY <2>2
    <3>6. c \in a..Len(modified)
      <4>1. a <= c
        BY <1>3, <3>3, <3>4, BytesFacts
      <4> QED  BY <4>1
    <3>7. Slice(modified, Bytes(modified, c), Bytes(modified, Len(modified)))
            = SubSeq(modified, c + 1, Len(modified))
      <4>1. Len(modified) \in 0..Len(modified)
        OBVIOUS
      <4> QED  BY <4>1, Slices
    <3>8. Slice(source, Starts(source)[end], TextLen(source)) = SubSeq(modified, c + 1, Len(modified))
      BY <3>1, <3>4, <3>7, BytesFacts DEF SameFrom
    <3> HIDE DEF sourceEnd, modifiedEnd
    <3> QED  BY <3>3, <3>4, <3>5, <3>6, <3>8
  <2> QED  BY <1>6, <2>1, <2>2
<1>8. PICK c \in a..Len(modified) :
        /\ modifiedEnd = Bytes(modified, c)
        /\ Slice(source, sourceEnd, TextLen(source)) = SubSeq(modified, c + 1, Len(modified))
        /\ Starts(source)[n] <= sourceEnd /\ Starts(modified)[n] <= modifiedEnd
  BY <1>7
<1>9. Between = [source |-> <<Starts(source)[n], sourceEnd>>, modified |-> <<Starts(modified)[n], modifiedEnd>>]
  BY DEF Between, n, end
<1>10. Slice(modified, Starts(modified)[n], modifiedEnd) = SubSeq(modified, a + 1, c)
  <2>1. c \in 0..Len(modified)
    OBVIOUS
  <2>2. Slice(modified, Bytes(modified, a), Bytes(modified, c)) = SubSeq(modified, a + 1, c)
    BY <2>1, Slices
  <2> QED  BY <1>3, <1>8, <2>2
<1>11. SubSeq(modified, 1, a) \o SubSeq(modified, a + 1, c) \o SubSeq(modified, c + 1, Len(modified)) = modified
  BY ThreeParts
<1> HIDE DEF sourceEnd, modifiedEnd
<1> QED  BY <1>5, <1>8, <1>9, <1>10, <1>11 DEF ReplacementIsCorrect

LEMMA SourceLocationsAreRight ==
    ASSUME source \in Seq(Chars)
    PROVE  LocationsAreRight
<1> SUFFICES ASSUME NEW n \in 0..Len(source)
             PROVE  SourceLocation(FromSourceText(source), Bytes(source, n), source) = ExpectedLocation(source, n)
  BY DEF LocationsAreRight
<1>1. PICK b \in 0..n : Begins(source, b, n)
  BY RowBegins
<1> DEFINE breaks == {i \in 1..n : EndsLine(source, i)}
           first == IF breaks = {} THEN 0 ELSE CHOOSE i \in breaks : \A k \in breaks : k <= i
           columns == {i \in first + 1..n : ~ (i = 1 /\ source[i] = "bom")}
<1>2. breaks = BreaksUpTo(source, n) /\ first = b
  BY <1>1, LastBreak
<1>3. Cardinality(breaks) = Rows(source, n)
  BY <1>2 DEF Rows
<1>4. Cardinality(columns) = IF b = 0 /\ n > 0 /\ HasBom(source) THEN n - 1 ELSE n - b
  <2>1. columns = {i \in b + 1..n : ~ (i = 1 /\ source[i] = "bom")}
    <3> HIDE DEF first
    <3> QED  BY <1>2
  <2>2. n \in Nat /\ b \in Nat /\ b <= n
    OBVIOUS
  <2>3. CASE b = 0 /\ n > 0 /\ HasBom(source)
    <3>1. columns = 2..n
      BY <2>1, <2>2, <2>3 DEF HasBom
    <3>2. Cardinality(2..n) = IF 2 > n THEN 0 ELSE n - 2 + 1
      BY <2>2, FS_Interval
    <3> HIDE DEF columns
    <3> QED  BY <2>2, <2>3, <3>1, <3>2
  <2>4. CASE ~ (b = 0 /\ n > 0 /\ HasBom(source))
    <3>1. columns = b + 1..n
      <4>1. source = <<>> => n = 0
        OBVIOUS
      <4> QED  BY <2>1, <2>2, <2>4, <4>1 DEF HasBom
    <3>2. Cardinality(b + 1..n) = IF b + 1 > n THEN 0 ELSE n - (b + 1) + 1
      BY <2>2, FS_Interval
    <3> HIDE DEF columns
    <3> QED  BY <2>2, <2>4, <3>1, <3>2
  <2> QED  BY <2>3, <2>4
<1>5. ExpectedLocation(source, n) = [row |-> Cardinality(breaks), column |-> Cardinality(columns)]
  BY DEF ExpectedLocation
<1> HIDE DEF columns, breaks
<1> QED  BY <1>1, <1>3, <1>4, <1>5, SourceLocationIs
-----------------------------------------------------------------------------
(* Replacing the range that Replacement::between finds in the old text by  *)
(* the one it finds in the new gives the new text (replacement.rs:11).     *)
THEOREM ReplacementCorrect == TextsSpec => []ReplacementIsCorrect
<1>1. TextsTyped => ReplacementIsCorrect
  BY TypedTexts, BetweenIsCorrect
<1> QED  BY <1>1, TextsAreTyped, PTL

(* source_location (line_index.rs:95) counts lines and columns as a reader *)
(* does, also in ASCII texts and after a byte order mark.                  *)
THEOREM LocationsRight == TextsSpec => []LocationsAreRight
<1>1. TextsTyped => LocationsAreRight
  BY TypedTexts, SourceLocationsAreRight
<1> QED  BY <1>1, TextsAreTyped, PTL
-----------------------------------------------------------------------------
(* A newline character ends a line or is the first half of a CRLF.         *)
LEMMA NewlinesAre ==
    ASSUME NEW t \in Seq(Chars)
    PROVE  /\ Newlines(t) \in SUBSET (1..Len(t)) /\ Breaks(t) \in SUBSET Newlines(t)
           /\ \A k \in Newlines(t) : LenUtf8[t[k]] = 1
           /\ \A k \in Newlines(t) : k \notin Breaks(t) =>
                k < Len(t) /\ t[k] = "cr" /\ t[k + 1] = "nl" /\ k + 1 \in Breaks(t)
           /\ \A k \in Breaks(t) : k < Len(t) => ~ (t[k] = "cr" /\ t[k + 1] = "nl")
           /\ Len(t) \in Newlines(t) => Len(t) \in Breaks(t)
<1>1. Newlines(t) = {k \in 1..Len(t) : t[k] = "nl" \/ t[k] = "cr"}
  BY DEF Newlines, IsNewline
<1>2. Breaks(t) = {k \in 1..Len(t) : t[k] = "nl" \/ (t[k] = "cr" /\ ~ (k < Len(t) /\ t[k + 1] = "nl"))}
  BY DEF Breaks, EndsLine
<1>3. LenUtf8["nl"] = 1 /\ LenUtf8["cr"] = 1
  BY DEF LenUtf8
<1>4. Len(t) \in Nat
  OBVIOUS
<1>5. "nl" # "cr"
  OBVIOUS
<1> QED  BY <1>1, <1>2, <1>3, <1>4, <1>5

(* The lines of a text: N of them, the r-th up to the character s[r], and  *)
(* one more that is empty behind a break at the end.                       *)
NthLine(t, s, r) == Line(SubSeq(t, s[r - 1] + 1, s[r]), Bytes(t, s[r - 1]))

Divides(t, N, s) ==
    /\ N \in Nat \ {0} /\ s \in [0..N -> 0..Len(t)]
    /\ s[0] = 0 /\ s[N] = Len(t)
    /\ \A r \in 0..N - 1 : s[r] < s[r + 1] /\ s[r] \in {0} \cup Breaks(t)
    /\ \A r \in 0..N - 1 : \A k \in Breaks(t) : ~ (s[r] < k /\ k < s[r + 1])

LEMMA IndexLinesAre ==
    ASSUME NEW t \in Seq(Chars), NEW row \in 0..Cardinality(Breaks(t))
    PROVE  LET b == RowBegin(t, row)
               e == IF row = Cardinality(Breaks(t)) THEN Len(t) ELSE RowBegin(t, row + 1)
           IN  /\ DOMAIN IndexLines(t) = 1..Cardinality(Breaks(t)) + 1
               /\ IndexLines(t)[row + 1] = Line(SubSeq(t, b + 1, e), Bytes(t, b))
               /\ b \in {0} \cup Breaks(t) /\ b \in 0..Len(t) /\ e \in b..Len(t)
               /\ row # Cardinality(Breaks(t)) => b < e /\ e \in Breaks(t)
               /\ \A k \in Breaks(t) : ~ (b < k /\ k < e)
               /\ b = 0 <=> row = 0
<1> DEFINE C == Cardinality(Breaks(t))
           ix == FromSourceText(t)
           b == RowBegin(t, row)
           e == IF row = C THEN Len(t) ELSE RowBegin(t, row + 1)
<1>1. /\ C \in Nat /\ Len(ix.starts) = C + 1
      /\ \A r \in 0..C : ix.starts[r + 1] = Bytes(t, RowBegin(t, r))
  BY IndexFacts
<1>2. /\ Rows(t, 0) = 0 /\ Rows(t, Len(t)) = C /\ Len(t) \in Nat
      /\ \A n \in 0..Len(t) : Rows(t, n) \in 0..C
      /\ \A i \in 0..Len(t) : \A j \in i..Len(t) :
                /\ Rows(t, i) <= Rows(t, j)
                /\ Rows(t, i) = Rows(t, j) <=> ~ \E k \in Breaks(t) : i < k /\ k <= j
      /\ Breaks(t) \in SUBSET (1..Len(t))
  BY RowsFacts, IndexFacts
<1>3. ASSUME NEW r \in 0..C
      PROVE  /\ RowBegin(t, r) \in 0..Len(t) /\ Rows(t, RowBegin(t, r)) = r
             /\ \A n \in 0..Len(t) : RowBegin(t, r) <= n <=> r <= Rows(t, n)
             /\ RowBegin(t, r) \in {0} \cup Breaks(t)
  <2> DEFINE n == RowBegin(t, r)
  <2>1. n \in 0..Len(t) /\ Rows(t, n) = r
        /\ \A m \in 0..Len(t) : n <= m <=> r <= Rows(t, m)
    BY RowBeginFacts
  <2>2. PICK c \in 0..n : Begins(t, c, n)
    BY <2>1, RowBegins
  <2>3. RowBegin(t, Rows(t, n)) = c
    BY <2>1, <2>2, RowBeginIsUnique
  <2>4. c = n
    BY <2>1, <2>3
  <2> QED  BY <2>1, <2>2, <2>4 DEF Begins
<1>4. DOMAIN ix.starts = 1..C + 1
  <2>1. ix.starts = [k \in 1..C + 1 |-> Bytes(t, RowBegin(t, k - 1))]
    BY DEF FromSourceText
  <2> QED  BY <2>1
<1>5. /\ IndexLines(t) = [i \in DOMAIN ix.starts |->
                Line(Slice(t, LineRange(ix, i - 1, t)[1], LineRange(ix, i - 1, t)[2]),
                     LineRange(ix, i - 1, t)[1])]
      /\ row + 1 \in 1..C + 1 /\ (row + 1) - 1 = row
  BY <1>1 DEF IndexLines
<1>6. row \in 0..C
  OBVIOUS
<1> HIDE DEF C, ix
<1>7. LineRange(ix, row, t) = <<Bytes(t, b), LineStart(ix, row + 1, t)>>
  <2>1. row # Len(ix.starts) /\ ix.starts[row + 1] = Bytes(t, b)
    BY <1>1, <1>6
  <2> QED  BY <2>1 DEF LineRange, LineStart
<1>8. LineStart(ix, row + 1, t) = Bytes(t, e)
  <2>1. CASE row = C
    BY <1>1, <1>6, <2>1, BytesFacts DEF LineStart
  <2>2. CASE row # C
    <3>1. row + 1 \in 0..C /\ row + 1 # Len(ix.starts)
      BY <1>1, <1>6, <2>2
    <3> QED  BY <1>1, <2>2, <3>1 DEF LineStart
  <2> QED  BY <2>1, <2>2
<1>9. /\ b \in 0..Len(t) /\ e \in b..Len(t) /\ (row # C => b < e /\ e \in Breaks(t))
      /\ \A k \in Breaks(t) : ~ (b < k /\ k < e)
  <2>1. b \in 0..Len(t) /\ Rows(t, b) = row
    BY <1>3, <1>6
  <2>2. CASE row = C
    <3>1. ASSUME NEW k \in Breaks(t), b < k, k < e PROVE FALSE
      <4>1. e = Len(t) /\ e \in b..Len(t)
        BY <1>2, <2>1, <2>2
      <4>2. Rows(t, b) = Rows(t, e)
        BY <1>2, <2>1, <2>2, <4>1
      <4> QED  BY <1>2, <2>1, <3>1, <4>1, <4>2
    <3> QED  BY <1>2, <2>1, <2>2, <3>1
  <2>3. CASE row # C
    <3>1. row + 1 \in 0..C /\ e = RowBegin(t, row + 1)
      BY <1>1, <1>6, <2>3
    <3>2. e \in 0..Len(t) /\ Rows(t, e) = row + 1 /\ e \in {0} \cup Breaks(t)
          /\ \A n \in 0..Len(t) : e <= n <=> row + 1 <= Rows(t, n)
      BY <1>3, <3>1
    <3>3. ~ (e <= b) /\ row \in Nat
      BY <1>1, <1>6, <2>1, <3>2
    <3>4. b < e /\ e \in Breaks(t)
      BY <2>1, <3>2, <3>3
    <3>5. ASSUME NEW k \in Breaks(t), b < k, k < e PROVE FALSE
      <4>1. k \in b..Len(t) /\ k \in 0..Len(t)
        BY <1>2, <2>1, <3>5
      <4>2. Rows(t, b) # Rows(t, k) /\ Rows(t, b) <= Rows(t, k) /\ Rows(t, k) \in Nat
        BY <1>1, <1>2, <2>1, <3>5, <4>1
      <4>3. row + 1 <= Rows(t, k)
        BY <2>1, <3>3, <4>2
      <4> QED  BY <1>2, <3>2, <3>5, <4>1, <4>3
    <3> QED  BY <1>2, <2>1, <2>3, <3>2, <3>4, <3>5
  <2> QED  BY <2>2, <2>3
<1>10. Slice(t, Bytes(t, b), Bytes(t, e)) = SubSeq(t, b + 1, e)
  <2>1. b \in 0..Len(t) /\ e \in 0..Len(t)
    BY <1>9
  <2> QED  BY <2>1, Slices
<1>11. b = 0 <=> row = 0
  <2>1. 0 \in 0..Len(t) /\ row \in Nat /\ b \in 0..Len(t) /\ Rows(t, b) = row
        /\ \A n \in 0..Len(t) : b <= n <=> row <= Rows(t, n)
    BY <1>1, <1>2, <1>3, <1>6
  <2> HIDE DEF b
  <2> QED  BY <1>2, <2>1
<1>12. b \in {0} \cup Breaks(t)
  BY <1>3, <1>6
<1>13. IndexLines(t)[row + 1] = Line(SubSeq(t, b + 1, e), Bytes(t, b))
  <2> HIDE DEF b, e
  <2>1. row + 1 \in DOMAIN ix.starts
    BY <1>4, <1>5
  <2>2. IndexLines(t)[row + 1]
          = Line(Slice(t, LineRange(ix, row, t)[1], LineRange(ix, row, t)[2]), LineRange(ix, row, t)[1])
    BY <1>5, <2>1
  <2>3. LineRange(ix, row, t)[1] = Bytes(t, b) /\ LineRange(ix, row, t)[2] = Bytes(t, e)
    BY <1>7, <1>8
  <2> QED  BY <1>10, <2>2, <2>3
<1>14. DOMAIN IndexLines(t) = 1..C + 1
  BY <1>4, <1>5
<1> QED  BY <1>9, <1>11, <1>12, <1>13, <1>14 DEF C

IsList(s, n) == s = [i \in 1..n |-> s[i]]

LEMMA OneMore ==
    ASSUME NEW n \in Nat, NEW s, NEW u, NEW x,
           IsList(s, n), IsList(u, n + 1),
           \A i \in 1..n : u[i] = s[i], u[n + 1] = x
    PROVE  u = s \o <<x>>
<1>0. s = [i \in 1..n |-> s[i]] /\ u = [i \in 1..n + 1 |-> u[i]]
  BY Zenon DEF IsList
<1>1. Len(s) = n /\ Len(<<x>>) = 1 /\ <<x>>[1] = x
  BY <1>0
<1>2. s \o <<x>> = [i \in 1..n + 1 |-> IF i <= n THEN s[i] ELSE <<x>>[i - n]]
  BY <1>0, <1>1
<1>3. ASSUME NEW i \in 1..n + 1 PROVE u[i] = IF i <= n THEN s[i] ELSE <<x>>[i - n]
  <2>1. CASE i <= n
    <3>1. i \in 1..n
      BY <2>1
    <3>2. u[i] = s[i]
      BY <3>1
    <3> QED  BY <2>1, <3>2
  <2>2. CASE ~ (i <= n)
    <3>1. i = n + 1 /\ i - n = 1
      BY <2>2
    <3> QED  BY <1>1, <2>2, <3>1
  <2> QED  BY <2>1, <2>2
<1> QED  BY <1>0, <1>2, <1>3

LEMMA TextIsDivided ==
    ASSUME NEW t \in Seq(Chars), t # <<>>
    PROVE  \E N, s : /\ Divides(t, N, s)
                     /\ IndexLines(t) = [r \in 1..N |-> NthLine(t, s, r)] \o Trailing(t)
<1> DEFINE C == Cardinality(Breaks(t))
           N == IF RowBegin(t, C) = Len(t) THEN C ELSE C + 1
           s == [r \in 0..N |-> IF r = C + 1 THEN Len(t) ELSE RowBegin(t, r)]
           lines == [r \in 1..N |-> NthLine(t, s, r)]
<1>1. C \in Nat /\ Len(t) \in Nat \ {0} /\ Breaks(t) \in SUBSET (1..Len(t))
  BY IndexFacts, RowsFacts
<1>2. ASSUME NEW row \in 0..C
      PROVE  LET b == RowBegin(t, row)
                 e == IF row = C THEN Len(t) ELSE RowBegin(t, row + 1)
             IN  /\ DOMAIN IndexLines(t) = 1..C + 1
                 /\ IndexLines(t)[row + 1] = Line(SubSeq(t, b + 1, e), Bytes(t, b))
                 /\ b \in {0} \cup Breaks(t) /\ b \in 0..Len(t) /\ e \in b..Len(t)
                 /\ row # C => b < e /\ e \in Breaks(t)
                 /\ \A k \in Breaks(t) : ~ (b < k /\ k < e)
                 /\ b = 0 <=> row = 0
  BY IndexLinesAre
<1> HIDE DEF C
<1>3. N \in Nat \ {0}
  <2>1. C = 0 => RowBegin(t, C) = 0
    BY <1>1, <1>2
  <2> QED  BY <1>1, <2>1
<1>4. ASSUME NEW r \in 0..N - 1
      PROVE  /\ r \in 0..C /\ r \in 0..N /\ r + 1 \in 0..N
             /\ s[r] = RowBegin(t, r)
             /\ s[r + 1] = IF r = C THEN Len(t) ELSE RowBegin(t, r + 1)
             /\ s[r] < s[r + 1]
  <2>1. r \in 0..C /\ r \in 0..N /\ r + 1 \in 0..N /\ r # C + 1 /\ (r + 1 = C + 1 <=> r = C)
    BY <1>1, <1>3
  <2>2. s[r] = RowBegin(t, r) /\ s[r + 1] = IF r = C THEN Len(t) ELSE RowBegin(t, r + 1)
    BY <2>1
  <2>3. s[r] < s[r + 1]
    <3>1. CASE r = C
      <4>1. N # C
        BY <1>1, <3>1
      <4>2. RowBegin(t, C) # Len(t) /\ RowBegin(t, C) \in 0..Len(t)
        BY <1>2, <2>1, <3>1, <4>1
      <4> QED  BY <1>1, <2>2, <3>1, <4>2
    <3>2. CASE r # C
      BY <1>2, <2>1, <2>2, <3>2
    <3> QED  BY <3>1, <3>2
  <2> QED  BY <2>1, <2>2, <2>3
<1>5. s[0] = 0 /\ s[N] = Len(t) /\ s \in [0..N -> 0..Len(t)]
  <2>1. 0 \in 0..N /\ N \in 0..N /\ 0 # C + 1 /\ 0 \in 0..C
    BY <1>1, <1>3
  <2>2. ASSUME NEW r \in 0..N PROVE s[r] \in 0..Len(t)
    <3>1. CASE r = C + 1
      BY <1>1, <3>1
    <3>2. CASE r # C + 1
      <4>1. r \in 0..C
        BY <1>1, <3>2
      <4> QED  BY <1>2, <3>2, <4>1
    <3> QED  BY <3>1, <3>2
  <2>3. s[0] = 0
    BY <1>2, <2>1
  <2>4. s[N] = Len(t)
    BY <1>1, <2>1
  <2> QED  BY <2>2, <2>3, <2>4
<1>6. ASSUME NEW r \in 0..N - 1
      PROVE  /\ s[r] \in {0} \cup Breaks(t)
             /\ \A k \in Breaks(t) : ~ (s[r] < k /\ k < s[r + 1])
             /\ r + 1 \in 1..N /\ IndexLines(t)[r + 1] = lines[r + 1]
  <2>1. /\ r \in 0..C /\ s[r] = RowBegin(t, r) /\ r + 1 \in 1..N /\ (r + 1) - 1 = r
        /\ s[r + 1] = IF r = C THEN Len(t) ELSE RowBegin(t, r + 1)
    BY <1>3, <1>4
  <2>2. /\ s[r] \in {0} \cup Breaks(t)
        /\ \A k \in Breaks(t) : ~ (s[r] < k /\ k < s[r + 1])
        /\ IndexLines(t)[r + 1] = Line(SubSeq(t, s[r] + 1, s[r + 1]), Bytes(t, s[r]))
    <3> HIDE DEF s
    <3> QED  BY <1>2, <2>1
  <2>3. lines[r + 1] = NthLine(t, s, r + 1)
    BY <2>1
  <2>4. NthLine(t, s, r + 1) = Line(SubSeq(t, s[r] + 1, s[r + 1]), Bytes(t, s[r]))
    BY <2>1 DEF NthLine
  <2> QED  BY <2>1, <2>2, <2>3, <2>4
<1>7. DOMAIN IndexLines(t) = 1..C + 1
  <2>1. 0 \in 0..C
    BY <1>1
  <2> QED  BY <1>2, <2>1
<1>8. Divides(t, N, s)
  <2> HIDE DEF N, s
  <2> QED  BY <1>3, <1>4, <1>5, <1>6 DEF Divides
<1>9. N = C <=> t # <<>> /\ IsNewline(Last(t))
  <2>1. C \in 0..C /\ Last(t) = t[Len(t)]
    BY <1>1 DEF Last
  <2>2. RowBegin(t, C) \in {0} \cup Breaks(t) /\ RowBegin(t, C) \in 0..Len(t)
        /\ \A k \in Breaks(t) : ~ (RowBegin(t, C) < k /\ k < Len(t))
        /\ C # 0 => RowBegin(t, C) # 0
    BY <1>2, <2>1
  <2>3. Len(t) \in Breaks(t) <=> IsNewline(Last(t))
    <3>1. Len(t) \in 1..Len(t)
      BY <1>1
    <3>2. Len(t) \in Newlines(t) <=> IsNewline(Last(t))
      BY <2>1, <3>1 DEF Newlines
    <3> QED  BY <3>2, NewlinesAre
  <2>4. Len(t) \in Breaks(t) => RowBegin(t, C) = Len(t)
    <3> SUFFICES ASSUME Len(t) \in Breaks(t) PROVE RowBegin(t, C) = Len(t)
      OBVIOUS
    <3>1. /\ RowBegin(t, C) \in 0..Len(t)
          /\ \A n \in 0..Len(t) : RowBegin(t, C) <= n <=> C <= Rows(t, n)
      BY <1>1, RowBeginFacts DEF C
    <3>2. Rows(t, RowBegin(t, C)) = C /\ Rows(t, Len(t)) = C
      BY <1>1, RowBeginFacts, RowsFacts DEF C
    <3>3. ~ \E k \in Breaks(t) : RowBegin(t, C) < k /\ k <= Len(t)
      <4>1. Len(t) \in RowBegin(t, C)..Len(t)
        BY <3>1
      <4> QED  BY <3>1, <3>2, <4>1, RowsFacts
    <3> QED  BY <1>1, <3>1, <3>3
  <2>5. RowBegin(t, C) = Len(t) => Len(t) \in Breaks(t)
    BY <1>1, <2>2
  <2> QED  BY <1>1, <2>3, <2>4, <2>5
<1>10. IndexLines(t) = lines \o Trailing(t)
  <2>0. lines = [r \in 1..N |-> lines[r]] /\ DOMAIN lines = 1..N /\ Len(lines) = N
    BY <1>3
  <2>1. \A r \in 1..N : IndexLines(t)[r] = lines[r]
    <3> SUFFICES ASSUME NEW r \in 1..N PROVE IndexLines(t)[r] = lines[r]
      OBVIOUS
    <3>1. r - 1 \in 0..N - 1 /\ (r - 1) + 1 = r
      BY <1>3
    <3> HIDE DEF lines, N, s
    <3>2. IndexLines(t)[(r - 1) + 1] = lines[(r - 1) + 1]
      BY ONLY <1>6, <3>1
    <3> QED  BY <3>1, <3>2
  <2>2. IndexLines(t) = [r \in 1..C + 1 |-> IndexLines(t)[r]]
    BY <1>7 DEF IndexLines
  <2>3. CASE N = C
    <3>1. Trailing(t) = <<Line(<<>>, TextLen(t))>>
      BY <1>9, <2>3 DEF Trailing
    <3>2. IndexLines(t)[C + 1] = Line(<<>>, TextLen(t))
      <4>1. C \in 0..C /\ RowBegin(t, C) = Len(t)
        BY <1>1, <2>3
      <4>2. IndexLines(t)[C + 1] = Line(SubSeq(t, Len(t) + 1, Len(t)), Bytes(t, Len(t)))
        BY <1>2, <4>1
      <4>3. SubSeq(t, Len(t) + 1, Len(t)) = <<>>
        BY <1>1
      <4> QED  BY <4>2, <4>3, BytesFacts
    <3>3. IndexLines(t) = lines \o <<Line(<<>>, TextLen(t))>>
      <4> HIDE DEF lines, N, s
      <4> DEFINE u == IndexLines(t)
                 x == Line(<<>>, TextLen(t))
      <4>1. /\ IsList(lines, C) /\ IsList(u, C + 1)
            /\ \A i \in 1..C : u[i] = lines[i]
            /\ u[C + 1] = x
        BY <2>0, <2>1, <2>2, <2>3, <3>2 DEF IsList
      <4> HIDE DEF u, x
      <4>2. u = lines \o <<x>>
        BY <1>1, <4>1, OneMore
      <4> QED  BY <4>2 DEF u, x
    <3> QED  BY <3>1, <3>3
  <2>4. CASE N # C
    <3>1. Trailing(t) = <<>> /\ N = C + 1
      BY <1>9, <2>4 DEF Trailing
    <3> HIDE DEF lines, N, s
    <3> QED  BY <1>1, <2>0, <2>1, <2>2, <2>4, <3>1
  <2> QED  BY <2>3, <2>4
<1> HIDE DEF N, s
<1> QED  BY <1>8, <1>10
-----------------------------------------------------------------------------
(* The first line break behind a position that is not inside one.          *)
LEMMA NewlinesOfPart ==
    ASSUME NEW t \in Seq(Chars), NEW i \in 0..Len(t), NEW j \in i..Len(t)
    PROVE  /\ Newlines(SubSeq(t, i + 1, j)) = {k \in 1..j - i : i + k \in Newlines(t)}
           /\ Len(SubSeq(t, i + 1, j)) = j - i
           /\ \A k \in 1..j - i : SubSeq(t, i + 1, j)[k] = t[i + k]
<1>1. /\ SubSeq(t, i + 1, j) \in Seq(Chars) /\ Len(SubSeq(t, i + 1, j)) = j - i
      /\ \A k \in 1..j - i : SubSeq(t, i + 1, j)[k] = t[i + k]
  BY Part
<1>2. \A k \in 1..j - i : i + k \in DOMAIN t
  OBVIOUS
<1>3. DOMAIN SubSeq(t, i + 1, j) = 1..j - i
  BY <1>1
<1> QED  BY <1>1, <1>2, <1>3 DEF Newlines

LEMMA NewlineSize ==
    ASSUME NEW t \in Seq(Chars), NEW n \in Newlines(t)
    PROVE  n \in 1..Len(t) /\ Bytes(t, n) = Bytes(t, n - 1) + 1
<1>1. n \in 1..Len(t) /\ LenUtf8[t[n]] = 1
  BY NewlinesAre
<1>2. LenUtf8 \in [Chars -> Nat]
  BY CharLengths
<1> QED  BY <1>1, <1>2, SizeUnfolds DEF Bytes

EndsAt(t, i, j, found) ==
    LET p == i + found.position
        e == p + found.len
    IN  /\ found.position \in Nat /\ found.len \in 0..2
        /\ p \in i..j /\ e \in p..j /\ (i < j => i < e)
        /\ \A k \in Breaks(t) : ~ (i < k /\ k < e)
        /\ found.len = 0 => p = j /\ \A k \in Newlines(t) : ~ (i < k /\ k <= j)
        /\ found.len # 0 => e \in Breaks(t) /\ Bytes(t, e) = Bytes(t, p) + found.len
        /\ found.len = 1 => ~ (i < p /\ t[p] = "cr" /\ t[e] = "nl")
        /\ found.len = 2 => t[p + 1] = "cr" /\ t[e] = "nl"

LEMMA FindNewlineIs ==
    ASSUME NEW t \in Seq(Chars), NEW i \in 0..Len(t), NEW j \in i..Len(t),
           j = Len(t) \/ j \in Breaks(t)
    PROVE  EndsAt(t, i, j, FindNewline(SubSeq(t, i + 1, j)))
<1> DEFINE s == SubSeq(t, i + 1, j)
           found == FindNewline(s)
<1> SUFFICES EndsAt(t, i, j, found)
  OBVIOUS
<1>1. /\ Newlines(s) = {k \in 1..j - i : i + k \in Newlines(t)} /\ Len(s) = j - i
      /\ \A k \in 1..j - i : s[k] = t[i + k]
  BY NewlinesOfPart
<1>2. /\ Newlines(t) \in SUBSET (1..Len(t)) /\ Breaks(t) \in SUBSET Newlines(t)
      /\ \A k \in Newlines(t) : k \notin Breaks(t) =>
                k < Len(t) /\ t[k] = "cr" /\ t[k + 1] = "nl" /\ k + 1 \in Breaks(t)
      /\ \A k \in Breaks(t) : k < Len(t) => ~ (t[k] = "cr" /\ t[k + 1] = "nl")
  BY NewlinesAre
<1>3. Len(t) \in Nat /\ i \in Nat /\ j \in Nat /\ j - i \in Nat
  OBVIOUS
<1> HIDE DEF s
<1>4. CASE Newlines(s) = {}
  <2>1. found.position = j - i /\ found.len = 0
    BY <1>1, <1>4 DEF FindNewline
  <2>2. ASSUME NEW k \in Newlines(t), i < k, k <= j PROVE FALSE
    <3>1. k - i \in 1..j - i /\ i + (k - i) = k
      BY <1>2, <1>3, <2>2
    <3>2. k - i \in Newlines(s)
      BY <1>1, <3>1
    <3> QED  BY <1>4, <3>2
  <2> HIDE DEF found
  <2>3. i + found.position = j /\ i + found.position + found.len = j
    BY <1>3, <2>1
  <2>4. ASSUME NEW k \in Breaks(t), i < k, k < j PROVE FALSE
    BY <1>2, <1>3, <2>2, <2>4
  <2> QED  BY <1>3, <2>1, <2>2, <2>3, <2>4 DEF EndsAt
<1>5. CASE Newlines(s) # {}
  <2>1. Newlines(s) \in SUBSET Nat /\ Newlines(s) \in SUBSET (1..j - i)
    BY <1>1
  <2> DEFINE m == CHOOSE k \in Newlines(s) : \A l \in Newlines(s) : k <= l
             pair == t[i + m] = "cr" /\ m < j - i /\ t[i + (m + 1)] = "nl"
  <2>2. m \in Newlines(s) /\ \A l \in Newlines(s) : m <= l
    <3>1. \E k \in Newlines(s) : \A l \in Newlines(s) : k <= l
      BY <1>5, <2>1, Least
    <3> QED  BY <3>1
  <2>3. found.position = m - 1 /\ found.len = IF s[m] = "cr" /\ m < Len(s) /\ s[m + 1] = "nl" THEN 2 ELSE 1
    BY <1>5 DEF FindNewline
  <2> HIDE DEF m, found
  <2>4. m \in 1..j - i /\ i + m \in Newlines(t) /\ i + m \in 1..Len(t) /\ i + m <= j /\ m \in Nat
    BY <1>1, <1>2, <1>3, <2>2
  <2>5. found.len = IF pair THEN 2 ELSE 1
    <3>1. s[m] = t[i + m]
      BY <1>1, <2>4
    <3>2. m < j - i => s[m + 1] = t[i + (m + 1)]
      <4> SUFFICES ASSUME m < j - i PROVE s[m + 1] = t[i + (m + 1)]
        OBVIOUS
      <4>1. m + 1 \in 1..j - i
        BY <1>3, <2>4
      <4> QED  BY <1>1, <4>1
    <3> QED  BY <1>1, <2>3, <3>1, <3>2
  <2>6. ASSUME NEW k \in Newlines(t), i < k, k <= j PROVE i + m <= k
    <3>1. k - i \in 1..j - i /\ i + (k - i) = k
      BY <1>2, <1>3, <2>6
    <3>2. m <= k - i
      BY <1>1, <2>2, <3>1
    <3> QED  BY <1>3, <2>4, <3>1, <3>2
  <2>7. i + found.position = i + m - 1 /\ found.position \in Nat
    BY <1>3, <2>3, <2>4
  <2>8. CASE pair
    <3>1. i + m < Len(t) /\ t[i + m] = "cr" /\ t[(i + m) + 1] = "nl" /\ i + m < j
          /\ i + (m + 1) = (i + m) + 1
      BY <1>3, <2>4, <2>8
    <3>2. i + m \notin Breaks(t) /\ (i + m) + 1 \in Breaks(t)
      BY <1>2, <2>4, <3>1
    <3>3. found.len = 2
      BY <2>5, <2>8
    <3>4. ASSUME NEW k \in Breaks(t), i < k, k < i + m + 1 PROVE FALSE
      <4>1. k \in Newlines(t) /\ k \in Nat /\ k <= j
        BY <1>2, <1>3, <2>4, <3>1, <3>4
      <4>2. i + m <= k
        BY <2>6, <3>4, <4>1
      <4>3. k = i + m
        BY <1>3, <2>4, <3>4, <4>1, <4>2
      <4> QED  BY <3>2, <4>3
    <3>5. Bytes(t, i + m + 1) = Bytes(t, i + m - 1) + 2
      <4>1. i + m + 1 \in Newlines(t) /\ (i + m + 1) - 1 = i + m
        BY <1>2, <1>3, <2>4, <3>2
      <4>2. Bytes(t, i + m + 1) = Bytes(t, i + m) + 1 /\ Bytes(t, i + m) = Bytes(t, i + m - 1) + 1
        BY <2>4, <4>1, NewlineSize
      <4>3. Bytes(t, i + m - 1) \in Nat
        <5>1. i + m - 1 \in 0..Len(t)
          BY <1>3, <2>4
        <5> QED  BY <5>1, BytesFacts
      <4> QED  BY <4>2, <4>3
    <3>6. i + found.position + found.len = i + m + 1 /\ (i + found.position) + 1 = i + m
      BY <1>3, <2>4, <2>7, <3>3
    <3>7. /\ i + m - 1 \in i..j /\ i + m + 1 \in i + m - 1..j /\ i < i + m + 1
      BY <1>3, <2>4, <3>1
    <3> QED  BY <2>7, <3>1, <3>2, <3>3, <3>4, <3>5, <3>6, <3>7, SMTT(30) DEF EndsAt
  <2>9. CASE ~ pair
    <3>1. found.len = 1
      BY <2>5, <2>9
    <3>2. i + m \in Breaks(t)
      <4> SUFFICES ASSUME i + m \notin Breaks(t) PROVE FALSE
        OBVIOUS
      <4>1. i + m < Len(t) /\ t[i + m] = "cr" /\ t[(i + m) + 1] = "nl" /\ i + (m + 1) = (i + m) + 1
        BY <1>2, <1>3, <2>4
      <4>2. ~ (m < j - i)
        BY <2>9, <4>1
      <4>3. i + m = j
        BY <1>3, <2>4, <4>2
      <4> QED  BY <4>1, <4>3
    <3>3. ASSUME NEW k \in Breaks(t), i < k, k < i + m PROVE FALSE
      <4>1. k \in Newlines(t) /\ k \in Nat /\ k <= j
        BY <1>2, <1>3, <2>4, <3>3
      <4>2. i + m <= k
        BY <2>6, <3>3, <4>1
      <4> QED  BY <1>3, <2>4, <3>3, <4>1, <4>2
    <3>4. i + found.position + found.len = i + m
      BY <1>3, <2>4, <2>7, <3>1
    <3>5. Bytes(t, i + m) = Bytes(t, i + m - 1) + 1
      BY <2>4, NewlineSize
    <3>6. ASSUME i < i + m - 1, t[i + m - 1] = "cr" PROVE FALSE
      <4>1. i + m - 1 \in DOMAIN t /\ i + m - 1 <= j
        BY <1>3, <2>4, <3>6
      <4>2. i + m - 1 \in Newlines(t)
        BY <3>6, <4>1 DEF Newlines, IsNewline
      <4>3. i + m <= i + m - 1
        BY <2>6, <3>6, <4>1, <4>2
      <4> QED  BY <1>3, <2>4, <4>3
    <3>7. i + m - 1 \in i..j /\ i + m \in i + m - 1..j /\ i < i + m
      BY <1>3, <2>4
    <3> QED  BY <2>7, <3>1, <3>2, <3>3, <3>4, <3>5, <3>6, <3>7 DEF EndsAt
  <2> QED  BY <2>8, <2>9
<1> QED  BY <1>4, <1>5

(* The last newline character before a position that is not inside a break *)
(* is the one before the line.                                             *)
LEMMA LastNewlineIs ==
    ASSUME NEW t \in Seq(Chars), NEW i \in {0} \cup Breaks(t), NEW m \in i..Len(t),
           i < m => ~ InsideBreak(t, m),
           NEW b \in 0..m, Begins(t, b, m)
    PROVE  LET before == Newlines(SubSeq(t, i + 1, m))
           IN  /\ b \in i..m
               /\ before = {} => b = i
               /\ before # {} =>
                    b - i \in before /\ i + (CHOOSE k \in before : \A l \in before : l <= k) = b
<1> DEFINE s == SubSeq(t, i + 1, m)
           before == Newlines(s)
<1>1. /\ Newlines(t) \in SUBSET (1..Len(t)) /\ Breaks(t) \in SUBSET Newlines(t)
      /\ \A k \in Newlines(t) : k \notin Breaks(t) =>
                k < Len(t) /\ t[k] = "cr" /\ t[k + 1] = "nl" /\ k + 1 \in Breaks(t)
  BY NewlinesAre
<1>2. i \in 0..Len(t) /\ Len(t) \in Nat /\ i \in Nat /\ m \in Nat /\ b \in Nat /\ m <= Len(t)
  BY <1>1
<1>3. before = {k \in 1..m - i : i + k \in Newlines(t)}
  BY <1>2, NewlinesOfPart
<1> HIDE DEF before
<1>4. b \in {0} \cup Breaks(t) /\ \A k \in Breaks(t) : k <= m => k <= b
  BY DEF Begins
<1>5. b \in i..m
  BY <1>2, <1>4
<1>6. ASSUME NEW k \in Newlines(t), i < k, k <= m PROVE k <= b
  <2>1. CASE k \in Breaks(t)
    BY <1>4, <1>6, <2>1
  <2>2. CASE k \notin Breaks(t)
    <3>1. k \in Nat /\ k < Len(t) /\ t[k] = "cr" /\ t[k + 1] = "nl" /\ k + 1 \in Breaks(t)
      BY <1>1, <2>2
    <3>2. k # m
      <4> SUFFICES ASSUME k = m PROVE FALSE
        OBVIOUS
      <4>1. InsideBreak(t, m)
        <5>1. m \in 1..Len(t) - 1
          BY <1>2, <1>6, <3>1
        <5> QED  BY <3>1, <5>1 DEF InsideBreak
      <4> QED  BY <1>6, <4>1
    <3>3. k + 1 <= m
      BY <1>2, <1>6, <3>1, <3>2
    <3>4. k + 1 <= b
      BY <1>4, <3>1, <3>3
    <3> QED  BY <1>2, <3>1, <3>4
  <2> QED  BY <2>1, <2>2
<1>7. b # i => b - i \in before
  <2> SUFFICES ASSUME b # i PROVE b - i \in before
    OBVIOUS
  <2>1. b \in Newlines(t)
    BY <1>1, <1>2, <1>4, <1>5
  <2>2. b - i \in 1..m - i /\ i + (b - i) = b
    BY <1>2, <1>5
  <2> QED  BY <1>3, <2>1, <2>2
<1>8. ASSUME NEW k \in before PROVE k \in Nat /\ k <= b - i /\ b # i
  <2>1. k \in 1..m - i /\ i + k \in Newlines(t)
    BY <1>3
  <2>2. i < i + k /\ i + k <= m
    BY <1>2, <2>1
  <2>3. i + k <= b
    BY <1>6, <2>1, <2>2
  <2> QED  BY <1>2, <2>1, <2>3
<1>9. before # {} => (CHOOSE k \in before : \A l \in before : l <= k) = b - i
  <2> SUFFICES ASSUME before # {} PROVE (CHOOSE k \in before : \A l \in before : l <= k) = b - i
    OBVIOUS
  <2>1. b - i \in before
    BY <1>7, <1>8
  <2>2. ASSUME NEW k \in before, \A l \in before : l <= k PROVE k = b - i
    BY <1>2, <1>8, <2>1, <2>2
  <2> QED  BY <1>8, <2>1, <2>2
<1>10. i + (b - i) = b
  BY <1>2
<1> QED  BY <1>5, <1>7, <1>8, <1>9, <1>10 DEF before
-----------------------------------------------------------------------------
(* The iterator over lines: p lines taken from the front, those behind the *)
(* q-th from the back.                                                     *)
LEMMA PartOfPart ==
    ASSUME NEW t \in Seq(Chars), NEW i \in 0..Len(t), NEW j \in i..Len(t),
           NEW a \in 0..j - i, NEW b \in a..j - i
    PROVE  SubSeq(SubSeq(t, i + 1, j), a + 1, b) = SubSeq(t, i + a + 1, i + b)
<1> DEFINE s == SubSeq(t, i + 1, j)
<1>1. s \in Seq(Chars) /\ Len(s) = j - i /\ \A k \in 1..j - i : s[k] = t[i + k]
  BY Part
<1> HIDE DEF s
<1>2. a \in 0..Len(s) /\ b \in a..Len(s)
  BY <1>1
<1> DEFINE u == SubSeq(s, a + 1, b)
           v == SubSeq(t, (i + a) + 1, i + b)
<1>3. u \in Seq(Chars) /\ Len(u) = b - a /\ \A k \in 1..b - a : u[k] = s[a + k]
  BY <1>1, <1>2, Part
<1>4. i + a \in 0..Len(t) /\ i + b \in i + a..Len(t) /\ (i + b) - (i + a) = b - a
  OBVIOUS
<1>5. v \in Seq(Chars) /\ Len(v) = b - a /\ \A k \in 1..b - a : v[k] = t[(i + a) + k]
  <2>1. v \in Seq(Chars) /\ Len(v) = (i + b) - (i + a)
        /\ \A k \in 1..(i + b) - (i + a) : v[k] = t[(i + a) + k]
    BY <1>4, Part
  <2> HIDE DEF v
  <2> QED  BY <1>4, <2>1
<1> HIDE DEF u, v
<1>6. ASSUME NEW k \in 1..b - a PROVE u[k] = v[k]
  <2>1. a + k \in 1..j - i /\ i + (a + k) = (i + a) + k
    OBVIOUS
  <2> QED  BY <1>1, <1>3, <1>5, <2>1
<1>7. u = v
  BY <1>3, <1>5, <1>6, SeqEqual
<1> QED  BY <1>7 DEF u, v, s

LEMMA LengthOfPart ==
    ASSUME NEW t \in Seq(Chars), NEW i \in 0..Len(t), NEW j \in i..Len(t)
    PROVE  /\ TextLen(SubSeq(t, i + 1, j)) = Bytes(t, j) - Bytes(t, i)
           /\ Bytes(t, i) + TextLen(SubSeq(t, i + 1, j)) = Bytes(t, j)
           /\ Bytes(t, j) - TextLen(SubSeq(t, i + 1, j)) = Bytes(t, i)
<1>1. LenUtf8 \in [Chars -> Nat] /\ j - i \in 0..j - i /\ i + (j - i) = j
  BY CharLengths
<1>2. Len(SubSeq(t, i + 1, j)) = j - i
  BY Part
<1>3. TextLen(SubSeq(t, i + 1, j)) = Bytes(t, j) - Bytes(t, i)
  BY <1>1, <1>2, SizeOfPart DEF TextLen, Bytes
<1>4. Bytes(t, i) \in Nat /\ Bytes(t, j) \in Nat
  <2>1. j \in 0..Len(t)
    OBVIOUS
  <2> QED  BY <2>1, BytesFacts
<1> QED  BY <1>3, <1>4

LEMMA DivisionIncreases ==
    ASSUME NEW t \in Seq(Chars), NEW N, NEW s, Divides(t, N, s)
    PROVE  /\ \A p \in 0..N : p <= s[p]
           /\ \A p \in 0..N : \A q \in p..N : s[p] <= s[q] /\ (p < q => s[p] < s[q])
<1>1. /\ N \in Nat /\ s \in [0..N -> 0..Len(t)] /\ s[0] = 0
      /\ \A r \in 0..N - 1 : s[r] < s[r + 1]
  BY DEF Divides
<1>2. ASSUME NEW p \in 0..N, NEW q \in p..N PROVE s[p] + (q - p) <= s[q]
  <2> DEFINE T == {d \in 0..N - p : s[p] + d <= s[p + d]}
  <2>1. 0 \in T
    BY <1>1
  <2>2. ASSUME NEW d \in 0..(N - p) - 1, d \in T PROVE d + 1 \in T
    <3>1. p + d \in 0..N - 1 /\ (p + d) + 1 = p + (d + 1) /\ d + 1 \in 0..N - p
      BY <1>1
    <3>2. s[p + d] < s[p + (d + 1)] /\ s[p + d] \in Nat /\ s[p + (d + 1)] \in Nat /\ s[p] \in Nat
      BY <1>1, <3>1
    <3> QED  BY <2>2, <3>1, <3>2, SMTT(30)
  <2>3. N - p \in Nat /\ q - p \in 0..N - p /\ p + (q - p) = q
    BY <1>1
  <2>4. \A d \in 0..N - p : d \in T
    <3> HIDE DEF T
    <3> QED  BY <2>1, <2>2, <2>3, UpTo
  <2> QED  BY <2>3, <2>4
<1>3. ASSUME NEW p \in 0..N PROVE p <= s[p]
  <2>1. 0 \in 0..N /\ p \in 0..N
    BY <1>1
  <2>2. s[0] + (p - 0) <= s[p] /\ p - 0 = p /\ 0 + p = p
    BY <1>2, <2>1
  <2> QED  BY <1>1, <2>2
<1>4. ASSUME NEW p \in 0..N, NEW q \in p..N PROVE s[p] <= s[q] /\ (p < q => s[p] < s[q])
  <2>1. s[p] + (q - p) <= s[q]
    BY <1>2
  <2>2. p \in Nat /\ q \in Nat /\ q \in 0..N /\ p <= q
    BY <1>1
  <2>3. s[p] \in Nat /\ s[q] \in Nat
    BY <1>1, <2>2
  <2> QED  BY <2>1, <2>2, <2>3
<1> QED  BY <1>3, <1>4

LEMMA CutsAre ==
    ASSUME NEW t \in Seq(Chars), NEW N, NEW s, Divides(t, N, s), NEW p \in 0..N, NEW q \in p..N
    PROVE  /\ s[p] \in 0..Len(t) /\ s[q] \in s[p]..Len(t) /\ s[p] \in Nat /\ s[q] \in Nat
           /\ p < q => s[p] < s[q] /\ s[q] # 0 /\ s[q] \in {Len(t)} \cup Breaks(t)
<1>1. /\ N \in Nat /\ s \in [0..N -> 0..Len(t)] /\ s[N] = Len(t)
      /\ \A r \in 0..N - 1 : s[r] \in {0} \cup Breaks(t)
  BY DEF Divides
<1>2. p \in Nat /\ q \in 0..N /\ p <= q /\ Len(t) \in Nat
  BY <1>1
<1>3. s[p] \in 0..Len(t) /\ s[q] \in 0..Len(t)
  BY <1>1, <1>2
<1>4. s[p] <= s[q] /\ (p < q => s[p] < s[q])
  BY DivisionIncreases
<1>5. q # N => s[q] \in {0} \cup Breaks(t)
  <2> SUFFICES ASSUME q # N PROVE s[q] \in {0} \cup Breaks(t)
    OBVIOUS
  <2>1. q \in 0..N - 1
    BY <1>1, <1>2
  <2> QED  BY <1>1, <2>1
<1>6. p < q => s[q] # 0
  BY <1>2, <1>3, <1>4, SMTT(30)
<1> QED  BY <1>1, <1>2, <1>3, <1>4, <1>5, <1>6

IsIterator(it, a, b, c, d, e) ==
    /\ DOMAIN it = {"text", "offset", "offset_back", "front", "back"}
    /\ it.text = a /\ it.offset = b /\ it.offset_back = c /\ it.front = d /\ it.back = e

LEMMA IteratorFields ==
    ASSUME NEW it, NEW a, NEW b, NEW c, NEW d, NEW e, IsIterator(it, a, b, c, d, e)
    PROVE  /\ it.text = a /\ it.offset = b /\ it.offset_back = c /\ it.front = d /\ it.back = e
           /\ \A x, y, z :
                /\ IsIterator([it EXCEPT !.text = x, !.offset = y, !.front = z], x, y, c, z, e)
                /\ IsIterator([it EXCEPT !.text = x, !.offset_back = y, !.back = z], x, b, y, d, z)
<1>1. /\ it.text = a /\ it.offset = b /\ it.offset_back = c /\ it.front = d /\ it.back = e
  BY DEF IsIterator
<1>2. DOMAIN it = {"text", "offset", "offset_back", "front", "back"}
  BY DEF IsIterator
<1>3. ASSUME NEW x, NEW y, NEW z
      PROVE  IsIterator([it EXCEPT !.text = x, !.offset = y, !.front = z], x, y, c, z, e)
  BY <1>1, <1>2 DEF IsIterator
<1>4. ASSUME NEW x, NEW y, NEW z
      PROVE  IsIterator([it EXCEPT !.text = x, !.offset_back = y, !.back = z], x, b, y, d, z)
  BY <1>1, <1>2 DEF IsIterator
<1> QED  BY <1>1, <1>3, <1>4

Took(t, N, s, p, q, it) ==
    /\ p \in 0..N /\ q \in p..N
    /\ IsIterator(it, SubSeq(t, s[p] + 1, s[q]), it.offset, it.offset_back,
                  [r \in 1..p |-> NthLine(t, s, r)], [r \in 1..N - q |-> NthLine(t, s, q + r)])
    /\ p < q => it.offset = Bytes(t, s[p]) /\ it.offset_back = Bytes(t, s[q])

LEMMA OneMoreInFront ==
    ASSUME NEW t, NEW s, NEW p \in Nat
    PROVE  Append([r \in 1..p |-> NthLine(t, s, r)], NthLine(t, s, p + 1))
             = [r \in 1..p + 1 |-> NthLine(t, s, r)]
<1> DEFINE f == [r \in 1..p |-> NthLine(t, s, r)]
           g == [r \in 1..p + 1 |-> NthLine(t, s, r)]
           x == NthLine(t, s, p + 1)
<1>1. Len(f) = p
  OBVIOUS
<1>2. \A r \in 1..p : f[r] = g[r]
  OBVIOUS
<1>3. g[p + 1] = x
  OBVIOUS
<1>4. g = [r \in 1..p + 1 |-> g[r]]
  OBVIOUS
<1>5. f = [r \in 1..p |-> f[r]]
  OBVIOUS
<1> HIDE DEF f, g, x
<1>6. IsList(f, p) /\ IsList(g, p + 1)
  BY <1>4, <1>5 DEF IsList
<1>7. g = f \o <<x>>
  BY <1>2, <1>3, <1>6, OneMore
<1>8. Append(f, x) = f \o <<x>>
  BY <1>1, <1>5
<1> QED  BY <1>7, <1>8 DEF f, g, x

LEMMA OneMoreBehind ==
    ASSUME NEW t, NEW s, NEW n \in Nat, NEW q \in Nat
    PROVE  <<NthLine(t, s, q + 1)>> \o [r \in 1..n |-> NthLine(t, s, q + 1 + r)]
             = [r \in 1..n + 1 |-> NthLine(t, s, q + r)]
<1> DEFINE f == [r \in 1..n |-> NthLine(t, s, q + 1 + r)]
           g == [r \in 1..n + 1 |-> NthLine(t, s, q + r)]
           x == NthLine(t, s, q + 1)
<1>1. Len(f) = n /\ Len(<<x>>) = 1 /\ <<x>>[1] = x
  OBVIOUS
<1>2. <<x>> \o f = [r \in 1..n + 1 |-> IF r <= 1 THEN <<x>>[r] ELSE f[r - 1]]
  <2> HIDE DEF f, x
  <2>1. 1 + n = n + 1
    OBVIOUS
  <2> QED  BY <1>1, <2>1
<1>3. ASSUME NEW r \in 1..n + 1 PROVE g[r] = IF r <= 1 THEN <<x>>[r] ELSE f[r - 1]
  <2>1. CASE r <= 1
    <3>1. r = 1
      BY <2>1
    <3> QED  BY <1>1, <3>1
  <2>2. CASE ~ (r <= 1)
    <3>1. r - 1 \in 1..n /\ q + 1 + (r - 1) = q + r
      BY <2>2
    <3>2. f[r - 1] = NthLine(t, s, q + 1 + (r - 1))
      BY <3>1
    <3> QED  BY <2>2, <3>1, <3>2
  <2> QED  BY <2>1, <2>2
<1>4. g = [r \in 1..n + 1 |-> g[r]]
  OBVIOUS
<1> HIDE DEF f, g, x
<1>5. g = <<x>> \o f
  BY <1>2, <1>3, <1>4
<1> QED  BY <1>5 DEF f, g, x

LEMMA FrontStep ==
    ASSUME NEW t \in Seq(Chars), NEW N, NEW s, Divides(t, N, s),
           NEW p, NEW q, NEW it, Took(t, N, s, p, q, it)
    PROVE  /\ p = q => NextFront(it) = it
           /\ p < q => Took(t, N, s, p + 1, q, NextFront(it))
<1>1. /\ N \in Nat \ {0} /\ s \in [0..N -> 0..Len(t)] /\ s[0] = 0 /\ s[N] = Len(t)
      /\ \A r \in 0..N - 1 : s[r] < s[r + 1] /\ s[r] \in {0} \cup Breaks(t)
      /\ \A r \in 0..N - 1 : \A k \in Breaks(t) : ~ (s[r] < k /\ k < s[r + 1])
  BY DEF Divides
<1>2. p \in 0..N /\ q \in p..N /\ q \in 0..N /\ Len(t) \in Nat
  BY <1>1 DEF Took
<1> DEFINE i == s[p]
           j == s[q]
           part == SubSeq(t, i + 1, j)
           front == [r \in 1..p |-> NthLine(t, s, r)]
           back == [r \in 1..N - q |-> NthLine(t, s, q + r)]
           found == FindNewline(part)
           n == found.position + found.len
           e == i + n
<1>3. /\ IsIterator(it, part, it.offset, it.offset_back, front, back)
      /\ p < q => it.offset = Bytes(t, i) /\ it.offset_back = Bytes(t, j)
  BY DEF Took
<1>4. /\ i \in 0..Len(t) /\ j \in i..Len(t) /\ i \in Nat /\ j \in Nat
      /\ p < q => i < j /\ j # 0 /\ j \in {Len(t)} \cup Breaks(t)
  BY <1>2, CutsAre
<1>5. Len(part) = j - i
  BY <1>4, Part
<1>6. CASE p = q
  <2>1. part = <<>>
    BY <1>4, <1>5, <1>6, SMTT(30)
  <2>2. it.text = <<>>
    <3> HIDE DEF part, front, back
    <3> QED  BY <1>3, <2>1, IteratorFields, ZenonT(60)
  <2>3. NextFront(it) = it
    BY <2>2 DEF NextFront
  <2> QED  BY <1>2, <1>6, <2>3
<1>7. CASE p < q
  <2>1. j = Len(t) \/ j \in Breaks(t)
    BY <1>4, <1>7
  <2>2. EndsAt(t, i, j, found)
    <3> HIDE DEF i, j
    <3> QED  BY <1>4, <2>1, FindNewlineIs
  <2> HIDE DEF found
  <2>3. /\ found.position \in Nat /\ found.len \in 0..2 /\ e \in i..j /\ i < e
        /\ \A k \in Breaks(t) : ~ (i < k /\ k < e)
        /\ found.len = 0 => e = j
        /\ found.len # 0 => e \in Breaks(t)
    <3>1. i + found.position + found.len = e /\ i \in Nat /\ j \in Nat
      BY <1>4, <2>2, SMTT(30) DEF EndsAt
    <3> QED  BY <1>4, <1>7, <2>2, <3>1 DEF EndsAt
  <2>4. p \in 0..N - 1 /\ p + 1 \in 0..N /\ q \in p + 1..N /\ s[p + 1] \in 0..Len(t)
    BY <1>1, <1>2, <1>7
  <2>5. s[p + 1] = e
    <3>1. s[p + 1] <= j /\ i < s[p + 1]
      BY <1>1, <2>4, DivisionIncreases
    <3>2. ~ (e < s[p + 1])
      <4>1. e \in Breaks(t) \/ e = j
        BY <2>3
      <4>2. \A k \in Breaks(t) : ~ (i < k /\ k < s[p + 1])
        BY <1>1, <2>4
      <4> QED  BY <1>4, <2>3, <2>4, <3>1, <4>1, <4>2
    <3>3. ~ (s[p + 1] < e)
      <4>1. s[p + 1] \in {Len(t)} \cup Breaks(t)
        <5>1. p < p + 1 /\ p + 1 \in p..N
          BY <1>1, <2>4
        <5> QED  BY <1>2, <5>1, CutsAre
      <4> QED  BY <1>2, <1>4, <2>3, <2>4, <3>1, <4>1
    <3>4. e \in Nat /\ s[p + 1] \in Nat
      BY <1>4, <2>3, <2>4
    <3> HIDE DEF e
    <3> QED  BY <3>2, <3>3, <3>4
  <2>6. n \in 0..j - i /\ 0 \in 0..j - i /\ n \in 0..n /\ i + 0 + 1 = i + 1 /\ n \in Nat
    BY <1>4, <2>3, SMTT(30)
  <2> DEFINE line == Line(SubSeq(part, 1, n), it.offset)
             offset == IF found.len = 0 THEN it.offset ELSE it.offset + TextLen(line.text)
  <2>7. SubSeq(part, 1, n) = SubSeq(t, i + 1, e) /\ SubSeq(part, n + 1, Len(part)) = SubSeq(t, e + 1, j)
    <3>1. SubSeq(part, 0 + 1, n) = SubSeq(t, i + 0 + 1, i + n)
      BY <1>4, <2>6, PartOfPart
    <3>2. j - i \in n..j - i /\ i + (j - i) = j
      BY <1>4, <2>6
    <3>3. SubSeq(part, n + 1, j - i) = SubSeq(t, i + n + 1, i + (j - i))
      BY <1>4, <2>6, <3>2, PartOfPart
    <3>4. 0 + 1 = 1
      OBVIOUS
    <3> HIDE DEF part, n, i, j
    <3> QED  BY <1>5, <2>6, <3>1, <3>2, <3>3, <3>4
  <2>8. line = NthLine(t, s, p + 1)
    <3>1. (p + 1) - 1 = p
      BY <1>2
    <3> HIDE DEF part, n
    <3> QED  BY <1>3, <1>7, <2>5, <2>7, <3>1 DEF NthLine
  <2>9. p + 1 < q => offset = Bytes(t, s[p + 1])
    <3> SUFFICES ASSUME p + 1 < q PROVE offset = Bytes(t, s[p + 1])
      OBVIOUS
    <3>1. s[p + 1] < j
      BY <2>4, DivisionIncreases
    <3>2. found.len # 0
      BY <1>4, <2>3, <2>5, <3>1
    <3>3. line.text = SubSeq(t, i + 1, e)
      <4> HIDE DEF part, n, e
      <4> QED  BY <2>7 DEF Line
    <3>4. e \in i..Len(t)
      BY <1>4, <2>3
    <3>5. Bytes(t, i) + TextLen(SubSeq(t, i + 1, e)) = Bytes(t, e)
      <4> HIDE DEF i, e
      <4> QED  BY <1>4, <3>4, LengthOfPart
    <3> HIDE DEF line
    <3> QED  BY <1>3, <1>7, <2>5, <3>2, <3>3, <3>5
  <2>10. Append(front, line) = [r \in 1..p + 1 |-> NthLine(t, s, r)]
    <3>1. p \in Nat
      BY <1>2
    <3> HIDE DEF line
    <3> QED  BY <2>8, <3>1, OneMoreInFront
  <2> DEFINE new == [r \in 1..p + 1 |-> NthLine(t, s, r)]
             left == SubSeq(t, s[p + 1] + 1, j)
             next == NextFront(it)
  <2>11. IsIterator(next, left, offset, it.offset_back, new, back)
    <3>1. part # <<>>
      <4>1. Len(part) # 0 /\ Len(<<>>) = 0
        BY <1>4, <1>5, <1>7
      <4> QED  BY ONLY <4>1
    <3> HIDE DEF part, front, back, new, left
    <3>2. it.text = part /\ it.front = front /\ it.text # <<>>
      BY <1>3, <3>1, IteratorFields, ZenonT(60)
    <3>3. next = [it EXCEPT !.text = SubSeq(it.text, n + 1, Len(it.text)),
                            !.offset = offset, !.front = Append(it.front, line)]
      BY <3>2 DEF NextFront, found
    <3>4. SubSeq(it.text, n + 1, Len(it.text)) = left /\ Append(it.front, line) = new
      BY <2>5, <2>7, <2>10, <3>2 DEF new, left
    <3> HIDE DEF offset, next
    <3>5. next = [it EXCEPT !.text = left, !.offset = offset, !.front = new]
      BY <3>3, <3>4
    <3> QED  BY <1>3, <3>5, IteratorFields, ZenonT(60)
  <2>12. next.offset = offset /\ next.offset_back = it.offset_back
    <3> HIDE DEF offset, back, new, left, next
    <3> QED  BY <2>11 DEF IsIterator
  <2>13. Took(t, N, s, p + 1, q, next)
    <3> HIDE DEF offset, next
    <3>1. IsIterator(next, left, next.offset, next.offset_back, new, back)
      BY <2>11, <2>12
    <3>2. p + 1 < q => next.offset = Bytes(t, s[p + 1]) /\ next.offset_back = Bytes(t, s[q])
      BY <1>3, <1>7, <2>9, <2>12
    <3> QED  BY <2>4, <3>1, <3>2 DEF Took
  <2>14. p # q
    BY <1>2, <1>7
  <2> QED  BY <2>13, <2>14
<1> QED  BY <1>2, <1>6, <1>7

(* The line ending at the end of a part of a text.                         *)
EndingStart(t, i, j) ==
    IF t[j] = "nl" /\ i < j - 1 /\ t[j - 1] = "cr" THEN j - 2
    ELSE IF j \in Newlines(t) THEN j - 1 ELSE j

LEMMA EndingIs ==
    ASSUME NEW t \in Seq(Chars), NEW i \in 0..Len(t), NEW j \in i + 1..Len(t)
    PROVE  /\ EndingStart(t, i, j) \in i..j
           /\ Trimmed(SubSeq(t, i + 1, j)) = SubSeq(t, i + 1, EndingStart(t, i, j))
           /\ LineEndingLen(SubSeq(t, i + 1, j)) = j - EndingStart(t, i, j)
<1> DEFINE part == SubSeq(t, i + 1, j)
           m == EndingStart(t, i, j)
           pair == t[j] = "nl" /\ i < j - 1 /\ t[j - 1] = "cr"
<1>1. i \in Nat /\ j \in Nat /\ Len(t) \in Nat /\ j \in i..Len(t) /\ j - i \in Nat \ {0} /\ i < j
  OBVIOUS
<1>2. Len(part) = j - i /\ \A k \in 1..j - i : part[k] = t[i + k]
  BY <1>1, Part
<1>3. ASSUME NEW x \in 0..j - i PROVE SubSeq(part, 1, x) = SubSeq(t, i + 1, i + x)
  <2>1. 0 \in 0..j - i /\ x \in 0..j - i /\ i + 0 + 1 = i + 1 /\ 0 + 1 = 1
    BY <1>1
  <2>2. SubSeq(part, 0 + 1, x) = SubSeq(t, i + 0 + 1, i + x)
    BY <1>1, <2>1, PartOfPart
  <2> HIDE DEF part
  <2> QED  BY <2>1, <2>2
<1>4. part # <<>>
  <2>1. Len(part) # 0 /\ Len(<<>>) = 0
    BY <1>1, <1>2
  <2> QED  BY ONLY <2>1
<1> HIDE DEF part
<1>5. Last(part) = t[j] /\ (IsNewline(Last(part)) <=> j \in Newlines(t))
  <2>1. j - i \in 1..j - i /\ i + (j - i) = j /\ j \in DOMAIN t
    BY <1>1
  <2>2. Last(part) = part[j - i] /\ part[j - i] = t[i + (j - i)]
    BY <1>2, <2>1 DEF Last
  <2> QED  BY <2>1, <2>2 DEF Newlines
<1>6. part[Len(part) - 1] = "cr" /\ Len(part) > 1 <=> t[j - 1] = "cr" /\ i < j - 1
  <2>1. CASE i < j - 1
    <3>1. (j - i) - 1 \in 1..j - i /\ i + ((j - i) - 1) = j - 1 /\ j - i > 1
      BY <1>1, <2>1
    <3>2. part[(j - i) - 1] = t[i + ((j - i) - 1)]
      BY <1>2, <3>1
    <3> QED  BY <1>2, <2>1, <3>1, <3>2
  <2>2. CASE ~ (i < j - 1)
    BY <1>1, <1>2, <2>2
  <2> QED  BY <2>1, <2>2
<1>7. Front(part) = SubSeq(t, i + 1, j - 1)
  <2>1. (j - i) - 1 \in 0..j - i /\ i + ((j - i) - 1) = j - 1
    BY <1>1
  <2>2. SubSeq(part, 1, (j - i) - 1) = SubSeq(t, i + 1, i + ((j - i) - 1))
    BY <1>3, <2>1
  <2> QED  BY <1>2, <2>1, <2>2 DEF Front
<1>8. i < j - 1 => Front(Front(part)) = SubSeq(t, i + 1, j - 2)
  <2> SUFFICES ASSUME i < j - 1 PROVE Front(Front(part)) = SubSeq(t, i + 1, j - 2)
    OBVIOUS
  <2>1. /\ j - 1 \in i..Len(t) /\ (j - 1) - i \in Nat /\ ((j - 1) - i) - 1 \in 0..(j - 1) - i
        /\ i + (((j - 1) - i) - 1) = j - 2 /\ 0 \in 0..(j - 1) - i /\ i + 0 + 1 = i + 1 /\ 0 + 1 = 1
        /\ ((j - 1) - i) - 1 \in 0..((j - 1) - i) /\ ((j - 1) - i) - 1 >= 0
    BY <1>1
  <2> DEFINE front == SubSeq(t, i + 1, j - 1)
             x == ((j - 1) - i) - 1
  <2>2. Len(front) = (j - 1) - i
    BY <2>1, Part
  <2>3. x \in 0..(j - 1) - i
    BY <2>1
  <2>4. SubSeq(front, 0 + 1, x) = SubSeq(t, i + 0 + 1, i + x)
    <3> HIDE DEF x
    <3> QED  BY <2>1, <2>3, PartOfPart
  <2> HIDE DEF front
  <2>5. Front(front) = SubSeq(front, 1, x)
    BY <2>2 DEF Front
  <2>6. SubSeq(front, 1, x) = SubSeq(t, i + 1, j - 2)
    BY <2>1, <2>4
  <2> QED  BY <1>7, <2>5, <2>6 DEF front
<1>9. m = IF pair THEN j - 2 ELSE IF j \in Newlines(t) THEN j - 1 ELSE j
  BY DEF EndingStart
<1>10. Trimmed(part) = IF pair THEN Front(Front(part))
                       ELSE IF j \in Newlines(t) THEN Front(part) ELSE part
  BY <1>5, <1>6 DEF Trimmed
<1>11. pair => j \in Newlines(t)
  <2>1. j \in DOMAIN t
    BY <1>1
  <2> QED  BY <2>1 DEF Newlines, IsNewline
<1>12. LineEndingLen(part) = IF pair THEN 2 ELSE IF j \in Newlines(t) THEN 1 ELSE 0
  BY <1>4, <1>5, <1>6, <1>11 DEF LineEndingLen
<1> HIDE DEF m
<1>13. m \in i..j
  BY <1>1, <1>9
<1>14. Trimmed(part) = SubSeq(t, i + 1, m)
  BY <1>7, <1>8, <1>9, <1>10 DEF part
<1>15. LineEndingLen(part) = j - m
  BY <1>1, <1>9, <1>12
<1> QED  BY <1>13, <1>14, <1>15 DEF part, m

LEMMA BackStep ==
    ASSUME NEW t \in Seq(Chars), NEW N, NEW s, Divides(t, N, s),
           NEW p, NEW q, NEW it, Took(t, N, s, p, q, it)
    PROVE  /\ p = q => NextBack(it) = it
           /\ p < q => Took(t, N, s, p, q - 1, NextBack(it))
<1>1. /\ N \in Nat \ {0} /\ s \in [0..N -> 0..Len(t)] /\ s[0] = 0 /\ s[N] = Len(t)
      /\ \A r \in 0..N - 1 : s[r] < s[r + 1] /\ s[r] \in {0} \cup Breaks(t)
      /\ \A r \in 0..N - 1 : \A k \in Breaks(t) : ~ (s[r] < k /\ k < s[r + 1])
  BY DEF Divides
<1>2. p \in 0..N /\ q \in p..N /\ q \in 0..N /\ Len(t) \in Nat /\ p \in Nat /\ q \in Nat
  BY <1>1 DEF Took
<1> DEFINE i == s[p]
           j == s[q]
           part == SubSeq(t, i + 1, j)
           front == [r \in 1..p |-> NthLine(t, s, r)]
           back == [r \in 1..N - q |-> NthLine(t, s, q + r)]
<1>3. /\ IsIterator(it, part, it.offset, it.offset_back, front, back)
      /\ p < q => it.offset = Bytes(t, i) /\ it.offset_back = Bytes(t, j)
  BY DEF Took
<1>4. /\ i \in 0..Len(t) /\ j \in i..Len(t) /\ i \in Nat /\ j \in Nat
      /\ p < q => i < j /\ j # 0 /\ j \in {Len(t)} \cup Breaks(t)
  BY <1>2, CutsAre
<1>5. Len(part) = j - i
  BY <1>4, Part
<1>6. CASE p = q
  <2>1. part = <<>>
    BY <1>4, <1>5, <1>6
  <2>2. it.text = <<>>
    <3> HIDE DEF part, front, back
    <3> QED  BY <1>3, <2>1, IteratorFields
  <2>3. NextBack(it) = it
    BY <2>2 DEF NextBack
  <2> QED  BY <1>2, <1>6, <2>3
<1>7. CASE p < q
  <2> DEFINE c == s[q - 1]
             m == EndingStart(t, i, j)
             before == Newlines(Trimmed(part))
             n == IF before = {} THEN 0 ELSE CHOOSE k \in before : \A l \in before : l <= k
  <2>1. /\ q - 1 \in 0..N - 1 /\ q - 1 \in p..N /\ (q - 1) + 1 = q /\ p \in 0..N - 1 /\ q - 1 \in Nat
        /\ j \in i + 1..Len(t)
    BY <1>1, <1>2, <1>4, <1>7
  <2>2. /\ c \in i..Len(t) /\ c \in Nat /\ c < j /\ c \in {0} \cup Breaks(t)
        /\ \A k \in Breaks(t) : ~ (c < k /\ k < j)
        /\ p < q - 1 => i < c
        /\ i \in {0} \cup Breaks(t)
    <3>1. c \in i..Len(t) /\ c \in Nat /\ (p < q - 1 => i < c)
      BY <1>2, <2>1, CutsAre
    <3> QED  BY <1>1, <2>1, <3>1
  <2>3. /\ m \in i..j /\ m \in Nat /\ Trimmed(part) = SubSeq(t, i + 1, m)
        /\ m = IF t[j] = "nl" /\ i < j - 1 /\ t[j - 1] = "cr" THEN j - 2
               ELSE IF j \in Newlines(t) THEN j - 1 ELSE j
    <3>1. m \in i..j /\ Trimmed(part) = SubSeq(t, i + 1, m)
      <4> HIDE DEF i, j
      <4> QED  BY <1>4, <2>1, EndingIs
    <3>2. m = IF t[j] = "nl" /\ i < j - 1 /\ t[j - 1] = "cr" THEN j - 2
               ELSE IF j \in Newlines(t) THEN j - 1 ELSE j
      BY DEF EndingStart
    <3>3. m \in Nat
      <4> HIDE DEF m
      <4> QED  BY <1>4, <3>1
    <3> QED  BY <3>1, <3>2, <3>3
  <2>4. /\ Newlines(t) \in SUBSET (1..Len(t)) /\ Breaks(t) \in SUBSET Newlines(t)
        /\ \A k \in Breaks(t) : k < Len(t) => ~ (t[k] = "cr" /\ t[k + 1] = "nl")
    BY NewlinesAre
  <2> HIDE DEF m, n
  <2>5. i < m => ~ InsideBreak(t, m)
    <3> SUFFICES ASSUME i < m, m \in 1..Len(t) - 1, t[m] = "cr", t[m + 1] = "nl" PROVE FALSE
      BY DEF InsideBreak
    <3>1. CASE t[j] = "nl" /\ i < j - 1 /\ t[j - 1] = "cr"
      <4>1. m = j - 2 /\ m + 1 = j - 1
        BY <1>4, <2>3, <3>1
      <4>2. t[m + 1] = "cr"
        BY <3>1, <4>1
      <4> QED  BY <4>2
    <3>2. CASE ~ (t[j] = "nl" /\ i < j - 1 /\ t[j - 1] = "cr") /\ j \in Newlines(t)
      <4>1. m = j - 1 /\ m + 1 = j
        BY <1>4, <2>3, <3>2
      <4> QED  BY <3>2, <4>1
    <3>3. CASE ~ (t[j] = "nl" /\ i < j - 1 /\ t[j - 1] = "cr") /\ j \notin Newlines(t)
      <4>1. m = j
        BY <1>4, <2>3, <3>3
      <4>2. m \in Newlines(t)
        BY DEF Newlines, IsNewline
      <4> QED  BY <3>3, <4>1, <4>2
    <3> QED  BY <3>1, <3>2, <3>3
  <2>6. m \in 0..Len(t) /\ m \in i..Len(t)
    BY <1>4, <2>3
  <2>7. PICK b \in 0..m : Begins(t, b, m)
    BY <2>6, RowBegins
  <2>8. /\ b \in i..m
        /\ before = {} => b = i
        /\ before # {} =>
             b - i \in before /\ i + (CHOOSE k \in before : \A l \in before : l <= k) = b
    <3>1. LET u == Newlines(SubSeq(t, i + 1, m))
          IN  /\ b \in i..m
              /\ u = {} => b = i
              /\ u # {} => b - i \in u /\ i + (CHOOSE k \in u : \A l \in u : l <= k) = b
      <4> HIDE DEF i, j
      <4> QED  BY <2>2, <2>5, <2>6, <2>7, LastNewlineIs
    <3> QED  BY <2>3, <3>1
  <2>9. b = c
    <3>1. c <= m
      <4>1. CASE t[j] = "nl" /\ i < j - 1 /\ t[j - 1] = "cr"
        <5>1. m = j - 2
          BY <2>3, <4>1
        <5>2. c # j - 1
          <6> SUFFICES ASSUME c = j - 1 PROVE FALSE
            OBVIOUS
          <6>1. c \in Breaks(t) /\ c < Len(t) /\ t[c] = "cr" /\ t[c + 1] = "nl"
            <7>1. c # 0 /\ c + 1 = j /\ c < Len(t)
              BY <1>4, <2>2, <4>1
            <7> QED  BY <2>2, <4>1, <7>1
          <6> QED  BY <2>4, <6>1
        <5> QED  BY <1>4, <2>2, <5>1, <5>2
      <4>2. CASE ~ (t[j] = "nl" /\ i < j - 1 /\ t[j - 1] = "cr")
        <5>1. m = j - 1 \/ m = j
          BY <2>3, <4>2
        <5> QED  BY <1>4, <2>2, <5>1
      <4> QED  BY <4>1, <4>2
    <3>2. b \in {0} \cup Breaks(t) /\ \A k \in Breaks(t) : k <= m => k <= b
      BY <2>7 DEF Begins
    <3>3. c <= b /\ b \in Nat
      BY <2>2, <2>6, <2>7, <3>1, <3>2
    <3>4. b < j
      <4>1. CASE j \in Newlines(t)
        <5>1. m < j
          BY <1>4, <2>3, <4>1
        <5> QED  BY <1>4, <2>3, <2>7, <3>3, <5>1
      <4>2. CASE j \notin Newlines(t)
        <5>1. b # j
          BY <1>4, <1>7, <2>4, <3>2, <4>2
        <5> QED  BY <1>4, <2>3, <2>7, <3>3, <5>1
      <4> QED  BY <4>1, <4>2
    <3> QED  BY <2>2, <3>2, <3>3, <3>4
  <2>10. i + n = c /\ n \in 0..j - i /\ n \in Nat /\ (n = 0 <=> c = i)
    <3>1. CASE before = {}
      <4>1. n = 0 /\ b = i
        BY <2>8, <3>1 DEF n
      <4> QED  BY <1>4, <2>9, <4>1
    <3>2. CASE before # {}
      <4>1. i + n = b /\ n \in before
        <5>1. n = CHOOSE k \in before : \A l \in before : l <= k
          BY <3>2 DEF n
        <5>2. \E k \in before : \A l \in before : l <= k
          <6>1. before \in SUBSET (0..m - i)
            <7>1. Newlines(SubSeq(t, i + 1, m)) = {k \in 1..m - i : i + k \in Newlines(t)}
              <8> HIDE DEF i, j
              <8> QED  BY <1>4, <2>6, NewlinesOfPart
            <7>2. before = {k \in 1..m - i : i + k \in Newlines(t)}
              <8> HIDE DEF i, j
              <8> QED  BY <2>3, <7>1
            <7> HIDE DEF before
            <7> QED  BY <7>2
          <6>2. m - i \in Nat
            BY <1>4, <2>3
          <6> HIDE DEF before
          <6> QED  BY <3>2, <6>1, <6>2, Greatest
        <5>3. n \in before
          <6> HIDE DEF before
          <6> QED  BY <5>1, <5>2
        <5> QED  BY <2>8, <3>2, <5>1, <5>3
      <4>2. n \in 1..m - i
        <5>1. Newlines(SubSeq(t, i + 1, m)) = {k \in 1..m - i : i + k \in Newlines(t)}
          <6> HIDE DEF i, j
          <6> QED  BY <1>4, <2>6, NewlinesOfPart
        <5> QED  BY <2>3, <4>1, <5>1
      <4>3. m \in Nat /\ m <= j /\ i \in Nat /\ j \in Nat
        BY <1>4, <2>3
      <4>4. n \in Nat /\ n # 0 /\ n <= j - i
        <5> HIDE DEF i, j
        <5> QED  BY <4>2, <4>3
      <4> HIDE DEF i, j, c, before
      <4> QED  BY <2>9, <4>1, <4>3, <4>4
    <3> QED  BY <3>1, <3>2
  <2> DEFINE line == SubSeq(part, n + 1, Len(part))
             offset_back == it.offset_back - TextLen(line)
             kept == IF n = 0 THEN it.offset_back ELSE offset_back
             left == SubSeq(t, i + 1, c)
             new == [r \in 1..N - (q - 1) |-> NthLine(t, s, (q - 1) + r)]
             next == NextBack(it)
  <2>11. SubSeq(part, 1, n) = left /\ line = SubSeq(t, c + 1, j)
    <3>1. /\ j - i \in n..j - i /\ i + (j - i) = j /\ 0 + 1 = 1 /\ i + 0 + 1 = i + 1
          /\ 0 \in 0..j - i /\ n \in 0..j - i
      BY <1>4, <2>10
    <3>2. SubSeq(part, 0 + 1, n) = SubSeq(t, i + 0 + 1, i + n)
      <4> HIDE DEF i, j
      <4> QED  BY <1>4, <3>1, PartOfPart
    <3>3. SubSeq(part, n + 1, j - i) = SubSeq(t, i + n + 1, i + (j - i))
      <4> HIDE DEF i, j
      <4> QED  BY <1>4, <3>1, PartOfPart
    <3> HIDE DEF part, i, j
    <3> QED  BY <1>5, <2>10, <3>1, <3>2, <3>3
  <2>12. offset_back = Bytes(t, c)
    <3>1. Bytes(t, j) - TextLen(SubSeq(t, c + 1, j)) = Bytes(t, c)
      <4>1. c \in 0..Len(t) /\ j \in c..Len(t)
        BY <1>4, <2>2
      <4> HIDE DEF c, j
      <4> QED  BY <4>1, LengthOfPart
    <3> HIDE DEF line
    <3> QED  BY <1>3, <1>7, <2>11, <3>1
  <2>13. Line(line, offset_back) = NthLine(t, s, q)
    <3> HIDE DEF line, offset_back
    <3> QED  BY <2>11, <2>12 DEF NthLine
  <2>14. <<Line(line, offset_back)>> \o back = new
    <3> DEFINE k == q - 1
               l == N - q
    <3>1. k \in Nat /\ l \in Nat /\ k + 1 = q /\ l + 1 = N - k
      BY <1>1, <1>2, <2>1
    <3>2. <<NthLine(t, s, k + 1)>> \o [r \in 1..l |-> NthLine(t, s, k + 1 + r)]
            = [r \in 1..l + 1 |-> NthLine(t, s, k + r)]
      <4> HIDE DEF k, l
      <4> QED  BY <3>1, OneMoreBehind
    <3>3. back = [r \in 1..l |-> NthLine(t, s, q + r)] /\ new = [r \in 1..N - k |-> NthLine(t, s, k + r)]
      OBVIOUS
    <3> HIDE DEF line, offset_back, k, l, back, new
    <3> QED  BY <2>13, <3>1, <3>2, <3>3
  <2>15. IsIterator(next, left, it.offset, kept, front, new)
    <3>1. part # <<>>
      <4>1. Len(part) # 0 /\ Len(<<>>) = 0
        BY <1>4, <1>5, <1>7
      <4> QED  BY ONLY <4>1
    <3> HIDE DEF part, front, back, new, left
    <3>2. it.text = part /\ it.back = back /\ it.text # <<>>
      BY <1>3, <3>1, IteratorFields, ZenonT(60)
    <3>3. next = [it EXCEPT !.text = SubSeq(it.text, 1, n),
                            !.offset_back = kept, !.back = <<Line(line, offset_back)>> \o it.back]
      BY <3>2 DEF NextBack, n
    <3>4. SubSeq(it.text, 1, n) = left /\ <<Line(line, offset_back)>> \o it.back = new
      BY <2>11, <2>14, <3>2
    <3> HIDE DEF kept, next
    <3>5. next = [it EXCEPT !.text = left, !.offset_back = kept, !.back = new]
      BY <3>3, <3>4
    <3> QED  BY <1>3, <3>5, IteratorFields, ZenonT(60)
  <2>16. next.offset = it.offset /\ next.offset_back = kept
    <3> HIDE DEF kept, front, new, left, next
    <3> QED  BY <2>15 DEF IsIterator
  <2>17. p < q - 1 => kept = Bytes(t, c)
    <3> HIDE DEF offset_back
    <3> QED  BY <1>4, <2>2, <2>10, <2>12
  <2>18. Took(t, N, s, p, q - 1, next)
    <3> HIDE DEF kept, next
    <3>1. IsIterator(next, left, next.offset, next.offset_back, front, new)
      BY <2>15, <2>16
    <3>2. p < q - 1 => next.offset = Bytes(t, s[p]) /\ next.offset_back = Bytes(t, s[q - 1])
      BY <1>3, <1>7, <2>16, <2>17
    <3> QED  BY <1>2, <2>1, <3>1, <3>2 DEF Took
  <2>19. p # q
    BY <1>2, <1>7
  <2> QED  BY <2>18, <2>19
<1> QED  BY <1>2, <1>6, <1>7

(* The calls of the iterator, one after the other.                         *)
LEMMA CallsUnfold ==
    ASSUME NEW t, NEW back, Len(back) \in Nat
    PROVE  \E it :
             /\ it[0] = Lines(t)
             /\ \A k \in 1..Len(back) :
                  it[k] = IF back[k] THEN NextBack(it[k - 1]) ELSE NextFront(it[k - 1])
             /\ Taken(t, back) = it[Len(back)].front \o it[Len(back)].back
<1> DEFINE n == Len(back)
           Call(i, k) == IF back[k] THEN NextBack(i) ELSE NextFront(i)
           Good(f, m) == /\ DOMAIN f = 0..m
                         /\ f[0] = Lines(t) /\ \A k \in 1..m : f[k] = Call(f[k - 1], k)
           S == {m \in 0..n : \E f : Good(f, m)}
           Is(f) == f = [k \in 0..n |-> IF k = 0 THEN Lines(t) ELSE Call(f[k - 1], k)]
           it == CHOOSE f : Is(f)
<1>0. n \in Nat /\ 0 \in 0..n /\ n \in 0..n
  OBVIOUS
<1> HIDE DEF n
<1>1. 0 \in S
  <2>1. Good([k \in 0..0 |-> Lines(t)], 0)
    OBVIOUS
  <2> HIDE DEF Good
  <2> QED  BY <1>0, <2>1
<1>2. ASSUME NEW m \in 0..n - 1, m \in S PROVE m + 1 \in S
  <2>1. PICK f : Good(f, m)
    BY <1>2
  <2> DEFINE g == [k \in 0..m + 1 |-> IF k = m + 1 THEN Call(f[m], m + 1) ELSE f[k]]
  <2>2. g[0] = Lines(t)
    <3>1. 0 \in 0..m + 1 /\ 0 # m + 1
      OBVIOUS
    <3> HIDE DEF Call
    <3> QED  BY <2>1, <3>1
  <2>3. ASSUME NEW k \in 1..m + 1 PROVE g[k] = Call(g[k - 1], k)
    <3>1. k \in 0..m + 1 /\ k - 1 \in 0..m + 1 /\ k - 1 # m + 1
      OBVIOUS
    <3> HIDE DEF Call
    <3>2. CASE k = m + 1
      <4>1. g[k] = Call(f[m], m + 1) /\ g[k - 1] = f[m]
        BY <3>1, <3>2
      <4> QED  BY <3>2, <4>1
    <3>3. CASE k # m + 1
      <4>1. k \in 1..m
        BY <3>1, <3>3
      <4>2. g[k] = f[k] /\ g[k - 1] = f[k - 1]
        BY <3>1, <3>3
      <4> QED  BY <2>1, <4>1, <4>2
    <3> QED  BY <3>2, <3>3
  <2>4. DOMAIN g = 0..m + 1
    OBVIOUS
  <2>5. Good(g, m + 1)
    <3> HIDE DEF Call, g
    <3> QED  BY <2>2, <2>3, <2>4
  <2>6. m + 1 \in 0..n
    BY <1>0
  <2> HIDE DEF Good, g
  <2> QED  BY <2>5, <2>6
<1>3. n \in S
  <2> HIDE DEF S
  <2> QED  BY <1>0, <1>1, <1>2, UpTo
<1>4. PICK f : Good(f, n)
  BY <1>3
<1>5. Is([k \in 0..n |-> f[k]])
  <2> DEFINE h == [k \in 0..n |-> f[k]]
  <2> HIDE DEF Call
  <2>1. ASSUME NEW k \in 0..n PROVE h[k] = IF k = 0 THEN Lines(t) ELSE Call(h[k - 1], k)
    <3>1. CASE k = 0
      BY <1>4, <3>1
    <3>2. CASE k # 0
      <4>1. k \in 1..n /\ k - 1 \in 0..n
        BY <1>0, <3>2
      <4> QED  BY <1>4, <3>2, <4>1
    <3> QED  BY <3>1, <3>2
  <2> QED  BY <2>1
<1>6. Is(it)
  <2> HIDE DEF Is
  <2> QED  BY <1>5
<1>7. Taken(t, back) = it[n].front \o it[n].back
  BY DEF Taken, n
<1> HIDE DEF it
<1>8. it[0] = Lines(t)
  BY <1>0, <1>6
<1>9. ASSUME NEW k \in 1..n PROVE it[k] = Call(it[k - 1], k)
  <2>1. k \in 0..n /\ k # 0
    BY <1>0
  <2> HIDE DEF Call
  <2> QED  BY <1>6, <2>1
<1> QED  BY <1>7, <1>8, <1>9 DEF n

(* Two lists, one behind the other.                                        *)
LEMMA Joined ==
    ASSUME NEW n \in Nat, NEW m \in Nat, NEW s, NEW u, IsList(s, n), IsList(u, m)
    PROVE  /\ s \o u = [r \in 1..n + m |-> IF r <= n THEN s[r] ELSE u[r - n]]
<1>1. s = [i \in 1..n |-> s[i]] /\ u = [i \in 1..m |-> u[i]]
  BY Zenon DEF IsList
<1>2. Len(s) = n /\ Len(u) = m
  BY <1>1
<1> QED  BY <1>1, <1>2

(* As many calls as there are characters take every line.                  *)
LEMMA TakenIs ==
    ASSUME NEW t \in Seq(Chars), t # <<>>, NEW back \in [1..Len(t) -> BOOLEAN]
    PROVE  Taken(t, back) \o Trailing(t) = IndexLines(t)
<1>1. PICK N, s : /\ Divides(t, N, s)
                  /\ IndexLines(t) = [r \in 1..N |-> NthLine(t, s, r)] \o Trailing(t)
  BY TextIsDivided
<1>2. Len(back) = Len(t) /\ Len(t) \in Nat /\ Len(back) \in Nat
  OBVIOUS
<1>3. PICK it :
             /\ it[0] = Lines(t)
             /\ \A k \in 1..Len(back) :
                  it[k] = IF back[k] THEN NextBack(it[k - 1]) ELSE NextFront(it[k - 1])
             /\ Taken(t, back) = it[Len(back)].front \o it[Len(back)].back
  BY <1>2, CallsUnfold
<1>4. N \in Nat /\ s \in [0..N -> 0..Len(t)] /\ s[0] = 0 /\ s[N] = Len(t)
  BY <1>1 DEF Divides
<1> DEFINE All(k) == \E p, q : /\ Took(t, N, s, p, q, it[k])
                               /\ p = q \/ p + (N - q) = k
           S == {k \in 0..Len(t) : All(k)}
           lines == [r \in 1..N |-> NthLine(t, s, r)]
<1>5. 0 \in S
  <2> DEFINE part == SubSeq(t, s[0] + 1, s[N])
             front == [r \in 1..0 |-> NthLine(t, s, r)]
             end == [r \in 1..N - N |-> NthLine(t, s, N + r)]
             start == it[0]
  <2>1. part = t
    <3>1. 0 + 1 = 1 /\ SubSeq(t, 1, Len(t)) = t
      OBVIOUS
    <3> QED  BY <1>4, <3>1
  <2>2. front = <<>> /\ end = <<>>
    <3>1. 1..0 = {} /\ N - N = 0 /\ 1..N - N = {}
      BY <1>4
    <3> QED  BY <3>1
  <2>3. start = [text |-> t, offset |-> 0, offset_back |-> TextLen(t), front |-> <<>>, back |-> <<>>]
    BY <1>3 DEF Lines
  <2>4. start.offset = 0 /\ start.offset_back = TextLen(t)
    BY <2>3
  <2> HIDE DEF part, front, end, start
  <2>5. IsIterator(start, part, start.offset, start.offset_back, front, end)
    BY <2>1, <2>2, <2>3 DEF IsIterator
  <2>6. start.offset = Bytes(t, s[0]) /\ start.offset_back = Bytes(t, s[N])
    BY <1>4, <2>4, BytesFacts
  <2>7. Took(t, N, s, 0, N, start)
    <3>1. 0 \in 0..N /\ N \in 0..N
      BY <1>4
    <3> QED  BY <2>5, <2>6, <3>1 DEF Took, part, front, end
  <2>8. 0 + (N - N) = 0 /\ 0 \in 0..Len(t)
    BY <1>2, <1>4
  <2> QED  BY <2>7, <2>8 DEF start
<1>6. ASSUME NEW k \in 0..Len(t) - 1, k \in S PROVE k + 1 \in S
  <2>1. PICK p, q : Took(t, N, s, p, q, it[k]) /\ (p = q \/ p + (N - q) = k)
    BY <1>6
  <2>2. k + 1 \in 1..Len(back) /\ (k + 1) - 1 = k /\ k + 1 \in 0..Len(t)
    BY <1>2
  <2>3. it[k + 1] = NextBack(it[k]) \/ it[k + 1] = NextFront(it[k])
    BY <1>3, <2>2
  <2>4. p \in 0..N /\ q \in p..N /\ q \in Nat /\ p \in Nat
    BY <1>4, <2>1 DEF Took
  <2>5. CASE p = q
    <3>1. NextFront(it[k]) = it[k] /\ NextBack(it[k]) = it[k]
      BY <1>1, <2>1, <2>5, FrontStep, BackStep
    <3>2. it[k + 1] = it[k]
      BY <2>3, <3>1
    <3>3. All(k + 1)
      BY <2>1, <2>5, <3>2
    <3> QED  BY <2>2, <3>3
  <2>6. CASE p < q
    <3>1. Took(t, N, s, p + 1, q, NextFront(it[k])) /\ Took(t, N, s, p, q - 1, NextBack(it[k]))
      BY <1>1, <2>1, <2>6, FrontStep, BackStep
    <3>2. (p + 1) + (N - q) = k + 1 /\ p + (N - (q - 1)) = k + 1
      BY <1>4, <2>1, <2>4, <2>6
    <3>3. All(k + 1)
      BY <2>3, <3>1, <3>2
    <3> QED  BY <2>2, <3>3
  <2> QED  BY <2>4, <2>5, <2>6
<1>7. Len(t) \in S
  <2>1. Len(t) \in 0..Len(t)
    BY <1>2
  <2> HIDE DEF S
  <2> QED  BY <1>2, <1>5, <1>6, <2>1, UpTo
<1> DEFINE end == it[Len(t)]
<1>8. PICK p, q : Took(t, N, s, p, q, end) /\ (p = q \/ p + (N - q) = Len(t))
  BY <1>7
<1>9. p \in 0..N /\ q \in p..N /\ p = q
  <2>1. p \in 0..N /\ q \in p..N
    BY <1>8 DEF Took
  <2>2. N <= Len(t)
    <3>1. N \in 0..N
      BY <1>4
    <3> QED  BY <1>1, <1>4, <3>1, DivisionIncreases
  <2> QED  BY <1>2, <1>4, <1>8, <2>1, <2>2
<1> DEFINE front == [r \in 1..p |-> NthLine(t, s, r)]
           behind == [r \in 1..N - q |-> NthLine(t, s, q + r)]
           part == SubSeq(t, s[p] + 1, s[q])
<1>10. end.front = front /\ end.back = behind
  <2>1. IsIterator(end, part, end.offset, end.offset_back, front, behind)
    BY <1>8 DEF Took
  <2> HIDE DEF end, part, front, behind
  <2> QED  BY <2>1 DEF IsIterator
<1>11. front \o behind = lines
  <2>1. p \in Nat /\ N - p \in Nat /\ p + (N - p) = N
    BY <1>4, <1>9
  <2>2. Len(front) = p /\ Len(behind) = N - p
    BY <1>9, <2>1
  <2>3. front \o behind = [r \in 1..p + (N - p) |-> IF r <= p THEN front[r] ELSE behind[r - p]]
    <3>1. front = [r \in 1..p |-> front[r]] /\ behind = [r \in 1..N - p |-> behind[r]]
      BY <1>9
    <3>2. IsList(front, p) /\ IsList(behind, N - p)
      BY Zenon, <3>1 DEF IsList
    <3> HIDE DEF front, behind
    <3> QED  BY <2>1, <2>2, <3>2, Joined, SMTT(30)
  <2>4. ASSUME NEW r \in 1..N PROVE (IF r <= p THEN front[r] ELSE behind[r - p]) = NthLine(t, s, r)
    <3>1. CASE r <= p
      <4>1. r \in 1..p
        BY <2>1, <3>1
      <4> QED  BY <3>1, <4>1
    <3>2. CASE ~ (r <= p)
      <4>1. r - p \in 1..N - q /\ q + (r - p) = r
        BY <1>4, <1>9, <2>1, <3>2
      <4>2. behind[r - p] = NthLine(t, s, q + (r - p))
        BY <4>1
      <4> QED  BY <3>2, <4>1, <4>2
    <3> QED  BY <3>1, <3>2
  <2> HIDE DEF front, behind
  <2>5. [r \in 1..N |-> IF r <= p THEN front[r] ELSE behind[r - p]] = lines
    BY <2>4
  <2> QED  BY <2>1, <2>3, <2>5
<1>12. Taken(t, back) = lines
  <2>1. Taken(t, back) = end.front \o end.back
    BY <1>2, <1>3
  <2> HIDE DEF end, front, behind, lines
  <2> QED  BY <1>10, <1>11, <2>1
<1> HIDE DEF lines
<1> QED  BY <1>1, <1>12 DEF lines

-----------------------------------------------------------------------------
(* Where a row ends, with its break. *)
RowEnd(t, row) == IF row = Cardinality(Breaks(t)) THEN Len(t) ELSE RowBegin(t, row + 1)

(* The locator finds the line around an offset in the text itself: its     *)
(* characters are those behind the b-th up to the e-th.                    *)
Around(t, n, b, e) ==
    /\ b \in 0..n /\ e \in n..Len(t) /\ Begins(t, b, n)
    /\ n < Len(t) => n < e
    /\ e = Len(t) \/ e \in Breaks(t)
    /\ \A k \in Breaks(t) : ~ (b < k /\ k < e)
    /\ Rows(t, n) \in 0..Cardinality(Breaks(t)) /\ (b = 0 <=> Rows(t, n) = 0)
    /\ b = RowBegin(t, Rows(t, n)) /\ e = RowEnd(t, Rows(t, n))
    /\ RowOf(FromSourceText(t), Bytes(t, n)) = Rows(t, n)
    /\ IndexLines(t)[Rows(t, n) + 1] = Line(SubSeq(t, b + 1, e), Bytes(t, b))
    /\ LineStart(FromSourceText(t), Rows(t, n), t) = Bytes(t, b)

LEMMA LineAround ==
    ASSUME NEW t \in Seq(Chars), NEW n \in 0..Len(t)
    PROVE  \E b, e : Around(t, n, b, e)
<1> DEFINE C == Cardinality(Breaks(t))
           row == Rows(t, n)
           e == RowEnd(t, row)
<1>1. PICK b \in 0..n : Begins(t, b, n)
  BY RowBegins
<1>2. RowBegin(t, row) = b
  BY <1>1, RowBeginIsUnique
<1>3. /\ C \in Nat /\ row \in 0..C /\ Len(FromSourceText(t).starts) = C + 1
      /\ FromSourceText(t).starts[row + 1] = Bytes(t, RowBegin(t, row))
  BY IndexFacts
<1>4. /\ IndexLines(t)[row + 1] = Line(SubSeq(t, b + 1, e), Bytes(t, b))
      /\ e \in b..Len(t) /\ (row # C => b < e /\ e \in Breaks(t))
      /\ \A k \in Breaks(t) : ~ (b < k /\ k < e)
      /\ b = 0 <=> row = 0
  BY <1>2, <1>3, IndexLinesAre DEF RowEnd
<1>5. e \in n..Len(t) /\ (n < Len(t) => n < e)
  <2>1. CASE row = C
    BY <2>1 DEF RowEnd
  <2>2. CASE row # C
    <3>1. b < e /\ e \in Breaks(t) /\ e \in b..Len(t)
      BY <1>4, <2>2
    <3> HIDE DEF e
    <3>2. ~ (e <= n)
      BY <1>1, <3>1 DEF Begins
    <3> QED  BY <1>1, <3>1, <3>2
  <2> QED  BY <2>1, <2>2
<1>6. LineStart(FromSourceText(t), row, t) = Bytes(t, b)
  <2>1. row # C + 1
    BY <1>3
  <2> QED  BY <1>2, <1>3, <2>1 DEF LineStart
<1>7. RowOf(FromSourceText(t), Bytes(t, n)) = row
  BY RowOfIsRows
<1>8. row = C => e = Len(t)
  BY DEF RowEnd
<1>0. e = RowEnd(t, row)
  OBVIOUS
<1> HIDE DEF row, e
<1>9. Around(t, n, b, e)
  BY <1>0, <1>1, <1>2, <1>3, <1>4, <1>5, <1>6, <1>7, <1>8 DEF Around, row
<1> QED  BY <1>9

(* The character behind which the locator starts a line. *)
StartsBehind(t, b) == IF b = 0 /\ t # <<>> /\ t[1] = "bom" THEN 1 ELSE b

LEMMA BomSize ==
    ASSUME NEW t \in Seq(Chars)
    PROVE  /\ ContentsStart(t) \in Nat
           /\ (t # <<>> /\ t[1] = "bom") => /\ 1 \in 0..Len(t) /\ Bytes(t, 1) = ContentsStart(t)
                                            /\ ContentsStart(t) > 0
           /\ ~ (t # <<>> /\ t[1] = "bom") => ContentsStart(t) = 0
<1>1. LenUtf8["bom"] = 3
  BY DEF LenUtf8
<1>2. ASSUME t # <<>>, t[1] = "bom" PROVE 1 \in 0..Len(t) /\ Bytes(t, 1) = 3
  <2>1. 1 \in 1..Len(t) /\ 1 \in 0..Len(t) /\ 1 - 1 = 0
    BY <1>2
  <2>2. LenUtf8 \in [Chars -> Nat]
    BY CharLengths
  <2>3. Bytes(t, 1) = Bytes(t, 0) + LenUtf8[t[1]] /\ Bytes(t, 0) = 0
    BY <2>1, <2>2, SizeUnfolds, BytesFacts DEF Bytes
  <2> QED  BY <1>1, <1>2, <2>1, <2>3
<1> QED  BY <1>1, <1>2 DEF ContentsStart

(* A line starts behind the last newline before an offset.                 *)
LEMMA LocatorLineStartIs ==
    ASSUME NEW t \in Seq(Chars), NEW n \in 0..Len(t), ~ InsideBreak(t, n),
           NEW b \in 0..n, Begins(t, b, n)
    PROVE  /\ StartsBehind(t, b) \in b..Len(t)
           /\ LocatorLineStart(t, Bytes(t, n)) = Bytes(t, StartsBehind(t, b))
           /\ LocatorLineStart(t, Bytes(t, n))
                = Bytes(t, b) + (IF b = 0 THEN ContentsStart(t) ELSE 0)
<1> DEFINE before == Newlines(SubSeq(t, 1, n))
<1>1. 0 \in {0} \cup Breaks(t) /\ n \in 0..Len(t) /\ 0 + 1 = 1 /\ b - 0 = b /\ b \in Nat
  OBVIOUS
<1>2. /\ before = {} => b = 0
      /\ before # {} => b \in before /\ 0 + (CHOOSE k \in before : \A l \in before : l <= k) = b
  <2>1. LET old == Newlines(SubSeq(t, 0 + 1, n))
        IN  /\ old = {} => b = 0
            /\ old # {} => b - 0 \in old /\ 0 + (CHOOSE k \in old : \A l \in old : l <= k) = b
    BY <1>1, LastNewlineIs, SMTT(30)
  <2> QED  BY <1>1, <2>1
<1>3. b \in before => b # 0 /\ b \in Nat
  <2>1. before \subseteq Nat \ {0}
    BY Part DEF Newlines
  <2> QED  BY <2>1
<1>4. Slice(t, 0, Bytes(t, n)) = SubSeq(t, 1, n)
  <2>1. 0 \in 0..Len(t) /\ Bytes(t, 0) = 0
    BY BytesFacts
  <2>2. Slice(t, Bytes(t, 0), Bytes(t, n)) = SubSeq(t, 0 + 1, n)
    BY <2>1, Slices
  <2> QED  BY <1>1, <2>1, <2>2
<1> HIDE DEF before
<1>5. before # {} => (CHOOSE k \in before : \A l \in before : l <= k) = b
  <2> SUFFICES ASSUME before # {} PROVE (CHOOSE k \in before : \A l \in before : l <= k) = b
    OBVIOUS
  <2>1. b \in before /\ b \in Nat /\ 0 + (CHOOSE k \in before : \A l \in before : l <= k) = b
    BY <1>2, <1>3
  <2>2. before \subseteq Nat
    <3>1. \A k \in before : k \in Nat
      BY Part DEF Newlines, before
    <3> QED  BY <3>1
  <2>3. ASSUME NEW c, c = (CHOOSE k \in before : \A l \in before : l <= k), 0 + c = b PROVE c = b
    <3>1. \E k \in before : \A l \in before : l <= k
      <4>1. n \in Nat /\ before \in SUBSET (0..n)
        <5>1. \A k \in before : k \in 1..n
          BY Part DEF Newlines, before
        <5> QED  BY <5>1
      <4> QED  BY <4>1, <2>1, Greatest
    <3>2. c \in before
      BY <2>3, <3>1
    <3>3. c \in Nat /\ 0 + c = b
      BY Zenon, <2>2, <2>3, <3>2
    <3> QED  BY ONLY <3>3
  <2> QED  BY <2>1, <2>3
<1>6. LocatorLineStart(t, Bytes(t, n)) = IF b = 0 THEN ContentsStart(t) ELSE Bytes(t, b)
  <2>1. LocatorLineStart(t, Bytes(t, n))
          = IF before = {} THEN ContentsStart(t)
            ELSE Bytes(t, CHOOSE k \in before : \A l \in before : l <= k)
    <3> DEFINE found == Newlines(Slice(t, 0, Bytes(t, n)))
    <3>1. found = before
      BY <1>4 DEF before
    <3>2. LocatorLineStart(t, Bytes(t, n))
            = IF found = {} THEN ContentsStart(t)
              ELSE Bytes(t, CHOOSE i \in found : \A k \in found : k <= i)
      BY DEF LocatorLineStart
    <3> HIDE DEF found
    <3> QED  BY <3>1, <3>2
  <2> QED  BY <1>2, <1>3, <1>5, <2>1
<1>7. Bytes(t, 0) = 0 /\ Bytes(t, b) \in Nat /\ b \in 0..Len(t)
  <2>1. b \in 0..Len(t)
    OBVIOUS
  <2> QED  BY <2>1, BytesFacts
<1> QED  BY <1>6, <1>7, BomSize DEF StartsBehind

(* A line ends behind, or before, the first line ending from an offset on. *)
LEMMA LocatorLineEndIs ==
    ASSUME NEW t \in Seq(Chars), NEW n \in 0..Len(t), ~ InsideBreak(t, n),
           NEW b, NEW e, Around(t, n, b, e)
    PROVE  /\ LocatorFullLineEnd(t, Bytes(t, n)) = Bytes(t, e)
           /\ LocatorLineEnd(t, Bytes(t, n)) = Bytes(t, e) - LineEndingLen(SubSeq(t, b + 1, e))
<1> DEFINE j == Len(t)
           found == FindNewline(SubSeq(t, n + 1, j))
           p == n + found.position
           q == p + found.len
           o == Bytes(t, n)
<1>1. /\ b \in 0..n /\ e \in n..j /\ (n < j => n < e) /\ (e = j \/ e \in Breaks(t))
      /\ \A k \in Breaks(t) : ~ (b < k /\ k < e)
      /\ b \in {0} \cup Breaks(t) /\ \A k \in Breaks(t) : k <= n => k <= b
  BY DEF Around, Begins
<1>2. j \in Nat /\ n \in Nat /\ j \in n..j /\ b \in Nat /\ e \in Nat /\ b \in 0..j /\ e \in 0..j
  BY <1>1
<1>3. EndsAt(t, n, j, found)
  BY <1>2, FindNewlineIs
<1>4. /\ Newlines(t) \in SUBSET (1..j) /\ Breaks(t) \in SUBSET Newlines(t)
      /\ j \in Newlines(t) => j \in Breaks(t)
  BY NewlinesAre
<1>5. After(t, o) = SubSeq(t, n + 1, j)
  <2>1. TextLen(t) = Bytes(t, j)
    BY BytesFacts
  <2>2. Slice(t, Bytes(t, n), Bytes(t, j)) = SubSeq(t, n + 1, j)
    <3>1. j \in 0..Len(t)
      BY <1>2
    <3> QED  BY <3>1, Slices
  <2> QED  BY <2>1, <2>2 DEF After
<1>6. /\ LocatorFullLineEnd(t, o)
           = IF found.len = 0 THEN TextLen(t)
             ELSE o + Bytes(SubSeq(t, n + 1, j), found.position) + found.len
      /\ LocatorLineEnd(t, o)
           = IF found.len = 0 THEN TextLen(t) ELSE o + Bytes(SubSeq(t, n + 1, j), found.position)
  BY <1>5 DEF LocatorFullLineEnd, LocatorLineEnd
<1> HIDE DEF j, found
<1>7. /\ found.position \in Nat /\ found.len \in 0..2
      /\ p \in n..j /\ q \in p..j /\ (n < j => n < q)
      /\ \A k \in Breaks(t) : ~ (n < k /\ k < q)
      /\ found.len = 0 => p = j /\ \A k \in Newlines(t) : ~ (n < k /\ k <= j)
      /\ found.len # 0 => q \in Breaks(t) /\ Bytes(t, q) = Bytes(t, p) + found.len
      /\ found.len = 1 => ~ (n < p /\ t[p] = "cr" /\ t[q] = "nl")
      /\ found.len = 2 => t[p + 1] = "cr" /\ t[q] = "nl"
  BY <1>3 DEF EndsAt
<1>8. q = e
  <2>1. CASE found.len = 0
    <3>1. e = j
      BY <1>1, <1>2, <1>4, <1>7, <2>1
    <3> QED  BY <1>2, <1>7, <2>1, <3>1
  <2>2. CASE found.len # 0
    <3>0. q \in Breaks(t) /\ q \in Nat /\ p \in Nat /\ n < q
      BY <1>2, <1>7, <2>2, SMTT(30)
    <3> HIDE DEF q, p
    <3>1. ~ (q < e)
      BY <1>1, <1>2, <3>0
    <3>2. ~ (e < q)
      <4> SUFFICES ASSUME e < q PROVE FALSE
        OBVIOUS
      <4>1. e < j /\ n < j /\ n < e
        BY <1>1, <1>2, <1>7, <3>0
      <4>2. e \in Breaks(t)
        BY <1>1, <1>2, <4>1
      <4> QED  BY <1>7, <4>1, <4>2
    <3> QED  BY <1>2, <3>0, <3>1, <3>2
  <2> QED  BY <2>1, <2>2
<1>9. /\ o + Bytes(SubSeq(t, n + 1, j), found.position) = Bytes(t, p)
      /\ Bytes(t, p) \in Nat /\ Bytes(t, e) \in Nat
  <2>1. p \in 0..j /\ found.position \in 0..j - n
    BY <1>2, <1>7
  <2>2. LenUtf8 \in [Chars -> Nat]
    BY CharLengths
  <2>3. Bytes(SubSeq(t, n + 1, j), found.position) = Bytes(t, p) - Bytes(t, n)
    <3>1. n \in 0..Len(t) /\ j \in n..Len(t)
      BY <1>2 DEF j
    <3> QED  BY <2>1, <2>2, <3>1, SizeOfPart DEF Bytes
  <2>4. Bytes(t, p) \in Nat /\ Bytes(t, n) \in Nat /\ Bytes(t, e) \in Nat
    BY <1>2, <2>1, BytesFacts DEF j
  <2> QED  BY <2>3, <2>4
<1>10. TextLen(t) = Bytes(t, j)
  BY BytesFacts DEF j
<1>11. LocatorFullLineEnd(t, o) = Bytes(t, e)
  <2>1. CASE found.len = 0
    <3>1. e = j
      BY <1>2, <1>7, <1>8, <2>1
    <3> QED  BY <1>6, <1>10, <2>1, <3>1
  <2>2. CASE found.len # 0
    <3> HIDE DEF q, p, o
    <3> QED  BY <1>6, <1>7, <1>8, <1>9, <2>2
  <2> QED  BY <2>1, <2>2
<1>12. LocatorLineEnd(t, o) = Bytes(t, p) /\ Bytes(t, p) = Bytes(t, e) - found.len
  <2>1. CASE found.len = 0
    <3>1. e = j /\ p = j
      BY <1>2, <1>7, <1>8, <2>1
    <3>2. Bytes(t, p) = Bytes(t, e) - 0
      BY <1>9, <3>1
    <3> QED  BY <1>6, <1>10, <2>1, <3>1, <3>2
  <2>2. CASE found.len # 0
    <3> HIDE DEF q, p, o
    <3>1. Bytes(t, e) = Bytes(t, p) + found.len
      BY <1>7, <1>8, <2>2
    <3> QED  BY <1>6, <1>7, <1>9, <2>2, <3>1
  <2> QED  BY <2>1, <2>2
<1>13. LineEndingLen(SubSeq(t, b + 1, e)) = found.len
  <2>1. CASE b = e
    <3>1. found.len = 0
      BY <1>1, <1>2, <1>7, <1>8, <2>1
    <3>2. SubSeq(t, b + 1, e) = <<>>
      <4>1. Len(SubSeq(t, b + 1, e)) = 0 /\ SubSeq(t, b + 1, e) \in Seq(Chars)
        <5>1. b \in 0..Len(t) /\ e \in b..Len(t) /\ e - b = 0
          BY <1>2, <2>1 DEF j
        <5> QED  BY <5>1, Part
      <4> QED  BY <4>1
    <3> QED  BY <3>1, <3>2 DEF LineEndingLen
  <2>2. CASE b # e
    <3>1. b < e /\ b \in 0..Len(t) /\ e \in b + 1..Len(t)
      BY <1>1, <1>2, <2>2 DEF j
    <3>2. LineEndingLen(SubSeq(t, b + 1, e)) = e - EndingStart(t, b, e)
      BY <3>1, EndingIs
    <3>3. EndingStart(t, b, e) = p
      <4>1. CASE found.len = 0
        <5>1. e = j /\ p = j
          BY <1>2, <1>7, <1>8, <4>1
        <5>2. e \notin Newlines(t)
          BY <1>1, <1>2, <1>4, <1>7, <3>1, <4>1, <5>1
        <5>3. t[e] # "nl"
          <6>1. e \in DOMAIN t
            BY <1>2, <3>1
          <6> QED  BY <5>2, <6>1 DEF Newlines, IsNewline
        <5> QED  BY <5>1, <5>2, <5>3 DEF EndingStart
      <4>2. CASE found.len = 1
        <5>1. p = e - 1 /\ n <= p /\ e \in Newlines(t) /\ b <= n
          BY <1>1, <1>2, <1>4, <1>7, <1>8, <4>2, SMTT(30)
        <5>2. ~ (t[e] = "nl" /\ b < e - 1 /\ t[e - 1] = "cr")
          <6> SUFFICES ASSUME t[e] = "nl", b < e - 1, t[e - 1] = "cr" PROVE FALSE
            OBVIOUS
          <6>1. ~ (n < p)
            BY <1>7, <1>8, <4>2, <5>1
          <6>2. n = e - 1 /\ n + 1 = e /\ n \in 1..Len(t) - 1
            <7> HIDE DEF p, q
            <7> QED  BY <1>1, <1>2, <3>1, <5>1, <6>1 DEF j
          <6> QED  BY <6>2 DEF InsideBreak
        <5> QED  BY <5>1, <5>2 DEF EndingStart
      <4>3. CASE found.len = 2
        <5>1. p = e - 2 /\ p + 1 = e - 1 /\ b < e - 1
          BY <1>1, <1>2, <1>7, <1>8, <4>3, SMTT(30)
        <5> QED  BY <1>7, <1>8, <4>3, <5>1 DEF EndingStart
      <4> QED  BY <1>7, <4>1, <4>2, <4>3
    <3>4. e - p = found.len
      <4>1. p \in Nat /\ found.len \in Nat /\ p + found.len = e
        BY <1>2, <1>7, <1>8, SMTT(30)
      <4> HIDE DEF p
      <4> QED  BY ONLY <4>1
    <3> QED  BY <3>2, <3>3, <3>4
  <2> QED  BY <2>1, <2>2
<1> QED  BY <1>11, <1>12, <1>13

(* The text of a line that the locator is to find. *)
LEMMA LineText ==
    ASSUME NEW t \in Seq(Chars), NEW row \in Nat,
           NEW b \in 0..Len(t), NEW e \in b..Len(t),
           b = 0 <=> row = 0, t # <<>> => 0 < e,
           IndexLines(t)[row + 1] = Line(SubSeq(t, b + 1, e), Bytes(t, b))
    PROVE  StartsBehind(t, b) \in b..e /\ LocatorLine(t, row) = SubSeq(t, StartsBehind(t, b) + 1, e)
<1> DEFINE line == SubSeq(t, b + 1, e)
           a == StartsBehind(t, b)
<1>2. (b = 0 <=> row = 0) /\ (t # <<>> => 0 < e)
  OBVIOUS
<1>5. Len(t) \in Nat /\ e \in Nat /\ b \in Nat
  OBVIOUS
<1>7. IndexLines(t)[row + 1].text = line
  BY DEF Line
<1>8. SubSeq(t, a + 1, e) = LocatorLine(t, row)
  <2>1. CASE b = 0 /\ t # <<>> /\ t[1] = "bom"
    <3>1. a = 1 /\ row = 0 /\ ContentsStart(t) > 0 /\ 1 \in 0..Len(t) /\ 0 + 1 = 1 /\ b + 1 = 1
      BY <1>2, <2>1, BomSize DEF StartsBehind
    <3>2. e \in 1..Len(t)
      BY <1>2, <1>5, <2>1
    <3>3. /\ SubSeq(t, 1, e) \in Seq(Chars) /\ Len(SubSeq(t, 1, e)) = e
          /\ \A k \in 1..e : SubSeq(t, 1, e)[k] = t[k]
      <4>1. 0 \in 0..Len(t) /\ e \in 0..Len(t) /\ e - 0 = e
        BY <3>2
      <4>2. /\ SubSeq(t, 0 + 1, e) \in Seq(Chars) /\ Len(SubSeq(t, 0 + 1, e)) = e - 0
            /\ \A k \in 1..e - 0 : SubSeq(t, 0 + 1, e)[k] = t[0 + k]
        BY <4>1, Part
      <4> HIDE DEF line
      <4> QED  BY <3>1, <4>1, <4>2
    <3>4. /\ SubSeq(t, 1 + 1, e) \in Seq(Chars) /\ Len(SubSeq(t, 1 + 1, e)) = e - 1
          /\ \A k \in 1..e - 1 : SubSeq(t, 1 + 1, e)[k] = t[1 + k]
      BY <3>1, <3>2, Part
    <3> DEFINE u == SubSeq(t, 1, e)
               v == SubSeq(t, 1 + 1, e)
    <3>5. Tail(u) \in Seq(Chars) /\ Len(Tail(u)) = e - 1 /\ \A k \in 1..e - 1 : Tail(u)[k] = u[k + 1]
      <4> HIDE DEF u
      <4>1. u # <<>>
        <5>1. Len(u) # 0 /\ Len(<<>>) = 0
          BY <3>2, <3>3 DEF u
        <5> QED  BY ONLY <5>1
      <4> QED  BY <3>3, <3>2, <4>1 DEF u
    <3>6. v = Tail(u)
      <4>1. ASSUME NEW k \in 1..e - 1 PROVE v[k] = Tail(u)[k]
        <5>1. k + 1 \in 1..e /\ 1 + k = k + 1
          BY <3>2
        <5> QED  BY <3>3, <3>4, <3>5, <5>1
      <4> HIDE DEF u, v
      <4> QED  BY <3>4, <3>5, <4>1, SeqEqual DEF u, v
    <3>7. LocatorLine(t, row) = Tail(u)
      BY <1>7, <3>1 DEF LocatorLine
    <3> QED  BY <3>1, <3>6, <3>7
  <2>2. CASE ~ (b = 0 /\ t # <<>> /\ t[1] = "bom")
    <3>1. a = b /\ ~ (row = 0 /\ ContentsStart(t) > 0)
      BY <1>2, <2>2, BomSize DEF StartsBehind
    <3> QED  BY <1>7, <3>1 DEF LocatorLine
  <2> QED  BY <2>1, <2>2
<1>9. a \in b..e
  BY <1>2, <1>5 DEF StartsBehind
<1> QED  BY <1>8, <1>9

LEMMA LocatorFindsLines ==
    ASSUME NEW t \in Seq(Chars), NEW n \in 0..Len(t), ~ InsideBreak(t, n)
    PROVE  LocatorAgrees(t, n)
<1> DEFINE o == Bytes(t, n)
           row == Rows(t, n)
<1>1. PICK b, e : Around(t, n, b, e)
  BY LineAround
<1> DEFINE line == SubSeq(t, b + 1, e)
           a == StartsBehind(t, b)
<1>2. /\ b \in 0..n /\ e \in n..Len(t) /\ Begins(t, b, n) /\ (n < Len(t) => n < e)
      /\ row \in Nat /\ (b = 0 <=> row = 0) /\ RowOf(FromSourceText(t), o) = row
      /\ IndexLines(t)[row + 1] = Line(line, Bytes(t, b))
      /\ LineStart(FromSourceText(t), row, t) = Bytes(t, b)
  BY <1>1, IndexFacts DEF Around
<1>3. /\ a \in b..Len(t) /\ LocatorLineStart(t, o) = Bytes(t, a)
      /\ LocatorLineStart(t, o) = Bytes(t, b) + (IF b = 0 THEN ContentsStart(t) ELSE 0)
  BY <1>2, LocatorLineStartIs
<1>4. LocatorFullLineEnd(t, o) = Bytes(t, e) /\ LocatorLineEnd(t, o) = Bytes(t, e) - LineEndingLen(line)
  BY <1>1, LocatorLineEndIs
<1>5. Len(t) \in Nat /\ b \in 0..Len(t) /\ e \in b..Len(t) /\ e \in 0..Len(t) /\ a \in 0..Len(t)
  BY <1>2, <1>3
<1>6. FullLineAt(t, o) = SubSeq(t, a + 1, e)
  <2>1. FullLineAt(t, o) = Slice(t, Bytes(t, a), Bytes(t, e))
    BY <1>3, <1>4 DEF FullLineAt, FullLineRange, FullLinesRange
  <2> HIDE DEF a, o
  <2> QED  BY <1>5, <2>1, Slices
<1>7. IndexLines(t)[row + 1].text = line /\ IndexLines(t)[row + 1].offset = Bytes(t, b)
  BY <1>2 DEF Line
<1>8. SubSeq(t, a + 1, e) = LocatorLine(t, row)
  <2>1. t # <<>> => 0 < e
    <3> SUFFICES ASSUME t # <<>> PROVE 0 < e
      OBVIOUS
    <3>1. Len(t) > 0
      OBVIOUS
    <3> QED  BY <1>2, <1>5, <3>1
  <2>2. (b = 0 <=> row = 0) /\ IndexLines(t)[row + 1] = Line(SubSeq(t, b + 1, e), Bytes(t, b))
    BY <1>2
  <2> QED  BY <1>2, <1>5, <2>1, <2>2, LineText
<1>9. LocatorLineRange(t, o)[2] = EndOf(IndexLines(t)[row + 1])
  <2>1. LocatorLineRange(t, o)[2] = LocatorLineEnd(t, o)
    BY DEF LocatorLineRange, LinesRange
  <2>2. EndOf(IndexLines(t)[row + 1]) = Bytes(t, b) + TextLen(line) - LineEndingLen(line)
    BY <1>7 DEF EndOf
  <2>4. LocatorLineRange(t, o)[2] = Bytes(t, e) - LineEndingLen(line)
    BY <1>4, <2>1
  <2>5. EndOf(IndexLines(t)[row + 1]) = Bytes(t, e) - LineEndingLen(line)
    <3>1. Bytes(t, b) \in Nat /\ Bytes(t, e) \in Nat
      BY <1>5, BytesFacts
    <3>2. TextLen(line) = Bytes(t, e) - Bytes(t, b)
      BY <1>5, LengthOfPart
    <3>3. LineEndingLen(line) \in 0..2
      BY DEF LineEndingLen
    <3> HIDE DEF line
    <3> QED  BY <2>2, <3>1, <3>2, <3>3
  <2> QED  BY <2>4, <2>5
<1>10. IsAtStartOfLine(t, o)
         <=> o = LineStart(FromSourceText(t), row, t) + (IF row = 0 THEN ContentsStart(t) ELSE 0)
  <2>1. LocatorLineStart(t, o)
          = LineStart(FromSourceText(t), row, t) + (IF row = 0 THEN ContentsStart(t) ELSE 0)
    BY <1>2, <1>3
  <2> QED  BY <2>1 DEF IsAtStartOfLine
<1> HIDE DEF row, a, line
<1> QED  BY <1>2, <1>6, <1>8, <1>9, <1>10 DEF LocatorAgrees

(* A break is between two offsets exactly when their rows differ. *)
LEMMA LineBreaksBetween ==
    ASSUME NEW t \in Seq(Chars), NEW n \in 0..Len(t), NEW m \in n..Len(t), ~ InsideBreak(t, m)
    PROVE  ContainsLineBreak(t, Bytes(t, n), Bytes(t, m)) <=> Rows(t, n) # Rows(t, m)
<1>1. n \in 0..Len(t) /\ m \in 0..Len(t) /\ n \in Nat /\ m \in Nat /\ Len(t) \in Nat
  OBVIOUS
<1>2. Slice(t, Bytes(t, n), Bytes(t, m)) = SubSeq(t, n + 1, m)
  BY <1>1, Slices
<1>3. Newlines(SubSeq(t, n + 1, m)) = {k \in 1..m - n : n + k \in Newlines(t)}
  BY NewlinesOfPart
<1>4. /\ Newlines(t) \in SUBSET (1..Len(t)) /\ Breaks(t) \in SUBSET Newlines(t)
      /\ \A k \in Newlines(t) : k \notin Breaks(t) =>
                k < Len(t) /\ t[k] = "cr" /\ t[k + 1] = "nl" /\ k + 1 \in Breaks(t)
  BY NewlinesAre
<1>5. Rows(t, n) = Rows(t, m) <=> ~ \E k \in Breaks(t) : n < k /\ k <= m
  BY <1>1, RowsFacts
<1>6. ASSUME NEW k \in Breaks(t), n < k, k <= m
      PROVE  Newlines(SubSeq(t, n + 1, m)) # {}
  <2>1. k \in Nat /\ k \in Newlines(t)
    BY <1>4
  <2>2. k - n \in 1..m - n /\ n + (k - n) = k
    BY <1>1, <1>6, <2>1
  <2> QED  BY <1>3, <2>1, <2>2
<1>7. ASSUME NEW x \in Newlines(SubSeq(t, n + 1, m))
      PROVE  \E k \in Breaks(t) : n < k /\ k <= m
  <2> DEFINE k == n + x
  <2>1. k \in Newlines(t) /\ n < k /\ k <= m /\ k \in Nat
    BY <1>1, <1>3
  <2> HIDE DEF k
  <2>2. CASE k \in Breaks(t)
    BY <2>1, <2>2
  <2>3. CASE k \notin Breaks(t)
    <3>1. k < Len(t) /\ t[k] = "cr" /\ t[k + 1] = "nl" /\ k + 1 \in Breaks(t)
      BY <1>4, <2>1, <2>3
    <3>2. k # m
      <4>1. k \in 1..Len(t) - 1
        BY <1>1, <2>1, <3>1
      <4> QED  BY <3>1, <4>1 DEF InsideBreak
    <3>3. n < k + 1 /\ k + 1 <= m
      BY <1>1, <2>1, <3>2
    <3> QED  BY <3>1, <3>3
  <2> QED  BY <2>2, <2>3
<1> QED  BY <1>2, <1>5, <1>6, <1>7 DEF ContainsLineBreak

LEMMA RowIs ==
    ASSUME NEW t \in Seq(Chars), NEW row \in 0..Cardinality(Breaks(t))
    PROVE  LET b == RowBegin(t, row)
               a == StartsBehind(t, b)
               e == RowEnd(t, row)
           IN  /\ b \in 0..Len(t) /\ e \in b..Len(t) /\ a \in b..e
               /\ (b = 0 <=> row = 0) /\ (row > 0 => a = b)
               /\ LocatorLine(t, row) = SubSeq(t, a + 1, e)
<1> DEFINE b == RowBegin(t, row)
           e == RowEnd(t, row)
<1>1. /\ IndexLines(t)[row + 1] = Line(SubSeq(t, b + 1, e), Bytes(t, b))
      /\ b \in 0..Len(t) /\ e \in b..Len(t)
      /\ row # Cardinality(Breaks(t)) => b < e
      /\ b = 0 <=> row = 0
  BY IndexLinesAre DEF RowEnd
<1>2. row = Cardinality(Breaks(t)) => e = Len(t)
  BY DEF RowEnd
<1>3. row \in Nat /\ Cardinality(Breaks(t)) \in Nat
  BY IndexFacts
<1> HIDE DEF b, e
<1>4. t # <<>> => 0 < e
  <2> SUFFICES ASSUME t # <<>> PROVE 0 < e
    OBVIOUS
  <2>1. Len(t) > 0
    OBVIOUS
  <2> QED  BY <1>1, <1>2, <2>1
<1>5. StartsBehind(t, b) \in b..e /\ LocatorLine(t, row) = SubSeq(t, StartsBehind(t, b) + 1, e)
  BY <1>1, <1>3, <1>4, LineText
<1>6. row > 0 => StartsBehind(t, b) = b
  BY <1>1, <1>3 DEF StartsBehind
<1> QED  BY <1>1, <1>5, <1>6 DEF b, e

(* The lines between two rows are the part of the text between them. *)
LEMMA LocatorLinesAre ==
    ASSUME NEW t \in Seq(Chars), NEW from \in 0..Cardinality(Breaks(t)),
           NEW to \in from..Cardinality(Breaks(t))
    PROVE  LET a == StartsBehind(t, RowBegin(t, from))
           IN  /\ a \in 0..RowEnd(t, to)
               /\ LocatorLines(t, from, to) = SubSeq(t, a + 1, RowEnd(t, to))
<1> DEFINE C == Cardinality(Breaks(t))
           a == StartsBehind(t, RowBegin(t, from))
           Is(f) == f = [row \in from..to |->
                           IF row = from THEN LocatorLine(t, row) ELSE f[row - 1] \o LocatorLine(t, row)]
           found == CHOOSE f : Is(f)
           Part1(row) == SubSeq(t, a + 1, RowEnd(t, row))
           g == [row \in from..to |-> Part1(row)]
<1>1. C \in Nat /\ from \in Nat /\ to \in Nat /\ from <= to /\ to <= C /\ Len(t) \in Nat
  BY IndexFacts
<1>2. ASSUME NEW row \in from..to PROVE a \in 0..Len(t) /\ RowEnd(t, row) \in a..Len(t)
  <2> DEFINE T == {k \in 0..to - from : RowEnd(t, from + k) \in a..Len(t)}
  <2>1. from \in 0..C /\ from + 0 = from /\ 0 \in 0..to - from
    BY <1>1
  <2>2. 0 \in T /\ a \in 0..Len(t)
    BY <2>1, RowIs
  <2>3. ASSUME NEW k \in 0..(to - from) - 1, k \in T PROVE k + 1 \in T
    <3>1. from + k + 1 \in 0..C /\ from + k \in 0..C /\ from + k # C /\ k + 1 \in 0..to - from
          /\ from + (k + 1) = from + k + 1
      BY <1>1
    <3>2. RowEnd(t, from + k) = RowBegin(t, from + k + 1)
      BY <3>1 DEF RowEnd
    <3>3. RowEnd(t, from + k + 1) \in RowBegin(t, from + k + 1)..Len(t)
      BY <3>1, RowIs
    <3>4. RowEnd(t, from + k) \in a..Len(t)
      BY <2>3
    <3>5. RowEnd(t, from + k + 1) \in a..Len(t)
      <4> HIDE DEF a
      <4> QED  BY <2>2, <3>2, <3>3, <3>4
    <3> HIDE DEF a
    <3> QED  BY <3>1, <3>5
  <2>4. row - from \in 0..to - from /\ from + (row - from) = row /\ to - from \in Nat
    BY <1>1
  <2>5. row - from \in T
    <3> HIDE DEF T
    <3> QED  BY <2>2, <2>3, <2>4, UpTo
  <2> QED  BY <2>2, <2>4, <2>5
<1>3. LocatorLine(t, from) = Part1(from)
  BY <1>1, RowIs
<1>4. ASSUME NEW row \in from + 1..to
      PROVE  Part1(row) = Part1(row - 1) \o LocatorLine(t, row)
  <2>1. /\ row - 1 \in from..to /\ row \in from..to /\ row > 0 /\ row \in 0..C /\ row - 1 # C
        /\ (row - 1) + 1 = row
    BY <1>1
  <2>2. RowEnd(t, row - 1) = RowBegin(t, row)
    BY <2>1 DEF RowEnd
  <2>3. LocatorLine(t, row) = SubSeq(t, RowBegin(t, row) + 1, RowEnd(t, row))
    BY <2>1, RowIs
  <2>4. /\ RowEnd(t, row - 1) \in a..Len(t) /\ RowEnd(t, row) \in a..Len(t) /\ a \in 0..Len(t)
        /\ RowEnd(t, row) \in RowBegin(t, row)..Len(t)
    BY <1>2, <2>1, RowIs
  <2> DEFINE x == RowEnd(t, row - 1)
             y == RowEnd(t, row)
  <2>5. SubSeq(t, a + 1, x) \o SubSeq(t, x + 1, y) = SubSeq(t, a + 1, y)
    <3>1. a + 1 \in 1..Len(t) + 1 /\ x \in (a + 1) - 1..Len(t) /\ y \in x..Len(t)
      <4> HIDE DEF a
      <4> QED  BY <1>1, <2>2, <2>4
    <3> HIDE DEF x, y, a
    <3> QED  BY <3>1, ConcatAdjacentSubSeq
  <2> QED  BY <2>2, <2>3, <2>5
<1>5. Is(g)
  <2>1. ASSUME NEW row \in from..to
        PROVE  g[row] = IF row = from THEN LocatorLine(t, row) ELSE g[row - 1] \o LocatorLine(t, row)
    <3>1. CASE row = from
      BY <1>3, <3>1
    <3>2. CASE row # from
      <4>1. row \in from + 1..to /\ row - 1 \in from..to
        BY <1>1, <3>2
      <4>2. g[row] = Part1(row) /\ g[row - 1] = Part1(row - 1)
        BY <4>1
      <4> HIDE DEF Part1, g
      <4> QED  BY <1>4, <3>2, <4>1, <4>2
    <3> QED  BY <3>1, <3>2
  <2> HIDE DEF Part1
  <2> QED  BY <2>1
<1>6. Is(found)
  <2> HIDE DEF Is, g
  <2> QED  BY <1>5
<1>7. LocatorLines(t, from, to) = found[to]
  BY DEF LocatorLines
<1> HIDE DEF found, Part1
<1>8. ASSUME NEW row \in from..to
      PROVE  found[row] = IF row = from THEN LocatorLine(t, row) ELSE found[row - 1] \o LocatorLine(t, row)
  BY <1>6
<1> DEFINE T == {k \in 0..to - from : found[from + k] = Part1(from + k)}
<1>9. 0 \in T
  <2>1. from + 0 = from /\ from \in from..to /\ 0 \in 0..to - from
    BY <1>1
  <2> QED  BY <1>3, <1>8, <2>1
<1>10. ASSUME NEW k \in 0..(to - from) - 1, k \in T PROVE k + 1 \in T
  <2>1. /\ from + (k + 1) \in from + 1..to /\ from + (k + 1) \in from..to /\ from + (k + 1) # from
        /\ (from + (k + 1)) - 1 = from + k /\ k + 1 \in 0..to - from
    BY <1>1
  <2>2. found[from + (k + 1)] = found[from + k] \o LocatorLine(t, from + (k + 1))
    BY <1>8, <2>1
  <2>3. Part1(from + (k + 1)) = Part1(from + k) \o LocatorLine(t, from + (k + 1))
    BY <1>4, <2>1
  <2>4. found[from + k] = Part1(from + k)
    BY <1>10
  <2> QED  BY <2>1, <2>2, <2>3, <2>4
<1>11. found[to] = Part1(to)
  <2>1. to - from \in Nat /\ to - from \in 0..to - from /\ from + (to - from) = to
    BY <1>1
  <2>2. to - from \in T
    <3> HIDE DEF T
    <3> QED  BY <1>9, <1>10, <2>1, UpTo
  <2> QED  BY <2>1, <2>2
<1>12. to \in from..to
  BY <1>1
<1>13. a \in 0..Len(t) /\ RowEnd(t, to) \in a..Len(t)
  BY <1>2, <1>12
<1>14. a \in 0..RowEnd(t, to)
  <2> HIDE DEF a
  <2> QED  BY <1>1, <1>13
<1> QED  BY <1>7, <1>11, <1>14 DEF Part1

(* The lines around two offsets are those of the index between their rows. *)
LEMMA LocatorFindsRanges ==
    ASSUME NEW t \in Seq(Chars), NEW n \in 0..Len(t), NEW m \in n..Len(t),
           ~ InsideBreak(t, n), ~ InsideBreak(t, m)
    PROVE  LocatorRangesAgree(t, n, m)
<1> DEFINE from == Rows(t, n)
           to == Rows(t, m)
<1>1. n \in 0..Len(t) /\ m \in 0..Len(t) /\ Len(t) \in Nat
  OBVIOUS
<1>2. PICK b, e : Around(t, n, b, e)
  BY LineAround
<1>3. PICK c, d : Around(t, m, c, d)
  BY <1>1, LineAround
<1>4. /\ b \in 0..n /\ Begins(t, b, n) /\ b = RowBegin(t, from)
      /\ RowOf(FromSourceText(t), Bytes(t, n)) = from /\ from \in 0..Cardinality(Breaks(t))
  BY <1>2 DEF Around
<1>5. /\ d \in m..Len(t) /\ d = RowEnd(t, to)
      /\ RowOf(FromSourceText(t), Bytes(t, m)) = to /\ to \in 0..Cardinality(Breaks(t))
  BY <1>3 DEF Around
<1>6. from <= to
  BY <1>1, RowsFacts
<1>7. to \in from..Cardinality(Breaks(t))
  <2>1. Cardinality(Breaks(t)) \in Nat
    BY IndexFacts
  <2> HIDE DEF from, to
  <2> QED  BY <1>4, <1>5, <1>6, <2>1
<1> DEFINE a == StartsBehind(t, b)
<1>8. a \in b..Len(t) /\ LocatorLineStart(t, Bytes(t, n)) = Bytes(t, a)
  BY <1>4, LocatorLineStartIs
<1>9. LocatorFullLineEnd(t, Bytes(t, m)) = Bytes(t, d)
  BY <1>1, <1>3, LocatorLineEndIs
<1>10. FullLinesOf(t, Bytes(t, n), Bytes(t, m)) = SubSeq(t, a + 1, d)
  <2>1. FullLinesOf(t, Bytes(t, n), Bytes(t, m)) = Slice(t, Bytes(t, a), Bytes(t, d))
    BY <1>8, <1>9 DEF FullLinesOf, FullLinesRange
  <2>2. a \in 0..Len(t) /\ d \in 0..Len(t)
    <3> HIDE DEF a
    <3> QED  BY <1>1, <1>4, <1>5, <1>8
  <2> HIDE DEF a
  <2> QED  BY <2>1, <2>2, Slices
<1>11. LocatorLines(t, from, to) = SubSeq(t, a + 1, d)
  BY <1>4, <1>5, <1>7, LocatorLinesAre
<1>12. ContainsLineBreak(t, Bytes(t, n), Bytes(t, m)) <=> from # to
  BY LineBreaksBetween
<1> HIDE DEF from, to, a
<1> QED  BY <1>4, <1>5, <1>10, <1>11, <1>12 DEF LocatorRangesAgree

(* The first boundary at or before an offset is at most three bytes away. *)
LEMMA FloorIsBoundary ==
    ASSUME NEW t \in Seq(Chars), NEW o \in 0..TextLen(t)
    PROVE  FloorIsRight(t, o)
<1>1. Len(t) \in Nat /\ TextLen(t) = Bytes(t, Len(t)) /\ Bytes(t, 0) = 0
      /\ \A n \in 0..Len(t) : Bytes(t, n) \in Nat
  BY BytesFacts
<1>2. TextLen(t) \in Nat /\ o \in Nat /\ o <= TextLen(t)
  <2>1. TextLen(t) \in Nat
    BY <1>1
  <2> HIDE DEF TextLen
  <2> QED  BY <2>1
<1>3. CASE o >= TextLen(t)
  <2>1. FloorCharBoundary(t, o) = TextLen(t) /\ o = TextLen(t)
    BY <1>2, <1>3 DEF FloorCharBoundary
  <2>2. IsBoundary(t, TextLen(t))
    BY <1>1 DEF IsBoundary
  <2> QED  BY <1>2, <2>1, <2>2 DEF FloorIsRight
<1>4. CASE ~ (o >= TextLen(t))
  <2> DEFINE T == {n \in 0..Len(t) : Bytes(t, n) <= o}
             boundaries == {k \in 0..3 : k <= o /\ IsBoundary(t, o - k)}
  <2>1. PICK n \in T : \A m \in T : m <= n
    <3>1. 0 \in T /\ T \in SUBSET (0..Len(t))
      BY <1>1, <1>2
    <3> HIDE DEF T
    <3> QED  BY <1>1, <3>1, Greatest
  <2>2. n \in 0..Len(t) /\ Bytes(t, n) <= o /\ n # Len(t)
    BY <1>1, <1>2, <1>4, <2>1
  <2>3. n + 1 \in 1..Len(t) /\ n + 1 \in 0..Len(t) /\ (n + 1) - 1 = n /\ ~ (n + 1 <= n)
    BY <1>1, <2>2
  <2>4. ~ (Bytes(t, n + 1) <= o)
    BY <2>1, <2>3
  <2>5. Bytes(t, n + 1) <= Bytes(t, n) + 4
    <3>1. LenUtf8 \in [Chars -> Nat] /\ LenUtf8 \in [Chars -> 1..4]
      BY CharLengths
    <3>2. Bytes(t, n + 1) = Bytes(t, n) + LenUtf8[t[n + 1]]
      BY <2>3, <3>1, SizeUnfolds DEF Bytes
    <3>3. t[n + 1] \in Chars
      BY <2>3
    <3>4. LenUtf8[t[n + 1]] \in 1..4
      BY <3>1, <3>3
    <3> QED  BY <1>1, <2>2, <3>2, <3>4
  <2>6. o - Bytes(t, n) \in boundaries
    <3>1. Bytes(t, n) \in Nat /\ Bytes(t, n + 1) \in Nat
      BY <1>1, <2>2, <2>3
    <3>2. o - Bytes(t, n) \in 0..3 /\ o - Bytes(t, n) <= o /\ o - (o - Bytes(t, n)) = Bytes(t, n)
      BY <1>2, <2>2, <2>4, <2>5, <3>1, SMTT(30)
    <3>3. IsBoundary(t, Bytes(t, n))
      BY <2>2 DEF IsBoundary
    <3> QED  BY <3>2, <3>3
  <2> DEFINE k == CHOOSE i \in boundaries : \A m \in boundaries : i <= m
  <2>7. FloorCharBoundary(t, o) = o - k
    <3>1. boundaries # {}
      BY <2>6
    <3>2. FloorCharBoundary(t, o)
            = IF o >= TextLen(t) THEN TextLen(t)
              ELSE IF boundaries = {} THEN 0
              ELSE o - (CHOOSE i \in boundaries : \A m \in boundaries : i <= m)
      BY DEF FloorCharBoundary
    <3> HIDE DEF boundaries
    <3> QED  BY <1>4, <3>1, <3>2
  <2>8. k \in boundaries /\ \A m \in boundaries : k <= m
    <3>1. boundaries \in SUBSET Nat /\ boundaries # {}
      BY <2>6
    <3> HIDE DEF boundaries
    <3> QED  BY <3>1, Least
  <2> HIDE DEF k
  <2>9. k \in 0..3 /\ k <= o /\ IsBoundary(t, o - k)
    BY <2>8
  <2>10. ASSUME NEW j \in (o - k) + 1..o PROVE ~ IsBoundary(t, j)
    <3> SUFFICES ASSUME IsBoundary(t, j) PROVE FALSE
      OBVIOUS
    <3>1. o - j \in 0..3 /\ o - j <= o /\ o - (o - j) = j /\ ~ (k <= o - j)
      BY <1>2, <2>9
    <3>2. o - j \in boundaries
      BY <3>1
    <3> QED  BY <2>8, <3>1, <3>2
  <2>11. o - k <= o
    BY <1>2, <2>9
  <2> QED  BY <2>7, <2>9, <2>10, <2>11 DEF FloorIsRight
<1> QED  BY <1>3, <1>4

LEMMA LinesOfTextsAgree ==
    ASSUME source \in Seq(Chars)
    PROVE  LinesAgree
<1> DEFINE offsets == {n \in 0..Len(source) : ~ InsideBreak(source, n)}
<1>1. source # <<>> => \A back \in [1..Len(source) -> BOOLEAN] :
            Taken(source, back) \o Trailing(source) = IndexLines(source)
  BY TakenIs
<1>2. \A n \in offsets : LocatorAgrees(source, n)
  BY LocatorFindsLines
<1>3. \A n, m \in offsets : n <= m => LocatorRangesAgree(source, n, m)
  <2> SUFFICES ASSUME NEW n \in offsets, NEW m \in offsets, n <= m
               PROVE  LocatorRangesAgree(source, n, m)
    OBVIOUS
  <2>1. m \in n..Len(source)
    OBVIOUS
  <2> QED  BY <2>1, LocatorFindsRanges
<1>4. \A o \in 0..TextLen(source) : FloorIsRight(source, o)
  BY FloorIsBoundary
<1> HIDE DEF offsets
<1> QED  BY <1>1, <1>2, <1>3, <1>4 DEF LinesAgree, offsets

(* The index, the iterators from either end in any order of calls, and the *)
(* locator find the same lines of every text (newlines.rs, line_index.rs,  *)
(* locator.rs).                                                            *)
THEOREM LinesAlwaysAgree == TextsSpec => []LinesAgree
<1>1. TextsTyped => LinesAgree
  BY TypedTexts, LinesOfTextsAgree
<1> QED  BY <1>1, TextsAreTyped, PTL
=============================================================================
