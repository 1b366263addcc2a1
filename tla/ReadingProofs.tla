---------------------------- MODULE ReadingProofs ----------------------------
(***************************************************************************)
(* parseExp reads the expressions of the grammar: ExpSound, for every      *)
(* text.  Does says of each item of the call stack what its function does  *)
(* to the values made and to the current token, in terms of the trees that *)
(* the grammar reads in the tokens consumed; Reaches says it of several    *)
(* items one after the other.  The invariant is that whatever the items on *)
(* the stack can reach is a reading of the whole expression.  A call       *)
(* replaces an item by others, so it keeps the invariant if what these     *)
(* reach, that item does: the lemmas BaseOf, Arguments, Operators, Exp,    *)
(* Elements and More show it of the bodies of the functions, by the        *)
(* productions of the grammar.                                             *)
(***************************************************************************)
EXTENDS Reading, ParserProofs

\* FirstTokens adds the tokens one by one.
LEMMA FirstSteps ==
  ASSUME NEW txt, NEW n \in Nat
  PROVE  \E f : /\ f[0] = <<>>
                /\ \A m \in 1..n : f[m] = WithNext(txt, f[m - 1])
                /\ FirstTokens(txt, n) = f[n]
<1> DEFINE Steps(f, m) == f = [k \in 0..m |-> IF k = 0 THEN <<>> ELSE WithNext(txt, f[k - 1])]
           T == {m \in Nat : \E f : Steps(f, m)}
<1>1. 0 \in T
  <2>1. Steps([k \in 0..0 |-> <<>>], 0)
    OBVIOUS
  <2> QED
    BY <2>1
<1>2. ASSUME NEW m \in Nat, m \in T PROVE m + 1 \in T
  <2>1. PICK f : Steps(f, m)
    BY <1>2
  <2> DEFINE g == [k \in 0..(m + 1) |-> IF k <= m THEN f[k] ELSE WithNext(txt, f[m])]
  <2>2. Steps(g, m + 1)
    <3> SUFFICES ASSUME NEW k \in 0..(m + 1)
                 PROVE  g[k] = IF k = 0 THEN <<>> ELSE WithNext(txt, g[k - 1])
      OBVIOUS
    <3>1. CASE k <= m
      <4>1. g[k] = f[k] /\ (k # 0 => g[k - 1] = f[k - 1])
        BY <3>1
      <4>2. f[k] = IF k = 0 THEN <<>> ELSE WithNext(txt, f[k - 1])
        <5>1. k \in 0..m
          BY <3>1
        <5> QED
          BY <2>1, <5>1, Zenon
      <4> QED
        BY <4>1, <4>2
    <3>2. CASE k = m + 1
      BY <3>2
    <3> QED
      BY <3>1, <3>2
  <2> HIDE DEF g, Steps
  <2>3. \E h : Steps(h, m + 1)
    BY <2>2
  <2> QED
    BY <2>3
<1>3. \E f : Steps(f, n)
  <2> HIDE DEF Steps
  <2> QED
    BY <1>1, <1>2, Induction
<1> DEFINE h == CHOOSE h : Steps(h, n)
<1>4. Steps(h, n)
  BY <1>3
<1>5. FirstTokens(txt, n) = h[n]
  BY DEF FirstTokens
<1> HIDE DEF h
<1>6. \A k \in 0..n : h[k] = IF k = 0 THEN <<>> ELSE WithNext(txt, h[k - 1])
  BY <1>4
<1>7. h[0] = <<>> /\ \A m \in 1..n : h[m] = WithNext(txt, h[m - 1])
  BY <1>6
<1> QED
  BY <1>5, <1>7

\* Each token starts where the one before it ended, the first one at the start.
LEMMA AllTokensAre ==
  ASSUME NEW txt \in Seq(STRING)
  PROVE  LET ts == AllTokens(txt) IN
         /\ Len(ts) = Len(txt) + 1 /\ \E S : ts \in Seq(S)
         /\ ts[1] = Match(txt, 1)
         /\ \A k \in 1..Len(txt) : ts[k + 1] = Match(txt, End(ts[k]))
<1> DEFINE n == Len(txt) + 1
<1>0. n \in Nat /\ n >= 1
  OBVIOUS
<1> HIDE DEF n
<1>1. PICK f : /\ f[0] = <<>> /\ \A m \in 1..n : f[m] = WithNext(txt, f[m - 1])
               /\ AllTokens(txt) = f[n]
  BY <1>0, FirstSteps DEF AllTokens, n
<1> DEFINE Good(ts, m) == /\ Len(ts) = m /\ \E S : ts \in Seq(S)
                          /\ m >= 1 => ts[1] = Match(txt, 1)
                          /\ \A k \in 1..(m - 1) : ts[k + 1] = Match(txt, End(ts[k]))
           T == {m \in Nat : m <= n => Good(f[m], m)}
<1>2. 0 \in T
  <2>1. <<>> \in Seq({}) /\ Len(<<>>) = 0
    OBVIOUS
  <2>2. Good(<<>>, 0)
    <3>1. \E S : <<>> \in Seq(S)
      BY <2>1
    <3> QED
      BY <2>1, <3>1
  <2> QED
    BY <1>1, <2>2
<1>3. ASSUME NEW m \in Nat, m \in T PROVE m + 1 \in T
  <2> SUFFICES ASSUME m + 1 <= n PROVE Good(f[m + 1], m + 1)
    OBVIOUS
  <2>1. Good(f[m], m)
    BY <1>0, <1>3
  <2>2. f[m + 1] = WithNext(txt, f[m])
    <3>1. m + 1 \in 1..n /\ (m + 1) - 1 = m
      BY <1>0
    <3> QED
      BY <1>1, <3>1
  <2> DEFINE ts == f[m]
             t == Match(txt, IF ts = <<>> THEN 1 ELSE End(Last(ts)))
  <2>3. PICK S : ts \in Seq(S)
    BY <2>1
  <2>4. ts \in Seq(S \cup {t}) /\ Len(ts) = m
    BY <2>1, <2>3
  <2>5. f[m + 1] = Append(ts, t)
    BY <2>2 DEF WithNext
  <2>6. m > 0 => t = Match(txt, End(ts[m]))
    BY <2>4 DEF Last
  <2>7. m = 0 => t = Match(txt, 1)
    BY <2>4
  <2> HIDE DEF ts, t
  <2>8. /\ Append(ts, t) \in Seq(S \cup {t}) /\ Len(Append(ts, t)) = m + 1
        /\ Append(ts, t)[m + 1] = t /\ \A k \in 1..m : Append(ts, t)[k] = ts[k]
    BY <2>4
  <2>9. m > 0 => Append(ts, t)[1] = Match(txt, 1)
    BY <2>1, <2>8 DEF ts
  <2>10. ASSUME NEW k \in 1..m PROVE Append(ts, t)[k + 1] = Match(txt, End(Append(ts, t)[k]))
    <3>1. CASE k < m
      <4>1. k + 1 \in 1..m /\ k \in 1..(m - 1)
        BY <3>1
      <4> QED
        BY <2>1, <2>8, <4>1 DEF ts
    <3>2. CASE k = m
      <4>1. /\ Append(ts, t)[k + 1] = t /\ Append(ts, t)[k] = ts[m]
            /\ t = Match(txt, End(ts[m]))
        BY <2>6, <2>8, <3>2
      <4> QED
        BY <4>1, Zenon
    <3>3. k < m \/ k = m
      OBVIOUS
    <3> QED
      BY <3>1, <3>2, <3>3
  <2>11. Good(Append(ts, t), m + 1)
    <3>1. m + 1 >= 1 => Append(ts, t)[1] = Match(txt, 1)
      BY <2>7, <2>8, <2>9
    <3>2. (m + 1) - 1 = m
      OBVIOUS
    <3> QED
      BY <2>8, <2>10, <3>1, <3>2
  <2> QED
    BY <2>5, <2>11
<1>4. n \in T
  <2> HIDE DEF T
  <2> QED
    BY <1>0, <1>2, <1>3, Induction
<1>5. Good(AllTokens(txt), n)
  BY <1>0, <1>1, <1>4
<1>6. n - 1 = Len(txt)
  BY DEF n
<1> QED
  BY <1>0, <1>5, <1>6 DEF n
-------------------------------------------------------------------------------
\* The table is what its rows say.
LEMMA TableSteps ==
  ASSUME NEW txt, Len(AllTokens(txt)) \in Nat
  PROVE  \A n \in 0..Len(AllTokens(txt)) :
           ReadTable(txt)[n] = Row(txt, AllTokens(txt), [m \in 0..(n - 1) |-> ReadTable(txt)[m]], n)
<1> DEFINE ts == AllTokens(txt)
           Next1(f, n) == Row(txt, ts, [m \in 0..(n - 1) |-> f[m]], n)
           Steps(f, k) == f = [n \in 0..k |-> Row(txt, ts, [m \in 0..(n - 1) |-> f[m]], n)]
           T == {k \in Nat : \E f : Steps(f, k)}
<1> HIDE DEF ts
<1>a. ASSUME NEW k \in Nat, NEW f, NEW g, NEW n \in 0..(k + 1), \A m \in 0..k : f[m] = g[m]
      PROVE  Next1(f, n) = Next1(g, n)
  <2>1. [m \in 0..(n - 1) |-> f[m]] = [m \in 0..(n - 1) |-> g[m]]
    BY <1>a
  <2> QED
    BY <2>1, Zenon
<1>1. 0 \in T
  <2> DEFINE f == [n \in 0..0 |-> Row(txt, ts, [m \in 0..(0 - 1) |-> 0], 0)]
  <2>1. \A n \in 0..0 : [m \in 0..(n - 1) |-> f[m]] = [m \in 0..(0 - 1) |-> 0] /\ n = 0
    OBVIOUS
  <2>2. Steps(f, 0)
    BY <2>1
  <2> QED
    BY <2>2
<1>2. ASSUME NEW k \in Nat, k \in T PROVE k + 1 \in T
  <2>1. PICK f : Steps(f, k)
    BY <1>2
  <2> DEFINE g == [n \in 0..(k + 1) |-> IF n <= k THEN f[n] ELSE Next1(f, k + 1)]
  <2>2. \A m \in 0..k : g[m] = f[m]
    OBVIOUS
  <2> HIDE DEF Next1
  <2>3. ASSUME NEW n \in 0..(k + 1) PROVE g[n] = Next1(g, n)
    <3>1. Next1(g, n) = Next1(f, n)
      BY <1>a, <2>2
    <3>2. CASE n <= k
      <4>1. n \in 0..k /\ g[n] = f[n]
        BY <3>2
      <4>2. f[n] = Next1(f, n)
        BY <2>1, <4>1 DEF Next1
      <4> QED
        BY <3>1, <4>1, <4>2
    <3>3. CASE n = k + 1
      <4>1. g[n] = Next1(f, n)
        BY <3>3
      <4> QED
        BY <3>1, <4>1
    <3> QED
      BY <3>2, <3>3
  <2> DEFINE h == [n \in 0..(k + 1) |-> Next1(g, n)]
  <2>4. g = h
    BY <2>3
  <2> HIDE DEF g
  <2>5. Steps(g, k + 1)
    BY <2>4 DEF Next1
  <2> QED
    BY <2>5
<1>3. \E f : Steps(f, Len(ts))
  <2> HIDE DEF Steps
  <2> QED
    BY <1>1, <1>2, Induction DEF ts
<1> DEFINE h == CHOOSE h : Steps(h, Len(ts))
<1>4. Steps(h, Len(ts))
  BY <1>3, Zenon
<1>5. ReadTable(txt) = h
  BY DEF ReadTable, ts
<1> HIDE DEF h
<1>6. ASSUME NEW n \in 0..Len(ts) PROVE h[n] = Next1(h, n)
  BY <1>4
<1> QED
  BY <1>5, <1>6 DEF ts

\* What the tokens i to j - 1 are follows from what shorter ranges are.
Knows(txt, R, n) ==
  \A a, b \in DOMAIN AllTokens(txt) : \A q \in 0..8 :
    0 <= b - a /\ b - a < n => Among(R, a, b, q) = Reads(txt, a, b, q)

\* The trees of a range of tokens are those that the productions give from the shorter
\* ranges.
LEMMA ReadsIs ==
  ASSUME NEW txt \in Seq(STRING), NEW i \in DOMAIN AllTokens(txt),
         NEW j \in DOMAIN AllTokens(txt), i <= j
  PROVE  \E R : /\ Knows(txt, R, j - i)
                /\ \A p \in 0..8 : Reads(txt, i, j, p) = Readings(txt, AllTokens(txt), R, i, j, p)
<1> DEFINE ts == AllTokens(txt)
           n == j - i
           R == [m \in 0..(n - 1) |-> ReadTable(txt)[m]]
<1>1. Len(ts) \in Nat /\ DOMAIN ts = 1..Len(ts) /\ n \in 0..Len(ts) /\ i + n = j
  BY AllTokensAre
<1>2. ReadTable(txt)[n] = Row(txt, ts, R, n)
  BY <1>1, TableSteps
<1>3. ASSUME NEW p \in 0..8
      PROVE  Row(txt, ts, R, n)[<<i, p>>] = Readings(txt, ts, R, i, j, p)
  <2>1. <<i, p>> \in (1..Len(ts)) \X (0..8)
    BY <1>1
  <2> HIDE DEF ts, n, R
  <2>2. Row(txt, ts, R, n)[<<i, p>>] = Readings(txt, ts, R, <<i, p>>[1], <<i, p>>[1] + n, <<i, p>>[2])
    BY <2>1, Zenon DEF Row
  <2> QED
    BY <1>1, <2>2
<1>4. Knows(txt, R, n)
  <2> SUFFICES ASSUME NEW a \in DOMAIN ts, NEW b \in DOMAIN ts, NEW q \in 0..8,
                      0 <= b - a, b - a < n
               PROVE  R[b - a] = ReadTable(txt)[b - a]
    BY DEF Knows, Among, Reads
  <2>1. b - a \in 0..(n - 1)
    BY <1>1
  <2> HIDE DEF n
  <2> QED
    BY <2>1
<1> HIDE DEF R
<1>5. \A p \in 0..8 : Reads(txt, i, j, p) = Readings(txt, ts, R, i, j, p)
  BY <1>2, <1>3 DEF Reads, Among
<1> QED
  BY <1>4, <1>5

KindAt(txt, i) == AllTokens(txt)[i].kind
TextAt(txt, i) == TextOf(txt, AllTokens(txt)[i])
Places(txt)    == DOMAIN AllTokens(txt)

\* There are as many tokens as characters, and one more.
LEMMA PlacesAre ==
  ASSUME NEW txt \in Seq(STRING)
  PROVE  Places(txt) = 1..(Len(txt) + 1) /\ Len(txt) \in Nat
BY AllTokensAre DEF Places

\* The tokens between two tokens are tokens.
LEMMA Between ==
  ASSUME NEW txt \in Seq(STRING), NEW i \in Places(txt), NEW j \in Places(txt)
  PROVE  i \in Nat \ {0} /\ j \in Nat \ {0} /\ \A k \in i..j : k \in Places(txt)
BY PlacesAre

\* The productions, each of them read off from the grammar.
ReadsBy(txt, R, i, j, p) ==
  LET ts == AllTokens(txt)
  IN  /\ Knows(txt, R, j - i)
      /\ Reads(txt, i, j, p) =
           Identifiers(txt, ts, i, j) \cup Numbers(txt, ts, i, j) \cup Parenthesised(ts, R, i, j)
             \cup Casts(ts, R, i, j) \cup MinMax(ts, R, i, j) \cup Accesses(txt, ts, R, i, j)
             \cup Signed(ts, R, i, j) \cup Binaries(ts, R, i, j, p) \cup Ternaries(ts, R, i, j, p)

\* One table of the shorter ranges serves every precedence.
LEMMA ReadsBase ==
  ASSUME NEW txt \in Seq(STRING), NEW i \in Places(txt), NEW j \in Places(txt), i <= j
  PROVE  \E R : \A p \in 0..7 : ReadsBy(txt, R, i, j, p)
<1>2. PICK R : /\ Knows(txt, R, j - i)
               /\ \A p \in 0..8 : Reads(txt, i, j, p) = Readings(txt, AllTokens(txt), R, i, j, p)
  BY ReadsIs DEF Places
<1>3. ASSUME NEW p \in 0..7 PROVE ReadsBy(txt, R, i, j, p)
  <2>1. p \in 0..8 /\ p # 8
    OBVIOUS
  <2> QED
    BY <1>2, <2>1, Zenon DEF Readings, ReadsBy
<1> QED
  BY <1>3

\* Names and numbers.
LEMMA ReadsLeaf ==
  ASSUME NEW txt \in Seq(STRING), NEW i \in Places(txt), i + 1 \in Places(txt), NEW p \in 0..7
  PROVE  /\ KindAt(txt, i) = "ident"  => Ident(TextAt(txt, i)) \in Reads(txt, i, i + 1, p)
         /\ KindAt(txt, i) = "number" /\ TextAt(txt, i) \notin OutOfRange
              => Number(TextAt(txt, i)) \in Reads(txt, i, i + 1, p)
<1> DEFINE j == i + 1
<1>2. j \in Places(txt) /\ i <= j /\ j = i + 1
  BY PlacesAre
<1> HIDE DEF j
<1>3. KindAt(txt, i) = "ident" => Ident(TextAt(txt, i)) \in Identifiers(txt, AllTokens(txt), i, j)
  BY <1>2, Zenon DEF Identifiers, KindAt, TextAt
<1>4. KindAt(txt, i) = "number" /\ TextAt(txt, i) \notin OutOfRange
        => Number(TextAt(txt, i)) \in Numbers(txt, AllTokens(txt), i, j)
  BY <1>2, Zenon DEF Numbers, KindAt, TextAt
<1>5. PICK R : ReadsBy(txt, R, i, j, p)
  BY <1>2, ReadsBase
<1> QED
  BY <1>2, <1>3, <1>4, <1>5 DEF ReadsBy

\* What a range known to be shorter is, is what it is.
LEMMA KnownIs ==
  ASSUME NEW txt, NEW R, NEW n, Knows(txt, R, n), NEW a \in Places(txt), NEW b \in Places(txt),
         NEW q \in 0..8, 0 <= b - a, b - a < n
  PROVE  Among(R, a, b, q) = Reads(txt, a, b, q)
BY DEF Knows, Places

\* ( e )
LEMMA ReadsParens ==
  ASSUME NEW txt \in Seq(STRING), NEW i \in Places(txt), NEW j \in Places(txt), i + 1 <= j,
         j + 1 \in Places(txt), KindAt(txt, i) = "(", KindAt(txt, j) = ")",
         NEW e \in Reads(txt, i + 1, j, 0), NEW p \in 0..7
  PROVE  e \in Reads(txt, i, j + 1, p)
<1>1. /\ i \in Nat /\ j \in Nat /\ i <= j + 1 /\ i + 1 \in Places(txt)
      /\ 0 <= j - (i + 1) /\ j - (i + 1) < (j + 1) - i
      /\ (i + 1) - 1 = i /\ (j + 1) - 1 = j /\ j + 1 > i + 1
  BY ONLY PlacesAre, txt \in Seq(STRING), i \in Places(txt), j \in Places(txt), i + 1 <= j
<1>0. PICK R : ReadsBy(txt, R, i, j + 1, p)
  BY <1>1, ReadsBase
<1>2. /\ Knows(txt, R, (j + 1) - i)
      /\ Parenthesised(AllTokens(txt), R, i, j + 1) \subseteq Reads(txt, i, j + 1, p)
  BY <1>0 DEF ReadsBy
<1>3. Among(R, i + 1, j, 0) = Reads(txt, i + 1, j, 0)
  BY <1>1, <1>2, KnownIs
<1>4. Parenthesised(AllTokens(txt), R, i, j + 1) = Among(R, i + 1, j, 0)
  BY <1>1 DEF Parenthesised, Enclosed, KindAt
<1> QED
  BY <1>2, <1>3, <1>4

\* int32 ( e )
LEMMA ReadsCast ==
  ASSUME NEW txt \in Seq(STRING), NEW i \in Places(txt), NEW j \in Places(txt), i + 2 <= j,
         j + 1 \in Places(txt), KindAt(txt, i) \in ScalarTypes, KindAt(txt, i + 1) = "(",
         KindAt(txt, j) = ")", NEW e \in Reads(txt, i + 2, j, 0), NEW p \in 0..7
  PROVE  Op(KindAt(txt, i), <<e>>) \in Reads(txt, i, j + 1, p)
<1>1. /\ i \in Nat /\ j \in Nat /\ i <= j + 1 /\ i + 2 \in Places(txt)
      /\ 0 <= j - (i + 2) /\ j - (i + 2) < (j + 1) - i
      /\ (i + 2) - 1 = i + 1 /\ (j + 1) - 1 = j /\ j + 1 > i + 2
  BY ONLY PlacesAre, txt \in Seq(STRING), i \in Places(txt), j \in Places(txt), i + 2 <= j
<1>0. PICK R : ReadsBy(txt, R, i, j + 1, p)
  BY <1>1, ReadsBase
<1>2. /\ Knows(txt, R, (j + 1) - i)
      /\ Casts(AllTokens(txt), R, i, j + 1) \subseteq Reads(txt, i, j + 1, p)
  BY <1>0 DEF ReadsBy
<1>3. Among(R, i + 2, j, 0) = Reads(txt, i + 2, j, 0)
  BY <1>1, <1>2, KnownIs
<1>4. Casts(AllTokens(txt), R, i, j + 1) = {Op(KindAt(txt, i), <<x>>) : x \in Among(R, i + 2, j, 0)}
  BY <1>1 DEF Casts, Enclosed, KindAt
<1> QED
  BY <1>2, <1>3, <1>4

\* Adding an element.
LEMMA AppendNone == \A e : Append(<<>>, e) = <<e>>
OBVIOUS

\* Two values put on the stack one by one.
LEMMA AppendOne == \A e, f : Append(<<e>>, f) = <<e, f>>
<1> SUFFICES ASSUME NEW e, NEW f PROVE Append(<<e>>, f) = <<e, f>>
  OBVIOUS
<1>1. <<e>> \in Seq({e, f}) /\ <<e, f>> \in Seq({e, f})
  OBVIOUS
<1>2. /\ Append(<<e>>, f) \in Seq({e, f}) /\ Len(Append(<<e>>, f)) = 2 /\ Len(<<e, f>>) = 2
      /\ Append(<<e>>, f)[1] = e /\ Append(<<e>>, f)[2] = f
  BY <1>1
<1>3. \A k \in 1..2 : Append(<<e>>, f)[k] = <<e, f>>[k]
  BY <1>2
<1> QED
  BY <1>1, <1>2, <1>3, SeqEqual

\* What Longer collects.
LEMMA LongerIs == \A ls, es : \A l \in ls : \A e \in es : Append(l, e) \in Longer(ls, es)
BY DEF Longer

\* Expressions with commas between them: none, or those before the last comma and the last.
ReadsList(txt, i, j, l) ==
  \/ i = j /\ l = <<>>
  \/ \E m \in Places(txt) : \E before \in Reads(txt, i, m, 8) : \E e \in Reads(txt, m, j, 0) :
       i <= m /\ m < j /\ l = Append(before, e)

\* The lists of a range that shorter ranges make up.
LEMMA ListsAre ==
  ASSUME NEW txt \in Seq(STRING), NEW R, NEW n \in Int, Knows(txt, R, n), NEW i \in Places(txt),
         NEW j \in Places(txt), j - i < n, NEW l, ReadsList(txt, i, j, l)
  PROVE  l \in Lists(R, i, j)
<1>1. CASE i = j /\ l = <<>>
  BY <1>1 DEF Lists
<1>2. ASSUME NEW m \in Places(txt), NEW before \in Reads(txt, i, m, 8), NEW e \in Reads(txt, m, j, 0),
             i <= m, m < j, l = Append(before, e)
      PROVE  l \in Lists(R, i, j)
  <2>0. i # j /\ m \in i..(j - 1)
    BY <1>2, PlacesAre
  <2>1. Among(R, i, m, 8) = Reads(txt, i, m, 8)
    <3>1. 0 <= m - i /\ m - i < n /\ 8 \in 0..8
      BY <1>2, PlacesAre
    <3> QED
      BY <3>1, KnownIs
  <2>2. Among(R, m, j, 0) = Reads(txt, m, j, 0)
    <3>1. 0 <= j - m /\ j - m < n /\ 0 \in 0..8
      BY <1>2, PlacesAre
    <3> QED
      BY <3>1, KnownIs
  <2>3. l \in Longer(Among(R, i, m, 8), Among(R, m, j, 0))
    BY <2>1, <2>2, <1>2, LongerIs
  <2> QED
    BY <2>0, <2>3 DEF Lists
<1> QED
  BY <1>1, <1>2 DEF ReadsList

\* e, f, ... ,
LEMMA ReadsNoComma ==
  ASSUME NEW txt \in Seq(STRING), NEW i \in Places(txt)
  PROVE  <<>> \in Reads(txt, i, i, 8)
<1>1. \E R : Reads(txt, i, i, 8) = Readings(txt, AllTokens(txt), R, i, i, 8)
  <2>1. i <= i /\ 8 \in 0..8
    BY PlacesAre
  <2> QED
    BY <2>1, ReadsIs DEF Places
<1> QED
  BY <1>1 DEF Readings, FollowedByCommas

\* A list and one more expression, followed by a comma.
LEMMA ReadsComma ==
  ASSUME NEW txt \in Seq(STRING), NEW i \in Places(txt), NEW m \in Places(txt), NEW j \in Places(txt),
         i <= m, m < j, j + 1 \in Places(txt), NEW l \in Reads(txt, i, m, 8), NEW e \in Reads(txt, m, j, 0),
         KindAt(txt, j) = ","
  PROVE  Append(l, e) \in Reads(txt, i, j + 1, 8)
<1>a. i \in Nat /\ m \in Nat /\ j \in Nat
  BY ONLY PlacesAre, txt \in Seq(STRING), i \in Places(txt), m \in Places(txt), j \in Places(txt)
<1>1. /\ 0 <= m - i /\ m - i < (j + 1) - i /\ 0 <= j - m /\ j - m < (j + 1) - i
      /\ i <= j + 1 /\ i # j + 1 /\ (j + 1) - 1 = j /\ m \in i..j /\ 8 \in 0..8 /\ 0 \in 0..8
  BY ONLY <1>a, i <= m, m < j
<1>2. PICK R : /\ Knows(txt, R, (j + 1) - i)
               /\ \A p \in 0..8 : Reads(txt, i, j + 1, p) = Readings(txt, AllTokens(txt), R, i, j + 1, p)
  BY <1>1, ReadsIs DEF Places
<1>3. Among(R, i, m, 8) = Reads(txt, i, m, 8) /\ Among(R, m, j, 0) = Reads(txt, m, j, 0)
  <2> DEFINE n == (j + 1) - i
  <2>1. Knows(txt, R, n) /\ m - i < n /\ j - m < n
    BY <1>1, <1>2
  <2> HIDE DEF n
  <2> QED
    BY ONLY <1>1, <2>1, KnownIs, i \in Places(txt), m \in Places(txt), j \in Places(txt)
<1>4. Append(l, e) \in FollowedByCommas(AllTokens(txt), R, i, j + 1)
  <2>1. Append(l, e) \in Longer(Among(R, i, m, 8), Among(R, m, j, 0))
    BY <1>3, LongerIs
  <2>2. (j + 1) - 1 = j /\ i # j + 1 /\ AllTokens(txt)[(j + 1) - 1].kind = ","
    BY <1>1 DEF KindAt
  <2>3. FollowedByCommas(AllTokens(txt), R, i, j + 1)
          = UNION {Longer(Among(R, i, k, 8), Among(R, k, j, 0)) : k \in i..j}
    BY ONLY <2>2 DEF FollowedByCommas
  <2> QED
    BY <1>1, <2>1, <2>3
<1>5. Reads(txt, i, j + 1, 8) = FollowedByCommas(AllTokens(txt), R, i, j + 1)
  BY <1>1, <1>2 DEF Readings
<1> QED
  BY <1>4, <1>5

\* A(l)
LEMMA ReadsAccess ==
  ASSUME NEW txt \in Seq(STRING), NEW i \in Places(txt), NEW j \in Places(txt), i + 2 <= j,
         j + 1 \in Places(txt), KindAt(txt, i) = "ident", KindAt(txt, i + 1) = "(",
         KindAt(txt, j) = ")", NEW l, ReadsList(txt, i + 2, j, l), NEW p \in 0..7
  PROVE  Apply(TextAt(txt, i), l) \in Reads(txt, i, j + 1, p)
<1>1. /\ i \in Nat /\ j \in Nat /\ i <= j + 1 /\ i + 2 \in Places(txt)
      /\ j - (i + 2) < (j + 1) - i /\ (j + 1) - i \in Int
      /\ (i + 2) - 1 = i + 1 /\ (j + 1) - 1 = j /\ j + 1 > i + 2
  BY ONLY PlacesAre, txt \in Seq(STRING), i \in Places(txt), j \in Places(txt), i + 2 <= j
<1>0. PICK R : ReadsBy(txt, R, i, j + 1, p)
  BY <1>1, ReadsBase
<1>2. /\ Knows(txt, R, (j + 1) - i)
      /\ Accesses(txt, AllTokens(txt), R, i, j + 1) \subseteq Reads(txt, i, j + 1, p)
  BY <1>0 DEF ReadsBy
<1>3. l \in Lists(R, i + 2, j)
  BY <1>1, <1>2, ListsAre
<1>4. Accesses(txt, AllTokens(txt), R, i, j + 1)
        = {Apply(TextOf(txt, AllTokens(txt)[i]), x) : x \in Lists(R, i + 2, j)}
  BY <1>1 DEF Accesses, Enclosed, KindAt
<1> QED
  BY <1>2, <1>3, <1>4 DEF TextAt

\* min(e, f)
LEMMA ReadsMinMax ==
  ASSUME NEW txt \in Seq(STRING), NEW i \in Places(txt), NEW m \in Places(txt), NEW j \in Places(txt),
         i + 2 < m, m + 1 < j, j + 1 \in Places(txt), KindAt(txt, i) \in {"min", "max"},
         KindAt(txt, i + 1) = "(", KindAt(txt, m) = ",", KindAt(txt, j) = ")",
         NEW e \in Reads(txt, i + 2, m, 0), NEW f \in Reads(txt, m + 1, j, 0), NEW p \in 0..7
  PROVE  Op(KindAt(txt, i), <<e, f>>) \in Reads(txt, i, j + 1, p)
<1>a. i \in Nat /\ m \in Nat /\ j \in Nat
  BY ONLY Between, txt \in Seq(STRING), i \in Places(txt), m \in Places(txt), j \in Places(txt)
<1>b. i + 2 \in i..j /\ m + 1 \in m..j
  BY ONLY <1>a, i + 2 < m, m + 1 < j
<1>c. i + 2 \in Places(txt) /\ m + 1 \in Places(txt)
  BY ONLY <1>b, Between, txt \in Seq(STRING), i \in Places(txt), m \in Places(txt), j \in Places(txt)
<1>d. /\ i <= j + 1 /\ j - (i + 2) < (j + 1) - i /\ (j + 1) - i \in Int /\ i + 2 <= m + 1
      /\ i + 2 <= i + 2 /\ (i + 2) - 1 = i + 1 /\ (j + 1) - 1 = j /\ j + 1 > i + 2
  BY ONLY <1>a, i + 2 < m, m + 1 < j
<1>1. /\ i \in Nat /\ j \in Nat /\ i <= j + 1 /\ i + 2 \in Places(txt) /\ m + 1 \in Places(txt)
      /\ j - (i + 2) < (j + 1) - i /\ (j + 1) - i \in Int /\ i + 2 <= m + 1 /\ i + 2 <= i + 2
      /\ (i + 2) - 1 = i + 1 /\ (j + 1) - 1 = j /\ j + 1 > i + 2
  BY <1>a, <1>c, <1>d
<1>0. PICK R : ReadsBy(txt, R, i, j + 1, p)
  BY <1>1, ReadsBase
<1>2. /\ Knows(txt, R, (j + 1) - i)
      /\ MinMax(AllTokens(txt), R, i, j + 1) \subseteq Reads(txt, i, j + 1, p)
  BY <1>0 DEF ReadsBy
<1>3. ReadsList(txt, i + 2, j, <<e, f>>)
  <2>1. Append(<<>>, e) \in Reads(txt, i + 2, m + 1, 8)
    BY <1>1, ReadsNoComma, ReadsComma
  <2>2. Append(Append(<<>>, e), f) = <<e, f>>
    BY ONLY AppendNone, AppendOne
  <2> QED
    BY <1>1, <2>1, <2>2 DEF ReadsList
<1>4. <<e, f>> \in Lists(R, i + 2, j) /\ Len(<<e, f>>) = 2
  BY <1>1, <1>2, <1>3, ListsAre
<1>5. MinMax(AllTokens(txt), R, i, j + 1)
        = {Op(KindAt(txt, i), l) : l \in {es \in Lists(R, i + 2, j) : Len(es) = 2}}
  BY <1>1 DEF MinMax, Enclosed, KindAt
<1> QED
  BY <1>2, <1>4, <1>5

\* - e
LEMMA ReadsSigned ==
  ASSUME NEW txt \in Seq(STRING), NEW i \in Places(txt), NEW j \in Places(txt), i + 1 < j,
         IsUnary(KindAt(txt, i)), NEW e \in Reads(txt, i + 1, j, UnaryPrec[KindAt(txt, i)]), NEW p \in 0..7
  PROVE  Op(KindAt(txt, i), <<e>>) \in Reads(txt, i, j, p)
<1>1. /\ i \in Nat /\ j \in Nat /\ i <= j /\ i + 1 \in Places(txt) /\ j > i
      /\ 0 <= j - (i + 1) /\ j - (i + 1) < j - i
  BY ONLY PlacesAre, txt \in Seq(STRING), i \in Places(txt), j \in Places(txt), i + 1 < j
<1>2. UnaryPrec[KindAt(txt, i)] \in 0..8
  BY DEF IsUnary, UnaryPrec
<1>0. PICK R : ReadsBy(txt, R, i, j, p)
  BY <1>1, ReadsBase
<1>3. /\ Knows(txt, R, j - i)
      /\ Signed(AllTokens(txt), R, i, j) \subseteq Reads(txt, i, j, p)
  BY <1>0 DEF ReadsBy
<1> DEFINE q == UnaryPrec[KindAt(txt, i)]
<1>4. Among(R, i + 1, j, q) = Reads(txt, i + 1, j, q)
  BY <1>1, <1>2, <1>3, KnownIs
<1>5. Signed(AllTokens(txt), R, i, j) = {Op(KindAt(txt, i), <<x>>) : x \in Among(R, i + 1, j, q)}
  BY <1>1 DEF Signed, KindAt
<1> QED
  BY <1>3, <1>4, <1>5

\* The precedences of the binary operators; that of ? is the lowest.
LEMMA PrecOf ==
  \A op : IsBinary(op) => BinaryPrec[op] \in 1..6 /\ (BinaryPrec[op] = 1 <=> op = "?")
BY DEF IsBinary, BinaryPrec

\* l + r
LEMMA ReadsBinary ==
  ASSUME NEW txt \in Seq(STRING), NEW i \in Places(txt), NEW m \in Places(txt), NEW j \in Places(txt),
         i < m, m + 1 < j, IsBinary(KindAt(txt, m)), KindAt(txt, m) # "?",
         NEW p \in 0..7, BinaryPrec[KindAt(txt, m)] > p,
         NEW l \in Reads(txt, i, m, BinaryPrec[KindAt(txt, m)] - 1),
         NEW r \in Reads(txt, m + 1, j, BinaryPrec[KindAt(txt, m)])
  PROVE  Op(KindAt(txt, m), <<l, r>>) \in Reads(txt, i, j, p)
<1>1. /\ i \in Nat /\ j \in Nat /\ i <= j /\ m + 1 \in Places(txt) /\ m \in (i + 1)..(j - 1)
      /\ 0 <= j - (m + 1) /\ j - (m + 1) < j - i /\ 0 <= m - i /\ m - i < j - i
  <2>1. i \in Nat /\ j \in Nat /\ m \in Nat
    BY ONLY PlacesAre, txt \in Seq(STRING), i \in Places(txt), m \in Places(txt), j \in Places(txt)
  <2>2. m + 1 \in Places(txt)
    BY ONLY PlacesAre, txt \in Seq(STRING), m \in Places(txt), j \in Places(txt), m + 1 < j
  <2> QED
    BY ONLY <2>1, <2>2, i < m, m + 1 < j
<1>2. BinaryPrec[KindAt(txt, m)] \in 0..8 /\ BinaryPrec[KindAt(txt, m)] - 1 \in 0..8
  <2>1. BinaryPrec[KindAt(txt, m)] \in 1..6
    BY PrecOf
  <2> QED
    BY ONLY <2>1
<1>0. PICK R : ReadsBy(txt, R, i, j, p)
  BY <1>1, ReadsBase
<1>3. /\ Knows(txt, R, j - i)
      /\ Binaries(AllTokens(txt), R, i, j, p) \subseteq Reads(txt, i, j, p)
  BY <1>0 DEF ReadsBy
<1> DEFINE q == BinaryPrec[KindAt(txt, m)]
<1>4. Among(R, i, m, q - 1) = Reads(txt, i, m, q - 1) /\ Among(R, m + 1, j, q) = Reads(txt, m + 1, j, q)
  <2>1. q \in 0..8 /\ q - 1 \in 0..8
    BY <1>2
  <2> HIDE DEF q
  <2>2. Among(R, i, m, q - 1) = Reads(txt, i, m, q - 1)
    BY ONLY i \in Places(txt), m \in Places(txt), <1>1, <1>3, <2>1, KnownIs
  <2>3. Among(R, m + 1, j, q) = Reads(txt, m + 1, j, q)
    BY ONLY j \in Places(txt), <1>1, <1>3, <2>1, KnownIs
  <2> QED
    BY <2>2, <2>3
<1>5. m \in {s \in Splits(AllTokens(txt), i, j, p) : AllTokens(txt)[s].kind # "?"}
  BY <1>1 DEF Splits, KindAt
<1>6. Op(KindAt(txt, m), <<l, r>>) \in Binaries(AllTokens(txt), R, i, j, p)
  <2> DEFINE D(s) == {Op(KindAt(txt, s), <<x, y>>) :
                        x \in Among(R, i, s, BinaryPrec[KindAt(txt, s)] - 1),
                        y \in Among(R, s + 1, j, BinaryPrec[KindAt(txt, s)])}
             Q == {s \in Splits(AllTokens(txt), i, j, p) : AllTokens(txt)[s].kind # "?"}
  <2>1. Op(KindAt(txt, m), <<l, r>>) \in D(m)
    BY <1>4
  <2>2. Binaries(AllTokens(txt), R, i, j, p) = UNION {D(s) : s \in Q}
    BY DEF Binaries, KindAt
  <2>3. m \in Q
    BY <1>5
  <2> HIDE DEF D, Q
  <2> QED
    BY <2>1, <2>2, <2>3
<1> QED
  BY <1>3, <1>6

\* c ? t : f
LEMMA ReadsTernary ==
  ASSUME NEW txt \in Seq(STRING), NEW i \in Places(txt), NEW m \in Places(txt), NEW n \in Places(txt),
         NEW j \in Places(txt), i < m, m + 1 < n, n + 1 < j,
         KindAt(txt, m) = "?", KindAt(txt, n) = ":",
         NEW c \in Reads(txt, i, m, 1), NEW t \in Reads(txt, m + 1, n, 0), NEW f \in Reads(txt, n + 1, j, 0)
  PROVE  Op("?", <<c, t, f>>) \in Reads(txt, i, j, 0)
<1>a. i \in Nat /\ m \in Nat /\ n \in Nat /\ j \in Nat
  BY ONLY Between, txt \in Seq(STRING), i \in Places(txt), m \in Places(txt), n \in Places(txt),
          j \in Places(txt)
<1>b. m + 1 \in m..n /\ n + 1 \in n..j
  BY ONLY <1>a, m + 1 < n, n + 1 < j
<1>c. m + 1 \in Places(txt) /\ n + 1 \in Places(txt)
  BY ONLY <1>b, Between, txt \in Seq(STRING), m \in Places(txt), n \in Places(txt), j \in Places(txt)
<1>d. /\ m \in (i + 1)..(j - 1) /\ n \in i..(j - 1) /\ m < n /\ 0 \in 0..7 /\ 0 \in 0..8 /\ 1 \in 0..8
      /\ 0 <= n - (m + 1) /\ n - (m + 1) < j - i /\ 0 <= m - i /\ m - i < j - i
      /\ 0 <= j - (n + 1) /\ j - (n + 1) < j - i /\ i <= j
  BY ONLY <1>a, i < m, m + 1 < n, n + 1 < j
<1>1. /\ i \in Nat /\ j \in Nat /\ i <= j /\ m + 1 \in Places(txt) /\ n + 1 \in Places(txt)
      /\ m \in (i + 1)..(j - 1) /\ n \in i..(j - 1) /\ m < n /\ 0 \in 0..7 /\ 0 \in 0..8 /\ 1 \in 0..8
      /\ 0 <= n - (m + 1) /\ n - (m + 1) < j - i /\ 0 <= m - i /\ m - i < j - i
      /\ 0 <= j - (n + 1) /\ j - (n + 1) < j - i
  BY <1>a, <1>c, <1>d
<1>2. IsBinary("?") /\ BinaryPrec["?"] > 0
  BY DEF IsBinary, BinaryPrec
<1>0. PICK R : ReadsBy(txt, R, i, j, 0)
  BY <1>1, ReadsBase
<1>3. /\ Knows(txt, R, j - i)
      /\ Ternaries(AllTokens(txt), R, i, j, 0) \subseteq Reads(txt, i, j, 0)
  BY <1>0 DEF ReadsBy
<1>4. /\ Among(R, i, m, 1) = Reads(txt, i, m, 1) /\ Among(R, m + 1, n, 0) = Reads(txt, m + 1, n, 0)
      /\ Among(R, n + 1, j, 0) = Reads(txt, n + 1, j, 0)
  BY <1>1, <1>3, KnownIs
<1> DEFINE Q == {q \in Splits(AllTokens(txt), i, j, 0) \X (i..(j - 1)) :
                   q[1] < q[2] /\ AllTokens(txt)[q[1]].kind = "?" /\ AllTokens(txt)[q[2]].kind = ":"}
<1>5. <<m, n>> \in Q
  BY <1>1, <1>2 DEF Splits, KindAt
<1>6. Op("?", <<c, t, f>>) \in Ternaries(AllTokens(txt), R, i, j, 0)
  <2> DEFINE D(q) == {Op("?", <<x, y, z>>) : x \in Among(R, i, q[1], 1),
                                             y \in Among(R, q[1] + 1, q[2], 0),
                                             z \in Among(R, q[2] + 1, j, 0)}
  <2>1. Op("?", <<c, t, f>>) \in D(<<m, n>>)
    BY <1>4
  <2>2. Ternaries(AllTokens(txt), R, i, j, 0) = UNION {D(q) : q \in Q}
    BY DEF Ternaries
  <2> HIDE DEF D, Q
  <2> QED
    BY <1>5, <2>1, <2>2
<1> QED
  BY <1>3, <1>6
-------------------------------------------------------------------------------
\* What the functions of the parser do to the values made so far, S, and to the
\* number k of the current token.  They leave T and m.
IsStack(S)     == \E U : S \in Seq(U)
Closes(txt, j) == ~(KindAt(txt, j - 1) = "ident" /\ KindAt(txt, j) = "(")
Ends(txt, j, p) ==
  Closes(txt, j) /\ (IsBinary(KindAt(txt, j)) => BinaryPrec[KindAt(txt, j)] <= p)

\* A left operand stands next to the operator that takes it.
Need(txt, k, p) ==
  LET op == KindAt(txt, k)
  IN  IF ~IsBinary(op) \/ BinaryPrec[op] <= p THEN p
      ELSE IF op = "?" THEN 1 ELSE BinaryPrec[op] - 1

DoesExpect(txt, kind, S, k, T, m) == KindAt(txt, k) = kind /\ T = S /\ m = k + 1
DoesRead(txt, kinds, v, S, k, T, m) == KindAt(txt, k) \in kinds /\ T = Append(S, v) /\ m = k + 1
DoesNumber(txt, S, k, T, m) ==
  DoesRead(txt, {"number"}, Number(TextAt(txt, k)), S, k, T, m) /\ TextAt(txt, k) \notin OutOfRange
DoesMake(node, n, S, k, T, m) ==
  /\ m = k
  /\ T = Append(SubSeq(S, 1, Len(S) - n), Created(node, SubSeq(S, Len(S) - n + 1, Len(S))))

DoesExp(txt, p, S, k, T, m) ==
  \E e \in Reads(txt, k, m, p) : k < m /\ T = Append(S, e) /\ Ends(txt, m, p)
DoesBase(txt, S, k, T, m) ==
  \E e : k < m /\ T = Append(S, e) /\ Closes(txt, m) /\ \A p \in 0..7 : e \in Reads(txt, k, m, p)

\* The name before the current token may be that of an access.
DoesArguments(txt, S, k, T, m) ==
  \A R : IsStack(R) /\ S = Append(R, Ident(TextAt(txt, k - 1))) /\ k - 1 \in Places(txt)
           /\ KindAt(txt, k - 1) = "ident"
    => \E e : k <= m /\ T = Append(R, e) /\ Closes(txt, m) /\ \A p \in 0..7 : e \in Reads(txt, k - 1, m, p)

\* The expression that ends here is an operand or the result.
DoesOperators(txt, p, S, k, T, m) ==
  \A R : \A i \in Places(txt) : \A l \in Reads(txt, i, k, Need(txt, k, p)) :
    IsStack(R) /\ S = Append(R, l) /\ i < k /\ Closes(txt, k)
      => \E e \in Reads(txt, i, m, p) : k <= m /\ T = Append(R, e) /\ Ends(txt, m, p)

DoesElements(txt, end, S, k, T, m) ==
  \E l : \E j \in Places(txt) : k <= j /\ m = j + 1 /\ KindAt(txt, j) = end
                                /\ ReadsList(txt, k, j, l) /\ T = Append(S, List(l))

\* The last n values are a list that may go on.
DoesMore(txt, n, S, k, T, m) ==
  \A R, before : \A i \in Places(txt) : \A j \in Places(txt) : \A e \in Reads(txt, j, k, 0) :
    IsStack(R) /\ IsStack(before) /\ Len(before) = n - 1 /\ S = Append(R \o before, e)
        /\ before \in Reads(txt, i, j, 8) /\ i <= j /\ j < k
      => \E l : k <= m /\ ReadsList(txt, i, m, l) /\ T = Append(R, List(l))

Does(txt, x, S, k, T, m) ==
  /\ k \in Places(txt) /\ m \in Places(txt)
  /\ \/ x.call = "expect"     /\ DoesExpect(txt, x.arg, S, k, T, m)
     \/ x.call = "ident"      /\ DoesRead(txt, {"ident"}, Ident(TextAt(txt, k)), S, k, T, m)
     \/ x.call = "const"      /\ DoesNumber(txt, S, k, T, m)
     \/ x.call = "scalarType" /\ DoesRead(txt, ScalarTypes, Leaf(KindAt(txt, k)), S, k, T, m)
     \/ x.call = "make"       /\ DoesMake(x.arg[1], x.arg[2], S, k, T, m)
     \/ x.call = "exp"        /\ DoesExp(txt, x.arg, S, k, T, m)
     \/ x.call = "base"       /\ DoesBase(txt, S, k, T, m)
     \/ x.call = "arguments"  /\ DoesArguments(txt, S, k, T, m)
     \/ x.call = "operators"  /\ DoesOperators(txt, x.arg, S, k, T, m)
     \/ x.call = "elements"   /\ DoesElements(txt, x.arg[2], S, k, T, m)
     \/ x.call = "more"       /\ DoesMore(txt, x.arg[2], S, k, T, m)

\* The items one after the other.
Chain(txt, h, items, S, k) ==
  /\ h[1] = <<S, k>>
  /\ \A p \in 1..(Len(items) + 1) : h[p] = <<h[p][1], h[p][2]>>
  /\ \A p \in 1..Len(items) : Does(txt, items[p], h[p][1], h[p][2], h[p + 1][1], h[p + 1][2])
Reaches(txt, items, S, k, T, m) ==
  IsStack(items) /\ \E h : Chain(txt, h, items, S, k) /\ h[Len(items) + 1] = <<T, m>>

\* No items change nothing.
LEMMA ReachesNone ==
  ASSUME NEW txt, NEW S, NEW k, NEW T, NEW m
  PROVE  Reaches(txt, <<>>, S, k, T, m) <=> S = T /\ k = m
<1>1. IsStack(<<>>) /\ Len(<<>>) = 0
  <2>1. <<>> \in Seq({})
    OBVIOUS
  <2> QED
    BY <2>1 DEF IsStack
<1>2. ASSUME Reaches(txt, <<>>, S, k, T, m) PROVE S = T /\ k = m
  <2>1. PICK h : Chain(txt, h, <<>>, S, k) /\ h[Len(<<>>) + 1] = <<T, m>>
    BY <1>2 DEF Reaches
  <2>2. h[1] = <<S, k>> /\ h[1] = <<T, m>>
    BY <1>1, <2>1 DEF Chain
  <2> QED
    BY <2>2
<1>3. ASSUME S = T, k = m PROVE Reaches(txt, <<>>, S, k, T, m)
  <2> DEFINE h == [p \in {1} |-> <<S, k>>]
  <2>1. Chain(txt, h, <<>>, S, k)
    BY <1>1 DEF Chain
  <2>2. h[Len(<<>>) + 1] = <<T, m>>
    BY <1>1, <1>3
  <2> HIDE DEF h
  <2> QED
    BY <1>1, <2>1, <2>2 DEF Reaches
<1> QED
  BY <1>2, <1>3

\* The first item, and the others from where it stops.
LEMMA ReachesFirst ==
  ASSUME NEW txt, NEW items, items # <<>>, NEW S, NEW k, NEW T, NEW m, Reaches(txt, items, S, k, T, m)
  PROVE  \E R, j : Does(txt, items[1], S, k, R, j) /\ Reaches(txt, Tail(items), R, j, T, m)
<1>1. PICK h : Chain(txt, h, items, S, k) /\ h[Len(items) + 1] = <<T, m>>
  BY DEF Reaches
<1>0. PICK U : items \in Seq(U)
  BY DEF Reaches, IsStack
<1>2. Len(items) \in Nat \ {0} /\ 1 \in 1..Len(items)
  BY <1>0
<1> DEFINE R == h[2][1]
           j == h[2][2]
           g == [p \in 1..Len(items) |-> h[p + 1]]
           rest == Tail(items)
<1>3. Does(txt, items[1], S, k, R, j)
  <2>1. h[1][1] = S /\ h[1][2] = k /\ 1 + 1 = 2
    BY <1>1 DEF Chain
  <2> QED
    BY <1>1, <1>2, <2>1 DEF Chain
<1>4. /\ Len(rest) = Len(items) - 1 /\ \A p \in 1..Len(rest) : rest[p] = items[p + 1]
      /\ rest \in Seq(U)
  BY <1>0, <1>2
<1>5. \A p \in 1..Len(items) : g[p] = h[p + 1] /\ g[p] = <<g[p][1], g[p][2]>>
  <2> SUFFICES ASSUME NEW p \in 1..Len(items) PROVE g[p] = h[p + 1] /\ g[p] = <<g[p][1], g[p][2]>>
    OBVIOUS
  <2>1. p + 1 \in 1..(Len(items) + 1) /\ g[p] = h[p + 1]
    BY <1>2
  <2> HIDE DEF g
  <2> QED
    BY <1>1, <2>1 DEF Chain
<1>6. g[1] = <<R, j>> /\ g[Len(items)] = h[Len(items) + 1]
  <2>1. Len(items) \in 1..Len(items) /\ 1 + 1 = 2
    BY <1>2
  <2> HIDE DEF g
  <2> QED
    BY <1>2, <1>5, <2>1
<1> HIDE DEF R, j, g, rest
<1>7. Chain(txt, g, rest, R, j)
  <2>0. \A p \in 1..(Len(rest) + 1) : g[p] = <<g[p][1], g[p][2]>>
    BY <1>2, <1>4, <1>5
  <2> SUFFICES ASSUME NEW p \in 1..Len(rest)
               PROVE  Does(txt, rest[p], g[p][1], g[p][2], g[p + 1][1], g[p + 1][2])
    BY <1>6, <2>0 DEF Chain
  <2>1. p + 1 \in 1..Len(items) /\ p \in 1..Len(items) /\ rest[p] = items[p + 1]
    BY <1>2, <1>4
  <2>2. Does(txt, items[p + 1], h[p + 1][1], h[p + 1][2], h[(p + 1) + 1][1], h[(p + 1) + 1][2])
    BY <1>1, <2>1 DEF Chain
  <2> QED
    BY <1>5, <2>1, <2>2
<1>8. g[Len(rest) + 1] = <<T, m>>
  BY <1>1, <1>2, <1>4, <1>6
<1>9. Reaches(txt, rest, R, j, T, m)
  BY <1>4, <1>7, <1>8 DEF Reaches, IsStack
<1> QED
  BY <1>3, <1>9 DEF rest

\* An item before others.
LEMMA ReachesMore ==
  ASSUME NEW txt, NEW items, items # <<>>, IsStack(items), NEW S, NEW k, NEW R, NEW j, NEW T, NEW m,
         Does(txt, items[1], S, k, R, j), Reaches(txt, Tail(items), R, j, T, m)
  PROVE  Reaches(txt, items, S, k, T, m)
<1> DEFINE rest == Tail(items)
<1>0. PICK U : items \in Seq(U)
  BY DEF IsStack
<1>1. PICK g : Chain(txt, g, rest, R, j) /\ g[Len(rest) + 1] = <<T, m>>
  BY DEF Reaches
<1>2. /\ Len(items) \in Nat \ {0} /\ Len(rest) = Len(items) - 1
      /\ \A p \in 1..Len(rest) : rest[p] = items[p + 1]
  BY <1>0
<1> DEFINE h == [p \in 1..(Len(items) + 1) |-> IF p = 1 THEN <<S, k>> ELSE g[p - 1]]
<1>3. h[1] = <<S, k>> /\ \A p \in 1..Len(items) : h[p + 1] = g[p]
  BY <1>2
<1>4. g[1] = <<R, j>>
  BY <1>1 DEF Chain
<1> HIDE DEF rest
<1>7. \A p \in 1..(Len(items) + 1) : h[p] = <<h[p][1], h[p][2]>>
  <2> SUFFICES ASSUME NEW p \in 1..(Len(items) + 1) PROVE h[p] = <<h[p][1], h[p][2]>>
    OBVIOUS
  <2>1. CASE p = 1
    BY <1>3, <2>1
  <2>2. CASE p # 1
    <3>1. p - 1 \in 1..(Len(rest) + 1) /\ h[p] = g[p - 1]
      BY <1>2, <2>2
    <3> HIDE DEF h
    <3> QED
      BY <1>1, <3>1 DEF Chain
  <2> QED
    BY <2>1, <2>2
<1> HIDE DEF h
<1>5. Chain(txt, h, items, S, k)
  <2> SUFFICES ASSUME NEW p \in 1..Len(items)
               PROVE  Does(txt, items[p], h[p][1], h[p][2], h[p + 1][1], h[p + 1][2])
    BY <1>3, <1>7 DEF Chain
  <2>1. CASE p = 1
    <3>1. h[p] = <<S, k>> /\ h[p + 1] = <<R, j>>
      BY <1>2, <1>3, <1>4, <2>1
    <3> QED
      BY <2>1, <3>1
  <2>2. CASE p # 1
    <3> DEFINE q == p - 1
    <3>1. q \in 1..Len(rest) /\ q \in 1..Len(items) /\ q + 1 \in 1..Len(items) /\ p = q + 1
      BY <1>2, <2>2
    <3> HIDE DEF q
    <3>2. h[p] = g[q] /\ h[p + 1] = g[q + 1] /\ items[p] = rest[q]
      BY <1>2, <1>3, <3>1
    <3>3. Does(txt, rest[q], g[q][1], g[q][2], g[q + 1][1], g[q + 1][2])
      BY <1>1, <3>1 DEF Chain
    <3> QED
      BY <3>2, <3>3
  <2> QED
    BY <2>1, <2>2
<1>6. h[Len(items) + 1] = <<T, m>>
  <2>1. Len(items) \in 1..Len(items) /\ Len(rest) + 1 = Len(items)
    BY <1>2
  <2> QED
    BY <1>1, <1>3, <2>1
<1> QED
  BY <1>5, <1>6 DEF Reaches

\* Items after others.
LEMMA ReachesSplit ==
  ASSUME NEW txt, NEW a, IsStack(a), NEW b, IsStack(b), NEW S, NEW k, NEW T, NEW m,
         Reaches(txt, a \o b, S, k, T, m)
  PROVE  \E R, j : Reaches(txt, a, S, k, R, j) /\ Reaches(txt, b, R, j, T, m)
<1> DEFINE c == a \o b
<1>0. PICK h : Chain(txt, h, c, S, k) /\ h[Len(c) + 1] = <<T, m>>
  BY DEF Reaches
<1>a. PICK U : a \in Seq(U)
  BY DEF IsStack
<1>b. PICK V : b \in Seq(V)
  BY DEF IsStack
<1>1. /\ Len(a) \in Nat /\ Len(b) \in Nat /\ Len(c) = Len(a) + Len(b)
      /\ \A p \in 1..Len(a) : c[p] = a[p]
      /\ \A p \in 1..Len(b) : c[Len(a) + p] = b[p]
  <2>1. a \in Seq(U \cup V) /\ b \in Seq(U \cup V)
    BY <1>a, <1>b
  <2> QED
    BY <2>1, ConcatProperties
<1> HIDE DEF c
<1> DEFINE R == h[Len(a) + 1][1]
           j == h[Len(a) + 1][2]
           g == [p \in 1..(Len(b) + 1) |-> h[Len(a) + p]]
<1>2. h[Len(a) + 1] = <<R, j>>
  <2>1. Len(a) + 1 \in 1..(Len(c) + 1)
    BY <1>1
  <2> QED
    BY <1>0, <2>1 DEF Chain
<1>3. Chain(txt, h, a, S, k)
  <2>1. ASSUME NEW p \in 1..Len(a) PROVE Does(txt, a[p], h[p][1], h[p][2], h[p + 1][1], h[p + 1][2])
    <3>1. p \in 1..Len(c) /\ c[p] = a[p]
      BY <1>1
    <3> QED
      BY <1>0, <3>1 DEF Chain
  <2>2. ASSUME NEW p \in 1..(Len(a) + 1) PROVE h[p] = <<h[p][1], h[p][2]>>
    <3>1. p \in 1..(Len(c) + 1)
      BY <1>1
    <3> QED
      BY <1>0, <3>1 DEF Chain
  <2> QED
    BY <1>0, <2>1, <2>2 DEF Chain
<1>4. \A p \in 1..(Len(b) + 1) : g[p] = h[Len(a) + p]
  OBVIOUS
<1> HIDE DEF R, j, g
<1>5. Chain(txt, g, b, R, j)
  <2>0. g[1] = <<R, j>>
    BY <1>1, <1>2, <1>4
  <2>1. ASSUME NEW p \in 1..Len(b) PROVE Does(txt, b[p], g[p][1], g[p][2], g[p + 1][1], g[p + 1][2])
    <3> DEFINE q == Len(a) + p
    <3>1. q \in 1..Len(c) /\ c[q] = b[p] /\ q + 1 = Len(a) + (p + 1)
          /\ p \in 1..(Len(b) + 1) /\ p + 1 \in 1..(Len(b) + 1)
      BY <1>1
    <3>2. g[p] = h[q] /\ g[p + 1] = h[q + 1]
      BY <1>4, <3>1
    <3> HIDE DEF q
    <3>3. Does(txt, c[q], h[q][1], h[q][2], h[q + 1][1], h[q + 1][2])
      BY <1>0, <3>1 DEF Chain
    <3> QED
      BY <3>1, <3>2, <3>3
  <2>2. ASSUME NEW p \in 1..(Len(b) + 1) PROVE g[p] = <<g[p][1], g[p][2]>>
    <3> DEFINE q == Len(a) + p
    <3>1. q \in 1..(Len(c) + 1) /\ g[p] = h[q]
      BY <1>1, <1>4
    <3> HIDE DEF q
    <3> QED
      BY <1>0, <3>1 DEF Chain
  <2> QED
    BY <2>0, <2>1, <2>2 DEF Chain
<1>6. g[Len(b) + 1] = <<T, m>>
  <2>1. Len(b) + 1 \in 1..(Len(b) + 1) /\ Len(c) + 1 = Len(a) + (Len(b) + 1)
    BY <1>1
  <2> QED
    BY <1>0, <1>4, <2>1
<1> QED
  BY <1>2, <1>3, <1>5, <1>6 DEF Reaches
-------------------------------------------------------------------------------
\* The first of some items, and the others.
LEMMA TupleParts ==
  ASSUME NEW a, NEW b, NEW c, NEW d, NEW e, NEW f
  PROVE  /\ <<a>>[1] = a /\ Tail(<<a>>) = <<>> /\ <<a>> # <<>> /\ Tail(<<a, b>>) = <<b>>
         /\ Tail(<<a, b, c>>) = <<b, c>> /\ Tail(<<a, b, c, d>>) = <<b, c, d>>
         /\ Tail(<<a, b, c, d, e>>) = <<b, c, d, e>>
         /\ Tail(<<a, b, c, d, e, f>>) = <<b, c, d, e, f>>
OBVIOUS

\* One item, and several: what holds between them.
LEMMA Reaches1 ==
  ASSUME NEW txt, NEW a, NEW S, NEW k, NEW T, NEW m, Reaches(txt, <<a>>, S, k, T, m)
  PROVE  Does(txt, a, S, k, T, m)
<1>1. PICK R, j : Does(txt, <<a>>[1], S, k, R, j) /\ Reaches(txt, Tail(<<a>>), R, j, T, m)
  BY ReachesFirst
<1>2. Reaches(txt, <<>>, R, j, T, m)
  BY <1>1, TupleParts
<1>3. R = T /\ j = m
  BY <1>2, ReachesNone
<1> QED
  BY <1>1, <1>3

\* Two items.
LEMMA Reaches2 ==
  ASSUME NEW txt, NEW a, NEW b, NEW S, NEW k, NEW T, NEW m, Reaches(txt, <<a, b>>, S, k, T, m)
  PROVE  \E S1, k1 : Does(txt, a, S, k, S1, k1) /\ Does(txt, b, S1, k1, T, m)
<1>1. PICK R, j : Does(txt, <<a, b>>[1], S, k, R, j) /\ Reaches(txt, Tail(<<a, b>>), R, j, T, m)
  BY ReachesFirst
<1>2. Does(txt, b, R, j, T, m)
  BY <1>1, TupleParts, Reaches1
<1> QED
  BY <1>1, <1>2

\* Three items.
LEMMA Reaches3 ==
  ASSUME NEW txt, NEW a, NEW b, NEW c, NEW S, NEW k, NEW T, NEW m,
         Reaches(txt, <<a, b, c>>, S, k, T, m)
  PROVE  \E S1, k1, S2, k2 : /\ Does(txt, a, S, k, S1, k1) /\ Does(txt, b, S1, k1, S2, k2)
                             /\ Does(txt, c, S2, k2, T, m)
<1>1. PICK R, j : Does(txt, <<a, b, c>>[1], S, k, R, j) /\ Reaches(txt, Tail(<<a, b, c>>), R, j, T, m)
  BY ReachesFirst
<1>2. Reaches(txt, <<b, c>>, R, j, T, m) /\ Does(txt, a, S, k, R, j)
  BY <1>1, TupleParts
<1> QED
  BY <1>2, Reaches2

\* Five items.
LEMMA Reaches5 ==
  ASSUME NEW txt, NEW a, NEW b, NEW c, NEW d, NEW e, NEW S, NEW k, NEW T, NEW m,
         Reaches(txt, <<a, b, c, d, e>>, S, k, T, m)
  PROVE  \E S1, k1, S2, k2, S3, k3, S4, k4 :
           /\ Does(txt, a, S, k, S1, k1) /\ Does(txt, b, S1, k1, S2, k2)
           /\ Does(txt, c, S2, k2, S3, k3) /\ Does(txt, d, S3, k3, S4, k4)
           /\ Does(txt, e, S4, k4, T, m)
<1>1. PICK R, j : /\ Does(txt, <<a, b, c, d, e>>[1], S, k, R, j)
                  /\ Reaches(txt, Tail(<<a, b, c, d, e>>), R, j, T, m)
  BY ReachesFirst
<1>2. Reaches(txt, <<b, c, d, e>>, R, j, T, m) /\ Does(txt, a, S, k, R, j)
  BY <1>1, TupleParts
<1>3. PICK R2, j2 : /\ Does(txt, <<b, c, d, e>>[1], R, j, R2, j2)
                    /\ Reaches(txt, Tail(<<b, c, d, e>>), R2, j2, T, m)
  BY <1>2, ReachesFirst
<1>4. Reaches(txt, <<c, d, e>>, R2, j2, T, m) /\ Does(txt, b, R, j, R2, j2)
  BY <1>3, TupleParts
<1>5. PICK R3, j3, R4, j4 : /\ Does(txt, c, R2, j2, R3, j3) /\ Does(txt, d, R3, j3, R4, j4)
                            /\ Does(txt, e, R4, j4, T, m)
  BY <1>4, Reaches3
<1> QED
  BY <1>2, <1>4, <1>5

\* Six items.
LEMMA Reaches6 ==
  ASSUME NEW txt, NEW a, NEW b, NEW c, NEW d, NEW e, NEW f, NEW S, NEW k, NEW T, NEW m,
         Reaches(txt, <<a, b, c, d, e, f>>, S, k, T, m)
  PROVE  \E S1, k1, S2, k2, S3, k3, S4, k4, S5, k5 :
           /\ Does(txt, a, S, k, S1, k1) /\ Does(txt, b, S1, k1, S2, k2)
           /\ Does(txt, c, S2, k2, S3, k3) /\ Does(txt, d, S3, k3, S4, k4)
           /\ Does(txt, e, S4, k4, S5, k5) /\ Does(txt, f, S5, k5, T, m)
<1>1. PICK R, j : /\ Does(txt, <<a, b, c, d, e, f>>[1], S, k, R, j)
                  /\ Reaches(txt, Tail(<<a, b, c, d, e, f>>), R, j, T, m)
  BY ReachesFirst
<1>2. Reaches(txt, <<b, c, d, e, f>>, R, j, T, m) /\ Does(txt, a, S, k, R, j)
  BY <1>1, TupleParts
<1>3. PICK S2, k2, S3, k3, S4, k4, S5, k5 :
           /\ Does(txt, b, R, j, S2, k2)
           /\ Does(txt, c, S2, k2, S3, k3) /\ Does(txt, d, S3, k3, S4, k4)
           /\ Does(txt, e, S4, k4, S5, k5) /\ Does(txt, f, S5, k5, T, m)
  BY <1>2, Reaches5
<1> QED
  BY <1>2, <1>3

\* What the values made last are.
LEMMA StackGrows ==
  ASSUME NEW R, IsStack(R), NEW a
  PROVE  /\ IsStack(Append(R, a)) /\ Len(Append(R, a)) = Len(R) + 1 /\ Len(R) \in Nat
         /\ Append(R, a)[Len(R) + 1] = a
         /\ SubSeq(Append(R, a), 1, Len(R)) = R
         /\ SubSeq(Append(R, a), Len(R) + 1, Len(R) + 1) = <<a>>
<1>1. PICK U : R \in Seq(U)
  BY DEF IsStack
<1>2. R \in Seq(U \cup {a}) /\ a \in U \cup {a}
  BY <1>1
<1>3. Append(R, a) \in Seq(U \cup {a}) /\ Len(Append(R, a)) = Len(R) + 1 /\ Len(R) \in Nat
      /\ Append(R, a)[Len(R) + 1] = a /\ \A p \in 1..Len(R) : Append(R, a)[p] = R[p]
  BY <1>2
<1> DEFINE Q == Append(R, a)
<1>4. SubSeq(Q, 1, Len(R)) = R
  <2>1. /\ SubSeq(Q, 1, Len(R)) \in Seq(U \cup {a}) /\ Len(SubSeq(Q, 1, Len(R))) = Len(R)
        /\ \A p \in 1..Len(R) : SubSeq(Q, 1, Len(R))[p] = Q[p]
    <3> HIDE DEF Q
    <3> QED
      BY <1>3, SubSeqProperties DEF Q
  <2> QED
    BY <1>2, <1>3, <2>1, SeqEqual
<1>5. SubSeq(Q, Len(R) + 1, Len(R) + 1) = <<a>>
  <2>1. /\ SubSeq(Q, Len(R) + 1, Len(R) + 1) \in Seq(U \cup {a})
        /\ Len(SubSeq(Q, Len(R) + 1, Len(R) + 1)) = 1
        /\ \A p \in 1..1 : SubSeq(Q, Len(R) + 1, Len(R) + 1)[p] = Q[Len(R) + p]
    <3> HIDE DEF Q
    <3> QED
      BY <1>3, SubSeqProperties DEF Q
  <2>2. <<a>> \in Seq(U \cup {a}) /\ Len(<<a>>) = 1 /\ <<a>>[1] = a
    OBVIOUS
  <2>3. \A p \in 1..1 : SubSeq(Q, Len(R) + 1, Len(R) + 1)[p] = <<a>>[p]
    BY <1>3, <2>1, <2>2
  <2> QED
    BY <2>1, <2>2, <2>3, SeqEqual
<1> QED
  BY <1>3, <1>4, <1>5 DEF IsStack

\* Making a node of the last values.
LEMMA MakesOfOne ==
  ASSUME NEW R, IsStack(R), NEW a, NEW node, NEW k, NEW T, NEW m, DoesMake(node, 1, Append(R, a), k, T, m)
  PROVE  m = k /\ T = Append(R, Created(node, <<a>>))
<1> DEFINE Q == Append(R, a)
<1>1. /\ Len(Q) - 1 = Len(R) /\ SubSeq(Q, 1, Len(R)) = R
      /\ SubSeq(Q, Len(R) + 1, Len(Q)) = <<a>>
  BY StackGrows
<1> HIDE DEF Q
<1>2. m = k /\ T = Append(SubSeq(Q, 1, Len(Q) - 1), Created(node, SubSeq(Q, Len(Q) - 1 + 1, Len(Q))))
  BY DEF DoesMake, Q
<1> QED
  BY <1>1, <1>2

\* Of two values.
LEMMA MakesOfTwo ==
  ASSUME NEW R, IsStack(R), NEW a, NEW b, NEW node, NEW k, NEW T, NEW m,
         DoesMake(node, 2, Append(Append(R, a), b), k, T, m)
  PROVE  m = k /\ T = Append(R, Created(node, <<a, b>>))
<1> DEFINE n == Len(R)
           Q == Append(Append(R, a), b)
<1>1. PICK U : R \in Seq(U)
  BY DEF IsStack
<1>2. R \in Seq(U \cup {a, b}) /\ Append(R, a) \in Seq(U \cup {a, b}) /\ n \in Nat
  BY <1>1
<1>3. /\ Q \in Seq(U \cup {a, b}) /\ Len(Q) = n + 2
      /\ Q[n + 1] = a /\ Q[n + 2] = b /\ \A p \in 1..n : Q[p] = R[p]
  BY <1>2
<1> HIDE DEF Q
<1>4. SubSeq(Q, 1, n) = R
  <2>1. /\ SubSeq(Q, 1, n) \in Seq(U \cup {a, b}) /\ Len(SubSeq(Q, 1, n)) = n
        /\ \A p \in 1..n : SubSeq(Q, 1, n)[p] = Q[p]
    BY <1>2, <1>3, SubSeqProperties
  <2> QED
    BY <1>2, <1>3, <2>1, SeqEqual
<1>5. SubSeq(Q, n + 1, n + 2) = <<a, b>>
  <2>1. /\ SubSeq(Q, n + 1, n + 2) \in Seq(U \cup {a, b}) /\ Len(SubSeq(Q, n + 1, n + 2)) = 2
        /\ \A p \in 1..2 : SubSeq(Q, n + 1, n + 2)[p] = Q[n + p]
    BY <1>2, <1>3, SubSeqProperties
  <2>2. <<a, b>> \in Seq(U \cup {a, b}) /\ Len(<<a, b>>) = 2 /\ <<a, b>>[1] = a /\ <<a, b>>[2] = b
    OBVIOUS
  <2>3. \A p \in 1..2 : SubSeq(Q, n + 1, n + 2)[p] = <<a, b>>[p]
    BY <1>3, <2>1, <2>2
  <2> QED
    BY <2>1, <2>2, <2>3, SeqEqual
<1>6. (n + 2) - 2 = n /\ ((n + 2) - 2) + 1 = n + 1
  BY <1>2
<1> QED
  BY <1>3, <1>4, <1>5, <1>6 DEF DoesMake, Q

\* Of three values.
LEMMA MakesOfThree ==
  ASSUME NEW R, IsStack(R), NEW a, NEW b, NEW c, NEW node, NEW k, NEW T, NEW m,
         DoesMake(node, 3, Append(Append(Append(R, a), b), c), k, T, m)
  PROVE  m = k /\ T = Append(R, Created(node, <<a, b, c>>))
<1> DEFINE n == Len(R)
           Q == Append(Append(Append(R, a), b), c)
<1>1. PICK U : R \in Seq(U)
  BY DEF IsStack
<1>2. /\ R \in Seq(U \cup {a, b, c}) /\ Append(R, a) \in Seq(U \cup {a, b, c}) /\ n \in Nat
      /\ Append(Append(R, a), b) \in Seq(U \cup {a, b, c})
  BY <1>1
<1>3. /\ Q \in Seq(U \cup {a, b, c}) /\ Len(Q) = n + 3
      /\ Q[n + 1] = a /\ Q[n + 2] = b /\ Q[n + 3] = c /\ \A p \in 1..n : Q[p] = R[p]
  BY <1>2
<1> HIDE DEF Q
<1>4. SubSeq(Q, 1, n) = R
  <2>1. /\ SubSeq(Q, 1, n) \in Seq(U \cup {a, b, c}) /\ Len(SubSeq(Q, 1, n)) = n
        /\ \A p \in 1..n : SubSeq(Q, 1, n)[p] = Q[p]
    BY <1>2, <1>3, SubSeqProperties
  <2> QED
    BY <1>2, <1>3, <2>1, SeqEqual
<1>5. SubSeq(Q, n + 1, n + 3) = <<a, b, c>>
  <2>1. /\ SubSeq(Q, n + 1, n + 3) \in Seq(U \cup {a, b, c}) /\ Len(SubSeq(Q, n + 1, n + 3)) = 3
        /\ \A p \in 1..3 : SubSeq(Q, n + 1, n + 3)[p] = Q[n + p]
    BY <1>2, <1>3, SubSeqProperties
  <2>2. /\ <<a, b, c>> \in Seq(U \cup {a, b, c}) /\ Len(<<a, b, c>>) = 3
        /\ <<a, b, c>>[1] = a /\ <<a, b, c>>[2] = b /\ <<a, b, c>>[3] = c
    OBVIOUS
  <2>3. \A p \in 1..3 : SubSeq(Q, n + 1, n + 3)[p] = <<a, b, c>>[p]
    BY <1>3, <2>1, <2>2
  <2> QED
    BY <2>1, <2>2, <2>3, SeqEqual
<1>6. (n + 3) - 3 = n /\ ((n + 3) - 3) + 1 = n + 1
  BY <1>2
<1> QED
  BY <1>3, <1>4, <1>5, <1>6 DEF DoesMake, Q
-------------------------------------------------------------------------------
\* What each item does.
LEMMA DoesWithin ==
  ASSUME NEW txt, NEW x, NEW S, NEW k, NEW T, NEW m, Does(txt, x, S, k, T, m)
  PROVE  k \in Places(txt) /\ m \in Places(txt)
BY DEF Does

\* What an item does, by its name.
LEMMA DoesIs ==
  ASSUME NEW txt, NEW x, NEW S, NEW k, NEW T, NEW m, Does(txt, x, S, k, T, m)
  PROVE  /\ x.call = "expect"     => DoesExpect(txt, x.arg, S, k, T, m)
         /\ x.call = "ident"      => DoesRead(txt, {"ident"}, Ident(TextAt(txt, k)), S, k, T, m)
         /\ x.call = "const"      => DoesNumber(txt, S, k, T, m)
         /\ x.call = "scalarType" => DoesRead(txt, ScalarTypes, Leaf(KindAt(txt, k)), S, k, T, m)
         /\ x.call = "make"       => DoesMake(x.arg[1], x.arg[2], S, k, T, m)
         /\ x.call = "exp"        => DoesExp(txt, x.arg, S, k, T, m)
         /\ x.call = "base"       => DoesBase(txt, S, k, T, m)
         /\ x.call = "arguments"  => DoesArguments(txt, S, k, T, m)
         /\ x.call = "operators"  => DoesOperators(txt, x.arg, S, k, T, m)
         /\ x.call = "elements"   => DoesElements(txt, x.arg[2], S, k, T, m)
         /\ x.call = "more"       => DoesMore(txt, x.arg[2], S, k, T, m)
BY DEF Does

\* Tok, as an item.
LEMMA DoesTok ==
  ASSUME NEW txt, NEW c, NEW S, NEW k, NEW T, NEW m, Does(txt, Tok(c), S, k, T, m)
  PROVE  DoesExpect(txt, c, S, k, T, m)
BY DoesIs DEF Tok

\* Exp, as an item.
LEMMA DoesExpItem ==
  ASSUME NEW txt, NEW p, NEW S, NEW k, NEW T, NEW m, Does(txt, Exp(p), S, k, T, m)
  PROVE  \E e \in Reads(txt, k, m, p) : k < m /\ T = Append(S, e) /\ Ends(txt, m, p)
<1>1. DoesExp(txt, p, S, k, T, m)
  BY DoesIs DEF Exp, With
<1> QED
  BY <1>1 DEF DoesExp

\* Make, as an item.
LEMMA DoesMakeItem ==
  ASSUME NEW txt, NEW node, NEW n, NEW S, NEW k, NEW T, NEW m, Does(txt, Make(node, n), S, k, T, m)
  PROVE  DoesMake(node, n, S, k, T, m)
<1>1. /\ Make(node, n).call = "make" /\ Make(node, n).arg[1] = node /\ Make(node, n).arg[2] = n
  BY DEF Make
<1> QED
  BY <1>1, DoesIs

\* An expression in parentheses, and a type before one.
LEMMA BaseOfParens ==
  ASSUME NEW txt \in Seq(STRING), NEW S, IsStack(S), NEW k \in Places(txt), KindAt(txt, k) = "(",
         NEW T, NEW m, Reaches(txt, <<Exp(0), Tok(")")>>, S, k + 1, T, m)
  PROVE  DoesBase(txt, S, k, T, m)
<1>1. PICK S1, j : Does(txt, Exp(0), S, k + 1, S1, j) /\ Does(txt, Tok(")"), S1, j, T, m)
  BY Reaches2
<1>2. PICK e \in Reads(txt, k + 1, j, 0) : k + 1 < j /\ S1 = Append(S, e)
  BY <1>1, DoesExpItem
<1>3. KindAt(txt, j) = ")" /\ T = S1 /\ m = j + 1
  BY <1>1, DoesTok DEF DoesExpect
<1>4. j \in Places(txt) /\ m \in Places(txt) /\ k \in Nat /\ j \in Nat
  BY <1>1, DoesWithin, Between
<1>5. k + 1 <= j /\ k < m /\ m - 1 = j
  BY ONLY <1>2, <1>3, <1>4
<1>6. \A p \in 0..7 : e \in Reads(txt, k, m, p)
  BY <1>2, <1>3, <1>4, <1>5, ReadsParens
<1>7. Closes(txt, m)
  BY <1>3, <1>5 DEF Closes
<1> QED
  BY <1>2, <1>3, <1>5, <1>6, <1>7 DEF DoesBase

\* A type with an expression in parentheses.
LEMMA BaseOfCast ==
  ASSUME NEW txt \in Seq(STRING), NEW S, IsStack(S), NEW k \in Places(txt), NEW T, NEW m,
         Reaches(txt, <<Call("scalarType"), Tok("("), Exp(0), Tok(")"), Make("cast", 2)>>, S, k, T, m)
  PROVE  DoesBase(txt, S, k, T, m)
<1>1. PICK S1, k1, S2, k2, S3, k3, S4, k4 :
        /\ Does(txt, Call("scalarType"), S, k, S1, k1) /\ Does(txt, Tok("("), S1, k1, S2, k2)
        /\ Does(txt, Exp(0), S2, k2, S3, k3) /\ Does(txt, Tok(")"), S3, k3, S4, k4)
        /\ Does(txt, Make("cast", 2), S4, k4, T, m)
  BY Reaches5
<1>2. KindAt(txt, k) \in ScalarTypes /\ S1 = Append(S, Leaf(KindAt(txt, k))) /\ k1 = k + 1
  BY <1>1, DoesIs DEF Call, DoesRead
<1>3. KindAt(txt, k1) = "(" /\ S2 = S1 /\ k2 = k1 + 1
  BY <1>1, DoesTok DEF DoesExpect
<1>4. PICK e \in Reads(txt, k2, k3, 0) : k2 < k3 /\ S3 = Append(S2, e)
  BY <1>1, DoesExpItem
<1>5. KindAt(txt, k3) = ")" /\ S4 = S3 /\ k4 = k3 + 1
  BY <1>1, DoesTok DEF DoesExpect
<1>6. m = k4 /\ T = Append(S, Created("cast", <<Leaf(KindAt(txt, k)), e>>))
  <2>1. DoesMake("cast", 2, Append(Append(S, Leaf(KindAt(txt, k))), e), k4, T, m)
    BY <1>1, <1>2, <1>3, <1>4, <1>5, DoesMakeItem
  <2> QED
    BY <2>1, MakesOfTwo
<1>7. Created("cast", <<Leaf(KindAt(txt, k)), e>>) = Op(KindAt(txt, k), <<e>>)
  BY DEF Created, Leaf
<1>8. k3 \in Places(txt) /\ k4 \in Places(txt) /\ k \in Nat /\ k3 \in Nat
  BY <1>1, DoesWithin, Between
<1>9. k2 = k + 2 /\ k + 2 <= k3 /\ k < m /\ m - 1 = k3 /\ m = k3 + 1
  BY ONLY <1>2, <1>3, <1>4, <1>5, <1>6, <1>8
<1>10. \A p \in 0..7 : Op(KindAt(txt, k), <<e>>) \in Reads(txt, k, m, p)
  <2>1. KindAt(txt, k + 1) = "(" /\ e \in Reads(txt, k + 2, k3, 0) /\ k3 + 1 \in Places(txt)
    BY <1>2, <1>3, <1>4, <1>5, <1>8, <1>9
  <2> QED
    BY <1>2, <1>5, <1>8, <1>9, <2>1, ReadsCast
<1>11. Closes(txt, m)
  BY <1>5, <1>9 DEF Closes
<1> QED
  BY <1>6, <1>7, <1>9, <1>10, <1>11 DEF DoesBase

\* min and max with two expressions in parentheses.
LEMMA BaseOfMinMax ==
  ASSUME NEW txt \in Seq(STRING), NEW S, IsStack(S), NEW k \in Places(txt),
         KindAt(txt, k) \in {"min", "max"}, NEW T, NEW m,
         Reaches(txt, <<Tok("("), Exp(0), Tok(","), Exp(0), Tok(")"), Make(KindAt(txt, k), 2)>>,
                 S, k + 1, T, m)
  PROVE  DoesBase(txt, S, k, T, m)
<1> DEFINE node  == KindAt(txt, k)
           comma == Tok(",")
<1>0. Reaches(txt, <<Tok("("), Exp(0), comma, Exp(0), Tok(")"), Make(node, 2)>>, S, k + 1, T, m)
  BY Zenon
<1> HIDE DEF node, comma
<1>1. PICK S1, k1, S2, k2, S3, k3, S4, k4, S5, k5 :
        /\ Does(txt, Tok("("), S, k + 1, S1, k1) /\ Does(txt, Exp(0), S1, k1, S2, k2)
        /\ Does(txt, comma, S2, k2, S3, k3) /\ Does(txt, Exp(0), S3, k3, S4, k4)
        /\ Does(txt, Tok(")"), S4, k4, S5, k5) /\ Does(txt, Make(node, 2), S5, k5, T, m)
  BY ONLY <1>0, Reaches6
<1>b. Does(txt, Tok(","), S2, k2, S3, k3)
  BY <1>1 DEF comma
<1>2. KindAt(txt, k + 1) = "(" /\ S1 = S /\ k1 = k + 1 + 1
  BY <1>1, DoesTok DEF DoesExpect
<1>a. Does(txt, Exp(0), S1, k1, S2, k2) /\ Does(txt, Exp(0), S3, k3, S4, k4)
  BY <1>1
<1>3. PICK e \in Reads(txt, k1, k2, 0) : k1 < k2 /\ S2 = Append(S1, e)
  BY ONLY <1>a, DoesExpItem
<1>4. KindAt(txt, k2) = "," /\ S3 = S2 /\ k3 = k2 + 1
  BY <1>b, DoesTok DEF DoesExpect
<1>5. PICK f \in Reads(txt, k3, k4, 0) : k3 < k4 /\ S4 = Append(S3, f)
  BY ONLY <1>a, DoesExpItem
<1>6. KindAt(txt, k4) = ")" /\ S5 = S4 /\ k5 = k4 + 1
  BY <1>1, DoesTok DEF DoesExpect
<1>7. m = k5 /\ T = Append(S, Created(KindAt(txt, k), <<e, f>>))
  <2>1. DoesMake(node, 2, Append(Append(S, e), f), k5, T, m)
    BY <1>1, <1>2, <1>3, <1>4, <1>5, <1>6, DoesMakeItem
  <2> QED
    BY <2>1, MakesOfTwo DEF node
<1>8. Created(KindAt(txt, k), <<e, f>>) = Op(KindAt(txt, k), <<e, f>>)
  BY DEF Created
<1>9. /\ k2 \in Places(txt) /\ k4 \in Places(txt) /\ k5 \in Places(txt)
      /\ k \in Nat /\ k2 \in Nat /\ k4 \in Nat
  BY <1>1, DoesWithin, Between
<1>10. k1 = k + 2 /\ k + 2 < k2 /\ k2 + 1 < k4 /\ k < m /\ m - 1 = k4 /\ m = k4 + 1
  <2>1. k1 = k + 1 + 1 /\ k1 < k2 /\ k3 = k2 + 1 /\ k3 < k4 /\ k5 = k4 + 1 /\ m = k5
    BY <1>2, <1>3, <1>4, <1>5, <1>6, <1>7
  <2> QED
    BY ONLY <1>9, <2>1
<1>11. \A p \in 0..7 : Op(KindAt(txt, k), <<e, f>>) \in Reads(txt, k, m, p)
  <2>1. e \in Reads(txt, k + 2, k2, 0) /\ f \in Reads(txt, k2 + 1, k4, 0) /\ k4 + 1 \in Places(txt)
    BY <1>3, <1>4, <1>5, <1>6, <1>9, <1>10
  <2> QED
    BY <1>2, <1>4, <1>6, <1>9, <1>10, <2>1, ReadsMinMax
<1>12. Closes(txt, m)
  BY <1>6, <1>10 DEF Closes
<1> QED
  BY <1>7, <1>8, <1>10, <1>11, <1>12 DEF DoesBase

\* A number.
LEMMA BaseOfConst ==
  ASSUME NEW txt \in Seq(STRING), NEW S, IsStack(S), NEW k \in Places(txt), NEW T, NEW m,
         Reaches(txt, <<Call("const")>>, S, k, T, m)
  PROVE  DoesBase(txt, S, k, T, m)
<1>1. Does(txt, Call("const"), S, k, T, m)
  BY Reaches1
<1>2. /\ KindAt(txt, k) = "number" /\ TextAt(txt, k) \notin OutOfRange
      /\ T = Append(S, Number(TextAt(txt, k))) /\ m = k + 1
  BY <1>1, DoesIs DEF Call, DoesRead, DoesNumber
<1>3. m \in Places(txt) /\ k \in Nat
  BY <1>1, DoesWithin, Between
<1>4. k < m /\ m - 1 = k
  BY ONLY <1>2, <1>3
<1>5. \A p \in 0..7 : Number(TextAt(txt, k)) \in Reads(txt, k, m, p)
  BY <1>2, <1>3, ReadsLeaf
<1>6. Closes(txt, m)
  BY <1>2, <1>4 DEF Closes
<1> QED
  BY <1>2, <1>4, <1>5, <1>6 DEF DoesBase

\* A name, and what may follow it.
LEMMA BaseOfIdent ==
  ASSUME NEW txt \in Seq(STRING), NEW S, IsStack(S), NEW k \in Places(txt), NEW T, NEW m,
         Reaches(txt, <<Call("ident"), Call("arguments")>>, S, k, T, m)
  PROVE  DoesBase(txt, S, k, T, m)
<1>1. PICK S1, k1 : Does(txt, Call("ident"), S, k, S1, k1) /\ Does(txt, Call("arguments"), S1, k1, T, m)
  BY Reaches2
<1>2. KindAt(txt, k) = "ident" /\ S1 = Append(S, Ident(TextAt(txt, k))) /\ k1 = k + 1
  BY <1>1, DoesIs DEF Call, DoesRead
<1>3. k1 \in Places(txt) /\ m \in Places(txt) /\ k \in Nat /\ m \in Nat
  BY <1>1, DoesWithin, Between
<1>4. k1 - 1 = k
  BY <1>2, <1>3
<1>5. DoesArguments(txt, S1, k1, T, m)
  BY <1>1, DoesIs DEF Call
<1>6. \E e : k1 <= m /\ T = Append(S, e) /\ Closes(txt, m) /\ \A p \in 0..7 : e \in Reads(txt, k, m, p)
  BY <1>2, <1>4, <1>5 DEF DoesArguments
<1>7. k1 <= m => k < m
  BY ONLY <1>2, <1>3
<1> QED
  BY <1>6, <1>7 DEF DoesBase
-------------------------------------------------------------------------------
\* A name alone, and the name of an access.
LEMMA ArgumentsNone ==
  ASSUME NEW txt \in Seq(STRING), NEW k \in Places(txt), KindAt(txt, k) # "(", NEW S
  PROVE  DoesArguments(txt, S, k, S, k)
<1> SUFFICES ASSUME NEW R, IsStack(R), S = Append(R, Ident(TextAt(txt, k - 1))),
                    k - 1 \in Places(txt), KindAt(txt, k - 1) = "ident"
             PROVE  \E e : k <= k /\ S = Append(R, e) /\ Closes(txt, k)
                           /\ \A p \in 0..7 : e \in Reads(txt, k - 1, k, p)
  BY DEF DoesArguments
<1>1. k <= k /\ Closes(txt, k) /\ (k - 1) + 1 = k
  BY Between DEF Closes
<1>2. \A p \in 0..7 : Ident(TextAt(txt, k - 1)) \in Reads(txt, k - 1, k, p)
  BY <1>1, ReadsLeaf
<1> QED
  BY <1>1, <1>2

\* A list in parentheses makes an access of the name before it.
LEMMA ArgumentsSome ==
  ASSUME NEW txt \in Seq(STRING), NEW k \in Places(txt), KindAt(txt, k) = "(", NEW S, NEW T, NEW m,
         Reaches(txt, <<Tok("("), With("elements", <<Exp(0), ")">>), Make("apply", 2)>>, S, k, T, m)
  PROVE  DoesArguments(txt, S, k, T, m)
<1> DEFINE name == Ident(TextAt(txt, k - 1))
<1> SUFFICES ASSUME NEW R, IsStack(R), S = Append(R, name),
                    k - 1 \in Places(txt), KindAt(txt, k - 1) = "ident"
             PROVE  \E e : k <= m /\ T = Append(R, e) /\ Closes(txt, m)
                           /\ \A p \in 0..7 : e \in Reads(txt, k - 1, m, p)
  BY DEF DoesArguments
<1>1. PICK S1, k1, S2, k2 : /\ Does(txt, Tok("("), S, k, S1, k1)
                            /\ Does(txt, With("elements", <<Exp(0), ")">>), S1, k1, S2, k2)
                            /\ Does(txt, Make("apply", 2), S2, k2, T, m)
  BY Reaches3
<1>2. S1 = S /\ k1 = k + 1
  <2>1. DoesExpect(txt, "(", S, k, S1, k1)
    BY <1>1, DoesTok, Zenon
  <2> QED
    BY <2>1 DEF DoesExpect
<1>3. DoesElements(txt, ")", S1, k1, S2, k2)
  BY <1>1, DoesIs DEF With
<1>4. PICK l, j : /\ j \in Places(txt) /\ k1 <= j /\ k2 = j + 1 /\ KindAt(txt, j) = ")"
                  /\ ReadsList(txt, k1, j, l) /\ S2 = Append(S1, List(l))
  BY <1>3 DEF DoesElements
<1>5. m = k2 /\ T = Append(R, Created("apply", <<name, List(l)>>))
  <2>1. DoesMake("apply", 2, Append(Append(R, name), List(l)), k2, T, m)
    BY <1>1, <1>2, <1>4, DoesMakeItem
  <2> QED
    BY <2>1, MakesOfTwo
<1>6. Created("apply", <<name, List(l)>>) = Apply(TextAt(txt, k - 1), l)
  BY DEF Created, Ident, List
<1>7. k2 \in Places(txt) /\ k \in Nat /\ j \in Nat
  BY <1>1, <1>4, DoesWithin, Between
<1>8. k <= m /\ m = j + 1 /\ m - 1 = j /\ (k - 1) + 2 = k1 /\ (k - 1) + 1 = k /\ (k - 1) + 2 <= j
  BY <1>2, <1>4, <1>5, <1>7
<1>9. \A p \in 0..7 : Apply(TextAt(txt, k - 1), l) \in Reads(txt, k - 1, m, p)
  <2> DEFINE i == k - 1
  <2>1. /\ i \in Places(txt) /\ i + 2 <= j /\ j + 1 \in Places(txt) /\ KindAt(txt, i) = "ident"
        /\ KindAt(txt, i + 1) = "(" /\ ReadsList(txt, i + 2, j, l)
    BY <1>4, <1>7, <1>8
  <2> HIDE DEF i
  <2>2. \A p \in 0..7 : Apply(TextAt(txt, i), l) \in Reads(txt, i, j + 1, p)
    BY <1>4, <2>1, ReadsAccess
  <2> QED
    BY <1>8, <2>2 DEF i
<1>10. Closes(txt, m)
  BY <1>4, <1>8 DEF Closes
<1> QED
  BY <1>5, <1>6, <1>8, <1>9, <1>10

\* The end of an operand, and an operator that takes it.
LEMMA OperatorsNone ==
  ASSUME NEW txt \in Seq(STRING), NEW k \in Places(txt), NEW p \in 0..7,
         ~IsBinary(KindAt(txt, k)) \/ BinaryPrec[KindAt(txt, k)] <= p, NEW S
  PROVE  DoesOperators(txt, p, S, k, S, k)
<1> SUFFICES ASSUME NEW R, NEW i \in Places(txt), NEW l \in Reads(txt, i, k, Need(txt, k, p)),
                    IsStack(R), S = Append(R, l), i < k, Closes(txt, k)
             PROVE  \E e \in Reads(txt, i, k, p) : k <= k /\ S = Append(R, e) /\ Ends(txt, k, p)
  BY DEF DoesOperators
<1>1. Need(txt, k, p) = p /\ Ends(txt, k, p)
  BY DEF Need, Ends
<1>2. k <= k
  BY Between
<1> QED
  BY <1>1, <1>2

\* After a right operand that ends before stronger operators, the operators that are
\* left take the whole as their left operand.
LEMMA OperatorsGoOn ==
  ASSUME NEW txt \in Seq(STRING), NEW k \in Places(txt), NEW p \in 0..7, NEW q \in 0..7,
         Ends(txt, k, q), NEW i \in Places(txt), i < k, NEW R, IsStack(R), NEW e,
         \A x \in 0..7 : p <= x /\ (x < q \/ (p = x /\ p <= q)) => e \in Reads(txt, i, k, x),
         p <= q, q # 1, NEW T, NEW m, m \in Places(txt), DoesOperators(txt, p, Append(R, e), k, T, m)
  PROVE  \E f \in Reads(txt, i, m, p) : k <= m /\ T = Append(R, f) /\ Ends(txt, m, p)
<1>1. e \in Reads(txt, i, k, Need(txt, k, p))
  <2> DEFINE op == KindAt(txt, k)
  <2>1. CASE ~IsBinary(op) \/ BinaryPrec[op] <= p
    BY <2>1 DEF Need
  <2>2. CASE IsBinary(op) /\ BinaryPrec[op] > p
    <3>1. BinaryPrec[op] <= q /\ BinaryPrec[op] \in 1..6 /\ (BinaryPrec[op] = 1 <=> op = "?")
      BY <2>2, PrecOf DEF Ends
    <3>2. CASE op = "?"
      <4>1. Need(txt, k, p) = 1 /\ p <= 1 /\ 1 < q
        BY <2>2, <3>1, <3>2 DEF Need
      <4> QED
        BY <4>1
    <3>3. CASE op # "?"
      <4>0. ~(BinaryPrec[op] <= p)
        BY <2>2, <3>1
      <4>1. Need(txt, k, p) = BinaryPrec[op] - 1
        BY <2>2, <3>3, <4>0, Zenon DEF Need
      <4>2. BinaryPrec[op] - 1 \in 0..7 /\ p <= BinaryPrec[op] - 1 /\ BinaryPrec[op] - 1 < q
        BY <2>2, <3>1
      <4> QED
        BY <4>1, <4>2
    <3> QED
      BY <3>2, <3>3
  <2>3. ~IsBinary(op) \/ BinaryPrec[op] <= p \/ (IsBinary(op) /\ BinaryPrec[op] > p)
    <3>1. IsBinary(op) => BinaryPrec[op] \in Nat
      BY PrecOf
    <3> QED
      BY <3>1
  <2> QED
    BY <2>1, <2>2, <2>3
<1> QED
  BY <1>1 DEF DoesOperators, Ends

\* The operator takes the expression before it and a right operand of its own
\* precedence.
LEMMA OperatorsBinary ==
  ASSUME NEW txt \in Seq(STRING), NEW k \in Places(txt), NEW p \in 0..7, NEW op, op = KindAt(txt, k),
         IsBinary(op), op # "?", NEW q, q = BinaryPrec[op], q > p, NEW S, NEW T, NEW m,
         Reaches(txt, <<Exp(q), Make(op, 2), With("operators", p)>>, S, k + 1, T, m)
  PROVE  DoesOperators(txt, p, S, k, T, m)
<1>0. q \in 2..6 /\ q # 1 /\ q \in 0..7 /\ p <= q
  BY PrecOf
<1>a. Need(txt, k, p) = q - 1
  <2>1. ~(BinaryPrec[op] <= p)
    BY <1>0
  <2> QED
    BY <2>1, Zenon DEF Need
<1> SUFFICES ASSUME NEW R, NEW i \in Places(txt), NEW l \in Reads(txt, i, k, q - 1),
                    IsStack(R), S = Append(R, l), i < k, Closes(txt, k)
             PROVE  \E e \in Reads(txt, i, m, p) : k <= m /\ T = Append(R, e) /\ Ends(txt, m, p)
  BY <1>a DEF DoesOperators
<1>1. PICK S1, k1, S2, k2 : /\ Does(txt, Exp(q), S, k + 1, S1, k1) /\ Does(txt, Make(op, 2), S1, k1, S2, k2)
                            /\ Does(txt, With("operators", p), S2, k2, T, m)
  BY Reaches3
<1>2. PICK r \in Reads(txt, k + 1, k1, q) : k + 1 < k1 /\ S1 = Append(S, r) /\ Ends(txt, k1, q)
  <2>1. Does(txt, Exp(q), S, k + 1, S1, k1)
    BY <1>1
  <2> QED
    BY ONLY <2>1, DoesExpItem
<1> DEFINE e == Op(op, <<l, r>>)
<1>3. k2 = k1 /\ S2 = Append(R, e)
  <2>1. DoesMake(op, 2, Append(Append(R, l), r), k1, S2, k2)
    BY <1>1, <1>2, DoesMakeItem
  <2>2. k2 = k1 /\ S2 = Append(R, Created(op, <<l, r>>))
    BY <2>1, MakesOfTwo
  <2>3. Created(op, <<l, r>>) = e
    BY DEF Created, IsBinary, BinaryPrec
  <2> QED
    BY <2>2, <2>3
<1>4. DoesOperators(txt, p, Append(R, e), k1, T, m)
  <2>1. DoesOperators(txt, p, S2, k2, T, m)
    BY <1>1, DoesIs DEF With
  <2> QED
    BY <1>3, <2>1
<1>5. k1 \in Places(txt) /\ m \in Places(txt)
  BY <1>1, DoesWithin
<1>6. i \in Nat /\ k \in Nat /\ k1 \in Nat /\ m \in Nat
  BY <1>5, Between
<1>7. i < k1 /\ k < k1
  BY ONLY <1>2, <1>6, i < k
<1>8. \A x \in 0..7 : p <= x /\ (x < q \/ (p = x /\ p <= q)) => e \in Reads(txt, i, k1, x)
  <2> SUFFICES ASSUME NEW x \in 0..7, x < q
               PROVE  e \in Reads(txt, i, k1, x)
    BY <1>0
  <2>1. q > x
    BY <1>0
  <2> QED
    BY <1>2, <1>5, <2>1, ReadsBinary
<1> HIDE DEF e
<1>9. \E f \in Reads(txt, i, m, p) : k1 <= m /\ T = Append(R, f) /\ Ends(txt, m, p)
  BY ONLY <1>0, <1>2, <1>4, <1>5, <1>7, <1>8, OperatorsGoOn, txt \in Seq(STRING), i \in Places(txt),
          IsStack(R), p \in 0..7
<1>10. k1 <= m => k <= m
  BY ONLY <1>6, <1>7
<1> QED
  BY <1>9, <1>10

\* The operator ? takes three expressions, the last as far as it goes.
LEMMA OperatorsTernary ==
  ASSUME NEW txt \in Seq(STRING), NEW k \in Places(txt), KindAt(txt, k) = "?", NEW p, p = 0,
         NEW S, NEW T, NEW m,
         Reaches(txt, <<Exp(0), Tok(":"), Exp(0), Make("?", 3), With("operators", p)>>, S, k + 1, T, m)
  PROVE  DoesOperators(txt, p, S, k, T, m)
<1>a. Need(txt, k, p) = 1
  BY DEF Need, IsBinary, BinaryPrec
<1> SUFFICES ASSUME NEW R, NEW i \in Places(txt), NEW c \in Reads(txt, i, k, 1),
                    IsStack(R), S = Append(R, c), i < k, Closes(txt, k)
             PROVE  \E e \in Reads(txt, i, m, p) : k <= m /\ T = Append(R, e) /\ Ends(txt, m, p)
  BY <1>a DEF DoesOperators
<1>1. PICK S1, k1, S2, k2, S3, k3, S4, k4 :
        /\ Does(txt, Exp(0), S, k + 1, S1, k1) /\ Does(txt, Tok(":"), S1, k1, S2, k2)
        /\ Does(txt, Exp(0), S2, k2, S3, k3) /\ Does(txt, Make("?", 3), S3, k3, S4, k4)
        /\ Does(txt, With("operators", p), S4, k4, T, m)
  BY Reaches5
<1>b. /\ Does(txt, Exp(0), S, k + 1, S1, k1) /\ Does(txt, Tok(":"), S1, k1, S2, k2)
      /\ Does(txt, Exp(0), S2, k2, S3, k3)
  BY <1>1
<1>2. PICK t \in Reads(txt, k + 1, k1, 0) : k + 1 < k1 /\ S1 = Append(S, t)
  BY ONLY <1>b, DoesExpItem
<1>3. KindAt(txt, k1) = ":" /\ S2 = S1 /\ k2 = k1 + 1
  <2>1. DoesExpect(txt, ":", S1, k1, S2, k2)
    BY <1>b, DoesTok, Zenon
  <2> QED
    BY <2>1 DEF DoesExpect
<1>4. PICK f \in Reads(txt, k2, k3, 0) : k2 < k3 /\ S3 = Append(S2, f) /\ Ends(txt, k3, 0)
  BY ONLY <1>b, DoesExpItem
<1> DEFINE e == Op("?", <<c, t, f>>)
<1>5. k4 = k3 /\ S4 = Append(R, e)
  <2>1. DoesMake("?", 3, Append(Append(Append(R, c), t), f), k3, S4, k4)
    BY <1>1, <1>2, <1>3, <1>4, DoesMakeItem
  <2>2. k4 = k3 /\ S4 = Append(R, Created("?", <<c, t, f>>))
    BY <2>1, MakesOfThree
  <2>3. Created("?", <<c, t, f>>) = e
    BY DEF Created
  <2> QED
    BY <2>2, <2>3
<1>6. DoesOperators(txt, p, Append(R, e), k3, T, m)
  <2>1. DoesOperators(txt, p, S4, k4, T, m)
    BY <1>1, DoesIs DEF With
  <2> QED
    BY <1>5, <2>1
<1>7. k1 \in Places(txt) /\ k3 \in Places(txt) /\ m \in Places(txt)
  BY <1>1, DoesWithin
<1>8. i \in Nat /\ k \in Nat /\ k1 \in Nat /\ k3 \in Nat /\ m \in Nat
  BY <1>7, Between
<1>9. i < k3 /\ k < k3 /\ k1 + 1 < k3
  <2>1. k + 1 < k1 /\ k2 = k1 + 1 /\ k2 < k3
    BY <1>2, <1>3, <1>4
  <2> QED
    BY ONLY <1>8, <2>1, i < k
<1>10. e \in Reads(txt, i, k3, 0)
  BY <1>2, <1>3, <1>4, <1>7, <1>9, ReadsTernary
<1> HIDE DEF e
<1>11. \E g \in Reads(txt, i, m, p) : k3 <= m /\ T = Append(R, g) /\ Ends(txt, m, p)
  <2>1. \A x \in 0..7 : p <= x /\ (x < 0 \/ (p = x /\ p <= 0)) => e \in Reads(txt, i, k3, x)
    BY <1>10
  <2>2. p \in 0..7 /\ 0 \in 0..7 /\ p <= 0 /\ 0 # 1
    OBVIOUS
  <2> QED
    BY ONLY <2>1, <2>2, <1>4, <1>6, <1>7, <1>9, OperatorsGoOn, txt \in Seq(STRING), i \in Places(txt),
            IsStack(R)
<1>12. k3 <= m => k <= m
  BY ONLY <1>8, <1>9
<1> QED
  BY <1>11, <1>12

\* An expression that starts with an operator, and one that starts with an operand.
LEMMA ExpOfSign ==
  ASSUME NEW txt \in Seq(STRING), NEW k \in Places(txt), NEW p \in 0..7, NEW op, op = KindAt(txt, k),
         IsUnary(op), NEW S, IsStack(S), NEW T, NEW m,
         Reaches(txt, <<Exp(UnaryPrec[op]), Make(op, 1), With("operators", p)>>, S, k + 1, T, m)
  PROVE  DoesExp(txt, p, S, k, T, m)
<1> DEFINE q == UnaryPrec[op]
<1>0. q = 7
  BY DEF IsUnary, UnaryPrec
<1>1. PICK S1, k1, S2, k2 : /\ Does(txt, Exp(q), S, k + 1, S1, k1) /\ Does(txt, Make(op, 1), S1, k1, S2, k2)
                            /\ Does(txt, With("operators", p), S2, k2, T, m)
  BY Reaches3
<1> HIDE DEF q
<1>2. PICK f \in Reads(txt, k + 1, k1, q) : k + 1 < k1 /\ S1 = Append(S, f) /\ Ends(txt, k1, q)
  <2>1. Does(txt, Exp(q), S, k + 1, S1, k1)
    BY <1>1
  <2> QED
    BY ONLY <2>1, DoesExpItem
<1> DEFINE e == Op(op, <<f>>)
<1>3. k2 = k1 /\ S2 = Append(S, e)
  <2>1. DoesMake(op, 1, Append(S, f), k1, S2, k2)
    BY <1>1, <1>2, DoesMakeItem
  <2>2. k2 = k1 /\ S2 = Append(S, Created(op, <<f>>))
    BY <2>1, MakesOfOne
  <2>3. Created(op, <<f>>) = e
    BY DEF Created, IsUnary, UnaryPrec
  <2> QED
    BY <2>2, <2>3
<1>4. DoesOperators(txt, p, Append(S, e), k1, T, m)
  <2>1. DoesOperators(txt, p, S2, k2, T, m)
    BY <1>1, DoesIs DEF With
  <2> QED
    BY <1>3, <2>1
<1>5. k1 \in Places(txt) /\ m \in Places(txt)
  BY <1>1, DoesWithin
<1>6. k \in Nat /\ k1 \in Nat /\ m \in Nat
  BY <1>5, Between
<1>7. k < k1
  BY ONLY <1>2, <1>6
<1>8. \A x \in 0..7 : p <= x /\ (x < q \/ (p = x /\ p <= q)) => e \in Reads(txt, k, k1, x)
  <2>1. f \in Reads(txt, k + 1, k1, UnaryPrec[KindAt(txt, k)])
    BY <1>2 DEF q
  <2>2. \A x \in 0..7 : Op(KindAt(txt, k), <<f>>) \in Reads(txt, k, k1, x)
    BY <1>2, <1>5, <2>1, ReadsSigned
  <2> QED
    BY <2>2
<1> HIDE DEF e
<1>9. \E g \in Reads(txt, k, m, p) : k1 <= m /\ T = Append(S, g) /\ Ends(txt, m, p)
  <2>1. q \in 0..7 /\ q # 1 /\ p <= q
    BY <1>0
  <2> QED
    BY ONLY <2>1, <1>2, <1>4, <1>5, <1>7, <1>8, OperatorsGoOn, txt \in Seq(STRING), k \in Places(txt),
            IsStack(S), p \in 0..7
<1>10. k1 <= m => k < m
  BY ONLY <1>6, <1>7
<1> QED
  BY <1>9, <1>10 DEF DoesExp

\* parseExp from an operand: its loop takes the operators that bind more than p.
LEMMA ExpOfBase ==
  ASSUME NEW txt \in Seq(STRING), NEW k \in Places(txt), NEW p \in 0..7, NEW S, IsStack(S), NEW T, NEW m,
         Reaches(txt, <<Call("base"), With("operators", p)>>, S, k, T, m)
  PROVE  DoesExp(txt, p, S, k, T, m)
<1>1. PICK S1, k1 : Does(txt, Call("base"), S, k, S1, k1) /\ Does(txt, With("operators", p), S1, k1, T, m)
  BY Reaches2
<1>2. DoesBase(txt, S, k, S1, k1) /\ DoesOperators(txt, p, S1, k1, T, m)
  BY <1>1, DoesIs DEF Call, With
<1>3. PICK e : k < k1 /\ S1 = Append(S, e) /\ Closes(txt, k1) /\ \A x \in 0..7 : e \in Reads(txt, k, k1, x)
  BY <1>2 DEF DoesBase
<1>4. k1 \in Places(txt) /\ m \in Places(txt)
  BY <1>1, DoesWithin
<1>5. k \in Nat /\ k1 \in Nat /\ m \in Nat
  BY <1>4, Between
<1>6. Need(txt, k1, p) \in 0..7
  BY Precedences DEF Need
<1>7. \E g \in Reads(txt, k, m, p) : k1 <= m /\ T = Append(S, g) /\ Ends(txt, m, p)
  <2>1. e \in Reads(txt, k, k1, Need(txt, k1, p))
    BY <1>3, <1>6
  <2> QED
    BY <1>2, <1>3, <2>1 DEF DoesOperators
<1>8. k1 <= m => k < m
  BY ONLY <1>3, <1>5
<1> QED
  BY <1>7, <1>8 DEF DoesExp

\* The values of a list on top of others.
LEMMA StackOfTwo ==
  ASSUME NEW R, IsStack(R), NEW B, IsStack(B), NEW e, NEW S, S = Append(R \o B, e)
  PROVE  /\ S = R \o Append(B, e)
         /\ Len(S) = Len(R) + Len(B) + 1 /\ Len(R) \in Nat /\ Len(B) \in Nat
         /\ SubSeq(S, 1, Len(R)) = R
         /\ SubSeq(S, Len(R) + 1, Len(R) + Len(B) + 1) = Append(B, e)
<1>1. PICK U : R \in Seq(U)
  BY DEF IsStack
<1>2. PICK V : B \in Seq(V)
  BY DEF IsStack
<1> DEFINE W == U \cup V \cup {e}
           C == Append(B, e)
           A == R \o C
           Q == R \o B
<1>3. R \in Seq(W) /\ B \in Seq(W) /\ e \in W /\ Len(R) \in Nat /\ Len(B) \in Nat
  BY <1>1, <1>2
<1>4. /\ C \in Seq(W) /\ Len(C) = Len(B) + 1 /\ C[Len(B) + 1] = e /\ \A p \in 1..Len(B) : C[p] = B[p]
  BY <1>3
<1> HIDE DEF C, W
<1>c. Len(C) \in Nat /\ C \in Seq(W)
  BY <1>3, <1>4
<1>5. /\ A \in Seq(W) /\ Len(A) = Len(R) + Len(C)
      /\ \A p \in 1..Len(A) : A[p] = IF p <= Len(R) THEN R[p] ELSE C[p - Len(R)]
  BY ONLY <1>3, <1>c, ConcatProperties
<1>6. /\ Q \in Seq(W) /\ Len(Q) = Len(R) + Len(B)
      /\ \A p \in 1..Len(Q) : Q[p] = IF p <= Len(R) THEN R[p] ELSE B[p - Len(R)]
  BY <1>3, ConcatProperties
<1> HIDE DEF A, Q
<1>7. Append(Q, e) \in Seq(W) /\ Len(Append(Q, e)) = Len(Q) + 1
      /\ Append(Q, e)[Len(Q) + 1] = e /\ \A p \in 1..Len(Q) : Append(Q, e)[p] = Q[p]
  BY <1>3, <1>6
<1>8. Append(Q, e) = A
  <2>1. ASSUME NEW p \in 1..Len(A) PROVE Append(Q, e)[p] = A[p]
    <3>1. CASE p <= Len(Q)
      <4>1. p \in 1..Len(Q) /\ Append(Q, e)[p] = Q[p]
        BY <1>7, <3>1, <1>6, <1>3
      <4>2. CASE p <= Len(R)
        BY <1>5, <1>6, <4>1, <4>2
      <4>3. CASE ~(p <= Len(R))
        <5>1. p - Len(R) \in 1..Len(B)
          BY <1>3, <1>6, <4>1, <4>3
        <5> QED
          BY <1>4, <1>5, <1>6, <4>1, <4>3, <5>1
      <4> QED
        BY <4>2, <4>3
    <3>2. CASE p = Len(Q) + 1
      <4>1. p - Len(R) = Len(B) + 1 /\ ~(p <= Len(R))
        BY <1>3, <1>6, <3>2
      <4> QED
        BY <1>4, <1>5, <1>7, <3>2, <4>1
    <3>3. p <= Len(Q) \/ p = Len(Q) + 1
      <4>1. Len(A) = Len(Q) + 1 /\ Len(Q) \in Nat /\ p \in Nat /\ p <= Len(A)
        BY <1>3, <1>4, <1>5, <1>6
      <4> QED
        BY ONLY <4>1
    <3> QED
      BY <3>1, <3>2, <3>3
  <2>2. Len(Append(Q, e)) = Len(A)
    BY <1>3, <1>4, <1>5, <1>6, <1>7
  <2> QED
    BY <1>5, <1>7, <2>1, <2>2, SeqEqual
<1>9. SubSeq(A, 1, Len(R)) = R
  <2>1. /\ SubSeq(A, 1, Len(R)) \in Seq(W) /\ Len(SubSeq(A, 1, Len(R))) = Len(R)
        /\ \A p \in 1..Len(R) : SubSeq(A, 1, Len(R))[p] = A[p]
    BY <1>3, <1>4, <1>5, SubSeqProperties
  <2>2. \A p \in 1..Len(R) : A[p] = R[p]
    BY <1>3, <1>4, <1>5
  <2> QED
    BY <1>3, <2>1, <2>2, SeqEqual
<1>10. SubSeq(A, Len(R) + 1, Len(R) + Len(B) + 1) = C
  <2> DEFINE D == SubSeq(A, Len(R) + 1, Len(R) + Len(B) + 1)
  <2>1. /\ D \in Seq(W) /\ Len(D) = Len(C)
        /\ \A p \in 1..Len(C) : D[p] = A[Len(R) + p]
    BY <1>3, <1>4, <1>5, SubSeqProperties
  <2>2. ASSUME NEW p \in 1..Len(C) PROVE A[Len(R) + p] = C[p]
    <3>1. Len(R) + p \in 1..Len(A) /\ ~(Len(R) + p <= Len(R)) /\ (Len(R) + p) - Len(R) = p
      BY <1>3, <1>4, <1>5
    <3> QED
      BY <1>5, <3>1
  <2> HIDE DEF D
  <2> QED
    BY <1>4, <2>1, <2>2, SeqEqual DEF D
<1>12. Len(A) = Len(R) + Len(B) + 1
  BY <1>3, <1>4, <1>5
<1>11. S = A
  BY <1>8 DEF Q
<1> QED
  BY <1>3, <1>9, <1>10, <1>11, <1>12 DEF A, C

\* The values above R are those of a list and its last element.
LEMMA StackConcat ==
  \A R, B, e, S : IsStack(R) /\ IsStack(B) /\ S = Append(R \o B, e) => S = R \o Append(B, e)
<1> SUFFICES ASSUME NEW R, NEW B, NEW e, NEW S, IsStack(R), IsStack(B), S = Append(R \o B, e)
             PROVE  S = R \o Append(B, e)
  OBVIOUS
<1> QED
  BY StackOfTwo

\* The end of a list, and a comma.
LEMMA MoreEnds ==
  ASSUME NEW txt \in Seq(STRING), NEW k \in Places(txt), NEW n \in Nat \ {0}, NEW S
  PROVE  DoesMore(txt, n, S, k,
                  Append(SubSeq(S, 1, Len(S) - n), List(SubSeq(S, Len(S) - n + 1, Len(S)))), k)
<1> DEFINE T == Append(SubSeq(S, 1, Len(S) - n), List(SubSeq(S, Len(S) - n + 1, Len(S))))
<1>1. ASSUME NEW R, NEW before, NEW i \in Places(txt), NEW j \in Places(txt),
             NEW e \in Reads(txt, j, k, 0), IsStack(R), IsStack(before), Len(before) = n - 1,
             S = Append(R \o before, e), before \in Reads(txt, i, j, 8), i <= j, j < k
      PROVE  \E l : k <= k /\ ReadsList(txt, i, k, l) /\ T = Append(R, List(l))
  <2>1. /\ Len(S) = Len(R) + Len(before) + 1 /\ Len(R) \in Nat
        /\ SubSeq(S, 1, Len(R)) = R
        /\ SubSeq(S, Len(R) + 1, Len(R) + Len(before) + 1) = Append(before, e)
    <3>1. IsStack(R) /\ IsStack(before) /\ S = Append(R \o before, e)
      BY <1>1
    <3>2. Len(S) = Len(R) + Len(before) + 1 /\ Len(R) \in Nat
      BY ONLY <3>1, StackOfTwo
    <3>3. SubSeq(S, 1, Len(R)) = R
      BY ONLY <3>1, StackOfTwo
    <3>4. SubSeq(S, Len(R) + 1, Len(R) + Len(before) + 1) = Append(before, e)
      BY ONLY <3>1, StackOfTwo, SMTT(40)
    <3> QED
      BY <3>2, <3>3, <3>4
  <2>2. Len(S) - n = Len(R) /\ Len(S) - n + 1 = Len(R) + 1 /\ Len(S) = Len(R) + Len(before) + 1
    BY <1>1, <2>1
  <2>3. T = Append(R, List(Append(before, e)))
    BY <2>1, <2>2
  <2>4. ReadsList(txt, i, k, Append(before, e))
    BY <1>1 DEF ReadsList
  <2>5. k <= k
    BY Between
  <2> QED
    BY <2>3, <2>4, <2>5
<1> HIDE DEF T
<1>2. DoesMore(txt, n, S, k, T, k)
  BY <1>1 DEF DoesMore
<1> QED
  BY <1>2 DEF T

\* After a comma one more element belongs to the list.
LEMMA MoreGoesOn ==
  ASSUME NEW txt \in Seq(STRING), NEW k \in Places(txt), NEW n \in Nat \ {0}, KindAt(txt, k) = ",",
         NEW S, NEW T, NEW m,
         Reaches(txt, <<Exp(0), With("more", <<Exp(0), n + 1>>)>>, S, k + 1, T, m)
  PROVE  DoesMore(txt, n, S, k, T, m)
<1>1. PICK S1, k1 : /\ Does(txt, Exp(0), S, k + 1, S1, k1)
                    /\ Does(txt, With("more", <<Exp(0), n + 1>>), S1, k1, T, m)
  BY Reaches2
<1>2. PICK f \in Reads(txt, k + 1, k1, 0) : k + 1 < k1 /\ S1 = Append(S, f)
  <2>1. Does(txt, Exp(0), S, k + 1, S1, k1)
    BY <1>1
  <2> QED
    BY ONLY <2>1, DoesExpItem
<1>3. DoesMore(txt, n + 1, S1, k1, T, m)
  <2> DEFINE x == With("more", <<Exp(0), n + 1>>)
  <2>1. x.call = "more" /\ x.arg[2] = n + 1
    BY DEF With
  <2>2. Does(txt, x, S1, k1, T, m)
    BY <1>1
  <2> HIDE DEF x
  <2>3. DoesMore(txt, x.arg[2], S1, k1, T, m)
    BY ONLY <2>1, <2>2, DoesIs
  <2> QED
    BY ONLY <2>1, <2>3
<1>4. k + 1 \in Places(txt) /\ k1 \in Places(txt) /\ m \in Places(txt)
  BY <1>1, DoesWithin
<1>5. k \in Nat /\ k1 \in Nat /\ m \in Nat
  BY <1>4, Between
<1> SUFFICES ASSUME NEW R, NEW before, NEW i \in Places(txt), NEW j \in Places(txt),
                    NEW e \in Reads(txt, j, k, 0), IsStack(R), IsStack(before), Len(before) = n - 1,
                    S = Append(R \o before, e), before \in Reads(txt, i, j, 8), i <= j, j < k
             PROVE  \E l : k <= m /\ ReadsList(txt, i, m, l) /\ T = Append(R, List(l))
  BY DEF DoesMore
<1> DEFINE longer == Append(before, e)
<1>6. longer \in Reads(txt, i, k + 1, 8)
  BY <1>4, ReadsComma
<1>7. IsStack(longer) /\ Len(longer) = (n + 1) - 1
  <2>1. IsStack(longer) /\ Len(longer) = Len(before) + 1
    BY ONLY IsStack(before), StackGrows
  <2> HIDE DEF longer
  <2> QED
    BY ONLY <2>1, Len(before) = n - 1, n \in Nat \ {0}
<1>8. S1 = Append(R \o longer, f)
  <2>1. S = R \o longer
    BY StackConcat
  <2> QED
    BY <1>2, <2>1
<1>9. i <= k + 1
  <2>1. i \in Nat /\ j \in Nat
    BY ONLY Between, txt \in Seq(STRING), i \in Places(txt), j \in Places(txt)
  <2> QED
    BY ONLY <1>5, <2>1, i <= j, j < k
<1> HIDE DEF longer
<1>10. \E l : k1 <= m /\ ReadsList(txt, i, m, l) /\ T = Append(R, List(l))
  BY <1>2, <1>3, <1>4, <1>6, <1>7, <1>8, <1>9 DEF DoesMore
<1>11. k1 <= m => k <= m
  <2>1. k + 1 < k1
    BY <1>2
  <2> QED
    BY ONLY <1>5, <2>1
<1> QED
  BY <1>10, <1>11

\* No elements, and some.
LEMMA ElementsNone ==
  ASSUME NEW txt \in Seq(STRING), NEW k \in Places(txt), NEW end, KindAt(txt, k) = end, NEW S, NEW T, NEW m,
         Reaches(txt, <<Tok(end)>>, Append(S, List(<<>>)), k, T, m)
  PROVE  DoesElements(txt, end, S, k, T, m)
<1>1. Does(txt, Tok(end), Append(S, List(<<>>)), k, T, m)
  BY Reaches1
<1>2. T = Append(S, List(<<>>)) /\ m = k + 1
  <2>1. DoesExpect(txt, end, Append(S, List(<<>>)), k, T, m)
    BY ONLY <1>1, DoesTok
  <2> QED
    BY <2>1 DEF DoesExpect
<1>3. k <= k /\ ReadsList(txt, k, k, <<>>)
  BY Between DEF ReadsList
<1> QED
  BY <1>2, <1>3 DEF DoesElements

\* The first element, those after commas, and the end token.
LEMMA ElementsSome ==
  ASSUME NEW txt \in Seq(STRING), NEW k \in Places(txt), NEW end, NEW S, IsStack(S), NEW T, NEW m,
         Reaches(txt, <<Exp(0), With("more", <<Exp(0), 1>>), Tok(end)>>, S, k, T, m)
  PROVE  DoesElements(txt, end, S, k, T, m)
<1>1. PICK S1, k1, S2, k2 : /\ Does(txt, Exp(0), S, k, S1, k1)
                            /\ Does(txt, With("more", <<Exp(0), 1>>), S1, k1, S2, k2)
                            /\ Does(txt, Tok(end), S2, k2, T, m)
  BY Reaches3
<1>2. PICK e \in Reads(txt, k, k1, 0) : k < k1 /\ S1 = Append(S, e)
  <2>1. Does(txt, Exp(0), S, k, S1, k1)
    BY <1>1
  <2> QED
    BY ONLY <2>1, DoesExpItem
<1>3. DoesMore(txt, 1, S1, k1, S2, k2)
  BY <1>1, DoesIs DEF With
<1>4. KindAt(txt, k2) = end /\ T = S2 /\ m = k2 + 1
  BY <1>1, DoesTok DEF DoesExpect
<1>5. k1 \in Places(txt) /\ k2 \in Places(txt)
  BY <1>1, DoesWithin
<1>6. k \in Nat /\ k1 \in Nat /\ k2 \in Nat /\ k <= k
  BY <1>5, Between
<1>7. IsStack(<<>>) /\ Len(<<>>) = 1 - 1 /\ S \o <<>> = S
  <2>1. PICK U : S \in Seq(U)
    BY DEF IsStack
  <2>2. <<>> \in Seq(U) /\ Len(<<>>) = 0 /\ S \o <<>> = S
    BY <2>1
  <2> QED
    BY <2>2 DEF IsStack
<1>8. <<>> \in Reads(txt, k, k, 8)
  BY ReadsNoComma
<1>9. PICK l : k1 <= k2 /\ ReadsList(txt, k, k2, l) /\ S2 = Append(S, List(l))
  <2>1. S1 = Append(S \o <<>>, e)
    BY <1>2, <1>7
  <2> QED
    BY <1>2, <1>3, <1>5, <1>6, <1>7, <1>8, <2>1 DEF DoesMore
<1>10. k <= k2
  BY <1>2, <1>6, <1>9
<1> QED
  BY <1>4, <1>5, <1>9, <1>10 DEF DoesElements
-------------------------------------------------------------------------------
\* Every token but the last has characters.
LEMMA TokenLength ==
  ASSUME NEW txt \in Seq(STRING), NEW p \in 1..(Len(txt) + 1), Match(txt, p).kind \notin {"eof", "bad"}
  PROVE  /\ Match(txt, p).start \in p..Len(txt)
         /\ End(Match(txt, p)) \in (Match(txt, p).start + 1)..(Len(txt) + 1)
<1> DEFINE start == SkipFrom(txt, p)
           rest  == SubSeq(txt, start, Len(txt))
           t     == Match(txt, p)
<1>1. Len(txt) \in Nat /\ start \in p..(Len(txt) + 1) /\ p \in Nat \ {0}
  BY SkipRight
<1>2. rest \in Seq(STRING) /\ Len(rest) \in Nat
  BY <1>1, SubSeqProperties
<1>3. t.start \in p..Len(txt)
  BY <1>1, MatchIsLongest DEF MatchesLongest
<1>4. t.len \in Nat \ {0}
  <2>1. CASE rest = <<>>
    BY <2>1, MatchIs
  <2>2. CASE rest # <<>> /\ NumberLength(rest) > 0
    <3>1. t.len = NumberLength(rest)
      BY <2>2 DEF Match, Token
    <3> QED
      BY <1>2, <2>2, <3>1, NumberLengthIs
  <2>3. CASE rest # <<>> /\ ~(NumberLength(rest) > 0)
    <3>1. t.kind = Scan(rest).kind /\ t.len = Scan(rest).len
      BY <2>3 DEF Match, Token
    <3>2. t.len \in Nat
      <4>1. Scan(rest).len \in 0..Len(rest)
        BY <1>2, ScanRight DEF Scanned
      <4> HIDE DEF rest, t
      <4> QED
        BY <1>2, <3>1, <4>1
    <3>3. t.len # 0
      <4>1. t.kind # "number"
        <5>1. Scan(rest).kind # "number"
          <6>1. KindRight(rest, Scan(rest))
            BY <1>2, ScanRight DEF Scanned
          <6>2. Scan(rest).len \in Nat
            BY <3>1, <3>2
          <6> DEFINE m == Scan(rest)
          <6> HIDE DEF m
          <6>3. m.len = 0 => m.kind = "bad"
            BY <6>1 DEF KindRight, m
          <6>4. m.len > 0 => m.kind \in {Table[x] : x \in DOMAIN Table} \cup {"ident"}
            BY <6>1 DEF KindRight, IsToken, m
          <6> QED
            BY <6>2, <6>3, <6>4, TableKinds DEF m
        <5> QED
          BY <3>1, <5>1
      <4> QED
        BY <4>1, MatchIsLongest DEF MatchesLongest
    <3> QED
      BY <3>2, <3>3
  <2> QED
    BY <2>1, <2>2, <2>3
<1>5. End(t) \in p..(Len(txt) + 1) /\ End(t) = t.start + t.len
  BY MatchWithin DEF End
<1> QED
  BY <1>1, <1>3, <1>4, <1>5

\* All tokens are what match returns.
LEMMA TokensMatch ==
  ASSUME NEW txt \in Seq(STRING), NEW k \in Places(txt)
  PROVE  \E p \in 1..(Len(txt) + 1) : AllTokens(txt)[k] = Match(txt, p)
<1> DEFINE ts == AllTokens(txt)
           Found(j) == \E p \in 1..(Len(txt) + 1) : ts[j] = Match(txt, p)
           T == {n \in Nat : n + 1 \in Places(txt) => Found(n + 1)}
<1>0. /\ ts[1] = Match(txt, 1) /\ \A j \in 1..Len(txt) : ts[j + 1] = Match(txt, End(ts[j]))
      /\ Places(txt) = 1..(Len(txt) + 1) /\ Len(txt) \in Nat
  BY AllTokensAre, PlacesAre
<1> HIDE DEF ts
<1>1. 0 \in T
  BY <1>0
<1>2. ASSUME NEW n \in Nat, n \in T PROVE n + 1 \in T
  <2> SUFFICES ASSUME (n + 1) + 1 \in Places(txt) PROVE Found((n + 1) + 1)
    OBVIOUS
  <2>1. n + 1 \in 1..Len(txt) /\ n + 1 \in Places(txt)
    BY <1>0
  <2>2. PICK p \in 1..(Len(txt) + 1) : ts[n + 1] = Match(txt, p)
    BY <1>2, <2>1
  <2>3. ts[(n + 1) + 1] = Match(txt, End(ts[n + 1]))
    BY <1>0, <2>1
  <2>4. End(ts[n + 1]) \in 1..(Len(txt) + 1)
    BY <1>0, <2>2, MatchWithin
  <2> QED
    BY <2>3, <2>4
<1>3. Nat \subseteq T
  <2> HIDE DEF T
  <2> QED
    BY <1>1, <1>2, Induction
<1>4. k - 1 \in Nat /\ (k - 1) + 1 = k
  BY <1>0
<1>5. Found(k)
  BY <1>3, <1>4
<1> QED
  BY <1>5 DEF ts

\* The parser stands at the token k of its text.
At(k) == k \in Places(text) /\ cur = AllTokens(text)[k] /\ k <= cur.start

\* Read ahead or not, the next token is the one that starts where the current one
\* ends.
LEMMA NextReads ==
  ASSUME AheadExact, ~thrown, NextToken
  PROVE  thrown' \/ (cur' = Match(text, End(cur)) /\ text' = text)
<1>1. CASE look # <<>>
  <2>1. look[1] = Match(text, End(cur))
    BY <1>1 DEF AheadExact
  <2> QED
    BY <1>1, <2>1 DEF NextToken
<1>2. CASE look = <<>>
  <2>1. pos = End(cur) /\ Lex /\ text' = text /\ cur' = IF thrown' THEN cur ELSE Lexed
    BY <1>2 DEF NextToken, AheadExact
  <2> QED
    BY <2>1 DEF Lexed
<1> QED
  BY <1>1, <1>2

\* The constructor of the lexer reads the first token.
LEMMA FirstToken ==
  ASSUME text \in Seq(STRING), AheadExact, ~thrown, NextToken, cur = Start
  PROVE  thrown' \/ (At(1)' /\ text' = text)
<1>1. End(cur) = 1
  BY DEF Start, Token, End
<1>2. thrown' \/ (cur' = Match(text, 1) /\ text' = text)
  BY <1>1, NextReads
<1>3. AllTokens(text)[1] = Match(text, 1) /\ 1 \in Places(text)
  BY AllTokensAre, PlacesAre
<1>4. 1 <= Match(text, 1).start
  <2>1. 1 \in 1..(Len(text) + 1)
    BY PlacesAre
  <2> QED
    BY <2>1, MatchIsLongest DEF MatchesLongest
<1> QED
  BY <1>2, <1>3, <1>4 DEF At

\* Reading a token goes from one token of the text to the next.
LEMMA NextAt ==
  ASSUME text \in Seq(STRING), AheadExact, ~thrown, NextToken, NEW k, At(k),
         cur.kind \notin {"eof", "bad"}
  PROVE  thrown' \/ (At(k + 1)' /\ text' = text)
<1>0. k \in Places(text) /\ cur = AllTokens(text)[k] /\ k <= cur.start
  BY DEF At
<1>1. PICK p \in 1..(Len(text) + 1) : cur = Match(text, p)
  BY <1>0, TokensMatch
<1>a. Len(text) \in Nat /\ Places(text) = 1..(Len(text) + 1)
  BY PlacesAre
<1>2. /\ cur.start \in p..Len(text) /\ End(cur) \in (cur.start + 1)..(Len(text) + 1)
  BY <1>1, TokenLength
<1>3. k \in 1..Len(text) /\ k + 1 \in Places(text)
  BY <1>0, <1>a, <1>1, <1>2
<1>4. AllTokens(text)[k + 1] = Match(text, End(cur))
  BY <1>0, <1>3, AllTokensAre
<1>5. End(cur) \in 1..(Len(text) + 1) /\ k + 1 <= End(cur)
  BY <1>0, <1>a, <1>1, <1>2, <1>3
<1>6. Match(text, End(cur)).start \in End(cur)..(Len(text) + 1)
  BY <1>5, MatchIsLongest DEF MatchesLongest
<1>7. k + 1 <= Match(text, End(cur)).start
  BY <1>3, <1>5, <1>6
<1> QED
  BY <1>3, <1>4, <1>7, NextReads DEF At
-------------------------------------------------------------------------------
\* The items of expressions.
IsExpItem(x) ==
  /\ x.call \in {"expect", "ident", "const", "scalarType", "base", "exp", "arguments", "operators",
                 "elements", "more", "make"}
  /\ x.call = "expect"   => x.arg \notin {"eof", "bad"}
  /\ x.call = "elements" => x.arg[1] = Exp(0) /\ x.arg[2] \notin {"eof", "bad"}
  /\ x.call = "more"     => x.arg[1] = Exp(0)
AllExp(items) == IsStack(items) /\ \A p \in DOMAIN items : IsExpItem(items[p])

\* What is left to do reads the one expression that is asked for.
Right(txt, T, m) ==
  \E e \in Reads(txt, 1, m, 0) : T = <<e>> /\ m \in Places(txt) /\ 1 < m /\ Ends(txt, m, 0)
Promise(k) == \A T, m : Reaches(text, todo, made, k, T, m) => Right(text, T, m)

\* Items of expressions before items of expressions.
LEMMA AllExpConcat ==
  ASSUME NEW a, AllExp(a), NEW b, AllExp(b)
  PROVE  AllExp(a \o b)
<1>1. PICK U : a \in Seq(U)
  BY DEF AllExp, IsStack
<1>2. PICK V : b \in Seq(V)
  BY DEF AllExp, IsStack
<1>3. a \in Seq(U \cup V) /\ b \in Seq(U \cup V)
  BY <1>1, <1>2
<1> DEFINE c == a \o b
<1>4. /\ c \in Seq(U \cup V) /\ Len(c) = Len(a) + Len(b)
      /\ \A i \in 1..(Len(a) + Len(b)) : c[i] = IF i <= Len(a) THEN a[i] ELSE b[i - Len(a)]
  BY <1>3, ConcatProperties
<1> HIDE DEF c
<1>5. ASSUME NEW i \in DOMAIN c PROVE IsExpItem(c[i])
  <2>1. i \in 1..(Len(a) + Len(b)) /\ Len(a) \in Nat /\ Len(b) \in Nat
    BY <1>3, <1>4
  <2>2. CASE i <= Len(a)
    <3>1. i \in DOMAIN a /\ c[i] = a[i]
      BY <1>3, <1>4, <2>1, <2>2
    <3> QED
      BY <3>1 DEF AllExp
  <2>3. CASE ~(i <= Len(a))
    <3>1. i - Len(a) \in DOMAIN b /\ c[i] = b[i - Len(a)]
      BY <1>3, <1>4, <2>1, <2>3
    <3> QED
      BY <3>1 DEF AllExp
  <2> QED
    BY <2>2, <2>3
<1> QED
  BY <1>4, <1>5 DEF AllExp, IsStack, c

\* The first item and the others.
LEMMA AllExpTail ==
  ASSUME NEW a, AllExp(a), a # <<>>
  PROVE  AllExp(Tail(a)) /\ IsExpItem(a[1])
<1>1. PICK U : a \in Seq(U)
  BY DEF AllExp, IsStack
<1>2. /\ Tail(a) \in Seq(U) /\ 1 \in DOMAIN a
      /\ \A p \in DOMAIN Tail(a) : p + 1 \in DOMAIN a /\ Tail(a)[p] = a[p + 1]
  BY <1>1
<1> QED
  BY <1>2 DEF AllExp, IsStack

\* The current token does not move left.
LEMMA ReachesWithin ==
  ASSUME NEW txt, NEW items, NEW S, NEW k \in Places(txt), NEW T, NEW m, Reaches(txt, items, S, k, T, m)
  PROVE  m \in Places(txt)
<1>1. PICK h : Chain(txt, h, items, S, k) /\ h[Len(items) + 1] = <<T, m>>
  BY DEF Reaches
<1>2. PICK U : items \in Seq(U)
  BY DEF Reaches, IsStack
<1> DEFINE n == Len(items)
<1>3. n \in Nat
  BY <1>2
<1>4. CASE n = 0
  BY <1>1, <1>4 DEF Chain
<1>5. CASE n # 0
  <2>1. n \in 1..n
    BY <1>3, <1>5
  <2> HIDE DEF n
  <2>2. Does(txt, items[n], h[n][1], h[n][2], h[n + 1][1], h[n + 1][2]) /\ h[n + 1][2] = m
    BY <1>1, <2>1 DEF Chain, n
  <2> QED
    BY <2>2, DoesWithin
<1> QED
  BY <1>4, <1>5

\* An item may be replaced by items that do what it does.
LEMMA Replaced ==
  ASSUME todo # <<>>, AllExp(todo), NEW k \in Places(text), Promise(k), text' = text,
         NEW items, AllExp(items), Instead(items), NEW j,
         \A T, m : Reaches(text, items, made', j, T, m) => Does(text, todo[1], made, k, T, m)
  PROVE  AllExp(todo)' /\ Promise(j)'
<1>1. AllExp(Tail(todo))
  BY AllExpTail
<1>2. todo' = items \o Tail(todo)
  BY DEF Instead
<1>3. AllExp(todo')
  BY <1>1, <1>2, AllExpConcat
<1>4. ASSUME NEW T, NEW m, Reaches(text, todo', made', j, T, m)
      PROVE  Right(text, T, m)
  <2>1. IsStack(items) /\ IsStack(Tail(todo)) /\ IsStack(todo)
    BY <1>1 DEF AllExp
  <2>2. PICK R, i : Reaches(text, items, made', j, R, i) /\ Reaches(text, Tail(todo), R, i, T, m)
    <3>1. Reaches(text, items \o Tail(todo), made', j, T, m)
      BY <1>2, <1>4
    <3> QED
      BY ONLY <2>1, <3>1, ReachesSplit
  <2>3. Does(text, todo[1], made, k, R, i)
    BY <2>2
  <2>4. Reaches(text, todo, made, k, T, m)
    BY ONLY <2>1, <2>2, <2>3, todo # <<>>, ReachesMore
  <2> QED
    BY <2>4 DEF Promise
<1> QED
  BY <1>3, <1>4 DEF Promise
-------------------------------------------------------------------------------
\* The bodies of functions are made of items of expressions.
LEMMA ExpItems ==
  /\ \A c : c \notin {"eof", "bad"} => IsExpItem(Tok(c))
  /\ \A f \in {"ident", "const", "scalarType", "base", "arguments"} : IsExpItem(Call(f))
  /\ \A p : IsExpItem(Exp(p)) /\ IsExpItem(With("operators", p))
  /\ \A node, n : IsExpItem(Make(node, n))
  /\ \A n : IsExpItem(With("more", <<Exp(0), n>>))
  /\ \A c : c \notin {"eof", "bad"} => IsExpItem(With("elements", <<Exp(0), c>>))
<1>1. \A c : c \notin {"eof", "bad"} => IsExpItem(Tok(c))
  BY DEF IsExpItem, Tok
<1>2. \A f \in {"ident", "const", "scalarType", "base", "arguments"} : IsExpItem(Call(f))
  BY DEF IsExpItem, Call
<1>3. \A p : IsExpItem(Exp(p)) /\ IsExpItem(With("operators", p))
  BY DEF IsExpItem, Exp, With
<1>4. \A node, n : IsExpItem(Make(node, n))
  BY DEF IsExpItem, Make
<1>5. \A n : IsExpItem(With("more", <<Exp(0), n>>))
  <2> SUFFICES ASSUME NEW n PROVE IsExpItem(With("more", <<Exp(0), n>>))
    OBVIOUS
  <2>1. With("more", <<Exp(0), n>>).call = "more" /\ With("more", <<Exp(0), n>>).arg[1] = Exp(0)
    BY DEF With
  <2> QED
    BY <2>1 DEF IsExpItem
<1>6. \A c : c \notin {"eof", "bad"} => IsExpItem(With("elements", <<Exp(0), c>>))
  <2> SUFFICES ASSUME NEW c, c \notin {"eof", "bad"} PROVE IsExpItem(With("elements", <<Exp(0), c>>))
    OBVIOUS
  <2> DEFINE x == With("elements", <<Exp(0), c>>)
  <2>1. x.call = "elements" /\ x.arg[1] = Exp(0) /\ x.arg[2] = c
    BY DEF With
  <2> QED
    BY <2>1 DEF IsExpItem
<1> QED
  BY <1>1, <1>2, <1>3, <1>4, <1>5, <1>6

\* No items are items of expressions.
LEMMA AllExpNone == AllExp(<<>>)
<1>1. <<>> \in Seq({}) /\ DOMAIN <<>> = {}
  OBVIOUS
<1> QED
  BY <1>1 DEF AllExp, IsStack

\* One item.
LEMMA AllExpOne ==
  ASSUME NEW a, IsExpItem(a)
  PROVE  AllExp(<<a>>)
<1>1. <<a>> \in Seq({a}) /\ \A p \in DOMAIN <<a>> : <<a>>[p] = a
  OBVIOUS
<1> QED
  BY <1>1 DEF AllExp, IsStack

\* Two items.
LEMMA AllExpTwo ==
  ASSUME NEW a, NEW b, IsExpItem(a), IsExpItem(b)
  PROVE  AllExp(<<a, b>>)
<1>1. <<a, b>> \in Seq({a, b}) /\ \A p \in DOMAIN <<a, b>> : <<a, b>>[p] \in {a, b}
  OBVIOUS
<1> QED
  BY <1>1 DEF AllExp, IsStack

\* Three items.
LEMMA AllExpThree ==
  ASSUME NEW a, NEW b, NEW c, IsExpItem(a), IsExpItem(b), IsExpItem(c)
  PROVE  AllExp(<<a, b, c>>)
<1>1. <<a, b, c>> \in Seq({a, b, c}) /\ \A p \in DOMAIN <<a, b, c>> : <<a, b, c>>[p] \in {a, b, c}
  OBVIOUS
<1> QED
  BY <1>1 DEF AllExp, IsStack

\* Five items.
LEMMA AllExpFive ==
  ASSUME NEW a, NEW b, NEW c, NEW d, NEW e,
         IsExpItem(a), IsExpItem(b), IsExpItem(c), IsExpItem(d), IsExpItem(e)
  PROVE  AllExp(<<a, b, c, d, e>>)
<1>1. /\ <<a, b, c, d, e>> \in Seq({a, b, c, d, e})
      /\ \A p \in DOMAIN <<a, b, c, d, e>> : <<a, b, c, d, e>>[p] \in {a, b, c, d, e}
  OBVIOUS
<1> QED
  BY <1>1 DEF AllExp, IsStack

\* Six items.
LEMMA AllExpSix ==
  ASSUME NEW a, NEW b, NEW c, NEW d, NEW e, NEW f,
         IsExpItem(a), IsExpItem(b), IsExpItem(c), IsExpItem(d), IsExpItem(e), IsExpItem(f)
  PROVE  AllExp(<<a, b, c, d, e, f>>)
<1>1. /\ <<a, b, c, d, e, f>> \in Seq({a, b, c, d, e, f})
      /\ \A p \in DOMAIN <<a, b, c, d, e, f>> : <<a, b, c, d, e, f>>[p] \in {a, b, c, d, e, f}
  OBVIOUS
<1> QED
  BY <1>1 DEF AllExp, IsStack

\* The bodies that the code puts together of two parts.
LEMMA TuplesJoined ==
  /\ \A a, b, c : <<a, b>> \o <<c>> = <<a, b, c>>
  /\ \A a, b, c, d, e : <<a, b, c, d>> \o <<e>> = <<a, b, c, d, e>>
<1>1. \A a, b, c : <<a, b>> \o <<c>> = <<a, b, c>>
  <2> SUFFICES ASSUME NEW a, NEW b, NEW c PROVE <<a, b>> \o <<c>> = <<a, b, c>>
    OBVIOUS
  <2> DEFINE q == <<a, b>> \o <<c>>
             t == <<a, b, c>>
  <2>1. /\ <<a, b>> \in Seq({a, b, c}) /\ <<c>> \in Seq({a, b, c}) /\ Len(<<a, b>>) = 2 /\ Len(<<c>>) = 1
        /\ t \in Seq({a, b, c}) /\ Len(t) = 3 /\ t[1] = a /\ t[2] = b /\ t[3] = c
    OBVIOUS
  <2>2. /\ q \in Seq({a, b, c}) /\ Len(q) = 3 /\ q[1] = a /\ q[2] = b /\ q[3] = c
    BY <2>1
  <2>3. \A p \in 1..3 : q[p] = t[p]
    <3> HIDE DEF q, t
    <3> QED
      BY <2>1, <2>2
  <2> HIDE DEF q, t
  <2>4. q = t
    BY <2>1, <2>2, <2>3, SeqEqual
  <2> QED
    BY <2>4 DEF q, t
<1>2. \A a, b, c, d, e : <<a, b, c, d>> \o <<e>> = <<a, b, c, d, e>>
  <2> SUFFICES ASSUME NEW a, NEW b, NEW c, NEW d, NEW e PROVE <<a, b, c, d>> \o <<e>> = <<a, b, c, d, e>>
    OBVIOUS
  <2> DEFINE q == <<a, b, c, d>> \o <<e>>
             t == <<a, b, c, d, e>>
  <2>1. /\ <<a, b, c, d>> \in Seq({a, b, c, d, e}) /\ <<e>> \in Seq({a, b, c, d, e})
        /\ Len(<<a, b, c, d>>) = 4 /\ Len(<<e>>) = 1
        /\ t \in Seq({a, b, c, d, e}) /\ Len(t) = 5
        /\ t[1] = a /\ t[2] = b /\ t[3] = c /\ t[4] = d /\ t[5] = e
    OBVIOUS
  <2>2. /\ q \in Seq({a, b, c, d, e}) /\ Len(q) = 5
        /\ q[1] = a /\ q[2] = b /\ q[3] = c /\ q[4] = d /\ q[5] = e
    BY <2>1
  <2>3. \A p \in 1..5 : q[p] = t[p]
    <3> HIDE DEF q, t
    <3> QED
      BY <2>1, <2>2
  <2> HIDE DEF q, t
  <2>4. q = t
    BY <2>1, <2>2, <2>3, SeqEqual
  <2> QED
    BY <2>4 DEF q, t
<1> QED
  BY <1>1, <1>2

\* The parser reads: its next steps lead to the one expression.
ReadsOn == \E k : At(k) /\ AllExp(todo) /\ Promise(k)

\* A step that reads no token and replaces the first item.
LEMMA SameToken ==
  ASSUME todo # <<>>, AllExp(todo), NEW k, At(k), Promise(k), UNCHANGED lexVars,
         NEW items, AllExp(items), Instead(items),
         \A T, m : Reaches(text, items, made', k, T, m) => Does(text, todo[1], made, k, T, m)
  PROVE  ReadsOn'
<1>1. text' = text /\ cur' = cur
  BY DEF lexVars
<1>2. At(k)' /\ k \in Places(text)
  BY <1>1 DEF At
<1>3. AllExp(todo)' /\ Promise(k)'
  BY <1>1, <1>2, Replaced
<1> QED
  BY <1>2, <1>3 DEF ReadsOn

\* A step that reads the current token and replaces the first item.
LEMMA NewToken ==
  ASSUME todo # <<>>, AllExp(todo), NEW k, At(k), Promise(k), text \in Seq(STRING), AheadExact,
         ~thrown, NextToken, cur.kind \notin {"eof", "bad"}, NEW items, AllExp(items), Instead(items),
         \A T, m : Reaches(text, items, made', k + 1, T, m) => Does(text, todo[1], made, k, T, m)
  PROVE  (thrown \/ ReadsOn)'
<1> SUFFICES ASSUME ~thrown' PROVE ReadsOn'
  OBVIOUS
<1>1. At(k + 1)' /\ text' = text
  BY NextAt
<1>2. k \in Places(text)
  BY DEF At
<1>3. AllExp(todo)' /\ Promise(k + 1)'
  BY <1>1, <1>2, Replaced
<1> QED
  BY <1>1, <1>3 DEF ReadsOn

\* An item that is done when it has read its token.
LEMMA Taken ==
  ASSUME todo # <<>>, AllExp(todo), NEW k, At(k), Promise(k), text \in Seq(STRING), AheadExact,
         ~thrown, NextToken, cur.kind \notin {"eof", "bad"}, Instead(<<>>),
         k + 1 \in Places(text) => Does(text, todo[1], made, k, made', k + 1)
  PROVE  (thrown \/ ReadsOn)'
<1> SUFFICES ASSUME ~thrown' PROVE ReadsOn'
  OBVIOUS
<1>1. At(k + 1)' /\ text' = text
  BY NextAt
<1>2. k \in Places(text) /\ k + 1 \in Places(text)
  BY <1>1 DEF At
<1>3. ASSUME NEW T, NEW m, Reaches(text, <<>>, made', k + 1, T, m)
      PROVE  Does(text, todo[1], made, k, T, m)
  BY <1>2, <1>3, ReachesNone
<1>4. AllExp(todo)' /\ Promise(k + 1)'
  BY <1>1, <1>2, <1>3, AllExpNone, Replaced
<1> QED
  BY <1>1, <1>4 DEF ReadsOn
-------------------------------------------------------------------------------
\* What holds before every step of an expression.
LEMMA TokenHere ==
  ASSUME NEW k, At(k)
  PROVE  /\ k \in Places(text) /\ KindAt(text, k) = cur.kind /\ TextAt(text, k) = TextOf(text, cur)
BY DEF At, KindAt, TextAt

\* No operator is the end of the text or an error.
LEMMA BinaryRead == \A kind : IsBinary(kind) \/ IsUnary(kind) => kind \notin {"eof", "bad"}
BY DEF IsBinary, BinaryPrec, IsUnary, UnaryPrec

\* A function goes on with items that do what it does.
LEMMA GoesOnReading ==
  ASSUME todo # <<>>, AllExp(todo), NEW k, At(k), Promise(k), NEW items, AllExp(items), Continue(items),
         \A T : \A m \in Places(text) :
           Reaches(text, items, made', k, T, m) => Does(text, todo[1], made, k, T, m)
  PROVE  ReadsOn'
<1>1. \A T, m : Reaches(text, items, made', k, T, m) => Does(text, todo[1], made, k, T, m)
  BY ReachesWithin DEF At
<1> QED
  BY <1>1, SameToken DEF Continue

\* A function reads the current token and goes on with items.
LEMMA ReadsOneMore ==
  ASSUME todo # <<>>, AllExp(todo), NEW k, At(k), Promise(k), text \in Seq(STRING), AheadExact,
         ~thrown, cur.kind \notin {"eof", "bad"}, NEW items, AllExp(items), items # <<>>, Consume(items),
         \A T : \A m \in Places(text) :
           Reaches(text, items, made', k + 1, T, m) => Does(text, todo[1], made, k, T, m)
  PROVE  (thrown \/ ReadsOn)'
<1>1. ASSUME NEW T, NEW m, Reaches(text, items, made', k + 1, T, m)
      PROVE  Does(text, todo[1], made, k, T, m)
  <2>1. k + 1 \in Places(text)
    BY <1>1, ReachesFirst, DoesWithin
  <2> QED
    BY <1>1, <2>1, ReachesWithin
<1> QED
  BY <1>1, NewToken DEF Consume

\* Items that read a token.
LEMMA ReadsExpect ==
  ASSUME text \in Seq(STRING), AheadExact, todo # <<>>, AllExp(todo), NEW k, At(k), Promise(k),
         ExpectToken
  PROVE  (thrown \/ ReadsOn)'
<1>1. todo[1].call = "expect" /\ ~thrown /\ Expect(todo[1].arg) /\ Instead(<<>>) /\ made' = made
  BY DEF ExpectToken, Calls, Running, Arg
<1>2. todo[1].arg \notin {"eof", "bad"}
  BY <1>1, AllExpTail DEF IsExpItem
<1>3. CASE ReportError
  BY <1>3 DEF ReportError
<1>4. CASE NextToken /\ cur.kind = todo[1].arg
  <2>1. KindAt(text, k) = todo[1].arg /\ k \in Places(text)
    BY <1>4, TokenHere
  <2>2. k + 1 \in Places(text) => Does(text, todo[1], made, k, made', k + 1)
    BY <1>1, <2>1 DEF Does, DoesExpect
  <2> QED
    BY <1>1, <1>2, <1>4, <2>2, Taken
<1> QED
  BY <1>1, <1>3, <1>4 DEF Expect

\* An identifier makes its name.
LEMMA ReadsIdent ==
  ASSUME text \in Seq(STRING), AheadExact, todo # <<>>, AllExp(todo), NEW k, At(k), Promise(k),
         ParseIdent
  PROVE  (thrown \/ ReadsOn)'
<1>1. todo[1].call = "ident" /\ ~thrown /\ Expect("ident") /\ Instead(<<>>)
      /\ made' = Append(made, Ident(TextOf(text, cur)))
  BY DEF ParseIdent, Calls, Running, Push
<1>3. CASE ReportError
  BY <1>3 DEF ReportError
<1>4. CASE NextToken /\ cur.kind = "ident"
  <2>2. k + 1 \in Places(text) => Does(text, todo[1], made, k, made', k + 1)
    BY <1>1, <1>4, TokenHere DEF Does, DoesRead
  <2> QED
    BY <1>1, <1>4, <2>2, Taken
<1> QED
  BY <1>1, <1>3, <1>4 DEF Expect

\* A number makes a constant.
LEMMA ReadsConst ==
  ASSUME text \in Seq(STRING), AheadExact, todo # <<>>, AllExp(todo), NEW k, At(k), Promise(k),
         ParseConst
  PROVE  (thrown \/ ReadsOn)'
<1>1. todo[1].call = "const" /\ ~thrown
  BY DEF ParseConst, Calls, Running
<1>2. \/ ReportError
      \/ /\ NextToken /\ cur.kind = "number" /\ TextOf(text, cur) \notin OutOfRange
         /\ Instead(<<>>) /\ made' = Append(made, Number(TextOf(text, cur)))
  BY DEF ParseConst, Push, Number, Expect
<1>3. CASE ReportError
  BY <1>3 DEF ReportError
<1>4. CASE ~ReportError
  <2>1. k + 1 \in Places(text) => Does(text, todo[1], made, k, made', k + 1)
    BY <1>1, <1>2, <1>4, TokenHere DEF Does, DoesRead, DoesNumber
  <2> QED
    BY <1>1, <1>2, <1>4, <2>1, Taken
<1> QED
  BY <1>3, <1>4

\* A type makes a leaf.
LEMMA ReadsScalarType ==
  ASSUME text \in Seq(STRING), AheadExact, todo # <<>>, AllExp(todo), NEW k, At(k), Promise(k),
         ParseScalarType
  PROVE  (thrown \/ ReadsOn)'
<1>1. todo[1].call = "scalarType" /\ ~thrown
  BY DEF ParseScalarType, Calls, Running
<1>3. CASE ReportError
  BY <1>3 DEF ReportError
<1>4. CASE cur.kind \in ScalarTypes /\ NextToken /\ Instead(<<>>) /\ made' = Append(made, Leaf(cur.kind))
  <2>1. cur.kind \notin {"eof", "bad"}
    BY <1>4 DEF ScalarTypes
  <2>2. k + 1 \in Places(text) => Does(text, todo[1], made, k, made', k + 1)
    BY <1>1, <1>4, TokenHere DEF Does, DoesRead
  <2> QED
    BY <1>1, <1>4, <2>1, <2>2, Taken
<1> QED
  BY <1>1, <1>3, <1>4 DEF ParseScalarType, Consume, Push

\* The functions for operands.
LEMMA ReadsBaseExp ==
  ASSUME text \in Seq(STRING), AheadExact, todo # <<>>, AllExp(todo), NEW k, At(k), Promise(k),
         IsStack(made), ParseBaseExp
  PROVE  (thrown \/ ReadsOn)'
<1>1. todo[1].call = "base" /\ ~thrown /\ made' = made
  BY DEF ParseBaseExp, Calls, Running
<1>2. k \in Places(text) /\ KindAt(text, k) = cur.kind
  BY TokenHere
<1>3. \A T : \A m \in Places(text) : DoesBase(text, made, k, T, m) => Does(text, todo[1], made, k, T, m)
  BY <1>1, <1>2 DEF Does
<1>4. ASSUME NEW items, AllExp(items), Continue(items),
             \A T, m : Reaches(text, items, made, k, T, m) => DoesBase(text, made, k, T, m)
      PROVE  ReadsOn'
  BY <1>1, <1>3, <1>4, GoesOnReading
<1>5. ASSUME NEW items, AllExp(items), items # <<>>, Consume(items), cur.kind \notin {"eof", "bad"},
             \A T, m : Reaches(text, items, made, k + 1, T, m) => DoesBase(text, made, k, T, m)
      PROVE  (thrown \/ ReadsOn)'
  BY <1>1, <1>3, <1>5, ReadsOneMore
<1>a. CASE cur.kind = "number" /\ Continue(<<Call("const")>>)
  <2>1. AllExp(<<Call("const")>>)
    BY ExpItems, AllExpOne
  <2> QED
    BY <1>a, <1>2, <1>4, <2>1, BaseOfConst
<1>b. CASE cur.kind = "(" /\ Consume(<<Exp(0), Tok(")")>>)
  <2>1. AllExp(<<Exp(0), Tok(")")>>) /\ <<Exp(0), Tok(")")>> # <<>>
    BY ExpItems, AllExpTwo
  <2>2. \A T, m : Reaches(text, <<Exp(0), Tok(")")>>, made, k + 1, T, m) => DoesBase(text, made, k, T, m)
    BY <1>b, <1>2, BaseOfParens
  <2> QED
    BY <1>b, <1>5, <2>1, <2>2
<1>c. CASE Continue(<<Call("scalarType"), Tok("("), Exp(0), Tok(")"), Make("cast", 2)>>)
  <2> DEFINE items == <<Call("scalarType"), Tok("("), Exp(0), Tok(")"), Make("cast", 2)>>
  <2>1. AllExp(items)
    BY ExpItems, AllExpFive
  <2>2. \A T, m : Reaches(text, items, made, k, T, m) => DoesBase(text, made, k, T, m)
    BY <1>2, BaseOfCast
  <2> HIDE DEF items
  <2> QED
    BY <1>c, <1>4, <2>1, <2>2 DEF items
<1>d. CASE /\ cur.kind \in {"min", "max"}
           /\ Consume(<<Tok("("), Exp(0), Tok(","), Exp(0), Tok(")"), Make(cur.kind, 2)>>)
  <2> DEFINE items == <<Tok("("), Exp(0), Tok(","), Exp(0), Tok(")"), Make(cur.kind, 2)>>
  <2>1. AllExp(items) /\ items # <<>>
    <3>1. \A c, e : IsExpItem(c) /\ IsExpItem(e) => AllExp(<<Tok("("), Exp(0), c, Exp(0), Tok(")"), e>>)
      BY ExpItems, AllExpSix
    <3>2. IsExpItem(Tok(",")) /\ IsExpItem(Make(cur.kind, 2))
      BY ExpItems
    <3> QED
      BY <3>1, <3>2, Zenon
  <2>2. \A T, m : Reaches(text, items, made, k + 1, T, m) => DoesBase(text, made, k, T, m)
    BY <1>d, <1>2, BaseOfMinMax, Zenon
  <2>3. cur.kind \notin {"eof", "bad"} /\ Consume(items)
    BY <1>d, Zenon
  <2> HIDE DEF items
  <2> QED
    BY ONLY <1>5, <2>1, <2>2, <2>3
<1>e. CASE Continue(<<Call("ident"), Call("arguments")>>)
  <2>1. AllExp(<<Call("ident"), Call("arguments")>>)
    BY ExpItems, AllExpTwo
  <2> QED
    BY <1>e, <1>2, <1>4, <2>1, BaseOfIdent
<1> QED
  BY <1>a, <1>b, <1>c, <1>d, <1>e, Zenon DEF ParseBaseExp
-------------------------------------------------------------------------------
\* The end of parseBaseExp.
LEMMA ReadsArguments ==
  ASSUME text \in Seq(STRING), AheadExact, todo # <<>>, AllExp(todo), NEW k, At(k), Promise(k),
         ParseArguments
  PROVE  (thrown \/ ReadsOn)'
<1>1. todo[1].call = "arguments" /\ ~thrown /\ made' = made
  BY DEF ParseArguments, Calls, Running
<1>2. k \in Places(text) /\ KindAt(text, k) = cur.kind
  BY TokenHere
<1>3. \A T : \A m \in Places(text) : DoesArguments(text, made, k, T, m) => Does(text, todo[1], made, k, T, m)
  BY <1>1, <1>2 DEF Does
<1>4. CASE cur.kind = "("
  <2> DEFINE items == <<Tok("("), With("elements", <<Exp(0), ")">>), Make("apply", 2)>>
  <2>1. AllExp(items)
    BY ExpItems, AllExpThree
  <2>2. Continue(items)
    BY <1>4, TuplesJoined DEF ParseArguments, ListOf
  <2>3. \A T, m : Reaches(text, items, made, k, T, m) => DoesArguments(text, made, k, T, m)
    BY <1>2, <1>4, ArgumentsSome
  <2> HIDE DEF items
  <2> QED
    BY <1>1, <1>3, <2>1, <2>2, <2>3, GoesOnReading
<1>5. CASE cur.kind # "("
  <2>1. Continue(<<>>)
    BY <1>5 DEF ParseArguments
  <2>2. \A T, m : Reaches(text, <<>>, made, k, T, m) => DoesArguments(text, made, k, T, m)
    BY <1>2, <1>5, ReachesNone, ArgumentsNone
  <2> QED
    BY <1>1, <1>3, <2>1, <2>2, AllExpNone, GoesOnReading
<1> QED
  BY <1>4, <1>5

\* parseExp up to its loop.
LEMMA ReadsExp ==
  ASSUME text \in Seq(STRING), AheadExact, todo # <<>>, AllExp(todo), NEW k, At(k), Promise(k),
         IsStack(made), IsItem(todo[1]), ParseExp
  PROVE  (thrown \/ ReadsOn)'
<1> DEFINE p == Arg
<1>1. todo[1].call = "exp" /\ ~thrown /\ made' = made /\ p \in 0..7 /\ p = todo[1].arg
  BY DEF ParseExp, Calls, Running, IsItem, Arg
<1>2. k \in Places(text) /\ KindAt(text, k) = cur.kind
  BY TokenHere
<1>3. \A T : \A m \in Places(text) : DoesExp(text, p, made, k, T, m) => Does(text, todo[1], made, k, T, m)
  BY <1>1, <1>2 DEF Does
<1>4. CASE IsUnary(cur.kind)
  <2> DEFINE items == <<Exp(UnaryPrec[cur.kind]), Make(cur.kind, 1), With("operators", p)>>
  <2>1. AllExp(items) /\ items # <<>>
    BY ExpItems, AllExpThree
  <2>2. Consume(items) /\ cur.kind \notin {"eof", "bad"}
    BY <1>4, BinaryRead DEF ParseExp
  <2>3. \A T, m : Reaches(text, items, made, k + 1, T, m) => DoesExp(text, p, made, k, T, m)
    BY <1>1, <1>2, <1>4, ExpOfSign
  <2> HIDE DEF items, p
  <2> QED
    BY <1>1, <1>3, <2>1, <2>2, <2>3, ReadsOneMore
<1>5. CASE ~IsUnary(cur.kind)
  <2> DEFINE items == <<Call("base"), With("operators", p)>>
  <2>1. AllExp(items)
    BY ExpItems, AllExpTwo
  <2>2. Continue(items)
    BY <1>5 DEF ParseExp
  <2>3. \A T, m : Reaches(text, items, made, k, T, m) => DoesExp(text, p, made, k, T, m)
    BY <1>1, <1>2, ExpOfBase
  <2> HIDE DEF items, p
  <2> QED
    BY <1>1, <1>3, <2>1, <2>2, <2>3, GoesOnReading
<1> QED
  BY <1>4, <1>5

\* One turn of the loop of parseExp.
LEMMA ReadsOperators ==
  ASSUME text \in Seq(STRING), AheadExact, todo # <<>>, AllExp(todo), NEW k, At(k), Promise(k),
         IsItem(todo[1]), ParseOperators
  PROVE  (thrown \/ ReadsOn)'
<1> DEFINE p == Arg
           op == cur.kind
<1>1. todo[1].call = "operators" /\ ~thrown /\ made' = made /\ p \in 0..7 /\ p = todo[1].arg
  BY DEF ParseOperators, Calls, Running, IsItem, Arg
<1>2. k \in Places(text) /\ KindAt(text, k) = op
  BY TokenHere
<1>3. \A T : \A m \in Places(text) :
        DoesOperators(text, p, made, k, T, m) => Does(text, todo[1], made, k, T, m)
  BY <1>1, <1>2 DEF Does
<1>4. CASE ~IsBinary(op) \/ BinaryPrec[op] <= p
  <2>1. Continue(<<>>)
    BY <1>4 DEF ParseOperators
  <2>2. \A T, m : Reaches(text, <<>>, made, k, T, m) => DoesOperators(text, p, made, k, T, m)
    <3>1. DoesOperators(text, p, made, k, made, k)
      BY <1>1, <1>2, <1>4, OperatorsNone
    <3> QED
      BY <3>1, ReachesNone
  <2> HIDE DEF p
  <2> QED
    BY <1>1, <1>3, <2>1, <2>2, AllExpNone, GoesOnReading
<1>5. ASSUME ~(~IsBinary(op) \/ BinaryPrec[op] <= p)
      PROVE  op \notin {"eof", "bad"} /\ IsBinary(op) /\ BinaryPrec[op] \in 1..6 /\ BinaryPrec[op] > p
  <2>1. IsBinary(op) /\ ~(BinaryPrec[op] <= p)
    BY <1>5
  <2>2. BinaryPrec[op] \in 1..6
    BY <2>1, PrecOf
  <2> QED
    BY <1>1, <2>1, <2>2, BinaryRead
<1>6. CASE ~(~IsBinary(op) \/ BinaryPrec[op] <= p) /\ op = "?"
  <2> DEFINE items == <<Exp(0), Tok(":"), Exp(0), Make("?", 3), With("operators", p)>>
  <2>1. AllExp(items) /\ items # <<>>
    BY ExpItems, AllExpFive
  <2>2. BinaryPrec["?"] = 1 /\ IsRightAssociative("?")
    BY DEF BinaryPrec, IsRightAssociative
  <2>3. Consume(<<Exp(0), Tok(":"), Exp(0), Make("?", 3)>> \o <<With("operators", p)>>)
    <3>1. 1 - 1 = 0
      OBVIOUS
    <3> QED
      BY <1>6, <2>2, <3>1 DEF ParseOperators
  <2>4. Consume(items)
    BY <2>3, TuplesJoined
  <2>5. p = 0
    BY <1>1, <1>5, <1>6, <2>2
  <2>6. \A T, m : Reaches(text, items, made, k + 1, T, m) => DoesOperators(text, p, made, k, T, m)
    BY <1>2, <1>6, <2>5, OperatorsTernary
  <2> HIDE DEF items, p
  <2> QED
    BY <1>1, <1>3, <1>5, <1>6, <2>1, <2>4, <2>6, ReadsOneMore
<1>7. CASE ~(~IsBinary(op) \/ BinaryPrec[op] <= p) /\ op # "?"
  <2> DEFINE q == BinaryPrec[op]
             items == <<Exp(q), Make(op, 2), With("operators", p)>>
  <2>1. AllExp(items) /\ items # <<>>
    BY ExpItems, AllExpThree
  <2>2. ~IsRightAssociative(op)
    BY <1>7 DEF IsRightAssociative
  <2>3. Consume(<<Exp(q), Make(op, 2)>> \o <<With("operators", p)>>)
    BY <1>7, <2>2 DEF ParseOperators
  <2>4. Consume(items)
    BY <2>3, TuplesJoined
  <2>6. \A T, m : Reaches(text, items, made, k + 1, T, m) => DoesOperators(text, p, made, k, T, m)
    BY <1>1, <1>2, <1>5, <1>7, OperatorsBinary
  <2> HIDE DEF items, p, q
  <2> QED
    BY <1>1, <1>3, <1>5, <1>7, <2>1, <2>4, <2>6, ReadsOneMore
<1> QED
  BY <1>4, <1>6, <1>7
-------------------------------------------------------------------------------
\* parseList after its begin token.
LEMMA ReadsElements ==
  ASSUME text \in Seq(STRING), AheadExact, todo # <<>>, AllExp(todo), NEW k, At(k), Promise(k),
         IsStack(made), ParseElements
  PROVE  ReadsOn'
<1> DEFINE end == Arg[2]
<1>1. todo[1].call = "elements" /\ end = todo[1].arg[2] /\ Arg[1] = Exp(0) /\ end \notin {"eof", "bad"}
  BY AllExpTail DEF ParseElements, Calls, Running, Arg, IsExpItem
<1>2. k \in Places(text) /\ KindAt(text, k) = cur.kind
  BY TokenHere
<1>3. \A T : \A m \in Places(text) :
        DoesElements(text, end, made, k, T, m) => Does(text, todo[1], made, k, T, m)
  BY <1>1, <1>2 DEF Does
<1>4. CASE cur.kind = end
  <2> DEFINE items == <<Tok(end)>>
  <2>1. AllExp(items)
    BY <1>1, ExpItems, AllExpOne
  <2>2. Continue(items) /\ made' = Append(made, List(<<>>))
    BY <1>4 DEF ParseElements, Push
  <2>3. \A T, m : Reaches(text, items, made', k, T, m) => DoesElements(text, end, made, k, T, m)
    BY <1>2, <1>4, <2>2, ElementsNone
  <2> HIDE DEF items, end
  <2> QED
    BY <1>3, <2>1, <2>2, <2>3, GoesOnReading
<1>5. CASE cur.kind # end
  <2> DEFINE items == <<Exp(0), With("more", <<Exp(0), 1>>), Tok(end)>>
  <2>1. AllExp(items)
    BY <1>1, ExpItems, AllExpThree
  <2>2. Continue(NonEmptyList(Exp(0)) \o <<Tok(end)>>) /\ made' = made
    BY <1>1, <1>5 DEF ParseElements
  <2>3. Continue(items)
    BY <2>2, TuplesJoined DEF NonEmptyList
  <2>4. \A T, m : Reaches(text, items, made, k, T, m) => DoesElements(text, end, made, k, T, m)
    BY <1>2, ElementsSome
  <2> HIDE DEF items, end
  <2> QED
    BY <1>3, <2>1, <2>2, <2>3, <2>4, GoesOnReading
<1> QED
  BY <1>4, <1>5

\* The loop over the commas of a list.
LEMMA ReadsMore ==
  ASSUME text \in Seq(STRING), AheadExact, todo # <<>>, AllExp(todo), NEW k, At(k), Promise(k),
         IsItem(todo[1]), ParseMore
  PROVE  (thrown \/ ReadsOn)'
<1> DEFINE n == Arg[2]
<1>1. todo[1].call = "more" /\ ~thrown /\ n = todo[1].arg[2] /\ n \in Nat \ {0} /\ Arg[1] = Exp(0)
  <2>1. todo[1].call = "more" /\ ~thrown
    BY DEF ParseMore, Calls, Running
  <2>2. todo[1].arg[2] \in Nat \ {0}
    BY <2>1 DEF IsItem
  <2>3. todo[1].arg[1] = Exp(0)
    BY <2>1, AllExpTail DEF IsExpItem
  <2> QED
    BY <2>1, <2>2, <2>3 DEF Arg
<1>2. k \in Places(text) /\ KindAt(text, k) = cur.kind
  BY TokenHere
<1>3. \A T : \A m \in Places(text) : DoesMore(text, n, made, k, T, m) => Does(text, todo[1], made, k, T, m)
  BY <1>1, <1>2 DEF Does
<1>4. CASE cur.kind = ","
  <2> DEFINE items == <<Exp(0), With("more", <<Exp(0), n + 1>>)>>
  <2>1. AllExp(items) /\ items # <<>>
    BY ExpItems, AllExpTwo
  <2>2. Consume(items) /\ made' = made
    BY <1>1, <1>4 DEF ParseMore
  <2>3. \A T, m : Reaches(text, items, made, k + 1, T, m) => DoesMore(text, n, made, k, T, m)
    BY <1>1, <1>2, <1>4, MoreGoesOn
  <2>4. cur.kind \notin {"eof", "bad"}
    BY <1>4
  <2> HIDE DEF items, n
  <2> QED
    BY <1>1, <1>3, <2>1, <2>2, <2>3, <2>4, ReadsOneMore
<1>5. CASE cur.kind # ","
  <2>1. Continue(<<>>) /\ made' = Append(SubSeq(made, 1, Len(made) - n),
                                         List(SubSeq(made, Len(made) - n + 1, Len(made))))
    BY <1>5 DEF ParseMore, Collapse, LastMade
  <2>2. DoesMore(text, n, made, k, made', k)
    BY <1>1, <1>2, <2>1, MoreEnds
  <2>3. \A T, m : Reaches(text, <<>>, made', k, T, m) => DoesMore(text, n, made, k, T, m)
    BY <2>2, ReachesNone
  <2> HIDE DEF n
  <2> QED
    BY <1>3, <2>1, <2>3, AllExpNone, GoesOnReading
<1> QED
  BY <1>4, <1>5

\* A node is made of the last values.
LEMMA ReadsMake ==
  ASSUME text \in Seq(STRING), AheadExact, todo # <<>>, AllExp(todo), NEW k, At(k), Promise(k),
         MakeNode
  PROVE  ReadsOn'
<1>1. todo[1].call = "make" /\ Continue(<<>>)
      /\ made' = Append(SubSeq(made, 1, Len(made) - todo[1].arg[2]),
                        Created(todo[1].arg[1], SubSeq(made, Len(made) - todo[1].arg[2] + 1, Len(made))))
  BY DEF MakeNode, Calls, Running, Collapse, LastMade, Arg
<1>2. k \in Places(text)
  BY TokenHere
<1>3. Does(text, todo[1], made, k, made', k)
  BY <1>1, <1>2 DEF Does, DoesMake
<1>4. \A T, m : Reaches(text, <<>>, made', k, T, m) => Does(text, todo[1], made, k, T, m)
  BY <1>3, ReachesNone
<1> QED
  BY <1>1, <1>4, AllExpNone, GoesOnReading

\* Every step of an expression keeps the promise.
LEMMA ReadingStep ==
  ASSUME text \in Seq(STRING), AheadExact, StackInv, ~thrown, ReadsOn, [Next]_vars
  PROVE  (thrown \/ ReadsOn)'
<1>1. PICK k : At(k) /\ AllExp(todo) /\ Promise(k)
  BY DEF ReadsOn
<1>2. CASE UNCHANGED vars
  BY <1>2 DEF vars, ReadsOn, At, Promise
<1>3. CASE Step
  <2>1. todo # <<>> /\ IsExpItem(todo[1]) /\ IsItem(todo[1]) /\ IsStack(made)
    <3>1. todo # <<>>
      BY <1>3 DEF Step, Calls, Running, Construct, ExpectToken, ParseIdent, ParseConst, ParseScalarType,
           ParseBaseExp, ParseArguments, ParseExp, ParseOperators, ParseElements, ParseMore, ParseStmts,
           ParseWhereClauses, ParseEquivalent, ParseOptionalIdentList, ParseOptionalDimList, Optional,
           ParseWhereClause, ParseAssignment, ParseStmt, ParseDim, ParseType, ParseParam, ParseFunction,
           ParseTactic, ParseTacticBody, MakeNode
    <3> QED
      BY <1>1, <3>1, AllExpTail, StackFacts DEF StackInv, IsStack
  <2>2. \/ ExpectToken \/ ParseIdent \/ ParseConst \/ ParseScalarType
        \/ ParseBaseExp \/ ParseArguments \/ ParseExp \/ ParseOperators
        \/ ParseElements \/ ParseMore \/ MakeNode
    BY <1>3, <2>1 DEF Step, Calls, Running, Construct, ParseStmts,
         ParseWhereClauses, ParseEquivalent, ParseOptionalIdentList, ParseOptionalDimList, Optional,
         ParseWhereClause, ParseAssignment, ParseStmt, ParseDim, ParseType, ParseParam, ParseFunction,
         ParseTactic, ParseTacticBody, IsExpItem
  <2> QED
    BY <1>1, <2>1, <2>2, ReadsExpect, ReadsIdent, ReadsConst, ReadsScalarType, ReadsBaseExp, ReadsArguments,
       ReadsExp, ReadsOperators, ReadsElements, ReadsMore, ReadsMake
<1> QED
  BY <1>2, <1>3 DEF Next, Stop
-------------------------------------------------------------------------------
\* Before its first token and while it reads an expression, the parser promises it.
ExpInv ==
  /\ text \in Seq(STRING)
  /\ input.entry = Exp(0) =>
       \/ thrown
       \/ todo = <<Call("lexer"), Exp(0)>> /\ made = <<>> /\ cur = Start
       \/ ReadsOn

\* The first step reads the first token, and then all is promised.
LEMMA ConstructReads ==
  ASSUME text \in Seq(STRING), AheadExact, ~thrown, todo = <<Call("lexer"), Exp(0)>>, made = <<>>,
         cur = Start, [Next]_vars
  PROVE  UNCHANGED <<todo, made, cur, thrown>> \/ (thrown \/ ReadsOn)'
<1>1. todo[1].call = "lexer"
  BY DEF Call
<1>2. CASE UNCHANGED vars
  BY <1>2 DEF vars
<1>3. CASE Construct
  <2>1. NextToken /\ todo' = <<>> \o Tail(todo) /\ made' = <<>>
    BY <1>3 DEF Construct, Consume, Instead
  <2>2. Tail(todo) = <<Exp(0)>> /\ <<>> \o <<Exp(0)>> = <<Exp(0)>>
    OBVIOUS
  <2>3. todo' = <<Exp(0)>>
    BY <2>1, <2>2
  <2> SUFFICES ASSUME ~thrown' PROVE ReadsOn'
    OBVIOUS
  <2>4. At(1)' /\ text' = text
    BY <2>1, FirstToken
  <2>5. AllExp(todo')
    BY <2>3, ExpItems, AllExpOne
  <2>6. ASSUME NEW T, NEW m, Reaches(text, <<Exp(0)>>, <<>>, 1, T, m)
        PROVE  Right(text, T, m)
    <3>1. Does(text, Exp(0), <<>>, 1, T, m)
      BY <2>6, Reaches1
    <3>2. m \in Places(text)
      BY <3>1, DoesWithin
    <3>3. PICK e \in Reads(text, 1, m, 0) : 1 < m /\ T = Append(<<>>, e) /\ Ends(text, m, 0)
      BY <3>1, DoesExpItem
    <3>4. Append(<<>>, e) = <<e>>
      OBVIOUS
    <3> QED
      BY <3>2, <3>3, <3>4 DEF Right
  <2>7. Promise(1)'
    BY <2>1, <2>3, <2>4, <2>6 DEF Promise
  <2> QED
    BY <2>4, <2>5, <2>7 DEF ReadsOn
<1>4. CASE Step
  <2>1. Construct
    BY <1>1, <1>4 DEF Step, Calls, Running, ExpectToken, ParseIdent, ParseConst, ParseScalarType,
         ParseBaseExp, ParseArguments, ParseExp, ParseOperators, ParseElements, ParseMore, ParseStmts,
         ParseWhereClauses, ParseEquivalent, ParseOptionalIdentList, ParseOptionalDimList, Optional,
         ParseWhereClause, ParseAssignment, ParseStmt, ParseDim, ParseType, ParseParam, ParseFunction,
         ParseTactic, ParseTacticBody, MakeNode
  <2> QED
    BY <1>3, <2>1
<1> QED
  BY <1>2, <1>4 DEF Next, Stop

\* After an exception nothing changes, and no step adds to a finished parse.
LEMMA ThrownStops ==
  ASSUME thrown \/ todo = <<>>, [Next]_vars
  PROVE  UNCHANGED vars
<1>1. \A f : ~Calls(f)
  BY DEF Calls, Running
<1>2. ~Step
  BY <1>1 DEF Step, Construct, ExpectToken, ParseIdent, ParseConst, ParseScalarType,
     ParseBaseExp, ParseArguments, ParseExp, ParseOperators, ParseElements, ParseMore, ParseStmts,
     ParseWhereClauses, ParseEquivalent, ParseOptionalIdentList, ParseOptionalDimList, Optional,
     ParseWhereClause, ParseAssignment, ParseStmt, ParseDim, ParseType, ParseParam, ParseFunction,
     ParseTactic, ParseTacticBody, MakeNode
<1> QED
  BY <1>2 DEF Next, Stop

\* The invariant is kept by every step.
LEMMA ExpInvStep ==
  ASSUME ExpInv, AheadExact, StackInv, [Next]_vars
  PROVE  ExpInv'
<1>1. text' = text
  BY ParserKeepsText
<1>2. input' = input
  BY DEF Next, Step, Stop, vars
<1> SUFFICES ASSUME input.entry = Exp(0)
             PROVE  \/ thrown'
                    \/ todo' = <<Call("lexer"), Exp(0)>> /\ made' = <<>> /\ cur' = Start
                    \/ ReadsOn'
  BY <1>1, <1>2 DEF ExpInv
<1>3. CASE thrown
  BY <1>3, ThrownStops DEF vars
<1>4. CASE ~thrown /\ todo = <<Call("lexer"), Exp(0)>> /\ made = <<>> /\ cur = Start
  BY <1>4, ConstructReads DEF ExpInv
<1>5. CASE ~thrown /\ ReadsOn
  BY <1>5, ReadingStep DEF ExpInv
<1> QED
  BY <1>3, <1>4, <1>5 DEF ExpInv

\* At the end the promise is kept.
LEMMA ExpInvSound ==
  ASSUME ExpInv
  PROVE  ExpSound
<1> SUFFICES ASSUME input.entry = Exp(0), todo = <<>>, ~thrown
             PROVE  \E j \in 2..Len(AllTokens(text)) : /\ AllTokens(text)[j] = cur
                                                       /\ made[1] \in Reads(text, 1, j, 0)
                                                       /\ MayEnd(text, j)
  BY DEF ExpSound, Finished
<1>1. PICK k : At(k) /\ Promise(k)
  BY DEF ExpInv, ReadsOn
<1>2. Reaches(text, todo, made, k, made, k)
  BY ReachesNone
<1>3. PICK e \in Reads(text, 1, k, 0) : made = <<e>> /\ k \in Places(text) /\ 1 < k /\ Ends(text, k, 0)
  BY <1>1, <1>2 DEF Promise, Right
<1>4. made[1] = e /\ AllTokens(text)[k] = cur
  BY <1>1, <1>3 DEF At
<1>5. text \in Seq(STRING)
  BY DEF ExpInv
<1>6. k \in 2..Len(AllTokens(text))
  <2>1. Places(text) = 1..Len(AllTokens(text)) /\ Len(AllTokens(text)) \in Nat
    BY <1>5, AllTokensAre DEF Places
  <2> QED
    BY <1>3, <2>1
<1>7. MayEnd(text, k)
  <2>1. ~IsBinary(KindAt(text, k))
    <3>1. IsBinary(KindAt(text, k)) => BinaryPrec[KindAt(text, k)] \in 1..6
      BY PrecOf
    <3> QED
      BY <1>3, <3>1 DEF Ends
  <2> QED
    BY <1>3, <2>1 DEF Ends, Closes, MayEnd, KindAt
<1> QED
  BY <1>3, <1>4, <1>6, <1>7

\* parseExp(0) returns an expression of the grammar, read from the first token, whatever
\* the text (parser.h:46-130).
THEOREM ParserExpSound == Spec => []ExpSound
<1> DEFINE Inv == ExpInv /\ AheadExact /\ StackInv
<1>1. Init => Inv
  <2>1. Init => ExpInv
    BY InputsAssumption DEF Init, ExpInv, LexInit
  <2> QED
    BY <2>1, AheadInit, StackInit DEF Init
<1>2. Inv /\ [Next]_vars => Inv'
  BY ExpInvStep, ParserStep, AheadStep, StackStep
<1>3. Inv => ExpSound
  BY ExpInvSound
<1> QED
  BY <1>1, <1>2, <1>3, PTL DEF Spec
===============================================================================
