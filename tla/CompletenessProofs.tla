-------------------------- MODULE CompletenessProofs --------------------------
(***************************************************************************)
(* parseExp misses no expression of the grammar: ExpComplete, for every    *)
(* text.  The grammar splits a range of tokens at its last operator, the   *)
(* parser goes through it from left to right.  So a reading is first taken *)
(* apart (Decompose) into an operand and the turns that the loop over the  *)
(* operators makes after it, and a list (ListFills) into its first element *)
(* and the turns of the loop over the commas.  Can says of each item of    *)
(* the call stack what its function can do to the values made and to the   *)
(* current token where the tokens ahead are of the grammar; Gets says it   *)
(* of several items one after the other.  The invariant is that the items  *)
(* on the stack can produce each reading of the whole expression that may  *)
(* end where it does.  A call replaces an item by others that can do what  *)
(* the item can: the lemmas Gets show it of the bodies of the functions.   *)
(***************************************************************************)
EXTENDS ReadingProofs

-------------------------------------------------------------------------------
\* The productions the other way: what a tree stands for, if it is read in some tokens.
OperandIs(txt, i, j, e) ==
  \/ j = i + 1 /\ KindAt(txt, i) = "ident" /\ e = Ident(TextAt(txt, i))
  \/ /\ j = i + 1 /\ KindAt(txt, i) = "number" /\ TextAt(txt, i) \notin OutOfRange
     /\ e = Number(TextAt(txt, i))
  \/ \E n \in Places(txt) :
       /\ j = n + 1 /\ KindAt(txt, n) = ")"
       /\ \/ KindAt(txt, i) = "(" /\ i + 1 < n /\ e \in Reads(txt, i + 1, n, 0)
          \/ /\ KindAt(txt, i + 1) = "(" /\ i + 2 <= n
             /\ \/ /\ KindAt(txt, i) \in ScalarTypes /\ i + 2 < n
                   /\ \E f \in Reads(txt, i + 2, n, 0) : e = Op(KindAt(txt, i), <<f>>)
                \/ /\ KindAt(txt, i) \in {"min", "max"}
                   /\ \E l : ReadsList(txt, i + 2, n, l) /\ Len(l) = 2 /\ e = Op(KindAt(txt, i), l)
                \/ /\ KindAt(txt, i) = "ident"
                   /\ \E l : ReadsList(txt, i + 2, n, l) /\ e = Apply(TextAt(txt, i), l)

SignedIs(txt, i, j, e) ==
  /\ IsUnary(KindAt(txt, i)) /\ i + 1 < j
  /\ \E f \in Reads(txt, i + 1, j, UnaryPrec[KindAt(txt, i)]) : e = Op(KindAt(txt, i), <<f>>)

BinaryIs(txt, i, j, p, e) ==
  \E m \in Places(txt) :
    /\ i < m /\ m + 1 < j /\ IsBinary(KindAt(txt, m)) /\ KindAt(txt, m) # "?"
    /\ BinaryPrec[KindAt(txt, m)] > p
    /\ \E l \in Reads(txt, i, m, BinaryPrec[KindAt(txt, m)] - 1) :
         \E r \in Reads(txt, m + 1, j, BinaryPrec[KindAt(txt, m)]) : e = Op(KindAt(txt, m), <<l, r>>)

TernaryIs(txt, i, j, p, e) ==
  \E m \in Places(txt), n \in Places(txt) :
    /\ p = 0 /\ i < m /\ m + 1 < n /\ n + 1 < j /\ KindAt(txt, m) = "?" /\ KindAt(txt, n) = ":"
    /\ \E c \in Reads(txt, i, m, 1), t \in Reads(txt, m + 1, n, 0), f \in Reads(txt, n + 1, j, 0) :
         e = Op("?", <<c, t, f>>)

\* No tokens are no expression.
LEMMA NothingRead ==
  ASSUME NEW txt \in Seq(STRING), NEW i \in Places(txt), NEW p \in 0..7
  PROVE  Reads(txt, i, i, p) = {}
<1>1. i \in Nat
  BY PlacesAre
<1>2. PICK R : ReadsBy(txt, R, i, i, p)
  BY <1>1, ReadsBase
<1> DEFINE ts == AllTokens(txt)
<1>3. i # i + 1 /\ ~(i > i + 1) /\ ~(i > i + 2) /\ ~(i > i) /\ (i + 1)..(i - 1) = {}
  BY <1>1
<1>4. Identifiers(txt, ts, i, i) = {} /\ Numbers(txt, ts, i, i) = {} /\ Signed(ts, R, i, i) = {}
  BY <1>3 DEF Identifiers, Numbers, Signed
<1>5. /\ Parenthesised(ts, R, i, i) = {} /\ Casts(ts, R, i, i) = {} /\ MinMax(ts, R, i, i) = {}
      /\ Accesses(txt, ts, R, i, i) = {}
  BY <1>3 DEF Parenthesised, Casts, MinMax, Accesses, Enclosed
<1>6. Splits(ts, i, i, p) = {}
  BY <1>3 DEF Splits
<1>7. Binaries(ts, R, i, i, p) = {} /\ Ternaries(ts, R, i, i, p) = {}
  BY <1>6 DEF Binaries, Ternaries
<1> QED
  BY <1>2, <1>4, <1>5, <1>7 DEF ReadsBy

\* An expression has tokens.
LEMMA NotEmpty ==
  ASSUME NEW txt \in Seq(STRING), NEW i \in Places(txt), NEW j \in Places(txt), i <= j,
         NEW p \in 0..7, Reads(txt, i, j, p) # {}
  PROVE  i < j
<1>1. i # j
  BY NothingRead
<1> QED
  BY <1>1, PlacesAre

\* The lists that shorter ranges make up.
LEMMA ListsGive ==
  ASSUME NEW txt \in Seq(STRING), NEW R, NEW n \in Int, Knows(txt, R, n), NEW i \in Places(txt),
         NEW j \in Places(txt), i <= j, j - i < n, NEW l \in Lists(R, i, j)
  PROVE  ReadsList(txt, i, j, l)
<1>0. i \in Nat /\ j \in Nat
  BY PlacesAre
<1>1. CASE i = j
  BY <1>1 DEF Lists, ReadsList
<1>2. CASE i # j
  <2>1. PICK m \in i..(j - 1) : l \in Longer(Among(R, i, m, 8), Among(R, m, j, 0))
    BY <1>2 DEF Lists
  <2>2. PICK before \in Among(R, i, m, 8), e \in Among(R, m, j, 0) : l = Append(before, e)
    BY <2>1 DEF Longer
  <2>3. m \in Places(txt) /\ 0 <= m - i /\ m - i < n /\ 0 <= j - m /\ j - m < n /\ i <= m /\ m < j
        /\ 8 \in 0..8 /\ 0 \in 0..8
    BY <1>0, Between
  <2>4. Among(R, i, m, 8) = Reads(txt, i, m, 8)
    BY <2>3, KnownIs
  <2>5. Among(R, m, j, 0) = Reads(txt, m, j, 0)
    BY <2>3, KnownIs
  <2> QED
    BY <2>2, <2>3, <2>4, <2>5 DEF ReadsList
<1> QED
  BY <1>1, <1>2
-------------------------------------------------------------------------------
\* One production after the other.
LEMMA ParensGive ==
  ASSUME NEW txt \in Seq(STRING), NEW i \in Places(txt), NEW j \in Places(txt), i <= j,
         NEW R, Knows(txt, R, j - i), NEW e,
         e \in Parenthesised(AllTokens(txt), R, i, j) \cup Casts(AllTokens(txt), R, i, j)
                 \cup MinMax(AllTokens(txt), R, i, j) \cup Accesses(txt, AllTokens(txt), R, i, j)
  PROVE  OperandIs(txt, i, j, e)
<1> DEFINE ts == AllTokens(txt)
           n == j - 1
<1>a. i \in Nat \ {0} /\ j \in Nat \ {0} /\ \A k \in i..j : k \in Places(txt)
  BY Between
<1>1. ASSUME NEW m \in {i + 1, i + 2}, Enclosed(ts, m, j)
      PROVE  /\ j > m /\ KindAt(txt, m - 1) = "(" /\ KindAt(txt, n) = ")" /\ m <= n /\ j = n + 1
             /\ n \in Places(txt) /\ m \in Places(txt)
             /\ 0 <= n - m /\ n - m < j - i
  <2>1. j > m /\ ts[m - 1].kind = "(" /\ ts[j - 1].kind = ")"
    BY <1>1 DEF Enclosed
  <2>2. m \in Nat
    BY <1>a
  <2>3. m <= n /\ j = n + 1 /\ n \in i..j /\ m \in i..j /\ 0 <= n - m /\ n - m < j - i
    BY <1>a, <2>1, <2>2
  <2> QED
    BY <1>a, <2>1, <2>3 DEF KindAt
<1>2. (i + 1) - 1 = i /\ (i + 2) - 1 = i + 1 /\ 0 \in 0..8 /\ 0 \in 0..7
  BY <1>a
<1>3. CASE e \in Parenthesised(ts, R, i, j)
  <2>1. Enclosed(ts, i + 1, j) /\ e \in Among(R, i + 1, n, 0)
    BY <1>3 DEF Parenthesised
  <2>2. /\ KindAt(txt, i) = "(" /\ KindAt(txt, n) = ")" /\ i + 1 <= n /\ j = n + 1
        /\ n \in Places(txt) /\ i + 1 \in Places(txt) /\ 0 <= n - (i + 1) /\ n - (i + 1) < j - i
    BY <1>1, <1>2, <2>1
  <2> HIDE DEF n
  <2>3. e \in Reads(txt, i + 1, n, 0)
    BY <1>2, <2>1, <2>2, KnownIs
  <2>4. i + 1 < n
    BY <1>2, <2>2, <2>3, NotEmpty
  <2> QED
    BY <2>2, <2>3, <2>4 DEF OperandIs
<1>4. ASSUME Enclosed(ts, i + 2, j)
      PROVE  /\ KindAt(txt, i + 1) = "(" /\ KindAt(txt, n) = ")" /\ i + 2 <= n /\ j = n + 1
             /\ n \in Places(txt) /\ i + 2 \in Places(txt) /\ 0 <= n - (i + 2) /\ n - (i + 2) < j - i
             /\ j - i \in Int
  BY <1>1, <1>2, <1>4, <1>a
<1>5. CASE e \in Casts(ts, R, i, j)
  <2>1. Enclosed(ts, i + 2, j) /\ KindAt(txt, i) \in ScalarTypes
        /\ \E f \in Among(R, i + 2, n, 0) : e = Op(KindAt(txt, i), <<f>>)
    BY <1>5 DEF Casts, KindAt
  <2> HIDE DEF n
  <2>2. PICK f \in Reads(txt, i + 2, n, 0) : e = Op(KindAt(txt, i), <<f>>)
    BY <1>2, <1>4, <2>1, KnownIs
  <2>3. i + 2 < n
    BY <1>2, <1>4, <2>1, <2>2, NotEmpty
  <2> QED
    BY <1>4, <2>1, <2>2, <2>3 DEF OperandIs
<1>6. CASE e \in MinMax(ts, R, i, j)
  <2>1. Enclosed(ts, i + 2, j) /\ KindAt(txt, i) \in {"min", "max"}
        /\ \E l \in Lists(R, i + 2, n) : Len(l) = 2 /\ e = Op(KindAt(txt, i), l)
    BY <1>6 DEF MinMax, KindAt
  <2> HIDE DEF n
  <2>2. PICK l \in Lists(R, i + 2, n) : Len(l) = 2 /\ e = Op(KindAt(txt, i), l)
    BY <2>1
  <2>3. ReadsList(txt, i + 2, n, l)
    BY <1>4, <2>1, ListsGive
  <2> QED
    BY <1>4, <2>1, <2>2, <2>3 DEF OperandIs
<1>7. CASE e \in Accesses(txt, ts, R, i, j)
  <2>1. Enclosed(ts, i + 2, j) /\ KindAt(txt, i) = "ident"
        /\ \E l \in Lists(R, i + 2, n) : e = Apply(TextAt(txt, i), l)
    BY <1>7 DEF Accesses, KindAt, TextAt
  <2> HIDE DEF n
  <2>2. PICK l \in Lists(R, i + 2, n) : e = Apply(TextAt(txt, i), l)
    BY <2>1
  <2>3. ReadsList(txt, i + 2, n, l)
    BY <1>4, <2>1, ListsGive
  <2> QED
    BY <1>4, <2>1, <2>2, <2>3 DEF OperandIs
<1> QED
  BY <1>3, <1>5, <1>6, <1>7

\* An operator before an expression.
LEMMA SignGives ==
  ASSUME NEW txt \in Seq(STRING), NEW i \in Places(txt), NEW j \in Places(txt), i <= j,
         NEW R, Knows(txt, R, j - i), NEW e \in Signed(AllTokens(txt), R, i, j)
  PROVE  SignedIs(txt, i, j, e)
<1>1. /\ j > i /\ IsUnary(KindAt(txt, i))
      /\ \E f \in Among(R, i + 1, j, UnaryPrec[KindAt(txt, i)]) : e = Op(KindAt(txt, i), <<f>>)
  BY DEF Signed, KindAt
<1>2. UnaryPrec[KindAt(txt, i)] \in 0..7 /\ UnaryPrec[KindAt(txt, i)] \in 0..8
  BY <1>1 DEF IsUnary, UnaryPrec
<1>3. i + 1 \in Places(txt) /\ i + 1 <= j /\ 0 <= j - (i + 1) /\ j - (i + 1) < j - i
  <2>1. i \in Nat /\ j \in Nat /\ \A k \in i..j : k \in Places(txt)
    BY Between
  <2>2. i + 1 \in i..j /\ i + 1 <= j /\ 0 <= j - (i + 1) /\ j - (i + 1) < j - i
    BY <1>1, <2>1
  <2> QED
    BY <2>1, <2>2
<1>4. PICK f \in Reads(txt, i + 1, j, UnaryPrec[KindAt(txt, i)]) : e = Op(KindAt(txt, i), <<f>>)
  BY <1>1, <1>2, <1>3, KnownIs
<1>5. i + 1 < j
  BY <1>2, <1>3, <1>4, NotEmpty
<1> QED
  BY <1>1, <1>4, <1>5 DEF SignedIs

\* An operator between two expressions.
LEMMA BinaryGives ==
  ASSUME NEW txt \in Seq(STRING), NEW i \in Places(txt), NEW j \in Places(txt), i <= j,
         NEW R, Knows(txt, R, j - i), NEW p \in 0..7, NEW e \in Binaries(AllTokens(txt), R, i, j, p)
  PROVE  BinaryIs(txt, i, j, p, e)
<1>1. PICK m, l, r : /\ m \in Splits(AllTokens(txt), i, j, p) /\ KindAt(txt, m) # "?"
                     /\ l \in Among(R, i, m, BinaryPrec[KindAt(txt, m)] - 1)
                     /\ r \in Among(R, m + 1, j, BinaryPrec[KindAt(txt, m)])
                     /\ e = Op(KindAt(txt, m), <<l, r>>)
  <2> DEFINE ts == AllTokens(txt)
             M == {q \in Splits(ts, i, j, p) : ts[q].kind # "?"}
             f(m) == {Op(ts[m].kind, <<l, r>>) : l \in Among(R, i, m, BinaryPrec[ts[m].kind] - 1),
                                                 r \in Among(R, m + 1, j, BinaryPrec[ts[m].kind])}
  <2>1. Binaries(ts, R, i, j, p) = UNION {f(m) : m \in M}
    BY DEF Binaries
  <2>2. \A m : m \in M => m \in Splits(ts, i, j, p) /\ ts[m].kind # "?"
    OBVIOUS
  <2> HIDE DEF M
  <2>3. PICK m \in M : e \in f(m)
    <3> HIDE DEF f
    <3> QED
      BY <2>1, e \in Binaries(ts, R, i, j, p)
  <2>4. PICK l \in Among(R, i, m, BinaryPrec[ts[m].kind] - 1), r \in Among(R, m + 1, j, BinaryPrec[ts[m].kind]) :
          e = Op(ts[m].kind, <<l, r>>)
    BY <2>3
  <2> QED
    BY <2>2, <2>3, <2>4, Zenon DEF KindAt
<1>2. m \in (i + 1)..(j - 1) /\ IsBinary(KindAt(txt, m)) /\ BinaryPrec[KindAt(txt, m)] > p
  BY <1>1 DEF Splits, KindAt
<1> DEFINE q == BinaryPrec[KindAt(txt, m)]
<1>3. q \in 1..6
  BY <1>2, PrecOf
<1>4. l \in Among(R, i, m, q - 1) /\ r \in Among(R, m + 1, j, q) /\ e = Op(KindAt(txt, m), <<l, r>>)
  BY <1>1
<1>5. /\ m \in Places(txt) /\ m + 1 \in Places(txt) /\ i < m /\ m + 1 <= j
      /\ 0 <= m - i /\ m - i < j - i /\ 0 <= j - (m + 1) /\ j - (m + 1) < j - i
  <2>1. i \in Nat /\ j \in Nat /\ \A k \in i..j : k \in Places(txt)
    BY Between
  <2>2. /\ m \in i..j /\ m + 1 \in i..j /\ i < m /\ m + 1 <= j
        /\ 0 <= m - i /\ m - i < j - i /\ 0 <= j - (m + 1) /\ j - (m + 1) < j - i
    BY <1>2, <2>1
  <2> QED
    BY <2>1, <2>2
<1>6. q \in 0..7 /\ q \in 0..8 /\ q - 1 \in 0..8
  BY <1>3
<1> HIDE DEF q
<1>7. l \in Reads(txt, i, m, q - 1) /\ r \in Reads(txt, m + 1, j, q)
  BY <1>4, <1>5, <1>6, KnownIs
<1>8. m + 1 < j
  BY <1>5, <1>6, <1>7, NotEmpty
<1>9. \E a \in Reads(txt, i, m, q - 1) : \E b \in Reads(txt, m + 1, j, q) : e = Op(KindAt(txt, m), <<a, b>>)
  BY <1>4, <1>7
<1> QED
  <2>1. i < m /\ m \in Places(txt) /\ KindAt(txt, m) # "?" /\ q > p
    BY <1>1, <1>2, <1>5 DEF q
  <2> QED
    BY <1>2, <1>8, <1>9, <2>1 DEF BinaryIs, q

\* The conditional operator.
LEMMA TernaryGives ==
  ASSUME NEW txt \in Seq(STRING), NEW i \in Places(txt), NEW j \in Places(txt), i <= j,
         NEW R, Knows(txt, R, j - i), NEW p \in 0..7, NEW e \in Ternaries(AllTokens(txt), R, i, j, p)
  PROVE  TernaryIs(txt, i, j, p, e)
<1>1. PICK m, n, c, t, f :
        /\ m \in Splits(AllTokens(txt), i, j, p) /\ n \in i..(j - 1)
        /\ m < n /\ KindAt(txt, m) = "?" /\ KindAt(txt, n) = ":"
        /\ c \in Among(R, i, m, 1) /\ t \in Among(R, m + 1, n, 0) /\ f \in Among(R, n + 1, j, 0)
        /\ e = Op("?", <<c, t, f>>)
  <2> DEFINE ts == AllTokens(txt)
             M == {q \in Splits(ts, i, j, p) \X (i..(j - 1)) :
                     q[1] < q[2] /\ ts[q[1]].kind = "?" /\ ts[q[2]].kind = ":"}
             g(m) == {Op("?", <<c, t, f>>) : c \in Among(R, i, m[1], 1), t \in Among(R, m[1] + 1, m[2], 0),
                                             f \in Among(R, m[2] + 1, j, 0)}
  <2>1. Ternaries(ts, R, i, j, p) = UNION {g(m) : m \in M}
    BY DEF Ternaries
  <2>2. \A m : m \in M => /\ m[1] \in Splits(ts, i, j, p) /\ m[2] \in i..(j - 1)
                          /\ m[1] < m[2] /\ ts[m[1]].kind = "?" /\ ts[m[2]].kind = ":"
    OBVIOUS
  <2> HIDE DEF M
  <2>3. PICK m \in M : e \in g(m)
    <3> HIDE DEF g
    <3> QED
      BY <2>1, e \in Ternaries(ts, R, i, j, p)
  <2>4. PICK a, b : a = m[1] /\ b = m[2]
    OBVIOUS
  <2>5. PICK c \in Among(R, i, a, 1), t \in Among(R, a + 1, b, 0), f \in Among(R, b + 1, j, 0) :
          e = Op("?", <<c, t, f>>)
    <3> DEFINE A == Among(R, i, a, 1)
               B == Among(R, a + 1, b, 0)
               C == Among(R, b + 1, j, 0)
               N(c, t, f) == Op("?", <<c, t, f>>)
    <3>1. e \in {N(c, t, f) : c \in A, t \in B, f \in C}
      BY <2>3, <2>4
    <3> HIDE DEF A, B, C, N
    <3>2. \E c \in A, t \in B, f \in C : e = N(c, t, f)
      BY ONLY <3>1
    <3> QED
      BY <3>2 DEF A, B, C, N
  <2> QED
    BY <2>2, <2>3, <2>4, <2>5, Zenon DEF KindAt
<1>3. m \in (i + 1)..(j - 1) /\ n \in i..(j - 1) /\ m < n /\ BinaryPrec[KindAt(txt, m)] > p
      /\ KindAt(txt, m) = "?" /\ KindAt(txt, n) = ":"
  BY <1>1 DEF Splits, KindAt
<1>4. c \in Among(R, i, m, 1) /\ t \in Among(R, m + 1, n, 0) /\ f \in Among(R, n + 1, j, 0)
      /\ e = Op("?", <<c, t, f>>)
  BY <1>1
<1>5. p = 0
  <2>1. BinaryPrec["?"] = 1
    BY DEF BinaryPrec
  <2> QED
    BY <1>3, <2>1
<1>6. /\ m \in Places(txt) /\ m + 1 \in Places(txt) /\ n \in Places(txt) /\ n + 1 \in Places(txt)
      /\ i < m /\ m + 1 <= n /\ n + 1 <= j
      /\ 0 <= m - i /\ m - i < j - i /\ 0 <= n - (m + 1) /\ n - (m + 1) < j - i
      /\ 0 <= j - (n + 1) /\ j - (n + 1) < j - i
  <2>1. i \in Nat /\ j \in Nat /\ \A k \in i..j : k \in Places(txt)
    BY Between
  <2>2. m \in Nat /\ n \in Nat
    BY <1>3, <2>1
  <2>3. /\ m \in i..j /\ m + 1 \in i..j /\ n \in i..j /\ n + 1 \in i..j
        /\ i < m /\ m + 1 <= n /\ n + 1 <= j
        /\ 0 <= m - i /\ m - i < j - i /\ 0 <= n - (m + 1) /\ n - (m + 1) < j - i
        /\ 0 <= j - (n + 1) /\ j - (n + 1) < j - i
    BY <1>3, <2>1, <2>2
  <2> QED
    BY <2>1, <2>3
<1>7. c \in Reads(txt, i, m, 1) /\ t \in Reads(txt, m + 1, n, 0) /\ f \in Reads(txt, n + 1, j, 0)
  <2>1. 0 \in 0..8 /\ 1 \in 0..8
    OBVIOUS
  <2>2. c \in Reads(txt, i, m, 1)
    BY <1>4, <1>6, <2>1, KnownIs
  <2>3. t \in Reads(txt, m + 1, n, 0)
    BY <1>4, <1>6, <2>1, KnownIs
  <2>4. f \in Reads(txt, n + 1, j, 0)
    BY <1>4, <1>6, <2>1, KnownIs
  <2> QED
    BY <2>2, <2>3, <2>4
<1>8. m + 1 < n /\ n + 1 < j
  <2>1. 0 \in 0..7
    OBVIOUS
  <2> QED
    BY <1>6, <1>7, <2>1, NotEmpty
<1> QED
  BY <1>3, <1>4, <1>5, <1>6, <1>7, <1>8 DEF TernaryIs

\* All of them.
LEMMA Inverts ==
  ASSUME NEW txt \in Seq(STRING), NEW i \in Places(txt), NEW j \in Places(txt), i <= j,
         NEW p \in 0..7, NEW e \in Reads(txt, i, j, p)
  PROVE  /\ i < j
         /\ OperandIs(txt, i, j, e) \/ SignedIs(txt, i, j, e) \/ BinaryIs(txt, i, j, p, e)
            \/ TernaryIs(txt, i, j, p, e)
<1>1. PICK R : ReadsBy(txt, R, i, j, p)
  BY ReadsBase
<1>2. CASE e \in Identifiers(txt, AllTokens(txt), i, j) \cup Numbers(txt, AllTokens(txt), i, j)
  <2>1. OperandIs(txt, i, j, e)
    BY <1>2 DEF Identifiers, Numbers, OperandIs, KindAt, TextAt
  <2> QED
    BY <2>1, NotEmpty
<1> QED
  <2>1. Knows(txt, R, j - i) /\ i < j
    BY <1>1, NotEmpty DEF ReadsBy
  <2>2. \/ e \in Identifiers(txt, AllTokens(txt), i, j) \cup Numbers(txt, AllTokens(txt), i, j)
        \/ e \in Parenthesised(AllTokens(txt), R, i, j) \cup Casts(AllTokens(txt), R, i, j)
                 \cup MinMax(AllTokens(txt), R, i, j) \cup Accesses(txt, AllTokens(txt), R, i, j)
        \/ e \in Signed(AllTokens(txt), R, i, j)
        \/ e \in Binaries(AllTokens(txt), R, i, j, p) \/ e \in Ternaries(AllTokens(txt), R, i, j, p)
    BY <1>1, Zenon DEF ReadsBy
  <2>3. e \in Parenthesised(AllTokens(txt), R, i, j) \cup Casts(AllTokens(txt), R, i, j)
                 \cup MinMax(AllTokens(txt), R, i, j) \cup Accesses(txt, AllTokens(txt), R, i, j)
          => OperandIs(txt, i, j, e)
    BY <2>1, ParensGive, Zenon
  <2>4. e \in Signed(AllTokens(txt), R, i, j) => SignedIs(txt, i, j, e)
    BY <2>1, SignGives, Zenon
  <2>5. e \in Binaries(AllTokens(txt), R, i, j, p) => BinaryIs(txt, i, j, p, e)
    BY <2>1, BinaryGives, Zenon
  <2>6. e \in Ternaries(AllTokens(txt), R, i, j, p) => TernaryIs(txt, i, j, p, e)
    BY <2>1, TernaryGives, Zenon
  <2> QED
    <3>1. CASE e \in Identifiers(txt, AllTokens(txt), i, j) \cup Numbers(txt, AllTokens(txt), i, j)
      BY <3>1, <1>2
    <3>2. CASE e \in Parenthesised(AllTokens(txt), R, i, j) \cup Casts(AllTokens(txt), R, i, j)
                 \cup MinMax(AllTokens(txt), R, i, j) \cup Accesses(txt, AllTokens(txt), R, i, j)
      BY <3>2, <2>1, <2>3
    <3> QED
      BY <2>1, <2>2, <2>4, <2>5, <2>6, <3>1, <3>2

IsComma(txt, n) == KindAt(txt, n) = ","

\* The same of lists that are followed by a comma.
LEMMA CommasGive ==
  ASSUME NEW txt \in Seq(STRING), NEW i \in Places(txt), NEW j \in Places(txt), i <= j,
         NEW l \in Reads(txt, i, j, 8)
  PROVE  \/ i = j /\ l = <<>>
         \/ \E m \in Places(txt), n \in Places(txt) :
              /\ i <= m /\ m < n /\ j = n + 1 /\ IsComma(txt, n)
              /\ \E before \in Reads(txt, i, m, 8), e \in Reads(txt, m, n, 0) : l = Append(before, e)
<1>1. PICK R : /\ Knows(txt, R, j - i)
               /\ \A p \in 0..8 : Reads(txt, i, j, p) = Readings(txt, AllTokens(txt), R, i, j, p)
  BY ReadsIs DEF Places
<1>2. l \in FollowedByCommas(AllTokens(txt), R, i, j)
  <2>1. 8 \in 0..8
    OBVIOUS
  <2> QED
    BY <1>1, <2>1 DEF Readings
<1>3. CASE i = j
  BY <1>2, <1>3 DEF FollowedByCommas
<1>4. CASE i # j
  <2> DEFINE n == j - 1
  <2>1. IsComma(txt, n) /\ \E m \in i..n : l \in Longer(Among(R, i, m, 8), Among(R, m, n, 0))
    BY <1>2, <1>4, Zenon DEF FollowedByCommas, KindAt, IsComma
  <2>2. PICK m \in i..n : l \in Longer(Among(R, i, m, 8), Among(R, m, n, 0))
    BY <2>1
  <2>3. PICK before \in Among(R, i, m, 8), e \in Among(R, m, n, 0) : l = Append(before, e)
    BY <2>2 DEF Longer
  <2>4. /\ n \in Places(txt) /\ m \in Places(txt) /\ i <= m /\ m <= n /\ j = n + 1
        /\ 0 <= m - i /\ m - i < j - i /\ 0 <= n - m /\ n - m < j - i
    <3>1. i \in Nat /\ j \in Nat /\ \A k \in i..j : k \in Places(txt)
      BY Between
    <3>2. /\ n \in i..j /\ m \in i..j /\ i <= m /\ m <= n /\ j = n + 1
          /\ 0 <= m - i /\ m - i < j - i /\ 0 <= n - m /\ n - m < j - i
      BY <1>4, <3>1
    <3> QED
      BY <3>1, <3>2
  <2> HIDE DEF n
  <2>5. before \in Reads(txt, i, m, 8) /\ e \in Reads(txt, m, n, 0)
    <3>1. 0 \in 0..8 /\ 8 \in 0..8
      OBVIOUS
    <3>2. Among(R, i, m, 8) = Reads(txt, i, m, 8)
      BY ONLY <1>1, <2>4, <3>1, i \in Places(txt), KnownIs
    <3>3. Among(R, m, n, 0) = Reads(txt, m, n, 0)
      BY ONLY <1>1, <2>4, <3>1, KnownIs
    <3> QED
      BY <2>3, <3>2, <3>3
  <2>6. m < n
    <3>1. 0 \in 0..7
      OBVIOUS
    <3> QED
      BY <2>4, <2>5, <3>1, NotEmpty
  <2> QED
    BY <2>1, <2>3, <2>4, <2>5, <2>6
<1> QED
  BY <1>3, <1>4
-------------------------------------------------------------------------------
\* One turn of the loop of parseExp, from an expression l that ends at k to the
\* expression e that has it as its first operand and ends at m.
TurnBinary(txt, l, k, e, m) ==
  LET op == KindAt(txt, k)
  IN  /\ op # "?" /\ k + 1 < m /\ Ends(txt, m, BinaryPrec[op])
      /\ \E r \in Reads(txt, k + 1, m, BinaryPrec[op]) : e = Op(op, <<l, r>>)
TurnTernary(txt, l, k, e, m) ==
  /\ KindAt(txt, k) = "?" /\ Ends(txt, m, 0)
  /\ \E n \in Places(txt) :
       /\ k + 1 < n /\ n + 1 < m /\ KindAt(txt, n) = ":"
       /\ \E t \in Reads(txt, k + 1, n, 0), f \in Reads(txt, n + 1, m, 0) : e = Op("?", <<l, t, f>>)
TurnOperator(txt, p, l, k, e, m) ==
  /\ IsBinary(KindAt(txt, k)) /\ BinaryPrec[KindAt(txt, k)] > p
  /\ TurnBinary(txt, l, k, e, m) \/ TurnTernary(txt, l, k, e, m)

\* One turn of the loop over commas, from a list l to the list e with one element more.
TurnComma(txt, l, k, e, m) ==
  /\ IsComma(txt, k) /\ k + 1 < m /\ Ends(txt, m, 0)
  /\ \E x \in Reads(txt, k + 1, m, 0) : e = Append(l, x)

\* As in the grammar, p = 8 stands for lists.
Turn(txt, p, l, k, e, m) ==
  IF p = 8 THEN TurnComma(txt, l, k, e, m) ELSE TurnOperator(txt, p, l, k, e, m)

\* Its turns, one after the other: the expressions es and where they end.
TurnsAre(txt, p, n, es, at) ==
  /\ \A q \in 0..n : at[q] \in Places(txt) /\ at[q] <= at[n]
  /\ \A q \in 1..n : Turn(txt, p, es[q - 1], at[q - 1], es[q], at[q])
Climbs(txt, p, l, k, e, m) ==
  \E n \in Nat : \E es, at : /\ es[0] = l /\ at[0] = k /\ es[n] = e /\ at[n] = m
                             /\ TurnsAre(txt, p, n, es, at)

\* No turn.
LEMMA ClimbsNone ==
  ASSUME NEW txt \in Seq(STRING), NEW p, NEW l, NEW k \in Places(txt)
  PROVE  Climbs(txt, p, l, k, l, k)
<1> DEFINE es == [q \in {0} |-> l]
           at == [q \in {0} |-> k]
<1>1. k <= k
  BY Between
<1>2. es[0] = l /\ at[0] = k
  OBVIOUS
<1> HIDE DEF es, at
<1>3. TurnsAre(txt, p, 0, es, at)
  BY <1>1, <1>2 DEF TurnsAre
<1>4. 0 \in Nat
  OBVIOUS
<1> QED
  BY <1>2, <1>3, <1>4 DEF Climbs

\* The first turn, and the others.
LEMMA ClimbsFirst ==
  ASSUME NEW txt, NEW p, NEW l, NEW k, NEW e, NEW m, Climbs(txt, p, l, k, e, m)
  PROVE  \/ l = e /\ k = m
         \/ \E f : \E j \in Places(txt) : Turn(txt, p, l, k, f, j) /\ Climbs(txt, p, f, j, e, m)
<1>0. PICK n \in Nat : \E es, at : /\ es[0] = l /\ at[0] = k /\ es[n] = e /\ at[n] = m
                                    /\ TurnsAre(txt, p, n, es, at)
  BY DEF Climbs
<1>1. PICK es, at : es[0] = l /\ at[0] = k /\ es[n] = e /\ at[n] = m /\ TurnsAre(txt, p, n, es, at)
  BY <1>0
<1>2. CASE n = 0
  BY <1>1, <1>2
<1>3. CASE n # 0
  <2> DEFINE es2 == [q \in 0..(n - 1) |-> es[q + 1]]
             at2 == [q \in 0..(n - 1) |-> at[q + 1]]
  <2>1. Turn(txt, p, l, k, es[1], at[1]) /\ at[1] \in Places(txt)
    <3>1. 1 \in 1..n /\ 1 \in 0..n /\ 1 - 1 = 0
      BY <1>3
    <3>2. Turn(txt, p, es[1 - 1], at[1 - 1], es[1], at[1]) /\ at[1] \in Places(txt)
      BY <1>1, <3>1 DEF TurnsAre
    <3> QED
      BY <1>1, <3>1, <3>2
  <2>2. \A q \in 0..(n - 1) : es2[q] = es[q + 1] /\ at2[q] = at[q + 1]
    OBVIOUS
  <2>3. es2[0] = es[1] /\ at2[0] = at[1] /\ es2[n - 1] = e /\ at2[n - 1] = m
    <3>1. 0 \in 0..(n - 1) /\ n - 1 \in 0..(n - 1) /\ 0 + 1 = 1 /\ (n - 1) + 1 = n
      BY <1>3
    <3> HIDE DEF es2, at2
    <3> QED
      BY <1>1, <2>2, <3>1
  <2> HIDE DEF es2, at2
  <2>4. TurnsAre(txt, p, n - 1, es2, at2)
    <3>1. ASSUME NEW q \in 0..(n - 1) PROVE at2[q] \in Places(txt) /\ at2[q] <= at2[n - 1]
      <4>1. q + 1 \in 0..n
        OBVIOUS
      <4>2. at[q + 1] \in Places(txt) /\ at[q + 1] <= m
        BY <1>1, <4>1 DEF TurnsAre
      <4> QED
        BY <2>2, <2>3, <4>2
    <3>2. ASSUME NEW q \in 1..(n - 1) PROVE Turn(txt, p, es2[q - 1], at2[q - 1], es2[q], at2[q])
      <4>1. q + 1 \in 1..n /\ q \in 0..(n - 1) /\ q - 1 \in 0..(n - 1) /\ (q - 1) + 1 = q /\ (q + 1) - 1 = q
        OBVIOUS
      <4>2. Turn(txt, p, es[(q + 1) - 1], at[(q + 1) - 1], es[q + 1], at[q + 1])
        BY <1>1, <4>1 DEF TurnsAre
      <4>3. /\ es2[q - 1] = es[q] /\ at2[q - 1] = at[q]
            /\ es2[q] = es[q + 1] /\ at2[q] = at[q + 1]
        BY <2>2, <4>1
      <4> QED
        BY <4>1, <4>2, <4>3
    <3> QED
      BY <3>1, <3>2 DEF TurnsAre
  <2>5. Climbs(txt, p, es[1], at[1], e, m)
    <3>1. n - 1 \in Nat
      BY <1>3
    <3> QED
      BY <2>3, <2>4, <3>1 DEF Climbs
  <2> QED
    BY <2>1, <2>5
<1> QED
  BY <1>2, <1>3

\* One turn more.
LEMMA ClimbsLast ==
  ASSUME NEW txt \in Seq(STRING), NEW p, NEW l, NEW k, NEW e, NEW m, Climbs(txt, p, l, k, e, m),
         NEW f, NEW j \in Places(txt), m < j, Turn(txt, p, e, m, f, j)
  PROVE  Climbs(txt, p, l, k, f, j)
<1>0. PICK n \in Nat : \E es, at : /\ es[0] = l /\ at[0] = k /\ es[n] = e /\ at[n] = m
                                    /\ TurnsAre(txt, p, n, es, at)
  BY DEF Climbs
<1>1. PICK es, at : es[0] = l /\ at[0] = k /\ es[n] = e /\ at[n] = m /\ TurnsAre(txt, p, n, es, at)
  BY <1>0
<1> DEFINE es2 == [q \in 0..(n + 1) |-> IF q = n + 1 THEN f ELSE es[q]]
           at2 == [q \in 0..(n + 1) |-> IF q = n + 1 THEN j ELSE at[q]]
<1>2. /\ \A q \in 0..n : es2[q] = es[q] /\ at2[q] = at[q]
      /\ es2[n + 1] = f /\ at2[n + 1] = j
  OBVIOUS
<1> HIDE DEF es2, at2
<1>3. es2[0] = l /\ at2[0] = k
  <2>1. 0 \in 0..n
    OBVIOUS
  <2> QED
    BY <1>1, <1>2, <2>1
<1>4. ASSUME NEW q \in 0..(n + 1) PROVE at2[q] \in Places(txt) /\ at2[q] <= at2[n + 1]
  <2>1. CASE q = n + 1
    BY <1>2, <2>1, Between
  <2>2. CASE q # n + 1
    <3>1. q \in 0..n /\ n \in 0..n
      BY <2>2
    <3>2. at[q] \in Places(txt) /\ at[q] <= m /\ m \in Places(txt)
      BY <1>1, <3>1 DEF TurnsAre
    <3>3. at[q] \in Nat /\ m \in Nat /\ j \in Nat
      BY <3>2, Between
    <3>4. at2[q] = at[q] /\ at2[n + 1] = j
      BY <1>2, <3>1
    <3> QED
      BY ONLY m < j, <3>2, <3>3, <3>4
  <2> QED
    BY <2>1, <2>2
<1>5. ASSUME NEW q \in 1..(n + 1) PROVE Turn(txt, p, es2[q - 1], at2[q - 1], es2[q], at2[q])
  <2>1. CASE q = n + 1
    <3>1. q - 1 = n /\ n \in 0..n
      BY <2>1
    <3>2. es2[q - 1] = e /\ at2[q - 1] = m /\ es2[q] = f /\ at2[q] = j
      BY <1>1, <1>2, <2>1, <3>1
    <3> QED
      BY <3>2
  <2>2. CASE q # n + 1
    <3>1. q \in 1..n /\ q \in 0..n /\ q - 1 \in 0..n
      BY <2>2
    <3>2. es2[q - 1] = es[q - 1] /\ at2[q - 1] = at[q - 1] /\ es2[q] = es[q] /\ at2[q] = at[q]
      BY <1>2, <3>1
    <3>3. Turn(txt, p, es[q - 1], at[q - 1], es[q], at[q])
      BY <1>1, <3>1 DEF TurnsAre
    <3> QED
      BY <3>2, <3>3
  <2> QED
    BY <2>1, <2>2
<1>6. TurnsAre(txt, p, n + 1, es2, at2)
  BY <1>4, <1>5 DEF TurnsAre
<1>7. n + 1 \in Nat
  OBVIOUS
<1> QED
  BY <1>2, <1>3, <1>6, <1>7 DEF Climbs

\* What stands where the turns start and stop.
LEMMA ClimbsOn ==
  ASSUME NEW txt, NEW p, NEW l, NEW k, NEW e, NEW m, Climbs(txt, p, l, k, e, m)
  PROVE  k \in Places(txt) /\ m \in Places(txt) /\ k <= m
<1>0. PICK n \in Nat : \E es, at : /\ es[0] = l /\ at[0] = k /\ es[n] = e /\ at[n] = m
                                    /\ TurnsAre(txt, p, n, es, at)
  BY DEF Climbs
<1>1. PICK es, at : es[0] = l /\ at[0] = k /\ es[n] = e /\ at[n] = m /\ TurnsAre(txt, p, n, es, at)
  BY <1>0
<1>2. 0 \in 0..n /\ n \in 0..n
  OBVIOUS
<1> QED
  BY <1>1, <1>2 DEF TurnsAre

\* Operators above q are above a weaker p too.
LEMMA ClimbsWeaker ==
  ASSUME NEW txt, NEW p \in 0..7, NEW q \in 0..7, p <= q, NEW l, NEW k, NEW e, NEW m,
         Climbs(txt, q, l, k, e, m)
  PROVE  Climbs(txt, p, l, k, e, m)
<1>0. PICK n \in Nat : \E es, at : /\ es[0] = l /\ at[0] = k /\ es[n] = e /\ at[n] = m
                                    /\ TurnsAre(txt, q, n, es, at)
  BY DEF Climbs
<1>1. PICK es, at : es[0] = l /\ at[0] = k /\ es[n] = e /\ at[n] = m /\ TurnsAre(txt, q, n, es, at)
  BY <1>0
<1>2. ASSUME NEW a, NEW b, NEW c, NEW d, Turn(txt, q, a, b, c, d) PROVE Turn(txt, p, a, b, c, d)
  <2>0. p # 8 /\ q # 8
    OBVIOUS
  <2>1. IsBinary(KindAt(txt, b)) /\ BinaryPrec[KindAt(txt, b)] > q
    BY <1>2, <2>0 DEF Turn, TurnOperator
  <2>2. BinaryPrec[KindAt(txt, b)] \in Nat
    BY <2>1, PrecOf
  <2>3. BinaryPrec[KindAt(txt, b)] > p
    BY ONLY <2>1, <2>2, p \in 0..7, q \in 0..7, p <= q
  <2> QED
    BY <1>2, <2>0, <2>3 DEF Turn, TurnOperator
<1>3. TurnsAre(txt, p, n, es, at)
  BY <1>1, <1>2 DEF TurnsAre
<1> QED
  BY <1>1, <1>3 DEF Climbs
-------------------------------------------------------------------------------
\* An expression starts with an operand, to which operators are added one by one.
Above(p) == IF p = 0 THEN 0 ELSE p + 1
Parts(txt, i, j, p, e) ==
  \E k \in Places(txt) : \E o :
    /\ i < k /\ Closes(txt, k)
    /\ OperandIs(txt, i, k, o) \/ SignedIs(txt, i, k, o)
    /\ Climbs(txt, p, o, k, e, j)

\* Where an expression ends in a weak context, it ends in a stronger one.
LEMMA EndsMore ==
  ASSUME NEW txt, NEW j, NEW p \in Nat, NEW q \in Nat, p <= q, Ends(txt, j, p)
  PROVE  Ends(txt, j, q)
<1>1. CASE IsBinary(KindAt(txt, j))
  <2>1. BinaryPrec[KindAt(txt, j)] <= p /\ BinaryPrec[KindAt(txt, j)] \in Nat
    BY <1>1, PrecOf DEF Ends
  <2>2. BinaryPrec[KindAt(txt, j)] <= q
    BY ONLY <2>1, p \in Nat, q \in Nat, p <= q
  <2> QED
    BY <2>2 DEF Ends
<1>2. CASE ~IsBinary(KindAt(txt, j))
  BY <1>2 DEF Ends
<1> QED
  BY <1>1, <1>2

\* Before an operator an operand ends.
LEMMA EndsHere ==
  ASSUME NEW txt, NEW j, KindAt(txt, j) \notin {"("}, NEW p,
         IsBinary(KindAt(txt, j)) => BinaryPrec[KindAt(txt, j)] <= p
  PROVE  Ends(txt, j, p)
BY DEF Ends, Closes

\* One turn more of the loop over the operators.
LEMMA PartsLast ==
  ASSUME NEW txt \in Seq(STRING), NEW i, NEW p \in 0..7, NEW q \in 0..7, p <= q, NEW m, NEW l,
         Parts(txt, i, m, q, l), NEW j \in Places(txt), m < j, NEW e, Turn(txt, p, l, m, e, j)
  PROVE  Parts(txt, i, j, p, e)
<1>1. PICK k, o : /\ k \in Places(txt) /\ i < k /\ Closes(txt, k)
                  /\ OperandIs(txt, i, k, o) \/ SignedIs(txt, i, k, o)
                  /\ Climbs(txt, q, o, k, l, m)
  BY DEF Parts
<1>2. Climbs(txt, p, o, k, l, m)
  BY <1>1, ClimbsWeaker
<1>3. Climbs(txt, p, o, k, e, j)
  BY <1>2, ClimbsLast
<1> QED
  BY <1>1, <1>3 DEF Parts

\* The left operand and the last operator after it: the loop has taken all of the left
\* operand before.
LEMMA BinaryParts ==
  ASSUME NEW txt \in Seq(STRING), NEW i \in Places(txt), NEW j \in Places(txt), NEW p \in 0..7, NEW e,
         BinaryIs(txt, i, j, p, e), Ends(txt, j, Above(p)),
         \A m \in Places(txt) : i < m /\ m < j => \A q \in 0..7 : \A l \in Reads(txt, i, m, q) :
           Ends(txt, m, Above(q)) => Parts(txt, i, m, q, l)
  PROVE  Parts(txt, i, j, p, e)
<1>1. PICK m \in Places(txt) :
    /\ i < m /\ m + 1 < j /\ IsBinary(KindAt(txt, m)) /\ KindAt(txt, m) # "?"
    /\ BinaryPrec[KindAt(txt, m)] > p
    /\ \E l \in Reads(txt, i, m, BinaryPrec[KindAt(txt, m)] - 1) :
         \E r \in Reads(txt, m + 1, j, BinaryPrec[KindAt(txt, m)]) : e = Op(KindAt(txt, m), <<l, r>>)
  BY DEF BinaryIs
<1>2. PICK q : q = BinaryPrec[KindAt(txt, m)]
  OBVIOUS
<1>3. PICK l \in Reads(txt, i, m, q - 1), r \in Reads(txt, m + 1, j, q) : e = Op(KindAt(txt, m), <<l, r>>)
  BY <1>1, <1>2
<1>4. q \in 1..6 /\ q # 1
  BY <1>1, <1>2, PrecOf
<1>5. q - 1 \in 0..7 /\ Above(q - 1) = q /\ p <= q - 1 /\ p \in Nat /\ q \in Nat
  BY <1>1, <1>2, <1>4 DEF Above
<1>6. Above(p) \in Nat /\ Above(p) <= q
  BY <1>5 DEF Above
<1>7. i \in Nat /\ m \in Nat /\ j \in Nat
  BY Between
<1>8. m < j
  BY <1>1, <1>7
<1>9. Ends(txt, m, q)
  <2>1. KindAt(txt, m) \notin {"("}
    BY <1>1 DEF IsBinary, BinaryPrec
  <2>2. q <= q
    BY <1>5
  <2> QED
    BY <1>2, <2>1, <2>2, EndsHere
<1>10. Parts(txt, i, m, q - 1, l)
  BY <1>1, <1>5, <1>8, <1>9
<1>11. Ends(txt, j, q)
  BY <1>5, <1>6, EndsMore
<1>12. Turn(txt, p, l, m, e, j)
  <2>1. TurnBinary(txt, l, m, e, j)
    BY <1>1, <1>2, <1>3, <1>11, Zenon DEF TurnBinary
  <2> QED
    BY <1>1, <2>1 DEF Turn, TurnOperator
<1> QED
  BY <1>5, <1>8, <1>10, <1>12, PartsLast

\* The same of c ? t : f.
LEMMA TernaryParts ==
  ASSUME NEW txt \in Seq(STRING), NEW i \in Places(txt), NEW j \in Places(txt), NEW p \in 0..7, NEW e,
         TernaryIs(txt, i, j, p, e), Ends(txt, j, Above(p)),
         \A m \in Places(txt) : i < m /\ m < j => \A q \in 0..7 : \A l \in Reads(txt, i, m, q) :
           Ends(txt, m, Above(q)) => Parts(txt, i, m, q, l)
  PROVE  Parts(txt, i, j, p, e)
<1>1. PICK m \in Places(txt), n \in Places(txt) :
    /\ p = 0 /\ i < m /\ m + 1 < n /\ n + 1 < j /\ KindAt(txt, m) = "?" /\ KindAt(txt, n) = ":"
    /\ \E c \in Reads(txt, i, m, 1), t \in Reads(txt, m + 1, n, 0), f \in Reads(txt, n + 1, j, 0) :
         e = Op("?", <<c, t, f>>)
  BY DEF TernaryIs
<1>2. PICK c \in Reads(txt, i, m, 1), t \in Reads(txt, m + 1, n, 0), f \in Reads(txt, n + 1, j, 0) :
         e = Op("?", <<c, t, f>>)
  BY <1>1
<1>3. i \in Nat /\ m \in Nat /\ j \in Nat /\ n \in Nat
  BY Between
<1>4. m < j
  BY <1>1, <1>3
<1>5. IsBinary("?") /\ BinaryPrec["?"] = 1 /\ Above(1) = 2 /\ Above(0) = 0
  BY DEF IsBinary, BinaryPrec, Above
<1>6. Ends(txt, m, Above(1))
  <2>1. KindAt(txt, m) \notin {"("} /\ BinaryPrec[KindAt(txt, m)] <= 2
    BY <1>1, <1>5
  <2> QED
    BY <1>5, <2>1, EndsHere
<1>7. Parts(txt, i, m, 1, c)
  <2>1. 1 \in 0..7
    OBVIOUS
  <2> QED
    BY <1>1, <1>2, <1>4, <1>6, <2>1
<1>8. Turn(txt, p, c, m, e, j)
  <2>1. TurnTernary(txt, c, m, e, j)
    BY <1>1, <1>2, <1>5, Zenon DEF TurnTernary
  <2>2. IsBinary(KindAt(txt, m)) /\ BinaryPrec[KindAt(txt, m)] > p
    BY <1>1, <1>5
  <2> QED
    BY <2>1, <2>2 DEF Turn, TurnOperator
<1>9. p <= 1 /\ 1 \in 0..7
  BY <1>1
<1> QED
  BY <1>4, <1>7, <1>8, <1>9, PartsLast

\* An expression is an operand and the turns after it, by induction over its tokens.
LEMMA Decompose ==
  ASSUME NEW txt \in Seq(STRING), NEW i \in Places(txt), NEW j \in Places(txt), i <= j,
         NEW p \in 0..7, NEW e \in Reads(txt, i, j, p), Ends(txt, j, Above(p))
  PROVE  Parts(txt, i, j, p, e)
<1> DEFINE Q(m) == \A a \in Places(txt) : \A q \in 0..7 : \A l \in Reads(txt, i, a, q) :
                     i <= a /\ a - i <= m /\ Ends(txt, a, Above(q)) => Parts(txt, i, a, q, l)
           T == {m \in Nat : Q(m)}
<1>0. i \in Nat /\ \A a \in Places(txt) : a \in Nat
  BY Between
<1>1. 0 \in T
  <2>1. Q(0)
    <3> SUFFICES ASSUME NEW a \in Places(txt), NEW q \in 0..7, NEW l \in Reads(txt, i, a, q), i <= a, a - i <= 0
                 PROVE  FALSE
      OBVIOUS
    <3>1. a = i
      BY <1>0
    <3> QED
      BY <3>1, NothingRead
  <2> QED
    BY <2>1
<1>2. ASSUME NEW m \in Nat, m \in T PROVE m + 1 \in T
  <2>0. Q(m)
    BY <1>2
  <2> SUFFICES ASSUME NEW a \in Places(txt), NEW q \in 0..7, NEW l \in Reads(txt, i, a, q),
                      i <= a, a - i <= m + 1, Ends(txt, a, Above(q))
               PROVE  Parts(txt, i, a, q, l)
    OBVIOUS
  <2>1. i < a
    BY NotEmpty
  <2>2. \A b \in Places(txt) : i < b /\ b < a => \A q2 \in 0..7 : \A l2 \in Reads(txt, i, b, q2) :
           Ends(txt, b, Above(q2)) => Parts(txt, i, b, q2, l2)
    <3> SUFFICES ASSUME NEW b \in Places(txt), i < b, b < a PROVE i <= b /\ b - i <= m
      BY <2>0
    <3> QED
      BY <1>0
  <2>3. OperandIs(txt, i, a, l) \/ SignedIs(txt, i, a, l) => Parts(txt, i, a, q, l)
    <3>1. Climbs(txt, q, l, a, l, a)
      BY ClimbsNone
    <3> QED
      BY <2>1, <3>1 DEF Parts, Ends
  <2>4. BinaryIs(txt, i, a, q, l) => Parts(txt, i, a, q, l)
    BY <2>2, BinaryParts
  <2>5. TernaryIs(txt, i, a, q, l) => Parts(txt, i, a, q, l)
    BY <2>2, TernaryParts
  <2> QED
    BY <2>3, <2>4, <2>5, Inverts
<1> HIDE DEF Q
<1>3. j - i \in T
  <2>1. j - i \in Nat
    BY <1>0
  <2>2. Nat \subseteq T
    BY <1>1, <1>2, Induction
  <2> QED
    BY <2>1, <2>2
<1>4. Q(j - i)
  BY <1>3
<1>5. j - i <= j - i
  BY <1>0
<1> QED
  BY <1>4, <1>5 DEF Q
-------------------------------------------------------------------------------
\* Before a comma and before ) an expression ends.
LEMMA EndsInList ==
  ASSUME NEW txt, NEW j, IsComma(txt, j) \/ KindAt(txt, j) = ")"
  PROVE  Ends(txt, j, 0)
<1>1. KindAt(txt, j) \notin {"("} /\ ~IsBinary(KindAt(txt, j))
  BY Zenon DEF IsBinary, BinaryPrec, IsComma
<1> QED
  BY <1>1, EndsHere

\* A list that is not empty starts with an expression, to which others are added.
Filled(txt, i, j, l) ==
  \E k \in Places(txt) : \E e \in Reads(txt, i, k, 0) :
    i < k /\ Ends(txt, k, 0) /\ Climbs(txt, 8, <<e>>, k, l, j)
Commas(txt, i, m, l) ==
  \/ i = m /\ l = <<>>
  \/ \E n \in Places(txt) : m = n + 1 /\ IsComma(txt, n) /\ Filled(txt, i, n, l)

\* One expression more after the last comma.
LEMMA FillsMore ==
  ASSUME NEW txt \in Seq(STRING), NEW i \in Places(txt), NEW m \in Places(txt), NEW j \in Places(txt),
         m < j, NEW l, Commas(txt, i, m, l), NEW e \in Reads(txt, m, j, 0), IsComma(txt, j) \/ KindAt(txt, j) = ")"
  PROVE  Filled(txt, i, j, Append(l, e))
<1>1. Ends(txt, j, 0)
  BY EndsInList
<1>2. CASE i = m /\ l = <<>>
  <2>1. Climbs(txt, 8, <<e>>, j, <<e>>, j)
    BY ClimbsNone
  <2>2. Append(l, e) = <<e>>
    BY <1>2, AppendNone
  <2>3. Filled(txt, i, j, <<e>>)
    BY <1>1, <1>2, <2>1 DEF Filled
  <2> QED
    BY <2>2, <2>3
<1>3. ASSUME NEW n \in Places(txt), m = n + 1, IsComma(txt, n), Filled(txt, i, n, l)
      PROVE  Filled(txt, i, j, Append(l, e))
  <2>0. PICK k \in Places(txt) : \E f \in Reads(txt, i, k, 0) :
          i < k /\ Ends(txt, k, 0) /\ Climbs(txt, 8, <<f>>, k, l, n)
    BY <1>3 DEF Filled
  <2>1. PICK f \in Reads(txt, i, k, 0) : i < k /\ Ends(txt, k, 0) /\ Climbs(txt, 8, <<f>>, k, l, n)
    BY <2>0
  <2>2. n < j /\ n + 1 < j /\ e \in Reads(txt, n + 1, j, 0)
    BY <1>3, Between
  <2>3. Turn(txt, 8, l, n, Append(l, e), j)
    <3>1. TurnComma(txt, l, n, Append(l, e), j)
      BY <1>1, <1>3, <2>2 DEF TurnComma
    <3> QED
      BY <3>1 DEF Turn
  <2>4. Climbs(txt, 8, <<f>>, k, Append(l, e), j)
    <3> DEFINE first == <<f>>
    <3>1. Climbs(txt, 8, first, k, l, n)
      BY <2>1
    <3> HIDE DEF first
    <3>2. Climbs(txt, 8, first, k, Append(l, e), j)
      BY ONLY <2>2, <2>3, <3>1, ClimbsLast, txt \in Seq(STRING), j \in Places(txt)
    <3> QED
      BY <3>2 DEF first
  <2> QED
    BY <2>1, <2>4 DEF Filled
<1> QED
  BY <1>2, <1>3 DEF Commas

\* A list before a comma is one of those, by induction over its tokens.
LEMMA CommasFill ==
  ASSUME NEW txt \in Seq(STRING), NEW i \in Places(txt), NEW m \in Places(txt), i <= m,
         NEW l \in Reads(txt, i, m, 8)
  PROVE  IsStack(l) /\ Commas(txt, i, m, l)
<1> DEFINE Q(n) == \A a \in Places(txt) : \A b \in Reads(txt, i, a, 8) :
                     i <= a /\ a - i <= n => IsStack(b) /\ Commas(txt, i, a, b)
           T == {n \in Nat : Q(n)}
<1>0. i \in Nat /\ \A a \in Places(txt) : a \in Nat
  BY Between
<1>a. IsStack(<<>>)
  BY AllExpNone DEF AllExp
<1>1. 0 \in T
  <2>1. Q(0)
    <3> SUFFICES ASSUME NEW a \in Places(txt), NEW b \in Reads(txt, i, a, 8), i <= a, a - i <= 0
                 PROVE  IsStack(b) /\ Commas(txt, i, a, b)
      OBVIOUS
    <3>1. a = i
      BY <1>0
    <3>2. ~(\E x \in Places(txt), y \in Places(txt) : i <= x /\ x < y /\ a = y + 1)
      BY <1>0, <3>1
    <3>3. b = <<>>
      BY ONLY <3>2, CommasGive, txt \in Seq(STRING), i \in Places(txt), a \in Places(txt), i <= a,
              b \in Reads(txt, i, a, 8)
    <3> QED
      BY <1>a, <3>1, <3>3 DEF Commas
  <2> QED
    BY <2>1
<1>2. ASSUME NEW n \in Nat, n \in T PROVE n + 1 \in T
  <2>0. Q(n)
    BY <1>2
  <2> SUFFICES ASSUME NEW a \in Places(txt), NEW b \in Reads(txt, i, a, 8), i <= a, a - i <= n + 1
               PROVE  IsStack(b) /\ Commas(txt, i, a, b)
    OBVIOUS
  <2>1. CASE i = a /\ b = <<>>
    BY <1>a, <2>1 DEF Commas
  <2>2. ASSUME NEW x \in Places(txt), NEW y \in Places(txt), i <= x, x < y, a = y + 1,
               IsComma(txt, y), NEW before \in Reads(txt, i, x, 8), NEW e \in Reads(txt, x, y, 0),
               b = Append(before, e)
        PROVE  IsStack(b) /\ Commas(txt, i, a, b)
    <3>1. x - i <= n
      <4>1. x \in Nat /\ y \in Nat /\ a \in Nat /\ i \in Nat
        BY <1>0, Zenon
      <4>2. a = y + 1 /\ x < y
        BY <2>2, Zenon
      <4> QED
        BY ONLY <4>1, <4>2, n \in Nat, a - i <= n + 1
    <3>2. IsStack(before) /\ Commas(txt, i, x, before)
      BY <2>0, <2>2, <3>1, Zenon
    <3>3. IsStack(b)
      BY <2>2, <3>2, StackGrows, Zenon
    <3>4. Filled(txt, i, y, b)
      <4>1. IsComma(txt, y) \/ KindAt(txt, y) = ")"
        BY <2>2
      <4> QED
        BY <2>2, <3>2, <4>1, FillsMore, Zenon
    <3> QED
      BY <2>2, <3>3, <3>4, Zenon DEF Commas
  <2>3. \/ i = a /\ b = <<>>
        \/ \E x \in Places(txt), y \in Places(txt) :
             /\ i <= x /\ x < y /\ a = y + 1 /\ IsComma(txt, y)
             /\ \E before \in Reads(txt, i, x, 8), e \in Reads(txt, x, y, 0) : b = Append(before, e)
    BY ONLY CommasGive, txt \in Seq(STRING), i \in Places(txt), a \in Places(txt), i <= a,
            b \in Reads(txt, i, a, 8)
  <2> QED
    BY <2>1, <2>2, <2>3, Zenon
<1> HIDE DEF Q
<1>3. m - i \in T
  <2>1. m - i \in Nat
    BY <1>0
  <2>2. Nat \subseteq T
    BY <1>1, <1>2, Induction
  <2> QED
    BY <2>1, <2>2
<1>4. Q(m - i)
  BY <1>3
<1>5. m - i <= m - i
  BY <1>0
<1> QED
  BY <1>4, <1>5 DEF Q

\* A list in parentheses: empty, or filled.
LEMMA ListFills ==
  ASSUME NEW txt \in Seq(STRING), NEW i \in Places(txt), NEW j \in Places(txt), KindAt(txt, j) = ")",
         NEW l, ReadsList(txt, i, j, l)
  PROVE  (i = j /\ l = <<>>) \/ (i < j /\ Filled(txt, i, j, l))
<1>1. ASSUME NEW m \in Places(txt), NEW before \in Reads(txt, i, m, 8), NEW e \in Reads(txt, m, j, 0),
             i <= m, m < j, l = Append(before, e)
      PROVE  i < j /\ Filled(txt, i, j, l)
  <2>1. Commas(txt, i, m, before)
    BY <1>1, CommasFill
  <2>2. i < j
    BY <1>1, Between
  <2>3. IsComma(txt, j) \/ KindAt(txt, j) = ")"
    OBVIOUS
  <2>4. Filled(txt, i, j, Append(before, e))
    BY <1>1, <2>1, <2>3, FillsMore
  <2> QED
    BY <1>1, <2>2, <2>4
<1> QED
  BY <1>1 DEF ReadsList

\* A list with elements has a last one, and the others.
LEMMA OneLess ==
  ASSUME NEW R, IsStack(R), NEW e, NEW S, S = Append(R, e), NEW n \in Nat, Len(S) = n
  PROVE  n # 0 /\ Len(R) = n - 1
<1> DEFINE a == Len(R)
<1>1. a \in Nat /\ n = a + 1
  BY StackGrows
<1> HIDE DEF a
<1>2. n # 0 /\ a = n - 1
  BY ONLY <1>1, n \in Nat
<1> QED
  BY <1>2 DEF a

\* The empty stack.
LEMMA NoElements ==
  ASSUME NEW R, IsStack(R)
  PROVE  Len(R) = 0 <=> R = <<>>
<1>1. PICK U : R \in Seq(U)
  BY DEF IsStack
<1> QED
  BY <1>1, EmptySeq

\* Two expressions in parentheses.
LEMMA ListOfTwo ==
  ASSUME NEW txt \in Seq(STRING), NEW i \in Places(txt), NEW j \in Places(txt),
         NEW l, ReadsList(txt, i, j, l), Len(l) = 2
  PROVE  \E n \in Places(txt) : \E a \in Reads(txt, i, n, 0) : \E b \in Reads(txt, n + 1, j, 0) :
           /\ l = <<a, b>> /\ IsComma(txt, n) /\ i < n /\ n + 1 < j /\ n + 1 \in Places(txt)
<1>1. PICK m, before, b : /\ m \in Places(txt) /\ before \in Reads(txt, i, m, 8) /\ b \in Reads(txt, m, j, 0)
                          /\ i <= m /\ m < j /\ l = Append(before, b)
  <2>1. l # <<>>
    <3>1. Len(<<>>) = 0 /\ 2 # 0
      OBVIOUS
    <3> QED
      BY <3>1, Zenon
  <2> QED
    BY <2>1, Zenon DEF ReadsList
<1>2. IsStack(before)
  BY <1>1, CommasFill, Zenon
<1>3. Len(before) = 1
  <2>1. Len(before) = 2 - 1
    BY <1>1, <1>2, OneLess
  <2> QED
    BY <2>1
<1>4. PICK x, n, none, a :
        /\ x \in Places(txt) /\ n \in Places(txt) /\ none \in Reads(txt, i, x, 8) /\ a \in Reads(txt, x, n, 0)
        /\ i <= x /\ x < n /\ m = n + 1 /\ IsComma(txt, n) /\ before = Append(none, a)
  <2>1. before # <<>>
    <3>1. 1 # 0
      OBVIOUS
    <3> QED
      BY <1>2, <1>3, <3>1, NoElements, Zenon
  <2>2. \/ i = m /\ before = <<>>
        \/ \E x \in Places(txt), y \in Places(txt) :
             /\ i <= x /\ x < y /\ m = y + 1 /\ IsComma(txt, y)
             /\ \E c \in Reads(txt, i, x, 8), d \in Reads(txt, x, y, 0) : before = Append(c, d)
    BY ONLY CommasGive, txt \in Seq(STRING), i \in Places(txt), <1>1
  <2> QED
    BY <2>1, <2>2, Zenon
<1>5. IsStack(none)
  BY <1>4, CommasFill, Zenon
<1>6. Len(none) = 0
  <2>1. Len(none) = 1 - 1
    BY <1>3, <1>4, <1>5, OneLess
  <2> QED
    BY <2>1
<1>7. i = x /\ none = <<>>
  <2>1. none = <<>>
    BY <1>5, <1>6, NoElements
  <2>2. \/ i = x /\ none = <<>>
        \/ \E y \in Places(txt), z \in Places(txt) :
             /\ i <= y /\ y < z /\ x = z + 1 /\ IsComma(txt, z)
             /\ \E c \in Reads(txt, i, y, 8), d \in Reads(txt, y, z, 0) : none = Append(c, d)
    BY ONLY CommasGive, txt \in Seq(STRING), i \in Places(txt), <1>4
  <2>3. ASSUME NEW y \in Places(txt), NEW c \in Reads(txt, i, y, 8), NEW d, i <= y, none = Append(c, d)
        PROVE  FALSE
    <3>1. IsStack(c)
      BY <2>3, CommasFill
    <3> QED
      BY <1>6, <2>3, <3>1, OneLess
  <2> QED
    BY <2>1, <2>2, <2>3, Zenon
<1>8. l = <<a, b>>
  BY <1>1, <1>4, <1>7, AppendNone, AppendOne
<1> QED
  BY <1>1, <1>4, <1>7, <1>8
-------------------------------------------------------------------------------
\* What the functions of the parser can do where the tokens from k to m - 1 are of
\* the grammar.  Where more than one tree could be meant, the function that is called
\* has been told which: an operand and what the loop over the operators adds to it.
CanBase(txt, S, k, T, m) ==
  k < m /\ Closes(txt, m) /\ \E e : OperandIs(txt, k, m, e) /\ T = Append(S, e)

\* A name, alone or that of an access.
CanArguments(txt, S, k, T, m) ==
  \E R : /\ IsStack(R) /\ k - 1 \in Places(txt) /\ KindAt(txt, k - 1) = "ident"
         /\ S = Append(R, Ident(TextAt(txt, k - 1)))
         /\ \/ KindAt(txt, k) # "(" /\ m = k /\ T = S
            \/ /\ KindAt(txt, k) = "("
               /\ \E n \in Places(txt) : \E l :
                    /\ m = n + 1 /\ k + 1 <= n /\ KindAt(txt, n) = ")" /\ ReadsList(txt, k + 1, n, l)
                    /\ T = Append(R, Apply(TextAt(txt, k - 1), l))

CanOperators(txt, p, S, k, T, m) ==
  \E R, l, e : /\ IsStack(R) /\ S = Append(R, l) /\ T = Append(R, e)
               /\ Climbs(txt, p, l, k, e, m) /\ Ends(txt, m, p)

CanElements(txt, S, k, T, m) ==
  \E n \in Places(txt) : \E l : /\ k <= n /\ m = n + 1 /\ KindAt(txt, n) = ")"
                                /\ ReadsList(txt, k, n, l) /\ T = Append(S, List(l))

\* The last n values are those done.
CanMore(txt, n, S, k, T, m) ==
  \E R, done, l : /\ IsStack(R) /\ IsStack(done) /\ Len(done) = n /\ S = R \o done
                  /\ Climbs(txt, 8, done, k, l, m) /\ KindAt(txt, m) = ")" /\ T = Append(R, List(l))

Can(txt, x, S, k, T, m) ==
  /\ k \in Places(txt) /\ m \in Places(txt) /\ k <= m
  /\ \/ x.call = "expect"     /\ DoesExpect(txt, x.arg, S, k, T, m) /\ x.arg \notin {"eof", "bad"}
     \/ x.call = "ident"      /\ DoesRead(txt, {"ident"}, Ident(TextAt(txt, k)), S, k, T, m)
     \/ x.call = "const"      /\ DoesNumber(txt, S, k, T, m)
     \/ x.call = "scalarType" /\ DoesRead(txt, ScalarTypes, Leaf(KindAt(txt, k)), S, k, T, m)
     \/ x.call = "make"       /\ DoesMake(x.arg[1], x.arg[2], S, k, T, m)
     \/ x.call = "exp"        /\ DoesExp(txt, x.arg, S, k, T, m)
     \/ x.call = "base"       /\ CanBase(txt, S, k, T, m)
     \/ x.call = "arguments"  /\ CanArguments(txt, S, k, T, m)
     \/ x.call = "operators"  /\ CanOperators(txt, x.arg, S, k, T, m)
     \/ x.call = "elements"   /\ x.arg[1] = Exp(0) /\ x.arg[2] = ")" /\ CanElements(txt, S, k, T, m)
     \/ x.call = "more"       /\ x.arg[1] = Exp(0) /\ CanMore(txt, x.arg[2], S, k, T, m)

\* The items one after the other.
Course(txt, h, items, S, k) ==
  /\ h[1] = <<S, k>>
  /\ \A p \in 1..(Len(items) + 1) : h[p] = <<h[p][1], h[p][2]>>
  /\ \A p \in 1..Len(items) : Can(txt, items[p], h[p][1], h[p][2], h[p + 1][1], h[p + 1][2])
Gets(txt, items, S, k, T, m) ==
  IsStack(items) /\ \E h : Course(txt, h, items, S, k) /\ h[Len(items) + 1] = <<T, m>>

\* No items change nothing.
LEMMA GetsNone ==
  ASSUME NEW txt, NEW S, NEW k, NEW T, NEW m
  PROVE  Gets(txt, <<>>, S, k, T, m) <=> S = T /\ k = m
<1>1. IsStack(<<>>) /\ Len(<<>>) = 0
  <2>1. <<>> \in Seq({})
    OBVIOUS
  <2> QED
    BY <2>1 DEF IsStack
<1>2. ASSUME Gets(txt, <<>>, S, k, T, m) PROVE S = T /\ k = m
  <2>1. PICK h : Course(txt, h, <<>>, S, k) /\ h[Len(<<>>) + 1] = <<T, m>>
    BY <1>2 DEF Gets
  <2>2. h[1] = <<S, k>> /\ h[1] = <<T, m>>
    BY <1>1, <2>1 DEF Course
  <2> QED
    BY <2>2
<1>3. ASSUME S = T, k = m PROVE Gets(txt, <<>>, S, k, T, m)
  <2> DEFINE h == [p \in {1} |-> <<S, k>>]
  <2>1. Course(txt, h, <<>>, S, k)
    BY <1>1 DEF Course
  <2>2. h[Len(<<>>) + 1] = <<T, m>>
    BY <1>1, <1>3
  <2> HIDE DEF h
  <2> QED
    BY <1>1, <2>1, <2>2 DEF Gets
<1> QED
  BY <1>2, <1>3

\* The first item, and the others from where it stops.
LEMMA GetsFirst ==
  ASSUME NEW txt, NEW items, items # <<>>, NEW S, NEW k, NEW T, NEW m, Gets(txt, items, S, k, T, m)
  PROVE  \E R, j : Can(txt, items[1], S, k, R, j) /\ Gets(txt, Tail(items), R, j, T, m)
<1>1. PICK h : Course(txt, h, items, S, k) /\ h[Len(items) + 1] = <<T, m>>
  BY DEF Gets
<1>0. PICK U : items \in Seq(U)
  BY DEF Gets, IsStack
<1>2. Len(items) \in Nat \ {0} /\ 1 \in 1..Len(items)
  BY <1>0
<1> DEFINE R == h[2][1]
           j == h[2][2]
           g == [p \in 1..Len(items) |-> h[p + 1]]
           rest == Tail(items)
<1>3. Can(txt, items[1], S, k, R, j)
  <2>1. h[1][1] = S /\ h[1][2] = k /\ 1 + 1 = 2
    BY <1>1 DEF Course
  <2> QED
    BY <1>1, <1>2, <2>1 DEF Course
<1>4. /\ Len(rest) = Len(items) - 1 /\ \A p \in 1..Len(rest) : rest[p] = items[p + 1]
      /\ rest \in Seq(U)
  BY <1>0, <1>2
<1>5. \A p \in 1..Len(items) : g[p] = h[p + 1] /\ g[p] = <<g[p][1], g[p][2]>>
  <2> SUFFICES ASSUME NEW p \in 1..Len(items) PROVE g[p] = h[p + 1] /\ g[p] = <<g[p][1], g[p][2]>>
    OBVIOUS
  <2>1. p + 1 \in 1..(Len(items) + 1) /\ g[p] = h[p + 1]
    BY <1>2
  <2> HIDE DEF g
  <2> QED
    BY <1>1, <2>1 DEF Course
<1>6. g[1] = <<R, j>> /\ g[Len(items)] = h[Len(items) + 1]
  <2>1. Len(items) \in 1..Len(items) /\ 1 + 1 = 2
    BY <1>2
  <2> HIDE DEF g
  <2> QED
    BY <1>2, <1>5, <2>1
<1> HIDE DEF R, j, g, rest
<1>7. Course(txt, g, rest, R, j)
  <2>0. \A p \in 1..(Len(rest) + 1) : g[p] = <<g[p][1], g[p][2]>>
    BY <1>2, <1>4, <1>5
  <2> SUFFICES ASSUME NEW p \in 1..Len(rest)
               PROVE  Can(txt, rest[p], g[p][1], g[p][2], g[p + 1][1], g[p + 1][2])
    BY <1>6, <2>0 DEF Course
  <2>1. p + 1 \in 1..Len(items) /\ p \in 1..Len(items) /\ rest[p] = items[p + 1]
    BY <1>2, <1>4
  <2>2. Can(txt, items[p + 1], h[p + 1][1], h[p + 1][2], h[(p + 1) + 1][1], h[(p + 1) + 1][2])
    BY <1>1, <2>1 DEF Course
  <2> QED
    BY <1>5, <2>1, <2>2
<1>8. g[Len(rest) + 1] = <<T, m>>
  BY <1>1, <1>2, <1>4, <1>6
<1>9. Gets(txt, rest, R, j, T, m)
  BY <1>4, <1>7, <1>8 DEF Gets, IsStack
<1> QED
  BY <1>3, <1>9 DEF rest

\* An item before others.
LEMMA GetsMore ==
  ASSUME NEW txt, NEW items, items # <<>>, IsStack(items), NEW S, NEW k, NEW R, NEW j, NEW T, NEW m,
         Can(txt, items[1], S, k, R, j), Gets(txt, Tail(items), R, j, T, m)
  PROVE  Gets(txt, items, S, k, T, m)
<1> DEFINE rest == Tail(items)
<1>0. PICK U : items \in Seq(U)
  BY DEF IsStack
<1>1. PICK g : Course(txt, g, rest, R, j) /\ g[Len(rest) + 1] = <<T, m>>
  BY DEF Gets
<1>2. /\ Len(items) \in Nat \ {0} /\ Len(rest) = Len(items) - 1
      /\ \A p \in 1..Len(rest) : rest[p] = items[p + 1]
  BY <1>0
<1> DEFINE h == [p \in 1..(Len(items) + 1) |-> IF p = 1 THEN <<S, k>> ELSE g[p - 1]]
<1>3. h[1] = <<S, k>> /\ \A p \in 1..Len(items) : h[p + 1] = g[p]
  BY <1>2
<1>4. g[1] = <<R, j>>
  BY <1>1 DEF Course
<1> HIDE DEF rest
<1>7. \A p \in 1..(Len(items) + 1) : h[p] = <<h[p][1], h[p][2]>>
  <2> SUFFICES ASSUME NEW p \in 1..(Len(items) + 1) PROVE h[p] = <<h[p][1], h[p][2]>>
    OBVIOUS
  <2>1. CASE p = 1
    BY <1>3, <2>1
  <2>2. CASE p # 1
    <3>1. p - 1 \in 1..(Len(rest) + 1) /\ h[p] = g[p - 1]
      BY <1>2, <2>2
    <3> HIDE DEF h
    <3> QED
      BY <1>1, <3>1 DEF Course
  <2> QED
    BY <2>1, <2>2
<1> HIDE DEF h
<1>5. Course(txt, h, items, S, k)
  <2> SUFFICES ASSUME NEW p \in 1..Len(items)
               PROVE  Can(txt, items[p], h[p][1], h[p][2], h[p + 1][1], h[p + 1][2])
    BY <1>3, <1>7 DEF Course
  <2>1. CASE p = 1
    <3>1. h[p] = <<S, k>> /\ h[p + 1] = <<R, j>>
      BY <1>2, <1>3, <1>4, <2>1
    <3> QED
      BY <2>1, <3>1
  <2>2. CASE p # 1
    <3> DEFINE q == p - 1
    <3>1. q \in 1..Len(rest) /\ q \in 1..Len(items) /\ q + 1 \in 1..Len(items) /\ p = q + 1
      BY <1>2, <2>2
    <3> HIDE DEF q
    <3>2. h[p] = g[q] /\ h[p + 1] = g[q + 1] /\ items[p] = rest[q]
      BY <1>2, <1>3, <3>1
    <3>3. Can(txt, rest[q], g[q][1], g[q][2], g[q + 1][1], g[q + 1][2])
      BY <1>1, <3>1 DEF Course
    <3> QED
      BY <3>2, <3>3
  <2> QED
    BY <2>1, <2>2
<1>6. h[Len(items) + 1] = <<T, m>>
  <2>1. Len(items) \in 1..Len(items) /\ Len(rest) + 1 = Len(items)
    BY <1>2
  <2> QED
    BY <1>1, <1>3, <2>1
<1> QED
  BY <1>5, <1>6 DEF Gets

\* Items before the items r, one by one.
LEMMA GetsCons ==
  ASSUME NEW txt, NEW s, IsStack(s), s # <<>>, NEW r, IsStack(r), NEW S, NEW k, NEW R, NEW j, NEW T, NEW m,
         Can(txt, s[1], S, k, R, j), Gets(txt, Tail(s) \o r, R, j, T, m)
  PROVE  Gets(txt, s \o r, S, k, T, m)
<1>0. PICK U : s \in Seq(U)
  BY DEF IsStack
<1>1. PICK V : r \in Seq(V)
  BY DEF IsStack
<1> DEFINE W == U \cup V
<1>2. s \in Seq(W) /\ r \in Seq(W)
  BY <1>0, <1>1
<1> HIDE DEF W
<1>3. /\ s \o r \in Seq(W) /\ s \o r # <<>> /\ (s \o r)[1] = s[1]
      /\ Tail(s \o r) = Tail(s) \o r
  <2>1. Len(s) \in Nat \ {0} /\ Len(r) \in Nat
    BY <1>2, EmptySeq
  <2>2. /\ s \o r \in Seq(W) /\ Len(s \o r) = Len(s) + Len(r)
        /\ \A p \in 1..(Len(s) + Len(r)) : (s \o r)[p] = IF p <= Len(s) THEN s[p] ELSE r[p - Len(s)]
    BY <1>2, ConcatProperties
  <2>3. s \o r # <<>> /\ (s \o r)[1] = s[1]
    BY <2>1, <2>2
  <2>4. /\ Tail(s) \in Seq(W) /\ Len(Tail(s)) = Len(s) - 1
        /\ \A p \in 1..(Len(s) - 1) : Tail(s)[p] = s[p + 1]
    BY <1>2, HeadTailProperties
  <2>5. /\ Tail(s \o r) \in Seq(W) /\ Len(Tail(s \o r)) = Len(s \o r) - 1
        /\ \A p \in 1..(Len(s \o r) - 1) : Tail(s \o r)[p] = (s \o r)[p + 1]
    BY <2>2, <2>3, HeadTailProperties
  <2>6. /\ Tail(s) \o r \in Seq(W) /\ Len(Tail(s) \o r) = Len(s) - 1 + Len(r)
        /\ \A p \in 1..(Len(s) - 1 + Len(r)) :
             (Tail(s) \o r)[p] = IF p <= Len(s) - 1 THEN Tail(s)[p] ELSE r[p - (Len(s) - 1)]
    BY <1>2, <2>4, ConcatProperties
  <2>7. \A p \in 1..(Len(s) - 1 + Len(r)) : Tail(s \o r)[p] = (Tail(s) \o r)[p]
    <3> SUFFICES ASSUME NEW p \in 1..(Len(s) - 1 + Len(r)) PROVE Tail(s \o r)[p] = (Tail(s) \o r)[p]
      OBVIOUS
    <3>1. Tail(s \o r)[p] = (s \o r)[p + 1] /\ p + 1 \in 1..(Len(s) + Len(r))
      BY <2>1, <2>2, <2>5
    <3>2. (p + 1) - Len(s) = p - (Len(s) - 1) /\ (p + 1 <= Len(s) <=> p <= Len(s) - 1)
      BY <2>1
    <3>3. (s \o r)[p + 1] = IF p + 1 <= Len(s) THEN s[p + 1] ELSE r[(p + 1) - Len(s)]
      BY <2>2, <3>1
    <3>4. p <= Len(s) - 1 => Tail(s)[p] = s[p + 1]
      BY <2>1, <2>4
    <3> QED
      BY <2>6, <3>1, <3>2, <3>3, <3>4
  <2> QED
    BY <2>1, <2>2, <2>3, <2>5, <2>6, <2>7, SeqEqual
<1> QED
  BY <1>3, GetsMore DEF IsStack
-------------------------------------------------------------------------------
\* Several items before the items r.
LEMMA Gets1 ==
  ASSUME NEW txt, NEW a, NEW r, NEW S, NEW k, NEW S1, NEW k1, NEW T, NEW m,
         Can(txt, a, S, k, S1, k1), Gets(txt, r, S1, k1, T, m)
  PROVE  Gets(txt, <<a>> \o r, S, k, T, m)
<1>0. IsStack(r)
  BY DEF Gets
<1>1. <<>> \o r = r /\ IsStack(<<a>>)
  <2>1. PICK U : r \in Seq(U)
    BY <1>0 DEF IsStack
  <2>2. <<a>> \in Seq({a})
    OBVIOUS
  <2> QED
    BY <2>1, <2>2, ConcatEmptySeq DEF IsStack
<1> DEFINE s == <<a>>
<1>2. s # <<>> /\ s[1] = a /\ Tail(s) \o r = r
  BY <1>1, TupleParts
<1> HIDE DEF s
<1>3. IsStack(s)
  BY <1>1 DEF s
<1>4. Gets(txt, s \o r, S, k, T, m)
  BY ONLY <1>0, <1>2, <1>3, GetsCons, Can(txt, a, S, k, S1, k1), Gets(txt, r, S1, k1, T, m)
<1> QED
  BY <1>4 DEF s

\* Two items.
LEMMA Gets2 ==
  ASSUME NEW txt, NEW a, NEW b, NEW r, NEW S, NEW k, NEW S1, NEW k1, NEW S2, NEW k2, NEW T, NEW m,
         Can(txt, a, S, k, S1, k1), Can(txt, b, S1, k1, S2, k2), Gets(txt, r, S2, k2, T, m)
  PROVE  Gets(txt, <<a, b>> \o r, S, k, T, m)
<1> DEFINE s    == <<a, b>>
           rest == <<b>>
<1>1. Gets(txt, rest \o r, S1, k1, T, m)
  BY Gets1
<1>2. s # <<>> /\ s[1] = a /\ Tail(s) = rest
  OBVIOUS
<1>3. IsStack(s)
  <2>1. s \in Seq({a, b})
    OBVIOUS
  <2> QED
    BY <2>1 DEF IsStack
<1>4. IsStack(r)
  BY DEF Gets
<1> HIDE DEF s, rest
<1>5. Gets(txt, s \o r, S, k, T, m)
  BY ONLY <1>1, <1>2, <1>3, <1>4, GetsCons, Can(txt, a, S, k, S1, k1)
<1> QED
  BY <1>5 DEF s

\* Three items.
LEMMA Gets3 ==
  ASSUME NEW txt, NEW a, NEW b, NEW c, NEW r, NEW S, NEW k, NEW S1, NEW k1, NEW S2, NEW k2, NEW S3,
         NEW k3, NEW T, NEW m, Can(txt, a, S, k, S1, k1), Can(txt, b, S1, k1, S2, k2),
         Can(txt, c, S2, k2, S3, k3), Gets(txt, r, S3, k3, T, m)
  PROVE  Gets(txt, <<a, b, c>> \o r, S, k, T, m)
<1> DEFINE s    == <<a, b, c>>
           rest == <<b, c>>
<1>1. Gets(txt, rest \o r, S1, k1, T, m)
  BY Gets2
<1>2. s # <<>> /\ s[1] = a /\ Tail(s) = rest
  OBVIOUS
<1>3. IsStack(s)
  <2>1. s \in Seq({a, b, c})
    OBVIOUS
  <2> QED
    BY <2>1 DEF IsStack
<1>4. IsStack(r)
  BY DEF Gets
<1> HIDE DEF s, rest
<1>5. Gets(txt, s \o r, S, k, T, m)
  BY ONLY <1>1, <1>2, <1>3, <1>4, GetsCons, Can(txt, a, S, k, S1, k1)
<1> QED
  BY <1>5 DEF s

\* Four items.
LEMMA Gets4 ==
  ASSUME NEW txt, NEW a, NEW b, NEW c, NEW d, NEW r, NEW S, NEW k, NEW S1, NEW k1, NEW S2, NEW k2,
         NEW S3, NEW k3, NEW S4, NEW k4, NEW T, NEW m, Can(txt, a, S, k, S1, k1),
         Can(txt, b, S1, k1, S2, k2), Can(txt, c, S2, k2, S3, k3), Can(txt, d, S3, k3, S4, k4),
         Gets(txt, r, S4, k4, T, m)
  PROVE  Gets(txt, <<a, b, c, d>> \o r, S, k, T, m)
<1> DEFINE s    == <<a, b, c, d>>
           rest == <<b, c, d>>
<1>1. Gets(txt, rest \o r, S1, k1, T, m)
  BY Gets3
<1>2. s # <<>> /\ s[1] = a /\ Tail(s) = rest
  OBVIOUS
<1>3. IsStack(s)
  <2>1. s \in Seq({a, b, c, d})
    OBVIOUS
  <2> QED
    BY <2>1 DEF IsStack
<1>4. IsStack(r)
  BY DEF Gets
<1> HIDE DEF s, rest
<1>5. Gets(txt, s \o r, S, k, T, m)
  BY ONLY <1>1, <1>2, <1>3, <1>4, GetsCons, Can(txt, a, S, k, S1, k1)
<1> QED
  BY <1>5 DEF s

\* Five items.
LEMMA Gets5 ==
  ASSUME NEW txt, NEW a, NEW b, NEW c, NEW d, NEW e, NEW r, NEW S, NEW k, NEW S1, NEW k1, NEW S2,
         NEW k2, NEW S3, NEW k3, NEW S4, NEW k4, NEW S5, NEW k5, NEW T, NEW m,
         Can(txt, a, S, k, S1, k1), Can(txt, b, S1, k1, S2, k2), Can(txt, c, S2, k2, S3, k3),
         Can(txt, d, S3, k3, S4, k4), Can(txt, e, S4, k4, S5, k5), Gets(txt, r, S5, k5, T, m)
  PROVE  Gets(txt, <<a, b, c, d, e>> \o r, S, k, T, m)
<1> DEFINE s    == <<a, b, c, d, e>>
           rest == <<b, c, d, e>>
<1>1. Gets(txt, rest \o r, S1, k1, T, m)
  BY Gets4
<1>2. s # <<>> /\ s[1] = a /\ Tail(s) = rest
  OBVIOUS
<1>3. IsStack(s)
  <2>1. s \in Seq({a, b, c, d, e})
    OBVIOUS
  <2> QED
    BY <2>1 DEF IsStack
<1>4. IsStack(r)
  BY DEF Gets
<1> HIDE DEF s, rest
<1>5. Gets(txt, s \o r, S, k, T, m)
  BY ONLY <1>1, <1>2, <1>3, <1>4, GetsCons, Can(txt, a, S, k, S1, k1)
<1> QED
  BY <1>5 DEF s

\* Six items.
LEMMA Gets6 ==
  ASSUME NEW txt, NEW a, NEW b, NEW c, NEW d, NEW e, NEW f, NEW r, NEW S, NEW k, NEW S1, NEW k1,
         NEW S2, NEW k2, NEW S3, NEW k3, NEW S4, NEW k4, NEW S5, NEW k5, NEW S6, NEW k6, NEW T, NEW m,
         Can(txt, a, S, k, S1, k1), Can(txt, b, S1, k1, S2, k2), Can(txt, c, S2, k2, S3, k3),
         Can(txt, d, S3, k3, S4, k4), Can(txt, e, S4, k4, S5, k5), Can(txt, f, S5, k5, S6, k6),
         Gets(txt, r, S6, k6, T, m)
  PROVE  Gets(txt, <<a, b, c, d, e, f>> \o r, S, k, T, m)
<1> DEFINE s    == <<a, b, c, d, e, f>>
           rest == <<b, c, d, e, f>>
<1>1. Gets(txt, rest \o r, S1, k1, T, m)
  BY Gets5
<1>2. s # <<>> /\ s[1] = a /\ Tail(s) = rest
  OBVIOUS
<1>3. IsStack(s)
  <2>1. s \in Seq({a, b, c, d, e, f})
    OBVIOUS
  <2> QED
    BY <2>1 DEF IsStack
<1>4. IsStack(r)
  BY DEF Gets
<1> HIDE DEF s, rest
<1>5. Gets(txt, s \o r, S, k, T, m)
  BY ONLY <1>1, <1>2, <1>3, <1>4, GetsCons, Can(txt, a, S, k, S1, k1)
<1> QED
  BY <1>5 DEF s
-------------------------------------------------------------------------------
\* The items that the bodies of the functions are made of.
LEMMA CanTok ==
  ASSUME NEW txt, NEW c, c \notin {"eof", "bad"}, NEW k \in Places(txt), k \in Nat, k + 1 \in Places(txt),
         KindAt(txt, k) = c, NEW S
  PROVE  Can(txt, Tok(c), S, k, S, k + 1)
<1>1. Tok(c).call = "expect" /\ Tok(c).arg = c /\ k <= k + 1
  BY DEF Tok
<1> HIDE DEF Tok
<1> QED
  BY <1>1 DEF Can, DoesExpect

\* An expression.
LEMMA CanExp ==
  ASSUME NEW txt \in Seq(STRING), NEW k \in Places(txt), NEW m \in Places(txt), k < m, NEW p,
         NEW e \in Reads(txt, k, m, p), Ends(txt, m, p), NEW S
  PROVE  Can(txt, Exp(p), S, k, Append(S, e), m)
<1>1. Exp(p).call = "exp" /\ Exp(p).arg = p
  BY DEF Exp, With
<1>2. k <= m
  BY Between
<1>3. DoesExp(txt, p, S, k, Append(S, e), m)
  BY DEF DoesExp
<1> QED
  BY <1>1, <1>2, <1>3 DEF Can

\* A node.
LEMMA CanMake ==
  ASSUME NEW txt \in Seq(STRING), NEW k \in Places(txt), NEW node, NEW n, NEW S, NEW T,
         DoesMake(node, n, S, k, T, k)
  PROVE  Can(txt, Make(node, n), S, k, T, k)
<1>1. Make(node, n).call = "make" /\ Make(node, n).arg[1] = node /\ Make(node, n).arg[2] = n
  BY DEF Make
<1>2. k <= k
  BY Between
<1> QED
  BY <1>1, <1>2 DEF Can

\* A node of the last value.
LEMMA CanMakeOne ==
  ASSUME NEW txt \in Seq(STRING), NEW k \in Places(txt), NEW node, NEW R, IsStack(R), NEW a
  PROVE  Can(txt, Make(node, 1), Append(R, a), k, Append(R, Created(node, <<a>>)), k)
<1> DEFINE Q == Append(R, a)
           T == Append(SubSeq(Q, 1, Len(Q) - 1), Created(node, SubSeq(Q, Len(Q) - 1 + 1, Len(Q))))
<1>1. DoesMake(node, 1, Q, k, T, k)
  BY DEF DoesMake
<1> HIDE DEF T
<1>2. T = Append(R, Created(node, <<a>>))
  BY <1>1, MakesOfOne
<1> QED
  BY <1>1, <1>2, CanMake

\* A node of the last two values.
LEMMA CanMakeTwo ==
  ASSUME NEW txt \in Seq(STRING), NEW k \in Places(txt), NEW node, NEW R, IsStack(R), NEW a, NEW b
  PROVE  Can(txt, Make(node, 2), Append(Append(R, a), b), k, Append(R, Created(node, <<a, b>>)), k)
<1> DEFINE Q == Append(Append(R, a), b)
           T == Append(SubSeq(Q, 1, Len(Q) - 2), Created(node, SubSeq(Q, Len(Q) - 2 + 1, Len(Q))))
<1>1. DoesMake(node, 2, Q, k, T, k)
  BY DEF DoesMake
<1> HIDE DEF T
<1>2. T = Append(R, Created(node, <<a, b>>))
  BY <1>1, MakesOfTwo
<1> QED
  BY <1>1, <1>2, CanMake

\* A node of the last three values.
LEMMA CanMakeThree ==
  ASSUME NEW txt \in Seq(STRING), NEW k \in Places(txt), NEW node, NEW R, IsStack(R), NEW a, NEW b, NEW c
  PROVE  Can(txt, Make(node, 3), Append(Append(Append(R, a), b), c), k,
             Append(R, Created(node, <<a, b, c>>)), k)
<1> DEFINE Q == Append(Append(Append(R, a), b), c)
           T == Append(SubSeq(Q, 1, Len(Q) - 3), Created(node, SubSeq(Q, Len(Q) - 3 + 1, Len(Q))))
<1>1. DoesMake(node, 3, Q, k, T, k)
  BY DEF DoesMake
<1> HIDE DEF T
<1>2. T = Append(R, Created(node, <<a, b, c>>))
  BY <1>1, MakesOfThree
<1> QED
  BY <1>1, <1>2, CanMake

\* The loop over the operators.
LEMMA CanOps ==
  ASSUME NEW txt \in Seq(STRING), NEW p, NEW R, IsStack(R), NEW l, NEW k, NEW e, NEW m,
         Climbs(txt, p, l, k, e, m), Ends(txt, m, p)
  PROVE  Can(txt, With("operators", p), Append(R, l), k, Append(R, e), m)
<1>1. With("operators", p).call = "operators" /\ With("operators", p).arg = p
  BY DEF With
<1>2. k \in Places(txt) /\ m \in Places(txt) /\ k <= m
  BY ClimbsOn
<1>3. CanOperators(txt, p, Append(R, l), k, Append(R, e), m)
  BY DEF CanOperators
<1> QED
  BY <1>1, <1>2, <1>3 DEF Can

\* What an item can do, by its name.
LEMMA CanIs ==
  ASSUME NEW txt, NEW x, NEW S, NEW k, NEW T, NEW m, Can(txt, x, S, k, T, m)
  PROVE  /\ k \in Places(txt) /\ m \in Places(txt) /\ k <= m
         /\ x.call \in {"expect", "ident", "const", "scalarType", "base", "exp", "arguments", "operators",
                        "elements", "more", "make"}
         /\ x.call = "expect"     => DoesExpect(txt, x.arg, S, k, T, m) /\ x.arg \notin {"eof", "bad"}
         /\ x.call = "ident"      => DoesRead(txt, {"ident"}, Ident(TextAt(txt, k)), S, k, T, m)
         /\ x.call = "const"      => DoesNumber(txt, S, k, T, m)
         /\ x.call = "scalarType" => DoesRead(txt, ScalarTypes, Leaf(KindAt(txt, k)), S, k, T, m)
         /\ x.call = "make"       => DoesMake(x.arg[1], x.arg[2], S, k, T, m)
         /\ x.call = "exp"        => DoesExp(txt, x.arg, S, k, T, m)
         /\ x.call = "base"       => CanBase(txt, S, k, T, m)
         /\ x.call = "arguments"  => CanArguments(txt, S, k, T, m)
         /\ x.call = "operators"  => CanOperators(txt, x.arg, S, k, T, m)
         /\ x.call = "elements"   => x.arg[1] = Exp(0) /\ x.arg[2] = ")" /\ CanElements(txt, S, k, T, m)
         /\ x.call = "more"       => x.arg[1] = Exp(0) /\ CanMore(txt, x.arg[2], S, k, T, m)
BY DEF Can
-------------------------------------------------------------------------------
\* The first token of an operand tells which it is.
LEMMA OperandAt ==
  ASSUME NEW txt, NEW i, NEW j, NEW e, OperandIs(txt, i, j, e)
  PROVE  LET op == KindAt(txt, i)
         IN  /\ op \in {"ident", "number", "(", "min", "max"} \cup ScalarTypes
             /\ op = "number" => /\ j = i + 1 /\ e = Number(TextAt(txt, i))
                                /\ TextAt(txt, i) \notin OutOfRange
             /\ op = "(" => \E n \in Places(txt) : /\ j = n + 1 /\ KindAt(txt, n) = ")" /\ i + 1 < n
                                                   /\ e \in Reads(txt, i + 1, n, 0)
             /\ op \in ScalarTypes => \E n \in Places(txt) :
                  /\ j = n + 1 /\ KindAt(txt, n) = ")" /\ KindAt(txt, i + 1) = "(" /\ i + 2 < n
                  /\ \E f \in Reads(txt, i + 2, n, 0) : e = Op(op, <<f>>)
             /\ op \in {"min", "max"} => \E n \in Places(txt) :
                  /\ j = n + 1 /\ KindAt(txt, n) = ")" /\ KindAt(txt, i + 1) = "(" /\ i + 2 <= n
                  /\ \E l : ReadsList(txt, i + 2, n, l) /\ Len(l) = 2 /\ e = Op(op, l)
             /\ op = "ident" =>
                  \/ j = i + 1 /\ e = Ident(TextAt(txt, i))
                  \/ \E n \in Places(txt) :
                       /\ j = n + 1 /\ KindAt(txt, n) = ")" /\ KindAt(txt, i + 1) = "(" /\ i + 2 <= n
                       /\ \E l : ReadsList(txt, i + 2, n, l) /\ e = Apply(TextAt(txt, i), l)
BY DEF OperandIs, ScalarTypes

\* A type is the first token of a cast.
LEMMA CastAt ==
  ASSUME NEW txt, NEW i, NEW j, NEW e, OperandIs(txt, i, j, e), NEW op, op = KindAt(txt, i), op \in ScalarTypes
  PROVE  \E n \in Places(txt) :
           /\ j = n + 1 /\ KindAt(txt, n) = ")" /\ KindAt(txt, i + 1) = "(" /\ i + 2 < n
           /\ \E f \in Reads(txt, i + 2, n, 0) : e = Op(op, <<f>>)
BY DEF OperandIs, ScalarTypes

\* Places are numbers, without gaps.
LEMMA PlacesTo ==
  ASSUME NEW txt \in Seq(STRING), NEW k \in Places(txt), NEW n \in Places(txt)
  PROVE  /\ k \in Nat /\ n \in Nat
         /\ \A q \in Nat : k <= q /\ q <= n => q \in Places(txt)
BY Between
-------------------------------------------------------------------------------
\* The bodies of parseBaseExp.
LEMMA GetsConst ==
  ASSUME NEW txt \in Seq(STRING), NEW k \in Places(txt), NEW j \in Places(txt), KindAt(txt, k) = "number",
         NEW S, NEW R, CanBase(txt, S, k, R, j), NEW r, NEW T, NEW m, Gets(txt, r, R, j, T, m)
  PROVE  Gets(txt, <<Call("const")>> \o r, S, k, T, m)
<1>1. PICK e : OperandIs(txt, k, j, e) /\ R = Append(S, e)
  BY DEF CanBase
<1>2. j = k + 1 /\ e = Number(TextAt(txt, k)) /\ TextAt(txt, k) \notin OutOfRange
  BY <1>1, OperandAt
<1>3. Can(txt, Call("const"), S, k, R, j)
  <2>1. Call("const").call = "const"
    BY DEF Call
  <2>2. k <= j
    BY <1>2, PlacesTo
  <2>3. DoesNumber(txt, S, k, R, j)
    BY <1>1, <1>2 DEF DoesRead, DoesNumber
  <2> QED
    BY <2>1, <2>2, <2>3 DEF Can
<1> QED
  BY <1>3, Gets1

\* parseBaseExp at "(".
LEMMA GetsParens ==
  ASSUME NEW txt \in Seq(STRING), NEW k \in Places(txt), NEW j \in Places(txt), KindAt(txt, k) = "(",
         NEW S, NEW R, CanBase(txt, S, k, R, j), NEW r, NEW T, NEW m, Gets(txt, r, R, j, T, m)
  PROVE  Gets(txt, <<Exp(0), Tok(")")>> \o r, S, k + 1, T, m)
<1>1. PICK e : OperandIs(txt, k, j, e) /\ R = Append(S, e)
  BY DEF CanBase
<1>2. PICK n \in Places(txt) : j = n + 1 /\ KindAt(txt, n) = ")" /\ k + 1 < n /\ e \in Reads(txt, k + 1, n, 0)
  BY <1>1, OperandAt
<1>3. k + 1 \in Places(txt) /\ n \in Nat
  <2>1. k \in Nat /\ n \in Nat /\ (k <= k + 1 /\ k + 1 <= n => k + 1 \in Places(txt))
    BY PlacesTo
  <2> QED
    BY ONLY <1>2, <2>1
<1>4. Ends(txt, n, 0)
  BY <1>2, EndsInList
<1>5. Can(txt, Exp(0), S, k + 1, Append(S, e), n)
  BY <1>2, <1>3, <1>4, CanExp
<1>6. Can(txt, Tok(")"), R, n, R, j)
  BY <1>2, <1>3, CanTok
<1> QED
  BY <1>1, <1>5, <1>6, Gets2

\* parseBaseExp at a type.
LEMMA GetsCast ==
  ASSUME NEW txt \in Seq(STRING), NEW k \in Places(txt), NEW j \in Places(txt), KindAt(txt, k) \in ScalarTypes,
         NEW S, IsStack(S), NEW R, CanBase(txt, S, k, R, j), NEW r, NEW T, NEW m, Gets(txt, r, R, j, T, m)
  PROVE  Gets(txt, <<Call("scalarType"), Tok("("), Exp(0), Tok(")"), Make("cast", 2)>> \o r, S, k, T, m)
<1> DEFINE op == KindAt(txt, k)
           S1 == Append(S, Leaf(op))
<1>1. PICK e : OperandIs(txt, k, j, e) /\ R = Append(S, e)
  BY DEF CanBase
<1>2. PICK n \in Places(txt) :
        /\ j = n + 1 /\ KindAt(txt, n) = ")" /\ KindAt(txt, k + 1) = "(" /\ k + 2 < n
        /\ \E f \in Reads(txt, k + 2, n, 0) : e = Op(op, <<f>>)
  BY <1>1, CastAt
<1>3. PICK f \in Reads(txt, k + 2, n, 0) : e = Op(op, <<f>>)
  BY <1>2
<1>4. k \in Nat /\ n \in Nat /\ k + 1 \in Places(txt) /\ k + 2 \in Places(txt)
      /\ k + 1 \in Nat /\ k <= k + 1 /\ (k + 1) + 1 = k + 2
  <2>1. k \in Nat /\ n \in Nat /\ (k <= k + 1 /\ k + 1 <= n => k + 1 \in Places(txt))
        /\ (k <= k + 2 /\ k + 2 <= n => k + 2 \in Places(txt))
    BY PlacesTo
  <2> QED
    BY ONLY <1>2, <2>1
<1>5. Can(txt, Call("scalarType"), S, k, S1, k + 1)
  <2>1. Call("scalarType").call = "scalarType"
    BY DEF Call
  <2>2. DoesRead(txt, ScalarTypes, Leaf(KindAt(txt, k)), S, k, S1, k + 1)
    BY DEF DoesRead
  <2> QED
    BY <1>4, <2>1, <2>2 DEF Can
<1> HIDE DEF op, S1
<1>6. Can(txt, Tok("("), S1, k + 1, S1, k + 2)
  <2>1. "(" \notin {"eof", "bad"}
    OBVIOUS
  <2> QED
    BY ONLY <1>2, <1>4, <2>1, CanTok
<1>7. Can(txt, Exp(0), S1, k + 2, Append(S1, f), n)
  <2>1. Ends(txt, n, 0)
    BY <1>2, EndsInList
  <2> QED
    BY <1>2, <1>3, <1>4, <2>1, CanExp
<1>8. Can(txt, Tok(")"), Append(S1, f), n, Append(S1, f), j)
  BY <1>2, <1>4, CanTok
<1>9. Can(txt, Make("cast", 2), Append(S1, f), j, R, j)
  <2>1. Created("cast", <<Leaf(op), f>>) = Op(op, <<f>>)
    BY DEF Created, Leaf
  <2> QED
    BY <1>1, <1>3, <2>1, CanMakeTwo DEF S1
<1> QED
  BY <1>5, <1>6, <1>7, <1>8, <1>9, Gets5

\* parseBaseExp at min and max.
LEMMA GetsMinMax ==
  ASSUME NEW txt \in Seq(STRING), NEW k \in Places(txt), NEW j \in Places(txt),
         KindAt(txt, k) \in {"min", "max"}, NEW S, IsStack(S), NEW R, CanBase(txt, S, k, R, j),
         NEW r, NEW T, NEW m, Gets(txt, r, R, j, T, m), NEW comma, comma = Tok(",")
  PROVE  Gets(txt, <<Tok("("), Exp(0), comma, Exp(0), Tok(")"), Make(KindAt(txt, k), 2)>> \o r,
              S, k + 1, T, m)
<1> DEFINE op == KindAt(txt, k)
<1>1. PICK e : OperandIs(txt, k, j, e) /\ R = Append(S, e)
  BY Zenon DEF CanBase
<1>2. PICK n \in Places(txt) :
        /\ j = n + 1 /\ KindAt(txt, n) = ")" /\ KindAt(txt, k + 1) = "(" /\ k + 2 <= n
        /\ \E l : ReadsList(txt, k + 2, n, l) /\ Len(l) = 2 /\ e = Op(op, l)
  BY ONLY <1>1, OperandAt, KindAt(txt, k) \in {"min", "max"}
<1>3. PICK l : ReadsList(txt, k + 2, n, l) /\ Len(l) = 2 /\ e = Op(op, l)
  BY <1>2, Zenon
<1>4. /\ k \in Nat /\ n \in Nat /\ k + 1 \in Places(txt) /\ k + 2 \in Places(txt)
      /\ k + 1 \in Nat /\ (k + 1) + 1 = k + 2
  <2>1. k \in Nat /\ n \in Nat /\ (k <= k + 1 /\ k + 1 <= n => k + 1 \in Places(txt))
        /\ (k <= k + 2 /\ k + 2 <= n => k + 2 \in Places(txt))
    BY ONLY PlacesTo, txt \in Seq(STRING), k \in Places(txt)
  <2> QED
    BY ONLY <1>2, <2>1
<1>5. PICK c, a, b :
        /\ c \in Places(txt) /\ a \in Reads(txt, k + 2, c, 0) /\ b \in Reads(txt, c + 1, n, 0)
        /\ l = <<a, b>> /\ IsComma(txt, c) /\ k + 2 < c /\ c + 1 < n /\ c + 1 \in Places(txt)
  BY ONLY <1>3, <1>4, ListOfTwo, txt \in Seq(STRING), n \in Places(txt)
<1>6. Ends(txt, c, 0) /\ Ends(txt, n, 0)
  BY <1>2, <1>5, EndsInList, Zenon
<1> HIDE DEF op
<1>a. "(" \notin {"eof", "bad"} /\ ")" \notin {"eof", "bad"}
  OBVIOUS
<1>7. Can(txt, Tok("("), S, k + 1, S, k + 2)
  BY ONLY <1>2, <1>4, <1>a, CanTok
<1>8. Can(txt, Exp(0), S, k + 2, Append(S, a), c)
  BY ONLY <1>4, <1>5, <1>6, CanExp, txt \in Seq(STRING)
<1>9. Can(txt, comma, Append(S, a), c, Append(S, a), c + 1)
  <2> DEFINE kind == ","
  <2>1. kind \notin {"eof", "bad"}
    BY Zenon
  <2>2. c \in Nat
    BY ONLY <1>5, PlacesTo, txt \in Seq(STRING)
  <2>3. KindAt(txt, c) = kind /\ comma = Tok(kind)
    BY <1>5, Zenon DEF IsComma
  <2> HIDE DEF kind
  <2> QED
    BY ONLY <1>5, <2>1, <2>2, <2>3, CanTok
<1>10. Can(txt, Exp(0), Append(S, a), c + 1, Append(Append(S, a), b), n)
  BY ONLY <1>5, <1>6, CanExp, txt \in Seq(STRING), n \in Places(txt)
<1>11. Can(txt, Tok(")"), Append(Append(S, a), b), n, Append(Append(S, a), b), j)
  BY ONLY <1>2, <1>4, <1>a, CanTok, j \in Places(txt), n \in Places(txt)
<1>12. Can(txt, Make(op, 2), Append(Append(S, a), b), j, R, j)
  <2>1. Created(op, <<a, b>>) = Op(op, <<a, b>>)
    <3>1. op \in {"min", "max"}
      BY Zenon DEF op
    <3> QED
      BY ONLY <3>1 DEF Created
  <2>2. R = Append(S, Created(op, <<a, b>>))
    BY <1>1, <1>3, <1>5, <2>1, Zenon
  <2> QED
    BY ONLY <2>2, CanMakeTwo, txt \in Seq(STRING), j \in Places(txt), IsStack(S)
<1>13. Gets(txt, <<Tok("("), Exp(0), comma, Exp(0), Tok(")"), Make(op, 2)>> \o r, S, k + 1, T, m)
  BY ONLY <1>7, <1>8, <1>9, <1>10, <1>11, <1>12, Gets6, Gets(txt, r, R, j, T, m)
<1> QED
  BY <1>13, Zenon DEF op

\* parseBaseExp at a name.
LEMMA GetsIdent ==
  ASSUME NEW txt \in Seq(STRING), NEW k \in Places(txt), NEW j \in Places(txt),
         KindAt(txt, k) \notin {"number", "(", "min", "max"} \cup ScalarTypes,
         NEW S, IsStack(S), NEW R, CanBase(txt, S, k, R, j), NEW r, NEW T, NEW m, Gets(txt, r, R, j, T, m)
  PROVE  Gets(txt, <<Call("ident"), Call("arguments")>> \o r, S, k, T, m)
<1> DEFINE S1 == Append(S, Ident(TextAt(txt, k)))
<1>1. PICK e : OperandIs(txt, k, j, e) /\ R = Append(S, e)
  BY DEF CanBase
<1>2. KindAt(txt, k) = "ident" /\ k < j /\ Closes(txt, j)
  BY <1>1, OperandAt DEF CanBase
<1>3. k \in Nat /\ j \in Nat /\ k + 1 \in Places(txt) /\ k <= k + 1 /\ k + 1 <= j /\ (k + 1) - 1 = k
  <2>1. k \in Nat /\ j \in Nat /\ (k <= k + 1 /\ k + 1 <= j => k + 1 \in Places(txt))
    BY PlacesTo
  <2> QED
    BY ONLY <1>2, <2>1
<1>4. Can(txt, Call("ident"), S, k, S1, k + 1)
  <2>1. Call("ident").call = "ident"
    BY DEF Call
  <2>2. DoesRead(txt, {"ident"}, Ident(TextAt(txt, k)), S, k, S1, k + 1)
    BY <1>2 DEF DoesRead
  <2> QED
    BY <1>3, <2>1, <2>2 DEF Can
<1>5. CanArguments(txt, S1, k + 1, R, j)
  <2>1. CASE j = k + 1 /\ e = Ident(TextAt(txt, k))
    <3>1. KindAt(txt, k + 1) # "("
      BY <1>2, <1>3, <2>1 DEF Closes
    <3> QED
      BY <1>1, <1>2, <1>3, <2>1, <3>1 DEF CanArguments
  <2>2. ASSUME NEW n \in Places(txt), j = n + 1, KindAt(txt, n) = ")", KindAt(txt, k + 1) = "(", k + 2 <= n,
               NEW l, ReadsList(txt, k + 2, n, l), e = Apply(TextAt(txt, k), l)
        PROVE  CanArguments(txt, S1, k + 1, R, j)
    <3>1. (k + 1) + 1 = k + 2
      BY <1>3
    <3> QED
      BY <1>1, <1>2, <1>3, <2>2, <3>1 DEF CanArguments
  <2> QED
    BY <1>1, <1>2, <2>1, <2>2, OperandAt
<1>6. Can(txt, Call("arguments"), S1, k + 1, R, j)
  <2>1. Call("arguments").call = "arguments"
    BY DEF Call
  <2> QED
    BY <1>3, <1>5, <2>1 DEF Can
<1> QED
  BY <1>4, <1>6, Gets2
-------------------------------------------------------------------------------
\* The end of parseBaseExp, for an access and for a name.
LEMMA GetsAccess ==
  ASSUME NEW txt \in Seq(STRING), NEW k \in Places(txt), NEW j \in Places(txt), KindAt(txt, k) = "(",
         NEW S, IsStack(S), NEW R, CanArguments(txt, S, k, R, j),
         NEW r, NEW T, NEW m, Gets(txt, r, R, j, T, m)
  PROVE  Gets(txt, <<Tok("("), With("elements", <<Exp(0), ")">>), Make("apply", 2)>> \o r, S, k, T, m)
<1>1. PICK Q : /\ IsStack(Q) /\ S = Append(Q, Ident(TextAt(txt, k - 1)))
               /\ \E n \in Places(txt) : \E l :
                    /\ j = n + 1 /\ k + 1 <= n /\ KindAt(txt, n) = ")" /\ ReadsList(txt, k + 1, n, l)
                    /\ R = Append(Q, Apply(TextAt(txt, k - 1), l))
  BY DEF CanArguments
<1>2. PICK n, l : /\ n \in Places(txt) /\ j = n + 1 /\ k + 1 <= n /\ KindAt(txt, n) = ")"
                  /\ ReadsList(txt, k + 1, n, l) /\ R = Append(Q, Apply(TextAt(txt, k - 1), l))
  BY <1>1
<1>3. k \in Nat /\ n \in Nat /\ k + 1 \in Places(txt) /\ k + 1 <= j
  <2>1. k \in Nat /\ n \in Nat /\ (k <= k + 1 /\ k + 1 <= n => k + 1 \in Places(txt))
    BY <1>2, PlacesTo
  <2> QED
    BY ONLY <1>2, <2>1
<1>4. Can(txt, Tok("("), S, k, S, k + 1)
  BY <1>3, CanTok
<1>5. Can(txt, With("elements", <<Exp(0), ")">>), S, k + 1, Append(S, List(l)), j)
  <2> DEFINE x == With("elements", <<Exp(0), ")">>)
  <2>1. x.call = "elements" /\ x.arg[1] = Exp(0) /\ x.arg[2] = ")"
    BY DEF With
  <2>2. CanElements(txt, S, k + 1, Append(S, List(l)), j)
    BY <1>2 DEF CanElements
  <2> HIDE DEF x
  <2>3. Can(txt, x, S, k + 1, Append(S, List(l)), j)
    BY <1>3, <2>1, <2>2 DEF Can
  <2> QED
    BY <2>3 DEF x
<1>6. Can(txt, Make("apply", 2), Append(S, List(l)), j, R, j)
  <2> DEFINE name == Ident(TextAt(txt, k - 1))
  <2>1. Created("apply", <<name, List(l)>>) = Apply(TextAt(txt, k - 1), l)
    BY DEF Created, Ident, List
  <2>2. S = Append(Q, name)
    BY <1>1
  <2> HIDE DEF name
  <2>3. R = Append(Q, Created("apply", <<name, List(l)>>))
    BY <1>2, <2>1
  <2> QED
    BY <1>1, <2>2, <2>3, CanMakeTwo
<1> QED
  BY <1>4, <1>5, <1>6, Gets3

\* parseBaseExp after a name that nothing follows.
LEMMA GetsName ==
  ASSUME NEW txt, NEW k, NEW j, KindAt(txt, k) # "(", NEW S, NEW R, CanArguments(txt, S, k, R, j)
  PROVE  R = S /\ j = k
BY DEF CanArguments
-------------------------------------------------------------------------------
\* The loop of parseExp.
LEMMA GetsNoOperator ==
  ASSUME NEW txt \in Seq(STRING), NEW k, NEW j, NEW p \in 0..7,
         ~IsBinary(KindAt(txt, k)) \/ BinaryPrec[KindAt(txt, k)] <= p,
         NEW S, NEW R, CanOperators(txt, p, S, k, R, j)
  PROVE  R = S /\ j = k
<1>1. PICK Q, l, e : S = Append(Q, l) /\ R = Append(Q, e) /\ Climbs(txt, p, l, k, e, j)
  BY DEF CanOperators
<1>2. ~(\E f : \E n \in Places(txt) : Turn(txt, p, l, k, f, n))
  <2>1. p # 8 /\ (IsBinary(KindAt(txt, k)) => BinaryPrec[KindAt(txt, k)] \in 1..6)
    BY PrecOf
  <2> QED
    BY <2>1 DEF Turn, TurnOperator
<1>3. l = e /\ k = j
  BY <1>1, <1>2, ClimbsFirst
<1> QED
  BY <1>1, <1>3

\* At an operator that binds strongly enough, the loop has a turn.
LEMMA OperatorTurns ==
  ASSUME NEW txt \in Seq(STRING), NEW k, NEW j, NEW p \in 0..7,
         ~(~IsBinary(KindAt(txt, k)) \/ BinaryPrec[KindAt(txt, k)] <= p),
         NEW S, NEW R, CanOperators(txt, p, S, k, R, j)
  PROVE  \E Q, l, e, f, n :
           /\ n \in Places(txt) /\ IsStack(Q) /\ S = Append(Q, l) /\ R = Append(Q, e)
           /\ TurnBinary(txt, l, k, f, n) \/ TurnTernary(txt, l, k, f, n)
           /\ Climbs(txt, p, f, n, e, j) /\ Ends(txt, j, p)
<1>1. PICK Q, l, e : /\ IsStack(Q) /\ S = Append(Q, l) /\ R = Append(Q, e)
                     /\ Climbs(txt, p, l, k, e, j) /\ Ends(txt, j, p)
  BY DEF CanOperators
<1>2. k # j
  BY <1>1 DEF Ends
<1>3. PICK f : \E n \in Places(txt) : Turn(txt, p, l, k, f, n) /\ Climbs(txt, p, f, n, e, j)
  BY <1>1, <1>2, ClimbsFirst
<1>4. PICK n \in Places(txt) : Turn(txt, p, l, k, f, n) /\ Climbs(txt, p, f, n, e, j)
  BY <1>3
<1>5. p # 8
  OBVIOUS
<1>6. TurnBinary(txt, l, k, f, n) \/ TurnTernary(txt, l, k, f, n)
  BY <1>4, <1>5 DEF Turn, TurnOperator
<1> QED
  BY <1>1, <1>4, <1>6

\* The turn at a binary operator.
LEMMA GetsBinary ==
  ASSUME NEW txt \in Seq(STRING), NEW k \in Places(txt), NEW j, NEW p \in 0..7, NEW op, op = KindAt(txt, k),
         IsBinary(op), NEW q, q = BinaryPrec[op], q > p, op # "?",
         NEW S, NEW R, CanOperators(txt, p, S, k, R, j), NEW r, NEW T, NEW m, Gets(txt, r, R, j, T, m)
  PROVE  Gets(txt, <<Exp(q), Make(op, 2), With("operators", p)>> \o r, S, k + 1, T, m)
<1>0. q \in 1..6
  BY PrecOf
<1>1. PICK Q, l, e, f, n :
        /\ n \in Places(txt) /\ IsStack(Q) /\ S = Append(Q, l) /\ R = Append(Q, e)
        /\ TurnBinary(txt, l, k, f, n) \/ TurnTernary(txt, l, k, f, n)
        /\ Climbs(txt, p, f, n, e, j) /\ Ends(txt, j, p)
  <2>1. ~(~IsBinary(KindAt(txt, k)) \/ BinaryPrec[KindAt(txt, k)] <= p)
    BY <1>0
  <2> QED
    BY <2>1, OperatorTurns, Zenon
<1>2. k + 1 < n /\ Ends(txt, n, q)
  BY <1>1 DEF TurnBinary, TurnTernary
<1>3. PICK x \in Reads(txt, k + 1, n, q) : f = Op(op, <<l, x>>)
  BY <1>1 DEF TurnBinary, TurnTernary
<1>4. k + 1 \in Places(txt)
  <2>1. k \in Nat /\ n \in Nat /\ (k <= k + 1 /\ k + 1 <= n => k + 1 \in Places(txt))
    BY <1>1, PlacesTo
  <2> QED
    BY ONLY <1>2, <2>1
<1>5. Can(txt, Exp(q), S, k + 1, Append(S, x), n)
  BY <1>1, <1>2, <1>3, <1>4, CanExp
<1>6. Can(txt, Make(op, 2), Append(S, x), n, Append(Q, f), n)
  <2>1. Created(op, <<l, x>>) = f
    <3>1. /\ op \notin {"apply", "cast", "let", "range", "exists", "equivalent", "stmt", "lone", "tactic"}
          /\ op \notin {"type", "inferred", "param", "def"}
      BY DEF IsBinary, BinaryPrec
    <3> QED
      BY <1>3, <3>1 DEF Created
  <2> QED
    BY <1>1, <2>1, CanMakeTwo
<1>7. Can(txt, With("operators", p), Append(Q, f), n, R, j)
  BY <1>1, CanOps
<1> QED
  BY <1>5, <1>6, <1>7, Gets3

\* The turn at "?".
LEMMA GetsTernary ==
  ASSUME NEW txt \in Seq(STRING), NEW k \in Places(txt), NEW j, NEW p, p = 0, KindAt(txt, k) = "?",
         NEW S, NEW R, CanOperators(txt, p, S, k, R, j), NEW r, NEW T, NEW m, Gets(txt, r, R, j, T, m)
  PROVE  Gets(txt, <<Exp(0), Tok(":"), Exp(0), Make("?", 3), With("operators", p)>> \o r, S, k + 1, T, m)
<1>1. PICK Q, l, e, f, n :
        /\ n \in Places(txt) /\ IsStack(Q) /\ S = Append(Q, l) /\ R = Append(Q, e)
        /\ TurnBinary(txt, l, k, f, n) \/ TurnTernary(txt, l, k, f, n)
        /\ Climbs(txt, p, f, n, e, j) /\ Ends(txt, j, p)
  <2>1. ~(~IsBinary(KindAt(txt, k)) \/ BinaryPrec[KindAt(txt, k)] <= p)
    <3>1. IsBinary("?") /\ BinaryPrec["?"] = 1
      BY DEF IsBinary, BinaryPrec
    <3> QED
      BY <3>1
  <2>2. p \in 0..7
    OBVIOUS
  <2> QED
    BY ONLY <2>1, <2>2, OperatorTurns, txt \in Seq(STRING), CanOperators(txt, p, S, k, R, j)
<1>2. TurnTernary(txt, l, k, f, n)
  BY <1>1 DEF TurnBinary
<1>3. PICK c, t, x :
        /\ c \in Places(txt) /\ t \in Reads(txt, k + 1, c, 0) /\ x \in Reads(txt, c + 1, n, 0)
        /\ k + 1 < c /\ c + 1 < n /\ KindAt(txt, c) = ":" /\ f = Op("?", <<l, t, x>>)
  BY <1>2 DEF TurnTernary
<1>4. k \in Nat /\ c \in Nat /\ k + 1 \in Places(txt) /\ c + 1 \in Places(txt)
  <2>1. /\ k \in Nat /\ c \in Nat /\ n \in Nat /\ (k <= k + 1 /\ k + 1 <= c => k + 1 \in Places(txt))
        /\ (c <= c + 1 /\ c + 1 <= n => c + 1 \in Places(txt))
    BY <1>1, <1>3, PlacesTo
  <2> QED
    BY ONLY <1>3, <2>1
<1>5. Can(txt, Exp(0), S, k + 1, Append(S, t), c)
  <2>1. Ends(txt, c, 0)
    <3>1. KindAt(txt, c) \notin {"("} /\ ~IsBinary(KindAt(txt, c))
      BY <1>3 DEF IsBinary, BinaryPrec
    <3> QED
      BY <3>1, EndsHere
  <2> QED
    BY <1>3, <1>4, <2>1, CanExp
<1>6. Can(txt, Tok(":"), Append(S, t), c, Append(S, t), c + 1)
  BY <1>3, <1>4, CanTok
<1>7. Can(txt, Exp(0), Append(S, t), c + 1, Append(Append(S, t), x), n)
  <2>1. Ends(txt, n, 0)
    BY <1>2 DEF TurnTernary
  <2> QED
    BY <1>1, <1>3, <1>4, <2>1, CanExp
<1>8. Can(txt, Make("?", 3), Append(Append(S, t), x), n, Append(Q, f), n)
  <2>1. Created("?", <<l, t, x>>) = f
    BY <1>3 DEF Created
  <2> QED
    BY <1>1, <2>1, CanMakeThree
<1>9. Can(txt, With("operators", p), Append(Q, f), n, R, j)
  BY <1>1, CanOps
<1> QED
  BY <1>5, <1>6, <1>7, <1>8, <1>9, Gets5
-------------------------------------------------------------------------------
\* parseExp up to its loop.
LEMMA ExpParts ==
  ASSUME NEW txt \in Seq(STRING), NEW k \in Places(txt), NEW j \in Places(txt), NEW p \in 0..7,
         NEW S, NEW R, DoesExp(txt, p, S, k, R, j)
  PROVE  \E e, o, n :
           /\ R = Append(S, e) /\ n \in Places(txt) /\ k < n /\ Closes(txt, n)
           /\ OperandIs(txt, k, n, o) \/ SignedIs(txt, k, n, o)
           /\ Climbs(txt, p, o, n, e, j) /\ Ends(txt, j, p)
<1>1. PICK e \in Reads(txt, k, j, p) : k < j /\ R = Append(S, e) /\ Ends(txt, j, p)
  BY DEF DoesExp
<1>2. Ends(txt, j, Above(p)) /\ k <= j
  <2>1. Above(p) \in Nat /\ p <= Above(p)
    BY DEF Above
  <2> QED
    BY <1>1, <2>1, EndsMore, PlacesTo
<1>3. Parts(txt, k, j, p, e)
  BY <1>1, <1>2, Decompose
<1>4. PICK n \in Places(txt) : \E o :
        /\ k < n /\ Closes(txt, n)
        /\ OperandIs(txt, k, n, o) \/ SignedIs(txt, k, n, o)
        /\ Climbs(txt, p, o, n, e, j)
  BY <1>3, Zenon DEF Parts
<1> QED
  BY <1>1, <1>4, Zenon

\* parseExp at a unary operator.
LEMMA GetsSigned ==
  ASSUME NEW txt \in Seq(STRING), NEW k \in Places(txt), NEW j \in Places(txt), NEW p \in 0..7,
         NEW op, op = KindAt(txt, k), IsUnary(op), NEW S, IsStack(S), NEW R, DoesExp(txt, p, S, k, R, j),
         NEW r, NEW T, NEW m, Gets(txt, r, R, j, T, m)
  PROVE  Gets(txt, <<Exp(UnaryPrec[op]), Make(op, 1), With("operators", p)>> \o r, S, k + 1, T, m)
<1>1. PICK e, o, n :
        /\ R = Append(S, e) /\ n \in Places(txt) /\ k < n /\ Closes(txt, n)
        /\ OperandIs(txt, k, n, o) \/ SignedIs(txt, k, n, o)
        /\ Climbs(txt, p, o, n, e, j) /\ Ends(txt, j, p)
  BY ExpParts, Zenon
<1>2. SignedIs(txt, k, n, o)
  <2>1. op \in {"-", "!"}
    BY DEF IsUnary, UnaryPrec
  <2>2. op \notin {"ident", "number", "(", "min", "max"} \cup ScalarTypes
    BY <2>1 DEF ScalarTypes
  <2>3. ~OperandIs(txt, k, n, o)
    BY <2>2, OperandAt
  <2> QED
    BY <1>1, <2>3
<1>3. PICK f \in Reads(txt, k + 1, n, UnaryPrec[op]) : o = Op(op, <<f>>)
  BY <1>2 DEF SignedIs
<1>4. k + 1 < n /\ k + 1 \in Places(txt)
  <2>1. k \in Nat /\ n \in Nat /\ (k <= k + 1 /\ k + 1 <= n => k + 1 \in Places(txt))
    BY <1>1, PlacesTo
  <2>2. k + 1 < n
    BY <1>2 DEF SignedIs
  <2> QED
    BY ONLY <2>1, <2>2
<1>5. Ends(txt, n, UnaryPrec[op])
  <2>1. UnaryPrec[op] = 7
    BY DEF IsUnary, UnaryPrec
  <2>2. IsBinary(KindAt(txt, n)) => BinaryPrec[KindAt(txt, n)] <= 7
    <3>1. IsBinary(KindAt(txt, n)) => BinaryPrec[KindAt(txt, n)] \in 1..6
      BY PrecOf
    <3> QED
      BY <3>1
  <2> QED
    BY <1>1, <2>1, <2>2 DEF Ends
<1>6. Can(txt, Exp(UnaryPrec[op]), S, k + 1, Append(S, f), n)
  BY <1>1, <1>3, <1>4, <1>5, CanExp
<1>7. Can(txt, Make(op, 1), Append(S, f), n, Append(S, o), n)
  <2>1. Created(op, <<f>>) = o
    <3>1. op \in {"-", "!"}
      BY DEF IsUnary, UnaryPrec
    <3> QED
      BY <1>3, <3>1 DEF Created
  <2> QED
    BY <1>1, <2>1, CanMakeOne
<1>8. Can(txt, With("operators", p), Append(S, o), n, R, j)
  BY <1>1, CanOps
<1> QED
  BY <1>6, <1>7, <1>8, Gets3

\* parseExp at an operand.
LEMMA GetsUnsigned ==
  ASSUME NEW txt \in Seq(STRING), NEW k \in Places(txt), NEW j \in Places(txt), NEW p \in 0..7,
         ~IsUnary(KindAt(txt, k)), NEW S, IsStack(S), NEW R, DoesExp(txt, p, S, k, R, j),
         NEW r, NEW T, NEW m, Gets(txt, r, R, j, T, m)
  PROVE  Gets(txt, <<Call("base"), With("operators", p)>> \o r, S, k, T, m)
<1>1. PICK e, o, n :
        /\ R = Append(S, e) /\ n \in Places(txt) /\ k < n /\ Closes(txt, n)
        /\ OperandIs(txt, k, n, o) \/ SignedIs(txt, k, n, o)
        /\ Climbs(txt, p, o, n, e, j) /\ Ends(txt, j, p)
  BY ExpParts, Zenon
<1>2. OperandIs(txt, k, n, o)
  BY <1>1 DEF SignedIs
<1>3. Can(txt, Call("base"), S, k, Append(S, o), n)
  <2>1. Call("base").call = "base"
    BY DEF Call
  <2>2. k <= n
    BY <1>1, PlacesTo
  <2>3. CanBase(txt, S, k, Append(S, o), n)
    BY <1>1, <1>2 DEF CanBase
  <2> QED
    BY <1>1, <2>1, <2>2, <2>3 DEF Can
<1>4. Can(txt, With("operators", p), Append(S, o), n, R, j)
  BY <1>1, CanOps
<1> QED
  BY <1>3, <1>4, Gets2
-------------------------------------------------------------------------------
\* The values of a list on top of others.
TopOf(S, n)    == SubSeq(S, Len(S) - n + 1, Len(S))
BelowTop(S, n) == SubSeq(S, 1, Len(S) - n)

\* Both are found again.
LEMMA StackSplit ==
  ASSUME NEW Q, IsStack(Q), NEW D, IsStack(D)
  PROVE  BelowTop(Q \o D, Len(D)) = Q /\ TopOf(Q \o D, Len(D)) = D
<1>1. PICK U : Q \in Seq(U)
  BY DEF IsStack
<1>2. PICK V : D \in Seq(V)
  BY DEF IsStack
<1> DEFINE W == U \cup V
           a == Len(Q)
           b == Len(D)
           S == Q \o D
<1>3. Q \in Seq(W) /\ D \in Seq(W) /\ a \in Nat /\ b \in Nat
  BY <1>1, <1>2
<1> HIDE DEF W
<1>4. /\ S \in Seq(W) /\ Len(S) = a + b
      /\ \A p \in 1..(a + b) : S[p] = IF p <= a THEN Q[p] ELSE D[p - a]
  BY <1>3, ConcatProperties
<1> HIDE DEF S
<1>5. Len(S) - b = a
  BY <1>3, <1>4
<1>6. SubSeq(S, 1, a) = Q
  <2>1. /\ SubSeq(S, 1, a) \in Seq(W) /\ Len(SubSeq(S, 1, a)) = a
        /\ \A p \in 1..a : SubSeq(S, 1, a)[p] = S[p]
    BY <1>3, <1>4, SubSeqProperties
  <2>2. \A p \in 1..a : S[p] = Q[p]
    BY <1>3, <1>4
  <2> QED
    BY <1>3, <2>1, <2>2, SeqEqual
<1>7. SubSeq(S, a + 1, a + b) = D
  <2> DEFINE E == SubSeq(S, a + 1, a + b)
  <2>1. E \in Seq(W) /\ Len(E) = b /\ \A p \in 1..b : E[p] = S[a + p]
    BY <1>3, <1>4, SubSeqProperties
  <2>2. \A p \in 1..b : S[a + p] = D[p]
    <3> SUFFICES ASSUME NEW p \in 1..b PROVE S[a + p] = D[p]
      OBVIOUS
    <3>1. a + p \in 1..(a + b) /\ ~(a + p <= a) /\ (a + p) - a = p
      BY <1>3
    <3> QED
      BY <1>4, <3>1
  <2> HIDE DEF E
  <2>3. E = D
    BY <1>3, <2>1, <2>2, SeqEqual
  <2> QED
    BY <2>3 DEF E
<1> QED
  BY <1>4, <1>5, <1>6, <1>7 DEF TopOf, BelowTop, S
-------------------------------------------------------------------------------
\* No expression starts with ).
LEMMA FilledStarts ==
  ASSUME NEW txt \in Seq(STRING), NEW i \in Places(txt), NEW j, NEW l, Filled(txt, i, j, l)
  PROVE  KindAt(txt, i) # ")"
<1>1. PICK k \in Places(txt) : \E e \in Reads(txt, i, k, 0) : i < k /\ Ends(txt, k, 0)
  BY DEF Filled
<1>2. PICK e \in Reads(txt, i, k, 0) : i < k /\ Ends(txt, k, 0)
  BY <1>1
<1>3. Above(0) = 0 /\ 0 \in 0..7 /\ i <= k
  BY <1>2, PlacesTo DEF Above
<1>4. Parts(txt, i, k, 0, e)
  BY <1>2, <1>3, Decompose
<1>5. \E n, o : OperandIs(txt, i, n, o) \/ SignedIs(txt, i, n, o)
  BY <1>4 DEF Parts
<1>6. KindAt(txt, i) \in {"ident", "number", "(", "min", "max", "-", "!"} \cup ScalarTypes
  BY <1>5, OperandAt DEF SignedIs, IsUnary, UnaryPrec
<1> QED
  BY <1>6 DEF ScalarTypes

\* parseList after its begin token.
LEMMA GetsNoElements ==
  ASSUME NEW txt \in Seq(STRING), NEW k \in Places(txt), NEW j \in Places(txt), KindAt(txt, k) = ")",
         NEW S, NEW R, CanElements(txt, S, k, R, j), NEW r, NEW T, NEW m, Gets(txt, r, R, j, T, m)
  PROVE  Gets(txt, <<Tok(")")>> \o r, Append(S, List(<<>>)), k, T, m)
<1>1. PICK n, l : /\ n \in Places(txt) /\ k <= n /\ j = n + 1 /\ KindAt(txt, n) = ")"
                  /\ ReadsList(txt, k, n, l) /\ R = Append(S, List(l))
  BY DEF CanElements
<1>2. k = n /\ l = <<>>
  BY <1>1, ListFills, FilledStarts
<1>3. Can(txt, Tok(")"), R, k, R, j)
  BY <1>1, <1>2, CanTok, PlacesTo
<1> QED
  BY <1>1, <1>2, <1>3, Gets1

\* The list that is being read.
LEMMA CanListOn ==
  ASSUME NEW txt \in Seq(STRING), NEW n, NEW R, IsStack(R), NEW done, IsStack(done), Len(done) = n,
         NEW k, NEW l, NEW m, Climbs(txt, 8, done, k, l, m), KindAt(txt, m) = ")"
  PROVE  Can(txt, With("more", <<Exp(0), n>>), R \o done, k, Append(R, List(l)), m)
<1> DEFINE x == With("more", <<Exp(0), n>>)
<1>1. x.call = "more" /\ x.arg[1] = Exp(0) /\ x.arg[2] = n
  BY DEF With
<1>2. k \in Places(txt) /\ m \in Places(txt) /\ k <= m
  BY ClimbsOn
<1>3. CanMore(txt, n, R \o done, k, Append(R, List(l)), m)
  BY DEF CanMore
<1> HIDE DEF x
<1>4. Can(txt, x, R \o done, k, Append(R, List(l)), m)
  BY <1>1, <1>2, <1>3 DEF Can
<1> QED
  BY <1>4 DEF x

\* The same where the list has an element.
LEMMA GetsElements ==
  ASSUME NEW txt \in Seq(STRING), NEW k \in Places(txt), NEW j \in Places(txt), KindAt(txt, k) # ")",
         NEW S, IsStack(S), NEW R, CanElements(txt, S, k, R, j), NEW r, NEW T, NEW m, Gets(txt, r, R, j, T, m)
  PROVE  Gets(txt, <<Exp(0), With("more", <<Exp(0), 1>>), Tok(")")>> \o r, S, k, T, m)
<1>1. PICK n, l : /\ n \in Places(txt) /\ k <= n /\ j = n + 1 /\ KindAt(txt, n) = ")"
                  /\ ReadsList(txt, k, n, l) /\ R = Append(S, List(l))
  BY DEF CanElements
<1>2. Filled(txt, k, n, l)
  BY <1>1, ListFills
<1>3. PICK h, e : /\ h \in Places(txt) /\ e \in Reads(txt, k, h, 0) /\ k < h /\ Ends(txt, h, 0)
                  /\ Climbs(txt, 8, <<e>>, h, l, n)
  BY <1>2 DEF Filled
<1>4. Can(txt, Exp(0), S, k, Append(S, e), h)
  BY <1>3, CanExp
<1>5. Can(txt, With("more", <<Exp(0), 1>>), Append(S, e), h, R, n)
  <2> DEFINE done == <<e>>
  <2>1. IsStack(done) /\ Len(done) = 1
    <3>1. done \in Seq({e})
      OBVIOUS
    <3> QED
      BY <3>1 DEF IsStack
  <2>2. S \o done = Append(S, e)
    <3>1. PICK U : S \in Seq(U)
      BY DEF IsStack
    <3>2. S \in Seq(U \cup {e}) /\ e \in U \cup {e}
      BY <3>1
    <3> QED
      BY <3>2, AppendIsConcat
  <2>3. Climbs(txt, 8, done, h, l, n)
    BY <1>3
  <2> HIDE DEF done
  <2>4. Can(txt, With("more", <<Exp(0), 1>>), S \o done, h, Append(S, List(l)), n)
    BY <1>1, <2>1, <2>3, CanListOn
  <2> QED
    BY <1>1, <2>2, <2>4
<1>6. Can(txt, Tok(")"), R, n, R, j)
  BY <1>1, CanTok, PlacesTo
<1> QED
  BY <1>4, <1>5, <1>6, Gets3
-------------------------------------------------------------------------------
\* The loop over the commas.
LEMMA GetsListEnd ==
  ASSUME NEW txt \in Seq(STRING), NEW k, NEW j, ~IsComma(txt, k), NEW n, NEW S, NEW R,
         CanMore(txt, n, S, k, R, j)
  PROVE  /\ j = k
         /\ R = Append(SubSeq(S, 1, Len(S) - n), List(SubSeq(S, Len(S) - n + 1, Len(S))))
<1>1. PICK Q, done, l : /\ IsStack(Q) /\ IsStack(done) /\ Len(done) = n /\ S = Q \o done
                        /\ Climbs(txt, 8, done, k, l, j) /\ R = Append(Q, List(l))
  BY DEF CanMore
<1>2. ~(\E f : \E h \in Places(txt) : Turn(txt, 8, done, k, f, h))
  BY DEF Turn, TurnComma
<1>3. done = l /\ k = j
  BY <1>1, <1>2, ClimbsFirst
<1>4. BelowTop(S, n) = Q /\ TopOf(S, n) = done
  <2>1. IsStack(Q) /\ IsStack(done)
    BY <1>1
  <2>2. BelowTop(Q \o done, Len(done)) = Q /\ TopOf(Q \o done, Len(done)) = done
    BY ONLY <2>1, StackSplit
  <2>3. Q \o done = S /\ Len(done) = n
    BY <1>1
  <2> QED
    BY ONLY <2>2, <2>3, Zenon
<1> QED
  BY <1>1, <1>3, <1>4 DEF TopOf, BelowTop

\* At a comma, one element more is read.
LEMMA GetsComma ==
  ASSUME NEW txt \in Seq(STRING), NEW k \in Places(txt), NEW j, IsComma(txt, k), NEW n, NEW S, NEW R,
         CanMore(txt, n, S, k, R, j), NEW r, NEW T, NEW m, Gets(txt, r, R, j, T, m)
  PROVE  Gets(txt, <<Exp(0), With("more", <<Exp(0), n + 1>>)>> \o r, S, k + 1, T, m)
<1>1. PICK Q, done, l : /\ IsStack(Q) /\ IsStack(done) /\ Len(done) = n /\ S = Q \o done
                        /\ Climbs(txt, 8, done, k, l, j) /\ KindAt(txt, j) = ")" /\ R = Append(Q, List(l))
  BY DEF CanMore
<1>2. k # j
  <2>1. "," # ")"
    BY Zenon
  <2> QED
    BY <1>1, <2>1, Zenon DEF IsComma
<1>3. PICK f : \E h \in Places(txt) : Turn(txt, 8, done, k, f, h) /\ Climbs(txt, 8, f, h, l, j)
  BY <1>1, <1>2, ClimbsFirst, Zenon
<1>4. PICK h \in Places(txt) : Turn(txt, 8, done, k, f, h) /\ Climbs(txt, 8, f, h, l, j)
  BY <1>3, Zenon
<1>5. PICK x \in Reads(txt, k + 1, h, 0) : k + 1 < h /\ Ends(txt, h, 0) /\ f = Append(done, x)
  BY <1>4, Zenon DEF Turn, TurnComma
<1>6. k + 1 \in Places(txt)
  <2>1. k \in Nat /\ h \in Nat /\ (k <= k + 1 /\ k + 1 <= h => k + 1 \in Places(txt))
    BY PlacesTo
  <2> QED
    BY ONLY <1>5, <2>1
<1>7. Can(txt, Exp(0), S, k + 1, Append(S, x), h)
  BY <1>5, <1>6, CanExp
<1>8. Can(txt, With("more", <<Exp(0), n + 1>>), Append(S, x), h, R, j)
  <2>1. IsStack(f) /\ Len(f) = n + 1
    BY <1>1, <1>5, StackGrows
  <2>2. Append(S, x) = Q \o f
    BY <1>1, <1>5, StackConcat
  <2>3. Can(txt, With("more", <<Exp(0), n + 1>>), Q \o f, h, Append(Q, List(l)), j)
    BY <1>1, <1>4, <2>1, CanListOn
  <2> QED
    BY <1>1, <2>2, <2>3
<1> QED
  BY <1>7, <1>8, Gets2
-------------------------------------------------------------------------------
\* The items never go back.
LEMMA GetsWithin ==
  ASSUME NEW txt \in Seq(STRING), NEW items, NEW S, NEW k \in Places(txt), NEW T, NEW m,
         Gets(txt, items, S, k, T, m)
  PROVE  m \in Places(txt) /\ k <= m
<1>1. PICK h : Course(txt, h, items, S, k) /\ h[Len(items) + 1] = <<T, m>>
  BY DEF Gets
<1>2. Len(items) \in Nat
  BY DEF Gets, IsStack
<1> DEFINE n == Len(items)
           Later(p) == h[p][2] \in Places(txt) /\ k <= h[p][2]
           P == {p \in Nat : p + 1 \in 1..(n + 1) => Later(p + 1)}
<1>3. 0 \in P
  <2>1. h[1][2] = k /\ k \in Nat
    BY <1>1, PlacesTo DEF Course
  <2> QED
    BY <2>1
<1>4. ASSUME NEW p \in Nat, p \in P PROVE p + 1 \in P
  <2> SUFFICES ASSUME (p + 1) + 1 \in 1..(n + 1) PROVE Later((p + 1) + 1)
    OBVIOUS
  <2>1. p + 1 \in 1..n /\ p + 1 \in 1..(n + 1)
    BY <1>2
  <2>2. Can(txt, items[p + 1], h[p + 1][1], h[p + 1][2], h[(p + 1) + 1][1], h[(p + 1) + 1][2])
    BY <1>1, <2>1 DEF Course
  <2> DEFINE a == h[p + 1][2]
             b == h[(p + 1) + 1][2]
  <2>3. a \in Places(txt) /\ k <= a
    BY <1>4, <2>1
  <2>4. b \in Places(txt) /\ a <= b
    BY <2>2, CanIs
  <2> HIDE DEF a, b
  <2>5. k \in Nat /\ a \in Nat /\ b \in Nat
    BY <2>3, <2>4, PlacesTo
  <2>6. k <= b
    BY <2>3, <2>4, <2>5
  <2> QED
    BY <2>4, <2>6 DEF b
<1>5. Nat \subseteq P
  <2> HIDE DEF P
  <2> QED
    BY <1>3, <1>4, Induction
<1>6. Later(n + 1)
  <2>1. n \in P /\ n + 1 \in 1..(n + 1)
    BY <1>2, <1>5
  <2> HIDE DEF Later
  <2> QED
    BY <2>1
<1> QED
  BY <1>1, <1>6

\* The items left can produce the values T up to the token j.
Clean(txt, j) == \A i \in Places(txt) : i <= j => KindAt(txt, i) # "bad"
On(T, j)      == ~thrown /\ \E k : At(k) /\ Gets(text, todo, made, k, T, j)

\* The place of the next token.
LEMMA NextPlace ==
  ASSUME text \in Seq(STRING), NEW k, At(k), cur.kind \notin {"eof", "bad"}
  PROVE  k + 1 \in Places(text) /\ AllTokens(text)[k + 1] = Match(text, End(cur))
<1>0. k \in Places(text) /\ cur = AllTokens(text)[k] /\ k <= cur.start
  BY DEF At
<1>1. PICK p \in 1..(Len(text) + 1) : cur = Match(text, p)
  BY <1>0, TokensMatch
<1>2. Len(text) \in Nat /\ Places(text) = 1..(Len(text) + 1)
  BY PlacesAre
<1>3. cur.start \in p..Len(text)
  BY <1>1, TokenLength
<1>4. k \in 1..Len(text) /\ k + 1 \in Places(text)
  BY <1>0, <1>2, <1>1, <1>3
<1> QED
  BY <1>0, <1>4, AllTokensAre

\* No exception where the next token is one of the language.
LEMMA NextFine ==
  ASSUME AheadExact, ~thrown, NextToken, Match(text, End(cur)).kind # "bad"
  PROVE  ~thrown'
<1>1. CASE look # <<>>
  BY <1>1 DEF NextToken
<1>2. CASE look = <<>>
  <2>1. pos = End(cur) /\ Lex
    BY <1>2 DEF NextToken, AheadExact
  <2> QED
    BY <2>1 DEF Lex, Lexed
<1> QED
  BY <1>1, <1>2

\* A step that reads no token.
LEMMA SameTokenOn ==
  ASSUME ~thrown, NEW k, At(k), NEW items, Continue(items), NEW T, NEW j,
         Gets(text, items \o Tail(todo), made', k, T, j)
  PROVE  On(T, j)'
<1>1. text' = text /\ cur' = cur /\ thrown' = thrown /\ todo' = items \o Tail(todo)
  BY DEF Continue, Instead, lexVars
<1>2. At(k)'
  BY <1>1 DEF At
<1> QED
  BY <1>1, <1>2 DEF On

\* A step that reads one.
LEMMA NewTokenOn ==
  ASSUME text \in Seq(STRING), AheadExact, ~thrown, NEW k, At(k), cur.kind \notin {"eof", "bad"},
         NEW items, Consume(items), NEW T, NEW j, Clean(text, j),
         Gets(text, items \o Tail(todo), made', k + 1, T, j)
  PROVE  On(T, j)'
<1>1. NextToken /\ todo' = items \o Tail(todo)
  BY DEF Consume, Instead
<1>2. k + 1 \in Places(text) /\ AllTokens(text)[k + 1] = Match(text, End(cur))
  BY NextPlace
<1>3. k + 1 <= j
  BY <1>2, GetsWithin
<1>4. Match(text, End(cur)).kind # "bad"
  BY <1>2, <1>3 DEF Clean, KindAt
<1>5. ~thrown'
  BY <1>1, <1>4, NextFine
<1>6. At(k + 1)' /\ text' = text
  BY <1>1, <1>5, NextAt
<1> QED
  BY <1>1, <1>5, <1>6 DEF On

\* What the first item can do.
LEMMA TodoFirst ==
  ASSUME text \in Seq(STRING), todo # <<>>, NEW k, At(k), NEW T, NEW j, Gets(text, todo, made, k, T, j)
  PROVE  \E R : \E n \in Places(text) :
           /\ Can(text, todo[1], made, k, R, n)
           /\ Gets(text, Tail(todo), R, n, T, j)
           /\ Gets(text, <<>> \o Tail(todo), R, n, T, j)
<1>1. PICK R, n : Can(text, todo[1], made, k, R, n) /\ Gets(text, Tail(todo), R, n, T, j)
  BY GetsFirst
<1>2. n \in Places(text)
  BY <1>1, CanIs
<1>3. <<>> \o Tail(todo) = Tail(todo)
  <2>1. PICK U : Tail(todo) \in Seq(U)
    BY <1>1 DEF Gets, IsStack
  <2> QED
    BY <2>1, ConcatEmptySeq
<1> QED
  BY <1>1, <1>2, <1>3
-------------------------------------------------------------------------------
\* Items that read a token find it.
LEMMA CompletesExpect ==
  ASSUME text \in Seq(STRING), AheadExact, todo # <<>>, NEW k, At(k), NEW T, NEW j, Clean(text, j),
         Gets(text, todo, made, k, T, j), ExpectToken
  PROVE  On(T, j)'
<1>1. todo[1].call = "expect" /\ ~thrown /\ Expect(todo[1].arg) /\ Instead(<<>>) /\ made' = made
  BY DEF ExpectToken, Calls, Running, Arg
<1>2. PICK R : \E n \in Places(text) : Can(text, todo[1], made, k, R, n)
                                       /\ Gets(text, <<>> \o Tail(todo), R, n, T, j)
  BY TodoFirst
<1>3. PICK n \in Places(text) : Can(text, todo[1], made, k, R, n) /\ Gets(text, <<>> \o Tail(todo), R, n, T, j)
  BY <1>2
<1>4. KindAt(text, k) = todo[1].arg /\ R = made /\ n = k + 1 /\ todo[1].arg \notin {"eof", "bad"}
  BY <1>1, <1>3, CanIs DEF DoesExpect
<1>5. cur.kind = todo[1].arg
  BY <1>4, TokenHere
<1>6. Consume(<<>>)
  BY <1>1, <1>5 DEF Expect, Consume
<1> QED
  BY <1>1, <1>3, <1>4, <1>5, <1>6, NewTokenOn

\* An identifier.
LEMMA CompletesIdent ==
  ASSUME text \in Seq(STRING), AheadExact, todo # <<>>, NEW k, At(k), NEW T, NEW j, Clean(text, j),
         Gets(text, todo, made, k, T, j), ParseIdent
  PROVE  On(T, j)'
<1>1. todo[1].call = "ident" /\ ~thrown /\ Expect("ident") /\ Instead(<<>>)
      /\ made' = Append(made, Ident(TextOf(text, cur)))
  BY DEF ParseIdent, Calls, Running, Push
<1>2. PICK R : \E n \in Places(text) : Can(text, todo[1], made, k, R, n)
                                       /\ Gets(text, <<>> \o Tail(todo), R, n, T, j)
  BY TodoFirst
<1>3. PICK n \in Places(text) : Can(text, todo[1], made, k, R, n) /\ Gets(text, <<>> \o Tail(todo), R, n, T, j)
  BY <1>2
<1>4. KindAt(text, k) = "ident" /\ R = Append(made, Ident(TextAt(text, k))) /\ n = k + 1
  BY <1>1, <1>3, CanIs DEF DoesRead
<1>5. cur.kind = "ident" /\ made' = R
  BY <1>1, <1>4, TokenHere
<1>6. Consume(<<>>)
  BY <1>1, <1>5 DEF Expect, Consume
<1> QED
  BY <1>1, <1>3, <1>4, <1>5, <1>6, NewTokenOn

\* A number.
LEMMA CompletesConst ==
  ASSUME text \in Seq(STRING), AheadExact, todo # <<>>, NEW k, At(k), NEW T, NEW j, Clean(text, j),
         Gets(text, todo, made, k, T, j), ParseConst
  PROVE  On(T, j)'
<1>1. todo[1].call = "const" /\ ~thrown
  BY DEF ParseConst, Calls, Running
<1>2. PICK R : \E n \in Places(text) : Can(text, todo[1], made, k, R, n)
                                       /\ Gets(text, <<>> \o Tail(todo), R, n, T, j)
  BY TodoFirst
<1>3. PICK n \in Places(text) : Can(text, todo[1], made, k, R, n) /\ Gets(text, <<>> \o Tail(todo), R, n, T, j)
  BY <1>2
<1>4. /\ KindAt(text, k) = "number" /\ TextAt(text, k) \notin OutOfRange
      /\ R = Append(made, Number(TextAt(text, k))) /\ n = k + 1
  BY <1>1, <1>3, CanIs DEF DoesRead, DoesNumber
<1>5. cur.kind = "number" /\ TextOf(text, cur) = TextAt(text, k)
  BY <1>1, <1>4, TokenHere
<1>6. Consume(<<>>) /\ made' = R
  BY <1>4, <1>5 DEF ParseConst, Push, Number, Expect, Consume
<1> QED
  BY <1>1, <1>3, <1>4, <1>5, <1>6, NewTokenOn

\* A type.
LEMMA CompletesScalarType ==
  ASSUME text \in Seq(STRING), AheadExact, todo # <<>>, NEW k, At(k), NEW T, NEW j, Clean(text, j),
         Gets(text, todo, made, k, T, j), ParseScalarType
  PROVE  On(T, j)'
<1>1. todo[1].call = "scalarType" /\ ~thrown
  BY DEF ParseScalarType, Calls, Running
<1>2. PICK R : \E n \in Places(text) : Can(text, todo[1], made, k, R, n)
                                       /\ Gets(text, <<>> \o Tail(todo), R, n, T, j)
  BY TodoFirst
<1>3. PICK n \in Places(text) : Can(text, todo[1], made, k, R, n) /\ Gets(text, <<>> \o Tail(todo), R, n, T, j)
  BY <1>2
<1>4. KindAt(text, k) \in ScalarTypes /\ R = Append(made, Leaf(KindAt(text, k))) /\ n = k + 1
  BY <1>1, <1>3, CanIs DEF DoesRead
<1>5. cur.kind \in ScalarTypes /\ R = Append(made, Leaf(cur.kind))
  BY <1>4, TokenHere
<1>6. Consume(<<>>) /\ made' = R
  BY <1>5 DEF ParseScalarType, Push
<1>7. cur.kind \notin {"eof", "bad"}
  BY <1>5 DEF ScalarTypes
<1> QED
  BY <1>1, <1>3, <1>4, <1>6, <1>7, NewTokenOn

\* A node is made.
LEMMA CompletesMake ==
  ASSUME text \in Seq(STRING), AheadExact, todo # <<>>, NEW k, At(k), NEW T, NEW j, Clean(text, j),
         Gets(text, todo, made, k, T, j), MakeNode
  PROVE  On(T, j)'
<1>1. todo[1].call = "make" /\ ~thrown /\ Continue(<<>>)
      /\ made' = Append(SubSeq(made, 1, Len(made) - todo[1].arg[2]),
                        Created(todo[1].arg[1], SubSeq(made, Len(made) - todo[1].arg[2] + 1, Len(made))))
  BY DEF MakeNode, Calls, Running, Collapse, LastMade, Arg
<1>2. PICK R : \E n \in Places(text) : Can(text, todo[1], made, k, R, n)
                                       /\ Gets(text, <<>> \o Tail(todo), R, n, T, j)
  BY TodoFirst
<1>3. PICK n \in Places(text) : Can(text, todo[1], made, k, R, n) /\ Gets(text, <<>> \o Tail(todo), R, n, T, j)
  BY <1>2
<1>4. n = k /\ R = made'
  <2>1. DoesMake(todo[1].arg[1], todo[1].arg[2], made, k, R, n)
    BY <1>1, <1>3, CanIs
  <2> QED
    BY ONLY <1>1, <2>1 DEF DoesMake
<1> QED
  BY <1>1, <1>3, <1>4, SameTokenOn

\* The functions for operands.
LEMMA CompletesBaseExp ==
  ASSUME text \in Seq(STRING), AheadExact, todo # <<>>, NEW k, At(k), NEW T, NEW j, Clean(text, j),
         Gets(text, todo, made, k, T, j), IsStack(made), ParseBaseExp
  PROVE  On(T, j)'
<1>1. todo[1].call = "base" /\ ~thrown /\ made' = made
  BY DEF ParseBaseExp, Calls, Running
<1>2. PICK R : \E n \in Places(text) : Can(text, todo[1], made, k, R, n)
                                       /\ Gets(text, Tail(todo), R, n, T, j)
  BY TodoFirst
<1>3. PICK n \in Places(text) : Can(text, todo[1], made, k, R, n) /\ Gets(text, Tail(todo), R, n, T, j)
  BY <1>2
<1> DEFINE r == Tail(todo)
<1>4. CanBase(text, made, k, R, n) /\ Gets(text, r, R, n, T, j)
  BY <1>1, <1>3, CanIs
<1>5. k \in Places(text) /\ KindAt(text, k) = cur.kind
  BY TokenHere
<1> HIDE DEF r
<1>a. CASE cur.kind = "number" /\ Continue(<<Call("const")>>)
  <2>1. Gets(text, <<Call("const")>> \o r, made, k, T, j)
    BY <1>a, <1>4, <1>5, GetsConst
  <2> QED
    BY <1>a, <1>1, <2>1, SameTokenOn DEF r
<1>b. CASE cur.kind = "(" /\ Consume(<<Exp(0), Tok(")")>>)
  <2>1. Gets(text, <<Exp(0), Tok(")")>> \o r, made, k + 1, T, j)
    BY <1>b, <1>4, <1>5, GetsParens
  <2>2. cur.kind \notin {"eof", "bad"}
    BY <1>b
  <2> QED
    BY <1>b, <1>1, <2>1, <2>2, NewTokenOn DEF r
<1>c. CASE cur.kind \in ScalarTypes
           /\ Continue(<<Call("scalarType"), Tok("("), Exp(0), Tok(")"), Make("cast", 2)>>)
  <2> DEFINE items == <<Call("scalarType"), Tok("("), Exp(0), Tok(")"), Make("cast", 2)>>
  <2>1. Gets(text, items \o r, made, k, T, j)
    BY <1>c, <1>4, <1>5, GetsCast
  <2>2. Continue(items)
    BY <1>c
  <2> HIDE DEF items
  <2> QED
    BY <1>1, <2>1, <2>2, SameTokenOn DEF r
<1>d. CASE /\ cur.kind \in {"min", "max"}
           /\ Consume(<<Tok("("), Exp(0), Tok(","), Exp(0), Tok(")"), Make(cur.kind, 2)>>)
  <2> DEFINE comma == Tok(",")
  <2> HIDE DEF comma
  <2> DEFINE items == <<Tok("("), Exp(0), comma, Exp(0), Tok(")"), Make(cur.kind, 2)>>
  <2>0. comma = Tok(",")
    BY Zenon DEF comma
  <2>1. Gets(text, items \o r, made, k + 1, T, j)
    <3>1. cur.kind \in {"min", "max"}
      BY <1>d, Zenon
    <3> QED
      BY ONLY <1>4, <1>5, <2>0, <3>1, GetsMinMax, text \in Seq(STRING), IsStack(made), n \in Places(text), Zenon
  <2>2. Consume(items) /\ cur.kind \notin {"eof", "bad"}
    BY <1>d, <2>0, Zenon
  <2> HIDE DEF items
  <2>3. Gets(text, items \o Tail(todo), made', k + 1, T, j)
    BY ONLY <1>1, <2>1, Zenon DEF r
  <2> QED
    BY ONLY text \in Seq(STRING), AheadExact, <1>1, At(k), Clean(text, j), <2>2, <2>3, NewTokenOn
<1>e. CASE /\ cur.kind \notin {"number", "(", "min", "max"} \cup ScalarTypes
           /\ Continue(<<Call("ident"), Call("arguments")>>)
  <2>1. Gets(text, <<Call("ident"), Call("arguments")>> \o r, made, k, T, j)
    BY <1>e, <1>4, <1>5, GetsIdent
  <2> QED
    BY <1>e, <1>1, <2>1, SameTokenOn DEF r
<1> QED
  BY <1>a, <1>b, <1>c, <1>d, <1>e, Zenon DEF ParseBaseExp
-------------------------------------------------------------------------------
\* The end of parseBaseExp.
LEMMA CompletesArguments ==
  ASSUME text \in Seq(STRING), AheadExact, todo # <<>>, NEW k, At(k), NEW T, NEW j, Clean(text, j),
         Gets(text, todo, made, k, T, j), IsStack(made), ParseArguments
  PROVE  On(T, j)'
<1>1. todo[1].call = "arguments" /\ ~thrown /\ made' = made
  BY DEF ParseArguments, Calls, Running
<1>2. PICK R : \E n \in Places(text) :
        /\ Can(text, todo[1], made, k, R, n)
        /\ Gets(text, Tail(todo), R, n, T, j) /\ Gets(text, <<>> \o Tail(todo), R, n, T, j)
  BY TodoFirst
<1>3. PICK n \in Places(text) :
        /\ Can(text, todo[1], made, k, R, n)
        /\ Gets(text, Tail(todo), R, n, T, j) /\ Gets(text, <<>> \o Tail(todo), R, n, T, j)
  BY <1>2
<1>4. CanArguments(text, made, k, R, n)
  BY <1>1, <1>3, CanIs
<1>5. k \in Places(text) /\ KindAt(text, k) = cur.kind
  BY TokenHere
<1>6. CASE cur.kind = "("
  <2> DEFINE items == <<Tok("("), With("elements", <<Exp(0), ")">>), Make("apply", 2)>>
             r == Tail(todo)
  <2>1. Gets(text, r, R, n, T, j)
    BY <1>3
  <2> HIDE DEF r
  <2>2. Gets(text, items \o r, made, k, T, j)
    BY <1>4, <1>5, <1>6, <2>1, GetsAccess
  <2>3. Continue(items)
    BY <1>6, TuplesJoined DEF ParseArguments, ListOf
  <2> HIDE DEF items
  <2> QED
    BY <1>1, <2>2, <2>3, SameTokenOn DEF r
<1>7. CASE cur.kind # "("
  <2>1. Continue(<<>>)
    BY <1>7 DEF ParseArguments
  <2>2. R = made /\ n = k
    BY <1>4, <1>5, <1>7, GetsName
  <2> QED
    BY <1>1, <1>3, <2>1, <2>2, SameTokenOn
<1> QED
  BY <1>6, <1>7

\* parseExp up to its loop.
LEMMA CompletesExp ==
  ASSUME text \in Seq(STRING), AheadExact, todo # <<>>, NEW k, At(k), NEW T, NEW j, Clean(text, j),
         Gets(text, todo, made, k, T, j), IsStack(made), IsItem(todo[1]), ParseExp
  PROVE  On(T, j)'
<1> DEFINE p == Arg
           op == cur.kind
           r == Tail(todo)
<1>1. todo[1].call = "exp" /\ ~thrown /\ made' = made /\ p \in 0..7 /\ p = todo[1].arg
  BY DEF ParseExp, Calls, Running, IsItem, Arg
<1>2. PICK R : \E n \in Places(text) : Can(text, todo[1], made, k, R, n) /\ Gets(text, r, R, n, T, j)
  BY TodoFirst
<1>3. PICK n \in Places(text) : Can(text, todo[1], made, k, R, n) /\ Gets(text, r, R, n, T, j)
  BY <1>2
<1>4. DoesExp(text, p, made, k, R, n)
  BY <1>1, <1>3, CanIs
<1>5. k \in Places(text) /\ op = KindAt(text, k)
  BY TokenHere
<1> HIDE DEF p, op, r
<1>6. CASE IsUnary(op)
  <2> DEFINE items == <<Exp(UnaryPrec[op]), Make(op, 1), With("operators", p)>>
  <2>1. Gets(text, items \o r, made, k + 1, T, j)
    BY <1>1, <1>3, <1>4, <1>5, <1>6, GetsSigned
  <2>2. Consume(items) /\ cur.kind \notin {"eof", "bad"}
    BY <1>6, BinaryRead DEF ParseExp, op, p
  <2> HIDE DEF items
  <2> QED
    BY <1>1, <2>1, <2>2, NewTokenOn DEF r
<1>7. CASE ~IsUnary(op)
  <2> DEFINE items == <<Call("base"), With("operators", p)>>
  <2>1. Gets(text, items \o r, made, k, T, j)
    BY <1>1, <1>3, <1>4, <1>5, <1>7, GetsUnsigned
  <2>2. Continue(items)
    BY <1>7 DEF ParseExp, op, p
  <2> HIDE DEF items
  <2> QED
    BY <1>1, <2>1, <2>2, SameTokenOn DEF r
<1> QED
  BY <1>6, <1>7

\* One turn of the loop of parseExp.
LEMMA CompletesOperators ==
  ASSUME text \in Seq(STRING), AheadExact, todo # <<>>, NEW k, At(k), NEW T, NEW j, Clean(text, j),
         Gets(text, todo, made, k, T, j), IsItem(todo[1]), ParseOperators
  PROVE  On(T, j)'
<1> DEFINE p == Arg
           op == cur.kind
           r == Tail(todo)
<1>1. todo[1].call = "operators" /\ ~thrown /\ made' = made /\ p \in 0..7 /\ p = todo[1].arg
  BY DEF ParseOperators, Calls, Running, IsItem, Arg
<1>2. PICK R : \E n \in Places(text) :
        /\ Can(text, todo[1], made, k, R, n)
        /\ Gets(text, r, R, n, T, j) /\ Gets(text, <<>> \o r, R, n, T, j)
  BY TodoFirst
<1>3. PICK n \in Places(text) :
        /\ Can(text, todo[1], made, k, R, n)
        /\ Gets(text, r, R, n, T, j) /\ Gets(text, <<>> \o r, R, n, T, j)
  BY <1>2
<1>4. CanOperators(text, p, made, k, R, n)
  BY <1>1, <1>3, CanIs
<1>5. k \in Places(text) /\ op = KindAt(text, k)
  BY TokenHere
<1> HIDE DEF p, r
<1>6. CASE ~IsBinary(op) \/ BinaryPrec[op] <= p
  <2>1. Continue(<<>>)
    BY <1>6 DEF ParseOperators, p
  <2>2. R = made /\ n = k
    BY <1>1, <1>4, <1>5, <1>6, GetsNoOperator
  <2>3. Gets(text, <<>> \o r, made', k, T, j)
    BY ONLY <1>1, <1>3, <2>2
  <2> QED
    BY ONLY <1>1, At(k), <2>1, <2>3, SameTokenOn DEF r
<1>7. ASSUME ~(~IsBinary(op) \/ BinaryPrec[op] <= p)
      PROVE  op \notin {"eof", "bad"} /\ IsBinary(op) /\ BinaryPrec[op] \in 1..6 /\ BinaryPrec[op] > p
  <2>1. IsBinary(op) /\ ~(BinaryPrec[op] <= p)
    BY <1>7
  <2>2. BinaryPrec[op] \in 1..6
    BY <2>1, PrecOf
  <2> QED
    BY <1>1, <2>1, <2>2, BinaryRead
<1>8. CASE ~(~IsBinary(op) \/ BinaryPrec[op] <= p) /\ op = "?"
  <2> DEFINE items == <<Exp(0), Tok(":"), Exp(0), Make("?", 3), With("operators", p)>>
  <2>1. BinaryPrec["?"] = 1 /\ IsRightAssociative("?")
    BY DEF BinaryPrec, IsRightAssociative
  <2>2. Consume(<<Exp(0), Tok(":"), Exp(0), Make("?", 3)>> \o <<With("operators", p)>>)
    <3>1. 1 - 1 = 0
      OBVIOUS
    <3> QED
      BY <1>8, <2>1, <3>1 DEF ParseOperators, p
  <2>3. Consume(items)
    BY <2>2, TuplesJoined
  <2>4. p = 0
    BY <1>1, <1>7, <1>8, <2>1
  <2>5. Gets(text, items \o r, made, k + 1, T, j)
    <3>1. KindAt(text, k) = "?"
      BY <1>5, <1>8
    <3> QED
      BY ONLY text \in Seq(STRING), <1>3, <1>4, <1>5, <3>1, <2>4, GetsTernary
  <2> HIDE DEF items
  <2>6. Gets(text, items \o r, made', k + 1, T, j) /\ cur.kind \notin {"eof", "bad"}
    BY <1>1, <1>7, <1>8, <2>5
  <2> QED
    BY ONLY text \in Seq(STRING), AheadExact, <1>1, At(k), Clean(text, j), <2>3, <2>6, NewTokenOn DEF r
<1>9. CASE ~(~IsBinary(op) \/ BinaryPrec[op] <= p) /\ op # "?"
  <2> DEFINE q == BinaryPrec[op]
             items == <<Exp(q), Make(op, 2), With("operators", p)>>
  <2>1. ~IsRightAssociative(op)
    BY <1>9 DEF IsRightAssociative
  <2>2. Consume(<<Exp(q), Make(op, 2)>> \o <<With("operators", p)>>)
    BY <1>9, <2>1 DEF ParseOperators, p
  <2>3. Consume(items)
    BY <2>2, TuplesJoined
  <2>4. Gets(text, items \o r, made, k + 1, T, j)
    <3>1. IsBinary(op) /\ q > p /\ op # "?" /\ op = KindAt(text, k)
      BY <1>5, <1>7, <1>9
    <3>2. CanOperators(text, p, made, k, R, n) /\ Gets(text, r, R, n, T, j)
      BY <1>3, <1>4
    <3> HIDE DEF op
    <3> QED
      BY <1>1, <1>5, <3>1, <3>2, GetsBinary
  <2> HIDE DEF items, q
  <2>5. Gets(text, items \o r, made', k + 1, T, j) /\ cur.kind \notin {"eof", "bad"}
    BY <1>1, <1>7, <1>9, <2>4
  <2> QED
    BY ONLY text \in Seq(STRING), AheadExact, <1>1, At(k), Clean(text, j), <2>3, <2>5, NewTokenOn DEF r
<1> QED
  BY <1>6, <1>8, <1>9

\* parseList after its begin token.
LEMMA CompletesElements ==
  ASSUME text \in Seq(STRING), AheadExact, todo # <<>>, NEW k, At(k), NEW T, NEW j, Clean(text, j),
         Gets(text, todo, made, k, T, j), IsStack(made), ParseElements
  PROVE  On(T, j)'
<1> DEFINE r == Tail(todo)
<1>1. todo[1].call = "elements" /\ ~thrown
  BY DEF ParseElements, Calls, Running
<1>2. PICK R : \E n \in Places(text) : Can(text, todo[1], made, k, R, n) /\ Gets(text, r, R, n, T, j)
  BY TodoFirst
<1>3. PICK n \in Places(text) : Can(text, todo[1], made, k, R, n) /\ Gets(text, r, R, n, T, j)
  BY <1>2
<1>4. Arg[1] = Exp(0) /\ Arg[2] = ")" /\ CanElements(text, made, k, R, n)
  BY <1>1, <1>3, CanIs DEF Arg
<1>5. k \in Places(text) /\ KindAt(text, k) = cur.kind
  BY TokenHere
<1> HIDE DEF r
<1>6. CASE cur.kind = ")"
  <2>1. Continue(<<Tok(")")>>) /\ made' = Append(made, List(<<>>))
    BY <1>4, <1>6 DEF ParseElements, Push
  <2>2. Gets(text, <<Tok(")")>> \o r, Append(made, List(<<>>)), k, T, j)
    BY <1>3, <1>4, <1>5, <1>6, GetsNoElements
  <2> QED
    BY <1>1, <2>1, <2>2, SameTokenOn DEF r
<1>7. CASE cur.kind # ")"
  <2> DEFINE items == <<Exp(0), With("more", <<Exp(0), 1>>), Tok(")")>>
  <2>1. Continue(NonEmptyList(Exp(0)) \o <<Tok(")")>>) /\ made' = made
    BY <1>4, <1>7 DEF ParseElements
  <2>2. Continue(items)
    BY <2>1, TuplesJoined DEF NonEmptyList
  <2>3. Gets(text, items \o r, made, k, T, j)
    BY <1>3, <1>4, <1>5, <1>7, GetsElements
  <2> HIDE DEF items
  <2> QED
    BY <1>1, <2>1, <2>2, <2>3, SameTokenOn DEF r
<1> QED
  BY <1>6, <1>7

\* The loop over the commas of a list.
LEMMA CompletesMore ==
  ASSUME text \in Seq(STRING), AheadExact, todo # <<>>, NEW k, At(k), NEW T, NEW j, Clean(text, j),
         Gets(text, todo, made, k, T, j), ParseMore
  PROVE  On(T, j)'
<1> DEFINE n == Arg[2]
           r == Tail(todo)
<1>1. todo[1].call = "more" /\ ~thrown /\ n = todo[1].arg[2]
  BY DEF ParseMore, Calls, Running, Arg
<1>2. PICK R : \E i \in Places(text) :
        /\ Can(text, todo[1], made, k, R, i)
        /\ Gets(text, r, R, i, T, j) /\ Gets(text, <<>> \o r, R, i, T, j)
  BY TodoFirst
<1>3. PICK i \in Places(text) :
        /\ Can(text, todo[1], made, k, R, i)
        /\ Gets(text, r, R, i, T, j) /\ Gets(text, <<>> \o r, R, i, T, j)
  BY <1>2
<1>4. Arg[1] = Exp(0) /\ CanMore(text, n, made, k, R, i)
  BY <1>1, <1>3, CanIs DEF Arg
<1>5. k \in Places(text) /\ KindAt(text, k) = cur.kind
  BY TokenHere
<1>6. IsComma(text, k) <=> cur.kind = ","
  BY <1>5, Zenon DEF IsComma
<1>7. CASE cur.kind = ","
  <2> DEFINE items == <<Exp(0), With("more", <<Exp(0), n + 1>>)>>
  <2>1. Consume(items) /\ made' = made
    BY <1>4, <1>7 DEF ParseMore
  <2>2. cur.kind \notin {"eof", "bad"}
    BY <1>7
  <2>3. IsComma(text, k)
    BY <1>6, <1>7, Zenon
  <2> HIDE DEF n, r
  <2>4. Gets(text, items \o r, made, k + 1, T, j)
    BY ONLY text \in Seq(STRING), <1>3, <1>4, <1>5, <2>3, GetsComma
  <2> HIDE DEF items
  <2>5. Gets(text, items \o r, made', k + 1, T, j)
    BY ONLY <2>1, <2>4
  <2> QED
    BY ONLY text \in Seq(STRING), AheadExact, <1>1, At(k), Clean(text, j), <2>1, <2>2, <2>5, NewTokenOn DEF r
<1>8. CASE cur.kind # ","
  <2>1. Continue(<<>>) /\ made' = Append(SubSeq(made, 1, Len(made) - n),
                                         List(SubSeq(made, Len(made) - n + 1, Len(made))))
    BY <1>8 DEF ParseMore, Collapse, LastMade
  <2>2. ~IsComma(text, k)
    BY <1>6, <1>8, Zenon
  <2> HIDE DEF n, r
  <2>3. i = k /\ R = made'
    BY ONLY text \in Seq(STRING), <1>4, <2>1, <2>2, GetsListEnd
  <2>4. Gets(text, <<>> \o r, made', k, T, j)
    BY ONLY <1>3, <2>3
  <2> QED
    BY ONLY <1>1, At(k), <2>1, <2>4, SameTokenOn DEF r
<1> QED
  BY <1>7, <1>8
-------------------------------------------------------------------------------
\* Expressions are made of tokens of the language.
Spotless(txt, i, j) == \A q \in Places(txt) : i <= q /\ q < j => KindAt(txt, q) # "bad"
SpotlessBelow(txt, n) ==
  \A a \in Places(txt) : \A b \in Places(txt) : a <= b /\ b - a < n =>
    \A q \in 0..8 : Reads(txt, a, b, q) # {} => Spotless(txt, a, b)

\* One token.
LEMMA SpotlessOne ==
  ASSUME NEW txt \in Seq(STRING), NEW i \in Places(txt), KindAt(txt, i) # "bad"
  PROVE  Spotless(txt, i, i + 1)
<1> SUFFICES ASSUME NEW q \in Places(txt), i <= q, q < i + 1 PROVE q = i
  BY DEF Spotless
<1> QED
  BY PlacesTo

\* Ranges next to each other.
LEMMA SpotlessJoin ==
  ASSUME NEW txt \in Seq(STRING), NEW i \in Nat, NEW m \in Nat, NEW j \in Nat,
         Spotless(txt, i, m), Spotless(txt, m, j)
  PROVE  Spotless(txt, i, j)
<1> SUFFICES ASSUME NEW q \in Places(txt), i <= q, q < j PROVE KindAt(txt, q) # "bad"
  BY DEF Spotless
<1>1. q < m \/ m <= q
  BY PlacesTo
<1> QED
  BY <1>1 DEF Spotless

\* The lists of a range.
LEMMA SpotlessList ==
  ASSUME NEW txt \in Seq(STRING), NEW n \in Int, SpotlessBelow(txt, n), NEW i \in Places(txt),
         NEW j \in Places(txt), i <= j, j - i < n, NEW l, ReadsList(txt, i, j, l)
  PROVE  Spotless(txt, i, j)
<1>0. i \in Nat /\ j \in Nat
  BY PlacesTo
<1>1. CASE i = j
  <2> SUFFICES ASSUME NEW q \in Places(txt), i <= q, q < j PROVE FALSE
    BY DEF Spotless
  <2> QED
    BY <1>0, <1>1, PlacesTo
<1>2. CASE i # j
  <2>1. PICK m \in Places(txt) : Reads(txt, i, m, 8) # {} /\ Reads(txt, m, j, 0) # {} /\ i <= m /\ m < j
    BY <1>2 DEF ReadsList
  <2>2. m \in Nat
    BY PlacesTo
  <2>3. m - i < n /\ m <= j /\ j - m < n /\ 8 \in 0..8 /\ 0 \in 0..8
    BY <1>0, <2>1, <2>2
  <2>4. Spotless(txt, i, m) /\ Spotless(txt, m, j)
    BY <2>1, <2>3 DEF SpotlessBelow
  <2> QED
    BY <1>0, <2>2, <2>4, SpotlessJoin
<1> QED
  BY <1>1, <1>2

\* The productions.
LEMMA SpotlessOperand ==
  ASSUME NEW txt \in Seq(STRING), NEW i \in Places(txt), NEW j \in Places(txt), i < j,
         SpotlessBelow(txt, j - i), NEW e, OperandIs(txt, i, j, e)
  PROVE  Spotless(txt, i, j)
<1>0. i \in Nat /\ j \in Nat /\ 0 \in 0..8
  BY PlacesTo
<1>1. KindAt(txt, i) # "bad"
  BY OperandAt DEF ScalarTypes
<1>2. Spotless(txt, i, i + 1)
  BY <1>1, SpotlessOne
<1>3. CASE j = i + 1
  BY <1>2, <1>3
<1>4. CASE j # i + 1
  <2>1. PICK n \in Places(txt) :
          /\ j = n + 1 /\ KindAt(txt, n) = ")"
          /\ \/ i + 1 < n /\ Reads(txt, i + 1, n, 0) # {}
             \/ /\ KindAt(txt, i + 1) = "(" /\ i + 2 <= n
                /\ (i + 2 < n /\ Reads(txt, i + 2, n, 0) # {}) \/ (\E l : ReadsList(txt, i + 2, n, l))
    BY <1>4 DEF OperandIs
  <2>2. n \in Nat /\ i + 1 \in Nat /\ i + 2 \in Nat
    BY <1>0, PlacesTo
  <2>3. Spotless(txt, n, j)
    BY <2>1, SpotlessOne
  <2>4. CASE i + 1 < n /\ Reads(txt, i + 1, n, 0) # {}
    <3>1. i + 1 \in Places(txt) /\ i + 1 <= n /\ n - (i + 1) < j - i
      BY <1>0, <2>1, <2>2, <2>4, PlacesTo
    <3>2. Spotless(txt, i + 1, n)
      BY <1>0, <2>4, <3>1 DEF SpotlessBelow
    <3> QED
      BY <1>0, <1>2, <2>2, <2>3, <3>2, SpotlessJoin
  <2>5. CASE /\ KindAt(txt, i + 1) = "(" /\ i + 2 <= n
             /\ (i + 2 < n /\ Reads(txt, i + 2, n, 0) # {}) \/ (\E l : ReadsList(txt, i + 2, n, l))
    <3>1. /\ i + 1 \in Places(txt) /\ i + 2 \in Places(txt) /\ n - (i + 2) < j - i /\ (i + 1) + 1 = i + 2
          /\ j - i \in Int
      BY <1>0, <2>1, <2>2, <2>5, PlacesTo
    <3>2. Spotless(txt, i + 1, i + 2)
      <4>1. KindAt(txt, i + 1) # "bad"
        BY <2>5
      <4> QED
        BY ONLY txt \in Seq(STRING), <3>1, <4>1, SpotlessOne
    <3>3. Spotless(txt, i + 2, n)
      <4>1. CASE Reads(txt, i + 2, n, 0) # {}
        BY <1>0, <2>5, <3>1, <4>1 DEF SpotlessBelow
      <4>2. ASSUME NEW l, ReadsList(txt, i + 2, n, l) PROVE Spotless(txt, i + 2, n)
        BY <2>5, <3>1, <4>2, SpotlessList
      <4> QED
        BY <2>5, <4>1, <4>2
    <3>4. Spotless(txt, i, i + 2)
      BY ONLY txt \in Seq(STRING), <1>0, <1>2, <2>2, <3>2, SpotlessJoin
    <3>5. Spotless(txt, i, n)
      BY ONLY txt \in Seq(STRING), <1>0, <2>2, <3>3, <3>4, SpotlessJoin
    <3> QED
      BY ONLY txt \in Seq(STRING), <1>0, <2>2, <2>3, <3>5, SpotlessJoin
  <2> QED
    BY <2>1, <2>4, <2>5
<1> QED
  BY <1>3, <1>4

\* An operator before an expression.
LEMMA SpotlessSigned ==
  ASSUME NEW txt \in Seq(STRING), NEW i \in Places(txt), NEW j \in Places(txt), i < j,
         SpotlessBelow(txt, j - i), NEW e, SignedIs(txt, i, j, e)
  PROVE  Spotless(txt, i, j)
<1>0. i \in Nat /\ j \in Nat
  BY PlacesTo
<1>1. IsUnary(KindAt(txt, i)) /\ i + 1 < j /\ Reads(txt, i + 1, j, UnaryPrec[KindAt(txt, i)]) # {}
  BY DEF SignedIs
<1>2. UnaryPrec[KindAt(txt, i)] \in 0..8 /\ KindAt(txt, i) # "bad"
  BY <1>1 DEF IsUnary, UnaryPrec
<1>3. i + 1 \in Places(txt) /\ i + 1 <= j /\ j - (i + 1) < j - i /\ i + 1 \in Nat
  BY <1>0, <1>1, PlacesTo
<1>4. Spotless(txt, i + 1, j)
  BY <1>1, <1>2, <1>3 DEF SpotlessBelow
<1> QED
  BY <1>0, <1>2, <1>3, <1>4, SpotlessOne, SpotlessJoin

\* What stands on both sides of a token.
LEMMA SpotlessAround ==
  ASSUME NEW txt \in Seq(STRING), NEW i \in Places(txt), NEW j \in Places(txt), NEW m \in Places(txt),
         i < m, m + 1 < j, KindAt(txt, m) # "bad", Spotless(txt, i, m), Spotless(txt, m + 1, j)
  PROVE  Spotless(txt, i, j)
<1>0. i \in Nat /\ j \in Nat /\ m \in Nat /\ m + 1 \in Nat
  BY PlacesTo
<1>1. Spotless(txt, m, m + 1)
  BY SpotlessOne
<1>2. Spotless(txt, i, m + 1)
  BY ONLY txt \in Seq(STRING), <1>0, <1>1, Spotless(txt, i, m), SpotlessJoin
<1> QED
  BY ONLY txt \in Seq(STRING), <1>0, <1>2, Spotless(txt, m + 1, j), SpotlessJoin

\* An operator between two.
LEMMA SpotlessBinary ==
  ASSUME NEW txt \in Seq(STRING), NEW i \in Places(txt), NEW j \in Places(txt), i < j,
         SpotlessBelow(txt, j - i), NEW p, NEW e, BinaryIs(txt, i, j, p, e)
  PROVE  Spotless(txt, i, j)
<1>0. i \in Nat /\ j \in Nat
  BY PlacesTo
<1>1. PICK m \in Places(txt) :
        /\ i < m /\ m + 1 < j /\ IsBinary(KindAt(txt, m))
        /\ Reads(txt, i, m, BinaryPrec[KindAt(txt, m)] - 1) # {}
        /\ Reads(txt, m + 1, j, BinaryPrec[KindAt(txt, m)]) # {}
  BY DEF BinaryIs
<1>2. m \in Nat /\ m + 1 \in Places(txt)
  BY <1>0, <1>1, PlacesTo
<1>3. BinaryPrec[KindAt(txt, m)] \in 1..6 /\ KindAt(txt, m) # "bad"
  BY <1>1, PrecOf, BinaryRead
<1>4. BinaryPrec[KindAt(txt, m)] - 1 \in 0..8 /\ BinaryPrec[KindAt(txt, m)] \in 0..8
  BY <1>3
<1>5. i <= m /\ m - i < j - i /\ m + 1 <= j /\ j - (m + 1) < j - i
  BY <1>0, <1>1, <1>2
<1>6. Spotless(txt, i, m) /\ Spotless(txt, m + 1, j)
  BY <1>1, <1>2, <1>4, <1>5 DEF SpotlessBelow
<1> QED
  BY <1>1, <1>3, <1>6, SpotlessAround

\* The conditional operator.
LEMMA SpotlessTernary ==
  ASSUME NEW txt \in Seq(STRING), NEW i \in Places(txt), NEW j \in Places(txt), i < j,
         SpotlessBelow(txt, j - i), NEW p, NEW e, TernaryIs(txt, i, j, p, e)
  PROVE  Spotless(txt, i, j)
<1>0. i \in Nat /\ j \in Nat /\ 0 \in 0..8 /\ 1 \in 0..8
  BY PlacesTo
<1>1. PICK m \in Places(txt), n \in Places(txt) :
        /\ i < m /\ m + 1 < n /\ n + 1 < j /\ KindAt(txt, m) = "?" /\ KindAt(txt, n) = ":"
        /\ Reads(txt, i, m, 1) # {} /\ Reads(txt, m + 1, n, 0) # {} /\ Reads(txt, n + 1, j, 0) # {}
  BY DEF TernaryIs
<1>2. m \in Nat /\ n \in Nat /\ m + 1 \in Places(txt) /\ n + 1 \in Places(txt)
  BY <1>0, <1>1, PlacesTo
<1>3. /\ i <= m /\ m - i < j - i /\ m + 1 <= n /\ n - (m + 1) < j - i /\ n + 1 <= j
      /\ j - (n + 1) < j - i /\ m + 1 < j
  BY <1>0, <1>1, <1>2
<1>4. Spotless(txt, i, m) /\ Spotless(txt, m + 1, n) /\ Spotless(txt, n + 1, j)
  BY <1>0, <1>1, <1>2, <1>3 DEF SpotlessBelow
<1>5. Spotless(txt, m + 1, j)
  <2>1. KindAt(txt, n) # "bad"
    BY <1>1
  <2> QED
    BY ONLY txt \in Seq(STRING), j \in Places(txt), <1>1, <1>2, <1>4, <2>1, SpotlessAround
<1>6. KindAt(txt, m) # "bad"
  BY <1>1
<1> QED
  BY <1>1, <1>3, <1>4, <1>5, <1>6, SpotlessAround

\* Lists that are followed by a comma.
LEMMA SpotlessCommas ==
  ASSUME NEW txt \in Seq(STRING), NEW i \in Places(txt), NEW j \in Places(txt), i < j,
         SpotlessBelow(txt, j - i), NEW l \in Reads(txt, i, j, 8)
  PROVE  Spotless(txt, i, j)
<1>0. i \in Nat /\ j \in Nat /\ 0 \in 0..8 /\ 8 \in 0..8
  BY PlacesTo
<1>1. PICK m \in Places(txt), n \in Places(txt) :
        /\ i <= m /\ m < n /\ j = n + 1 /\ IsComma(txt, n)
        /\ Reads(txt, i, m, 8) # {} /\ Reads(txt, m, n, 0) # {}
  <2>1. i <= j
    BY <1>0
  <2>2. \E m \in Places(txt), n \in Places(txt) :
          /\ i <= m /\ m < n /\ j = n + 1 /\ IsComma(txt, n)
          /\ \E before \in Reads(txt, i, m, 8), e \in Reads(txt, m, n, 0) : l = Append(before, e)
    BY <1>0, <2>1, CommasGive
  <2> QED
    BY <2>2
<1>2. m \in Nat /\ n \in Nat
  BY PlacesTo
<1>3. m - i < j - i /\ m <= n /\ n - m < j - i
  BY <1>0, <1>1, <1>2
<1>4. Spotless(txt, i, m) /\ Spotless(txt, m, n)
  BY <1>0, <1>1, <1>3 DEF SpotlessBelow
<1>5. Spotless(txt, i, n)
  BY <1>0, <1>2, <1>4, SpotlessJoin
<1>6. KindAt(txt, n) # "bad"
  <2>1. "," # "bad"
    BY Zenon
  <2> QED
    BY <1>1, <2>1, Zenon DEF IsComma
<1>7. Spotless(txt, n, j)
  BY <1>1, <1>6, SpotlessOne
<1> QED
  BY <1>0, <1>2, <1>5, <1>7, SpotlessJoin

\* No token of an expression is an error, by induction over their number.
LEMMA ReadsSpotless ==
  ASSUME NEW txt \in Seq(STRING), NEW i \in Places(txt), NEW j \in Places(txt), i <= j,
         NEW p \in 0..8, NEW e \in Reads(txt, i, j, p)
  PROVE  Spotless(txt, i, j)
<1> DEFINE T == {n \in Nat : SpotlessBelow(txt, n)}
<1>0. \A a \in Places(txt) : a \in Nat
  BY PlacesTo
<1>1. 0 \in T
  <2>1. SpotlessBelow(txt, 0)
    <3> SUFFICES ASSUME NEW a \in Places(txt), NEW b \in Places(txt), a <= b, b - a < 0 PROVE FALSE
      BY DEF SpotlessBelow
    <3> QED
      BY <1>0
  <2> QED
    BY <2>1
<1>2. ASSUME NEW n \in Nat, n \in T PROVE n + 1 \in T
  <2>0. SpotlessBelow(txt, n)
    BY <1>2
  <2> SUFFICES ASSUME NEW a \in Places(txt), NEW b \in Places(txt), a <= b, b - a < n + 1,
                      NEW q \in 0..8, NEW l \in Reads(txt, a, b, q)
               PROVE  Spotless(txt, a, b)
    BY DEF SpotlessBelow
  <2>1. a \in Nat /\ b \in Nat
    BY <1>0
  <2>2. CASE a = b
    BY <2>1, <2>2, PlacesTo DEF Spotless
  <2>3. CASE a # b
    <3>1. a < b
      BY <2>1, <2>3
    <3>2. SpotlessBelow(txt, b - a)
      <4> SUFFICES ASSUME NEW c \in Places(txt), NEW d \in Places(txt), c <= d, d - c < b - a
                   PROVE  d - c < n
        BY <2>0 DEF SpotlessBelow
      <4>1. c \in Nat /\ d \in Nat
        BY <1>0
      <4> QED
        BY <2>1, <4>1
    <3>3. CASE q = 8
      BY <3>1, <3>2, <3>3, SpotlessCommas
    <3>4. CASE q # 8
      <4>1. q \in 0..7
        BY <3>4
      <4>2. OperandIs(txt, a, b, l) \/ SignedIs(txt, a, b, l) \/ BinaryIs(txt, a, b, q, l)
            \/ TernaryIs(txt, a, b, q, l)
        BY <4>1, Inverts
      <4> QED
        BY <3>1, <3>2, <4>2, SpotlessOperand, SpotlessSigned, SpotlessBinary, SpotlessTernary
    <3> QED
      BY <3>3, <3>4
  <2> QED
    BY <2>2, <2>3
<1>3. j - i + 1 \in T
  <2>1. j - i + 1 \in Nat
    BY <1>0
  <2>2. Nat \subseteq T
    <3> HIDE DEF T
    <3> QED
      BY <1>1, <1>2, Induction
  <2> QED
    BY <2>1, <2>2
<1>4. SpotlessBelow(txt, j - i + 1) /\ j - i < j - i + 1
  BY <1>0, <1>3
<1> QED
  BY <1>4 DEF SpotlessBelow
-------------------------------------------------------------------------------
\* Every step of an expression keeps within reach what was within reach.
LEMMA CompletingStep ==
  ASSUME text \in Seq(STRING), AheadExact, StackInv, NEW e, NEW j, Clean(text, j), On(<<e>>, j), [Next]_vars
  PROVE  On(<<e>>, j)'
<1> DEFINE T == <<e>>
<1> HIDE DEF T
<1>0. On(T, j)
  BY DEF T
<1>1. PICK k : At(k) /\ Gets(text, todo, made, k, T, j)
  BY <1>0 DEF On
<1>2. CASE UNCHANGED vars
  <2>1. text' = text /\ cur' = cur /\ thrown' = thrown /\ todo' = todo /\ made' = made
    BY <1>2 DEF vars
  <2>2. At(k)'
    BY <1>1, <2>1 DEF At
  <2>3. On(T, j)'
    BY <1>0, <1>1, <2>1, <2>2 DEF On
  <2> QED
    BY <2>3 DEF T
<1>3. CASE Step
  <2>0. todo # <<>>
    BY <1>3 DEF Step, Calls, Running, Construct, ExpectToken, ParseIdent, ParseConst, ParseScalarType,
         ParseBaseExp, ParseArguments, ParseExp, ParseOperators, ParseElements, ParseMore, ParseStmts,
         ParseWhereClauses, ParseEquivalent, ParseOptionalIdentList, ParseOptionalDimList, Optional,
         ParseWhereClause, ParseAssignment, ParseStmt, ParseDim, ParseType, ParseParam, ParseFunction,
         ParseTactic, ParseTacticBody, MakeNode
  <2>1. IsItem(todo[1]) /\ IsStack(made)
    BY <2>0, StackFacts DEF StackInv, IsStack
  <2>2. todo[1].call \in {"expect", "ident", "const", "scalarType", "base", "exp", "arguments", "operators",
                          "elements", "more", "make"}
    BY <1>1, <2>0, TodoFirst, CanIs
  <2>3. \/ ExpectToken \/ ParseIdent \/ ParseConst \/ ParseScalarType
        \/ ParseBaseExp \/ ParseArguments \/ ParseExp \/ ParseOperators
        \/ ParseElements \/ ParseMore \/ MakeNode
    BY <1>3, <2>2 DEF Step, Calls, Running, Construct, ParseStmts,
         ParseWhereClauses, ParseEquivalent, ParseOptionalIdentList, ParseOptionalDimList, Optional,
         ParseWhereClause, ParseAssignment, ParseStmt, ParseDim, ParseType, ParseParam, ParseFunction,
         ParseTactic, ParseTacticBody
  <2>4. On(T, j)'
    BY <1>1, <2>0, <2>1, <2>3, CompletesExpect, CompletesIdent, CompletesConst, CompletesScalarType,
       CompletesBaseExp, CompletesArguments, CompletesExp, CompletesOperators, CompletesElements,
       CompletesMore, CompletesMake
  <2> QED
    BY <2>4 DEF T
<1>4. CASE Stop
  BY <1>2, <1>4 DEF Stop
<1> QED
  BY <1>2, <1>3, <1>4 DEF Next

\* Before its first token and while it reads an expression, the parser can still return
\* each expression of the grammar.
Fresh == ~thrown /\ todo = <<Call("lexer"), Exp(0)>> /\ made = <<>> /\ cur = Start
CompleteInv ==
  /\ text \in Seq(STRING)
  /\ input.entry = Exp(0) =>
       \A j \in Places(text) : 1 < j /\ Ends(text, j, 0) /\ Clean(text, j) =>
         \A e \in Reads(text, 1, j, 0) : Fresh \/ On(<<e>>, j)

\* The first step reads the first token.
LEMMA ConstructCompletes ==
  ASSUME text \in Seq(STRING), AheadExact, Fresh, [Next]_vars, NEW j \in Places(text), 1 < j,
         Ends(text, j, 0), Clean(text, j), NEW e \in Reads(text, 1, j, 0)
  PROVE  (Fresh \/ On(<<e>>, j))'
<1>0. ~thrown /\ todo = <<Call("lexer"), Exp(0)>> /\ made = <<>> /\ cur = Start
  BY DEF Fresh
<1>1. todo[1].call = "lexer"
  BY <1>0 DEF Call
<1>2. CASE UNCHANGED vars
  BY <1>2 DEF vars, Fresh
<1>3. CASE Construct
  <2>1. NextToken /\ todo' = <<>> \o Tail(todo) /\ made' = <<>>
    BY <1>0, <1>3 DEF Construct, Consume, Instead
  <2>2. Tail(todo) = <<Exp(0)>> /\ <<>> \o <<Exp(0)>> = <<Exp(0)>> /\ <<Exp(0)>> \o <<>> = <<Exp(0)>>
    BY <1>0
  <2>3. todo' = <<Exp(0)>>
    BY <2>1, <2>2
  <2>4. ~thrown'
    <3>1. End(cur) = 1
      BY <1>0 DEF Start, Token, End
    <3>2. 1 \in Places(text) /\ 1 <= j /\ AllTokens(text)[1] = Match(text, 1)
      BY PlacesAre, AllTokensAre
    <3>3. Match(text, 1).kind # "bad"
      BY <3>2 DEF Clean, KindAt
    <3> QED
      BY <1>0, <2>1, <3>1, <3>3, NextFine
  <2>5. At(1)' /\ text' = text
    BY <1>0, <2>1, <2>4, FirstToken
  <2>6. Gets(text, <<Exp(0)>>, <<>>, 1, <<e>>, j)
    <3>1. 1 \in Places(text)
      BY PlacesAre
    <3>2. Can(text, Exp(0), <<>>, 1, Append(<<>>, e), j)
      BY <3>1, CanExp
    <3>3. Gets(text, <<>>, Append(<<>>, e), j, Append(<<>>, e), j)
      BY GetsNone
    <3>4. Gets(text, <<Exp(0)>> \o <<>>, <<>>, 1, Append(<<>>, e), j)
      BY <3>2, <3>3, Gets1
    <3>5. Append(<<>>, e) = <<e>>
      OBVIOUS
    <3> QED
      BY ONLY <2>2, <3>4, <3>5
  <2> QED
    BY <2>1, <2>3, <2>4, <2>5, <2>6 DEF On
<1>4. CASE Step
  <2>1. Construct
    BY <1>1, <1>4 DEF Step, Calls, Running, ExpectToken, ParseIdent, ParseConst, ParseScalarType,
         ParseBaseExp, ParseArguments, ParseExp, ParseOperators, ParseElements, ParseMore, ParseStmts,
         ParseWhereClauses, ParseEquivalent, ParseOptionalIdentList, ParseOptionalDimList, Optional,
         ParseWhereClause, ParseAssignment, ParseStmt, ParseDim, ParseType, ParseParam, ParseFunction,
         ParseTactic, ParseTacticBody, MakeNode
  <2> QED
    BY <1>3, <2>1
<1> QED
  BY <1>2, <1>4 DEF Next, Stop

\* The invariant is kept by every step.
LEMMA CompleteInvStep ==
  ASSUME CompleteInv, AheadExact, StackInv, [Next]_vars
  PROVE  CompleteInv'
<1>1. text' = text /\ text \in Seq(STRING)
  BY ParserKeepsText DEF CompleteInv
<1>2. input' = input
  BY DEF Next, Step, Stop, vars
<1> SUFFICES ASSUME input.entry = Exp(0), NEW j \in Places(text), 1 < j, Ends(text, j, 0), Clean(text, j),
                    NEW e \in Reads(text, 1, j, 0)
             PROVE  (Fresh \/ On(<<e>>, j))'
  BY <1>1, <1>2 DEF CompleteInv
<1>3. Fresh \/ On(<<e>>, j)
  BY DEF CompleteInv
<1>4. CASE Fresh
  BY <1>1, <1>4, ConstructCompletes
<1>5. CASE On(<<e>>, j)
  BY <1>1, <1>5, CompletingStep
<1> QED
  BY <1>3, <1>4, <1>5

\* At the end nothing else is within reach.
LEMMA CompleteInvExact ==
  ASSUME CompleteInv
  PROVE  ExpComplete
<1> DEFINE ts == AllTokens(text)
<1>0. text \in Seq(STRING)
  BY DEF CompleteInv
<1>1. Places(text) = 1..Len(ts) /\ Len(ts) \in Nat
  BY <1>0, AllTokensAre DEF Places
<1> SUFFICES ASSUME input.entry = Exp(0), ~Running, NEW j \in 2..Len(ts), MayEnd(text, j), ts[j].kind # "bad",
                    NEW e \in Reads(text, 1, j, 0)
             PROVE  Finished /\ made = <<e>> /\ cur = ts[j]
  BY DEF ExpComplete
<1>2. j \in Places(text) /\ 1 < j /\ 1 \in Places(text) /\ 1 <= j
  BY <1>1
<1>3. Ends(text, j, 0)
  BY DEF MayEnd, Ends, Closes, KindAt
<1>4. Clean(text, j)
  <2>1. Spotless(text, 1, j)
    BY <1>0, <1>2, ReadsSpotless
  <2> SUFFICES ASSUME NEW i \in Places(text), i <= j PROVE KindAt(text, i) # "bad"
    BY DEF Clean
  <2>2. i = j \/ (1 <= i /\ i < j)
    BY <1>1
  <2> QED
    BY <2>1, <2>2 DEF Spotless, KindAt
<1>5. Fresh \/ On(<<e>>, j)
  BY <1>2, <1>3, <1>4 DEF CompleteInv
<1>6. ~Fresh
  <2> SUFFICES ASSUME Fresh PROVE FALSE
    OBVIOUS
  <2>1. todo # <<>> /\ ~thrown
    <3>1. \A a, b : <<a, b>> # <<>>
      OBVIOUS
    <3> QED
      BY <3>1 DEF Fresh
  <2> QED
    BY <2>1 DEF Running
<1>7. PICK k : ~thrown /\ At(k) /\ Gets(text, todo, made, k, <<e>>, j)
  BY <1>5, <1>6 DEF On
<1>8. todo = <<>>
  BY <1>7 DEF Running
<1>9. made = <<e>> /\ k = j
  BY <1>7, <1>8, GetsNone
<1> QED
  BY <1>7, <1>8, <1>9 DEF Finished, At

\* parseExp(0) returns the expression that the text is, whatever the text: there is no
\* other way to read it, and none is missed (parser.h:46-130).
THEOREM ParserExpComplete == Spec => []ExpComplete
<1> DEFINE Inv == CompleteInv /\ AheadExact /\ StackInv
<1>1. Init => Inv
  <2>1. Init => CompleteInv
    BY InputsAssumption DEF Init, CompleteInv, Fresh, LexInit
  <2> QED
    BY <2>1, AheadInit, StackInit DEF Init
<1>2. Inv /\ [Next]_vars => Inv'
  BY CompleteInvStep, ParserStep, AheadStep, StackStep
<1>3. Inv => ExpComplete
  BY CompleteInvExact
<1> QED
  BY <1>1, <1>2, <1>3, PTL DEF Spec
===============================================================================
