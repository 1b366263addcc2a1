----------------------------- MODULE SemaProofs -----------------------------
(***************************************************************************)
(* What semantic analysis guarantees for every well-formed function: about *)
(* outputs and annotations, scopes, the reads of a tensor, and types.      *)
(*                                                                         *)
(* The first part is about expressions: what checkExp does to the scope of *)
(* an expression, for every expression, and the types it computes, where   *)
(* match_types is the join of the order "can be held by".                  *)
(***************************************************************************)
EXTENDS Sema, SequenceTheorems, DataInduction

Full == {t \in Scalars : Supported(t)}

\* Each type has a kind and a width, and every width of an integer is the width
\* of exactly one signed type.
LEMMA TypeInfos ==
  ASSUME NEW t \in Full
  PROVE  /\ Code(t) \in {"Float", "Int", "UInt"}
         /\ Bits(t) \in {1, 8, 16, 32, 64}
         /\ Bits(t) = 1 => Code(t) = "UInt"
BY DEF Full, Supported, Scalars, UInts, Ints, Floats, Code, Bits

LEMMA IntTokens ==
  ASSUME NEW n \in {8, 16, 32, 64}
  PROVE  IntToken(n) \in Full /\ Code(IntToken(n)) = "Int" /\ Bits(IntToken(n)) = n
<1>1. \E t \in Ints : Bits(t) = n
  BY DEF Ints, Bits
<1>2. IntToken(n) \in Ints /\ Bits(IntToken(n)) = n
  BY <1>1 DEF IntToken
<1> QED
  BY <1>2 DEF Ints, Floats, UInts, Full, Supported, Scalars, Code

\* The width of the wider of two types that are not both unsigned is a width a
\* signed type has.
LEMMA WiderBits ==
  ASSUME NEW a \in Full, NEW b \in Full
  PROVE  /\ Wider(a, b) \in {a, b}
         /\ Bits(Wider(a, b)) >= Bits(a) /\ Bits(Wider(a, b)) >= Bits(b)
         /\ ~(Code(a) = "UInt" /\ Code(b) = "UInt") => Bits(Wider(a, b)) \in {8, 16, 32, 64}
BY TypeInfos DEF Wider

\* match_types answers with the least type that holds both: an upper bound of a
\* and b in the order of Fits, and below every other upper bound.
THEOREM MatchTypesIsJoin ==
  \A a, b, c \in Full :
    /\ MatchTypes(a, b) \in Full
    /\ Fits(a, MatchTypes(a, b)) /\ Fits(b, MatchTypes(a, b))
    /\ Fits(a, c) /\ Fits(b, c) => Fits(MatchTypes(a, b), c)
<1> SUFFICES ASSUME NEW a \in Full, NEW b \in Full, NEW c \in Full
             PROVE  /\ MatchTypes(a, b) \in Full
                    /\ Fits(a, MatchTypes(a, b)) /\ Fits(b, MatchTypes(a, b))
                    /\ Fits(a, c) /\ Fits(b, c) => Fits(MatchTypes(a, b), c)
  OBVIOUS
<1> DEFINE m == IntToken(Bits(Wider(a, b)))
<1>1. /\ Code(a) \in {"Float", "Int", "UInt"} /\ Bits(a) \in {1, 8, 16, 32, 64}
      /\ Code(b) \in {"Float", "Int", "UInt"} /\ Bits(b) \in {1, 8, 16, 32, 64}
      /\ Code(c) \in {"Float", "Int", "UInt"} /\ Bits(c) \in {1, 8, 16, 32, 64}
  BY TypeInfos
<1>2. CASE SameInfo(a, b)
  BY <1>1, <1>2 DEF SameInfo, MatchTypes, Fits
<1>3. CASE ~SameInfo(a, b) /\ (Code(a) = "Float" \/ Code(b) = "Float")
  BY <1>1, <1>3 DEF SameInfo, MatchTypes, Fits, Wider
<1>4. CASE ~SameInfo(a, b) /\ Code(a) = "UInt" /\ Code(b) = "UInt"
  BY <1>1, <1>4 DEF SameInfo, MatchTypes, Fits, Wider
<1>5. CASE /\ ~SameInfo(a, b) /\ Code(a) # "Float" /\ Code(b) # "Float"
           /\ ~(Code(a) = "UInt" /\ Code(b) = "UInt")
  <2>1. /\ Wider(a, b) \in {a, b} /\ Bits(Wider(a, b)) \in {8, 16, 32, 64}
        /\ Bits(Wider(a, b)) >= Bits(a) /\ Bits(Wider(a, b)) >= Bits(b)
    BY <1>5, WiderBits
  <2>2. m \in Full /\ Code(m) = "Int" /\ Bits(m) = Bits(Wider(a, b))
    BY <2>1, IntTokens
  <2>3. MatchTypes(a, b) = IF Code(a) = Code(b) /\ Code(a) # "Int" THEN Wider(a, b) ELSE m
    BY <1>5 DEF MatchTypes
  <2>4. MatchTypes(a, b) = m
    BY <1>1, <1>5, <2>3
  <2> HIDE DEF m
  <2>5. Fits(a, m) /\ Fits(b, m)
    BY <1>1, <1>5, <2>1, <2>2 DEF Fits
  <2>6. ASSUME Fits(a, c), Fits(b, c) PROVE Fits(m, c)
    BY <1>1, <1>5, <2>1, <2>2, <2>6 DEF Fits
  <2> QED
    BY <2>2, <2>4, <2>5, <2>6
<1> QED
  BY <1>2, <1>3, <1>4, <1>5

\* Fits orders the types up to the tokens that share a TypeInfo.
LEMMA FitsOrder ==
  ASSUME NEW a \in Full, NEW b \in Full, NEW c \in Full
  PROVE  /\ Fits(a, a)
         /\ Fits(a, b) /\ Fits(b, c) => Fits(a, c)
         /\ Fits(a, b) /\ Fits(b, a) => SameInfo(a, b)
BY TypeInfos DEF Fits, SameInfo

\* So matchAllTypes may visit the operands of an expression in any order: kind
\* and width of the result do not depend on it.
THEOREM MatchTypesAnyOrder ==
  \A a, b, c \in Full :
    /\ SameInfo(MatchTypes(a, b), MatchTypes(b, a))
    /\ SameInfo(MatchTypes(MatchTypes(a, b), c), MatchTypes(a, MatchTypes(b, c)))
<1> SUFFICES ASSUME NEW a \in Full, NEW b \in Full, NEW c \in Full
             PROVE  /\ SameInfo(MatchTypes(a, b), MatchTypes(b, a))
                    /\ SameInfo(MatchTypes(MatchTypes(a, b), c), MatchTypes(a, MatchTypes(b, c)))
  OBVIOUS
<1> DEFINE ab == MatchTypes(a, b)
           bc == MatchTypes(b, c)
           l  == MatchTypes(ab, c)
           r  == MatchTypes(a, bc)
<1>1. ab \in Full /\ bc \in Full /\ MatchTypes(b, a) \in Full
  BY MatchTypesIsJoin
<1>2. SameInfo(MatchTypes(a, b), MatchTypes(b, a))
  <2>1. Fits(MatchTypes(a, b), MatchTypes(b, a))
    BY <1>1, MatchTypesIsJoin
  <2>2. Fits(MatchTypes(b, a), MatchTypes(a, b))
    BY <1>1, MatchTypesIsJoin
  <2> QED
    BY <1>1, <2>1, <2>2, FitsOrder
<1>3. /\ Fits(a, ab) /\ Fits(b, ab) /\ Fits(b, bc) /\ Fits(c, bc)
  BY MatchTypesIsJoin
<1>4. l \in Full /\ Fits(ab, l) /\ Fits(c, l)
  BY <1>1, MatchTypesIsJoin
<1>5. r \in Full /\ Fits(a, r) /\ Fits(bc, r)
  BY <1>1, MatchTypesIsJoin
<1> HIDE DEF l, r
<1>6. Fits(a, l) /\ Fits(b, l) /\ Fits(b, r) /\ Fits(c, r)
  BY <1>1, <1>3, <1>4, <1>5, FitsOrder
<1>7. Fits(bc, l) /\ Fits(ab, r)
  BY <1>4, <1>5, <1>6, MatchTypesIsJoin
<1>8. Fits(r, l) /\ Fits(l, r)
  BY <1>1, <1>4, <1>5, <1>6, <1>7, MatchTypesIsJoin DEF l, r
<1>9. SameInfo(l, r)
  BY <1>4, <1>5, <1>8, FitsOrder
<1> QED
  BY <1>2, <1>9 DEF l, r

-------------------------------------------------------------------------------
\* The recursive definitions of Sema, unfolded.

LEMMA CheckExpSteps ==
  ASSUME NEW s, NEW exp, Len(exp) \in Nat, NEW access
  PROVE  \E f : /\ f[0] = s
                /\ \A p \in 1..Len(exp) : f[p] = CheckNode(f[p - 1], exp[p], access)
                /\ CheckExp(s, exp, access) = f[Len(exp)]
<1> DEFINE Steps(f, n) ==
             f = [p \in 0..n |-> IF p = 0 THEN s ELSE CheckNode(f[p - 1], exp[p], access)]
           T == {n \in Nat : \E f : Steps(f, n)}
<1>1. 0 \in T
  <2>1. Steps([p \in 0..0 |-> s], 0)
    OBVIOUS
  <2> QED
    BY <2>1
<1>2. ASSUME NEW n \in Nat, n \in T PROVE n + 1 \in T
  <2>1. PICK f : Steps(f, n)
    BY <1>2
  <2> DEFINE g == [p \in 0..(n + 1) |-> IF p <= n THEN f[p] ELSE CheckNode(f[n], exp[p], access)]
  <2>2. Steps(g, n + 1)
    <3> SUFFICES ASSUME NEW p \in 0..(n + 1)
                 PROVE  g[p] = IF p = 0 THEN s ELSE CheckNode(g[p - 1], exp[p], access)
      OBVIOUS
    <3>1. CASE p <= n
      BY <2>1, <3>1
    <3>2. CASE p = n + 1
      BY <2>1, <3>2
    <3> QED
      BY <3>1, <3>2
  <2> HIDE DEF g, Steps
  <2>3. \E h : Steps(h, n + 1)
    BY <2>2
  <2> QED
    BY <2>3
<1>3. \E f : Steps(f, Len(exp))
  <2> HIDE DEF Steps
  <2> QED
    BY <1>1, <1>2, Induction
<1> DEFINE h == CHOOSE h : Steps(h, Len(exp))
<1>4. Steps(h, Len(exp))
  BY <1>3
<1>5. CheckExp(s, exp, access) = h[Len(exp)]
  BY DEF CheckExp
<1> HIDE DEF h
<1> QED
  BY <1>4, <1>5

\* f lists the scopes checkExp leaves behind along exps.
ExpsScopes(f, s, exps) ==
  /\ f[0] = s
  /\ \A p \in 1..Len(exps) : f[p] = CheckExp(f[p - 1], exps[p], TRUE)
  /\ CheckExps(s, exps) = f[Len(exps)]

LEMMA CheckExpsSteps ==
  ASSUME NEW s, NEW exps, Len(exps) \in Nat
  PROVE  \E f : ExpsScopes(f, s, exps)
<1> DEFINE Steps(f, n) ==
             f = [p \in 0..n |-> IF p = 0 THEN s ELSE CheckExp(f[p - 1], exps[p], TRUE)]
           T == {n \in Nat : \E f : Steps(f, n)}
<1>1. 0 \in T
  <2>1. Steps([p \in 0..0 |-> s], 0)
    OBVIOUS
  <2> QED
    BY <2>1
<1>2. ASSUME NEW n \in Nat, n \in T PROVE n + 1 \in T
  <2>1. PICK f : Steps(f, n)
    BY <1>2
  <2> DEFINE g == [p \in 0..(n + 1) |-> IF p <= n THEN f[p] ELSE CheckExp(f[n], exps[p], TRUE)]
  <2>2. Steps(g, n + 1)
    <3> SUFFICES ASSUME NEW p \in 0..(n + 1)
                 PROVE  g[p] = IF p = 0 THEN s ELSE CheckExp(g[p - 1], exps[p], TRUE)
      OBVIOUS
    <3>1. CASE p <= n
      BY <2>1, <3>1
    <3>2. CASE p = n + 1
      BY <2>1, <3>2
    <3> QED
      BY <3>1, <3>2
  <2> HIDE DEF g, Steps
  <2>3. \E h : Steps(h, n + 1)
    BY <2>2
  <2> QED
    BY <2>3
<1>3. \E f : Steps(f, Len(exps))
  <2> HIDE DEF Steps
  <2> QED
    BY <1>1, <1>2, Induction
<1> DEFINE h == CHOOSE h : Steps(h, Len(exps))
<1>4. Steps(h, Len(exps))
  BY <1>3
<1>5. CheckExps(s, exps) = h[Len(exps)]
  BY DEF CheckExps
<1> HIDE DEF h
<1>6. h[0] = s /\ \A p \in 1..Len(exps) : h[p] = CheckExp(h[p - 1], exps[p], TRUE)
  BY <1>4
<1>7. ExpsScopes(h, s, exps)
  BY ONLY <1>5, <1>6 DEF ExpsScopes
<1> QED
  BY ONLY <1>7, Zenon

-------------------------------------------------------------------------------
\* Scopes and the lists of names they collect.

IsScope(s) == s = [env |-> s.env, index |-> s.index, lets |-> s.lets, red |-> s.red,
                   stack |-> s.stack, ok |-> s.ok]

\* t is s with another stack.
Restacked(s, t) ==
  IsScope(t) /\ t.env = s.env /\ t.index = s.index /\ t.lets = s.lets /\ t.red = s.red

LEMMA ScopeParts ==
  ASSUME NEW s, IsScope(s), NEW t, NEW n
  PROVE  /\ Restacked(s, Push(s, t)) /\ Restacked(s, Drop(s, n))
         /\ Restacked(s, Push(Drop(s, n), t))
         /\ ~Failed(s).ok /\ IsScope(Failed(s))
<1>1. DOMAIN s = {"env", "index", "lets", "red", "stack", "ok"}
  BY DEF IsScope
<1>2. Restacked(s, Push(s, t))
  BY <1>1, SMTT(30) DEF IsScope, Restacked, Push
<1>3. Restacked(s, Drop(s, n))
  <2> DEFINE rest == SubSeq(s.stack, 1, Len(s.stack) - n)
  <2>1. Drop(s, n) = [s EXCEPT !.stack = rest]
    BY DEF Drop
  <2> HIDE DEF rest
  <2> QED
    BY <1>1, <2>1 DEF IsScope, Restacked
<1>4. Restacked(Drop(s, n), Push(Drop(s, n), t))
  <2>1. IsScope(Drop(s, n)) /\ DOMAIN Drop(s, n) = {"env", "index", "lets", "red", "stack", "ok"}
    BY <1>3 DEF IsScope, Restacked
  <2> QED
    BY <2>1, SMTT(30) DEF IsScope, Restacked, Push
<1>5. ~Failed(s).ok /\ IsScope(Failed(s))
  <2>1. Failed(s) = [s EXCEPT !.ok = FALSE]
    BY DEF Failed
  <2>2. Failed(s).ok = FALSE
    BY <1>1, <2>1, Zenon
  <2> QED
    BY <1>1, <2>1, <2>2 DEF IsScope
<1> QED
  BY <1>2, <1>3, <1>4, <1>5 DEF Restacked

\* The list of the first meetings grows by one name.
LEMMA InOrderGrows ==
  ASSUME NEW red, NEW uses, NEW u, red \in Seq(Range(red)), InOrder(red, uses),
         \A v \in uses : Earlier(v.at, u.at)
  PROVE  /\ u.node.name \in Range(red) => InOrder(red, uses \cup {u})
         /\ u.node.name \notin Range(red) =>
              /\ InOrder(Append(red, u.node.name), uses \cup {u})
              /\ Append(red, u.node.name) \in Seq(Range(Append(red, u.node.name)))
              /\ Range(Append(red, u.node.name)) = Range(red) \cup {u.node.name}
<1> DEFINE x == u.node.name
           more == Append(red, x)
<1>0. /\ IsInjective(red) /\ Range(red) = {v.node.name : v \in uses}
      /\ \A i, j \in DOMAIN red : i < j =>
           \E v \in uses : /\ v.node.name = red[i]
                           /\ \A w \in uses : w.node.name = red[j] => Earlier(v.at, w.at)
  BY DEF InOrder
<1>1. ASSUME x \in Range(red) PROVE InOrder(red, uses \cup {u})
  <2>1. ASSUME NEW i \in DOMAIN red, NEW j \in DOMAIN red, i < j
        PROVE  \E v \in uses \cup {u} :
                  /\ v.node.name = red[i]
                  /\ \A w \in uses \cup {u} : w.node.name = red[j] => Earlier(v.at, w.at)
    BY <1>0, <2>1
  <2>2. Range(red) = {v.node.name : v \in uses \cup {u}}
    BY <1>0, <1>1
  <2>3. IsInjective(red)
    BY <1>0
  <2> QED
    BY <2>1, <2>2, <2>3 DEF InOrder
<1>2. ASSUME x \notin Range(red)
      PROVE InOrder(more, uses \cup {u}) /\ more \in Seq(Range(more))
            /\ Range(more) = Range(red) \cup {x}
  <2>1. /\ Len(more) = Len(red) + 1 /\ Len(red) \in Nat
        /\ DOMAIN red = 1..Len(red) /\ DOMAIN more = 1..(Len(red) + 1)
        /\ more[Len(red) + 1] = x
        /\ \A i \in 1..Len(red) : more[i] = red[i]
        /\ more \in Seq(Range(red) \cup {x})
    OBVIOUS
  <2> HIDE DEF more
  <2>2. Range(more) = Range(red) \cup {x}
    BY <2>1 DEF Range
  <2>3. IsInjective(more)
    <3> SUFFICES ASSUME NEW a \in DOMAIN more, NEW b \in DOMAIN more, more[a] = more[b]
                 PROVE  a = b
      BY DEF IsInjective
    <3> QED
      BY <1>0, <1>2, <2>1 DEF IsInjective, Range
  <2>4. Range(more) = {v.node.name : v \in uses \cup {u}}
    BY <1>0, <2>2
  <2>5. ASSUME NEW i \in DOMAIN more, NEW j \in DOMAIN more, i < j
        PROVE  \E v \in uses \cup {u} :
                  /\ v.node.name = more[i]
                  /\ \A w \in uses \cup {u} : w.node.name = more[j] => Earlier(v.at, w.at)
    <3>1. i \in DOMAIN red /\ more[i] = red[i]
      BY <2>1, <2>5
    <3>2. CASE j = Len(red) + 1
      <4>1. PICK v \in uses : v.node.name = red[i]
        BY <1>0, <3>1 DEF Range
      <4>2. \A w \in uses : w.node.name # x
        BY <1>0, <1>2
      <4> QED
        BY <2>1, <3>1, <3>2, <4>1, <4>2
    <3>3. CASE j # Len(red) + 1
      <4>1. j \in DOMAIN red /\ more[j] = red[j]
        BY <2>1, <3>3
      <4>2. x # red[j]
        BY <1>2, <4>1 DEF Range
      <4>3. PICK v \in uses : /\ v.node.name = red[i]
                              /\ \A w \in uses : w.node.name = red[j] => Earlier(v.at, w.at)
        BY <1>0, <2>5, <3>1, <4>1
      <4> QED
        BY <3>1, <4>1, <4>2, <4>3
    <3> QED
      BY <3>2, <3>3
  <2> QED
    BY <2>1, <2>2, <2>3, <2>4, <2>5 DEF InOrder
<1> QED
  BY <1>1, <1>2

-------------------------------------------------------------------------------
\* The scope of an expression, and what has been met so far: the names uses
\* without a meaning, where X are the statement's own indices, and the accesses
\* reads.

ReadOk(e, node) ==
  node.name \notin DOMAIN BuiltIns =>
    node.name \in DOMAIN e /\ e[node.name].kind = "tensor" /\ e[node.name].rank = node.n

Consistent(s, X, uses, reads) ==
  /\ IsScope(s)
  /\ DOMAIN s.index = X \cup Range(s.red)
  /\ s.red \in Seq(Range(s.red))
  /\ InOrder(s.red, uses)
  /\ \A x \in DOMAIN s.index : s.index[x] = Scalar("int32")
  /\ \A x \in DOMAIN s.lets : s.lets[x].kind = "scalar"
  /\ \A node \in reads : ReadOk(s.env, node)

Meant(s, X) == X \cup DOMAIN s.lets \cup DOMAIN s.env
Unmeant(s, X, us) == {u \in us : u.node.op = "ident" /\ u.node.name \notin Meant(s, X)}
Accesses(us) == {u.node : u \in {u \in us : u.node.op = "apply"}}

\* A scope only grows, and keeps what is not its own.
Within(s, t) == t.env = s.env /\ t.lets = s.lets

LEMMA ConsistentRestacked ==
  ASSUME NEW s, NEW t, NEW X, NEW uses, NEW reads, Consistent(s, X, uses, reads), Restacked(s, t)
  PROVE  Consistent(t, X, uses, reads) /\ Within(s, t)
BY DEF Consistent, Restacked, Within

\* lookupVarOrCreateIndex lists the name exactly if it has no meaning yet.
LEMMA CreateIndexConsistent ==
  ASSUME NEW s, NEW X, NEW uses, NEW reads, NEW u, Consistent(s, X, uses, reads),
         u.node.op = "ident", \A v \in uses : Earlier(v.at, u.at),
         CreateIndex(s, u.node.name).ok
  PROVE  /\ Consistent(CreateIndex(s, u.node.name), X, uses \cup Unmeant(s, X, {u}), reads)
         /\ Within(s, CreateIndex(s, u.node.name))
<1> DEFINE x == u.node.name
           t == CreateIndex(s, x)
<1>0. /\ IsScope(s) /\ DOMAIN s.index = X \cup Range(s.red)
      /\ s.red \in Seq(Range(s.red)) /\ InOrder(s.red, uses)
  BY DEF Consistent
<1>1. CASE Known(s, x) /\ x \notin Range(s.red)
  <2>1. t = s
    BY <1>1 DEF CreateIndex
  <2>2. x \in Meant(s, X)
    BY <1>0, <1>1 DEF Known, Meant
  <2>3. Unmeant(s, X, {u}) = {}
    BY <2>2 DEF Unmeant
  <2> QED
    BY <2>1, <2>3 DEF Within
<1>2. CASE x \in Range(s.red)
  <2>1. t = s
    BY <1>0, <1>2 DEF CreateIndex, Known
  <2>2. Unmeant(s, X, {u}) = {} \/ Unmeant(s, X, {u}) = {u}
    BY DEF Unmeant
  <2>3. InOrder(s.red, uses \cup {u})
    BY <1>0, <1>2, InOrderGrows
  <2>4. InOrder(s.red, uses \cup Unmeant(s, X, {u}))
    BY <1>0, <2>2, <2>3
  <2> QED
    BY <2>1, <2>4 DEF Within, Consistent
<1>3. CASE ~Known(s, x)
  <2>1. x \notin X \cup Range(s.red) \cup DOMAIN s.lets \cup DOMAIN s.env
    BY <1>0, <1>3 DEF Known
  <2>2. InsertableNew(s.index, x)
    <3> SUFFICES ASSUME ~InsertableNew(s.index, x) PROVE FALSE
      OBVIOUS
    <3>1. t = Failed(s)
      BY <1>3 DEF CreateIndex
    <3> QED
      BY <1>0, <3>1, ScopeParts
  <2> DEFINE index == Emplace(s.index, {x}, Scalar("int32"))
             red   == Append(s.red, x)
  <2>3. t = [s EXCEPT !.index = index, !.red = red]
    BY <1>3, <2>2 DEF CreateIndex
  <2>4. /\ InOrder(red, uses \cup {u}) /\ red \in Seq(Range(red))
        /\ Range(red) = Range(s.red) \cup {x}
    BY <1>0, <2>1, InOrderGrows
  <2>5. /\ DOMAIN index = DOMAIN s.index \cup {x}
        /\ \A y \in DOMAIN index : index[y] = Scalar("int32")
    BY DEF Emplace, Consistent
  <2> HIDE DEF index, red
  <2>6. /\ IsScope(t) /\ t.index = index /\ t.red = red
        /\ t.env = s.env /\ t.lets = s.lets
    <3> HIDE DEF t
    <3> QED
      BY <1>0, <2>3 DEF IsScope
  <2>7. Unmeant(s, X, {u}) = {u}
    BY <2>1 DEF Unmeant, Meant
  <2> HIDE DEF t, x
  <2>8. Consistent(t, X, uses \cup {u}, reads)
    BY <1>0, <2>4, <2>5, <2>6 DEF Consistent
  <2> QED
    BY <2>6, <2>7, <2>8 DEF Within, t, x
<1> QED
  BY <1>1, <1>2, <1>3

\* A node that is no name only changes the stack.
LEMMA CheckNodeRestacks ==
  ASSUME NEW s, NEW node, NEW access, IsScope(s), s.ok, CheckNode(s, node, access).ok,
         node.op # "ident"
  PROVE  Restacked(s, CheckNode(s, node, access))
<1> DEFINE t == CheckNode(s, node, access)
<1>1. \A r : ~Failed(s).ok /\ Restacked(s, Push(s, r)) /\ Restacked(s, Push(Drop(s, 1), r))
               /\ Restacked(s, Push(Drop(s, node.n), r))
  BY ScopeParts
<1>2. CASE node.op = "const"
  <2>1. t = Push(s, node.type)
    BY <1>2 DEF CheckNode
  <2> QED
    BY <1>1, <2>1
<1>3. CASE node.op = "apply"
  <2>1. t = CheckApply(s, node.name, node.n, access)
    BY <1>3 DEF CheckNode
  <2>2. t = Failed(s) \/ \E r : t = Push(Drop(s, node.n), r)
    BY <2>1, Zenon DEF CheckApply
  <2> QED
    BY <1>1, <2>2
<1>4. CASE node.op = "dim"
  <2>1. t = Failed(s) \/ t = Push(s, "int32")
    BY <1>4 DEF CheckNode
  <2> QED
    BY <1>1, <2>1
<1>5. CASE node.op = "cast"
  <2>1. t = Failed(s) \/ t = Push(Drop(s, 1), node.type)
    BY <1>5 DEF CheckNode
  <2> QED
    BY <1>1, <2>1
<1>6. CASE node.op \notin {"ident", "const", "apply", "dim", "cast"}
  <2>1. t = Failed(s) \/ \E r : t = Push(Drop(s, node.n), r)
    BY <1>6 DEF CheckNode
  <2> QED
    BY <1>1, <2>1
<1> QED
  BY <1>2, <1>3, <1>4, <1>5, <1>6

\* An access is accepted only for a tensor of the environment, of its rank: an
\* index and a let binding are scalars.
LEMMA CheckApplyReads ==
  ASSUME NEW s, NEW X, NEW uses, NEW reads, NEW x, NEW n, NEW access,
         Consistent(s, X, uses, reads), CheckApply(s, x, n, access).ok, x \notin DOMAIN BuiltIns
  PROVE  x \in DOMAIN s.env /\ s.env[x].kind = "tensor" /\ s.env[x].rank = n /\ access
<1>1. ~Failed(s).ok
  BY ScopeParts DEF Consistent
<1>2. Known(s, x) /\ Lookup(s, x).kind = "tensor" /\ Lookup(s, x).rank = n /\ access
  BY <1>1 DEF CheckApply
<1>3. /\ \A y \in DOMAIN s.index : s.index[y].kind # "tensor"
      /\ \A y \in DOMAIN s.lets : s.lets[y].kind # "tensor"
  BY DEF Consistent, Scalar
<1> QED
  BY <1>2, <1>3 DEF Known, Lookup

LEMMA CheckNodeConsistent ==
  ASSUME NEW s, NEW X, NEW uses, NEW reads, NEW u, NEW access, Consistent(s, X, uses, reads),
         \A v \in uses : Earlier(v.at, u.at), CheckNode(s, u.node, access).ok
  PROVE  /\ Consistent(CheckNode(s, u.node, access), X, uses \cup Unmeant(s, X, {u}),
                       reads \cup Accesses({u}))
         /\ Within(s, CheckNode(s, u.node, access))
         /\ s.ok
<1> DEFINE t == CheckNode(s, u.node, access)
<1>1. s.ok /\ IsScope(s)
  BY DEF CheckNode, Consistent
<1>2. CASE u.node.op = "ident"
  <2> DEFINE i == CreateIndex(s, u.node.name)
             type == Lookup(i, u.node.name).scalar
  <2>1. t = CheckIdent(s, u.node.name, access)
    BY <1>1, <1>2 DEF CheckNode
  <2>2. \/ ~i.ok /\ t = i
        \/ i.ok /\ t = Failed(i)
        \/ i.ok /\ t = Push(i, type)
    BY <2>1 DEF CheckIdent
  <2>3. i.ok
    BY <2>2
  <2>4. Consistent(i, X, uses \cup Unmeant(s, X, {u}), reads) /\ Within(s, i)
    BY <1>2, <2>3, CreateIndexConsistent
  <2> HIDE DEF i, type
  <2>5. Restacked(i, Push(i, type)) /\ ~Failed(i).ok
    BY <2>4, ScopeParts DEF Consistent
  <2>6. t = Push(i, type)
    BY <2>2, <2>3, <2>5
  <2>7. Accesses({u}) = {}
    BY <1>2 DEF Accesses
  <2>8. Consistent(t, X, uses \cup Unmeant(s, X, {u}), reads) /\ Within(i, t)
    <3> HIDE DEF t
    <3> QED
      BY <2>4, <2>5, <2>6, ConsistentRestacked
  <2>9. reads \cup Accesses({u}) = reads
    BY <2>7
  <2>10. Consistent(t, X, uses \cup Unmeant(s, X, {u}), reads \cup Accesses({u})) /\ Within(s, t)
    BY <2>4, <2>8, <2>9 DEF Within
  <2> QED
    BY <1>1, <2>10
<1>3. CASE u.node.op # "ident"
  <2>1. Unmeant(s, X, {u}) = {}
    BY <1>3 DEF Unmeant
  <2>2. Consistent(t, X, uses, reads) /\ Within(s, t)
    BY <1>1, <1>3, CheckNodeRestacks, ConsistentRestacked
  <2>3. \A node \in Accesses({u}) : ReadOk(t.env, node)
    <3> SUFFICES ASSUME u.node.op = "apply", u.node.name \notin DOMAIN BuiltIns
                 PROVE  ReadOk(t.env, u.node)
      BY DEF Accesses, ReadOk
    <3>1. CheckApply(s, u.node.name, u.node.n, access).ok
      BY <1>1 DEF CheckNode
    <3>2. t.env = s.env
      BY <2>2 DEF Within
    <3> QED
      BY <3>1, <3>2, CheckApplyReads DEF ReadOk
  <2> HIDE DEF t
  <2>4. Consistent(t, X, uses, reads \cup Accesses({u}))
    BY <2>2, <2>3 DEF Consistent
  <2>5. uses \cup Unmeant(s, X, {u}) = uses
    BY <2>1
  <2>6. Consistent(t, X, uses \cup Unmeant(s, X, {u}), reads \cup Accesses({u}))
    BY <2>4, <2>5
  <2> QED
    BY <1>1, <2>2, <2>6, Zenon DEF t
<1> QED
  BY <1>2, <1>3

\* checkExp of an expression, and of one expression after the other.
LEMMA CheckExpConsistent ==
  ASSUME NEW s, NEW X, NEW uses, NEW reads, NEW access, NEW k, NEW e, NEW exp,
         Len(exp) \in Nat, DOMAIN exp = 1..Len(exp),
         Consistent(s, X, uses, reads),
         \A v \in uses : \A p \in DOMAIN exp : Earlier(v.at, <<k, e, p>>),
         CheckExp(s, exp, access).ok
  PROVE  /\ Consistent(CheckExp(s, exp, access), X, uses \cup Unmeant(s, X, Placed(k, e, exp)),
                       reads \cup Accesses(Placed(k, e, exp)))
         /\ Within(s, CheckExp(s, exp, access))
         /\ s.ok
<1>1. PICK f : /\ f[0] = s
               /\ \A p \in 1..Len(exp) : f[p] = CheckNode(f[p - 1], exp[p], access)
               /\ CheckExp(s, exp, access) = f[Len(exp)]
  <2>1. Len(exp) \in Nat
    OBVIOUS
  <2> QED
    BY ONLY <2>1, CheckExpSteps
<1> DEFINE u(p) == [at |-> <<k, e, p>>, node |-> exp[p]]
           met(n) == {u(p) : p \in 1..n}
<1> DEFINE Reached(n) == /\ Consistent(f[n], X, uses \cup Unmeant(s, X, met(n)),
                                       reads \cup Accesses(met(n)))
                         /\ Within(s, f[n])
                         /\ s.ok
           T == {n \in Nat : n <= Len(exp) /\ f[n].ok => Reached(n)}
<1>2. 0 \in T
  <2>1. met(0) = {}
    OBVIOUS
  <2> HIDE DEF met
  <2>2. Unmeant(s, X, met(0)) = {} /\ Accesses(met(0)) = {}
    BY <2>1 DEF Unmeant, Accesses
  <2>3. Consistent(f[0], X, uses \cup {}, reads \cup {})
    BY <1>1
  <2>4. Within(s, f[0])
    BY <1>1 DEF Within
  <2> QED
    BY <1>1, <2>2, <2>3, <2>4
<1>3. ASSUME NEW n \in Nat, n \in T PROVE n + 1 \in T
  <2> SUFFICES ASSUME n + 1 <= Len(exp), f[n + 1].ok PROVE Reached(n + 1)
    OBVIOUS
  <2> DEFINE v == u(n + 1)
  <2>1. n + 1 \in 1..Len(exp) /\ (n + 1) - 1 = n
    OBVIOUS
  <2>2. f[n + 1] = CheckNode(f[n], v.node, access)
    BY <1>1, <2>1
  <2>3. f[n].ok
    BY <2>2 DEF CheckNode
  <2>4. Reached(n)
    BY <1>3, <2>3
  <2>5. \A w \in uses \cup Unmeant(s, X, met(n)) : Earlier(w.at, v.at)
    <3>1. \A w \in uses : Earlier(w.at, v.at)
      BY <2>1
    <3>2. ASSUME NEW p \in 1..n PROVE Earlier(u(p).at, v.at)
      BY DEF Earlier
    <3>3. Unmeant(s, X, met(n)) \subseteq met(n)
      BY DEF Unmeant
    <3> QED
      BY <3>1, <3>2, <3>3
  <2> HIDE DEF v
  <2>6. /\ Consistent(f[n + 1], X,
                      (uses \cup Unmeant(s, X, met(n))) \cup Unmeant(f[n], X, {v}),
                      (reads \cup Accesses(met(n))) \cup Accesses({v}))
        /\ Within(f[n], f[n + 1])
    <3> DEFINE us == uses \cup Unmeant(s, X, met(n))
               rs == reads \cup Accesses(met(n))
    <3>1. Consistent(f[n], X, us, rs) /\ (\A w \in us : Earlier(w.at, v.at))
      BY <2>4, <2>5
    <3>2. CheckNode(f[n], v.node, access).ok
      BY <2>2
    <3> HIDE DEF us, rs
    <3>3. /\ Consistent(CheckNode(f[n], v.node, access), X, us \cup Unmeant(f[n], X, {v}),
                        rs \cup Accesses({v}))
          /\ Within(f[n], CheckNode(f[n], v.node, access))
      BY <3>1, <3>2, CheckNodeConsistent
    <3> QED
      BY <2>2, <3>3 DEF us, rs
  <2>7. met(n + 1) = met(n) \cup {v}
    BY DEF v
  <2>8. Unmeant(s, X, met(n + 1)) = Unmeant(s, X, met(n)) \cup Unmeant(f[n], X, {v})
    <3>1. Meant(f[n], X) = Meant(s, X)
      BY <2>4 DEF Meant, Within
    <3> QED
      BY <2>7, <3>1 DEF Unmeant
  <2>9. Accesses(met(n + 1)) = Accesses(met(n)) \cup Accesses({v})
    BY <2>7 DEF Accesses
  <2> HIDE DEF met
  <2>10. /\ uses \cup Unmeant(s, X, met(n + 1))
             = (uses \cup Unmeant(s, X, met(n))) \cup Unmeant(f[n], X, {v})
         /\ reads \cup Accesses(met(n + 1)) = (reads \cup Accesses(met(n))) \cup Accesses({v})
    BY <2>8, <2>9
  <2>11. Within(s, f[n + 1])
    BY <2>4, <2>6 DEF Within
  <2> QED
    BY <2>4, <2>6, <2>10, <2>11
<1>4. Len(exp) \in T
  <2> HIDE DEF T
  <2> QED
    BY <1>2, <1>3, Induction
<1>5. met(Len(exp)) = Placed(k, e, exp)
  BY DEF Placed
<1> HIDE DEF met
<1> QED
  BY <1>1, <1>4, <1>5

Listed(l) == Len(l) \in Nat /\ DOMAIN l = 1..Len(l)

LEMMA ListFacts ==
  ASSUME NEW l, IsList(l)
  PROVE  Listed(l)
BY DEF IsList, Listed

\* Nothing is looked at once a check has failed.
LEMMA CheckExpFailed ==
  ASSUME NEW s, NEW exp, NEW access, Len(exp) \in Nat, ~s.ok
  PROVE  CheckExp(s, exp, access) = s
<1>1. PICK f : /\ f[0] = s
               /\ \A p \in 1..Len(exp) : f[p] = CheckNode(f[p - 1], exp[p], access)
               /\ CheckExp(s, exp, access) = f[Len(exp)]
  <2>1. Len(exp) \in Nat
    OBVIOUS
  <2> QED
    BY ONLY <2>1, CheckExpSteps
<1> DEFINE T == {n \in Nat : n <= Len(exp) => f[n] = s}
<1>2. 0 \in T
  BY <1>1
<1>3. ASSUME NEW n \in Nat, n \in T PROVE n + 1 \in T
  <2> SUFFICES ASSUME n + 1 <= Len(exp) PROVE f[n + 1] = s
    OBVIOUS
  <2>1. n + 1 \in 1..Len(exp) /\ (n + 1) - 1 = n /\ f[n] = s
    BY <1>3
  <2>2. f[n + 1] = CheckNode(s, exp[n + 1], access)
    BY <1>1, <2>1
  <2> QED
    BY <2>2 DEF CheckNode
<1>4. Len(exp) \in T
  <2> HIDE DEF T
  <2> QED
    BY <1>2, <1>3, Induction
<1> QED
  BY <1>1, <1>4

LEMMA CheckExpsConsistent ==
  ASSUME NEW s, NEW X, NEW uses, NEW reads, NEW k \in Int, NEW exps,
         Listed(exps), \A e \in DOMAIN exps : Listed(exps[e]),
         Consistent(s, X, uses, reads), \A v \in uses : v.at[1] < k,
         CheckExps(s, exps).ok
  PROVE  /\ Consistent(CheckExps(s, exps), X, uses \cup Unmeant(s, X, PlacedIn(k, exps)),
                       reads \cup Accesses(PlacedIn(k, exps)))
         /\ Within(s, CheckExps(s, exps))
<1>1. PICK f : /\ f[0] = s
               /\ \A p \in 1..Len(exps) : f[p] = CheckExp(f[p - 1], exps[p], TRUE)
               /\ CheckExps(s, exps) = f[Len(exps)]
  <2>1. Len(exps) \in Nat
    BY DEF Listed
  <2>2. \E f : ExpsScopes(f, s, exps)
    BY ONLY <2>1, CheckExpsSteps, Zenon
  <2> QED
    BY ONLY <2>2, Zenon DEF ExpsScopes
<1> DEFINE met(n) == UNION {Placed(k, e, exps[e]) : e \in 1..n}
           Reached(n) == /\ Consistent(f[n], X, uses \cup Unmeant(s, X, met(n)),
                                       reads \cup Accesses(met(n)))
                         /\ Within(s, f[n])
           T == {n \in Nat : n <= Len(exps) /\ f[n].ok => Reached(n)}
<1>2. 0 \in T
  <2>1. met(0) = {}
    OBVIOUS
  <2> HIDE DEF met
  <2>2. Unmeant(s, X, met(0)) = {} /\ Accesses(met(0)) = {}
    BY <2>1 DEF Unmeant, Accesses
  <2>3. Consistent(f[0], X, uses \cup {}, reads \cup {})
    BY <1>1
  <2>4. Within(s, f[0])
    BY <1>1 DEF Within
  <2> QED
    BY <1>1, <2>2, <2>3, <2>4
<1>3. ASSUME NEW n \in Nat, n \in T PROVE n + 1 \in T
  <2> SUFFICES ASSUME n + 1 <= Len(exps), f[n + 1].ok PROVE Reached(n + 1)
    OBVIOUS
  <2> DEFINE e == n + 1
             new == Placed(k, e, exps[e])
             us == uses \cup Unmeant(s, X, met(n))
             rs == reads \cup Accesses(met(n))
  <2>1. e \in 1..Len(exps) /\ e - 1 = n
    OBVIOUS
  <2>2. f[e] = CheckExp(f[n], exps[e], TRUE) /\ Listed(exps[e])
    BY <1>1, <2>1 DEF Listed
  <2>3. f[n].ok
    BY <2>2, CheckExpFailed DEF Listed
  <2>4. Reached(n)
    BY <1>3, <2>3
  <2>5. \A w \in us : \A p \in DOMAIN exps[e] : Earlier(w.at, <<k, e, p>>)
    <3>1. ASSUME NEW w \in uses, NEW p PROVE Earlier(w.at, <<k, e, p>>)
      BY DEF Earlier
    <3>2. ASSUME NEW d \in 1..n, NEW w \in Placed(k, d, exps[d]), NEW p
          PROVE  Earlier(w.at, <<k, e, p>>)
      <4>1. w.at[1] = k /\ w.at[2] = d
        BY DEF Placed
      <4> QED
        BY <4>1 DEF Earlier
    <3>3. Unmeant(s, X, met(n)) \subseteq met(n)
      BY DEF Unmeant
    <3> QED
      BY <3>1, <3>2, <3>3
  <2>6. /\ Consistent(f[e], X, us \cup Unmeant(f[n], X, new), rs \cup Accesses(new))
        /\ Within(f[n], f[e])
    <3>1. Consistent(f[n], X, us, rs) /\ CheckExp(f[n], exps[e], TRUE).ok
      BY <2>2, <2>4
    <3> HIDE DEF us, rs, e
    <3>2. /\ Consistent(CheckExp(f[n], exps[e], TRUE), X, us \cup Unmeant(f[n], X, new),
                        rs \cup Accesses(new))
          /\ Within(f[n], CheckExp(f[n], exps[e], TRUE))
      BY <2>2, <2>5, <3>1, CheckExpConsistent DEF Listed
    <3> QED
      BY <2>2, <3>2
  <2>7. met(e) = met(n) \cup new
    BY DEF Placed
  <2> HIDE DEF new, met
  <2>8. Unmeant(s, X, met(e)) = Unmeant(s, X, met(n)) \cup Unmeant(f[n], X, new)
    <3>1. Meant(f[n], X) = Meant(s, X)
      BY <2>4 DEF Meant, Within
    <3> QED
      BY <2>7, <3>1 DEF Unmeant
  <2>9. Accesses(met(e)) = Accesses(met(n)) \cup Accesses(new)
    BY <2>7 DEF Accesses
  <2>10. /\ uses \cup Unmeant(s, X, met(e)) = us \cup Unmeant(f[n], X, new)
         /\ reads \cup Accesses(met(e)) = rs \cup Accesses(new)
    BY <2>8, <2>9
  <2>11. Within(s, f[e])
    BY <2>4, <2>6 DEF Within
  <2> QED
    BY <2>4, <2>6, <2>10, <2>11
<1>4. Len(exps) \in T
  <2> HIDE DEF T
  <2> QED
    BY <1>2, <1>3, Induction DEF Listed
<1>5. met(Len(exps)) = PlacedIn(k, exps)
  BY DEF PlacedIn, Listed
<1> HIDE DEF met
<1> QED
  BY <1>1, <1>4, <1>5 DEF Listed

-------------------------------------------------------------------------------
\* The where clauses.

LetNames(w) == IF w.kind = "let" THEN {w.name} ELSE {}

LEMMA PlacedOne ==
  ASSUME NEW k, NEW exp
  PROVE  PlacedIn(k, <<exp>>) = Placed(k, 1, exp)
BY DEF PlacedIn

LEMMA PlacedThree ==
  ASSUME NEW k, NEW a, NEW b, NEW c
  PROVE  PlacedIn(k, <<a, b, c>>) = Placed(k, 1, a) \cup Placed(k, 2, b) \cup Placed(k, 3, c)
BY DEF PlacedIn

\* A let binding changes nothing but the bindings.
WithLet(s, x, type) == [s EXCEPT !.lets = Emplace(@, {x}, Scalar(type))]

LEMMA LetConsistent ==
  ASSUME NEW s, NEW X, NEW uses, NEW reads, NEW x, NEW type, Consistent(s, X, uses, reads)
  PROVE  /\ Consistent(WithLet(s, x, type), X, uses, reads)
         /\ WithLet(s, x, type).env = s.env
         /\ DOMAIN WithLet(s, x, type).lets = DOMAIN s.lets \cup {x}
<1> DEFINE lets == Emplace(s.lets, {x}, Scalar(type))
           t == WithLet(s, x, type)
<1>0. t = [s EXCEPT !.lets = lets]
  BY DEF WithLet
<1>1. /\ DOMAIN lets = DOMAIN s.lets \cup {x}
      /\ \A y \in DOMAIN lets : lets[y].kind = "scalar"
  BY DEF Emplace, Scalar, Consistent
<1> HIDE DEF lets, t
<1>2. /\ IsScope(t) /\ t.index = s.index /\ t.red = s.red /\ t.env = s.env /\ t.lets = lets
  BY <1>0 DEF IsScope, Consistent
<1>3. Consistent(t, X, uses, reads)
  BY <1>1, <1>2 DEF Consistent
<1> QED
  BY <1>1, <1>2, <1>3 DEF t, lets

LEMMA CheckRangeConsistent ==
  ASSUME NEW X, NEW uses, NEW reads, NEW k \in Int, NEW w, Listed(w.start), Listed(w.end),
         Consistent(Scope, X, uses, reads), \A v \in uses : v.at[1] < k,
         CheckRangeConstraint(w).ok, NEW met,
         met = Placed(k, 1, <<[op |-> "ident", name |-> w.name]>>)
                 \cup Placed(k, 2, w.start) \cup Placed(k, 3, w.end)
  PROVE  /\ Consistent(CheckRangeConstraint(w), X, uses \cup Unmeant(Scope, X, met),
                       reads \cup Accesses(met))
         /\ Within(Scope, CheckRangeConstraint(w))
<1> DEFINE s == CreateIndex(Scope, w.name)
           from == CheckExp(s, w.start, FALSE)
           to   == CheckExp(from, w.end, FALSE)
           u == [at |-> <<k, 1, 1>>, node |-> [op |-> "ident", name |-> w.name]]
           m1 == {u}
           m2 == Placed(k, 2, w.start)
           m3 == Placed(k, 3, w.end)
<1>1. ~Failed(Scope).ok
  BY ScopeParts DEF Consistent
<1>2. s.ok /\ from.ok /\ to.ok /\ CheckRangeConstraint(w) = to
  BY <1>1 DEF CheckRangeConstraint
<1>3. Placed(k, 1, <<[op |-> "ident", name |-> w.name]>>) = m1
  BY DEF Placed
<1>4. /\ Consistent(s, X, uses \cup Unmeant(Scope, X, m1), reads)
      /\ Within(Scope, s)
  <2>1. u.node.op = "ident" /\ u.node.name = w.name
    OBVIOUS
  <2>2. \A v \in uses : Earlier(v.at, u.at)
    BY DEF Earlier
  <2> HIDE DEF u
  <2> QED
    BY <1>2, <2>1, <2>2, CreateIndexConsistent
<1> HIDE DEF s
<1>5. /\ Consistent(from, X, (uses \cup Unmeant(Scope, X, m1)) \cup Unmeant(s, X, m2),
                    reads \cup Accesses(m2))
      /\ Within(s, from)
  <2> DEFINE us == uses \cup Unmeant(Scope, X, m1)
  <2>1. \A v \in us : \A p \in DOMAIN w.start : Earlier(v.at, <<k, 2, p>>)
    BY DEF Earlier, Unmeant
  <2>2. Consistent(s, X, us, reads)
    BY <1>4
  <2> HIDE DEF us, m2, m1
  <2>3. /\ Consistent(from, X, us \cup Unmeant(s, X, m2), reads \cup Accesses(m2))
        /\ Within(s, from)
    BY <1>2, <2>1, <2>2, CheckExpConsistent DEF m2, Listed
  <2> QED
    BY <2>3 DEF us
<1> HIDE DEF from
<1>6. /\ Consistent(to, X, ((uses \cup Unmeant(Scope, X, m1)) \cup Unmeant(s, X, m2))
                             \cup Unmeant(from, X, m3),
                    (reads \cup Accesses(m2)) \cup Accesses(m3))
      /\ Within(from, to)
  <2> DEFINE us == (uses \cup Unmeant(Scope, X, m1)) \cup Unmeant(s, X, m2)
             rs == reads \cup Accesses(m2)
  <2>1. \A v \in us : \A p \in DOMAIN w.end : Earlier(v.at, <<k, 3, p>>)
    BY DEF Earlier, Unmeant, Placed
  <2>2. Consistent(from, X, us, rs)
    BY <1>5
  <2> HIDE DEF us, rs, m3, m2, m1
  <2>3. /\ Consistent(to, X, us \cup Unmeant(from, X, m3), rs \cup Accesses(m3))
        /\ Within(from, to)
    BY <1>2, <2>1, <2>2, CheckExpConsistent DEF m3, Listed
  <2> QED
    BY <2>3 DEF us, rs
<1> HIDE DEF to, m2, m3
<1>7. Meant(s, X) = Meant(Scope, X) /\ Meant(from, X) = Meant(Scope, X) /\ Within(Scope, to)
  BY <1>4, <1>5, <1>6 DEF Meant, Within
<1>11. met = m1 \cup m2 \cup m3
  BY <1>3 DEF m2, m3
<1>8. ((uses \cup Unmeant(Scope, X, m1)) \cup Unmeant(s, X, m2)) \cup Unmeant(from, X, m3)
        = uses \cup Unmeant(Scope, X, met)
  BY <1>7, <1>11 DEF Unmeant
<1>9. (reads \cup Accesses(m2)) \cup Accesses(m3) = reads \cup Accesses(met)
  BY <1>11 DEF Accesses
<1>10. /\ Consistent(to, X, uses \cup Unmeant(Scope, X, met), reads \cup Accesses(met))
       /\ Within(Scope, to)
  BY <1>6, <1>7, <1>8, <1>9
<1> QED
  BY <1>2, <1>10 DEF to

LEMMA CheckWhereConsistent ==
  ASSUME NEW X, NEW uses, NEW reads, NEW k \in Int, NEW w, IsClause(w),
         Consistent(Scope, X, uses, reads), \A v \in uses : v.at[1] < k,
         CheckWhereClause(w).ok, NEW met, met = PlacedIn(k, Texts(w))
  PROVE  /\ Consistent(CheckWhereClause(w), X, uses \cup Unmeant(Scope, X, met),
                       reads \cup Accesses(met))
         /\ CheckWhereClause(w).env = env
         /\ DOMAIN CheckWhereClause(w).lets = DOMAIN let_env \cup LetNames(w)
<1> DEFINE us == uses \cup Unmeant(Scope, X, met)
           rs == reads \cup Accesses(met)
           t == CheckWhereClause(w)
<1>1. Scope.env = env /\ Scope.lets = let_env
  BY DEF Scope
<1>2. ~Failed(Scope).ok
  BY ScopeParts DEF Consistent
<1>3. ASSUME w.kind \in {"let", "exists"}, CheckExp(Scope, w.exp, TRUE).ok
      PROVE  Consistent(CheckExp(Scope, w.exp, TRUE), X, us, rs)
             /\ Within(Scope, CheckExp(Scope, w.exp, TRUE))
  <2>1. met = Placed(k, 1, w.exp)
    BY <1>3, PlacedOne DEF Texts
  <2>2. \A v \in uses : \A p \in DOMAIN w.exp : Earlier(v.at, <<k, 1, p>>)
    BY DEF Earlier
  <2>3. Listed(w.exp)
    BY <1>3, ListFacts DEF IsClause, IsExp
  <2> QED
    BY <1>3, <2>1, <2>2, <2>3, CheckExpConsistent DEF Listed
<1>4. CASE w.kind = "let"
  <2> DEFINE s == CheckExp(Scope, w.exp, TRUE)
             type == TypeOfExpr(s)
  <2>1. s.ok /\ t = WithLet(s, w.name, type)
    BY <1>2, <1>4 DEF CheckWhereClause, CheckLet, WithLet
  <2>2. Consistent(s, X, us, rs) /\ Within(Scope, s)
    BY <1>3, <1>4, <2>1
  <2> HIDE DEF s, type, us, rs
  <2>3. Consistent(t, X, us, rs) /\ t.env = s.env /\ DOMAIN t.lets = DOMAIN s.lets \cup {w.name}
    BY <2>1, <2>2, LetConsistent
  <2> HIDE DEF t
  <2>4. t.env = env /\ DOMAIN t.lets = DOMAIN let_env \cup LetNames(w)
    BY <1>1, <1>4, <2>2, <2>3 DEF Within, LetNames
  <2> QED
    BY <2>3, <2>4 DEF t, us, rs
<1>5. CASE w.kind = "exists"
  <2>1. t = CheckExp(Scope, w.exp, TRUE)
    BY <1>5 DEF CheckWhereClause
  <2>2. Consistent(t, X, us, rs) /\ Within(Scope, t)
    BY <1>3, <1>5, <2>1
  <2> QED
    BY <1>1, <1>5, <2>2 DEF Within, LetNames
<1>6. CASE w.kind = "range"
  <2>1. t = CheckRangeConstraint(w)
    BY <1>6 DEF CheckWhereClause
  <2>2. met = Placed(k, 1, <<[op |-> "ident", name |-> w.name]>>)
                \cup Placed(k, 2, w.start) \cup Placed(k, 3, w.end)
    BY <1>6, PlacedThree DEF Texts
  <2>3. Listed(w.start) /\ Listed(w.end)
    BY <1>6, ListFacts DEF IsClause, IsExp
  <2>4. Consistent(t, X, us, rs) /\ Within(Scope, t)
    <3>1. CheckRangeConstraint(w).ok
      BY <2>1
    <3>2. /\ Consistent(CheckRangeConstraint(w), X, us, rs)
          /\ Within(Scope, CheckRangeConstraint(w))
      BY <2>2, <2>3, <3>1, CheckRangeConsistent
    <3> QED
      BY <2>1, <3>2
  <2> QED
    BY <1>1, <1>6, <2>4 DEF Within, LetNames
<1> QED
  BY <1>4, <1>5, <1>6 DEF IsClause
-------------------------------------------------------------------------------
\* Types: every accepted expression leaves one scalar type on the stack.

LEMMA JoinAllSteps ==
  ASSUME NEW types, Len(types) \in Nat \ {0}
  PROVE  \E f : /\ f[1] = types[1]
                /\ \A p \in 2..Len(types) : f[p] = MatchTypes(f[p - 1], types[p])
                /\ JoinAll(types) = f[Len(types)]
<1> DEFINE Steps(f, n) ==
             f = [p \in 1..n |-> IF p = 1 THEN types[1] ELSE MatchTypes(f[p - 1], types[p])]
           T == {n \in Nat : \E f : Steps(f, n)}
<1>1. 0 \in T
  <2>1. Steps([p \in 1..0 |-> types[1]], 0)
    OBVIOUS
  <2> QED
    BY <2>1
<1>2. ASSUME NEW n \in Nat, n \in T PROVE n + 1 \in T
  <2>1. PICK f : Steps(f, n)
    BY <1>2
  <2> DEFINE g == [p \in 1..(n + 1) |-> IF p <= n THEN f[p]
                                        ELSE IF p = 1 THEN types[1] ELSE MatchTypes(f[n], types[p])]
  <2>2. Steps(g, n + 1)
    <3> SUFFICES ASSUME NEW p \in 1..(n + 1)
                 PROVE  g[p] = IF p = 1 THEN types[1] ELSE MatchTypes(g[p - 1], types[p])
      OBVIOUS
    <3>1. CASE p <= n
      BY <2>1, <3>1
    <3>2. CASE p = n + 1
      BY <2>1, <3>2
    <3> QED
      BY <3>1, <3>2
  <2> HIDE DEF g, Steps
  <2>3. \E h : Steps(h, n + 1)
    BY <2>2
  <2> QED
    BY <2>3
<1>3. \E f : Steps(f, Len(types))
  <2> HIDE DEF Steps
  <2> QED
    BY <1>1, <1>2, Induction
<1> DEFINE h == CHOOSE h : Steps(h, Len(types))
<1>4. Steps(h, Len(types))
  BY <1>3
<1>5. JoinAll(types) = h[Len(types)]
  BY DEF JoinAll
<1> HIDE DEF h
<1>6. h[1] = types[1] /\ \A p \in 2..Len(types) : h[p] = MatchTypes(h[p - 1], types[p])
  BY <1>4
<1> QED
  BY <1>5, <1>6

\* matchAllTypes answers with a type.
LEMMA JoinAllTyped ==
  ASSUME NEW types \in Seq(Scalars), types # <<>>, Joinable(types)
  PROVE  JoinAll(types) \in Scalars
<1>0. Len(types) \in Nat \ {0} /\ DOMAIN types = 1..Len(types) /\ \A p \in 1..Len(types) : types[p] \in Scalars
  OBVIOUS
<1>1. PICK f : /\ f[1] = types[1]
               /\ \A p \in 2..Len(types) : f[p] = MatchTypes(f[p - 1], types[p])
               /\ JoinAll(types) = f[Len(types)]
  BY ONLY <1>0, JoinAllSteps
<1>2. CASE Len(types) = 1
  BY <1>0, <1>1, <1>2
<1>3. CASE Len(types) # 1
  <2>1. \A p \in 1..Len(types) : types[p] \in Full
    BY <1>0, <1>3 DEF Joinable, Full
  <2> DEFINE T == {n \in Nat : n + 1 <= Len(types) => f[n + 1] \in Full}
  <2>2. 0 \in T
    BY <1>0, <1>1, <2>1
  <2>3. ASSUME NEW n \in Nat, n \in T PROVE n + 1 \in T
    <3> SUFFICES ASSUME (n + 1) + 1 <= Len(types) PROVE f[(n + 1) + 1] \in Full
      OBVIOUS
    <3>1. f[n + 1] \in Full /\ types[n + 2] \in Full
      BY <1>0, <2>1, <2>3
    <3>2. f[n + 2] = MatchTypes(f[n + 1], types[n + 2])
      BY <1>0, <1>1
    <3>3. f[n + 2] \in Full
      BY <3>1, <3>2, MatchTypesIsJoin
    <3> QED
      BY <3>3
  <2>4. Len(types) - 1 \in T
    <3> HIDE DEF T
    <3> QED
      BY <1>0, <2>2, <2>3, Induction
  <2> QED
    BY <1>0, <1>1, <2>4 DEF Full
<1> QED
  BY <1>2, <1>3

LEMMA TreeSteps ==
  ASSUME NEW exp, Len(exp) \in Nat, IsTree(exp)
  PROVE  \E d : /\ d[0] = 0 /\ d[Len(exp)] = 1
                /\ \A p \in 1..Len(exp) : /\ d[p] = d[p - 1] - Arity(exp[p]) + 1
                                          /\ Arity(exp[p]) <= d[p - 1]
<1> DEFINE Steps(f, n) ==
             f = [p \in 0..n |-> IF p = 0 THEN 0 ELSE f[p - 1] - Arity(exp[p]) + 1]
           T == {n \in Nat : \E f : Steps(f, n)}
<1>1. 0 \in T
  <2>1. Steps([p \in 0..0 |-> 0], 0)
    OBVIOUS
  <2> QED
    BY <2>1
<1>2. ASSUME NEW n \in Nat, n \in T PROVE n + 1 \in T
  <2>1. PICK f : Steps(f, n)
    BY <1>2
  <2> DEFINE g == [p \in 0..(n + 1) |-> IF p <= n THEN f[p] ELSE f[n] - Arity(exp[p]) + 1]
  <2>2. Steps(g, n + 1)
    <3> SUFFICES ASSUME NEW p \in 0..(n + 1)
                 PROVE  g[p] = IF p = 0 THEN 0 ELSE g[p - 1] - Arity(exp[p]) + 1
      OBVIOUS
    <3>1. CASE p <= n
      BY <2>1, <3>1
    <3>2. CASE p = n + 1
      BY <2>1, <3>2
    <3> QED
      BY <3>1, <3>2
  <2> HIDE DEF g, Steps
  <2>3. \E h : Steps(h, n + 1)
    BY <2>2
  <2> QED
    BY <2>3
<1>3. \E f : Steps(f, Len(exp))
  <2> HIDE DEF Steps
  <2> QED
    BY <1>1, <1>2, Induction
<1> DEFINE h == CHOOSE h : Steps(h, Len(exp))
<1>4. Steps(h, Len(exp))
  BY <1>3
<1>5. (\A p \in 1..Len(exp) : Arity(exp[p]) <= h[p - 1]) /\ h[Len(exp)] = 1
  BY DEF IsTree
<1> HIDE DEF h
<1>6. h[0] = 0 /\ \A p \in 1..Len(exp) : h[p] = h[p - 1] - Arity(exp[p]) + 1
  BY <1>4
<1> QED
  BY <1>5, <1>6

TypedScope(s) ==
  /\ IsScope(s)
  /\ \A x \in DOMAIN s.env : s.env[x].scalar \in Scalars
  /\ \A x \in DOMAIN s.lets : s.lets[x].scalar \in Scalars
  /\ \A x \in DOMAIN s.index : s.index[x] = Scalar("int32")
  /\ s.stack \in Seq(Scalars)

LEMMA LookupTyped ==
  ASSUME NEW s, NEW x, TypedScope(s), Known(s, x)
  PROVE  Lookup(s, x).scalar \in Scalars
<1>1. "int32" \in Scalars /\ Scalar("int32").scalar = "int32"
  BY DEF Scalars, Ints, Scalar
<1> QED
  BY <1>1 DEF TypedScope, Known, Lookup

LEMMA CreateIndexTyped ==
  ASSUME NEW s, NEW x, TypedScope(s), CreateIndex(s, x).ok
  PROVE  /\ TypedScope(CreateIndex(s, x)) /\ Known(CreateIndex(s, x), x)
         /\ CreateIndex(s, x).stack = s.stack
<1> DEFINE t == CreateIndex(s, x)
<1>1. CASE Known(s, x)
  BY <1>1 DEF CreateIndex
<1>2. CASE ~Known(s, x)
  <2> DEFINE index == Emplace(s.index, {x}, Scalar("int32"))
             red   == Append(s.red, x)
  <2>1. InsertableNew(s.index, x)
    <3> SUFFICES ASSUME ~InsertableNew(s.index, x) PROVE FALSE
      OBVIOUS
    <3>1. t = Failed(s)
      BY <1>2 DEF CreateIndex
    <3> QED
      BY <3>1, ScopeParts DEF TypedScope
  <2>2. t = [s EXCEPT !.index = index, !.red = red]
    BY <1>2, <2>1 DEF CreateIndex
  <2>3. x \in DOMAIN index /\ \A y \in DOMAIN index : index[y] = Scalar("int32")
    BY DEF Emplace, TypedScope
  <2> HIDE DEF index, red, t
  <2>4. /\ IsScope(t) /\ t.index = index /\ t.env = s.env /\ t.lets = s.lets
        /\ t.stack = s.stack
    BY <2>2 DEF IsScope, TypedScope
  <2>5. TypedScope(t) /\ Known(t, x)
    BY <2>3, <2>4 DEF TypedScope, Known
  <2> QED
    BY <2>4, <2>5 DEF t
<1> QED
  BY <1>1, <1>2

\* The stack with n operands taken away, and one type put on it.
LEMMA StackParts ==
  ASSUME NEW s, TypedScope(s), NEW n \in Nat, n <= Len(s.stack), NEW type \in Scalars
  PROVE  /\ Operands(s, n) \in Seq(Scalars) /\ Len(Operands(s, n)) = n
         /\ TypedScope(Push(Drop(s, n), type))
         /\ Len(Push(Drop(s, n), type).stack) = Len(s.stack) - n + 1
         /\ TypedScope(Push(s, type)) /\ Len(Push(s, type).stack) = Len(s.stack) + 1
<1> DEFINE l == Len(s.stack)
<1>1. s.stack \in Seq(Scalars) /\ IsScope(s) /\ l \in Nat
  BY DEF TypedScope
<1>2. /\ Operands(s, n) \in Seq(Scalars) /\ Len(Operands(s, n)) = n
  BY <1>1, SubSeqProperties DEF Operands
<1>3. /\ SubSeq(s.stack, 1, l - n) \in Seq(Scalars) /\ Len(SubSeq(s.stack, 1, l - n)) = l - n
  BY <1>1, SubSeqProperties
<1> DEFINE rest == SubSeq(s.stack, 1, l - n)
<1>4. DOMAIN s = {"env", "index", "lets", "red", "stack", "ok"}
  BY <1>1 DEF IsScope
<1>5. Drop(s, n).stack = rest /\ DOMAIN Drop(s, n) = DOMAIN s
  BY <1>4 DEF Drop
<1> HIDE DEF rest
<1>6. /\ Append(rest, type) \in Seq(Scalars) /\ Len(Append(rest, type)) = l - n + 1
      /\ Append(s.stack, type) \in Seq(Scalars) /\ Len(Append(s.stack, type)) = l + 1
  BY <1>1, <1>3 DEF rest
<1>7. /\ Push(Drop(s, n), type).stack = Append(rest, type)
      /\ Push(s, type).stack = Append(s.stack, type)
  BY <1>4, <1>5 DEF Push
<1>8. Restacked(s, Push(Drop(s, n), type)) /\ Restacked(s, Push(s, type))
  BY <1>1, ScopeParts
<1>9. ASSUME NEW t, Restacked(s, t), t.stack \in Seq(Scalars) PROVE TypedScope(t)
  BY <1>9 DEF TypedScope, Restacked
<1> QED
  BY <1>2, <1>6, <1>7, <1>8, <1>9

LEMMA CheckNodeTyped ==
  ASSUME NEW s, NEW node, NEW access, TypedScope(s), s.ok, IsNode(node),
         Arity(node) <= Len(s.stack), CheckNode(s, node, access).ok
  PROVE  /\ TypedScope(CheckNode(s, node, access))
         /\ Len(CheckNode(s, node, access).stack) = Len(s.stack) - Arity(node) + 1
<1> DEFINE t == CheckNode(s, node, access)
           l == Len(s.stack)
<1>1. ~Failed(s).ok /\ l \in Nat
  BY ScopeParts DEF TypedScope
<1>2. "int32" \in Scalars /\ "bool" \in Scalars /\ "float" \in Scalars
  BY DEF Scalars, Ints, UInts, Floats
<1>3. ASSUME NEW n \in Nat, n <= l, NEW type \in Scalars, t = Push(Drop(s, n), type), Arity(node) = n
      PROVE  TypedScope(t) /\ Len(t.stack) = l - Arity(node) + 1
  <2>1. /\ TypedScope(Push(Drop(s, n), type))
        /\ Len(Push(Drop(s, n), type).stack) = l - n + 1
    BY <1>3, StackParts
  <2> QED
    BY ONLY <1>3, <2>1
<1>4. ASSUME NEW type \in Scalars, t = Push(s, type), Arity(node) = 0
      PROVE  TypedScope(t) /\ Len(t.stack) = l - Arity(node) + 1
  <2>1. 0 \in Nat /\ 0 <= l
    BY <1>1
  <2>2. TypedScope(Push(s, type)) /\ Len(Push(s, type).stack) = l + 1
    BY <2>1, StackParts
  <2> QED
    BY <1>1, <1>4, <2>2
<1>5. CASE node.op = "ident"
  <2> DEFINE i == CreateIndex(s, node.name)
             type == Lookup(i, node.name).scalar
  <2>1. t = CheckIdent(s, node.name, access)
    BY <1>5 DEF CheckNode
  <2>2. \/ ~i.ok /\ t = i
        \/ i.ok /\ t = Failed(i)
        \/ i.ok /\ t = Push(i, type)
    BY <2>1 DEF CheckIdent
  <2>3. TypedScope(i) /\ Known(i, node.name) /\ i.stack = s.stack
    BY <2>2, CreateIndexTyped
  <2>4. type \in Scalars
    BY <2>3, LookupTyped
  <2> HIDE DEF i, type
  <2>5. ~Failed(i).ok
    BY <2>3, ScopeParts DEF TypedScope
  <2>6. t = Push(i, type)
    BY <2>2, <2>5
  <2>7. 0 \in Nat /\ 0 <= Len(i.stack)
    BY <1>1, <2>3
  <2>8. TypedScope(Push(i, type)) /\ Len(Push(i, type).stack) = Len(i.stack) + 1
    BY <2>3, <2>4, <2>7, StackParts
  <2>9. Arity(node) = 0
    BY <1>5 DEF Arity
  <2> HIDE DEF t
  <2>10. Len(t.stack) = l - Arity(node) + 1 /\ TypedScope(t)
    BY <1>1, <2>3, <2>6, <2>8, <2>9
  <2> QED
    BY <2>10 DEF t
<1>6. CASE node.op = "const"
  <2>1. t = Push(s, node.type) /\ node.type \in Scalars /\ Arity(node) = 0
    BY <1>6 DEF CheckNode, IsNode, Arity
  <2> QED
    BY <1>4, <2>1
<1>7. CASE node.op = "dim"
  <2>1. t = Push(s, "int32") /\ Arity(node) = 0
    BY <1>1, <1>7 DEF CheckNode, Arity
  <2> QED
    BY <1>2, <1>4, <2>1
<1>8. CASE node.op = "cast"
  <2>1. t = Push(Drop(s, 1), node.type) /\ node.type \in Scalars /\ Arity(node) = 1
    BY <1>1, <1>8 DEF CheckNode, IsNode, Arity
  <2> QED
    BY <1>3, <2>1
<1>9. CASE node.op = "apply"
  <2> DEFINE n == node.n
             args == Operands(s, n)
             all == <<"float">> \o args
  <2>1. /\ n \in Nat /\ Arity(node) = n /\ n <= l
    BY <1>9 DEF IsNode, Arity
  <2>2. t = CheckApply(s, node.name, n, access)
    BY <1>9 DEF CheckNode
  <2>3. \/ Joinable(all) /\ t = Push(Drop(s, n), JoinAll(all))
        \/ Known(s, node.name) /\ t = Push(Drop(s, n), Lookup(s, node.name).scalar)
    BY <1>1, <2>2, Zenon DEF CheckApply
  <2>4. args \in Seq(Scalars)
    BY <1>2, <2>1, StackParts
  <2> HIDE DEF args
  <2>5. all \in Seq(Scalars) /\ all # <<>>
    BY <1>2, <2>4
  <2> HIDE DEF all, n
  <2>6. CASE Joinable(all) /\ t = Push(Drop(s, n), JoinAll(all))
    <3>1. JoinAll(all) \in Scalars
      BY <2>5, <2>6, JoinAllTyped
    <3> QED
      BY <1>3, <2>1, <2>6, <3>1
  <2>7. CASE Known(s, node.name) /\ t = Push(Drop(s, n), Lookup(s, node.name).scalar)
    BY <1>3, <2>1, <2>7, LookupTyped
  <2> QED
    BY <2>3, <2>6, <2>7
<1>10. CASE node.op \in {"arith", "compare", "logic", "cond"}
  <2> DEFINE n == node.n
             types == Operands(s, n)
  <2>1. /\ n \in Nat \ {0} /\ Arity(node) = n /\ n <= l /\ (node.op = "cond" => n = 3)
    BY <1>10 DEF IsNode, Arity
  <2>2. OperatorOk(node.op, types) /\ t = Push(Drop(s, n), OperatorType(node.op, types))
    BY <1>1, <1>10 DEF CheckNode
  <2>3. types \in Seq(Scalars) /\ Len(types) = n
    BY <1>2, <2>1, StackParts
  <2> HIDE DEF types, n
  <2>4. OperatorType(node.op, types) \in Scalars
    <3>1. CASE node.op = "arith"
      <4>1. types # <<>> /\ Joinable(types)
        BY <2>1, <2>2, <2>3, <3>1 DEF OperatorOk
      <4> QED
        BY <2>3, <3>1, <4>1, JoinAllTyped DEF OperatorType
    <3>2. CASE node.op = "cond"
      <4>1. Tail(types) \in Seq(Scalars) /\ Tail(types) # <<>>
        <5>1. Len(types) = 3 /\ types # <<>>
          BY <2>1, <2>3, <3>2
        <5>2. Tail(types) \in Seq(Scalars) /\ Len(Tail(types)) = 2
          BY <2>3, <5>1
        <5> DEFINE rest == Tail(types)
        <5> HIDE DEF rest
        <5>3. Len(rest) = 2
          BY <5>2 DEF rest
        <5>4. rest # <<>>
          BY <5>3
        <5> QED
          BY <5>2, <5>4 DEF rest
      <4>2. Joinable(Tail(types))
        BY <2>2, <3>2 DEF OperatorOk
      <4> QED
        BY <3>2, <4>1, <4>2, JoinAllTyped DEF OperatorType
    <3>3. CASE node.op \in {"compare", "logic"}
      BY <1>2, <3>3 DEF OperatorType
    <3> QED
      BY <1>10, <3>1, <3>2, <3>3
  <2> QED
    BY <1>3, <2>1, <2>2, <2>4
<1> QED
  BY <1>5, <1>6, <1>7, <1>8, <1>9, <1>10 DEF IsNode

\* checkExp of a tree leaves one type more on the stack.
LEMMA CheckExpTyped ==
  ASSUME NEW s, NEW exp, NEW access, TypedScope(s), IsExp(exp), CheckExp(s, exp, access).ok
  PROVE  /\ TypedScope(CheckExp(s, exp, access))
         /\ Len(CheckExp(s, exp, access).stack) = Len(s.stack) + 1
         /\ TypeOfExpr(CheckExp(s, exp, access)) \in Scalars
<1>0. /\ Len(exp) \in Nat /\ IsTree(exp) /\ \A p \in 1..Len(exp) : IsNode(exp[p])
  BY ListFacts DEF IsExp, Listed
<1>1. PICK f : /\ f[0] = s
               /\ \A p \in 1..Len(exp) : f[p] = CheckNode(f[p - 1], exp[p], access)
               /\ CheckExp(s, exp, access) = f[Len(exp)]
  BY ONLY <1>0, CheckExpSteps
<1>2. PICK d : /\ d[0] = 0 /\ d[Len(exp)] = 1
               /\ \A p \in 1..Len(exp) : /\ d[p] = d[p - 1] - Arity(exp[p]) + 1
                                         /\ Arity(exp[p]) <= d[p - 1]
  BY ONLY <1>0, TreeSteps
<1> DEFINE l == Len(s.stack)
           Reached(n) == TypedScope(f[n]) /\ d[n] \in Nat /\ Len(f[n].stack) = l + d[n]
           T == {n \in Nat : n <= Len(exp) /\ f[n].ok => Reached(n)}
<1>3. l \in Nat
  BY DEF TypedScope
<1>4. 0 \in T
  BY <1>1, <1>2, <1>3
<1>5. ASSUME NEW n \in Nat, n \in T PROVE n + 1 \in T
  <2> SUFFICES ASSUME n + 1 <= Len(exp), f[n + 1].ok PROVE Reached(n + 1)
    OBVIOUS
  <2> DEFINE node == exp[n + 1]
  <2>1. n + 1 \in 1..Len(exp) /\ (n + 1) - 1 = n
    OBVIOUS
  <2>2. /\ f[n + 1] = CheckNode(f[n], node, access) /\ IsNode(node)
        /\ d[n + 1] = d[n] - Arity(node) + 1 /\ Arity(node) <= d[n]
    BY <1>0, <1>1, <1>2, <2>1
  <2> HIDE DEF node
  <2>3. f[n].ok
    BY <2>2 DEF CheckNode
  <2>4. TypedScope(f[n]) /\ d[n] \in Nat /\ Len(f[n].stack) = l + d[n]
    BY <1>5, <2>3
  <2>5. Arity(node) \in Nat
    BY <2>2 DEF IsNode, Arity
  <2>6. /\ TypedScope(CheckNode(f[n], node, access))
        /\ Len(CheckNode(f[n], node, access).stack) = Len(f[n].stack) - Arity(node) + 1
    <3>1. Arity(node) <= Len(f[n].stack) /\ CheckNode(f[n], node, access).ok
      BY <1>3, <2>2, <2>4, <2>5
    <3> QED
      BY <2>2, <2>3, <2>4, <3>1, CheckNodeTyped
  <2> HIDE DEF l
  <2>7. TypedScope(f[n + 1]) /\ Len(f[n + 1].stack) = Len(f[n].stack) - Arity(node) + 1
    BY <2>2, <2>6
  <2> QED
    BY <1>3, <2>2, <2>4, <2>5, <2>7
<1>6. Len(exp) \in T
  <2> HIDE DEF T
  <2> QED
    BY <1>0, <1>4, <1>5, Induction
<1> DEFINE r == CheckExp(s, exp, access)
<1>7. TypedScope(r) /\ Len(r.stack) = l + 1
  BY <1>0, <1>1, <1>2, <1>6
<1> HIDE DEF r
<1>8. TypeOfExpr(r) \in Scalars
  <2>1. r.stack \in Seq(Scalars) /\ Len(r.stack) \in 1..Len(r.stack)
    BY <1>3, <1>7 DEF TypedScope
  <2> QED
    BY <2>1 DEF TypeOfExpr, Last
<1> QED
  BY <1>7, <1>8 DEF r

LEMMA CheckExpsTyped ==
  ASSUME NEW s, NEW exps, TypedScope(s), IsList(exps), \A e \in DOMAIN exps : IsExp(exps[e]),
         CheckExps(s, exps).ok
  PROVE  TypedScope(CheckExps(s, exps))
<1>0. Len(exps) \in Nat /\ \A e \in 1..Len(exps) : IsExp(exps[e]) /\ Len(exps[e]) \in Nat
  BY ListFacts DEF Listed, IsExp
<1>1. PICK f : /\ f[0] = s
               /\ \A p \in 1..Len(exps) : f[p] = CheckExp(f[p - 1], exps[p], TRUE)
               /\ CheckExps(s, exps) = f[Len(exps)]
  <2>1. Len(exps) \in Nat
    BY <1>0
  <2>2. \E f : ExpsScopes(f, s, exps)
    BY ONLY <2>1, CheckExpsSteps, Zenon
  <2> QED
    BY ONLY <2>2, Zenon DEF ExpsScopes
<1> DEFINE T == {n \in Nat : n <= Len(exps) /\ f[n].ok => TypedScope(f[n])}
<1>2. 0 \in T
  BY <1>1
<1>3. ASSUME NEW n \in Nat, n \in T PROVE n + 1 \in T
  <2> SUFFICES ASSUME n + 1 <= Len(exps), f[n + 1].ok PROVE TypedScope(f[n + 1])
    OBVIOUS
  <2>1. /\ f[n + 1] = CheckExp(f[n], exps[n + 1], TRUE) /\ IsExp(exps[n + 1])
        /\ Len(exps[n + 1]) \in Nat
    <3>1. n + 1 \in 1..Len(exps) /\ (n + 1) - 1 = n
      OBVIOUS
    <3> QED
      BY <1>0, <1>1, <3>1
  <2>2. f[n].ok
    BY <2>1, CheckExpFailed
  <2>3. TypedScope(f[n])
    BY <1>3, <2>2
  <2> QED
    BY <2>1, <2>3, CheckExpTyped
<1>4. Len(exps) \in T
  <2> HIDE DEF T
  <2> QED
    BY <1>0, <1>2, <1>3, Induction
<1> QED
  BY <1>0, <1>1, <1>4

LEMMA WithLetTyped ==
  ASSUME NEW s, NEW x, NEW type \in Scalars, TypedScope(s)
  PROVE  TypedScope(WithLet(s, x, type))
<1> DEFINE lets == Emplace(s.lets, {x}, Scalar(type))
           t == WithLet(s, x, type)
<1>1. t = [s EXCEPT !.lets = lets]
  BY DEF WithLet
<1>2. \A y \in DOMAIN lets : lets[y].scalar \in Scalars
  BY DEF Emplace, Scalar, TypedScope
<1> HIDE DEF lets, t
<1>3. /\ IsScope(t) /\ t.index = s.index /\ t.env = s.env /\ t.lets = lets /\ t.stack = s.stack
  BY <1>1 DEF IsScope, TypedScope
<1>4. TypedScope(t)
  BY <1>2, <1>3 DEF TypedScope
<1> QED
  BY <1>4 DEF t

LEMMA CheckWhereTyped ==
  ASSUME NEW w, IsClause(w), TypedScope(Scope), CheckWhereClause(w).ok
  PROVE  TypedScope(CheckWhereClause(w))
<1> DEFINE t == CheckWhereClause(w)
<1>1. ~Failed(Scope).ok
  BY ScopeParts DEF TypedScope
<1>2. CASE w.kind = "let"
  <2> DEFINE s == CheckExp(Scope, w.exp, TRUE)
             type == TypeOfExpr(s)
  <2>1. s.ok /\ t = WithLet(s, w.name, type)
    BY <1>1, <1>2 DEF CheckWhereClause, CheckLet, WithLet
  <2>2. TypedScope(s) /\ type \in Scalars
    BY <1>2, <2>1, CheckExpTyped DEF IsClause
  <2> HIDE DEF s, type
  <2> QED
    BY <2>1, <2>2, WithLetTyped
<1>3. CASE w.kind = "exists"
  BY <1>3, CheckExpTyped DEF CheckWhereClause, IsClause
<1>4. CASE w.kind = "range"
  <2> DEFINE s == CreateIndex(Scope, w.name)
             from == CheckExp(s, w.start, FALSE)
             to   == CheckExp(from, w.end, FALSE)
  <2>1. s.ok /\ from.ok /\ to.ok /\ t = to
    BY <1>1, <1>4 DEF CheckWhereClause, CheckRangeConstraint
  <2>2. IsExp(w.start) /\ IsExp(w.end)
    BY <1>4 DEF IsClause
  <2>3. TypedScope(s)
    BY <2>1, CreateIndexTyped
  <2> HIDE DEF s
  <2>4. TypedScope(from)
    BY <2>1, <2>2, <2>3, CheckExpTyped
  <2> HIDE DEF from
  <2>5. TypedScope(to)
    BY <2>1, <2>2, <2>4, CheckExpTyped
  <2> QED
    BY <2>1, <2>5
<1> QED
  BY <1>2, <1>3, <1>4 DEF IsClause

-------------------------------------------------------------------------------
\* What is stored of a checked statement.
Names == {statements[n].name : n \in DOMAIN statements}

\* Between RegisterIndices and Finish the statement is known not to write an
\* input; between Define and Finish its name is in env but not yet checked.
Pending ==
  IF phase \in {"equivalent", "finish"} THEN {stmt.name} ELSE {}

Open == {"where", "define", "equivalent", "finish"}

OutputsInv ==
  /\ statements \in Seq(Range(statements))
  /\ phase \in Open => stmt.name \notin Inputs
  /\ Names \subseteq Outputs \ Inputs
  /\ phase # "thrown" => DOMAIN env \subseteq Inputs \cup Dims \cup Names \cup Pending
  /\ phase = "done" => Outputs \subseteq DOMAIN env

\* The names in an environment after insert.
LEMMA EmplaceDomain ==
  ASSUME NEW e, NEW xs, NEW v
  PROVE  DOMAIN Emplace(e, xs, v) = DOMAIN e \cup xs
BY DEF Emplace

LEMMA OutputsInit == Init => OutputsInv
<1> SUFFICES ASSUME Init PROVE OutputsInv
  OBVIOUS
<1>1. statements = <<>> /\ phase = "params" /\ DOMAIN env = {}
  BY DEF Init, Empty
<1>2. statements \in Seq(Range(statements)) /\ Names = {}
  BY <1>1 DEF Names, Range
<1> QED
  BY <1>1, <1>2 DEF OutputsInv, Open

\* A step that neither checks a statement nor inserts into env.
LEMMA OutputsFrame ==
  ASSUME OutputsInv, phase # "thrown", UNCHANGED <<func, at, env, statements>>,
         phase' \in Open => stmt.name \notin Inputs,
         phase' # "thrown" => Pending \subseteq Pending',
         phase' = "done" => Outputs \subseteq DOMAIN env
  PROVE  OutputsInv'
<1>1. Inputs' = Inputs /\ Outputs' = Outputs /\ Dims' = Dims /\ Names' = Names /\ stmt' = stmt
  BY DEF Inputs, Outputs, Dims, Names, stmt
<1>2. Range(statements)' = Range(statements)
  BY DEF Range
<1> QED
  BY <1>1, <1>2 DEF OutputsInv, Open

\* Every handler may throw.
LEMMA OutputsThrow ==
  ASSUME OutputsInv, phase # "thrown", Throw
  PROVE  OutputsInv'
<1>1. phase' = "thrown" /\ UNCHANGED <<func, at, env, statements>>
  BY DEF Throw
<1>2. phase' \notin Open
  BY <1>1 DEF Open
<1> QED
  BY <1>1, <1>2, OutputsFrame

LEMMA OutputsStep == OutputsInv /\ [Next]_vars => OutputsInv'
<1> SUFFICES ASSUME OutputsInv, [Next]_vars PROVE OutputsInv'
  OBVIOUS
<1> USE DEF Open
<1>1. CASE CheckParam
  <2>1. phase = "params" /\ at \in DOMAIN func.params
    BY <1>1 DEF CheckParam
  <2>2. CASE Throw
    BY <2>1, <2>2, OutputsThrow
  <2>3. CASE ~Throw
    <3> DEFINE p == func.params[at]
               withDims == Emplace(env, Range(p.dims), Scalar("int32"))
    <3>1. /\ env' = Emplace(withDims, {p.name}, p.type)
          /\ UNCHANGED <<func, phase, statements>>
      BY <1>1, <2>3 DEF CheckParam
    <3>2. DOMAIN env' = DOMAIN env \cup Range(p.dims) \cup {p.name}
      <4>1. DOMAIN withDims = DOMAIN env \cup Range(p.dims)
        BY EmplaceDomain
      <4>2. DOMAIN Emplace(withDims, {p.name}, p.type) = DOMAIN withDims \cup {p.name}
        BY ONLY EmplaceDomain
      <4> HIDE DEF withDims, p
      <4> QED
        BY ONLY <3>1, <4>1, <4>2
    <3>3. p.name \in Inputs /\ Range(p.dims) \subseteq Dims
      BY <2>1 DEF Inputs, Dims
    <3>4. Inputs' = Inputs /\ Outputs' = Outputs /\ Dims' = Dims /\ Names' = Names
      BY <3>1 DEF Inputs, Outputs, Dims, Names
    <3>5. Pending = {} /\ Pending' = {} /\ Range(statements)' = Range(statements)
      BY <2>1, <3>1 DEF Pending, Range
    <3> HIDE DEF p
    <3> QED
      BY <2>1, <3>1, <3>2, <3>3, <3>4, <3>5 DEF OutputsInv
  <2> QED
    BY <2>2, <2>3
<1>2. CASE EndParams
  <2>1. /\ phase = "params" /\ phase' = "indices"
        /\ UNCHANGED <<func, env, statements>>
    BY <1>2 DEF EndParams
  <2>2. Inputs' = Inputs /\ Outputs' = Outputs /\ Dims' = Dims /\ Names' = Names
    BY <2>1 DEF Inputs, Outputs, Dims, Names
  <2>3. Pending = {} /\ Pending' = {} /\ Range(statements)' = Range(statements)
    BY <2>1 DEF Pending, Range
  <2> QED
    BY <2>1, <2>2, <2>3 DEF OutputsInv
<1>3. CASE RegisterIndices
  <2>1. phase = "indices" /\ Pending = {}
    BY <1>3 DEF RegisterIndices, Pending
  <2>2. CASE Throw
    BY <2>1, <2>2, OutputsThrow
  <2>3. CASE ~Throw
    <3>1. phase' = "where" /\ stmt.name \notin Inputs /\ UNCHANGED <<func, at, env, statements>>
      BY <1>3, <2>3 DEF RegisterIndices
    <3> QED
      BY <2>1, <3>1, OutputsFrame
  <2> QED
    BY <2>2, <2>3
<1>4. CASE CheckWhere
  <2>1. phase = "where" /\ Pending = {} /\ stmt.name \notin Inputs
    BY <1>4 DEF CheckWhere, Pending, OutputsInv
  <2>2. \/ Throw
        \/ phase' = "where" /\ UNCHANGED <<func, at, env, statements>>
    BY <1>4 DEF CheckWhere
  <2> QED
    BY <2>1, <2>2, OutputsThrow, OutputsFrame
<1>5. CASE CheckRhs
  <2>1. phase = "where" /\ Pending = {} /\ stmt.name \notin Inputs
    BY <1>5 DEF CheckRhs, Pending, OutputsInv
  <2>2. \/ Throw
        \/ phase' = "define" /\ UNCHANGED <<func, at, env, statements>>
    BY <1>5 DEF CheckRhs
  <2> QED
    BY <2>1, <2>2, OutputsThrow, OutputsFrame
<1>6. CASE Define
  <2>1. phase = "define" /\ Pending = {} /\ stmt.name \notin Inputs
    BY <1>6 DEF Define, Pending, OutputsInv
  <2>2. CASE Throw
    BY <2>1, <2>2, OutputsThrow
  <2>3. CASE ~Throw
    <3>1. /\ env' = Emplace(env, {stmt.name}, Tensor(rhsType, Len(stmt.indices)))
          /\ phase' = "equivalent" /\ UNCHANGED <<func, at, statements>>
      BY <1>6, <2>3 DEF Define
    <3>2. DOMAIN env' = DOMAIN env \cup {stmt.name}
      BY <3>1, EmplaceDomain
    <3>3. /\ Inputs' = Inputs /\ Outputs' = Outputs /\ Dims' = Dims /\ Names' = Names
          /\ stmt' = stmt
      BY <3>1 DEF Inputs, Outputs, Dims, Names, stmt
    <3>4. Pending' = {stmt.name} /\ Range(statements)' = Range(statements)
      BY <3>1, <3>3 DEF Pending, Range
    <3> QED
      BY <2>1, <3>1, <3>2, <3>3, <3>4 DEF OutputsInv
  <2> QED
    BY <2>2, <2>3
<1>7. CASE CheckEquivalent
  <2>1. phase = "equivalent" /\ Pending = {stmt.name} /\ stmt.name \notin Inputs
    BY <1>7 DEF CheckEquivalent, Pending, OutputsInv
  <2>2. \/ Throw
        \/ phase' = "finish" /\ UNCHANGED <<func, at, env, statements>>
    BY <1>7 DEF CheckEquivalent
  <2>3. CASE phase' = "finish" /\ UNCHANGED <<func, at, env, statements>>
    <3>1. Pending' = {stmt.name}
      BY <2>3 DEF Pending, stmt
    <3> QED
      BY <2>1, <2>3, <3>1, OutputsFrame
  <2> QED
    BY <2>1, <2>2, <2>3, OutputsThrow
<1>8. CASE Finish
  <2>1. phase = "finish" /\ Pending = {stmt.name} /\ stmt.name \notin Inputs
    BY <1>8 DEF Finish, Pending, OutputsInv
  <2>2. CASE Throw
    BY <2>1, <2>2, OutputsThrow
  <2>3. CASE ~Throw
    <3> DEFINE checked == [name |-> stmt.name, assign |-> stmt.assign, type |-> rhsType,
                           warned |-> warned, reductionVariables |-> reduction_variables]
    <3>1. /\ statements' = Append(statements, checked)
          /\ stmt.name \in Inputs \cup Outputs
          /\ phase' = "indices" /\ UNCHANGED <<func, env>>
      BY <1>8, <2>3 DEF Finish
    <3>2. /\ Inputs' = Inputs /\ Outputs' = Outputs /\ Dims' = Dims
      BY <3>1 DEF Inputs, Outputs, Dims
    <3>3. checked.name = stmt.name
      OBVIOUS
    <3> HIDE DEF checked
    <3>4. /\ statements' \in Seq(Range(statements) \cup {checked})
          /\ DOMAIN statements' = DOMAIN statements \cup {Len(statements) + 1}
          /\ \A n \in DOMAIN statements : statements'[n] = statements[n]
          /\ statements'[Len(statements) + 1] = checked
      BY <3>1 DEF OutputsInv
    <3>5. Names' = Names \cup {stmt.name}
      BY <3>3, <3>4 DEF Names
    <3>6. statements' \in Seq(Range(statements'))
      BY <3>4 DEF Range
    <3>7. Pending' = {}
      BY <3>1 DEF Pending
    <3> QED
      BY <2>1, <3>1, <3>2, <3>5, <3>6, <3>7 DEF OutputsInv, Range
  <2> QED
    BY <2>2, <2>3
<1>9. CASE CheckReturns
  <2>1. phase = "indices" /\ Pending = {}
    BY <1>9 DEF CheckReturns, Pending
  <2>2. \/ Throw
        \/ phase' = "done" /\ Outputs \subseteq DOMAIN env /\ UNCHANGED <<func, at, env, statements>>
    BY <1>9 DEF CheckReturns
  <2> QED
    BY <2>1, <2>2, OutputsThrow, OutputsFrame
<1>10. CASE UNCHANGED vars
  <2>1. UNCHANGED <<func, phase, at, env, statements>>
    BY <1>10 DEF vars, perStatement
  <2>2. /\ Inputs' = Inputs /\ Outputs' = Outputs /\ Dims' = Dims /\ Names' = Names
        /\ stmt' = stmt /\ Range(statements)' = Range(statements)
    BY <2>1 DEF Inputs, Outputs, Dims, Names, stmt, Range
  <2>3. Pending' = Pending
    BY <2>1, <2>2 DEF Pending
  <2> QED
    BY <2>1, <2>2, <2>3 DEF OutputsInv
<1> QED
  BY <1>1, <1>2, <1>3, <1>4, <1>5, <1>6, <1>7, <1>8, <1>9, <1>10 DEF Next, Stop

LEMMA OutputsInvImplies == OutputsInv => OutputsOnly
<1> SUFFICES ASSUME OutputsInv PROVE OutputsOnly
  OBVIOUS
<1>1. \A n \in DOMAIN statements : statements[n].name \in Outputs \ Inputs
  BY DEF OutputsInv, Names
<1>2. ASSUME phase = "done" PROVE Outputs \subseteq Inputs \cup Dims \cup Names
  BY <1>2 DEF OutputsInv, Pending
<1> QED
  BY <1>1, <1>2 DEF OutputsOnly, Names

\* The outputs of an accepted function are defined, and no input is written
\* (checkParam, checkStmt and checkReturn together), for every function.
THEOREM OutputsCorrect == Spec => []OutputsOnly
<1>1. Spec => []OutputsInv
  BY OutputsInit, OutputsStep, PTL DEF Spec
<1> QED
  BY <1>1, OutputsInvImplies, PTL
-------------------------------------------------------------------------------
\* The scope of a statement.  What has been checked of it are the parts before
\* k; the names they use without a meaning, and the tensors they read.

UpTo(k) == {u \in Nodes(stmt) : u.at[1] < k}
UnboundUpTo(k) == {u \in Unbound(at) : u.at[1] < k}

ScopeAt(k) ==
  /\ Consistent(Scope, Range(stmt.indices), UnboundUpTo(k), Accesses(UpTo(k)))
  /\ DOMAIN let_env = Lets(stmt, k)

\* WarnedExact of one statement.
Captured(n) ==
  LET st == func.stmts[n]
  IN  Range(st.indices) \cup Lets(st, Len(st.where) + 1)
        \cup {u.node.name : u \in {u \in Uses(st) : u.at[1] <= Len(st.where) + 1}}
WarnedAs(n, w) ==
  w <=> /\ InPlace(func.stmts[n].assign) /\ func.stmts[n].name \notin Globals(n)
        /\ func.stmts[n].name \notin Captured(n)

\* What is known of a checked statement.
Checked(n) ==
  /\ n \in DOMAIN func.stmts /\ statements[n].name = func.stmts[n].name
  /\ InOrder(statements[n].reductionVariables, Unbound(n))
  /\ \A node \in Reads(func.stmts[n]) : ReadOk(env, node)
  /\ WarnedAs(n, statements[n].warned)
  /\ AnnotationOk(statements[n].name, statements[n].type, Len(func.stmts[n].indices))

Cleared == index_env = Empty /\ let_env = Empty /\ reduction_variables = <<>>

AtStmt == at \in DOMAIN func.stmts /\ Len(statements) = at - 1

Rhs == AnnotationOk(stmt.name, rhsType, Len(stmt.indices))

ParamNames(n) == {func.params[p].name : p \in 1..(n - 1)}
ParamDims(n) == UNION {Range(func.params[p].dims) : p \in 1..(n - 1)}

Past ==
  /\ func \in Functions /\ IsList(statements)
  /\ \A n \in DOMAIN statements : Checked(n)

Present ==
  /\ phase = "params" =>
       /\ at \in 1..(Len(func.params) + 1) /\ statements = <<>> /\ Cleared
       /\ DOMAIN env = ParamNames(at) \cup ParamDims(at)
  /\ phase = "indices" =>
       /\ at \in 1..(Len(func.stmts) + 1) /\ Len(statements) = at - 1 /\ Cleared
       /\ DOMAIN env = Globals(at)
  /\ phase = "where" =>
       /\ AtStmt /\ clause \in 1..(Len(stmt.where) + 1)
       /\ DOMAIN env = Globals(at) /\ ScopeAt(clause)
  /\ phase = "define" =>
       /\ AtStmt /\ DOMAIN env = Globals(at) /\ ScopeAt(Len(stmt.where) + 2) /\ Rhs
  /\ phase = "equivalent" =>
       /\ AtStmt /\ DOMAIN env = Globals(at) \cup {stmt.name}
       /\ ScopeAt(Len(stmt.where) + 2) /\ Rhs /\ WarnedAs(at, warned)
  /\ phase = "finish" =>
       /\ AtStmt /\ DOMAIN env = Globals(at) \cup {stmt.name}
       /\ ScopeAt(Len(stmt.where) + 3) /\ Rhs /\ WarnedAs(at, warned)

ScopesInv == Past /\ Present

\* The statement that is being checked is well-formed.
LEMMA StmtFacts ==
  ASSUME func \in Functions
  PROVE  /\ Listed(func.params) /\ Listed(func.stmts)
         /\ \A n \in DOMAIN func.stmts :
              /\ Listed(func.stmts[n].where)
              /\ \A c \in DOMAIN func.stmts[n].where : IsClause(func.stmts[n].where[c])
              /\ Listed(func.stmts[n].rhs)
              /\ Listed(func.stmts[n].equivalent)
              /\ \A e \in DOMAIN func.stmts[n].equivalent : Listed(func.stmts[n].equivalent[e])
BY FunctionsAssumption, ListFacts DEF IsStmt, IsExp

\* The nodes of part k, and of the parts before the next one.
LEMMA PartNodes ==
  ASSUME NEW st, Len(st.where) \in Nat, NEW k \in 1..(Len(st.where) + 2)
  PROVE  /\ \A j, u : u \in PlacedIn(j, Part(st, j)) => u.at[1] = j
         /\ {u \in Nodes(st) : u.at[1] < k + 1}
              = {u \in Nodes(st) : u.at[1] < k} \cup PlacedIn(k, Part(st, k))
<1>1. \A j, u : u \in PlacedIn(j, Part(st, j)) => u.at[1] = j
  BY DEF PlacedIn, Placed
<1>2. \A u : u \in Nodes(st) <=> \E j \in 1..(Len(st.where) + 2) : u \in PlacedIn(j, Part(st, j))
  BY DEF Nodes
<1>3. \A u : (u \in Nodes(st) /\ u.at[1] < k + 1) <=> ((u \in Nodes(st) /\ u.at[1] < k) \/ u \in PlacedIn(k, Part(st, k)))
  BY <1>1, <1>2
<1> QED
  BY <1>1, <1>3

LEMMA NextPart ==
  ASSUME Len(stmt.where) \in Nat, NEW k \in 1..(Len(stmt.where) + 2),
         Meant(Scope, Range(stmt.indices)) = Bound(at, k)
  PROVE  /\ UnboundUpTo(k + 1)
              = UnboundUpTo(k) \cup Unmeant(Scope, Range(stmt.indices), PlacedIn(k, Part(stmt, k)))
         /\ Accesses(UpTo(k + 1)) = Accesses(UpTo(k)) \cup Accesses(PlacedIn(k, Part(stmt, k)))
         /\ \A v \in UnboundUpTo(k) : v.at[1] < k
<1>1. /\ \A u \in PlacedIn(k, Part(stmt, k)) : u.at[1] = k
      /\ UpTo(k + 1) = UpTo(k) \cup PlacedIn(k, Part(stmt, k))
  BY PartNodes DEF UpTo
<1>2. \A j : UnboundUpTo(j) = {u \in UpTo(j) : u.node.op = "ident" /\ u.node.name \notin Bound(at, u.at[1])}
  BY DEF UnboundUpTo, Unbound, UpTo, Uses, stmt
<1>3. UnboundUpTo(k + 1)
        = UnboundUpTo(k) \cup Unmeant(Scope, Range(stmt.indices), PlacedIn(k, Part(stmt, k)))
  BY <1>1, <1>2 DEF Unmeant
<1>4. Accesses(UpTo(k + 1)) = Accesses(UpTo(k)) \cup Accesses(PlacedIn(k, Part(stmt, k)))
  BY <1>1 DEF Accesses
<1> QED
  BY <1>3, <1>4 DEF UnboundUpTo

\* Everything has been met after the equivalent accesses.
LEMMA LastPart ==
  ASSUME Len(stmt.where) \in Nat
  PROVE  /\ UnboundUpTo(Len(stmt.where) + 3) = Unbound(at)
         /\ Accesses(UpTo(Len(stmt.where) + 3)) = Reads(stmt)
         /\ UnboundUpTo(1) = {} /\ UpTo(1) = {}
<1>1. \A j, u : u \in PlacedIn(j, Part(stmt, j)) => u.at[1] = j
  BY DEF PlacedIn, Placed
<1>2. \A u \in Nodes(stmt) : u.at[1] \in 1..(Len(stmt.where) + 2)
  BY <1>1 DEF Nodes
<1>3. UpTo(Len(stmt.where) + 3) = Nodes(stmt) /\ UpTo(1) = {}
  BY <1>2 DEF UpTo
<1>4. Unbound(at) \subseteq Nodes(stmt)
  BY DEF Unbound, Uses, stmt
<1>5. UnboundUpTo(Len(stmt.where) + 3) = Unbound(at) /\ UnboundUpTo(1) = {}
  BY <1>2, <1>4 DEF UnboundUpTo
<1> QED
  BY <1>3, <1>5 DEF Accesses, Reads

\* The variables hold the scope that a check has answered.
LEMMA Entered ==
  ASSUME NEW t, NEW X, NEW uses, NEW reads, Consistent(t, X, uses, reads), Enter(t), env' = t.env
  PROVE  Consistent(Scope', X, uses, reads)
<1>1. Scope' = [env |-> t.env, index |-> t.index, lets |-> t.lets, red |-> t.red,
                stack |-> <<>>, ok |-> TRUE]
  BY DEF Scope, Enter
<1>2. IsScope(Scope') /\ Scope'.env = t.env /\ Scope'.index = t.index /\ Scope'.lets = t.lets
        /\ Scope'.red = t.red
  BY <1>1 DEF IsScope
<1>3. Restacked(t, Scope')
  BY <1>2 DEF Restacked
<1> QED
  BY <1>3, ConsistentRestacked

\* insert keeps the value of a name that is there.
LEMMA EmplaceKeeps ==
  ASSUME NEW e, NEW xs, NEW v, NEW x \in DOMAIN e
  PROVE  x \in DOMAIN Emplace(e, xs, v) /\ Emplace(e, xs, v)[x] = e[x]
BY DEF Emplace

EnvGrows == \A x \in DOMAIN env : x \in DOMAIN env' /\ env'[x] = env[x]

\* What is known of the checked statements stays known: env only grows.
LEMMA PastFrame ==
  ASSUME Past, func' = func, statements' = statements, EnvGrows
  PROVE  Past'
<1>1. ASSUME NEW n \in DOMAIN statements PROVE Checked(n)'
  <2>1. Checked(n)
    BY DEF Past
  <2>2. \A node : ReadOk(env, node) => ReadOk(env', node)
    BY DEF ReadOk, EnvGrows
  <2>3. /\ Unbound(n)' = Unbound(n) /\ Reads(func.stmts[n])' = Reads(func.stmts[n])
        /\ Globals(n)' = Globals(n) /\ Captured(n)' = Captured(n)
    BY DEF Unbound, Uses, Reads, Bound, Globals, Captured, Inputs, Dims, StatementNames
  <2>4. WarnedAs(n, statements[n].warned)'
    BY <2>1, <2>3 DEF Checked, WarnedAs
  <2>5. AnnotationOk(statements[n].name, statements[n].type, Len(func.stmts[n].indices))'
    <3>1. \A x : Annotations(x)' = Annotations(x)
      BY DEF Annotations
    <3>2. \A x : (Annotated(x)' <=> Annotated(x)) /\ Annotation(x)' = Annotation(x)
      BY <3>1 DEF Annotated, Annotation
    <3> QED
      BY <2>1, <3>2 DEF Checked, AnnotationOk
  <2>6. \A node \in Reads(func.stmts'[n]) : ReadOk(env', node)
    BY <2>1, <2>2 DEF Checked
  <2> QED
    BY <2>1, <2>3, <2>4, <2>5, <2>6 DEF Checked
<1> QED
  BY <1>1 DEF Past

LEMMA ScopesInit == Init => ScopesInv
<1> SUFFICES ASSUME Init PROVE ScopesInv
  OBVIOUS
<1>1. /\ func \in Functions /\ phase = "params" /\ at = 1 /\ statements = <<>>
      /\ Cleared /\ DOMAIN env = {}
  BY DEF Init, Cleared, Empty
<1>2. IsList(statements) /\ DOMAIN statements = {}
  BY <1>1 DEF IsList
<1>3. ParamNames(1) = {} /\ ParamDims(1) = {}
  BY DEF ParamNames, ParamDims
<1>4. at \in 1..(Len(func.params) + 1)
  BY <1>1, StmtFacts DEF Listed
<1> QED
  BY <1>1, <1>2, <1>3, <1>4 DEF ScopesInv, Past, Present

\* Every handler may throw.
LEMMA ScopesThrow ==
  ASSUME Past, Throw
  PROVE  ScopesInv'
<1>1. phase' = "thrown" /\ UNCHANGED <<func, at, env, statements>>
  BY DEF Throw
<1>2. Past'
  BY <1>1, PastFrame DEF EnvGrows
<1> QED
  BY <1>1, <1>2 DEF ScopesInv, Present

\* A step within a statement changes neither func nor at: what the text of the
\* statement says stays the same.
LEMMA TextFrame ==
  ASSUME UNCHANGED <<func, at>>
  PROVE  /\ stmt' = stmt /\ Globals(at)' = Globals(at)
         /\ \A k : UnboundUpTo(k)' = UnboundUpTo(k) /\ UpTo(k)' = UpTo(k)
         /\ \A w : WarnedAs(at, w)' <=> WarnedAs(at, w)
         /\ \A x, t, n : AnnotationOk(x, t, n)' <=> AnnotationOk(x, t, n)
<1>1. stmt' = stmt /\ Globals(at)' = Globals(at)
  BY DEF stmt, Globals, Inputs, Dims, StatementNames
<1>2. ASSUME NEW k PROVE UnboundUpTo(k)' = UnboundUpTo(k) /\ UpTo(k)' = UpTo(k)
  BY <1>1 DEF UnboundUpTo, UpTo, Unbound, Uses, Bound, Globals, Inputs, Dims, StatementNames, stmt
<1>3. ASSUME NEW w PROVE WarnedAs(at, w)' <=> WarnedAs(at, w)
  BY <1>1 DEF WarnedAs, Captured
<1>4. ASSUME NEW x, NEW t, NEW n PROVE AnnotationOk(x, t, n)' <=> AnnotationOk(x, t, n)
  BY DEF AnnotationOk, Annotated, Annotation, Annotations
<1> QED
  BY <1>1, <1>2, <1>3, <1>4

LEMMA ScopesCheckParam == ScopesInv /\ CheckParam => ScopesInv'
<1> SUFFICES ASSUME ScopesInv, CheckParam, ~Throw PROVE ScopesInv'
  BY ScopesThrow DEF ScopesInv
<1> DEFINE p == func.params[at]
           withDims == Emplace(env, Range(p.dims), Scalar("int32"))
<1>1. /\ phase = "params" /\ at \in DOMAIN func.params
      /\ env' = Emplace(withDims, {p.name}, p.type) /\ at' = at + 1
      /\ UNCHANGED <<func, phase, perStatement, statements>>
  BY DEF CheckParam
<1>2. /\ at \in 1..(Len(func.params) + 1) /\ statements = <<>> /\ Cleared
      /\ DOMAIN env = ParamNames(at) \cup ParamDims(at) /\ Past /\ func \in Functions
  BY <1>1 DEF ScopesInv, Present, Past
<1>3. at \in 1..Len(func.params) /\ Len(func.params) \in Nat
  BY <1>1, <1>2, StmtFacts DEF Listed
<1>4. DOMAIN env' = DOMAIN env \cup Range(p.dims) \cup {p.name} /\ EnvGrows
  <2>1. /\ DOMAIN withDims = DOMAIN env \cup Range(p.dims)
        /\ \A x \in DOMAIN env : x \in DOMAIN withDims /\ withDims[x] = env[x]
    BY EmplaceDomain, EmplaceKeeps
  <2> HIDE DEF withDims, p
  <2>2. DOMAIN env' = DOMAIN withDims \cup {p.name}
    BY <1>1, EmplaceDomain
  <2>3. \A x \in DOMAIN withDims : x \in DOMAIN env' /\ env'[x] = withDims[x]
    BY <1>1, EmplaceKeeps
  <2> QED
    BY <2>1, <2>2, <2>3 DEF EnvGrows
<1>5. /\ ParamNames(at + 1) = ParamNames(at) \cup {p.name}
      /\ ParamDims(at + 1) = ParamDims(at) \cup Range(p.dims)
  BY <1>3 DEF ParamNames, ParamDims
<1> HIDE DEF p, withDims
<1>6. DOMAIN env' = ParamNames(at)' \cup ParamDims(at)'
  <2>1. ParamNames(at)' = ParamNames(at + 1)
    BY <1>1 DEF ParamNames
  <2>2. ParamDims(at)' = ParamDims(at + 1)
    BY <1>1 DEF ParamDims
  <2>3. DOMAIN env' = (ParamNames(at) \cup ParamDims(at)) \cup Range(p.dims) \cup {p.name}
    BY <1>2, <1>4
  <2> QED
    BY <1>5, <2>1, <2>2, <2>3
<1>7. Past'
  BY <1>1, <1>2, <1>4, PastFrame
<1>8. Cleared'
  BY <1>1, <1>2 DEF Cleared, perStatement
<1> QED
  BY <1>1, <1>2, <1>3, <1>6, <1>7, <1>8 DEF ScopesInv, Present

LEMMA ScopesEndParams == ScopesInv /\ EndParams => ScopesInv'
<1> SUFFICES ASSUME ScopesInv, EndParams PROVE ScopesInv'
  OBVIOUS
<1>1. /\ phase = "params" /\ at \notin DOMAIN func.params /\ phase' = "indices" /\ at' = 1
      /\ UNCHANGED <<func, env, perStatement, statements>>
  BY DEF EndParams
<1>2. /\ at \in 1..(Len(func.params) + 1) /\ statements = <<>> /\ Cleared
      /\ DOMAIN env = ParamNames(at) \cup ParamDims(at) /\ Past /\ func \in Functions
  BY <1>1 DEF ScopesInv, Present, Past
<1>3. /\ DOMAIN func.params = 1..(at - 1) /\ Len(func.stmts) \in Nat
  BY <1>1, <1>2, StmtFacts DEF Listed
<1>4. DOMAIN env = Inputs \cup Dims
  BY <1>2, <1>3 DEF Inputs, Dims, ParamNames, ParamDims
<1>5. Globals(at)' = Inputs \cup Dims
  BY <1>1 DEF Globals, Inputs, Dims, StatementNames
<1>6. Past'
  BY <1>1, <1>2, PastFrame DEF EnvGrows
<1>7. Cleared' /\ Len(statements') = 0
  BY <1>1, <1>2 DEF Cleared, perStatement
<1> QED
  BY <1>1, <1>3, <1>4, <1>5, <1>6, <1>7 DEF ScopesInv, Present

LEMMA ScopesRegisterIndices == ScopesInv /\ RegisterIndices => ScopesInv'
<1> SUFFICES ASSUME ScopesInv, RegisterIndices, ~Throw PROVE ScopesInv'
  BY ScopesThrow DEF ScopesInv
<1> DEFINE X == Range(stmt.indices)
<1>1. /\ phase = "indices" /\ at \in DOMAIN func.stmts
      /\ index_env' = Emplace(index_env, X, Scalar("int32"))
      /\ phase' = "where" /\ clause' = 1
      /\ UNCHANGED <<func, at, env, let_env, reduction_variables, statements>>
  BY DEF RegisterIndices
<1>2. /\ Len(statements) = at - 1 /\ Cleared /\ DOMAIN env = Globals(at)
      /\ Past /\ func \in Functions
  BY <1>1 DEF ScopesInv, Present, Past
<1>3. stmt' = stmt /\ Globals(at)' = Globals(at) /\ AtStmt'
  BY <1>1, <1>2, TextFrame DEF AtStmt
<1>4. Len(stmt.where) \in Nat
  BY <1>1, <1>2, StmtFacts DEF stmt, Listed
<1>5. Consistent(Scope', X, {}, {})
  <2>1. /\ DOMAIN index_env' = X /\ \A x \in X : index_env'[x] = Scalar("int32")
    BY <1>1, <1>2 DEF Cleared, Empty, Emplace
  <2>2. Scope' = [env |-> env, index |-> index_env', lets |-> Empty, red |-> <<>>,
                  stack |-> <<>>, ok |-> TRUE]
    BY <1>1, <1>2 DEF Scope, Cleared
  <2>3. /\ IsScope(Scope') /\ Scope'.index = index_env' /\ Scope'.red = <<>>
        /\ DOMAIN Scope'.lets = {}
    BY <2>2 DEF IsScope, Empty
  <2>4. InOrder(<<>>, {}) /\ <<>> \in Seq(Range(<<>>)) /\ Range(<<>>) = {}
    BY DEF InOrder, Range, IsInjective
  <2> QED
    BY <2>1, <2>3, <2>4 DEF Consistent
<1>6. /\ UnboundUpTo(1) = {} /\ Accesses(UpTo(1)) = {}
  BY <1>4, LastPart DEF Accesses
<1>7. UnboundUpTo(1)' = {} /\ Accesses(UpTo(1))' = {}
  BY <1>1, <1>6, TextFrame DEF Accesses
<1>8. DOMAIN let_env' = Lets(stmt, 1)'
  BY <1>1, <1>2, <1>4, StmtFacts DEF Cleared, Empty, Lets, Listed, stmt
<1>9. ScopeAt(1)'
  BY <1>3, <1>5, <1>7, <1>8 DEF ScopeAt
<1>10. Past'
  BY <1>1, <1>2, PastFrame DEF EnvGrows
<1> QED
  BY <1>1, <1>2, <1>3, <1>4, <1>9, <1>10 DEF ScopesInv, Present

LEMMA ScopeEntered ==
  ASSUME UNCHANGED <<func, at>>, NEW k, NEW t,
         Consistent(t, Range(stmt.indices), UnboundUpTo(k), Accesses(UpTo(k))),
         Enter(t), env' = t.env, DOMAIN t.lets = Lets(stmt, k)
  PROVE  ScopeAt(k)'
<1>1. Consistent(Scope', Range(stmt.indices), UnboundUpTo(k), Accesses(UpTo(k)))
  BY Entered
<1>2. stmt' = stmt /\ UnboundUpTo(k)' = UnboundUpTo(k) /\ UpTo(k)' = UpTo(k)
  BY TextFrame
<1>3. DOMAIN let_env' = Lets(stmt, k)
  BY DEF Enter
<1> QED
  BY <1>1, <1>2, <1>3 DEF ScopeAt, Accesses

LEMMA ScopesCheckWhere == ScopesInv /\ CheckWhere => ScopesInv'
<1> SUFFICES ASSUME ScopesInv, CheckWhere, ~Throw PROVE ScopesInv'
  BY ScopesThrow DEF ScopesInv
<1> DEFINE X == Range(stmt.indices)
           w == stmt.where[clause]
           t == CheckWhereClause(w)
           met == PlacedIn(clause, Texts(w))
<1>1. /\ phase = "where" /\ clause \in DOMAIN stmt.where
      /\ t.ok /\ Enter(t) /\ clause' = clause + 1
      /\ UNCHANGED <<func, phase, at, env, statements>>
  BY DEF CheckWhere
<1>2. /\ AtStmt /\ clause \in 1..(Len(stmt.where) + 1) /\ DOMAIN env = Globals(at)
      /\ ScopeAt(clause) /\ Past /\ func \in Functions
  BY <1>1 DEF ScopesInv, Present, Past
<1>3. /\ Len(stmt.where) \in Nat /\ clause \in 1..Len(stmt.where) /\ IsClause(w)
  BY <1>1, <1>2, StmtFacts DEF AtStmt, stmt, Listed
<1>4. /\ Consistent(Scope, X, UnboundUpTo(clause), Accesses(UpTo(clause)))
      /\ DOMAIN let_env = Lets(stmt, clause)
  BY <1>2 DEF ScopeAt
<1>5. Meant(Scope, X) = Bound(at, clause)
  BY <1>2, <1>3, <1>4 DEF Meant, Scope, Bound, stmt
<1>6. /\ UnboundUpTo(clause + 1) = UnboundUpTo(clause) \cup Unmeant(Scope, X, met)
      /\ Accesses(UpTo(clause + 1)) = Accesses(UpTo(clause)) \cup Accesses(met)
      /\ \A v \in UnboundUpTo(clause) : v.at[1] < clause
  <2>1. Part(stmt, clause) = Texts(w)
    BY <1>1 DEF Part
  <2>2. clause \in 1..(Len(stmt.where) + 2)
    BY <1>3
  <2> QED
    BY <1>3, <1>5, <2>1, <2>2, NextPart
<1>7. /\ Consistent(t, X, UnboundUpTo(clause + 1), Accesses(UpTo(clause + 1)))
      /\ t.env = env /\ DOMAIN t.lets = DOMAIN let_env \cup LetNames(w)
  <2> DEFINE us == UnboundUpTo(clause)
             rs == Accesses(UpTo(clause))
  <2>1. clause \in Int /\ met = PlacedIn(clause, Texts(w))
    BY <1>3
  <2>2. CheckWhereClause(w).ok /\ IsClause(w)
    BY <1>1, <1>3
  <2>3. Consistent(Scope, X, us, rs) /\ \A v \in us : v.at[1] < clause
    BY <1>4, <1>6
  <2> HIDE DEF us, rs, met, X, w
  <2>4. /\ Consistent(CheckWhereClause(w), X, us \cup Unmeant(Scope, X, met), rs \cup Accesses(met))
        /\ CheckWhereClause(w).env = env
        /\ DOMAIN CheckWhereClause(w).lets = DOMAIN let_env \cup LetNames(w)
    BY <2>1, <2>2, <2>3, CheckWhereConsistent
  <2> QED
    BY <1>6, <2>4 DEF us, rs
<1> HIDE DEF t
<1>8. DOMAIN t.lets = Lets(stmt, clause + 1)
  <2>1. Lets(stmt, clause + 1) = Lets(stmt, clause) \cup LetNames(w)
    BY <1>1, <1>3, StmtFacts, <1>2, SMTT(30) DEF Lets, LetNames, Listed, AtStmt, stmt
  <2> QED
    BY <1>4, <1>7, <2>1
<1>9. PICK k : k = clause + 1
  OBVIOUS
<1>10. stmt' = stmt /\ Globals(at)' = Globals(at) /\ AtStmt'
  BY <1>1, <1>2, TextFrame DEF AtStmt
<1>11. ScopeAt(clause)'
  <2>1. ScopeAt(k)'
    BY <1>1, <1>7, <1>8, <1>9, ScopeEntered
  <2>2. k = clause'
    BY <1>1, <1>9
  <2> QED
    BY <2>1, <2>2 DEF ScopeAt, UnboundUpTo, UpTo
<1>12. Past'
  BY <1>1, <1>2, PastFrame DEF EnvGrows
<1> QED
  BY <1>1, <1>2, <1>3, <1>10, <1>11, <1>12 DEF ScopesInv, Present

LEMMA AnnotationFrame ==
  ASSUME func' = func
  PROVE  \A x : (Annotated(x)' <=> Annotated(x)) /\ Annotation(x)' = Annotation(x)
<1>1. \A x : Annotations(x)' = Annotations(x)
  BY DEF Annotations
<1> QED
  BY <1>1 DEF Annotated, Annotation

LEMMA ScopesCheckRhs == ScopesInv /\ CheckRhs => ScopesInv'
<1> SUFFICES ASSUME ScopesInv, CheckRhs, ~Throw PROVE ScopesInv'
  BY ScopesThrow DEF ScopesInv
<1> DEFINE X == Range(stmt.indices)
           t == CheckExp(Scope, stmt.rhs, TRUE)
           k == Len(stmt.where) + 1
           met == Placed(k, 1, stmt.rhs)
<1>1. /\ phase = "where" /\ clause \notin DOMAIN stmt.where
      /\ t.ok /\ AnnotationOk(stmt.name, TypeOfExpr(t), Len(stmt.indices))
      /\ Enter(t) /\ rhsType' = TypeOfExpr(t) /\ phase' = "define"
      /\ UNCHANGED <<func, at, clause, env, statements>>
  BY DEF CheckRhs
<1>2. /\ AtStmt /\ clause \in 1..(Len(stmt.where) + 1) /\ DOMAIN env = Globals(at)
      /\ ScopeAt(clause) /\ Past /\ func \in Functions
  BY <1>1 DEF ScopesInv, Present, Past
<1>3. /\ Listed(stmt.where) /\ Listed(stmt.rhs) /\ k \in Nat /\ clause = k
  <2>1. Listed(stmt.where) /\ Listed(stmt.rhs)
    BY <1>2, StmtFacts DEF AtStmt, stmt
  <2> QED
    BY <1>1, <1>2, <2>1 DEF Listed
<1>4. /\ Consistent(Scope, X, UnboundUpTo(k), Accesses(UpTo(k)))
      /\ DOMAIN let_env = Lets(stmt, k)
  BY <1>2, <1>3 DEF ScopeAt
<1>5. Meant(Scope, X) = Bound(at, k)
  BY <1>2, <1>3, <1>4 DEF Meant, Scope, Bound, stmt
<1>6. /\ UnboundUpTo(k + 1) = UnboundUpTo(k) \cup Unmeant(Scope, X, met)
      /\ Accesses(UpTo(k + 1)) = Accesses(UpTo(k)) \cup Accesses(met)
      /\ \A v \in UnboundUpTo(k) : v.at[1] < k
  <2>1. PlacedIn(k, Part(stmt, k)) = met
    BY <1>3, PlacedOne DEF Part, Listed
  <2>2. k \in 1..(Len(stmt.where) + 2) /\ Len(stmt.where) \in Nat
    BY <1>3 DEF Listed
  <2> HIDE DEF k, met
  <2> QED
    BY <1>5, <2>1, <2>2, NextPart
<1>7. /\ Consistent(t, X, UnboundUpTo(k + 1), Accesses(UpTo(k + 1)))
      /\ Within(Scope, t)
  <2> DEFINE us == UnboundUpTo(k)
             rs == Accesses(UpTo(k))
  <2>1. \A v \in us : \A p \in DOMAIN stmt.rhs : Earlier(v.at, <<k, 1, p>>)
    BY <1>6 DEF Earlier
  <2>2. Consistent(Scope, X, us, rs)
    BY <1>4
  <2> HIDE DEF us, rs, X, k
  <2>3. /\ Consistent(t, X, us \cup Unmeant(Scope, X, met), rs \cup Accesses(met))
        /\ Within(Scope, t)
    BY <1>1, <1>3, <2>1, <2>2, CheckExpConsistent DEF Listed
  <2> QED
    BY <1>6, <2>3 DEF us, rs
<1> HIDE DEF t
<1>8. DOMAIN t.lets = Lets(stmt, k + 1) /\ t.env = env
  <2>1. Lets(stmt, k + 1) = Lets(stmt, k)
    BY <1>3 DEF Lets, Listed
  <2> QED
    BY <1>4, <1>7, <2>1 DEF Within, Scope
<1>9. PICK j : j = k + 1
  OBVIOUS
<1>10. stmt' = stmt /\ Globals(at)' = Globals(at) /\ AtStmt'
  BY <1>1, <1>2, TextFrame DEF AtStmt
<1>11. ScopeAt(Len(stmt.where) + 2)'
  <2>1. ScopeAt(j)'
    BY <1>1, <1>7, <1>8, <1>9, ScopeEntered
  <2>2. j = Len(stmt'.where) + 2
    BY <1>3, <1>9, <1>10 DEF Listed
  <2> QED
    BY <2>1, <2>2 DEF ScopeAt, UnboundUpTo, UpTo
<1>12. Rhs'
  BY <1>1, <1>10, AnnotationFrame DEF Rhs, AnnotationOk
<1>13. Past'
  BY <1>1, <1>2, PastFrame DEF EnvGrows
<1> QED
  BY <1>1, <1>2, <1>10, <1>11, <1>12, <1>13 DEF ScopesInv, Present

\* isUninitializedReductionOperation: lookup finds the output exactly if an
\* earlier statement defines it or the statement uses its name.
LEMMA WarnsAs ==
  ASSUME func \in Functions, AtStmt, DOMAIN env = Globals(at), ScopeAt(Len(stmt.where) + 2)
  PROVE  WarnedAs(at, Warns)
<1> DEFINE x == stmt.name
           k == Len(stmt.where) + 2
<1>1. Listed(stmt.where)
  BY StmtFacts DEF AtStmt, stmt
<1>2. /\ DOMAIN index_env = Range(stmt.indices) \cup Range(reduction_variables)
      /\ Range(reduction_variables) = {u.node.name : u \in UnboundUpTo(k)}
      /\ DOMAIN let_env = Lets(stmt, Len(stmt.where) + 1)
  <2>1. Lets(stmt, k) = Lets(stmt, Len(stmt.where) + 1)
    BY <1>1 DEF Lets, Listed
  <2> QED
    BY <2>1 DEF ScopeAt, Consistent, Scope, InOrder
<1>3. Known(Scope, x) <=> x \in Globals(at) \cup DOMAIN index_env \cup DOMAIN let_env
  BY DEF Known, Scope
<1> DEFINE used == {u.node.name : u \in {u \in Uses(stmt) : u.at[1] <= Len(stmt.where) + 1}}
<1>4. Captured(at) = Range(stmt.indices) \cup Lets(stmt, Len(stmt.where) + 1) \cup used
  BY DEF Captured, stmt
<1>5. ASSUME NEW u \in UnboundUpTo(k) PROVE u.node.name \in used
  <2>1. u \in Uses(stmt) /\ u.at[1] < k
    BY DEF UnboundUpTo, Unbound, stmt
  <2>2. u.at[1] \in 1..k
    BY <1>1, <2>1, PartNodes DEF Uses, Nodes, Listed
  <2> QED
    BY <1>1, <2>1, <2>2 DEF Listed
<1>6. ASSUME NEW u \in Uses(stmt), u.at[1] <= Len(stmt.where) + 1, u \notin UnboundUpTo(k)
      PROVE  u.node.name \in Globals(at) \cup Range(stmt.indices) \cup Lets(stmt, Len(stmt.where) + 1)
  <2>1. u.at[1] \in 1..k
    BY <1>1, PartNodes DEF Uses, Nodes, Listed
  <2>2. u.node.name \in Bound(at, u.at[1])
    BY <1>1, <1>6, <2>1 DEF UnboundUpTo, Unbound, Listed, stmt
  <2>3. Lets(stmt, u.at[1]) \subseteq Lets(stmt, Len(stmt.where) + 1)
    BY <1>1, <1>6, <2>1 DEF Lets, Listed
  <2> QED
    BY <1>1, <1>6, <2>1, <2>2, <2>3 DEF Bound, Listed, stmt
<1> HIDE DEF k
<1>7. Known(Scope, x) <=> (x \in Globals(at) \/ x \in Captured(at))
  BY <1>2, <1>3, <1>4, <1>5, <1>6
<1> QED
  BY <1>7 DEF WarnedAs, Warns, stmt

LEMMA ScopesDefine == ScopesInv /\ Define => ScopesInv'
<1> SUFFICES ASSUME ScopesInv, Define, ~Throw PROVE ScopesInv'
  BY ScopesThrow DEF ScopesInv
<1> DEFINE k == Len(stmt.where) + 2
           X == Range(stmt.indices)
           us == UnboundUpTo(k)
           rs == Accesses(UpTo(k))
<1>1. /\ phase = "define" /\ warned' = Warns
      /\ env' = Emplace(env, {stmt.name}, Tensor(rhsType, Len(stmt.indices)))
      /\ phase' = "equivalent"
      /\ UNCHANGED <<func, at, clause, index_env, let_env, reduction_variables, rhsType,
                     statements>>
  BY DEF Define
<1>2. /\ AtStmt /\ DOMAIN env = Globals(at) /\ ScopeAt(k) /\ Rhs /\ Past /\ func \in Functions
  BY <1>1 DEF ScopesInv, Present, Past
<1>3. stmt' = stmt /\ Globals(at)' = Globals(at) /\ AtStmt'
  BY <1>1, <1>2, TextFrame DEF AtStmt
<1>4. DOMAIN env' = Globals(at) \cup {stmt.name} /\ EnvGrows
  <2>1. DOMAIN env' = DOMAIN env \cup {stmt.name}
    BY <1>1, EmplaceDomain
  <2>2. EnvGrows
    BY <1>1, EmplaceKeeps DEF EnvGrows
  <2> QED
    BY <1>2, <2>1, <2>2
<1>5. Consistent(Scope, X, us, rs) /\ DOMAIN let_env = Lets(stmt, k)
  BY <1>2 DEF ScopeAt
<1>6. Consistent(Scope', X, us, rs)
  <2>1. Scope' = [env |-> env', index |-> index_env, lets |-> let_env,
                  red |-> reduction_variables, stack |-> <<>>, ok |-> TRUE]
    BY <1>1 DEF Scope
  <2>2. /\ IsScope(Scope') /\ Scope'.env = env' /\ Scope'.index = Scope.index
        /\ Scope'.red = Scope.red /\ Scope'.lets = Scope.lets
    BY <2>1 DEF IsScope, Scope
  <2>3. \A node \in rs : ReadOk(env', node)
    <3>1. \A node \in rs : ReadOk(env, node)
      BY <1>5 DEF Consistent, Scope
    <3> QED
      BY <1>4, <3>1 DEF ReadOk, EnvGrows
  <2> HIDE DEF us, rs, X
  <2> QED
    BY <1>5, <2>2, <2>3 DEF Consistent
<1>7. PICK j : j = k
  OBVIOUS
<1>8. ScopeAt(j)'
  <2>1. UnboundUpTo(j)' = us /\ UpTo(j)' = UpTo(k)
    BY <1>1, <1>7, TextFrame
  <2> QED
    BY <1>1, <1>3, <1>5, <1>6, <1>7, <2>1 DEF ScopeAt, Accesses
<1>9. ScopeAt(Len(stmt.where) + 2)'
  BY <1>3, <1>7, <1>8 DEF ScopeAt, UnboundUpTo, UpTo
<1>10. Rhs'
  BY <1>1, <1>2, <1>3, AnnotationFrame DEF Rhs, AnnotationOk
<1>11. WarnedAs(at, warned)'
  <2>1. PICK w : w = Warns
    OBVIOUS
  <2>2. WarnedAs(at, w)
    BY <1>2, <2>1, WarnsAs
  <2>3. WarnedAs(at, w)'
    BY <1>1, <2>2, TextFrame
  <2> QED
    BY <1>1, <2>1, <2>3 DEF WarnedAs
<1>12. Past'
  BY <1>1, <1>2, <1>4, PastFrame
<1> QED
  BY <1>1, <1>3, <1>4, <1>9, <1>10, <1>11, <1>12 DEF ScopesInv, Present

LEMMA ScopesCheckEquivalent == ScopesInv /\ CheckEquivalent => ScopesInv'
<1> SUFFICES ASSUME ScopesInv, CheckEquivalent, ~Throw PROVE ScopesInv'
  BY ScopesThrow DEF ScopesInv
<1> DEFINE X == Range(stmt.indices)
           t == CheckExps(Scope, stmt.equivalent)
           k == Len(stmt.where) + 2
           met == PlacedIn(k, stmt.equivalent)
<1>1. /\ phase = "equivalent" /\ t.ok /\ Enter(t) /\ phase' = "finish"
      /\ UNCHANGED <<func, at, clause, env, rhsType, warned, statements>>
  BY DEF CheckEquivalent
<1>2. /\ AtStmt /\ DOMAIN env = Globals(at) \cup {stmt.name}
      /\ ScopeAt(k) /\ Rhs /\ WarnedAs(at, warned) /\ Past /\ func \in Functions
  BY <1>1 DEF ScopesInv, Present, Past
<1>3. /\ Listed(stmt.where) /\ Listed(stmt.equivalent) /\ k \in Nat
      /\ \A e \in DOMAIN stmt.equivalent : Listed(stmt.equivalent[e])
  <2>1. /\ Listed(stmt.where) /\ Listed(stmt.equivalent)
        /\ \A e \in DOMAIN stmt.equivalent : Listed(stmt.equivalent[e])
    BY <1>2, StmtFacts DEF AtStmt, stmt
  <2> QED
    BY <2>1 DEF Listed
<1>4. /\ Consistent(Scope, X, UnboundUpTo(k), Accesses(UpTo(k)))
      /\ DOMAIN let_env = Lets(stmt, k)
  BY <1>2 DEF ScopeAt
<1>5. Meant(Scope, X) = Bound(at, k)
  BY <1>2, <1>3, <1>4, SMTT(30) DEF Meant, Scope, Bound, stmt, Listed
<1>6. /\ UnboundUpTo(k + 1) = UnboundUpTo(k) \cup Unmeant(Scope, X, met)
      /\ Accesses(UpTo(k + 1)) = Accesses(UpTo(k)) \cup Accesses(met)
      /\ \A v \in UnboundUpTo(k) : v.at[1] < k
  <2>1. PlacedIn(k, Part(stmt, k)) = met
    BY <1>3 DEF Part, Listed
  <2>2. k \in 1..(Len(stmt.where) + 2) /\ Len(stmt.where) \in Nat
    BY <1>3 DEF Listed
  <2> HIDE DEF k, met
  <2> QED
    BY <1>5, <2>1, <2>2, NextPart
<1>7. /\ Consistent(t, X, UnboundUpTo(k + 1), Accesses(UpTo(k + 1)))
      /\ Within(Scope, t)
  <2> DEFINE us == UnboundUpTo(k)
             rs == Accesses(UpTo(k))
  <2>1. k \in Int
    BY <1>3
  <2>2. Consistent(Scope, X, us, rs) /\ \A v \in us : v.at[1] < k
    BY <1>4, <1>6
  <2> HIDE DEF us, rs, X, k
  <2>3. /\ Consistent(t, X, us \cup Unmeant(Scope, X, met), rs \cup Accesses(met))
        /\ Within(Scope, t)
    BY <1>1, <1>3, <2>1, <2>2, CheckExpsConsistent
  <2> QED
    BY <1>6, <2>3 DEF us, rs
<1> HIDE DEF t
<1>8. DOMAIN t.lets = Lets(stmt, k + 1) /\ t.env = env
  <2>1. Lets(stmt, k + 1) = Lets(stmt, k)
    BY <1>3 DEF Lets, Listed
  <2> QED
    BY <1>4, <1>7, <2>1 DEF Within, Scope
<1>9. PICK j : j = k + 1
  OBVIOUS
<1>10. /\ stmt' = stmt /\ Globals(at)' = Globals(at) /\ AtStmt'
  BY <1>1, <1>2, TextFrame DEF AtStmt
<1>11. ScopeAt(Len(stmt.where) + 3)'
  <2>1. ScopeAt(j)'
    BY <1>1, <1>7, <1>8, <1>9, ScopeEntered
  <2>2. j = Len(stmt'.where) + 3
    BY <1>3, <1>9, <1>10 DEF Listed
  <2> QED
    BY <2>1, <2>2 DEF ScopeAt, UnboundUpTo, UpTo
<1>12. Rhs' /\ WarnedAs(at, warned)'
  <2>1. Rhs'
    BY <1>1, <1>2, <1>10, AnnotationFrame DEF Rhs, AnnotationOk
  <2>2. PICK w : w = warned
    OBVIOUS
  <2>3. WarnedAs(at, w)'
    BY <1>1, <1>2, <2>2, TextFrame
  <2> QED
    BY <1>1, <2>1, <2>2, <2>3 DEF WarnedAs
<1>13. Past'
  BY <1>1, <1>2, PastFrame DEF EnvGrows
<1> QED
  BY <1>1, <1>2, <1>10, <1>11, <1>12, <1>13 DEF ScopesInv, Present

LEMMA ScopesFinish == ScopesInv /\ Finish => ScopesInv'
<1> SUFFICES ASSUME ScopesInv, Finish, ~Throw PROVE ScopesInv'
  BY ScopesThrow DEF ScopesInv
<1> DEFINE checked == [name |-> stmt.name, assign |-> stmt.assign, type |-> rhsType,
                       warned |-> warned, reductionVariables |-> reduction_variables]
<1>1. /\ phase = "finish" /\ statements' = Append(statements, checked) /\ Cleared'
      /\ phase' = "indices" /\ at' = at + 1 /\ UNCHANGED <<func, env>>
  BY DEF Finish, LeaveScope, Cleared, Empty
<1>2. /\ AtStmt /\ DOMAIN env = Globals(at) \cup {stmt.name}
      /\ ScopeAt(Len(stmt.where) + 3) /\ Rhs /\ WarnedAs(at, warned) /\ Past /\ func \in Functions
  BY <1>1 DEF ScopesInv, Present, Past
<1>3. /\ Listed(func.stmts) /\ Listed(stmt.where) /\ at \in 1..Len(func.stmts)
      /\ Listed(statements) /\ Len(statements) + 1 = at
  BY <1>2, StmtFacts, ListFacts DEF AtStmt, stmt, Past, Listed
<1>4. /\ IsList(statements') /\ DOMAIN statements' = DOMAIN statements \cup {at}
      /\ Len(statements') = at /\ statements'[at] = checked
      /\ \A n \in DOMAIN statements : statements'[n] = statements[n]
  <2>1. /\ statements \in Seq(Range(statements)) /\ Len(statements) + 1 = at
    BY <1>2, <1>3 DEF Past, IsList
  <2> HIDE DEF checked
  <2>2. /\ statements' \in Seq(Range(statements) \cup {checked})
        /\ DOMAIN statements' = DOMAIN statements \cup {at}
        /\ Len(statements') = at /\ statements'[at] = checked
        /\ \A n \in DOMAIN statements : statements'[n] = statements[n]
    BY <1>1, <2>1
  <2>3. IsList(statements')
    BY <2>2 DEF IsList, Range
  <2> QED
    BY <2>2, <2>3
<1>5. ASSUME NEW n \in DOMAIN func.stmts
      PROVE  /\ Unbound(n)' = Unbound(n) /\ Reads(func.stmts[n])' = Reads(func.stmts[n])
             /\ \A w : WarnedAs(n, w)' <=> WarnedAs(n, w)
  <2>1. /\ Unbound(n)' = Unbound(n) /\ Reads(func.stmts[n])' = Reads(func.stmts[n])
        /\ Globals(n)' = Globals(n) /\ Captured(n)' = Captured(n)
    BY <1>1 DEF Unbound, Uses, Reads, Bound, Globals, Captured, Inputs, Dims, StatementNames
  <2> QED
    BY <1>1, <2>1 DEF WarnedAs
<1>6. ASSUME NEW n \in DOMAIN statements PROVE Checked(n)'
  <2>1. Checked(n) /\ statements'[n] = statements[n]
    BY <1>2, <1>4 DEF Past
  <2>2. WarnedAs(n, statements[n].warned)'
    BY <1>1, <1>4, <1>5, <2>1 DEF Checked, WarnedAs, Captured, Globals, Inputs, Dims,
                                  StatementNames
  <2>3. AnnotationOk(statements[n].name, statements[n].type, Len(func.stmts[n].indices))'
    BY <1>1, <2>1, AnnotationFrame DEF Checked, AnnotationOk
  <2> QED
    BY <1>1, <1>5, <2>1, <2>2, <2>3 DEF Checked
<1>7. ASSUME NEW n, n = at PROVE Checked(n)'
  <2>1. n \in DOMAIN func.stmts /\ stmt = func.stmts[n] /\ statements'[n] = checked
    BY <1>2, <1>4, <1>7 DEF AtStmt, stmt
  <2>2. Consistent(Scope, Range(stmt.indices), Unbound(n), Reads(stmt))
    BY <1>2, <1>3, <1>7, LastPart DEF ScopeAt, Listed
  <2>3. InOrder(reduction_variables, Unbound(n)) /\ \A node \in Reads(stmt) : ReadOk(env, node)
    BY <2>2 DEF Consistent, Scope
  <2>4. InOrder(statements'[n].reductionVariables, Unbound(n)')
    BY <1>5, <2>1, <2>3
  <2>5. \A node \in Reads(func.stmts[n])' : ReadOk(env', node)
    BY <1>1, <1>5, <2>1, <2>3
  <2> HIDE DEF checked
  <2>6. WarnedAs(n, statements[n].warned)'
    <3>1. PICK w : w = warned
      OBVIOUS
    <3>2. WarnedAs(n, w)'
      BY <1>2, <1>5, <1>7, <2>1, <3>1
    <3>3. statements'[n].warned = w
      BY <2>1, <3>1 DEF checked
    <3> QED
      BY <3>2, <3>3 DEF WarnedAs
  <2>7. AnnotationOk(statements[n].name, statements[n].type, Len(func.stmts[n].indices))'
    <3>1. statements'[n].name = stmt.name /\ statements'[n].type = rhsType
      BY <2>1 DEF checked
    <3>2. stmt = func.stmts'[n]
      BY <1>1, <2>1
    <3> QED
      BY <1>1, <1>2, <3>1, <3>2, AnnotationFrame DEF Rhs, AnnotationOk
  <2>8. statements'[n].name = func.stmts'[n].name
    <3>1. statements'[n].name = stmt.name
      BY <2>1 DEF checked
    <3> QED
      BY <1>1, <2>1, <3>1
  <2> QED
    BY <1>1, <2>1, <2>4, <2>5, <2>6, <2>7, <2>8 DEF Checked
<1>8. Past'
  BY <1>1, <1>2, <1>4, <1>6, <1>7 DEF Past
<1>9. Globals(at)' = Globals(at) \cup {stmt.name}
  <2>1. Globals(at)' = Inputs \cup Dims \cup StatementNames(at + 1)
    BY <1>1 DEF Globals, Inputs, Dims, StatementNames
  <2>2. StatementNames(at + 1) = StatementNames(at) \cup {stmt.name}
    BY <1>3 DEF StatementNames, stmt
  <2> QED
    BY <2>1, <2>2 DEF Globals
<1> QED
  BY <1>1, <1>2, <1>3, <1>4, <1>8, <1>9 DEF ScopesInv, Present, Listed

LEMMA ScopesStep == ScopesInv /\ [Next]_vars => ScopesInv'
<1> SUFFICES ASSUME ScopesInv, [Next]_vars PROVE ScopesInv'
  OBVIOUS
<1>1. CASE CheckReturns
  <2>1. Throw \/ (phase' = "done" /\ UNCHANGED <<func, env, statements>>)
    BY <1>1 DEF CheckReturns
  <2>2. CASE phase' = "done" /\ UNCHANGED <<func, env, statements>>
    <3>1. Past'
      BY <2>2, PastFrame DEF EnvGrows, ScopesInv
    <3> QED
      BY <2>2, <3>1 DEF ScopesInv, Present
  <2> QED
    BY <2>1, <2>2, ScopesThrow DEF ScopesInv
<1>2. CASE UNCHANGED vars
  <2>1. UNCHANGED <<func, phase, at, clause, env, index_env, let_env, reduction_variables,
                    rhsType, warned, statements>>
    BY <1>2 DEF vars, perStatement
  <2>2. Past'
    BY <2>1, PastFrame DEF EnvGrows, ScopesInv
  <2>3. /\ stmt' = stmt /\ Globals(at)' = Globals(at)
        /\ \A k : UnboundUpTo(k)' = UnboundUpTo(k) /\ UpTo(k)' = UpTo(k)
    BY <2>1, TextFrame
  <2>4. Scope' = Scope
    BY <2>1 DEF Scope
  <2>5. \A k : ScopeAt(k)' <=> ScopeAt(k)
    BY <2>1, <2>3, <2>4 DEF ScopeAt, Accesses
  <2>6. ScopeAt(clause)' <=> ScopeAt(clause)
    <3>1. PICK k : k = clause
      OBVIOUS
    <3>2. ScopeAt(clause)' <=> ScopeAt(k)'
      BY <2>1, <3>1 DEF ScopeAt, UnboundUpTo, UpTo
    <3> QED
      BY <2>5, <3>1, <3>2
  <2>7. /\ ScopeAt(Len(stmt.where) + 2)' <=> ScopeAt(Len(stmt.where) + 2)
        /\ ScopeAt(Len(stmt.where) + 3)' <=> ScopeAt(Len(stmt.where) + 3)
    <3>1. PICK k : k = Len(stmt.where)
      OBVIOUS
    <3>2. /\ ScopeAt(Len(stmt.where) + 2)' <=> ScopeAt(k + 2)'
          /\ ScopeAt(Len(stmt.where) + 3)' <=> ScopeAt(k + 3)'
      BY <2>3, <3>1 DEF ScopeAt, UnboundUpTo, UpTo
    <3> QED
      BY <2>5, <3>1, <3>2
  <2>8. Rhs' <=> Rhs
    BY <2>1, <2>3, AnnotationFrame DEF Rhs, AnnotationOk
  <2>9. WarnedAs(at, warned)' <=> WarnedAs(at, warned)
    BY <2>1, <2>3 DEF WarnedAs, Captured
  <2>10. Cleared' <=> Cleared
    BY <2>1 DEF Cleared
  <2>11. ParamNames(at)' = ParamNames(at) /\ ParamDims(at)' = ParamDims(at)
    BY <2>1 DEF ParamNames, ParamDims
  <2> QED
    BY <2>1, <2>2, <2>3, <2>6, <2>7, <2>8, <2>9, <2>10, <2>11 DEF ScopesInv, Present, AtStmt
<1> QED
  BY <1>1, <1>2, ScopesCheckParam, ScopesEndParams, ScopesRegisterIndices, ScopesCheckWhere,
     ScopesCheckRhs, ScopesDefine, ScopesCheckEquivalent, ScopesFinish DEF Next, Stop

LEMMA ScopesAlways == Spec => []ScopesInv
BY ScopesInit, ScopesStep, PTL DEF Spec

\* The reduction variables of an accepted statement are the names it uses with
\* no meaning where they are met, each once and in that order
\* (lookupVarOrCreateIndex, checkLet, the clearing at the end of checkStmt), for
\* every function: nothing leaks in from the scope of another statement.
THEOREM ReductionsCorrect == Spec => []ReductionsExact
<1>1. ScopesInv => ReductionsExact
  BY DEF ScopesInv, Past, Checked, ReductionsExact
<1> QED
  BY <1>1, ScopesAlways, PTL

\* The tensors an accepted statement reads keep the rank it was checked with,
\* whatever is defined later (insert, lookup, checkExp).
THEOREM ReadsTyped == Spec => []ReadsStayTyped
<1>1. ScopesInv => ReadsStayTyped
  BY DEF ScopesInv, Past, Checked, ReadOk, ReadsStayTyped
<1> QED
  BY <1>1, ScopesAlways, PTL

\* The warning of an in-place reduction is printed exactly when lookup cannot
\* find the output (isUninitializedReductionOperation).
THEOREM WarningsCorrect == Spec => []WarnedExact
<1>1. ScopesInv => WarnedExact
  <2> SUFFICES ASSUME ScopesInv, NEW n \in DOMAIN statements
               PROVE  LET st == func.stmts[n]
                          before == {u \in Uses(st) : u.at[1] <= Len(st.where) + 1}
                          captured == st.name \in Range(st.indices) \cup Lets(st, Len(st.where) + 1)
                                                    \cup {u.node.name : u \in before}
                      IN  statements[n].warned <=>
                            (InPlace(st.assign) /\ st.name \notin Globals(n) /\ ~captured)
    BY DEF WarnedExact
  <2>1. WarnedAs(n, statements[n].warned)
    BY DEF ScopesInv, Past, Checked
  <2> QED
    BY <2>1 DEF WarnedAs, Captured
<1> QED
  BY <1>1, ScopesAlways, PTL

\* A type that match_types leaves alone can hold the other.
LEMMA MatchedFits ==
  ASSUME NEW a, NEW b, MatchTypes(a, b) = b
  PROVE  Fits(a, b)
<1>1. \A t : /\ Code(t) \in {"Float", "Int", "UInt"} /\ Bits(t) \in {1, 8, 16, 32, 64}
             /\ Bits(t) = 1 => Code(t) = "UInt"
  BY DEF Code, Bits, Floats, Ints
<1>2. CASE SameInfo(a, b) \/ Code(a) = "Float" \/ Code(b) = "Float"
  BY <1>1, <1>2 DEF SameInfo, MatchTypes, Fits, Wider
<1>3. CASE ~SameInfo(a, b) /\ Code(a) = "UInt" /\ Code(b) = "UInt"
  BY <1>1, <1>3 DEF SameInfo, MatchTypes, Fits, Wider
<1>4. CASE /\ ~SameInfo(a, b) /\ Code(a) # "Float" /\ Code(b) # "Float"
           /\ ~(Code(a) = "UInt" /\ Code(b) = "UInt")
  <2>1. /\ Bits(Wider(a, b)) \in {8, 16, 32, 64}
        /\ Bits(Wider(a, b)) >= Bits(a) /\ Bits(Wider(a, b)) >= Bits(b)
    BY <1>1, <1>4 DEF Wider
  <2>2. b = IntToken(Bits(Wider(a, b)))
    BY <1>1, <1>4 DEF MatchTypes
  <2>3. Code(b) = "Int" /\ Bits(b) = Bits(Wider(a, b))
    BY <2>1, <2>2, IntTokens
  <2> QED
    BY <1>4, <2>1, <2>3 DEF Fits
<1> QED
  BY <1>1, <1>2, <1>3, <1>4

\* An accepted statement of an annotated output has the declared rank and a
\* right-hand side the declared type can hold (checkStmt), for every function.
THEOREM AnnotationsCorrect == Spec => []AnnotationRespected
<1>1. ScopesInv => AnnotationRespected
  <2> SUFFICES ASSUME ScopesInv, NEW n \in DOMAIN statements, Annotated(statements[n].name)
               PROVE  /\ Len(func.stmts[n].indices) = Annotation(statements[n].name).rank
                      /\ Fits(statements[n].type, Annotation(statements[n].name).scalar)
    BY DEF AnnotationRespected
  <2> DEFINE type == statements[n].type
             tt == Annotation(statements[n].name)
  <2>1. AnnotationOk(statements[n].name, type, Len(func.stmts[n].indices))
    BY DEF ScopesInv, Past, Checked
  <2>2. MatchTypes(type, tt.scalar) = tt.scalar /\ tt.rank = Len(func.stmts[n].indices)
    BY <2>1 DEF AnnotationOk
  <2> HIDE DEF type, tt
  <2>3. Fits(type, tt.scalar)
    BY <2>2, MatchedFits
  <2> QED
    BY <2>2, <2>3 DEF type, tt
<1> QED
  BY <1>1, ScopesAlways, PTL

\* The other way: match_types leaves a type alone that can hold the other, unless the
\* other is the same type by another name.
LEMMA FitsMatched ==
  ASSUME NEW a, NEW b, Fits(a, b), SameInfo(a, b) => a = b
  PROVE  MatchTypes(a, b) = b
<1>1. \A t : Code(t) \in {"Float", "Int", "UInt"} /\ Bits(t) \in {1, 8, 16, 32, 64}
  BY DEF Code, Bits
<1>2. CASE SameInfo(a, b)
  BY <1>2 DEF MatchTypes
<1>3. CASE ~SameInfo(a, b) /\ (Code(b) = "Float" \/ Code(b) = "UInt")
  BY <1>1, <1>3 DEF SameInfo, MatchTypes, Fits, Wider
<1>4. CASE ~SameInfo(a, b) /\ Code(b) = "Int"
  <2>1. Code(a) # "Float" /\ Bits(Wider(a, b)) = Bits(b)
    BY <1>1, <1>4 DEF Fits, Wider
  <2>2. MatchTypes(a, b) = IntToken(Bits(b))
    <3>1. Code(a) = "Int" \/ Code(a) # Code(b)
      BY <1>4
    <3> QED
      BY <1>4, <2>1, <3>1 DEF MatchTypes
  <2>3. b \in Ints
    BY <1>4 DEF Code
  <2>4. IntToken(Bits(b)) = b
    <3>1. \A t \in Ints : Bits(t) = Bits(b) => t = b
      BY <2>3 DEF Bits, Ints
    <3> QED
      BY <2>3, <3>1 DEF IntToken
  <2> QED
    BY <2>2, <2>4
<1> QED
  BY <1>1, <1>2, <1>3, <1>4

\* A right-hand side is refused for its annotation only if it is of another rank, of
\* half precision or too wide, or the same type by another name (checkStmt), for every
\* function.
THEOREM RefusalsCorrect == Spec => RefusedOnlyNarrower
<1> DEFINE s  == CheckExp(Scope, stmt.rhs, TRUE)
           t  == TypeOfExpr(s)
           tt == Annotation(stmt.name)
           Reason == \/ tt.rank # Len(stmt.indices)
                     \/ ~Supported(t) \/ ~Supported(tt.scalar)
                     \/ ~Fits(t, tt.scalar)
                     \/ SameInfo(t, tt.scalar) /\ t # tt.scalar
<1>1. CheckRhs /\ s.ok /\ phase' = "thrown" => Reason
  <2> SUFFICES ASSUME CheckRhs, s.ok, phase' = "thrown", ~Reason PROVE FALSE
    OBVIOUS
  <2>1. ~AnnotationOk(stmt.name, t, Len(stmt.indices))
    BY DEF CheckRhs
  <2>2. MatchTypes(t, tt.scalar) = tt.scalar
    BY FitsMatched
  <2>3. Joinable(<<t, tt.scalar>>)
    <3>1. Supported(t) /\ Supported(tt.scalar)
      OBVIOUS
    <3>2. \A a, b : Supported(a) /\ Supported(b) => Joinable(<<a, b>>)
      BY DEF Joinable
    <3> QED
      BY <3>1, <3>2
  <2> QED
    BY <2>1, <2>2, <2>3 DEF AnnotationOk
<1>2. [Next]_vars => [CheckRhs /\ s.ok /\ phase' = "thrown" => Reason]_vars
  BY <1>1
<1> QED
  BY <1>2, PTL DEF Spec, RefusedOnlyNarrower

-------------------------------------------------------------------------------
\* Types of what the variables hold.

TypedVars ==
  /\ \A x \in DOMAIN env : env[x].kind \in {"scalar", "tensor"} /\ env[x].scalar \in Scalars
  /\ \A x \in DOMAIN let_env : let_env[x].scalar \in Scalars
  /\ \A x \in DOMAIN index_env : index_env[x] = Scalar("int32")
  /\ rhsType \in Scalars \cup {"none"} /\ warned \in BOOLEAN
  /\ phase \in {"define", "equivalent", "finish"} => rhsType \in Scalars
  /\ \A n \in DOMAIN statements : statements[n].type \in Scalars

Phases == {"params", "indices", "where", "define", "equivalent", "finish"}

TypesInv == TypeOK /\ TypedVars

\* The rest of TypeOK follows from the scopes.
LEMMA TypeOKFrom == ScopesInv /\ TypedVars /\ phase \in Phases => TypesInv
<1> SUFFICES ASSUME ScopesInv, TypedVars, phase \in Phases PROVE TypesInv
  OBVIOUS
<1>1. Listed(func.params) /\ Listed(func.stmts)
  BY StmtFacts DEF ScopesInv, Past
<1>2. at \in 1..(1 + Len(func.params) + Len(func.stmts))
  <2> DEFINE a == Len(func.params)
             b == Len(func.stmts)
  <2>1. a \in Nat /\ b \in Nat /\ DOMAIN func.stmts = 1..b
    BY <1>1 DEF Listed
  <2>0. (phase = "params" => at \in 1..(a + 1)) /\ (phase = "indices" => at \in 1..(b + 1))
    BY DEF ScopesInv, Present
  <2> HIDE DEF a, b
  <2>5. at \in 1..(1 + a + b)
    <3>1. CASE phase = "params"
      BY <2>0, <2>1, <3>1
    <3>2. CASE phase = "indices"
      BY <2>0, <2>1, <3>2
    <3>3. CASE phase \in {"where", "define", "equivalent", "finish"}
      <4>1. at \in DOMAIN func.stmts
        BY <3>3 DEF ScopesInv, Present, AtStmt
      <4> QED
        BY <2>1, <4>1
    <3> QED
      BY <3>1, <3>2, <3>3 DEF Phases
  <2> QED
    BY <2>5 DEF a, b
<1>3. IsInjective(reduction_variables) /\ Range(reduction_variables) \subseteq DOMAIN index_env
  <2>1. CASE Cleared
    <3>1. reduction_variables = <<>>
      BY <2>1 DEF Cleared
    <3> QED
      BY <3>1 DEF IsInjective, Range
  <2>2. ASSUME NEW k, ScopeAt(k)
        PROVE  IsInjective(reduction_variables) /\ Range(reduction_variables) \subseteq DOMAIN index_env
    BY <2>2 DEF ScopeAt, Consistent, Scope, InOrder
  <2>3. Cleared \/ \E k : ScopeAt(k)
    BY DEF ScopesInv, Present, Phases
  <2> QED
    BY <2>1, <2>2, <2>3
<1> QED
  BY <1>2, <1>3 DEF TypesInv, TypeOK, TypedVars, Phases

LEMMA TypesInit == Init => TypesInv
<1> SUFFICES ASSUME Init PROVE TypesInv
  OBVIOUS
<1>0. statements = <<>> /\ DOMAIN statements = {}
  BY DEF Init
<1>1. TypedVars /\ phase \in Phases
  BY <1>0 DEF Init, TypedVars, Empty, Phases
<1> QED
  BY <1>1, ScopesInit, TypeOKFrom

LEMMA TypesThrow ==
  ASSUME TypesInv, Throw
  PROVE  TypesInv'
BY DEF Throw, TypesInv, TypeOK, TypedVars, perStatement

LEMMA ScopeTyped ==
  ASSUME TypesInv
  PROVE  TypedScope(Scope)
<1>1. IsScope(Scope)
  BY DEF IsScope, Scope
<1> QED
  BY <1>1 DEF TypedScope, TypesInv, TypedVars, Scope

\* A step that enters a typed scope.
LEMMA TypedEnter ==
  ASSUME TypesInv, NEW t, TypedScope(t), Enter(t), env' = env, warned' = warned, statements' = statements,
         rhsType' = rhsType \/ rhsType' \in Scalars,
         phase' \in {"define", "equivalent", "finish"} => rhsType' \in Scalars
  PROVE  TypedVars'
BY DEF Enter, TypedScope, TypesInv, TypedVars

LEMMA EmplaceTyped ==
  ASSUME NEW e, NEW xs, NEW v, v.kind \in {"scalar", "tensor"}, v.scalar \in Scalars,
         \A x \in DOMAIN e : e[x].kind \in {"scalar", "tensor"} /\ e[x].scalar \in Scalars
  PROVE  \A x \in DOMAIN Emplace(e, xs, v) :
            /\ Emplace(e, xs, v)[x].kind \in {"scalar", "tensor"}
            /\ Emplace(e, xs, v)[x].scalar \in Scalars
BY DEF Emplace

LEMMA TypesStep == ScopesInv /\ ScopesInv' /\ TypesInv /\ [Next]_vars => TypesInv'
<1> SUFFICES ASSUME ScopesInv, ScopesInv', TypesInv, [Next]_vars PROVE TypesInv'
  OBVIOUS
<1>0. "int32" \in Scalars /\ Scalar("int32").kind = "scalar" /\ Scalar("int32").scalar = "int32"
  BY DEF Scalars, Ints, Scalar
<1>000. ScopesInv' /\ TypedVars' /\ (phase \in Phases)' => TypesInv'
  BY TypeOKFrom, PTL
<1>00. TypedVars' /\ phase' \in Phases => TypesInv'
  BY <1>000 DEF Phases
<1>1. CASE CheckParam /\ ~Throw
  <2> DEFINE p == func.params[at]
             withDims == Emplace(env, Range(p.dims), Scalar("int32"))
  <2>1. /\ phase = "params" /\ at \in DOMAIN func.params /\ p.type # Inferred
        /\ env' = Emplace(withDims, {p.name}, p.type)
        /\ UNCHANGED <<phase, index_env, let_env, rhsType, warned, statements>>
    BY <1>1 DEF CheckParam, perStatement
  <2>2. p.type.kind = "tensor" /\ p.type.scalar \in Scalars
    <3>1. IsParam(p)
      BY <2>1, FunctionsAssumption DEF ScopesInv, Past
    <3> QED
      BY <2>1, <3>1 DEF IsParam, Inferred
  <2> HIDE DEF p
  <2>3. \A x \in DOMAIN env' : env'[x].kind \in {"scalar", "tensor"} /\ env'[x].scalar \in Scalars
    <3>1. \A x \in DOMAIN withDims : withDims[x].kind \in {"scalar", "tensor"} /\ withDims[x].scalar \in Scalars
      BY <1>0, EmplaceTyped DEF TypesInv, TypedVars
    <3> HIDE DEF withDims
    <3> QED
      BY <2>1, <2>2, <3>1, EmplaceTyped
  <2>4. TypedVars'
    BY <2>1, <2>3 DEF TypesInv, TypedVars
  <2> QED
    BY <1>00, <2>1, <2>4 DEF Phases
<1>2. CASE EndParams
  <2>1. phase' = "indices" /\ UNCHANGED <<env, index_env, let_env, rhsType, warned, statements>>
    BY <1>2 DEF EndParams, perStatement
  <2> QED
    BY <1>00, <2>1 DEF TypesInv, TypedVars, Phases
<1>3. CASE RegisterIndices /\ ~Throw
  <2>1. /\ phase' = "where" /\ UNCHANGED <<env, let_env, rhsType, warned, statements>>
        /\ index_env' = Emplace(index_env, Range(stmt.indices), Scalar("int32"))
    BY <1>3 DEF RegisterIndices
  <2>2. \A x \in DOMAIN index_env' : index_env'[x] = Scalar("int32")
    BY <2>1 DEF TypesInv, TypedVars, Emplace
  <2> QED
    BY <1>00, <2>1, <2>2 DEF TypesInv, TypedVars, Phases
<1>4. CASE CheckWhere /\ ~Throw
  <2> DEFINE t == CheckWhereClause(stmt.where[clause])
  <2>1. /\ phase = "where" /\ clause \in DOMAIN stmt.where /\ t.ok /\ Enter(t)
        /\ UNCHANGED <<phase, env, rhsType, warned, statements>>
    BY <1>4 DEF CheckWhere
  <2>2. IsClause(stmt.where[clause])
    BY <2>1, StmtFacts DEF ScopesInv, Past, Present, AtStmt, stmt
  <2>3. TypedScope(t)
    BY <2>1, <2>2, ScopeTyped, CheckWhereTyped
  <2> HIDE DEF t
  <2> QED
    BY <1>00, <2>1, <2>3, TypedEnter DEF Phases
<1>5. CASE CheckRhs /\ ~Throw
  <2> DEFINE t == CheckExp(Scope, stmt.rhs, TRUE)
  <2>1. /\ phase = "where" /\ t.ok /\ Enter(t) /\ phase' = "define" /\ rhsType' = TypeOfExpr(t)
        /\ UNCHANGED <<env, warned, statements>>
    BY <1>5 DEF CheckRhs
  <2>2. IsExp(stmt.rhs)
    BY <2>1, FunctionsAssumption DEF ScopesInv, Past, Present, AtStmt, stmt, IsStmt
  <2>3. TypedScope(t) /\ TypeOfExpr(t) \in Scalars
    BY <2>1, <2>2, ScopeTyped, CheckExpTyped
  <2> HIDE DEF t
  <2> QED
    BY <1>00, <2>1, <2>3, TypedEnter DEF Phases
<1>6. CASE Define /\ ~Throw
  <2> DEFINE type == Tensor(rhsType, Len(stmt.indices))
  <2>1. /\ phase = "define" /\ phase' = "equivalent" /\ warned' = Warns
        /\ env' = Emplace(env, {stmt.name}, type)
        /\ UNCHANGED <<index_env, let_env, rhsType, statements>>
    BY <1>6 DEF Define
  <2>2. type.kind = "tensor" /\ type.scalar \in Scalars
    BY <2>1 DEF Tensor, TypesInv, TypedVars
  <2> HIDE DEF type
  <2>3. \A x \in DOMAIN env' : env'[x].kind \in {"scalar", "tensor"} /\ env'[x].scalar \in Scalars
    BY <2>1, <2>2, EmplaceTyped DEF TypesInv, TypedVars
  <2>4. Warns \in BOOLEAN
    BY DEF Warns, InPlace, Known
  <2> QED
    BY <1>00, <2>1, <2>3, <2>4 DEF TypesInv, TypedVars, Phases
<1>7. CASE CheckEquivalent /\ ~Throw
  <2> DEFINE t == CheckExps(Scope, stmt.equivalent)
  <2>1. /\ phase = "equivalent" /\ t.ok /\ Enter(t) /\ phase' = "finish"
        /\ UNCHANGED <<env, rhsType, warned, statements>>
    BY <1>7 DEF CheckEquivalent
  <2>2. IsList(stmt.equivalent) /\ \A e \in DOMAIN stmt.equivalent : IsExp(stmt.equivalent[e])
    BY <2>1, FunctionsAssumption DEF ScopesInv, Past, Present, AtStmt, stmt, IsStmt
  <2>3. TypedScope(t) /\ rhsType \in Scalars
    BY <2>1, <2>2, ScopeTyped, CheckExpsTyped DEF TypesInv, TypedVars
  <2> HIDE DEF t
  <2> QED
    BY <1>00, <2>1, <2>3, TypedEnter DEF Phases
<1>8. CASE Finish /\ ~Throw
  <2> DEFINE checked == [name |-> stmt.name, assign |-> stmt.assign, type |-> rhsType,
                         warned |-> warned, reductionVariables |-> reduction_variables]
  <2>1. /\ phase = "finish" /\ statements' = Append(statements, checked)
        /\ phase' = "indices" /\ env' = env /\ index_env' = Empty /\ let_env' = Empty
        /\ rhsType' = "none" /\ warned' = FALSE
    BY <1>8 DEF Finish, LeaveScope
  <2>2. DOMAIN Empty = {}
    BY DEF Empty
  <2>3. checked.type \in Scalars
    BY <2>1 DEF TypesInv, TypedVars
  <2> HIDE DEF checked
  <2>4. \A n \in DOMAIN statements' : statements'[n].type \in Scalars
    <3>1. statements \in Seq(Range(statements))
      BY DEF ScopesInv, Past, IsList
    <3> QED
      BY <2>1, <2>3, <3>1 DEF TypesInv, TypedVars
  <2> QED
    BY <1>00, <2>1, <2>2, <2>4 DEF TypesInv, TypedVars, Phases
<1>9. CASE CheckReturns /\ ~Throw
  <2>1. phase' = "done" /\ UNCHANGED <<func, at, env, perStatement, statements>>
    BY <1>9 DEF CheckReturns
  <2> QED
    BY <2>1 DEF TypesInv, TypeOK, TypedVars, perStatement
<1>10. CASE UNCHANGED vars
  BY <1>10 DEF TypesInv, TypeOK, TypedVars, vars, perStatement
<1>11. CASE Throw
  BY <1>11, TypesThrow
<1> QED
  BY <1>1, <1>2, <1>3, <1>4, <1>5, <1>6, <1>7, <1>8, <1>9, <1>10, <1>11 DEF Next, Stop

\* Every name in scope has a type, every accepted statement a scalar one,
\* and no name is listed twice as a reduction variable, for every well-formed
\* function (checkFunction and what it calls).
THEOREM SemaTypes == Spec => []TypeOK
<1>1. Spec => []TypesInv
  BY ScopesAlways, TypesInit, TypesStep, PTL DEF Spec
<1>2. TypesInv => TypeOK
  BY DEF TypesInv
<1> QED
  BY <1>1, <1>2, PTL
===============================================================================
