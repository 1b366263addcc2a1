-------------------------- MODULE RecogniserProofs ---------------------------
(***************************************************************************)
(* What the recognisers take and what they print, for every statement.     *)
(* Contractions: the walk over a product unfolds into three equations      *)
(* between index names, which are those of the definition of a matrix      *)
(* product.  Views: the loops of getOrdering, composeGroup and             *)
(* getReshapeMap unfold into a permutation of the layout and into the text *)
(* of the map, and the text is compared with what the statement asks for.  *)
(***************************************************************************)
EXTENDS Views, Builders, SequenceTheorems, DataInduction, FiniteSetTheorems

Roles == {"A", "B", "i", "j", "k"}

\* A context given by what each role holds.
Ctx(a, b, i, j, k) ==
  [r \in Roles |-> IF r = "A" THEN a ELSE IF r = "B" THEN b
                   ELSE IF r = "i" THEN i ELSE IF r = "j" THEN j ELSE k]

\* The walk over the arguments of an access, unfolded.
LEMMA MatchAccessSteps ==
  ASSUME NEW ctx, NEW t, NEW array, NEW roles, Len(roles) \in Nat
  PROVE  \E f : /\ f[0] = ctx
                /\ \A p \in 1..Len(roles) : f[p] = Bind(f[p - 1], roles[p], t.args[p].name)
                /\ MatchAccess(ctx, t, array, roles)
                     = IF t.kind = "apply" /\ Len(t.args) = Len(roles) /\ IdentArgs(t)
                       THEN Bind(f[Len(roles)], array, t.name) ELSE Failed
<1> DEFINE Steps(f, n) ==
             f = [p \in 0..n |-> IF p = 0 THEN ctx ELSE Bind(f[p - 1], roles[p], t.args[p].name)]
           T == {n \in Nat : \E f : Steps(f, n)}
<1>1. 0 \in T
  <2>1. Steps([p \in 0..0 |-> ctx], 0)
    OBVIOUS
  <2> QED
    BY <2>1
<1>2. ASSUME NEW n \in Nat, n \in T PROVE n + 1 \in T
  <2>1. PICK f : Steps(f, n)
    BY <1>2
  <2> DEFINE g == [p \in 0..(n + 1) |->
                     IF p <= n THEN f[p] ELSE Bind(f[n], roles[p], t.args[p].name)]
  <2>2. Steps(g, n + 1)
    <3> SUFFICES ASSUME NEW p \in 0..(n + 1)
                 PROVE  g[p] = IF p = 0 THEN ctx ELSE Bind(g[p - 1], roles[p], t.args[p].name)
      OBVIOUS
    <3>1. CASE p <= n
      BY <2>1, <3>1
    <3>2. CASE p = n + 1
      BY <2>1, <3>2
    <3> QED
      BY <3>1, <3>2
  <2> HIDE DEF g, Steps
  <2>3. \E h : Steps(h, n + 1)
    BY <2>2
  <2> QED
    BY <2>3
<1>3. \E f : Steps(f, Len(roles))
  <2> HIDE DEF Steps
  <2> QED
    BY <1>1, <1>2, Induction
<1> DEFINE h == CHOOSE h : Steps(h, Len(roles))
<1>4. Steps(h, Len(roles))
  BY <1>3
<1>5. MatchAccess(ctx, t, array, roles)
        = IF t.kind = "apply" /\ Len(t.args) = Len(roles) /\ IdentArgs(t)
          THEN Bind(h[Len(roles)], array, t.name) ELSE Failed
  BY DEF MatchAccess
<1> HIDE DEF h
<1> QED
  BY <1>4, <1>5

\* Of a matrix and of a vector.
LEMMA MatchMatrix ==
  ASSUME NEW ctx, NEW t, NEW array, NEW r1, NEW r2
  PROVE  MatchAccess(ctx, t, array, <<r1, r2>>)
           = IF t.kind = "apply" /\ Len(t.args) = 2 /\ IdentArgs(t)
             THEN Bind(Bind(Bind(ctx, r1, t.args[1].name), r2, t.args[2].name), array, t.name)
             ELSE Failed
<1> DEFINE roles == <<r1, r2>>
<1>1. Len(roles) = 2 /\ roles[1] = r1 /\ roles[2] = r2
  OBVIOUS
<1> HIDE DEF roles
<1>0. Len(roles) \in Nat
  BY <1>1
<1>2. PICK f : /\ f[0] = ctx
               /\ \A p \in 1..Len(roles) : f[p] = Bind(f[p - 1], roles[p], t.args[p].name)
               /\ MatchAccess(ctx, t, array, roles)
                    = IF t.kind = "apply" /\ Len(t.args) = Len(roles) /\ IdentArgs(t)
                      THEN Bind(f[Len(roles)], array, t.name) ELSE Failed
  BY ONLY <1>0, MatchAccessSteps
<1>3. f[1] = Bind(ctx, r1, t.args[1].name)
  BY <1>1, <1>2
<1>4. f[2] = Bind(f[1], r2, t.args[2].name)
  BY <1>1, <1>2
<1> QED
  BY <1>1, <1>2, <1>3, <1>4 DEF roles

LEMMA MatchVector ==
  ASSUME NEW ctx, NEW t, NEW array, NEW r1
  PROVE  MatchAccess(ctx, t, array, <<r1>>)
           = IF t.kind = "apply" /\ Len(t.args) = 1 /\ IdentArgs(t)
             THEN Bind(Bind(ctx, r1, t.args[1].name), array, t.name)
             ELSE Failed
<1> DEFINE roles == <<r1>>
<1>1. Len(roles) = 1 /\ roles[1] = r1
  OBVIOUS
<1> HIDE DEF roles
<1>0. Len(roles) \in Nat
  BY <1>1
<1>2. PICK f : /\ f[0] = ctx
               /\ \A p \in 1..Len(roles) : f[p] = Bind(f[p - 1], roles[p], t.args[p].name)
               /\ MatchAccess(ctx, t, array, roles)
                    = IF t.kind = "apply" /\ Len(t.args) = Len(roles) /\ IdentArgs(t)
                      THEN Bind(f[Len(roles)], array, t.name) ELSE Failed
  BY ONLY <1>0, MatchAccessSteps
<1>3. f[1] = Bind(ctx, r1, t.args[1].name)
  BY <1>1, <1>2
<1> QED
  BY <1>1, <1>2, <1>3 DEF roles

\* Binding a role.
LEMMA BindFailed ==
  ASSUME NEW r, NEW v
  PROVE  Bind(Failed, r, v) = Failed
BY DEF Bind, Matched

LEMMA BindRole ==
  ASSUME NEW a, NEW b, NEW i, NEW j, NEW k, NEW v
  PROVE  /\ Bind(Ctx(a, b, i, j, k), "A", v)
              = IF a \in {Unassigned, v} THEN Ctx(v, b, i, j, k) ELSE Failed
         /\ Bind(Ctx(a, b, i, j, k), "B", v)
              = IF b \in {Unassigned, v} THEN Ctx(a, v, i, j, k) ELSE Failed
         /\ Bind(Ctx(a, b, i, j, k), "i", v)
              = IF i \in {Unassigned, v} THEN Ctx(a, b, v, j, k) ELSE Failed
         /\ Bind(Ctx(a, b, i, j, k), "j", v)
              = IF j \in {Unassigned, v} THEN Ctx(a, b, i, v, k) ELSE Failed
         /\ Bind(Ctx(a, b, i, j, k), "k", v)
              = IF k \in {Unassigned, v} THEN Ctx(a, b, i, j, v) ELSE Failed
<1>1. Ctx(a, b, i, j, k) # Failed
  <2>1. DOMAIN Ctx(a, b, i, j, k) = Roles /\ DOMAIN Failed = {}
    BY DEF Ctx, Failed
  <2> QED
    BY <2>1 DEF Roles
<1>2. /\ Assign(Ctx(a, b, i, j, k), "A", v) = Ctx(v, b, i, j, k)
      /\ Assign(Ctx(a, b, i, j, k), "B", v) = Ctx(a, v, i, j, k)
      /\ Assign(Ctx(a, b, i, j, k), "i", v) = Ctx(a, b, v, j, k)
      /\ Assign(Ctx(a, b, i, j, k), "j", v) = Ctx(a, b, i, v, k)
      /\ Assign(Ctx(a, b, i, j, k), "k", v) = Ctx(a, b, i, j, v)
  BY DEF Assign, Ctx, Roles
<1>3. /\ Ctx(a, b, i, j, k)["A"] = a /\ Ctx(a, b, i, j, k)["B"] = b
      /\ Ctx(a, b, i, j, k)["i"] = i /\ Ctx(a, b, i, j, k)["j"] = j
      /\ Ctx(a, b, i, j, k)["k"] = k
  BY DEF Ctx, Roles
<1> QED
  BY <1>1, <1>2, <1>3 DEF Bind, Matched, CanAssign

LEMMA FreeCtx == Free = Ctx(Unassigned, Unassigned, Unassigned, Unassigned, Unassigned)
BY DEF Free, Ctx, Roles
-------------------------------------------------------------------------------
\* An access of n plain indices, and its names, none of which is the reserved one.
AccessOf(t, n) == t.kind = "apply" /\ Len(t.args) = n /\ IdentArgs(t)
Named(t) == t.kind = "apply" =>
              /\ IsSeq(t.args) /\ t.name # Unassigned
              /\ \A p \in DOMAIN t.args : t.args[p].kind = "ident" => t.args[p].name # Unassigned

LEMMA AccessNames ==
  ASSUME NEW t, Named(t), NEW n \in {1, 2}, AccessOf(t, n)
  PROVE  /\ t.name # Unassigned /\ \A p \in 1..n : t.args[p].name # Unassigned
         /\ ArgNames(t) = [p \in 1..n |-> t.args[p].name] /\ Len(ArgNames(t)) = n
<1>1. DOMAIN t.args = 1..n
  BY DEF IsSeq, AccessOf, Named
<1>2. ArgNames(t) = [p \in 1..n |-> t.args[p].name]
  BY <1>1 DEF ArgNames
<1>3. ArgNames(t) \in Seq({t.args[p].name : p \in 1..n}) /\ Len(ArgNames(t)) = n
  BY <1>2
<1> QED
  BY <1>1, <1>2, <1>3 DEF AccessOf, Named, IdentArgs

\* The walk over the product of two matrices.
First(trans)  == IF trans = "T" THEN 2 ELSE 1
Second(trans) == IF trans = "T" THEN 1 ELSE 2

LEMMA MatMulWalk ==
  ASSUME NEW t, NEW ta \in {"N", "T"}, NEW tb \in {"N", "T"},
         NEW x, NEW y, t.kids[1] = x, t.kids[2] = y,
         Named(x), Named(y)
  PROVE  MatchProduct(t, GemmA(ta), GemmB(tb))
           = IF /\ t.kind = "*" /\ AccessOf(x, 2) /\ AccessOf(y, 2)
                /\ x.args[Second(ta)].name = y.args[First(tb)].name
             THEN Ctx(x.name, y.name, x.args[First(ta)].name, y.args[Second(tb)].name,
                      x.args[Second(ta)].name)
             ELSE Failed
<1> DEFINE u == Unassigned
           ca == IF AccessOf(x, 2)
                 THEN Ctx(x.name, u, x.args[First(ta)].name, u, x.args[Second(ta)].name)
                 ELSE Failed
<1>1. MatchAccess(Free, x, "A", GemmA(ta)) = ca
  <2>1. CASE ta = "T"
    <3>1. GemmA(ta) = <<"k", "i">> /\ First(ta) = 2 /\ Second(ta) = 1
      BY <2>1 DEF GemmA, First, Second
    <3> QED
      BY <3>1, MatchMatrix, BindRole, FreeCtx DEF AccessOf
  <2>2. CASE ta = "N"
    <3>1. GemmA(ta) = <<"i", "k">> /\ First(ta) = 1 /\ Second(ta) = 2
      BY <2>2 DEF GemmA, First, Second
    <3> QED
      BY <3>1, MatchMatrix, BindRole, FreeCtx DEF AccessOf
  <2> QED
    BY <2>1, <2>2
<1>2. MatchAccess(ca, y, "B", GemmB(tb))
        = IF AccessOf(x, 2) /\ AccessOf(y, 2) /\ x.args[Second(ta)].name = y.args[First(tb)].name
          THEN Ctx(x.name, y.name, x.args[First(ta)].name, y.args[Second(tb)].name,
                   x.args[Second(ta)].name)
          ELSE Failed
  <2>1. CASE AccessOf(x, 2)
    <3> DEFINE i == x.args[First(ta)].name
               k == x.args[Second(ta)].name
    <3>1. i # u /\ k # u
      BY <2>1, AccessNames DEF First, Second
    <3>2. ca = Ctx(x.name, u, i, u, k)
      BY <2>1
    <3> HIDE DEF i, k, ca
    <3>3. CASE tb = "T"
      <4>1. GemmB(tb) = <<"j", "k">> /\ First(tb) = 2 /\ Second(tb) = 1
        BY <3>3 DEF GemmB, First, Second
      <4> DEFINE y1 == y.args[1].name
                 y2 == y.args[2].name
      <4>2. MatchAccess(ca, y, "B", GemmB(tb))
              = IF AccessOf(y, 2) THEN Bind(Bind(Bind(ca, "j", y1), "k", y2), "B", y.name) ELSE Failed
        BY <4>1, MatchMatrix DEF AccessOf
      <4>3. Bind(ca, "j", y1) = Ctx(x.name, u, i, y1, k)
        BY <3>2, BindRole
      <4>4. Bind(Bind(ca, "j", y1), "k", y2) = IF k = y2 THEN Ctx(x.name, u, i, y1, k) ELSE Failed
        BY <3>1, <4>3, BindRole
      <4>5. Bind(Bind(Bind(ca, "j", y1), "k", y2), "B", y.name)
              = IF k = y2 THEN Ctx(x.name, y.name, i, y1, k) ELSE Failed
        BY <4>4, BindRole, BindFailed
      <4> QED
        BY <2>1, <4>1, <4>2, <4>5 DEF i, k
    <3>4. CASE tb = "N"
      <4>1. GemmB(tb) = <<"k", "j">> /\ First(tb) = 1 /\ Second(tb) = 2
        BY <3>4 DEF GemmB, First, Second
      <4> DEFINE y1 == y.args[1].name
                 y2 == y.args[2].name
      <4>2. MatchAccess(ca, y, "B", GemmB(tb))
              = IF AccessOf(y, 2) THEN Bind(Bind(Bind(ca, "k", y1), "j", y2), "B", y.name) ELSE Failed
        BY <4>1, MatchMatrix DEF AccessOf
      <4>3. Bind(ca, "k", y1) = IF k = y1 THEN Ctx(x.name, u, i, u, k) ELSE Failed
        BY <3>1, <3>2, BindRole
      <4>4. Bind(Bind(ca, "k", y1), "j", y2) = IF k = y1 THEN Ctx(x.name, u, i, y2, k) ELSE Failed
        BY <4>3, BindRole, BindFailed
      <4>5. Bind(Bind(Bind(ca, "k", y1), "j", y2), "B", y.name)
              = IF k = y1 THEN Ctx(x.name, y.name, i, y2, k) ELSE Failed
        BY <4>4, BindRole, BindFailed
      <4> QED
        BY <2>1, <4>1, <4>2, <4>5 DEF i, k
    <3> QED
      BY <3>3, <3>4
  <2>2. CASE ~AccessOf(x, 2)
    <3>1. ca = Failed
      BY <2>2
    <3>2. GemmB(tb) = <<"j", "k">> \/ GemmB(tb) = <<"k", "j">>
      BY DEF GemmB
    <3>3. MatchAccess(ca, y, "B", GemmB(tb)) = Failed
      BY <3>1, <3>2, MatchMatrix, BindFailed
    <3> QED
      BY <2>2, <3>3
  <2> QED
    BY <2>1, <2>2
<1> HIDE DEF ca
<1>3. MatchProduct(t, GemmA(ta), GemmB(tb))
        = IF t.kind # "*" THEN Failed ELSE MatchAccess(ca, y, "B", GemmB(tb))
  BY <1>1 DEF MatchProduct
<1> QED
  BY <1>2, <1>3

\* The walk over the product of a matrix and a vector.
VecRoles(trans) == IF trans = "T" THEN <<"j", "i">> ELSE <<"i", "j">>

LEMMA MatVecWalk ==
  ASSUME NEW t, NEW ta \in {"N", "T"},
         NEW x, NEW y, t.kids[1] = x, t.kids[2] = y,
         Named(x), Named(y)
  PROVE  MatchProduct(t, VecRoles(ta), <<"j">>)
           = IF /\ t.kind = "*" /\ AccessOf(x, 2) /\ AccessOf(y, 1)
                /\ x.args[Second(ta)].name = y.args[1].name
             THEN Ctx(x.name, y.name, x.args[First(ta)].name, y.args[1].name, Unassigned)
             ELSE Failed
<1> DEFINE u == Unassigned
           ca == IF AccessOf(x, 2)
                 THEN Ctx(x.name, u, x.args[First(ta)].name, x.args[Second(ta)].name, u)
                 ELSE Failed
           y1 == y.args[1].name
<1>1. MatchAccess(Free, x, "A", VecRoles(ta)) = ca
  <2>1. CASE ta = "T"
    <3>1. VecRoles(ta) = <<"j", "i">> /\ First(ta) = 2 /\ Second(ta) = 1
      BY <2>1 DEF VecRoles, First, Second
    <3> QED
      BY <3>1, MatchMatrix, BindRole, FreeCtx DEF AccessOf
  <2>2. CASE ta = "N"
    <3>1. VecRoles(ta) = <<"i", "j">> /\ First(ta) = 1 /\ Second(ta) = 2
      BY <2>2 DEF VecRoles, First, Second
    <3> QED
      BY <3>1, MatchMatrix, BindRole, FreeCtx DEF AccessOf
  <2> QED
    BY <2>1, <2>2
<1>4. MatchAccess(ca, y, "B", <<"j">>)
        = IF AccessOf(y, 1) THEN Bind(Bind(ca, "j", y1), "B", y.name) ELSE Failed
  BY MatchVector DEF AccessOf
<1>2. MatchAccess(ca, y, "B", <<"j">>)
        = IF AccessOf(x, 2) /\ AccessOf(y, 1) /\ x.args[Second(ta)].name = y1
          THEN Ctx(x.name, y.name, x.args[First(ta)].name, y1, u)
          ELSE Failed
  <2>1. CASE AccessOf(x, 2)
    <3> DEFINE i == x.args[First(ta)].name
               k == x.args[Second(ta)].name
    <3>1. k # u
      BY <2>1, AccessNames DEF Second
    <3>2. ca = Ctx(x.name, u, i, k, u)
      BY <2>1
    <3> HIDE DEF i, k, ca
    <3>3. Bind(ca, "j", y1) = IF k = y1 THEN Ctx(x.name, u, i, y1, u) ELSE Failed
      BY <3>1, <3>2, BindRole
    <3>4. Bind(Bind(ca, "j", y1), "B", y.name)
            = IF k = y1 THEN Ctx(x.name, y.name, i, y1, u) ELSE Failed
      BY <3>3, BindRole, BindFailed
    <3> QED
      BY <1>4, <2>1, <3>4 DEF i, k
  <2>2. CASE ~AccessOf(x, 2)
    <3>1. ca = Failed
      BY <2>2
    <3> HIDE DEF ca
    <3> QED
      BY <1>4, <2>2, <3>1, BindFailed
  <2> QED
    BY <2>1, <2>2
<1> HIDE DEF ca
<1>3. MatchProduct(t, VecRoles(ta), <<"j">>)
        = IF t.kind # "*" THEN Failed ELSE MatchAccess(ca, y, "B", <<"j">>)
  BY <1>1 DEF MatchProduct
<1> QED
  BY <1>2, <1>3

-------------------------------------------------------------------------------
\* The operands of the product, at the first or the second level of the tree.
Operandlike(e, x) == x \in Children(e) \/ \E y \in Children(e) : x \in Children(y)

LEMMA OperandNamed ==
  ASSUME NEW e, IsTree(e), NEW x, Operandlike(e, x)
  PROVE  /\ IsNode(x) /\ ToSet(x.idents) \subseteq ToSet(e.idents)
         /\ x.kind = "apply" => x.name \in ToSet(e.idents)
         /\ Unassigned \notin ToSet(e.idents) => Named(x)
<1>1. IsNode(e) /\ IsNode(x) /\ \A w \in Children(x) : IsNode(w)
  BY DEF Operandlike, IsTree
<1>2. ToSet(x.idents) \subseteq ToSet(e.idents)
  <2>1. CASE x \in Children(e)
    BY <1>1, <2>1 DEF IsNode
  <2>2. CASE \E y \in Children(e) : x \in Children(y)
    <3>1. PICK y \in Children(e) : x \in Children(y)
      BY <2>2
    <3>2. IsNode(y)
      BY DEF IsTree
    <3> QED
      BY <1>1, <3>1, <3>2 DEF IsNode
  <2> QED
    BY <2>1, <2>2 DEF Operandlike
<1>3. x.kind = "apply" => x.name \in ToSet(x.idents) /\ IsSeq(x.args)
  BY <1>1 DEF IsNode
<1>4. ASSUME x.kind = "apply", NEW p \in DOMAIN x.args, x.args[p].kind = "ident"
      PROVE  x.args[p].name \in ToSet(x.idents)
  <2>1. x.args[p] \in Children(x)
    BY <1>4 DEF Children, ToSet
  <2>2. x.args[p].name \in ToSet(x.args[p].idents)
    BY <1>1, <1>4, <2>1 DEF IsNode
  <2> QED
    BY <1>1, <2>1, <2>2 DEF IsNode
<1> QED
  BY <1>1, <1>2, <1>3, <1>4 DEF Named

\* A product has two operands below it.
LEMMA ProductOperands ==
  ASSUME NEW e, IsTree(e), e.kind = "*"
  PROVE  /\ Len(e.kids) = 2 /\ DOMAIN e.kids = {1, 2}
         /\ \A p \in {1, 2} : Operandlike(e, e.kids[p])
         /\ e.kids[2].kind = "*" => /\ Len(e.kids[2].kids) = 2
                                    /\ \A p \in {1, 2} : Operandlike(e, e.kids[2].kids[p])
<1>1. IsNode(e)
  BY DEF IsTree
<1>2. Len(e.kids) = 2 /\ DOMAIN e.kids = {1, 2}
  BY <1>1 DEF IsNode, IsSeq
<1>3. \A p \in {1, 2} : e.kids[p] \in Children(e)
  BY <1>2 DEF Children, ToSet
<1>4. ASSUME e.kids[2].kind = "*"
      PROVE  /\ Len(e.kids[2].kids) = 2
             /\ \A p \in {1, 2} : e.kids[2].kids[p] \in Children(e.kids[2])
  <2>1. IsNode(e.kids[2])
    BY <1>3 DEF IsTree
  <2>2. Len(e.kids[2].kids) = 2 /\ DOMAIN e.kids[2].kids = {1, 2}
    BY <1>4, <2>1 DEF IsNode, IsSeq
  <2> QED
    BY <2>2 DEF Children, ToSet
<1> QED
  BY <1>2, <1>3, <1>4 DEF Operandlike
-------------------------------------------------------------------------------
\* The recognisers of a matrix product take exactly the products of matrices.

LEMMA TransposeNames ==
  ASSUME NEW x, Named(x), AccessOf(x, 2), NEW ta \in {"N", "T"}
  PROVE  /\ TransposeIf(ta, ArgNames(x))[1] = x.args[First(ta)].name
         /\ TransposeIf(ta, ArgNames(x))[2] = x.args[Second(ta)].name
<1>1. ArgNames(x) = [p \in 1..2 |-> x.args[p].name] /\ Len(ArgNames(x)) = 2
  BY AccessNames
<1>2. /\ Reverse(ArgNames(x))[1] = ArgNames(x)[2]
      /\ Reverse(ArgNames(x))[2] = ArgNames(x)[1]
  BY <1>1 DEF Reverse
<1> QED
  BY <1>1, <1>2 DEF TransposeIf, First, Second

\* The output has the roles' names as indices.
LEMMA OutputPair ==
  ASSUME NEW is, IsSeq(is), NEW ctx
  PROVE  (is = [p \in DOMAIN <<"i", "j">> |-> ctx[<<"i", "j">>[p]]])
           <=> (Len(is) = 2 /\ is[1] = ctx["i"] /\ is[2] = ctx["j"])
<1>1. [p \in DOMAIN <<"i", "j">> |-> ctx[<<"i", "j">>[p]]] = <<ctx["i"], ctx["j"]>>
  OBVIOUS
<1> QED
  BY <1>1 DEF IsSeq

LEMMA OutputOne ==
  ASSUME NEW is, IsSeq(is), NEW ctx
  PROVE  (is = [p \in DOMAIN <<"i">> |-> ctx[<<"i">>[p]]])
           <=> (Len(is) = 1 /\ is[1] = ctx["i"])
<1>1. [p \in DOMAIN <<"i">> |-> ctx[<<"i">>[p]]] = <<ctx["i"]>>
  OBVIOUS
<1> QED
  BY <1>1 DEF IsSeq

\* The equations between the names of the product of x and y.
MatMulOf(st, x, y, ta, tb) ==
  /\ AccessOf(x, 2) /\ AccessOf(y, 2) /\ Len(st.indices) = 2 /\ st.name \notin {x.name, y.name}
  /\ x.args[First(ta)].name = st.indices[1]
  /\ x.args[Second(ta)].name = y.args[First(tb)].name
  /\ y.args[Second(tb)].name = st.indices[2]

MatVecOf(st, x, y, ta) ==
  /\ AccessOf(x, 2) /\ AccessOf(y, 1) /\ Len(st.indices) = 1 /\ st.name \notin {x.name, y.name}
  /\ x.args[First(ta)].name = st.indices[1]
  /\ x.args[Second(ta)].name = y.args[1].name

\* An in-place statement of plain trees, whose names are not the reserved one.
Plain(st) == IsStatement(st) /\ st.assign = "+=" /\ Unassigned \notin ToSet(st.rhs.idents)

LEMMA ProductParts ==
  ASSUME NEW st, Plain(st), st.rhs.kind = "*", Product(st).kind = "*"
  PROVE  Named(Operand(st, 1)) /\ Named(Operand(st, 2))
BY ProductOperands, OperandNamed DEF Plain, IsStatement, Product, Operand, Scaled

LEMMA FitsGemmOf ==
  ASSUME NEW st, Plain(st), NEW ta \in {"N", "T"}, NEW tb \in {"N", "T"}
  PROVE  FitsGemm(st, ta, tb) <=>
           /\ st.rhs.kind = "*" /\ Product(st).kind = "*"
           /\ MatMulOf(st, Operand(st, 1), Operand(st, 2), ta, tb)
<1> DEFINE x == Operand(st, 1)
           y == Operand(st, 2)
           Shape == /\ st.rhs.kind = "*" /\ Product(st).kind = "*"
                    /\ AccessOf(x, 2) /\ AccessOf(y, 2)
<1>1. FitsGemm(st, ta, tb) => Shape
  BY DEF FitsGemm, IsProduct, Operand, AccessOf
<1>2. ASSUME Shape PROVE FitsGemm(st, ta, tb) <=> MatMulOf(st, x, y, ta, tb)
  <2>1. Named(x) /\ Named(y)
    BY <1>2, ProductParts
  <2>2. /\ TransposeIf(ta, ArgNames(x))[1] = x.args[First(ta)].name
        /\ TransposeIf(ta, ArgNames(x))[2] = x.args[Second(ta)].name
        /\ TransposeIf(tb, ArgNames(y))[1] = y.args[First(tb)].name
        /\ TransposeIf(tb, ArgNames(y))[2] = y.args[Second(tb)].name
    BY <1>2, <2>1, TransposeNames
  <2>3. IsProduct(st) /\ Len(x.args) = 2 /\ Len(y.args) = 2
    BY <1>2 DEF IsProduct, Operand, AccessOf, Plain
  <2> QED
    BY <1>2, <2>2, <2>3 DEF FitsGemm, MatMulOf
<1> QED
  BY <1>1, <1>2 DEF MatMulOf

LEMMA GemmMatches ==
  ASSUME NEW st, Plain(st), NEW ta \in {"N", "T"}, NEW tb \in {"N", "T"}, NEW scaled \in BOOLEAN
  PROVE  /\ Matched(Gemm(st, ta, tb, scaled)) <=> (FitsGemm(st, ta, tb) /\ scaled = Scaled(st))
         /\ Matched(Gemm(st, ta, tb, scaled)) =>
              Gemm(st, ta, tb, scaled) = Ctx(Operand(st, 1).name, Operand(st, 2).name,
                                             st.indices[1], st.indices[2],
                                             TransposeIf(ta, ArgNames(Operand(st, 1)))[2])
<1> DEFINE e == IF scaled THEN st.rhs.kids[2] ELSE st.rhs
           x == e.kids[1]
           y == e.kids[2]
           walk == MatchScaledProduct(st.rhs, GemmA(ta), GemmB(tb), scaled)
<1>1. CASE ~(st.rhs.kind = "*" /\ e.kind = "*")
  <2>1. walk = Failed
    BY <1>1 DEF MatchScaledProduct, MatchProduct
  <2>2. ~(FitsGemm(st, ta, tb) /\ scaled = Scaled(st))
    BY <1>1 DEF FitsGemm, IsProduct, Product
  <2>3. Gemm(st, ta, tb, scaled) = Failed
    BY <2>1 DEF Gemm, Recognise, Matched
  <2> QED
    BY <2>2, <2>3 DEF Matched
<1>2. CASE st.rhs.kind = "*" /\ e.kind = "*"
  <2>1. Operandlike(st.rhs, x) /\ Operandlike(st.rhs, y) /\ Len(st.rhs.kids) = 2
    BY <1>2, ProductOperands DEF Plain, IsStatement
  <2>2. Named(x) /\ Named(y)
    BY <2>1, OperandNamed DEF Plain, IsStatement
  <2> DEFINE names == Ctx(x.name, y.name, x.args[First(ta)].name, y.args[Second(tb)].name,
                          x.args[Second(ta)].name)
             walked == AccessOf(x, 2) /\ AccessOf(y, 2)
                         /\ x.args[Second(ta)].name = y.args[First(tb)].name
  <2>3. walk = IF walked THEN names ELSE Failed
    <3>1. walk = MatchProduct(e, GemmA(ta), GemmB(tb))
      BY <1>2 DEF MatchScaledProduct
    <3>2. ta \in {"N", "T"} /\ tb \in {"N", "T"}
      OBVIOUS
    <3>3. MatchProduct(e, GemmA(ta), GemmB(tb))
            = IF e.kind = "*" /\ walked THEN names ELSE Failed
      <4> HIDE DEF e
      <4> QED
        BY ONLY <2>2, <3>2, MatMulWalk
    <3> QED
      BY <1>2, <3>1, <3>3
  <2>4. /\ names # Failed /\ names["A"] = x.name /\ names["B"] = y.name
        /\ names["i"] = x.args[First(ta)].name /\ names["j"] = y.args[Second(tb)].name
    <3>1. DOMAIN names = Roles /\ DOMAIN Failed = {}
      BY DEF Ctx, Failed
    <3>2. names # Failed
      BY <3>1 DEF Roles
    <3> QED
      BY <3>2 DEF Ctx, Roles
  <2>5. Gemm(st, ta, tb, scaled) = IF MatMulOf(st, x, y, ta, tb) THEN names ELSE Failed
    <3> HIDE DEF names, walk
    <3>1. Gemm(st, ta, tb, scaled)
            = IF /\ Matched(walk) /\ st.name \notin {walk["A"], walk["B"]}
                 /\ st.indices = [p \in DOMAIN <<"i", "j">> |-> walk[<<"i", "j">>[p]]]
              THEN walk ELSE Failed
      BY DEF Gemm, Recognise, walk
    <3>2. Gemm(st, ta, tb, scaled)
            = IF /\ Matched(walk) /\ st.name \notin {walk["A"], walk["B"]}
                 /\ Len(st.indices) = 2 /\ st.indices[1] = walk["i"] /\ st.indices[2] = walk["j"]
              THEN walk ELSE Failed
      BY <3>1, OutputPair DEF Plain, IsStatement
    <3> QED
      BY <2>3, <2>4, <3>2 DEF Matched, MatMulOf
  <2>6. Matched(Gemm(st, ta, tb, scaled)) <=> MatMulOf(st, x, y, ta, tb)
    BY <2>4, <2>5 DEF Matched
  <2>7. (scaled = Scaled(st)) => (Product(st) = e /\ Operand(st, 1) = x /\ Operand(st, 2) = y)
    BY DEF Product, Operand
  <2>8. MatMulOf(st, x, y, ta, tb) => scaled = Scaled(st)
    BY <1>2, <2>1 DEF MatMulOf, AccessOf, Scaled
  <2>9. (scaled = Scaled(st)) => (FitsGemm(st, ta, tb) <=> MatMulOf(st, x, y, ta, tb))
    BY <1>2, <2>7, FitsGemmOf
  <2>10. MatMulOf(st, x, y, ta, tb) =>
           names = Ctx(Operand(st, 1).name, Operand(st, 2).name, st.indices[1], st.indices[2],
                       TransposeIf(ta, ArgNames(Operand(st, 1)))[2])
    <3> SUFFICES ASSUME MatMulOf(st, x, y, ta, tb)
                 PROVE  names = Ctx(Operand(st, 1).name, Operand(st, 2).name, st.indices[1],
                                    st.indices[2], TransposeIf(ta, ArgNames(Operand(st, 1)))[2])
      OBVIOUS
    <3>1. Operand(st, 1) = x /\ Operand(st, 2) = y
      BY <2>7, <2>8
    <3>2. AccessOf(x, 2) /\ x.args[First(ta)].name = st.indices[1]
          /\ y.args[Second(tb)].name = st.indices[2]
      BY DEF MatMulOf
    <3> HIDE DEF x, y
    <3>3. TransposeIf(ta, ArgNames(x))[2] = x.args[Second(ta)].name
      BY <2>2, <3>2, TransposeNames
    <3> QED
      BY <3>1, <3>2, <3>3
  <2> QED
    BY <2>5, <2>6, <2>8, <2>9, <2>10
<1> QED
  BY <1>1, <1>2

\* The same for a matrix and a vector.
LEMMA Pairs ==
  /\ \A i, j : <<i>> \o <<j>> = <<i, j>>
  /\ \A a1, a2, i, j : <<a1, a2>> = <<i, j>> <=> (a1 = i /\ a2 = j)
<1>1. ASSUME NEW i, NEW j PROVE <<i>> \o <<j>> = <<i, j>>
  <2>1. <<i>> \in Seq({i, j}) /\ <<j>> \in Seq({i, j}) /\ <<i, j>> \in Seq({i, j})
    OBVIOUS
  <2> DEFINE s == <<i>> \o <<j>>
  <2>2. s \in Seq({i, j}) /\ Len(s) = 2 /\ s[1] = i /\ s[2] = j
    BY <2>1, ConcatProperties
  <2> HIDE DEF s
  <2>3. s = <<i, j>>
    BY <2>1, <2>2
  <2> QED
    BY <2>3 DEF s
<1>2. \A a1, a2, i, j : <<a1, a2>> = <<i, j>> <=> (a1 = i /\ a2 = j)
  OBVIOUS
<1> QED
  BY <1>1, <1>2

LEMMA ReversePair ==
  ASSUME NEW s, Len(s) = 2
  PROVE  Reverse(s) = <<s[2], s[1]>>
<1>1. Reverse(s) = [i \in 1..2 |-> s[(2 - i) + 1]]
  BY DEF Reverse
<1>2. [i \in 1..2 |-> s[(2 - i) + 1]] = <<s[2], s[1]>>
  OBVIOUS
<1> QED
  BY <1>1, <1>2

LEMMA FitsGemvOf ==
  ASSUME NEW st, Plain(st), NEW ta \in {"N", "T"}
  PROVE  FitsGemv(st, ta) <=>
           /\ st.rhs.kind = "*" /\ Product(st).kind = "*"
           /\ MatVecOf(st, Operand(st, 1), Operand(st, 2), ta)
<1> DEFINE x == Operand(st, 1)
           y == Operand(st, 2)
           Shape == /\ st.rhs.kind = "*" /\ Product(st).kind = "*"
                    /\ AccessOf(x, 2) /\ AccessOf(y, 1) /\ Len(st.indices) = 1
<1>1. FitsGemv(st, ta) => Shape
  BY DEF FitsGemv, IsProduct, Operand, AccessOf
<1>2. ASSUME Shape PROVE FitsGemv(st, ta) <=> MatVecOf(st, x, y, ta)
  <2>1. Named(x) /\ Named(y)
    BY <1>2, ProductParts
  <2> DEFINE a == TransposeIf(ta, ArgNames(x))
  <2>2. a[1] = x.args[First(ta)].name /\ a[2] = x.args[Second(ta)].name
    BY <1>2, <2>1, TransposeNames
  <2>4. a = <<a[1], a[2]>>
    <3>1. ArgNames(x) = [p \in 1..2 |-> x.args[p].name] /\ Len(ArgNames(x)) = 2
      BY <1>2, <2>1, AccessNames
    <3>2. Reverse(ArgNames(x)) = <<ArgNames(x)[2], ArgNames(x)[1]>>
      BY <3>1, ReversePair
    <3>3. ArgNames(x) = <<ArgNames(x)[1], ArgNames(x)[2]>>
      BY <3>1
    <3> QED
      BY <3>2, <3>3 DEF TransposeIf
  <2>5. st.indices = <<st.indices[1]>>
    BY <1>2 DEF Plain, IsStatement, IsSeq
  <2>6. ArgNames(y) = <<y.args[1].name>>
    BY <1>2, <2>1, AccessNames
  <2>7. (a = st.indices \o ArgNames(y)) <=> (a[1] = st.indices[1] /\ a[2] = y.args[1].name)
    <3>1. PICK i, j, a1, a2 : i = st.indices[1] /\ j = y.args[1].name /\ a1 = a[1] /\ a2 = a[2]
      OBVIOUS
    <3>2. st.indices = <<i>> /\ ArgNames(y) = <<j>>
      BY <2>5, <2>6, <3>1
    <3>3. st.indices \o ArgNames(y) = <<i, j>>
      BY ONLY <3>2, Pairs
    <3> HIDE DEF a
    <3>4. a = <<a1, a2>>
      BY <2>4, <3>1
    <3>5. (<<a1, a2>> = <<i, j>>) <=> (a1 = i /\ a2 = j)
      BY ONLY Pairs
    <3> QED
      BY ONLY <3>1, <3>3, <3>4, <3>5
  <2>8. FitsGemv(st, ta) <=> /\ IsProduct(st) /\ Len(st.indices) = 1
                           /\ Len(x.args) = 2 /\ Len(y.args) = 1
                           /\ st.name \notin {x.name, y.name} /\ a = st.indices \o ArgNames(y)
    BY DEF FitsGemv
  <2>9. IsProduct(st) /\ Len(x.args) = 2 /\ Len(y.args) = 1
    BY <1>2 DEF IsProduct, Operand, AccessOf, Plain
  <2> HIDE DEF a
  <2> QED
    BY <1>2, <2>2, <2>7, <2>8, <2>9 DEF MatVecOf
<1> QED
  BY <1>1, <1>2 DEF MatVecOf

Gemv(st, ta, scaled) == Recognise(st, VecRoles(ta), <<"j">>, <<"i">>, scaled)

LEMMA GemvMatches ==
  ASSUME NEW st, Plain(st), NEW ta \in {"N", "T"}, NEW scaled \in BOOLEAN
  PROVE  /\ Matched(Gemv(st, ta, scaled)) <=> (FitsGemv(st, ta) /\ scaled = Scaled(st))
         /\ Matched(Gemv(st, ta, scaled)) =>
              /\ Gemv(st, ta, scaled)["A"] = Operand(st, 1).name
              /\ Gemv(st, ta, scaled)["B"] = Operand(st, 2).name
<1> DEFINE e == IF scaled THEN st.rhs.kids[2] ELSE st.rhs
           x == e.kids[1]
           y == e.kids[2]
           walk == MatchScaledProduct(st.rhs, VecRoles(ta), <<"j">>, scaled)
<1>1. CASE ~(st.rhs.kind = "*" /\ e.kind = "*")
  <2>1. walk = Failed
    BY <1>1 DEF MatchScaledProduct, MatchProduct
  <2>2. ~(FitsGemv(st, ta) /\ scaled = Scaled(st))
    BY <1>1 DEF FitsGemv, IsProduct, Product
  <2>3. Gemv(st, ta, scaled) = Failed
    BY <2>1 DEF Gemv, Recognise, Matched
  <2> QED
    BY <2>2, <2>3 DEF Matched
<1>2. CASE st.rhs.kind = "*" /\ e.kind = "*"
  <2>1. Operandlike(st.rhs, x) /\ Operandlike(st.rhs, y) /\ Len(st.rhs.kids) = 2
    BY <1>2, ProductOperands DEF Plain, IsStatement
  <2>2. Named(x) /\ Named(y)
    BY <2>1, OperandNamed DEF Plain, IsStatement
  <2> DEFINE names == Ctx(x.name, y.name, x.args[First(ta)].name, y.args[1].name, Unassigned)
             walked == AccessOf(x, 2) /\ AccessOf(y, 1) /\ x.args[Second(ta)].name = y.args[1].name
  <2>3. walk = IF walked THEN names ELSE Failed
    <3>1. walk = MatchProduct(e, VecRoles(ta), <<"j">>)
      BY <1>2 DEF MatchScaledProduct
    <3>2. ta \in {"N", "T"}
      OBVIOUS
    <3>3. MatchProduct(e, VecRoles(ta), <<"j">>)
            = IF e.kind = "*" /\ walked THEN names ELSE Failed
      <4> HIDE DEF e
      <4> QED
        BY ONLY <2>2, <3>2, MatVecWalk
    <3> QED
      BY <1>2, <3>1, <3>3
  <2>4. /\ names # Failed /\ names["A"] = x.name /\ names["B"] = y.name
        /\ names["i"] = x.args[First(ta)].name
    <3>1. DOMAIN names = Roles /\ DOMAIN Failed = {}
      BY DEF Ctx, Failed
    <3>2. names # Failed
      BY <3>1 DEF Roles
    <3> QED
      BY <3>2 DEF Ctx, Roles
  <2>5. Gemv(st, ta, scaled) = IF MatVecOf(st, x, y, ta) THEN names ELSE Failed
    <3> HIDE DEF names, walk
    <3>1. Gemv(st, ta, scaled)
            = IF /\ Matched(walk) /\ st.name \notin {walk["A"], walk["B"]}
                 /\ st.indices = [p \in DOMAIN <<"i">> |-> walk[<<"i">>[p]]]
              THEN walk ELSE Failed
      BY DEF Gemv, Recognise, walk
    <3>2. Gemv(st, ta, scaled)
            = IF /\ Matched(walk) /\ st.name \notin {walk["A"], walk["B"]}
                 /\ Len(st.indices) = 1 /\ st.indices[1] = walk["i"]
              THEN walk ELSE Failed
      BY <3>1, OutputOne DEF Plain, IsStatement
    <3> QED
      BY <2>3, <2>4, <3>2 DEF Matched, MatVecOf
  <2>6. Matched(Gemv(st, ta, scaled)) <=> MatVecOf(st, x, y, ta)
    BY <2>4, <2>5 DEF Matched
  <2>7. (scaled = Scaled(st)) => (Product(st) = e /\ Operand(st, 1) = x /\ Operand(st, 2) = y)
    BY DEF Product, Operand
  <2>8. MatVecOf(st, x, y, ta) => scaled = Scaled(st)
    BY <1>2, <2>1 DEF MatVecOf, AccessOf, Scaled
  <2>9. (scaled = Scaled(st)) => (FitsGemv(st, ta) <=> MatVecOf(st, x, y, ta))
    BY <1>2, <2>7, FitsGemvOf
  <2> QED
    BY <2>4, <2>5, <2>6, <2>7, <2>8, <2>9
<1> QED
  BY <1>1, <1>2

-------------------------------------------------------------------------------
\* A where clause folds as many loops as it has variables.
LEMMA FoldedLoops ==
  ASSUME NEW st, IsSeq(st.where), Len(st.where) <= 1, st.where # <<>> => st.where[1].kind = "let",
         NEW index, index # Unassigned
  PROVE  Folded(st, index) = Loops(st, index)
<1>1. CASE st.where = <<>>
  <2>1. ToSet(st.where) = {}
    BY <1>1 DEF ToSet
  <2> QED
    BY <1>1, <2>1 DEF Folded, Loops
<1>2. CASE st.where # <<>>
  <2>1. DOMAIN st.where = {1}
    BY <1>2 DEF IsSeq
  <2>2. ToSet(st.where) = {st.where[1]}
    BY <2>1 DEF ToSet
  <2> QED
    BY <1>2, <2>2 DEF Folded, Loops
<1> QED
  BY <1>1, <1>2

\* The last of the tries that succeed.
LEMMA MaxHit ==
  ASSUME NEW n \in Nat, NEW S \in SUBSET (1..n), S # {}
  PROVE  Max(S) \in S /\ \A m \in S : Max(S) >= m
<1> DEFINE T == {n - m : m \in S}
<1>0. T \in SUBSET Nat /\ T # {}
  <2>1. \A m \in S : m \in 1..n /\ n - m \in Nat
    OBVIOUS
  <2>2. T \in SUBSET Nat
    BY <2>1
  <2> QED
    BY <2>2
<1>1. PICK k \in T : \A d \in T : k <= d
  <2> HIDE DEF T
  <2> QED
    BY <1>0, Least
<1>2. \E m \in S : \A d \in S : m >= d
  <2>1. PICK m \in S : k = n - m
    BY <1>1
  <2>2. \A d \in S : k <= n - d
    BY <1>1
  <2>3. \A d \in S : d \in Nat
    OBVIOUS
  <2>4. \A d \in S : m >= d
    BY <2>1, <2>2, <2>3
  <2> QED
    BY <2>4
<1> QED
  BY <1>2 DEF Max

LEMMA MinHit ==
  ASSUME NEW n \in Nat, NEW S \in SUBSET (1..n), S # {}
  PROVE  Min(S) \in S /\ \A m \in S : Min(S) <= m
<1>1. \E m \in S : \A d \in S : m <= d
  BY Least
<1> QED
  BY <1>1 DEF Min

\* When the tries succeed.
LEMMA GemmHitsAre ==
  ASSUME NEW st, Plain(st)
  PROVE  LET tries == GemmTries(st)
             hits  == Hits(tries)
             gemm(ta, tb) == FitsGemm(st, ta, tb)
         IN  /\ hits \in SUBSET (1..5)
             /\ 1 \in hits <=> (gemm("N", "N") /\ ~Scaled(st))
             /\ 2 \in hits <=> (gemm("N", "N") /\ Scaled(st))
             /\ 3 \in hits <=> (gemm("T", "N") /\ ~Scaled(st))
             /\ 4 \in hits <=> (gemm("N", "T") /\ ~Scaled(st))
             /\ 5 \in hits <=> (gemm("T", "T") /\ ~Scaled(st))
             /\ \A h \in hits :
                  /\ (tries[h].ta <=> h \in {3, 5}) /\ (tries[h].tb <=> h \in {4, 5})
                  /\ tries[h].alpha = IF h = 2 THEN "alpha" ELSE "1"
                  /\ tries[h].ctx =
                       Ctx(Operand(st, 1).name, Operand(st, 2).name, st.indices[1], st.indices[2],
                           TransposeIf(IF h \in {3, 5} THEN "T" ELSE "N",
                                       ArgNames(Operand(st, 1)))[2])
<1> DEFINE tries == GemmTries(st)
           hits  == Hits(tries)
           NN == Gemm(st, "N", "N", FALSE)
           Alpha == IF Matched(NN) THEN Failed ELSE Gemm(st, "N", "N", TRUE)
           TN == Gemm(st, "T", "N", FALSE)
           NT == Gemm(st, "N", "T", FALSE)
           TT == Gemm(st, "T", "T", FALSE)
           ctx(ta) == Ctx(Operand(st, 1).name, Operand(st, 2).name, st.indices[1], st.indices[2],
                          TransposeIf(ta, ArgNames(Operand(st, 1)))[2])
<1>1. /\ DOMAIN tries = 1..5
      /\ tries[1] = [ctx |-> NN,    alpha |-> "1",     ta |-> FALSE, tb |-> FALSE]
      /\ tries[2] = [ctx |-> Alpha, alpha |-> "alpha", ta |-> FALSE, tb |-> FALSE]
      /\ tries[3] = [ctx |-> TN,    alpha |-> "1",     ta |-> TRUE,  tb |-> FALSE]
      /\ tries[4] = [ctx |-> NT,    alpha |-> "1",     ta |-> FALSE, tb |-> TRUE]
      /\ tries[5] = [ctx |-> TT,    alpha |-> "1",     ta |-> TRUE,  tb |-> TRUE]
  <2> HIDE DEF NN, Alpha, TN, NT, TT
  <2>1. tries = << [ctx |-> NN,    alpha |-> "1",     ta |-> FALSE, tb |-> FALSE],
                   [ctx |-> Alpha, alpha |-> "alpha", ta |-> FALSE, tb |-> FALSE],
                   [ctx |-> TN,    alpha |-> "1",     ta |-> TRUE,  tb |-> FALSE],
                   [ctx |-> NT,    alpha |-> "1",     ta |-> FALSE, tb |-> TRUE],
                   [ctx |-> TT,    alpha |-> "1",     ta |-> TRUE,  tb |-> TRUE] >>
    BY DEF GemmTries, NN, Alpha, TN, NT, TT
  <2> HIDE DEF tries
  <2> QED
    BY <2>1
<1>2. /\ Matched(NN) <=> (FitsGemm(st, "N", "N") /\ ~Scaled(st))
      /\ Matched(TN) <=> (FitsGemm(st, "T", "N") /\ ~Scaled(st))
      /\ Matched(NT) <=> (FitsGemm(st, "N", "T") /\ ~Scaled(st))
      /\ Matched(TT) <=> (FitsGemm(st, "T", "T") /\ ~Scaled(st))
      /\ Matched(NN) => NN = ctx("N")
      /\ Matched(TN) => TN = ctx("T")
      /\ Matched(NT) => NT = ctx("N")
      /\ Matched(TT) => TT = ctx("T")
  <2>1. Scaled(st) \in BOOLEAN
    BY DEF Scaled
  <2>2. \A ta, tb \in {"N", "T"} :
          /\ Matched(Gemm(st, ta, tb, FALSE)) <=> (FitsGemm(st, ta, tb) /\ FALSE = Scaled(st))
          /\ Matched(Gemm(st, ta, tb, FALSE)) => Gemm(st, ta, tb, FALSE) = ctx(ta)
    BY GemmMatches
  <2> HIDE DEF ctx
  <2> QED
    BY <2>1, <2>2
<1>3. /\ Matched(Alpha) <=> (FitsGemm(st, "N", "N") /\ Scaled(st))
      /\ Matched(Alpha) => Alpha = ctx("N")
  <2>1. Scaled(st) \in BOOLEAN
    BY DEF Scaled
  <2>2. \A ta, tb \in {"N", "T"} :
          /\ Matched(Gemm(st, ta, tb, TRUE)) <=> (FitsGemm(st, ta, tb) /\ TRUE = Scaled(st))
          /\ Matched(Gemm(st, ta, tb, TRUE)) => Gemm(st, ta, tb, TRUE) = ctx(ta)
    BY GemmMatches
  <2>3. ~Matched(Failed)
    BY DEF Matched
  <2> HIDE DEF ctx, NN
  <2> QED
    BY <1>2, <2>1, <2>2, <2>3
<1> HIDE DEF NN, Alpha, TN, NT, TT, tries
<1>4. /\ hits \in SUBSET (1..5)
      /\ 1 \in hits <=> Matched(NN)
      /\ 2 \in hits <=> Matched(Alpha)
      /\ 3 \in hits <=> Matched(TN)
      /\ 4 \in hits <=> Matched(NT)
      /\ 5 \in hits <=> Matched(TT)
  <2>1. \A n \in 1..5 : n \in hits <=> Matched(tries[n].ctx)
    BY <1>1 DEF Hits
  <2> QED
    BY <1>1, <2>1 DEF Hits
<1>5. ASSUME NEW h \in hits
      PROVE  /\ (tries[h].ta <=> h \in {3, 5}) /\ (tries[h].tb <=> h \in {4, 5})
             /\ tries[h].alpha = IF h = 2 THEN "alpha" ELSE "1"
             /\ tries[h].ctx = ctx(IF h \in {3, 5} THEN "T" ELSE "N")
  <2> HIDE DEF hits, ctx
  <2>1. h \in 1..5
    BY <1>4
  <2>3. CASE h = 1
    BY <1>1, <1>2, <1>4, <2>3
  <2>4. CASE h = 2
    BY <1>1, <1>3, <1>4, <2>4
  <2>5. CASE h = 3
    BY <1>1, <1>2, <1>4, <2>5
  <2>6. CASE h = 4
    BY <1>1, <1>2, <1>4, <2>6
  <2>7. CASE h = 5
    BY <1>1, <1>2, <1>4, <2>7
  <2> QED
    BY <2>1, <2>3, <2>4, <2>5, <2>6, <2>7
<1> QED
  BY <1>2, <1>3, <1>4, <1>5 DEF tries

\* What the flags and the last try say together: two tries that succeed with
\* different transpositions see the same index everywhere.
LEMMA FlagsAgree ==
  ASSUME NEW st, Plain(st), ~Scaled(st), NEW hits \in SUBSET (1..5), hits # {},
         1 \in hits <=> FitsGemm(st, "N", "N"),
         2 \notin hits,
         3 \in hits <=> FitsGemm(st, "T", "N"),
         4 \in hits <=> FitsGemm(st, "N", "T"),
         5 \in hits <=> FitsGemm(st, "T", "T")
  PROVE  LET ta == IF hits \cap {3, 5} # {} THEN "T" ELSE "N"
             tb == IF hits \cap {4, 5} # {} THEN "T" ELSE "N"
             last == IF Max(hits) \in {3, 5} THEN "T" ELSE "N"
             a == ArgNames(Operand(st, 1))
         IN  FitsGemm(st, ta, tb) /\ TransposeIf(last, a)[2] = TransposeIf(ta, a)[2]
<1> DEFINE x == Operand(st, 1)
           y == Operand(st, 2)
           Of(ta, tb) == MatMulOf(st, x, y, ta, tb)
           a == ArgNames(x)
           m == Max(hits)
<1>1. m \in hits /\ \A h \in hits : m >= h
  BY MaxHit
<1> HIDE DEF m
<1>2. \A ta, tb \in {"N", "T"} : FitsGemm(st, ta, tb) <=>
        st.rhs.kind = "*" /\ Product(st).kind = "*" /\ Of(ta, tb)
  BY FitsGemmOf
<1>3. st.rhs.kind = "*" /\ Product(st).kind = "*" /\ AccessOf(x, 2)
  <2>1. m \in {1, 3, 4, 5}
    BY <1>1
  <2>2. \E ta, tb \in {"N", "T"} : FitsGemm(st, ta, tb)
    BY <1>1, <2>1
  <2> QED
    BY <1>2, <2>2 DEF MatMulOf
<1>4. Of("T", "N") /\ Of("N", "T") => Of("T", "T") /\ x.args[1].name = x.args[2].name
  BY DEF MatMulOf, First, Second
<1>5. Named(x)
  BY <1>3, ProductParts
<1>6. TransposeIf("T", a)[2] = x.args[1].name /\ TransposeIf("N", a)[2] = x.args[2].name
  BY <1>3, <1>5, TransposeNames DEF Second
<1> HIDE DEF a, x, y, Of
<1>7. 3 \in hits /\ 4 \in hits => 5 \in hits
  BY <1>2, <1>3, <1>4
<1>8. CASE 5 \in hits
  <2>1. m = 5
    BY <1>1, <1>8
  <2> QED
    BY <1>8, <2>1 DEF m, a, x
<1>9. CASE 5 \notin hits /\ 4 \in hits
  <2>1. m = 4 /\ 3 \notin hits
    BY <1>1, <1>7, <1>9
  <2> QED
    BY <1>9, <2>1 DEF m, a, x
<1>10. CASE 5 \notin hits /\ 4 \notin hits /\ 3 \in hits
  <2>1. m = 3
    BY <1>1, <1>10
  <2> QED
    BY <1>10, <2>1 DEF m, a, x
<1>11. CASE 5 \notin hits /\ 4 \notin hits /\ 3 \notin hits
  <2>1. m = 1
    BY <1>1, <1>11
  <2> QED
    BY <1>1, <1>11, <2>1 DEF m, a, x
<1> QED
  BY <1>8, <1>9, <1>10, <1>11

\* What matchMatMul answers, for every statement: a builder that says what form the
\* statement has, and "no" only to a statement that has not the form of a product
\* of two matrices, or is scaled and has it with a transposed one only.
LEMMA MatMulExact ==
  ASSUME NEW st, IsStatement(st), Unassigned \notin ToSet(st.rhs.idents)
  PROVE  LET o == MatchMatMul(st)
         IN  /\ o.verdict = "emit" => \E b : o.builders = <<b>> /\ b.op = "matmul" /\ GemmRight(st, b)
             /\ o.verdict = "no" => ~\E ta, tb \in {"N", "T"} :
                  FitsGemm(st, ta, tb) /\ (Scaled(st) => ta = "N" /\ tb = "N")
<1> DEFINE o == MatchMatMul(st)
           tries == GemmTries(st)
           hits == Hits(tries)
           mmi == tries[Max(hits)]
           b == [op |-> "matmul", ins |-> <<mmi.ctx["A"], mmi.ctx["B"]>>, out |-> st.name,
                 transa |-> Trans(\E h \in hits : tries[h].ta),
                 transb |-> Trans(\E h \in hits : tries[h].tb),
                 dims  |-> [M |-> Folded(st, mmi.ctx["i"]), N |-> Folded(st, mmi.ctx["j"]),
                            K |-> Folded(st, mmi.ctx["k"])],
                 alpha |-> mmi.alpha]
           gemm(ta, tb) == FitsGemm(st, ta, tb)
           named(ta) == Ctx(Operand(st, 1).name, Operand(st, 2).name, st.indices[1], st.indices[2],
                            TransposeIf(ta, ArgNames(Operand(st, 1)))[2])
<1>1. o = IF st.assign # "+=" \/ Len(st.indices) # 2 \/ hits = {} THEN No
          ELSE IF Len(st.where) > 1 THEN Throw
          ELSE IF st.where # <<>> /\ st.where[1].kind # "let" THEN Throw
          ELSE Emit(<<b>>)
  BY DEF MatchMatMul
<1>2. No.verdict = "no" /\ Throw.verdict = "throw" /\ Emit(<<b>>).verdict = "emit"
      /\ Emit(<<b>>).builders = <<b>>
  BY DEF No, Throw, Emit
<1>3. ASSUME st.assign = "+="
      PROVE  /\ hits \in SUBSET (1..5)
             /\ 1 \in hits <=> (gemm("N", "N") /\ ~Scaled(st))
             /\ 2 \in hits <=> (gemm("N", "N") /\ Scaled(st))
             /\ 3 \in hits <=> (gemm("T", "N") /\ ~Scaled(st))
             /\ 4 \in hits <=> (gemm("N", "T") /\ ~Scaled(st))
             /\ 5 \in hits <=> (gemm("T", "T") /\ ~Scaled(st))
             /\ \A h \in hits :
                  /\ (tries[h].ta <=> h \in {3, 5}) /\ (tries[h].tb <=> h \in {4, 5})
                  /\ tries[h].alpha = IF h = 2 THEN "alpha" ELSE "1"
                  /\ tries[h].ctx = named(IF h \in {3, 5} THEN "T" ELSE "N")
  BY <1>3, GemmHitsAre DEF Plain
<1> HIDE DEF o, b, tries, hits
<1>4. ASSUME o.verdict = "no", NEW ta \in {"N", "T"}, NEW tb \in {"N", "T"},
             gemm(ta, tb), Scaled(st) => ta = "N" /\ tb = "N"
      PROVE  FALSE
  <2>1. st.assign = "+=" /\ Len(st.indices) = 2
    BY <1>4 DEF FitsGemm, IsProduct
  <2>2. hits # {}
    BY <1>3, <1>4, <2>1
  <2> QED
    BY <1>1, <1>2, <1>4, <2>1, <2>2
<1>5. ASSUME o.verdict = "emit"
      PROVE  \E d : o.builders = <<d>> /\ d.op = "matmul" /\ GemmRight(st, d)
  <2>1. /\ st.assign = "+=" /\ Len(st.indices) = 2 /\ hits # {}
        /\ Len(st.where) <= 1 /\ (st.where # <<>> => st.where[1].kind = "let")
        /\ o = Emit(<<b>>)
    <3>1. IsSeq(st.where)
      BY DEF IsStatement
    <3>2. Len(st.where) \in Nat
      BY <3>1 DEF IsSeq
    <3> QED
      BY <1>1, <1>2, <1>5, <3>2
  <2>2. Plain(st)
    BY <2>1 DEF Plain
  <2> DEFINE ta == IF hits \cap {3, 5} # {} THEN "T" ELSE "N"
             tb == IF hits \cap {4, 5} # {} THEN "T" ELSE "N"
             last == IF Max(hits) \in {3, 5} THEN "T" ELSE "N"
             x == Operand(st, 1)
  <2>3. Max(hits) \in hits
    BY <1>3, <2>1, MaxHit
  <2>4. FitsGemm(st, ta, tb) /\ TransposeIf(last, ArgNames(x))[2] = TransposeIf(ta, ArgNames(x))[2]
        /\ (mmi.alpha = "alpha" <=> Scaled(st))
    <3>1. CASE ~Scaled(st)
      <4>1. FitsGemm(st, ta, tb) /\ TransposeIf(last, ArgNames(x))[2] = TransposeIf(ta, ArgNames(x))[2]
        BY <1>3, <2>1, <2>2, <3>1, FlagsAgree
      <4>2. mmi.alpha # "alpha"
        BY <1>3, <2>1, <2>3, <3>1
      <4> QED
        BY <3>1, <4>1, <4>2
    <3>2. CASE Scaled(st)
      <4>1. hits = {2}
        BY <1>3, <2>1, <3>2
      <4>2. gemm("N", "N") /\ ta = "N" /\ tb = "N" /\ last = "N" /\ mmi.alpha = "alpha"
        BY <1>3, <2>1, <2>3, <3>2, <4>1
      <4> QED
        BY <3>2, <4>2
    <3> QED
      BY <3>1, <3>2
  <2>5. mmi.ctx = named(ta)
    <3>1. mmi.ctx = named(last)
      BY <1>3, <2>1, <2>3
    <3> QED
      BY <2>4, <3>1
  <2>6. /\ mmi.ctx["A"] = x.name /\ mmi.ctx["B"] = Operand(st, 2).name
        /\ mmi.ctx["i"] = st.indices[1] /\ mmi.ctx["j"] = st.indices[2]
        /\ mmi.ctx["k"] = TransposeIf(ta, ArgNames(x))[2]
    BY <2>5 DEF Ctx, Roles
  <2>7. Trans(\E h \in hits : tries[h].ta) = ta /\ Trans(\E h \in hits : tries[h].tb) = tb
    <3>1. (\E h \in hits : tries[h].ta) <=> hits \cap {3, 5} # {}
      BY <1>3, <2>1
    <3>2. (\E h \in hits : tries[h].tb) <=> hits \cap {4, 5} # {}
      BY <1>3, <2>1
    <3> QED
      BY <3>1, <3>2 DEF Trans
  <2>8. /\ st.indices[1] # Unassigned /\ st.indices[2] # Unassigned
        /\ TransposeIf(ta, ArgNames(x))[2] # Unassigned
    <3> DEFINE y == Operand(st, 2)
    <3>1. st.rhs.kind = "*" /\ Product(st).kind = "*" /\ MatMulOf(st, x, y, ta, tb)
      BY <2>2, <2>4, FitsGemmOf
    <3>2. Named(x) /\ Named(y)
      BY <2>2, <3>1, ProductParts
    <3>3. AccessOf(x, 2) /\ AccessOf(y, 2)
      BY <3>1 DEF MatMulOf
    <3>4. \A p \in 1..2 : x.args[p].name # Unassigned /\ y.args[p].name # Unassigned
      BY <3>2, <3>3, AccessNames
    <3>5. TransposeIf(ta, ArgNames(x))[2] = x.args[Second(ta)].name
      BY <3>2, <3>3, TransposeNames
    <3> HIDE DEF x, y, ta, tb
    <3> QED
      BY <3>1, <3>4, <3>5 DEF MatMulOf, First, Second
  <2>9. /\ Folded(st, st.indices[1]) = Loops(st, st.indices[1])
        /\ Folded(st, st.indices[2]) = Loops(st, st.indices[2])
        /\ Folded(st, TransposeIf(ta, ArgNames(x))[2]) = Loops(st, TransposeIf(ta, ArgNames(x))[2])
    <3>1. IsSeq(st.where) /\ Len(st.where) <= 1 /\ (st.where # <<>> => st.where[1].kind = "let")
      BY <2>1 DEF IsStatement
    <3>2. \A index : index # Unassigned => Folded(st, index) = Loops(st, index)
      BY ONLY <3>1, FoldedLoops
    <3> QED
      BY ONLY <2>8, <3>2
  <2>10. /\ b.op = "matmul" /\ b.ins = <<x.name, Operand(st, 2).name>> /\ b.out = st.name
         /\ b.transa = ta /\ b.transb = tb /\ b.alpha = mmi.alpha
         /\ b.dims = [M |-> Loops(st, st.indices[1]), N |-> Loops(st, st.indices[2]),
                      K |-> Loops(st, TransposeIf(ta, ArgNames(x))[2])]
    <3> HIDE DEF mmi, ta, tb, x
    <3> QED
      BY <2>6, <2>7, <2>9 DEF b
  <2> HIDE DEF mmi, ta, tb
  <2>11. GemmRight(st, b)
    BY <2>4, <2>10 DEF GemmRight, Scaled
  <2> QED
    BY <1>2, <2>1, <2>10, <2>11
<1> QED
  BY <1>4, <1>5 DEF o

\* What matchMatVec answers, for every statement.
LEMMA MatVecExact ==
  ASSUME NEW st, IsStatement(st), Unassigned \notin ToSet(st.rhs.idents)
  PROVE  LET o == MatchMatVec(st)
         IN  /\ o.verdict = "emit" => \E b : o.builders = <<b>> /\ b.op = "matvec" /\ GemvRight(st, b)
             /\ o.verdict = "no" => ~\E ta \in {"N", "T"} : FitsGemv(st, ta)
<1> DEFINE o == MatchMatVec(st)
           tries == MatVecTries(st)
           hits == Hits(tries)
           mvi == tries[Min(hits)]
           b == [op |-> "matvec", ins |-> <<mvi.ctx["A"], mvi.ctx["B"]>>, out |-> st.name,
                 transa |-> mvi.transa, alpha |-> mvi.alpha]
           try(ta, scaled) == [ctx |-> Gemv(st, ta, scaled), transa |-> ta,
                               alpha |-> IF scaled THEN "alpha" ELSE "1"]
<1>1. o = IF st.assign # "+=" \/ Len(st.indices) # 1 \/ hits = {} THEN No ELSE Emit(<<b>>)
  BY DEF MatchMatVec
<1>2. No.verdict = "no" /\ Emit(<<b>>).verdict = "emit" /\ Emit(<<b>>).builders = <<b>>
  BY DEF No, Emit
<1>3. /\ DOMAIN tries = 1..4
      /\ tries[1] = try("N", FALSE) /\ tries[2] = try("T", FALSE)
      /\ tries[3] = try("N", TRUE) /\ tries[4] = try("T", TRUE)
  <2>1. tries = << try("N", FALSE), try("T", FALSE), try("N", TRUE), try("T", TRUE) >>
    BY DEF MatVecTries, Gemv, VecRoles
  <2> HIDE DEF tries, try
  <2> QED
    BY <2>1
<1>4. \A ta \in {"N", "T"} : \A scaled \in BOOLEAN :
        /\ try(ta, scaled).ctx = Gemv(st, ta, scaled)
        /\ try(ta, scaled).transa = ta
        /\ try(ta, scaled).alpha = IF scaled THEN "alpha" ELSE "1"
  OBVIOUS
<1>5. Scaled(st) \in BOOLEAN
  BY DEF Scaled
<1> HIDE DEF o, b, tries, try
<1>6. hits \in SUBSET (1..4) /\ \A n \in 1..4 : n \in hits <=> Matched(tries[n].ctx)
  BY <1>3 DEF Hits
<1>7. \A n \in 1..4 : \E ta \in {"N", "T"} : \E scaled \in BOOLEAN : tries[n] = try(ta, scaled)
  <2> TAKE n \in 1..4
  <2>1. n = 1 \/ n = 2 \/ n = 3 \/ n = 4
    OBVIOUS
  <2> QED
    BY <1>3, <2>1
<1> HIDE DEF hits
<1>8. ASSUME o.verdict = "no", NEW ta \in {"N", "T"}, FitsGemv(st, ta)
      PROVE  FALSE
  <2>1. st.assign = "+=" /\ Len(st.indices) = 1
    BY <1>8 DEF FitsGemv, IsProduct
  <2>2. Matched(Gemv(st, ta, Scaled(st)))
    BY <1>5, <1>8, <2>1, GemvMatches DEF Plain
  <2>3. \E n \in 1..4 : tries[n] = try(ta, Scaled(st))
    <3>1. Scaled(st) = TRUE \/ Scaled(st) = FALSE
      BY <1>5
    <3>2. ta = "N" \/ ta = "T"
      OBVIOUS
    <3>3. 1 \in 1..4 /\ 2 \in 1..4 /\ 3 \in 1..4 /\ 4 \in 1..4
      OBVIOUS
    <3> QED
      BY ONLY <1>3, <3>1, <3>2, <3>3
  <2>4. PICK n \in 1..4 : tries[n] = try(ta, Scaled(st))
    BY <2>3
  <2>5. n \in hits
    BY <1>4, <1>5, <1>6, <2>2, <2>4
  <2> QED
    BY <1>1, <1>2, <1>8, <2>1, <2>5
<1>9. ASSUME o.verdict = "emit"
      PROVE  \E d : o.builders = <<d>> /\ d.op = "matvec" /\ GemvRight(st, d)
  <2>1. st.assign = "+=" /\ hits # {} /\ o = Emit(<<b>>)
    BY <1>1, <1>2, <1>9
  <2>2. Min(hits) \in hits
    BY <1>6, <2>1, MinHit
  <2>3. PICK ta \in {"N", "T"}, scaled \in BOOLEAN : mvi = try(ta, scaled)
    BY <1>6, <1>7, <2>2
  <2>4. Matched(Gemv(st, ta, scaled))
    BY <1>4, <1>6, <2>2, <2>3
  <2>5. /\ FitsGemv(st, ta) /\ scaled = Scaled(st)
        /\ mvi.ctx["A"] = Operand(st, 1).name /\ mvi.ctx["B"] = Operand(st, 2).name
    BY <1>4, <2>1, <2>3, <2>4, GemvMatches DEF Plain
  <2>6. mvi.transa = ta /\ (mvi.alpha = "alpha" <=> scaled)
    BY <1>4, <2>3
  <2> HIDE DEF mvi
  <2>7. /\ b.op = "matvec" /\ b.ins = <<Operand(st, 1).name, Operand(st, 2).name>>
        /\ b.out = st.name /\ b.transa = ta /\ b.alpha = mvi.alpha
    BY <2>5, <2>6 DEF b
  <2>8. GemvRight(st, b)
    BY <2>5, <2>6, <2>7 DEF GemvRight, Scaled
  <2> QED
    BY <1>2, <2>1, <2>7, <2>8
<1> QED
  BY <1>8, <1>9 DEF o

-------------------------------------------------------------------------------
\* The tensors a recogniser names are those of the statement, whatever the names.

IsCtx(ctx) == ctx = [r \in Roles |-> ctx[r]]

LEMMA BindSets ==
  ASSUME NEW ctx, IsCtx(ctx) \/ ctx = Failed, NEW r \in Roles, NEW v
  PROVE  LET res == Bind(ctx, r, v)
         IN  /\ IsCtx(res) \/ res = Failed
             /\ Matched(res) => /\ Matched(ctx) /\ res[r] = v
                                /\ \A q \in Roles \ {r} : res[q] = ctx[q]
<1>1. CASE Bind(ctx, r, v) = Failed
  BY <1>1 DEF Matched
<1>2. CASE Bind(ctx, r, v) # Failed
  <2>1. Matched(ctx) /\ Bind(ctx, r, v) = [ctx EXCEPT ![r] = v]
    BY <1>2 DEF Bind, Assign
  <2>2. IsCtx(ctx)
    BY <2>1 DEF Matched
  <2>3. DOMAIN ctx = Roles
    BY <2>2 DEF IsCtx
  <2>4. Bind(ctx, r, v) = [q \in Roles |-> IF q = r THEN v ELSE ctx[q]]
    BY <2>1, <2>3
  <2> QED
    BY <2>1, <2>4 DEF IsCtx
<1> QED
  BY <1>1, <1>2

\* A matched access names its array's role and leaves the other one alone.
Names(ctx, t, array, res) ==
  /\ IsCtx(res) \/ res = Failed
  /\ Matched(res) => /\ Matched(ctx) /\ t.kind = "apply" /\ res[array] = t.name
                     /\ \A q \in {"A", "B"} \ {array} : res[q] = ctx[q]

LEMMA AccessSets ==
  ASSUME NEW ctx, IsCtx(ctx) \/ ctx = Failed, NEW t, NEW array \in {"A", "B"},
         NEW r1 \in {"i", "j", "k"}, NEW r2 \in {"i", "j", "k"}
  PROVE  /\ Names(ctx, t, array, MatchAccess(ctx, t, array, <<r1>>))
         /\ Names(ctx, t, array, MatchAccess(ctx, t, array, <<r1, r2>>))
<1>0. array \in Roles /\ r1 \in Roles /\ r2 \in Roles /\ ~Matched(Failed)
  BY DEF Roles, Matched
<1> DEFINE c1 == Bind(ctx, r1, t.args[1].name)
           c2 == Bind(c1, r2, t.args[2].name)
           d1 == Bind(c1, array, t.name)
           d2 == Bind(c2, array, t.name)
<1>1. /\ IsCtx(c1) \/ c1 = Failed
      /\ Matched(c1) => Matched(ctx) /\ \A q \in {"A", "B"} : c1[q] = ctx[q]
  <2>1. /\ IsCtx(c1) \/ c1 = Failed
        /\ Matched(c1) => Matched(ctx) /\ \A q \in Roles \ {r1} : c1[q] = ctx[q]
    BY <1>0, BindSets
  <2> HIDE DEF c1
  <2> QED
    BY <2>1 DEF Roles
<1> HIDE DEF c1
<1>2. /\ IsCtx(c2) \/ c2 = Failed
      /\ Matched(c2) => Matched(c1) /\ \A q \in {"A", "B"} : c2[q] = c1[q]
  <2>1. /\ IsCtx(c2) \/ c2 = Failed
        /\ Matched(c2) => Matched(c1) /\ \A q \in Roles \ {r2} : c2[q] = c1[q]
    BY <1>0, <1>1, BindSets
  <2> HIDE DEF c2
  <2> QED
    BY <2>1 DEF Roles
<1> HIDE DEF c2
<1>3. /\ IsCtx(d1) \/ d1 = Failed
      /\ Matched(d1) => Matched(c1) /\ d1[array] = t.name /\ \A q \in Roles \ {array} : d1[q] = c1[q]
  BY <1>0, <1>1, BindSets
<1>4. /\ IsCtx(d2) \/ d2 = Failed
      /\ Matched(d2) => Matched(c2) /\ d2[array] = t.name /\ \A q \in Roles \ {array} : d2[q] = c2[q]
  BY <1>0, <1>2, BindSets
<1>5. MatchAccess(ctx, t, array, <<r1>>) \in {Failed, d1}
      /\ (MatchAccess(ctx, t, array, <<r1>>) # Failed => t.kind = "apply")
  BY MatchVector DEF c1
<1>6. MatchAccess(ctx, t, array, <<r1, r2>>) \in {Failed, d2}
      /\ (MatchAccess(ctx, t, array, <<r1, r2>>) # Failed => t.kind = "apply")
  BY MatchMatrix DEF c1, c2
<1> HIDE DEF d1, d2
<1>7. Names(ctx, t, array, MatchAccess(ctx, t, array, <<r1>>))
  BY <1>0, <1>1, <1>3, <1>5 DEF Roles, Matched, Names
<1>8. Names(ctx, t, array, MatchAccess(ctx, t, array, <<r1, r2>>))
  BY <1>0, <1>1, <1>2, <1>4, <1>6 DEF Roles, Matched, Names
<1> QED
  BY <1>7, <1>8

\* Index roles of an access pattern.
RolesOf(a) == \E r1, r2 \in {"i", "j", "k"} : a = <<r1, r2>> \/ a = <<r1>>

LEMMA RecogniseNames ==
  ASSUME NEW st, IsStatement(st), NEW a, RolesOf(a), NEW b, RolesOf(b), NEW outRoles,
         NEW scaled \in BOOLEAN, Matched(Recognise(st, a, b, outRoles, scaled))
  PROVE  LET ctx == Recognise(st, a, b, outRoles, scaled)
         IN  {ctx["A"], ctx["B"]} \subseteq ToSet(st.rhs.idents)
<1> DEFINE ctx == Recognise(st, a, b, outRoles, scaled)
           e == IF scaled THEN st.rhs.kids[2] ELSE st.rhs
           first == MatchAccess(Free, e.kids[1], "A", a)
           both == MatchAccess(first, e.kids[2], "B", b)
<1>1. Matched(ctx) /\ ctx = MatchScaledProduct(st.rhs, a, b, scaled)
  BY DEF Recognise, Matched
<1>2. st.rhs.kind = "*" /\ e.kind = "*" /\ ctx = both
  BY <1>1 DEF MatchScaledProduct, MatchProduct, Matched
<1>3. IsCtx(Free)
  BY FreeCtx DEF IsCtx, Ctx
<1>4. /\ IsCtx(first) \/ first = Failed
      /\ Matched(first) => e.kids[1].kind = "apply" /\ first["A"] = e.kids[1].name
  <2>1. PICK r1 \in {"i", "j", "k"}, r2 \in {"i", "j", "k"} : a = <<r1, r2>> \/ a = <<r1>>
    BY DEF RolesOf
  <2>2. PICK t : t = e.kids[1]
    OBVIOUS
  <2>3. /\ Names(Free, t, "A", MatchAccess(Free, t, "A", <<r1>>))
        /\ Names(Free, t, "A", MatchAccess(Free, t, "A", <<r1, r2>>))
    BY <1>3, AccessSets
  <2>4. Names(Free, t, "A", MatchAccess(Free, t, "A", a))
    BY <2>1, <2>3
  <2> QED
    BY <2>2, <2>4 DEF Names
<1> HIDE DEF first
<1>5. Matched(both) => /\ Matched(first) /\ e.kids[2].kind = "apply"
                       /\ both["B"] = e.kids[2].name /\ both["A"] = first["A"]
  <2>1. PICK r1 \in {"i", "j", "k"}, r2 \in {"i", "j", "k"} : b = <<r1, r2>> \/ b = <<r1>>
    BY DEF RolesOf
  <2>2. PICK t : t = e.kids[2]
    OBVIOUS
  <2>3. /\ Names(first, t, "B", MatchAccess(first, t, "B", <<r1>>))
        /\ Names(first, t, "B", MatchAccess(first, t, "B", <<r1, r2>>))
    BY <1>4, AccessSets
  <2>4. Names(first, t, "B", MatchAccess(first, t, "B", b))
    BY <2>1, <2>3
  <2> QED
    BY <2>2, <2>4 DEF Names
<1>6. Operandlike(st.rhs, e.kids[1]) /\ Operandlike(st.rhs, e.kids[2])
  BY <1>2, ProductOperands DEF IsStatement
<1> HIDE DEF both, ctx, e
<1>7. /\ e.kids[1].kind = "apply" => e.kids[1].name \in ToSet(st.rhs.idents)
      /\ e.kids[2].kind = "apply" => e.kids[2].name \in ToSet(st.rhs.idents)
  BY <1>6, OperandNamed DEF IsStatement
<1>8. ctx["A"] \in ToSet(st.rhs.idents) /\ ctx["B"] \in ToSet(st.rhs.idents)
  BY <1>1, <1>2, <1>4, <1>5, <1>7
<1> QED
  BY <1>8 DEF ctx
-------------------------------------------------------------------------------
\* What a sequence is.
LEMMA SeqIs ==
  ASSUME NEW s, IsSeq(s)
  PROVE  Len(s) \in Nat /\ DOMAIN s = 1..Len(s) /\ s \in Seq(Range(s))
<1>1. {s[p] : p \in DOMAIN s} = Range(s)
  BY DEF Range
<1>2. s \in Seq(Range(s))
  BY <1>1 DEF IsSeq
<1> QED
  BY <1>2, LenProperties

\* A list without repetitions is no longer than one that has all its elements.
LEMMA NoLonger ==
  ASSUME NEW s, IsSeq(s), IsInjective(s), NEW t, IsSeq(t), Range(s) \subseteq Range(t)
  PROVE  Len(s) <= Len(t)
<1>1. /\ Len(s) \in Nat /\ DOMAIN s = 1..Len(s)
      /\ Len(t) \in Nat /\ DOMAIN t = 1..Len(t)
  BY SeqIs
<1> SUFFICES ASSUME Len(t) < Len(s) PROVE FALSE
  BY <1>1
<1> DEFINE f == [p \in 1..Len(s) |-> CHOOSE q \in 1..Len(t) : t[q] = s[p]]
<1>2. ASSUME NEW p \in 1..Len(s) PROVE f[p] \in 1..Len(t) /\ t[f[p]] = s[p]
  <2>1. \E q \in 1..Len(t) : t[q] = s[p]
    BY <1>1 DEF Range
  <2> QED
    BY <2>1
<1>3. f \in [1..Len(s) -> 1..Len(t)]
  BY <1>2
<1>4. /\ IsFiniteSet(1..Len(s)) /\ Cardinality(1..Len(s)) = Len(s)
      /\ IsFiniteSet(1..Len(t)) /\ Cardinality(1..Len(t)) = Len(t)
  <2>1. 1 \in Int /\ Len(s) \in Int /\ Len(t) \in Int
    BY <1>1
  <2>2. /\ IsFiniteSet(1..Len(s)) /\ Cardinality(1..Len(s)) = IF 1 > Len(s) THEN 0 ELSE Len(s) - 1 + 1
        /\ IsFiniteSet(1..Len(t)) /\ Cardinality(1..Len(t)) = IF 1 > Len(t) THEN 0 ELSE Len(t) - 1 + 1
    BY ONLY <2>1, FS_Interval
  <2> QED
    BY <1>1, <2>2
<1> HIDE DEF f
<1>5. \E x, y \in 1..Len(s) : x # y /\ f[x] = f[y]
  BY <1>3, <1>4, FS_PigeonHole
<1> QED
  BY <1>1, <1>2, <1>5 DEF IsInjective

\* Of a name that occurs once, the position is where it stands.
LEMMA PositionIs ==
  ASSUME NEW s, IsSeq(s), IsInjective(s), NEW q \in DOMAIN s
  PROVE  Position(s[q], s) = q - 1
<1>1. Len(s) \in Nat /\ DOMAIN s = 1..Len(s)
  BY SeqIs
<1>2. Contains(s, s[q])
  BY <1>1 DEF Contains
<1> DEFINE IsFirst(p) == s[p] = s[q] /\ \A r \in 1..(p - 1) : s[r] # s[q]
<1>3. IsFirst(q)
  BY <1>1 DEF IsInjective
<1>4. \A p \in DOMAIN s : IsFirst(p) => p = q
  BY DEF IsInjective
<1>5. (CHOOSE p \in DOMAIN s : IsFirst(p)) = q
  <2> HIDE DEF IsFirst
  <2> QED
    BY <1>3, <1>4
<1> QED
  BY <1>2, <1>5 DEF Position

\* The walk over source for one name, unfolded.
LEMMA PositionsSteps ==
  ASSUME NEW x, NEW s, Len(s) \in Nat
  PROVE  \E f : /\ f[0] = <<>>
                /\ \A n \in 1..Len(s) :
                     f[n] = IF s[n] = x THEN Append(f[n - 1], n - 1) ELSE f[n - 1]
                /\ PositionsOf(x, s) = f[Len(s)]
<1> DEFINE Steps(f, m) == f = [n \in 0..m |-> IF n = 0 THEN <<>>
                               ELSE IF s[n] = x THEN Append(f[n - 1], n - 1) ELSE f[n - 1]]
           T == {m \in Nat : \E f : Steps(f, m)}
<1>1. 0 \in T
  <2>1. Steps([n \in 0..0 |-> <<>>], 0)
    OBVIOUS
  <2> QED
    BY <2>1
<1>2. ASSUME NEW m \in Nat, m \in T PROVE m + 1 \in T
  <2>1. PICK f : Steps(f, m)
    BY <1>2
  <2> DEFINE g == [n \in 0..(m + 1) |-> IF n <= m THEN f[n]
                                        ELSE IF s[n] = x THEN Append(f[m], m) ELSE f[m]]
  <2>2. Steps(g, m + 1)
    <3> SUFFICES ASSUME NEW n \in 0..(m + 1)
                 PROVE  g[n] = IF n = 0 THEN <<>>
                               ELSE IF s[n] = x THEN Append(g[n - 1], n - 1) ELSE g[n - 1]
      OBVIOUS
    <3>1. CASE n <= m
      <4>1. g[n] = f[n] /\ (n # 0 => g[n - 1] = f[n - 1])
        BY <3>1
      <4>2. f[n] = IF n = 0 THEN <<>>
                   ELSE IF s[n] = x THEN Append(f[n - 1], n - 1) ELSE f[n - 1]
        <5>1. n \in 0..m
          BY <3>1
        <5> QED
          BY <2>1, <5>1, Zenon
      <4> QED
        BY <4>1, <4>2
    <3>2. CASE n = m + 1
      <4>1. n # 0 /\ n - 1 = m /\ g[n - 1] = f[m]
        BY <3>2
      <4>2. g[n] = IF s[n] = x THEN Append(f[m], m) ELSE f[m]
        BY <3>2
      <4> QED
        BY <4>1, <4>2
    <3> QED
      BY <3>1, <3>2
  <2> HIDE DEF g, Steps
  <2>3. \E h : Steps(h, m + 1)
    BY <2>2
  <2> QED
    BY <2>3
<1>3. \E f : Steps(f, Len(s))
  <2> HIDE DEF Steps
  <2> QED
    BY <1>1, <1>2, Induction
<1> DEFINE h == CHOOSE h : Steps(h, Len(s))
<1>4. Steps(h, Len(s))
  BY <1>3
<1>5. PositionsOf(x, s) = h[Len(s)]
  BY DEF PositionsOf
<1> HIDE DEF h
<1>6. \A n \in 0..Len(s) : h[n] = IF n = 0 THEN <<>>
                                   ELSE IF s[n] = x THEN Append(h[n - 1], n - 1) ELSE h[n - 1]
  BY <1>4
<1>7. h[0] = <<>>
  BY <1>6
<1>8. ASSUME NEW n \in 1..Len(s)
      PROVE  h[n] = IF s[n] = x THEN Append(h[n - 1], n - 1) ELSE h[n - 1]
  <2>1. n \in 0..Len(s) /\ n # 0
    OBVIOUS
  <2> QED
    BY <1>6, <2>1, Zenon
<1> QED
  BY <1>5, <1>7, <1>8

\* It finds a name that occurs once where it stands.
LEMMA PositionsOfIs ==
  ASSUME NEW s, IsSeq(s), IsInjective(s), NEW q \in DOMAIN s
  PROVE  PositionsOf(s[q], s) = <<q - 1>>
<1>1. Len(s) \in Nat /\ DOMAIN s = 1..Len(s)
  BY SeqIs
<1>2. PICK f : /\ f[0] = <<>>
               /\ \A n \in 1..Len(s) :
                    f[n] = IF s[n] = s[q] THEN Append(f[n - 1], n - 1) ELSE f[n - 1]
               /\ PositionsOf(s[q], s) = f[Len(s)]
  BY <1>1, PositionsSteps
<1> DEFINE T == {n \in Nat : n <= Len(s) => f[n] = IF n < q THEN <<>> ELSE <<q - 1>>}
<1>3. 0 \in T
  BY <1>1, <1>2
<1>4. ASSUME NEW n \in Nat, n \in T PROVE n + 1 \in T
  <2> SUFFICES ASSUME n + 1 <= Len(s)
               PROVE  f[n + 1] = IF n + 1 < q THEN <<>> ELSE <<q - 1>>
    OBVIOUS
  <2>1. f[n] = IF n < q THEN <<>> ELSE <<q - 1>>
    BY <1>1, <1>4
  <2>2. n + 1 \in 1..Len(s) /\ (n + 1) - 1 = n
    BY <1>1
  <2>3. f[n + 1] = IF s[n + 1] = s[q] THEN Append(f[n], n) ELSE f[n]
    BY <1>2, <2>2
  <2>4. s[n + 1] = s[q] <=> n + 1 = q
    BY <1>1, <2>2 DEF IsInjective
  <2>5. CASE n + 1 = q
    <3>0. n < q
      BY <1>1, <2>5
    <3>1. f[n + 1] = Append(<<>>, n)
      BY <2>1, <2>3, <2>4, <2>5, <3>0, Zenon
    <3>2. Append(<<>>, n) = <<n>> /\ n = q - 1
      BY <1>1, <2>5
    <3> QED
      BY <1>1, <2>2, <2>5, <3>1, <3>2
  <2>6. CASE n + 1 # q
    BY <1>1, <2>1, <2>3, <2>4, <2>6
  <2> QED
    BY <2>5, <2>6
<1>5. Len(s) \in T
  <2> HIDE DEF T
  <2> QED
    BY <1>1, <1>3, <1>4, Induction
<1> QED
  BY <1>1, <1>2, <1>5

\* The walk over dest, unfolded.
LEMMA OrderingSteps ==
  ASSUME NEW s, NEW d, Len(d) \in Nat
  PROVE  \E f : /\ f[0] = <<>>
                /\ \A n \in 1..Len(d) : f[n] = f[n - 1] \o PositionsOf(d[n], s)
                /\ GetOrdering(s, d) = f[Len(d)]
<1> DEFINE Steps(f, m) == f = [n \in 0..m |-> IF n = 0 THEN <<>>
                                              ELSE f[n - 1] \o PositionsOf(d[n], s)]
           T == {m \in Nat : \E f : Steps(f, m)}
<1>1. 0 \in T
  <2>1. Steps([n \in 0..0 |-> <<>>], 0)
    OBVIOUS
  <2> QED
    BY <2>1
<1>2. ASSUME NEW m \in Nat, m \in T PROVE m + 1 \in T
  <2>1. PICK f : Steps(f, m)
    BY <1>2
  <2> DEFINE g == [n \in 0..(m + 1) |-> IF n <= m THEN f[n] ELSE f[m] \o PositionsOf(d[n], s)]
  <2>2. Steps(g, m + 1)
    <3> SUFFICES ASSUME NEW n \in 0..(m + 1)
                 PROVE  g[n] = IF n = 0 THEN <<>> ELSE g[n - 1] \o PositionsOf(d[n], s)
      OBVIOUS
    <3>1. CASE n <= m
      BY <2>1, <3>1
    <3>2. CASE n = m + 1
      BY <2>1, <3>2
    <3> QED
      BY <3>1, <3>2
  <2> HIDE DEF g, Steps
  <2>3. \E h : Steps(h, m + 1)
    BY <2>2
  <2> QED
    BY <2>3
<1>3. \E f : Steps(f, Len(d))
  <2> HIDE DEF Steps
  <2> QED
    BY <1>1, <1>2, Induction
<1> DEFINE h == CHOOSE h : Steps(h, Len(d))
<1>4. Steps(h, Len(d))
  BY <1>3
<1>5. GetOrdering(s, d) = h[Len(d)]
  BY DEF GetOrdering
<1> HIDE DEF h
<1>6. \A n \in 0..Len(d) : h[n] = IF n = 0 THEN <<>> ELSE h[n - 1] \o PositionsOf(d[n], s)
  BY <1>4
<1>7. h[0] = <<>>
  BY <1>6
<1>8. ASSUME NEW n \in 1..Len(d) PROVE h[n] = h[n - 1] \o PositionsOf(d[n], s)
  <2>1. n \in 0..Len(d) /\ n # 0
    OBVIOUS
  <2> QED
    BY <1>6, <2>1, Zenon
<1> QED
  BY <1>5, <1>7, <1>8

\* getOrdering finds each name of dest once in source.
LEMMA OrderingIs ==
  ASSUME NEW s, IsSeq(s), IsInjective(s), NEW d, IsSeq(d), Range(d) \subseteq Range(s)
  PROVE  LET o == GetOrdering(s, d) IN
         /\ o \in Seq(Nat) /\ Len(o) = Len(d) /\ DOMAIN o = DOMAIN d
         /\ \A p \in DOMAIN d : o[p] + 1 \in DOMAIN s /\ s[o[p] + 1] = d[p]
<1>1. /\ Len(s) \in Nat /\ DOMAIN s = 1..Len(s)
      /\ Len(d) \in Nat /\ DOMAIN d = 1..Len(d)
  BY SeqIs
<1>2. PICK f : /\ f[0] = <<>>
               /\ \A n \in 1..Len(d) : f[n] = f[n - 1] \o PositionsOf(d[n], s)
               /\ GetOrdering(s, d) = f[Len(d)]
  BY <1>1, OrderingSteps
<1> DEFINE Right(o, n) == /\ o \in Seq(Nat) /\ Len(o) = n
                          /\ \A p \in 1..n : o[p] + 1 \in DOMAIN s /\ s[o[p] + 1] = d[p]
           T == {n \in Nat : n <= Len(d) => Right(f[n], n)}
<1>3. 0 \in T
  <2>1. f[0] \in Seq(Nat) /\ Len(f[0]) = 0
    BY <1>2
  <2> QED
    BY <2>1
<1>4. ASSUME NEW n \in Nat, n \in T PROVE n + 1 \in T
  <2> SUFFICES ASSUME n + 1 <= Len(d) PROVE Right(f[n + 1], n + 1)
    OBVIOUS
  <2>1. Right(f[n], n)
    BY <1>1, <1>4
  <2>2. n + 1 \in 1..Len(d) /\ (n + 1) - 1 = n
    BY <1>1
  <2>3. f[n + 1] = f[n] \o PositionsOf(d[n + 1], s)
    BY <1>2, <2>2
  <2>4. PICK q \in DOMAIN s : s[q] = d[n + 1]
    BY <1>1, <2>2 DEF Range
  <2>5. f[n + 1] = f[n] \o <<q - 1>>
    BY <2>3, <2>4, PositionsOfIs
  <2>6. q - 1 \in Nat /\ (q - 1) + 1 = q
    BY <1>1, <2>4
  <2>7. PICK j \in Nat : j + 1 = q /\ f[n + 1] = f[n] \o <<j>>
    BY <2>5, <2>6
  <2>8. /\ f[n] \o <<j>> \in Seq(Nat) /\ Len(f[n] \o <<j>>) = n + 1
        /\ \A p \in 1..n : (f[n] \o <<j>>)[p] = f[n][p]
        /\ (f[n] \o <<j>>)[n + 1] = j
    <3>1. PICK u \in Seq(Nat) : u = f[n] /\ Len(u) = n
      BY <2>1
    <3>2. /\ u \o <<j>> \in Seq(Nat) /\ Len(u \o <<j>>) = n + 1
          /\ \A p \in 1..n : (u \o <<j>>)[p] = u[p]
          /\ (u \o <<j>>)[n + 1] = j
      <4>0. <<j>> \in Seq(Nat) /\ Len(<<j>>) = 1 /\ <<j>>[1] = j
        BY ONLY j \in Nat
      <4>1. PICK v \in Seq(Nat) : v = <<j>> /\ Len(v) = 1 /\ v[1] = j
        BY ONLY <4>0
      <4>2. /\ u \o v \in Seq(Nat) /\ Len(u \o v) = Len(u) + Len(v)
            /\ \A p \in 1..(Len(u) + Len(v)) :
                 (u \o v)[p] = IF p <= Len(u) THEN u[p] ELSE v[p - Len(u)]
        BY ONLY u \in Seq(Nat), v \in Seq(Nat), ConcatProperties
      <4> QED
        BY ONLY <3>1, <4>1, <4>2, n \in Nat
    <3> QED
      BY <3>1, <3>2
  <2>9. ASSUME NEW p \in 1..(n + 1)
        PROVE  f[n + 1][p] + 1 \in DOMAIN s /\ s[f[n + 1][p] + 1] = d[p]
    <3>1. CASE p = n + 1
      BY <2>4, <2>7, <2>8, <3>1
    <3>2. CASE p # n + 1
      <4>1. p \in 1..n /\ f[n + 1][p] = f[n][p]
        BY <2>7, <2>8, <3>2
      <4> QED
        BY <2>1, <4>1
    <3> QED
      BY <3>1, <3>2
  <2> QED
    BY <2>7, <2>8, <2>9
<1>5. Len(d) \in T
  <2> HIDE DEF T
  <2> QED
    BY <1>1, <1>3, <1>4, Induction
<1>6. Right(GetOrdering(s, d), Len(d))
  BY <1>1, <1>2, <1>5
<1> QED
  BY <1>1, <1>6

\* The names of the arguments of an access.
LEMMA ArgNamesIs ==
  ASSUME NEW t, IsNode(t), t.kind = "apply"
  PROVE  /\ IsSeq(t.args) /\ IsSeq(ArgNames(t)) /\ Len(ArgNames(t)) = Len(t.args)
         /\ DOMAIN ArgNames(t) = DOMAIN t.args
<1>1. IsSeq(t.args)
  BY DEF IsNode
<1>2. Len(t.args) \in Nat /\ DOMAIN t.args = 1..Len(t.args)
  BY <1>1, SeqIs
<1> DEFINE a == ArgNames(t)
<1>3. DOMAIN a = 1..Len(t.args) /\ a \in Seq({a[p] : p \in DOMAIN a}) /\ Len(a) = Len(t.args)
  BY <1>2 DEF ArgNames
<1> QED
  BY <1>1, <1>2, <1>3 DEF IsSeq

\* matchReshape leaves a transposition to matchTranspose, which prints the right
\* permutation.
LEMMA TransposeLowered ==
  ASSUME NEW st, IsStatement(st), IsTransposition(st)
  PROVE  /\ \E b : TryTranspose(st) = Emit(<<b>>) /\ TransposeRight(st, b)
         /\ \A temp : TryReshape(st, temp) = No
<1> DEFINE args == ArgNames(st.rhs)
<1>1. /\ st.assign = "=" /\ st.rhs.kind = "apply" /\ IdentArgs(st.rhs) /\ st.where = <<>>
      /\ IsInjective(st.indices) /\ IsInjective(args) /\ Range(st.indices) = Range(args)
  BY DEF IsTransposition, IsView
<1>2. IsNode(st.rhs)
  BY DEF IsStatement, IsTree
<1>3. OneAccess(st)
  BY <1>1, <1>2 DEF IsNode, OneAccess
<1>4. IsSeq(args) /\ Len(args) = Len(st.rhs.args) /\ IsSeq(st.indices)
  BY <1>1, <1>2, ArgNamesIs DEF IsStatement
<1> HIDE DEF args
<1>5. Len(st.indices) = Len(st.rhs.args)
  <2>1. Len(st.indices) <= Len(args) /\ Len(args) <= Len(st.indices)
    BY <1>1, <1>4, NoLonger
  <2>2. Len(args) \in Nat /\ Len(st.indices) \in Nat
    BY <1>4, SeqIs
  <2> QED
    BY <1>4, <2>1, <2>2
<1>6. AllIn(st.indices, args)
  <2>1. DOMAIN args = 1..Len(args)
    BY <1>4, SeqIs
  <2>2. \A p \in DOMAIN st.indices : \E q \in DOMAIN args : args[q] = st.indices[p]
    BY <1>1 DEF Range
  <2> QED
    BY <2>1, <2>2 DEF AllIn, Contains
<1> DEFINE o == GetOrdering(args, st.indices)
           b == TransposeB(st.rhs.name, st.name, o)
<1>7. TryTranspose(st) = Emit(<<b>>)
  BY <1>1, <1>3, <1>5, <1>6 DEF TryTranspose, args
<1>8. TransposeRight(st, b)
  <2>1. /\ DOMAIN o = DOMAIN st.indices
        /\ \A p \in DOMAIN st.indices : args[o[p] + 1] = st.indices[p]
    BY <1>1, <1>4, OrderingIs
  <2> HIDE DEF o
  <2>2. Permuted(args, o) = [p \in DOMAIN st.indices |-> st.indices[p]]
    BY <2>1 DEF Permuted
  <2>3. st.indices = [p \in DOMAIN st.indices |-> st.indices[p]]
    BY <1>4 DEF IsSeq
  <2> QED
    BY <2>2, <2>3 DEF TransposeRight, TransposeB, args
<1>9. \A temp : TryReshape(st, temp) = No
  BY <1>1, <1>3, <1>5 DEF TryReshape
<1> HIDE DEF b
<1> QED
  BY <1>7, <1>8, <1>9
-------------------------------------------------------------------------------
\* composeGroup, position by position.
LEMMA BracedSteps ==
  ASSUME NEW ps, Len(ps) \in Nat
  PROVE  \E f : /\ f[0] = <<"{">>
                /\ \A n \in 1..Len(ps) :
                     f[n] = f[n - 1] \o (IF n = Len(ps) THEN <<ToString(ps[n])>> ELSE <<ToString(ps[n]), ",">>)
                /\ Braced(ps) = Append(f[Len(ps)], "}")
<1> DEFINE Open == <<"{">>
           Item(n) == IF n = Len(ps) THEN <<ToString(ps[n])>> ELSE <<ToString(ps[n]), ",">>
           Steps(f, m) == f = [n \in 0..m |-> IF n = 0 THEN Open ELSE f[n - 1] \o Item(n)]
           T == {m \in Nat : \E f : Steps(f, m)}
           h == CHOOSE h : Steps(h, Len(ps))
<1>1. Braced(ps) = Append(h[Len(ps)], "}")
  BY DEF Braced
<1> HIDE DEF h, Open, Item
<1>2. 0 \in T
  <2>1. Steps([n \in 0..0 |-> Open], 0)
    OBVIOUS
  <2> QED
    BY <2>1
<1>3. ASSUME NEW m \in Nat, m \in T PROVE m + 1 \in T
  <2>1. PICK f : Steps(f, m)
    BY <1>3
  <2> DEFINE g == [n \in 0..(m + 1) |-> IF n <= m THEN f[n] ELSE f[m] \o Item(n)]
  <2>2. Steps(g, m + 1)
    <3> SUFFICES ASSUME NEW n \in 0..(m + 1)
                 PROVE  g[n] = IF n = 0 THEN Open ELSE g[n - 1] \o Item(n)
      OBVIOUS
    <3>1. CASE n <= m
      <4>1. g[n] = f[n] /\ (n # 0 => g[n - 1] = f[n - 1])
        BY <3>1
      <4>2. n \in 0..m
        BY <3>1
      <4>3. f[n] = IF n = 0 THEN Open ELSE f[n - 1] \o Item(n)
        BY <2>1, <4>2, Zenon
      <4> QED
        BY <4>1, <4>3
    <3>2. CASE n = m + 1
      BY <2>1, <3>2
    <3> QED
      BY <3>1, <3>2
  <2> HIDE DEF g, Steps
  <2>3. \E f0 : Steps(f0, m + 1)
    BY <2>2
  <2> QED
    BY <2>3
<1>4. \E f : Steps(f, Len(ps))
  <2> HIDE DEF Steps
  <2> QED
    BY <1>2, <1>3, Induction
<1>5. Steps(h, Len(ps))
  BY <1>4 DEF h
<1>6. \A n \in 0..Len(ps) : h[n] = IF n = 0 THEN Open ELSE h[n - 1] \o Item(n)
  BY <1>5, Zenon
<1>7. h[0] = Open
  BY <1>6
<1>8. ASSUME NEW n \in 1..Len(ps) PROVE h[n] = h[n - 1] \o Item(n)
  <2>1. n \in 0..Len(ps) /\ n # 0
    OBVIOUS
  <2> QED
    BY <1>6, <2>1, Zenon
<1> QED
  BY <1>1, <1>7, <1>8 DEF Open, Item

\* The same for a list with commas.
LEMMA CommasSteps ==
  ASSUME NEW items, Len(items) \in Nat
  PROVE  \E f : /\ f[0] = <<>>
                /\ \A n \in 1..Len(items) :
                     f[n] = f[n - 1] \o ((IF n = 1 THEN <<>> ELSE <<",">>) \o items[n])
                /\ Commas(items) = f[Len(items)]
<1> DEFINE Item(n) == (IF n = 1 THEN <<>> ELSE <<",">>) \o items[n]
           Steps(f, m) == f = [n \in 0..m |-> IF n = 0 THEN <<>> ELSE f[n - 1] \o Item(n)]
           T == {m \in Nat : \E f : Steps(f, m)}
           h == CHOOSE h : Steps(h, Len(items))
<1>1. Commas(items) = h[Len(items)]
  BY DEF Commas
<1> HIDE DEF h, Item
<1>2. 0 \in T
  <2>1. Steps([n \in 0..0 |-> <<>>], 0)
    OBVIOUS
  <2> QED
    BY <2>1
<1>3. ASSUME NEW m \in Nat, m \in T PROVE m + 1 \in T
  <2>1. PICK f : Steps(f, m)
    BY <1>3
  <2> DEFINE g == [n \in 0..(m + 1) |-> IF n <= m THEN f[n] ELSE f[m] \o Item(n)]
  <2>2. Steps(g, m + 1)
    <3> SUFFICES ASSUME NEW n \in 0..(m + 1)
                 PROVE  g[n] = IF n = 0 THEN <<>> ELSE g[n - 1] \o Item(n)
      OBVIOUS
    <3>1. CASE n <= m
      <4>1. g[n] = f[n] /\ (n # 0 => g[n - 1] = f[n - 1])
        BY <3>1
      <4>2. n \in 0..m
        BY <3>1
      <4>3. f[n] = IF n = 0 THEN <<>> ELSE f[n - 1] \o Item(n)
        BY <2>1, <4>2, Zenon
      <4> QED
        BY <4>1, <4>3
    <3>2. CASE n = m + 1
      BY <2>1, <3>2
    <3> QED
      BY <3>1, <3>2
  <2> HIDE DEF g, Steps
  <2>3. \E f0 : Steps(f0, m + 1)
    BY <2>2
  <2> QED
    BY <2>3
<1>4. \E f : Steps(f, Len(items))
  <2> HIDE DEF Steps
  <2> QED
    BY <1>2, <1>3, Induction
<1>5. Steps(h, Len(items))
  BY <1>4 DEF h
<1>6. \A n \in 0..Len(items) : h[n] = IF n = 0 THEN <<>> ELSE h[n - 1] \o Item(n)
  BY <1>5, Zenon
<1>7. h[0] = <<>>
  BY <1>6
<1>8. ASSUME NEW n \in 1..Len(items) PROVE h[n] = h[n - 1] \o Item(n)
  <2>1. n \in 0..Len(items) /\ n # 0
    OBVIOUS
  <2> QED
    BY <1>6, <2>1, Zenon
<1> QED
  BY <1>1, <1>7, <1>8 DEF Item

\* composeGroup prints a group of two or more positions as it should be.
LEMMA BracedIs ==
  ASSUME NEW g, IsSeq(g), Len(g) >= 2
  PROVE  Braced(g) = RenderDim(g)
<1> DEFINE L == Len(g)
<1>1. L \in Nat /\ DOMAIN g = 1..L /\ L # 1 /\ L # 0
  <2>1. Len(g) \in Nat /\ DOMAIN g = 1..Len(g)
    BY SeqIs
  <2> QED
    BY <2>1
<1> DEFINE items == [p \in DOMAIN g |-> <<ToString(g[p])>>]
           names == [p \in 1..L |-> ToString(g[p])]
           S == {names[p] : p \in 1..L} \cup {"{", ",", "}"}
<1>2. DOMAIN items = 1..L /\ Len(items) = L /\ \A p \in 1..L : items[p] = <<names[p]>>
  <2>1. items = [p \in 1..L |-> <<ToString(g[p])>>]
    BY <1>1
  <2> HIDE DEF items
  <2> QED
    BY <1>1, <2>1
<1>3. RenderDim(g) = <<"{">> \o Commas(items) \o <<"}">>
  BY <1>1 DEF RenderDim
<1>4. PICK f : /\ f[0] = <<"{">>
               /\ \A n \in 1..L :
                     f[n] = f[n - 1] \o (IF n = L THEN <<ToString(g[n])>> ELSE <<ToString(g[n]), ",">>)
               /\ Braced(g) = Append(f[L], "}")
  BY <1>1, BracedSteps
<1> HIDE DEF items
<1>5. PICK j : /\ j[0] = <<>>
               /\ \A n \in 1..L : j[n] = j[n - 1] \o ((IF n = 1 THEN <<>> ELSE <<",">>) \o items[n])
               /\ Commas(items) = j[L]
  <2> HIDE DEF L
  <2>1. Len(items) \in Nat
    BY <1>1, <1>2
  <2> QED
    BY ONLY <1>2, <2>1, CommasSteps, Zenon
<1>6. \A n \in 1..L : names[n] \in S /\ names[n] = ToString(g[n])
  OBVIOUS
<1>7. "{" \in S /\ "," \in S /\ "}" \in S
  OBVIOUS
<1> HIDE DEF names, S
<1>8. PICK o \in Seq(S), k \in Seq(S) : o = <<"{">> /\ k = <<",">>
  <2>1. ASSUME NEW x \in S PROVE <<x>> \in Seq(S)
    BY ONLY x \in S
  <2> QED
    BY ONLY <1>7, <2>1, Zenon
<1>9. ASSUME NEW n \in 1..L
      PROVE  /\ items[n] \in Seq(S)
             /\ f[n] = f[n - 1] \o (IF n = L THEN items[n] ELSE items[n] \o k)
             /\ j[n] = j[n - 1] \o ((IF n = 1 THEN <<>> ELSE k) \o items[n])
  <2>1. PICK x \in S : x = names[n]
    BY <1>6
  <2>2. items[n] = <<x>> /\ x = ToString(g[n])
    BY <1>2, <1>6, <2>1, Zenon
  <2>3. <<x>> \in Seq(S) /\ <<x, ",">> = <<x>> \o <<",">>
    <3>1. PICK y \in S : y = ","
      BY <1>7, Zenon
    <3>2. <<x>> \in Seq(S) /\ <<x, y>> = <<x>> \o <<y>>
      BY ONLY x \in S, y \in S
    <3> QED
      BY ONLY <3>1, <3>2, Zenon
  <2>4. f[n] = f[n - 1] \o (IF n = L THEN <<x>> ELSE <<x, ",">>)
    BY <1>4, <2>2, Zenon
  <2>5. j[n] = j[n - 1] \o ((IF n = 1 THEN <<>> ELSE <<",">>) \o items[n])
    BY <1>5, Zenon
  <2> QED
    BY ONLY <1>8, <2>2, <2>3, <2>4, <2>5
<1> DEFINE Right(n) == /\ j[n] \in Seq(S)
                       /\ f[n] = IF n = L THEN o \o j[n] ELSE (o \o j[n]) \o k
<1>10. Right(1)
  <2>1. 1 \in 1..L /\ 1 - 1 = 0 /\ 1 # L
    BY <1>1
  <2>2. PICK t \in Seq(S) : t = items[1]
    BY <1>9, <2>1
  <2>3. f[1] = o \o (t \o k) /\ j[1] = <<>> \o (<<>> \o t)
    <3>1. /\ f[1] = f[1 - 1] \o (IF 1 = L THEN items[1] ELSE items[1] \o k)
          /\ j[1] = j[1 - 1] \o ((IF 1 = 1 THEN <<>> ELSE k) \o items[1])
      BY ONLY <1>9, <2>1, Zenon
    <3>2. f[1 - 1] = o /\ j[1 - 1] = <<>>
      BY ONLY <1>4, <1>5, <1>8, <2>1, Zenon
    <3> QED
      BY ONLY <2>1, <2>2, <3>1, <3>2
  <2>4. <<>> \o (<<>> \o t) = t
    OBVIOUS
  <2>5. o \o (t \o k) = (o \o t) \o k
    BY ONLY o \in Seq(S), t \in Seq(S), k \in Seq(S)
  <2> QED
    BY ONLY <2>1, <2>2, <2>3, <2>4, <2>5
<1>11. ASSUME NEW n \in 1..L, n # L, Right(n) PROVE Right(n + 1)
  <2>1. PICK r : r = n + 1
    OBVIOUS
  <2>2. r \in 1..L /\ r # 1 /\ r - 1 = n
    <3> HIDE DEF L
    <3> QED
      BY ONLY <1>1, <1>11, <2>1
  <2>3. PICK w \in Seq(S) : w = j[n]
    BY <1>11
  <2>4. PICK t \in Seq(S) : t = items[r]
    BY <1>9, <2>2
  <2>5. f[n] = (o \o w) \o k
    BY <1>11, <2>3
  <2>6. f[r] = f[n] \o (IF r = L THEN t ELSE t \o k) /\ j[r] = w \o (k \o t)
    <3>1. /\ f[r] = f[r - 1] \o (IF r = L THEN items[r] ELSE items[r] \o k)
          /\ j[r] = j[r - 1] \o ((IF r = 1 THEN <<>> ELSE k) \o items[r])
      BY <1>9, <2>2, Zenon
    <3> QED
      BY ONLY <2>2, <2>3, <2>4, <3>1
  <2>7. /\ w \o (k \o t) \in Seq(S)
        /\ ((o \o w) \o k) \o t = o \o (w \o (k \o t))
        /\ ((o \o w) \o k) \o (t \o k) = (o \o (w \o (k \o t))) \o k
    <3>1. (o \o w) \o k = o \o (w \o k) /\ w \o k \in Seq(S)
      BY ONLY o \in Seq(S), w \in Seq(S), k \in Seq(S), SMTT(30)
    <3>2. PICK v \in Seq(S) : v = w \o k
      BY ONLY <3>1
    <3>3. v \o t \in Seq(S) /\ (o \o v) \o t = o \o (v \o t) /\ o \o v \in Seq(S)
      BY ONLY o \in Seq(S), v \in Seq(S), t \in Seq(S), SMTT(30)
    <3>4. (w \o k) \o t = w \o (k \o t)
      BY ONLY w \in Seq(S), k \in Seq(S), t \in Seq(S), SMTT(30)
    <3>5. PICK u \in Seq(S) : u = o \o v
      BY ONLY <3>3
    <3>6. u \o (t \o k) = (u \o t) \o k
      BY ONLY u \in Seq(S), t \in Seq(S), k \in Seq(S), SMTT(30)
    <3> QED
      BY ONLY <3>1, <3>2, <3>3, <3>4, <3>5, <3>6
  <2>8. j[r] \in Seq(S) /\ f[r] = IF r = L THEN o \o j[r] ELSE (o \o j[r]) \o k
    BY ONLY <2>5, <2>6, <2>7
  <2> QED
    BY ONLY <2>1, <2>8
<1>12. Right(L)
  <2> DEFINE T == {n \in Nat : n + 1 <= L => Right(n + 1)}
  <2> HIDE DEF Right, L
  <2>1. 0 \in T
    <3>1. 0 + 1 = 1
      OBVIOUS
    <3> QED
      BY ONLY <1>10, <3>1, 0 \in Nat
  <2>2. ASSUME NEW m \in Nat, m \in T PROVE m + 1 \in T
    <3>1. m + 1 \in Nat
      OBVIOUS
    <3>2. ASSUME (m + 1) + 1 <= L PROVE Right((m + 1) + 1)
      <4>1. m + 1 \in 1..L /\ m + 1 # L
        BY <1>1, <3>2
      <4>2. Right(m + 1)
        BY <2>2, <4>1
      <4> QED
        BY <1>11, <4>1, <4>2
    <3> QED
      BY <3>1, <3>2
  <2>3. L - 1 \in Nat /\ (L - 1) + 1 = L
    BY <1>1
  <2>4. L - 1 \in T
    <3> HIDE DEF T
    <3> QED
      BY <2>1, <2>2, <2>3, Induction
  <2> QED
    BY <1>1, <2>3, <2>4
<1>13. PICK w \in Seq(S) : w = j[L] /\ f[L] = o \o w
  BY <1>12
<1>14. o \o w \in Seq(S)
  BY ONLY o \in Seq(S), w \in Seq(S)
<1>15. Append(o \o w, "}") = (o \o w) \o <<"}">>
  BY ONLY <1>7, <1>14, AppendIsConcat
<1> QED
  BY ONLY <1>3, <1>4, <1>5, <1>8, <1>13, <1>15
-------------------------------------------------------------------------------
\* What IsGroupView says of the two sides.
LEMMA GroupSides ==
  ASSUME NEW st, IsStatement(st), IsGroupView(st)
  PROVE  /\ OneAccess(st) /\ ~ReshapeThrows(st) /\ Len(st.indices) # Len(st.rhs.args)
         /\ \A d \in 1..2 : /\ st.where[d] \in ToSet(st.where)
                           /\ IsSeq(st.where[d].rhs.idents) /\ Len(st.where[d].rhs.idents) >= 2
                           /\ Range(st.where[d].rhs.idents) \subseteq Range(High2(st))
                           /\ Contains(Low2(st), st.where[d].name)
                           /\ ~Contains(High2(st), st.where[d].name)
         /\ IsSeq(High2(st)) /\ IsInjective(High2(st))
         /\ ToSet(st.where) = {st.where[1], st.where[2]}
         /\ {Low2(st), High2(st)} = {st.indices, ArgNames(st.rhs)}
<1> DEFINE args == ArgNames(st.rhs)
           low == Low2(st)
           high == High2(st)
           i1 == st.where[1].rhs.idents
           i2 == st.where[2].rhs.idents
<1>1. /\ st.assign = "=" /\ st.rhs.kind = "apply" /\ IdentArgs(st.rhs)
      /\ \A w \in ToSet(st.where) : w.kind = "let" /\ Len(w.rhs.idents) >= 2
      /\ Len(st.where) = 2 /\ low = <<st.where[1].name, st.where[2].name>>
      /\ IsInjective(high) /\ IsInjective(i1 \o i2) /\ Range(i1 \o i2) = Range(high)
      /\ Range(i1 \o i2) \cap Range(low) = {}
  BY DEF IsGroupView, IsView
<1>2. /\ IsNode(st.rhs) /\ IsSeq(st.indices) /\ IsSeq(st.where)
      /\ \A w \in ToSet(st.where) : IsSeq(w.rhs.idents)
  BY <1>1 DEF IsStatement, IsTree
<1>3. OneAccess(st)
  BY <1>1, <1>2 DEF IsNode, OneAccess
<1>4. IsSeq(args) /\ Len(args) = Len(st.rhs.args)
  BY <1>1, <1>2, ArgNamesIs
<1>5. DOMAIN st.where = 1..2
  BY <1>1, <1>2, SeqIs
<1>6. ToSet(st.where) = {st.where[1], st.where[2]}
  BY <1>1 DEF ToSet
<1>7. /\ IsSeq(i1) /\ IsSeq(i2) /\ Len(i1) >= 2 /\ Len(i2) >= 2
      /\ ~ReshapeThrows(st)
  <2>1. \A w \in ToSet(st.where) : ~(Len(w.rhs.idents) < 2)
    <3> SUFFICES ASSUME NEW w \in ToSet(st.where) PROVE ~(Len(w.rhs.idents) < 2)
      OBVIOUS
    <3>1. Len(w.rhs.idents) >= 2 /\ IsSeq(w.rhs.idents)
      BY <1>1, <1>2
    <3>2. Len(w.rhs.idents) \in Nat
      BY <3>1, SeqIs
    <3> QED
      BY <3>1, <3>2
  <2> QED
    BY <1>1, <1>2, <1>6, <2>1 DEF ReshapeThrows
<1>8. (low = st.indices /\ high = args) \/ (low = args /\ high = st.indices)
  BY DEF Low2, High2
<1>9. IsSeq(high)
  BY <1>2, <1>4, <1>8
<1>10. Len(low) = 2 /\ low[1] = st.where[1].name /\ low[2] = st.where[2].name
  BY <1>1
<1> HIDE DEF args, low, high
<1>11. IsSeq(i1 \o i2) /\ Len(i1 \o i2) >= 4
       /\ Range(i1) \subseteq Range(i1 \o i2) /\ Range(i2) \subseteq Range(i1 \o i2)
  <2> HIDE DEF i1, i2
  <2> DEFINE S == Range(i1) \cup Range(i2)
             o == i1 \o i2
  <2>1. Len(i1) \in Nat /\ DOMAIN i1 = 1..Len(i1) /\ Len(i2) \in Nat /\ DOMAIN i2 = 1..Len(i2)
        /\ i1 \in Seq(Range(i1)) /\ i2 \in Seq(Range(i2))
    BY <1>7, SeqIs
  <2>2. i1 \in Seq(S) /\ i2 \in Seq(S)
    <3>1. \A p \in 1..Len(i1) : i1[p] \in S
      BY <2>1 DEF Range
    <3>2. \A p \in 1..Len(i2) : i2[p] \in S
      BY <2>1 DEF Range
    <3> HIDE DEF S
    <3> QED
      BY <2>1, <3>1, <3>2
  <2> HIDE DEF S
  <2>3. /\ o \in Seq(S) /\ Len(o) = Len(i1) + Len(i2)
        /\ \A p \in 1..(Len(i1) + Len(i2)) : o[p] = IF p <= Len(i1) THEN i1[p] ELSE i2[p - Len(i1)]
    BY <2>2, ConcatProperties
  <2> HIDE DEF o
  <2>4. DOMAIN o = 1..(Len(i1) + Len(i2))
    BY <2>3
  <2>5. o \in Seq({o[p] : p \in DOMAIN o})
    BY <2>3
  <2>6. \A p \in DOMAIN i1 : p \in DOMAIN o /\ o[p] = i1[p]
    BY <2>1, <2>3, <2>4
  <2>7. \A p \in DOMAIN i2 : p + Len(i1) \in DOMAIN o /\ o[p + Len(i1)] = i2[p]
    BY <2>1, <2>3, <2>4
  <2>8. Range(i1) \subseteq Range(o) /\ Range(i2) \subseteq Range(o)
    BY <2>6, <2>7 DEF Range
  <2>9. Len(o) >= 4
    BY <1>7, <2>1, <2>3
  <2> QED
    BY <2>5, <2>8, <2>9 DEF IsSeq, o
<1>12. Len(high) # 2
  <2>1. Len(i1 \o i2) <= Len(high)
    BY <1>1, <1>9, <1>11, NoLonger
  <2>2. Len(high) \in Nat /\ Len(i1 \o i2) \in Nat
    BY <1>9, <1>11, SeqIs
  <2>3. Len(i1 \o i2) >= 4
    BY <1>11
  <2>4. PICK n, m : n = Len(i1 \o i2) /\ m = Len(high)
    OBVIOUS
  <2>5. n \in Nat /\ m \in Nat /\ n <= m /\ n >= 4
    BY ONLY <2>1, <2>2, <2>3, <2>4, Zenon
  <2>6. m # 2
    BY ONLY <2>5
  <2> QED
    BY ONLY <2>4, <2>6, Zenon
<1>13. Len(st.indices) # Len(st.rhs.args)
  BY <1>4, <1>8, <1>10, <1>12
<1>14. ASSUME NEW d \in 1..2
       PROVE  Contains(low, st.where[d].name) /\ ~Contains(high, st.where[d].name)
  <2>1. DOMAIN low = 1..2 /\ low[d] = st.where[d].name
    BY <1>1, <1>10
  <2>2. Contains(low, st.where[d].name)
    BY <1>10, <2>1 DEF Contains
  <2>3. st.where[d].name \in Range(low)
    BY <2>1 DEF Range
  <2>4. DOMAIN high = 1..Len(high)
    BY <1>9, SeqIs
  <2>5. ~Contains(high, st.where[d].name)
    BY <1>1, <2>3, <2>4 DEF Contains, Range
  <2> QED
    BY <2>2, <2>5
<1>15. {low, high} = {st.indices, args}
  BY <1>8
<1>16. ASSUME NEW d \in 1..2
       PROVE  /\ st.where[d] \in ToSet(st.where)
              /\ IsSeq(st.where[d].rhs.idents) /\ Len(st.where[d].rhs.idents) >= 2
              /\ Range(st.where[d].rhs.idents) \subseteq Range(high)
  <2>1. CASE d = 1
    BY <1>1, <1>6, <1>7, <1>11, <2>1
  <2>2. CASE d = 2
    BY <1>1, <1>6, <1>7, <1>11, <2>2
  <2>3. d = 1 \/ d = 2
    OBVIOUS
  <2> QED
    BY ONLY <2>1, <2>2, <2>3
<1> QED
  BY ONLY <1>1, <1>3, <1>6, <1>7, <1>9, <1>13, <1>14, <1>15, <1>16, Zenon DEF args, low, high

\* matchReshape turns a grouping into one reshapeBuilder with the right map.
LEMMA GroupLowered ==
  ASSUME NEW st, IsStatement(st), IsGroupView(st)
  PROVE  \E b : GroupRight(st, b) /\ \A temp : TryReshape(st, temp) = Emit(<<b>>)
<1> DEFINE high == High2(st)
           idents(d) == st.where[d].rhs.idents
           dims == GroupDims(st)
<1>1. /\ OneAccess(st) /\ ~ReshapeThrows(st) /\ Len(st.indices) # Len(st.rhs.args)
      /\ ToSet(st.where) = {st.where[1], st.where[2]} /\ st.rhs.kind = "apply" /\ Len(st.where) = 2
  BY GroupSides DEF IsGroupView, IsView
<1>2. IsSeq(high) /\ IsInjective(high)
  BY GroupSides
<1>3. ASSUME NEW d \in 1..2
      PROVE  /\ OneSided(st, st.where[d]) /\ Group(st, st.where[d]) = dims[d]
             /\ Braced(dims[d]) = RenderDim(dims[d])
  <2>1. /\ IsSeq(idents(d)) /\ Len(idents(d)) >= 2 /\ Range(idents(d)) \subseteq Range(high)
        /\ Contains(Low2(st), st.where[d].name) /\ ~Contains(high, st.where[d].name)
    BY GroupSides
  <2>2. (Low2(st) = st.indices /\ high = ArgNames(st.rhs)) \/ (Low2(st) = ArgNames(st.rhs) /\ high = st.indices)
    BY DEF Low2, High2
  <2>3. /\ OneSided(st, st.where[d])
        /\ Group(st, st.where[d]) = [p \in DOMAIN idents(d) |-> Position(idents(d)[p], high)]
    <3> HIDE DEF high
    <3> QED
      BY <2>1, <2>2 DEF OneSided, Group
  <2>4. dims[d] = [p \in DOMAIN idents(d) |-> (CHOOSE q \in DOMAIN high : high[q] = idents(d)[p]) - 1]
    BY DEF GroupDims
  <2> HIDE DEF high, idents, dims
  <2>5. ASSUME NEW p \in DOMAIN idents(d)
        PROVE  Position(idents(d)[p], high) = (CHOOSE q \in DOMAIN high : high[q] = idents(d)[p]) - 1
    <3>1. \E q \in DOMAIN high : high[q] = idents(d)[p]
      BY <2>1 DEF Range
    <3>2. PICK r \in DOMAIN high : r = CHOOSE q \in DOMAIN high : high[q] = idents(d)[p]
      BY <3>1
    <3>3. high[r] = idents(d)[p]
      BY <3>1, <3>2
    <3>4. Position(high[r], high) = r - 1
      BY <1>2, PositionIs
    <3> QED
      BY <3>2, <3>3, <3>4
  <2>6. Group(st, st.where[d]) = dims[d]
    BY <2>3, <2>4, <2>5
  <2>7. IsSeq(dims[d]) /\ Len(dims[d]) >= 2
    <3>1. Len(idents(d)) \in Nat /\ DOMAIN idents(d) = 1..Len(idents(d))
      BY <2>1, SeqIs
    <3>2. PICK v, n : v = dims[d] /\ n = Len(idents(d))
      OBVIOUS
    <3>3. v = [p \in 1..n |-> (CHOOSE q \in DOMAIN high : high[q] = idents(d)[p]) - 1]
      BY <2>4, <3>1, <3>2
    <3>4. DOMAIN v = 1..n /\ v = [p \in 1..n |-> v[p]] /\ n \in Nat
      BY <3>1, <3>2, <3>3
    <3>5. Len(v) = n /\ v \in Seq({v[p] : p \in DOMAIN v})
      BY ONLY <3>4
    <3> QED
      BY <2>1, <3>2, <3>5 DEF IsSeq
  <2> QED
    BY <2>3, <2>6, <2>7, BracedIs
<1> DEFINE b == ReshapeB(st.rhs.name, st.name, RenderGroups(dims))
<1> HIDE DEF dims
<1>4. ComposeGroup(<<Group(st, st.where[1]), Group(st, st.where[2])>>) = RenderGroups(dims)
  <2>1. /\ Group(st, st.where[1]) = dims[1] /\ Braced(dims[1]) = RenderDim(dims[1])
        /\ Group(st, st.where[2]) = dims[2] /\ Braced(dims[2]) = RenderDim(dims[2])
    BY <1>3
  <2>2. PICK u, v : u = dims[1] /\ v = dims[2]
    OBVIOUS
  <2>3. <<u, v>>[1] = u /\ <<u, v>>[2] = v
    OBVIOUS
  <2>4. ComposeGroup(<<u, v>>) = <<"{">> \o Braced(u) \o Braced(v) \o <<"}">>
    BY <2>3 DEF ComposeGroup
  <2>5. RenderGroups(dims) = <<"{">> \o RenderDim(u) \o RenderDim(v) \o <<"}">>
    BY <2>2 DEF RenderGroups
  <2> QED
    BY ONLY <2>1, <2>2, <2>4, <2>5
<1>5. PrintGroup(st) = Emit(<<b>>)
  <2>1. ~\E w \in ToSet(st.where) : ~OneSided(st, w)
    BY <1>1, <1>3
  <2> QED
    BY <1>4, <2>1 DEF PrintGroup
<1>6. GroupRight(st, b)
  BY DEF GroupRight, ReshapeB, dims
<1> HIDE DEF b
<1>7. ASSUME NEW temp PROVE TryReshape(st, temp) = PrintGroup(st)
  BY <1>1 DEF TryReshape
<1> QED
  BY <1>5, <1>6, <1>7

\* Kept, unfolded.
LEMMA KeptSteps ==
  ASSUME NEW s, NEW places, Len(s) \in Nat
  PROVE  \E f : /\ f[0] = <<>>
                /\ \A n \in 1..Len(s) :
                     f[n] = IF n \in places THEN Append(f[n - 1], s[n]) ELSE f[n - 1]
                /\ Kept(s, places) = f[Len(s)]
<1> DEFINE Next1(x, n) == IF n \in places THEN Append(x, s[n]) ELSE x
           Steps(f, m) == f = [n \in 0..m |-> IF n = 0 THEN <<>> ELSE Next1(f[n - 1], n)]
           T == {m \in Nat : \E f : Steps(f, m)}
           h == CHOOSE h : Steps(h, Len(s))
<1>1. Kept(s, places) = h[Len(s)]
  BY DEF Kept
<1> HIDE DEF h, Next1
<1>2. 0 \in T
  <2>1. Steps([n \in 0..0 |-> <<>>], 0)
    OBVIOUS
  <2> QED
    BY <2>1
<1>3. ASSUME NEW m \in Nat, m \in T PROVE m + 1 \in T
  <2>1. PICK f : Steps(f, m)
    BY <1>3
  <2> DEFINE g == [n \in 0..(m + 1) |-> IF n <= m THEN f[n] ELSE Next1(f[m], n)]
  <2>2. Steps(g, m + 1)
    <3> SUFFICES ASSUME NEW n \in 0..(m + 1)
                 PROVE  g[n] = IF n = 0 THEN <<>> ELSE Next1(g[n - 1], n)
      OBVIOUS
    <3>1. CASE n <= m
      <4>1. g[n] = f[n] /\ (n # 0 => g[n - 1] = f[n - 1])
        BY <3>1
      <4>2. n \in 0..m
        BY <3>1
      <4>3. f[n] = IF n = 0 THEN <<>> ELSE Next1(f[n - 1], n)
        BY <2>1, <4>2, Zenon
      <4> QED
        BY <4>1, <4>3
    <3>2. CASE n = m + 1
      BY <2>1, <3>2
    <3> QED
      BY <3>1, <3>2
  <2> HIDE DEF g, Steps
  <2>3. \E f0 : Steps(f0, m + 1)
    BY <2>2
  <2> QED
    BY <2>3
<1>4. \E f : Steps(f, Len(s))
  <2> HIDE DEF Steps
  <2> QED
    BY <1>2, <1>3, Induction
<1>5. Steps(h, Len(s))
  BY <1>4 DEF h
<1>6. \A n \in 0..Len(s) : h[n] = IF n = 0 THEN <<>> ELSE Next1(h[n - 1], n)
  BY <1>5, Zenon
<1>7. h[0] = <<>>
  BY <1>6
<1>8. ASSUME NEW n \in 1..Len(s) PROVE h[n] = Next1(h[n - 1], n)
  <2>1. n \in 0..Len(s) /\ n # 0
    OBVIOUS
  <2> QED
    BY <1>6, <2>1, Zenon
<1> QED
  BY <1>1, <1>7, <1>8 DEF Next1

\* A function on an initial segment is a sequence, and grows by one.
LEMMA SeqByFunction ==
  ASSUME NEW n \in Nat, NEW s, DOMAIN s = 1..n, s = [p \in 1..n |-> s[p]]
  PROVE  Len(s) = n /\ IsSeq(s)
<1>1. Len(s) = n /\ s \in Seq({s[p] : p \in DOMAIN s})
  OBVIOUS
<1> QED
  BY <1>1 DEF IsSeq

\* Append, as a function.
LEMMA AppendIs ==
  ASSUME NEW S, NEW u \in Seq(S), NEW x \in S, NEW m, m = Len(u)
  PROVE  Append(u, x) = [p \in 1..(m + 1) |-> IF p = m + 1 THEN x ELSE u[p]]
<1>1. /\ Append(u, x) \in Seq(S) /\ Len(Append(u, x)) = Len(u) + 1
      /\ \A p \in 1..Len(u) : Append(u, x)[p] = u[p]
      /\ Append(u, x)[Len(u) + 1] = x
  BY AppendProperties
<1>2. PICK v \in Seq(S) : v = Append(u, x)
  BY <1>1
<1>3. Len(v) = m + 1 /\ m \in Nat
  BY <1>1, <1>2
<1>4. v = [p \in 1..(m + 1) |-> v[p]]
  BY ONLY <1>3, v \in Seq(S)
<1>5. \A p \in 1..(m + 1) : v[p] = IF p = m + 1 THEN x ELSE u[p]
  BY <1>1, <1>2, <1>3
<1> QED
  BY ONLY <1>2, <1>4, <1>5

\* How many positions from 1 to n are not one of the g from a on.
Beside(n, a, g) == IF n < a THEN n ELSE IF n < a + g THEN a - 1 ELSE n - g

\* Kept leaves out a stretch of a sequence.
LEMMA KeptBeside ==
  ASSUME NEW s, IsSeq(s), NEW a \in Nat, a >= 1, NEW g \in Nat, NEW places,
         \A p \in 1..Len(s) : p \in places <=> p < a \/ p >= a + g
  PROVE  Kept(s, places) = [p \in 1..Beside(Len(s), a, g) |-> IF p < a THEN s[p] ELSE s[p + g]]
<1>1. Len(s) \in Nat /\ DOMAIN s = 1..Len(s) /\ s \in Seq(Range(s))
  BY SeqIs
<1>2. PICK f : /\ f[0] = <<>>
               /\ \A n \in 1..Len(s) :
                     f[n] = IF n \in places THEN Append(f[n - 1], s[n]) ELSE f[n - 1]
               /\ Kept(s, places) = f[Len(s)]
  BY <1>1, KeptSteps
<1> DEFINE B(n) == [p \in 1..Beside(n, a, g) |-> IF p < a THEN s[p] ELSE s[p + g]]
           T == {n \in Nat : n <= Len(s) => f[n] = B(n)}
<1>3. 0 \in T
  <2>1. Beside(0, a, g) = 0
    BY DEF Beside
  <2> QED
    BY <1>2, <2>1
<1>4. ASSUME NEW n \in Nat, n \in T PROVE n + 1 \in T
  <2> SUFFICES ASSUME n + 1 <= Len(s) PROVE f[n + 1] = B(n + 1)
    OBVIOUS
  <2>1. f[n] = B(n)
    BY <1>1, <1>4
  <2>2. n + 1 \in 1..Len(s) /\ (n + 1) - 1 = n
    BY <1>1
  <2>3. f[n + 1] = IF n + 1 \in places THEN Append(f[n], s[n + 1]) ELSE f[n]
    BY <1>2, <2>2
  <2>4. CASE ~(n + 1 < a \/ n + 1 >= a + g)
    <3>1. f[n + 1] = f[n]
      BY <2>2, <2>3, <2>4
    <3>2. Beside(n + 1, a, g) = Beside(n, a, g)
      BY <2>4 DEF Beside
    <3> QED
      BY <2>1, <3>1, <3>2
  <2>5. CASE n + 1 < a \/ n + 1 >= a + g
    <3>1. f[n + 1] = Append(B(n), s[n + 1])
      BY <2>1, <2>2, <2>3, <2>5
    <3>0. Beside(n, a, g) \in Nat
      BY DEF Beside
    <3>2. PICK m \in Nat : m = Beside(n, a, g)
      BY <3>0
    <3>3. Beside(n + 1, a, g) = m + 1 /\ s[n + 1] = IF m + 1 < a THEN s[m + 1] ELSE s[(m + 1) + g]
      <4>1. CASE n + 1 < a
        BY <3>2, <4>1 DEF Beside
      <4>2. CASE n + 1 >= a + g
        <5>1. m + 1 >= a /\ (m + 1) + g = n + 1 /\ Beside(n + 1, a, g) = m + 1
          BY <3>2, <4>2 DEF Beside
        <5> QED
          BY <5>1
      <4> QED
        BY <2>5, <4>1, <4>2
    <3>4. B(n) \in Seq(Range(s)) /\ Len(B(n)) = m
      <4>1. \A p \in 1..m : (IF p < a THEN s[p] ELSE s[p + g]) \in Range(s)
        <5> SUFFICES ASSUME NEW p \in 1..m PROVE (IF p < a THEN s[p] ELSE s[p + g]) \in Range(s)
          OBVIOUS
        <5>1. p \in 1..Len(s) /\ (p >= a => p + g \in 1..Len(s))
          BY <1>1, <2>2, <3>2 DEF Beside
        <5> QED
          BY <1>1, <5>1 DEF Range
      <4> QED
        BY <3>2, <4>1
    <3>5. s[n + 1] \in Range(s)
      BY <1>1, <2>2 DEF Range
    <3>b. /\ B(n) = [p \in 1..m |-> IF p < a THEN s[p] ELSE s[p + g]]
          /\ B(n + 1) = [p \in 1..(m + 1) |-> IF p < a THEN s[p] ELSE s[p + g]]
      BY <3>2, <3>3
    <3> HIDE DEF B
    <3>6. PICK u \in Seq(Range(s)), x \in Range(s) : u = B(n) /\ x = s[n + 1]
      BY <3>4, <3>5
    <3>7. Append(u, x) = [p \in 1..(m + 1) |-> IF p = m + 1 THEN x ELSE u[p]]
      BY <3>4, <3>6, AppendIs
    <3>9. \A p \in 1..m : u[p] = IF p < a THEN s[p] ELSE s[p + g]
      BY <3>b, <3>6
    <3>8. \A p \in 1..(m + 1) : (IF p = m + 1 THEN x ELSE u[p]) = (IF p < a THEN s[p] ELSE s[p + g])
      <4> SUFFICES ASSUME NEW p \in 1..(m + 1)
                   PROVE  (IF p = m + 1 THEN x ELSE u[p]) = (IF p < a THEN s[p] ELSE s[p + g])
        OBVIOUS
      <4>1. CASE p = m + 1
        BY ONLY <3>3, <3>6, <4>1
      <4>2. CASE p # m + 1
        <5>1. p \in 1..m
          BY <4>2
        <5> QED
          BY ONLY <3>9, <4>2, <5>1
      <4> QED
        BY <4>1, <4>2
    <3> QED
      BY ONLY <3>b, <3>1, <3>6, <3>7, <3>8
  <2> QED
    BY <2>4, <2>5
<1>5. Len(s) \in T
  <2> HIDE DEF T
  <2> QED
    BY <1>1, <1>3, <1>4, Induction
<1> QED
  BY <1>1, <1>2, <1>5

\* Concatenation, as a function.
LEMMA ConcatIs ==
  ASSUME NEW S, NEW u \in Seq(S), NEW v \in Seq(S), NEW m, m = Len(u), NEW r, r = Len(v)
  PROVE  u \o v = [p \in 1..(m + r) |-> IF p <= m THEN u[p] ELSE v[p - m]]
<1>1. /\ u \o v \in Seq(S) /\ Len(u \o v) = Len(u) + Len(v)
      /\ \A p \in 1..(Len(u) + Len(v)) : (u \o v)[p] = IF p <= Len(u) THEN u[p] ELSE v[p - Len(u)]
  BY ConcatProperties
<1>2. PICK w \in Seq(S) : w = u \o v
  BY <1>1
<1>3. w = [p \in 1..(m + r) |-> w[p]]
  <2>1. Len(w) = m + r
    BY <1>1, <1>2
  <2> QED
    BY ONLY <2>1, w \in Seq(S)
<1>4. \A p \in 1..(m + r) : w[p] = IF p <= m THEN u[p] ELSE v[p - m]
  BY ONLY <1>1, <1>2, m = Len(u), r = Len(v)
<1> QED
  BY ONLY <1>2, <1>3, <1>4

\* A sequence of one.
LEMMA OneIs ==
  ASSUME NEW S, NEW x \in S
  PROVE  <<x>> \in Seq(S) /\ Len(<<x>>) = 1 /\ <<x>>[1] = x
OBVIOUS

\* The walk that writes the folded index out, unfolded.
FlatWalk(f, layout, x, old) ==
  /\ f[0] = <<>>
  /\ \A n \in 1..Len(layout) : /\ layout[n] = x => f[n] = f[n - 1] \o old
                               /\ layout[n] # x => f[n] = f[n - 1] \o <<layout[n]>>

\* Flat, unfolded.
LEMMA FlatSteps ==
  ASSUME NEW layout, NEW x, NEW old, Len(layout) \in Nat
  PROVE  \E f : FlatWalk(f, layout, x, old) /\ Flat(layout, x, old) = f[Len(layout)]
<1> DEFINE Item(n) == IF layout[n] = x THEN old ELSE <<layout[n]>>
           Steps(f, m) == f = [n \in 0..m |-> IF n = 0 THEN <<>> ELSE f[n - 1] \o Item(n)]
           T == {m \in Nat : \E f : Steps(f, m)}
           h == CHOOSE h : Steps(h, Len(layout))
<1>1. Flat(layout, x, old) = h[Len(layout)]
  BY DEF Flat
<1>0. \A n : (layout[n] = x => Item(n) = old) /\ (layout[n] # x => Item(n) = <<layout[n]>>)
  OBVIOUS
<1> HIDE DEF h, Item
<1>2. 0 \in T
  <2>1. Steps([n \in 0..0 |-> <<>>], 0)
    OBVIOUS
  <2> QED
    BY <2>1
<1>3. ASSUME NEW m \in Nat, m \in T PROVE m + 1 \in T
  <2>1. PICK f : Steps(f, m)
    BY <1>3
  <2> DEFINE g == [n \in 0..(m + 1) |-> IF n <= m THEN f[n] ELSE f[m] \o Item(n)]
  <2>2. Steps(g, m + 1)
    <3> SUFFICES ASSUME NEW n \in 0..(m + 1)
                 PROVE  g[n] = IF n = 0 THEN <<>> ELSE g[n - 1] \o Item(n)
      OBVIOUS
    <3>1. CASE n <= m
      <4>1. g[n] = f[n] /\ (n # 0 => g[n - 1] = f[n - 1])
        BY <3>1
      <4>2. n \in 0..m
        BY <3>1
      <4>3. f[n] = IF n = 0 THEN <<>> ELSE f[n - 1] \o Item(n)
        BY <2>1, <4>2, Zenon
      <4> QED
        BY <4>1, <4>3
    <3>2. CASE n = m + 1
      BY <2>1, <3>2
    <3> QED
      BY <3>1, <3>2
  <2> HIDE DEF g, Steps
  <2>3. \E f0 : Steps(f0, m + 1)
    BY <2>2
  <2> QED
    BY <2>3
<1>4. \E f : Steps(f, Len(layout))
  <2> HIDE DEF Steps
  <2> QED
    BY <1>2, <1>3, Induction
<1>5. Steps(h, Len(layout))
  BY <1>4 DEF h
<1>6. \A n \in 0..Len(layout) : h[n] = IF n = 0 THEN <<>> ELSE h[n - 1] \o Item(n)
  BY <1>5, Zenon
<1>7. h[0] = <<>>
  BY <1>6
<1>8. ASSUME NEW n \in 1..Len(layout) PROVE h[n] = h[n - 1] \o Item(n)
  <2>1. n \in 0..Len(layout) /\ n # 0
    OBVIOUS
  <2> QED
    BY <1>6, <2>1, Zenon
<1>9. ASSUME NEW n \in 1..Len(layout)
      PROVE  /\ layout[n] = x => h[n] = h[n - 1] \o old
             /\ layout[n] # x => h[n] = h[n - 1] \o <<layout[n]>>
  BY <1>0, <1>8, Zenon
<1> QED
  BY <1>1, <1>7, <1>9 DEF FlatWalk

\* The first n elements of s, with the one at e written out as old.
Spread(s, e, old, n) ==
  [p \in 1..(IF e <= n THEN n + Len(old) - 1 ELSE n) |->
     IF p < e THEN s[p] ELSE IF p < e + Len(old) THEN old[p - e + 1] ELSE s[p - Len(old) + 1]]

\* Flat, of a layout that has the folded index at position e.
LEMMA FlatIs ==
  ASSUME NEW s, IsSeq(s), NEW old, IsSeq(old), NEW x, NEW e \in Nat, e >= 1,
         \A p \in 1..Len(s) : s[p] = x <=> p = e
  PROVE  Flat(s, x, old) = Spread(s, e, old, Len(s))
<1> DEFINE k == Len(old)
           S == Range(s) \cup Range(old)
           B(n) == Spread(s, e, old, n)
<1>1. /\ Len(s) \in Nat /\ DOMAIN s = 1..Len(s) /\ s \in Seq(Range(s))
      /\ k \in Nat /\ DOMAIN old = 1..k /\ old \in Seq(Range(old))
  BY SeqIs
<1>0. PICK f : FlatWalk(f, s, x, old) /\ Flat(s, x, old) = f[Len(s)]
  BY <1>1, FlatSteps
<1>2. /\ f[0] = <<>>
      /\ \A n \in 1..Len(s) : /\ s[n] = x => f[n] = f[n - 1] \o old
                              /\ s[n] # x => f[n] = f[n - 1] \o <<s[n]>>
  BY <1>0 DEF FlatWalk
<1>3. (\A p \in 1..Len(s) : s[p] \in S) /\ (\A p \in 1..k : old[p] \in S) /\ old \in Seq(S)
  <2>1. (\A p \in 1..Len(s) : s[p] \in S) /\ (\A p \in 1..k : old[p] \in S)
    BY <1>1 DEF Range
  <2> HIDE DEF S
  <2> QED
    BY <1>1, <2>1
<1>k. k = Len(old)
  OBVIOUS
<1> HIDE DEF S, k
<1>4. \A n \in Nat : B(n) = [p \in 1..(IF e <= n THEN n + k - 1 ELSE n) |->
                               IF p < e THEN s[p] ELSE IF p < e + k THEN old[p - e + 1] ELSE s[p - k + 1]]
  BY DEF Spread, k
<1> HIDE DEF B
<1> DEFINE T == {n \in Nat : n <= Len(s) => f[n] = B(n)}
<1>5. 0 \in T
  BY <1>2, <1>4
<1>6. ASSUME NEW n \in Nat, n \in T PROVE n + 1 \in T
  <2> SUFFICES ASSUME n + 1 <= Len(s) PROVE f[n + 1] = B(n + 1)
    OBVIOUS
  <2>1. f[n] = B(n)
    BY <1>1, <1>6
  <2>2. n + 1 \in 1..Len(s) /\ (n + 1) - 1 = n
    BY <1>1
  <2>3. /\ s[n + 1] = x => f[n + 1] = f[n] \o old
        /\ s[n + 1] # x => f[n + 1] = f[n] \o <<s[n + 1]>>
    BY <1>2, <2>2
  <2>4. PICK m : m = IF e <= n THEN n + k - 1 ELSE n
    OBVIOUS
  <2>5. m \in Nat
    BY <1>1, <2>4
  <2>6. B(n) = [p \in 1..m |-> IF p < e THEN s[p] ELSE IF p < e + k THEN old[p - e + 1] ELSE s[p - k + 1]]
    BY <1>4, <2>4
  <2>7. \A p \in 1..m : (IF p < e THEN s[p] ELSE IF p < e + k THEN old[p - e + 1] ELSE s[p - k + 1]) \in S
    <3> SUFFICES ASSUME NEW p \in 1..m
                 PROVE (IF p < e THEN s[p] ELSE IF p < e + k THEN old[p - e + 1] ELSE s[p - k + 1]) \in S
      OBVIOUS
    <3>1. CASE p < e
      BY <1>1, <1>3, <2>2, <2>4, <3>1
    <3>2. CASE p >= e /\ p < e + k
      <4>1. p - e + 1 \in 1..k
        BY <1>1, <3>2
      <4> QED
        BY <1>3, <3>2, <4>1
    <3>3. CASE p >= e + k
      <4>1. p - k + 1 \in 1..Len(s)
        BY <1>1, <2>2, <2>4, <3>3
      <4> QED
        BY <1>1, <1>3, <3>3, <4>1
    <3> QED
      BY <1>1, <3>1, <3>2, <3>3
  <2>8. B(n) \in Seq(S) /\ Len(B(n)) = m
    BY <2>5, <2>6, <2>7
  <2>9. PICK u \in Seq(S) : u = B(n)
    BY <2>8
  <2>l. Len(u) = m
    BY <2>8, <2>9
  <2>n. n + 1 \in Nat
    OBVIOUS
  <2>10. \A p \in 1..m : u[p] = IF p < e THEN s[p] ELSE IF p < e + k THEN old[p - e + 1] ELSE s[p - k + 1]
    BY ONLY <2>6, <2>9
  <2>11. CASE n + 1 = e
    <3>1. f[n + 1] = u \o old /\ m = n
      <4>1. s[n + 1] = x
        BY <2>2, <2>11
      <4>2. m = n
        BY <2>4, <2>11
      <4> QED
        BY ONLY <2>1, <2>3, <2>9, <4>1, <4>2
    <3>2. u \o old = [p \in 1..(m + k) |-> IF p <= m THEN u[p] ELSE old[p - m]]
      BY ONLY <1>3, <1>k, <2>l, u \in Seq(S), ConcatIs
    <3>3. B(n + 1) = [p \in 1..(m + k) |-> IF p < e THEN s[p] ELSE IF p < e + k THEN old[p - e + 1] ELSE s[p - k + 1]]
      <4>1. (IF e <= n + 1 THEN (n + 1) + k - 1 ELSE n + 1) = m + k
        BY <1>1, <2>11, <3>1
      <4> QED
        BY ONLY <1>4, <2>n, <4>1
    <3>4. \A p \in 1..(m + k) : (IF p <= m THEN u[p] ELSE old[p - m])
                               = IF p < e THEN s[p] ELSE IF p < e + k THEN old[p - e + 1] ELSE s[p - k + 1]
      <4> SUFFICES ASSUME NEW p \in 1..(m + k)
                   PROVE (IF p <= m THEN u[p] ELSE old[p - m])
                               = IF p < e THEN s[p] ELSE IF p < e + k THEN old[p - e + 1] ELSE s[p - k + 1]
        OBVIOUS
      <4>1. CASE p <= m
        <5>1. p \in 1..m /\ p < e
          BY <2>11, <3>1, <4>1
        <5> QED
          BY <2>10, <4>1, <5>1
      <4>2. CASE p > m
        <5>1. ~(p < e) /\ p < e + k /\ p - m = p - e + 1 /\ ~(p <= m)
          BY <1>1, <2>5, <2>11, <3>1, <4>2
        <5> QED
          BY <5>1
      <4> QED
        BY <2>5, <4>1, <4>2
    <3> QED
      BY ONLY <3>1, <3>2, <3>3, <3>4
  <2>12. CASE n + 1 # e
    <3>1. f[n + 1] = u \o <<s[n + 1]>>
      BY <1>1, <2>1, <2>2, <2>3, <2>9, <2>12
    <3>2. PICK y \in S : y = s[n + 1]
      BY <1>3, <2>2
    <3>3. <<y>> \in Seq(S) /\ Len(<<y>>) = 1 /\ <<y>>[1] = y
      BY OneIs
    <3>4. PICK v \in Seq(S) : v = <<y>>
      BY <3>3
    <3>5. u \o v = [p \in 1..(m + 1) |-> IF p <= m THEN u[p] ELSE v[p - m]]
      BY <2>8, <2>9, <3>3, <3>4, ConcatIs
    <3>6. B(n + 1) = [p \in 1..(m + 1) |-> IF p < e THEN s[p] ELSE IF p < e + k THEN old[p - e + 1] ELSE s[p - k + 1]]
      <4>1. (IF e <= n + 1 THEN (n + 1) + k - 1 ELSE n + 1) = m + 1
        BY <1>1, <2>4, <2>12
      <4> QED
        BY ONLY <1>4, <2>n, <4>1
    <3>7. \A p \in 1..(m + 1) : (IF p <= m THEN u[p] ELSE v[p - m])
                               = IF p < e THEN s[p] ELSE IF p < e + k THEN old[p - e + 1] ELSE s[p - k + 1]
      <4> SUFFICES ASSUME NEW p \in 1..(m + 1)
                   PROVE (IF p <= m THEN u[p] ELSE v[p - m])
                               = IF p < e THEN s[p] ELSE IF p < e + k THEN old[p - e + 1] ELSE s[p - k + 1]
        OBVIOUS
      <4>1. CASE p <= m
        <5>1. p \in 1..m
          BY <2>5, <4>1
        <5> QED
          BY <2>10, <4>1, <5>1
      <4>2. CASE p = m + 1
        <5>1. ~(p <= m) /\ p - m = 1 /\ v[1] = s[n + 1]
          BY <2>5, <3>2, <3>3, <3>4, <4>2
        <5>2. CASE e <= n
          <6>1. ~(p < e) /\ ~(p < e + k) /\ p - k + 1 = n + 1
            BY <1>1, <2>4, <4>2, <5>2
          <6> QED
            BY <5>1, <6>1
        <5>3. CASE e > n
          <6>1. p < e /\ p = n + 1
            BY <1>1, <2>4, <2>12, <4>2, <5>3
          <6> QED
            BY <5>1, <6>1
        <5> QED
          BY <5>2, <5>3
      <4> QED
        BY <2>5, <4>1, <4>2
    <3> QED
      BY ONLY <3>1, <3>2, <3>4, <3>5, <3>6, <3>7
  <2> QED
    BY <2>11, <2>12
<1>7. Len(s) \in T
  <2> HIDE DEF T
  <2> QED
    BY <1>1, <1>5, <1>6, Induction
<1> QED
  BY <1>0, <1>1, <1>2, <1>7 DEF B

Joins(x, u, v) ==
  /\ IsSeq(x) /\ Len(x) = Len(u) + Len(v)
  /\ \A p \in 1..Len(u) : x[p] = u[p]
  /\ \A p \in 1..Len(v) : x[Len(u) + p] = v[p]

\* Concatenation, position by position.
LEMMA Cat ==
  ASSUME NEW u, IsSeq(u), NEW v, IsSeq(v)
  PROVE  Joins(u \o v, u, v)
<1>1. /\ Len(u) \in Nat /\ u \in Seq(Range(u)) /\ Len(v) \in Nat /\ v \in Seq(Range(v))
  BY SeqIs
<1>2. PICK S : u \in Seq(S) /\ v \in Seq(S)
  <2> DEFINE S == Range(u) \cup Range(v)
  <2>1. (\A p \in 1..Len(u) : u[p] \in S) /\ (\A p \in 1..Len(v) : v[p] \in S)
    BY <1>1
  <2> HIDE DEF S
  <2>2. u \in Seq(S) /\ v \in Seq(S)
    BY <1>1, <2>1
  <2> QED
    BY <2>2
<1>3. /\ u \o v \in Seq(S) /\ Len(u \o v) = Len(u) + Len(v)
      /\ \A p \in 1..(Len(u) + Len(v)) : (u \o v)[p] = IF p <= Len(u) THEN u[p] ELSE v[p - Len(u)]
  BY <1>2, ConcatProperties
<1>4. IsSeq(u \o v)
  <2>1. PICK w \in Seq(S) : w = u \o v
    BY <1>3
  <2>2. IsSeq(w)
    BY DEF IsSeq
  <2> QED
    BY <2>1, <2>2
<1>5. \A p \in 1..Len(u) : (u \o v)[p] = u[p]
  BY <1>1, <1>3
<1>6. ASSUME NEW p \in 1..Len(v) PROVE (u \o v)[Len(u) + p] = v[p]
  <2>1. PICK q : q = Len(u) + p
    OBVIOUS
  <2>2. q \in 1..(Len(u) + Len(v)) /\ ~(q <= Len(u)) /\ q - Len(u) = p
    BY <1>1, <2>1
  <2> QED
    BY <1>3, <2>1, <2>2
<1> QED
  BY <1>3, <1>4, <1>5, <1>6 DEF Joins

\* The sequences of at most two elements.
LEMMA Short ==
  /\ IsSeq(<<>>) /\ Len(<<>>) = 0
  /\ \A x : IsSeq(<<x>>) /\ Len(<<x>>) = 1 /\ <<x>>[1] = x
  /\ \A x, y : IsSeq(<<x, y>>) /\ Len(<<x, y>>) = 2 /\ <<x, y>>[1] = x /\ <<x, y>>[2] = y
BY DEF IsSeq

\* Where the d-th item starts, when the e-th one has w tokens and the others one.
Off(e, w, d) == IF d <= e THEN 2 * (d - 1) ELSE 2 * (d - 2) + w + 1

Spaced(x, items, e, w, sep) ==
  /\ IsSeq(x) /\ Len(x) = 2 * Len(items) - 2 + w
  /\ \A d \in 1..Len(items) : \A p \in 1..Len(items[d]) : x[Off(e, w, d) + p] = items[d][p]
  /\ \A d \in 2..Len(items) : x[Off(e, w, d)] = sep

OneWide(items, e, w) ==
  /\ IsSeq(items) /\ e \in 1..Len(items) /\ w \in Nat /\ w >= 1
  /\ \A d \in 1..Len(items) : IsSeq(items[d]) /\ Len(items[d]) = IF d = e THEN w ELSE 1

JoinWalk(f, items, sep) ==
  /\ f[0] = <<>>
  /\ \A n \in 1..Len(items) : f[n] = f[n - 1] \o ((IF n = 1 THEN <<>> ELSE <<sep>>) \o items[n])

\* Joining items with a separator, all of one token but for the e-th.
LEMMA JoinIs ==
  ASSUME NEW items, IsSeq(items), NEW e \in 1..Len(items), NEW w \in Nat, w >= 1,
         \A d \in 1..Len(items) : IsSeq(items[d]) /\ Len(items[d]) = IF d = e THEN w ELSE 1,
         NEW sep, NEW f, JoinWalk(f, items, sep)
  PROVE  Spaced(f[Len(items)], items, e, w, sep)
<1>1. Len(items) \in Nat
  BY SeqIs
<1>2. /\ f[0] = <<>>
      /\ \A n \in 1..Len(items) : f[n] = f[n - 1] \o ((IF n = 1 THEN <<>> ELSE <<sep>>) \o items[n])
  BY DEF JoinWalk
<1> DEFINE Size(n) == IF n = 0 THEN 0 ELSE IF n < e THEN 2 * n - 1 ELSE 2 * n - 2 + w
           Right(u, n) == /\ IsSeq(u) /\ Len(u) = Size(n)
                          /\ \A d \in 1..n : \A p \in 1..Len(items[d]) : u[Off(e, w, d) + p] = items[d][p]
                          /\ \A d \in 2..n : u[Off(e, w, d)] = sep
           T == {n \in Nat : n <= Len(items) => Right(f[n], n)}
<1>3. 0 \in T
  <2>1. Len(f[0]) = 0 /\ IsSeq(f[0])
    BY <1>2, Short
  <2>2. Size(0) = 0
    OBVIOUS
  <2>3. Right(f[0], 0)
    <3> HIDE DEF Size
    <3> QED
      BY <2>1, <2>2
  <2> HIDE DEF Right
  <2> QED
    BY <2>3
<1> HIDE DEF Right
<1>4. ASSUME NEW n \in Nat, n \in T PROVE n + 1 \in T
  <2> SUFFICES ASSUME n + 1 <= Len(items) PROVE Right(f[n + 1], n + 1)
    OBVIOUS
  <2>0. Right(f[n], n)
    BY <1>1, <1>4
  <2>1. /\ IsSeq(f[n]) /\ Len(f[n]) = Size(n)
        /\ \A d \in 1..n : \A p \in 1..Len(items[d]) : f[n][Off(e, w, d) + p] = items[d][p]
        /\ \A d \in 2..n : f[n][Off(e, w, d)] = sep
    BY <2>0 DEF Right
  <2>2. n + 1 \in 1..Len(items) /\ (n + 1) - 1 = n
    BY <1>1
  <2>3. f[n + 1] = f[n] \o ((IF n + 1 = 1 THEN <<>> ELSE <<sep>>) \o items[n + 1])
    BY <1>2, <2>2
  <2>s. PICK s \in {0, 1} : (n = 0 => s = 0) /\ (n # 0 => s = 1)
    OBVIOUS
  <2>l. PICK l \in Nat : l >= 1 /\ l = IF n + 1 = e THEN w ELSE 1
    OBVIOUS
  <2>c. PICK comma : comma = IF n + 1 = 1 THEN <<>> ELSE <<sep>>
    OBVIOUS
  <2>v. PICK v : v = comma \o items[n + 1]
    OBVIOUS
  <2>4. IsSeq(comma) /\ Len(comma) = s /\ (n # 0 => comma[1] = sep)
    <3>1. CASE n = 0
      <4>1. comma = <<>> /\ s = 0
        BY <2>c, <2>s, <3>1
      <4> QED
        BY ONLY <3>1, <4>1, Short
    <3>2. CASE n # 0
      <4>0. n + 1 # 1
        BY <3>2
      <4>1. comma = <<sep>> /\ s = 1
        BY <2>c, <2>s, <3>2, <4>0, Zenon
      <4> QED
        BY ONLY <3>2, <4>1, Short
    <3> QED
      BY <3>1, <3>2
  <2>5. IsSeq(items[n + 1]) /\ Len(items[n + 1]) = l
    BY <2>2, <2>l
  <2>6. /\ IsSeq(v) /\ Len(v) = s + l /\ (n # 0 => v[1] = sep)
        /\ \A p \in 1..l : v[s + p] = items[n + 1][p]
    <3>0. Joins(v, comma, items[n + 1])
      BY <2>4, <2>5, <2>v, Cat, Zenon
    <3>1. /\ IsSeq(v) /\ Len(v) = s + l
          /\ \A p \in 1..Len(comma) : v[p] = comma[p]
          /\ \A p \in 1..l : v[s + p] = items[n + 1][p]
      BY <2>4, <2>5, <3>0 DEF Joins
    <3>2. n # 0 => 1 \in 1..Len(comma)
      BY <2>4, <2>s
    <3> QED
      BY <2>4, <3>1, <3>2
  <2>7. f[n + 1] = f[n] \o v
    BY <2>3, <2>c, <2>v
  <2>8. Size(n) \in Nat /\ Size(n + 1) = Size(n) + s + l /\ Off(e, w, n + 1) = Size(n) + s
    <3>1. CASE n + 1 < e
      BY <2>l, <2>s, <3>1 DEF Off
    <3>2. CASE n + 1 = e
      BY <2>l, <2>s, <3>2 DEF Off
    <3>3. CASE n + 1 > e
      BY <2>l, <2>s, <3>3 DEF Off
    <3> QED
      BY <3>1, <3>2, <3>3
  <2>9. PICK z \in Nat : z = Size(n)
    BY <2>8
  <2>10. /\ IsSeq(f[n + 1]) /\ Len(f[n + 1]) = z + (s + l)
         /\ \A p \in 1..z : f[n + 1][p] = f[n][p]
         /\ \A p \in 1..(s + l) : f[n + 1][z + p] = v[p]
    <3>1. Joins(f[n + 1], f[n], v)
      BY <2>1, <2>6, <2>7, Cat, Zenon
    <3> QED
      BY <2>1, <2>6, <2>9, <3>1 DEF Joins
  <2>11. Len(f[n + 1]) = Size(n + 1)
    BY <2>5, <2>8, <2>9, <2>10
  <2>12. ASSUME NEW d \in 1..(n + 1), NEW p \in 1..Len(items[d])
         PROVE  f[n + 1][Off(e, w, d) + p] = items[d][p]
    <3>1. CASE d = n + 1
      <4>1. PICK q : q = s + p
        OBVIOUS
      <4>4. p \in 1..l
        BY <2>5, <3>1
      <4>5. Off(e, w, d) = z + s
        BY <2>8, <2>9, <3>1
      <4>2. q \in 1..(s + l) /\ p \in 1..l /\ Off(e, w, d) + p = z + q
        BY <4>1, <4>4, <4>5
      <4>3. f[n + 1][z + q] = v[q] /\ v[q] = items[n + 1][p]
        BY <2>6, <2>10, <4>1, <4>2
      <4> QED
        BY <3>1, <4>2, <4>3
    <3>2. CASE d \in 1..n
      <4>1. f[n][Off(e, w, d) + p] = items[d][p]
        BY <2>1, <3>2
      <4>2. PICK q : q = Off(e, w, d) + p
        OBVIOUS
      <4>3. p \in 1..(IF d = e THEN w ELSE 1)
        BY <2>2, <3>2
      <4>4. q \in 1..z
        <5>1. CASE n < e
          BY <2>9, <3>2, <4>2, <4>3, <5>1 DEF Off
        <5>2. CASE n >= e /\ d < e
          BY <2>9, <3>2, <4>2, <4>3, <5>2 DEF Off
        <5>3. CASE n >= e /\ d = e
          BY <2>9, <3>2, <4>2, <4>3, <5>3 DEF Off
        <5>4. CASE n >= e /\ d > e
          BY <2>9, <3>2, <4>2, <4>3, <5>4 DEF Off
        <5> QED
          BY <5>1, <5>2, <5>3, <5>4
      <4>5. f[n + 1][q] = f[n][q]
        BY <2>10, <4>4
      <4> QED
        BY <4>1, <4>2, <4>5
    <3> QED
      BY <3>1, <3>2
  <2>13. ASSUME NEW d \in 2..(n + 1) PROVE f[n + 1][Off(e, w, d)] = sep
    <3>1. CASE d = n + 1
      <4>2. n # 0 /\ s = 1
        BY <2>s, <3>1
      <4>3. 1 \in 1..(s + l)
        BY <4>2, <2>l
      <4>1. 1 \in 1..(s + l) /\ Off(e, w, d) = z + 1 /\ v[1] = sep
        BY <2>6, <2>8, <2>9, <3>1, <4>2, <4>3
      <4> QED
        BY <2>10, <4>1
    <3>2. CASE d \in 2..n
      <4>1. f[n][Off(e, w, d)] = sep
        BY <2>1, <3>2
      <4>2. PICK q : q = Off(e, w, d)
        OBVIOUS
      <4>4. q \in 1..z
        <5>1. CASE n < e
          BY <2>9, <3>2, <4>2, <5>1 DEF Off
        <5>2. CASE n >= e /\ d <= e
          BY <2>9, <3>2, <4>2, <5>2 DEF Off
        <5>4. CASE n >= e /\ d > e
          BY <2>9, <3>2, <4>2, <5>4 DEF Off
        <5> QED
          BY <5>1, <5>2, <5>4
      <4>5. f[n + 1][q] = f[n][q]
        BY <2>10, <4>4
      <4> QED
        BY <4>1, <4>2, <4>5
    <3> QED
      BY <3>1, <3>2
  <2> QED
    BY <2>10, <2>11, <2>12, <2>13 DEF Right
<1>5. Len(items) \in T
  <2> HIDE DEF T
  <2> QED
    BY <1>1, <1>3, <1>4, Induction
<1>6. Right(f[Len(items)], Len(items))
  BY <1>1, <1>5
<1>7. Size(Len(items)) = 2 * Len(items) - 2 + w
  BY <1>1
<1> QED
  BY <1>6, <1>7 DEF Right, Spaced

\* The same of any function that joins.
LEMMA JoinWide ==
  ASSUME NEW items, NEW e, NEW w, OneWide(items, e, w), NEW sep, NEW f, JoinWalk(f, items, sep)
  PROVE  Spaced(f[Len(items)], items, e, w, sep)
BY JoinIs DEF OneWide

\* Commas joins with commas.
LEMMA CommasAre ==
  ASSUME NEW items, NEW e, NEW w, OneWide(items, e, w)
  PROVE  Spaced(Commas(items), items, e, w, ",")
<1>1. Len(items) \in Nat
  BY SeqIs DEF OneWide
<1>2. PICK f : /\ f[0] = <<>>
               /\ \A n \in 1..Len(items) :
                    f[n] = f[n - 1] \o ((IF n = 1 THEN <<>> ELSE <<",">>) \o items[n])
               /\ Commas(items) = f[Len(items)]
  BY <1>1, CommasSteps
<1>3. JoinWalk(f, items, ",")
  BY <1>2, Zenon DEF JoinWalk
<1>4. Spaced(f[Len(items)], items, e, w, ",")
  BY <1>3, JoinWide, Zenon
<1> QED
  BY <1>2, <1>4, Zenon

Three(x, u, v, w) ==
  /\ IsSeq(x) /\ Len(x) = Len(u) + Len(v) + Len(w)
  /\ \A p \in 1..Len(u) : x[p] = u[p]
  /\ \A p \in 1..Len(v) : x[Len(u) + p] = v[p]
  /\ \A p \in 1..Len(w) : x[Len(u) + Len(v) + p] = w[p]

\* Three sequences in a row.
LEMMA Cat3 ==
  ASSUME NEW u, IsSeq(u), NEW v, IsSeq(v), NEW w, IsSeq(w)
  PROVE  Three(u \o v \o w, u, v, w)
<1>1. PICK y : y = u \o v
  OBVIOUS
<1>2. PICK x : x = y \o w
  OBVIOUS
<1>3. Joins(y, u, v)
  BY <1>1, Cat, Zenon
<1>0. IsSeq(y)
  BY <1>3 DEF Joins
<1>4. Joins(x, y, w)
  BY <1>0, <1>2, Cat, Zenon
<1>5. Len(u) \in Nat /\ Len(v) \in Nat /\ Len(w) \in Nat
  BY SeqIs
<1>6. Three(x, u, v, w)
  <2>1. IsSeq(x) /\ Len(x) = Len(u) + Len(v) + Len(w)
    BY <1>3, <1>4 DEF Joins
  <2>2. \A p \in 1..(Len(u) + Len(v)) : x[p] = y[p]
    BY <1>3, <1>4 DEF Joins
  <2>3. ASSUME NEW p \in 1..Len(u) PROVE x[p] = u[p]
    <3>1. p \in 1..(Len(u) + Len(v))
      BY <1>5
    <3> QED
      BY <1>3, <2>2, <3>1 DEF Joins
  <2>4. ASSUME NEW p \in 1..Len(v) PROVE x[Len(u) + p] = v[p]
    <3>1. Len(u) + p \in 1..(Len(u) + Len(v))
      BY <1>5
    <3> QED
      BY <1>3, <2>2, <3>1 DEF Joins
  <2>5. ASSUME NEW p \in 1..Len(w) PROVE x[Len(u) + Len(v) + p] = w[p]
    BY <1>3, <1>4 DEF Joins
  <2> QED
    BY <2>1, <2>3, <2>4, <2>5 DEF Three
<1> QED
  BY <1>1, <1>2, <1>6

Five(x, u, v, w, y, z) ==
  /\ IsSeq(x) /\ Len(x) = Len(u) + Len(v) + Len(w) + Len(y) + Len(z)
  /\ \A p \in 1..Len(u) : x[p] = u[p]
  /\ \A p \in 1..Len(v) : x[Len(u) + p] = v[p]
  /\ \A p \in 1..Len(w) : x[Len(u) + Len(v) + p] = w[p]
  /\ \A p \in 1..Len(y) : x[Len(u) + Len(v) + Len(w) + p] = y[p]
  /\ \A p \in 1..Len(z) : x[Len(u) + Len(v) + Len(w) + Len(y) + p] = z[p]

\* Five sequences in a row.
LEMMA Cat5 ==
  ASSUME NEW u, IsSeq(u), NEW v, IsSeq(v), NEW w, IsSeq(w), NEW y, IsSeq(y), NEW z, IsSeq(z)
  PROVE  Five(u \o v \o w \o y \o z, u, v, w, y, z)
<1>1. PICK t : t = u \o v \o w
  OBVIOUS
<1>2. PICK x : x = t \o y \o z
  OBVIOUS
<1>3. Three(t, u, v, w)
  BY <1>1, Cat3, Zenon
<1>0. IsSeq(t)
  BY <1>3 DEF Three
<1>4. Three(x, t, y, z)
  BY <1>0, <1>2, Cat3, Zenon
<1>5. PICK a \in Nat, b \in Nat, l \in Nat, g \in Nat, h \in Nat :
        a = Len(u) /\ b = Len(v) /\ l = Len(w) /\ g = Len(y) /\ h = Len(z)
  BY SeqIs
<1>6. Len(t) = a + b + l
  BY <1>3, <1>5 DEF Three
<1>7. /\ \A p \in 1..(a + b + l) : x[p] = t[p]
      /\ \A p \in 1..a : t[p] = u[p]
      /\ \A p \in 1..b : t[a + p] = v[p]
      /\ \A p \in 1..l : t[a + b + p] = w[p]
  BY <1>3, <1>4, <1>5, <1>6 DEF Three
<1>8. Five(x, u, v, w, y, z)
  <2>1. /\ IsSeq(x) /\ Len(x) = a + b + l + g + h
        /\ \A p \in 1..g : x[a + b + l + p] = y[p]
        /\ \A p \in 1..h : x[a + b + l + g + p] = z[p]
    BY <1>4, <1>5, <1>6 DEF Three
  <2>2. ASSUME NEW p \in 1..a PROVE x[p] = u[p]
    <3>1. p \in 1..(a + b + l)
      OBVIOUS
    <3> QED
      BY <1>7, <3>1
  <2>3. ASSUME NEW p \in 1..b PROVE x[a + p] = v[p]
    <3>1. a + p \in 1..(a + b + l)
      OBVIOUS
    <3> QED
      BY <1>7, <3>1
  <2>4. ASSUME NEW p \in 1..l PROVE x[a + b + p] = w[p]
    <3>1. a + b + p \in 1..(a + b + l)
      OBVIOUS
    <3> QED
      BY <1>7, <3>1
  <2> QED
    BY <1>5, <2>1, <2>2, <2>3, <2>4 DEF Five
<1> QED
  BY <1>1, <1>2, <1>8

\* Numerals keeps the positions of a sequence.
LEMMA NumeralsIs ==
  ASSUME NEW ps, IsSeq(ps)
  PROVE  /\ IsSeq(Numerals(ps)) /\ Len(Numerals(ps)) = Len(ps)
         /\ \A p \in 1..Len(ps) : Numerals(ps)[p] = ToString(ps[p])
<1>1. Len(ps) \in Nat /\ DOMAIN ps = 1..Len(ps)
  BY SeqIs
<1>2. PICK ds : ds = Numerals(ps)
  OBVIOUS
<1>3. ds = [p \in 1..Len(ps) |-> ToString(ps[p])]
  BY <1>1, <1>2 DEF Numerals
<1>4. DOMAIN ds = 1..Len(ps) /\ ds = [p \in 1..Len(ps) |-> ds[p]] /\ \A p \in 1..Len(ps) : ds[p] = ToString(ps[p])
  BY <1>3
<1>5. Len(ds) = Len(ps) /\ IsSeq(ds)
  BY <1>1, <1>4, SeqByFunction
<1> QED
  BY <1>2, <1>4, <1>5

\* Front and Last, position by position.
LEMMA FrontIs ==
  ASSUME NEW s, IsSeq(s), Len(s) >= 1
  PROVE  /\ IsSeq(Front(s)) /\ Len(Front(s)) = Len(s) - 1
         /\ \A p \in 1..(Len(s) - 1) : Front(s)[p] = s[p]
<1>1. Len(s) \in Nat /\ DOMAIN s = 1..Len(s) /\ s \in Seq(Range(s))
  BY SeqIs
<1>0. Len(s) - 1 \in Nat
  BY <1>1
<1>2. PICK k \in Nat : k = Len(s) - 1
  BY <1>0
<1>3. PICK f : f = Front(s)
  OBVIOUS
<1>4. f = [p \in 1..k |-> s[p]]
  BY <1>1, <1>2, <1>3 DEF Front
<1>5. DOMAIN f = 1..k /\ f = [p \in 1..k |-> f[p]] /\ \A p \in 1..k : f[p] = s[p]
  BY <1>4
<1>6. Len(f) = k /\ IsSeq(f)
  BY <1>5, SeqByFunction
<1> QED
  BY <1>2, <1>3, <1>5, <1>6

\* The text of RunTogether, with a comma and without.
Together(x, ps, sep) ==
  /\ IsSeq(x) /\ Len(x) = Len(ps) + 1
  /\ \A p \in 1..(Len(ps) - 1) : x[p] = ToString(ps[p])
  /\ x[Len(ps)] = sep /\ x[Len(ps) + 1] = ToString(ps[Len(ps)])

\* RunTogether writes the numerals, and the separator before the last.
LEMMA RunTogetherIs ==
  ASSUME NEW ps, IsSeq(ps), Len(ps) >= 1, NEW alone \in BOOLEAN
  PROVE  /\ Len(ps) > 1 \/ alone => Together(RunTogether(ps, alone), ps, ",")
         /\ ~(Len(ps) > 1 \/ alone) =>
              /\ IsSeq(RunTogether(ps, alone)) /\ Len(RunTogether(ps, alone)) = 1
              /\ RunTogether(ps, alone)[1] = ToString(ps[1])
<1>1. PICK ds : ds = Numerals(ps)
  OBVIOUS
<1>2. PICK k \in Nat : k = Len(ps) /\ k >= 1
  BY SeqIs
<1>3. IsSeq(ds) /\ Len(ds) = k /\ \A p \in 1..k : ds[p] = ToString(ps[p])
  BY <1>1, <1>2, NumeralsIs
<1>4. PICK fr : fr = Front(ds)
  OBVIOUS
<1>5. IsSeq(fr) /\ Len(fr) = k - 1 /\ \A p \in 1..(k - 1) : fr[p] = ds[p]
  BY <1>2, <1>3, <1>4, FrontIs
<1>6. PICK la : la = ds[k]
  OBVIOUS
<1>7. Last(ds) = la /\ ps # <<>>
  BY <1>2, <1>3, <1>6, Short DEF Last
<1>8. PICK x : x = RunTogether(ps, alone)
  OBVIOUS
<1>9. CASE k > 1 \/ alone
  <2>1. PICK sep : sep = ","
    OBVIOUS
  <2>2. x = fr \o <<sep>> \o <<la>>
    BY <1>1, <1>2, <1>4, <1>7, <1>8, <1>9, <2>1, Zenon DEF RunTogether
  <2>3. Three(x, fr, <<sep>>, <<la>>)
    BY <1>5, <2>2, Short, Cat3, Zenon
  <2>4. IsSeq(x) /\ Len(x) = k + 1 /\ (\A p \in 1..(k - 1) : x[p] = fr[p]) /\ x[k] = sep /\ x[k + 1] = la
    <3>1. Len(<<sep>>) = 1 /\ <<sep>>[1] = sep /\ Len(<<la>>) = 1 /\ <<la>>[1] = la
      BY Short
    <3>2. PICK u, v : u = <<sep>> /\ v = <<la>>
      OBVIOUS
    <3>3. Three(x, fr, u, v) /\ Len(u) = 1 /\ Len(v) = 1 /\ u[1] = sep /\ v[1] = la
      BY <2>3, <3>1, <3>2
    <3>4. /\ IsSeq(x) /\ Len(x) = (k - 1) + 1 + 1
          /\ \A p \in 1..(k - 1) : x[p] = fr[p]
          /\ \A p \in 1..1 : x[(k - 1) + p] = u[p]
          /\ \A p \in 1..1 : x[(k - 1) + 1 + p] = v[p]
      BY <1>5, <3>3 DEF Three
    <3>5. x[(k - 1) + 1] = sep /\ x[(k - 1) + 1 + 1] = la
      BY <3>3, <3>4
    <3> QED
      BY <3>4, <3>5
  <2>5. ASSUME NEW p \in 1..(k - 1) PROVE x[p] = ToString(ps[p])
    BY <1>3, <1>5, <2>4
  <2>6. la = ToString(ps[k])
    BY <1>2, <1>3, <1>6
  <2>7. Together(x, ps, sep)
    BY <1>2, <2>4, <2>5, <2>6 DEF Together
  <2> QED
    BY <1>2, <1>8, <1>9, <2>1, <2>7
<1>10. CASE ~(k > 1 \/ alone)
  <2>1. k = 1
    BY <1>2, <1>10
  <2>2. x = fr \o <<>> \o <<la>>
    BY <1>1, <1>2, <1>4, <1>7, <1>8, <1>10, Zenon DEF RunTogether
  <2>3. Three(x, fr, <<>>, <<la>>)
    BY <1>5, <2>2, Short, Cat3, Zenon
  <2>4. IsSeq(x) /\ Len(x) = 1 /\ x[1] = la
    <3>1. Len(<<>>) = 0 /\ Len(<<la>>) = 1 /\ <<la>>[1] = la
      BY Short
    <3>2. PICK u, v : u = <<>> /\ v = <<la>>
      OBVIOUS
    <3>3. Three(x, fr, u, v) /\ Len(u) = 0 /\ Len(v) = 1 /\ v[1] = la /\ Len(fr) = 0
      BY <1>5, <2>1, <2>3, <3>1, <3>2
    <3>4. /\ IsSeq(x) /\ Len(x) = 0 + 0 + 1
          /\ \A p \in 1..1 : x[0 + 0 + p] = v[p]
      BY <3>3 DEF Three
    <3> QED
      BY <3>3, <3>4
  <2>6. la = ToString(ps[1])
    BY <1>2, <1>3, <1>6, <2>1
  <2> QED
    BY <1>2, <1>8, <1>10, <2>4, <2>6
<1> QED
  BY <1>9, <1>10

\* The text of a map whose group has dimension 0, and of one whose group has not.
MapFirst(x, group, rest, lb, rb, cm) ==
  LET g == Len(group)
      r == Len(rest)
      o == IF r = 1 THEN 4 + g ELSE 5 + g
  IN  /\ IsSeq(x) /\ Len(x) = o + r + 2
      /\ x[1] = lb /\ x[2] = lb
      /\ \A p \in 1..(g - 1) : x[2 + p] = ToString(group[p])
      /\ x[2 + g] = cm /\ x[3 + g] = ToString(group[g]) /\ x[4 + g] = rb
      /\ r > 1 => x[5 + g] = cm
      /\ \A p \in 1..(r - 1) : x[o + p] = ToString(rest[p])
      /\ x[o + r] = cm /\ x[o + r + 1] = ToString(rest[r]) /\ x[o + r + 2] = rb

MapLater(x, group, rest, lb, rb, cm) ==
  LET g == Len(group)
      r == Len(rest)
  IN  /\ IsSeq(x) /\ Len(x) = IF r = 1 THEN g + 7 ELSE g + r + 5
      /\ r = 1 => /\ x[1] = lb /\ x[2] = ToString(rest[1]) /\ x[3] = cm /\ x[4] = lb
                  /\ \A p \in 1..(g - 1) : x[4 + p] = ToString(group[p])
                  /\ x[4 + g] = cm /\ x[5 + g] = ToString(group[g]) /\ x[6 + g] = rb /\ x[7 + g] = rb

\* The map of a group that has dimension 0.
LEMMA FirstText ==
  ASSUME NEW group, NEW rest, NEW lb, NEW rb, NEW cm, NEW a, NEW b, IsSeq(group), IsSeq(rest),
         Together(a, group, cm), Together(b, rest, cm), Len(group) >= 1, Len(rest) >= 1
  PROVE  MapFirst(<<lb, lb>> \o a \o (IF Len(rest) = 1 THEN <<rb>> ELSE <<rb, cm>>) \o b \o <<rb>>,
                  group, rest, lb, rb, cm)
<1>1. PICK g \in Nat, r \in Nat : g = Len(group) /\ r = Len(rest) /\ g >= 1 /\ r >= 1
  BY SeqIs
<1>2. PICK u : u = <<lb, lb>>
  OBVIOUS
<1>3. PICK v : v = IF r = 1 THEN <<rb>> ELSE <<rb, cm>>
  OBVIOUS
<1>4. PICK w : w = <<rb>>
  OBVIOUS
<1>5. IsSeq(u) /\ Len(u) = 2 /\ u[1] = lb /\ u[2] = lb /\ IsSeq(w) /\ Len(w) = 1 /\ w[1] = rb
  BY <1>2, <1>4, Short
<1>6. IsSeq(v) /\ Len(v) = (IF r = 1 THEN 1 ELSE 2) /\ v[1] = rb /\ (r # 1 => v[2] = cm)
  <2>1. CASE r = 1
    <3>1. v = <<rb>>
      BY <1>3, <2>1
    <3> QED
      BY <2>1, <3>1, Short
  <2>2. CASE r # 1
    <3>1. v = <<rb, cm>>
      BY <1>3, <2>2
    <3> QED
      BY <2>2, <3>1, Short
  <2> QED
    BY <2>1, <2>2
<1>7. PICK x : x = u \o a \o v \o b \o w
  OBVIOUS
<1>8. /\ IsSeq(a) /\ Len(a) = g + 1 /\ (\A p \in 1..(g - 1) : a[p] = ToString(group[p]))
      /\ a[g] = cm /\ a[g + 1] = ToString(group[g])
      /\ IsSeq(b) /\ Len(b) = r + 1 /\ (\A p \in 1..(r - 1) : b[p] = ToString(rest[p]))
      /\ b[r] = cm /\ b[r + 1] = ToString(rest[r])
  BY <1>1 DEF Together
<1>9. Five(x, u, a, v, b, w)
  BY <1>5, <1>6, <1>7, <1>8, Cat5, Zenon
<1>10. PICK s \in {1, 2} : (r = 1 => s = 1) /\ (r # 1 => s = 2)
  OBVIOUS
<1>11. Len(v) = s
  BY <1>6, <1>10
<1>12. /\ IsSeq(x) /\ Len(x) = 2 + (g + 1) + s + (r + 1) + 1
       /\ \A p \in 1..2 : x[p] = u[p]
       /\ \A p \in 1..(g + 1) : x[2 + p] = a[p]
       /\ \A p \in 1..s : x[2 + (g + 1) + p] = v[p]
       /\ \A p \in 1..(r + 1) : x[2 + (g + 1) + s + p] = b[p]
       /\ \A p \in 1..1 : x[2 + (g + 1) + s + (r + 1) + p] = w[p]
  BY <1>5, <1>8, <1>9, <1>11 DEF Five
<1>13. x[1] = lb /\ x[2] = lb
  BY <1>5, <1>12
<1>14. /\ \A p \in 1..(g - 1) : x[2 + p] = ToString(group[p])
       /\ x[2 + g] = cm /\ x[3 + g] = ToString(group[g])
  <2>1. ASSUME NEW p \in 1..(g - 1) PROVE x[2 + p] = ToString(group[p])
    <3>1. p \in 1..(g + 1)
      OBVIOUS
    <3> QED
      BY <1>8, <1>12, <3>1
  <2>2. g \in 1..(g + 1) /\ g + 1 \in 1..(g + 1) /\ 2 + (g + 1) = 3 + g
    BY <1>1
  <2>3. x[2 + g] = a[g] /\ x[2 + (g + 1)] = a[g + 1]
    BY <1>12, <2>2
  <2> QED
    BY <1>8, <2>1, <2>2, <2>3
<1>15. x[4 + g] = rb /\ (r > 1 => x[5 + g] = cm)
  <2>1. 1 \in 1..s /\ 2 + (g + 1) + 1 = 4 + g /\ 2 + (g + 1) + 2 = 5 + g
    OBVIOUS
  <2>2. x[4 + g] = rb
    BY <1>6, <1>12, <2>1
  <2>3. ASSUME r > 1 PROVE x[5 + g] = cm
    <3>1. r # 1 /\ 2 \in 1..s
      BY <1>10, <2>3
    <3> QED
      BY <1>6, <1>12, <2>1, <3>1
  <2> QED
    BY <2>2, <2>3
<1>16. PICK o \in Nat : o = 3 + g + s
  OBVIOUS
<1>17. o = IF r = 1 THEN 4 + g ELSE 5 + g
  BY <1>10, <1>16
<1>18. /\ Len(x) = o + r + 2
       /\ \A p \in 1..(r + 1) : x[o + p] = b[p]
       /\ x[o + r + 2] = rb
  <2>1. 2 + (g + 1) + s = o /\ 2 + (g + 1) + s + (r + 1) + 1 = o + r + 2
    BY <1>16
  <2>2. Len(x) = o + r + 2
    BY <1>12, <2>1, Zenon
  <2>3. \A p \in 1..(r + 1) : x[o + p] = b[p]
    BY <1>12, <2>1, Zenon
  <2>4. 1 \in 1..1
    OBVIOUS
  <2>5. x[o + r + 2] = rb
    BY <1>5, <1>12, <2>1, <2>4, Zenon
  <2> QED
    BY <2>2, <2>3, <2>5
<1>19. /\ \A p \in 1..(r - 1) : x[o + p] = ToString(rest[p])
       /\ x[o + r] = cm /\ x[o + r + 1] = ToString(rest[r])
  <2>1. ASSUME NEW p \in 1..(r - 1) PROVE x[o + p] = ToString(rest[p])
    <3>1. p \in 1..(r + 1)
      OBVIOUS
    <3> QED
      BY <1>8, <1>18, <3>1
  <2>2. r \in 1..(r + 1) /\ r + 1 \in 1..(r + 1) /\ o + (r + 1) = o + r + 1
    BY <1>1
  <2>3. x[o + r] = b[r] /\ x[o + (r + 1)] = b[r + 1]
    BY <1>18, <2>2
  <2> QED
    BY <1>8, <2>1, <2>2, <2>3
<1>20. MapFirst(x, group, rest, lb, rb, cm)
  BY <1>1, <1>12, <1>13, <1>14, <1>15, <1>17, <1>18, <1>19, Zenon DEF MapFirst
<1>21. x = <<lb, lb>> \o a \o (IF Len(rest) = 1 THEN <<rb>> ELSE <<rb, cm>>) \o b \o <<rb>>
  BY <1>1, <1>2, <1>3, <1>4, <1>7, Zenon
<1> QED
  BY <1>20, <1>21, Zenon

\* The map of a group that does not.
LEMMA LaterText ==
  ASSUME NEW group, NEW rest, NEW lb, NEW rb, NEW cm, NEW a, NEW b, IsSeq(group), IsSeq(rest),
         Together(a, group, cm), Len(group) >= 1, Len(rest) >= 1,
         Len(rest) > 1 => Together(b, rest, cm),
         ~(Len(rest) > 1) => IsSeq(b) /\ Len(b) = 1 /\ b[1] = ToString(rest[1])
  PROVE  MapLater(<<lb>> \o b \o (IF Len(rest) = 1 THEN <<cm, lb>> ELSE <<>>) \o a \o <<rb, rb>>,
                  group, rest, lb, rb, cm)
<1>1. PICK g \in Nat, r \in Nat : g = Len(group) /\ r = Len(rest) /\ g >= 1 /\ r >= 1
  BY SeqIs
<1>2. PICK u : u = <<lb>>
  OBVIOUS
<1>3. PICK v : v = IF r = 1 THEN <<cm, lb>> ELSE <<>>
  OBVIOUS
<1>4. PICK w : w = <<rb, rb>>
  OBVIOUS
<1>5. IsSeq(u) /\ Len(u) = 1 /\ u[1] = lb /\ IsSeq(w) /\ Len(w) = 2 /\ w[1] = rb /\ w[2] = rb
  BY <1>2, <1>4, Short
<1>6. IsSeq(v) /\ Len(v) = (IF r = 1 THEN 2 ELSE 0) /\ (r = 1 => v[1] = cm /\ v[2] = lb)
  <2>1. CASE r = 1
    <3>1. v = <<cm, lb>>
      BY <1>3, <2>1
    <3> QED
      BY <2>1, <3>1, Short
  <2>2. CASE r # 1
    <3>1. v = <<>>
      BY <1>3, <2>2
    <3> QED
      BY <2>2, <3>1, Short
  <2> QED
    BY <2>1, <2>2
<1>7. PICK x : x = u \o b \o v \o a \o w
  OBVIOUS
<1>8. /\ IsSeq(a) /\ Len(a) = g + 1 /\ (\A p \in 1..(g - 1) : a[p] = ToString(group[p]))
      /\ a[g] = cm /\ a[g + 1] = ToString(group[g])
  BY <1>1 DEF Together
<1>b. IsSeq(b) /\ Len(b) = (IF r = 1 THEN 1 ELSE r + 1) /\ (r = 1 => b[1] = ToString(rest[1]))
  <2>1. CASE r = 1
    BY <1>1, <2>1
  <2>2. CASE r # 1
    BY <1>1, <2>2 DEF Together
  <2> QED
    BY <2>1, <2>2
<1>9. Five(x, u, b, v, a, w)
  BY <1>5, <1>6, <1>7, <1>8, <1>b, Cat5, Zenon
<1>10. IsSeq(x) /\ Len(x) = IF r = 1 THEN g + 7 ELSE g + r + 5
  <2>1. CASE r = 1
    BY <1>5, <1>6, <1>8, <1>9, <1>b, <2>1 DEF Five
  <2>2. CASE r # 1
    BY <1>5, <1>6, <1>8, <1>9, <1>b, <2>2 DEF Five
  <2> QED
    BY <2>1, <2>2
<1>11. ASSUME r = 1
       PROVE  /\ x[1] = lb /\ x[2] = ToString(rest[1]) /\ x[3] = cm /\ x[4] = lb
              /\ \A p \in 1..(g - 1) : x[4 + p] = ToString(group[p])
              /\ x[4 + g] = cm /\ x[5 + g] = ToString(group[g]) /\ x[6 + g] = rb /\ x[7 + g] = rb
  <2>1. Len(v) = 2 /\ Len(b) = 1
    BY <1>6, <1>11, <1>b
  <2>2. /\ \A p \in 1..1 : x[p] = u[p]
        /\ \A p \in 1..1 : x[1 + p] = b[p]
        /\ \A p \in 1..2 : x[1 + 1 + p] = v[p]
        /\ \A p \in 1..(g + 1) : x[1 + 1 + 2 + p] = a[p]
        /\ \A p \in 1..2 : x[1 + 1 + 2 + (g + 1) + p] = w[p]
    BY <1>5, <1>8, <1>9, <2>1 DEF Five
  <2>3. x[1] = lb /\ x[2] = ToString(rest[1]) /\ x[3] = cm /\ x[4] = lb
    BY <1>5, <1>6, <1>11, <1>b, <2>2
  <2>4. \A p \in 1..(g + 1) : x[4 + p] = a[p]
    BY <2>2
  <2>5. g \in 1..(g + 1) /\ g + 1 \in 1..(g + 1) /\ 4 + (g + 1) = 5 + g
    BY <1>1
  <2>6. x[4 + g] = cm /\ x[5 + g] = ToString(group[g])
    BY <1>8, <2>4, <2>5
  <2>7. ASSUME NEW p \in 1..(g - 1) PROVE x[4 + p] = ToString(group[p])
    <3>1. p \in 1..(g + 1)
      OBVIOUS
    <3> QED
      BY <1>8, <2>4, <3>1
  <2>8. 1 + 1 + 2 + (g + 1) + 1 = 6 + g /\ 1 + 1 + 2 + (g + 1) + 2 = 7 + g
    OBVIOUS
  <2>9. x[6 + g] = rb /\ x[7 + g] = rb
    BY <1>5, <2>2, <2>8
  <2> QED
    BY <2>3, <2>6, <2>7, <2>9
<1>12. MapLater(x, group, rest, lb, rb, cm)
  BY <1>1, <1>10, <1>11, Zenon DEF MapLater
<1>13. x = <<lb>> \o b \o (IF Len(rest) = 1 THEN <<cm, lb>> ELSE <<>>) \o a \o <<rb, rb>>
  BY <1>1, <1>2, <1>3, <1>4, <1>7, Zenon
<1> QED
  BY <1>12, <1>13, Zenon

\* The text that GetReshapeMap writes.
LEMMA MapText ==
  ASSUME NEW group, NEW rest, IsSeq(group), IsSeq(rest), Len(group) >= 1, Len(rest) >= 1
  PROVE  /\ Contains(group, 0) => MapFirst(GetReshapeMap(group, rest), group, rest, "{", "}", ",")
         /\ ~Contains(group, 0) => MapLater(GetReshapeMap(group, rest), group, rest, "{", "}", ",")
<1>1. /\ Together(RunTogether(group, TRUE), group, ",")
      /\ Together(RunTogether(rest, TRUE), rest, ",")
  BY RunTogetherIs, Zenon
<1>2. /\ Len(rest) > 1 => Together(RunTogether(rest, FALSE), rest, ",")
      /\ ~(Len(rest) > 1) => /\ IsSeq(RunTogether(rest, FALSE)) /\ Len(RunTogether(rest, FALSE)) = 1
                             /\ RunTogether(rest, FALSE)[1] = ToString(rest[1])
  BY RunTogetherIs, Zenon
<1>3. CASE Contains(group, 0)
  <2>1. PICK a : a = RunTogether(group, TRUE)
    OBVIOUS
  <2>2. PICK b : b = RunTogether(rest, TRUE)
    OBVIOUS
  <2>3. MapFirst(<<"{", "{">> \o a \o (IF Len(rest) = 1 THEN <<"}">> ELSE <<"}", ",">>) \o b \o <<"}">>,
                  group, rest, "{", "}", ",")
    BY <1>1, <2>1, <2>2, FirstText, Zenon
  <2>4. GetReshapeMap(group, rest)
          = <<"{", "{">> \o a \o (IF Len(rest) = 1 THEN <<"}">> ELSE <<"}", ",">>) \o b \o <<"}">>
    BY <1>3, <2>1, <2>2, Zenon DEF GetReshapeMap
  <2> QED
    BY <1>3, <2>3, <2>4, Zenon
<1>4. CASE ~Contains(group, 0)
  <2>1. PICK a : a = RunTogether(group, TRUE)
    OBVIOUS
  <2>2. PICK b : b = RunTogether(rest, FALSE)
    OBVIOUS
  <2>3. MapLater(<<"{">> \o b \o (IF Len(rest) = 1 THEN <<",", "{">> ELSE <<>>) \o a \o <<"}", "}">>,
                  group, rest, "{", "}", ",")
    BY <1>1, <1>2, <2>1, <2>2, LaterText, Zenon
  <2>4. GetReshapeMap(group, rest)
          = <<"{">> \o b \o (IF Len(rest) = 1 THEN <<",", "{">> ELSE <<>>) \o a \o <<"}", "}">>
    BY <1>4, <2>1, <2>2, Zenon DEF GetReshapeMap
  <2> QED
    BY <1>4, <2>3, <2>4, Zenon
<1> QED
  BY <1>3, <1>4

DimText(x, dim, lb, rb, cm) ==
  LET k == Len(dim) IN
  /\ IsSeq(x) /\ Len(x) = 2 * k + 1 /\ x[1] = lb /\ x[2 * k + 1] = rb
  /\ \A p \in 1..k : x[2 * p] = ToString(dim[p])
  /\ \A p \in 2..k : x[2 * p - 1] = cm

\* A dimension that folds several: numerals between commas, in braces.
LEMMA BracedText ==
  ASSUME NEW dim, IsSeq(dim), Len(dim) >= 1, NEW items, items = [p \in DOMAIN dim |-> <<ToString(dim[p])>>],
         NEW lb, NEW rb, NEW cm, NEW joined, Spaced(joined, items, 1, 1, cm)
  PROVE  DimText(<<lb>> \o joined \o <<rb>>, dim, lb, rb, cm)
<1>1. PICK k \in Nat : k = Len(dim) /\ k >= 1 /\ DOMAIN dim = 1..k
  BY SeqIs
<1>2. Len(items) = k /\ \A p \in 1..k : items[p] = <<ToString(dim[p])>>
  BY <1>1
<1>3. \A p \in 1..k : Len(items[p]) = 1 /\ items[p][1] = ToString(dim[p])
  BY <1>2, Short
<1>4. /\ IsSeq(joined) /\ Len(joined) = 2 * k - 1
      /\ \A d \in 1..k : joined[2 * d - 1] = ToString(dim[d])
      /\ \A d \in 2..k : joined[2 * d - 2] = cm
  <2>1. /\ IsSeq(joined) /\ Len(joined) = 2 * k - 2 + 1
        /\ \A d \in 1..k : \A p \in 1..Len(items[d]) : joined[Off(1, 1, d) + p] = items[d][p]
        /\ \A d \in 2..k : joined[Off(1, 1, d)] = cm
    BY <1>2 DEF Spaced
  <2>2. \A d \in 1..k : Off(1, 1, d) = 2 * d - 2
    BY DEF Off
  <2>3. ASSUME NEW d \in 1..k PROVE joined[2 * d - 1] = ToString(dim[d])
    <3>1. Len(items[d]) = 1 /\ items[d][1] = ToString(dim[d])
      BY <1>3
    <3>2. 1 \in 1..1 /\ Off(1, 1, d) + 1 = 2 * d - 1
      BY <2>2
    <3>3. joined[Off(1, 1, d) + 1] = items[d][1]
      BY <2>1, <3>1, <3>2, Zenon
    <3> QED
      BY <3>1, <3>2, <3>3
  <2>4. ASSUME NEW d \in 2..k PROVE joined[2 * d - 2] = cm
    <3>1. Off(1, 1, d) = 2 * d - 2
      BY <2>2
    <3> QED
      BY <2>1, <3>1
  <2> QED
    BY <2>1, <2>3, <2>4
<1>5. PICK u : u = <<lb>>
  OBVIOUS
<1>6. PICK w : w = <<rb>>
  OBVIOUS
<1>7. IsSeq(u) /\ Len(u) = 1 /\ u[1] = lb /\ IsSeq(w) /\ Len(w) = 1 /\ w[1] = rb
  BY <1>5, <1>6, Short
<1>8. PICK x : x = u \o joined \o w
  OBVIOUS
<1>9. Three(x, u, joined, w)
  BY <1>4, <1>7, <1>8, Cat3, Zenon
<1>10. /\ IsSeq(x) /\ Len(x) = 2 * k + 1 /\ x[1] = lb /\ x[2 * k + 1] = rb
       /\ \A p \in 1..(2 * k - 1) : x[1 + p] = joined[p]
  <2>1. /\ IsSeq(x) /\ Len(x) = 1 + (2 * k - 1) + 1
        /\ \A p \in 1..1 : x[p] = u[p]
        /\ \A p \in 1..(2 * k - 1) : x[1 + p] = joined[p]
        /\ \A p \in 1..1 : x[1 + (2 * k - 1) + p] = w[p]
    BY <1>4, <1>7, <1>9 DEF Three
  <2>2. 1 + (2 * k - 1) + 1 = 2 * k + 1 /\ 1 \in 1..1
    OBVIOUS
  <2>3. x[1] = lb /\ x[2 * k + 1] = rb
    BY <1>7, <2>1, <2>2
  <2> QED
    BY <2>1, <2>2, <2>3
<1>11. ASSUME NEW p \in 1..k PROVE x[2 * p] = ToString(dim[p])
  <2>1. 2 * p - 1 \in 1..(2 * k - 1) /\ 1 + (2 * p - 1) = 2 * p
    OBVIOUS
  <2> QED
    BY <1>4, <1>10, <2>1
<1>12. ASSUME NEW p \in 2..k PROVE x[2 * p - 1] = cm
  <2>1. 2 * p - 2 \in 1..(2 * k - 1) /\ 1 + (2 * p - 2) = 2 * p - 1
    OBVIOUS
  <2> QED
    BY <1>4, <1>10, <2>1
<1>13. DimText(x, dim, lb, rb, cm)
  BY <1>1, <1>10, <1>11, <1>12 DEF DimText
<1> QED
  BY <1>5, <1>6, <1>8, <1>13

\* The text that RenderDim writes.
LEMMA RenderDimIs ==
  ASSUME NEW dim, IsSeq(dim), Len(dim) >= 1
  PROVE  /\ Len(dim) = 1 => /\ IsSeq(RenderDim(dim)) /\ Len(RenderDim(dim)) = 1
                            /\ RenderDim(dim)[1] = ToString(dim[1])
         /\ Len(dim) # 1 => DimText(RenderDim(dim), dim, "{", "}", ",")
<1>1. PICK k \in Nat : k = Len(dim) /\ k >= 1 /\ DOMAIN dim = 1..k
  BY SeqIs
<1> DEFINE items == [p \in DOMAIN dim |-> <<ToString(dim[p])>>]
<1>2. items = [p \in DOMAIN dim |-> <<ToString(dim[p])>>]
  OBVIOUS
<1>3. RenderDim(dim) = IF Len(dim) = 1 THEN items[1] ELSE <<"{">> \o Commas(items) \o <<"}">>
  BY Zenon DEF RenderDim
<1> HIDE DEF items
<1>4. CASE Len(dim) = 1
  <2>1. items[1] = <<ToString(dim[1])>>
    BY <1>1, <1>2
  <2>2. RenderDim(dim) = <<ToString(dim[1])>>
    BY <1>3, <1>4, <2>1, Zenon
  <2> QED
    BY <1>4, <2>2, Short, Zenon
<1>5. CASE Len(dim) # 1
  <2>1. OneWide(items, 1, 1)
    <3>1. DOMAIN items = 1..k /\ items = [p \in 1..k |-> items[p]] /\ \A p \in 1..k : items[p] = <<ToString(dim[p])>>
      BY <1>1, <1>2
    <3>2. Len(items) = k /\ IsSeq(items)
      BY <3>1, SeqByFunction
    <3>3. \A p \in 1..k : IsSeq(items[p]) /\ Len(items[p]) = 1
      BY <3>1, Short
    <3> QED
      BY <1>1, <3>2, <3>3 DEF OneWide
  <2>2. Spaced(Commas(items), items, 1, 1, ",")
    BY <2>1, CommasAre, Zenon
  <2>3. DimText(<<"{">> \o Commas(items) \o <<"}">>, dim, "{", "}", ",")
    BY <1>2, <2>2, BracedText, Zenon
  <2> QED
    BY <1>3, <1>5, <2>3, Zenon
<1> QED
  BY <1>4, <1>5

Spreads(x, s, e, old, n) ==
  /\ IsSeq(x) /\ Len(x) \in Nat /\ DOMAIN x = 1..Len(x)
  /\ Len(x) = IF e <= n THEN n + Len(old) - 1 ELSE n
  /\ \A p \in 1..Len(x) : x[p] = IF p < e THEN s[p]
                                 ELSE IF p < e + Len(old) THEN old[p - e + 1] ELSE s[p - Len(old) + 1]

\* A layout written out, position by position.
LEMMA SpreadIs ==
  ASSUME NEW s, NEW old, IsSeq(old), NEW e \in Nat, e >= 1, NEW n \in Nat
  PROVE  Spreads(Spread(s, e, old, n), s, e, old, n)
<1>1. PICK k \in Nat : k = Len(old)
  BY SeqIs
<1>2. PICK l \in Nat : l = IF e <= n THEN n + k - 1 ELSE n
  <2>1. (IF e <= n THEN n + k - 1 ELSE n) \in Nat
    OBVIOUS
  <2> QED
    BY <2>1
<1>3. PICK x : x = Spread(s, e, old, n)
  OBVIOUS
<1>4. x = [p \in 1..l |-> IF p < e THEN s[p] ELSE IF p < e + k THEN old[p - e + 1] ELSE s[p - k + 1]]
  BY <1>1, <1>2, <1>3 DEF Spread
<1>5. /\ DOMAIN x = 1..l /\ x = [p \in 1..l |-> x[p]]
      /\ \A p \in 1..l : x[p] = IF p < e THEN s[p] ELSE IF p < e + k THEN old[p - e + 1] ELSE s[p - k + 1]
  BY <1>4
<1>6. Len(x) = l /\ IsSeq(x)
  BY <1>5, SeqByFunction
<1> QED
  BY <1>1, <1>2, <1>3, <1>5, <1>6 DEF Spreads

\* Where dimension d of the folded side starts on the other one.
BeginsAt(e, k, d) == IF d <= e THEN d - 1 ELSE d + k - 2

FoldDims(dims, m, e, k) ==
  /\ IsSeq(dims) /\ Len(dims) = m
  /\ \A d \in 1..m : /\ IsSeq(dims[d]) /\ Len(dims[d]) = IF d = e THEN k ELSE 1
                     /\ \A p \in 1..Len(dims[d]) : dims[d][p] = BeginsAt(e, k, d) + p - 1

\* Dims, of a layout that has the folded index at position e.
LEMMA DimsIs ==
  ASSUME NEW low, IsSeq(low), NEW old, IsSeq(old), NEW x, NEW e \in 1..Len(low), Len(old) >= 1,
         \A p \in 1..Len(low) : low[p] = x <=> p = e
  PROVE  FoldDims(Dims(low, x, old), Len(low), e, Len(old))
<1>1. /\ Len(low) \in Nat /\ DOMAIN low = 1..Len(low) /\ low \in Seq(Range(low)) /\ Len(old) \in Nat
  BY SeqIs
<1>2. PICK k \in Nat : k = Len(old) /\ k >= 1
  BY <1>1
<1>3. PICK dims : dims = Dims(low, x, old)
  OBVIOUS
<1>4. /\ DOMAIN dims = 1..Len(low) /\ dims = [d \in 1..Len(low) |-> dims[d]]
      /\ \A d \in 1..Len(low) :
           dims[d] = [p \in 1..(IF low[d] = x THEN Len(old) ELSE 1) |-> Len(Flat(SubSeq(low, 1, d - 1), x, old)) + p - 1]
  BY <1>1, <1>3 DEF Dims
<1>5. IsSeq(dims) /\ Len(dims) = Len(low)
  BY <1>1, <1>4, SeqByFunction
<1>6. ASSUME NEW d \in 1..Len(low)
      PROVE  /\ IsSeq(dims[d]) /\ Len(dims[d]) = IF d = e THEN Len(old) ELSE 1
             /\ \A p \in 1..Len(dims[d]) : dims[d][p] = BeginsAt(e, Len(old), d) + p - 1
  <2>1. PICK s : s = SubSeq(low, 1, d - 1)
    OBVIOUS
  <2>2. s = [p \in 1..(d - 1) |-> low[p]]
    BY <1>1, <2>1
  <2>3. d - 1 \in Nat
    OBVIOUS
  <2>4. DOMAIN s = 1..(d - 1) /\ s = [p \in 1..(d - 1) |-> s[p]] /\ \A p \in 1..(d - 1) : s[p] = low[p]
    BY <2>2
  <2>5. Len(s) = d - 1 /\ IsSeq(s)
    BY <2>3, <2>4, SeqByFunction
  <2>6. \A p \in 1..Len(s) : s[p] = x <=> p = e
    <3> SUFFICES ASSUME NEW p \in 1..(d - 1) PROVE s[p] = x <=> p = e
      BY <2>5
    <3>1. p \in 1..Len(low)
      BY <1>1
    <3> QED
      BY <2>4, <3>1
  <2>7. e \in Nat /\ e >= 1
    BY <1>1
  <2>8. Flat(s, x, old) = Spread(s, e, old, d - 1)
    BY <2>5, <2>6, <2>7, FlatIs, Zenon
  <2>9. Len(Spread(s, e, old, d - 1)) = IF e <= d - 1 THEN (d - 1) + k - 1 ELSE d - 1
    <3>1. Spreads(Spread(s, e, old, d - 1), s, e, old, d - 1)
      BY <2>3, <2>7, SpreadIs, Zenon
    <3>2. Len(Spread(s, e, old, d - 1)) = IF e <= d - 1 THEN (d - 1) + Len(old) - 1 ELSE d - 1
      BY ONLY <3>1, Zenon DEF Spreads
    <3> QED
      BY <1>2, <3>2
  <2>10. PICK l \in Int : l = Len(Flat(s, x, old)) /\ l = BeginsAt(e, k, d)
    <3>1. (IF e <= d - 1 THEN (d - 1) + k - 1 ELSE d - 1) = BeginsAt(e, k, d) /\ BeginsAt(e, k, d) \in Int
      BY DEF BeginsAt
    <3> QED
      BY <2>8, <2>9, <3>1
  <2>11. PICK w \in Nat : w = IF d = e THEN k ELSE 1
    OBVIOUS
  <2>12. dims[d] = [p \in 1..w |-> l + p - 1]
    <3>1. (IF low[d] = x THEN Len(old) ELSE 1) = w
      BY <1>2, <2>11
    <3> QED
      BY <1>4, <2>1, <2>10, <3>1
  <2>13. PICK z : z = dims[d]
    OBVIOUS
  <2>14. DOMAIN z = 1..w /\ z = [p \in 1..w |-> z[p]] /\ \A p \in 1..w : z[p] = l + p - 1
    BY <2>12, <2>13
  <2>15. Len(z) = w /\ IsSeq(z)
    BY <2>14, SeqByFunction
  <2> QED
    BY <1>2, <2>10, <2>11, <2>13, <2>14, <2>15
<1> QED
  BY <1>3, <1>5, <1>6 DEF FoldDims

\* The text of m dimensions of which the e-th folds k others.
RenderText(x, m, e, k, lb, rb, cm) ==
  /\ IsSeq(x) /\ Len(x) = 2 * m + 2 * k + 1 /\ x[1] = lb /\ x[2 * m + 2 * k + 1] = rb
  /\ \A d \in 1..m : d < e => x[2 * d] = ToString(d - 1)
  /\ \A d \in 1..m : d > e => x[2 * d + 2 * k] = ToString(d + k - 2)
  /\ \A d \in 2..m : d <= e => x[2 * d - 1] = cm
  /\ \A d \in 2..m : d > e => x[2 * d + 2 * k - 1] = cm
  /\ x[2 * e] = lb /\ x[2 * e + 2 * k] = rb
  /\ \A p \in 1..k : x[2 * e - 1 + 2 * p] = ToString(e + p - 2)
  /\ \A p \in 2..k : x[2 * e - 2 + 2 * p] = cm

\* The rendered dimensions between the outer braces.
LEMMA RenderParts ==
  ASSUME NEW items, IsSeq(items), NEW m \in Nat, Len(items) = m, NEW e \in 1..m, NEW k \in Nat, k >= 2,
         \A d \in 1..m : d # e => Len(items[d]) = 1 /\ items[d][1] = ToString(BeginsAt(e, k, d)),
         NEW lb, NEW rb, NEW cm, NEW dim, Len(dim) = k, \A p \in 1..k : dim[p] = e + p - 2,
         DimText(items[e], dim, lb, rb, cm),
         NEW joined, Spaced(joined, items, e, 2 * k + 1, cm)
  PROVE  RenderText(<<lb>> \o joined \o <<rb>>, m, e, k, lb, rb, cm)
<1>1. PICK w \in Nat : w = 2 * k + 1
  OBVIOUS
<1>2. /\ IsSeq(joined) /\ Len(joined) = 2 * m - 2 + w
      /\ \A d \in 1..m : \A p \in 1..Len(items[d]) : joined[Off(e, w, d) + p] = items[d][p]
      /\ \A d \in 2..m : joined[Off(e, w, d)] = cm
  BY <1>1 DEF Spaced
<1>3. PICK u : u = <<lb>>
  OBVIOUS
<1>4. PICK v : v = <<rb>>
  OBVIOUS
<1>5. IsSeq(u) /\ Len(u) = 1 /\ u[1] = lb /\ IsSeq(v) /\ Len(v) = 1 /\ v[1] = rb
  BY <1>3, <1>4, Short
<1>6. PICK x : x = u \o joined \o v
  OBVIOUS
<1>7. Three(x, u, joined, v)
  BY <1>2, <1>5, <1>6, Cat3, Zenon
<1>8. PICK l \in Nat : l = 2 * m + 2 * k - 1 /\ l = 2 * m - 2 + w
  BY <1>1
<1>9. /\ IsSeq(x) /\ Len(x) = 2 * m + 2 * k + 1 /\ x[1] = lb /\ x[2 * m + 2 * k + 1] = rb
      /\ \A p \in 1..l : x[1 + p] = joined[p]
  <2>1. /\ IsSeq(x) /\ Len(x) = 1 + l + 1
        /\ \A p \in 1..1 : x[p] = u[p]
        /\ \A p \in 1..l : x[1 + p] = joined[p]
        /\ \A p \in 1..1 : x[1 + l + p] = v[p]
    BY <1>2, <1>5, <1>7, <1>8 DEF Three
  <2>2. 1 + l + 1 = 2 * m + 2 * k + 1 /\ 1 \in 1..1
    BY <1>8
  <2>3. x[1] = lb /\ x[2 * m + 2 * k + 1] = rb
    BY <1>5, <2>1, <2>2
  <2> QED
    BY <2>1, <2>2, <2>3
<1>10. ASSUME NEW d \in 1..m, d # e
       PROVE  x[1 + (Off(e, w, d) + 1)] = ToString(BeginsAt(e, k, d))
  <2>1. Len(items[d]) = 1 /\ items[d][1] = ToString(BeginsAt(e, k, d)) /\ 1 \in 1..1
    BY <1>10
  <2>2. joined[Off(e, w, d) + 1] = items[d][1]
    BY <1>2, <2>1, Zenon
  <2>3. Off(e, w, d) + 1 \in 1..l
    <3>1. CASE d < e
      BY ONLY <1>8, <3>1, m \in Nat, e \in 1..m, k \in Nat, k >= 2, d \in 1..m, w \in Nat DEF Off
    <3>2. CASE d > e
      <4>1. Off(e, w, d) = 2 * d + 2 * k - 2 /\ d >= 2
        BY ONLY <1>1, <3>2, m \in Nat, e \in 1..m, k \in Nat, k >= 2, d \in 1..m DEF Off
      <4> QED
        BY ONLY <1>8, <4>1, m \in Nat, e \in 1..m, k \in Nat, k >= 2, d \in 1..m, w \in Nat
    <3> QED
      BY <1>10, <3>1, <3>2
  <2> QED
    BY <1>9, <2>1, <2>2, <2>3
<1>11. ASSUME NEW d \in 1..m, d < e PROVE x[2 * d] = ToString(d - 1)
  <2>1. 1 + (Off(e, w, d) + 1) = 2 * d /\ BeginsAt(e, k, d) = d - 1 /\ d # e
    BY ONLY <1>11, m \in Nat, e \in 1..m, k \in Nat, k >= 2, w \in Nat DEF Off, BeginsAt
  <2> QED
    BY <1>10, <2>1
<1>12. ASSUME NEW d \in 1..m, d > e PROVE x[2 * d + 2 * k] = ToString(d + k - 2)
  <2>1. 1 + (Off(e, w, d) + 1) = 2 * d + 2 * k /\ BeginsAt(e, k, d) = d + k - 2 /\ d # e
    BY ONLY <1>1, <1>12, m \in Nat, e \in 1..m, k \in Nat, k >= 2 DEF Off, BeginsAt
  <2> QED
    BY <1>10, <2>1
<1>13. ASSUME NEW d \in 2..m PROVE x[1 + Off(e, w, d)] = cm
  <2>1. Off(e, w, d) \in 1..l
    <3>1. CASE d <= e
      BY ONLY <1>8, <3>1, m \in Nat, e \in 1..m, k \in Nat, k >= 2, d \in 2..m, w \in Nat DEF Off
    <3>2. CASE d > e
      BY ONLY <1>1, <1>8, <3>2, m \in Nat, e \in 1..m, k \in Nat, k >= 2, d \in 2..m DEF Off
    <3> QED
      BY <3>1, <3>2
  <2> QED
    BY <1>2, <1>9, <2>1
<1>14. ASSUME NEW d \in 2..m, d <= e PROVE x[2 * d - 1] = cm
  <2>1. 1 + Off(e, w, d) = 2 * d - 1
    BY ONLY <1>14, m \in Nat, e \in 1..m, k \in Nat, k >= 2, w \in Nat DEF Off
  <2> QED
    BY <1>13, <2>1
<1>15. ASSUME NEW d \in 2..m, d > e PROVE x[2 * d + 2 * k - 1] = cm
  <2>1. 1 + Off(e, w, d) = 2 * d + 2 * k - 1
    BY ONLY <1>1, <1>15, m \in Nat, e \in 1..m, k \in Nat, k >= 2 DEF Off
  <2> QED
    BY <1>13, <2>1
<1>16. PICK y : y = items[e]
  OBVIOUS
<1>17. /\ Len(y) = w /\ y[1] = lb /\ y[w] = rb
       /\ \A p \in 1..k : y[2 * p] = ToString(dim[p])
       /\ \A p \in 2..k : y[2 * p - 1] = cm
  BY <1>1, <1>16 DEF DimText
<1>18. ASSUME NEW q \in 1..w PROVE x[2 * e - 1 + q] = y[q]
  <2>1. joined[Off(e, w, e) + q] = y[q]
    BY <1>2, <1>16, <1>17
  <2>2. Off(e, w, e) = 2 * e - 2
    BY DEF Off
  <2>3. 2 * e - 2 + q \in 1..l /\ 1 + (2 * e - 2 + q) = 2 * e - 1 + q
    <3>1. PICK a, b \in Nat : a = 2 * e - 2 /\ b = 2 * m - 2 /\ a <= b /\ l = b + w
      BY ONLY <1>8, m \in Nat, e \in 1..m, k \in Nat, k >= 2, w \in Nat
    <3>2. a + q \in 1..l /\ 1 + (a + q) = 2 * e - 1 + q
      BY ONLY <3>1, a \in Nat, b \in Nat, m \in Nat, e \in 1..m, k \in Nat, k >= 2, q \in 1..w, w \in Nat
    <3> QED
      BY <3>1, <3>2
  <2> QED
    BY <1>9, <2>1, <2>2, <2>3
<1>19. x[2 * e] = lb /\ x[2 * e + 2 * k] = rb
  <2>1. 1 \in 1..w /\ w \in 1..w /\ 2 * e - 1 + 1 = 2 * e /\ 2 * e - 1 + w = 2 * e + 2 * k
    BY <1>1
  <2>2. x[2 * e - 1 + 1] = y[1] /\ x[2 * e - 1 + w] = y[w]
    BY <1>18, <2>1, Zenon
  <2> QED
    BY <1>17, <2>1, <2>2
<1>20. ASSUME NEW p \in 1..k PROVE x[2 * e - 1 + 2 * p] = ToString(e + p - 2)
  <2>1. 2 * p \in 1..w
    BY <1>1
  <2> QED
    BY <1>17, <1>18, <2>1
<1>21. ASSUME NEW p \in 2..k PROVE x[2 * e - 2 + 2 * p] = cm
  <2>1. 2 * p - 1 \in 1..w /\ 2 * e - 1 + (2 * p - 1) = 2 * e - 2 + 2 * p
    BY <1>1
  <2> QED
    BY <1>17, <1>18, <2>1
<1>22. RenderText(x, m, e, k, lb, rb, cm)
  BY <1>9, <1>11, <1>12, <1>14, <1>15, <1>19, <1>20, <1>21 DEF RenderText
<1> QED
  BY <1>3, <1>4, <1>6, <1>22

\* The text that Render writes.
LEMMA RenderIs ==
  ASSUME NEW low, IsSeq(low), NEW old, IsSeq(old), NEW x, NEW e \in 1..Len(low), Len(old) >= 2,
         \A p \in 1..Len(low) : low[p] = x <=> p = e
  PROVE  RenderText(Render(Dims(low, x, old)), Len(low), e, Len(old), "{", "}", ",")
<1>1. PICK k \in Nat, m \in Nat : k = Len(old) /\ k >= 2 /\ m = Len(low)
  BY SeqIs
<1>2. PICK dims : dims = Dims(low, x, old)
  OBVIOUS
<1>3. /\ IsSeq(dims) /\ Len(dims) = m
      /\ \A d \in 1..m : /\ IsSeq(dims[d]) /\ Len(dims[d]) = IF d = e THEN k ELSE 1
                         /\ \A p \in 1..Len(dims[d]) : dims[d][p] = BeginsAt(e, k, d) + p - 1
  <2>1. Len(old) >= 1
    BY <1>1
  <2>2. FoldDims(Dims(low, x, old), Len(low), e, Len(old))
    BY <2>1, DimsIs, Zenon
  <2> QED
    BY <1>1, <1>2, <2>2, Zenon DEF FoldDims
<1>4. PICK items : items = [d \in DOMAIN dims |-> RenderDim(dims[d])]
  OBVIOUS
<1>5. DOMAIN dims = 1..m
  BY <1>3, SeqIs
<1>6. /\ DOMAIN items = 1..m /\ items = [d \in 1..m |-> items[d]]
      /\ \A d \in 1..m : items[d] = RenderDim(dims[d])
  BY <1>4, <1>5
<1>7. Len(items) = m /\ IsSeq(items)
  BY <1>6, SeqByFunction
<1>8. ASSUME NEW d \in 1..m, d # e
      PROVE  IsSeq(items[d]) /\ Len(items[d]) = 1 /\ items[d][1] = ToString(BeginsAt(e, k, d))
  <2>1. IsSeq(dims[d]) /\ Len(dims[d]) = 1 /\ dims[d][1] = BeginsAt(e, k, d) + 1 - 1
    BY <1>3, <1>8
  <2>2. BeginsAt(e, k, d) + 1 - 1 = BeginsAt(e, k, d)
    BY <1>1 DEF BeginsAt
  <2>3. IsSeq(RenderDim(dims[d])) /\ Len(RenderDim(dims[d])) = 1 /\ RenderDim(dims[d])[1] = ToString(dims[d][1])
    <3>1. 1 >= 1
      OBVIOUS
    <3> QED
      BY <2>1, <3>1, RenderDimIs, Zenon
  <2>4. dims[d][1] = BeginsAt(e, k, d)
    BY <2>1, <2>2
  <2> QED
    BY <1>6, <2>3, <2>4
<1>9. e \in 1..m /\ IsSeq(dims[e]) /\ Len(dims[e]) = k /\ \A p \in 1..k : dims[e][p] = e + p - 2
  <2>1. e \in 1..m
    BY <1>1
  <2>2. IsSeq(dims[e]) /\ Len(dims[e]) = k /\ \A p \in 1..k : dims[e][p] = BeginsAt(e, k, e) + p - 1
    BY <1>3, <2>1
  <2>3. BeginsAt(e, k, e) = e - 1
    BY DEF BeginsAt
  <2> QED
    BY <2>1, <2>2, <2>3
<1>10. DimText(items[e], dims[e], "{", "}", ",")
  <2>1. Len(dims[e]) >= 1 /\ Len(dims[e]) # 1
    BY <1>1, <1>9
  <2>2. DimText(RenderDim(dims[e]), dims[e], "{", "}", ",")
    BY <1>9, <2>1, RenderDimIs, Zenon
  <2> QED
    BY <1>6, <1>9, <2>2, Zenon
<1>11. IsSeq(items[e]) /\ Len(items[e]) = 2 * k + 1
  BY <1>9, <1>10 DEF DimText
<1>12. PICK w \in Nat : w = 2 * k + 1 /\ w >= 1
  BY <1>1
<1>13. OneWide(items, e, w)
  <2>1. \A d \in 1..m : IsSeq(items[d]) /\ Len(items[d]) = IF d = e THEN w ELSE 1
    BY <1>8, <1>11, <1>12
  <2> QED
    BY <1>7, <1>9, <1>12, <2>1 DEF OneWide
<1>14. Spaced(Commas(items), items, e, 2 * k + 1, ",")
  BY <1>12, <1>13, CommasAre, Zenon
<1>15. RenderText(<<"{">> \o Commas(items) \o <<"}">>, m, e, k, "{", "}", ",")
  <2>1. \A d \in 1..m : d # e => Len(items[d]) = 1 /\ items[d][1] = ToString(BeginsAt(e, k, d))
    BY <1>8
  <2> QED
    BY <1>1, <1>7, <1>9, <1>10, <1>14, <2>1, RenderParts, Zenon
<1>16. Render(dims) = <<"{">> \o Commas(items) \o <<"}">>
  BY <1>4, Zenon DEF Render
<1> QED
  BY <1>1, <1>2, <1>15, <1>16, Zenon

\* Two sequences of one length that agree everywhere are one.
LEMMA SameText ==
  ASSUME NEW x, NEW y, IsSeq(x), IsSeq(y), Len(x) = Len(y), \A p \in 1..Len(x) : x[p] = y[p]
  PROVE  x = y
<1>1. PICK n \in Nat : n = Len(x) /\ n = Len(y) /\ x \in Seq(Range(x)) /\ y \in Seq(Range(y))
  BY SeqIs
<1>2. x = [p \in 1..n |-> x[p]] /\ y = [p \in 1..n |-> y[p]]
  BY <1>1
<1>3. \A p \in 1..n : x[p] = y[p]
  BY <1>1
<1> QED
  BY ONLY <1>2, <1>3

\* The positions of a group of g dimensions from the e-th on, and those besides.
Stretch(group, rest, n, e, g) ==
  /\ IsSeq(group) /\ Len(group) = g /\ \A p \in 1..g : group[p] = e + p - 2
  /\ IsSeq(rest) /\ Len(rest) = Beside(n, e, g)
  /\ \A p \in 1..Len(rest) : rest[p] = IF p < e THEN p - 1 ELSE p - 1 + g

\* Three shapes whose texts are the same.
LEMMA FirstOfTwo ==
  ASSUME NEW x, NEW y, NEW group, NEW rest, NEW lb, NEW rb, NEW cm, Stretch(group, rest, 3, 1, 2),
         MapFirst(x, group, rest, lb, rb, cm), RenderText(y, 2, 1, 2, lb, rb, cm)
  PROVE  x = y
<1>1. Len(group) = 2 /\ Len(rest) = 1 /\ group[1] = 0 /\ group[2] = 1 /\ rest[1] = 2
  <2>1. Beside(3, 1, 2) = 1
    BY DEF Beside
  <2> QED
    BY <2>1 DEF Stretch
<1>2. /\ IsSeq(x) /\ Len(x) = 9 /\ x[1] = lb /\ x[2] = lb /\ x[4] = cm /\ x[6] = rb
      /\ x[7] = cm /\ x[9] = rb
      /\ x[3] = ToString(0) /\ x[5] = ToString(1) /\ x[8] = ToString(2)
  BY <1>1 DEF MapFirst
<1>3. /\ IsSeq(y) /\ Len(y) = 9 /\ y[1] = lb /\ y[2] = lb /\ y[4] = cm /\ y[6] = rb
      /\ y[7] = cm /\ y[9] = rb
  BY DEF RenderText
<1>4. y[3] = ToString(0) /\ y[5] = ToString(1) /\ y[8] = ToString(2)
  BY DEF RenderText
<1>5. Len(x) = Len(y) /\ \A p \in 1..Len(x) : x[p] = y[p]
  <2>1. \A p \in 1..9 : x[p] = y[p]
    BY <1>2, <1>3, <1>4
  <2> QED
    BY <1>2, <1>3, <2>1, Zenon
<1> QED
  BY <1>2, <1>3, <1>5, SameText, Zenon

\* The second of two dimensions is folded.
LEMMA SecondOfTwo ==
  ASSUME NEW x, NEW y, NEW group, NEW rest, NEW lb, NEW rb, NEW cm, Stretch(group, rest, 3, 2, 2),
         MapLater(x, group, rest, lb, rb, cm), RenderText(y, 2, 2, 2, lb, rb, cm)
  PROVE  x = y
<1>1. Len(group) = 2 /\ Len(rest) = 1 /\ group[1] = 1 /\ group[2] = 2 /\ rest[1] = 0
  <2>1. Beside(3, 2, 2) = 1
    BY DEF Beside
  <2> QED
    BY <2>1 DEF Stretch
<1>2. /\ IsSeq(x) /\ Len(x) = 9 /\ x[1] = lb /\ x[3] = cm /\ x[4] = lb /\ x[6] = cm
      /\ x[8] = rb /\ x[9] = rb
      /\ x[2] = ToString(0) /\ x[5] = ToString(1) /\ x[7] = ToString(2)
  BY <1>1 DEF MapLater
<1>3. /\ IsSeq(y) /\ Len(y) = 9 /\ y[1] = lb /\ y[3] = cm /\ y[4] = lb /\ y[6] = cm
      /\ y[8] = rb /\ y[9] = rb
  BY DEF RenderText
<1>4. y[2] = ToString(0) /\ y[5] = ToString(1) /\ y[7] = ToString(2)
  BY DEF RenderText
<1>5. Len(x) = Len(y) /\ \A p \in 1..Len(x) : x[p] = y[p]
  <2>1. \A p \in 1..9 : x[p] = y[p]
    BY <1>2, <1>3, <1>4
  <2> QED
    BY <1>2, <1>3, <2>1, Zenon
<1> QED
  BY <1>2, <1>3, <1>5, SameText, Zenon

\* The first of three dimensions is folded.
LEMMA FirstOfThree ==
  ASSUME NEW x, NEW y, NEW group, NEW rest, NEW lb, NEW rb, NEW cm, Stretch(group, rest, 4, 1, 2),
         MapFirst(x, group, rest, lb, rb, cm), RenderText(y, 3, 1, 2, lb, rb, cm)
  PROVE  x = y
<1>1. Len(group) = 2 /\ Len(rest) = 2 /\ group[1] = 0 /\ group[2] = 1 /\ rest[1] = 2 /\ rest[2] = 3
  <2>1. Beside(4, 1, 2) = 2
    BY DEF Beside
  <2> QED
    BY <2>1 DEF Stretch
<1>2. /\ IsSeq(x) /\ Len(x) = 11 /\ x[1] = lb /\ x[2] = lb /\ x[4] = cm /\ x[6] = rb
      /\ x[7] = cm /\ x[9] = cm /\ x[11] = rb
      /\ x[3] = ToString(0) /\ x[5] = ToString(1) /\ x[8] = ToString(2) /\ x[10] = ToString(3)
  BY <1>1 DEF MapFirst
<1>3. /\ IsSeq(y) /\ Len(y) = 11 /\ y[1] = lb /\ y[2] = lb /\ y[4] = cm /\ y[6] = rb
      /\ y[7] = cm /\ y[9] = cm /\ y[11] = rb
  BY DEF RenderText
<1>4. y[3] = ToString(0) /\ y[5] = ToString(1) /\ y[8] = ToString(2) /\ y[10] = ToString(3)
  BY DEF RenderText
<1>5. Len(x) = Len(y) /\ \A p \in 1..Len(x) : x[p] = y[p]
  <2>1. \A p \in 1..11 : x[p] = y[p]
    BY <1>2, <1>3, <1>4
  <2> QED
    BY <1>2, <1>3, <2>1, Zenon
<1> QED
  BY <1>2, <1>3, <1>5, SameText, Zenon

\* And two whose texts differ only in a comma.
LEMMA ThreeOfTwo ==
  ASSUME NEW x, NEW group, NEW rest, NEW lb, NEW rb, NEW cm, rb # cm, Stretch(group, rest, 4, 1, 2),
         MapFirst(x, group, rest, lb, rb, cm)
  PROVE  ~RenderText(x, 2, 1, 3, lb, rb, cm)
<1>1. Len(group) = 2
  BY DEF Stretch
<1>2. x[6] = rb
  BY <1>1 DEF MapFirst
<1>3. RenderText(x, 2, 1, 3, lb, rb, cm) => x[6] = cm
  BY DEF RenderText
<1> QED
  BY <1>2, <1>3

\* One dimension folds more than two.
LEMMA FourOfOne ==
  ASSUME NEW x, NEW group, NEW rest, NEW lb, NEW rb, NEW cm, rb # cm, Stretch(group, rest, 4, 1, 1),
         MapFirst(x, group, rest, lb, rb, cm)
  PROVE  ~RenderText(x, 1, 1, 4, lb, rb, cm)
<1>1. Len(group) = 1 /\ Len(rest) = 3 /\ group[1] = 0 /\ rest[1] = 1 /\ rest[2] = 2
  <2>1. Beside(4, 1, 1) = 3
    BY DEF Beside
  <2> QED
    BY <2>1 DEF Stretch
<1>2. x[5] = rb /\ x[7] = ToString(1) /\ x[8] = ToString(2)
  BY <1>1 DEF MapFirst
<1>3. RenderText(x, 1, 1, 4, lb, rb, cm) => x[5] = ToString(1) /\ x[7] = ToString(2) /\ x[8] = cm
  BY DEF RenderText
<1> QED
  BY <1>2, <1>3

\* The map written is the right one for two folded indices of three, and of
\* four if they come first.
LEMMA MapRight ==
  ASSUME NEW m \in Nat, NEW e \in 1..m, NEW k \in Nat, k >= 2, NEW onLhs \in BOOLEAN,
         NEW g \in Nat, g = IF onLhs THEN k ELSE m,
         NEW group, NEW rest, Stretch(group, rest, m + k - 1, e, g), Len(rest) >= 1,
         NEW lb, NEW rb, NEW cm, rb # cm, NEW x, NEW y,
         e = 1 => MapFirst(x, group, rest, lb, rb, cm),
         e # 1 => MapLater(x, group, rest, lb, rb, cm),
         RenderText(y, m, e, k, lb, rb, cm)
  PROVE  x = y <=> k = 2 /\ (m = 2 \/ (m = 3 /\ e = 1 /\ onLhs))
<1>1. PICK r \in Nat : r = Len(rest) /\ r >= 1 /\ r = Beside(m + k - 1, e, g) /\ Len(group) = g
  BY SeqIs DEF Stretch
<1>2. Len(y) = 2 * m + 2 * k + 1
  BY DEF RenderText
<1>3. g >= 1
  OBVIOUS
<1>4. CASE e = 1
  <2>1. r = m + k - 1 - g
    BY <1>1, <1>4 DEF Beside
  <2>2. Len(x) = IF r = 1 THEN g + 7 ELSE g + r + 7
    <3>1. Len(x) = (IF r = 1 THEN 4 + g ELSE 5 + g) + r + 2
      BY <1>1, <1>4, Zenon DEF MapFirst
    <3> QED
      BY <3>1
  <2>3. CASE onLhs
    <3>1. g = k /\ r = m - 1
      BY <2>1, <2>3
    <3>2. x = y => k = 2 /\ (m = 2 \/ m = 3)
      <4> SUFFICES ASSUME x = y PROVE k = 2 /\ (m = 2 \/ m = 3)
        OBVIOUS
      <4>1. CASE r = 1
        BY <1>2, <2>2, <3>1, <4>1
      <4>2. CASE r # 1
        BY <1>1, <1>2, <2>2, <3>1, <4>2
      <4> QED
        BY <4>1, <4>2
    <3>3. k = 2 /\ m = 2 => x = y
      <4> SUFFICES ASSUME k = 2, m = 2 PROVE x = y
        OBVIOUS
      <4>1. m + k - 1 = 3 /\ g = 2
        BY <3>1
      <4> QED
        BY <1>4, <4>1, FirstOfTwo
    <3>4. k = 2 /\ m = 3 => x = y
      <4> SUFFICES ASSUME k = 2, m = 3 PROVE x = y
        OBVIOUS
      <4>1. m + k - 1 = 4 /\ g = 2
        BY <3>1
      <4> QED
        BY <1>4, <4>1, FirstOfThree
    <3> QED
      BY <1>4, <2>3, <3>2, <3>3, <3>4
  <2>4. CASE ~onLhs
    <3>1. g = m /\ r = k - 1
      BY <2>1, <2>4
    <3>2. x = y => (k = 2 /\ m = 2) \/ (k = 3 /\ m = 2) \/ (k = 4 /\ m = 1)
      <4> SUFFICES ASSUME x = y PROVE (k = 2 /\ m = 2) \/ (k = 3 /\ m = 2) \/ (k = 4 /\ m = 1)
        OBVIOUS
      <4>1. CASE r = 1
        BY <1>2, <2>2, <3>1, <4>1
      <4>2. CASE r # 1
        <5>1. m + (k - 1) + 7 = 2 * m + 2 * k + 1
          BY <1>2, <2>2, <3>1, <4>2
        <5>2. m + k = 5 /\ m >= 1 /\ k >= 3
          BY <3>1, <4>2, <5>1
        <5> QED
          BY <5>2
      <4> QED
        BY <4>1, <4>2
    <3>3. k = 2 /\ m = 2 => x = y
      <4> SUFFICES ASSUME k = 2, m = 2 PROVE x = y
        OBVIOUS
      <4>1. m + k - 1 = 3 /\ g = 2
        BY <3>1
      <4> QED
        BY <1>4, <4>1, FirstOfTwo
    <3>4. k = 3 /\ m = 2 => x # y
      <4> SUFFICES ASSUME k = 3, m = 2 PROVE x # y
        OBVIOUS
      <4>1. m + k - 1 = 4 /\ g = 2
        BY <3>1
      <4> QED
        BY <1>4, <4>1, ThreeOfTwo
    <3>5. k = 4 /\ m = 1 => x # y
      <4> SUFFICES ASSUME k = 4, m = 1 PROVE x # y
        OBVIOUS
      <4>1. m + k - 1 = 4 /\ g = 1
        BY <3>1
      <4> QED
        BY <1>4, <4>1, FourOfOne
    <3> QED
      BY <2>4, <3>2, <3>3, <3>4, <3>5
  <2> QED
    BY <2>3, <2>4
<1>5. CASE e # 1
  <2>1. Len(x) = IF r = 1 THEN g + 7 ELSE g + r + 5
    BY <1>1, <1>5 DEF MapLater
  <2>2. e >= 2 /\ m >= 2
    BY <1>5
  <2>3. r = IF m + k - 1 < e + g THEN e - 1 ELSE m + k - 1 - g
    BY <1>1 DEF Beside
  <2>4. x = y => k = 2 /\ m = 2
    <3> SUFFICES ASSUME x = y PROVE k = 2 /\ m = 2
      OBVIOUS
    <3>1. CASE onLhs
      <4>1. g = k /\ r = m - 1
        BY <2>2, <2>3, <3>1
      <4>2. CASE r = 1
        BY <1>2, <2>1, <4>1, <4>2
      <4>3. CASE r # 1
        BY <1>2, <2>1, <2>2, <4>1, <4>3
      <4> QED
        BY <4>2, <4>3
    <3>2. CASE ~onLhs
      <4>1. g = m
        BY <3>2
      <4>2. CASE r = 1
        <5>1. m + 7 = 2 * m + 2 * k + 1
          BY <1>2, <2>1, <4>1, <4>2
        <5> QED
          BY <2>2, <5>1
      <4>3. CASE r # 1
        <5>1. m + r + 5 = 2 * m + 2 * k + 1
          BY <1>2, <2>1, <4>1, <4>3
        <5>2. CASE m + k - 1 < e + g
          <6>1. r = e - 1 /\ e - 1 <= m - 1
            BY <2>3, <5>2
          <6> QED
            BY <5>1, <6>1
        <5>3. CASE ~(m + k - 1 < e + g)
          <6>1. r = k - 1
            BY <2>3, <4>1, <5>3
          <6> QED
            BY <2>2, <5>1, <6>1
        <5> QED
          BY <5>2, <5>3
      <4> QED
        BY <4>2, <4>3
    <3> QED
      BY <3>1, <3>2
  <2>5. k = 2 /\ m = 2 => x = y
    <3> SUFFICES ASSUME k = 2, m = 2 PROVE x = y
      OBVIOUS
    <3>1. m + k - 1 = 3 /\ g = 2 /\ e = 2
      BY <2>2
    <3> QED
      BY <1>5, <3>1, SecondOfTwo
  <2> QED
    BY <1>5, <2>4, <2>5
<1> QED
  BY <1>4, <1>5

\* SubSeq, position by position.
LEMMA SubSeqIs ==
  ASSUME NEW s, IsSeq(s), NEW a \in Nat, a >= 1, NEW b \in Nat, b <= Len(s), a <= b + 1
  PROVE  /\ IsSeq(SubSeq(s, a, b)) /\ Len(SubSeq(s, a, b)) = b - a + 1
         /\ \A p \in 1..(b - a + 1) : SubSeq(s, a, b)[p] = s[p + a - 1]
<1>1. Len(s) \in Nat /\ DOMAIN s = 1..Len(s) /\ s \in Seq(Range(s))
  BY SeqIs
<1>2. PICK u : u = SubSeq(s, a, b)
  OBVIOUS
<1>3. PICK n \in Nat : n = b - a + 1
  <2>1. b - a + 1 \in Nat
    OBVIOUS
  <2> QED
    BY <2>1
<1>4. u = [p \in 1..n |-> s[p + a - 1]]
  <2>1. u = [p \in 1..(b - a + 1) |-> s[a + p - 1]]
    BY <1>1, <1>2
  <2>2. \A p \in 1..n : a + p - 1 = p + a - 1
    OBVIOUS
  <2> QED
    BY <1>3, <2>1, <2>2
<1>5. DOMAIN u = 1..n /\ u = [p \in 1..n |-> u[p]] /\ \A p \in 1..n : u[p] = s[p + a - 1]
  BY <1>4
<1>6. Len(u) = n /\ IsSeq(u)
  BY <1>5, SeqByFunction
<1> QED
  BY <1>2, <1>3, <1>5, <1>6

\* Nothing is written out of a side without the folded index.
LEMMA FlatNone ==
  ASSUME NEW s, IsSeq(s), NEW old, IsSeq(old), NEW x, ~Contains(s, x)
  PROVE  Flat(s, x, old) = s
<1>1. PICK n \in Nat : n = Len(s) /\ DOMAIN s = 1..n /\ s \in Seq(Range(s))
  BY SeqIs
<1>2. \A p \in 1..Len(s) : s[p] = x <=> p = n + 1
  BY <1>1 DEF Contains
<1>3. n + 1 \in Nat /\ n + 1 >= 1
  OBVIOUS
<1>4. Flat(s, x, old) = Spread(s, n + 1, old, n)
  BY <1>1, <1>2, <1>3, FlatIs
<1>5. PICK u : u = Spread(s, n + 1, old, n)
  OBVIOUS
<1>6. Spreads(u, s, n + 1, old, n)
  BY <1>3, <1>5, SpreadIs, Zenon
<1>7. IsSeq(u) /\ Len(u) = n /\ \A p \in 1..n : u[p] = s[p]
  BY <1>6 DEF Spreads
<1> QED
  BY <1>1, <1>4, <1>5, <1>7, SameText

\* Substitute writes the folded index out.
LEMMA SubstituteIs ==
  ASSUME NEW s, IsSeq(s), IsInjective(s), NEW old, IsSeq(old), NEW x, NEW e \in 1..Len(s), s[e] = x,
         \A p \in 1..Len(old) : old[p] # x
  PROVE  Substitute(s, x, old) = Spread(s, e, old, Len(s))
<1>1. PICK m \in Nat, k \in Nat : m = Len(s) /\ DOMAIN s = 1..m /\ k = Len(old)
  BY SeqIs
<1>2. Contains(s, x)
  BY DEF Contains
<1>3. Position(x, s) = e - 1
  BY <1>1, PositionIs
<1>4. PICK u : u = SubSeq(s, 1, e - 1)
  OBVIOUS
<1>5. IsSeq(u) /\ Len(u) = e - 1 /\ \A p \in 1..(e - 1) : u[p] = s[p]
  <2>1. e - 1 \in Nat /\ e - 1 <= Len(s) /\ 1 <= (e - 1) + 1 /\ 1 \in Nat /\ 1 >= 1
    BY <1>1
  <2>2. /\ IsSeq(SubSeq(s, 1, e - 1)) /\ Len(SubSeq(s, 1, e - 1)) = (e - 1) - 1 + 1
        /\ \A p \in 1..((e - 1) - 1 + 1) : SubSeq(s, 1, e - 1)[p] = s[p + 1 - 1]
    BY <2>1, SubSeqIs, Zenon
  <2>3. IsSeq(u) /\ Len(u) = (e - 1) - 1 + 1 /\ \A p \in 1..((e - 1) - 1 + 1) : u[p] = s[p + 1 - 1]
    BY <1>4, <2>2
  <2> QED
    BY <2>3
<1>6. PICK w : w = SubSeq(s, (e - 1) + 1, Len(s))
  OBVIOUS
<1>7. IsSeq(w) /\ Len(w) = m - e + 1 /\ \A p \in 1..(m - e + 1) : w[p] = s[p + e - 1]
  <2>1. (e - 1) + 1 = e /\ e \in Nat /\ e >= 1 /\ m <= Len(s) /\ e <= m + 1
    BY <1>1
  <2>2. w = SubSeq(s, e, m)
    BY <1>1, <1>6, <2>1
  <2> QED
    BY <2>1, <2>2, SubSeqIs
<1>8. PICK both : both = u \o old \o w
  OBVIOUS
<1>9. Three(both, u, old, w)
  BY <1>5, <1>7, <1>8, Cat3, Zenon
<1>10. /\ IsSeq(both) /\ Len(both) = m + k
       /\ \A p \in 1..(e - 1) : both[p] = s[p]
       /\ \A p \in 1..k : both[(e - 1) + p] = old[p]
       /\ \A p \in 1..(m - e + 1) : both[(e - 1) + k + p] = s[p + e - 1]
  <2>1. /\ IsSeq(both) /\ Len(both) = (e - 1) + k + (m - e + 1)
        /\ \A p \in 1..(e - 1) : both[p] = u[p]
        /\ \A p \in 1..k : both[(e - 1) + p] = old[p]
        /\ \A p \in 1..(m - e + 1) : both[(e - 1) + k + p] = w[p]
    BY <1>1, <1>5, <1>7, <1>9 DEF Three
  <2>2. (e - 1) + k + (m - e + 1) = m + k
    BY <1>1
  <2> QED
    BY <1>5, <1>7, <2>1, <2>2
<1>11. /\ \A p \in 1..(m + k) : p >= e /\ p < e + k => both[p] = old[p - e + 1]
       /\ \A p \in 1..(m + k) : p >= e + k => both[p] = s[p - k]
  <2>1. ASSUME NEW p \in 1..(m + k), p >= e, p < e + k PROVE both[p] = old[p - e + 1]
    <3>1. p - e + 1 \in 1..k /\ (e - 1) + (p - e + 1) = p
      BY <2>1
    <3> QED
      BY <1>10, <3>1
  <2>2. ASSUME NEW p \in 1..(m + k), p >= e + k PROVE both[p] = s[p - k]
    <3>1. PICK q : q = p - k - e + 1
      OBVIOUS
    <3>2. q \in 1..(m - e + 1) /\ (e - 1) + k + q = p /\ q + e - 1 = p - k
      BY <2>2, <3>1
    <3> QED
      BY <1>10, <3>2
  <2> QED
    BY <2>1, <2>2
<1>12. DOMAIN both = 1..(m + k)
  BY <1>10, SeqIs
<1>13. PICK places : places = {p \in DOMAIN both : both[p] # x}
  OBVIOUS
<1>14. Substitute(s, x, old) = Kept(both, places)
  BY <1>2, <1>3, <1>4, <1>6, <1>8, <1>13, Zenon DEF Substitute
<1>15. \A p \in 1..(m + k) : p \in places <=> p < e + k \/ p >= e + k + 1
  <2> SUFFICES ASSUME NEW p \in 1..(m + k) PROVE both[p] = x <=> p = e + k
    <3>1. \A p \in 1..(m + k) : p \in places <=> both[p] # x
      BY <1>12, <1>13
    <3>2. \A p \in 1..(m + k) : p # e + k <=> (p < e + k \/ p >= e + k + 1)
      BY <1>1
    <3> QED
      BY <3>1, <3>2
  <2>1. CASE p < e
    <3>1. p \in 1..(e - 1) /\ p \in 1..m /\ e \in 1..m /\ p # e /\ p # e + k
      BY <1>1, <2>1
    <3>2. both[p] = s[p]
      BY <1>10, <3>1
    <3>3. s[p] # s[e]
      BY <1>1, <3>1 DEF IsInjective
    <3> QED
      BY <3>1, <3>2, <3>3
  <2>2. CASE p >= e /\ p < e + k
    <3>1. p - e + 1 \in 1..Len(old)
      BY <1>1, <2>2
    <3>2. both[p] = old[p - e + 1]
      BY <1>11, <2>2
    <3>3. old[p - e + 1] # x
      BY <3>1
    <3>4. p # e + k
      BY <1>1, <2>2
    <3> QED
      BY <3>2, <3>3, <3>4
  <2>3. CASE p >= e + k
    <3>1. p - k \in 1..m /\ both[p] = s[p - k]
      BY <1>11, <2>3
    <3> QED
      BY <1>1, <2>3, <3>1 DEF IsInjective
  <2> QED
    BY <2>1, <2>2, <2>3
<1>16. Kept(both, places) = [p \in 1..Beside(m + k, e + k, 1) |-> IF p < e + k THEN both[p] ELSE both[p + 1]]
  <2>1. e + k \in Nat /\ e + k >= 1 /\ 1 \in Nat
    BY <1>1
  <2> QED
    BY <1>10, <1>15, <2>1, KeptBeside
<1>17. Beside(m + k, e + k, 1) = m + k - 1
  BY <1>1 DEF Beside
<1>18. \A p \in 1..(m + k - 1) :
         (IF p < e + k THEN both[p] ELSE both[p + 1])
           = IF p < e THEN s[p] ELSE IF p < e + k THEN old[p - e + 1] ELSE s[p - k + 1]
  <2> SUFFICES ASSUME NEW p \in 1..(m + k - 1)
               PROVE (IF p < e + k THEN both[p] ELSE both[p + 1])
                       = IF p < e THEN s[p] ELSE IF p < e + k THEN old[p - e + 1] ELSE s[p - k + 1]
    OBVIOUS
  <2>1. CASE p < e
    BY <1>10, <2>1
  <2>2. CASE p >= e /\ p < e + k
    BY <1>11, <2>2
  <2>3. CASE p >= e + k
    <3>1. p + 1 \in 1..(m + k) /\ p + 1 >= e + k /\ (p + 1) - k = p - k + 1
      BY <2>3
    <3>2. both[p + 1] = s[p - k + 1]
      BY <1>11, <3>1
    <3> QED
      BY <2>3, <3>2
  <2> QED
    BY <2>1, <2>2, <2>3
<1>19. Spread(s, e, old, Len(s)) =
         [p \in 1..(m + k - 1) |-> IF p < e THEN s[p] ELSE IF p < e + k THEN old[p - e + 1] ELSE s[p - k + 1]]
  BY <1>1 DEF Spread
<1> QED
  BY <1>14, <1>16, <1>17, <1>18, <1>19

\* The sides of a reshape: low has x as its e-th index, which folds old.
Sides(low, high, x, old, e, m, k) ==
  /\ IsSeq(low) /\ IsInjective(low) /\ m \in Nat /\ m = Len(low) /\ e \in 1..m /\ low[e] = x
  /\ IsSeq(high) /\ IsInjective(high) /\ ~Contains(high, x) /\ Flat(high, x, old) = high
  /\ IsSeq(old) /\ k \in Nat /\ k = Len(old) /\ Len(high) = m + k - 1
  /\ Flat(low, x, old) = Spread(low, e, old, m)
  /\ IsSeq(Flat(low, x, old)) /\ IsInjective(Flat(low, x, old))
  /\ Len(Flat(low, x, old)) = m + k - 1 /\ Range(Flat(low, x, old)) = Range(high)
  /\ \A p \in 1..k : Flat(low, x, old)[e + p - 1] = old[p] /\ old[p] # x

\* What a flat side of full range says of the two sides.
LEMMA SidesOf ==
  ASSUME NEW low, IsSeq(low), IsInjective(low), NEW high, IsSeq(high), IsInjective(high),
         NEW x, NEW old, IsSeq(old), Contains(low, x), ~Contains(high, x),
         IsInjective(Flat(low, x, old)), Range(Flat(low, x, old)) = Range(Flat(high, x, old))
  PROVE  \E e, m, k : Sides(low, high, x, old, e, m, k)
<1>1. PICK m \in Nat, k \in Nat : m = Len(low) /\ DOMAIN low = 1..m /\ k = Len(old)
  BY SeqIs
<1>2. PICK e \in 1..m : low[e] = x
  BY <1>1 DEF Contains
<1>3. Flat(high, x, old) = high
  BY FlatNone
<1>4. \A p \in 1..Len(low) : low[p] = x <=> p = e
  BY <1>1, <1>2 DEF IsInjective
<1>5. e \in Nat /\ e >= 1
  OBVIOUS
<1>6. PICK u : u = Flat(low, x, old)
  OBVIOUS
<1>7. u = Spread(low, e, old, m)
  BY <1>1, <1>4, <1>5, <1>6, FlatIs
<1>8. Spreads(u, low, e, old, m)
  BY <1>5, <1>7, SpreadIs, Zenon
<1>9. /\ IsSeq(u) /\ Len(u) = m + k - 1 /\ DOMAIN u = 1..(m + k - 1)
      /\ \A p \in 1..(m + k - 1) : u[p] = IF p < e THEN low[p]
                                        ELSE IF p < e + k THEN old[p - e + 1] ELSE low[p - k + 1]
  BY <1>1, <1>8 DEF Spreads
<1>10. IsInjective(u) /\ Range(u) = Range(high)
  BY <1>3, <1>6
<1>11. Len(high) = m + k - 1
  <2>1. Len(u) <= Len(high) /\ Len(high) <= Len(u)
    BY <1>9, <1>10, NoLonger
  <2>2. PICK l \in Nat : l = Len(high)
    BY SeqIs
  <2> QED
    BY <1>9, <2>1, <2>2
<1>12. ASSUME NEW p \in 1..k PROVE u[e + p - 1] = old[p] /\ old[p] # x
  <2>1. PICK q : q = e + p - 1
    OBVIOUS
  <2>2. q \in 1..(m + k - 1) /\ ~(q < e) /\ q < e + k /\ q - e + 1 = p
    BY <2>1
  <2>3. u[q] = old[p]
    BY <1>9, <2>2
  <2>4. u[q] \in Range(high)
    BY <1>9, <1>10, <2>2 DEF Range
  <2>5. PICK r \in DOMAIN high : high[r] = u[q]
    BY <2>4 DEF Range
  <2>6. r \in 1..Len(high)
    BY <2>5, SeqIs
  <2>7. high[r] # x
    BY <2>6 DEF Contains
  <2> QED
    BY <2>1, <2>3, <2>5, <2>7
<1>13. Sides(low, high, x, old, e, m, k)
  BY <1>1, <1>2, <1>3, <1>6, <1>7, <1>9, <1>10, <1>11, <1>12 DEF Sides
<1> QED
  BY <1>13

OldOf(st)  == st.where[1].rhs.idents
LowOf(st)  == IF FoldedOnLhs(st) THEN st.indices ELSE ArgNames(st.rhs)
HighOf(st) == IF FoldedOnLhs(st) THEN ArgNames(st.rhs) ELSE st.indices

\* What is common to the statements that are reshapes.
LEMMA ReshapeSides ==
  ASSUME NEW st, IsStatement(st), IsReshape(st)
  PROVE  /\ \E e, m, k : Sides(LowOf(st), HighOf(st), st.where[1].name, OldOf(st), e, m, k)
         /\ OneAccess(st) /\ st.rhs.kind = "apply" /\ Len(st.where) = 1 /\ OneSided(st, st.where[1])
         /\ Len(ArgNames(st.rhs)) = Len(st.rhs.args) /\ DOMAIN st.rhs.args = 1..Len(st.rhs.args)
         /\ ReshapeThrows(st) <=> Len(OldOf(st)) < 2
         /\ IsSeq(st.indices) /\ IsSeq(ArgNames(st.rhs))
<1> DEFINE is == st.indices
           js == ArgNames(st.rhs)
           x == st.where[1].name
           old == st.where[1].rhs.idents
<1>0. Contains(is, x) <=> ~Contains(js, x)
  <2>1. Contains(is, x) # Contains(js, x)
    BY Zenon DEF IsReshape, Folded1
  <2> QED
    BY <2>1, Zenon DEF Contains
<1>1. /\ st.assign = "=" /\ st.rhs.kind = "apply" /\ IdentArgs(st.rhs)
      /\ \A w \in ToSet(st.where) : w.kind = "let"
      /\ Len(st.where) = 1
      /\ IsInjective(is) /\ IsInjective(js)
      /\ IsInjective(Flat(is, x, old)) /\ IsInjective(Flat(js, x, old))
      /\ Range(Flat(is, x, old)) = Range(Flat(js, x, old))
  BY DEF IsReshape, IsView, FlatLhs, FlatRhs, Folded1
<1>2. /\ IsNode(st.rhs) /\ IsSeq(is) /\ IsSeq(st.where)
      /\ \A w \in ToSet(st.where) : IsSeq(w.rhs.idents)
  BY <1>1 DEF IsStatement, IsTree
<1>3. OneAccess(st)
  BY <1>1, <1>2 DEF IsNode, OneAccess
<1>4. IsSeq(js) /\ Len(js) = Len(st.rhs.args) /\ IsSeq(st.rhs.args)
  BY <1>1, <1>2, ArgNamesIs
<1>5. DOMAIN st.rhs.args = 1..Len(st.rhs.args)
  BY <1>4, SeqIs
<1>6. ToSet(st.where) = {st.where[1]}
  BY <1>1 DEF ToSet
<1>7. IsSeq(old)
  BY <1>2, <1>6
<1>8. ReshapeThrows(st) <=> Len(old) < 2
  BY <1>1, <1>6 DEF ReshapeThrows
<1>9. OneSided(st, st.where[1])
  BY Zenon DEF IsReshape, Folded1, OneSided
<1>10. \E e, m, k : Sides(LowOf(st), HighOf(st), x, old, e, m, k)
  <2> HIDE DEF is, js, x, old
  <2>1. CASE Contains(is, x)
    <3>1. ~Contains(js, x)
      BY <1>0, <2>1
    <3>2. \E e, m, k : Sides(is, js, x, old, e, m, k)
      BY <1>1, <1>2, <1>4, <1>7, <2>1, <3>1, SidesOf
    <3>3. LowOf(st) = is /\ HighOf(st) = js
      BY <2>1 DEF LowOf, HighOf, FoldedOnLhs, is, js, x
    <3> QED
      BY <3>2, <3>3
  <2>2. CASE ~Contains(is, x)
    <3>1. Contains(js, x)
      BY <1>0, <2>2
    <3>2. \E e, m, k : Sides(js, is, x, old, e, m, k)
      BY <1>1, <1>2, <1>4, <1>7, <2>2, <3>1, SidesOf
    <3>3. LowOf(st) = js /\ HighOf(st) = is
      BY <2>2 DEF LowOf, HighOf, FoldedOnLhs, is, js, x
    <3> QED
      BY <3>2, <3>3
  <2> QED
    BY <2>1, <2>2
<1> QED
  BY <1>1, <1>2, <1>3, <1>4, <1>5, <1>8, <1>9, <1>10 DEF OldOf

\* The positions of a group that is a stretch, and those besides.
Parted(group, rest, n, e, g) == group = [p \in 1..g |-> e + p - 2] /\ rest = Without(group, n)

PartedRight(group, rest, n, e, g) ==
  /\ Stretch(group, rest, n, e, g)
  /\ Contains(group, 0) <=> e = 1
  /\ ReshapeMapAsserts(group, rest) <=> Len(rest) >= 1

LEMMA Stretched ==
  ASSUME NEW n \in Nat, NEW e \in Nat, e >= 1, NEW g \in Nat, g >= 1,
         NEW group, NEW rest, Parted(group, rest, n, e, g)
  PROVE  PartedRight(group, rest, n, e, g)
<1> USE DEF Parted, PartedRight
<1>1. DOMAIN group = 1..g /\ group = [p \in 1..g |-> group[p]] /\ \A p \in 1..g : group[p] = e + p - 2
  OBVIOUS
<1>2. Len(group) = g /\ IsSeq(group)
  BY <1>1, SeqByFunction
<1>3. Contains(group, 0) <=> e = 1
  <2>1. Contains(group, 0) <=> \E p \in 1..g : e + p - 2 = 0
    BY <1>1, <1>2 DEF Contains
  <2>2. e = 1 => 1 \in 1..g /\ e + 1 - 2 = 0
    OBVIOUS
  <2> QED
    BY <2>1, <2>2
<1>4. PICK up : up = Upto(n)
  OBVIOUS
<1>5. DOMAIN up = 1..n /\ up = [p \in 1..n |-> up[p]] /\ \A p \in 1..n : up[p] = p - 1
  BY <1>4 DEF Upto
<1>6. Len(up) = n /\ IsSeq(up)
  BY <1>5, SeqByFunction
<1>7. PICK places : places = {p \in 1..n : ~Contains(group, p - 1)}
  OBVIOUS
<1>8. \A p \in 1..n : p \in places <=> p < e \/ p >= e + g
  <2> SUFFICES ASSUME NEW p \in 1..n PROVE Contains(group, p - 1) <=> p >= e /\ p < e + g
    BY <1>7
  <2>1. Contains(group, p - 1) <=> \E q \in 1..g : e + q - 2 = p - 1
    BY <1>1, <1>2 DEF Contains
  <2>2. p >= e /\ p < e + g => p - e + 1 \in 1..g /\ e + (p - e + 1) - 2 = p - 1
    OBVIOUS
  <2> QED
    BY <2>1, <2>2
<1>9. rest = [p \in 1..Beside(n, e, g) |-> IF p < e THEN up[p] ELSE up[p + g]]
  <2>1. rest = Kept(up, places)
    BY <1>4, <1>7 DEF Without
  <2>2. \A p \in 1..Len(up) : p \in places <=> p < e \/ p >= e + g
    BY <1>6, <1>8
  <2>3. Kept(up, places) = [p \in 1..Beside(Len(up), e, g) |-> IF p < e THEN up[p] ELSE up[p + g]]
    BY <1>6, <2>2, KeptBeside
  <2> QED
    BY <1>6, <2>1, <2>3, Zenon
<1>10. PICK r \in Nat : r = Beside(n, e, g)
  <2>1. Beside(n, e, g) \in Nat
    BY DEF Beside
  <2> QED
    BY <2>1
<1>11. DOMAIN rest = 1..r /\ rest = [p \in 1..r |-> rest[p]] /\ \A p \in 1..r : rest[p] = IF p < e THEN up[p] ELSE up[p + g]
  BY <1>9, <1>10
<1>12. Len(rest) = r /\ IsSeq(rest)
  BY <1>11, SeqByFunction
<1>13. ASSUME NEW p \in 1..r PROVE rest[p] = IF p < e THEN p - 1 ELSE p - 1 + g
  <2>1. CASE p < e
    <3>1. p \in 1..n
      BY <1>10, <2>1 DEF Beside
    <3> QED
      BY <1>5, <1>11, <2>1, <3>1
  <2>2. CASE p >= e
    <3>1. p + g \in 1..n
      BY <1>10, <2>2 DEF Beside
    <3>2. up[p + g] = p - 1 + g
      BY <1>5, <3>1
    <3>3. rest[p] = up[p + g]
      <4>1. ~(p < e)
        BY <2>2
      <4> QED
        BY <1>11, <4>1, Zenon
    <3> QED
      BY <2>2, <3>2, <3>3
  <2> QED
    BY <2>1, <2>2
<1>14. Stretch(group, rest, n, e, g)
  BY <1>1, <1>2, <1>10, <1>12, <1>13 DEF Stretch
<1>15. ReshapeMapAsserts(group, rest) <=> Len(rest) >= 1
  <2>1. group # <<>> /\ (rest # <<>> <=> Len(rest) >= 1)
    <3>1. group # <<>>
      BY <1>2, Short
    <3>2. rest # <<>> <=> r # 0
      BY <1>11
    <3> QED
      BY <1>12, <3>1, <3>2
  <2>2. CASE e = 1
    BY <1>3, <2>1, <2>2 DEF ReshapeMapAsserts
  <2>3. CASE e # 1
    <3>1. Len(rest) >= 1 => Contains(rest, 0)
      <4>1. r >= 1 => 1 \in 1..r /\ rest[1] = 0
        BY <1>13, <2>3
      <4> QED
        BY <1>12, <4>1 DEF Contains
    <3> QED
      BY <2>1, <3>1 DEF ReshapeMapAsserts
  <2> QED
    BY <2>2, <2>3
<1> QED
  BY <1>3, <1>14, <1>15

\* How wide the group of emitReshape is.
Wide(st, m, k) == IF FoldedOnLhs(st) THEN k ELSE m

\* The positions in toReshape are a stretch.
LEMMA ToReshapeIs ==
  ASSUME NEW st, NEW e, NEW m, NEW k, k >= 1, IsSeq(st.rhs.args), Len(ArgNames(st.rhs)) = Len(st.rhs.args),
         Sides(LowOf(st), HighOf(st), st.where[1].name, OldOf(st), e, m, k)
  PROVE  ToReshape(st) = [p \in 1..Wide(st, m, k) |-> e + p - 2]
<1> DEFINE x == st.where[1].name
           old == OldOf(st)
           low == LowOf(st)
<1>1. /\ IsSeq(low) /\ IsInjective(low) /\ m \in Nat /\ m = Len(low) /\ e \in 1..m /\ low[e] = x
      /\ IsSeq(old) /\ k \in Nat /\ k = Len(old)
      /\ Flat(low, x, old) = Spread(low, e, old, m)
      /\ IsSeq(Flat(low, x, old)) /\ IsInjective(Flat(low, x, old))
      /\ Len(Flat(low, x, old)) = m + k - 1
      /\ \A p \in 1..k : Flat(low, x, old)[e + p - 1] = old[p] /\ old[p] # x
  BY DEF Sides
<1>x. x = st.where[1].name /\ old = st.where[1].rhs.idents
  BY DEF OldOf
<1>l. low = IF FoldedOnLhs(st) THEN st.indices ELSE ArgNames(st.rhs)
  BY DEF LowOf
<1>d. DOMAIN old = 1..k /\ DOMAIN low = 1..m
  BY <1>1, SeqIs
<1> HIDE DEF x, old, low
<1>2. CASE FoldedOnLhs(st)
  <2>1. Lhs(st) = Flat(low, x, old)
    <3>1. Substitute(low, x, old) = Spread(low, e, old, Len(low))
      BY <1>1, SubstituteIs
    <3> QED
      BY <1>1, <1>2, <1>l, <1>x, <3>1 DEF Lhs
  <2>2. PICK u : u = Lhs(st)
    OBVIOUS
  <2>3. ToReshape(st) = [p \in 1..k |-> Position(old[p], u)]
    BY <1>2, <1>d, <1>x, <2>2 DEF ToReshape
  <2>4. ASSUME NEW p \in 1..k PROVE Position(old[p], u) = e + p - 2
    <3>1. PICK q : q = e + p - 1
      OBVIOUS
    <3>0. m \in Nat /\ e \in 1..m /\ k \in Nat
      BY <1>1
    <3>2. q \in 1..(m + k - 1) /\ q - 1 = e + p - 2
      BY ONLY <3>0, <3>1, p \in 1..k
    <3>3. IsSeq(u) /\ IsInjective(u) /\ DOMAIN u = 1..(m + k - 1) /\ u[q] = old[p]
      BY <1>1, <2>1, <2>2, <3>1, SeqIs
    <3> QED
      BY <3>2, <3>3, PositionIs
  <2> QED
    BY <1>2, <2>3, <2>4 DEF Wide
<1>3. CASE ~FoldedOnLhs(st)
  <2>1. Position(x, ArgNames(st.rhs)) = e - 1
    BY <1>1, <1>3, <1>d, <1>l, PositionIs
  <2>2. DOMAIN st.rhs.args = 1..m
    BY <1>1, <1>3, <1>l, SeqIs
  <2>3. ToReshape(st) = [p \in 1..m |-> (e - 1) + p - 1]
    BY <1>3, <1>x, <2>1, <2>2 DEF ToReshape
  <2>4. \A p \in 1..m : (e - 1) + p - 1 = e + p - 2
    BY <1>1
  <2> QED
    BY <1>3, <2>3, <2>4 DEF Wide
<1> QED
  BY <1>2, <1>3

\* The permutation from s to d is its own inverse.
SelfInverse(s, d) == \A p \in DOMAIN s, q \in DOMAIN d : s[p] = d[q] => s[q] = d[p]

\* What the ordering of two sides tells.
Orders(o, s, d, n) ==
  /\ DOMAIN o = 1..n /\ \A p \in 1..n : o[p] + 1 \in 1..n
  /\ IsConsecutive(o) <=> s = d
  /\ Permuted(d, o) = s <=> SelfInverse(s, d)
  /\ s = d => SelfInverse(s, d)

\* The ordering is consecutive only if there is nothing to permute, and applied it
\* gives the destination only if it is its own inverse.
LEMMA OrderingTells ==
  ASSUME NEW s, IsSeq(s), IsInjective(s), NEW d, IsSeq(d), IsInjective(d), Range(s) = Range(d),
         NEW n, n = Len(s), n = Len(d)
  PROVE  Orders(GetOrdering(s, d), s, d, n)
<1>1. n \in Nat /\ DOMAIN s = 1..n /\ DOMAIN d = 1..n
  BY SeqIs
<1> DEFINE o == GetOrdering(s, d)
<1>3. /\ o \in Seq(Nat) /\ Len(o) = n /\ DOMAIN o = 1..n
      /\ \A p \in 1..n : o[p] + 1 \in 1..n /\ s[o[p] + 1] = d[p]
  <2>1. Range(d) \subseteq Range(s)
    OBVIOUS
  <2>2. /\ o \in Seq(Nat) /\ Len(o) = Len(d) /\ DOMAIN o = DOMAIN d
        /\ \A p \in DOMAIN d : o[p] + 1 \in DOMAIN s /\ s[o[p] + 1] = d[p]
    BY ONLY <2>1, IsSeq(s), IsInjective(s), IsSeq(d), OrderingIs
  <2> QED
    BY <1>1, <2>2
<1>2. o = GetOrdering(s, d)
  OBVIOUS
<1> HIDE DEF o
<1>4. \A p, q \in 1..n : s[p] = d[q] <=> p = o[q] + 1
  BY <1>1, <1>3 DEF IsInjective
<1>5. \A p \in 1..n : o[p] \in Nat
  BY <1>3
<1>6. s = d => \A p \in 1..n : o[p] + 1 = p
  BY <1>4
<1>7. s = d => IsConsecutive(o)
  <2> SUFFICES ASSUME s = d, NEW p \in 2..n PROVE o[p] = o[p - 1] + 1
    BY <1>3 DEF IsConsecutive
  <2>1. p \in 1..n /\ p - 1 \in 1..n
    BY <1>1
  <2>2. o[p] + 1 = p /\ o[p - 1] + 1 = p - 1
    BY <1>6, <2>1
  <2>3. o[p] \in Nat /\ o[p - 1] \in Nat
    BY <1>5, <2>1
  <2> QED
    BY <2>2, <2>3
<1>8. IsConsecutive(o) => s = d
  <2> SUFFICES ASSUME IsConsecutive(o) PROVE s = d
    OBVIOUS
  <2>1. \A p \in 2..n : o[p] = o[p - 1] + 1
    BY <1>3 DEF IsConsecutive
  <2> DEFINE T == {p \in Nat : p + 1 <= n => o[p + 1] = o[1] + p}
  <2>2. 0 \in T
    <3>1. n >= 1 => o[1] \in Nat
      BY <1>1, <1>5
    <3> QED
      BY <1>1, <3>1
  <2>3. ASSUME NEW p \in Nat, p \in T PROVE p + 1 \in T
    <3> SUFFICES ASSUME (p + 1) + 1 <= n PROVE o[(p + 1) + 1] = o[1] + (p + 1)
      OBVIOUS
    <3>1. (p + 1) + 1 \in 2..n /\ ((p + 1) + 1) - 1 = p + 1 /\ 1 \in 1..n
      BY <1>1
    <3>2. o[(p + 1) + 1] = o[p + 1] + 1
      BY <2>1, <3>1
    <3>3. o[p + 1] = o[1] + p
      BY <1>1, <2>3
    <3>4. o[1] \in Nat
      BY <1>5, <3>1
    <3> QED
      BY <3>2, <3>3, <3>4
  <2>4. \A p \in Nat : p \in T
    <3> HIDE DEF T
    <3> QED
      BY <2>2, <2>3, Induction
  <2>5. ASSUME NEW p \in 1..n PROVE s[p] = d[p]
    <3>1. 1 \in 1..n /\ n \in 1..n /\ p - 1 \in Nat /\ n - 1 \in Nat /\ (p - 1) + 1 = p /\ (n - 1) + 1 = n
      BY <1>1
    <3>2. p - 1 \in T /\ n - 1 \in T
      BY <2>4, <3>1
    <3>3. o[p] = o[1] + (p - 1) /\ o[n] = o[1] + (n - 1)
      BY <1>1, <3>1, <3>2
    <3>4. o[1] \in Nat /\ o[n] + 1 \in 1..n
      BY <1>3, <1>5, <3>1
    <3>5. o[1] = 0
      BY <1>1, <3>3, <3>4
    <3>6. o[p] + 1 = p
      BY <3>3, <3>5
    <3> QED
      BY <1>3, <3>6
  <2> QED
    BY <1>1, <2>5, SameText
<1>9. Permuted(d, o) = s <=> \A p \in 1..n : d[o[p] + 1] = s[p]
  <2>1. PICK v : v = Permuted(d, o)
    OBVIOUS
  <2>2. v = [p \in 1..n |-> d[o[p] + 1]]
    BY <1>3, <2>1 DEF Permuted
  <2>3. s = [p \in 1..n |-> s[p]]
    BY <1>1, SeqIs
  <2>4. v = s => \A p \in 1..n : d[o[p] + 1] = s[p]
    BY <2>2
  <2>5. (\A p \in 1..n : d[o[p] + 1] = s[p]) => v = s
    BY ONLY <2>2, <2>3
  <2> QED
    BY <2>1, <2>4, <2>5
<1>10. SelfInverse(s, d) <=> \A p \in 1..n : d[o[p] + 1] = s[p]
  <2>1. ASSUME SelfInverse(s, d), NEW p \in 1..n PROVE d[o[p] + 1] = s[p]
    BY <1>1, <1>3, <2>1 DEF SelfInverse
  <2>2. ASSUME \A p \in 1..n : d[o[p] + 1] = s[p] PROVE SelfInverse(s, d)
    <3> SUFFICES ASSUME NEW p \in 1..n, NEW q \in 1..n, s[p] = d[q] PROVE s[q] = d[p]
      BY <1>1 DEF SelfInverse
    <3>1. p = o[q] + 1
      BY <1>4
    <3>2. d[o[q] + 1] = s[q]
      BY <2>2
    <3> QED
      BY <3>1, <3>2
  <2> QED
    BY <2>1, <2>2
<1>11. s = d => SelfInverse(s, d)
  BY <1>1 DEF SelfInverse, IsInjective
<1> QED
  BY <1>2, <1>3, <1>7, <1>8, <1>9, <1>10, <1>11 DEF Orders

\* What is read, and what is to be computed.
ReadTensor(st)  == [name |-> st.rhs.name, layout |-> ArgNames(st.rhs)]
FinalTensor(st) == [name |-> st.name, layout |-> st.indices]

\* ComputesView, unfolded.
LEMMA ViewSteps ==
  ASSUME NEW st, NEW bs, Len(bs) \in Nat
  PROVE  \E f : /\ f[0] = ReadTensor(st)
                /\ \A n \in 1..Len(bs) : f[n] = ApplyView(st, f[n - 1], bs[n])
                /\ ComputesView(st, bs) <=> f[Len(bs)] = FinalTensor(st)
<1> DEFINE Next1(t, n) == ApplyView(st, t, bs[n])
           Steps(f, m) == f = [n \in 0..m |-> IF n = 0 THEN ReadTensor(st) ELSE Next1(f[n - 1], n)]
           T == {m \in Nat : \E f : Steps(f, m)}
           h == CHOOSE h : Steps(h, Len(bs))
<1>1. ComputesView(st, bs) <=> h[Len(bs)] = FinalTensor(st)
  BY DEF ComputesView, ReadTensor, FinalTensor
<1> HIDE DEF h, Next1
<1>2. 0 \in T
  <2>1. Steps([n \in 0..0 |-> ReadTensor(st)], 0)
    OBVIOUS
  <2> QED
    BY <2>1
<1>3. ASSUME NEW m \in Nat, m \in T PROVE m + 1 \in T
  <2>1. PICK f : Steps(f, m)
    BY <1>3
  <2> DEFINE g == [n \in 0..(m + 1) |-> IF n <= m THEN f[n] ELSE Next1(f[m], n)]
  <2>2. Steps(g, m + 1)
    <3> SUFFICES ASSUME NEW n \in 0..(m + 1)
                 PROVE  g[n] = IF n = 0 THEN ReadTensor(st) ELSE Next1(g[n - 1], n)
      OBVIOUS
    <3>1. CASE n <= m
      <4>1. g[n] = f[n] /\ (n # 0 => g[n - 1] = f[n - 1])
        BY <3>1
      <4>2. n \in 0..m
        BY <3>1
      <4>3. f[n] = IF n = 0 THEN ReadTensor(st) ELSE Next1(f[n - 1], n)
        BY <2>1, <4>2, Zenon
      <4> QED
        BY <4>1, <4>3
    <3>2. CASE n = m + 1
      BY <2>1, <3>2
    <3> QED
      BY <3>1, <3>2
  <2> HIDE DEF g, Steps
  <2>3. \E f0 : Steps(f0, m + 1)
    BY <2>2
  <2> QED
    BY <2>3
<1>4. \E f : Steps(f, Len(bs))
  <2> HIDE DEF Steps
  <2> QED
    BY <1>2, <1>3, Induction
<1>5. Steps(h, Len(bs))
  BY <1>4 DEF h
<1>6. \A n \in 0..Len(bs) : h[n] = IF n = 0 THEN ReadTensor(st) ELSE Next1(h[n - 1], n)
  BY <1>5, Zenon
<1>7. h[0] = ReadTensor(st)
  BY <1>6
<1>8. ASSUME NEW n \in 1..Len(bs) PROVE h[n] = Next1(h[n - 1], n)
  <2>1. n \in 0..Len(bs) /\ n # 0
    OBVIOUS
  <2> QED
    BY <1>6, <2>1, Zenon
<1> QED
  BY <1>1, <1>7, <1>8 DEF Next1

\* ComputesView of one builder and of two.
LEMMA ViewChain ==
  ASSUME NEW st, NEW b, NEW d
  PROVE  /\ ComputesView(st, <<b>>) <=> ApplyView(st, ReadTensor(st), b) = FinalTensor(st)
         /\ ComputesView(st, <<b, d>>)
              <=> ApplyView(st, ApplyView(st, ReadTensor(st), b), d) = FinalTensor(st)
<1>1. ComputesView(st, <<b>>) <=> ApplyView(st, ReadTensor(st), b) = FinalTensor(st)
  <2>1. PICK bs : bs = <<b>>
    OBVIOUS
  <2>2. Len(bs) = 1 /\ bs[1] = b /\ Len(bs) \in Nat
    BY <2>1
  <2>3. PICK f : /\ f[0] = ReadTensor(st)
                 /\ \A n \in 1..Len(bs) : f[n] = ApplyView(st, f[n - 1], bs[n])
                 /\ ComputesView(st, bs) <=> f[Len(bs)] = FinalTensor(st)
    BY <2>2, ViewSteps
  <2>4. f[1] = ApplyView(st, f[0], bs[1])
    <3>1. 1 \in 1..Len(bs) /\ 1 - 1 = 0
      BY <2>2
    <3> QED
      BY <2>3, <3>1
  <2>5. f[1] = ApplyView(st, ReadTensor(st), b)
    BY <2>2, <2>3, <2>4, Zenon
  <2>6. ComputesView(st, bs) <=> f[1] = FinalTensor(st)
    BY <2>2, <2>3, Zenon
  <2> QED
    BY <2>1, <2>5, <2>6, Zenon
<1>2. ComputesView(st, <<b, d>>)
        <=> ApplyView(st, ApplyView(st, ReadTensor(st), b), d) = FinalTensor(st)
  <2>1. PICK bs : bs = <<b, d>>
    OBVIOUS
  <2>2. Len(bs) = 2 /\ bs[1] = b /\ bs[2] = d /\ Len(bs) \in Nat
    BY <2>1
  <2>3. PICK f : /\ f[0] = ReadTensor(st)
                 /\ \A n \in 1..Len(bs) : f[n] = ApplyView(st, f[n - 1], bs[n])
                 /\ ComputesView(st, bs) <=> f[Len(bs)] = FinalTensor(st)
    BY <2>2, ViewSteps
  <2>4. f[1] = ApplyView(st, f[0], bs[1]) /\ f[2] = ApplyView(st, f[1], bs[2])
    <3>1. 1 \in 1..Len(bs) /\ 1 - 1 = 0 /\ 2 \in 1..Len(bs) /\ 2 - 1 = 1
      BY <2>2
    <3> QED
      BY <2>3, <3>1
  <2>5. f[2] = ApplyView(st, ApplyView(st, ReadTensor(st), b), d)
    BY <2>2, <2>3, <2>4, Zenon
  <2>6. ComputesView(st, bs) <=> f[2] = FinalTensor(st)
    BY <2>2, <2>3, Zenon
  <2> QED
    BY <2>1, <2>5, <2>6, Zenon
<1> QED
  BY <1>1, <1>2

\* The layout of high rank of a statement, and the map between its sides.
FlatOf(st)  == Flat(LowOf(st), st.where[1].name, OldOf(st))
RightMap(st) == Render(Dims(LowOf(st), st.where[1].name, OldOf(st)))

\* A reshapeBuilder with the right map does what the statement says.
LEMMA ApplyReshape ==
  ASSUME NEW st, NEW t, NEW in, NEW out, NEW map
  PROVE  ApplyView(st, t, ReshapeB(in, out, map))
           = IF in = t.name /\ map = RightMap(st)
                  /\ t.layout = (IF FoldedOnLhs(st) THEN FlatOf(st) ELSE LowOf(st))
             THEN [name |-> out, layout |-> IF FoldedOnLhs(st) THEN LowOf(st) ELSE FlatOf(st)]
             ELSE Wrong
<1>1. PICK b : b = ReshapeB(in, out, map)
  OBVIOUS
<1>2. b.op = "reshape" /\ b.ins = <<in>> /\ b.out = out /\ b.map = map
  BY <1>1 DEF ReshapeB
<1>3. b.op # "transpose" /\ (b.ins = <<t.name>> <=> in = t.name)
  BY <1>2
<1>4. Folded1(st).f = st.where[1].name /\ Folded1(st).old = OldOf(st)
  BY DEF Folded1, OldOf
<1>5. PICK low : low = LowOf(st) /\ low = IF Contains(st.indices, st.where[1].name) THEN st.indices ELSE ArgNames(st.rhs)
  BY DEF LowOf, FoldedOnLhs
<1>6. PICK high : high = FlatOf(st) /\ high = Flat(low, st.where[1].name, OldOf(st))
  BY <1>5 DEF FlatOf
<1>7. PICK text : text = RightMap(st) /\ text = Render(Dims(low, st.where[1].name, OldOf(st)))
  BY <1>5 DEF RightMap
<1>8. ApplyView(st, t, b)
        = IF b.ins # <<t.name>> THEN Wrong
          ELSE IF b.op = "transpose"
          THEN IF \A p \in DOMAIN b.perm : b.perm[p] + 1 \in DOMAIN t.layout
               THEN [name |-> b.out, layout |-> Permuted(t.layout, b.perm)] ELSE Wrong
          ELSE IF /\ b.op = "reshape" /\ b.map = text
                  /\ t.layout = IF FoldedOnLhs(st) THEN high ELSE low
               THEN [name |-> b.out, layout |-> IF FoldedOnLhs(st) THEN low ELSE high] ELSE Wrong
  BY <1>4, <1>5, <1>6, <1>7, Zenon DEF ApplyView, FoldedOnLhs
<1>9. ApplyView(st, t, b)
        = IF in = t.name /\ map = text /\ t.layout = (IF FoldedOnLhs(st) THEN high ELSE low)
          THEN [name |-> out, layout |-> IF FoldedOnLhs(st) THEN low ELSE high] ELSE Wrong
  BY ONLY <1>2, <1>3, <1>8
<1> QED
  BY <1>1, <1>5, <1>6, <1>7, <1>9, Zenon

Permutes(o, n) == DOMAIN o = 1..n /\ \A p \in 1..n : o[p] + 1 \in 1..n

\* A transposeBuilder permutes the layout at hand.
LEMMA ApplyTranspose ==
  ASSUME NEW st, NEW t, NEW out, NEW o, NEW n, Permutes(o, n), DOMAIN t.layout = 1..n
  PROVE  ApplyView(st, t, TransposeB(t.name, out, o)) = [name |-> out, layout |-> Permuted(t.layout, o)]
<1>1. PICK b : b = TransposeB(t.name, out, o)
  OBVIOUS
<1>2. b.op = "transpose" /\ b.ins = <<t.name>> /\ b.out = out /\ b.perm = o
  BY <1>1 DEF TransposeB
<1>4. \A p \in DOMAIN b.perm : b.perm[p] + 1 \in DOMAIN t.layout
  BY <1>2 DEF Permutes
<1>5. ApplyView(st, t, b)
        = IF b.ins # <<t.name>> THEN Wrong ELSE [name |-> b.out, layout |-> Permuted(t.layout, b.perm)]
  BY <1>2, <1>4, Zenon DEF ApplyView
<1> QED
  BY ONLY <1>1, <1>2, <1>5

\* The chain that emitReshape prints.
Chain(st, temp, map, o, onLhs) ==
  IF IsConsecutive(o) THEN << ReshapeB(st.rhs.name, st.name, map) >>
  ELSE IF onLhs
  THEN << TransposeB(st.rhs.name, temp, o), ReshapeB(temp, st.name, map) >>
  ELSE << ReshapeB(st.rhs.name, temp, map), TransposeB(temp, st.name, o) >>

\* The two sides as emitReshape compares them.
LhsOf(st) == IF FoldedOnLhs(st) THEN FlatOf(st) ELSE HighOf(st)
RhsOf(st) == IF FoldedOnLhs(st) THEN HighOf(st) ELSE FlatOf(st)

\* The printed chain computes the view if its map is right and its permutation is
\* its own inverse, and not otherwise.
LEMMA ChainComputes ==
  ASSUME NEW st, NEW temp, temp # <<>>, st.indices # <<>>, NEW n, NEW o,
         Orders(o, LhsOf(st), RhsOf(st), n), DOMAIN LhsOf(st) = 1..n, DOMAIN RhsOf(st) = 1..n, NEW map
  PROVE  ComputesView(st, Chain(st, temp, map, o, FoldedOnLhs(st)))
           <=> map = RightMap(st) /\ SelfInverse(LhsOf(st), RhsOf(st))
<1> DEFINE read == ReadTensor(st)
           final == FinalTensor(st)
<1>1. PICK flat, low, high : flat = FlatOf(st) /\ low = LowOf(st) /\ high = HighOf(st)
  OBVIOUS
<1>2. /\ DOMAIN o = 1..n /\ \A p \in 1..n : o[p] + 1 \in 1..n
      /\ IsConsecutive(o) <=> LhsOf(st) = RhsOf(st)
      /\ Permuted(RhsOf(st), o) = LhsOf(st) <=> SelfInverse(LhsOf(st), RhsOf(st))
      /\ LhsOf(st) = RhsOf(st) => SelfInverse(LhsOf(st), RhsOf(st))
  BY DEF Orders
<1>3. /\ read.name = st.rhs.name /\ read.layout = ArgNames(st.rhs)
      /\ final.name = st.name /\ final.layout = st.indices
      /\ final = [name |-> st.name, layout |-> st.indices]
  BY DEF ReadTensor, FinalTensor
<1> HIDE DEF read, final
<1>w. Wrong # final /\ Wrong.name = <<>>
  BY <1>3 DEF Wrong
<1>4. CASE FoldedOnLhs(st)
  <2>1. low = st.indices /\ high = ArgNames(st.rhs) /\ LhsOf(st) = flat /\ RhsOf(st) = high
    BY <1>1, <1>4 DEF LowOf, HighOf, LhsOf, RhsOf
  <2>2. CASE IsConsecutive(o)
    <3>1. PICK b : b = ReshapeB(st.rhs.name, st.name, map)
      OBVIOUS
    <3>2. Chain(st, temp, map, o, FoldedOnLhs(st)) = <<b>>
      BY <2>2, <3>1 DEF Chain
    <3>3. ApplyView(st, read, b) = IF map = RightMap(st) THEN final ELSE Wrong
      <4>1. ApplyView(st, read, b)
              = IF st.rhs.name = read.name /\ map = RightMap(st) /\ read.layout = flat
                THEN [name |-> st.name, layout |-> low] ELSE Wrong
        BY <1>1, <1>4, <3>1, ApplyReshape
      <4>2. read.layout = flat
        BY <1>2, <1>3, <2>1, <2>2
      <4> QED
        BY <1>3, <2>1, <4>1, <4>2
    <3>4. ComputesView(st, <<b>>) <=> ApplyView(st, read, b) = final
      BY ViewChain DEF read, final
    <3> QED
      BY <1>2, <1>w, <2>2, <3>2, <3>3, <3>4
  <2>3. CASE ~IsConsecutive(o)
    <3>1. PICK b, d : b = TransposeB(st.rhs.name, temp, o) /\ d = ReshapeB(temp, st.name, map)
      OBVIOUS
    <3>2. Chain(st, temp, map, o, FoldedOnLhs(st)) = <<b, d>>
      BY <1>4, <2>3, <3>1 DEF Chain
    <3>3. PICK t : t = ApplyView(st, read, b)
      OBVIOUS
    <3>4. t = [name |-> temp, layout |-> Permuted(high, o)]
      <4>1. DOMAIN read.layout = 1..n
        BY <1>3, <2>1
      <4>2. t = [name |-> temp, layout |-> Permuted(read.layout, o)]
        <5>1. Permutes(o, n)
          BY <1>2 DEF Permutes
        <5>2. ApplyView(st, read, TransposeB(read.name, temp, o)) = [name |-> temp, layout |-> Permuted(read.layout, o)]
          BY <4>1, <5>1, ApplyTranspose, Zenon
        <5> QED
          BY <1>3, <3>1, <3>3, <5>2
      <4> QED
        BY <1>3, <2>1, <4>2
    <3>5. ApplyView(st, t, d) = IF map = RightMap(st) /\ Permuted(high, o) = flat THEN final ELSE Wrong
      <4>1. ApplyView(st, t, d)
              = IF temp = t.name /\ map = RightMap(st) /\ t.layout = flat
                THEN [name |-> st.name, layout |-> low] ELSE Wrong
        BY <1>1, <1>4, <3>1, ApplyReshape
      <4> QED
        BY <1>3, <2>1, <3>4, <4>1
    <3>6. ComputesView(st, <<b, d>>) <=> ApplyView(st, t, d) = final
      BY <3>3, ViewChain DEF read, final
    <3> QED
      BY <1>2, <1>w, <2>1, <3>2, <3>5, <3>6
  <2> QED
    BY <2>2, <2>3
<1>5. CASE ~FoldedOnLhs(st)
  <2>1. high = st.indices /\ low = ArgNames(st.rhs) /\ LhsOf(st) = high /\ RhsOf(st) = flat
    BY <1>1, <1>5 DEF LowOf, HighOf, LhsOf, RhsOf
  <2>2. CASE IsConsecutive(o)
    <3>1. PICK b : b = ReshapeB(st.rhs.name, st.name, map)
      OBVIOUS
    <3>2. Chain(st, temp, map, o, FoldedOnLhs(st)) = <<b>>
      BY <2>2, <3>1 DEF Chain
    <3>3. ApplyView(st, read, b) = IF map = RightMap(st) THEN final ELSE Wrong
      <4>1. ApplyView(st, read, b)
              = IF st.rhs.name = read.name /\ map = RightMap(st) /\ read.layout = low
                THEN [name |-> st.name, layout |-> flat] ELSE Wrong
        BY <1>1, <1>5, <3>1, ApplyReshape
      <4>2. flat = st.indices
        BY <1>2, <2>1, <2>2
      <4> QED
        BY <1>3, <2>1, <4>1, <4>2
    <3>4. ComputesView(st, <<b>>) <=> ApplyView(st, read, b) = final
      BY ViewChain DEF read, final
    <3> QED
      BY <1>2, <1>w, <2>2, <3>2, <3>3, <3>4
  <2>3. CASE ~IsConsecutive(o)
    <3>1. PICK b, d : b = ReshapeB(st.rhs.name, temp, map) /\ d = TransposeB(temp, st.name, o)
      OBVIOUS
    <3>2. Chain(st, temp, map, o, FoldedOnLhs(st)) = <<b, d>>
      BY <1>5, <2>3, <3>1 DEF Chain
    <3>3. PICK t : t = ApplyView(st, read, b)
      OBVIOUS
    <3>4. t = IF map = RightMap(st) THEN [name |-> temp, layout |-> flat] ELSE Wrong
      <4>1. t = IF st.rhs.name = read.name /\ map = RightMap(st) /\ read.layout = low
                THEN [name |-> temp, layout |-> flat] ELSE Wrong
        BY <1>1, <1>5, <3>1, <3>3, ApplyReshape
      <4> QED
        BY <1>3, <2>1, <4>1
    <3>5. ComputesView(st, <<b, d>>) <=> ApplyView(st, t, d) = final
      BY <3>3, ViewChain DEF read, final
    <3>6. CASE map = RightMap(st)
      <4>1. t.name = temp /\ t.layout = flat /\ DOMAIN t.layout = 1..n
        BY <2>1, <3>4, <3>6
      <4>2. ApplyView(st, t, d) = [name |-> st.name, layout |-> Permuted(t.layout, o)]
        <5>1. Permutes(o, n)
          BY <1>2 DEF Permutes
        <5>2. ApplyView(st, t, TransposeB(t.name, st.name, o)) = [name |-> st.name, layout |-> Permuted(t.layout, o)]
          BY <4>1, <5>1, ApplyTranspose, Zenon
        <5> QED
          BY <3>1, <4>1, <5>2
      <4>3. ApplyView(st, t, d) = [name |-> st.name, layout |-> Permuted(flat, o)]
        BY <4>1, <4>2
      <4>4. ApplyView(st, t, d) = final <=> Permuted(flat, o) = high
        BY <1>3, <2>1, <4>3
      <4> QED
        BY <1>2, <2>1, <3>2, <3>5, <3>6, <4>4
    <3>7. CASE map # RightMap(st)
      <4>1. t = Wrong
        BY <3>4, <3>7
      <4>2. d.ins # <<t.name>>
        BY <1>w, <3>1, <4>1 DEF TransposeB
      <4>3. ApplyView(st, t, d) = Wrong
        BY <4>2, Zenon DEF ApplyView
      <4> QED
        BY <1>w, <3>2, <3>5, <3>7, <4>3
    <3> QED
      BY <3>6, <3>7
  <2> QED
    BY <2>2, <2>3
<1> QED
  BY <1>4, <1>5

\* Which reshapes are supported, in terms of their sides.
LEMMA SupportedIs ==
  ASSUME NEW st, NEW e, NEW m, NEW k, IsReshape(st),
         Sides(LowOf(st), HighOf(st), st.where[1].name, OldOf(st), e, m, k), k >= 2
  PROVE  /\ FlatLhs(st) = LhsOf(st) /\ FlatRhs(st) = RhsOf(st)
         /\ Len(LhsOf(st)) = m + k - 1 /\ Len(RhsOf(st)) = m + k - 1
         /\ Supported(st) <=> /\ k = 2 /\ (m = 2 \/ (m = 3 /\ e = 1 /\ FoldedOnLhs(st)))
                              /\ SelfInverse(LhsOf(st), RhsOf(st))
<1> DEFINE x == st.where[1].name
           old == OldOf(st)
           low == LowOf(st)
           high == HighOf(st)
<1>1. /\ IsSeq(low) /\ IsInjective(low) /\ m \in Nat /\ m = Len(low) /\ e \in 1..m /\ low[e] = x
      /\ IsSeq(high) /\ ~Contains(high, x) /\ Flat(high, x, old) = high
      /\ IsSeq(old) /\ k \in Nat /\ k = Len(old) /\ Len(high) = m + k - 1
      /\ Len(Flat(low, x, old)) = m + k - 1
  BY DEF Sides
<1>2. Folded1(st).f = x /\ Folded1(st).old = old
  BY DEF Folded1, OldOf
<1>3. /\ FoldedOnLhs(st) => low = st.indices /\ high = ArgNames(st.rhs)
      /\ ~FoldedOnLhs(st) => low = ArgNames(st.rhs) /\ high = st.indices
  BY DEF LowOf, HighOf
<1>4. FlatOf(st) = Flat(low, x, old)
  BY DEF FlatOf
<1> HIDE DEF x, old, low, high
<1>h. high = HighOf(st)
  BY DEF high
<1>5. FlatLhs(st) = LhsOf(st) /\ FlatRhs(st) = RhsOf(st)
  <2>1. CASE FoldedOnLhs(st)
    BY <1>1, <1>2, <1>3, <1>4, <1>h, <2>1 DEF FlatLhs, FlatRhs, LhsOf, RhsOf
  <2>2. CASE ~FoldedOnLhs(st)
    BY <1>1, <1>2, <1>3, <1>4, <1>h, <2>2 DEF FlatLhs, FlatRhs, LhsOf, RhsOf
  <2> QED
    BY <2>1, <2>2
<1>6. Len(LhsOf(st)) = m + k - 1 /\ Len(RhsOf(st)) = m + k - 1
  BY <1>1, <1>4, <1>h DEF LhsOf, RhsOf
<1>7. st.indices[1] = x <=> FoldedOnLhs(st) /\ e = 1
  <2>1. CASE FoldedOnLhs(st)
    <3>1. DOMAIN low = 1..m /\ 1 \in 1..m
      BY <1>1, SeqIs
    <3> QED
      BY <1>1, <1>3, <2>1, <3>1 DEF IsInjective
  <2>2. CASE ~FoldedOnLhs(st)
    <3>1. 1 \in 1..Len(high)
      BY <1>1
    <3> QED
      BY <1>1, <1>3, <2>2, <3>1 DEF Contains
  <2> QED
    BY <2>1, <2>2
<1>8. Supported(st) <=> /\ k = 2 /\ (m + k - 1 = 3 \/ (m + k - 1 = 4 /\ FoldedOnLhs(st) /\ e = 1))
                        /\ SelfInverse(LhsOf(st), RhsOf(st))
  BY <1>1, <1>2, <1>5, <1>6, <1>7 DEF Supported, SelfInverse
<1>9. k = 2 => (m + k - 1 = 3 <=> m = 2) /\ (m + k - 1 = 4 <=> m = 3)
  <2>1. m \in Nat
    BY <1>1
  <2> QED
    BY ONLY <2>1
<1>10. Supported(st) <=> /\ k = 2 /\ (m = 2 \/ (m = 3 /\ e = 1 /\ FoldedOnLhs(st)))
                         /\ SelfInverse(LhsOf(st), RhsOf(st))
  BY <1>8, <1>9, Zenon
<1> QED
  BY <1>5, <1>6, <1>10, Zenon

Fits(m, e, k, onLhs) == k = 2 /\ (m = 2 \/ (m = 3 /\ e = 1 /\ onLhs))

Shape(m, e, k, g, onLhs) ==
  /\ m \in Nat /\ e \in 1..m /\ k \in Nat /\ k >= 2 /\ onLhs \in BOOLEAN
  /\ g \in Nat /\ g = IF onLhs THEN k ELSE m

Texts(x, y, m, e, k, group, rest, lb, rb, cm) ==
  /\ rb # cm /\ Len(rest) >= 1
  /\ e = 1 => MapFirst(x, group, rest, lb, rb, cm)
  /\ e # 1 => MapLater(x, group, rest, lb, rb, cm)
  /\ RenderText(y, m, e, k, lb, rb, cm)

\* The map is right exactly for the shapes that are supported.
LEMMA MapRightOf ==
  ASSUME NEW m, NEW e, NEW k, NEW g, NEW onLhs, Shape(m, e, k, g, onLhs),
         NEW group, NEW rest, Stretch(group, rest, m + k - 1, e, g),
         NEW x, NEW y, NEW lb, NEW rb, NEW cm, Texts(x, y, m, e, k, group, rest, lb, rb, cm)
  PROVE  x = y <=> Fits(m, e, k, onLhs)
<1>1. m \in Nat /\ e \in 1..m /\ k \in Nat /\ k >= 2 /\ onLhs \in BOOLEAN /\ g \in Nat
  BY DEF Shape
<1>2. g = IF onLhs THEN k ELSE m
  BY DEF Shape
<1>3. /\ rb # cm /\ Len(rest) >= 1
      /\ e = 1 => MapFirst(x, group, rest, lb, rb, cm)
      /\ e # 1 => MapLater(x, group, rest, lb, rb, cm)
      /\ RenderText(y, m, e, k, lb, rb, cm)
  BY DEF Texts
<1> QED
  BY <1>1, <1>2, <1>3, MapRight DEF Fits

\* The text that getReshapeMap writes of a stretch is the right one for the shapes
\* supported.
LEMMA MapOf ==
  ASSUME NEW st, NEW e, NEW m, NEW k, Sides(LowOf(st), HighOf(st), st.where[1].name, OldOf(st), e, m, k), k >= 2,
         NEW group, NEW rest, Stretch(group, rest, m + k - 1, e, Wide(st, m, k)), Len(rest) >= 1,
         Contains(group, 0) <=> e = 1
  PROVE  GetReshapeMap(group, rest) = RightMap(st)
           <=> k = 2 /\ (m = 2 \/ (m = 3 /\ e = 1 /\ FoldedOnLhs(st)))
<1>1. PICK low, x, old : low = LowOf(st) /\ x = st.where[1].name /\ old = OldOf(st)
  OBVIOUS
<1>2. /\ IsSeq(low) /\ IsInjective(low) /\ m \in Nat /\ m = Len(low) /\ e \in 1..m /\ low[e] = x
      /\ IsSeq(old) /\ k \in Nat /\ k = Len(old)
  BY <1>1 DEF Sides
<1>3. PICK g \in Nat : g = (IF FoldedOnLhs(st) THEN k ELSE m) /\ g = Wide(st, m, k) /\ g >= 1
  BY <1>2 DEF Wide
<1>4. IsSeq(group) /\ IsSeq(rest) /\ Len(group) >= 1
  BY <1>3 DEF Stretch
<1>5. /\ e = 1 => MapFirst(GetReshapeMap(group, rest), group, rest, "{", "}", ",")
      /\ e # 1 => MapLater(GetReshapeMap(group, rest), group, rest, "{", "}", ",")
  BY <1>4, MapText, Zenon
<1>6. RenderText(RightMap(st), m, e, k, "{", "}", ",")
  <2>1. \A p \in 1..Len(low) : low[p] = x <=> p = e
    <3>1. DOMAIN low = 1..Len(low)
      BY <1>2, SeqIs
    <3> QED
      BY <1>2, <3>1 DEF IsInjective
  <2>2. e \in 1..Len(low) /\ Len(old) >= 2
    BY <1>2
  <2>3. RenderText(Render(Dims(low, x, old)), Len(low), e, Len(old), "{", "}", ",")
    BY <1>2, <2>1, <2>2, RenderIs, Zenon
  <2> QED
    BY <1>1, <1>2, <2>3, Zenon DEF RightMap
<1>7. "}" # ","
  OBVIOUS
<1>8. FoldedOnLhs(st) \in BOOLEAN
  BY DEF FoldedOnLhs, Contains
<1>9. Stretch(group, rest, m + k - 1, e, g)
  BY <1>3
<1>10. PICK onLhs \in BOOLEAN : onLhs <=> FoldedOnLhs(st)
  BY <1>8
<1>11. PICK lb, rb, cm : lb = "{" /\ rb = "}" /\ cm = ","
  OBVIOUS
<1>12. PICK y, z : y = GetReshapeMap(group, rest) /\ z = RightMap(st)
  OBVIOUS
<1>13. /\ e = 1 => MapFirst(y, group, rest, lb, rb, cm)
       /\ e # 1 => MapLater(y, group, rest, lb, rb, cm)
       /\ RenderText(z, m, e, k, lb, rb, cm) /\ rb # cm
  BY <1>5, <1>6, <1>7, <1>11, <1>12, Zenon
<1>14. g = IF onLhs THEN k ELSE m
  BY <1>3, <1>10
<1>15. m \in Nat /\ e \in 1..m /\ k \in Nat
  BY <1>2
<1>16. y = z <=> Fits(m, e, k, onLhs)
  <2>1. Shape(m, e, k, g, onLhs)
    BY <1>14, <1>15 DEF Shape
  <2>2. Texts(y, z, m, e, k, group, rest, lb, rb, cm)
    BY <1>13 DEF Texts
  <2> QED
    BY ONLY <1>9, <2>1, <2>2, MapRightOf
<1> QED
  BY <1>10, <1>12, <1>16, Zenon DEF Fits

\* What matchReshape and emitReshape make of a reshape.
ReshapeAnswers(st, temp) ==
  LET o == TryReshape(st, temp) IN
  /\ o.verdict = "emit" => (ComputesView(st, o.builders) <=> Supported(st))
  /\ Supported(st) => o.verdict = "emit"

\* emitReshape is reached with two or more variables to fold, and passes its checks.
LEMMA EmitReached ==
  ASSUME NEW st, NEW temp, NEW e, NEW m, NEW k, IsReshape(st), IsStatement(st),
         Sides(LowOf(st), HighOf(st), st.where[1].name, OldOf(st), e, m, k), k >= 2
  PROVE  /\ LhsOf(st) = (IF FoldedOnLhs(st) THEN Lhs(st) ELSE st.indices)
         /\ RhsOf(st) = (IF FoldedOnLhs(st) THEN ArgNames(st.rhs) ELSE Rhs(st))
         /\ AllIn(OldOf(st), IF FoldedOnLhs(st) THEN ArgNames(st.rhs) ELSE st.indices)
         /\ AllIn(OldOf(st), LhsOf(st))
         /\ IsSeq(LhsOf(st)) /\ IsSeq(RhsOf(st)) /\ IsInjective(LhsOf(st)) /\ IsInjective(RhsOf(st))
         /\ Range(LhsOf(st)) = Range(RhsOf(st)) /\ st.indices # <<>>
<1> DEFINE x == st.where[1].name
           old == OldOf(st)
           low == LowOf(st)
           high == HighOf(st)
<1>1. /\ IsSeq(low) /\ IsInjective(low) /\ m \in Nat /\ m = Len(low) /\ e \in 1..m /\ low[e] = x
      /\ IsSeq(high) /\ IsInjective(high)
      /\ IsSeq(old) /\ k \in Nat /\ k = Len(old) /\ Len(high) = m + k - 1
      /\ Flat(low, x, old) = Spread(low, e, old, m)
      /\ IsSeq(Flat(low, x, old)) /\ IsInjective(Flat(low, x, old))
      /\ Len(Flat(low, x, old)) = m + k - 1 /\ Range(Flat(low, x, old)) = Range(high)
      /\ \A p \in 1..k : Flat(low, x, old)[e + p - 1] = old[p] /\ old[p] # x
  BY DEF Sides
<1>2. /\ FoldedOnLhs(st) => low = st.indices /\ high = ArgNames(st.rhs)
      /\ ~FoldedOnLhs(st) => low = ArgNames(st.rhs) /\ high = st.indices
  BY DEF LowOf, HighOf
<1>3. PICK flat : flat = FlatOf(st) /\ flat = Flat(low, x, old)
  BY DEF FlatOf
<1>4. Substitute(low, x, old) = flat
  <2>1. \A p \in 1..Len(old) : old[p] # x
    BY <1>1
  <2> HIDE DEF x, old, low, high
  <2> QED
    BY <1>1, <1>3, <2>1, SubstituteIs
<1>x. x = st.where[1].name /\ old = st.where[1].rhs.idents
  BY DEF OldOf
<1> HIDE DEF x, old, low, high
<1>5. AllIn(old, high) /\ AllIn(old, flat)
  <2>0. DOMAIN old = 1..k /\ DOMAIN flat = 1..(m + k - 1) /\ DOMAIN high = 1..(m + k - 1)
    BY <1>1, <1>3, SeqIs
  <2>1. ASSUME NEW p \in 1..k PROVE Contains(high, old[p]) /\ Contains(flat, old[p])
    <3>1. e + p - 1 \in 1..(m + k - 1) /\ flat[e + p - 1] = old[p]
      BY <1>1, <1>3
    <3>2. old[p] \in Range(flat) /\ Contains(flat, old[p])
      BY <1>1, <1>3, <2>0, <3>1 DEF Range, Contains
    <3>3. old[p] \in Range(high)
      BY <1>1, <1>3, <3>2
    <3>4. Contains(high, old[p])
      BY <1>1, <2>0, <3>3 DEF Range, Contains
    <3> QED
      BY <3>2, <3>4
  <2> QED
    BY <2>0, <2>1 DEF AllIn
<1>h. high = HighOf(st)
  BY DEF high
<1>o. old = OldOf(st)
  BY DEF old
<1>6. CASE FoldedOnLhs(st)
  <2>1. LhsOf(st) = flat /\ RhsOf(st) = high
    BY <1>3, <1>6, <1>h DEF LhsOf, RhsOf
  <2>2. Lhs(st) = flat
    BY <1>2, <1>4, <1>6, <1>x DEF Lhs
  <2>3. st.indices # <<>>
    BY <1>1, <1>2, <1>6, Short
  <2> QED
    BY <1>1, <1>2, <1>3, <1>5, <1>6, <1>o, <2>1, <2>2, <2>3
<1>7. CASE ~FoldedOnLhs(st)
  <2>1. LhsOf(st) = high /\ RhsOf(st) = flat
    BY <1>3, <1>7, <1>h DEF LhsOf, RhsOf
  <2>2. Rhs(st) = flat
    BY <1>2, <1>4, <1>7, <1>x DEF Rhs
  <2>3. st.indices # <<>>
    BY <1>1, <1>2, <1>7, Short
  <2> QED
    BY <1>1, <1>2, <1>3, <1>5, <1>7, <1>o, <2>1, <2>2, <2>3
<1> QED
  BY <1>6, <1>7

\* A reshape is lowered right exactly if it is supported, and a supported one is
\* lowered.
LEMMA ReshapeLowered ==
  ASSUME NEW st, IsStatement(st), IsReshape(st), NEW temp, temp # <<>>
  PROVE  ReshapeAnswers(st, temp)
<1>1. PICK e, m, k : Sides(LowOf(st), HighOf(st), st.where[1].name, OldOf(st), e, m, k)
  BY ReshapeSides
<1>2. /\ OneAccess(st) /\ st.rhs.kind = "apply" /\ Len(st.where) = 1 /\ OneSided(st, st.where[1])
      /\ Len(ArgNames(st.rhs)) = Len(st.rhs.args)
      /\ ReshapeThrows(st) <=> Len(OldOf(st)) < 2
      /\ IsSeq(st.indices) /\ IsSeq(ArgNames(st.rhs))
  BY ReshapeSides
<1>a. IsSeq(st.rhs.args)
  <2>1. IsNode(st.rhs)
    BY DEF IsStatement, IsTree
  <2> QED
    BY <1>2, <2>1 DEF IsNode
<1>3. m \in Nat /\ k \in Nat /\ m = Len(LowOf(st)) /\ k = Len(OldOf(st)) /\ Len(HighOf(st)) = m + k - 1 /\ e \in 1..m
  BY <1>1 DEF Sides
<1>4. Supported(st) => k = 2
  BY <1>3 DEF Supported, Folded1, OldOf
<1>5. Len(st.indices) = Len(st.rhs.args) <=> k = 1
  <2>1. Len(st.indices) = Len(st.rhs.args) <=> Len(LowOf(st)) = Len(HighOf(st))
    BY <1>2 DEF LowOf, HighOf
  <2> QED
    BY <1>3, <2>1
<1>6. CASE k = 1
  <2>1. TryReshape(st, temp) = No
    BY <1>2, <1>5, <1>6, Zenon DEF TryReshape
  <2>2. No.verdict # "emit"
    BY DEF No
  <2> QED
    BY <1>4, <1>6, <2>1, <2>2 DEF ReshapeAnswers
<1>7. CASE k = 0
  <2>1. TryReshape(st, temp) = Throw
    <3>1. ReshapeThrows(st) /\ ~(k = 1)
      BY <1>2, <1>3, <1>7
    <3> QED
      BY <1>2, <1>5, <3>1, Zenon DEF TryReshape
  <2>2. Throw.verdict # "emit"
    BY DEF Throw
  <2> QED
    BY <1>4, <1>7, <2>1, <2>2 DEF ReshapeAnswers
<1>8. CASE k >= 2
  <2>1. TryReshape(st, temp) = EmitReshape1(st, temp)
    <3>1. ~ReshapeThrows(st) /\ ~(k = 1)
      BY <1>2, <1>3, <1>8
    <3> QED
      BY <1>2, <1>5, <3>1 DEF TryReshape
  <2>2. PICK lhs, rhs : lhs = LhsOf(st) /\ rhs = RhsOf(st)
    OBVIOUS
  <2>3. /\ lhs = (IF FoldedOnLhs(st) THEN Lhs(st) ELSE st.indices)
        /\ rhs = (IF FoldedOnLhs(st) THEN ArgNames(st.rhs) ELSE Rhs(st))
        /\ AllIn(OldOf(st), IF FoldedOnLhs(st) THEN ArgNames(st.rhs) ELSE st.indices)
        /\ AllIn(OldOf(st), lhs)
        /\ IsSeq(lhs) /\ IsSeq(rhs) /\ IsInjective(lhs) /\ IsInjective(rhs)
        /\ Range(lhs) = Range(rhs) /\ st.indices # <<>>
    BY <1>1, <1>8, <2>2, EmitReached, Zenon
  <2>4. PICK n \in Nat : n = m + k - 1
    <3>1. m + k - 1 \in Nat
      BY <1>3, <1>8
    <3> QED
      BY <3>1
  <2>5. Len(lhs) = n /\ Len(rhs) = n /\ DOMAIN lhs = 1..n /\ DOMAIN rhs = 1..n
    <3>1. Len(lhs) = n /\ Len(rhs) = n
      BY <1>1, <1>8, <2>2, <2>4, SupportedIs
    <3> QED
      BY <2>3, <3>1, SeqIs
  <2>6. PICK o : o = GetOrdering(lhs, rhs)
    OBVIOUS
  <2>7. Orders(o, lhs, rhs, n)
    BY <2>3, <2>5, <2>6, OrderingTells, Zenon
  <2>8. PICK group : group = ToReshape(st)
    OBVIOUS
  <2>9. PICK rest : rest = Without(group, n)
    OBVIOUS
  <2>10. PICK g \in Nat : g = Wide(st, m, k) /\ g >= 1
    BY <1>3, <1>8 DEF Wide
  <2>11. group = [p \in 1..g |-> e + p - 2]
    <3>1. k >= 1
      BY <1>3, <1>8
    <3>2. ToReshape(st) = [p \in 1..Wide(st, m, k) |-> e + p - 2]
      BY <1>1, <1>2, <1>a, <3>1, ToReshapeIs, Zenon
    <3> QED
      BY <2>8, <2>10, <3>2
  <2>12. /\ Stretch(group, rest, n, e, g)
         /\ Contains(group, 0) <=> e = 1
         /\ ReshapeMapAsserts(group, rest) <=> Len(rest) >= 1
    <3>1. e \in Nat /\ e >= 1 /\ g >= 1
      BY <1>3, <2>10
    <3>2. Parted(group, rest, n, e, g)
      BY <2>9, <2>11 DEF Parted
    <3>3. PartedRight(group, rest, n, e, g)
      BY <3>1, <3>2, Stretched, Zenon
    <3> QED
      BY <3>3 DEF PartedRight
  <2>13. PICK map : map = GetReshapeMap(group, rest)
    OBVIOUS
  <2>14. EmitReshape1(st, temp) = IF Len(rest) >= 1 THEN Emit(Chain(st, temp, map, o, FoldedOnLhs(st))) ELSE Abort
    <3>1. EmitReshape1(st, temp)
            = IF ~ReshapeMapAsserts(group, rest) THEN Abort ELSE Emit(Chain(st, temp, map, o, FoldedOnLhs(st)))
      <4>1. rest = Without(ToReshape(st), Len(rhs))
        BY <2>5, <2>8, <2>9
      <4>2. OldOf(st) = st.where[1].rhs.idents
        BY DEF OldOf
      <4>3. Len(lhs) = Len(rhs)
        BY <2>5
      <4> QED
        BY <1>2, <2>3, <2>6, <2>8, <2>13, <4>1, <4>2, <4>3 DEF EmitReshape1, Chain
    <3> QED
      BY <2>12, <3>1
  <2>15. CASE Len(rest) >= 1
    <3>1. PICK chain : chain = Chain(st, temp, map, o, FoldedOnLhs(st))
      OBVIOUS
    <3>2. TryReshape(st, temp) = Emit(chain)
      BY <2>1, <2>14, <2>15, <3>1
    <3>3. Emit(chain).verdict = "emit" /\ Emit(chain).builders = chain
      BY DEF Emit
    <3>4. ComputesView(st, chain) <=> map = RightMap(st) /\ SelfInverse(LhsOf(st), RhsOf(st))
      BY <2>2, <2>3, <2>5, <2>7, <3>1, ChainComputes, Zenon
    <3>5. map = RightMap(st) <=> k = 2 /\ (m = 2 \/ (m = 3 /\ e = 1 /\ FoldedOnLhs(st)))
      <4>1. Stretch(group, rest, m + k - 1, e, Wide(st, m, k))
        BY <2>4, <2>10, <2>12
      <4> QED
        BY <1>1, <1>8, <2>12, <2>13, <2>15, <4>1, MapOf
    <3>6. Supported(st) <=> /\ k = 2 /\ (m = 2 \/ (m = 3 /\ e = 1 /\ FoldedOnLhs(st)))
                            /\ SelfInverse(LhsOf(st), RhsOf(st))
      BY <1>1, <1>8, SupportedIs
    <3>7. ComputesView(st, chain) <=> Supported(st)
      BY <3>4, <3>5, <3>6, Zenon
    <3> QED
      BY <3>2, <3>3, <3>7 DEF ReshapeAnswers
  <2>16. CASE ~(Len(rest) >= 1)
    <3>1. TryReshape(st, temp) = Abort
      BY <2>1, <2>14, <2>16
    <3>2. Abort.verdict # "emit"
      BY DEF Abort
    <3>3. ~Supported(st)
      <4>0. Supported(st) <=> /\ k = 2 /\ (m = 2 \/ (m = 3 /\ e = 1 /\ FoldedOnLhs(st)))
                              /\ SelfInverse(LhsOf(st), RhsOf(st))
        BY <1>1, <1>8, SupportedIs
      <4>1. Supported(st) => k = 2 /\ (m = 2 \/ (m = 3 /\ FoldedOnLhs(st)))
        BY <4>0, Zenon
      <4>2. k = 2 /\ (m = 2 \/ (m = 3 /\ FoldedOnLhs(st))) => Beside(n, e, g) >= 1
        <5> SUFFICES ASSUME k = 2, m = 2 \/ (m = 3 /\ FoldedOnLhs(st)) PROVE Beside(n, e, g) >= 1
          OBVIOUS
        <5>1. g = 2 /\ n = m + 1 /\ e \in Nat /\ e >= 1 /\ (m = 2 \/ m = 3)
          <6>1. g = IF FoldedOnLhs(st) THEN k ELSE m
            BY <2>10 DEF Wide
          <6>2. m \in Nat /\ k \in Nat /\ e \in 1..m
            BY <1>3
          <6> QED
            BY ONLY <6>1, <6>2, <2>4, k = 2, m = 2 \/ (m = 3 /\ FoldedOnLhs(st))
        <5> QED
          BY ONLY <5>1, m \in Nat DEF Beside
      <4>3. Len(rest) = Beside(n, e, g)
        BY <2>12 DEF Stretch
      <4> QED
        BY <2>16, <4>1, <4>2, <4>3
    <3> QED
      BY <3>1, <3>2, <3>3 DEF ReshapeAnswers
  <2> QED
    BY <2>15, <2>16
<1> QED
  BY <1>3, <1>6, <1>7, <1>8
===============================================================================
