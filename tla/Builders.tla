------------------------------- MODULE Builders -------------------------------
(***************************************************************************)
(* What the printed builders mean, to judge a lowering by.  A tensor is    *)
(* known by its layout: the sequence of the index names of its dimensions. *)
(*   transposeBuilder{p}  dimension d of the result is dimension p[d] of   *)
(*                        the input, as in test/dsltest.cpp:109-144;       *)
(*   reshapeBuilder{m}    m lists, for each dimension on the side of lower *)
(*                        rank, the dimensions of the other side it folds; *)
(*   matmulBuilder, matvecBuilder  C += op(A) * op(B), x += op(A) * y.     *)
(* Nothing here is taken from the emitter but Supported, which says where  *)
(* the emitter agrees.                                                     *)
(***************************************************************************)
EXTENDS Integers, Trees, Functions, TLC

Permuted(layout, perm) == [p \in DOMAIN perm |-> layout[perm[p] + 1]]

\* The layout with index f written out as the indices it folds.
Flat(layout, f, old) ==
  LET flat[n \in 0..Len(layout)] ==
        IF n = 0 THEN <<>>
        ELSE flat[n - 1] \o (IF layout[n] = f THEN old ELSE <<layout[n]>>)
  IN  flat[Len(layout)]

\* For each dimension of layout, its dimensions in Flat(layout, f, old).
Dims(layout, f, old) ==
  [d \in DOMAIN layout |->
     LET first == Len(Flat(SubSeq(layout, 1, d - 1), f, old))
         width == IF layout[d] = f THEN Len(old) ELSE 1
     IN  [p \in 1..width |-> first + p - 1]]

Commas(items) ==
  LET joined[n \in 0..Len(items)] ==
        IF n = 0 THEN <<>> ELSE joined[n - 1] \o ((IF n = 1 THEN <<>> ELSE <<",">>) \o items[n])
  IN  joined[Len(items)]

\* {0, {1, 2}}: a dimension that folds nothing is written without braces.
RenderDim(dim) ==
  LET numerals == [p \in DOMAIN dim |-> <<ToString(dim[p])>>]
  IN  IF Len(dim) = 1 THEN numerals[1] ELSE <<"{">> \o Commas(numerals) \o <<"}">>
Render(dims) == <<"{">> \o Commas([d \in DOMAIN dims |-> RenderDim(dims[d])]) \o <<"}">>

\* {{0, 1}{2, 3}}: two groups are written without a comma (test/dsltest.cpp:902).
RenderGroups(dims) == <<"{">> \o RenderDim(dims[1]) \o RenderDim(dims[2]) \o <<"}">>

-------------------------------------------------------------------------------
\* A view statement reads one tensor, and its where clauses name folded indices.
IsView(c) ==
  /\ c.assign = "=" /\ c.rhs.kind = "apply" /\ IdentArgs(c.rhs)
  /\ \A w \in ToSet(c.where) : w.kind = "let"

\* A transposition has the same indices on both sides, each once.
IsTransposition(c) ==
  /\ IsView(c) /\ c.where = <<>>
  /\ IsInjective(c.indices) /\ IsInjective(ArgNames(c.rhs))
  /\ Range(c.indices) = Range(ArgNames(c.rhs))

\* A reshape has them once its where clause is written out, each once before and after.
Folded1(c) == [f |-> c.where[1].name, old |-> c.where[1].rhs.idents]

FlatLhs(c) == Flat(c.indices, Folded1(c).f, Folded1(c).old)
FlatRhs(c) == Flat(ArgNames(c.rhs), Folded1(c).f, Folded1(c).old)

IsReshape(c) ==
  /\ IsView(c) /\ Len(c.where) = 1
  /\ IsInjective(c.indices) /\ IsInjective(ArgNames(c.rhs))
  /\ IsInjective(FlatLhs(c)) /\ IsInjective(FlatRhs(c))
  /\ Range(FlatLhs(c)) = Range(FlatRhs(c))
  /\ Contains(c.indices, Folded1(c).f) # Contains(ArgNames(c.rhs), Folded1(c).f)

\* The reshapes that emitReshape can express: its map is right for two folded indices
\* of three, and of four if they come first on the left-hand side; and its
\* permutation if it is the same in both directions.
Supported(c) ==
  /\ Len(Folded1(c).old) = 2
  /\ \/ Len(FlatLhs(c)) = 3
     \/ Len(FlatLhs(c)) = 4 /\ c.indices[1] = Folded1(c).f
  /\ \A p \in DOMAIN FlatLhs(c), q \in DOMAIN FlatRhs(c) :
       FlatLhs(c)[p] = FlatRhs(c)[q] => FlatLhs(c)[q] = FlatRhs(c)[p]

\* A view with two folded indices that are the whole side of lower rank, in the
\* order of the clauses; the other side has what they stand for, in any order.
Low2(c)  == IF Len(c.indices) = 2 THEN c.indices ELSE ArgNames(c.rhs)
High2(c) == IF Len(c.indices) = 2 THEN ArgNames(c.rhs) ELSE c.indices

IsGroupView(c) ==
  /\ IsView(c) /\ Len(c.where) = 2 /\ \A w \in ToSet(c.where) : Len(w.rhs.idents) >= 2
  /\ Low2(c) = <<c.where[1].name, c.where[2].name>>
  /\ IsInjective(Low2(c)) /\ IsInjective(High2(c))
  /\ LET old == c.where[1].rhs.idents \o c.where[2].rhs.idents
     IN  IsInjective(old) /\ Range(old) = Range(High2(c)) /\ Range(old) \cap Range(Low2(c)) = {}

\* For each of the two dimensions, those of the other side that it folds.
GroupDims(c) ==
  [d \in 1..2 |-> LET old == c.where[d].rhs.idents
                  IN  [p \in DOMAIN old |-> (CHOOSE q \in DOMAIN High2(c) : High2(c)[q] = old[p]) - 1]]

\* A transposeBuilder or a reshapeBuilder that says what st is.
TransposeRight(st, b) ==
  /\ b.op = "transpose" /\ b.ins = <<st.rhs.name>> /\ b.out = st.name
  /\ Permuted(ArgNames(st.rhs), b.perm) = st.indices
GroupRight(st, b) ==
  /\ b.op = "reshape" /\ b.ins = <<st.rhs.name>> /\ b.out = st.name
  /\ b.map = RenderGroups(GroupDims(st))

Wrong == [name |-> <<>>, layout |-> <<>>]

\* One builder of a view applied to the tensor at hand.
ApplyView(c, t, b) ==
  LET new == Folded1(c).f
      old == Folded1(c).old
      folding == Contains(c.indices, new)
      low == IF folding THEN c.indices ELSE ArgNames(c.rhs)
      high == Flat(low, new, old)
  IN  IF b.ins # <<t.name>> THEN Wrong
      ELSE IF b.op = "transpose"
      THEN IF \A p \in DOMAIN b.perm : b.perm[p] + 1 \in DOMAIN t.layout
           THEN [name |-> b.out, layout |-> Permuted(t.layout, b.perm)] ELSE Wrong
      ELSE IF /\ b.op = "reshape" /\ b.map = Render(Dims(low, new, old))
              /\ t.layout = IF folding THEN high ELSE low
           THEN [name |-> b.out, layout |-> IF folding THEN low ELSE high] ELSE Wrong

\* The builders take the right-hand side of the statement to its left-hand side.
ComputesView(c, bs) ==
  LET tensor[n \in 0..Len(bs)] ==
        IF n = 0 THEN [name |-> c.rhs.name, layout |-> ArgNames(c.rhs)]
        ELSE ApplyView(c, tensor[n - 1], bs[n])
  IN  tensor[Len(bs)] = [name |-> c.name, layout |-> c.indices]

-------------------------------------------------------------------------------
\* The operands of c += A * B or c += alpha * (A * B), with plain indices.
Scaled(c)  == Len(c.rhs.kids) = 2 /\ c.rhs.kids[2].kind = "*"
Product(c) == IF Scaled(c) THEN c.rhs.kids[2] ELSE c.rhs

IsProduct(c) ==
  /\ c.assign = "+=" /\ c.rhs.kind = "*" /\ Product(c).kind = "*"
  /\ \A p \in {1, 2} : Product(c).kids[p].kind = "apply" /\ IdentArgs(Product(c).kids[p])

Operand(c, p) == Product(c).kids[p]

TransposeIf(t, is) == IF t = "T" THEN Reverse(is) ELSE is

\* c has the form of C(m, n) += op(A)(m, k) * op(B)(k, n).  Nothing is said of m, n
\* and k being different: the placeholders of the matchers may take the same name.
FitsGemm(c, transa, transb) ==
  /\ IsProduct(c)
  /\ Len(c.indices) = 2 /\ Len(Operand(c, 1).args) = 2 /\ Len(Operand(c, 2).args) = 2
  /\ c.name \notin {Operand(c, 1).name, Operand(c, 2).name}
  /\ LET a == TransposeIf(transa, ArgNames(Operand(c, 1)))
         b == TransposeIf(transb, ArgNames(Operand(c, 2)))
     IN  a[1] = c.indices[1] /\ a[2] = b[1] /\ b[2] = c.indices[2]

\* c is a matrix product: of that form, and over three indices.
IsGemm(c, transa, transb) ==
  /\ FitsGemm(c, transa, transb)
  /\ IsInjective(c.indices \o <<TransposeIf(transa, ArgNames(Operand(c, 1)))[2]>>)

\* c has the form of x(i) += op(A)(i, j) * y(j), and is such a product over two.
FitsGemv(c, transa) ==
  /\ IsProduct(c)
  /\ Len(c.indices) = 1 /\ Len(Operand(c, 1).args) = 2 /\ Len(Operand(c, 2).args) = 1
  /\ c.name \notin {Operand(c, 1).name, Operand(c, 2).name}
  /\ TransposeIf(transa, ArgNames(Operand(c, 1)))
       = c.indices \o ArgNames(Operand(c, 2))
IsGemv(c, transa) == FitsGemv(c, transa) /\ IsInjective(c.indices \o ArgNames(Operand(c, 2)))

\* How many loops stand behind an index of c.
Loops(c, index) ==
  IF \E w \in ToSet(c.where) : w.kind = "let" /\ w.name = index
  THEN Len((CHOOSE w \in ToSet(c.where) : w.kind = "let" /\ w.name = index).rhs.idents) ELSE 1

\* A matmulBuilder or matvecBuilder says what form st has: its operands, which of
\* them are transposed, the scaling, and the loops behind each index.
GemmRight(st, b) ==
  /\ FitsGemm(st, b.transa, b.transb)
  /\ b.ins = <<Operand(st, 1).name, Operand(st, 2).name>> /\ b.out = st.name
  /\ (b.alpha = "alpha") = Scaled(st)
  /\ LET inner == TransposeIf(b.transa, ArgNames(Operand(st, 1)))[2]
     IN  b.dims = [M |-> Loops(st, st.indices[1]), N |-> Loops(st, st.indices[2]),
                   K |-> Loops(st, inner)]

GemvRight(st, b) ==
  /\ FitsGemv(st, b.transa)
  /\ b.ins = <<Operand(st, 1).name, Operand(st, 2).name>> /\ b.out = st.name
  /\ (b.alpha = "alpha") = Scaled(st)
===============================================================================
