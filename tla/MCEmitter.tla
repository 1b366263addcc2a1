------------------------------ MODULE MCEmitter ------------------------------
(***************************************************************************)
(* Emitter for TLC: the statements each run lowers.                        *)
(***************************************************************************)
EXTENDS Emitter

CONSTANTS A, B, C, D,          \* tensors of the user
          i, j, k, f, g,       \* indices
          alpha,               \* a scalar
          MaxHow               \* bound: statements of the "how" part

One             == Const(1, "int32")
Mul(l, r)       == Op("*", <<l, r>>)
Fold(x, is)     == Let(x, FoldLeft(LAMBDA e, y : Mul(e, Ident(y)), Ident(Head(is)), Tail(is)))
View(t, is, u, js, where) == Comprehension(t, is, "=", Access(u, js), where)

\* The pattern is printed as it is; one that prints and three that throw.
PatternOk == Comprehension(C, <<i, j>>, "+=", Mul(Access(A, <<i, k>>), Access(B, <<k, j>>)), <<>>)
\* A tactic of one statement to lower.
Alone(statements) == {<<PatternOk, s>> : s \in statements}

SomePatterns == {PatternOk,
  [PatternOk EXCEPT !.where = <<Fold(f, <<i, j>>)>>],
  [PatternOk EXCEPT !.assign = "*="],
  [PatternOk EXCEPT !.rhs = One]}

\* C(o) += A(a) * B(b), plain or scaled: all placements of i, j, k in two
\* operands of rank two against the outputs (i, j) and (i, i), and in a matrix
\* and a vector against the output (i); operands that alias each other or the
\* output; no where clause, one that folds an index, a range, and two.
Pairs == {i, j, k} \X {i, j, k}
Wheres == {<<>>, <<Fold(i, <<f, g>>)>>, <<Fold(k, <<f, g, j>>)>>,
           <<RangeConstraint(i, One, Ident(f))>>, <<Fold(i, <<f, g>>), Fold(j, <<f, g>>)>>}

Products(as, bs) ==
  {Mul(Access(A, a), Access(t, b)) : a \in as, b \in bs, t \in {A, B}}
MaybeScaled(es) == es \cup {Mul(Ident(alpha), e) : e \in es}

Contractions ==
  {Comprehension(t, o, "+=", e, <<>>) :
     t \in {B, C}, o \in {<<i, j>>, <<i, i>>}, e \in MaybeScaled(Products(Pairs, Pairs))}
  \cup
  {Comprehension(C, o, "+=", e, w) :
     o \in {<<i, j>>, <<i, i>>}, w \in Wheres,
     e \in MaybeScaled({Mul(Access(A, a), Access(B, b)) : a \in {<<i, k>>, <<k, i>>, <<i, i>>},
                                                       b \in {<<k, j>>, <<j, k>>, <<k, i>>}})}
  \cup
  {Comprehension(t, <<i>>, "+=", e, <<>>) :
     t \in {B, C}, e \in MaybeScaled(Products(Pairs, {<<i>>, <<j>>, <<k>>}))}

\* What no contraction recogniser takes, and what matchConv makes of it.
Others ==
  {Comprehension(C, o, assign, e, <<>>) :
     o \in {<<i, j>>, <<i>>}, assign \in {"+=", "=", "*="},
     e \in {Ident(A), One,
            Op("+", <<Access(A, <<i>>), Access(B, <<j>>)>>),
            Op("-", <<Access(A, <<i, j>>), Ident(alpha)>>),
            Mul(Access(A, <<i, k>>), Apply(B, <<Op("+", <<Ident(i), Ident(k)>>), Ident(j)>>))}}

ContractionStatements == Contractions \cup Others

-------------------------------------------------------------------------------
\* Views of A: the flattened indices of one side in every order against those
\* of the other side in the order of is.
Perms(n) == Permutations(1..n)
SelfInverse(n) == {q \in Perms(n) : \A p \in 1..n : q[q[p]] = p}
Ordered(is, q) == [p \in DOMAIN is |-> is[q[p]]]

Transposes == {View(C, Ordered(is, q), A, is, <<>>) : is \in {<<i, j, k>>}, q \in Perms(3)}
                \cup {View(C, Ordered(<<i, j, k, g>>, q), A, <<i, j, k, g>>, <<>>) : q \in Perms(4)}

\* o with n entries folded into f, from entry p on.
Low(o, p, n) == SubSeq(o, 1, p - 1) \o <<f>> \o SubSeq(o, p + n, Len(o))
Where(o, p, n) == <<Fold(f, SubSeq(o, p, p + n - 1))>>

FoldsOnLhs(is, qs, ps, n) ==
  {View(C, Low(Ordered(is, q), p, n), A, is, Where(Ordered(is, q), p, n)) : q \in qs, p \in ps}
FoldsOnRhs(is, qs, ps, n) ==
  {View(C, is, A, Low(Ordered(is, q), p, n), Where(Ordered(is, q), p, n)) : q \in qs, p \in ps}

\* One to four indices in any order, any number of them folded.
Reshapes ==
  UNION {FoldsOnLhs(SubSeq(<<i, j, k, g>>, 1, m), Perms(m), 1..(m - n + 1), n)
           \cup FoldsOnRhs(SubSeq(<<i, j, k, g>>, 1, m), Perms(m), 1..(m - n + 1), n)
           : m \in 1..4, n \in 1..4}

\* Statements that are no view, or not one that the emitter supports: indices
\* repeated, missing or not identifiers, where clauses missing, of another
\* kind, with one variable, on the wrong side or on both, or three of them.
BadViews ==
  {View(C, <<i, j>>, A, js, w) :
     js \in {<<i, i>>, <<k, j>>, <<f>>, <<f, k>>, <<i, j, k>>, <<f, f, k>>},
     w \in {<<>>, <<Fold(f, <<i, j>>)>>, <<Fold(i, <<j, k>>)>>, <<Fold(k, <<i, g>>)>>,
            <<Let(f, Ident(i))>>, <<Exists(Ident(f))>>,
            <<Fold(f, <<i, j>>), Fold(g, <<i, j>>)>>,
            <<Fold(f, <<i, j>>), Fold(f, <<i, j>>)>>,
            <<Fold(f, <<i, j>>), Fold(f, <<i, j>>), Fold(f, <<i, j>>)>>}}
  \cup {Comprehension(C, <<i, j>>, "=", e, <<>>) :
          e \in {Op("-", <<Access(A, <<i>>)>>), Apply(A, <<One, Ident(i)>>), Apply(A, <<One>>)}}

\* Two folded indices f and g, for two, or two and three, dimensions in any order.
Groups(high) ==
  LET where == <<Fold(f, SubSeq(high, 1, 2)), Fold(g, SubSeq(high, 3, Len(high)))>>
  IN  UNION {{View(C, <<f, g>>, A, Ordered(high, q), where),
              View(C, Ordered(high, q), A, <<f, g>>, where)} : q \in Perms(Len(high))}
GroupViews == Groups(<<i, j, k, alpha>>) \cup Groups(<<i, j, k, alpha, B>>)

ViewStatements == Transposes \cup Reshapes \cup BadViews \cup GroupViews

\* What the runs of single properties lower.
CyclicReshapes == Alone(FoldsOnLhs(<<i, j, k>>, Perms(3), 1..2, 2))
WideReshapes   == Alone(FoldsOnRhs(<<i, j, k, g>>, SelfInverse(4), 1..3, 2))
LateFolds      == Alone(FoldsOnLhs(<<i, j, k, g>>, SelfInverse(4), 1..3, 2))
FullFolds      == Alone({View(C, <<f>>, A, <<i, j>>, <<Fold(f, <<i, j>>)>>)})
-------------------------------------------------------------------------------
\* Tactics of several statements: that feed each other, two of them through
\* generated tensors, and some that stop the tactic.
Compact(t, u) == View(t, <<f, k>>, u, <<i, k, j>>, <<Fold(f, <<i, j>>)>>)
Expand(t, u)  == View(t, <<i, k, j>>, u, <<f, k>>, <<Fold(f, <<i, j>>)>>)

TacticStatements ==
  {Compact(D, C), Expand(C, D), Compact(B, A),
   View(D, <<i, j>>, A, <<j, i>>, <<>>),
   Comprehension(D, <<f, k>>, "+=", Mul(Access(B, <<f, j>>), Access(A, <<j, k>>)), <<>>),
   Comprehension(D, <<f>>, "+=", Mul(Access(B, <<f, j>>), Access(A, <<j>>)), <<>>),
   View(C, <<f>>, A, <<i, j>>, [n \in 1..3 |-> Fold(f, <<i, j>>)]),
   View(C, <<i, j>>, A, <<i, j>>, <<Fold(f, <<i, j>>)>>)}

\* Statements of a tactic that uses the names of generated tensors itself.
TempStatements ==
  {Compact(D, C), Expand(Tmp(0), D), Compact(C, Tmp(1)), Compact(Tmp(1), Tmp(0)),
   View(Tmp(0), <<i, j>>, A, <<j, i>>, <<>>)}

\* Every statement alone, and every tactic of at most MaxHow statements.
AllTactics ==
  Alone(ContractionStatements \cup ViewStatements)
    \cup {<<what>> \o how : what \in SomePatterns, how \in BoundedSeq(TacticStatements, MaxHow)}
    \cup {<<PatternOk>> \o how : how \in BoundedSeq(TempStatements, MaxHow)}
=============================================================================
