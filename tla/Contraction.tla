----------------------------- MODULE Contraction -----------------------------
(***************************************************************************)
(* The contraction recognisers of dsl/emitter.cpp: isNN, isNNWithAlpha,    *)
(* isTN, isNT, isTT and matchMatMul; isN, isT, isNWithConstantAlpha,       *)
(* isTWithConstantAlpha and matchMatVec; matchConv.  All of them are tried *)
(* with a fresh matching context, whose walk is the one of Matchers.tla.   *)
(*                                                                         *)
(* A recogniser is given by the index roles of its two access patterns.    *)
(* The outcome of a try is a record: "no", "throw", or "emit" with the     *)
(* builders printed.                                                       *)
(***************************************************************************)
EXTENDS Trees, Placeholders

No    == [verdict |-> "no"]
Throw == [verdict |-> "throw"]
Abort == [verdict |-> "abort"]      \* a failed assert
Emit(builders) == [verdict |-> "emit", builders |-> builders]

-------------------------------------------------------------------------------
\* One matching context: the roles _A, _B (or _A, _y), _i, _j, _k, all free.
Free    == [role \in {"A", "B", "i", "j", "k"} |-> Unassigned]
Failed  == <<>>
Matched(ctx) == ctx # Failed

Bind(ctx, role, val) ==
  IF Matched(ctx) /\ CanAssign(ctx, role, val) THEN Assign(ctx, role, val) ELSE Failed

\* OpAccessMatch::match of array(roles) on t: the arguments, then the array.
MatchAccess(ctx, t, array, roles) ==
  LET bound[p \in 0..Len(roles)] ==
        IF p = 0 THEN ctx ELSE Bind(bound[p - 1], roles[p], t.args[p].name)
  IN  IF t.kind = "apply" /\ Len(t.args) = Len(roles) /\ IdentArgs(t)
      THEN Bind(bound[Len(roles)], array, t.name) ELSE Failed

\* m_Mul(m_Access(_A(a)), m_Access(_B(b)))
MatchProduct(t, a, b) ==
  IF t.kind # "*" THEN Failed
  ELSE MatchAccess(MatchAccess(Free, t.kids[1], "A", a), t.kids[2], "B", b)

\* m_Mul(m_Any(), m_Mul(...)) when scaled.
MatchScaledProduct(t, a, b, scaled) ==
  IF ~scaled THEN MatchProduct(t, a, b)
  ELSE IF t.kind # "*" THEN Failed
  ELSE MatchProduct(t.kids[2], a, b)

\* Mutant: the indices of the output are not compared.
RecogniseAnyOutput(c, a, b, outRoles, scaled) ==
  LET ctx == MatchScaledProduct(c.rhs, a, b, scaled)
  IN  IF /\ Matched(ctx)
         /\ c.name \notin {ctx["A"], ctx["B"]}
         /\ Len(c.indices) = Len(outRoles)
      THEN ctx ELSE Failed

\* What all recognisers share: the product matches, the output is not one of
\* the operands, and its indices are the placeholders of outRoles in order.
Recognise(c, a, b, outRoles, scaled) ==
  LET ctx == MatchScaledProduct(c.rhs, a, b, scaled)
  IN  IF /\ Matched(ctx)
         /\ c.name \notin {ctx["A"], ctx["B"]}
         /\ c.indices = [p \in DOMAIN outRoles |-> ctx[outRoles[p]]]
      THEN ctx ELSE Failed

-------------------------------------------------------------------------------
\* isNN, isTN, isNT, isTT: transposition of each operand, by its index roles.
GemmA(trans) == IF trans = "T" THEN <<"k", "i">> ELSE <<"i", "k">>
GemmB(trans) == IF trans = "T" THEN <<"j", "k">> ELSE <<"k", "j">>

Gemm(c, transa, transb, scaled) ==
  Recognise(c, GemmA(transa), GemmB(transb), <<"i", "j">>, scaled)

\* matchMatMul tries all of them; every one that matches overwrites the
\* MatMulInfo of the ones before it, while the transpose flags accumulate.
GemmTries(c) ==
  LET NN == Gemm(c, "N", "N", FALSE)
      Alpha == IF Matched(NN) THEN Failed ELSE Gemm(c, "N", "N", TRUE)
  IN  << [ctx |-> NN,                        alpha |-> "1",     ta |-> FALSE, tb |-> FALSE],
         [ctx |-> Alpha,                     alpha |-> "alpha", ta |-> FALSE, tb |-> FALSE],
         [ctx |-> Gemm(c, "T", "N", FALSE),  alpha |-> "1",     ta |-> TRUE,  tb |-> FALSE],
         [ctx |-> Gemm(c, "N", "T", FALSE),  alpha |-> "1",     ta |-> FALSE, tb |-> TRUE],
         [ctx |-> Gemm(c, "T", "T", FALSE),  alpha |-> "1",     ta |-> TRUE,  tb |-> TRUE] >>

\* The tries that succeed.
Hits(tries) == {n \in DOMAIN tries : Matched(tries[n].ctx)}

Trans(flag) == IF flag THEN "T" ELSE "N"

\* dimensionsForM, N, K: how many loops the where clause folds into one index.
\* Without a where clause letVar is the reserved string and letSize - 1 is 0.
Folded(c, index) ==
  LET letVar == IF c.where = <<>> THEN Unassigned ELSE c.where[1].name
      folded == IF c.where = <<>> THEN 0 ELSE Len(c.where[1].rhs.idents)
  IN  IF letVar = index THEN folded ELSE 1

MatchMatMul(c) ==
  LET tries == GemmTries(c)
      hits == Hits(tries)
      mmi  == tries[Max(hits)]
      builder ==
        [op |-> "matmul", ins |-> <<mmi.ctx["A"], mmi.ctx["B"]>>, out |-> c.name,
         transa |-> Trans(\E h \in hits : tries[h].ta),
         transb |-> Trans(\E h \in hits : tries[h].tb),
         dims  |-> [M |-> Folded(c, mmi.ctx["i"]), N |-> Folded(c, mmi.ctx["j"]),
                    K |-> Folded(c, mmi.ctx["k"])],
         alpha |-> mmi.alpha]
  IN  IF c.assign # "+=" \/ Len(c.indices) # 2 \/ hits = {} THEN No
      ELSE IF Len(c.where) > 1 THEN Throw
      ELSE IF c.where # <<>> /\ c.where[1].kind # "let" THEN Throw
      ELSE Emit(<<builder>>)

-------------------------------------------------------------------------------
\* Mutant: isTWithConstantAlpha is left out.
MatVecTriesThree(c) ==
  LET Gemv(trans, scaled) ==
        [ctx |-> Recognise(c, IF trans = "T" THEN <<"j", "i">> ELSE <<"i", "j">>,
                           <<"j">>, <<"i">>, scaled),
         transa |-> trans, alpha |-> IF scaled THEN "alpha" ELSE "1"]
  IN  << Gemv("N", FALSE), Gemv("T", FALSE), Gemv("N", TRUE) >>

\* isN, isT, isNWithConstantAlpha, isTWithConstantAlpha; "B" stands for _y.
MatVecTries(c) ==
  LET Gemv(trans, scaled) ==
        [ctx |-> Recognise(c, IF trans = "T" THEN <<"j", "i">> ELSE <<"i", "j">>,
                           <<"j">>, <<"i">>, scaled),
         transa |-> trans, alpha |-> IF scaled THEN "alpha" ELSE "1"]
  IN  << Gemv("N", FALSE), Gemv("T", FALSE), Gemv("N", TRUE), Gemv("T", TRUE) >>

\* matchMatVec: the first recogniser that matches; where clauses are ignored.
MatchMatVec(c) ==
  LET tries == MatVecTries(c)
      hits == Hits(tries)
      mvi  == tries[Min(hits)]
  IN  IF c.assign # "+=" \/ Len(c.indices) # 1 \/ hits = {} THEN No
      ELSE Emit(<< [op |-> "matvec", ins |-> <<mvi.ctx["A"], mvi.ctx["B"]>>, out |-> c.name,
                    transa |-> mvi.transa, alpha |-> mvi.alpha] >>)

\* matchConv takes whatever is left of the two-index "+=" statements: it only
\* needs the first two children of the right-hand side to be accesses.
MatchConv(c) ==
  LET ts == c.rhs.kids
  IN  IF c.assign # "+=" \/ Len(c.indices) # 2 THEN No
      ELSE IF Len(ts) < 2 THEN Throw
      ELSE IF ts[1].kind # "apply" \/ ts[2].kind # "apply" THEN Throw
      ELSE Emit(<< [op |-> "conv", ins |-> <<ts[1].name, ts[2].name>>, out |-> c.name] >>)
=============================================================================
