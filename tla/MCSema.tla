------------------------------- MODULE MCSema -------------------------------
(***************************************************************************)
(* Sema for TLC: functions of up to two statements over a small vocabulary. *)
(***************************************************************************)
EXTENDS Sema

Unary == [x \in {"exp"} |-> 1]

Id(x)         == <<[op |-> "ident", name |-> x]>>
Lit(t)        == <<[op |-> "const", type |-> t]>>
DimOf(t)      == <<[op |-> "dim", name |-> t]>>
Node(o, n)    == <<[op |-> o, n |-> n]>>
Read(t, args) == FlattenSeq(args) \o <<[op |-> "apply", name |-> t, n |-> Len(args)]>>
At(t, x)      == Read(t, <<Id(x)>>)
CastTo(e, t)  == e \o <<[op |-> "cast", type |-> t]>>
Plus(l, r)    == l \o r \o Node("arith", 2)

LetIs(x, e)     == [kind |-> "let", name |-> x, exp |-> e]
ExistsIs(e)     == [kind |-> "exists", exp |-> e]
In(x, from, to) == [kind |-> "range", name |-> x, start |-> from, end |-> to]

St(x, is, assign, e, where) ==
  [name |-> x, indices |-> is, assign |-> assign, rhs |-> e, where |-> where,
   equivalent |-> <<>>]
Equiv(st, exps) == [st EXCEPT !.equivalent = exps]

Param(x, t, ds)  == [name |-> x, type |-> Tensor(t, Len(ds)), dims |-> ds]
Untyped(x)           == [name |-> x, type |-> Inferred, dims |-> <<>>]
Returned(x, t, rank) == [name |-> x, type |-> Tensor(t, rank)]
Fn(ps, rs, sts)  == [params |-> ps, returns |-> rs, stmts |-> sts]

\* A float vector; with integers of another width; half precision; a scalar.
Params == {
  <<Param("A", "float", <<"N">>)>>,
  <<Param("A", "float", <<"N">>), Param("B", "int8", <<"N">>)>>,
  <<Param("A", "uint8", <<"N">>), Param("B", "int16", <<"M">>)>>,
  <<Param("A", "float16", <<"N">>)>>,
  <<Param("A", "double", <<"N">>), Param("B", "float", <<>>)>>}

\* A name twice, a built-in name, a dimension named as an earlier tensor, and a
\* tensor named as its own dimension; no type.
BadParams == {
  <<Param("A", "float", <<"N">>), Param("A", "float", <<"N">>)>>,
  <<Param("exp", "float", <<"N">>)>>, <<Param("A", "float", <<"exp">>)>>,
  <<Param("A", "float", <<"N">>), Param("B", "float", <<"A">>)>>,
  <<Param("A", "float", <<"A">>)>>, <<Untyped("A")>>}

Returns == {
  <<Untyped("C"), Untyped("D")>>, <<Untyped("C")>>, <<Untyped("C"), Untyped("N"), Untyped("A")>>,
  <<Returned("C", "double", 1), Untyped("D")>>, <<Returned("C", "float32", 1)>>,
  <<Returned("C", "int32", 1), Returned("C", "float", 2)>>}

\* Statements that define a tensor x, with scopes that differ.
Defining(x) == {
  St(x, <<"i">>, "=", At("A", "i"), <<>>),
  St(x, <<"j">>, "=", At("A", "j"), <<>>),
  St(x, <<"i">>, "+=!", At("A", "j"), <<>>),
  St(x, <<"i">>, "+=", At("A", "j") \o At("A", "j") \o At("B", "k") \o Node("arith", 3), <<>>),
  St(x, <<>>, "max=!", Plus(At("A", "i"), At("C", "i")), <<>>),
  St(x, <<"i">>, "+=!", Plus(Id("y"), At("A", "i")), <<LetIs("y", At("A", "j"))>>),
  St(x, <<"i">>, "+=!", Plus(Id("y"), At("A", "i")), <<ExistsIs(Id("y")), LetIs("y", At("A", "j"))>>),
  St(x, <<"i">>, "min=!", At("A", "k"), <<In("k", Lit("int32"), Id("N"))>>),
  Equiv(St(x, <<"i">>, "+=!", At("B", "j"), <<>>), <<At(x, "i"), At(x, "k")>>)}

Others == {
  St("C", <<"i">>, "+=!", At("A", "i"), <<>>),
  St("C", <<"i", "j">>, "=", Plus(At("A", "i"), At("B", "j")), <<>>),
  St("C", <<"i", "j">>, "=", Read("C", <<Id("i"), Id("j")>>), <<>>),
  St("C", <<"C">>, "+=", At("A", "C"), <<>>),
  St("C", <<"i">>, "*=", Plus(Id("B"), Id("C")), <<>>),
  St("C", <<"N">>, "=", At("A", "N"), <<>>),
  St("D", <<"i">>, "=", At("C", "i"), <<>>),
  St("D", <<"i">>, "+=", At("C", "i"), <<LetIs("y", DimOf("A")), LetIs("y", DimOf("A"))>>),
  St("D", <<"i">>, "=", At("A", "i"), <<In("i", Lit("float"), Id("N"))>>),
  St("D", <<"i">>, "=", At("A", "i"), <<In("N", Lit("int32"), Lit("int32"))>>),
  St("D", <<"i">>, "=", At("A", "i"), <<In("i", At("B", "i"), Id("N"))>>),
  St("A", <<"i">>, "=", At("B", "i"), <<>>),
  St("E", <<"i">>, "=", At("A", "i"), <<>>),
  St("exp", <<"i">>, "=", At("A", "i"), <<>>),
  St("C", <<"i", "i">>, "=", At("A", "i"), <<>>),
  St("C", <<"i">>, "=", Read("exp", <<At("A", "i")>>), <<>>),
  St("C", <<"i">>, "=", Read("exp", <<>>), <<>>),
  St("C", <<"i">>, "=", Read("A", <<At("A", "i")>>), <<>>),
  St("C", <<"i">>, "=", Id("A"), <<>>),
  St("C", <<"i">>, "=", CastTo(At("A", "i"), "uint8"), <<>>),
  St("C", <<"i">>, "=", At("A", "i") \o Id("i") \o Node("compare", 2) \o Node("logic", 1)
                          \o Id("i") \o Lit("int64") \o Node("cond", 3), <<>>),
  St("C", <<"i">>, "=", Plus(At("A", "i"), Id("i")) \o Node("logic", 1), <<>>)}

Stmts == Defining("C") \cup Defining("D") \cup Others

SomeFunctions ==
  {Fn(ps, rs, sts) : ps \in Params, rs \in Returns, sts \in SeqOf(Stmts, 2)}
    \cup {Fn(ps, <<>>, <<>>) : ps \in BadParams}
===============================================================================
