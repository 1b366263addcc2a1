-------------------------------- MODULE Sema --------------------------------
(***************************************************************************)
(* Semantic analysis of one function (dsl/sema.h, checkFunction): the      *)
(* parameters fill the environment, each statement is checked in its own   *)
(* scope of indices and let bindings and then defines its output, and the  *)
(* returned tensors must be defined.  Any step may throw, which ends the   *)
(* analysis.                                                               *)
(*                                                                         *)
(* An expression is given in postfix: a sequence of nodes with their       *)
(* arities.  checkExp, which visits the operands of a node in order and    *)
(* then types the node, goes through that sequence with a stack of         *)
(* types.  It looks up the name of an access before its arguments instead  *)
(* of after them; no argument can make an access legal that was not.       *)
(* A dimension that is a number takes part in the rank only.               *)
(***************************************************************************)
EXTENDS Types, Sequences, SequencesExt, Functions

CONSTANTS Functions,    \* the functions that may be checked
          BuiltIns      \* the arity of each built-in function

Inferred == [kind |-> "inferred"]
Scalar(t) == [kind |-> "scalar", scalar |-> t]
Tensor(t, rank) == [kind |-> "tensor", scalar |-> t, rank |-> rank]

\* What the parser delivers: lists, clauses of the three kinds, and trees, whose
\* nodes find their operands on the stack and leave one result.
IsList(l) == l \in Seq(Range(l))

Arity(node) == CASE node.op \in {"ident", "const", "dim"} -> 0
                 [] node.op = "cast" -> 1
                 [] OTHER -> node.n
IsNode(node) ==
  \/ node.op \in {"ident", "dim"}
  \/ node.op \in {"const", "cast"} /\ node.type \in Scalars
  \/ node.op = "apply" /\ node.n \in Nat
  \/ node.op \in {"arith", "compare", "logic"} /\ node.n \in Nat \ {0}
  \/ node.op = "cond" /\ node.n = 3
IsTree(exp) ==
  LET depth[p \in 0..Len(exp)] == IF p = 0 THEN 0 ELSE depth[p - 1] - Arity(exp[p]) + 1
  IN  (\A p \in 1..Len(exp) : Arity(exp[p]) <= depth[p - 1]) /\ depth[Len(exp)] = 1
IsExp(exp) == IsList(exp) /\ (\A p \in DOMAIN exp : IsNode(exp[p])) /\ IsTree(exp)

IsClause(w) == \/ w.kind \in {"let", "exists"} /\ IsExp(w.exp)
               \/ w.kind = "range" /\ IsExp(w.start) /\ IsExp(w.end)
IsStmt(st) ==
  /\ IsList(st.where) /\ \A c \in DOMAIN st.where : IsClause(st.where[c])
  /\ IsExp(st.rhs)
  /\ IsList(st.equivalent) /\ \A e \in DOMAIN st.equivalent : IsExp(st.equivalent[e])
IsParam(p) == p.type = Inferred \/ (p.type.kind = "tensor" /\ p.type.scalar \in Scalars)

ASSUME FunctionsAssumption ==
  \A f \in Functions :
    /\ IsList(f.params) /\ \A p \in DOMAIN f.params : IsParam(f.params[p])
    /\ IsList(f.stmts)  /\ \A n \in DOMAIN f.stmts : IsStmt(f.stmts[n])

VARIABLES
  func,                 \* the function
  phase,                \* what checkFunction does next, or how it ended
  at,                   \* the parameter, then the statement being checked
  clause,               \* the where clause being checked
  env, index_env, let_env, reduction_variables,
  rhsType,              \* type of the checked right-hand side
  warned,               \* "Reduction without initialization" was printed
  statements            \* the checked statements

vars == <<func, phase, at, clause, env, index_env, let_env, reduction_variables,
          rhsType, warned, statements>>

perStatement == <<clause, index_env, let_env, reduction_variables, rhsType, warned>>

Empty == [x \in {} |-> Scalar("int32")]

\* Mutant: the environment takes the new value.
EmplaceOver(e, xs, v) == [y \in DOMAIN e \cup xs |-> IF y \in xs THEN v ELSE e[y]]

\* insert, of each of the names xs: unordered_map::emplace lets a name that is
\* there keep its value.
Emplace(e, xs, v) == [y \in DOMAIN e \cup xs |-> IF y \in DOMAIN e THEN e[y] ELSE v]

\* insert throws on the name of a built-in function, and on a name that is
\* already there when it must not be.
Insertable(x) == x \notin DOMAIN BuiltIns
InsertableNew(e, x) == Insertable(x) /\ x \notin DOMAIN e

stmt == func.stmts[at]

Init ==
  /\ func \in Functions
  /\ phase = "params" /\ at = 1 /\ clause = 1
  /\ env = Empty /\ index_env = Empty /\ let_env = Empty
  /\ reduction_variables = <<>>
  /\ rhsType = "none" /\ warned = FALSE
  /\ statements = <<>>

Throw == phase' = "thrown" /\ UNCHANGED <<func, at, env, perStatement, statements>>

-------------------------------------------------------------------------------
\* The scope of an expression, and the types of its operands so far.
Scope == [env |-> env, index |-> index_env, lets |-> let_env,
          red |-> reduction_variables, stack |-> <<>>, ok |-> TRUE]

Failed(s)  == [s EXCEPT !.ok = FALSE]
Push(s, t) == [s EXCEPT !.stack = Append(@, t)]
Drop(s, n) == [s EXCEPT !.stack = SubSeq(@, 1, Len(@) - n)]
Operands(s, n) == SubSeq(s.stack, Len(s.stack) - n + 1, Len(s.stack))

\* lookup: indices, then let bindings, then the environment of the function.
Known(s, x) == x \in DOMAIN s.index \cup DOMAIN s.lets \cup DOMAIN s.env
Lookup(s, x) == IF x \in DOMAIN s.index THEN s.index[x]
                ELSE IF x \in DOMAIN s.lets THEN s.lets[x] ELSE s.env[x]

\* Mutant: index_env is not consulted.
CreateIndexTwice(s, x) ==
  IF x \in DOMAIN s.lets \cup DOMAIN s.env THEN s
  ELSE IF ~Insertable(x) THEN Failed(s)
  ELSE [s EXCEPT !.index = Emplace(@, {x}, Scalar("int32")), !.red = Append(@, x)]

\* lookupVarOrCreateIndex: an unknown name becomes a reduction variable.
CreateIndex(s, x) ==
  IF Known(s, x) THEN s
  ELSE IF ~InsertableNew(s.index, x) THEN Failed(s)
  ELSE [s EXCEPT !.index = Emplace(@, {x}, Scalar("int32")), !.red = Append(@, x)]

\* matchAllTypes: nothing is looked at when there is one type only.
Joinable(types) == Len(types) > 1 => \A p \in DOMAIN types : Supported(types[p])
JoinAll(types) ==
  LET join[p \in 1..Len(types)] ==
        IF p = 1 THEN types[1] ELSE MatchTypes(join[p - 1], types[p])
  IN  join[Len(types)]

\* An identifier; one that names a tensor of rank 0 is an access to it.
CheckIdent(s0, x, access) ==
  LET s == CreateIndex(s0, x)
  IN  IF ~s.ok THEN s
      ELSE IF Lookup(s, x).kind = "tensor" /\ (Lookup(s, x).rank # 0 \/ ~access) THEN Failed(s)
      ELSE Push(s, Lookup(s, x).scalar)

Integral(t) == Supported(t) /\ Code(t) # "Float"

CheckApply(s, t, n, access) ==
  LET args == Operands(s, n)
  IN  IF ~access THEN Failed(s)
      ELSE IF t \in DOMAIN BuiltIns
      THEN IF n = BuiltIns[t] /\ Joinable(<<"float">> \o args)
           THEN Push(Drop(s, n), JoinAll(<<"float">> \o args)) ELSE Failed(s)
      ELSE IF /\ Known(s, t) /\ Lookup(s, t).kind = "tensor" /\ Lookup(s, t).rank = n
              /\ \A p \in DOMAIN args : Integral(args[p])
           THEN Push(Drop(s, n), Lookup(s, t).scalar) ELSE Failed(s)

\* The operators: their operands' types, and the type of the result.
OperatorOk(op, types) ==
  CASE op \in {"arith", "compare"} -> Joinable(types)
    [] op = "logic" -> Joinable(types) /\ JoinAll(types) = "bool"
    [] op = "cond"  -> types[1] = "bool" /\ Joinable(Tail(types))
OperatorType(op, types) ==
  CASE op = "arith" -> JoinAll(types)
    [] op = "cond"  -> JoinAll(Tail(types))
    [] OTHER        -> "bool"

CheckNode(s, node, access) ==
  IF ~s.ok THEN s
  ELSE CASE node.op = "ident" -> CheckIdent(s, node.name, access)
         [] node.op = "const" -> Push(s, node.type)
         [] node.op = "apply" -> CheckApply(s, node.name, node.n, access)
         [] node.op = "dim"   -> IF Known(s, node.name) /\ Lookup(s, node.name).kind = "tensor"
                                 THEN Push(s, "int32") ELSE Failed(s)
         [] node.op = "cast"  -> IF Joinable(Append(Operands(s, 1), node.type))
                                 THEN Push(Drop(s, 1), node.type) ELSE Failed(s)
         [] OTHER -> LET types == Operands(s, node.n)
                     IN  IF OperatorOk(node.op, types)
                         THEN Push(Drop(s, node.n), OperatorType(node.op, types)) ELSE Failed(s)

CheckExp(s, exp, access) ==
  LET after[p \in 0..Len(exp)] == IF p = 0 THEN s ELSE CheckNode(after[p - 1], exp[p], access)
  IN  after[Len(exp)]
TypeOfExpr(s) == Last(s.stack)

\* Expressions one after the other.
CheckExps(s, exps) ==
  LET after[p \in 0..Len(exps)] == IF p = 0 THEN s ELSE CheckExp(after[p - 1], exps[p], TRUE)
  IN  after[Len(exps)]

\* checkLet, Exists, checkRangeConstraint
CheckLet(l) ==
  LET s == CheckExp(Scope, l.exp, TRUE)
  IN  IF s.ok /\ InsertableNew(s.lets, l.name)
      THEN [s EXCEPT !.lets = Emplace(@, {l.name}, Scalar(TypeOfExpr(s)))] ELSE Failed(Scope)

CheckRangeConstraint(rc) ==
  LET s == CreateIndex(Scope, rc.name)
      from == CheckExp(s, rc.start, FALSE)
      to   == CheckExp(from, rc.end, FALSE)
  IN  IF /\ s.ok /\ rc.name \in DOMAIN s.index
         /\ from.ok /\ Integral(TypeOfExpr(from))
         /\ to.ok /\ Integral(TypeOfExpr(to))
      THEN to ELSE Failed(Scope)

CheckWhereClause(w) ==
  CASE w.kind = "let"    -> CheckLet(w)
    [] w.kind = "exists" -> CheckExp(Scope, w.exp, TRUE)
    [] w.kind = "range"  -> CheckRangeConstraint(w)
-------------------------------------------------------------------------------
Inputs  == {func.params[p].name : p \in DOMAIN func.params}
Outputs == {func.returns[p].name : p \in DOMAIN func.returns}

\* annotated_output_types: the first annotation of a name counts.
Annotations(x) == {p \in DOMAIN func.returns : func.returns[p].name = x /\ func.returns[p].type # Inferred}
Annotated(x)   == Annotations(x) # {}
Annotation(x)  == func.returns[Min(Annotations(x))].type

\* checkParam: the named dimensions, then the parameter.
CheckParam ==
  /\ phase = "params" /\ at \in DOMAIN func.params
  /\ LET p == func.params[at]
         withDims == Emplace(env, Range(p.dims), Scalar("int32"))
     IN  IF /\ p.type # Inferred
            /\ \A d \in Range(p.dims) : Insertable(d)
            /\ InsertableNew(withDims, p.name)
         THEN /\ env' = Emplace(withDims, {p.name}, p.type)
              /\ at' = at + 1
              /\ UNCHANGED <<func, phase, perStatement, statements>>
         ELSE Throw

\* checkFunction goes on to the statements.
EndParams ==
  /\ phase = "params" /\ at \notin DOMAIN func.params
  /\ phase' = "indices" /\ at' = 1
  /\ UNCHANGED <<func, env, perStatement, statements>>

\* checkStmt: the indices, and the check that no input is written.
RegisterIndices ==
  /\ phase = "indices" /\ at \in DOMAIN func.stmts
  /\ IF /\ \A x \in Range(stmt.indices) : InsertableNew(index_env, x)
        /\ IsInjective(stmt.indices)
        /\ stmt.name \notin Inputs
     THEN /\ index_env' = Emplace(index_env, Range(stmt.indices), Scalar("int32"))
          /\ phase' = "where" /\ clause' = 1
          /\ UNCHANGED <<func, at, env, let_env, reduction_variables, rhsType, warned, statements>>
     ELSE Throw

Enter(s) == index_env' = s.index /\ let_env' = s.lets /\ reduction_variables' = s.red

CheckWhere ==
  /\ phase = "where" /\ clause \in DOMAIN stmt.where
  /\ \E s \in {CheckWhereClause(stmt.where[clause])} :
       IF s.ok THEN /\ Enter(s)
                    /\ clause' = clause + 1
                    /\ UNCHANGED <<func, phase, at, env, rhsType, warned, statements>>
       ELSE Throw

\* Mutant: the rank is not compared.
AnnotationOkAnyRank(x, t, rank) ==
  Annotated(x) => MatchTypes(t, Annotation(x).scalar) = Annotation(x).scalar

\* Mutant: the matched type is compared with the type of the right-hand side.
AnnotationOkSame(x, t, rank) ==
  Annotated(x) =>
    LET tt == Annotation(x)
    IN  /\ Joinable(<<t, tt.scalar>>) /\ MatchTypes(t, tt.scalar) = t
        /\ tt.rank = rank

\* The annotation of a returned tensor must be as wide as the right-hand side,
\* and of the same rank.
AnnotationOk(x, t, rank) ==
  Annotated(x) =>
    LET tt == Annotation(x)
    IN  /\ Joinable(<<t, tt.scalar>>) /\ MatchTypes(t, tt.scalar) = tt.scalar
        /\ tt.rank = rank

CheckRhs ==
  /\ phase = "where" /\ clause \notin DOMAIN stmt.where
  /\ \E s \in {CheckExp(Scope, stmt.rhs, TRUE)} :
       IF s.ok /\ AnnotationOk(stmt.name, TypeOfExpr(s), Len(stmt.indices))
       THEN /\ Enter(s)
            /\ rhsType' = TypeOfExpr(s)
            /\ phase' = "define"
            /\ UNCHANGED <<func, at, clause, env, warned, statements>>
       ELSE Throw

InPlace(assign)    == assign \in {"+=", "*=", "min=", "max="}
NotInPlace(assign) == assign \in {"+=!", "*=!", "min=!", "max=!"}

\* Mutant: the warning does not depend on earlier definitions.
WarnsInPlace == InPlace(stmt.assign)

\* isUninitializedReductionOperation, and lookup of the output without effect.
Warns == InPlace(stmt.assign) /\ ~Known(Scope, stmt.name)

\* The warning, and the new type of the output.
Define ==
  /\ phase = "define"
  /\ IF Insertable(stmt.name)
     THEN /\ warned' = Warns
          /\ env' = Emplace(env, {stmt.name}, Tensor(rhsType, Len(stmt.indices)))
          /\ phase' = "equivalent"
          /\ UNCHANGED <<func, at, clause, index_env, let_env, reduction_variables, rhsType,
                         statements>>
     ELSE Throw

CheckEquivalent ==
  /\ phase = "equivalent"
  /\ \E s \in {CheckExps(Scope, stmt.equivalent)} :
       IF s.ok THEN /\ Enter(s)
                    /\ phase' = "finish"
                    /\ UNCHANGED <<func, at, clause, env, rhsType, warned, statements>>
       ELSE Throw

\* Mutant: the indices stay for the next statement.
LeaveScopeKeepsIndices ==
  UNCHANGED index_env /\ let_env' = Empty /\ reduction_variables' = <<>>

\* The per-statement environments are cleared; the list of reduction variables
\* by being moved from.
LeaveScope == index_env' = Empty /\ let_env' = Empty /\ reduction_variables' = <<>>

\* The checked statement, with the assignment as it was written.
Finish ==
  /\ phase = "finish"
  /\ IF /\ ~(reduction_variables # <<>> /\ stmt.assign = "=")
        /\ stmt.name \in Inputs \cup Outputs
     THEN /\ statements' = Append(statements,
               [name |-> stmt.name, assign |-> stmt.assign, type |-> rhsType, warned |-> warned,
                reductionVariables |-> reduction_variables])
          /\ LeaveScope
          /\ clause' = 1 /\ rhsType' = "none" /\ warned' = FALSE
          /\ phase' = "indices" /\ at' = at + 1
          /\ UNCHANGED <<func, env>>
     ELSE Throw

\* Mutant: a returned tensor need not be defined.
CheckReturnsOptional ==
  /\ phase = "indices" /\ at \notin DOMAIN func.stmts
  /\ phase' = "done" /\ UNCHANGED <<func, at, env, perStatement, statements>>

\* checkReturn of every returned tensor.
CheckReturns ==
  /\ phase = "indices" /\ at \notin DOMAIN func.stmts
  /\ IF Outputs \subseteq DOMAIN env
     THEN phase' = "done" /\ UNCHANGED <<func, at, env, perStatement, statements>>
     ELSE Throw

\* checkFunction has returned or thrown.
Stop == phase \in {"done", "thrown"} /\ UNCHANGED vars

Next == CheckParam \/ EndParams \/ RegisterIndices \/ CheckWhere \/ CheckRhs \/ Define
          \/ CheckEquivalent \/ Finish \/ CheckReturns \/ Stop

Spec == Init /\ [][Next]_vars
-------------------------------------------------------------------------------
\* What a function says, read off its text: the expressions of part k of a
\* statement, which are its where clauses, its right-hand side and its
\* equivalent accesses, and their nodes with their places.
Texts(w) == IF w.kind = "range" THEN <<<<[op |-> "ident", name |-> w.name]>>, w.start, w.end>>
            ELSE <<w.exp>>
Part(st, k) == IF k \in DOMAIN st.where THEN Texts(st.where[k])
               ELSE IF k = Len(st.where) + 1 THEN <<st.rhs>> ELSE st.equivalent
Placed(k, e, exp) == {[at |-> <<k, e, p>>, node |-> exp[p]] : p \in DOMAIN exp}
PlacedIn(k, exps) == UNION {Placed(k, e, exps[e]) : e \in DOMAIN exps}
Nodes(st) == UNION {PlacedIn(k, Part(st, k)) : k \in 1..(Len(st.where) + 2)}
Earlier(a, b) ==
  a[1] < b[1] \/ (a[1] = b[1] /\ (a[2] < b[2] \/ (a[2] = b[2] /\ a[3] < b[3])))

Uses(st)  == {u \in Nodes(st) : u.node.op = "ident"}
Reads(st) == {u.node : u \in {u \in Nodes(st) : u.node.op = "apply"}}

Dims == UNION {Range(func.params[p].dims) : p \in DOMAIN func.params}
StatementNames(n) == {func.stmts[m].name : m \in 1..(n - 1)}
Globals(n) == Inputs \cup Dims \cup StatementNames(n)

\* The names with a meaning in part k of statement n: those of the function so
\* far, the indices, the let bindings before it, the output after its definition.
Lets(st, k) == {st.where[c].name : c \in {c \in DOMAIN st.where : c < k /\ st.where[c].kind = "let"}}
Bound(n, k) ==
  LET st == func.stmts[n]
  IN  Globals(n) \cup Range(st.indices) \cup Lets(st, k)
        \cup (IF k > Len(st.where) + 1 THEN {st.name} ELSE {})
Unbound(n) == {u \in Uses(func.stmts[n]) : u.node.name \notin Bound(n, u.at[1])}

\* red lists the names of the uses, each once, in the order in which they are met.
InOrder(red, uses) ==
  /\ IsInjective(red)
  /\ Range(red) = {u.node.name : u \in uses}
  /\ \A i, j \in DOMAIN red : i < j =>
       \E u \in uses : /\ u.node.name = red[i]
                      /\ \A v \in uses : v.node.name = red[j] => Earlier(u.at, v.at)

-------------------------------------------------------------------------------
TypeOK ==
  /\ phase \in {"params", "indices", "where", "define", "equivalent", "finish", "done", "thrown"}
  /\ at \in 1..(1 + Len(func.params) + Len(func.stmts))
  /\ \A x \in DOMAIN env : env[x].kind \in {"scalar", "tensor"} /\ env[x].scalar \in Scalars
  /\ \A x \in DOMAIN let_env : let_env[x].scalar \in Scalars
  /\ \A x \in DOMAIN index_env : index_env[x] = Scalar("int32")
  /\ IsInjective(reduction_variables) /\ Range(reduction_variables) \subseteq DOMAIN index_env
  /\ rhsType \in Scalars \cup {"none"} /\ warned \in BOOLEAN
  /\ \A n \in DOMAIN statements : statements[n].type \in Scalars

\* Scoping (lookupVarOrCreateIndex, checkLet, the clearing at the end of
\* checkStmt): the reduction variables of an accepted statement are the names
\* it uses with no meaning where they are met, in that order.  Nothing leaks in
\* from the scope of an earlier statement, and no tensor, dimension or let
\* binding of its own is mistaken for an index.
ReductionsExact ==
  \A n \in DOMAIN statements : InOrder(statements[n].reductionVariables, Unbound(n))

\* "checks that input variables are readonly" and "Everything has to be input
\* or output" (checkStmt, checkReturn): an accepted statement defines an output
\* that is no input, and an accepted function has defined its outputs.  checkReturn
\* looks in the environment only: an output named like an input or a dimension counts
\* as defined, whether or not a statement defines it.
OutputsOnly ==
  /\ \A n \in DOMAIN statements : statements[n].name \in Outputs \ Inputs
  /\ phase = "done" =>
       Outputs \subseteq Inputs \cup Dims \cup {statements[n].name : n \in DOMAIN statements}

\* The annotation check of checkStmt: a statement of an annotated output has
\* the declared rank, and a right-hand side that the declared type can hold.
AnnotationRespected ==
  \A n \in DOMAIN statements : Annotated(statements[n].name) =>
    /\ Len(func.stmts[n].indices) = Annotation(statements[n].name).rank
    /\ Fits(statements[n].type, Annotation(statements[n].name).scalar)

\* And the other way: a right-hand side that checks is refused for its annotation,
\* "attempting to assign type ... to narrower type ..." (sema.h:525-538), only if the
\* rank is not the declared one, one of the types is half precision, or the declared
\* type cannot hold it.  There is one exception, in which the message is wrong: the
\* tokens are compared and not the types, so a float is not accepted for a float32.
RefusedOnlyNarrower ==
  [][LET s  == CheckExp(Scope, stmt.rhs, TRUE)
         t  == TypeOfExpr(s)
         tt == Annotation(stmt.name)
     IN  CheckRhs /\ s.ok /\ phase' = "thrown" =>
           \/ tt.rank # Len(stmt.indices)
           \/ ~Supported(t) \/ ~Supported(tt.scalar)
           \/ ~Fits(t, tt.scalar)
           \/ SameInfo(t, tt.scalar) /\ t # tt.scalar]_vars

\* The first type of a tensor wins (insert keeps it): whatever is redefined
\* later, an access that was accepted still agrees with the rank of its tensor.
ReadsStayTyped ==
  \A n \in DOMAIN statements : \A node \in Reads(func.stmts[n]) :
    node.name \notin DOMAIN BuiltIns =>
      node.name \in DOMAIN env /\ env[node.name].kind = "tensor" /\ env[node.name].rank = node.n

\* "Reduction without initialization" is printed for in-place reductions into a
\* tensor that no earlier statement defines, and for these only; unless lookup
\* finds the name as something else: a parameter or a dimension of one, an index
\* or a let binding of the statement.
WarnedExact ==
  \A n \in DOMAIN statements :
    LET st == func.stmts[n]
        before == {u \in Uses(st) : u.at[1] <= Len(st.where) + 1}
        captured == st.name \in Range(st.indices) \cup Lets(st, Len(st.where) + 1)
                                  \cup {u.node.name : u \in before}
    IN  statements[n].warned <=> (InPlace(st.assign) /\ st.name \notin Globals(n) /\ ~captured)

-------------------------------------------------------------------------------
\* sema.h:569-573: "if a reduction is specified and there are no reduction
\* dimensions, we revert back to assignment here", for the !-suffixed operators.
NoEmptyReduction ==
  \A n \in DOMAIN statements :
    statements[n].reductionVariables = <<>> => ~NotInPlace(statements[n].assign)

\* sema.h:518-519: an output "annotated in the return list with a type" is
\* forced to be of that type.
AnnotationForced ==
  \A n \in DOMAIN statements : Annotated(statements[n].name) =>
    SameInfo(env[statements[n].name].scalar, Annotation(statements[n].name).scalar)
===============================================================================
