------------------------------- MODULE Emitter -------------------------------
(***************************************************************************)
(* The lowering of one tactic: emitTactic of main.cpp driving an Emitter   *)
(* (dsl/emitter.cpp) per statement.  The first statement is the pattern    *)
(* ("what"); every other one is lowered by the first recogniser that takes *)
(* it, in the order of emitHow.                                            *)
(*                                                                         *)
(* The only state that outlives a statement is the output stream and the   *)
(* thread_local symbol table, whose counter names the generated tensors;   *)
(* it is never reset, so a tactic starts with whatever value the tactics   *)
(* before it left.  Its other field, the last name generated, is only read *)
(* by the statement that has just generated it.                            *)
(***************************************************************************)
EXTENDS Views, Builders

CONSTANTS
  Tactics,      \* the statements of the tactics to lower, "what" first
  MaxEarlier    \* bound: names generated by earlier tactics of the thread

\* A tactic states its pattern at least, and its statements hold trees.
ASSUME EmitterConstants ==
  /\ \A t \in Tactics : t \in Seq(Range(t)) /\ Len(t) >= 1 /\ \A p \in DOMAIN t : IsStatement(t[p])
  /\ MaxEarlier \in Nat

VARIABLES
  tactic,   \* the statements of the tactic, "what" first
  at,       \* the statement being lowered
  phase,    \* what emitTactic does next, or how it ended
  nextId,   \* SymbolTableMap::nextId_
  out       \* the records printed, each with the statement it lowers

vars == <<tactic, at, phase, nextId, out>>

Tries  == {"matmul", "matvec", "reshape", "transpose", "conv", "unknown"}
Ended  == {"done", "thrown", "aborted"}

Tmp(n) == <<"tmp", n>>              \* "tmp" + std::to_string(n)

c == tactic[at]                     \* comprehension_

Init ==
  /\ tactic \in Tactics
  /\ at = 1
  /\ phase = "start"
  /\ nextId \in 0..MaxEarlier
  /\ out = <<>>

-------------------------------------------------------------------------------
\* emitTactic gives up on a tactic without "how" statements.
Start ==
  /\ phase = "start"
  /\ phase' = IF Len(tactic) < 2 THEN "done" ELSE "what"
  /\ UNCHANGED <<tactic, at, nextId, out>>

Printed(builders) == [p \in DOMAIN builders |-> [at |-> at, b |-> builders[p]]]

\* emitWhat: prints the header of the definition and the pattern, or throws after
\* the header.  What it may have printed of the pattern by then is left out.
EmitWhat ==
  /\ phase = "what"
  /\ LET ok == c.where = <<>> /\ c.assign \in {"=", "+="} /\ c.rhs.plain
     IN  /\ phase' = IF ok THEN "matmul" ELSE "thrown"
         /\ at' = IF ok THEN 2 ELSE at
         /\ out' = Printed(<< IF ok THEN [op |-> "what", text |-> PatternText(c)]
                              ELSE [op |-> "header"] >>)
  /\ UNCHANGED <<tactic, nextId>>

\* Mutant: no return after a recogniser that took the statement.
TryFallsThrough(this, next, outcome) ==
  /\ phase = this
  /\ phase' = CASE outcome.verdict = "throw" -> "thrown"
                [] outcome.verdict = "abort" -> "aborted"
                [] OTHER -> next
  /\ out' = IF outcome.verdict = "emit" THEN out \o Printed(outcome.builders) ELSE out
  /\ UNCHANGED <<tactic, at>>

\* One step of emitHow: a recogniser declines, throws, aborts, or lowers the
\* statement, after which the next statement is tried from the start.
Try(this, next, outcome) ==
  /\ phase = this
  /\ CASE outcome.verdict = "no"    -> phase' = next /\ UNCHANGED <<at, out>>
       [] outcome.verdict = "throw" -> phase' = "thrown" /\ UNCHANGED <<at, out>>
       [] outcome.verdict = "abort" -> phase' = "aborted" /\ UNCHANGED <<at, out>>
       [] outcome.verdict = "emit"  ->
            /\ out' = out \o Printed(outcome.builders)
            /\ at' = at + 1
            /\ phase' = IF at = Len(tactic) THEN "footer" ELSE "matmul"
  /\ UNCHANGED tactic

MatchAndEmitMatMul == Try("matmul", "matvec", MatchMatMul(c)) /\ UNCHANGED nextId
MatchAndEmitMatVec == Try("matvec", "reshape", MatchMatVec(c)) /\ UNCHANGED nextId

\* A generated name was used: getNextVariable ran.
Generates(outcome) == outcome.verdict = "emit" /\ Len(outcome.builders) = 2

\* Mutant: the counter counts down.
MatchAndEmitReshapeDown ==
  /\ phase = "reshape"
  /\ \E outcome \in {TryReshape(c, Tmp(nextId))} :
       /\ Try("reshape", "transpose", outcome)
       /\ nextId' = IF Generates(outcome) THEN nextId - 1 ELSE nextId

\* Mutant: a generated name does not use up its number.
MatchAndEmitReshapeReuse ==
  /\ phase = "reshape"
  /\ Try("reshape", "transpose", TryReshape(c, Tmp(nextId)))
  /\ UNCHANGED nextId

MatchAndEmitReshape ==
  /\ phase = "reshape"
  /\ \E outcome \in {TryReshape(c, Tmp(nextId))} :
       /\ Try("reshape", "transpose", outcome)
       /\ nextId' = IF Generates(outcome) THEN nextId + 1 ELSE nextId

MatchAndEmitTranspose == Try("transpose", "conv", TryTranspose(c)) /\ UNCHANGED nextId
MatchAndEmitConv      == Try("conv", "unknown", MatchConv(c)) /\ UNCHANGED nextId

\* emitHow: no recogniser took the statement.
UnknownBuilder ==
  /\ phase = "unknown"
  /\ phase' = "thrown"
  /\ UNCHANGED <<tactic, at, nextId, out>>

\* The end of emitTactic.
EmitFooter ==
  /\ phase = "footer"
  /\ out' = Append(out, [at |-> at, b |-> [op |-> "eraseOp"]])
  /\ phase' = "done"
  /\ UNCHANGED <<tactic, at, nextId>>

\* The driver has returned, or its process is gone.
Stop == phase \in Ended /\ UNCHANGED vars

Next == Start \/ EmitWhat \/ MatchAndEmitMatMul \/ MatchAndEmitMatVec \/ MatchAndEmitReshape
          \/ MatchAndEmitTranspose \/ MatchAndEmitConv \/ UnknownBuilder \/ EmitFooter \/ Stop

Spec == Init /\ [][Next]_vars
-------------------------------------------------------------------------------
\* The statements of the "how" part lowered so far, and what lowers each of them.
Lowered == 2..(at - 1)
BuildersOf(s) ==
  Kept([p \in DOMAIN out |-> out[p].b],
       {p \in DOMAIN out : out[p].at = s /\ out[p].b.op # "eraseOp"})

\* The state is well typed.
TypeOK ==
  /\ at \in 1..(Len(tactic) + 1)
  /\ phase \in {"start", "what", "footer"} \cup Tries \cup Ended
  /\ nextId \in Nat
  /\ \A p \in DOMAIN out : out[p].at \in 1..(Len(tactic) + 1)

\* Every statement is lowered exactly once, in order: the builders come in the
\* order of their statements, each statement passed has some, the statement
\* that threw or aborted has none, and eraseOpBuilder closes a complete list
\* only (emitTactic, main.cpp:14-24; emitHow returns after the first success).
\* A pattern that is rejected leaves a header that nothing follows
\* (emitter.cpp:937-968).
LoweredInOrder ==
  /\ \A p, q \in DOMAIN out : p < q => out[p].at <= out[q].at
  /\ {out[p].at : p \in DOMAIN out} \ {Len(tactic) + 1}
       = 1..(IF out # <<>> /\ out[1].b.op = "header" THEN 1 ELSE at - 1)
  /\ \A p \in DOMAIN out : out[p].b.op = "header" => Len(out) = 1 /\ phase = "thrown" /\ at = 1
  /\ \A p \in DOMAIN out : out[p].b.op = "eraseOp"
       => p = Len(out) /\ phase = "done" /\ at = Len(tactic) + 1
  /\ \A p, q \in DOMAIN out : p # q /\ out[p].at = out[q].at => out[p].b.op # out[q].b.op

\* The accumulated flags and the overwritten MatMulInfo of matchMatMul still
\* describe the statement (emitter.cpp:305-357): a matmulBuilder's operands,
\* transpositions, scaling and folded dimensions are those that the statement has
\* as C(m, n) += op(A)(m, k) * op(B)(k, n), whether or not m, n and k differ; and
\* matchMatMul declines no matrix product but those that are both scaled and
\* transposed: it knows c += alpha * A * B only (isNNWithAlpha, emitter.cpp:92-122),
\* so C(i, j) += alpha * (A(k, i) * B(k, j)) is declined.
GemmExact ==
  /\ \A p \in DOMAIN out : out[p].b.op = "matmul" => GemmRight(tactic[out[p].at], out[p].b)
  /\ phase \in Tries \ {"matmul"} =>
       \A ta, tb \in {"N", "T"} :
          IsGemm(c, ta, tb) => Scaled(c) /\ (ta = "T" \/ tb = "T")

\* matchMatVec (emitter.cpp:360-372), whose recognisers stop at the first success
\* instead of overwriting each other, lowers a statement to what it is as
\* x(i) += op(A)(i, j) * y(j), and declines no such product over two indices,
\* scaled or not.
GemvExact ==
  /\ \A p \in DOMAIN out : out[p].b.op = "matvec" => GemvRight(tactic[out[p].at], out[p].b)
  /\ phase \in Tries \ {"matmul", "matvec"} => ~\E ta \in {"N", "T"} : IsGemv(c, ta)

\* The transposeBuilder of a statement without where clauses permutes the layout of
\* the right-hand side into that of the left-hand side (matchTranspose,
\* emitter.cpp:796-827), and no such statement is declined or stops the tactic.
TransposeExact ==
  /\ \A p \in DOMAIN out : out[p].at \in Lowered /\ IsTransposition(tactic[out[p].at])
       => TransposeRight(tactic[out[p].at], out[p].b)
  /\ phase \in {"conv", "unknown", "thrown", "aborted"} /\ at > 1 => ~IsTransposition(c)

\* The builders printed for a reshape with one where clause, one after the other
\* and through the generated tensor, turn the layout of the right-hand side into
\* that of the left-hand side exactly if the reshape is one of the supported ones
\* (emitter.cpp:436-768), and none of these is declined or stops the tactic.
ReshapeExact ==
  /\ \A s \in Lowered : IsReshape(tactic[s]) =>
       (ComputesView(tactic[s], BuildersOf(s)) <=> Supported(tactic[s]))
  /\ phase \in {"transpose", "conv", "unknown", "thrown", "aborted"} /\ at > 1
       => ~(IsReshape(c) /\ Supported(c))

\* A view with a where clause for each dimension of one side is lowered to a
\* reshapeBuilder, whose map lists the dimensions that each clause folds
\* (printGroup, emitter.cpp:590-662).
GroupsExact ==
  /\ \A p \in DOMAIN out : out[p].at \in Lowered /\ IsGroupView(tactic[out[p].at])
       => GroupRight(tactic[out[p].at], out[p].b)
  /\ phase \in {"transpose", "conv", "unknown", "thrown", "aborted"} /\ at > 1 => ~IsGroupView(c)

\* Record p writes a generated tensor: it is the first of two builders of a
\* statement.
Generated(p) == /\ p + 1 \in DOMAIN out
                /\ out[p].at = out[p + 1].at /\ out[p].b.op # out[p + 1].b.op
                /\ out[p + 1].b.op # "eraseOp"

Builder(p) == out[p].b.op \notin {"what", "eraseOp"}

\* A generated tensor is written by the first builder of a statement and read by
\* its second, and never generated again.  Another builder that writes or reads it
\* does so because its own statement names it: a tactic may use the names tmp0,
\* tmp1, ... itself (test/dsltest.cpp:815-830), and nothing keeps getNextVariable
\* away from them (emitter.cpp:9-13, 732-768).
TempsPrivate ==
  \A p \in DOMAIN out : Generated(p) =>
    LET t == out[p].b.out IN
    /\ out[p + 1].b.ins = <<t>>
    /\ t \in {Tmp(n) : n \in 0..(nextId - 1)}
    /\ \A q \in DOMAIN out : Builder(q) /\ q # p /\ out[q].b.out = t
         => ~Generated(q) /\ tactic[out[q].at].name = t
    /\ \A q \in DOMAIN out : Builder(q) /\ q # p + 1 /\ Contains(out[q].b.ins, t)
         => t \in ToSet(tactic[out[q].at].rhs.idents)

\* Every transposeBuilder of a reshape maps the layout of the right-hand side to
\* that of the left-hand side: getOrdering gives "the ordering of dimension
\* between source and dest" (emitter.cpp:513) to matchTranspose and to
\* emitReshape alike.
PermutationsAgree ==
  \A s \in Lowered : \A p \in DOMAIN BuildersOf(s) :
    LET b == BuildersOf(s)[p] IN
    IsReshape(tactic[s]) /\ b.op = "transpose"
      => Permuted(FlatRhs(tactic[s]), b.perm) = FlatLhs(tactic[s])

\* The map of a reshape mentions the dimensions of the side of higher rank, as
\* {{0, 1}, 2} does for C(a, b, c) = D(f, b) (test/dsltest.cpp:44, 65-66).
MapCoversDims ==
  \A s \in Lowered : \A p \in DOMAIN BuildersOf(s) :
    LET b == BuildersOf(s)[p] IN
    IsReshape(tactic[s]) /\ b.op = "reshape"
      => Range(SelectSeq(b.map, LAMBDA t : t \notin {"{", "}", ","}))
           = {ToString(n) : n \in 0..(Len(FlatLhs(tactic[s])) - 1)}

\* The map of a reshape is written {0, {1, 2}}: a comma between any two entries
\* and balanced braces (test/dsltest.cpp:840-843).
MapRendered ==
  \A s \in Lowered : \A p \in DOMAIN BuildersOf(s) :
    LET b == BuildersOf(s)[p]
        low == IF FoldedOnLhs(tactic[s]) THEN tactic[s].indices ELSE ArgNames(tactic[s].rhs)
    IN  IsReshape(tactic[s]) /\ b.op = "reshape"
          => b.map = Render(Dims(low, Folded1(tactic[s]).f, Folded1(tactic[s]).old))

\* The assertions of getReshapeMap (emitter.cpp:547-548) and emitReshape hold on
\* every reshape that means something.
AssertionsHold == phase = "aborted" => ~IsReshape(c)
===============================================================================
