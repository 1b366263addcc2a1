------------------------------- MODULE Grammar -------------------------------
(***************************************************************************)
(* What the parser should do, written down without it: the grammar of the  *)
(* trees (dsl/tree_views.h:20-101) as a way to write a tree, with the      *)
(* precedences of dsl/lexer.h:141-181, next to the way to read an          *)
(* expression of Reading; and the properties of Parser that compare what   *)
(* is written with what is read.                                           *)
(*                                                                         *)
(* What is known of an input (field by):                                   *)
(*   "tokens"    nothing: any sequence of tokens, read as an expression    *)
(*   "chars"     nothing: any sequence of characters                       *)
(*   "written"   the text of input.tree                                    *)
(*   "cut"       the tokens input.tree, the first ones of a tactic or a    *)
(*               function, but not all of them; input.short if it is a     *)
(*               tactic in its short form                                  *)
(*   "pattern"   what emitWhat prints of the statement input.tree          *)
(***************************************************************************)
EXTENDS Reading

-------------------------------------------------------------------------------
\* The spellings of the tokens of a tree, with the fewest parentheses.
Spelled(kinds) == [p \in DOMAIN kinds |-> Spelling[kinds[p]]]

Joined(parts, sep) ==
  FoldLeft(LAMBDA s, part : IF s = <<>> THEN part ELSE s \o Spelled(sep) \o part, <<>>, parts)
Parens(s) == Spelled(<<"(">>) \o s \o Spelled(<<")">>)

RECURSIVE WriteExp(_, _)
WriteExp(t, p) ==
  LET Kid(m, q) == WriteExp(t.kids[m], q)
      list(ts)  == Parens(Joined([m \in DOMAIN ts |-> WriteExp(ts[m], 0)], <<",">>))
      own       == Spelled(<<t.kind>>)
      Within(s) == IF BinaryPrec[t.kind] > p THEN s ELSE Parens(s)
  IN  CASE t.kind = "ident" -> <<t.name>>
        [] t.kind = "const" -> <<t.value>>
        [] t.kind = "apply" -> <<t.name>> \o list(t.args)
        [] t.kind \in {"min", "max"} \cup ScalarTypes -> own \o list(t.kids)
        [] t.kind = "?"     -> Within(Kid(1, 1) \o own \o Kid(2, 0) \o Spelled(<<":">>) \o Kid(3, 0))
        [] Len(t.kids) = 1  -> own \o Kid(1, UnaryPrec[t.kind])
        [] OTHER            -> Within(Kid(1, BinaryPrec[t.kind] - 1) \o own \o Kid(2, BinaryPrec[t.kind]))

WriteExps(ts) == Parens(Joined([m \in DOMAIN ts |-> WriteExp(ts[m], 0)], <<",">>))
WriteNames(xs) == Parens(Joined([m \in DOMAIN xs |-> <<xs[m]>>], <<",">>))

WriteClause(w) ==
  CASE w.kind = "let"    -> <<w.name>> \o Spelled(<<"=">>) \o WriteExp(w.rhs, 0)
    [] w.kind = "range"  -> <<w.name>> \o Spelled(<<"in">>) \o WriteExp(w.from, 0)
                              \o Spelled(<<":">>) \o WriteExp(w.to, 0)
    [] w.kind = "exists" -> Spelled(<<"exists">>) \o WriteExp(w.cond, 0)

WriteStmt(c) ==
  <<c.name>> \o (IF c.indices = <<>> THEN <<>> ELSE WriteNames(c.indices))
    \o Spelled(<<c.assign>>) \o WriteExp(c.rhs, 0)
    \o (IF c.equivalent = <<>> THEN <<>>
        ELSE Spelled(<<"<=>">>) \o <<c.equivalent[1].name>> \o WriteExps(c.equivalent[1].accesses))
    \o (IF c.where = <<>> THEN <<>>
        ELSE Spelled(<<"where">>) \o Joined([m \in DOMAIN c.where |-> WriteClause(c.where[m])], <<",">>))

WriteStmts(cs) == FoldLeft(LAMBDA s, c : s \o WriteStmt(c), <<>>, cs)

\* def name { what s how s* }, or the short form for a pattern that is its own
\* lowering.
WriteTactic(t) ==
  Spelled(<<"def">>) \o <<t.name>> \o Spelled(<<"{", "what">>) \o WriteStmt(t.statements[1])
    \o Spelled(<<"how">>) \o WriteStmts(Tail(t.statements)) \o Spelled(<<"}">>)
WriteShortTactic(t) ==
  Spelled(<<"def">>) \o <<t.name>> \o Spelled(<<"{", "what = how">>) \o WriteStmt(t.statements[1])
    \o Spelled(<<"}">>)

WriteParam(q) ==
  (IF q.type = "inferred" THEN <<>>
   ELSE Spelled(<<q.type>>) \o (IF q.dims = <<>> THEN <<>> ELSE WriteExps(q.dims))) \o <<q.name>>
WriteParams(qs) == Parens(Joined([m \in DOMAIN qs |-> WriteParam(qs[m])], <<",">>))
WriteDef(d) ==
  Spelled(<<"def">>) \o <<d.name>> \o WriteParams(d.params) \o Spelled(<<"->">>)
    \o WriteParams(d.returns) \o Spelled(<<"{">>) \o WriteStmts(d.statements) \o Spelled(<<"}">>)

-------------------------------------------------------------------------------
\* Every tree is read back from its text: statements are told apart without a
\* separator, where clauses by the token after the current one, and operators
\* group as the grammar says.  Nothing of the text is left, but for the closing
\* brace of a tactic in its short form (parser.h:174-322).
ReadsBack ==
  input.by = "written" =>
    /\ ~thrown
    /\ Finished => /\ made = <<input.tree>>
                   /\ cur.kind = IF input.short THEN "}" ELSE "eof"

\* Of the texts that end too early, none of a function or of a tactic with a "how"
\* part is accepted, wherever it is cut off: their braces enclose all of it.  The short
\* form of a tactic is accepted without its closing brace, which parseTactic never reads
\* (parser.h:309-314); and if more of it is missing, then only where what is left is,
\* but for the brace, all of a short tactic: the one that was read (parser.h:282-322).
CutIsRejected ==
  input.by = "cut" /\ Finished =>
    input.short /\ cur.kind = "eof" /\ WriteShortTactic(made[1]) = input.tree \o Spelled(<<"}">>)

\* A pattern as emitWhat prints it is the statement it was printed from exactly
\* if no sum is an operand of a product and no operator groups to the right:
\* operands are printed without parentheses (emitter.cpp:891-935).
RECURSIVE PrintsFaithfully(_)
PrintsFaithfully(t) ==
  /\ t.kind = "*" => t.kids[1].kind # "+" /\ t.kids[2].kind \notin {"+", "*"}
  /\ t.kind = "+" => t.kids[2].kind # "+"
  /\ \A p \in DOMAIN t.kids : PrintsFaithfully(t.kids[p])
  /\ t.kind = "apply" => \A p \in DOMAIN t.args : PrintsFaithfully(t.args[p])

PatternReadsBack ==
  input.by = "pattern" =>
    /\ ~thrown
    /\ Finished => (made = <<input.tree>> <=> PrintsFaithfully(input.tree.rhs))

\* Every parse comes to an end, with a tree or with an error.
ParseEnds == <>(~Running)
===============================================================================
