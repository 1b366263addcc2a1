-------------------------------- MODULE Trees --------------------------------
(***************************************************************************)
(* The syntax tree (dsl/tree.h, dsl/tree_views.h) as the parser builds it  *)
(* and the emitter reads it: expressions, where clauses, comprehensions    *)
(* and tactics.                                                            *)
(*                                                                         *)
(* applyRecursive (dsl/emitter.cpp:19-26) walks a whole tree to count or   *)
(* collect nodes, and recursivelyEmitRhs to print it.  Each constructor    *)
(* carries the results of those walks as attributes computed from its      *)
(* children, so that no walk is recursive:                                 *)
(*   applies  the number of TK_APPLY nodes                                 *)
(*   idents   the names of the TK_IDENT nodes in preorder; the name of an  *)
(*            access is one of them                                        *)
(*   plain    recursivelyEmitRhs prints the expression without throwing    *)
(*   text     the tokens that it prints                                    *)
(***************************************************************************)
EXTENDS Naturals, Sequences, SequencesExt

\* Printed tokens: a name, and any other one.
Word(x) == <<"ident", x>>
Sign(s) == <<s, s>>

Total(ts)     == FoldLeft(LAMBDA n, t : n + t.applies, 0, ts)
AllIdents(ts) == FoldLeft(LAMBDA s, t : s \o t.idents, <<>>, ts)
AllPlain(ts)  == \A p \in DOMAIN ts : ts[p].plain
Listed(ts)    == FoldLeft(LAMBDA s, t : (IF s = <<>> THEN s ELSE Append(s, Sign(","))) \o t.text,
                          <<>>, ts)

\* TK_IDENT
Ident(x) == [kind |-> "ident", name |-> x, kids |-> <<>>,
             applies |-> 0, idents |-> <<x>>, plain |-> TRUE, text |-> <<Word(x)>>]

\* TK_APPLY: an access t(args)
Apply(t, args) == [kind |-> "apply", name |-> t, args |-> args, kids |-> <<>>,
                   applies |-> 1 + Total(args),
                   idents  |-> <<t>> \o AllIdents(args),
                   plain   |-> AllPlain(args),
                   text    |-> <<Word(t), Sign("(")>> \o Listed(args) \o <<Sign(")")>>]

\* TK_CONST: a number and its type
Const(v, type) == [kind |-> "const", value |-> v, type |-> type, kids |-> <<>>,
                   applies |-> 0, idents |-> <<>>, plain |-> FALSE, text |-> <<>>]

\* The other operators, by their token: "+", "*", "-", "?", ..., and a type for
\* a cast to it.  Operands are printed without parentheses.
Op(token, ts) == [kind |-> token, kids |-> ts,
                  applies |-> Total(ts), idents |-> AllIdents(ts),
                  plain |-> token \in {"+", "*"} /\ AllPlain(ts),
                  text  |-> IF token \in {"+", "*"}
                            THEN ts[1].text \o <<Sign(token)>> \o ts[2].text ELSE <<>>]

\* The where clauses x = e, x in l : r, and exists e.
Let(x, e)                == [kind |-> "let", name |-> x, rhs |-> e]
RangeConstraint(x, l, r) == [kind |-> "range", name |-> x, from |-> l, to |-> r]
Exists(e)                == [kind |-> "exists", cond |-> e]

\* name(indices) assign rhs where ...; assign is "=", "+=" or another token.
\* equivalent is at most one <=> name(accesses).
Comprehension(name, indices, assign, rhs, where) ==
  [name |-> name, indices |-> indices, assign |-> assign, rhs |-> rhs, where |-> where,
   equivalent |-> <<>>]
Equivalent(name, accesses) == [name |-> name, accesses |-> accesses]

\* def name { what ... how ... }
Tac(name, statements) == [name |-> name, statements |-> statements]

\* The names of the arguments, when they are all identifiers.
IdentArgs(t) == \A p \in DOMAIN t.args : t.args[p].kind = "ident"
ArgNames(t)  == [p \in DOMAIN t.args |-> t.args[p].name]

\* What the constructors guarantee, as far down as a recogniser looks: a product
\* has two operands, an access of identifiers is one access, and the names in an access
\* are among those of the tree.
IsSeq(s) == s \in Seq({s[p] : p \in DOMAIN s})
Children(t) == ToSet(t.kids) \cup (IF t.kind = "apply" THEN ToSet(t.args) ELSE {})
IsNode(t) ==
  /\ IsSeq(t.kids) /\ (t.kind = "*" => Len(t.kids) = 2)
  /\ t.kind = "apply" => IsSeq(t.args) /\ (IdentArgs(t) => t.applies = 1)
  /\ t.kind \in {"ident", "apply"} => t.name \in ToSet(t.idents)
  /\ \A u \in Children(t) : ToSet(u.idents) \subseteq ToSet(t.idents)
IsTree(t) ==
  \A u \in {t} \cup Children(t) : \A v \in {u} \cup Children(u) :
    \A w \in {v} \cup Children(v) : IsNode(w)
IsStatement(c) ==
  /\ IsSeq(c.indices) /\ IsSeq(c.where) /\ IsTree(c.rhs)
  /\ \A w \in ToSet(c.where) : w.kind = "let" => IsSeq(w.rhs.idents)

\* What emitWhat prints of a pattern that it does not throw at.
PatternText(c) ==
  <<Word(c.name), Sign("(")>> \o Listed([p \in DOMAIN c.indices |-> Ident(c.indices[p])])
    \o <<Sign(")"), Sign(c.assign)>> \o c.rhs.text

\* t(i, j, ...) with plain identifiers as arguments.
Access(t, is) == Apply(t, [p \in DOMAIN is |-> Ident(is[p])])
=============================================================================
