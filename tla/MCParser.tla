------------------------------- MODULE MCParser -------------------------------
(***************************************************************************)
(* Parser for TLC: the texts that the run reads.                           *)
(***************************************************************************)
EXTENDS Grammar

CONSTANTS MaxTokens,   \* bound: tokens of an arbitrary sequence of tokens
          MaxChars     \* bound: characters of an arbitrary text

\* Tokens are written with a blank between them.
Text(spelled) ==
  LET first[n \in 1..Len(spelled)] ==
        IF n = 1 THEN spelled[1] ELSE first[n - 1] \o <<" ">> \o spelled[n]
  IN  IF spelled = <<>> THEN <<>> ELSE first[Len(spelled)]

Input(by, entry, spelled, tree) ==
  <<Text(spelled), [by |-> by, entry |-> entry, tree |-> tree, short |-> FALSE]>>

A == <<"A">>  B == <<"b", "1">>  I == <<"i">>  F == <<"f", "what">>
One == <<"1">>
-------------------------------------------------------------------------------
\* Any sequence of tokens up to a length, and longer ones in which operators
\* stand between operands, one of them with a sign or in parentheses.
TokenSpellings == {A, One} \cup {Spelling[k] : k \in {"(", ")", ",", "+", "*", "-", "?", ":", "min", "float"}}

Operators == {Spelling[k] : k \in {"+", "-", "*", "<=", "?", ":"}}
Operands(n, p, kind) ==
  [m \in 1..n |-> CASE m # p -> <<A>> [] kind = "sign" -> <<Spelling["-"], A>>
                    [] kind = "parens" -> Spelled(<<"(">>) \o <<A>> \o Spelled(<<")">>)
                    [] OTHER -> <<A>>]
Chain(os, xs) == FoldLeft(LAMBDA s, m : Append(s, os[m]) \o xs[m + 1], xs[1], [m \in DOMAIN os |-> m])

Sequences1 == BoundedSeq(TokenSpellings, MaxTokens)
Chains == {Chain(os, Operands(4, p, kind)) : os \in [1..3 -> Operators], p \in 1..4, kind \in {"plain", "sign"}}
            \cup {Chain(os, Operands(5, 1, "plain")) : os \in [1..4 -> Operators \ {Spelling["<="], Spelling["-"]}]}

\* Numbers around the largest double, 1.79e308, and the smallest one, among operands.
Huge == <<"1", "e", "1", "1", "1", "1">>
Tiny == <<".", "1", "e", "-", "1", "0", "0", "0">>
Large == <<"1", "e", "+", "1", "0", "0">>
TooFar == {Huge, Tiny}
Extremes ==
  {<<n>> : n \in {Huge, Tiny, Large}}
  \cup {<<x, Spelling[k], y>> : x \in {A, Huge, Large}, k \in {"+", "*", "?", ":"}, y \in {A, Tiny, Large}}
  \cup {Spelled(<<"(">>) \o <<n>> \o Spelled(<<")">>) : n \in {Huge, Large}}
  \cup {<<B>> \o Spelled(<<"(">>) \o <<A, Spelling[","], n>> \o Spelled(<<")">>) : n \in {Tiny, Large}}

AnyTokens == {Input("tokens", Exp(0), s, <<>>) : s \in Sequences1 \cup Chains \cup Extremes}

-------------------------------------------------------------------------------
\* Any characters up to a length, and the neighbours of "what = how" and of the
\* longest operators and numbers.
Chars == {"a", "1", ".", "min", "nan", "=", "+", "!", "<", ">", "&", " ", "#", "\n"}
AnyChars ==
  {<<s, [by |-> "chars", entry |-> Exp(0), tree |-> <<>>, short |-> FALSE]>> :
     s \in BoundedSeq(Chars, MaxChars) \cup [1..5 -> {"what", " ", "=", "how"}]
             \cup [1..4 -> {"1", ".", "e", "+"}] \cup [1..3 -> {"1", "E", "-"}]}

-------------------------------------------------------------------------------
\* Expressions of two levels, and the tactics and functions made with a few.
a == Ident(A)
Binary(ks, ls, rs) == {Op(k, <<l, r>>) : k \in ks, l \in ls, r \in rs}
Exps1 == {a} \cup Binary({"+", "-", "*", "<", "||", "min"}, {a}, {a})
           \cup {Op(k, <<a>>) : k \in {"-", "!", "float"}} \cup {Op("?", <<a, a, a>>)}
           \cup {Apply(B, l) : l \in BoundedSeq({a}, 2)}
Exps2 == Binary({"-", "*", "&&"}, Exps1, Exps1)
           \cup {Op(k, <<e>>) : k \in {"-", "!"}, e \in Exps1}
           \cup {Op("?", <<e[1], e[2], e[3]>>) :
                   e \in [1..3 -> {a, Op("?", <<a, a, a>>), Op("||", <<a, a>>), Op("-", <<a>>)}]}
           \cup {Const(v, "float") : v \in {<<"1", ".">>, <<".", "1">>, <<"1", "e", "1">>}}

Clauses == << <<Let(F, Op("*", <<a, Ident(I)>>))>>,
              <<RangeConstraint(I, Const(One, "int32"), Apply(B, <<a>>))>>,
              <<Exists(Op("==", <<a, Ident(I)>>))>>,
              <<Exists(Ident(F)), Let(F, a)>>,
              <<RangeConstraint(I, a, Op("?", <<a, a, a>>)), Exists(a)>>, <<>> >>

Comprehensions ==
  {[Comprehension(A, is, "+=", e, w) EXCEPT !.equivalent = q] :
     is \in {<<>>, <<I, F>>}, e \in {a, Apply(B, <<Ident(I)>>), Op("-", <<a>>)},
     w \in Range(Clauses), q \in {<<>>, <<Equivalent(B, <<a>>)>>}}
  \cup {Comprehension(B, <<I>>, k, Apply(A, <<>>), <<>>) : k \in Assigns}

Plain == Comprehension(B, <<>>, "=", a, <<>>)
Full  == [Comprehension(A, <<I>>, "min=!", Apply(B, <<a>>), Clauses[2]) EXCEPT !.equivalent = <<Equivalent(B, <<>>)>>]

Tactics == {Tac(F, <<c, Plain>>) : c \in Comprehensions}
             \cup {Tac(F, <<Full>>), Tac(F, <<Full, Full, Plain>>)}
             \cup {Tac(F, <<Plain, c, Full>>) : c \in {c \in Comprehensions : Len(c.where) = 2}}
ShortTactics == {Tac(F, <<c>>) : c \in {c \in Comprehensions : c.indices # <<>>}}

Params == {Param(A, "inferred", <<>>), Param(B, "float", <<>>),
           Param(I, "uint8", <<a, Const(One, "int32")>>)}
Functions1 == {Def(F, qs, rs, cs) : qs \in BoundedSeq(Params, 2), rs \in BoundedSeq(Params, 1),
                                    cs \in {<<>>, <<Full, Plain>>}}

Tactic == Call("tactic")
Short(q) == <<q[1], [q[2] EXCEPT !.short = TRUE]>>
Written ==
  {Input("written", Exp(0), WriteExp(e, 0), e) : e \in Exps1 \cup Exps2}
  \cup {Input("written", Tactic, WriteTactic(t), t) : t \in Tactics}
  \cup {Short(Input("written", Tactic, WriteShortTactic(t), t)) : t \in ShortTactics}
  \cup {Input("written", Call("function"), WriteDef(d), d) : d \in Functions1}

\* Cut off anywhere.
Cuts(entry, spelled) ==
  {LET left == SubSeq(spelled, 1, n) IN Input("cut", entry, left, left) : n \in 0..(Len(spelled) - 1)}
Long == {c \in Comprehensions : c.indices # <<>> /\ Len(c.where) = 2}
Cut == UNION ({Cuts(Tactic, WriteTactic(Tac(F, <<Full, c>>))) : c \in Long}
              \cup {{Short(q) : q \in Cuts(Tactic, WriteShortTactic(Tac(F, <<c>>)))} :
                      c \in Long \cup {Full, [Full EXCEPT !.where = <<>>]}}
              \cup {Cuts(Call("function"),
                         WriteDef(Def(F, <<Param(I, "uint8", <<a>>), Param(A, "inferred", <<>>)>>,
                                      <<Param(B, "float", <<>>)>>, <<Full, Plain>>)))})

-------------------------------------------------------------------------------
\* Patterns that emitWhat prints: two levels of sums and products, and an index
\* that is itself a sum or a product.
Sums0 == {a, Access(B, <<I, F>>)}
Sums1 == Sums0 \cup Binary({"+", "*"}, Sums0, Sums0)
Sums2 == Sums1 \cup Binary({"+", "*"}, Sums1, Sums1)
           \cup {Apply(B, <<e, Ident(I)>>) : e \in Binary({"*"}, {a}, Sums1)}
Printed == {Comprehension(A, <<I, F>>, "+=", e, <<>>) : e \in Sums2}

\* A name is spelled as it is, any other token by the table.
Patterns ==
  {LET ts == PatternText(c)
   IN  Input("pattern", Call("stmt"),
             [p \in DOMAIN ts |-> IF ts[p][1] = "ident" THEN ts[p][2] ELSE Spelling[ts[p][1]]], c) :
   c \in Printed}

AllInputs == AnyTokens \cup AnyChars \cup Written \cup Cut \cup Patterns
===============================================================================
