------------------------------- MODULE Reading -------------------------------
(***************************************************************************)
(* How expressions are read, written down without the parser: the grammar  *)
(* of the trees (dsl/tree_views.h:20-101) with the precedences of          *)
(* dsl/lexer.h:141-181.  Each production says which trees a range of       *)
(* tokens stands for, given those of the shorter ranges:                   *)
(*   Among(shorter, i, j, p)   the trees of the tokens i to j - 1 where    *)
(*                             only operators of a precedence above p may  *)
(*                             stand outside of parentheses                *)
(*   Among(shorter, i, j, 8)   the lists of expressions that each are      *)
(*                             followed by a comma                         *)
(***************************************************************************)
EXTENDS Parser

\* The first n tokens of a text; at its end, the end is found again and again.
WithNext(txt, ts) == Append(ts, Match(txt, IF ts = <<>> THEN 1 ELSE End(Last(ts))))
FirstTokens(txt, n) ==
  LET first[m \in 0..n] == IF m = 0 THEN <<>> ELSE WithNext(txt, first[m - 1]) IN first[n]

\* No token is empty but the last, so these are all tokens of the text.
AllTokens(txt) == FirstTokens(txt, Len(txt) + 1)
-------------------------------------------------------------------------------
Among(shorter, i, j, p) == shorter[j - i][<<i, p>>]

\* A number is only one that a double holds.
Number(s) == Const(s, IF Contains(s, ".") \/ Contains(s, "e") THEN "float" ELSE "int32")

Identifiers(txt, ts, i, j) ==
  IF j = i + 1 /\ ts[i].kind = "ident" THEN {Ident(TextOf(txt, ts[i]))} ELSE {}

Numbers(txt, ts, i, j) ==
  IF j = i + 1 /\ ts[i].kind = "number" /\ TextOf(txt, ts[i]) \notin OutOfRange
  THEN {Number(TextOf(txt, ts[i]))} ELSE {}

\* "(" and ")" around the tokens from m on.
Enclosed(ts, m, j) == j > m /\ ts[m - 1].kind = "(" /\ ts[j - 1].kind = ")"

Parenthesised(ts, shorter, i, j) ==
  IF Enclosed(ts, i + 1, j) THEN Among(shorter, i + 1, j - 1, 0) ELSE {}

Casts(ts, shorter, i, j) ==
  IF Enclosed(ts, i + 2, j) /\ ts[i].kind \in ScalarTypes
  THEN {Op(ts[i].kind, <<e>>) : e \in Among(shorter, i + 2, j - 1, 0)} ELSE {}

\* No expression, or expressions with commas between them.
Longer(ls, es) == {Append(l, e) : l \in ls, e \in es}
Lists(shorter, i, j) ==
  IF i = j THEN {<<>>}
  ELSE UNION {Longer(Among(shorter, i, m, 8), Among(shorter, m, j, 0)) : m \in i..(j - 1)}

MinMax(ts, shorter, i, j) ==
  IF Enclosed(ts, i + 2, j) /\ ts[i].kind \in {"min", "max"}
  THEN {Op(ts[i].kind, l) : l \in {es \in Lists(shorter, i + 2, j - 1) : Len(es) = 2}} ELSE {}

Accesses(txt, ts, shorter, i, j) ==
  IF Enclosed(ts, i + 2, j) /\ ts[i].kind = "ident"
  THEN {Apply(TextOf(txt, ts[i]), l) : l \in Lists(shorter, i + 2, j - 1)} ELSE {}

Signed(ts, shorter, i, j) ==
  IF j > i /\ IsUnary(ts[i].kind)
  THEN {Op(ts[i].kind, <<e>>) : e \in Among(shorter, i + 1, j, UnaryPrec[ts[i].kind])} ELSE {}

\* The operators above p between i and j.  Those of one precedence group to the
\* left,
Splits(ts, i, j, p) == {m \in (i + 1)..(j - 1) : IsBinary(ts[m].kind) /\ BinaryPrec[ts[m].kind] > p}
Binaries(ts, shorter, i, j, p) ==
  UNION {{Op(ts[m].kind, <<l, r>>) : l \in Among(shorter, i, m, BinaryPrec[ts[m].kind] - 1),
                                     r \in Among(shorter, m + 1, j, BinaryPrec[ts[m].kind])} :
         m \in {q \in Splits(ts, i, j, p) : ts[q].kind # "?"}}

\* and c ? t : f to the right.
Ternaries(ts, shorter, i, j, p) ==
  UNION {{Op("?", <<c, t, f>>) : c \in Among(shorter, i, m[1], 1),
                                 t \in Among(shorter, m[1] + 1, m[2], 0),
                                 f \in Among(shorter, m[2] + 1, j, 0)} :
         m \in {q \in Splits(ts, i, j, p) \X (i..(j - 1)) :
                  q[1] < q[2] /\ ts[q[1]].kind = "?" /\ ts[q[2]].kind = ":"}}

FollowedByCommas(ts, shorter, i, j) ==
  IF i = j THEN {<<>>}
  ELSE IF ts[j - 1].kind # "," THEN {}
  ELSE UNION {Longer(Among(shorter, i, m, 8), Among(shorter, m, j - 1, 0)) : m \in i..(j - 1)}

Readings(txt, ts, shorter, i, j, p) ==
  IF p = 8 THEN FollowedByCommas(ts, shorter, i, j)
  ELSE Identifiers(txt, ts, i, j) \cup Numbers(txt, ts, i, j) \cup Parenthesised(ts, shorter, i, j)
         \cup Casts(ts, shorter, i, j) \cup MinMax(ts, shorter, i, j)
         \cup Accesses(txt, ts, shorter, i, j) \cup Signed(ts, shorter, i, j)
         \cup Binaries(ts, shorter, i, j, p) \cup Ternaries(ts, shorter, i, j, p)

\* By the number n of the tokens, and then by the first of them and the precedence.
Row(txt, ts, shorter, n) ==
  [q \in (1..Len(ts)) \X (0..8) |-> Readings(txt, ts, shorter, q[1], q[1] + n, q[2])]
ReadTable(txt) ==
  LET ts == AllTokens(txt)
      table[n \in 0..Len(ts)] == Row(txt, ts, [m \in 0..(n - 1) |-> table[m]], n)
  IN  table

\* The expressions that the tokens i to j - 1 of a text are.
Reads(txt, i, j, p) == Among(ReadTable(txt), i, j, p)

\* An expression ends before a token that could not go on with it.
MayEnd(txt, j) ==
  LET ts == AllTokens(txt)
  IN  ~IsBinary(ts[j].kind) /\ ~(ts[j - 1].kind = "ident" /\ ts[j].kind = "(")
-------------------------------------------------------------------------------
Finished == todo = <<>> /\ ~thrown

\* parseExp returns an expression that the grammar reads in the tokens it has
\* consumed, all those before the current one, and which nothing could extend: no
\* token is skipped, operators group by their precedences, and the loops over
\* arguments and operators stop in time (parser.h:46-130).
ExpSound ==
  input.entry = Exp(0) /\ Finished =>
    \E j \in 2..Len(AllTokens(text)) : /\ AllTokens(text)[j] = cur
                                       /\ made[1] \in Reads(text, 1, j, 0)
                                       /\ MayEnd(text, j)

\* parseExp misses none: what a text can be read as, up to a token that could not go
\* on with it, is what it returns, with that token as the current one.  So there is
\* no second way to read it, and an exception is thrown only where no tokens from the
\* start of the text on are an expression that may end there (parser.h:46-130).
ExpComplete ==
  input.entry = Exp(0) /\ ~Running =>
    LET ts == AllTokens(text)
    IN  \A j \in 2..Len(ts) : MayEnd(text, j) /\ ts[j].kind # "bad" =>
          \A e \in Reads(text, 1, j, 0) : Finished /\ made = <<e>> /\ cur = ts[j]
===============================================================================
