---------------------------- MODULE ParserProofs ----------------------------
(***************************************************************************)
(* The lexer delivers the tokens of its text, for every text and every     *)
(* caller.  Nothing is used of Match for that: the argument is the same    *)
(* for any language with one token at each position.  Then Match itself:   *)
(* it skips blanks and comments and takes the longest token, at every      *)
(* position of every text.                                                 *)
(*                                                                         *)
(* The parser is a caller of the lexer, so all that holds of the lexer     *)
(* holds of every parse of every text; and every function of the parser    *)
(* finds the values it takes.                                              *)
(***************************************************************************)
EXTENDS Parser, DataInduction, SequenceTheorems

\* The lexer starts with an empty token before the text and none read ahead.
LEMMA AheadInit == LexInit => AheadExact
<1> SUFFICES ASSUME LexInit PROVE AheadExact
  OBVIOUS
<1>1. cur = [kind |-> "eof", start |-> 1, len |-> 0] /\ pos = 1 /\ look = <<>>
  BY DEF LexInit, Start, Token
<1>2. End(cur) = 1
  BY <1>1 DEF End
<1> QED
  BY <1>1, <1>2 DEF AheadExact

\* What lex does to the position, with the token it reads.
LEMMA LexStep ==
  ASSUME ~thrown, Lex
  PROVE  \/ thrown' /\ pos' = pos /\ thrown' = TRUE
         \/ ~thrown' /\ pos' = End(Match(text, pos)) /\ Match(text, pos).kind # "bad"
BY DEF Lex, Lexed

\* A method of the lexer keeps the invariant.
LEMMA AheadStep ==
  ASSUME AheadExact, [LexNext]_lexVars
  PROVE  AheadExact'
<1>1. CASE UNCHANGED lexVars
  BY <1>1 DEF lexVars, AheadExact
<1>2. CASE LexNext
  <2>1. ~thrown
    BY <1>2 DEF LexNext
  <2>2. CASE NextToken /\ look # <<>>
    <3>1. cur' = look[1] /\ look' = <<>> /\ pos' = pos
      BY <2>2 DEF NextToken
    <3>2. pos = End(look[1])
      BY <2>2 DEF AheadExact
    <3>3. End(cur') = pos'
      BY <3>1, <3>2
    <3> QED
      BY <3>1, <3>3 DEF AheadExact, End
  <2>3. CASE NextToken /\ look = <<>>
    <3>1. /\ Lex /\ cur' = (IF thrown' THEN cur ELSE Match(text, pos))
          /\ look' = <<>> /\ text' = text
      BY <2>3 DEF NextToken, Lexed
    <3>2. pos = End(cur)
      BY <2>3 DEF AheadExact
    <3>3. pos' = End(cur')
      BY <2>1, <3>1, <3>2, LexStep
    <3> QED
      BY <3>1, <3>3 DEF AheadExact, End
  <2>4. CASE Lookahead
    <3>1. CASE look # <<>>
      BY <2>4, <3>1 DEF Lookahead, lexVars, AheadExact
    <3>2. CASE look = <<>>
      <4>1. /\ Lex /\ look' = (IF thrown' THEN look ELSE <<Match(text, pos)>>)
            /\ text' = text /\ cur' = cur
        BY <2>4, <3>2 DEF Lookahead, Lexed
      <4>2. pos = End(cur) /\ End(cur') = End(cur)
        BY <3>2, <4>1 DEF AheadExact
      <4>3. CASE thrown'
        <5>1. look' = <<>> /\ pos' = pos
          BY <2>1, <3>2, <4>1, <4>3, LexStep
        <5> QED
          BY <4>2, <5>1 DEF AheadExact, End
      <4>4. CASE ~thrown'
        <5>1. /\ look' = <<Match(text, End(cur))>> /\ pos' = End(Match(text, End(cur)))
              /\ Match(text, End(cur)).kind # "bad"
          BY <2>1, <4>1, <4>2, <4>4, LexStep
        <5>2. Match(text', End(cur')) = Match(text, End(cur))
          BY <4>1
        <5>3. /\ look'[1] = Match(text, End(cur)) /\ look' # <<>>
          BY <5>1
        <5>4. End(look'[1]) = pos'
          BY <5>1, <5>3
        <5> QED
          BY <5>1, <5>2, <5>3, <5>4 DEF AheadExact, End
      <4> QED
        BY <4>3, <4>4
    <3> QED
      BY <3>1, <3>2
  <2>5. CASE ReportError
    BY <2>5 DEF ReportError, AheadExact
  <2> QED
    BY <1>2, <2>2, <2>3, <2>4, <2>5 DEF LexNext
<1> QED
  BY <1>1, <1>2

\* The token read ahead is the one after the current token in every run of
\* every caller (Lexer::lookahead and Lexer::next, lexer.h:370-391).
THEOREM LexerAheadExact == LexSpec => []AheadExact
<1>1. LexInit => AheadExact
  BY AheadInit
<1>2. AheadExact /\ [LexNext]_lexVars => AheadExact'
  BY AheadStep
<1> QED
  BY <1>1, <1>2, PTL DEF LexSpec

\* A step of the lexer delivers the next token, breaks off, or is invisible.
LEMMA StreamStep ==
  ASSUME AheadExact, [LexNext]_lexVars
  PROVE  [StreamOfTokens!StreamNext]_(StreamOfTokens!streamVars)
<1> USE DEF StreamOfTokens!StreamNext, StreamOfTokens!streamVars
<1>1. CASE UNCHANGED lexVars
  BY <1>1 DEF lexVars
<1>2. CASE LexNext
  <2>1. ~thrown
    BY <1>2 DEF LexNext
  <2>2. CASE NextToken /\ look # <<>>
    <3>1. cur' = Match(text, End(cur)) /\ cur'.kind # "bad" /\ UNCHANGED <<text, thrown>>
      BY <2>2 DEF NextToken, AheadExact
    <3> QED
      BY <2>1, <3>1 DEF StreamOfTokens!Deliver
  <2>3. CASE NextToken /\ look = <<>>
    <3>1. /\ Lex /\ cur' = (IF thrown' THEN cur ELSE Match(text, pos)) /\ text' = text
          /\ pos = End(cur)
      BY <2>3 DEF NextToken, Lexed, AheadExact
    <3>2. CASE thrown'
      BY <2>1, <3>1, <3>2, LexStep DEF StreamOfTokens!Break
    <3>3. CASE ~thrown'
      <4>1. cur' = Match(text, End(cur)) /\ cur'.kind # "bad"
        BY <2>1, <3>1, <3>3, LexStep
      <4>2. thrown' = thrown
        BY <2>1, <3>1, <3>3 DEF Lex
      <4> QED
        BY <2>1, <3>1, <4>1, <4>2 DEF StreamOfTokens!Deliver
    <3> QED
      BY <3>2, <3>3
  <2>4. CASE Lookahead
    <3>1. UNCHANGED <<text, cur>>
      BY <2>4 DEF Lookahead, lexVars
    <3>2. thrown' = thrown \/ thrown' = TRUE
      BY <2>4 DEF Lookahead, Lex, lexVars
    <3> QED
      BY <2>1, <3>1, <3>2 DEF StreamOfTokens!Break
  <2>5. CASE ReportError
    BY <2>1, <2>5 DEF ReportError, StreamOfTokens!Break
  <2> QED
    BY <1>2, <2>2, <2>3, <2>4, <2>5 DEF LexNext
<1> QED
  BY <1>1, <1>2

\* The lexer is the stream of its text's tokens, for every caller.
THEOREM LexerImplementsStream == LexSpec => ImplementsStream
<1>1. LexInit => StreamOfTokens!StreamInit
  BY DEF LexInit, StreamOfTokens!StreamInit
<1>2. AheadExact /\ [LexNext]_lexVars => [StreamOfTokens!StreamNext]_(StreamOfTokens!streamVars)
  BY StreamStep
<1> QED
  BY <1>1, <1>2, LexerAheadExact, PTL DEF LexSpec, ImplementsStream, StreamOfTokens!Stream
-------------------------------------------------------------------------------
\* The end of a comment is where its definition says.
LEMMA EndOfLineIs ==
  ASSUME NEW txt, Len(txt) \in Nat, NEW q \in 1..(Len(txt) + 1)
  PROVE  /\ EndOfLine(txt, q) \in q..(Len(txt) + 1)
         /\ EndOfLine(txt, q) = Len(txt) + 1 \/ txt[EndOfLine(txt, q)] = "\n"
         /\ \A r \in q..(EndOfLine(txt, q) - 1) : txt[r] # "\n"
<1> DEFINE T == {e \in q..(Len(txt) + 1) : e = Len(txt) + 1 \/ txt[e] = "\n"}
           IsEnd(e) == /\ e = Len(txt) + 1 \/ txt[e] = "\n"
                       /\ \A r \in q..(e - 1) : txt[r] # "\n"
<1>1. Len(txt) + 1 \in T
  OBVIOUS
<1>2. T \in SUBSET Nat
  OBVIOUS
<1>3. PICK e \in T : \A n \in T : e <= n
  BY <1>1, <1>2, Least
<1>4. \A r \in q..(e - 1) : r \in q..(Len(txt) + 1) /\ ~(e <= r)
  BY <1>2
<1>5. IsEnd(e) /\ e \in q..(Len(txt) + 1)
  BY <1>3, <1>4
<1> HIDE DEF IsEnd, T
<1>6. EndOfLine(txt, q) = CHOOSE d \in q..(Len(txt) + 1) : IsEnd(d)
  BY DEF EndOfLine, IsEnd
<1>7. IsEnd(EndOfLine(txt, q)) /\ EndOfLine(txt, q) \in q..(Len(txt) + 1)
  BY <1>5, <1>6
<1> QED
  BY <1>7 DEF IsEnd

\* What SkipFrom makes of one position, with what it finds at later ones.
SkipAt(txt, f, q) ==
  IF q <= Len(txt) /\ txt[q] \in Blanks THEN f[q + 1]
  ELSE IF q <= Len(txt) /\ txt[q] = "#" THEN f[EndOfLine(txt, q)] ELSE q

LEMMA SkipSteps ==
  ASSUME NEW txt, Len(txt) \in Nat
  PROVE  \E f : /\ \A q \in 1..(Len(txt) + 1) : f[q] = SkipAt(txt, f, q)
                /\ \A p : SkipFrom(txt, p) = f[p]
<1> DEFINE n == Len(txt)
           Steps(f) == f = [q \in 1..(n + 1) |-> SkipAt(txt, f, q)]
           From(f, k) == \A q \in (n + 1 - k)..(n + 1) : f[q] = SkipAt(txt, f, q)
           T == {k \in Nat : k <= n => \E f : From(f, k)}
<1>1. 0 \in T
  <2>1. From([q \in 1..(n + 1) |-> q], 0)
    BY DEF SkipAt
  <2> QED
    BY <2>1
<1>2. ASSUME NEW k \in Nat, k \in T PROVE k + 1 \in T
  <2> SUFFICES ASSUME k + 1 <= n PROVE \E f : From(f, k + 1)
    OBVIOUS
  <2>1. PICK f : From(f, k)
    BY <1>2
  <2> DEFINE m == n - k
             g == [q \in 1..(n + 1) |-> IF q = m THEN SkipAt(txt, f, m) ELSE f[q]]
  <2>2. From(g, k + 1)
    <3> SUFFICES ASSUME NEW q \in m..(n + 1) PROVE g[q] = SkipAt(txt, g, q)
      OBVIOUS
    <3>0. \A r \in (q + 1)..(n + 1) : g[r] = f[r]
      OBVIOUS
    <3>1. SkipAt(txt, g, q) = SkipAt(txt, f, q)
      <4>1. CASE q <= n /\ txt[q] \in Blanks
        BY <3>0, <4>1 DEF SkipAt
      <4>2. CASE q <= n /\ txt[q] = "#" /\ txt[q] \notin Blanks
        <5>1. EndOfLine(txt, q) \in q..(n + 1) /\ EndOfLine(txt, q) # q
          BY <4>2, EndOfLineIs
        <5> QED
          BY <3>0, <4>2, <5>1 DEF SkipAt
      <4>3. CASE ~(q <= n /\ (txt[q] \in Blanks \/ txt[q] = "#"))
        BY <4>3 DEF SkipAt
      <4> QED
        BY <4>1, <4>2, <4>3
    <3>2. CASE q = m
      BY <3>1, <3>2
    <3>3. CASE q > m
      <4>1. g[q] = f[q] /\ q \in (n + 1 - k)..(n + 1)
        BY <3>3
      <4> QED
        BY <2>1, <3>1, <4>1
    <3> QED
      BY <3>2, <3>3
  <2> HIDE DEF g, From
  <2> QED
    BY <2>2
<1>3. n \in T
  <2> HIDE DEF T
  <2> QED
    BY <1>1, <1>2, Induction
<1>4. PICK f : From(f, n)
  <2> HIDE DEF From
  <2> QED
    BY <1>3
<1>5. Steps([q \in 1..(n + 1) |-> f[q]])
  <2> DEFINE g == [q \in 1..(n + 1) |-> f[q]]
  <2> SUFFICES ASSUME NEW q \in 1..(n + 1) PROVE g[q] = SkipAt(txt, g, q)
    OBVIOUS
  <2>1. g[q] = SkipAt(txt, f, q)
    BY <1>4
  <2>2. q <= n => q + 1 \in 1..(n + 1)
    OBVIOUS
  <2>3. EndOfLine(txt, q) \in 1..(n + 1)
    BY EndOfLineIs
  <2> QED
    BY <2>1, <2>2, <2>3 DEF SkipAt
<1> DEFINE h == CHOOSE h : Steps(h)
<1>6. Steps(h)
  BY <1>5
<1>7. \A p : SkipFrom(txt, p) = h[p]
  BY DEF SkipFrom, SkipAt
<1> HIDE DEF h
<1> QED
  BY <1>6, <1>7

\* SkipFrom stops at the first position that is neither blank nor in a comment.
LEMMA SkipRight ==
  ASSUME NEW txt, Len(txt) \in Nat, NEW p \in 1..(Len(txt) + 1)
  PROVE  /\ SkipFrom(txt, p) \in p..(Len(txt) + 1)
         /\ Skippable(txt, p, SkipFrom(txt, p) - 1)
         /\ SkipFrom(txt, p) <= Len(txt) => txt[SkipFrom(txt, p)] \notin Blanks \cup {"#"}
<1> DEFINE n == Len(txt)
<1>1. PICK f : /\ \A q \in 1..(n + 1) : f[q] = SkipAt(txt, f, q)
               /\ \A q : SkipFrom(txt, q) = f[q]
  BY SkipSteps
<1> DEFINE Right(q) == /\ f[q] \in q..(n + 1)
                       /\ Skippable(txt, q, f[q] - 1)
                       /\ f[q] <= n => txt[f[q]] \notin Blanks \cup {"#"}
           T == {k \in Nat : \A q \in 1..(n + 1) : n + 1 - k <= q => Right(q)}
<1>2. 0 \in T
  <2>1. f[n + 1] = n + 1
    BY <1>1 DEF SkipAt
  <2> QED
    BY <2>1 DEF Skippable
<1>3. ASSUME NEW k \in Nat, k \in T PROVE k + 1 \in T
  <2> SUFFICES ASSUME NEW q \in 1..(n + 1), n + 1 - (k + 1) <= q PROVE Right(q)
    OBVIOUS
  <2>1. \A r \in 1..(n + 1) : r > q => Right(r)
    BY <1>3
  <2>2. f[q] = SkipAt(txt, f, q)
    BY <1>1
  <2> HIDE DEF T
  <2>3. CASE q <= n /\ txt[q] \in Blanks
    <3>1. f[q] = f[q + 1] /\ Right(q + 1) /\ q + 1 \in 1..(n + 1)
      BY <2>1, <2>2, <2>3 DEF SkipAt
    <3>2. Skippable(txt, q, f[q] - 1)
      <4> SUFFICES ASSUME NEW x \in q..(f[q] - 1)
                   PROVE  \/ txt[x] \in Blanks
                          \/ \E y \in q..x : txt[y] = "#" /\ \A r \in y..x : txt[r] # "\n"
        BY DEF Skippable
      <4>1. CASE x = q
        BY <2>3, <4>1
      <4>2. CASE x # q
        <5>1. x \in (q + 1)..(f[q + 1] - 1) /\ \A y \in (q + 1)..x : y \in q..x
          BY <3>1, <4>2
        <5> QED
          BY <3>1, <5>1 DEF Skippable
      <4> QED
        BY <4>1, <4>2
    <3> QED
      BY <3>1, <3>2
  <2>4. CASE q <= n /\ txt[q] \notin Blanks /\ txt[q] = "#"
    <3> DEFINE e == EndOfLine(txt, q)
    <3>1. /\ e \in q..(n + 1) /\ (e = n + 1 \/ txt[e] = "\n") /\ \A r \in q..(e - 1) : txt[r] # "\n"
      BY EndOfLineIs
    <3>2. e > q /\ e \in 1..(n + 1)
      BY <2>4, <3>1
    <3>3. f[q] = f[e] /\ Right(e)
      BY <2>1, <2>2, <2>4, <3>2 DEF SkipAt
    <3> HIDE DEF e
    <3>4. Skippable(txt, q, f[q] - 1)
      <4> SUFFICES ASSUME NEW x \in q..(f[q] - 1)
                   PROVE  \/ txt[x] \in Blanks
                          \/ \E y \in q..x : txt[y] = "#" /\ \A r \in y..x : txt[r] # "\n"
        BY DEF Skippable
      <4>1. CASE x < e
        <5>1. q \in q..x /\ \A r \in q..x : r \in q..(e - 1)
          BY <3>1, <4>1
        <5> QED
          BY <2>4, <3>1, <5>1
      <4>2. CASE x >= e
        <5>1. x \in e..(f[e] - 1) /\ \A y \in e..x : y \in q..x
          BY <3>2, <3>3, <4>2
        <5> QED
          BY <3>3, <5>1 DEF Skippable
      <4> QED
        BY <3>1, <4>1, <4>2
    <3> QED
      BY <3>2, <3>3, <3>4
  <2>5. CASE ~(q <= n /\ (txt[q] \in Blanks \/ txt[q] = "#"))
    <3>1. f[q] = q
      BY <2>2, <2>5 DEF SkipAt
    <3>2. Skippable(txt, q, q - 1)
      BY DEF Skippable
    <3> QED
      BY <2>5, <3>1, <3>2
  <2> QED
    BY <2>3, <2>4, <2>5
<1>4. n \in T
  <2> HIDE DEF T
  <2> QED
    BY <1>2, <1>3, Induction
<1>5. Right(p)
  BY <1>4
<1> QED
  BY <1>1, <1>5

-------------------------------------------------------------------------------
\* What the table says is the kind of a token, and of no end or error.

LEMMA TableKinds == \A s \in DOMAIN Table : Table[s] \notin {"bad", "eof", "number"}
<1> DEFINE S == {"bad", "eof", "number"}
<1>1. \A k \in Kinds : k \notin S
  BY DEF Kinds, Words, Singles, ScalarTypes
<1> HIDE DEF S
<1>2. \A s \in DOMAIN Table : Table[s] \in Kinds
  <2>1. DOMAIN Spelling = Kinds
    BY Zenon DEF Spelling
  <2>2. \A s \in Range(Spelling) : \E k \in Kinds : Spelling[k] = s
    BY <2>1 DEF Range
  <2>3. \A s \in Range(Spelling) : (CHOOSE k \in Kinds : Spelling[k] = s) \in Kinds
    BY <2>2
  <2> QED
    BY <2>3, Zenon DEF Table
<1> QED
  BY <1>1, <1>2 DEF S

-------------------------------------------------------------------------------
\* No digit and no decimal point is the first character of a name or of a spelling.

LEMMA SpellingStarts == \A k \in Kinds : Spelling[k][1] \notin Decimals
<1> SUFFICES ASSUME NEW k \in Kinds PROVE Spelling[k][1] \notin Decimals
  OBVIOUS
<1> DEFINE Longer == {"what = how", "->", "<=>", "+=", "+=!", "*=", "*=!", "min=", "min=!", "max=",
                      "max=!", ">=", "<=", "==", "!=", "&&", "||"}
<1>1. CASE k = "what = how"
  BY <1>1 DEF Spelling, Decimals
<1>2. CASE k = "->"
  BY <1>2 DEF Spelling, Decimals
<1>3. CASE k = "<=>"
  BY <1>3 DEF Spelling, Decimals
<1>4. CASE k = "+="
  BY <1>4 DEF Spelling, Decimals
<1>5. CASE k = "+=!"
  BY <1>5 DEF Spelling, Decimals
<1>6. CASE k = "*="
  BY <1>6 DEF Spelling, Decimals
<1>7. CASE k = "*=!"
  BY <1>7 DEF Spelling, Decimals
<1>8. CASE k = "min="
  BY <1>8 DEF Spelling, Decimals
<1>9. CASE k = "min=!"
  BY <1>9 DEF Spelling, Decimals
<1>10. CASE k = "max="
  BY <1>10 DEF Spelling, Decimals
<1>11. CASE k = "max=!"
  BY <1>11 DEF Spelling, Decimals
<1>12. CASE k = ">="
  BY <1>12 DEF Spelling, Decimals
<1>13. CASE k = "<="
  BY <1>13 DEF Spelling, Decimals
<1>14. CASE k = "=="
  BY <1>14 DEF Spelling, Decimals
<1>15. CASE k = "!="
  BY <1>15 DEF Spelling, Decimals
<1>16. CASE k = "&&"
  BY <1>16 DEF Spelling, Decimals
<1>17. CASE k = "||"
  BY <1>17 DEF Spelling, Decimals
<1>18. CASE k \notin Longer
  <2>1. Spelling[k] = <<k>>
    BY <1>18 DEF Spelling
  <2>2. k \notin Decimals
    BY DEF Kinds, Words, Singles, ScalarTypes, Decimals
  <2> QED
    BY <2>1, <2>2
<1> QED
  BY <1>1, <1>2, <1>3, <1>4, <1>5, <1>6, <1>7, <1>8, <1>9, <1>10, <1>11, <1>12, <1>13, <1>14, <1>15, <1>16, <1>17, <1>18

LEMMA DecimalStarts ==
  ASSUME NEW s, s[1] \in Decimals
  PROVE  ~IsEither(s)
<1>1. ~IsToken(s)
  <2>1. SUFFICES ASSUME NEW k \in Kinds, Spelling[k] = s PROVE FALSE
    <3>1. DOMAIN Spelling = Kinds
      BY Zenon DEF Spelling
    <3>2. DOMAIN Table = Range(Spelling)
      BY DEF Table
    <3> QED
      BY <3>1, <3>2 DEF IsToken, Range
  <2> QED
    BY <2>1, SpellingStarts
<1>2. s[1] \notin Letters
  <2>1. s[1] \notin Words \cup {"nan"}
    BY DEF Words, ScalarTypes, Decimals
  <2> QED
    BY <2>1, CharactersAssumption DEF Letters
<1> QED
  BY <1>1, <1>2 DEF IsEither, IsName

\* A number that is no word starts with a digit or the point.
LEMMA NumeralStarts ==
  ASSUME NEW s \in Seq(STRING), Numeral(s), s[1] # "nan"
  PROVE  s[1] \in Decimals
<1>1. s # <<"nan">>
  OBVIOUS
<1>2. PICK m \in 1..Len(s) : Mantissa(SubSeq(s, 1, m))
  BY <1>1 DEF Numeral
<1>3. /\ Len(s) \in Nat /\ 1 \in 1..m /\ DOMAIN SubSeq(s, 1, m) = 1..m
      /\ SubSeq(s, 1, m)[1] = s[1]
  BY SubSeqProperties
<1>4. s[1] \in Digits \cup {"."}
  BY <1>2, <1>3 DEF Mantissa, Range
<1> QED
  BY <1>4, CharactersAssumption DEF Decimals

-------------------------------------------------------------------------------
\* The loop of match.

\* What Scan makes of the marks, with what it makes of later ones.
ScanAt(s, f, m) ==
  IF m.i < Len(s) /\ (m.ident \/ m.node \in Trie) THEN f[ScanStep(m, s[m.i + 1])] ELSE m

LEMMA ScanStepMarks ==
  ASSUME NEW m \in Marks, NEW ch \in STRING
  PROVE  ScanStep(m, ch) \in Marks /\ ScanStep(m, ch).i = m.i + 1
<1>1. Append(m.node, ch) \in Seq(STRING)
  BY DEF Marks
<1>2. \A n \in DOMAIN Table : Table[n] \in Range(Table)
  BY DEF Range
<1> QED
  BY <1>1, <1>2 DEF ScanStep, Marks

LEMMA ScanSteps ==
  ASSUME NEW s \in Seq(STRING)
  PROVE  \E f : /\ \A m \in Marks : f[m] = ScanAt(s, f, m)
                /\ Scan(s) = f[Unmatched]
<1> DEFINE n == Len(s)
           Steps(f) == f = [m \in Marks |-> ScanAt(s, f, m)]
           From(f, k) == \A m \in Marks : n - k <= m.i => f[m] = ScanAt(s, f, m)
           T == {k \in Nat : \E f : From(f, k)}
<1>0. /\ n \in Nat /\ \A i \in 1..n : s[i] \in STRING
      /\ \A m \in Marks : m.i \in Nat
  BY DEF Marks
<1>1. 0 \in T
  <2>1. From([m \in Marks |-> m], 0)
    BY <1>0 DEF ScanAt
  <2> QED
    BY <2>1
<1>2. ASSUME NEW k \in Nat, k \in T PROVE k + 1 \in T
  <2>1. PICK f : From(f, k)
    BY <1>2
  <2> DEFINE g == [m \in Marks |-> IF n - k <= m.i THEN f[m] ELSE ScanAt(s, f, m)]
  <2>2. From(g, k + 1)
    <3> SUFFICES ASSUME NEW m \in Marks, n - (k + 1) <= m.i PROVE g[m] = ScanAt(s, g, m)
      OBVIOUS
    <3>1. m.i \in Nat /\ n \in Nat
      BY <1>0
    <3>2. ScanAt(s, g, m) = ScanAt(s, f, m)
      <4>1. CASE m.i < n /\ (m.ident \/ m.node \in Trie)
        <5> DEFINE next == ScanStep(m, s[m.i + 1])
        <5>1. s[m.i + 1] \in STRING
          BY <1>0, <3>1, <4>1
        <5>2. next \in Marks /\ next.i = m.i + 1
          BY <5>1, ScanStepMarks
        <5> HIDE DEF next
        <5>3. g[next] = f[next]
          BY <3>1, <5>2
        <5> QED
          BY <4>1, <5>3 DEF ScanAt, next
      <4>2. CASE ~(m.i < n /\ (m.ident \/ m.node \in Trie))
        BY <4>2 DEF ScanAt
      <4> QED
        BY <4>1, <4>2
    <3>3. CASE n - k <= m.i
      BY <2>1, <3>2, <3>3
    <3>4. CASE ~(n - k <= m.i)
      BY <3>2, <3>4
    <3> QED
      BY <3>3, <3>4
  <2> HIDE DEF g, From
  <2> QED
    BY <2>2
<1>3. n \in T
  <2> HIDE DEF T
  <2> QED
    BY <1>0, <1>1, <1>2, Induction
<1>4. PICK f : From(f, n)
  <2> HIDE DEF From
  <2> QED
    BY <1>3
<1>5. \A m \in Marks : f[m] = ScanAt(s, f, m)
  BY <1>0, <1>4
<1>6. Steps([m \in Marks |-> f[m]])
  <2> DEFINE g == [m \in Marks |-> f[m]]
  <2> SUFFICES ASSUME NEW m \in Marks PROVE g[m] = ScanAt(s, g, m)
    OBVIOUS
  <2>1. g[m] = ScanAt(s, f, m)
    BY <1>5
  <2>2. m.i < n => ScanStep(m, s[m.i + 1]) \in Marks
    <3> SUFFICES ASSUME m.i < n PROVE ScanStep(m, s[m.i + 1]) \in Marks
      OBVIOUS
    <3>1. s[m.i + 1] \in STRING
      BY <1>0
    <3> QED
      BY <3>1, ScanStepMarks
  <2> QED
    BY <2>1, <2>2 DEF ScanAt
<1> DEFINE h == CHOOSE h : Steps(h)
<1>7. Steps(h)
  BY <1>6
<1>8. Scan(s) = h[Unmatched]
  BY DEF Scan, ScanAt
<1> HIDE DEF h
<1> QED
  BY <1>7, <1>8

\* The first n characters.
First(s, n) == SubSeq(s, 1, n)

LEMMA FirstIs ==
  ASSUME NEW s \in Seq(STRING), NEW n \in 0..Len(s)
  PROVE  /\ First(s, n) \in Seq(STRING) /\ Len(First(s, n)) = n /\ DOMAIN First(s, n) = 1..n
         /\ \A j \in 1..n : First(s, n)[j] = s[j]
BY SubSeqProperties DEF First

\* A prefix is a name if all its characters may stand where they do.
LEMMA FirstName ==
  ASSUME NEW s \in Seq(STRING), NEW n \in 1..Len(s)
  PROVE  IsName(First(s, n)) <=> \A j \in 1..n : ValidIdent(j - 1, s[j])
<1>1. /\ DOMAIN First(s, n) = 1..n /\ First(s, n) # <<>>
      /\ \A j \in 1..n : First(s, n)[j] = s[j]
  BY FirstIs
<1>2. 1 \in 1..n
  OBVIOUS
<1>3. ToSet(First(s, n)) = {s[j] : j \in 1..n}
  BY <1>1 DEF ToSet
<1>4. IsName(First(s, n)) <=> (s[1] \in Letters /\ \A j \in 1..n : s[j] \in Letters \cup Digits)
  BY <1>1, <1>2, <1>3 DEF IsName
<1>5. \A j \in 1..n : ValidIdent(j - 1, s[j]) <=> (s[j] \in Letters \/ (j # 1 /\ s[j] \in Digits))
  BY DEF ValidIdent
<1> QED
  BY <1>2, <1>4, <1>5

\* The trie is left for good: no spelling goes on from there.
LEMMA OffTrie ==
  ASSUME NEW s \in Seq(STRING), NEW n \in 0..Len(s), NEW i \in 0..n, First(s, i) \notin Trie
  PROVE  ~IsToken(First(s, n))
<1> SUFFICES ASSUME First(s, n) \in DOMAIN Table PROVE First(s, i) \in Trie
  BY DEF IsToken
<1>1. Len(First(s, n)) = n /\ First(s, n) \in Seq(STRING) /\ \A j \in 1..n : First(s, n)[j] = s[j]
  BY FirstIs
<1>2. /\ First(First(s, n), i) \in Seq(STRING) /\ Len(First(First(s, n), i)) = i
      /\ \A j \in 1..i : First(First(s, n), i)[j] = First(s, n)[j]
  BY <1>1, FirstIs
<1>3. First(s, i) \in Seq(STRING) /\ Len(First(s, i)) = i /\ \A j \in 1..i : First(s, i)[j] = s[j]
  BY FirstIs
<1>4. First(First(s, n), i) = First(s, i)
  BY <1>1, <1>2, <1>3, SeqEqual
<1>5. First(s, i) \in Prefixes(First(s, n))
  BY <1>1, <1>4 DEF Prefixes, First
<1> QED
  BY <1>5 DEF Trie

\* The kind of the longest match so far.
KindRight(s, m) ==
  /\ m.kind = "bad" <=> m.len = 0
  /\ m.len > 0 => IF IsToken(First(s, m.len)) THEN m.kind = Table[First(s, m.len)]
                  ELSE IsName(First(s, m.len)) /\ m.kind = "ident"

\* What the loop keeps true of its marks, and what it ends with.
ScanInv(s, m) ==
  /\ m \in Marks /\ m.i <= Len(s) /\ m.len <= m.i
  /\ m.node = First(s, m.i)
  /\ m.ident <=> \A j \in 1..m.i : ValidIdent(j - 1, s[j])
  /\ \A n \in 1..m.i : IsEither(First(s, n)) => n <= m.len
  /\ KindRight(s, m)

Scanned(s, m) ==
  /\ m.len \in 0..Len(s)
  /\ \A n \in 1..Len(s) : IsEither(First(s, n)) => n <= m.len
  /\ KindRight(s, m)

LEMMA ScanInvStep ==
  ASSUME NEW s \in Seq(STRING), NEW m, ScanInv(s, m), m.i < Len(s)
  PROVE  ScanInv(s, ScanStep(m, s[m.i + 1]))
<1> DEFINE i == m.i + 1
           ch == s[i]
           w == ScanStep(m, ch)
<1>1. /\ m.i \in Nat /\ m.len \in Nat /\ i \in Nat /\ i \in 1..Len(s) /\ i <= Len(s) /\ i - 1 = m.i
      /\ m \in Marks /\ m.ident \in BOOLEAN
  BY DEF ScanInv, Marks
<1>2. ch \in STRING
  BY <1>1
<1>3. w \in Marks /\ w.i = i
  BY <1>1, <1>2, ScanStepMarks
<1>4. Append(m.node, ch) = First(s, i)
  <2>1. m.node = First(s, m.i)
    BY DEF ScanInv
  <2>2. /\ First(s, m.i) \in Seq(STRING) /\ Len(First(s, m.i)) = m.i
        /\ \A j \in 1..m.i : First(s, m.i)[j] = s[j]
    <3>1. m.i \in 0..Len(s)
      BY <1>1
    <3> QED
      BY <3>1, FirstIs
  <2>3. First(s, i) \in Seq(STRING) /\ Len(First(s, i)) = i /\ \A j \in 1..i : First(s, i)[j] = s[j]
    BY <1>1, FirstIs
  <2>4. /\ Append(m.node, ch) \in Seq(STRING) /\ Len(Append(m.node, ch)) = i
        /\ \A j \in 1..i : Append(m.node, ch)[j] = s[j]
    BY <1>1, <1>2, <2>1, <2>2, AppendProperties
  <2> QED
    BY <2>3, <2>4, SeqEqual
<1> DEFINE ident == m.ident /\ ValidIdent(m.i, ch)
           token == IsToken(First(s, i))
<1>5. /\ w.ident = ident /\ w.node = First(s, i)
      /\ w.len = (IF ident \/ token THEN i ELSE m.len)
      /\ w.kind = (IF token THEN Table[First(s, i)] ELSE IF ident THEN "ident" ELSE m.kind)
  BY <1>4 DEF ScanStep, IsToken
<1>6. ident <=> \A j \in 1..i : ValidIdent(j - 1, s[j])
  <2>1. \A j \in 1..i : j \in 1..m.i \/ j = i
    BY <1>1
  <2>2. 1..m.i \subseteq 1..i /\ i \in 1..i
    BY <1>1
  <2> QED
    BY <1>1, <2>1, <2>2 DEF ScanInv
<1>7. ident <=> IsName(First(s, i))
  BY <1>1, <1>6, FirstName
<1> HIDE DEF w, ident, token, ch
<1>8. \A n \in 1..i : IsEither(First(s, n)) => n <= w.len
  <2> SUFFICES ASSUME NEW n \in 1..i, IsEither(First(s, n)) PROVE n <= w.len
    OBVIOUS
  <2>1. CASE n = i
    BY <1>1, <1>5, <1>7, <2>1 DEF IsEither, token
  <2>2. CASE n # i
    <3>1. n \in 1..m.i
      BY <1>1, <2>2
    <3>2. n <= m.len /\ m.len <= m.i
      BY <3>1 DEF ScanInv
    <3> QED
      BY <1>1, <1>5, <3>1, <3>2
  <2> QED
    BY <2>1, <2>2
<1>9. KindRight(s, w)
  <2>1. CASE ident \/ token
    <3>1. w.len = i /\ i > 0
      BY <1>1, <1>5, <2>1
    <3>2. token => w.kind = Table[First(s, i)] /\ w.kind # "bad"
      BY <1>5, TableKinds DEF token, IsToken
    <3>3. ~token => w.kind = "ident" /\ IsName(First(s, i))
      BY <1>5, <1>7, <2>1
    <3> QED
      BY <3>1, <3>2, <3>3 DEF KindRight, token
  <2>2. CASE ~(ident \/ token)
    <3>1. w.len = m.len /\ w.kind = m.kind
      BY <1>5, <2>2
    <3> QED
      BY <3>1 DEF ScanInv, KindRight
  <2> QED
    BY <2>1, <2>2
<1>10. w.len <= w.i
  <2>1. m.len <= m.i
    BY DEF ScanInv
  <2> QED
    BY <1>1, <1>3, <1>5, <2>1
<1> QED
  BY <1>1, <1>3, <1>5, <1>6, <1>8, <1>9, <1>10 DEF ScanInv, w, ch

LEMMA ScanRight ==
  ASSUME NEW s \in Seq(STRING)
  PROVE  Scanned(s, Scan(s))
<1> DEFINE len == Len(s)
<1>1. PICK f : (\A m \in Marks : f[m] = ScanAt(s, f, m)) /\ Scan(s) = f[Unmatched]
  BY ScanSteps
<1> DEFINE T == {k \in Nat : \A m : ScanInv(s, m) /\ len - k <= m.i => Scanned(s, f[m])}
<1>2. ASSUME NEW m, ScanInv(s, m), ~(m.i < len /\ (m.ident \/ m.node \in Trie))
      PROVE  Scanned(s, f[m])
  <2>1. f[m] = m
    BY <1>1, <1>2 DEF ScanInv, ScanAt
  <2>2. m.i \in Nat /\ m.len \in Nat /\ len \in Nat /\ m.i <= len /\ m.len <= m.i /\ KindRight(s, m)
    BY <1>2 DEF ScanInv, Marks
  <2>3. ASSUME NEW n \in 1..len, IsEither(First(s, n)) PROVE n <= m.len
    <3>1. CASE n <= m.i
      BY <1>2, <2>2, <3>1, <2>3 DEF ScanInv
    <3>2. CASE n > m.i
      <4>1. ~m.ident /\ First(s, m.i) \notin Trie
        BY <1>2, <2>2, <3>2 DEF ScanInv
      <4>2. ~IsToken(First(s, n))
        BY <2>2, <3>2, <4>1, OffTrie
      <4>3. \A j \in 1..m.i : j \in 1..n
        BY <2>2, <3>2
      <4>4. ~IsName(First(s, n))
        BY <1>2, <4>1, <4>3, FirstName DEF ScanInv
      <4> QED
        BY <2>3, <4>2, <4>4 DEF IsEither
    <3> QED
      BY <2>2, <3>1, <3>2
  <2> QED
    BY <2>1, <2>2, <2>3 DEF Scanned
<1>3. 0 \in T
  <2>1. \A m : ScanInv(s, m) /\ len - 0 <= m.i => ~(m.i < len)
    BY DEF ScanInv, Marks
  <2> QED
    BY <1>2, <2>1
<1>4. ASSUME NEW k \in Nat, k \in T PROVE k + 1 \in T
  <2> SUFFICES ASSUME NEW m, ScanInv(s, m), len - (k + 1) <= m.i PROVE Scanned(s, f[m])
    OBVIOUS
  <2>1. CASE ~(m.i < len /\ (m.ident \/ m.node \in Trie))
    BY <1>2, <2>1
  <2>2. CASE m.i < len /\ (m.ident \/ m.node \in Trie)
    <3> DEFINE w == ScanStep(m, s[m.i + 1])
    <3>1. m \in Marks /\ m.i \in Nat /\ len \in Nat
      BY DEF ScanInv, Marks
    <3>2. s[m.i + 1] \in STRING
      BY <2>2, <3>1
    <3>3. ScanInv(s, w) /\ w.i = m.i + 1
      BY <2>2, <3>1, <3>2, ScanInvStep, ScanStepMarks
    <3>4. f[m] = f[w]
      BY <1>1, <2>2, <3>1 DEF ScanAt
    <3> HIDE DEF w
    <3>5. len - k <= w.i
      BY <3>1, <3>3
    <3> QED
      BY <1>4, <3>3, <3>4, <3>5
  <2> QED
    BY <2>1, <2>2
<1>5. len \in T /\ len \in Nat
  <2> HIDE DEF T
  <2> QED
    BY <1>3, <1>4, Induction
<1>6. ScanInv(s, Unmatched) /\ Unmatched.i = 0
  <2>1. Unmatched \in Marks
    BY DEF Unmatched, Marks
  <2>2. First(s, 0) = <<>>
    BY FirstIs
  <2> QED
    BY <2>1, <2>2 DEF ScanInv, Unmatched, KindRight
<1>7. Scanned(s, f[Unmatched])
  BY <1>5, <1>6
<1> QED
  BY <1>1, <1>7

\* What isNumber finds is a number, and the longest one.
LEMMA NumberLengthIs ==
  ASSUME NEW s, Len(s) \in Nat
  PROVE  /\ NumberLength(s) \in 0..Len(s)
         /\ NumberLength(s) > 0 => Numeral(SubSeq(s, 1, NumberLength(s)))
         /\ \A n \in 1..Len(s) : Numeral(SubSeq(s, 1, n)) => n <= NumberLength(s)
<1> DEFINE lens == {n \in 1..Len(s) : Numeral(SubSeq(s, 1, n))}
           T == {Len(s) - n : n \in lens}
<1>1. CASE lens = {}
  BY <1>1 DEF NumberLength
<1>2. CASE lens # {}
  <2>1. lens \subseteq 1..Len(s)
    OBVIOUS
  <2>a. \A n \in lens : Numeral(SubSeq(s, 1, n))
    OBVIOUS
  <2>b. \A n \in 1..Len(s) : Numeral(SubSeq(s, 1, n)) => n \in lens
    OBVIOUS
  <2> HIDE DEF lens
  <2>2. T \in SUBSET Nat /\ T # {}
    <3>1. \A n \in lens : Len(s) - n \in Nat
      BY <2>1
    <3>2. T \in SUBSET Nat
      BY <3>1
    <3>3. T # {}
      BY <1>2
    <3> QED
      BY <3>2, <3>3
  <2>3. PICK l \in T : \A n \in T : l <= n
    BY <2>2, Least
  <2>4. PICK n \in lens : l = Len(s) - n
    OBVIOUS
  <2>5. \A m \in lens : m <= n
    <3> SUFFICES ASSUME NEW m \in lens PROVE m <= n
      OBVIOUS
    <3>1. l <= Len(s) - m
      BY <2>3
    <3> QED
      BY <2>1, <2>4, <3>1
  <2>6. NumberLength(s) = CHOOSE k \in lens : \A m \in lens : m <= k
    BY <1>2 DEF NumberLength, lens
  <2>7. NumberLength(s) \in lens /\ \A m \in lens : m <= NumberLength(s)
    BY <2>5, <2>6
  <2>8. NumberLength(s) \in 1..Len(s)
    BY <2>1, <2>7
  <2> QED
    BY <2>a, <2>b, <2>7, <2>8
<1> QED
  BY <1>1, <1>2

\* The token that Match returns after the blanks.
LEMMA MatchIs ==
  ASSUME NEW txt, NEW p
  PROVE  LET start == SkipFrom(txt, p)
             rest  == SubSeq(txt, start, Len(txt))
             t     == Match(txt, p)
         IN  /\ t.start = start
             /\ rest = <<>> => t.kind = "eof"
             /\ rest # <<>> /\ NumberLength(rest) > 0 =>
                  t.kind = "number" /\ t.len = NumberLength(rest)
             /\ rest # <<>> /\ ~(NumberLength(rest) > 0) =>
                  t.kind = Scan(rest).kind /\ t.len = Scan(rest).len
<1> DEFINE start == SkipFrom(txt, p)
           rest  == SubSeq(txt, start, Len(txt))
<1>1. CASE rest = <<>>
  BY <1>1 DEF Match, Token
<1>2. CASE rest # <<>> /\ NumberLength(rest) > 0
  BY <1>2 DEF Match, Token
<1>3. CASE rest # <<>> /\ ~(NumberLength(rest) > 0)
  BY <1>3 DEF Match, Token
<1> QED
  BY <1>1, <1>2, <1>3

\* The token at every position of every text comes after nothing but blanks and
\* comments.  It is the end of the text; or the longest number that starts there, if
\* one does, where nothing else starts unless the number is a word; or else the longest name or spelling that starts there, a spelling if
\* it is both (SharedParserData::match, lexer.h:199-250).
THEOREM MatchIsLongest ==
  ASSUME NEW txt \in Seq(STRING), NEW p \in 1..(Len(txt) + 1)
  PROVE  MatchesLongest(txt, p)
<1> DEFINE t     == Match(txt, p)
           len   == Len(txt)
           start == SkipFrom(txt, p)
           rest  == SubSeq(txt, start, len)
           m     == Scan(rest)
           n1    == NumberLength(rest)
<1>1. /\ len \in Nat /\ start \in p..(len + 1) /\ start \in 1..(len + 1)
      /\ Skippable(txt, p, start - 1)
      /\ start <= len => txt[start] \notin Blanks \cup {"#"}
  BY SkipRight
<1>2. /\ t.start = start
      /\ rest = <<>> => t.kind = "eof"
      /\ rest # <<>> /\ n1 > 0 => t.kind = "number" /\ t.len = n1
      /\ rest # <<>> /\ ~(n1 > 0) => t.kind = m.kind /\ t.len = m.len
  BY MatchIs
<1>3. /\ rest \in Seq(STRING) /\ Len(rest) = len + 1 - start
      /\ \A j \in 1..Len(rest) : rest[j] = txt[start + j - 1]
  BY <1>1, SubSeqProperties
<1>4. Scanned(rest, m)
  BY <1>3, ScanRight
<1>a. /\ n1 \in 0..Len(rest)
      /\ n1 > 0 => Numeral(First(rest, n1))
      /\ \A n \in 1..Len(rest) : Numeral(First(rest, n)) => n <= n1
  <2>1. Len(rest) \in Nat
    BY <1>3
  <2> HIDE DEF rest
  <2> QED
    BY <2>1, NumberLengthIs DEF First
<1> HIDE DEF t, start, rest, m, n1
<1>5. rest = <<>> <=> start = len + 1
  BY <1>1, <1>3, EmptySeq
<1>6. m.kind \notin {"eof", "number"}
  <2>1. CASE m.len = 0
    BY <1>4, <2>1 DEF Scanned, KindRight
  <2>2. CASE m.len # 0
    <3>1. m.len > 0
      BY <1>1, <1>3, <1>4, <2>2 DEF Scanned
    <3> QED
      BY <1>4, <3>1, TableKinds DEF Scanned, KindRight, IsToken
  <2> QED
    BY <2>1, <2>2
<1>7. \A n \in 0..Len(rest) : SubSeq(txt, start, start + n - 1) = First(rest, n)
  <2> SUFFICES ASSUME NEW n \in 0..Len(rest)
               PROVE  SubSeq(txt, start, start + n - 1) = First(rest, n)
    OBVIOUS
  <2> DEFINE u == SubSeq(txt, start, start + n - 1)
  <2>1. start + n - 1 \in (start - 1)..len /\ start + n - 1 <= len /\ n \in Nat /\ start \in Nat
    BY <1>1, <1>3
  <2>2. /\ u \in Seq(STRING) /\ Len(u) = n /\ \A j \in 1..n : u[j] = txt[start + j - 1]
    BY <1>1, <2>1, SubSeqProperties
  <2>3. /\ First(rest, n) \in Seq(STRING) /\ Len(First(rest, n)) = n
        /\ \A j \in 1..n : First(rest, n)[j] = rest[j]
    BY <1>3, FirstIs
  <2> HIDE DEF u
  <2>4. \A j \in 1..n : u[j] = First(rest, n)[j]
    <3>1. 1..n \subseteq 1..Len(rest)
      BY <1>3
    <3> QED
      BY <1>3, <2>2, <2>3, <3>1
  <2> QED
    BY <2>2, <2>3, <2>4, SeqEqual DEF u
<1>8. t.kind = "eof" <=> t.start = len + 1
  BY <1>2, <1>5, <1>6
<1>9. ASSUME t.kind \notin {"eof", "number"}
      PROVE  /\ txt[t.start] \notin Blanks \cup {"#"}
             /\ \A n \in t.start..len : IsEither(SubSeq(txt, t.start, n)) => n < End(t)
             /\ t.kind = "bad" <=> t.len = 0
             /\ t.len > 0 =>
                  /\ End(t) <= len + 1
                  /\ IF IsToken(TextOf(txt, t)) THEN t.kind = Table[TextOf(txt, t)]
                     ELSE IsName(TextOf(txt, t)) /\ t.kind = "ident"
  <2>1. t.start = start /\ start \in 1..len /\ t.kind = m.kind /\ t.len = m.len
    BY <1>1, <1>2, <1>5, <1>9
  <2>2. m.len \in 0..Len(rest) /\ KindRight(rest, m)
    BY <1>4 DEF Scanned
  <2>3. End(t) = start + m.len /\ TextOf(txt, t) = First(rest, m.len)
    BY <1>7, <2>1, <2>2 DEF End, TextOf
  <2>4. txt[t.start] \notin Blanks \cup {"#"}
    BY <1>1, <2>1
  <2>5. ASSUME NEW n \in t.start..len, IsEither(SubSeq(txt, t.start, n)) PROVE n < End(t)
    <3> DEFINE k == n - start + 1
    <3>1. k \in 1..Len(rest) /\ n = start + k - 1
      BY <1>1, <1>3, <2>1
    <3>2. k \in 0..Len(rest)
      BY <3>1
    <3>3. SubSeq(txt, t.start, n) = First(rest, k)
      BY <1>7, <2>1, <3>1, <3>2
    <3>4. k <= m.len
      BY <1>4, <2>5, <3>1, <3>3 DEF Scanned
    <3> QED
      BY <1>1, <1>3, <2>1, <2>2, <2>3, <3>4
  <2>6. t.kind = "bad" <=> t.len = 0
    BY <2>1, <2>2 DEF KindRight
  <2>7. End(t) <= len + 1
    BY <1>1, <1>3, <2>2, <2>3
  <2>8. t.len > 0 => IF IsToken(TextOf(txt, t)) THEN t.kind = Table[TextOf(txt, t)]
                     ELSE IsName(TextOf(txt, t)) /\ t.kind = "ident"
    BY <2>1, <2>2, <2>3 DEF KindRight
  <2> QED
    BY <2>4, <2>5, <2>6, <2>7, <2>8
<1>10. t.kind = "number" <=> rest # <<>> /\ n1 > 0
  BY <1>2, <1>6
<1>11. \A n \in t.start..len : /\ n - start + 1 \in 1..Len(rest)
                               /\ SubSeq(txt, t.start, n) = First(rest, n - start + 1)
  <2> SUFFICES ASSUME NEW n \in t.start..len
               PROVE  /\ n - start + 1 \in 1..Len(rest)
                      /\ SubSeq(txt, t.start, n) = First(rest, n - start + 1)
    OBVIOUS
  <2> DEFINE k == n - start + 1
  <2>1. k \in 1..Len(rest) /\ n = start + k - 1
    BY <1>1, <1>2, <1>3
  <2>2. k \in 0..Len(rest)
    BY <2>1
  <2> QED
    BY <1>2, <1>7, <2>1, <2>2
<1>12. ASSUME t.kind = "number"
       PROVE  /\ LongestNumber(txt, t)
              /\ \E n \in t.start..len : Numeral(SubSeq(txt, t.start, n))
  <2>1. n1 \in 1..Len(rest) /\ n1 \in 0..Len(rest) /\ t.len = n1 /\ t.start = start
    BY <1>2, <1>10, <1>12, <1>a
  <2>2. End(t) = start + n1 /\ start + n1 - 1 \in t.start..len /\ TextOf(txt, t) = First(rest, n1)
    BY <1>1, <1>3, <1>7, <2>1 DEF End, TextOf
  <2>3. SubSeq(txt, t.start, start + n1 - 1) = First(rest, n1)
    BY <1>7, <2>1
  <2>4. Numeral(First(rest, n1))
    BY <1>10, <1>12, <1>a
  <2>5. ASSUME NEW n \in t.start..len, Numeral(SubSeq(txt, t.start, n)) PROVE n < End(t)
    <3>1. n - start + 1 <= n1
      BY <1>11, <1>a, <2>5
    <3> QED
      BY <1>1, <2>1, <2>2, <3>1
  <2>6. ASSUME txt[t.start] # "nan", NEW n \in t.start..len, IsEither(SubSeq(txt, t.start, n))
        PROVE  FALSE
    <3>1. 1 \in 1..Len(rest) /\ rest[1] = txt[t.start]
      BY <1>1, <1>3, <2>1
    <3>2. /\ First(rest, n1) \in Seq(STRING) /\ First(rest, n1)[1] = rest[1]
      BY <1>3, <2>1, FirstIs
    <3>3. rest[1] \in Decimals
      BY <2>4, <2>6, <3>1, <3>2, NumeralStarts
    <3> DEFINE k == n - start + 1
    <3>4. /\ k \in 1..Len(rest) /\ k \in 0..Len(rest) /\ 1 \in 1..k
          /\ SubSeq(txt, t.start, n) = First(rest, k)
      BY <1>2, <1>3, <1>11, <2>1, <2>6
    <3> HIDE DEF k
    <3>5. First(rest, k)[1] = rest[1]
      BY <1>3, <3>4, FirstIs
    <3> QED
      BY <2>6, <3>3, <3>4, <3>5, DecimalStarts
  <2>7. LongestNumber(txt, t)
    BY <2>2, <2>4, <2>5, <2>6 DEF LongestNumber
  <2> QED
    BY <2>2, <2>3, <2>4, <2>7
<1>13. ASSUME NEW n \in t.start..len, Numeral(SubSeq(txt, t.start, n))
       PROVE  t.kind = "number"
  <2>1. n - start + 1 \in 1..Len(rest) /\ n - start + 1 <= n1
    BY <1>11, <1>13, <1>a
  <2>2. rest # <<>>
    BY <2>1
  <2>3. n1 > 0
    BY <1>a, <2>1
  <2> QED
    BY <1>10, <2>2, <2>3
<1> QED
  BY <1>1, <1>2, <1>8, <1>9, <1>12, <1>13 DEF MatchesLongest, t


\* A token is within the text, after the position where it was looked for.
LEMMA MatchWithin ==
  ASSUME NEW txt \in Seq(STRING), NEW p \in 1..(Len(txt) + 1)
  PROVE  End(Match(txt, p)) \in p..(Len(txt) + 1)
<1> DEFINE start == SkipFrom(txt, p)
           rest  == SubSeq(txt, start, Len(txt))
           m     == Scan(rest)
<1>1. /\ Len(txt) \in Nat /\ start \in p..(Len(txt) + 1)
  BY SkipRight
<1>2. rest \in Seq(STRING) /\ Len(rest) = Len(txt) + 1 - start /\ Len(rest) \in Nat
  BY <1>1, SubSeqProperties
<1>3. NumberLength(rest) \in 0..Len(rest)
  BY <1>2, NumberLengthIs
<1>4. m.len \in 0..Len(rest)
  BY <1>2, ScanRight DEF Scanned
<1>5. LET t == Match(txt, p) IN t.start = start /\ t.len \in {0, NumberLength(rest), m.len}
  <2>1. CASE rest = <<>>
    BY <2>1 DEF Match, Token
  <2>2. CASE rest # <<>> /\ NumberLength(rest) > 0
    BY <2>2 DEF Match, Token
  <2>3. CASE rest # <<>> /\ ~(NumberLength(rest) > 0)
    BY <2>3 DEF Match, Token
  <2> QED
    BY <2>1, <2>2, <2>3
<1> HIDE DEF start, rest, m
<1> QED
  BY <1>1, <1>2, <1>3, <1>4, <1>5 DEF End
-----------------------------------------------------------------------------
\* The parser reads its text by the methods of the lexer only, and not at all
\* once an error was thrown.
LEMMA ReadsByMethods ==
  ASSUME ~thrown,
         \/ UNCHANGED lexVars \/ NextToken \/ Lookahead \/ ReportError
  PROVE  [LexNext]_lexVars
BY DEF LexNext

\* L.expect reads the token or throws.
LEMMA ExpectReads ==
  ASSUME NEW kind, Expect(kind)
  PROVE  NextToken \/ ReportError
BY DEF Expect

\* Each function of the parser takes one step of the lexer, or none.
LEMMA ParserStep == [Next]_vars => [LexNext]_lexVars
<1> SUFFICES ASSUME [Next]_vars PROVE [LexNext]_lexVars
  OBVIOUS
<1>1. CASE UNCHANGED vars
  BY <1>1 DEF vars, lexVars
<1>2. CASE Stop
  BY <1>2 DEF Stop, vars, lexVars
<1>3. CASE Step
  <2>a. ASSUME NEW f, Calls(f) PROVE ~thrown
    BY <2>a DEF Calls, Running
  <2>b. ASSUME NEW items, Continue(items) PROVE UNCHANGED lexVars
    BY <2>b DEF Continue
  <2>c. ASSUME NEW items, Consume(items) PROVE NextToken
    BY <2>c DEF Consume
  <2>d. ASSUME NEW f, NEW start, NEW items, NEW consume, Optional(f, start, items, consume)
        PROVE  ~thrown /\ (UNCHANGED lexVars \/ NextToken)
    BY <2>a, <2>b, <2>c, <2>d DEF Optional
  <2>1. CASE Construct
    BY <2>1, <2>a, <2>c, ReadsByMethods DEF Construct
  <2>2. CASE ExpectToken
    BY <2>2, <2>a, ExpectReads, ReadsByMethods DEF ExpectToken
  <2>3. CASE ParseIdent
    BY <2>3, <2>a, ExpectReads, ReadsByMethods DEF ParseIdent
  <2>4. CASE ParseConst
    BY <2>4, <2>a, ExpectReads, ReadsByMethods DEF ParseConst
  <2>5. CASE ParseScalarType
    BY <2>5, <2>a, <2>c, ReadsByMethods DEF ParseScalarType
  <2>6. CASE ParseBaseExp
    BY <2>6, <2>a, <2>b, <2>c, ReadsByMethods DEF ParseBaseExp
  <2>7. CASE ParseArguments
    BY <2>7, <2>a, <2>b, ReadsByMethods DEF ParseArguments
  <2>8. CASE ParseExp
    BY <2>8, <2>a, <2>b, <2>c, ReadsByMethods DEF ParseExp
  <2>9. CASE ParseOperators
    BY <2>9, <2>a, <2>b, <2>c, ReadsByMethods DEF ParseOperators
  <2>10. CASE ParseElements
    BY <2>10, <2>a, <2>b, ReadsByMethods DEF ParseElements
  <2>11. CASE ParseMore
    BY <2>11, <2>a, <2>b, <2>c, ReadsByMethods DEF ParseMore
  <2>12. CASE ParseStmts
    BY <2>12, <2>a, <2>b, <2>c, ReadsByMethods DEF ParseStmts
  <2>13. CASE ParseWhereClauses \/ ParseEquivalent
    BY <2>13, <2>d, ReadsByMethods DEF ParseWhereClauses, ParseEquivalent
  <2>14. CASE ParseOptionalIdentList \/ ParseOptionalDimList
    BY <2>14, <2>d, ReadsByMethods DEF ParseOptionalIdentList, ParseOptionalDimList
  <2>15. CASE ParseWhereClause
    BY <2>15, <2>a, ReadsByMethods DEF ParseWhereClause
  <2>16. CASE ParseAssignment
    BY <2>16, <2>a, <2>c, ReadsByMethods DEF ParseAssignment
  <2>17. CASE ParseStmt
    BY <2>17, <2>a, <2>b, ReadsByMethods DEF ParseStmt
  <2>18. CASE ParseDim \/ ParseType \/ ParseParam
    BY <2>18, <2>a, <2>b, ReadsByMethods DEF ParseDim, ParseType, ParseParam
  <2>19. CASE ParseFunction
    BY <2>19, <2>a, <2>b, ReadsByMethods DEF ParseFunction
  <2>20. CASE ParseTactic
    BY <2>20, <2>a, <2>b, ReadsByMethods DEF ParseTactic
  <2>21. CASE ParseTacticBody
    BY <2>21, <2>a, <2>b, <2>c, ReadsByMethods DEF ParseTacticBody
  <2>22. CASE MakeNode
    BY <2>22, <2>a, <2>b, ReadsByMethods DEF MakeNode
  <2> QED
    BY <1>3, <2>1, <2>2, <2>3, <2>4, <2>5, <2>6, <2>7, <2>8, <2>9, <2>10, <2>11, <2>12,
       <2>13, <2>14, <2>15, <2>16, <2>17, <2>18, <2>19, <2>20, <2>21, <2>22 DEF Step
<1> QED
  BY <1>1, <1>2, <1>3 DEF Next

\* The parser is a caller of the lexer, whatever it is to read.
THEOREM ParserCallsLexer == Spec => LexSpec
<1>1. Init => LexInit
  BY DEF Init
<1>2. [Next]_vars => [LexNext]_lexVars
  BY ParserStep
<1> QED
  BY <1>1, <1>2, PTL DEF Spec, LexSpec

\* So a parse sees every token of its text once and in order, although
\* parseWhereClause looks ahead (parser.h:174-185).
THEOREM ParserImplementsStream == Spec => ImplementsStream
BY ParserCallsLexer, LexerImplementsStream

\* And the token it looks ahead at is the one it will read next.
THEOREM ParserAheadExact == Spec => []AheadExact
BY ParserCallsLexer, LexerAheadExact

\* The parser never changes its text.
LEMMA ParserKeepsText == [Next]_vars => text' = text
BY ParserStep DEF LexNext, lexVars, NextToken, Lookahead, ReportError, Lex, Lexed

\* TokensExact holds in every parse of every text: where no number starts, the token
\* is the longest one.
THEOREM ParserTokensExact == Spec => []TokensExact
<1> DEFINE IsText == text \in Seq(STRING)
<1>1. Init => IsText
  BY InputsAssumption DEF Init, LexInit
<1>2. IsText /\ [Next]_vars => IsText'
  BY ParserKeepsText
<1>3. IsText => TokensExact
  BY MatchIsLongest DEF TokensExact
<1> QED
  BY <1>1, <1>2, <1>3, PTL DEF Spec
-------------------------------------------------------------------------------
\* The call stack and the values.  From n values, the items leave m.
Heights(h, items, n) ==
  /\ h[1] = n
  /\ \A p \in 1..Len(items) :
       /\ IsItem(items[p])
       /\ h[p] \in Nat /\ Takes(items[p]) \in 0..h[p]
       /\ h[p + 1] = h[p] - Takes(items[p]) + Gives(items[p])
Leaves(items, n, m) == /\ \E S : items \in Seq(S)
                       /\ \E h : Heights(h, items, n) /\ h[Len(items) + 1] = m

\* Heights are numbers, and no item leaves no items to do.
LEMMA GivesIs == \A x : Gives(x) \in Nat
BY DEF Gives

LEMMA LeavesNone == \A n : Leaves(<<>>, n, n)
<1> SUFFICES ASSUME NEW n PROVE Leaves(<<>>, n, n)
  OBVIOUS
<1>1. Heights([p \in {1} |-> n], <<>>, n)
  BY DEF Heights
<1>2. <<>> \in Seq({})
  OBVIOUS
<1> QED
  BY <1>1, <1>2 DEF Leaves

\* The item to be done next finds its values, and the others go on from there.
LEMMA LeavesFirst ==
  ASSUME NEW items, items # <<>>, NEW n, NEW m, Leaves(items, n, m)
  PROVE  /\ IsItem(items[1]) /\ n \in Nat /\ Takes(items[1]) \in 0..n
         /\ Leaves(Tail(items), n - Takes(items[1]) + Gives(items[1]), m)
<1>1. PICK h : Heights(h, items, n) /\ h[Len(items) + 1] = m
  BY DEF Leaves
<1>0. PICK S : items \in Seq(S)
  BY DEF Leaves
<1>2. Len(items) \in Nat \ {0} /\ 1 \in 1..Len(items)
  BY <1>0
<1>3. IsItem(items[1]) /\ n \in Nat /\ Takes(items[1]) \in 0..n
  BY <1>1, <1>2 DEF Heights
<1> DEFINE k == n - Takes(items[1]) + Gives(items[1])
           g == [p \in 1..Len(items) |-> h[p + 1]]
           rest == Tail(items)
<1>4. /\ Len(rest) = Len(items) - 1 /\ \A p \in 1..Len(rest) : rest[p] = items[p + 1]
      /\ rest \in Seq(S)
  BY <1>0, <1>2
<1>5. h[2] = k
  BY <1>1, <1>2 DEF Heights
<1>8. g[1] = h[2]
  BY <1>2
<1> HIDE DEF k, rest, g
<1>6. Heights(g, rest, k)
  <2> SUFFICES ASSUME NEW p \in 1..Len(rest)
               PROVE  /\ IsItem(rest[p])
                      /\ g[p] \in Nat /\ Takes(rest[p]) \in 0..g[p]
                      /\ g[p + 1] = g[p] - Takes(rest[p]) + Gives(rest[p])
    BY <1>5, <1>8 DEF Heights
  <2>1. p + 1 \in 1..Len(items) /\ p \in 1..Len(items) /\ rest[p] = items[p + 1]
    BY <1>2, <1>4
  <2>2. g[p] = h[p + 1] /\ g[p + 1] = h[(p + 1) + 1]
    BY <1>4, <2>1 DEF g
  <2> QED
    BY <1>1, <2>1, <2>2 DEF Heights
<1>7. g[Len(rest) + 1] = m
  BY <1>1, <1>2, <1>4 DEF g
<1> QED
  BY <1>3, <1>4, <1>6, <1>7 DEF Leaves, k, rest

\* Items after others go on from what these leave.
LEMMA LeavesConcat ==
  ASSUME NEW a, NEW b, NEW n, NEW k, NEW m, Leaves(a, n, k), Leaves(b, k, m)
  PROVE  Leaves(a \o b, n, m)
<1>a. PICK S : a \in Seq(S)
  BY DEF Leaves
<1>b. PICK T : b \in Seq(T)
  BY DEF Leaves
<1>1. PICK g : Heights(g, a, n) /\ g[Len(a) + 1] = k
  BY DEF Leaves
<1>2. PICK h : Heights(h, b, k) /\ h[Len(b) + 1] = m
  BY DEF Leaves
<1> DEFINE c == a \o b
           f == [p \in 1..(Len(a) + Len(b) + 1) |-> IF p <= Len(a) THEN g[p] ELSE h[p - Len(a)]]
<1>3. /\ Len(a) \in Nat /\ Len(b) \in Nat /\ Len(c) = Len(a) + Len(b)
      /\ \A p \in 1..Len(a) : c[p] = a[p]
      /\ \A p \in 1..Len(b) : c[Len(a) + p] = b[p]
      /\ c \in Seq(S \cup T)
  <2>1. a \in Seq(S \cup T) /\ b \in Seq(S \cup T)
    BY <1>a, <1>b
  <2> QED
    BY <2>1, ConcatProperties
<1> HIDE DEF c
<1>4. f[1] = n
  BY <1>1, <1>2, <1>3 DEF Heights
<1>5. \A p \in 1..(Len(a) + 1) : f[p] = g[p]
  BY <1>1, <1>2, <1>3 DEF Heights
<1>6. \A p \in 1..(Len(b) + 1) : f[Len(a) + p] = h[p]
  BY <1>3
<1> HIDE DEF f
<1>7. Heights(f, c, n)
  <2> SUFFICES ASSUME NEW p \in 1..Len(c)
               PROVE  /\ IsItem(c[p])
                      /\ f[p] \in Nat /\ Takes(c[p]) \in 0..f[p]
                      /\ f[p + 1] = f[p] - Takes(c[p]) + Gives(c[p])
    BY <1>4 DEF Heights
  <2>1. CASE p <= Len(a)
    <3>1. p \in 1..Len(a) /\ p \in 1..(Len(a) + 1) /\ p + 1 \in 1..(Len(a) + 1)
      BY <1>3, <2>1
    <3>2. c[p] = a[p] /\ f[p] = g[p] /\ f[p + 1] = g[p + 1]
      BY <1>3, <1>5, <3>1
    <3> QED
      BY <1>1, <3>1, <3>2 DEF Heights
  <2>2. CASE p > Len(a)
    <3> DEFINE q == p - Len(a)
    <3>1. q \in 1..Len(b) /\ q \in 1..(Len(b) + 1) /\ q + 1 \in 1..(Len(b) + 1)
          /\ p = Len(a) + q /\ p + 1 = Len(a) + (q + 1)
      BY <1>3, <2>2
    <3> HIDE DEF q
    <3>2. c[p] = b[q] /\ f[p] = h[q] /\ f[p + 1] = h[q + 1]
      BY <1>3, <1>6, <3>1
    <3> QED
      BY <1>2, <3>1, <3>2 DEF Heights
  <2> QED
    BY <1>3, <2>1, <2>2
<1>8. f[Len(c) + 1] = m
  <2>1. Len(b) + 1 \in 1..(Len(b) + 1) /\ Len(c) + 1 = Len(a) + (Len(b) + 1)
    BY <1>3
  <2> QED
    BY <1>2, <1>6, <2>1
<1> QED
  BY <1>3, <1>7, <1>8 DEF Leaves, c

\* An item takes its values and leaves its own.
Turns(x, n, k) == IsItem(x) /\ n \in Nat /\ Takes(x) \in 0..n /\ k = n - Takes(x) + Gives(x)

\* The items of a body one after the other.
LEMMA Leaves1 ==
  ASSUME NEW x, NEW n, NEW k, Turns(x, n, k)
  PROVE  Leaves(<<x>>, n, k)
<1> DEFINE h == [p \in 1..2 |-> IF p = 1 THEN n ELSE k]
<1>1. Heights(h, <<x>>, n)
  BY DEF Heights, Turns
<1>2. <<x>> \in Seq({x})
  OBVIOUS
<1>3. \E f : Heights(f, <<x>>, n) /\ f[Len(<<x>>) + 1] = k
  BY <1>1
<1> QED
  BY <1>2, <1>3 DEF Leaves

LEMMA Leaves2 ==
  ASSUME NEW a, NEW b,
         NEW n, NEW h1, NEW h2,
         Turns(a, n, h1), Turns(b, h1, h2)
  PROVE  Leaves(<<a, b>>, n, h2)
<1>1. Heights(<<n, h1, h2>>, <<a, b>>, n)
  BY DEF Heights, Turns
<1>2. <<a, b>> \in Seq({a, b})
  OBVIOUS
<1>3. \E h : Heights(h, <<a, b>>, n) /\ h[Len(<<a, b>>) + 1] = h2
  BY <1>1
<1> QED
  BY <1>2, <1>3 DEF Leaves

LEMMA Leaves3 ==
  ASSUME NEW a, NEW b, NEW c,
         NEW n, NEW h1, NEW h2, NEW h3,
         Turns(a, n, h1), Turns(b, h1, h2), Turns(c, h2, h3)
  PROVE  Leaves(<<a, b, c>>, n, h3)
<1>1. Heights(<<n, h1, h2, h3>>, <<a, b, c>>, n)
  BY DEF Heights, Turns
<1>2. <<a, b, c>> \in Seq({a, b, c})
  OBVIOUS
<1>3. \E h : Heights(h, <<a, b, c>>, n) /\ h[Len(<<a, b, c>>) + 1] = h3
  BY <1>1
<1> QED
  BY <1>2, <1>3 DEF Leaves

LEMMA Leaves4 ==
  ASSUME NEW a, NEW b, NEW c, NEW d,
         NEW n, NEW h1, NEW h2, NEW h3, NEW h4,
         Turns(a, n, h1), Turns(b, h1, h2), Turns(c, h2, h3), Turns(d, h3, h4)
  PROVE  Leaves(<<a, b, c, d>>, n, h4)
<1>1. Heights(<<n, h1, h2, h3, h4>>, <<a, b, c, d>>, n)
  BY DEF Heights, Turns
<1>2. <<a, b, c, d>> \in Seq({a, b, c, d})
  OBVIOUS
<1>3. \E h : Heights(h, <<a, b, c, d>>, n) /\ h[Len(<<a, b, c, d>>) + 1] = h4
  BY <1>1
<1> QED
  BY <1>2, <1>3 DEF Leaves

LEMMA Leaves5 ==
  ASSUME NEW a, NEW b, NEW c, NEW d, NEW e,
         NEW n, NEW h1, NEW h2, NEW h3, NEW h4, NEW h5,
         Turns(a, n, h1), Turns(b, h1, h2), Turns(c, h2, h3), Turns(d, h3, h4), Turns(e, h4, h5)
  PROVE  Leaves(<<a, b, c, d, e>>, n, h5)
<1>1. Heights(<<n, h1, h2, h3, h4, h5>>, <<a, b, c, d, e>>, n)
  BY DEF Heights, Turns
<1>2. <<a, b, c, d, e>> \in Seq({a, b, c, d, e})
  OBVIOUS
<1>3. \E h : Heights(h, <<a, b, c, d, e>>, n) /\ h[Len(<<a, b, c, d, e>>) + 1] = h5
  BY <1>1
<1> QED
  BY <1>2, <1>3 DEF Leaves

LEMMA Leaves6 ==
  ASSUME NEW a, NEW b, NEW c, NEW d, NEW e, NEW f,
         NEW n, NEW h1, NEW h2, NEW h3, NEW h4, NEW h5, NEW h6,
         Turns(a, n, h1), Turns(b, h1, h2), Turns(c, h2, h3), Turns(d, h3, h4), Turns(e, h4, h5), Turns(f, h5, h6)
  PROVE  Leaves(<<a, b, c, d, e, f>>, n, h6)
<1>1. Heights(<<n, h1, h2, h3, h4, h5, h6>>, <<a, b, c, d, e, f>>, n)
  BY DEF Heights, Turns
<1>2. <<a, b, c, d, e, f>> \in Seq({a, b, c, d, e, f})
  OBVIOUS
<1>3. \E h : Heights(h, <<a, b, c, d, e, f>>, n) /\ h[Len(<<a, b, c, d, e, f>>) + 1] = h6
  BY <1>1
<1> QED
  BY <1>2, <1>3 DEF Leaves

LEMMA Leaves7 ==
  ASSUME NEW a, NEW b, NEW c, NEW d, NEW e, NEW f, NEW g,
         NEW n, NEW h1, NEW h2, NEW h3, NEW h4, NEW h5, NEW h6, NEW h7,
         Turns(a, n, h1), Turns(b, h1, h2), Turns(c, h2, h3), Turns(d, h3, h4), Turns(e, h4, h5), Turns(f, h5, h6), Turns(g, h6, h7)
  PROVE  Leaves(<<a, b, c, d, e, f, g>>, n, h7)
<1>1. Heights(<<n, h1, h2, h3, h4, h5, h6, h7>>, <<a, b, c, d, e, f, g>>, n)
  BY DEF Heights, Turns
<1>2. <<a, b, c, d, e, f, g>> \in Seq({a, b, c, d, e, f, g})
  OBVIOUS
<1>3. \E h : Heights(h, <<a, b, c, d, e, f, g>>, n) /\ h[Len(<<a, b, c, d, e, f, g>>) + 1] = h7
  BY <1>1
<1> QED
  BY <1>2, <1>3 DEF Leaves

\* What the items of the parser take and leave.
LEMMA TokTurns == \A k : \A n \in Nat : Turns(Tok(k), n, n)
BY DEF Turns, Tok, IsItem, Takes, Gives

\* Most functions leave one value; two take one that is already there.
LEMMA CallTurns ==
  ASSUME NEW f \in Simple, f # "lexer", NEW n \in Nat
  PROVE  IF f \in {"arguments", "tacticBody"} THEN Turns(Call(f), n + 1, n + 1)
         ELSE Turns(Call(f), n, n + 1)
<1>1. Call(f).call = f
  BY DEF Call
<1>2. f \notin {"exp", "elements", "more", "stmts", "make", "expect", "operators"}
  BY DEF Simple
<1>3. IsItem(Call(f)) /\ Gives(Call(f)) = 1
  BY <1>1, <1>2 DEF IsItem, Gives
<1>4. Takes(Call(f)) = IF f \in {"arguments", "tacticBody"} THEN 1 ELSE 0
  BY <1>1, <1>2 DEF Takes
<1>5. CASE f \in {"arguments", "tacticBody"}
  <2>1. Takes(Call(f)) = 1
    BY <1>4, <1>5
  <2>2. Turns(Call(f), n + 1, n + 1)
    BY <1>3, <2>1 DEF Turns
  <2> QED
    BY <1>5, <2>2
<1>6. CASE f \notin {"arguments", "tacticBody"}
  <2>1. Takes(Call(f)) = 0
    BY <1>4, <1>6
  <2>2. Turns(Call(f), n, n + 1)
    BY <1>3, <2>1 DEF Turns
  <2> QED
    BY <1>6, <2>2
<1> QED
  BY <1>5, <1>6

LEMMA ExpTurns == \A p \in 0..7 : \A n \in Nat : \A k : k = n + 1 => Turns(Exp(p), n, k)
BY DEF Turns, Exp, With, IsItem, Takes, Gives

LEMMA OperatorsTurns == \A p \in 0..7 : \A n \in Nat : Turns(With("operators", p), n + 1, n + 1)
BY DEF Turns, With, IsItem, Takes, Gives

LEMMA ElementsTurns ==
  \A e \in Elements : \A end : \A n \in Nat : Turns(With("elements", <<e, end>>), n, n + 1)
BY DEF Turns, With, IsItem, Takes, Gives

LEMMA MoreTurns ==
  \A e \in Elements : \A k \in Nat \ {0} : \A n \in Nat : \A m \in Nat \ {0} :
    n + 1 = m + k => Turns(With("more", <<e, k>>), n, m)
BY DEF Turns, With, IsItem, Takes, Gives

LEMMA StmtsTurns ==
  \A k \in Nat : \A n \in Nat : \A m \in Nat \ {0} : n + 1 = m + k => Turns(With("stmts", k), n, m)
BY DEF Turns, With, IsItem, Takes, Gives

LEMMA MakeTurns ==
  \A node : \A k \in Nat : \A n \in Nat : \A m \in Nat \ {0} :
    n + 1 = m + k => Turns(Make(node, k), n, m)
BY DEF Turns, Make, IsItem, Takes, Gives

LEMMA ElementTurns == \A e \in Elements : \A n \in Nat : Turns(e, n, n + 1)
<1> SUFFICES ASSUME NEW e \in Elements, NEW n \in Nat PROVE Turns(e, n, n + 1)
  OBVIOUS
<1>1. CASE e = Exp(0)
  BY <1>1, ExpTurns
<1>2. ASSUME NEW f \in {"ident", "dim", "param", "whereClause"}, e = Call(f) PROVE Turns(e, n, n + 1)
  <2>1. f \in Simple /\ f \notin {"lexer", "arguments", "tacticBody"}
    BY DEF Simple
  <2> QED
    BY <1>2, <2>1, CallTurns
<1> QED
  BY <1>1, <1>2 DEF Elements

\* A list leaves one value, whatever its elements.
LEMMA ListLeaves ==
  ASSUME NEW begin, NEW e \in Elements, NEW end, NEW n \in Nat
  PROVE  Leaves(ListOf(begin, e, end), n, n + 1)
BY TokTurns, ElementsTurns, Leaves2 DEF ListOf

LEMMA NonEmptyLeaves ==
  ASSUME NEW e \in Elements, NEW n \in Nat
  PROVE  Leaves(NonEmptyList(e), n, n + 1)
<1>1. Turns(e, n, n + 1) /\ Turns(With("more", <<e, 1>>), n + 1, n + 1)
  BY ElementTurns, MoreTurns
<1> QED
  BY <1>1, Leaves2 DEF NonEmptyList

\* The precedences an expression is parsed with.
LEMMA Precedences ==
  \A k : /\ IsBinary(k) => BinaryPrec[k] \in 1..6
         /\ IsUnary(k) => UnaryPrec[k] \in 0..7
BY DEF IsBinary, IsUnary, BinaryPrec, UnaryPrec

-------------------------------------------------------------------------------
\* What is left to do leaves one value.
StackInv == /\ \E S : made \in Seq(S)
            /\ Leaves(todo, Len(made), 1)

\* What the invariant says of the function to be called next.
LEMMA StackFacts ==
  ASSUME StackInv, todo # <<>>
  PROVE  IsItem(todo[1]) /\ Len(made) \in Nat /\ Takes(todo[1]) \in 0..Len(made)
BY LeavesFirst DEF StackInv

\* The first item may be replaced by items that leave what it would have left.
LEMMA InsteadKeeps ==
  ASSUME StackInv, todo # <<>>, NEW items, Instead(items), NEW U, made' \in Seq(U),
         Leaves(items, Len(made)', Len(made) - Takes(todo[1]) + Gives(todo[1]))
  PROVE  StackInv'
<1>1. Leaves(Tail(todo), Len(made) - Takes(todo[1]) + Gives(todo[1]), 1)
  BY LeavesFirst DEF StackInv
<1>2. Leaves(items \o Tail(todo), Len(made)', 1)
  BY <1>1, LeavesConcat
<1> QED
  BY <1>2 DEF StackInv, Instead

\* The function makes no value and goes on with items.
LEMMA GoesOn ==
  ASSUME StackInv, todo # <<>>, NEW items, Instead(items), made' = made, NEW t, NEW g,
         Takes(todo[1]) = t, Gives(todo[1]) = g, Leaves(items, Len(made), Len(made) - t + g)
  PROVE  StackInv'
<1>1. PICK U : made \in Seq(U)
  BY DEF StackInv
<1> QED
  BY <1>1, InsteadKeeps

\* The function makes its value of the last n values, and is done.
LEMMA Makes ==
  ASSUME StackInv, todo # <<>>, NEW n, NEW v, Takes(todo[1]) = n, Gives(todo[1]) = 1,
         Instead(<<>>), Collapse(n, v)
  PROVE  StackInv'
<1>1. PICK U : made \in Seq(U)
  BY DEF StackInv
<1>0. n \in 0..Len(made) /\ Len(made) \in Nat
  BY StackFacts
<1> DEFINE rest == SubSeq(made, 1, Len(made) - n)
<1>2. rest \in Seq(U \cup {v}) /\ Len(rest) = Len(made) - n
  <2>1. made \in Seq(U \cup {v})
    BY <1>1
  <2> QED
    BY <1>0, <2>1, SubSeqProperties
<1> HIDE DEF rest
<1>3. made' = Append(rest, v)
  BY DEF Collapse, rest
<1>4. made' \in Seq(U \cup {v}) /\ Len(made)' = Len(made) - n + 1
  BY <1>2, <1>3
<1>5. Leaves(<<>>, Len(made)', Len(made) - n + 1)
  BY <1>4, LeavesNone
<1> QED
  BY <1>4, <1>5, InsteadKeeps

\* The function pushes its value.
LEMMA Pushes ==
  ASSUME StackInv, todo # <<>>, NEW v, Takes(todo[1]) = 0, Gives(todo[1]) = 1, NEW items, Instead(items), Push(v),
         Leaves(items, Len(made) + 1, Len(made) + 1)
  PROVE  StackInv'
<1>1. PICK U : made \in Seq(U)
  BY DEF StackInv
<1>2. made \in Seq(U \cup {v})
  BY <1>1
<1>3. made' \in Seq(U \cup {v}) /\ Len(made)' = Len(made) + 1 /\ Len(made) \in Nat
  BY <1>2 DEF Push
<1>4. Leaves(items, Len(made)', Len(made) - Takes(todo[1]) + Gives(todo[1]))
  <2>1. Len(made) - Takes(todo[1]) + Gives(todo[1]) = Len(made) + 1
    BY <1>3
  <2> QED
    BY <1>3, <2>1
<1> QED
  BY <1>3, <1>4, InsteadKeeps

\* A function that takes no value and leaves one.
Values == Simple \ {"lexer", "arguments", "tacticBody"}
LEMMA ValueCall ==
  ASSUME StackInv, NEW f \in Values \cup {"exp", "elements"}, Calls(f)
  PROVE  todo # <<>> /\ Takes(todo[1]) = 0 /\ Gives(todo[1]) = 1
<1>1. todo # <<>> /\ todo[1].call = f
  BY DEF Calls, Running
<1>2. f \notin {"more", "stmts", "make", "expect", "operators", "lexer", "arguments", "tacticBody"}
  BY DEF Values, Simple
<1> QED
  BY <1>1, <1>2 DEF Takes, Gives

\* The functions that take nothing and leave a value.
LEMMA CallIs ==
  \A f \in Values : \A n \in Nat : \A k : k = n + 1 => Turns(Call(f), n, k)
BY CallTurns DEF Values

\* What the bodies of functions leave, from any number of values.
LEMMA ClausesLeave ==
  ASSUME NEW n \in Nat
  PROVE  /\ Leaves(LetBindingBody, n, n + 1)
         /\ Leaves(RangeConstraintBody, n, n + 1)
         /\ Leaves(ExistsBody, n, n + 1)
<1>1. \A k \in Nat : Turns(Call("ident"), k, k + 1)
  BY CallIs DEF Values, Simple
<1>2. n + 1 \in Nat /\ n + 2 \in Nat
  OBVIOUS
<1>3. Turns(Make("let", 2), n + 2, n + 1) /\ Turns(Make("range", 3), n + 3, n + 1)
      /\ Turns(Make("exists", 1), n + 1, n + 1)
  BY MakeTurns
<1>4. Turns(Exp(0), n, n + 1) /\ Turns(Exp(0), n + 1, n + 2) /\ Turns(Exp(0), n + 2, n + 3)
  BY <1>2, ExpTurns
<1>5. Leaves(LetBindingBody, n, n + 1)
  <2>1. Turns(Call("ident"), n, n + 1) /\ Turns(Tok("="), n + 1, n + 1)
    BY <1>1, <1>2, TokTurns
  <2> QED
    BY <1>3, <1>4, <2>1, Leaves4 DEF LetBindingBody
<1>6. Leaves(RangeConstraintBody, n, n + 1)
  <2>1. Turns(Call("ident"), n, n + 1) /\ Turns(Tok("in"), n + 1, n + 1) /\ Turns(Tok(":"), n + 2, n + 2)
    BY <1>1, <1>2, TokTurns
  <2> QED
    BY <1>3, <1>4, <2>1, Leaves6 DEF RangeConstraintBody
<1>7. Leaves(ExistsBody, n, n + 1)
  <2>1. Turns(Tok("exists"), n, n)
    BY TokTurns
  <2> QED
    BY <1>3, <1>4, <2>1, Leaves3 DEF ExistsBody
<1> QED
  BY <1>5, <1>6, <1>7

LEMMA BasesLeave ==
  ASSUME NEW n \in Nat, NEW k
  PROVE  /\ Leaves(<<Call("const")>>, n, n + 1)
         /\ Leaves(<<Exp(0), Tok(")")>>, n, n + 1)
         /\ Leaves(<<Call("scalarType"), Tok("("), Exp(0), Tok(")"), Make("cast", 2)>>, n, n + 1)
         /\ Leaves(<<Tok("("), Exp(0), Tok(","), Exp(0), Tok(")"), Make(k, 2)>>, n, n + 1)
         /\ Leaves(<<Call("ident"), Call("arguments")>>, n, n + 1)
<1>1. /\ Turns(Call("const"), n, n + 1) /\ Turns(Call("scalarType"), n, n + 1)
      /\ Turns(Call("ident"), n, n + 1) /\ Turns(Call("arguments"), n + 1, n + 1)
  BY CallIs, CallTurns DEF Values, Simple
<1>2. n + 1 \in Nat /\ n + 2 \in Nat
  OBVIOUS
<1>3. Turns(Exp(0), n, n + 1) /\ Turns(Exp(0), n + 1, n + 2)
  BY <1>2, ExpTurns
<1>4. \A j : Turns(Tok(j), n, n) /\ Turns(Tok(j), n + 1, n + 1) /\ Turns(Tok(j), n + 2, n + 2)
  BY <1>2, TokTurns
<1>5. Turns(Make("cast", 2), n + 2, n + 1) /\ Turns(Make(k, 2), n + 2, n + 1)
  BY MakeTurns
<1>6. Leaves(<<Call("const")>>, n, n + 1) /\ Leaves(<<Exp(0), Tok(")")>>, n, n + 1)
      /\ Leaves(<<Call("ident"), Call("arguments")>>, n, n + 1)
  BY <1>1, <1>3, <1>4, Leaves1, Leaves2
<1>7. Leaves(<<Call("scalarType"), Tok("("), Exp(0), Tok(")"), Make("cast", 2)>>, n, n + 1)
  BY <1>1, <1>3, <1>4, <1>5, Leaves5
<1>8. Leaves(<<Tok("("), Exp(0), Tok(","), Exp(0), Tok(")"), Make(k, 2)>>, n, n + 1)
  BY <1>3, <1>4, <1>5, Leaves6
<1> QED
  BY <1>6, <1>7, <1>8

LEMMA ExpsLeave ==
  ASSUME NEW n \in Nat, NEW k, NEW p \in 0..7, NEW q \in 0..7
  PROVE  /\ Leaves(<<Exp(q), Make(k, 1), With("operators", p)>>, n, n + 1)
         /\ Leaves(<<Call("base"), With("operators", p)>>, n, n + 1)
         /\ Leaves(<<Exp(0), Tok(":"), Exp(q), Make(k, 3)>> \o <<With("operators", p)>>, n + 1, n + 1)
         /\ Leaves(<<Exp(q), Make(k, 2)>> \o <<With("operators", p)>>, n + 1, n + 1)
<1>1. /\ Turns(Exp(q), n, n + 1) /\ Turns(Exp(q), n + 1, n + 2) /\ Turns(Exp(q), n + 2, n + 3)
      /\ Turns(Exp(0), n + 1, n + 2)
  <2>1. n + 1 \in Nat /\ n + 2 \in Nat /\ 0 \in 0..7
    OBVIOUS
  <2> QED
    BY <2>1, ExpTurns
<1>2. /\ Turns(Make(k, 1), n + 1, n + 1) /\ Turns(Make(k, 2), n + 2, n + 1)
      /\ Turns(Make(k, 3), n + 3, n + 1)
  BY MakeTurns
<1>3. Turns(With("operators", p), n + 1, n + 1)
  BY OperatorsTurns
<1>4. Turns(Call("base"), n, n + 1) /\ Turns(Tok(":"), n + 2, n + 2)
  <2>1. "base" \in Values /\ n + 2 \in Nat
    BY DEF Values, Simple
  <2> QED
    BY <2>1, CallIs, TokTurns
<1>5. /\ Leaves(<<Exp(q), Make(k, 1), With("operators", p)>>, n, n + 1)
      /\ Leaves(<<Call("base"), With("operators", p)>>, n, n + 1)
      /\ Leaves(<<With("operators", p)>>, n + 1, n + 1)
  BY <1>1, <1>2, <1>3, <1>4, Leaves1, Leaves2, Leaves3
<1>6. /\ Leaves(<<Exp(0), Tok(":"), Exp(q), Make(k, 3)>>, n + 1, n + 1)
      /\ Leaves(<<Exp(q), Make(k, 2)>>, n + 1, n + 1)
  BY <1>1, <1>2, <1>4, Leaves2, Leaves4
<1> QED
  BY <1>5, <1>6, LeavesConcat

LEMMA ListsLeave ==
  ASSUME NEW n \in Nat, NEW e \in Elements, NEW end
  PROVE  /\ Leaves(NonEmptyList(e) \o <<Tok(end)>>, n, n + 1)
         /\ Leaves(<<Tok(end)>>, n + 1, n + 1)
         /\ Leaves(ListOf("(", e, ")") \o <<Make("apply", 2)>>, n + 1, n + 1)
         /\ Leaves(<<Call("ident")>> \o ListOf("(", e, ")") \o <<Make("equivalent", 2)>>, n, n + 1)
<1>1. n + 1 \in Nat
  OBVIOUS
<1>2. Leaves(<<Tok(end)>>, n + 1, n + 1)
  BY TokTurns, Leaves1
<1>3. Leaves(<<Call("ident")>>, n, n + 1)
  BY CallIs, Leaves1 DEF Values, Simple
<1>4. /\ Leaves(<<Make("apply", 2)>>, n + 2, n + 1)
      /\ Leaves(<<Make("equivalent", 2)>>, n + 2, n + 1)
  BY MakeTurns, Leaves1
<1>5. Leaves(ListOf("(", e, ")"), n + 1, n + 2)
  BY <1>1, ListLeaves
<1>6. Leaves(NonEmptyList(e), n, n + 1)
  BY NonEmptyLeaves
<1>7. Leaves(<<Call("ident")>> \o ListOf("(", e, ")"), n, n + 2)
  BY <1>3, <1>5, LeavesConcat
<1> QED
  BY <1>2, <1>4, <1>5, <1>6, <1>7, LeavesConcat

LEMMA StmtLeaves ==
  ASSUME NEW n \in Nat
  PROVE  Leaves(<<Call("ident"), Call("identList"), Call("assignment"), Exp(0),
                  Call("equivalent"), Call("whereClauses"), Make("stmt", 6)>>, n, n + 1)
<1>1. /\ n + 1 \in Nat /\ n + 2 \in Nat /\ n + 3 \in Nat /\ n + 4 \in Nat /\ n + 5 \in Nat
  OBVIOUS
<1>2. /\ "ident" \in Values /\ "identList" \in Values /\ "assignment" \in Values
      /\ "equivalent" \in Values /\ "whereClauses" \in Values
  BY DEF Values, Simple
<1>3. Turns(Call("ident"), n, n + 1) /\ Turns(Call("identList"), n + 1, n + 2)
  BY <1>1, <1>2, CallIs
<1>4. Turns(Call("assignment"), n + 2, n + 3) /\ Turns(Exp(0), n + 3, n + 4)
  BY <1>1, <1>2, CallIs, ExpTurns
<1>5. Turns(Call("equivalent"), n + 4, n + 5) /\ Turns(Call("whereClauses"), n + 5, n + 6)
  BY <1>1, <1>2, CallIs
<1>6. Turns(Make("stmt", 6), n + 6, n + 1)
  BY MakeTurns
<1> QED
  BY <1>3, <1>4, <1>5, <1>6, Leaves7

LEMMA TypesLeave ==
  ASSUME NEW n \in Nat
  PROVE  /\ Leaves(<<Call("scalarType"), Call("dimList"), Make("type", 2)>>, n, n + 1)
         /\ Leaves(<<Call("ident"), Make("inferred", 1)>>, n, n + 1)
         /\ Leaves(<<Call("type"), Call("ident"), Make("param", 2)>>, n, n + 1)
<1>1. n + 1 \in Nat
  OBVIOUS
<1>2. /\ "ident" \in Values /\ "scalarType" \in Values /\ "dimList" \in Values /\ "type" \in Values
  BY DEF Values, Simple
<1>3. /\ Turns(Call("scalarType"), n, n + 1) /\ Turns(Call("dimList"), n + 1, n + 2)
      /\ Turns(Call("ident"), n, n + 1) /\ Turns(Call("ident"), n + 1, n + 2)
      /\ Turns(Call("type"), n, n + 1)
  BY <1>1, <1>2, CallIs
<1>4. /\ Turns(Make("type", 2), n + 2, n + 1) /\ Turns(Make("inferred", 1), n + 1, n + 1)
      /\ Turns(Make("param", 2), n + 2, n + 1)
  BY MakeTurns
<1> QED
  BY <1>3, <1>4, Leaves2, Leaves3

LEMMA FunctionLeaves ==
  ASSUME NEW n \in Nat
  PROVE  Leaves(<<Tok("def"), Call("ident")>> \o ListOf("(", Call("param"), ")") \o <<Tok("->")>>
                  \o ListOf("(", Call("param"), ")")
                  \o <<Tok("{"), With("stmts", 0), Make("def", 4)>>, n, n + 1)
<1>1. n + 1 \in Nat /\ n + 2 \in Nat /\ n + 3 \in Nat /\ n + 4 \in Nat
  OBVIOUS
<1>2. "ident" \in Values /\ Call("param") \in Elements
  BY DEF Values, Simple, Elements
<1>3. Leaves(<<Tok("def"), Call("ident")>>, n, n + 1)
  <2>1. Turns(Tok("def"), n, n) /\ Turns(Call("ident"), n, n + 1)
    BY <1>2, TokTurns, CallIs
  <2> QED
    BY <2>1, Leaves2
<1>4. /\ Leaves(ListOf("(", Call("param"), ")"), n + 1, n + 2)
      /\ Leaves(ListOf("(", Call("param"), ")"), n + 2, n + 3)
  <2>1. \A k \in Nat : Leaves(ListOf("(", Call("param"), ")"), k, k + 1)
    BY <1>2, ListLeaves
  <2> QED
    BY <1>1, <2>1
<1>5. Leaves(<<Tok("->")>>, n + 2, n + 2)
  BY <1>1, TokTurns, Leaves1
<1>6. Leaves(<<Tok("{"), With("stmts", 0), Make("def", 4)>>, n + 3, n + 1)
  <2>1. Turns(With("stmts", 0), n + 3, n + 4)
    BY <1>1, StmtsTurns
  <2>2. \A j : Turns(Tok(j), n + 3, n + 3)
    BY <1>1, TokTurns
  <2>3. Turns(Make("def", 4), n + 4, n + 1)
    BY <1>1, MakeTurns
  <2> QED
    BY <2>1, <2>2, <2>3, Leaves3
<1>7. Leaves(<<Tok("def"), Call("ident")>> \o ListOf("(", Call("param"), ")"), n, n + 2)
  BY <1>3, <1>4, LeavesConcat
<1>8. Leaves(<<Tok("def"), Call("ident")>> \o ListOf("(", Call("param"), ")") \o <<Tok("->")>>, n, n + 2)
  BY <1>5, <1>7, LeavesConcat
<1>9. Leaves(<<Tok("def"), Call("ident")>> \o ListOf("(", Call("param"), ")") \o <<Tok("->")>>
               \o ListOf("(", Call("param"), ")"), n, n + 3)
  BY <1>4, <1>8, LeavesConcat
<1> QED
  BY <1>6, <1>9, LeavesConcat

LEMMA TacticLeaves ==
  ASSUME NEW n \in Nat
  PROVE  /\ Leaves(<<Tok("def"), Call("ident"), Tok("{"), Call("tacticBody")>>, n, n + 1)
         /\ Leaves(<<Call("stmt"), Tok("how"), With("stmts", 1), Make("tactic", 2)>>, n + 1, n + 1)
         /\ Leaves(<<Tok("what = how"), Call("stmt"), Make("lone", 1), Make("tactic", 2)>>,
                   n + 1, n + 1)
<1>1. n + 1 \in Nat /\ n + 2 \in Nat
  OBVIOUS
<1>2. "ident" \in Values /\ "stmt" \in Values
  BY DEF Values, Simple
<1>3. Turns(Call("ident"), n, n + 1) /\ Turns(Call("stmt"), n + 1, n + 2)
  BY <1>1, <1>2, CallIs
<1>4. Turns(Call("tacticBody"), n + 1, n + 1)
  BY CallTurns DEF Simple
<1>5. \A j : Turns(Tok(j), n, n) /\ Turns(Tok(j), n + 1, n + 1) /\ Turns(Tok(j), n + 2, n + 2)
  BY <1>1, TokTurns
<1>6. Turns(With("stmts", 1), n + 2, n + 2)
  BY <1>1, StmtsTurns
<1>7. Turns(Make("tactic", 2), n + 2, n + 1) /\ Turns(Make("lone", 1), n + 2, n + 2)
  BY <1>1, MakeTurns
<1> QED
  BY <1>3, <1>4, <1>5, <1>6, <1>7, Leaves4

-------------------------------------------------------------------------------
\* Such a function goes on with items that leave one value.
LEMMA ValueGoesOn ==
  ASSUME StackInv, NEW f \in Values \cup {"exp", "elements"}, Calls(f), NEW items, Instead(items),
         made' = made, Leaves(items, Len(made), Len(made) + 1)
  PROVE  StackInv'
<1>1. todo # <<>> /\ Takes(todo[1]) = 0 /\ Gives(todo[1]) = 1
  BY ValueCall
<1>2. Len(made) - 0 + 1 = Len(made) + 1
  BY <1>1, StackFacts
<1> QED
  BY <1>1, <1>2, GoesOn

\* What is known when a function is called.
LEMMA CallsFacts ==
  ASSUME StackInv, NEW f, Calls(f)
  PROVE  /\ todo # <<>> /\ todo[1].call = f /\ IsItem(todo[1])
         /\ Len(made) \in Nat /\ Takes(todo[1]) \in 0..Len(made)
BY StackFacts DEF Calls, Running

\* The functions that push what they have read.
LEMMA ReadersStep ==
  ASSUME StackInv, ParseIdent \/ ParseConst \/ ParseScalarType \/ ParseAssignment
  PROVE  StackInv'
<1>1. ASSUME NEW f \in Values, Calls(f), NEW v, Instead(<<>>), Push(v) PROVE StackInv'
  <2>1. todo # <<>> /\ Takes(todo[1]) = 0 /\ Gives(todo[1]) = 1
    BY <1>1, ValueCall
  <2>2. Leaves(<<>>, Len(made) + 1, Len(made) + 1)
    BY LeavesNone
  <2> QED
    BY <1>1, <2>1, <2>2, Pushes
<1>2. ASSUME UNCHANGED <<todo, made>> PROVE StackInv'
  BY <1>2 DEF StackInv
<1>3. {"ident", "const", "scalarType", "assignment"} \subseteq Values
  BY DEF Values, Simple
<1>4. CASE ParseIdent
  BY <1>1, <1>3, <1>4 DEF ParseIdent
<1>5. CASE ParseConst
  BY <1>1, <1>2, <1>3, <1>5 DEF ParseConst
<1>6. CASE ParseScalarType
  BY <1>1, <1>2, <1>3, <1>6 DEF ParseScalarType, Consume
<1>7. CASE ParseAssignment
  BY <1>1, <1>2, <1>3, <1>7 DEF ParseAssignment, Consume
<1> QED
  BY <1>4, <1>5, <1>6, <1>7

\* Expressions.
LEMMA ExpsStep ==
  ASSUME StackInv, ParseBaseExp \/ ParseArguments \/ ParseExp \/ ParseOperators
  PROVE  StackInv'
<1> DEFINE n == Len(made)
<1>1. CASE ParseBaseExp
  <2>1. Calls("base") /\ made' = made
    BY <1>1 DEF ParseBaseExp
  <2>2. n \in Nat /\ "base" \in Values
    BY <2>1, CallsFacts DEF Values, Simple
  <2>3. \E items : Instead(items) /\ Leaves(items, n, n + 1)
    BY <1>1, <2>2, BasesLeave DEF ParseBaseExp, Continue, Consume
  <2> QED
    BY <2>1, <2>2, <2>3, ValueGoesOn
<1>2. CASE ParseArguments
  <2>1. Calls("arguments") /\ made' = made
    BY <1>2 DEF ParseArguments
  <2>2. /\ n \in Nat /\ todo # <<>> /\ Takes(todo[1]) = 1 /\ Gives(todo[1]) = 1
        /\ n - 1 \in Nat /\ n - 1 + 1 = n
    BY <2>1, CallsFacts DEF Takes, Gives
  <2>3. Exp(0) \in Elements
    BY DEF Elements
  <2>4. Leaves(ListOf("(", Exp(0), ")") \o <<Make("apply", 2)>>, n - 1 + 1, n - 1 + 1)
    BY <2>2, <2>3, ListsLeave
  <2>5. \E items : Instead(items) /\ Leaves(items, n, n)
    BY <1>2, <2>2, <2>4, LeavesNone DEF ParseArguments, Continue
  <2> QED
    BY <2>1, <2>2, <2>5, GoesOn
<1>3. CASE ParseExp
  <2>1. Calls("exp") /\ made' = made
    BY <1>3 DEF ParseExp
  <2>2. n \in Nat /\ Arg \in 0..7
    BY <2>1, CallsFacts DEF IsItem, Arg
  <2>3. \E items : Instead(items) /\ Leaves(items, n, n + 1)
    BY <1>3, <2>2, ExpsLeave, Precedences DEF ParseExp, Continue, Consume
  <2> QED
    BY <2>1, <2>3, ValueGoesOn
<1>4. CASE ParseOperators
  <2>1. Calls("operators") /\ made' = made
    BY <1>4 DEF ParseOperators
  <2>2. /\ n \in Nat /\ todo # <<>> /\ Takes(todo[1]) = 1 /\ Gives(todo[1]) = 1
        /\ n - 1 \in Nat /\ n - 1 + 1 = n /\ Arg \in 0..7
    BY <2>1, CallsFacts DEF Takes, Gives, IsItem, Arg
  <2>3. ASSUME IsBinary(cur.kind)
        PROVE  (IF IsRightAssociative(cur.kind) THEN BinaryPrec[cur.kind] - 1
                                                ELSE BinaryPrec[cur.kind]) \in 0..7
    BY <2>3, Precedences
  <2>4. \A k : \A q \in 0..7 :
          /\ Leaves(<<Exp(0), Tok(":"), Exp(q), Make(k, 3)>> \o <<With("operators", Arg)>>, n, n)
          /\ Leaves(<<Exp(q), Make(k, 2)>> \o <<With("operators", Arg)>>, n, n)
    <3> SUFFICES ASSUME NEW k, NEW q \in 0..7
                 PROVE  /\ Leaves(<<Exp(0), Tok(":"), Exp(q), Make(k, 3)>>
                                    \o <<With("operators", Arg)>>, n, n)
                        /\ Leaves(<<Exp(q), Make(k, 2)>> \o <<With("operators", Arg)>>, n, n)
      OBVIOUS
    <3> DEFINE j == n - 1
    <3>1. j \in Nat /\ j + 1 = n
      BY <2>2
    <3> HIDE DEF j
    <3> QED
      BY <2>2, <3>1, ExpsLeave
  <2>5. \E items : Instead(items) /\ Leaves(items, n, n)
    BY <1>4, <2>3, <2>4, LeavesNone DEF ParseOperators, Continue, Consume
  <2> QED
    BY <2>1, <2>2, <2>5, GoesOn
<1> QED
  BY <1>1, <1>2, <1>3, <1>4

\* Lists, statements and nodes.
LEMMA ListsStep ==
  ASSUME StackInv, ParseElements \/ ParseMore \/ ParseStmts \/ MakeNode
  PROVE  StackInv'
<1> DEFINE n == Len(made)
<1>1. CASE ParseElements
  <2>1. Calls("elements")
    BY <1>1 DEF ParseElements
  <2>2. n \in Nat /\ Arg[1] \in Elements
    BY <2>1, CallsFacts DEF IsItem, Arg
  <2>3. todo # <<>> /\ Takes(todo[1]) = 0 /\ Gives(todo[1]) = 1
    BY <2>1, ValueCall
  <2>4. CASE cur.kind = Arg[2]
    <3>1. Instead(<<Tok(Arg[2])>>) /\ Push(List(<<>>))
      BY <1>1, <2>4 DEF ParseElements, Continue
    <3> QED
      BY <2>2, <2>3, <3>1, ListsLeave, Pushes
  <2>5. CASE cur.kind # Arg[2]
    <3>1. Instead(NonEmptyList(Arg[1]) \o <<Tok(Arg[2])>>) /\ made' = made
      BY <1>1, <2>5 DEF ParseElements, Continue
    <3> QED
      BY <2>1, <2>2, <3>1, ListsLeave, ValueGoesOn
  <2> QED
    BY <2>4, <2>5
<1>2. CASE ParseMore
  <2>1. Calls("more")
    BY <1>2 DEF ParseMore
  <2> DEFINE e == Arg[1]  k == Arg[2]
  <2>2. /\ n \in Nat /\ todo # <<>> /\ e \in Elements /\ k \in Nat \ {0} /\ k \in 0..n
        /\ Takes(todo[1]) = k /\ Gives(todo[1]) = 1
    BY <2>1, CallsFacts DEF IsItem, Arg, Takes, Gives
  <2>3. CASE cur.kind = ","
    <3>1. Instead(<<e, With("more", <<e, k + 1>>)>>) /\ made' = made
      BY <1>2, <2>3 DEF ParseMore, Consume
    <3> HIDE DEF e, k
    <3>2. Turns(e, n, n + 1)
      BY <2>2, ElementTurns
    <3>3. Turns(With("more", <<e, k + 1>>), n + 1, n - k + 1)
      <4>1. k + 1 \in Nat \ {0} /\ n + 1 \in Nat /\ n - k + 1 \in Nat \ {0}
            /\ (n + 1) + 1 = (n - k + 1) + (k + 1)
        BY <2>2
      <4> QED
        BY <2>2, <4>1, MoreTurns
    <3>4. Leaves(<<e, With("more", <<e, k + 1>>)>>, n, n - k + 1)
      BY <3>2, <3>3, Leaves2
    <3> QED
      BY <2>2, <3>1, <3>4, GoesOn
  <2>4. CASE cur.kind # ","
    <3>1. Instead(<<>>) /\ Collapse(k, List(LastMade(k)))
      BY <1>2, <2>4 DEF ParseMore, Continue
    <3> QED
      BY <2>2, <3>1, Makes
  <2> QED
    BY <2>3, <2>4
<1>3. CASE ParseStmts
  <2>1. Calls("stmts")
    BY <1>3 DEF ParseStmts
  <2> DEFINE k == Arg
  <2>2. /\ n \in Nat /\ todo # <<>> /\ k \in Nat /\ k \in 0..n
        /\ Takes(todo[1]) = k /\ Gives(todo[1]) = 1
    BY <2>1, CallsFacts DEF IsItem, Arg, Takes, Gives
  <2>3. CASE cur.kind = "}"
    <3>1. Instead(<<>>) /\ Collapse(k, List(LastMade(k)))
      BY <1>3, <2>3 DEF ParseStmts, Consume
    <3> QED
      BY <2>2, <3>1, Makes
  <2>4. CASE cur.kind # "}"
    <3>1. Instead(<<Call("stmt"), With("stmts", k + 1)>>) /\ made' = made
      BY <1>3, <2>4 DEF ParseStmts, Continue
    <3> HIDE DEF k
    <3>2. Turns(Call("stmt"), n, n + 1)
      <4>1. "stmt" \in Values
        BY DEF Values, Simple
      <4> QED
        BY <2>2, <4>1, CallIs
    <3>3. Turns(With("stmts", k + 1), n + 1, n - k + 1)
      <4>1. k + 1 \in Nat /\ n + 1 \in Nat /\ n - k + 1 \in Nat \ {0}
            /\ (n + 1) + 1 = (n - k + 1) + (k + 1)
        BY <2>2
      <4> QED
        BY <4>1, StmtsTurns
    <3>4. Leaves(<<Call("stmt"), With("stmts", k + 1)>>, n, n - k + 1)
      BY <3>2, <3>3, Leaves2
    <3> QED
      BY <2>2, <3>1, <3>4, GoesOn
  <2> QED
    BY <2>3, <2>4
<1>4. CASE MakeNode
  <2>1. Calls("make") /\ Instead(<<>>) /\ Collapse(Arg[2], Created(Arg[1], LastMade(Arg[2])))
    BY <1>4 DEF MakeNode, Continue
  <2>2. todo # <<>> /\ Takes(todo[1]) = Arg[2] /\ Gives(todo[1]) = 1
    BY <2>1, CallsFacts DEF Arg, Takes, Gives
  <2> QED
    BY <2>1, <2>2, Makes
<1> QED
  BY <1>1, <1>2, <1>3, <1>4

\* What may be left out: nothing is parsed and an empty list is pushed, or the items.
LEMMA OptionalStep ==
  ASSUME StackInv, NEW f \in Values, NEW start, NEW items, NEW consume,
         Optional(f, start, items, consume), Leaves(items, Len(made), Len(made) + 1)
  PROVE  StackInv'
<1>1. Calls(f) /\ todo # <<>> /\ Takes(todo[1]) = 0 /\ Gives(todo[1]) = 1
  BY ValueCall DEF Optional
<1>2. CASE cur.kind # start
  <2>1. Instead(<<>>) /\ Push(List(<<>>))
    BY <1>2 DEF Optional, Continue
  <2>2. Leaves(<<>>, Len(made) + 1, Len(made) + 1)
    BY LeavesNone
  <2> QED
    BY <1>1, <2>1, <2>2, Pushes
<1>3. CASE cur.kind = start
  <2>1. Instead(items) /\ made' = made
    BY <1>3 DEF Optional, Continue, Consume
  <2> QED
    BY <1>1, <2>1, ValueGoesOn
<1> QED
  BY <1>2, <1>3

\* Clauses and optional lists.
LEMMA ClausesStep ==
  ASSUME StackInv,
         \/ ParseWhereClauses \/ ParseEquivalent \/ ParseOptionalIdentList \/ ParseOptionalDimList
         \/ ParseWhereClause
  PROVE  StackInv'
<1> DEFINE n == Len(made)
<1>1. {"whereClauses", "equivalent", "identList", "dimList", "whereClause"} \subseteq Values
  BY DEF Values, Simple
<1>2. {Exp(0), Call("ident"), Call("dim"), Call("whereClause")} \subseteq Elements
  BY DEF Elements
<1>3. ASSUME NEW f, Calls(f) PROVE n \in Nat
  BY <1>3, CallsFacts
<1>4. CASE ParseWhereClauses
  <2>1. n \in Nat
    BY <1>3, <1>4 DEF ParseWhereClauses, Optional
  <2>2. Leaves(NonEmptyList(Call("whereClause")), n, n + 1)
    BY <1>2, <2>1, NonEmptyLeaves
  <2> QED
    BY <1>1, <1>4, <2>2, OptionalStep DEF ParseWhereClauses
<1>5. CASE ParseEquivalent
  <2>1. n \in Nat
    BY <1>3, <1>5 DEF ParseEquivalent, Optional
  <2>2. Leaves(<<Call("ident")>> \o ListOf("(", Exp(0), ")") \o <<Make("equivalent", 2)>>, n, n + 1)
    BY <1>2, <2>1, ListsLeave
  <2> QED
    BY <1>1, <1>5, <2>2, OptionalStep DEF ParseEquivalent
<1>6. CASE ParseOptionalIdentList
  <2>1. n \in Nat
    BY <1>3, <1>6 DEF ParseOptionalIdentList, Optional
  <2>2. Leaves(ListOf("(", Call("ident"), ")"), n, n + 1)
    BY <1>2, <2>1, ListLeaves
  <2> QED
    BY <1>1, <1>6, <2>2, OptionalStep DEF ParseOptionalIdentList
<1>7. CASE ParseOptionalDimList
  <2>1. n \in Nat
    BY <1>3, <1>7 DEF ParseOptionalDimList, Optional
  <2>2. Leaves(ListOf("(", Call("dim"), ")"), n, n + 1)
    BY <1>2, <2>1, ListLeaves
  <2> QED
    BY <1>1, <1>7, <2>2, OptionalStep DEF ParseOptionalDimList
<1>8. CASE ParseWhereClause
  <2>1. Calls("whereClause") /\ made' = made
    BY <1>8 DEF ParseWhereClause
  <2>2. n \in Nat
    BY <1>3, <2>1
  <2>3. \/ Instead(LetBindingBody) \/ Instead(RangeConstraintBody) \/ Instead(ExistsBody)
    <3>1. CASE Ahead.kind = "="
      BY <1>8, <3>1 DEF ParseWhereClause
    <3>2. CASE Ahead.kind = "in"
      BY <1>8, <3>2 DEF ParseWhereClause
    <3>3. CASE Ahead.kind \notin {"=", "in"}
      BY <1>8, <3>3 DEF ParseWhereClause
    <3> QED
      BY <3>1, <3>2, <3>3
  <2> QED
    BY <1>1, <2>1, <2>2, <2>3, ClausesLeave, ValueGoesOn
<1> QED
  BY <1>4, <1>5, <1>6, <1>7, <1>8

\* Tokens, statements, parameters, functions and tactics.
LEMMA StatementsStep ==
  ASSUME StackInv,
         \/ Construct \/ ExpectToken
         \/ ParseStmt \/ ParseDim \/ ParseType \/ ParseParam \/ ParseFunction
         \/ ParseTactic \/ ParseTacticBody
  PROVE  StackInv'
<1> DEFINE n == Len(made)
<1>1. {"stmt", "dim", "type", "param", "function", "tactic", "const", "ident"} \subseteq Values
  BY DEF Values, Simple
<1>2. ASSUME NEW f \in {"lexer", "expect"}, Calls(f), Instead(<<>>), made' = made PROVE StackInv'
  <2>1. todo # <<>> /\ n \in Nat /\ Takes(todo[1]) = 0 /\ Gives(todo[1]) = 0
    BY <1>2, CallsFacts DEF Takes, Gives
  <2>2. Leaves(<<>>, n, n) /\ n - 0 + 0 = n
    BY <2>1, LeavesNone
  <2> QED
    BY <1>2, <2>1, <2>2, GoesOn
<1>3. ASSUME NEW f \in Values, Calls(f), made' = made,
             NEW items, Instead(items), n \in Nat => Leaves(items, n, n + 1)
      PROVE  StackInv'
  <2>1. n \in Nat
    BY <1>3, CallsFacts
  <2> QED
    BY <1>3, <2>1, ValueGoesOn
<1>4. CASE Construct \/ ExpectToken
  BY <1>2, <1>4 DEF Construct, ExpectToken, Consume
<1>5. CASE ParseStmt
  BY <1>1, <1>3, <1>5, StmtLeaves DEF ParseStmt, Continue
<1>6. CASE ParseDim
  <2>1. n \in Nat => Leaves(<<Call("const")>>, n, n + 1) /\ Leaves(<<Call("ident")>>, n, n + 1)
    BY <1>1, CallIs, Leaves1
  <2> QED
    BY <1>1, <1>3, <1>6, <2>1 DEF ParseDim, Continue
<1>7. CASE ParseType
  BY <1>1, <1>3, <1>7, TypesLeave DEF ParseType, Continue
<1>8. CASE ParseParam
  BY <1>1, <1>3, <1>8, TypesLeave DEF ParseParam, Continue
<1>9. CASE ParseFunction
  BY <1>1, <1>3, <1>9, FunctionLeaves DEF ParseFunction, Continue
<1>10. CASE ParseTactic
  BY <1>1, <1>3, <1>10, TacticLeaves DEF ParseTactic, Continue
<1>11. CASE ParseTacticBody
  <2>1. Calls("tacticBody") /\ made' = made
    BY <1>11 DEF ParseTacticBody
  <2>2. n \in Nat /\ todo # <<>> /\ Takes(todo[1]) = 1 /\ Gives(todo[1]) = 1 /\ n # 0
    BY <2>1, CallsFacts DEF Takes, Gives
  <2> DEFINE j == n - 1
  <2>3. j \in Nat /\ j + 1 = n /\ n - 1 + 1 = n
    BY <2>2
  <2> HIDE DEF j
  <2>4. /\ Leaves(<<Call("stmt"), Tok("how"), With("stmts", 1), Make("tactic", 2)>>, n, n)
        /\ Leaves(<<Tok("what = how"), Call("stmt"), Make("lone", 1), Make("tactic", 2)>>, n, n)
    BY <2>3, TacticLeaves
  <2>5. \E items : Instead(items) /\ Leaves(items, n, n)
    BY <1>11, <2>4 DEF ParseTacticBody, Continue, Consume
  <2> QED
    BY <2>1, <2>2, <2>3, <2>5, GoesOn
<1> QED
  BY <1>4, <1>5, <1>6, <1>7, <1>8, <1>9, <1>10, <1>11

\* Every function leaves what was expected of it: the invariant of the two stacks.
LEMMA StackStep == StackInv /\ [Next]_vars => StackInv'
<1> SUFFICES ASSUME StackInv, [Next]_vars PROVE StackInv'
  OBVIOUS
<1>1. CASE UNCHANGED vars
  BY <1>1 DEF vars, StackInv
<1>2. CASE Stop
  BY <1>2 DEF Stop, vars, StackInv
<1>3. CASE Step
  BY <1>3, ReadersStep, ExpsStep, ListsStep, ClausesStep, StatementsStep DEF Step
<1> QED
  BY <1>1, <1>2, <1>3 DEF Next

LEMMA StackInit == Init => StackInv
<1> SUFFICES ASSUME Init PROVE StackInv
  OBVIOUS
<1>1. input.entry \in Entries /\ todo = <<Call("lexer"), input.entry>> /\ made = <<>>
  BY InputsAssumption DEF Init
<1>2. Turns(input.entry, 0, 1)
  <2>1. CASE input.entry = Exp(0)
    BY <2>1, ExpTurns
  <2>2. ASSUME NEW f \in {"stmt", "function", "tactic"}, input.entry = Call(f)
        PROVE  Turns(input.entry, 0, 1)
    BY <2>2, CallIs DEF Values, Simple
  <2> QED
    BY <1>1, <2>1, <2>2 DEF Entries
<1>3. Turns(Call("lexer"), 0, 0)
  BY DEF Turns, Call, IsItem, Takes, Gives, Simple
<1>4. Leaves(todo, 0, 1)
  BY <1>1, <1>2, <1>3, Leaves2
<1>5. made \in Seq({}) /\ Len(made) = 0
  BY <1>1
<1> QED
  BY <1>4, <1>5 DEF StackInv

\* The lexer stays in its text.
Within == /\ text \in Seq(STRING) /\ thrown \in BOOLEAN
          /\ pos \in 1..(Len(text) + 1) /\ End(cur) \in 1..pos

\* No token ends outside of the text (MatchWithin).
LEMMA WithinStep ==
  ASSUME AheadExact, Within, [LexNext]_lexVars
  PROVE  Within'
<1>1. CASE UNCHANGED lexVars
  BY <1>1 DEF lexVars, Within, End
<1>2. CASE LexNext
  <2>1. ~thrown
    BY <1>2 DEF LexNext
  <2>2. Len(text) \in Nat /\ pos \in Nat /\ End(cur) \in Nat
    BY DEF Within
  <2> DEFINE t == Match(text, pos)
  <2>3. End(t) \in pos..(Len(text) + 1)
    BY MatchWithin DEF Within
  <2> HIDE DEF t
  <2>4. CASE NextToken /\ look # <<>>
    <3>1. cur' = look[1] /\ UNCHANGED <<text, pos, thrown>> /\ pos = End(look[1])
      BY <2>4 DEF NextToken, AheadExact
    <3>2. End(cur)' = pos
      BY <3>1 DEF End
    <3> QED
      BY <2>2, <3>1, <3>2 DEF Within
  <2>5. ASSUME Lex, text' = text, cur' = cur \/ (~thrown' /\ cur' = t) PROVE Within'
    <3>1. \/ thrown' = TRUE /\ pos' = pos /\ cur' = cur
          \/ thrown' = FALSE /\ pos' = End(t) /\ (cur' = cur \/ cur' = t)
      BY <2>1, <2>5 DEF Lex, Lexed, t, Within
    <3>2. End(cur)' = End(cur) \/ (pos' = End(t) /\ End(cur)' = End(t))
      BY <3>1 DEF End
    <3>3. thrown' \in BOOLEAN /\ (pos' = pos \/ pos' = End(t))
      BY <3>1
    <3>4. pos' \in pos..(Len(text) + 1)
      <4>1. pos \in pos..(Len(text) + 1)
        BY DEF Within
      <4> QED
        BY <2>3, <3>3, <4>1
    <3> QED
      BY <2>2, <2>3, <2>5, <3>2, <3>3, <3>4 DEF Within
  <2>6. CASE NextToken /\ look = <<>>
    BY <2>5, <2>6 DEF NextToken, Lexed, t
  <2>7. CASE Lookahead
    <3>1. CASE look # <<>>
      BY <2>7, <3>1, <1>1 DEF Lookahead
    <3>2. CASE look = <<>>
      BY <2>5, <2>7, <3>2 DEF Lookahead
    <3> QED
      BY <3>1, <3>2
  <2>8. CASE ReportError
    BY <2>8 DEF ReportError, Within, End
  <2> QED
    BY <1>2, <2>4, <2>6, <2>7, <2>8 DEF LexNext
<1> QED
  BY <1>1, <1>2

LEMMA WithinInit == Init => Within
<1> SUFFICES ASSUME Init PROVE Within
  OBVIOUS
<1>1. text \in Seq(STRING)
  BY InputsAssumption DEF Init
<1>2. pos = 1 /\ thrown = FALSE /\ cur.start = 1 /\ cur.len = 0
  BY DEF Init, LexInit, Start, Token
<1>3. End(cur) = 1
  BY <1>2 DEF End
<1>4. pos \in 1..(Len(text) + 1) /\ End(cur) \in 1..pos
  BY <1>1, <1>2, <1>3
<1>5. thrown \in BOOLEAN
  BY <1>2
<1> QED
  BY <1>1, <1>4, <1>5 DEF Within

\* The three invariants together say what TypeOK says.
LEMMA TypeFollows ==
  ASSUME AheadExact, Within, StackInv
  PROVE  TypeOK
<1>1. PICK S : todo \in Seq(S)
  BY DEF StackInv, Leaves
<1>2. PICK h : Heights(h, todo, Len(made)) /\ h[Len(todo) + 1] = 1
  BY DEF StackInv, Leaves
<1>3. \A p \in DOMAIN todo : IsItem(todo[p])
  BY <1>1, <1>2 DEF Heights
<1>4. todo # <<>> => Takes(todo[1]) <= Len(made)
  BY StackFacts
<1>5. todo = <<>> => Len(made) = 1
  <2> SUFFICES ASSUME todo = <<>> PROVE Len(made) = 1
    OBVIOUS
  <2>1. Len(todo) + 1 = 1
    OBVIOUS
  <2>2. h[1] = Len(made)
    BY <1>2 DEF Heights
  <2>3. h[1] = 1
    BY <1>2, <2>1
  <2> QED
    BY <2>2, <2>3
<1>6. Len(look) <= 1
  <2>1. CASE look = <<>>
    BY <2>1
  <2>2. CASE look # <<>>
    <3>1. PICK x : look = <<x>>
      BY <2>2 DEF AheadExact
    <3> QED
      BY <3>1
  <2> QED
    BY <2>1, <2>2
<1> QED
  BY <1>3, <1>4, <1>5, <1>6 DEF TypeOK, Within

\* Every function of the parser finds the values it takes and the caller gets one
\* tree, whatever the text and wherever it breaks off (parser.h:33-322); the lexer
\* stays in its text.
THEOREM ParserTypeOK == Spec => []TypeOK
<1> DEFINE Inv == AheadExact /\ Within /\ StackInv
<1>1. Init => Inv
  BY AheadInit, WithinInit, StackInit DEF Init
<1>2. Inv /\ [Next]_vars => Inv'
  BY ParserStep, AheadStep, WithinStep, StackStep
<1>3. Inv => TypeOK
  BY TypeFollows
<1> QED
  BY <1>1, <1>2, <1>3, PTL DEF Spec
===============================================================================
