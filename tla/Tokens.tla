-------------------------------- MODULE Tokens --------------------------------
(***************************************************************************)
(* The tokens of a text (dsl/lexer.h): SharedParserData with its table of  *)
(* tokens and its precedences, and match, which finds the token at a       *)
(* position.                                                               *)
(*                                                                         *)
(* A text is a sequence of characters.  A reserved word is one character   *)
(* here and counts as a letter: "what" followed by a letter is still an    *)
(* identifier, and "what = how" still a token with blanks in it.  "nan"    *)
(* stands for the words that strtod takes for numbers (nan, inf and        *)
(* infinity) and is a letter too.  Hexadecimal numbers and nan(...), which *)
(* strtod also takes, are left out.  Positions count from 1.               *)
(***************************************************************************)
EXTENDS Naturals, Sequences, FiniteSets, SequencesExt

CONSTANTS Alphabetic,   \* the letters and "_" of names
          Digits        \* the digits

Decimals == {"0", "1", "2", "3", "4", "5", "6", "7", "8", "9", "."}

\* A letter is no digit, and the decimal point is neither.
ASSUME CharactersAssumption ==
  Digits \subseteq Decimals \ {"."} /\ Alphabetic \cap Decimals = {}

ScalarTypes == {"bool", "uint8", "uint16", "uint32", "uint64", "int8", "int16", "int32",
                "int64", "float16", "float32", "float64", "float", "double"}

Words == {"what", "how", "min", "max", "where", "def", "in", "exists"} \cup ScalarTypes

\* valid_single_char_tokens
Singles == {"+", "-", "*", "/", "(", ")", "[", "]", "?", ":", ",", "=", "{", "}", ">", "<",
            "!", "%"}

\* The kinds of tokens that have one spelling, and the spellings, which
\* SharedParserData inserts in the trie.
Kinds == Words \cup Singles \cup
  {"what = how", "->", "<=>", "+=", "+=!", "*=", "*=!", "min=", "min=!", "max=", "max=!",
   ">=", "<=", "==", "!=", "&&", "||"}
Spelling ==
  [k \in Kinds |->
     CASE k = "what = how" -> <<"what", " ", "=", " ", "how">>
       [] k = "->"    -> <<"-", ">">>       [] k = "<=>"   -> <<"<", "=", ">">>
       [] k = "+="    -> <<"+", "=">>       [] k = "+=!"   -> <<"+", "=", "!">>
       [] k = "*="    -> <<"*", "=">>       [] k = "*=!"   -> <<"*", "=", "!">>
       [] k = "min="  -> <<"min", "=">>     [] k = "min=!" -> <<"min", "=", "!">>
       [] k = "max="  -> <<"max", "=">>     [] k = "max=!" -> <<"max", "=", "!">>
       [] k = ">="    -> <<">", "=">>       [] k = "<="    -> <<"<", "=">>
       [] k = "=="    -> <<"=", "=">>       [] k = "!="    -> <<"!", "=">>
       [] k = "&&"    -> <<"&", "&">>       [] k = "||"    -> <<"|", "|">>
       [] OTHER       -> <<k>>]

\* The kind of every spelling.
Table == [s \in Range(Spelling) |-> CHOOSE k \in Kinds : Spelling[k] = s]

\* The nodes of the trie.
Trie == UNION {Prefixes(s) : s \in DOMAIN Table}

Blanks  == {" ", "\n"}
Letters == Alphabetic \cup Words \cup {"nan"}

\* validIdent, of the character at offset i of a word
ValidIdent(i, ch) == ch \in Letters \/ (i > 0 /\ ch \in Digits)
-------------------------------------------------------------------------------
\* The precedences: listed in increasing order for binary operators, then unary.
BinaryPrec ==
  [k \in {"?", "||", "&&", ">", "<", "<=", ">=", "==", "!=", "+", "-", "*", "/", "%"} |->
     CASE k = "?" -> 1 [] k = "||" -> 2 [] k = "&&" -> 3
       [] k \in {">", "<", "<=", ">=", "==", "!="} -> 4
       [] k \in {"+", "-"} -> 5 [] k \in {"*", "/", "%"} -> 6]
UnaryPrec == [k \in {"-", "!"} |-> 7]

IsUnary(kind)  == kind \in DOMAIN UnaryPrec
IsBinary(kind) == kind \in DOMAIN BinaryPrec
IsRightAssociative(kind) == kind = "?"
-------------------------------------------------------------------------------
\* What strtod reads: the words above, or digits with at most one point and at
\* least one digit, and an exponent.  (The characters are looked at first only to
\* settle quickly what is no number.)
NumberChars == Digits \cup {"nan", ".", "e", "E", "+", "-"}
Mantissa(s) == /\ Range(s) \subseteq Digits \cup {"."} /\ Range(s) \cap Digits # {}
               /\ Cardinality({p \in DOMAIN s : s[p] = "."}) <= 1
Exponent(s) == \/ s = <<>>
               \/ s[1] \in {"e", "E"} /\ Len(s) > 1 /\ Range(Tail(s)) \subseteq Digits
               \/ s[1] \in {"e", "E"} /\ Len(s) > 2 /\ s[2] \in {"+", "-"}
                                      /\ Range(SubSeq(s, 3, Len(s))) \subseteq Digits
Numeral(s) == /\ \A p \in DOMAIN s : s[p] \in NumberChars
              /\ \/ s = <<"nan">>
                 \/ \E m \in 1..Len(s) : /\ Mantissa(SubSeq(s, 1, m))
                                         /\ Exponent(SubSeq(s, m + 1, Len(s)))

\* isNumber: the length of the longest number at the start of s, 0 without one.
\* A sign never starts one.
NumberLength(s) ==
  LET lens == {n \in 1..Len(s) : Numeral(SubSeq(s, 1, n))}
  IN  IF lens = {} THEN 0 ELSE CHOOSE n \in lens : \A m \in lens : m <= n

\* Where the comment at position q ends: at the newline, or at the end of the text.
EndOfLine(text, q) ==
  CHOOSE e \in q..(Len(text) + 1) : /\ e = Len(text) + 1 \/ text[e] = "\n"
                                    /\ \A r \in q..(e - 1) : text[r] # "\n"

\* The first position from p that is neither blank nor in a comment.
SkipFrom(text, p) ==
  LET skip[q \in 1..(Len(text) + 1)] ==
        IF q <= Len(text) /\ text[q] \in Blanks THEN skip[q + 1]
        ELSE IF q <= Len(text) /\ text[q] = "#" THEN skip[EndOfLine(text, q)] ELSE q
  IN  skip[p]

\* What the loop of match keeps while it goes over characters: their number i, whether
\* they can still be an identifier, the node of the trie, and the longest match so far.
\* Of an identifier and a token of the same length the token wins.
Marks == [i : Nat, ident : BOOLEAN, node : Seq(STRING), len : Nat,
          kind : {"bad", "ident"} \cup Range(Table)]
Unmatched == [i |-> 0, ident |-> TRUE, node |-> <<>>, len |-> 0, kind |-> "bad"]

\* Mutant: identifiers are checked second.
ScanStepIdentSecond(m, ch) ==
  LET ident == m.ident /\ ValidIdent(m.i, ch)
      node  == Append(m.node, ch)
      token == node \in DOMAIN Table
  IN  [i |-> m.i + 1, ident |-> ident, node |-> node,
       len  |-> IF ident \/ token THEN m.i + 1 ELSE m.len,
       kind |-> IF ident THEN "ident" ELSE IF token THEN Table[node] ELSE m.kind]

ScanStep(m, ch) ==
  LET ident == m.ident /\ ValidIdent(m.i, ch)
      node  == Append(m.node, ch)
      token == node \in DOMAIN Table
  IN  [i |-> m.i + 1, ident |-> ident, node |-> node,
       len  |-> IF ident \/ token THEN m.i + 1 ELSE m.len,
       kind |-> IF token THEN Table[node] ELSE IF ident THEN "ident" ELSE m.kind]

Scan(s) ==
  LET scan[m \in Marks] ==
        IF m.i < Len(s) /\ (m.ident \/ m.node \in Trie) THEN scan[ScanStep(m, s[m.i + 1])] ELSE m
  IN  scan[Unmatched]

Token(kind, start, len) == [kind |-> kind, start |-> start, len |-> len]

\* The position after a token, and its characters.
End(t) == t.start + t.len
TextOf(text, t) == SubSeq(text, t.start, End(t) - 1)

\* Mutant: the end of the text is a character long.
MatchWideEnd(text, p) ==
  LET start == SkipFrom(text, p)
      rest  == SubSeq(text, start, Len(text))
      n     == NumberLength(rest)
  IN  CASE rest = <<>> -> Token("eof", start, 1)
        [] rest # <<>> /\ n > 0 -> Token("number", start, n)
        [] OTHER -> LET m == Scan(rest) IN Token(m.kind, start, m.len)

\* match: the token at position p; of kind "bad" where it returns false.
Match(text, p) ==
  LET start == SkipFrom(text, p)
      rest  == SubSeq(text, start, Len(text))
      n     == NumberLength(rest)
  IN  CASE rest = <<>> -> Token("eof", start, 0)
        [] rest # <<>> /\ n > 0 -> Token("number", start, n)
        [] OTHER -> LET m == Scan(rest) IN Token(m.kind, start, m.len)
-------------------------------------------------------------------------------
\* What match should find, without saying how.  From m to n, a text is blanks
\* and comments.
Skippable(text, m, n) ==
  \A p \in m..n : \/ text[p] \in Blanks
                  \/ \E q \in m..p : text[q] = "#" /\ \A r \in q..p : text[r] # "\n"

\* A name, or a spelling of the table.
IsName(s)  == s # <<>> /\ s[1] \in Letters /\ ToSet(s) \subseteq Letters \cup Digits
IsToken(s) == s \in DOMAIN Table
IsEither(s) == IsName(s) \/ IsToken(s)

\* A number is the longest one, and if it is no word, nothing else starts there.
LongestNumber(text, t) ==
  LET Prefix(n) == SubSeq(text, t.start, n)
  IN  /\ Numeral(TextOf(text, t))
      /\ \A n \in t.start..Len(text) : Numeral(Prefix(n)) => n < End(t)
      /\ text[t.start] # "nan" => \A n \in t.start..Len(text) : ~IsEither(Prefix(n))

\* The token at position p comes after nothing but blanks and comments.  It ends
\* the text; or it is a number where one starts, the longest number, and no name or
\* spelling starts there unless the number is a word; or it is the longest name or
\* spelling that starts there, a spelling if it is both; or it is bad and none starts
\* there.
MatchesLongest(text, p) ==
  LET t == Match(text, p)
      Prefix(n) == SubSeq(text, t.start, n)
  IN  /\ t.start \in p..(Len(text) + 1)
      /\ Skippable(text, p, t.start - 1)
      /\ t.kind = "eof" <=> t.start = Len(text) + 1
      /\ t.kind = "number" <=> \E n \in t.start..Len(text) : Numeral(Prefix(n))
      /\ t.kind = "number" => LongestNumber(text, t)
      /\ t.kind \notin {"eof", "number"} =>
           /\ text[t.start] \notin Blanks \cup {"#"}
           /\ \A n \in t.start..Len(text) : IsEither(Prefix(n)) => n < End(t)
           /\ t.kind = "bad" <=> t.len = 0
           /\ t.len > 0 =>
                /\ End(t) <= Len(text) + 1
                /\ IF IsToken(TextOf(text, t)) THEN t.kind = Table[TextOf(text, t)]
                   ELSE IsName(TextOf(text, t)) /\ t.kind = "ident"
===============================================================================
