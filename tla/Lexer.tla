-------------------------------- MODULE Lexer --------------------------------
(***************************************************************************)
(* The Lexer (dsl/lexer.h): its position in the text, the current token    *)
(* and at most one token read ahead.  The operators are its methods; a     *)
(* caller uses them as parts of its own actions.                           *)
(***************************************************************************)
EXTENDS Tokens

VARIABLES
  text,        \* file
  pos,         \* where lex goes on
  cur,         \* cur_
  look,        \* lookahead_: a sequence of at most one token
  thrown       \* an ErrorReport was thrown

lexVars == <<text, pos, cur, look, thrown>>

\* reportError: nothing catches the ErrorReport.
ReportError == thrown' = TRUE /\ UNCHANGED <<text, pos, cur, look>>

\* lex: the token at pos, which is handed to the caller.
Lexed == Match(text, pos)
Lex   == LET t == Lexed IN
         IF t.kind = "bad" THEN thrown' = TRUE /\ UNCHANGED pos
                           ELSE pos' = End(t) /\ UNCHANGED thrown

\* Mutant: next reads on in the text when a token has been read ahead.
NextTokenDropsAhead ==
  /\ Lex
  /\ cur' = IF thrown' THEN cur ELSE Lexed
  /\ look' = <<>>
  /\ UNCHANGED text

\* next
NextToken ==
  IF look # <<>> THEN cur' = look[1] /\ look' = <<>> /\ UNCHANGED <<text, pos, thrown>>
  ELSE Lex /\ cur' = (IF thrown' THEN cur ELSE Lexed) /\ UNCHANGED <<text, look>>

\* The token that lookahead returns
Ahead == IF look # <<>> THEN look[1] ELSE Lexed

\* Mutant: the token read ahead is not kept.
LookaheadForgets ==
  IF look # <<>> THEN UNCHANGED lexVars ELSE Lex /\ UNCHANGED <<text, cur, look>>

\* lookahead
Lookahead ==
  IF look # <<>> THEN UNCHANGED lexVars
  ELSE Lex /\ look' = (IF thrown' THEN look ELSE <<Lexed>>) /\ UNCHANGED <<text, cur>>

\* nextIf
NextIf(kind) == IF cur.kind = kind THEN NextToken ELSE UNCHANGED lexVars

\* expect
Expect(kind) == IF cur.kind = kind THEN NextToken ELSE ReportError
-------------------------------------------------------------------------------
\* The constructor: the current token is that of the empty range, and next runs.
Start   == Token("eof", 1, 0)
LexInit == pos = 1 /\ cur = Start /\ look = <<>> /\ thrown = FALSE

\* The steps of any caller.
LexNext == ~thrown /\ (NextToken \/ Lookahead \/ ReportError)
LexSpec == LexInit /\ [][LexNext]_lexVars

\* The token read ahead is the one after the current token, and lex goes on
\* after the last token read: a caller that looks ahead and one that does not
\* read the same tokens (lexer.h:370-391).
AheadExact ==
  /\ look = <<>> => pos = End(cur)
  /\ look # <<>> => /\ look = <<Match(text, End(cur))>> /\ look[1].kind # "bad"
                    /\ pos = End(look[1])

\* The lexer delivers the tokens of its text, each one where the last one
\* ended, although lookahead has already moved pos (lexer.h:370-399).
StreamOfTokens == INSTANCE TokenStream WITH token <- cur, broken <- thrown, NoToken <- Start
ImplementsStream == StreamOfTokens!Stream
===============================================================================
