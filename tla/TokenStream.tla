------------------------------ MODULE TokenStream ------------------------------
(***************************************************************************)
(* What a Lexer promises its caller: the tokens of the text one after the  *)
(* other, none skipped, none twice, whatever the caller looked at ahead.   *)
(* After the last token the end of the text is delivered again and again.  *)
(***************************************************************************)
CONSTANTS Match(_, _),   \* the token of a text at a position
          End(_),        \* the position after a token
          NoToken        \* the empty token before the text

VARIABLES text,    \* the text
          token,   \* the token delivered last
          broken   \* an error was thrown

streamVars == <<text, token, broken>>

StreamInit == token = NoToken /\ broken = FALSE

\* The next token is the one that starts where the last one ended.
Deliver ==
  /\ ~broken
  /\ token' = Match(text, End(token))
  /\ token'.kind # "bad"
  /\ UNCHANGED <<text, broken>>

\* The text goes on with no token, or the caller finds this one unexpected.
Break ==
  /\ ~broken
  /\ broken' = TRUE
  /\ UNCHANGED <<text, token>>

StreamNext == Deliver \/ Break

Stream == StreamInit /\ [][StreamNext]_streamVars
===============================================================================
