-------------------------------- MODULE Parser --------------------------------
(***************************************************************************)
(* The recursive-descent parser (dsl/parser.h) on top of the Lexer.  Its   *)
(* call stack is the variable todo: what the active functions still have   *)
(* to do, innermost first.  An item is a token to expect, a function to    *)
(* call with its argument, or a node to make of the values parsed last,    *)
(* which are on the stack made.  A call replaces an item by the body of    *)
(* the function, chosen by the current token, so a step is one call or one *)
(* token.                                                                  *)
(*                                                                         *)
(* Left out is the branch of parseBaseExp for TK '.' (parser.h:79-82): no  *)
(* spelling of Table yields that token.                                    *)
(***************************************************************************)
EXTENDS Lexer, Trees

CONSTANTS
  Inputs,      \* the calls to study: pairs of a text and a record, whose field entry is
               \* the call and whose other fields say what is known of it (see Grammar)
  OutOfRange   \* the texts of numbers that are too large or too small for a double, on
               \* which std::stod throws

VARIABLES
  input,    \* the record of the call under study; never changed
  todo,     \* what the functions on the call stack still have to do
  made      \* the values they have so far

vars == <<text, pos, cur, look, thrown, input, todo, made>>

Tok(kind)     == [call |-> "expect", arg |-> kind]
Call(f)       == [call |-> f, arg |-> 0]
With(f, a)    == [call |-> f, arg |-> a]
Exp(p)        == With("exp", p)
Make(node, n) == [call |-> "make", arg |-> <<node, n>>]

\* parseList, parseNonEmptyList: zero or more, one or more elements.
ListOf(begin, elem, end) == <<Tok(begin), With("elements", <<elem, end>>)>>
NonEmptyList(elem)       == <<elem, With("more", <<elem, 1>>)>>

\* What is parsed is a tactic, as in the driver, or one of the larger parts of a text, and
\* a text is a sequence of characters.
Entries == {Exp(0)} \cup {Call(f) : f \in {"stmt", "function", "tactic"}}
ASSUME InputsAssumption == \A q \in Inputs : q[1] \in Seq(STRING) /\ q[2].entry \in Entries

Running == ~thrown /\ todo # <<>>
Calls(f) == Running /\ todo[1].call = f
Arg == todo[1].arg

\* A list or an option, and a node that is only a token.
List(ts)   == [kind |-> "list", elems |-> ts]
Leaf(kind) == [kind |-> kind]

Push(v)        == made' = Append(made, v)
Instead(items) == todo' = items \o Tail(todo)

\* The function goes on with items and reads no token itself.
Continue(items) == Instead(items) /\ UNCHANGED lexVars
\* It reads the current token first.
Consume(items)  == NextToken /\ Instead(items)

\* The values of the last n items, and made with v in their place.
LastMade(n)    == SubSeq(made, Len(made) - n + 1, Len(made))
Collapse(n, v) == made' = Append(SubSeq(made, 1, Len(made) - n), v)

-------------------------------------------------------------------------------
\* Lexer::Lexer: the first token.
Construct == Calls("lexer") /\ Consume(<<>>) /\ UNCHANGED made

\* L.expect(kind)
ExpectToken == Calls("expect") /\ Expect(Arg) /\ Instead(<<>>) /\ UNCHANGED made

\* An expected token with a text.  On an error the values made are lost.
ParseIdent ==
  /\ Calls("ident")
  /\ Expect("ident")
  /\ Instead(<<>>)
  /\ Push(Ident(TextOf(text, cur)))

\* A number is a float if it is written with a point or a small e.  doubleValue throws
\* on one that is out of range; how far the lexer has read by then is left out.
ParseConst ==
  /\ Calls("const")
  /\ LET s == TextOf(text, cur)
     IN  IF cur.kind = "number" /\ s \in OutOfRange THEN ReportError /\ UNCHANGED <<todo, made>>
         ELSE /\ Expect("number")
              /\ Instead(<<>>)
              /\ Push(Const(s, IF Contains(s, ".") \/ Contains(s, "e") THEN "float" ELSE "int32"))

ParseScalarType ==
  /\ Calls("scalarType")
  /\ IF cur.kind \in ScalarTypes THEN Consume(<<>>) /\ Push(Leaf(cur.kind))
     ELSE ReportError /\ UNCHANGED <<todo, made>>

-------------------------------------------------------------------------------
ParseBaseExp ==
  /\ Calls("base")
  /\ UNCHANGED made
  /\ \/ cur.kind = "number"        /\ Continue(<<Call("const")>>)
     \/ cur.kind = "("             /\ Consume(<<Exp(0), Tok(")")>>)
     \/ cur.kind \in ScalarTypes   /\ Continue(<<Call("scalarType"), Tok("("), Exp(0), Tok(")"),
                                                 Make("cast", 2)>>)
     \/ cur.kind \in {"min", "max"} /\ Consume(<<Tok("("), Exp(0), Tok(","), Exp(0), Tok(")"),
                                                 Make(cur.kind, 2)>>)
     \/ /\ cur.kind \notin {"number", "(", "min", "max"} \cup ScalarTypes
        /\ Continue(<<Call("ident"), Call("arguments")>>)

\* The end of parseBaseExp: an identifier may be the name of an access.
ParseArguments ==
  /\ Calls("arguments")
  /\ Continue(IF cur.kind = "(" THEN ListOf("(", Exp(0), ")") \o <<Make("apply", 2)>> ELSE <<>>)
  /\ UNCHANGED made

\* Mutant: a unary operator takes everything up to an operator that binds as
\* weakly as the context.
ParseExpWideUnary ==
  /\ Calls("exp")
  /\ UNCHANGED made
  /\ IF IsUnary(cur.kind) THEN Consume(<<Exp(Arg), Make(cur.kind, 1), With("operators", Arg)>>)
     ELSE Continue(<<Call("base"), With("operators", Arg)>>)

\* parseExp(precedence) up to its loop
ParseExp ==
  /\ Calls("exp")
  /\ UNCHANGED made
  /\ IF IsUnary(cur.kind)
     THEN Consume(<<Exp(UnaryPrec[cur.kind]), Make(cur.kind, 1), With("operators", Arg)>>)
     ELSE Continue(<<Call("base"), With("operators", Arg)>>)

\* Mutant: all operators associate to the right.
ParseOperatorsRight ==
  /\ Calls("operators")
  /\ UNCHANGED made
  /\ IF IsBinary(cur.kind) /\ BinaryPrec[cur.kind] > Arg
     THEN Consume(IF cur.kind = "?"
                  THEN <<Exp(0), Tok(":"), Exp(0), Make("?", 3), With("operators", Arg)>>
                  ELSE <<Exp(BinaryPrec[cur.kind] - 1), Make(cur.kind, 2), With("operators", Arg)>>)
     ELSE Continue(<<>>)

\* One turn of the loop of parseExp: an operator that binds more strongly than
\* the context takes what has been parsed as its first operand.
ParseOperators ==
  /\ Calls("operators")
  /\ UNCHANGED made
  /\ LET k == cur.kind
         right == IF IsRightAssociative(k) THEN BinaryPrec[k] - 1 ELSE BinaryPrec[k]
     IN  IF ~IsBinary(k) \/ BinaryPrec[k] <= Arg THEN Continue(<<>>)
         ELSE Consume((IF k = "?" THEN <<Exp(0), Tok(":"), Exp(right), Make(k, 3)>>  \* parseTrinary
                                  ELSE <<Exp(right), Make(k, 2)>>)
                        \o <<With("operators", Arg)>>)

-------------------------------------------------------------------------------
\* parseList after its begin token
ParseElements ==
  /\ Calls("elements")
  /\ IF cur.kind = Arg[2] THEN Continue(<<Tok(Arg[2])>>) /\ Push(List(<<>>))
     ELSE Continue(NonEmptyList(Arg[1]) \o <<Tok(Arg[2])>>) /\ UNCHANGED made

\* while (L.nextIf(','))
ParseMore ==
  /\ Calls("more")
  /\ IF cur.kind = "," THEN Consume(<<Arg[1], With("more", <<Arg[1], Arg[2] + 1>>)>>) /\ UNCHANGED made
     ELSE Continue(<<>>) /\ Collapse(Arg[2], List(LastMade(Arg[2])))

\* Mutant: the statements end with the text too.
ParseStmtsToTheEnd ==
  /\ Calls("stmts")
  /\ IF cur.kind \in {"}", "eof"} THEN Consume(<<>>) /\ Collapse(Arg, List(LastMade(Arg)))
     ELSE Continue(<<Call("stmt"), With("stmts", Arg + 1)>>) /\ UNCHANGED made

\* Mutant: tokens that start no statement are skipped instead of reported.
ParseStmtsSkipping ==
  /\ Calls("stmts")
  /\ CASE cur.kind = "}"     -> Consume(<<>>) /\ Collapse(Arg, List(LastMade(Arg)))
       [] cur.kind = "ident" -> Continue(<<Call("stmt"), With("stmts", Arg + 1)>>) /\ UNCHANGED made
       [] OTHER              -> NextToken /\ UNCHANGED <<todo, made>>

\* while (!L.nextIf('}')) stmts.push_back(parseStmt())
ParseStmts ==
  /\ Calls("stmts")
  /\ IF cur.kind = "}" THEN Consume(<<>>) /\ Collapse(Arg, List(LastMade(Arg)))
     ELSE Continue(<<Call("stmt"), With("stmts", Arg + 1)>>) /\ UNCHANGED made

-------------------------------------------------------------------------------
\* parseWhereClauses, parseEquivalent, parseOptionalIdentList,
\* parseOptionalDimList: each may parse nothing.
Optional(f, start, items, consume) ==
  /\ Calls(f)
  /\ IF cur.kind # start THEN Continue(<<>>) /\ Push(List(<<>>))
     ELSE (IF consume THEN Consume(items) ELSE Continue(items)) /\ UNCHANGED made

ParseWhereClauses == Optional("whereClauses", "where", NonEmptyList(Call("whereClause")), TRUE)
ParseEquivalent   == Optional("equivalent", "<=>",
                              <<Call("ident")>> \o ListOf("(", Exp(0), ")") \o <<Make("equivalent", 2)>>,
                              TRUE)
ParseOptionalIdentList == Optional("identList", "(", ListOf("(", Call("ident"), ")"), FALSE)
ParseOptionalDimList   == Optional("dimList", "(", ListOf("(", Call("dim"), ")"), FALSE)

LetBindingBody == <<Call("ident"), Tok("="), Exp(0), Make("let", 2)>>
RangeConstraintBody == <<Call("ident"), Tok("in"), Exp(0), Tok(":"), Exp(0), Make("range", 3)>>
ExistsBody == <<Tok("exists"), Exp(0), Make("exists", 1)>>

\* Mutant: the clauses are told apart by the current token.
ParseWhereClauseCurrent ==
  /\ Calls("whereClause")
  /\ UNCHANGED made
  /\ Continue(IF cur.kind = "exists" THEN ExistsBody ELSE LetBindingBody)

\* parseWhereClause tells the clauses apart by the token after the current one.
ParseWhereClause ==
  /\ Calls("whereClause")
  /\ Lookahead
  /\ Instead(CASE Ahead.kind = "="  -> LetBindingBody
               [] Ahead.kind = "in" -> RangeConstraintBody
               [] OTHER             -> ExistsBody)
  /\ UNCHANGED made

Assigns == {"=", "+=", "*=", "min=", "max=", "+=!", "*=!", "min=!", "max=!"}

ParseAssignment ==
  /\ Calls("assignment")
  /\ IF cur.kind \in Assigns THEN Consume(<<>>) /\ Push(Leaf(cur.kind))
     ELSE ReportError /\ UNCHANGED <<todo, made>>

ParseStmt ==
  /\ Calls("stmt")
  /\ Continue(<<Call("ident"), Call("identList"), Call("assignment"), Exp(0),
                Call("equivalent"), Call("whereClauses"), Make("stmt", 6)>>)
  /\ UNCHANGED made

-------------------------------------------------------------------------------
\* An element of parseDimList, a parameter with its type, or without.
ParseDim   == Calls("dim")   /\ Continue(<<Call(IF cur.kind = "number" THEN "const" ELSE "ident")>>)
                             /\ UNCHANGED made
ParseType  == Calls("type")  /\ Continue(<<Call("scalarType"), Call("dimList"), Make("type", 2)>>)
                             /\ UNCHANGED made
ParseParam == Calls("param") /\ Continue(IF cur.kind = "ident" THEN <<Call("ident"), Make("inferred", 1)>>
                                         ELSE <<Call("type"), Call("ident"), Make("param", 2)>>)
                             /\ UNCHANGED made

ParseFunction ==
  /\ Calls("function")
  /\ Continue(<<Tok("def"), Call("ident")>> \o ListOf("(", Call("param"), ")") \o <<Tok("->")>>
                \o ListOf("(", Call("param"), ")") \o <<Tok("{"), With("stmts", 0), Make("def", 4)>>)
  /\ UNCHANGED made

\* parseTactic: its head, and what follows the brace; the closing brace of the
\* short form is not read.
ParseTactic ==
  /\ Calls("tactic")
  /\ Continue(<<Tok("def"), Call("ident"), Tok("{"), Call("tacticBody")>>)
  /\ UNCHANGED made
ParseTacticBody ==
  /\ Calls("tacticBody")
  /\ UNCHANGED made
  /\ IF cur.kind = "what"
     THEN Consume(<<Call("stmt"), Tok("how"), With("stmts", 1), Make("tactic", 2)>>)
     ELSE Continue(<<Tok("what = how"), Call("stmt"), Make("lone", 1), Make("tactic", 2)>>)

-------------------------------------------------------------------------------
\* The create functions of tree_views.h, on the values parsed for a node.
Param(name, type, dims)               == [name |-> name, type |-> type, dims |-> dims]
Def(name, params, returns, statements) ==
  [name |-> name, params |-> params, returns |-> returns, statements |-> statements]

Names(ts) == [p \in DOMAIN ts |-> ts[p].name]
Created(node, v) ==
  CASE node = "apply"      -> Apply(v[1].name, v[2].elems)
    [] node = "cast"       -> Op(v[1].kind, <<v[2]>>)
    [] node = "let"        -> Let(v[1].name, v[2])
    [] node = "range"      -> RangeConstraint(v[1].name, v[2], v[3])
    [] node = "exists"     -> Exists(v[1])
    [] node = "equivalent" -> List(<<Equivalent(v[1].name, v[2].elems)>>)
    [] node = "stmt"       -> [Comprehension(v[1].name, Names(v[2].elems), v[3].kind, v[4], v[6].elems)
                                 EXCEPT !.equivalent = v[5].elems]
    [] node = "lone"       -> List(<<v[1]>>)
    [] node = "tactic"     -> Tac(v[1].name, v[2].elems)
    [] node = "type"       -> [type |-> v[1].kind, dims |-> v[2].elems]
    [] node = "inferred"   -> Param(v[1].name, "inferred", <<>>)
    [] node = "param"      -> Param(v[2].name, v[1].type, v[1].dims)
    [] node = "def"        -> Def(v[1].name, v[2].elems, v[3].elems, v[4].elems)
    [] OTHER               -> Op(node, v)

MakeNode ==
  /\ Calls("make")
  /\ Continue(<<>>)
  /\ Collapse(Arg[2], Created(Arg[1], LastMade(Arg[2])))

-------------------------------------------------------------------------------
Init ==
  /\ \E q \in Inputs : text = q[1] /\ input = q[2]
  /\ todo = <<Call("lexer"), input.entry>>
  /\ made = <<>>
  /\ LexInit

\* The caller has the tree, or the exception has ended the program.
Stop == ~Running /\ UNCHANGED vars

Step ==
  /\ UNCHANGED input
  /\ \/ Construct \/ ExpectToken \/ ParseIdent \/ ParseConst \/ ParseScalarType
     \/ ParseBaseExp \/ ParseArguments \/ ParseExp \/ ParseOperators
     \/ ParseElements \/ ParseMore \/ ParseStmts
     \/ ParseWhereClauses \/ ParseEquivalent \/ ParseOptionalIdentList \/ ParseOptionalDimList
     \/ ParseWhereClause \/ ParseAssignment \/ ParseStmt
     \/ ParseDim \/ ParseType \/ ParseParam \/ ParseFunction
     \/ ParseTactic \/ ParseTacticBody \/ MakeNode

Next == Step \/ Stop

\* The parser is sequential and never waits.
Spec == Init /\ [][Next]_vars /\ WF_vars(Step)
-------------------------------------------------------------------------------
\* How many values an item takes from those made, and how many it leaves.
Takes(item) == CASE item.call \in {"arguments", "operators", "tacticBody"} -> 1
                 [] item.call \in {"more", "make"} -> item.arg[2]
                 [] item.call = "stmts" -> item.arg
                 [] OTHER -> 0
Gives(item) == IF item.call \in {"lexer", "expect"} THEN 0 ELSE 1

\* The items that can be on the call stack; those that lists are made of.
Elements == {Exp(0)} \cup {Call(f) : f \in {"ident", "dim", "param", "whereClause"}}
Simple   == {"lexer", "ident", "const", "scalarType", "base", "arguments", "whereClauses",
             "equivalent", "identList", "dimList", "whereClause", "assignment", "stmt",
             "dim", "type", "param", "function", "tactic", "tacticBody"}
IsItem(item) ==
  CASE item.call \in {"exp", "operators"} -> item.arg \in 0..7
    [] item.call = "elements" -> item.arg[1] \in Elements
    [] item.call = "more"     -> item.arg[1] \in Elements /\ item.arg[2] \in Nat \ {0}
    [] item.call = "stmts"    -> item.arg \in Nat
    [] item.call = "make"     -> item.arg[2] \in Nat
    [] OTHER -> item.call \in Simple \cup {"expect"}

\* The lexer stays in its text, with at most one token read ahead.  Every function
\* finds the values it takes: a node is made when all its children are there, and of
\* nothing else, and the caller gets one tree.
TypeOK ==
  /\ pos \in 1..(Len(text) + 1)
  /\ End(cur) \in 1..pos
  /\ Len(look) <= 1
  /\ thrown \in BOOLEAN
  /\ \A p \in DOMAIN todo : IsItem(todo[p])
  /\ todo # <<>> => Takes(todo[1]) <= Len(made)
  /\ todo = <<>> => Len(made) = 1

\* "find the longest match" (lexer.h:196-249): wherever a token is looked for and
\* whatever the order in which match tries numbers, identifiers and the table, no longer
\* token starts at the same place, a spelling of the table is never an identifier, and
\* nothing is skipped but blanks and comments.  With one exception, in which the code
\* does not do what it says: nan, inf and infinity are numbers to strtod, so that an
\* identifier that begins with one, as info, is read as a number and the rest of it.
TokensExact == Calls("lexer") => \A p \in 1..(Len(text) + 1) : MatchesLongest(text, p)
===============================================================================
