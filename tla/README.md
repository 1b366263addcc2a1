# TacticsDSL in TLA+

TacticsDSL turns a *tactic* into TableGen text. A tactic names a loop nest to
recognise (`what`) and a list of tensor statements that compute the same thing
with library calls (`how`):

    def TTGT {
      what
      C(a,b,c) += A(a,c,d) * B(d,b)
      how
      D(f,b) = C(a,b,c) where f = a * c
      E(f,d) = A(a,c,d) where f = a * c
      D(f,b) += E(f,d) * B(d,b)
      C(a,b,c) = D(f,b) where f = a * c
    }

Every statement of `how` becomes one builder, or a builder and a helper that
communicate through a generated tensor `tmpN`. The program is sequential, and
its difficulty is not concurrency: it is that a lowering is decided by a chain
of recognisers which share a matching context, overwrite each other's results,
throw or abort half way, and draw names from a counter that outlives them; and
that the permutations, groups and positions they compute are right for the
shapes that were tried.

## Inventory

| part | source | state it keeps | operations | hard behaviour |
|---|---|---|---|---|
| matching context | `dsl/matchers.h`, `dsl/matchers.cpp` | `placeholderMap_`, the thread's current context, the thread's `nextId_` | open, register, assign, read, close | reserved string for "unbound"; partial bindings of a failed match; ids shared by all contexts of a thread |
| access matchers | same | none (write the context) | `match` of an access, of a product | left-to-right binding must decide unification |
| contraction recognisers | `dsl/emitter.cpp:28-433, 838-871` | a `MatMulInfo`/`MatVecInfo` per statement | `matchMatMul`, `matchMatVec`, `matchConv` and their emitters | results overwritten, flags accumulated, order of attempts, catch-all convolution |
| view recognisers | `dsl/emitter.cpp:435-836` | a `ReshapeInfo`/`TransposeInfo` per statement | `matchReshape`, `emitReshape`, `printGroup`, `matchTranspose` | direction of permutations, positions of groups, text of the map, asserts |
| symbol table | `dsl/emitter.h:73-84`, `dsl/emitter.cpp:7-17` | `nextId_`, `lastEmittedVar_` (thread_local) | next name, last name | never reset; names may be the user's |
| lowering and driver | `dsl/emitter.cpp:873-968`, `main.cpp` | the output stream | `emitTactic`, `emitWhat`, `emitHow` | first recogniser wins; failures in the middle of a tactic |
| syntax tree | `dsl/tree.h`, `dsl/tree_views.h` | immutable nodes | constructors, typed views, `map`, printing | views check kind and arity at run time |
| lexer | `dsl/lexer.h`, `dsl/lexer.cpp` | position, current token, one token of lookahead | `next`, `lookahead`, `expect` | longest match; numbers before identifiers |
| parser | `dsl/parser.h` | the lexer | recursive descent, precedence climbing | lookahead in where clauses; end of a tactic |
| semantic analysis | `dsl/sema.h` | environments per function and per statement, type of every node | `checkFunction` and below | stale environments, first type wins, `+=!` |
| reports, options | `dsl/error_report.h`, `dsl/compiler_options.h` | message text | `throw`, `warn` | none |

The driver creates one `Emitter` per statement and calls `emitWhat` on the
first, `emitHow` on the others. `emitHow` tries matmul, matvec, reshape,
transpose, convolution and stops at the first that succeeds. A contraction
recogniser opens a context, creates placeholders (whose constructor registers
them with it), runs one matcher over the tree, reads the bindings back and
closes the context. The view recognisers read the tree directly; `emitReshape`
is the only user of the symbol table. Communication is by calls and through the
two thread_local objects; nothing is persisted.

What makes each part correct:

* context and matchers: a pattern matches exactly the trees that unify with it;
* recognisers: a builder says what its statement says, and a statement that is
  a matrix product or a matrix-vector product over different indices is recognised
  as one, but for a matrix product that is both scaled and transposed, which the
  code does not know. A product in which two indices coincide may be taken for one
  too (`matchers_distinct`);
* views: the printed transposes and reshapes compose to the statement;
* symbol table: a generated tensor is private to the statement it was made for, and
  to those that name it themselves;
* driver: each statement is lowered once, in order, and nothing follows a failure;
* lexer: where a number starts it is read, as long as it is; elsewhere the token is
  the longest name or token of the table. So the token is the longest one, but for
  an identifier that begins with `nan`, `inf` or `infinity`: these are numbers to
  `strtod`, and `info` is read as a number and an identifier. No token is skipped or
  repeated by a caller that looks ahead;
* parser: what is written is read back as it was meant; a function or a tactic with a
  `how` part that is cut off is rejected, and of the short form only the closing brace
  may be missing; every parse ends;
* semantic analysis: scopes are those of the text, and what was accepted stays
  well typed whatever follows.

## Modules

    Placeholders <- Matchers ----INSTANCE----> Unification
         ^             ^
         |             +-- MCMatchers, MatchersProofs
    Contraction <- Views <- Emitter <- MCEmitter
         |                    ^  ^---- EmitterProofs -> RecogniserProofs
       Trees <- Builders -----+
         ^
         +--- Parser <- Reading <- Grammar <- MCParser
              |  ^         ^---- CompletenessProofs -> ReadingProofs -> ParserProofs
              |  +---- ParserProofs
    Tokens <- Lexer ----INSTANCE----> TokenStream

    Types <- Sema <- MCSema
               ^---- SemaProofs

    RecogniserProofs, ParserProofs, SemaProofs -> DataInduction

**Placeholders** is `MatchingContext` as pure operators on a map from ids to
names. There is no "empty" value in the code, so there is none here:
`Unassigned` is the string `"nullptr"`, and whether `Names` contains it is the
choice of the run.

**Matchers** is the life of a thread that matches: `OpenContext`,
`NewPlaceholder`, `BeginMatch`, `AssignSlot`, `ClashSlot`, `EndWalk`,
`CloseContext`, for context after context. A matcher and a tree are abstracted
to a *goal*: the (placeholder, name) pairs `OpAccessMatch::match` assigns, in its
order, and whether kinds, arities and argument kinds fit. `BeginMatch` takes any
goal over the registered placeholders, so every matcher that can be built with
`m_Access` and `m_Mul` is covered, not only the nine of `emitter.cpp`.

**Unification** is the promise: a goal is posed, then accepted with its solution
if it is solvable and rejected if not, in one step. `Matchers` implements it under
the mapping `U`, which hides contexts, placeholders and positions.

**Trees** has the nodes the parser creates and the emitter reads. A node carries the
results of the emitter's walks (number of accesses, identifiers in preorder, the
tokens `recursivelyEmitRhs` prints) as attributes computed from its children, so
that no operator is recursive.

**Tokens** is `SharedParserData`: the table of spellings and its trie, the
precedences, and `match`: blanks and comments (`SkipFrom`), then numbers, then one loop over
identifier and trie (`ScanStep`); `MatchesLongest` states what it should find. Characters are members of a small set; a reserved
word is a single character that also counts as a letter, so that `what` can be
the start of an identifier and of `what = how`. **Lexer** has the members of `Lexer`
as variables and its methods as operators that a caller uses inside its own
actions. **TokenStream** is its promise, without a position and without
lookahead: the tokens of the text one after the other. `Lexer` implements it with
`token <- cur`.

**Parser** is the recursive descent with the call stack as a variable: `todo` is
what the active functions still have to do, `made` the values they hold. Each
function of `parser.h` is an action that replaces its item by its body, chosen by
the current token; loops (operators, list elements, statements) are items that
put themselves back. A step is one call or one token, so lookahead, errors and
the place where a text ends fall between any two of them. `TypeOK` says that the two
stacks agree: what a function takes (`Takes`) is there when its turn comes.

**Reading** and **Grammar** judge the parser without being built like it. In
Reading, `Reads(txt, i, j, p)` is the set of trees that the tokens `i` to `j - 1` of a
text can be when only operators above the precedence `p` stand outside of
parentheses: one production per shape of node, each from the readings of shorter
ranges, binary operators by splitting the range at every operator. The table of all
ranges is a recursive function over their length, so that theorems can use it. In
Grammar, `WriteExp`, `WriteStmt`, `WriteTactic`, `WriteDef` write a tree with the
fewest parentheses. The node shapes are those listed at the top of `tree_views.h`.

**Contraction** and **Views** are the recognisers, each an operator from a
statement to an outcome: `no`, `throw`, `abort` (an assert; the build has them
on) or `emit` with the builders. `Recognise` is the common body of nine C++
functions; `GemmTries` keeps what `matchMatMul` does with five of them: all are
tried, the last of the `Hits` provides the names, the transposition flags accumulate.
`EmitReshape1` follows `emitReshape` in order, down to the token sequence of
`getReshapeMap`, commas included.

**Builders** says what the printed builders mean, independently of the emitter:
a tensor is the sequence of the index names of its dimensions, a transpose
permutes it (`TransposeRight`), a reshape regroups it, by one where clause
(`ComputesView`) or by one for each of two dimensions (`GroupRight`). The direction of a
permutation and the form of a map are those the expected strings of
`test/dsltest.cpp` show. Only `Supported` looks at the emitter: it names the reshapes
that `emitReshape` lowers rightly.

**Emitter** is the driver with one action per recogniser. `Try` is one `if` of
`emitHow`. State: the tactic, the statement being lowered, what comes next, the
counter of the symbol table and the records printed. The counter starts
anywhere up to `MaxEarlier`, as earlier tactics of the thread left it. An abort
ends the process, and what the statement had already sent to the buffered stream
is lost with it; records are of statements that returned. `EmitWhat` prints the
pattern as its tokens, or the bare header before it throws.

**Types** has `TypeInfo`, `match_types` and the order *Fits* that its error message
speaks of. **Sema** is `checkFunction` over one function: `CheckParam`, then for
each statement `RegisterIndices`, `CheckWhere` per clause, `CheckRhs`, `Define`,
`CheckEquivalent`, `Finish`, then `CheckReturns`; each may throw. The actions are
the stretches of `checkStmt` between which the environments differ. The variables
are the members of `Sema` (`env`, `index_env`, `let_env`, `reduction_variables`;
`annotated_output_types`, `inputParameters` and `nonTemporaries` are functions of
the signature) and the statements checked so far. An expression is its nodes in
postfix with their arities, and `checkExp` a fold with a stack of types, so that no
operator is recursive. The tail of Sema says what the text of a function means:
`Uses` are the places where a statement uses a name, `Bound` the names that mean
something in a part of it, `Unbound` the uses of the others, and `InOrder` relates
those to a list of reduction variables.

**MCMatchers**, **MCEmitter**, **MCParser**, **MCSema** give the constants their values.
**MatchersProofs**, **EmitterProofs**, **ParserProofs**, **ReadingProofs**,
**CompletenessProofs** and **SemaProofs** have the theorems; **RecogniserProofs** and
**DataInduction** have lemmas they rest on: what the recognisers compute for every
statement, and induction.

## Runs

| run | question | bounds, and why they are enough |
|---|---|---|
| `matchers` | is a match decided rightly, are bindings kept, is nothing inherited, does a match return, does the walk implement unification? (`TypeOK`, `MatchExact`, `BindingStable`, `NothingInherited`, `MatchReturns`, `ImplementsUnification`, and the inductive invariant `WalkInv`) | 3 names, 4 placeholders, 3 slots: a placeholder can be bound, met again with the same and with another name, around a slot of another one, in two contexts. No symmetry, because of liveness |
| `matchers_sentinel` | *violation*: one value per placeholder, if a name may be the reserved string | |
| `matchers_distinct` | *violation*: different placeholders, different names | |
| `emitter` | does a contraction builder say what its statement says, and is none missed? do the builders of a view compose to the view, those of a reshape exactly where the emitter supports it, and do groups list the dimensions their clauses fold? is every statement lowered once and in order, and are generated tensors private? (`GemmExact`, `GemvExact`, `TransposeExact`, `ReshapeExact`, `GroupsExact`, `LoweredInOrder`, `TempsPrivate`, `TypeOK`) | statements on their own: all placements of three indices in operands of rank 2x2 (outputs `(i,j)`, `(i,i)`) and 2x1, plain and scaled, operands that alias each other or the output, five shapes of where clause; all transpositions of rank 3 and 4; folds of any number of adjacent indices on either side, among one to four in any order; two where clauses over four or five dimensions in any order; statements that are no views; patterns that are accepted and rejected; tensors that the tactic itself calls `tmp0` and `tmp1`. Three indices are the roles of a product, two of which may coincide (`matchers_distinct`); a fourth would only add mismatches. Tactics: up to three statements out of eight, two of which generate a tensor, two abort or throw; counter 0 or 1 at the start. `Supported` (in `Builders`) draws the limits of `emitReshape`, which are findings: each violation run below leaves it in one direction |
| `emitter_cycle` | *violation*: permutations agree | rank 3, all permutations |
| `emitter_split` | *violation*: the map covers the dimensions | rank 4, fold on the right-hand side |
| `emitter_map` | *violation*: the map is well formed | rank 4, fold not in front |
| `emitter_flatten` | *violation*: assertions hold on views that mean something | one statement |
| `parser` | are tokens the longest numbers, names and spellings, does lookahead disturb none, is an expression read as the grammar reads it and is none missed, is what is written read back, is what is cut off rejected (the short form: unless only its brace is missing), is a printed pattern read back, does every parse end? (`TokensExact`, `AheadExact`, `ImplementsStream`, `ExpSound`, `ExpComplete`, `ReadsBack`, `CutIsRejected`, `PatternReadsBack`, `ParseEnds`, `TypeOK`) | all sequences of up to three of twelve tokens and all chains of three operators out of six with a signed operand or of four out of four: precedence and associativity are decided between two neighbours and the context, which a chain of four has. All texts of up to three of fourteen characters, and longer ones around `what = how` and the exponents of numbers; numbers beyond a double's range among operands (`OutOfRange`); no token but `what = how` depends on more than three. Expressions of two levels, tactics and functions with every kind of clause, assignment and parameter; cuts at every token, of the long and of the short form |
| `sema` | do scopes end with their statement, are reduction variables the names without a meaning, are outputs defined and inputs unwritten, do annotations hold and refuse nothing that fits, do accepted reads stay typed, is the warning exact? (`ReductionsExact`, `OutputsOnly`, `AnnotationRespected`, `RefusedOnlyNarrower`, `ReadsStayTyped`, `WarnedExact`, `TypeOK`) | five parameter lists that are legal and six that are not, six return lists, all sequences of up to two of forty statements: every kind of clause and node, each error of `checkStmt` and `checkExp`, redefinitions with another rank, names used before their let, indices that hide a dimension or the output. Two statements are enough for one scope to leak into the next and for one definition to meet another |
| `sema_reduction` | *violation*: a reduction without reduction variables is an assignment | as `sema` |
| `sema_annotation` | *violation*: an annotated output has the annotated type | as `sema` |

`Matchers` runs do not check for deadlock: a thread may stop creating contexts,
and the bound on ids stops it for certain. In `Emitter`, in `Parser` and in `Sema`
the end is the explicit `Stop`, so deadlock is checked: it would be a state in which
the code has no next statement to execute.

**Fairness.** `Matchers` assumes weak fairness of `AssignSlot`, `ClashSlot` and
`EndWalk` together: `match` is a loop without waiting, so once entered it goes on;
nothing is assumed of the caller. `Parser` assumes weak fairness of `Step`: it is
sequential code that waits for nothing. What is to be shown is that its loops
consume tokens or throw; the mutant of `ParseEnds` skips a token that starts no
statement instead of reporting it, and turns for ever at the end of the text.

**Findings.** The violation runs are disagreements between the code and its own
comments, assertions and tests; PROJECT.json quotes both sides. In short: the
reserved string and the non-distinct placeholders of the matcher; and in
`emitReshape`, the inverse permutation, the width of a group that is split, the
punctuation of maps, and the assertion that a total fold fails; and in
`checkStmt`, the assignment that is computed and not used, and the annotation that
is checked and not applied. All of `emitReshape`'s go unnoticed with the shapes of the
tests, which use self-inverse permutations, rank three, and no asserted strings
for the splits. Two further disagreements have no run of their own, but are stated
as the one exception in a property that holds otherwise: identifiers that begin with
a number that is a word, against `lexer.h:196` (`TokensExact`), and a float that
is refused for an output declared `float32` with the message that it is narrower,
`sema.h:525-538` (`RefusedOnlyNarrower`).

## Proofs

`MatchersProofs` is about any set of names, any number of placeholders and slots.

1. `TypeCorrect`: `TypeOK` is inductive. Its part that matters is that goals speak
   of registered placeholders (the assertion "placeholder not registered") and
   that no placeholder has the id about to be handed out. The lemmas
   `GoalsMonotone` and `GoalTypeMonotone` carry goals over to a larger map.
2. `WalkCorrect`: `MatchExact` is not inductive: it says nothing while the walk
   runs. `WalkInv` adds that the slots before `pos` are fulfilled, and that a
   placeholder holds a name only if one of these slots asked for it. The second
   part is what makes a clash (`ClashContradicts`) prove that the *goal* is
   contradictory and not merely that something was left in the map. Opening a
   context with an empty map establishes it (`WalkInvStep`).
3. `MatchIsExact`, `OneValue` follow; `BindingsAreStable` needs `TypeOK` only: a
   registration cannot hit an id that is bound.
4. `NothingIsInherited` needs no assumption on names: a bound name was asked for by
   a slot before `pos`. It is inductive together with `TypeOK`, and its step for
   `AssignSlot` (`AssignAskedFor`) is shared with `WalkInv`.
5. `Refinement`: `ContradictoryUnsolvable` and `FulfilledSolves` connect the
   outcome of the walk with `Solvable` and `Solution`; every action is then a
   step of `Unification` or a stutter.

`WalkCorrect`, `MatchIsExact`, `OneValue` and `Refinement` assume
`Unassigned \notin Names`. The code does not guarantee it; `matchers_sentinel`
shows what happens without it. `TypeCorrect`, `BindingsAreStable` and
`NothingIsInherited` need no assumption.

`EmitterProofs` is about any set of tactics and any start of the counter. What is
assumed of a statement is what the constructors of the tree guarantee
(`EmitterConstants`, by `IsStatement` of `Trees`): a product has two operands, and the
names in an access are among those of the tree.

1. `LoweredInOrder` is not inductive: it does not say where the driver stands.
   `ProgressInv` adds that (before the pattern nothing is printed; while a statement
   is tried, `at` is one of the tactic's and every record is older; at the footer all
   are lowered). All that is used of the recognisers is `Outcome`: one builder or two
   of different kinds, or none. A lemma for each of the five (`MatMulOutcome` to
   `ReshapeOutcome`) proves that from its definition. `EmitterTypeOK` and
   `EmitterLoweredInOrder` follow.
2. `EmitterGemmExact`, `EmitterGemvExact`: the lemmas `MatMulExact` and `MatVecExact` of
   `RecogniserProofs` say of every statement that a builder is printed for the forms
   of a product that the code knows (`FitsGemm`, `FitsGemv`), whether or not indices
   coincide, and for these only, and describes the product. Their core is `MatMulWalk`: the walk over the
   two accesses succeeds if and only if some assignment of names to roles fits both,
   and then returns it. `GemmHitsAre` says which of the five tries succeed (several
   may, when indices coincide), `FlagsAgree` that flags accumulated over several
   successes are still right for the names of the last one. `ProductsInv` puts this
   next to `ProgressInv`, since *which statement a record came from* is only known of
   the position the driver is at. Other kinds of builders cannot take a product's
   place (`OtherKind`, `OthersExact`), for the products are tried first.
3. `EmitterTempsPrivate`: `TempsInv` says that every record writes a tensor of the
   tactic or a generated one, and reads the tactic's tensors or what the record
   just before it generated; that generated tensors have numbers below the counter
   and are pairwise different (a tensor of the tactic may have the name of one, which is what
   the exceptions in `TempsPrivate` are for); and that a statement that reaches `matchTranspose`
   with one access is nothing but that access (matchReshape has taken or aborted on
   the others), which is why the transpose's operand is one of the tactic's tensors.
   A lemma per recogniser (`MatMulLowers` to `ReshapeLowers`) says what its builders
   read and write.
4. `EmitterTransposeExact`, `EmitterGroupsExact`: views of any rank. `TransposeLowered` is
   that matchReshape leaves a transposition alone, since both sides have as many
   indices (`NoLonger`), and that matchTranspose prints the permutation: `OrderingIs`
   says of the loops of `getOrdering` that they find every name of one side at its
   place on the other. `GroupLowered` is that matchReshape takes a grouping, since the
   sides cannot have as many indices when each clause folds two or more
   (`GroupSides`), that each position is the one of the dimension that the clause
   folds (`PositionIs`), and that the loop of `composeGroup`, with its commas, prints
   what a list of numerals in braces is (`BracedIs`). `ViewsInv` carries both along:
   `Lowered` grows by the statement at hand, whose records are the new ones, and a
   view is taken before the recognisers after its own are asked (`ViewsTry`).

5. `EmitterReshapeExact`: reshapes with one clause, of any rank, with any number of folded
   indices, in any order. `emitReshape` is wrong of many of them (the findings above), so
   the theorem says of which it is right: exactly the `Supported` ones. `ReshapeSides`
   gives the shape of such a statement: one side has the folded index, at a position
   `e` among `m`, and stands for `k` indices. `ToReshapeIs` and `Stretched` are that the
   two groups of `getReshapeMap` are a stretch of positions from `e` on and those
   besides; `MapText` is the text it writes of them, token by token, `RenderIs` the text
   that the dimensions stand for, and `MapRight` compares the two: equal for two of three
   and, when the fold comes first on the left-hand side, two of four; different in
   length or in a token otherwise. `OrderingTells` is that `getOrdering` is
   consecutive only if the two sides agree, and permutes the way it is used only if
   it is its own inverse. `ChainComputes` puts a reshapeBuilder before or after a
   transposeBuilder, through the generated tensor. `ReshapeInv` carries the result
   along: what a record list has for a statement (`Held`) is what it was lowered to
   and stays so (`HeldLast`, `HeldBefore`).

`EmitterGemmExact` and `EmitterGemvExact` assume `NoReservedName`: no index or tensor is
called "nullptr". The parser does not guarantee it; it holds of the tactics of the run
`emitter`. The other theorems about `Emitter` need no assumption on names.
`EmitterTempsPrivate` holds of tactics with tensors called `tmpN` too: the property itself
says that the statements that name such a tensor may touch it.

The first half of `ParserProofs` is about the lexer: any text, and any caller of `Lexer`
(`LexSpec` calls `next`, `lookahead` and `reportError` in any order). `AheadExact` is
inductive; with it, a step is the delivery of the next token, the end, or a stutter
(`LexerImplementsStream`). Nothing is used of `match` for that.

Then comes `match`, for every sequence of characters. `MatchIsLongest` says of every
position what `MatchesLongest` states without an algorithm. `SkipRight` is the loop over blanks and
comments, by induction over what is left of the text. `ScanRight` is the loop over
identifier and trie: `ScanInv` says that the node is the prefix read so far, that
`ident` tells whether all of it may be a name, and that the match kept is the longest
up to there; that the loop may stop before the text ends is `OffTrie`: no spelling
goes on from a prefix that is not in the trie. A number that is no word starts with a
digit or a point (`NumeralStarts`), where no name and no spelling does: that letters are
no digits is `CharactersAssumption`.

The second half of `ParserProofs` is about any set of texts, read from any of the four entries (`Entries`);
of a text it is assumed that it is a sequence of characters (`InputsAssumption`).

1. `ParserCallsLexer`: every action of the parser is a step of a caller of the lexer, or
   leaves the lexer alone. So what holds of every caller carries over
   (`ParserImplementsStream`, `ParserAheadExact`), and since the parser never changes its
   text, so does the longest match (`ParserTokensExact`).
2. `ParserTypeOK`: `TypeOK` is not inductive. It says that the function to be called next
   finds its values, and nothing of those behind it, which find theirs if all before
   them leave what they should. `StackInv` says that: from the values there are, the
   items left to do leave exactly one (`Leaves`, by a function `Heights` from each
   position among the items to the number of values there). A step replaces the first
   item by its body (`InsteadKeeps`), so all that is to be shown of a function is that
   each of its bodies leaves what the call would: `ExpsLeave` to `TacticLeaves` add up
   every body of `parser.h`, with the operators and lists that put themselves back and
   the two functions that take a value they have not parsed. `Within` keeps the
   position and the current token in the text.

`ReadingProofs` and `CompletenessProofs` compare `parseExp` with the grammar of `Reading`,
on every text. The grammar (`Reads`) says which trees the tokens from one place up to
another are: it splits them at their *last* operator, and never mentions a loop.
The parser goes from left to right, with loops over operators and arguments.

1. `ParserExpSound`: what comes out is a reading. `ReadTable` is unfolded once, into one
   lemma per production. `Does` says of each item of the call stack what its function
   does, if it returns: which tokens it consumes and what it leaves of the values, in
   terms of readings; `Reaches` says it of several items one after the other. The
   invariant (`ExpInv`) is that whatever the items on the stack can reach is a reading
   of the whole and ends where `MayEnd` holds. A call replaces an item by others, so one
   lemma per branch of a function (`BaseOfParens` to `ElementsSome`) shows that these reach
   no more than the item does.
2. `ParserExpComplete`: no reading is missed, so there is at most one. First a reading is
   taken apart from the left (`Decompose`): an operand, and then the turns that the loop
   over operators would make, each with an operator that binds more tightly than the
   context; a list likewise (`ListFills`). `Can` says of an item what its function is
   sure to do where the tokens ahead are of the grammar, `Gets` of several items. The
   invariant (`CompleteInv`) is that the items left can still get each reading of
   the whole; a step keeps it since what is given at the start of a step is what one of
   its branches, the one the current token selects, does. No token of a reading is
   bad (`ReadsSpotless`), so the lexer does not throw on the way. When nothing is left
   to do, nothing else can be got (`GetsNone`): the value there is the reading.
   Soundness is not used: the two theorems are independent and together say that
   `parseExp` computes the grammar.

`ExpComplete` is asked of a reading only if the token after it is no bad one:
`parseExp` ends by lexing that token, and throws there.

`SemaProofs` is about any set of functions and built-ins. `FunctionsAssumption` is what
the parser delivers: lists, clauses of the three kinds, and expressions in which
every node finds its operands.

1. `OutputsCorrect`: `OutputsOnly` is not inductive. The check that no input is
   written runs in `RegisterIndices`, the check that an output is written in `Finish`,
   and `env` gets the name in `Define`, before the statement is accepted. `OutputsInv`
   says what is known of the statement in between (`stmt.name \notin Inputs`) and
   where every name of `env` comes from, with the one that is *pending*. `CheckExp`
   stays opaque: whatever it answers, outputs are right.
2. `ReductionsCorrect`, `ReadsTyped`, `WarningsCorrect`, `AnnotationsCorrect`: the
   properties speak of accepted statements, their proof of the one being checked.
   `ScopesInv` has a part for each statement of the *past* and one for the *present*:
   at every phase, the environments hold the names that the text of the statement
   binds up to that point and the reduction variables are the unbound ones among
   the uses up to that point, in order; the name being defined is known exactly if
   an earlier statement, a parameter or a use has made it so. Between the two, the
   relation of `checkExp` to the text (`Consistent`) is carried through
   one node after the other: `CheckNodeConsistent` for a node, `CheckExpConsistent` for
   an expression by induction over its postfix, `CheckWhereConsistent` for a clause.
3. `SemaTypes` is inductive on top of `ScopesInv`. What `checkExp` leaves on its stack is
   one type for every tree (`TreeSteps`, `CheckExpTyped`), and joins of `TypeInfo`
   types are such types (`JoinAllTyped`).

`RefusalsCorrect` needs no invariant: whatever `checkExp` answers, a type that `Fits` the
declared one and is not another token of it is matched with the declared one
(`FitsMatched`), so the statement is not refused for it.

`SemaProofs` also has: `match_types` is the least upper bound of `Fits`
(`MatchTypesIsJoin`), and as `Fits` is an order up to tokens of one `TypeInfo`, it is
commutative and associative up to these (`MatchTypesAnyOrder`): `matchAllTypes` may
fold the operands of an expression in any order.

`DataInduction`: the induction theorems of the library take a predicate as a
parameter, which the installed provers cannot instantiate. `Induction` says the same
of a *set* of numbers (from `NatLessThanWellFounded` and `WFMin`), and a function
that is defined by recursion on `0..n` is unfolded by a lemma of its own
(`CheckExpSteps`, `MatchAccessSteps`, `JoinAllSteps`, `SkipSteps`, `ScanSteps`,
`PositionsSteps`, `OrderingSteps`, `BracedSteps`, `CommasSteps`, `KeptSteps`, `FlatSteps`,
`ViewSteps`). So recursion in a
module that is proved about is a recursive function.

Only model-checked:

* liveness (`MatchReturns`, `ParseEnds`), for which there is no proof rule here;
* what `Grammar` says of written trees (`ReadsBack`, `CutIsRejected`,
  `PatternReadsBack`): its writer is made of RECURSIVE operators, and the provers lose
  SMT in a module that reaches one.

## Not modelled

* In the parser, the branch of `parseBaseExp` for `.` (`parser.h:79-82`): no spelling
  of the table lexes to that token, so it cannot be reached.
* Values of numbers, except for this: `Token::doubleValue` calls `std::stod`, which throws
  for a number outside of the range of a double although `strtod` has accepted it
  (`lexer.h:355`). Which texts these are is the constant `OutOfRange`; `ParseConst` throws
  on them and the grammar does not read them.
* Hexadecimal numbers and `nan(...)`, which `strtod` also accepts.
* The rewritten tree that `Sema` returns, apart from its reduction variables and
  types; error messages and source ranges (`error_report.h`, `SourceRange::highlight`,
  `mergeRanges`); the pretty printer; the run-time checks of kind and arity in the
  views, which the model's trees satisfy by construction.
* The literal text of the builders apart from the reshape map and the pattern.
* `Builders` has no meaning for convolutions (the repository does not say what one
  is) nor for two where clauses that are out of order or leave dimensions
  uncovered; those are lowered by the model, and `LoweredInOrder` speaks of them.

## Plan

1. *(done)* matching context, unification, proofs; recognisers; driver.
2. *(done)* `Sema`: environments across the statements of a function, with a throw
   at every point; scoping against a declarative definition; the type join.
3. *(done)* `Lexer` and `Parser`: token stream with lookahead; precedence climbing
   against a reference grammar; the printed pattern followed by the parser as a
   round trip; where a tactic ends.
4. *(done)* `Builders` for two-clause reshapes. *Left:* a store of symbolic tensors as
   an abstract specification of a whole tactic, implemented by `Emitter`.
5. *(done)* `LoweredInOrder`, the products, `TempsPrivate`, transpositions, groups and
   reshapes of every rank, for every tactic; the lexer for every caller and the
   longest match for every text; the two stacks of `Parser` for every text; its
   expressions, soundly and completely, for every text; scopes, reads, warnings,
   annotations and types of `Sema` for every function. *Left:* statements and tactics
   of the parser against a grammar, as its expressions.
