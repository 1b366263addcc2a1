-------------------------------- MODULE Views --------------------------------
(***************************************************************************)
(* The view recognisers of dsl/emitter.cpp: matchReshape, emitReshape and  *)
(* their helpers, matchTranspose and emitTranspose.                        *)
(*                                                                         *)
(* Positions are those of the C++ code, from 0.  The text of a reshape map *)
(* is a sequence of tokens: "{", "}", "," and numerals (std::to_string).   *)
(***************************************************************************)
EXTENDS Integers, FiniteSets, Contraction, Functions

Upto(n) == [p \in 1..n |-> p - 1]       \* <<0, ..., n - 1>>

\* std::find ... std::distance: the first position, or the length.
Position(x, s) ==
  IF Contains(s, x) THEN (CHOOSE p \in DOMAIN s : /\ s[p] = x
                                                  /\ \A q \in 1..(p - 1) : s[q] # x) - 1
  ELSE Len(s)

AllIn(xs, s) == \A p \in DOMAIN xs : Contains(s, xs[p])     \* find(targets, array)

\* The elements of s at some of its positions, in order.
Kept(s, places) ==
  LET kept[n \in 0..Len(s)] ==
        IF n = 0 THEN <<>> ELSE IF n \in places THEN Append(kept[n - 1], s[n]) ELSE kept[n - 1]
  IN  kept[Len(s)]

\* Insert with before the first what, then remove every what.
Substitute(target, what, with) ==
  IF ~Contains(target, what) THEN target
  ELSE LET first == Position(what, target)
           both  == SubSeq(target, 1, first) \o with \o SubSeq(target, first + 1, Len(target))
       IN  Kept(both, {p \in DOMAIN both : both[p] # what})

\* For each index of dest in order, the positions source has it at.
PositionsOf(x, source) ==
  LET found[n \in 0..Len(source)] ==
        IF n = 0 THEN <<>>
        ELSE IF source[n] = x THEN Append(found[n - 1], n - 1) ELSE found[n - 1]
  IN  found[Len(source)]
GetOrdering(source, dest) ==
  LET ordering[n \in 0..Len(dest)] ==
        IF n = 0 THEN <<>> ELSE ordering[n - 1] \o PositionsOf(dest[n], source)
  IN  ordering[Len(dest)]

IsConsecutive(ordering) ==
  \A p \in 2..Len(ordering) : ordering[p] = ordering[p - 1] + 1

-------------------------------------------------------------------------------
Numerals(ps) == [p \in DOMAIN ps |-> ToString(ps[p])]

\* The loop getReshapeMap repeats: positions run together, and a comma before
\* the last one only; of a single position too when commaAlone.
RunTogether(ps, commaAlone) ==
  LET digits == Numerals(ps)
  IN  IF ps = <<>> THEN <<>>
      ELSE Front(digits) \o (IF Len(ps) > 1 \/ commaAlone THEN <<",">> ELSE <<>>)
             \o <<Last(digits)>>

\* getReshapeMap, on sequences of positions that its asserts accept.
GetReshapeMap(group, rest) ==
  IF Contains(group, 0)
  THEN <<"{", "{">> \o RunTogether(group, TRUE)
         \o (IF Len(rest) = 1 THEN <<"}">> ELSE <<"}", ",">>)
         \o RunTogether(rest, TRUE) \o <<"}">>
  ELSE <<"{">> \o RunTogether(rest, FALSE)
         \o (IF Len(rest) = 1 THEN <<",", "{">> ELSE <<>>)
         \o RunTogether(group, TRUE) \o <<"}", "}">>

\* assert(notToReshape.size()), and dimension 0 is found in one of the two.
ReshapeMapAsserts(group, rest) ==
  rest # <<>> /\ group # <<>> /\ (Contains(group, 0) \/ Contains(rest, 0))

\* composeGroup: both groups in braces, no comma between them.
Braced(ps) ==
  LET text[n \in 0..Len(ps)] ==
        IF n = 0 THEN <<"{">>
        ELSE text[n - 1] \o (IF n = Len(ps) THEN <<ToString(ps[n])>> ELSE <<ToString(ps[n]), ",">>)
  IN  Append(text[Len(ps)], "}")
ComposeGroup(groups) == <<"{">> \o Braced(groups[1]) \o Braced(groups[2]) \o <<"}">>

-------------------------------------------------------------------------------
ReshapeB(in, out, map)    == [op |-> "reshape", ins |-> <<in>>, out |-> out, map |-> map]
TransposeB(in, out, perm) == [op |-> "transpose", ins |-> <<in>>, out |-> out, perm |-> perm]

\* A single access on the right-hand side of "=": common to both view kinds.
OneAccess(c) == c.assign = "=" /\ c.rhs.applies = 1

\* matchReshape throws on a right-hand side that is not an access, on an
\* argument that is not an identifier, and on a bad where clause.
ReshapeThrows(c) ==
  \/ ~IdentArgs(c.rhs)
  \/ \E w \in ToSet(c.where) : w.kind # "let"
  \/ \E w \in ToSet(c.where) : Len(w.rhs.idents) < 2

\* Mutant: the positions are those on the side that has the folded index.
GroupOwnSide(c, w) ==
  LET other == IF Contains(c.indices, w.name) THEN c.indices ELSE ArgNames(c.rhs)
  IN  [p \in DOMAIN w.rhs.idents |-> Position(w.rhs.idents[p], other)]

\* printGroup: two where clauses, each giving the positions of its variables
\* on the side that does not have the folded index; nothing else is checked.
Group(c, w) ==
  LET other == IF Contains(c.indices, w.name) THEN ArgNames(c.rhs) ELSE c.indices
  IN  [p \in DOMAIN w.rhs.idents |-> Position(w.rhs.idents[p], other)]

OneSided(c, w) == Contains(c.indices, w.name) # Contains(ArgNames(c.rhs), w.name)

PrintGroup(c) ==
  IF \E w \in ToSet(c.where) : ~OneSided(c, w) THEN Abort
  ELSE Emit(<< ReshapeB(c.rhs.name, c.name,
                        ComposeGroup(<<Group(c, c.where[1]), Group(c, c.where[2])>>)) >>)

\* The statement with its folded index replaced by what it stands for.
Lhs(c) == Substitute(c.indices, c.where[1].name, c.where[1].rhs.idents)
Rhs(c) == Substitute(ArgNames(c.rhs), c.where[1].name, c.where[1].rhs.idents)
FoldedOnLhs(c) == Contains(c.indices, c.where[1].name)

Without(group, n) == Kept(Upto(n), {p \in 1..n : ~Contains(group, p - 1)})

\* Mutant: the positions of the variables are taken from the access.
ToReshapeFromAccess(c) ==
  [p \in DOMAIN c.where[1].rhs.idents |-> Position(c.where[1].rhs.idents[p], Rhs(c))]

\* indexesToReshape: on the left-hand side, where the variables are; on the
\* right-hand side, from the folded index on, as many as the access has
\* arguments.
ToReshape(c) ==
  IF FoldedOnLhs(c)
  THEN [p \in DOMAIN c.where[1].rhs.idents |-> Position(c.where[1].rhs.idents[p], Lhs(c))]
  ELSE LET dist == Position(c.where[1].name, ArgNames(c.rhs))
       IN  [p \in DOMAIN c.rhs.args |-> dist + p - 1]

\* emitReshape with one where clause; temp is the next generated name.
EmitReshape1(c, temp) ==
  LET old   == c.where[1].rhs.idents
      onLhs == FoldedOnLhs(c)
      lhs == IF onLhs THEN Lhs(c) ELSE c.indices
      rhs == IF onLhs THEN ArgNames(c.rhs) ELSE Rhs(c)
      ordering == GetOrdering(lhs, rhs)
      transpose == ~IsConsecutive(ordering)
      group == ToReshape(c)
      rest  == Without(group, Len(rhs))
      map   == GetReshapeMap(group, rest)
      chain == IF ~transpose THEN << ReshapeB(c.rhs.name, c.name, map) >>
               ELSE IF onLhs
               THEN << TransposeB(c.rhs.name, temp, ordering), ReshapeB(temp, c.name, map) >>
               ELSE << ReshapeB(c.rhs.name, temp, map), TransposeB(temp, c.name, ordering) >>
  IN  IF ~OneSided(c, c.where[1]) THEN Throw
      ELSE IF ~AllIn(old, IF onLhs THEN ArgNames(c.rhs) ELSE c.indices) THEN Throw
      ELSE IF ~AllIn(old, lhs) \/ Len(lhs) # Len(rhs) THEN Abort
      ELSE IF ~ReshapeMapAsserts(group, rest) THEN Abort
      ELSE Emit(chain)

\* matchAndEmitReshape
TryReshape(c, temp) ==
  IF ~OneAccess(c) THEN No
  ELSE IF c.rhs.kind # "apply" THEN Throw
  ELSE IF Len(c.indices) = Len(c.rhs.args) THEN No
  ELSE IF ReshapeThrows(c) THEN Throw
  ELSE CASE Len(c.where) = 1 -> EmitReshape1(c, temp)
         [] Len(c.where) = 2 -> PrintGroup(c)
         [] OTHER -> Abort                          \* assert(ri.newVar.size() == 1)

\* Mutant: source and destination of the permutation are swapped.
TryTransposeSwapped(c) ==
  IF ~OneAccess(c) \/ Len(c.indices) # Len(c.rhs.args) \/ c.where # <<>> THEN No
  ELSE IF ~IdentArgs(c.rhs) THEN Throw
  ELSE IF ~AllIn(c.indices, ArgNames(c.rhs)) THEN No
  ELSE Emit(<< TransposeB(c.rhs.name, c.name, GetOrdering(c.indices, ArgNames(c.rhs))) >>)

\* matchAndEmitTranspose, reached when the ranks are equal.
TryTranspose(c) ==
  IF ~OneAccess(c) \/ Len(c.indices) # Len(c.rhs.args) \/ c.where # <<>> THEN No
  ELSE IF ~IdentArgs(c.rhs) THEN Throw
  ELSE IF ~AllIn(c.indices, ArgNames(c.rhs)) THEN No
  ELSE Emit(<< TransposeB(c.rhs.name, c.name, GetOrdering(ArgNames(c.rhs), c.indices)) >>)
=============================================================================
