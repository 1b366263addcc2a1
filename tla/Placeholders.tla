---------------------------- MODULE Placeholders ----------------------------
(***************************************************************************)
(* MatchingContext (dsl/matchers.h, dsl/matchers.cpp) as pure operators:   *)
(* a map from the ids of registered placeholders to the name each one has  *)
(* matched so far.                                                         *)
(*                                                                         *)
(* AssignedMatch has no separate "empty" state: a placeholder that has     *)
(* matched nothing holds a reserved string, and its conversion to bool     *)
(* compares with that string.  Unassigned is that reserved value; whether  *)
(* a tactic may also use it as a name is left to the module that gives     *)
(* Names a value.                                                          *)
(***************************************************************************)
CONSTANT Unassigned     \* the string "nullptr" of AssignedMatch

NoPlaceholders == [id \in {} |-> Unassigned]

\* std::map::insert: an id that is already there keeps its value.
Register(map, id) ==
  [x \in DOMAIN map \cup {id} |-> IF x \in DOMAIN map THEN map[x] ELSE Unassigned]

\* Mutants: a bound placeholder rejects even its own name, or accepts any.
CanAssignOnce(map, id, val)   == map[id] = Unassigned
CanAssignAlways(map, id, val) == TRUE

\* assignToPlaceholder returns true: the placeholder is free, or holds val.
CanAssign(map, id, val) == map[id] \in {Unassigned, val}

\* What assignToPlaceholder leaves behind when it returns true.
Assign(map, id, val) == [map EXCEPT ![id] = val]
=============================================================================
