------------------------------- MODULE Matchers -------------------------------
(***************************************************************************)
(* The matching context of one thread (dsl/matchers.h, dsl/matchers.cpp):  *)
(* an AccessPatternContext is opened, placeholders register with it, one   *)
(* matcher walks a tree and binds placeholders left to right, and the      *)
(* context is closed.  This is how every isNN ... isTWithConstantAlpha of  *)
(* dsl/emitter.cpp uses it; the placeholder ids are thread_local and go on *)
(* counting from one context to the next.                                  *)
(*                                                                         *)
(* A matcher and the tree it is applied to are abstracted to a goal: the   *)
(* slots that OpAccessMatch::match assigns, in the order it assigns them   *)
(* (the arguments of an access, then its array name; the left operand of a *)
(* BinaryOpMatch before its right one), and whether the structural tests   *)
(* (node kind, arity, identifier arguments) all succeed.  When they do not *)
(* the slots are those visited before the failing test.                    *)
(***************************************************************************)
EXTENDS Naturals, Sequences, SequencesExt, Functions, Placeholders

CONSTANTS
  Names,      \* the identifiers of the tactic
  MaxId,      \* bound: placeholders created by the thread
  MaxSlots    \* bound: slots of one goal

ASSUME MatcherBounds == MaxId \in Nat /\ MaxSlots \in Nat

VARIABLES
  context,         \* m_Placeholder::context() is not nullptr
  nextId,          \* m_Placeholder::nextId_
  placeholderMap,  \* MatchingContext::placeholderMap_ of the open context
  goal,            \* what the running or finished match was asked
  pos,             \* the next slot to assign
  verdict          \* "none", "walking", "matched" or "failed"

vars == <<context, nextId, placeholderMap, goal, pos, verdict>>

Slots(ids) == [id : ids, val : Names]
GoalsOver(ids) == [slots : BoundedSeq(Slots(ids), MaxSlots), fits : BOOLEAN]
NoGoal     == [slots |-> <<>>, fits |-> FALSE]

Init ==
  /\ context = FALSE
  /\ nextId = 0
  /\ placeholderMap = NoPlaceholders
  /\ goal = NoGoal /\ pos = 1 /\ verdict = "none"

-------------------------------------------------------------------------------
\* AccessPatternContext(): asserts that no other context is open.
OpenContext ==
  /\ ~context
  /\ nextId < MaxId
  /\ context' = TRUE
  /\ placeholderMap' = NoPlaceholders
  /\ UNCHANGED <<nextId, goal, pos, verdict>>

\* Mutant: the id is handed out again.
NewPlaceholderSameId ==
  /\ context /\ verdict = "none"
  /\ nextId < MaxId
  /\ placeholderMap' = Register(placeholderMap, nextId)
  /\ UNCHANGED <<context, nextId, goal, pos, verdict>>

\* m_Placeholder(): asserts that a context is open, registers a fresh id.
NewPlaceholder ==
  /\ context /\ verdict = "none"
  /\ nextId < MaxId
  /\ placeholderMap' = Register(placeholderMap, nextId)
  /\ nextId' = nextId + 1
  /\ UNCHANGED <<context, goal, pos, verdict>>

\* A matcher over the registered placeholders is applied to a tree.
BeginMatch ==
  /\ context /\ verdict = "none"
  /\ DOMAIN placeholderMap # {}
  /\ goal' \in GoalsOver(DOMAIN placeholderMap)
  /\ pos' = 1
  /\ verdict' = "walking"
  /\ UNCHANGED <<context, nextId, placeholderMap>>

Slot == goal.slots[pos]

Walking == verdict = "walking" /\ pos <= Len(goal.slots)

\* Mutant: the loop over the arguments does not advance.
AssignSlotStays ==
  /\ Walking
  /\ CanAssign(placeholderMap, Slot.id, Slot.val)
  /\ placeholderMap' = Assign(placeholderMap, Slot.id, Slot.val)
  /\ UNCHANGED <<context, nextId, goal, pos, verdict>>

\* assignToPlaceholder returns true.
AssignSlot ==
  /\ Walking
  /\ CanAssign(placeholderMap, Slot.id, Slot.val)
  /\ placeholderMap' = Assign(placeholderMap, Slot.id, Slot.val)
  /\ pos' = pos + 1
  /\ UNCHANGED <<context, nextId, goal, verdict>>

\* assignToPlaceholder returns false: so does every enclosing match.
ClashSlot ==
  /\ Walking
  /\ ~CanAssign(placeholderMap, Slot.id, Slot.val)
  /\ verdict' = "failed"
  /\ UNCHANGED <<context, nextId, placeholderMap, goal, pos>>

\* Mutant: arity and kinds are not looked at.
EndWalkUnchecked ==
  /\ verdict = "walking" /\ pos > Len(goal.slots)
  /\ verdict' = "matched"
  /\ UNCHANGED <<context, nextId, placeholderMap, goal, pos>>

\* The slots are exhausted: a structural test fails, or the match succeeds.
EndWalk ==
  /\ verdict = "walking" /\ pos > Len(goal.slots)
  /\ verdict' = IF goal.fits THEN "matched" ELSE "failed"
  /\ UNCHANGED <<context, nextId, placeholderMap, goal, pos>>

\* Mutant: the context is kept for another match, and never cleared.
CloseContextKept ==
  /\ context /\ verdict \in {"matched", "failed"}
  /\ goal' = NoGoal /\ pos' = 1 /\ verdict' = "none"
  /\ UNCHANGED <<context, nextId, placeholderMap>>

\* ~AccessPatternContext(), once the caller has read ctx[_A], ctx[_i], ...
CloseContext ==
  /\ context /\ verdict \in {"matched", "failed"}
  /\ context' = FALSE
  /\ placeholderMap' = NoPlaceholders
  /\ goal' = NoGoal /\ pos' = 1 /\ verdict' = "none"
  /\ UNCHANGED nextId

Next == OpenContext \/ NewPlaceholder \/ BeginMatch
          \/ AssignSlot \/ ClashSlot \/ EndWalk \/ CloseContext

\* match() runs to its return: it never waits for anything.
Fairness == WF_vars(AssignSlot \/ ClashSlot \/ EndWalk)

Spec == Init /\ [][Next]_vars /\ Fairness
-------------------------------------------------------------------------------
\* The state is well typed: bound names are names, slots speak of registered
\* placeholders only (the assertion "placeholder not registered" of
\* MatchingContext::assignToPlaceholder cannot fail), ids never reach nextId_.
TypeOK ==
  /\ context \in BOOLEAN
  /\ nextId \in 0..MaxId
  /\ DOMAIN placeholderMap \subseteq 0..(nextId - 1)
  /\ placeholderMap \in [DOMAIN placeholderMap -> Names \cup {Unassigned}]
  /\ goal \in [slots : Seq(Slots(DOMAIN placeholderMap)), fits : BOOLEAN]
  /\ pos \in 1..(Len(goal.slots) + 1)
  /\ verdict \in {"none", "walking", "matched", "failed"}
  /\ verdict # "none" => context
  /\ ~context => DOMAIN placeholderMap = {}

\* Two slots of the goal ask one placeholder for different names.
Contradictory(g) ==
  \E i, j \in DOMAIN g.slots :
    g.slots[i].id = g.slots[j].id /\ g.slots[i].val # g.slots[j].val

Fulfilled == \A i \in DOMAIN goal.slots :
               placeholderMap[goal.slots[i].id] = goal.slots[i].val

\* OpAccessMatch::match and BinaryOpMatch::match decide unification exactly:
\* a match succeeds with every slot's placeholder holding the slot's name (so
\* one name per placeholder, the comment at matchers.cpp:26-28), and fails only
\* if the structure is wrong or two slots contradict each other; an early
\* binding is never what makes a satisfiable goal fail.
MatchExact ==
  /\ verdict = "matched" => goal.fits /\ Fulfilled
  /\ verdict = "failed"  => ~goal.fits \/ Contradictory(goal)

\* A bound placeholder keeps its name as long as its context lives: no later
\* slot, and no later registration, overwrites what ctx[_A] will report
\* (MatchingContext::assignToPlaceholder, registerPlaceholder).
BindingStable ==
  [][\A id \in DOMAIN placeholderMap :
       context' /\ placeholderMap[id] # Unassigned
         => placeholderMap'[id] = placeholderMap[id]]_vars

\* A name bound to a placeholder was asked for by a slot already visited of
\* the current match: nothing survives from an earlier match of the thread
\* (the context's map is its own, matchers.h:61-73).
NothingInherited ==
  \A id \in DOMAIN placeholderMap :
    placeholderMap[id] # Unassigned =>
      \E i \in 1..(pos - 1) : goal.slots[i] = [id |-> id, val |-> placeholderMap[id]]

\* The inductive invariant behind MatchExact: while a match has not failed,
\* every visited slot is fulfilled, and (NothingInherited) nothing else is bound.
WalkInv ==
  /\ NothingInherited
  /\ verdict = "none" => pos = 1
  /\ verdict \in {"walking", "matched"} =>
       \A i \in 1..(pos - 1) : placeholderMap[goal.slots[i].id] = goal.slots[i].val
  /\ verdict = "matched" => goal.fits /\ pos = Len(goal.slots) + 1
  /\ verdict = "failed" => ~goal.fits \/ Contradictory(goal)

\* Different placeholders of a successful match stand for different names:
\* matchers.h:31-32 says that a placeholder may match a value only if it is
\* "not already assigned to another placeholder".
PlaceholdersDistinct ==
  verdict = "matched" =>
    \A id1, id2 \in DOMAIN placeholderMap :
      id1 # id2 /\ placeholderMap[id1] # Unassigned
        => placeholderMap[id1] # placeholderMap[id2]

\* matchers.cpp:26-28: once a placeholder has been given a value, another value
\* for the same id makes the match fail.  So all slots of one placeholder in a
\* successful match ask for the same name.
OneValuePerPlaceholder == verdict = "matched" => ~Contradictory(goal)

\* A match that starts returns an answer (the walk of match() advances).
MatchReturns == verdict = "walking" ~> verdict \in {"matched", "failed"}
-------------------------------------------------------------------------------
\* The walk implements unification of the whole goal at once.
U == INSTANCE Unification WITH
       Goals   <- GoalsOver(0..(MaxId - 1)),
       verdict <- IF verdict = "walking" THEN "posed" ELSE verdict,
       answer  <- IF verdict = "matched"
                  THEN [id \in {s.id : s \in Range(goal.slots)} |-> placeholderMap[id]]
                  ELSE <<>>

\* Seen through U, opening contexts, creating placeholders and assigning slots
\* are invisible, and each match is one decision: solvable goals are accepted
\* with their solution, the others rejected (matchers.cpp:72-97).
ImplementsUnification == U!Spec
===============================================================================
