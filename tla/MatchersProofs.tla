---------------------------- MODULE MatchersProofs ----------------------------
(***************************************************************************)
(* Proofs about Matchers, for any set of names, any number of placeholders *)
(* and goals of any length.                                                *)
(***************************************************************************)
EXTENDS Matchers, TLAPS

\* A goal posed over registered placeholders is a sequence of their slots.
LEMMA GoalType ==
  ASSUME NEW ids, NEW g \in GoalsOver(ids)
  PROVE  g \in [slots : Seq(Slots(ids)), fits : BOOLEAN]
<1>1. SeqOf(Slots(ids), MaxSlots) \subseteq Seq(Slots(ids))
  BY MatcherBounds DEF SeqOf
<1>2. QED
  BY <1>1 DEF GoalsOver, BoundedSeq

\* m_Placeholder() registers an id the context does not have yet.
LEMMA NewPlaceholderRegisters ==
  ASSUME TypeOK, NewPlaceholder
  PROVE  /\ DOMAIN placeholderMap' = DOMAIN placeholderMap \cup {nextId}
         /\ \A x \in DOMAIN placeholderMap : placeholderMap'[x] = placeholderMap[x]
         /\ placeholderMap'[nextId] = Unassigned
<1>1. nextId \notin DOMAIN placeholderMap
  BY DEF NewPlaceholder, TypeOK
<1>2. placeholderMap' = Register(placeholderMap, nextId)
  BY DEF NewPlaceholder
<1>3. QED
  BY <1>1, <1>2 DEF Register

\* The goal of no match is well typed whatever is registered.
LEMMA NoGoalType ==
  ASSUME NEW ids
  PROVE  /\ NoGoal \in [slots : Seq(Slots(ids)), fits : BOOLEAN]
         /\ Len(NoGoal.slots) = 0
<1>1. <<>> \in Seq(Slots(ids)) /\ Len(<<>>) = 0
  OBVIOUS
<1>2. QED
  BY <1>1 DEF NoGoal

\* Goals over some placeholders are goals over more of them.
LEMMA GoalsMonotone ==
  ASSUME NEW ids, NEW more, ids \subseteq more
  PROVE  GoalsOver(ids) \subseteq GoalsOver(more)
<1>1. Slots(ids) \subseteq Slots(more)
  BY DEF Slots
<1>2. SeqOf(Slots(ids), MaxSlots) \subseteq SeqOf(Slots(more), MaxSlots)
  BY <1>1 DEF SeqOf
<1>3. QED
  BY <1>2 DEF GoalsOver, BoundedSeq

\* Registering more placeholders leaves a goal well typed.
LEMMA GoalTypeMonotone ==
  ASSUME NEW ids, NEW more, ids \subseteq more,
         NEW g \in [slots : Seq(Slots(ids)), fits : BOOLEAN]
  PROVE  g \in [slots : Seq(Slots(more)), fits : BOOLEAN]
<1>1. Slots(ids) \subseteq Slots(more)
  BY DEF Slots
<1>2. g.slots \in Seq(Slots(more))
  <2>1. g.slots \in Seq(Slots(ids))
    OBVIOUS
  <2>2. QED
    BY <1>1, <2>1
<1>3. QED
  BY <1>2

\* The state of the thread stays well typed: TypeOK is inductive.
THEOREM TypeCorrect == Spec => []TypeOK
<1>1. Init => TypeOK
  <2> SUFFICES ASSUME Init PROVE TypeOK
    OBVIOUS
  <2>1. DOMAIN placeholderMap = {} /\ placeholderMap \in [{} -> Names \cup {Unassigned}]
    BY DEF Init, NoPlaceholders
  <2>2. goal \in [slots : Seq(Slots(DOMAIN placeholderMap)), fits : BOOLEAN] /\ Len(goal.slots) = 0
    BY NoGoalType DEF Init
  <2>3. QED
    <3>1. nextId \in 0..MaxId /\ pos \in 1..(Len(goal.slots) + 1)
      BY <2>2, MatcherBounds DEF Init
    <3>2. QED
      BY <2>1, <2>2, <3>1 DEF Init, TypeOK
<1>2. TypeOK /\ [Next]_vars => TypeOK'
  <2> SUFFICES ASSUME TypeOK, [Next]_vars PROVE TypeOK'
    OBVIOUS
  <2> USE MatcherBounds
  <2>1. CASE OpenContext
    <3>1. placeholderMap' \in [{} -> Names \cup {Unassigned}] /\ DOMAIN placeholderMap' = {}
      BY <2>1 DEF OpenContext, NoPlaceholders
    <3>2. QED
      BY <2>1, <3>1 DEF OpenContext, TypeOK
  <2>2. CASE NewPlaceholder
    <3>1. nextId \notin DOMAIN placeholderMap /\ nextId' \in 0..MaxId
      BY <2>2 DEF NewPlaceholder, TypeOK
    <3>2. placeholderMap' \in [DOMAIN placeholderMap \cup {nextId} -> Names \cup {Unassigned}]
      BY <2>2 DEF NewPlaceholder, TypeOK, Register
    <3>3. DOMAIN placeholderMap' \subseteq 0..(nextId' - 1)
      BY <2>2, <3>2 DEF NewPlaceholder, TypeOK
    <3>4. goal' \in [slots : Seq(Slots(DOMAIN placeholderMap')), fits : BOOLEAN]
      BY <2>2, <3>2, GoalTypeMonotone DEF NewPlaceholder, TypeOK
    <3>5. QED
      BY <2>2, <3>1, <3>2, <3>3, <3>4 DEF NewPlaceholder, TypeOK
  <2>3. CASE BeginMatch
    BY <2>3, GoalType DEF BeginMatch, TypeOK
  <2>4. CASE AssignSlot
    <3>1. pos \in 1..Len(goal.slots) /\ goal.slots \in Seq(Slots(DOMAIN placeholderMap))
      BY <2>4 DEF AssignSlot, TypeOK, Walking
    <3>2. Slot \in Slots(DOMAIN placeholderMap)
      BY <3>1 DEF Slot
    <3>3. placeholderMap' \in [DOMAIN placeholderMap -> Names \cup {Unassigned}]
      BY <2>4, <3>2 DEF AssignSlot, TypeOK, Assign, Slots
    <3>4. DOMAIN placeholderMap' = DOMAIN placeholderMap
      BY <3>3
    <3>5. QED
      BY <2>4, <3>1, <3>3, <3>4 DEF AssignSlot, TypeOK
  <2>5. CASE ClashSlot
    BY <2>5 DEF ClashSlot, TypeOK, Walking
  <2>6. CASE EndWalk
    BY <2>6 DEF EndWalk, TypeOK
  <2>7. CASE CloseContext
    <3>1. placeholderMap' \in [{} -> Names \cup {Unassigned}] /\ DOMAIN placeholderMap' = {}
      BY <2>7 DEF CloseContext, NoPlaceholders
    <3>2. /\ goal' \in [slots : Seq(Slots({})), fits : BOOLEAN]
          /\ pos' \in 1..(Len(goal'.slots) + 1)
      BY <2>7, NoGoalType DEF CloseContext
    <3>3. QED
      BY <2>7, <3>1, <3>2 DEF CloseContext, TypeOK
  <2>8. CASE UNCHANGED vars
    BY <2>8 DEF vars, TypeOK
  <2>9. QED
    BY <2>1, <2>2, <2>3, <2>4, <2>5, <2>6, <2>7, <2>8 DEF Next
<1>3. QED
  BY <1>1, <1>2, PTL DEF Spec

-------------------------------------------------------------------------------
\* A slot that can be assigned binds its placeholder to the name it asks for.
LEMMA AssignAskedFor ==
  ASSUME TypeOK, NothingInherited, AssignSlot
  PROVE  NothingInherited'
<1>1. /\ pos \in 1..Len(goal.slots) /\ Len(goal.slots) \in Nat
      /\ goal.slots \in Seq(Slots(DOMAIN placeholderMap))
      /\ goal' = goal /\ pos' = pos + 1
  BY DEF AssignSlot, TypeOK, Walking
<1>2. Slot \in Slots(DOMAIN placeholderMap)
  BY <1>1 DEF Slot
<1>3. /\ DOMAIN placeholderMap' = DOMAIN placeholderMap
      /\ placeholderMap'[Slot.id] = Slot.val
      /\ \A id \in DOMAIN placeholderMap : id # Slot.id => placeholderMap'[id] = placeholderMap[id]
  BY <1>2 DEF AssignSlot, Assign, Slots
<1>4. QED
  <2> SUFFICES ASSUME NEW id \in DOMAIN placeholderMap, placeholderMap'[id] # Unassigned
               PROVE  \E i \in 1..pos : goal.slots[i] = [id |-> id, val |-> placeholderMap'[id]]
    <3>1. pos' - 1 = pos
      BY <1>1
    <3>2. QED
      BY <3>1, <1>1, <1>3 DEF NothingInherited
  <2>1. CASE id = Slot.id
    BY <2>1, <1>1, <1>2, <1>3 DEF Slot, Slots
  <2>2. CASE id # Slot.id
    BY <2>2, <1>1, <1>3 DEF NothingInherited
  <2>3. QED
    BY <2>1, <2>2

\* A slot that can be assigned leaves every slot visited before it fulfilled.
LEMMA AssignKeepsWalkInv ==
  ASSUME Unassigned \notin Names, TypeOK, WalkInv, AssignSlot
  PROVE  WalkInv'
<1> DEFINE id0 == Slot.id
           val0 == Slot.val
<1>1. /\ pos \in 1..Len(goal.slots) /\ Len(goal.slots) \in Nat
      /\ goal.slots \in Seq(Slots(DOMAIN placeholderMap))
      /\ verdict = "walking" /\ verdict' = "walking"
      /\ goal' = goal /\ pos' = pos + 1
  BY DEF AssignSlot, TypeOK, Walking
<1>2. /\ \A i \in 1..Len(goal.slots) : goal.slots[i] \in Slots(DOMAIN placeholderMap)
      /\ Slot \in Slots(DOMAIN placeholderMap)
  BY <1>1 DEF Slot
<1>3. /\ id0 \in DOMAIN placeholderMap
      /\ placeholderMap[id0] \in {Unassigned, val0}
      /\ DOMAIN placeholderMap' = DOMAIN placeholderMap
      /\ placeholderMap'[id0] = val0
      /\ \A id \in DOMAIN placeholderMap : id # id0 => placeholderMap'[id] = placeholderMap[id]
  BY <1>2 DEF AssignSlot, CanAssign, Assign, Slots
<1>4. NothingInherited'
  BY AssignAskedFor DEF WalkInv
<1>5. \A i \in 1..(pos' - 1) : placeholderMap'[goal'.slots[i].id] = goal'.slots[i].val
  <2> SUFFICES ASSUME NEW i \in 1..pos
               PROVE  placeholderMap'[goal.slots[i].id] = goal.slots[i].val
    BY <1>1
  <2>1. CASE i = pos
    BY <2>1, <1>3 DEF Slot
  <2>2. CASE i # pos
    <3>1. i \in 1..(pos - 1) /\ placeholderMap[goal.slots[i].id] = goal.slots[i].val
      BY <2>2, <1>1 DEF WalkInv
    <3>2. goal.slots[i] \in Slots(DOMAIN placeholderMap)
      BY <3>1, <1>1
    <3>3. QED
      BY <3>1, <3>2, <1>3 DEF Slots
  <2>3. QED
    BY <2>1, <2>2
<1>6. QED
  BY <1>1, <1>4, <1>5 DEF WalkInv

\* A slot that cannot be assigned contradicts a slot visited before it.
LEMMA ClashContradicts ==
  ASSUME TypeOK, NothingInherited, ClashSlot
  PROVE  Contradictory(goal)
<1>1. /\ pos \in 1..Len(goal.slots) /\ Len(goal.slots) \in Nat
      /\ goal.slots \in Seq(Slots(DOMAIN placeholderMap))
  BY DEF ClashSlot, TypeOK, Walking
<1>2. Slot.id \in DOMAIN placeholderMap
  <2>1. Slot \in Slots(DOMAIN placeholderMap)
    BY <1>1 DEF Slot
  <2>2. QED
    BY <2>1 DEF Slots
<1>3. placeholderMap[Slot.id] # Unassigned /\ placeholderMap[Slot.id] # Slot.val
  BY DEF ClashSlot, CanAssign
<1>4. PICK i \in 1..(pos - 1) :
        goal.slots[i] = [id |-> Slot.id, val |-> placeholderMap[Slot.id]]
  BY <1>2, <1>3 DEF NothingInherited
<1>5. /\ i \in DOMAIN goal.slots /\ pos \in DOMAIN goal.slots
      /\ goal.slots[i].id = goal.slots[pos].id
      /\ goal.slots[i].val # goal.slots[pos].val
  BY <1>1, <1>3, <1>4 DEF Slot
<1>6. QED
  BY <1>5 DEF Contradictory

\* WalkInv is inductive relative to TypeOK, unless a tactic names something
\* like the reserved value.
LEMMA WalkInvStep ==
  ASSUME Unassigned \notin Names, TypeOK, WalkInv, [Next]_vars
  PROVE  WalkInv'
<1>1. CASE OpenContext
  BY <1>1 DEF OpenContext, TypeOK, WalkInv, NothingInherited, NoPlaceholders
<1>2. CASE NewPlaceholder
  <2>1. /\ DOMAIN placeholderMap' = DOMAIN placeholderMap \cup {nextId}
        /\ \A x \in DOMAIN placeholderMap : placeholderMap'[x] = placeholderMap[x]
        /\ placeholderMap'[nextId] = Unassigned
    BY <1>2, NewPlaceholderRegisters
  <2>2. NothingInherited'
    BY <1>2, <2>1 DEF NewPlaceholder, WalkInv, NothingInherited
  <2>3. QED
    BY <1>2, <2>2 DEF NewPlaceholder, WalkInv
<1>3. CASE BeginMatch
  <2>1. \A id \in DOMAIN placeholderMap : placeholderMap[id] = Unassigned
    <3>1. 1..(pos - 1) = {}
      BY <1>3 DEF BeginMatch, WalkInv
    <3>2. QED
      BY <3>1 DEF WalkInv, NothingInherited
  <2>2. QED
    BY <1>3, <2>1 DEF BeginMatch, WalkInv, NothingInherited
<1>4. CASE AssignSlot
  BY <1>4, AssignKeepsWalkInv
<1>5. CASE ClashSlot
  <2>1. Contradictory(goal)
    BY <1>5, ClashContradicts DEF WalkInv
  <2>2. QED
    BY <1>5, <2>1 DEF ClashSlot, WalkInv, NothingInherited, Contradictory
<1>6. CASE EndWalk
  <2>1. pos = Len(goal.slots) + 1 /\ verdict = "walking"
    BY <1>6 DEF EndWalk, TypeOK
  <2>2. \/ verdict' = "matched" /\ goal.fits
        \/ verdict' = "failed" /\ ~goal.fits
    BY <1>6 DEF EndWalk
  <2>3. QED
    BY <1>6, <2>1, <2>2 DEF EndWalk, WalkInv, NothingInherited, Contradictory
<1>7. CASE CloseContext
  BY <1>7 DEF CloseContext, WalkInv, NothingInherited, NoPlaceholders
<1>8. CASE UNCHANGED vars
  BY <1>8 DEF vars, WalkInv, NothingInherited, Contradictory
<1>9. QED
  BY <1>1, <1>2, <1>3, <1>4, <1>5, <1>6, <1>7, <1>8 DEF Next

\* TypeOK and WalkInv hold throughout.
THEOREM WalkCorrect ==
  ASSUME Unassigned \notin Names
  PROVE  Spec => [](TypeOK /\ WalkInv)
<1>1. Init => WalkInv
  BY DEF Init, WalkInv, NothingInherited, NoPlaceholders
<1>2. TypeOK /\ WalkInv /\ [Next]_vars => WalkInv'
  BY WalkInvStep
<1>3. QED
  BY <1>1, <1>2, TypeCorrect, PTL DEF Spec

\* Nothing survives from an earlier match of the thread, even if the reserved
\* value is a name (matchers.h:61-73).
THEOREM NothingIsInherited == Spec => []NothingInherited
<1> DEFINE Fresh == NothingInherited /\ (verdict = "none" => pos = 1)
<1>1. Init => Fresh
  BY DEF Init, NothingInherited, NoPlaceholders
<1>2. TypeOK /\ Fresh /\ [Next]_vars => Fresh'
  <2> SUFFICES ASSUME TypeOK, NothingInherited, verdict = "none" => pos = 1, [Next]_vars
               PROVE  Fresh'
    OBVIOUS
  <2>1. CASE OpenContext
    BY <2>1 DEF OpenContext, NothingInherited, NoPlaceholders
  <2>2. CASE NewPlaceholder
    <3>1. /\ DOMAIN placeholderMap' = DOMAIN placeholderMap \cup {nextId}
          /\ \A x \in DOMAIN placeholderMap : placeholderMap'[x] = placeholderMap[x]
          /\ placeholderMap'[nextId] = Unassigned
      BY <2>2, NewPlaceholderRegisters
    <3>2. QED
      BY <2>2, <3>1 DEF NewPlaceholder, NothingInherited
  <2>3. CASE BeginMatch
    <3>1. pos = 1 /\ 1..(pos - 1) = {}
      BY <2>3 DEF BeginMatch
    <3>2. \A id \in DOMAIN placeholderMap : placeholderMap[id] = Unassigned
      BY <3>1 DEF NothingInherited
    <3>3. QED
      BY <2>3, <3>2 DEF BeginMatch, NothingInherited
  <2>4. CASE AssignSlot
    <3>1. NothingInherited'
      BY <2>4, AssignAskedFor
    <3>2. QED
      BY <2>4, <3>1 DEF AssignSlot, Walking
  <2>5. CASE ClashSlot \/ EndWalk
    BY <2>5 DEF ClashSlot, EndWalk, NothingInherited
  <2>6. CASE CloseContext
    BY <2>6 DEF CloseContext, NothingInherited, NoPlaceholders
  <2>7. CASE UNCHANGED vars
    BY <2>7 DEF vars, NothingInherited
  <2>8. QED
    BY <2>1, <2>2, <2>3, <2>4, <2>5, <2>6, <2>7 DEF Next
<1>3. QED
  BY <1>1, <1>2, TypeCorrect, PTL DEF Spec

\* A match succeeds with every slot fulfilled and fails only for a reason:
\* OpAccessMatch::match (matchers.cpp:72-97) decides unification exactly.
THEOREM MatchIsExact ==
  ASSUME Unassigned \notin Names
  PROVE  Spec => []MatchExact
<1>1. TypeOK /\ WalkInv => MatchExact
  <2> SUFFICES ASSUME TypeOK, WalkInv PROVE MatchExact
    OBVIOUS
  <2>1. ASSUME verdict = "matched" PROVE goal.fits /\ Fulfilled
    <3>1. Len(goal.slots) \in Nat /\ DOMAIN goal.slots = 1..Len(goal.slots)
      BY DEF TypeOK
    <3>2. pos - 1 = Len(goal.slots)
      BY <2>1, <3>1 DEF WalkInv
    <3>3. QED
      BY <2>1, <3>1, <3>2 DEF WalkInv, Fulfilled
  <2>2. QED
    BY <2>1 DEF WalkInv, MatchExact
<1>2. QED
  BY <1>1, WalkCorrect, PTL

\* The comment at matchers.cpp:26-28 holds of every tactic that does not use
\* the reserved value as a name.
THEOREM OneValue ==
  ASSUME Unassigned \notin Names
  PROVE  Spec => []OneValuePerPlaceholder
<1>1. MatchExact => OneValuePerPlaceholder
  BY DEF MatchExact, OneValuePerPlaceholder, Fulfilled, Contradictory
<1>2. QED
  BY <1>1, MatchIsExact, PTL

\* No step changes what an open context reports for a bound placeholder.
THEOREM BindingsAreStable == Spec => BindingStable
<1> DEFINE A == \A id \in DOMAIN placeholderMap :
                  context' /\ placeholderMap[id] # Unassigned
                    => placeholderMap'[id] = placeholderMap[id]
<1>1. TypeOK /\ [Next]_vars => [A]_vars
  <2> SUFFICES ASSUME TypeOK, Next PROVE A
    OBVIOUS
  <2>1. CASE OpenContext
    BY <2>1 DEF OpenContext, TypeOK
  <2>2. CASE NewPlaceholder
    BY <2>2, NewPlaceholderRegisters
  <2>3. CASE AssignSlot
    BY <2>3 DEF AssignSlot, TypeOK, CanAssign, Assign
  <2>4. CASE BeginMatch \/ ClashSlot \/ EndWalk
    BY <2>4 DEF BeginMatch, ClashSlot, EndWalk
  <2>5. CASE CloseContext
    BY <2>5 DEF CloseContext
  <2>6. QED
    BY <2>1, <2>2, <2>3, <2>4, <2>5 DEF Next
<1>2. QED
  BY <1>1, TypeCorrect, PTL DEF Spec, BindingStable

-------------------------------------------------------------------------------
\* Two contradictory slots leave a goal without solution.
LEMMA ContradictoryUnsolvable ==
  ASSUME Contradictory(goal)
  PROVE  ~U!Solvable(goal)
<1>1. PICK i, j \in DOMAIN goal.slots :
        goal.slots[i].id = goal.slots[j].id /\ goal.slots[i].val # goal.slots[j].val
  BY DEF Contradictory
<1>2. goal.slots[i] \in Range(goal.slots) /\ goal.slots[j] \in Range(goal.slots)
  BY <1>1 DEF Range
<1>3. QED
  BY <1>1, <1>2 DEF U!Solvable, U!Range, Range

\* Slots that are all fulfilled by one map are solvable, and the map restricted
\* to their placeholders is the solution.
LEMMA FulfilledSolves ==
  ASSUME Fulfilled, goal.fits
  PROVE  /\ U!Solvable(goal)
         /\ U!Solution(goal) = [id \in U!Ids(goal) |-> placeholderMap[id]]
<1>1. \A s \in Range(goal.slots) : placeholderMap[s.id] = s.val
  BY DEF Fulfilled, Range
<1>2. U!Solvable(goal)
  BY <1>1 DEF U!Solvable, U!Range, Range
<1>3. ASSUME NEW id \in U!Ids(goal)
      PROVE  (CHOOSE v \in {s.val : s \in Range(goal.slots)} :
                \E s \in Range(goal.slots) : s.id = id /\ s.val = v) = placeholderMap[id]
  <2> DEFINE Vals == {s.val : s \in Range(goal.slots)}
             P(v) == \E s \in Range(goal.slots) : s.id = id /\ s.val = v
  <2>1. PICK s \in Range(goal.slots) : s.id = id
    BY DEF U!Ids, U!Range, Range
  <2>2. s.val \in Vals /\ P(s.val)
    BY <2>1
  <2>3. \A v \in Vals : P(v) => v = placeholderMap[id]
    BY <1>1
  <2>4. QED
    BY <2>2, <2>3
<1>4. QED
  BY <1>2, <1>3 DEF U!Solution, U!Range, Range

\* The walk over the slots, with its contexts and its placeholders, implements
\* the one-step unification of Unification.tla.
THEOREM Refinement ==
  ASSUME Unassigned \notin Names
  PROVE  Spec => ImplementsUnification
<1>1. Init => U!Init
  BY DEF Init, U!Init, NoGoal, U!NoGoal, U!NoAnswer
<1>2. TypeOK /\ WalkInv /\ [Next]_vars => [U!Next]_U!vars
  <2> SUFFICES ASSUME TypeOK, WalkInv, [Next]_vars PROVE [U!Next]_U!vars
    OBVIOUS
  <2>1. CASE OpenContext
    BY <2>1 DEF OpenContext, TypeOK, U!vars
  <2>2. CASE NewPlaceholder
    BY <2>2 DEF NewPlaceholder, U!vars
  <2>3. CASE BeginMatch
    <3>1. goal' \in GoalsOver(0..(MaxId - 1))
      <4>1. DOMAIN placeholderMap \subseteq 0..(MaxId - 1)
        BY MatcherBounds DEF TypeOK
      <4>2. QED
        BY <2>3, <4>1, GoalsMonotone DEF BeginMatch
    <3>2. U!Pose
      BY <2>3, <3>1 DEF BeginMatch, U!Pose
    <3>3. QED
      BY <3>2 DEF U!Next
  <2>4. CASE AssignSlot
    BY <2>4 DEF AssignSlot, Walking, U!vars
  <2>5. CASE ClashSlot
    <3>1. ~U!Solvable(goal)
      BY <2>5, ClashContradicts, ContradictoryUnsolvable DEF WalkInv
    <3>2. U!Reject
      BY <2>5, <3>1 DEF ClashSlot, Walking, U!Reject
    <3>3. QED
      BY <3>2 DEF U!Next
  <2>6. CASE EndWalk
    <3>1. CASE goal.fits
      <4>1. Fulfilled
        <5>1. pos - 1 = Len(goal.slots) /\ DOMAIN goal.slots = 1..Len(goal.slots)
          BY <2>6 DEF EndWalk, TypeOK
        <5>2. QED
          BY <2>6, <5>1 DEF EndWalk, WalkInv, Fulfilled
      <4>2. U!Accept
        BY <2>6, <3>1, <4>1, FulfilledSolves DEF EndWalk, U!Accept, U!Ids, U!Range, Range
      <4>3. QED
        BY <4>2 DEF U!Next
    <3>2. CASE ~goal.fits
      <4>1. U!Reject
        BY <2>6, <3>2 DEF EndWalk, U!Reject, U!Solvable
      <4>2. QED
        BY <4>1 DEF U!Next
    <3>3. QED
      BY <3>1, <3>2
  <2>7. CASE CloseContext
    <3>1. U!Drop
      BY <2>7 DEF CloseContext, U!Drop, NoGoal, U!NoGoal, U!NoAnswer
    <3>2. QED
      BY <3>1 DEF U!Next
  <2>8. CASE UNCHANGED vars
    BY <2>8 DEF vars, U!vars
  <2>9. QED
    BY <2>1, <2>2, <2>3, <2>4, <2>5, <2>6, <2>7, <2>8 DEF Next
<1>3. QED
  BY <1>1, <1>2, WalkCorrect, PTL DEF Spec, U!Spec, ImplementsUnification
===============================================================================
