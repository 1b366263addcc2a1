----------------------------- MODULE Unification -----------------------------
(***************************************************************************)
(* What an access matcher promises, without saying how it walks the tree:  *)
(* a goal is a list of slots, each asking that one placeholder stands for  *)
(* one name, plus the structural verdict (node kinds and arities).  The    *)
(* goal is matched exactly when the structure fits and some assignment of  *)
(* names to placeholders satisfies every slot, and the answer is that      *)
(* assignment.                                                             *)
(***************************************************************************)
EXTENDS Naturals, Sequences, Functions

CONSTANT Goals          \* the goals that may be posed

VARIABLES goal,         \* the goal under consideration
          verdict,      \* "none", "posed", "matched" or "failed"
          answer        \* the assignment found, by placeholder id

vars == <<goal, verdict, answer>>

NoGoal   == [slots |-> <<>>, fits |-> FALSE]
NoAnswer == <<>>

Ids(g) == {s.id : s \in Range(g.slots)}

\* Some assignment gives every slot of the goal the name it asks for.
Solvable(g) ==
  /\ g.fits
  /\ \A s, t \in Range(g.slots) : s.id = t.id => s.val = t.val

Solution(g) ==
  [id \in Ids(g) |-> CHOOSE v \in {s.val : s \in Range(g.slots)} :
                       \E s \in Range(g.slots) : s.id = id /\ s.val = v]

Init == goal = NoGoal /\ verdict = "none" /\ answer = NoAnswer

Pose ==
  /\ verdict = "none"
  /\ goal' \in Goals
  /\ verdict' = "posed"
  /\ UNCHANGED answer

Accept ==
  /\ verdict = "posed"
  /\ Solvable(goal)
  /\ verdict' = "matched"
  /\ answer' = Solution(goal)
  /\ UNCHANGED goal

Reject ==
  /\ verdict = "posed"
  /\ ~Solvable(goal)
  /\ verdict' = "failed"
  /\ UNCHANGED <<goal, answer>>

Drop ==
  /\ verdict \in {"matched", "failed"}
  /\ goal' = NoGoal /\ verdict' = "none" /\ answer' = NoAnswer

Next == Pose \/ Accept \/ Reject \/ Drop

Spec == Init /\ [][Next]_vars
=============================================================================
