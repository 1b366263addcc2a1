---------------------------- MODULE EmitterProofs ----------------------------
(***************************************************************************)
(* A tactic is lowered statement by statement, in order and once, whatever *)
(* the tactics are and whatever the recognisers answer: all that is used   *)
(* of them there is which builders they can print.  What a recogniser      *)
(* prints is right, by the lemmas of RecogniserProofs, and stays so.       *)
(***************************************************************************)
EXTENDS Emitter, RecogniserProofs

\* What a recogniser may answer: it prints one builder, or two different ones.
Kinds == {"matmul", "matvec", "reshape", "transpose", "conv"}
Outcome(o) ==
  \/ o.verdict \in {"no", "throw", "abort"}
  \/ /\ o.verdict = "emit"
     /\ \E b \in {o.builders[1]} : o.builders = <<b>> /\ b.op \in Kinds
  \/ /\ o.verdict = "emit"
     /\ \E b1 \in {o.builders[1]}, b2 \in {o.builders[2]} :
          o.builders = <<b1, b2>> /\ b1.op \in Kinds /\ b2.op \in Kinds /\ b1.op # b2.op

LEMMA NoBuilder == Outcome(No) /\ Outcome(Throw) /\ Outcome(Abort)
BY DEF Outcome, No, Throw, Abort

LEMMA OneBuilder ==
  ASSUME NEW b, b.op \in Kinds
  PROVE  Outcome(Emit(<<b>>))
BY DEF Outcome, Emit

LEMMA TwoBuilders ==
  ASSUME NEW b1, NEW b2, b1.op \in Kinds, b2.op \in Kinds, b1.op # b2.op
  PROVE  Outcome(Emit(<<b1, b2>>))
BY DEF Outcome, Emit

LEMMA MatMulOutcome == ASSUME NEW st PROVE Outcome(MatchMatMul(st))
<1> DEFINE tries == GemmTries(st)
           hits == Hits(tries)
           mmi  == tries[Max(hits)]
           b    == [op |-> "matmul", ins |-> <<mmi.ctx["A"], mmi.ctx["B"]>>, out |-> st.name,
                    transa |-> Trans(\E h \in hits : tries[h].ta),
                    transb |-> Trans(\E h \in hits : tries[h].tb),
                    dims  |-> [M |-> Folded(st, mmi.ctx["i"]), N |-> Folded(st, mmi.ctx["j"]),
                               K |-> Folded(st, mmi.ctx["k"])],
                    alpha |-> mmi.alpha]
<1>1. Outcome(Emit(<<b>>))
  BY OneBuilder DEF Kinds
<1>2. MatchMatMul(st) \in {No, Throw, Emit(<<b>>)}
  BY DEF MatchMatMul
<1> QED
  BY <1>1, <1>2, NoBuilder

LEMMA MatVecOutcome == ASSUME NEW st PROVE Outcome(MatchMatVec(st))
<1> DEFINE tries == MatVecTries(st)
           mvi == tries[Min(Hits(tries))]
           b   == [op |-> "matvec", ins |-> <<mvi.ctx["A"], mvi.ctx["B"]>>, out |-> st.name,
                   transa |-> mvi.transa, alpha |-> mvi.alpha]
<1>1. Outcome(Emit(<<b>>))
  BY OneBuilder DEF Kinds
<1>2. MatchMatVec(st) \in {No, Emit(<<b>>)}
  BY DEF MatchMatVec
<1> QED
  BY <1>1, <1>2, NoBuilder

LEMMA ConvOutcome == ASSUME NEW st PROVE Outcome(MatchConv(st))
<1> DEFINE b == [op |-> "conv", ins |-> <<st.rhs.kids[1].name, st.rhs.kids[2].name>>,
                 out |-> st.name]
<1>1. Outcome(Emit(<<b>>))
  BY OneBuilder DEF Kinds
<1>2. MatchConv(st) \in {No, Throw, Emit(<<b>>)}
  BY DEF MatchConv
<1> QED
  BY <1>1, <1>2, NoBuilder

LEMMA ReshapeKind ==
  ASSUME NEW in, NEW to, NEW map
  PROVE  ReshapeB(in, to, map).op = "reshape" /\ TransposeB(in, to, map).op = "transpose"
BY DEF ReshapeB, TransposeB

LEMMA TransposeOutcome == ASSUME NEW st PROVE Outcome(TryTranspose(st))
<1> DEFINE b == TransposeB(st.rhs.name, st.name, GetOrdering(ArgNames(st.rhs), st.indices))
<1>1. Outcome(Emit(<<b>>))
  BY OneBuilder, ReshapeKind DEF Kinds
<1>2. TryTranspose(st) \in {No, Throw, Emit(<<b>>)}
  BY DEF TryTranspose
<1> QED
  BY <1>1, <1>2, NoBuilder

LEMMA PrintGroupOutcome == ASSUME NEW st PROVE Outcome(PrintGroup(st))
<1> DEFINE b == ReshapeB(st.rhs.name, st.name,
                         ComposeGroup(<<Group(st, st.where[1]), Group(st, st.where[2])>>))
<1>1. Outcome(Emit(<<b>>))
  BY OneBuilder, ReshapeKind DEF Kinds
<1>2. PrintGroup(st) \in {Abort, Emit(<<b>>)}
  BY DEF PrintGroup
<1> QED
  BY <1>1, <1>2, NoBuilder

LEMMA EmitReshapeOutcome == ASSUME NEW st, NEW temp PROVE Outcome(EmitReshape1(st, temp))
<1> DEFINE onLhs == FoldedOnLhs(st)
           lhs == IF onLhs THEN Lhs(st) ELSE st.indices
           rhs == IF onLhs THEN ArgNames(st.rhs) ELSE Rhs(st)
           ordering == GetOrdering(lhs, rhs)
           map == GetReshapeMap(ToReshape(st), Without(ToReshape(st), Len(rhs)))
           es == {Emit(<< ReshapeB(st.rhs.name, st.name, map) >>),
                  Emit(<< TransposeB(st.rhs.name, temp, ordering), ReshapeB(temp, st.name, map) >>),
                  Emit(<< ReshapeB(st.rhs.name, temp, map), TransposeB(temp, st.name, ordering) >>)}
<1>1. \A e \in es : Outcome(e)
  <2> HIDE DEF map, ordering
  <2>1. {"reshape", "transpose"} \subseteq Kinds
    BY DEF Kinds
  <2> QED
    BY <2>1, OneBuilder, TwoBuilders, ReshapeKind
<1>2. EmitReshape1(st, temp) \in {Throw, Abort} \cup es
  BY DEF EmitReshape1
<1> QED
  BY <1>1, <1>2, NoBuilder

LEMMA ReshapeOutcome == ASSUME NEW st, NEW temp PROVE Outcome(TryReshape(st, temp))
<1>1. TryReshape(st, temp) \in {No, Throw, Abort, EmitReshape1(st, temp), PrintGroup(st)}
  BY DEF TryReshape
<1> QED
  BY <1>1, NoBuilder, EmitReshapeOutcome, PrintGroupOutcome
-------------------------------------------------------------------------------
\* What is printed before the tactic ends has no header without a pattern and
\* no eraseOpBuilder, and belongs to the statements passed.
Marks == {"header", "eraseOp"}

ProgressInv ==
  /\ tactic \in Tactics
  /\ TypeOK
  /\ out \in Seq(Range(out))
  /\ phase \in {"start", "what"} => at = 1 /\ out = <<>>
  /\ phase \in {"what"} \cup Tries => Len(tactic) >= 2
  /\ phase \in Tries => at \in 2..Len(tactic)
  /\ phase = "footer" => at = Len(tactic) + 1
  /\ phase \in Tries \cup {"footer"} =>
       \A p \in DOMAIN out : out[p].b.op \notin Marks /\ out[p].at < at
  /\ LoweredInOrder

\* What joining two sequences gives.
LEMMA Joined ==
  ASSUME NEW s, s \in Seq(Range(s)), NEW t, t \in Seq(Range(t))
  PROVE  /\ Len(s) \in Nat /\ DOMAIN s = 1..Len(s)
         /\ Len(t) \in Nat /\ DOMAIN t = 1..Len(t)
         /\ s \o t \in Seq(Range(s \o t))
         /\ DOMAIN (s \o t) = 1..(Len(s) + Len(t))
         /\ \A p \in 1..(Len(s) + Len(t)) :
              (s \o t)[p] = IF p <= Len(s) THEN s[p] ELSE t[p - Len(s)]
<1>1. /\ Len(s) \in Nat /\ DOMAIN s = 1..Len(s)
      /\ Len(t) \in Nat /\ DOMAIN t = 1..Len(t)
  BY LenProperties
<1>2. s \in Seq(Range(s) \cup Range(t)) /\ t \in Seq(Range(s) \cup Range(t))
  BY SeqMonotonic
<1>3. /\ s \o t \in Seq(Range(s) \cup Range(t))
      /\ Len(s \o t) = Len(s) + Len(t)
      /\ \A p \in 1..(Len(s) + Len(t)) :
           (s \o t)[p] = IF p <= Len(s) THEN s[p] ELSE t[p - Len(s)]
  BY <1>2, ConcatProperties
<1>4. s \o t \in Seq(Range(s \o t))
  BY <1>3, SeqOfRange
<1>5. DOMAIN (s \o t) = 1..(Len(s) + Len(t))
  BY <1>3, LenProperties
<1> QED
  BY <1>1, <1>3, <1>4, <1>5

LEMMA TacticLength ==
  ASSUME NEW t \in Tactics
  PROVE  Len(t) \in Nat /\ Len(t) >= 1
BY EmitterConstants

LEMMA ProgressInit == Init => ProgressInv
<1> SUFFICES ASSUME Init PROVE ProgressInv
  OBVIOUS
<1>1. /\ tactic \in Tactics /\ at = 1 /\ phase = "start" /\ nextId \in 0..MaxEarlier
      /\ out = <<>>
  BY DEF Init
<1>2. nextId \in Nat
  BY <1>1, EmitterConstants
<1>3. Len(tactic) \in Nat /\ Len(tactic) >= 1
  BY <1>1, TacticLength
<1>4. out \in Seq(Range(out)) /\ DOMAIN out = {}
  BY <1>1
<1>5. TypeOK
  BY <1>1, <1>2, <1>3, <1>4 DEF TypeOK
<1>6. LoweredInOrder
  <2>1. {out[p].at : p \in DOMAIN out} = {}
    BY <1>4
  <2> QED
    BY <1>1, <1>4, <2>1 DEF LoweredInOrder
<1> QED
  BY <1>1, <1>4, <1>5, <1>6 DEF ProgressInv, Tries

\* A recogniser declines, throws or aborts: nothing is printed.
LEMMA ProgressFrame ==
  ASSUME ProgressInv, phase \in Tries, UNCHANGED <<tactic, at, out>>,
         phase' \in Tries \cup {"thrown", "aborted"}, nextId' \in Nat
  PROVE  ProgressInv'
<1>1. \A p \in DOMAIN out : out[p].b.op \notin Marks
  BY DEF ProgressInv
<1>2. TypeOK'
  BY DEF ProgressInv, TypeOK, Ended, Tries
<1>3. LoweredInOrder'
  BY <1>1 DEF ProgressInv, LoweredInOrder, Marks
<1>4. Range(out)' = Range(out)
  BY DEF Range
<1> QED
  BY <1>2, <1>3, <1>4 DEF ProgressInv, Tries, Marks

\* The records of the one or two builders of a statement.
LEMMA PrintedShape ==
  ASSUME NEW o, Outcome(o), o.verdict = "emit"
  PROVE  LET new == Printed(o.builders) IN
         /\ new \in Seq(Range(new)) /\ Len(new) \in {1, 2}
         /\ \A p \in 1..Len(new) : new[p].at = at /\ new[p].b.op \in Kinds
         /\ \A p, q \in 1..Len(new) : p # q => new[p].b.op # new[q].b.op
<1> DEFINE new == Printed(o.builders)
<1>1. CASE \E b \in {o.builders[1]} : o.builders = <<b>> /\ b.op \in Kinds
  <2>1. PICK b \in {o.builders[1]} : o.builders = <<b>> /\ b.op \in Kinds
    BY <1>1
  <2>2. new = << [at |-> at, b |-> b] >>
    BY <2>1 DEF Printed
  <2> HIDE DEF new
  <2>3. Len(new) = 1 /\ new[1].at = at /\ new[1].b.op \in Kinds /\ new \in Seq({[at |-> at, b |-> b]})
    BY <2>1, <2>2
  <2>4. new \in Seq(Range(new))
    BY <2>3, SeqOfRange
  <2> QED
    BY <2>3, <2>4 DEF new
<1>2. CASE \E b1 \in {o.builders[1]}, b2 \in {o.builders[2]} :
             o.builders = <<b1, b2>> /\ b1.op \in Kinds /\ b2.op \in Kinds /\ b1.op # b2.op
  <2>1. PICK b1 \in {o.builders[1]}, b2 \in {o.builders[2]} :
             o.builders = <<b1, b2>> /\ b1.op \in Kinds /\ b2.op \in Kinds /\ b1.op # b2.op
    BY <1>2
  <2>2. new = << [at |-> at, b |-> b1], [at |-> at, b |-> b2] >>
    BY <2>1 DEF Printed
  <2> HIDE DEF new
  <2>3. /\ Len(new) = 2 /\ new[1] = [at |-> at, b |-> b1] /\ new[2] = [at |-> at, b |-> b2]
        /\ new \in Seq({[at |-> at, b |-> b1], [at |-> at, b |-> b2]})
    BY <2>2
  <2>4. new \in Seq(Range(new))
    BY <2>3, SeqOfRange
  <2>5. /\ \A p \in 1..Len(new) : new[p].at = at /\ new[p].b.op \in Kinds
        /\ \A p, q \in 1..Len(new) : p # q => new[p].b.op # new[q].b.op
    <3>1. new[1].at = at /\ new[1].b = b1 /\ new[2].at = at /\ new[2].b = b2
      BY <2>3
    <3>2. 1..Len(new) = {1, 2}
      BY <2>3
    <3> QED
      BY <2>1, <3>1, <3>2
  <2>6. Len(new) \in {1, 2}
    BY <2>3
  <2> QED
    BY <2>4, <2>5, <2>6 DEF new
<1> QED
  BY <1>1, <1>2 DEF Outcome

LEMMA Offset ==
  ASSUME NEW n \in Nat, NEW m \in Nat, NEW p \in 1..(n + m), p > n
  PROVE  p - n \in 1..m
OBVIOUS

\* What is printed for statement at: the m records new follow the n of out.
Follows(n, m, new) ==
  /\ n \in Nat /\ m \in {1, 2}
  /\ \A p \in 1..m : new[p].at = at /\ new[p].b.op \in Kinds
  /\ \A p, q \in 1..m : p # q => new[p].b.op # new[q].b.op
  /\ DOMAIN out = 1..n /\ DOMAIN out' = 1..(n + m) /\ out' \in Seq(Range(out'))
  /\ \A p \in 1..(n + m) : out'[p] = IF p <= n THEN out[p] ELSE new[p - n]

Advanced == /\ at' = at + 1 /\ tactic' = tactic /\ nextId' \in Nat
            /\ phase' = IF at = Len(tactic) THEN "footer" ELSE "matmul"

LEMMA ProgressAppend ==
  ASSUME ProgressInv, phase \in Tries, Advanced,
         NEW n, NEW m, NEW new, Follows(n, m, new)
  PROVE  ProgressInv'
<1> USE DEF Advanced
<1>1. /\ tactic \in Tactics /\ TypeOK /\ at \in 2..Len(tactic)
      /\ \A p \in DOMAIN out : out[p].b.op \notin Marks /\ out[p].at < at
      /\ LoweredInOrder
  BY DEF ProgressInv
<1>2. Len(tactic) \in Nat /\ Len(tactic) >= 1
  BY <1>1, TacticLength
<1>3. /\ m \in {1, 2}
      /\ \A p \in 1..m : new[p].at = at /\ new[p].b.op \in Kinds
      /\ \A p, q \in 1..m : p # q => new[p].b.op # new[q].b.op
  BY DEF Follows
<1>d. m \in Nat
  BY <1>3
<1>4. n \in Nat /\ DOMAIN out = 1..n
  BY DEF Follows
<1>5. \A p \in 1..(n + m) : out'[p] = IF p <= n THEN out[p] ELSE new[p - n]
  BY DEF Follows
<1>6. out' \in Seq(Range(out)') /\ DOMAIN out' = 1..(n + m)
  <2>1. Range(out)' = Range(out')
    BY DEF Range
  <2> QED
    BY <2>1 DEF Follows
<1>7. \A p \in 1..(n + m) :
        /\ p <= n => /\ p \in DOMAIN out /\ out'[p] = out[p]
                     /\ out[p].at \in Nat /\ out[p].at < at /\ out[p].b.op \notin Marks
        /\ p > n  => out'[p].at = at /\ out'[p].b.op \in Kinds
  <2> TAKE p \in 1..(n + m)
  <2>1. CASE p <= n
    <3>1. p \in DOMAIN out
      BY <1>4, <2>1
    <3>2. out[p].at \in Nat
      BY <1>1, <1>2, <3>1 DEF TypeOK
    <3>3. out'[p] = out[p]
      BY <1>5, <2>1
    <3>4. out[p].at < at /\ out[p].b.op \notin Marks
      BY <1>1, <3>1
    <3>5. ~(p > n)
      BY <1>4, <1>d, <2>1
    <3> QED
      BY <3>1, <3>2, <3>3, <3>4, <3>5
  <2>2. CASE p > n
    <3>1. p - n \in 1..m
      BY <1>d, <1>4, <2>2, Offset
    <3>2. out'[p] = new[p - n]
      BY <1>d, <1>4, <1>5, <2>2
    <3> QED
      BY <1>3, <1>4, <2>2, <3>1, <3>2
  <2> QED
    BY <1>3, <1>4, <2>1, <2>2
<1>8. \A p \in DOMAIN out' : out'[p].b.op \notin Marks /\ out'[p].at < at'
  <2> SUFFICES ASSUME NEW p \in 1..(n + m)
               PROVE  out'[p].b.op \notin Marks /\ out'[p].at < at'
    BY <1>6
  <2>1. CASE p <= n
    BY <1>1, <1>7, <2>1
  <2>2. CASE p > n
    BY <1>1, <1>7, <2>2 DEF Marks, Kinds
  <2> QED
    BY <1>d, <1>4, <2>1, <2>2
<1>9. TypeOK'
  <2>1. \A p \in DOMAIN out' : out'[p].at \in 1..(Len(tactic) + 1)
    BY <1>1, <1>2, <1>3, <1>4, <1>6, <1>7 DEF TypeOK
  <2> QED
    BY <1>1, <1>2, <2>1 DEF TypeOK, Tries
<1>10. LoweredInOrder'
  <2>1. \A p, q \in DOMAIN out' : p < q => out'[p].at <= out'[q].at
    <3> TAKE p, q \in DOMAIN out'
    <3> HAVE p < q
    <3>1. CASE q <= n
      <4>1. out[p].at <= out[q].at
        BY <1>1, <1>3, <1>4, <1>6, <1>7, <3>1 DEF LoweredInOrder
      <4> QED
        BY <1>3, <1>4, <1>6, <1>7, <3>1, <4>1
    <3>2. CASE q > n /\ p <= n
      <4>1. out'[q].at = at /\ out'[p].at < at /\ out'[p].at \in Nat
        BY <1>6, <1>7, <3>2
      <4> QED
        BY <1>1, <4>1
    <3>3. CASE p > n
      <4>1. q > n
        BY <1>d, <1>4, <1>6, <3>3
      <4>2. out'[q].at = at /\ out'[p].at = at
        BY <1>6, <1>7, <3>3, <4>1
      <4> QED
        BY <1>1, <4>2
    <3> QED
      BY <1>d, <1>4, <1>6, <3>1, <3>2, <3>3
  <2>2. {out'[p].at : p \in DOMAIN out'} \ {Len(tactic) + 1} = 1..at
    <3>1. {out[p].at : p \in DOMAIN out} \ {Len(tactic) + 1} = 1..(at - 1)
      BY <1>1, <1>4 DEF LoweredInOrder, Marks
    <3>2. ASSUME NEW a \in 1..at PROVE \E p \in DOMAIN out' : out'[p].at = a
      <4>1. CASE a = at
        <5>1. n + 1 \in 1..(n + m)
          BY <1>3, <1>4
        <5> QED
          BY <1>3, <1>4, <1>6, <1>7, <4>1, <5>1
      <4>2. CASE a < at
        <5>1. a \in 1..(at - 1)
          BY <1>1, <1>2, <4>2
        <5>2. PICK p \in DOMAIN out : out[p].at = a
          BY <3>1, <5>1
        <5> QED
          BY <1>3, <1>4, <1>6, <1>7, <5>2
      <4> QED
        BY <1>1, <1>2, <4>1, <4>2
    <3>3. ASSUME NEW p \in DOMAIN out' PROVE out'[p].at \in 1..at
      BY <1>1, <1>2, <1>3, <1>4, <1>6, <1>7 DEF TypeOK
    <3>4. Len(tactic) + 1 \notin 1..at
      BY <1>1, <1>2
    <3>5. PICK lowered : lowered = {out'[p].at : p \in DOMAIN out'}
      OBVIOUS
    <3>6. ASSUME NEW a \in 1..at PROVE a \in lowered
      BY <3>2, <3>5
    <3>7. ASSUME NEW a \in lowered PROVE a \in 1..at
      BY <3>3, <3>5
    <3>8. lowered = 1..at
      BY ONLY <3>6, <3>7
    <3> QED
      BY ONLY <3>4, <3>5, <3>8
  <2>3. out' # <<>> => out'[1].b.op # "header"
    BY <1>3, <1>4, <1>6, <1>8 DEF Marks
  <2>4. \A p, q \in DOMAIN out' : p # q /\ out'[p].at = out'[q].at => out'[p].b.op # out'[q].b.op
    <3> SUFFICES ASSUME NEW p \in DOMAIN out', NEW q \in DOMAIN out', p # q,
                        out'[p].at = out'[q].at
                 PROVE  out'[p].b.op # out'[q].b.op
      OBVIOUS
    <3>1. CASE p <= n /\ q <= n
      <4>1. p \in DOMAIN out /\ q \in DOMAIN out /\ out'[p] = out[p] /\ out'[q] = out[q]
        BY <1>6, <1>7, <3>1
      <4>2. \A d, e \in DOMAIN out : d # e /\ out[d].at = out[e].at => out[d].b.op # out[e].b.op
        BY <1>1 DEF LoweredInOrder
      <4>3. out'[p].at = out'[q].at /\ p # q
        OBVIOUS
      <4> QED
        BY ONLY <4>1, <4>2, <4>3
    <3>2. CASE p > n /\ q > n
      <4>1. p - n \in 1..m /\ q - n \in 1..m /\ p - n # q - n
        BY <1>d, <1>4, <1>6, <3>2, Offset
      <4>2. out'[p] = new[p - n] /\ out'[q] = new[q - n]
        BY <1>3, <1>4, <1>5, <1>6, <3>2
      <4> QED
        BY <1>3, <4>1, <4>2
    <3>3. CASE (p <= n /\ q > n) \/ (p > n /\ q <= n)
      <4>1. (out'[p].at = at /\ out'[q].at < at) \/ (out'[q].at = at /\ out'[p].at < at)
        BY <1>6, <1>7, <3>3
      <4> QED
        BY <1>1, <4>1
    <3> QED
      BY <1>d, <1>4, <1>6, <3>1, <3>2, <3>3
  <2>5. at' - 1 = at
    BY <1>1, <1>2
  <2> QED
    BY <1>8, <2>1, <2>2, <2>3, <2>4, <2>5 DEF LoweredInOrder, Marks
<1> QED
  BY <1>1, <1>2, <1>6, <1>8, <1>9, <1>10 DEF ProgressInv, Tries

\* A recogniser lowers the statement.
LEMMA ProgressEmit ==
  ASSUME ProgressInv, phase \in Tries, NEW o, Outcome(o), o.verdict = "emit",
         out' = out \o Printed(o.builders), Advanced
  PROVE  ProgressInv'
<1>1. PICK new : new = Printed(o.builders)
  OBVIOUS
<1>2. PICK n, m : n = Len(out) /\ m = Len(new)
  OBVIOUS
<1>3. /\ new \in Seq(Range(new)) /\ m \in {1, 2}
      /\ \A p \in 1..m : new[p].at = at /\ new[p].b.op \in Kinds
      /\ \A p, q \in 1..m : p # q => new[p].b.op # new[q].b.op
  BY <1>1, <1>2, PrintedShape
<1>4. out \in Seq(Range(out)) /\ out' = out \o new
  BY <1>1 DEF ProgressInv
<1>5. /\ n \in Nat /\ DOMAIN out = 1..n /\ DOMAIN out' = 1..(n + m)
      /\ out' \in Seq(Range(out'))
      /\ \A p \in 1..(n + m) : out'[p] = IF p <= n THEN out[p] ELSE new[p - n]
  BY <1>2, <1>3, <1>4, Joined
<1>6. Follows(n, m, new)
  BY <1>3, <1>5 DEF Follows
<1> QED
  BY <1>6, ProgressAppend

\* What is printed when the tactic ends: eraseOpBuilder follows the n records of out.
Erases(n) ==
  /\ n \in Nat /\ DOMAIN out = 1..n /\ DOMAIN out' = 1..(n + 1) /\ Len(out') = n + 1
  /\ out' \in Seq(Range(out'))
  /\ \A p \in 1..n : out'[p] = out[p]
  /\ out'[n + 1].at = at /\ out'[n + 1].b.op = "eraseOp"

LEMMA ProgressErased ==
  ASSUME ProgressInv, phase = "footer", phase' = "done", UNCHANGED <<tactic, at, nextId>>,
         NEW n, Erases(n)
  PROVE  ProgressInv'
<1>1. /\ tactic \in Tactics /\ TypeOK /\ at = Len(tactic) + 1
      /\ \A p \in DOMAIN out : out[p].b.op \notin Marks /\ out[p].at < at
      /\ LoweredInOrder
  BY DEF ProgressInv, Tries
<1>2. Len(tactic) \in Nat /\ Len(tactic) >= 1
  BY <1>1, TacticLength
<1>3. n \in Nat /\ DOMAIN out = 1..n /\ DOMAIN out' = 1..(n + 1) /\ Len(out') = n + 1
  BY DEF Erases
<1>4. \A p \in 1..(n + 1) :
        /\ p # n + 1 => /\ p \in DOMAIN out /\ out'[p] = out[p] /\ out'[p].b.op \notin Marks
                        /\ out'[p].at \in 1..(Len(tactic) + 1) /\ out'[p].at < at
        /\ p = n + 1 => out'[p].at = at /\ out'[p].b.op = "eraseOp"
  <2> TAKE p \in 1..(n + 1)
  <2>1. CASE p = n + 1
    BY <2>1 DEF Erases
  <2>2. CASE p # n + 1
    <3>1. p \in DOMAIN out
      BY <1>3, <2>2
    <3>2. out'[p] = out[p]
      BY <1>3, <3>1 DEF Erases
    <3>3. out[p].at \in 1..(Len(tactic) + 1)
      BY <1>1, <3>1 DEF TypeOK
    <3> QED
      BY <1>1, <2>2, <3>1, <3>2, <3>3
  <2> QED
    BY <2>1, <2>2
<1>5. out' \in Seq(Range(out)')
  <2>1. Range(out)' = Range(out')
    BY DEF Range
  <2> QED
    BY <2>1 DEF Erases
<1>6. TypeOK'
  BY <1>1, <1>2, <1>3, <1>4 DEF TypeOK, Ended
<1>7. LoweredInOrder'
  <2>1. \A p, q \in DOMAIN out' : p < q => out'[p].at <= out'[q].at
    <3> TAKE p, q \in DOMAIN out'
    <3> HAVE p < q
    <3>1. p # n + 1 /\ p \in DOMAIN out /\ out'[p] = out[p] /\ out'[p].at < at
          /\ out'[p].at \in 1..(Len(tactic) + 1)
      BY <1>3, <1>4
    <3>2. CASE q = n + 1
      BY <1>1, <1>2, <1>3, <1>4, <3>1, <3>2
    <3>3. CASE q # n + 1
      <4>1. q \in DOMAIN out /\ out'[q] = out[q]
        BY <1>3, <1>4, <3>3
      <4> QED
        BY <1>1, <3>1, <4>1 DEF LoweredInOrder
    <3> QED
      BY <3>2, <3>3
  <2>2. {out'[p].at : p \in DOMAIN out'} \ {Len(tactic) + 1} = 1..(at - 1)
    <3>1. {out[p].at : p \in DOMAIN out} \ {Len(tactic) + 1} = 1..(at - 1)
      BY <1>1, <1>3 DEF LoweredInOrder, Marks
    <3>2. \A p \in DOMAIN out : p \in DOMAIN out' /\ p # n + 1 /\ out'[p] = out[p]
      BY <1>3, <1>4
    <3>3. \A p \in DOMAIN out' :
            (p \in DOMAIN out /\ out'[p] = out[p]) \/ out'[p].at = Len(tactic) + 1
      BY <1>1, <1>3, <1>4
    <3> QED
      BY <3>1, <3>2, <3>3
  <2>3. \A p \in DOMAIN out' : out'[p].b.op # "header"
    BY <1>3, <1>4 DEF Marks
  <2>4. out' # <<>> => out'[1].b.op # "header"
    BY <1>3, <2>3
  <2>5. \A p \in DOMAIN out' : out'[p].b.op = "eraseOp" => p = Len(out')
    BY <1>3, <1>4 DEF Marks
  <2>6. \A p, q \in DOMAIN out' : p # q /\ out'[p].at = out'[q].at => out'[p].b.op # out'[q].b.op
    <3> SUFFICES ASSUME NEW p \in DOMAIN out', NEW q \in DOMAIN out', p # q,
                        out'[p].at = out'[q].at
                 PROVE  out'[p].b.op # out'[q].b.op
      OBVIOUS
    <3>1. CASE p # n + 1 /\ q # n + 1
      <4>1. p \in DOMAIN out /\ q \in DOMAIN out /\ out'[p] = out[p] /\ out'[q] = out[q]
        BY <1>3, <1>4, <3>1
      <4> QED
        BY <1>1, <4>1 DEF LoweredInOrder
    <3>2. CASE p = n + 1 \/ q = n + 1
      BY <1>3, <1>4, <3>2 DEF Marks
    <3> QED
      BY <3>1, <3>2
  <2> QED
    BY <1>1, <2>1, <2>2, <2>3, <2>4, <2>5, <2>6 DEF LoweredInOrder
<1> QED
  BY <1>1, <1>5, <1>6, <1>7 DEF ProgressInv, Tries

LEMMA ProgressErase ==
  ASSUME ProgressInv, phase = "footer", phase' = "done", UNCHANGED <<tactic, at, nextId>>,
         NEW r, r.at = at, r.b.op = "eraseOp", out' = Append(out, r)
  PROVE  ProgressInv'
<1>1. out \in Seq(Range(out))
  BY DEF ProgressInv
<1>2. PICK n : n = Len(out)
  OBVIOUS
<1>3. out \in Seq(Range(out) \cup {r})
  BY <1>1, SeqMonotonic
<1>4. /\ out' \in Seq(Range(out) \cup {r}) /\ Len(out') = n + 1
      /\ \A p \in 1..n : out'[p] = out[p]
      /\ out'[n + 1] = r
  BY <1>2, <1>3, AppendProperties
<1>5. n \in Nat /\ DOMAIN out = 1..n
  BY <1>1, <1>2, LenProperties
<1>6. DOMAIN out' = 1..(n + 1) /\ out' \in Seq(Range(out'))
  BY <1>4, LenProperties, SeqOfRange
<1>7. Erases(n)
  BY <1>4, <1>5, <1>6 DEF Erases
<1> QED
  BY <1>7, ProgressErased

\* Whatever a recogniser answers.
LEMMA ProgressTry ==
  ASSUME ProgressInv, NEW this \in Tries, NEW next \in Tries, NEW o, Outcome(o),
         Try(this, next, o), nextId' \in Nat
  PROVE  ProgressInv'
<1>1. phase \in Tries /\ tactic' = tactic
  BY DEF Try
<1>2. CASE o.verdict = "emit"
  <2>1. Advanced /\ out' = out \o Printed(o.builders)
    BY <1>2 DEF Try, Advanced
  <2> QED
    BY <1>1, <1>2, <2>1, ProgressEmit
<1>3. CASE o.verdict \in {"no", "throw", "abort"}
  <2>1. UNCHANGED <<tactic, at, out>> /\ phase' \in Tries \cup {"thrown", "aborted"}
    BY <1>3 DEF Try
  <2> QED
    BY <1>1, <2>1, ProgressFrame
<1> QED
  BY <1>2, <1>3 DEF Outcome

\* The pattern, or the header of one that is rejected.
LEMMA OneRecord ==
  ASSUME NEW b, NEW s, s = << [at |-> 1, b |-> b] >>
  PROVE  /\ DOMAIN s = {1} /\ Len(s) = 1 /\ s[1].at = 1 /\ s[1].b = b
         /\ s \in Seq(Range(s))
<1>1. DOMAIN s = {1} /\ Len(s) = 1
  OBVIOUS
<1>2. s[1].at = 1 /\ s[1].b = b
  OBVIOUS
<1>3. s \in Seq({[at |-> 1, b |-> b]})
  OBVIOUS
<1> QED
  BY <1>1, <1>2, <1>3, SeqOfRange

LEMMA ProgressStep == ProgressInv /\ [Next]_vars => ProgressInv'
<1> SUFFICES ASSUME ProgressInv, [Next]_vars PROVE ProgressInv'
  OBVIOUS
<1>t. /\ tactic \in Tactics /\ nextId \in Nat /\ Len(tactic) \in Nat /\ Len(tactic) >= 1
      /\ at \in 1..(Len(tactic) + 1)
  BY TacticLength DEF ProgressInv, TypeOK
<1>k. {"matmul", "matvec", "reshape", "transpose", "conv", "unknown"} \subseteq Tries
  BY DEF Tries
<1>1. CASE Start
  <2>1. /\ phase = "start" /\ at = 1 /\ out = <<>> /\ UNCHANGED <<tactic, at, nextId, out>>
        /\ phase' \in {"done", "what"} /\ (phase' = "what" => Len(tactic) >= 2)
    BY <1>1 DEF Start, ProgressInv
  <2>2. Range(out)' = Range(out)
    BY <2>1 DEF Range
  <2>3. TypeOK'
    BY <2>1 DEF ProgressInv, TypeOK, Ended
  <2>4. LoweredInOrder'
    BY <2>1 DEF ProgressInv, LoweredInOrder
  <2> QED
    BY <2>1, <2>2, <2>3, <2>4 DEF ProgressInv, Tries
<1>2. CASE EmitWhat
  <2>1. /\ phase = "what" /\ at = 1 /\ out = <<>> /\ UNCHANGED <<tactic, nextId>>
        /\ Len(tactic) >= 2
    BY <1>2 DEF EmitWhat, ProgressInv
  <2>2. CASE phase' = "matmul"
    <3>1. PICK b : b.op = "what" /\ at' = 2 /\ out' = Printed(<<b>>)
      <4> DEFINE w == [op |-> "what", text |-> PatternText(c)]
      <4>1. w.op = "what" /\ at' = 2 /\ out' = Printed(<<w>>)
        BY <1>2, <2>2 DEF EmitWhat
      <4> QED
        BY <4>1
    <3>2. out' = << [at |-> 1, b |-> b] >>
      BY <2>1, <3>1 DEF Printed
    <3>3. /\ DOMAIN out' = {1} /\ out'[1].at = 1 /\ out'[1].b.op = "what"
          /\ out' \in Seq(Range(out'))
      BY <3>1, <3>2, OneRecord
    <3>4. out' \in Seq(Range(out)')
      <4>1. Range(out)' = Range(out')
        BY DEF Range
      <4> QED
        BY <3>3, <4>1
    <3>5. TypeOK'
      BY <1>t, <2>1, <2>2, <3>1, <3>3 DEF TypeOK, Tries
    <3>6. LoweredInOrder'
      <4>1. {out'[p].at : p \in DOMAIN out'} \ {Len(tactic) + 1} = {1}
        BY <1>t, <2>1, <3>3
      <4>2. 1..(at' - 1) = {1}
        BY <3>1
      <4> QED
        BY <2>1, <3>1, <3>3, <4>1, <4>2 DEF LoweredInOrder
    <3> QED
      BY <1>t, <2>1, <2>2, <3>1, <3>3, <3>4, <3>5, <3>6 DEF ProgressInv, Tries, Marks
  <2>3. CASE phase' = "thrown"
    <3>1. PICK b : b.op = "header" /\ at' = 1 /\ out' = Printed(<<b>>)
      <4> DEFINE w == [op |-> "header"]
      <4>1. w.op = "header" /\ at' = 1 /\ out' = Printed(<<w>>)
        BY <1>2, <2>1, <2>3 DEF EmitWhat
      <4> QED
        BY <4>1
    <3>2. out' = << [at |-> 1, b |-> b] >>
      BY <2>1, <3>1 DEF Printed
    <3>3. /\ DOMAIN out' = {1} /\ Len(out') = 1 /\ out'[1].at = 1 /\ out'[1].b.op = "header"
          /\ out' \in Seq(Range(out'))
      BY <3>1, <3>2, OneRecord
    <3>4. out' \in Seq(Range(out)')
      <4>1. Range(out)' = Range(out')
        BY DEF Range
      <4> QED
        BY <3>3, <4>1
    <3>5. TypeOK'
      BY <1>t, <2>1, <2>3, <3>1, <3>3 DEF TypeOK, Ended
    <3>6. LoweredInOrder'
      <4>1. {out'[p].at : p \in DOMAIN out'} \ {Len(tactic) + 1} = {1}
        BY <1>t, <2>1, <3>3
      <4>2. 1..1 = {1} /\ out' # <<>>
        <5>1. DOMAIN out' # DOMAIN <<>>
          BY <3>3
        <5> QED
          BY <5>1
      <4> QED
        BY <2>1, <2>3, <3>1, <3>3, <4>1, <4>2 DEF LoweredInOrder
    <3> QED
      BY <1>t, <2>1, <2>3, <3>1, <3>3, <3>4, <3>5, <3>6 DEF ProgressInv, Tries, Marks
  <2> QED
    BY <1>2, <2>2, <2>3 DEF EmitWhat
<1>3. PICK st : st = c
  OBVIOUS
<1>4. CASE MatchAndEmitMatMul
  BY <1>t, <1>k, <1>3, <1>4, MatMulOutcome, ProgressTry DEF MatchAndEmitMatMul
<1>5. CASE MatchAndEmitMatVec
  BY <1>t, <1>k, <1>3, <1>5, MatVecOutcome, ProgressTry DEF MatchAndEmitMatVec
<1>6. CASE MatchAndEmitReshape
  <2>1. PICK temp : temp = Tmp(nextId)
    OBVIOUS
  <2>2. Try("reshape", "transpose", TryReshape(st, temp))
    BY <1>3, <1>6, <2>1 DEF MatchAndEmitReshape
  <2>3. nextId' \in Nat
    BY <1>t, <1>6 DEF MatchAndEmitReshape
  <2> QED
    BY <1>k, <2>2, <2>3, ReshapeOutcome, ProgressTry
<1>7. CASE MatchAndEmitTranspose
  BY <1>t, <1>k, <1>3, <1>7, TransposeOutcome, ProgressTry DEF MatchAndEmitTranspose
<1>8. CASE MatchAndEmitConv
  BY <1>t, <1>k, <1>3, <1>8, ConvOutcome, ProgressTry DEF MatchAndEmitConv
<1>9. CASE UnknownBuilder
  <2>1. phase \in Tries /\ phase' = "thrown" /\ UNCHANGED <<tactic, at, out>> /\ nextId' = nextId
    BY <1>k, <1>9 DEF UnknownBuilder
  <2> QED
    BY <1>t, <2>1, ProgressFrame
<1>11. CASE Stop \/ UNCHANGED vars
  <2>1. UNCHANGED <<tactic, at, phase, nextId, out>>
    BY <1>11 DEF Stop, vars
  <2> QED
    BY <2>1 DEF ProgressInv, TypeOK, LoweredInOrder, Range
<1>10. CASE EmitFooter
  <2>1. PICK r : r = [at |-> at, b |-> [op |-> "eraseOp"]]
    OBVIOUS
  <2>2. /\ phase = "footer" /\ phase' = "done" /\ UNCHANGED <<tactic, at, nextId>>
        /\ out' = Append(out, r)
    BY <1>10, <2>1 DEF EmitFooter
  <2>3. r.at = at /\ r.b.op = "eraseOp"
    BY <2>1
  <2> QED
    BY <2>2, <2>3, ProgressErase
<1> QED
  BY <1>1, <1>2, <1>4, <1>5, <1>6, <1>7, <1>8, <1>9, <1>10, <1>11 DEF Next

\* The state is well typed (TypeOK), whatever the tactics are.
THEOREM EmitterTypeOK == Spec => []TypeOK
<1>1. ProgressInv => TypeOK
  BY DEF ProgressInv
<1> QED
  BY ProgressInit, ProgressStep, <1>1, PTL DEF Spec

\* Every statement is lowered exactly once and in order, whatever the tactics
\* are (emitTactic, main.cpp:14-24; emitHow, emitter.cpp:873-889).
THEOREM EmitterLoweredInOrder == Spec => []LoweredInOrder
<1>1. ProgressInv => LoweredInOrder
  BY DEF ProgressInv
<1> QED
  BY ProgressInit, ProgressStep, <1>1, PTL DEF Spec
-------------------------------------------------------------------------------
\* The records of a recogniser that lowers the statement follow those of out.
LEMMA EmitFollows ==
  ASSUME ProgressInv, NEW o, Outcome(o), o.verdict = "emit",
         out' = out \o Printed(o.builders)
  PROVE  LET n == Len(out)
             m == Len(o.builders)
         IN  /\ Follows(n, m, Printed(o.builders))
             /\ \A p \in 1..m : Printed(o.builders)[p] = [at |-> at, b |-> o.builders[p]]
<1>1. PICK new : new = Printed(o.builders)
  OBVIOUS
<1>2. PICK n, m : n = Len(out) /\ m = Len(new)
  OBVIOUS
<1>3. /\ new \in Seq(Range(new)) /\ m \in {1, 2}
      /\ \A p \in 1..m : new[p].at = at /\ new[p].b.op \in Kinds
      /\ \A p, q \in 1..m : p # q => new[p].b.op # new[q].b.op
  BY <1>1, <1>2, PrintedShape
<1>4. out \in Seq(Range(out)) /\ out' = out \o new
  BY <1>1 DEF ProgressInv
<1>5. /\ n \in Nat /\ DOMAIN out = 1..n /\ DOMAIN out' = 1..(n + m)
      /\ out' \in Seq(Range(out'))
      /\ \A p \in 1..(n + m) : out'[p] = IF p <= n THEN out[p] ELSE new[p - n]
  BY <1>2, <1>3, <1>4, Joined
<1>6. Follows(n, m, new)
  BY <1>3, <1>5 DEF Follows
<1>7. DOMAIN o.builders = 1..Len(o.builders) /\ Len(o.builders) \in {1, 2}
  <2>1. CASE \E b \in {o.builders[1]} : o.builders = <<b>> /\ b.op \in Kinds
    BY <2>1
  <2>2. CASE \E b1 \in {o.builders[1]}, b2 \in {o.builders[2]} :
               o.builders = <<b1, b2>> /\ b1.op \in Kinds /\ b2.op \in Kinds /\ b1.op # b2.op
    BY <2>2
  <2> QED
    BY <2>1, <2>2 DEF Outcome
<1>8. new = [p \in DOMAIN o.builders |-> [at |-> at, b |-> o.builders[p]]]
  BY <1>1 DEF Printed
<1>9. m = Len(o.builders)
  BY <1>2, <1>3, <1>7, <1>8, LenProperties
<1> QED
  BY <1>1, <1>2, <1>6, <1>7, <1>8, <1>9

LEMMA EmitRecords ==
  ASSUME ProgressInv, NEW o, Outcome(o), o.verdict = "emit",
         out' = out \o Printed(o.builders), NEW p \in DOMAIN out'
  PROVE  \/ p \in DOMAIN out /\ out'[p] = out[p]
         \/ out'[p].at = at /\ \E q \in 1..Len(o.builders) : out'[p].b = o.builders[q]
<1>1. PICK n, m, new : n = Len(out) /\ m = Len(o.builders) /\ new = Printed(o.builders)
  OBVIOUS
<1>2. Follows(n, m, new) /\ \A q \in 1..m : new[q] = [at |-> at, b |-> o.builders[q]]
  BY <1>1, EmitFollows
<1>3. /\ n \in Nat /\ m \in Nat /\ DOMAIN out = 1..n /\ p \in 1..(n + m)
      /\ out'[p] = IF p <= n THEN out[p] ELSE new[p - n]
  BY <1>2 DEF Follows
<1>4. CASE p <= n
  BY <1>3, <1>4
<1>5. CASE p > n
  <2>1. p - n \in 1..m /\ out'[p] = new[p - n]
    BY <1>3, <1>5
  <2>2. new[p - n] = [at |-> at, b |-> o.builders[p - n]]
    BY <1>2, <2>1
  <2> QED
    BY <1>1, <2>1, <2>2
<1> QED
  BY <1>3, <1>4, <1>5
-------------------------------------------------------------------------------
\* No index or tensor of a right-hand side has the name the placeholders reserve
\* (matchers.h:117).
NoReservedName == \A t \in Tactics : \A p \in DOMAIN t : Unassigned \notin ToSet(t[p].rhs.idents)

ProductsInv == ProgressInv /\ GemmExact /\ GemvExact

\* What the two properties ask of a record.
Exact(r) == /\ r.b.op = "matmul" => GemmRight(tactic[r.at], r.b)
            /\ r.b.op = "matvec" => GemvRight(tactic[r.at], r.b)

LEMMA ProductsTry ==
  ASSUME ProductsInv, ProgressInv', NEW this \in Tries, NEW next \in Tries, NEW o, Outcome(o),
         Try(this, next, o),
         o.verdict = "emit" => \A q \in 1..Len(o.builders) : Exact([at |-> at, b |-> o.builders[q]]),
         next # "matmul",
         this = "matmul" => (o.verdict = "no" =>
           ~\E ta, tb \in {"N", "T"} : FitsGemm(c, ta, tb) /\ (Scaled(c) => ta = "N" /\ tb = "N")),
         this = "matvec" => (o.verdict = "no" => ~\E ta \in {"N", "T"} : FitsGemv(c, ta)),
         next = "matvec" <=> this = "matmul"
  PROVE  ProductsInv'
<1>1. this = phase /\ tactic' = tactic
  BY DEF Try
<1>2. \A p \in DOMAIN out : Exact(out[p])
  BY DEF ProductsInv, GemmExact, GemvExact, Exact
<1>3. CASE o.verdict = "emit"
  <2>1. out' = out \o Printed(o.builders) /\ phase' \in {"footer", "matmul"}
    BY <1>3 DEF Try
  <2>2. ASSUME NEW p \in DOMAIN out'
        PROVE  /\ out'[p].b.op = "matmul" => GemmRight(tactic[out'[p].at], out'[p].b)
               /\ out'[p].b.op = "matvec" => GemvRight(tactic[out'[p].at], out'[p].b)
    <3>1. CASE p \in DOMAIN out /\ out'[p] = out[p]
      BY <1>2, <3>1 DEF Exact
    <3>2. CASE out'[p].at = at /\ \E q \in 1..Len(o.builders) : out'[p].b = o.builders[q]
      BY <1>3, <3>2 DEF Exact
    <3> QED
      BY <1>3, <2>1, <3>1, <3>2, EmitRecords DEF ProductsInv
  <2>3. GemmExact' /\ GemvExact'
    BY <1>1, <2>1, <2>2 DEF GemmExact, GemvExact, Tries
  <2> QED
    BY <2>3 DEF ProductsInv
<1>4. CASE o.verdict = "no"
  <2>1. UNCHANGED <<tactic, at, out>> /\ phase' = next
    BY <1>4 DEF Try
  <2>2. c' = c
    BY <2>1 DEF c
  <2>3. GemmExact'
    <3>1. this = "matmul" =>
            \A ta, tb \in {"N", "T"} : IsGemm(c, ta, tb) => Scaled(c) /\ (ta = "T" \/ tb = "T")
      BY <1>4 DEF IsGemm
    <3> QED
      BY <1>1, <1>4, <2>1, <2>2, <3>1 DEF ProductsInv, GemmExact, Tries
  <2>4. GemvExact'
    <3>1. this = "matvec" => ~\E ta \in {"N", "T"} : IsGemv(c, ta)
      BY <1>4 DEF IsGemv
    <3> QED
      BY <1>1, <1>4, <2>1, <2>2, <3>1 DEF ProductsInv, GemvExact, Tries
  <2> QED
    BY <2>3, <2>4 DEF ProductsInv
<1>5. CASE o.verdict \in {"throw", "abort"}
  <2>1. UNCHANGED <<tactic, at, out>> /\ phase' \in {"thrown", "aborted"}
    BY <1>5 DEF Try
  <2>2. GemmExact' /\ GemvExact'
    BY <2>1 DEF ProductsInv, GemmExact, GemvExact, Tries
  <2> QED
    BY <2>2 DEF ProductsInv
<1> QED
  BY <1>3, <1>4, <1>5 DEF Outcome

\* A recogniser whose builders have other names prints nothing to be judged.
LEMMA OtherKind ==
  ASSUME NEW o, Outcome(o), o.verdict = "emit",
         \A q \in 1..Len(o.builders) : o.builders[q].op \notin {"matmul", "matvec"}
  PROVE  \A q \in 1..Len(o.builders) : Exact([at |-> at, b |-> o.builders[q]])
BY DEF Exact

-------------------------------------------------------------------------------
ReadsOnly(b, tensors) == \A x : Contains(b.ins, x) => x \in tensors

\* What a recogniser prints for st: one builder that writes its tensor, or two
\* that go through temp; they read tensors of the right-hand side otherwise.
Lowers(st, temp, o, kinds) ==
  o.verdict = "emit" =>
    \/ \E b : /\ o.builders = <<b>> /\ b.op \in kinds
             /\ b.out = st.name /\ ReadsOnly(b, ToSet(st.rhs.idents))
    \/ \E b1, b2 : /\ o.builders = <<b1, b2>> /\ b1.op \in kinds /\ b2.op \in kinds
                  /\ b1.op # b2.op
                  /\ b1.out = temp /\ ReadsOnly(b1, ToSet(st.rhs.idents))
                  /\ b2.out = st.name /\ b2.ins = <<temp>>

LEMMA NothingLowered ==
  ASSUME NEW st, NEW temp, NEW kinds
  PROVE  Lowers(st, temp, No, kinds) /\ Lowers(st, temp, Throw, kinds) /\ Lowers(st, temp, Abort, kinds)
BY DEF Lowers, No, Throw, Abort

LEMMA OneLowered ==
  ASSUME NEW st, NEW temp, NEW kinds, NEW b, b.op \in kinds, b.out = st.name,
         ReadsOnly(b, ToSet(st.rhs.idents))
  PROVE  Lowers(st, temp, Emit(<<b>>), kinds)
BY DEF Lowers, Emit

LEMMA TwoLowered ==
  ASSUME NEW st, NEW temp, NEW kinds, NEW b1, NEW b2, b1.op \in kinds, b2.op \in kinds,
         b1.op # b2.op, b1.out = temp, ReadsOnly(b1, ToSet(st.rhs.idents)),
         b2.out = st.name, b2.ins = <<temp>>
  PROVE  Lowers(st, temp, Emit(<<b1, b2>>), kinds)
BY DEF Lowers, Emit

LEMMA ReadsOne ==
  ASSUME NEW b, NEW x, b.ins = <<x>>, NEW tensors, x \in tensors
  PROVE  ReadsOnly(b, tensors)
BY DEF ReadsOnly, Contains

LEMMA ReadsTwo ==
  ASSUME NEW b, NEW x, NEW y, b.ins = <<x, y>>, NEW tensors, x \in tensors, y \in tensors
  PROVE  ReadsOnly(b, tensors)
<1>1. \A z : Contains(<<x, y>>, z) => z \in {x, y}
  BY DEF Contains
<1> QED
  BY <1>1 DEF ReadsOnly

LEMMA AccessNamed ==
  ASSUME NEW st, IsStatement(st), st.rhs.kind = "apply"
  PROVE  st.rhs.name \in ToSet(st.rhs.idents)
<1>1. IsNode(st.rhs)
  BY DEF IsStatement, IsTree
<1> QED
  BY <1>1 DEF IsNode

LEMMA ViewBuilders ==
  ASSUME NEW in, NEW to, NEW map
  PROVE  /\ ReshapeB(in, to, map).op = "reshape" /\ TransposeB(in, to, map).op = "transpose"
         /\ ReshapeB(in, to, map).out = to /\ TransposeB(in, to, map).out = to
         /\ ReshapeB(in, to, map).ins = <<in>> /\ TransposeB(in, to, map).ins = <<in>>
BY DEF ReshapeB, TransposeB

LEMMA TransposeLowers ==
  ASSUME NEW st, IsStatement(st), OneAccess(st) => st.rhs.kind = "apply", NEW temp
  PROVE  Lowers(st, temp, TryTranspose(st), {"transpose"})
<1> DEFINE b == TransposeB(st.rhs.name, st.name, GetOrdering(ArgNames(st.rhs), st.indices))
<1>1. /\ TryTranspose(st) \in {No, Throw, Emit(<<b>>)}
      /\ TryTranspose(st) # No => OneAccess(st)
  BY DEF TryTranspose
<1>2. OneAccess(st) => Lowers(st, temp, Emit(<<b>>), {"transpose"})
  BY AccessNamed, ReadsOne, ViewBuilders, OneLowered
<1> QED
  BY <1>1, <1>2, NothingLowered

LEMMA ReshapeLowers ==
  ASSUME NEW st, IsStatement(st), NEW temp
  PROVE  /\ Lowers(st, temp, TryReshape(st, temp), {"reshape", "transpose"})
         /\ TryReshape(st, temp).verdict = "no" => (OneAccess(st) => st.rhs.kind = "apply")
<1> DEFINE K == {"reshape", "transpose"}
           o == TryReshape(st, temp)
<1>1. st.rhs.kind = "apply" => Lowers(st, temp, PrintGroup(st), K)
  <2> DEFINE b == ReshapeB(st.rhs.name, st.name,
                           ComposeGroup(<<Group(st, st.where[1]), Group(st, st.where[2])>>))
  <2>1. PrintGroup(st) \in {Abort, Emit(<<b>>)}
    BY DEF PrintGroup
  <2>2. st.rhs.kind = "apply" => Lowers(st, temp, Emit(<<b>>), K)
    BY AccessNamed, ReadsOne, ViewBuilders, OneLowered
  <2> QED
    BY <2>1, <2>2, NothingLowered
<1>2. st.rhs.kind = "apply" => Lowers(st, temp, EmitReshape1(st, temp), K)
  <2> DEFINE onLhs == FoldedOnLhs(st)
             lhs == IF onLhs THEN Lhs(st) ELSE st.indices
             rhs == IF onLhs THEN ArgNames(st.rhs) ELSE Rhs(st)
             ordering == GetOrdering(lhs, rhs)
             map == GetReshapeMap(ToReshape(st), Without(ToReshape(st), Len(rhs)))
             es == {Emit(<< ReshapeB(st.rhs.name, st.name, map) >>),
                    Emit(<< TransposeB(st.rhs.name, temp, ordering), ReshapeB(temp, st.name, map) >>),
                    Emit(<< ReshapeB(st.rhs.name, temp, map), TransposeB(temp, st.name, ordering) >>)}
  <2>1. EmitReshape1(st, temp) \in {Throw, Abort} \cup es
    BY DEF EmitReshape1
  <2>2. ASSUME st.rhs.kind = "apply" PROVE \A e \in es : Lowers(st, temp, e, K)
    <3> HIDE DEF map, ordering
    <3>1. /\ ReadsOnly(TransposeB(st.rhs.name, temp, ordering), ToSet(st.rhs.idents))
          /\ ReadsOnly(ReshapeB(st.rhs.name, temp, map), ToSet(st.rhs.idents))
          /\ ReadsOnly(ReshapeB(st.rhs.name, st.name, map), ToSet(st.rhs.idents))
      BY <2>2, AccessNamed, ViewBuilders, ReadsOne
    <3>2. Lowers(st, temp, Emit(<< ReshapeB(st.rhs.name, st.name, map) >>), K)
      BY <3>1, ViewBuilders, OneLowered
    <3>3. Lowers(st, temp, Emit(<< TransposeB(st.rhs.name, temp, ordering), ReshapeB(temp, st.name, map) >>), K)
      BY <3>1, ViewBuilders, TwoLowered
    <3>4. Lowers(st, temp, Emit(<< ReshapeB(st.rhs.name, temp, map), TransposeB(temp, st.name, ordering) >>), K)
      BY <3>1, ViewBuilders, TwoLowered
    <3> QED
      BY <3>2, <3>3, <3>4
  <2> QED
    BY <2>1, <2>2, NothingLowered
<1>3. /\ o \in {No, Throw, Abort, EmitReshape1(st, temp), PrintGroup(st)}
      /\ ~OneAccess(st) => o = No
      /\ OneAccess(st) /\ st.rhs.kind # "apply" => o = Throw
  BY DEF TryReshape
<1>4. Lowers(st, temp, o, K)
  <2> HIDE DEF o, K
  <2> QED
    BY <1>1, <1>2, <1>3, NothingLowered
<1>5. Throw.verdict # "no"
  BY DEF Throw
<1> QED
  BY <1>3, <1>4, <1>5

LEMMA ConvLowers ==
  ASSUME NEW st, IsStatement(st), NEW temp
  PROVE  Lowers(st, temp, MatchConv(st), {"conv"})
<1> DEFINE ts == st.rhs.kids
           b == [op |-> "conv", ins |-> <<ts[1].name, ts[2].name>>, out |-> st.name]
<1>1. CASE Len(ts) < 2 \/ ts[1].kind # "apply" \/ ts[2].kind # "apply"
  <2>1. MatchConv(st) \in {No, Throw}
    BY <1>1 DEF MatchConv
  <2> QED
    BY <2>1, NothingLowered
<1>2. CASE ~(Len(ts) < 2) /\ ts[1].kind = "apply" /\ ts[2].kind = "apply"
  <2>1. IsTree(st.rhs) /\ IsSeq(ts)
    BY DEF IsStatement, IsTree, IsNode
  <2>2. 1 \in DOMAIN ts /\ 2 \in DOMAIN ts
    BY <1>2, <2>1 DEF IsSeq
  <2>3. ts[1] \in Children(st.rhs) /\ ts[2] \in Children(st.rhs)
    BY <2>2 DEF Children, ToSet
  <2>4. Operandlike(st.rhs, ts[1]) /\ Operandlike(st.rhs, ts[2])
    BY <2>3 DEF Operandlike
  <2>5. ts[1].name \in ToSet(st.rhs.idents) /\ ts[2].name \in ToSet(st.rhs.idents)
    BY <1>2, <2>1, <2>4, OperandNamed
  <2>6. Lowers(st, temp, Emit(<<b>>), {"conv"})
    BY <2>5, ReadsTwo, OneLowered
  <2>7. MatchConv(st) \in {No, Throw, Emit(<<b>>)}
    BY DEF MatchConv
  <2> QED
    BY <2>6, <2>7, NothingLowered
<1> QED
  BY <1>1, <1>2

LEMMA MatMulLowers ==
  ASSUME NEW st, IsStatement(st), NEW temp
  PROVE  Lowers(st, temp, MatchMatMul(st), {"matmul"})
<1> DEFINE tries == GemmTries(st)
           hits == Hits(tries)
           mmi  == tries[Max(hits)]
           b    == [op |-> "matmul", ins |-> <<mmi.ctx["A"], mmi.ctx["B"]>>, out |-> st.name,
                    transa |-> Trans(\E h \in hits : tries[h].ta),
                    transb |-> Trans(\E h \in hits : tries[h].tb),
                    dims  |-> [M |-> Folded(st, mmi.ctx["i"]), N |-> Folded(st, mmi.ctx["j"]),
                               K |-> Folded(st, mmi.ctx["k"])],
                    alpha |-> mmi.alpha]
<1>1. CASE hits = {}
  <2>1. MatchMatMul(st) = No
    BY <1>1 DEF MatchMatMul
  <2> QED
    BY <2>1, NothingLowered
<1>2. CASE hits # {}
  <2>1. ASSUME NEW h \in hits
        PROVE  {tries[h].ctx["A"], tries[h].ctx["B"]} \subseteq ToSet(st.rhs.idents)
    <3>1. Matched(tries[h].ctx) /\ h \in 1..5
      BY DEF Hits, GemmTries
    <3>2. PICK ta \in {"N", "T"}, tb \in {"N", "T"}, scaled \in BOOLEAN :
             tries[h].ctx = Gemm(st, ta, tb, scaled)
      <4>1. tries[1].ctx = Gemm(st, "N", "N", FALSE)
        BY DEF GemmTries
      <4>2. tries[2].ctx \in {Failed, Gemm(st, "N", "N", TRUE)}
        BY DEF GemmTries
      <4>3. tries[3].ctx = Gemm(st, "T", "N", FALSE)
        BY DEF GemmTries
      <4>4. tries[4].ctx = Gemm(st, "N", "T", FALSE)
        BY DEF GemmTries
      <4>5. tries[5].ctx = Gemm(st, "T", "T", FALSE)
        BY DEF GemmTries
      <4>6. h \in {1, 2, 3, 4, 5} /\ tries[h].ctx # Failed
        BY <3>1 DEF Matched
      <4> HIDE DEF tries, hits
      <4>7. CASE h = 1
        BY <4>1, <4>7
      <4>8. CASE h = 2
        BY <4>2, <4>6, <4>8
      <4>9. CASE h \in {3, 4, 5}
        BY <4>3, <4>4, <4>5, <4>9
      <4> QED
        BY <4>6, <4>7, <4>8, <4>9
    <3>3. RolesOf(GemmA(ta)) /\ RolesOf(GemmB(tb))
      BY DEF RolesOf, GemmA, GemmB
    <3>4. PICK ctx : ctx = tries[h].ctx
      OBVIOUS
    <3> HIDE DEF tries, hits
    <3>5. ctx = Recognise(st, GemmA(ta), GemmB(tb), <<"i", "j">>, scaled) /\ Matched(ctx)
      BY <3>1, <3>2, <3>4 DEF Gemm
    <3> QED
      BY <3>3, <3>4, <3>5, RecogniseNames
  <2>2. hits \in SUBSET (1..5)
    BY DEF Hits, GemmTries
  <2>3. Max(hits) \in hits
    BY <1>2, <2>2, MaxHit
  <2>4. {mmi.ctx["A"], mmi.ctx["B"]} \subseteq ToSet(st.rhs.idents)
    <3> HIDE DEF tries, hits
    <3> QED
      BY <2>1, <2>3
  <2>5. Lowers(st, temp, Emit(<<b>>), {"matmul"})
    <3>1. b.ins = <<mmi.ctx["A"], mmi.ctx["B"]>> /\ b.out = st.name /\ b.op = "matmul"
      OBVIOUS
    <3> HIDE DEF b, mmi
    <3> QED
      BY <2>4, <3>1, ReadsTwo, OneLowered
  <2>6. MatchMatMul(st) \in {No, Throw, Emit(<<b>>)}
    BY DEF MatchMatMul
  <2> QED
    BY <2>5, <2>6, NothingLowered
<1> QED
  BY <1>1, <1>2

LEMMA MatVecLowers ==
  ASSUME NEW st, IsStatement(st), NEW temp
  PROVE  Lowers(st, temp, MatchMatVec(st), {"matvec"})
<1> DEFINE tries == MatVecTries(st)
           hits == Hits(tries)
           mvi == tries[Min(hits)]
           b   == [op |-> "matvec", ins |-> <<mvi.ctx["A"], mvi.ctx["B"]>>, out |-> st.name,
                   transa |-> mvi.transa, alpha |-> mvi.alpha]
<1>1. CASE hits = {}
  <2>1. MatchMatVec(st) = No
    BY <1>1 DEF MatchMatVec
  <2> QED
    BY <2>1, NothingLowered
<1>2. CASE hits # {}
  <2>1. ASSUME NEW h \in hits
        PROVE  {tries[h].ctx["A"], tries[h].ctx["B"]} \subseteq ToSet(st.rhs.idents)
    <3>1. Matched(tries[h].ctx) /\ h \in 1..4
      BY DEF Hits, MatVecTries
    <3>2. PICK ta \in {"N", "T"}, scaled \in BOOLEAN : tries[h].ctx = Gemv(st, ta, scaled)
      <4>1. tries[1].ctx = Gemv(st, "N", FALSE)
        BY DEF MatVecTries, Gemv, VecRoles
      <4>2. tries[2].ctx = Gemv(st, "T", FALSE)
        BY DEF MatVecTries, Gemv, VecRoles
      <4>3. tries[3].ctx = Gemv(st, "N", TRUE)
        BY DEF MatVecTries, Gemv, VecRoles
      <4>4. tries[4].ctx = Gemv(st, "T", TRUE)
        BY DEF MatVecTries, Gemv, VecRoles
      <4>5. h \in {1, 2, 3, 4}
        BY <3>1
      <4> HIDE DEF tries, hits
      <4> QED
        BY <4>1, <4>2, <4>3, <4>4, <4>5
    <3>3. RolesOf(VecRoles(ta)) /\ RolesOf(<<"j">>)
      BY DEF RolesOf, VecRoles
    <3>4. PICK ctx : ctx = tries[h].ctx
      OBVIOUS
    <3> HIDE DEF tries, hits
    <3>5. ctx = Recognise(st, VecRoles(ta), <<"j">>, <<"i">>, scaled) /\ Matched(ctx)
      BY <3>1, <3>2, <3>4 DEF Gemv
    <3> QED
      BY <3>3, <3>4, <3>5, RecogniseNames
  <2>2. hits \in SUBSET (1..4)
    BY DEF Hits, MatVecTries
  <2>3. Min(hits) \in hits
    BY <1>2, <2>2, MinHit
  <2>4. {mvi.ctx["A"], mvi.ctx["B"]} \subseteq ToSet(st.rhs.idents)
    <3> HIDE DEF tries, hits
    <3> QED
      BY <2>1, <2>3
  <2>5. Lowers(st, temp, Emit(<<b>>), {"matvec"})
    <3>1. b.ins = <<mvi.ctx["A"], mvi.ctx["B"]>> /\ b.out = st.name /\ b.op = "matvec"
      OBVIOUS
    <3> HIDE DEF b, mvi
    <3> QED
      BY <2>4, <3>1, ReadsTwo, OneLowered
  <2>6. MatchMatVec(st) \in {No, Emit(<<b>>)}
    BY DEF MatchMatVec
  <2> QED
    BY <2>5, <2>6, NothingLowered
<1> QED
  BY <1>1, <1>2

-------------------------------------------------------------------------------
\* What the statement being lowered is.
LEMMA Current ==
  ASSUME ProgressInv, phase \in Tries
  PROVE  /\ tactic \in Tactics /\ at \in DOMAIN tactic /\ c = tactic[at] /\ IsStatement(c)
<1>1. tactic \in Tactics /\ at \in 2..Len(tactic)
  BY DEF ProgressInv
<1>2. DOMAIN tactic = 1..Len(tactic) /\ \A p \in DOMAIN tactic : IsStatement(tactic[p])
  BY <1>1, EmitterConstants
<1>3. at \in DOMAIN tactic
  BY <1>1, <1>2, TacticLength
<1> QED
  BY <1>1, <1>2, <1>3 DEF c

\* Builders of another kind are none of the two properties' business.
LEMMA OthersExact ==
  ASSUME NEW st, NEW temp, NEW o, NEW kinds \in SUBSET {"reshape", "transpose", "conv"},
         Lowers(st, temp, o, kinds), o.verdict = "emit"
  PROVE  \A q \in 1..Len(o.builders) : Exact([at |-> at, b |-> o.builders[q]])
<1>1. CASE \E b : o.builders = <<b>> /\ b.op \in kinds
  <2>1. PICK b : o.builders = <<b>> /\ b.op \in kinds
    BY <1>1
  <2>2. \A q \in 1..Len(o.builders) : o.builders[q] = b
    BY <2>1
  <2> QED
    BY <2>1, <2>2 DEF Exact
<1>2. CASE \E b1, b2 : o.builders = <<b1, b2>> /\ b1.op \in kinds /\ b2.op \in kinds
  <2>1. PICK b1, b2 : o.builders = <<b1, b2>> /\ b1.op \in kinds /\ b2.op \in kinds
    BY <1>2
  <2>2. \A q \in 1..Len(o.builders) : o.builders[q] \in {b1, b2}
    BY <2>1
  <2> QED
    BY <2>1, <2>2 DEF Exact
<1> QED
  BY <1>1, <1>2 DEF Lowers

LEMMA ProductsInit == Init => ProductsInv
<1> SUFFICES ASSUME Init PROVE ProductsInv
  OBVIOUS
<1>1. DOMAIN out = {} /\ phase \notin Tries
  BY DEF Init, Tries
<1> QED
  BY <1>1, ProgressInit DEF ProductsInv, GemmExact, GemvExact

LEMMA ProductsStep ==
  ASSUME NoReservedName
  PROVE  ProductsInv /\ [Next]_vars => ProductsInv'
<1> SUFFICES ASSUME ProductsInv, [Next]_vars PROVE ProductsInv'
  OBVIOUS
<1>t. ProgressInv /\ ProgressInv'
  BY ProgressStep DEF ProductsInv
<1>k. {"matmul", "matvec", "reshape", "transpose", "conv", "unknown"} \subseteq Tries
  BY DEF Tries
<1>s. PICK st : st = c
  OBVIOUS
<1>p. phase \in Tries => IsStatement(st) /\ Unassigned \notin ToSet(st.rhs.idents)
  BY <1>t, <1>s, Current DEF NoReservedName
<1>1. CASE Start
  <2>1. UNCHANGED <<tactic, at, out>> /\ phase' \notin Tries
    BY <1>1 DEF Start, Tries
  <2> QED
    BY <1>t, <2>1 DEF ProductsInv, GemmExact, GemvExact
<1>2. CASE EmitWhat
  <2>1. PICK b : b.op \notin {"matmul", "matvec"} /\ out' = Printed(<<b>>)
    <3> DEFINE w == [op |-> "what", text |-> PatternText(c)]
               h == [op |-> "header"]
    <3>1. out' = Printed(<<w>>) \/ out' = Printed(<<h>>)
      BY <1>2 DEF EmitWhat
    <3>2. w.op = "what" /\ h.op = "header"
      OBVIOUS
    <3> HIDE DEF w, h
    <3> QED
      BY <3>1, <3>2
  <2>2. out' = << [at |-> at, b |-> b] >>
    BY <2>1 DEF Printed
  <2>3. \A p \in DOMAIN out' : out'[p].b = b
    BY <2>2
  <2>4. phase' \notin Tries \ {"matmul"}
    BY <1>2 DEF EmitWhat, Tries
  <2> QED
    BY <1>t, <2>1, <2>3, <2>4 DEF ProductsInv, GemmExact, GemvExact
<1>3. CASE MatchAndEmitMatMul
  <2>1. PICK o : o = MatchMatMul(st)
    OBVIOUS
  <2>2. Try("matmul", "matvec", o) /\ phase \in Tries /\ Outcome(o)
    BY <1>3, <1>k, <1>s, <2>1, MatMulOutcome DEF MatchAndEmitMatMul, Try
  <2>3. /\ o.verdict = "emit" => \E b : o.builders = <<b>> /\ b.op = "matmul" /\ GemmRight(st, b)
        /\ o.verdict = "no" => ~\E ta, tb \in {"N", "T"} :
             FitsGemm(st, ta, tb) /\ (Scaled(st) => ta = "N" /\ tb = "N")
    BY <1>p, <2>1, <2>2, MatMulExact
  <2>4. o.verdict = "emit" => \A q \in 1..Len(o.builders) : Exact([at |-> at, b |-> o.builders[q]])
    <3> SUFFICES ASSUME o.verdict = "emit", NEW q \in 1..Len(o.builders)
                 PROVE  Exact([at |-> at, b |-> o.builders[q]])
      OBVIOUS
    <3>1. PICK b : o.builders = <<b>> /\ b.op = "matmul" /\ GemmRight(st, b)
      BY <2>3
    <3>2. o.builders[q] = b /\ st = tactic[at]
      BY <3>1, <1>s DEF c
    <3> QED
      BY <3>1, <3>2 DEF Exact
  <2> QED
    BY <1>t, <1>k, <1>s, <2>2, <2>3, <2>4, ProductsTry
<1>4. CASE MatchAndEmitMatVec
  <2>1. PICK o : o = MatchMatVec(st)
    OBVIOUS
  <2>2. Try("matvec", "reshape", o) /\ phase \in Tries /\ Outcome(o)
    BY <1>4, <1>k, <1>s, <2>1, MatVecOutcome DEF MatchAndEmitMatVec, Try
  <2>3. /\ o.verdict = "emit" => \E b : o.builders = <<b>> /\ b.op = "matvec" /\ GemvRight(st, b)
        /\ o.verdict = "no" => ~\E ta \in {"N", "T"} : FitsGemv(st, ta)
    BY <1>p, <2>1, <2>2, MatVecExact
  <2>4. o.verdict = "emit" => \A q \in 1..Len(o.builders) : Exact([at |-> at, b |-> o.builders[q]])
    <3> SUFFICES ASSUME o.verdict = "emit", NEW q \in 1..Len(o.builders)
                 PROVE  Exact([at |-> at, b |-> o.builders[q]])
      OBVIOUS
    <3>1. PICK b : o.builders = <<b>> /\ b.op = "matvec" /\ GemvRight(st, b)
      BY <2>3
    <3>2. o.builders[q] = b /\ st = tactic[at]
      BY <3>1, <1>s DEF c
    <3> QED
      BY <3>1, <3>2 DEF Exact
  <2> QED
    BY <1>t, <1>k, <1>s, <2>2, <2>3, <2>4, ProductsTry
<1>5. CASE MatchAndEmitReshape
  <2>1. PICK temp, o : temp = Tmp(nextId) /\ o = TryReshape(st, temp)
    OBVIOUS
  <2>2. Try("reshape", "transpose", o) /\ phase \in Tries /\ Outcome(o)
    BY <1>5, <1>k, <1>s, <2>1, ReshapeOutcome DEF MatchAndEmitReshape, Try
  <2>3. o.verdict = "emit" => \A q \in 1..Len(o.builders) : Exact([at |-> at, b |-> o.builders[q]])
    BY <1>p, <2>1, <2>2, ReshapeLowers, OthersExact
  <2> QED
    BY <1>t, <1>k, <1>s, <2>2, <2>3, ProductsTry
<1>6. CASE MatchAndEmitTranspose
  <2>1. PICK o : o = TryTranspose(st)
    OBVIOUS
  <2>2. Try("transpose", "conv", o) /\ phase \in Tries /\ Outcome(o)
    BY <1>6, <1>k, <1>s, <2>1, TransposeOutcome DEF MatchAndEmitTranspose, Try
  <2>3. o.verdict = "emit" => \A q \in 1..Len(o.builders) : Exact([at |-> at, b |-> o.builders[q]])
    <3> DEFINE b == TransposeB(st.rhs.name, st.name, GetOrdering(ArgNames(st.rhs), st.indices))
    <3>1. o \in {No, Throw, Emit(<<b>>)}
      BY <2>1 DEF TryTranspose
    <3>2. b.op = "transpose"
      BY ViewBuilders
    <3> HIDE DEF b
    <3>3. o.verdict = "emit" => o.builders = <<b>>
      BY <3>1 DEF No, Throw, Emit
    <3> QED
      BY <3>2, <3>3 DEF Exact
  <2> QED
    BY <1>t, <1>k, <1>s, <2>2, <2>3, ProductsTry
<1>7. CASE MatchAndEmitConv
  <2>1. PICK o : o = MatchConv(st)
    OBVIOUS
  <2>2. Try("conv", "unknown", o) /\ phase \in Tries /\ Outcome(o)
    BY <1>7, <1>k, <1>s, <2>1, ConvOutcome DEF MatchAndEmitConv, Try
  <2>3. o.verdict = "emit" => \A q \in 1..Len(o.builders) : Exact([at |-> at, b |-> o.builders[q]])
    BY <1>p, <2>1, <2>2, ConvLowers, OthersExact
  <2> QED
    BY <1>t, <1>k, <1>s, <2>2, <2>3, ProductsTry
<1>8. CASE UnknownBuilder
  <2>1. UNCHANGED <<tactic, at, out>> /\ phase' \notin Tries
    BY <1>8 DEF UnknownBuilder, Tries
  <2> QED
    BY <1>t, <2>1 DEF ProductsInv, GemmExact, GemvExact
<1>9. CASE EmitFooter
  <2>1. out \in Seq(Range(out)) /\ tactic' = tactic /\ phase' \notin Tries
    BY <1>t, <1>9 DEF ProgressInv, EmitFooter, Tries
  <2>2. PICK r : r = [at |-> at, b |-> [op |-> "eraseOp"]] /\ out' = Append(out, r)
    BY <1>9 DEF EmitFooter
  <2>3. out \in Seq(Range(out) \cup {r})
    BY <2>1, SeqMonotonic
  <2>4. \A p \in DOMAIN out' : (p \in DOMAIN out /\ out'[p] = out[p]) \/ out'[p] = r
    BY <2>2, <2>3, AppendProperties, LenProperties
  <2>5. r.b.op = "eraseOp"
    BY <2>2
  <2> QED
    BY <1>t, <2>1, <2>4, <2>5 DEF ProductsInv, GemmExact, GemvExact
<1>10. CASE Stop \/ UNCHANGED vars
  <2>1. UNCHANGED <<tactic, at, phase, nextId, out>>
    BY <1>10 DEF Stop, vars
  <2> QED
    BY <1>t, <2>1 DEF ProductsInv, GemmExact, GemvExact, c
<1> QED
  BY <1>1, <1>2, <1>3, <1>4, <1>5, <1>6, <1>7, <1>8, <1>9, <1>10 DEF Next

\* A matmulBuilder says what form its statement has, and matchMatMul declines no
\* matrix product over three indices but those that are both scaled and transposed,
\* whatever the tactics are, as long as they leave the name that the placeholders
\* reserve alone (emitter.cpp:305-357).
THEOREM EmitterGemmExact ==
  ASSUME NoReservedName
  PROVE  Spec => []GemmExact
<1>1. ProductsInv => GemmExact
  BY DEF ProductsInv
<1>2. ProductsInv /\ [Next]_vars => ProductsInv'
  BY ProductsStep
<1> QED
  BY ProductsInit, <1>1, <1>2, PTL DEF Spec

\* A matvecBuilder says what form its statement has, and matchMatVec declines no
\* product of a matrix and a vector over two indices (emitter.cpp:360-372).
THEOREM EmitterGemvExact ==
  ASSUME NoReservedName
  PROVE  Spec => []GemvExact
<1>1. ProductsInv => GemvExact
  BY DEF ProductsInv
<1>2. ProductsInv /\ [Next]_vars => ProductsInv'
  BY ProductsStep
<1> QED
  BY ProductsInit, <1>1, <1>2, PTL DEF Spec
-------------------------------------------------------------------------------
\* A record writes the tensor of its statement or a generated one, and reads tensors
\* that its statement names or the generated one that the record before it writes.
Writes(p) == out[p].b.out = tactic[out[p].at].name \/ Generated(p)
Reads(p)  == \/ ReadsOnly(out[p].b, ToSet(tactic[out[p].at].rhs.idents))
             \/ p - 1 \in DOMAIN out /\ Generated(p - 1) /\ out[p].b.ins = <<out[p - 1].b.out>>

\* A generated tensor has a number that was given out once.
Numbered == \A p \in DOMAIN out : Generated(p) =>
              /\ out[p + 1].b.ins = <<out[p].b.out>>
              /\ \E n \in 0..(nextId - 1) : out[p].b.out = Tmp(n)
Apart == \A p, q \in DOMAIN out :
           p # q /\ Generated(p) /\ Generated(q) => out[p].b.out # out[q].b.out

TempsInv ==
  /\ ProgressInv
  /\ phase = "transpose" => (OneAccess(c) => c.rhs.kind = "apply")
  /\ \A p \in DOMAIN out : /\ out[p].b.op \in Kinds \cup {"what"} \cup Marks
                           /\ out[p].b.op \in Kinds => Writes(p) /\ Reads(p)
  /\ Numbered
  /\ Apart

LEMMA TempsPrivateHolds == TempsInv => TempsPrivate
<1> SUFFICES ASSUME TempsInv PROVE TempsPrivate
  OBVIOUS
<1>2. nextId \in Nat /\ out \in Seq(Range(out)) /\ LoweredInOrder
  BY DEF TempsInv, ProgressInv, TypeOK
<1>3. DOMAIN out = 1..Len(out) /\ Len(out) \in Nat
  BY <1>2, LenProperties
<1> SUFFICES ASSUME NEW p \in DOMAIN out, Generated(p)
             PROVE  LET t == out[p].b.out IN
                    /\ out[p + 1].b.ins = <<t>>
                    /\ t \in {Tmp(n) : n \in 0..(nextId - 1)}
                    /\ \A q \in DOMAIN out : Builder(q) /\ q # p /\ out[q].b.out = t
                         => ~Generated(q) /\ tactic[out[q].at].name = t
                    /\ \A q \in DOMAIN out : Builder(q) /\ q # p + 1 /\ Contains(out[q].b.ins, t)
                         => t \in ToSet(tactic[out[q].at].rhs.idents)
  BY DEF TempsPrivate
<1>4. PICK t : t = out[p].b.out
  OBVIOUS
<1>5. /\ out[p + 1].b.ins = <<t>>
      /\ \E n \in 0..(nextId - 1) : t = Tmp(n)
  BY <1>4 DEF TempsInv, Numbered
<1>7. ASSUME NEW q \in DOMAIN out, Builder(q) PROVE out[q].b.op \in Kinds /\ Writes(q) /\ Reads(q)
  <2>1. out[q].b.op # "header"
    <3>1. p + 1 \in DOMAIN out /\ p \in 1..Len(out)
      BY <1>3 DEF Generated
    <3>2. Len(out) # 1
      BY <1>3, <3>1
    <3> QED
      BY <1>2, <3>2 DEF LoweredInOrder
  <2> QED
    BY <1>7, <2>1 DEF TempsInv, Builder, Marks
<1>8. ASSUME NEW q \in DOMAIN out, Builder(q), q # p, out[q].b.out = t
      PROVE  ~Generated(q) /\ tactic[out[q].at].name = t
  <2>1. ~Generated(q)
    BY <1>4, <1>8 DEF TempsInv, Apart
  <2> QED
    BY <1>7, <1>8, <2>1 DEF Writes
<1>9. ASSUME NEW q \in DOMAIN out, Builder(q), q # p + 1, Contains(out[q].b.ins, t)
      PROVE  t \in ToSet(tactic[out[q].at].rhs.idents)
  <2>1. CASE ReadsOnly(out[q].b, ToSet(tactic[out[q].at].rhs.idents))
    BY <1>9, <2>1 DEF ReadsOnly
  <2>2. CASE q - 1 \in DOMAIN out /\ Generated(q - 1) /\ out[q].b.ins = <<out[q - 1].b.out>>
    <3>1. q - 1 # p
      BY <1>3, <1>9
    <3>2. out[q - 1].b.out # t
      BY <1>4, <2>2, <3>1 DEF TempsInv, Apart
    <3> QED
      BY <1>9, <2>2, <3>2 DEF Contains
  <2> QED
    BY <1>7, <1>9, <2>1, <2>2 DEF Reads
<1> QED
  BY <1>4, <1>5, <1>8, <1>9

\* Nothing is printed and no statement is begun.
LEMMA TempsFrame ==
  ASSUME TempsInv, ProgressInv', UNCHANGED <<tactic, at, nextId, out>>,
         phase' = "transpose" => (OneAccess(c) => c.rhs.kind = "apply")
  PROVE  TempsInv'
<1>1. c' = c
  BY DEF c
<1>2. \A p : (Generated(p)' <=> Generated(p)) /\ (Writes(p)' <=> Writes(p))
  BY <1>1 DEF Generated, Writes
<1>3. \A p : Reads(p)' <=> Reads(p)
  BY <1>1, <1>2 DEF Reads
<1>4. Numbered' /\ Apart'
  BY <1>2 DEF TempsInv, Numbered, Apart
<1>5. \A p \in DOMAIN out : /\ out[p].b.op \in Kinds \cup {"what"} \cup Marks
                           /\ out[p].b.op \in Kinds => Writes(p) /\ Reads(p)
  BY DEF TempsInv
<1> QED
  BY <1>1, <1>2, <1>3, <1>4, <1>5 DEF TempsInv

\* The records before p + 1 stay, and nothing joins p to what is printed after it.
LEMMA GeneratedKept ==
  ASSUME ProgressInv, NEW n, n = Len(out), NEW k \in Nat, k > n,
         DOMAIN out' = 1..k, \A p \in 1..n : out'[p] = out[p],
         \A p \in DOMAIN out : out[p].at < at,
         out'[n + 1].at = at
  PROVE  /\ n \in Nat /\ DOMAIN out = 1..n
         /\ \A p \in DOMAIN out : Generated(p)' <=> Generated(p)
         /\ \A p \in DOMAIN out : Generated(p) => p + 1 \in DOMAIN out
<1>1. n \in Nat /\ DOMAIN out = 1..n /\ TypeOK /\ Len(tactic) \in Nat
  BY LenProperties, TacticLength DEF ProgressInv
<1>2. ASSUME NEW p \in 1..n PROVE Generated(p)' <=> Generated(p)
  <2>1. CASE p + 1 <= n
    <3>1. p + 1 \in 1..n /\ p + 1 \in 1..k
      BY <1>1, <2>1
    <3> QED
      BY <1>1, <3>1 DEF Generated
  <2>2. CASE p = n
    <3>1. p + 1 \notin DOMAIN out
      BY <1>1, <2>2
    <3>2. out'[p].at # out'[p + 1].at
      <4>1. out'[p].at = out[p].at /\ out'[p + 1].at = at /\ out[p].at < at
        BY <1>1, <2>2
      <4>2. out[p].at \in Nat /\ at \in Nat
        BY <1>1, <2>2 DEF TypeOK
      <4> QED
        BY <4>1, <4>2
    <3> QED
      BY <3>1, <3>2 DEF Generated
  <2> QED
    BY <1>1, <2>1, <2>2
<1> QED
  BY <1>1, <1>2 DEF Generated

\* What holds of the records already printed goes on holding.
RecordsHeld(n) ==
  /\ \A p \in 1..n : /\ out'[p].b.op \in Kinds \cup {"what"} \cup Marks
                     /\ out'[p].b.op \in Kinds => Writes(p)' /\ Reads(p)'
                     /\ Generated(p)' =>
                          /\ out'[p + 1].b.ins = <<out'[p].b.out>>
                          /\ \E m \in 0..(nextId - 1) : out'[p].b.out = Tmp(m)
  /\ \A p, q \in 1..n : p # q /\ Generated(p)' /\ Generated(q)' => out'[p].b.out # out'[q].b.out

LEMMA RecordsKept ==
  ASSUME TempsInv, NEW n, n = Len(out), NEW k \in Nat, k > n,
         DOMAIN out' = 1..k, \A p \in 1..n : out'[p] = out[p],
         \A p \in DOMAIN out : out[p].at < at,
         out'[n + 1].at = at, tactic' = tactic, nextId' \in Nat, nextId <= nextId'
  PROVE  RecordsHeld(n)
<1>1. /\ n \in Nat /\ DOMAIN out = 1..n
      /\ \A p \in DOMAIN out : Generated(p)' <=> Generated(p)
      /\ \A p \in DOMAIN out : Generated(p) => p + 1 \in DOMAIN out
  BY GeneratedKept DEF TempsInv
<1>2. \A p \in 1..n : tactic'[out'[p].at] = tactic[out[p].at]
  OBVIOUS
<1>3. ASSUME NEW p \in 1..n
      PROVE  /\ Writes(p) => Writes(p)'
             /\ Reads(p) => Reads(p)'
  <2>1. Writes(p) => Writes(p)'
    BY <1>1, <1>2 DEF Writes
  <2>2. Reads(p) => Reads(p)'
    <3>1. CASE ReadsOnly(out[p].b, ToSet(tactic[out[p].at].rhs.idents))
      BY <1>2, <3>1 DEF Reads, ReadsOnly
    <3>2. CASE p - 1 \in DOMAIN out /\ Generated(p - 1) /\ out[p].b.ins = <<out[p - 1].b.out>>
      <4>1. p - 1 \in 1..n /\ p - 1 \in 1..k
        BY <1>1, <3>2
      <4>2. Generated(p - 1)'
        BY <1>1, <3>2
      <4>3. out'[p].b.ins = <<out'[p - 1].b.out>>
        BY <3>2, <4>1
      <4> QED
        BY <4>1, <4>2, <4>3 DEF Reads
    <3> QED
      BY <3>1, <3>2 DEF Reads
  <2> QED
    BY <2>1, <2>2
<1>4. ASSUME NEW p \in 1..n
      PROVE  /\ out'[p].b.op \in Kinds \cup {"what"} \cup Marks
             /\ out'[p].b.op \in Kinds => Writes(p)' /\ Reads(p)'
  BY <1>1, <1>3 DEF TempsInv
<1>5. ASSUME NEW p \in 1..n, Generated(p)'
      PROVE  /\ out'[p + 1].b.ins = <<out'[p].b.out>>
             /\ \E m \in 0..(nextId - 1) : out'[p].b.out = Tmp(m)
  <2>1. Generated(p) /\ p + 1 \in 1..n
    BY <1>1, <1>5
  <2> QED
    BY <1>1, <2>1 DEF TempsInv, Numbered
<1>6. ASSUME NEW p \in 1..n, NEW q \in 1..n, p # q, Generated(p)', Generated(q)'
      PROVE  out'[p].b.out # out'[q].b.out
  BY <1>1, <1>6 DEF TempsInv, Apart
<1> QED
  BY <1>4, <1>5, <1>6 DEF RecordsHeld

\* One more record, of a builder that uses the statement's tensors or of none.
LEMMA TempsOne ==
  ASSUME TempsInv, ProgressInv', NEW n, n = Len(out),
         DOMAIN out' = 1..(n + 1), \A p \in 1..n : out'[p] = out[p],
         \A p \in DOMAIN out : out[p].at < at,
         out'[n + 1].at = at, UNCHANGED <<tactic, nextId>>, phase' # "transpose",
         out'[n + 1].b.op \in Kinds \cup {"what"} \cup Marks,
         out'[n + 1].b.op \in Kinds =>
           out'[n + 1].b.out = c.name /\ ReadsOnly(out'[n + 1].b, ToSet(c.rhs.idents))
  PROVE  TempsInv'
<1>1. n \in Nat /\ n + 1 \in Nat /\ n + 1 > n /\ nextId \in Nat /\ ProgressInv
  BY LenProperties DEF TempsInv, ProgressInv, TypeOK
<1>2. /\ \A p \in 1..n : /\ out'[p].b.op \in Kinds \cup {"what"} \cup Marks
                         /\ out'[p].b.op \in Kinds => Writes(p)' /\ Reads(p)'
                         /\ Generated(p)' =>
                              /\ out'[p + 1].b.ins = <<out'[p].b.out>>
                              /\ \E m \in 0..(nextId - 1) : out'[p].b.out = Tmp(m)
      /\ \A p, q \in 1..n : p # q /\ Generated(p)' /\ Generated(q)' => out'[p].b.out # out'[q].b.out
  <2>1. PICK k : k = n + 1
    OBVIOUS
  <2>2. k \in Nat /\ k > n /\ DOMAIN out' = 1..k
    BY <1>1, <2>1
  <2>3. nextId' \in Nat /\ nextId <= nextId'
    BY <1>1
  <2>4. out'[n + 1].at = at
    OBVIOUS
  <2>5. RecordsHeld(n)
    BY <2>2, <2>3, <2>4, RecordsKept
  <2> QED
    BY <2>5 DEF RecordsHeld
<1>3. ~Generated(n + 1)'
  BY <1>1 DEF Generated
<1>4. tactic'[out'[n + 1].at] = c
  BY DEF c
<1>5. \A p \in DOMAIN out' : p \in 1..n \/ p = n + 1
  BY <1>1
<1>6. out'[n + 1].b.op \in Kinds => Writes(n + 1)' /\ Reads(n + 1)'
  BY <1>4 DEF Writes, Reads, ReadsOnly
<1>7. Numbered'
  BY <1>2, <1>3, <1>5 DEF Numbered
<1>8. Apart'
  BY <1>2, <1>3, <1>5 DEF Apart
<1>9. \A p \in DOMAIN out' : /\ out'[p].b.op \in Kinds \cup {"what"} \cup Marks
                            /\ out'[p].b.op \in Kinds => Writes(p)' /\ Reads(p)'
  BY <1>2, <1>5, <1>6
<1> QED
  BY <1>7, <1>8, <1>9 DEF TempsInv

\* Two more records, which share the tensor of the number at hand.
LEMMA TempsTwo ==
  ASSUME TempsInv, ProgressInv', NEW n, n = Len(out),
         DOMAIN out' = 1..(n + 2), \A p \in 1..n : out'[p] = out[p],
         \A p \in DOMAIN out : out[p].at < at,
         NEW b1, NEW b2, b1.op \in Kinds, b2.op \in Kinds, b1.op # b2.op,
         out'[n + 1] = [at |-> at, b |-> b1], out'[n + 2] = [at |-> at, b |-> b2],
         tactic' = tactic, nextId' = nextId + 1, phase' # "transpose",
         b1.out = Tmp(nextId), ReadsOnly(b1, ToSet(c.rhs.idents)),
         b2.out = c.name, b2.ins = <<b1.out>>
  PROVE  TempsInv'
<1>1. /\ n \in Nat /\ n + 2 \in Nat /\ n + 2 > n /\ n + 1 \in 1..(n + 2) /\ n + 2 \in 1..(n + 2)
      /\ nextId \in Nat /\ nextId + 1 \in Nat /\ nextId <= nextId + 1 /\ ProgressInv
  BY LenProperties DEF TempsInv, ProgressInv, TypeOK
<1>2. /\ \A p \in 1..n : /\ out'[p].b.op \in Kinds \cup {"what"} \cup Marks
                         /\ out'[p].b.op \in Kinds => Writes(p)' /\ Reads(p)'
                         /\ Generated(p)' =>
                              /\ out'[p + 1].b.ins = <<out'[p].b.out>>
                              /\ \E m \in 0..(nextId - 1) : out'[p].b.out = Tmp(m)
      /\ \A p, q \in 1..n : p # q /\ Generated(p)' /\ Generated(q)' => out'[p].b.out # out'[q].b.out
  <2>1. PICK k : k = n + 2
    OBVIOUS
  <2>2. k \in Nat /\ k > n /\ DOMAIN out' = 1..k
    BY <1>1, <2>1
  <2>3. nextId' \in Nat /\ nextId <= nextId'
    BY <1>1
  <2>4. out'[n + 1].at = at
    OBVIOUS
  <2>5. RecordsHeld(n)
    BY <2>2, <2>3, <2>4, RecordsKept
  <2> QED
    BY <2>5 DEF RecordsHeld
<1>3. ~Generated(n + 2)'
  BY <1>1 DEF Generated
<1>4. Generated(n + 1)'
  <2>1. (n + 1) + 1 = n + 2
    BY <1>1
  <2>2. b2.op # "eraseOp"
    BY DEF Kinds
  <2> QED
    BY <1>1, <2>1, <2>2 DEF Generated
<1>5. tactic'[out'[n + 1].at] = c /\ tactic'[out'[n + 2].at] = c
  BY DEF c
<1>6. \A p \in DOMAIN out' : p \in 1..n \/ p = n + 1 \/ p = n + 2
  <2>1. \A p \in 1..(n + 2) : p \in 1..n \/ p = n + 1 \/ p = n + 2
    BY <1>1
  <2> QED
    BY <2>1
<1>7. /\ out'[n + 1].b = b1 /\ out'[n + 2].b = b2 /\ (n + 1) + 1 = n + 2 /\ (n + 2) - 1 = n + 1
      /\ (nextId + 1) - 1 = nextId
  BY <1>1
<1>8. Writes(n + 1)' /\ Reads(n + 1)' /\ Writes(n + 2)' /\ Reads(n + 2)'
  <2>1. Writes(n + 1)' /\ Writes(n + 2)'
    BY <1>4, <1>5, <1>7 DEF Writes
  <2>2. Reads(n + 1)'
    BY <1>5, <1>7 DEF Reads, ReadsOnly
  <2>3. Reads(n + 2)'
    BY <1>1, <1>4, <1>7 DEF Reads
  <2> QED
    BY <2>1, <2>2, <2>3
<1>9. \A p \in DOMAIN out' : Generated(p)' =>
              /\ out'[p + 1].b.ins = <<out'[p].b.out>>
              /\ \E m \in 0..(nextId' - 1) : out'[p].b.out = Tmp(m)
  <2> TAKE p \in DOMAIN out'
  <2>1. CASE p \in 1..n
    <3>1. \A m \in 0..(nextId - 1) : m \in 0..(nextId' - 1)
      BY <1>1
    <3> QED
      BY <1>2, <2>1, <3>1
  <2>2. CASE p = n + 1
    <3>1. nextId \in 0..(nextId' - 1)
      BY <1>1
    <3> QED
      BY <1>7, <2>2, <3>1
  <2> QED
    BY <1>3, <1>6, <2>1, <2>2
<1>10. \A m \in 0..(nextId - 1) : Tmp(m) # Tmp(nextId)
  BY <1>1 DEF Tmp
<1>11. Numbered'
  BY <1>9 DEF Numbered
<1>12. Apart'
  <2>1. \A p \in 1..n : Generated(p)' => out'[p].b.out # Tmp(nextId)
    BY <1>2, <1>10
  <2> SUFFICES ASSUME NEW p \in DOMAIN out', NEW q \in DOMAIN out', p # q,
                      Generated(p)', Generated(q)'
               PROVE  out'[p].b.out # out'[q].b.out
    BY DEF Apart
  <2>2. (p \in 1..n \/ p = n + 1) /\ (q \in 1..n \/ q = n + 1)
    BY <1>3, <1>6
  <2>3. CASE p \in 1..n /\ q \in 1..n
    BY <1>2, <2>3
  <2>4. CASE p \in 1..n /\ q = n + 1
    BY <1>7, <2>1, <2>4
  <2>5. CASE p = n + 1 /\ q \in 1..n
    BY <1>7, <2>1, <2>5
  <2> QED
    BY <2>2, <2>3, <2>4, <2>5
<1>13. \A p \in DOMAIN out' : /\ out'[p].b.op \in Kinds \cup {"what"} \cup Marks
                             /\ out'[p].b.op \in Kinds => Writes(p)' /\ Reads(p)'
  BY <1>2, <1>6, <1>7, <1>8
<1> QED
  BY <1>11, <1>12, <1>13 DEF TempsInv

LEMMA TempsTry ==
  ASSUME TempsInv, ProgressInv', NEW this \in Tries, NEW next \in Tries, NEW o, Outcome(o),
         Try(this, next, o), NEW kinds \in SUBSET Kinds, Lowers(c, Tmp(nextId), o, kinds),
         nextId' = IF Generates(o) THEN nextId + 1 ELSE nextId,
         o.verdict = "no" /\ next = "transpose" => (OneAccess(c) => c.rhs.kind = "apply")
  PROVE  TempsInv'
<1>1. /\ phase = this /\ tactic' = tactic /\ phase \in Tries /\ ProgressInv
  BY DEF Try, TempsInv
<1>2. CASE o.verdict # "emit"
  <2>1. /\ UNCHANGED <<tactic, at, nextId, out>>
        /\ phase' = "transpose" => o.verdict = "no" /\ next = "transpose"
    BY <1>2 DEF Try, Generates, Outcome
  <2> QED
    BY <2>1, TempsFrame
<1>3. CASE o.verdict = "emit"
  <2>1. out' = out \o Printed(o.builders) /\ phase' # "transpose"
    BY <1>3 DEF Try
  <2>2. PICK n, m, new : n = Len(out) /\ m = Len(o.builders) /\ new = Printed(o.builders)
    OBVIOUS
  <2>3. Follows(n, m, new) /\ \A p \in 1..m : new[p] = [at |-> at, b |-> o.builders[p]]
    BY <1>1, <1>3, <2>1, <2>2, EmitFollows
  <2>4. /\ n \in Nat /\ m \in Nat /\ DOMAIN out' = 1..(n + m)
        /\ \A p \in 1..n : out'[p] = out[p]
        /\ \A p \in 1..m : out'[n + p] = [at |-> at, b |-> o.builders[p]]
    <3>1. /\ n \in Nat /\ m \in Nat /\ DOMAIN out' = 1..(n + m)
          /\ \A p \in 1..(n + m) : out'[p] = IF p <= n THEN out[p] ELSE new[p - n]
      BY <2>3 DEF Follows
    <3>2. ASSUME NEW p \in 1..m PROVE out'[n + p] = [at |-> at, b |-> o.builders[p]]
      <4>1. n + p \in 1..(n + m) /\ ~(n + p <= n) /\ (n + p) - n = p
        BY <3>1
      <4> QED
        BY <2>3, <3>1, <4>1
    <3>3. ASSUME NEW p \in 1..n PROVE out'[p] = out[p]
      BY <3>1
    <3> QED
      BY <3>1, <3>2, <3>3
  <2>5. \A p \in DOMAIN out : out[p].at < at
    BY <1>1 DEF ProgressInv
  <2>7. CASE \E b : /\ o.builders = <<b>> /\ b.op \in kinds
                   /\ b.out = c.name /\ ReadsOnly(b, ToSet(c.rhs.idents))
    <3>1. PICK b : /\ o.builders = <<b>> /\ b.op \in kinds
                   /\ b.out = c.name /\ ReadsOnly(b, ToSet(c.rhs.idents))
      BY <2>7
    <3>2. m = 1 /\ o.builders[1] = b /\ nextId' = nextId
      BY <2>2, <3>1 DEF Generates
    <3>3. out'[n + 1] = [at |-> at, b |-> b]
      BY <2>4, <3>2
    <3>4. out'[n + 1].at = at /\ out'[n + 1].b = b
      BY <3>3
    <3> QED
      BY <1>1, <2>1, <2>2, <2>4, <2>5, <3>1, <3>2, <3>4, TempsOne
  <2>8. CASE \E b1, b2 : /\ o.builders = <<b1, b2>> /\ b1.op \in kinds /\ b2.op \in kinds
                        /\ b1.op # b2.op
                        /\ b1.out = Tmp(nextId) /\ ReadsOnly(b1, ToSet(c.rhs.idents))
                        /\ b2.out = c.name /\ b2.ins = <<Tmp(nextId)>>
    <3>1. PICK b1, b2 : /\ o.builders = <<b1, b2>> /\ b1.op \in kinds /\ b2.op \in kinds
                        /\ b1.op # b2.op
                        /\ b1.out = Tmp(nextId) /\ ReadsOnly(b1, ToSet(c.rhs.idents))
                        /\ b2.out = c.name /\ b2.ins = <<Tmp(nextId)>>
      BY <2>8
    <3>2. m = 2 /\ o.builders[1] = b1 /\ o.builders[2] = b2 /\ nextId' = nextId + 1
      BY <1>3, <2>2, <3>1 DEF Generates
    <3>3. out'[n + 1] = [at |-> at, b |-> b1] /\ out'[n + 2] = [at |-> at, b |-> b2]
      BY <2>4, <3>2
    <3>4. b2.out = c.name /\ ReadsOnly(b1, ToSet(c.rhs.idents))
      BY <3>1
    <3>5. /\ b1.op \in Kinds /\ b2.op \in Kinds /\ b1.op # b2.op
          /\ b1.out = Tmp(nextId) /\ b2.ins = <<b1.out>>
      BY <3>1
    <3>6. DOMAIN out' = 1..(n + 2) /\ n = Len(out)
      BY <2>2, <2>4, <3>2
    <3>7. TempsInv /\ ProgressInv'
      OBVIOUS
    <3> QED
      BY ONLY <1>1, <2>1, <2>4, <2>5, <3>2, <3>3, <3>4, <3>5, <3>6, <3>7, TempsTwo, ZenonT(30)
  <2> QED
    BY <1>3, <2>7, <2>8 DEF Lowers
<1> QED
  BY <1>2, <1>3

LEMMA TempsInit == Init => TempsInv
<1> SUFFICES ASSUME Init PROVE TempsInv
  OBVIOUS
<1>1. DOMAIN out = {} /\ phase = "start"
  BY DEF Init
<1> QED
  BY <1>1, ProgressInit DEF TempsInv, Numbered, Apart

LEMMA TempsStep == TempsInv /\ [Next]_vars => TempsInv'
<1> SUFFICES ASSUME TempsInv, [Next]_vars PROVE TempsInv'
  OBVIOUS
<1>t. ProgressInv /\ ProgressInv'
  BY ProgressStep DEF TempsInv
<1>k. /\ {"matmul", "matvec", "reshape", "transpose", "conv", "unknown"} \subseteq Tries
      /\ {"matmul"} \in SUBSET Kinds /\ {"matvec"} \in SUBSET Kinds /\ {"conv"} \in SUBSET Kinds
      /\ {"transpose"} \in SUBSET Kinds /\ {"reshape", "transpose"} \in SUBSET Kinds
  BY DEF Tries, Kinds
<1>s. PICK st, temp : st = c /\ temp = Tmp(nextId)
  OBVIOUS
<1>p. phase \in Tries => IsStatement(st)
  BY <1>t, <1>s, Current
\* A recogniser whose builders are all of one kind prints one of them.
<1>g. ASSUME NEW o, NEW kind, Lowers(st, temp, o, {kind}) PROVE ~Generates(o)
  <2>1. CASE o.verdict # "emit"
    BY <2>1 DEF Generates
  <2>2. CASE \E b : o.builders = <<b>>
    BY <2>2 DEF Generates
  <2> QED
    BY <1>g, <2>1, <2>2 DEF Lowers
<1>1. CASE Start
  BY <1>t, <1>1, TempsFrame DEF Start
<1>2. CASE EmitWhat
  <2>1. out = <<>> /\ at = 1 /\ UNCHANGED <<tactic, nextId>> /\ phase' # "transpose"
    BY <1>t, <1>2 DEF EmitWhat, ProgressInv
  <2>2. PICK b : b.op \in {"what", "header"} /\ out' = Printed(<<b>>)
    <3> DEFINE w == [op |-> "what", text |-> PatternText(c)]
               h == [op |-> "header"]
    <3>1. out' = Printed(<<w>>) \/ out' = Printed(<<h>>)
      BY <1>2 DEF EmitWhat
    <3>2. w.op = "what" /\ h.op = "header"
      OBVIOUS
    <3> HIDE DEF w, h
    <3> QED
      BY <3>1, <3>2
  <2>3. out' = << [at |-> 1, b |-> b] >>
    BY <2>1, <2>2 DEF Printed
  <2>4. DOMAIN out' = 1..(0 + 1) /\ out'[0 + 1].at = at /\ out'[0 + 1].b = b /\ Len(out) = 0
        /\ DOMAIN out = {}
    BY <2>1, <2>3
  <2>5. out'[0 + 1].b.op \in {"what"} \cup Marks /\ out'[0 + 1].b.op \notin Kinds
    BY <2>2, <2>4 DEF Marks, Kinds
  <2>6. PICK n : n = 0
    OBVIOUS
  <2> QED
    BY <1>t, <2>1, <2>4, <2>5, <2>6, TempsOne
<1>3. CASE MatchAndEmitMatMul
  <2>1. PICK o : o = MatchMatMul(st)
    OBVIOUS
  <2>2. Try("matmul", "matvec", o) /\ phase \in Tries /\ Outcome(o) /\ nextId' = nextId
    BY <1>3, <1>k, <1>s, <2>1, MatMulOutcome DEF MatchAndEmitMatMul, Try
  <2>3. Lowers(st, temp, o, {"matmul"})
    BY <1>p, <2>1, <2>2, MatMulLowers
  <2>4. ~Generates(o)
    BY <1>g, <2>3
  <2> QED
    BY <1>t, <1>k, <1>s, <2>2, <2>3, <2>4, TempsTry
<1>4. CASE MatchAndEmitMatVec
  <2>1. PICK o : o = MatchMatVec(st)
    OBVIOUS
  <2>2. Try("matvec", "reshape", o) /\ phase \in Tries /\ Outcome(o) /\ nextId' = nextId
    BY <1>4, <1>k, <1>s, <2>1, MatVecOutcome DEF MatchAndEmitMatVec, Try
  <2>3. Lowers(st, temp, o, {"matvec"})
    BY <1>p, <2>1, <2>2, MatVecLowers
  <2>4. ~Generates(o)
    BY <1>g, <2>3
  <2> QED
    BY <1>t, <1>k, <1>s, <2>2, <2>3, <2>4, TempsTry
<1>5. CASE MatchAndEmitReshape
  <2>1. PICK o : o = TryReshape(st, temp)
    OBVIOUS
  <2>2. /\ Try("reshape", "transpose", o) /\ phase \in Tries /\ Outcome(o)
        /\ nextId' = IF Generates(o) THEN nextId + 1 ELSE nextId
    BY <1>5, <1>k, <1>s, <2>1, ReshapeOutcome DEF MatchAndEmitReshape, Try
  <2>3. /\ Lowers(st, temp, o, {"reshape", "transpose"})
        /\ o.verdict = "no" => (OneAccess(st) => st.rhs.kind = "apply")
    BY <1>p, <2>1, <2>2, ReshapeLowers
  <2> QED
    BY <1>t, <1>k, <1>s, <2>2, <2>3, TempsTry
<1>6. CASE MatchAndEmitTranspose
  <2>1. PICK o : o = TryTranspose(st)
    OBVIOUS
  <2>2. /\ Try("transpose", "conv", o) /\ phase \in Tries /\ Outcome(o) /\ nextId' = nextId
        /\ phase = "transpose"
    BY <1>6, <1>k, <1>s, <2>1, TransposeOutcome DEF MatchAndEmitTranspose, Try
  <2>3. OneAccess(st) => st.rhs.kind = "apply"
    BY <1>s, <2>2 DEF TempsInv
  <2>4. Lowers(st, temp, o, {"transpose"})
    BY <1>p, <2>1, <2>2, <2>3, TransposeLowers
  <2>5. ~Generates(o)
    BY <1>g, <2>4
  <2> QED
    BY <1>t, <1>k, <1>s, <2>2, <2>4, <2>5, TempsTry
<1>7. CASE MatchAndEmitConv
  <2>1. PICK o : o = MatchConv(st)
    OBVIOUS
  <2>2. Try("conv", "unknown", o) /\ phase \in Tries /\ Outcome(o) /\ nextId' = nextId
    BY <1>7, <1>k, <1>s, <2>1, ConvOutcome DEF MatchAndEmitConv, Try
  <2>3. Lowers(st, temp, o, {"conv"})
    BY <1>p, <2>1, <2>2, ConvLowers
  <2>4. ~Generates(o)
    BY <1>g, <2>3
  <2> QED
    BY <1>t, <1>k, <1>s, <2>2, <2>3, <2>4, TempsTry
<1>8. CASE UnknownBuilder
  BY <1>t, <1>8, TempsFrame DEF UnknownBuilder
<1>9. CASE EmitFooter
  <2>1. /\ UNCHANGED <<tactic, nextId>> /\ phase' # "transpose"
        /\ out \in Seq(Range(out)) /\ \A p \in DOMAIN out : out[p].at < at
    BY <1>t, <1>9 DEF EmitFooter, ProgressInv
  <2>2. PICK r : r = [at |-> at, b |-> [op |-> "eraseOp"]] /\ out' = Append(out, r)
    BY <1>9 DEF EmitFooter
  <2>3. out \in Seq(Range(out) \cup {r})
    BY <2>1, SeqMonotonic
  <2>4. PICK n : n = Len(out)
    OBVIOUS
  <2>5. /\ DOMAIN out' = 1..(n + 1) /\ out'[n + 1] = r
        /\ \A p \in 1..n : out'[p] = out[p]
    BY <2>2, <2>3, <2>4, AppendProperties, LenProperties
  <2>6. out'[n + 1].at = at /\ out'[n + 1].b.op = "eraseOp"
    <3>1. r.at = at /\ r.b.op = "eraseOp"
      BY <2>2
    <3> QED
      BY <2>5, <3>1
  <2>7. out'[n + 1].b.op \in {"what"} \cup Marks /\ out'[n + 1].b.op \notin Kinds
    BY <2>6 DEF Marks, Kinds
  <2> QED
    BY <1>t, <2>1, <2>4, <2>5, <2>6, <2>7, TempsOne
<1>10. CASE Stop \/ UNCHANGED vars
  <2>1. UNCHANGED <<tactic, at, phase, nextId, out>>
    BY <1>10 DEF Stop, vars
  <2> QED
    BY <1>t, <2>1, TempsFrame DEF TempsInv
<1> QED
  BY <1>1, <1>2, <1>3, <1>4, <1>5, <1>6, <1>7, <1>8, <1>9, <1>10 DEF Next

\* A generated tensor is written by the first builder of a statement, read by its
\* second and never generated again; another builder writes or reads it only if its
\* own statement names it.  This holds whatever the tactics are and whatever number
\* the tactics before them left (getNextVariable, emitter.cpp:9-13, 732-768).
THEOREM EmitterTempsPrivate == Spec => []TempsPrivate
BY TempsInit, TempsStep, TempsPrivateHolds, PTL DEF Spec
-------------------------------------------------------------------------------
ViewsInv == ProgressInv /\ TransposeExact /\ GroupsExact

\* What the two properties ask of a record.
ViewRight(r) == /\ IsTransposition(tactic[r.at]) => TransposeRight(tactic[r.at], r.b)
                /\ IsGroupView(tactic[r.at]) => GroupRight(tactic[r.at], r.b)

\* The recognisers of products want +=.
LEMMA NotAProduct ==
  ASSUME NEW st, st.assign = "="
  PROVE  MatchMatMul(st) = No /\ MatchMatVec(st) = No
<1>1. st.assign # "+="
  OBVIOUS
<1> QED
  BY <1>1 DEF MatchMatMul, MatchMatVec

\* A recogniser that answers as the two properties ask.
LEMMA ViewsTry ==
  ASSUME ViewsInv, ProgressInv', NEW this \in Tries, NEW next \in Tries, NEW o, Outcome(o),
         Try(this, next, o),
         o.verdict = "emit" => \A q \in 1..Len(o.builders) : ViewRight([at |-> at, b |-> o.builders[q]]),
         IsTransposition(c) /\ this # "conv" =>
           o.verdict = "emit" \/ (o.verdict = "no" /\ next \notin {"conv", "unknown"}),
         IsGroupView(c) /\ this \notin {"transpose", "conv"} =>
           o.verdict = "emit" \/ (o.verdict = "no" /\ next \notin {"transpose", "conv", "unknown"})
  PROVE  ViewsInv'
<1>1. this = phase /\ tactic' = tactic
  BY DEF Try
<1>2. /\ phase \in Tries /\ at \in 2..Len(tactic) /\ Len(tactic) \in Nat /\ at > 1
      /\ \A p \in DOMAIN out : out[p].at < at /\ out[p].at \in 1..(Len(tactic) + 1)
  BY <1>1, TacticLength DEF ViewsInv, ProgressInv, TypeOK
<1>3. \A p \in DOMAIN out : out[p].at > 1 => ViewRight(out[p])
  <2> SUFFICES ASSUME NEW p \in DOMAIN out, out[p].at > 1 PROVE ViewRight(out[p])
    OBVIOUS
  <2>1. out[p].at \in Lowered
    BY <1>2 DEF Lowered
  <2> QED
    BY <2>1 DEF ViewsInv, TransposeExact, GroupsExact, ViewRight
<1>4. CASE o.verdict = "emit"
  <2>1. out' = out \o Printed(o.builders) /\ phase' \in {"footer", "matmul"} /\ at' = at + 1
    BY <1>4 DEF Try
  <2>2. ASSUME NEW p \in DOMAIN out', out'[p].at > 1
        PROVE  /\ IsTransposition(tactic[out'[p].at]) => TransposeRight(tactic[out'[p].at], out'[p].b)
               /\ IsGroupView(tactic[out'[p].at]) => GroupRight(tactic[out'[p].at], out'[p].b)
    <3>1. CASE p \in DOMAIN out /\ out'[p] = out[p]
      BY <1>3, <2>2, <3>1 DEF ViewRight
    <3>2. CASE out'[p].at = at /\ \E q \in 1..Len(o.builders) : out'[p].b = o.builders[q]
      BY <1>4, <3>2 DEF ViewRight
    <3> QED
      BY <1>4, <2>1, <3>1, <3>2, EmitRecords DEF ViewsInv
  <2>3. ASSUME NEW p \in DOMAIN out', out'[p].at \in Lowered' PROVE out'[p].at > 1
    BY <2>3 DEF Lowered
  <2>4. TransposeExact' /\ GroupsExact'
    BY <1>1, <2>1, <2>2, <2>3 DEF TransposeExact, GroupsExact
  <2> QED
    BY <2>4 DEF ViewsInv
<1>5. CASE o.verdict \in {"no", "throw", "abort"}
  <2>1. UNCHANGED <<tactic, at, out>> /\ phase' \in {next, "thrown", "aborted"}
        /\ (o.verdict = "no" => phase' = next)
    BY <1>5 DEF Try
  <2>2. c' = c /\ Lowered' = Lowered
    BY <2>1 DEF c, Lowered
  <2>3. phase' \in {"conv", "unknown", "thrown", "aborted"} => ~IsTransposition(c)
    <3>1. CASE this = "conv"
      BY <1>1, <1>2, <3>1 DEF ViewsInv, TransposeExact
    <3>2. CASE this # "conv"
      BY <1>5, <2>1, <3>2 DEF Tries
    <3> QED
      BY <3>1, <3>2
  <2>4. phase' \in {"transpose", "conv", "unknown", "thrown", "aborted"} => ~IsGroupView(c)
    <3>1. CASE this \in {"transpose", "conv"}
      BY <1>1, <1>2, <3>1 DEF ViewsInv, GroupsExact
    <3>2. CASE this \notin {"transpose", "conv"}
      BY <1>5, <2>1, <3>2 DEF Tries
    <3> QED
      BY <3>1, <3>2
  <2>5. TransposeExact' /\ GroupsExact'
    BY <2>1, <2>2, <2>3, <2>4 DEF ViewsInv, TransposeExact, GroupsExact
  <2> QED
    BY <2>5 DEF ViewsInv
<1> QED
  BY <1>4, <1>5 DEF Outcome

LEMMA ViewsInit == Init => ViewsInv
<1> SUFFICES ASSUME Init PROVE ViewsInv
  OBVIOUS
<1>1. DOMAIN out = {} /\ phase = "start"
  BY DEF Init
<1> QED
  BY <1>1, ProgressInit DEF ViewsInv, TransposeExact, GroupsExact

\* Nothing is lowered, and the tactic does not stop in the "how" part.
LEMMA ViewsFrame ==
  ASSUME ViewsInv, ProgressInv', tactic' = tactic, at' = at,
         phase' \notin {"transpose", "conv", "unknown", "thrown", "aborted"},
         \A p \in DOMAIN out' : (p \in DOMAIN out /\ out'[p] = out[p]) \/ out'[p].at \notin Lowered
  PROVE  ViewsInv'
<1>1. Lowered' = Lowered
  BY DEF Lowered
<1>2. TransposeExact' /\ GroupsExact'
  BY <1>1 DEF ViewsInv, TransposeExact, GroupsExact
<1> QED
  BY <1>2 DEF ViewsInv

LEMMA ViewsStep == ViewsInv /\ [Next]_vars => ViewsInv'
<1> SUFFICES ASSUME ViewsInv, [Next]_vars PROVE ViewsInv'
  OBVIOUS
<1>t. ProgressInv /\ ProgressInv'
  BY ProgressStep DEF ViewsInv
<1>k. {"matmul", "matvec", "reshape", "transpose", "conv", "unknown"} \subseteq Tries
  BY DEF Tries
<1>s. PICK st : st = c
  OBVIOUS
<1>p. phase \in Tries => IsStatement(st) /\ st = tactic[at] /\ at > 1
  <2>1. phase \in Tries => at \in 2..Len(tactic) /\ Len(tactic) \in Nat
    BY <1>t, TacticLength DEF ProgressInv
  <2> QED
    BY <1>t, <1>s, <2>1, Current
<1>v. IsTransposition(st) \/ IsGroupView(st) => st.assign = "="
  BY DEF IsTransposition, IsGroupView, IsView
<1>w. ~(IsTransposition(st) /\ IsGroupView(st))
  <2>1. Len(<<>>) # 2
    OBVIOUS
  <2> QED
    BY <2>1 DEF IsTransposition, IsGroupView
<1>1. CASE Start
  <2>1. UNCHANGED <<tactic, at, out>> /\ phase' \in {"done", "what"}
    BY <1>1 DEF Start
  <2> QED
    BY <1>t, <2>1, ViewsFrame
<1>2. CASE EmitWhat
  <2>1. PICK b : out' = Printed(<<b>>)
    BY <1>2 DEF EmitWhat
  <2>2. out' = << [at |-> at, b |-> b] >>
    BY <2>1 DEF Printed
  <2>3. at = 1 /\ tactic' = tactic
    BY <1>2, <1>t DEF EmitWhat, ProgressInv
  <2>4. \A p \in DOMAIN out' : out'[p].at = 1
    BY <2>2, <2>3
  <2>5. (phase' = "matmul" /\ at' = 2) \/ (phase' = "thrown" /\ at' = 1)
    BY <1>2, <2>3 DEF EmitWhat
  <2>6. 1 \notin Lowered'
    BY DEF Lowered
  <2> QED
    BY <1>t, <2>4, <2>5, <2>6 DEF ViewsInv, TransposeExact, GroupsExact
<1>3. CASE MatchAndEmitMatMul
  <2>1. PICK o : o = MatchMatMul(st)
    OBVIOUS
  <2>2. Try("matmul", "matvec", o) /\ phase \in Tries /\ Outcome(o)
    BY <1>3, <1>k, <1>s, <2>1, MatMulOutcome DEF MatchAndEmitMatMul, Try
  <2>3. IsTransposition(st) \/ IsGroupView(st) => o.verdict = "no"
    BY <1>v, <2>1, NotAProduct DEF No
  <2>4. o.verdict = "emit" => \A q \in 1..Len(o.builders) : ViewRight([at |-> at, b |-> o.builders[q]])
    BY <1>p, <2>2, <2>3 DEF ViewRight
  <2> QED
    BY <1>t, <1>k, <1>s, <2>2, <2>3, <2>4, ViewsTry
<1>4. CASE MatchAndEmitMatVec
  <2>1. PICK o : o = MatchMatVec(st)
    OBVIOUS
  <2>2. Try("matvec", "reshape", o) /\ phase \in Tries /\ Outcome(o)
    BY <1>4, <1>k, <1>s, <2>1, MatVecOutcome DEF MatchAndEmitMatVec, Try
  <2>3. IsTransposition(st) \/ IsGroupView(st) => o.verdict = "no"
    BY <1>v, <2>1, NotAProduct DEF No
  <2>4. o.verdict = "emit" => \A q \in 1..Len(o.builders) : ViewRight([at |-> at, b |-> o.builders[q]])
    BY <1>p, <2>2, <2>3 DEF ViewRight
  <2> QED
    BY <1>t, <1>k, <1>s, <2>2, <2>3, <2>4, ViewsTry
<1>5. CASE MatchAndEmitReshape
  <2>1. PICK temp, o : temp = Tmp(nextId) /\ o = TryReshape(st, temp)
    OBVIOUS
  <2>2. Try("reshape", "transpose", o) /\ phase \in Tries /\ Outcome(o)
    BY <1>5, <1>k, <1>s, <2>1, ReshapeOutcome DEF MatchAndEmitReshape, Try
  <2>3. IsTransposition(st) => o.verdict = "no"
    BY <1>p, <2>1, <2>2, TransposeLowered DEF No
  <2>4. IsGroupView(st) => \E b : GroupRight(st, b) /\ o = Emit(<<b>>)
    BY <1>p, <2>1, <2>2, GroupLowered
  <2>5. o.verdict = "emit" => \A q \in 1..Len(o.builders) : ViewRight([at |-> at, b |-> o.builders[q]])
    <3> SUFFICES ASSUME o.verdict = "emit", IsGroupView(st), NEW q \in 1..Len(o.builders)
                 PROVE  GroupRight(st, o.builders[q])
      BY <1>p, <2>2, <2>3 DEF ViewRight
    <3>1. PICK b : GroupRight(st, b) /\ o = Emit(<<b>>)
      BY <2>4
    <3>2. o.builders = <<b>>
      BY <3>1 DEF Emit
    <3> QED
      BY <3>1, <3>2
  <2>6. IsGroupView(st) => o.verdict = "emit"
    BY <2>4 DEF Emit
  <2> QED
    BY <1>t, <1>k, <1>s, <2>2, <2>3, <2>5, <2>6, ViewsTry
<1>6. CASE MatchAndEmitTranspose
  <2>1. PICK o : o = TryTranspose(st)
    OBVIOUS
  <2>2. Try("transpose", "conv", o) /\ phase = "transpose" /\ Outcome(o)
    BY <1>6, <1>k, <1>s, <2>1, TransposeOutcome DEF MatchAndEmitTranspose, Try
  <2>3. IsTransposition(st) => \E b : o = Emit(<<b>>) /\ TransposeRight(st, b)
    BY <1>p, <1>k, <2>1, <2>2, TransposeLowered
  <2>4. ~IsGroupView(st)
    BY <1>k, <1>p, <1>s, <2>2 DEF ViewsInv, GroupsExact
  <2>5. o.verdict = "emit" => \A q \in 1..Len(o.builders) : ViewRight([at |-> at, b |-> o.builders[q]])
    <3> SUFFICES ASSUME o.verdict = "emit", IsTransposition(st), NEW q \in 1..Len(o.builders)
                 PROVE  TransposeRight(st, o.builders[q])
      BY <1>k, <1>p, <2>2, <2>4 DEF ViewRight
    <3>1. PICK b : o = Emit(<<b>>) /\ TransposeRight(st, b)
      BY <2>3
    <3>2. o.builders = <<b>>
      BY <3>1 DEF Emit
    <3> QED
      BY <3>1, <3>2
  <2>6. IsTransposition(st) => o.verdict = "emit"
    BY <2>3 DEF Emit
  <2> QED
    BY <1>t, <1>k, <1>s, <2>2, <2>4, <2>5, <2>6, ViewsTry
<1>7. CASE MatchAndEmitConv
  <2>1. PICK o : o = MatchConv(st)
    OBVIOUS
  <2>2. Try("conv", "unknown", o) /\ phase = "conv" /\ Outcome(o)
    BY <1>7, <1>k, <1>s, <2>1, ConvOutcome DEF MatchAndEmitConv, Try
  <2>3. ~IsTransposition(st) /\ ~IsGroupView(st)
    BY <1>k, <1>p, <1>s, <2>2 DEF ViewsInv, TransposeExact, GroupsExact
  <2>4. o.verdict = "emit" => \A q \in 1..Len(o.builders) : ViewRight([at |-> at, b |-> o.builders[q]])
    BY <1>k, <1>p, <2>2, <2>3 DEF ViewRight
  <2> QED
    BY <1>t, <1>k, <1>s, <2>2, <2>3, <2>4, ViewsTry
<1>8. CASE UnknownBuilder
  <2>1. UNCHANGED <<tactic, at, out>> /\ phase = "unknown" /\ phase' = "thrown"
    BY <1>8 DEF UnknownBuilder
  <2>2. ~IsTransposition(st) /\ ~IsGroupView(st)
    BY <1>k, <1>p, <1>s, <2>1 DEF ViewsInv, TransposeExact, GroupsExact
  <2>3. c' = c /\ Lowered' = Lowered
    BY <2>1 DEF c, Lowered
  <2> QED
    BY <1>t, <1>s, <2>1, <2>2, <2>3 DEF ViewsInv, TransposeExact, GroupsExact
<1>9. CASE EmitFooter
  <2>1. out \in Seq(Range(out)) /\ tactic' = tactic /\ at' = at /\ phase' = "done" /\ at \in Nat
    BY <1>t, <1>9, TacticLength DEF ProgressInv, EmitFooter, TypeOK
  <2>2. PICK r : r = [at |-> at, b |-> [op |-> "eraseOp"]] /\ out' = Append(out, r)
    BY <1>9 DEF EmitFooter
  <2>3. out \in Seq(Range(out) \cup {r})
    BY <2>1, SeqMonotonic
  <2>4. \A p \in DOMAIN out' : (p \in DOMAIN out /\ out'[p] = out[p]) \/ out'[p] = r
    BY <2>2, <2>3, AppendProperties, LenProperties
  <2>5. r.at \notin Lowered
    BY <2>1, <2>2 DEF Lowered
  <2> QED
    BY <1>t, <2>1, <2>4, <2>5, ViewsFrame
<1>10. CASE Stop \/ UNCHANGED vars
  <2>1. UNCHANGED <<tactic, at, phase, nextId, out>>
    BY <1>10 DEF Stop, vars
  <2>2. c' = c /\ Lowered' = Lowered
    BY <2>1 DEF c, Lowered
  <2> QED
    BY <1>t, <2>1, <2>2 DEF ViewsInv, TransposeExact, GroupsExact
<1> QED
  BY <1>1, <1>2, <1>3, <1>4, <1>5, <1>6, <1>7, <1>8, <1>9, <1>10 DEF Next

\* The transposeBuilder of a transposition permutes the layout of the right-hand
\* side into that of the left-hand side, and no transposition is declined or
\* stops the tactic, whatever the tactics are (matchTranspose, emitter.cpp:796-827).
THEOREM EmitterTransposeExact == Spec => []TransposeExact
<1>1. ViewsInv => TransposeExact
  BY DEF ViewsInv
<1> QED
  BY ViewsInit, ViewsStep, <1>1, PTL DEF Spec

\* The reshapeBuilder of a view with two folded indices has the map that its
\* where clauses state, and no such view is declined or stops the tactic,
\* whatever the tactics are (printGroup, emitter.cpp:590-662).
THEOREM EmitterGroupsExact == Spec => []GroupsExact
<1>1. ViewsInv => GroupsExact
  BY DEF ViewsInv
<1> QED
  BY ViewsInit, ViewsStep, <1>1, PTL DEF Spec
-------------------------------------------------------------------------------
\* The builders that a list of records has for statement s.
Held(records, s) ==
  Kept([p \in DOMAIN records |-> records[p].b],
       {p \in DOMAIN records : records[p].at = s /\ records[p].b.op # "eraseOp"})

\* Elements behind that are not kept change nothing.
LEMMA KeptAgain ==
  ASSUME NEW s, IsSeq(s), NEW t, IsSeq(t), Len(s) <= Len(t), \A p \in 1..Len(s) : t[p] = s[p],
         NEW places, NEW further, \A p \in 1..Len(s) : p \in further <=> p \in places,
         \A p \in 1..Len(t) : p > Len(s) => p \notin further
  PROVE  Kept(t, further) = Kept(s, places)
<1>1. PICK n, m \in Nat : n = Len(s) /\ m = Len(t) /\ n <= m
  BY SeqIs
<1>2. PICK f : /\ f[0] = <<>>
               /\ \A p \in 1..n : f[p] = IF p \in places THEN Append(f[p - 1], s[p]) ELSE f[p - 1]
               /\ Kept(s, places) = f[n]
  BY <1>1, KeptSteps
<1>3. PICK g : /\ g[0] = <<>>
               /\ \A p \in 1..m : g[p] = IF p \in further THEN Append(g[p - 1], t[p]) ELSE g[p - 1]
               /\ Kept(t, further) = g[m]
  BY <1>1, KeptSteps
<1> DEFINE T == {p \in Nat : p <= m => g[p] = IF p <= n THEN f[p] ELSE f[n]}
<1>4. 0 \in T
  BY <1>1, <1>2, <1>3
<1>5. ASSUME NEW p \in Nat, p \in T PROVE p + 1 \in T
  <2> SUFFICES ASSUME p + 1 <= m PROVE g[p + 1] = IF p + 1 <= n THEN f[p + 1] ELSE f[n]
    OBVIOUS
  <2>1. g[p] = IF p <= n THEN f[p] ELSE f[n]
    BY <1>1, <1>5
  <2>2. p + 1 \in 1..m /\ (p + 1) - 1 = p
    BY <1>1
  <2>3. g[p + 1] = IF p + 1 \in further THEN Append(g[p], t[p + 1]) ELSE g[p]
    BY <1>3, <2>2
  <2>4. CASE p + 1 <= n
    <3>1. p + 1 \in 1..n /\ p <= n
      BY <1>1, <2>4
    <3>2. f[p + 1] = IF p + 1 \in places THEN Append(f[p], s[p + 1]) ELSE f[p]
      BY <1>2, <2>2, <3>1
    <3>3. (p + 1 \in further <=> p + 1 \in places) /\ t[p + 1] = s[p + 1]
      BY <1>1, <3>1
    <3> QED
      BY <2>1, <2>3, <2>4, <3>1, <3>2, <3>3
  <2>5. CASE p + 1 > n
    <3>1. p + 1 \notin further
      BY <1>1, <2>2, <2>5
    <3>2. p <= n => p = n
      BY <1>1, <2>5
    <3> QED
      BY <1>1, <2>1, <2>3, <2>5, <3>1, <3>2
  <2> QED
    BY <1>1, <2>4, <2>5
<1>6. m \in T
  <2> HIDE DEF T
  <2> QED
    BY <1>1, <1>4, <1>5, Induction
<1>7. g[m] = IF m <= n THEN f[m] ELSE f[n]
  BY <1>1, <1>6
<1>8. m <= n => m = n
  BY <1>1
<1> QED
  BY <1>2, <1>3, <1>7, <1>8

\* Records of other statements, and an eraseOp, change nothing for s.
LEMMA HeldBefore ==
  ASSUME NEW r, IsSeq(r), NEW q, IsSeq(q), Len(q) <= Len(r), \A p \in 1..Len(q) : r[p] = q[p],
         NEW s, \A p \in 1..Len(r) : p > Len(q) => r[p].at # s \/ r[p].b.op = "eraseOp"
  PROVE  Held(r, s) = Held(q, s)
<1>1. PICK n, m \in Nat : n = Len(q) /\ m = Len(r) /\ n <= m /\ DOMAIN q = 1..n /\ DOMAIN r = 1..m
  BY SeqIs
<1>2. PICK y : y = [p \in DOMAIN q |-> q[p].b]
  OBVIOUS
<1>3. PICK x : x = [p \in DOMAIN r |-> r[p].b]
  OBVIOUS
<1>4. IsSeq(y) /\ Len(y) = n /\ IsSeq(x) /\ Len(x) = m
  <2>1. DOMAIN y = 1..n /\ y = [p \in 1..n |-> y[p]] /\ DOMAIN x = 1..m /\ x = [p \in 1..m |-> x[p]]
    BY <1>1, <1>2, <1>3
  <2> QED
    BY <2>1, SeqByFunction
<1>5. PICK places : places = {p \in DOMAIN q : q[p].at = s /\ q[p].b.op # "eraseOp"}
  OBVIOUS
<1>6. PICK further : further = {p \in DOMAIN r : r[p].at = s /\ r[p].b.op # "eraseOp"}
  OBVIOUS
<1>7. \A p \in 1..n : x[p] = y[p] /\ (p \in further <=> p \in places)
  <2> SUFFICES ASSUME NEW p \in 1..n PROVE x[p] = y[p] /\ (p \in further <=> p \in places)
    OBVIOUS
  <2>1. p \in DOMAIN q /\ p \in DOMAIN r /\ r[p] = q[p]
    BY <1>1
  <2> QED
    BY <2>1, <1>2, <1>3, <1>5, <1>6
<1>8. \A p \in 1..m : p > n => p \notin further
  BY <1>1, <1>6
<1>9. Kept(x, further) = Kept(y, places)
  BY <1>1, <1>4, <1>7, <1>8, KeptAgain
<1> QED
  BY <1>2, <1>3, <1>5, <1>6, <1>9 DEF Held

\* The records that follow those of other statements are what s is lowered to.
LEMMA HeldLast ==
  ASSUME NEW r, IsSeq(r), NEW bs, IsSeq(bs), NEW n \in Nat, NEW s, Len(r) = n + Len(bs),
         \A p \in 1..n : r[p].at # s,
         \A p \in 1..Len(bs) : r[n + p].at = s /\ r[n + p].b = bs[p] /\ bs[p].op # "eraseOp"
  PROVE  Held(r, s) = bs
<1>1. PICK j \in Nat : j = Len(bs) /\ Len(r) = n + j /\ DOMAIN r = 1..(n + j) /\ DOMAIN bs = 1..j
                       /\ bs = [p \in 1..j |-> bs[p]]
  BY SeqIs DEF IsSeq
<1>2. PICK x : x = [p \in DOMAIN r |-> r[p].b]
  OBVIOUS
<1>3. IsSeq(x) /\ Len(x) = n + j
  <2>1. n + j \in Nat /\ DOMAIN x = 1..(n + j) /\ x = [p \in 1..(n + j) |-> x[p]]
    BY <1>1, <1>2
  <2> QED
    BY <2>1, SeqByFunction
<1>4. PICK places : places = {p \in DOMAIN r : r[p].at = s /\ r[p].b.op # "eraseOp"}
  OBVIOUS
<1>5. \A p \in 1..(n + j) : p \in places <=> p < 1 \/ p >= 1 + n
  <2> SUFFICES ASSUME NEW p \in 1..(n + j) PROVE p \in places <=> p >= 1 + n
    OBVIOUS
  <2>1. CASE p <= n
    <3>1. p \in 1..n /\ ~(p >= 1 + n)
      BY <2>1
    <3>2. r[p].at # s
      BY <3>1
    <3> QED
      BY <1>4, <3>1, <3>2
  <2>2. CASE p > n
    <3>1. PICK i \in 1..j : p = n + i
      <4>1. p - n \in 1..j /\ p = n + (p - n)
        BY <2>2
      <4> QED
        BY <4>1
    <3>2. r[n + i].at = s /\ r[n + i].b = bs[i] /\ bs[i].op # "eraseOp"
      BY <1>1
    <3>3. r[p].at = s /\ r[p].b.op # "eraseOp" /\ p \in DOMAIN r
      BY <1>1, <3>1, <3>2
    <3>4. p \in places
      BY <1>4, <3>3
    <3> QED
      BY <2>2, <3>4
  <2> QED
    BY <2>1, <2>2
<1>6. Kept(x, places) = [p \in 1..Beside(n + j, 1, n) |-> IF p < 1 THEN x[p] ELSE x[p + n]]
  <2>1. PICK a \in Nat : a = 1
    OBVIOUS
  <2>2. a >= 1 /\ IsSeq(x)
    BY <1>3, <2>1
  <2>3. \A p \in 1..Len(x) : p \in places <=> p < a \/ p >= a + n
    BY <1>3, <1>5, <2>1
  <2>4. Kept(x, places) = [p \in 1..Beside(Len(x), a, n) |-> IF p < a THEN x[p] ELSE x[p + n]]
    BY ONLY <2>2, <2>3, n \in Nat, a \in Nat, KeptBeside
  <2> QED
    BY <1>3, <2>1, <2>4
<1>7. Beside(n + j, 1, n) = j
  BY DEF Beside
<1>8. \A p \in 1..j : (IF p < 1 THEN x[p] ELSE x[p + n]) = bs[p]
  <2> SUFFICES ASSUME NEW p \in 1..j PROVE x[p + n] = bs[p]
    OBVIOUS
  <2>1. r[n + p].b = bs[p]
    BY <1>1
  <2>2. n + p = p + n /\ p + n \in 1..(n + j)
    OBVIOUS
  <2> QED
    BY <1>1, <1>2, <2>1, <2>2
<1>9. Kept(x, places) = bs
  <2>1. Kept(x, places) = [p \in 1..j |-> IF p < 1 THEN x[p] ELSE x[p + n]]
    BY <1>6, <1>7
  <2>2. [p \in 1..j |-> IF p < 1 THEN x[p] ELSE x[p + n]] = [p \in 1..j |-> bs[p]]
    BY <1>8
  <2> QED
    BY <1>1, <2>1, <2>2
<1> QED
  BY <1>2, <1>4, <1>9 DEF Held
-------------------------------------------------------------------------------
ReshapeInv == ProgressInv /\ ReshapeExact

\* What lowers a reshape computes it exactly if it is a supported one.
ReshapeRight(st, builders) == IsReshape(st) => (ComputesView(st, builders) <=> Supported(st))

\* The builders of a statement, before and after a step.
LEMMA BuildersAre ==
  ASSUME NEW s
  PROVE  BuildersOf(s) = Held(out, s) /\ BuildersOf(s)' = Held(out', s)
BY DEF BuildersOf, Held

\* The statements lowered so far and their builders stay, and nothing stops.
LEMMA ReshapeFrame ==
  ASSUME ReshapeInv, ProgressInv', tactic' = tactic, at' = at,
         phase' \notin {"transpose", "conv", "unknown", "thrown", "aborted"},
         \A s \in Lowered : BuildersOf(s)' = BuildersOf(s)
  PROVE  ReshapeInv'
<1>1. Lowered' = Lowered
  BY DEF Lowered
<1>2. \A s \in Lowered : ReshapeRight(tactic[s], BuildersOf(s)')
  BY DEF ReshapeInv, ReshapeExact, ReshapeRight
<1>3. ReshapeExact'
  BY <1>1, <1>2 DEF ReshapeExact, ReshapeRight
<1> QED
  BY <1>3 DEF ReshapeInv

\* A recogniser that answers as ReshapeExact asks.
LEMMA ReshapeTry ==
  ASSUME ReshapeInv, ProgressInv', NEW this \in Tries, NEW next \in Tries, NEW o, Outcome(o),
         Try(this, next, o),
         o.verdict = "emit" => ReshapeRight(c, o.builders),
         IsReshape(c) /\ Supported(c) /\ this \notin {"transpose", "conv"} =>
           o.verdict = "emit" \/ (o.verdict = "no" /\ next \notin {"transpose", "conv", "unknown"})
  PROVE  ReshapeInv'
<1>1. this = phase /\ tactic' = tactic
  BY DEF Try
<1>2. /\ phase \in Tries /\ at \in 2..Len(tactic) /\ Len(tactic) \in Nat /\ at > 1
      /\ \A p \in DOMAIN out : out[p].at < at
  BY <1>1, TacticLength DEF ReshapeInv, ProgressInv
<1>3. CASE o.verdict = "emit"
  <2>1. out' = out \o Printed(o.builders) /\ phase' \in {"footer", "matmul"} /\ at' = at + 1
    BY <1>3 DEF Try
  <2>2. PICK n, m, new : n = Len(out) /\ m = Len(o.builders) /\ new = Printed(o.builders)
    OBVIOUS
  <2>3. Follows(n, m, new) /\ \A q \in 1..m : new[q] = [at |-> at, b |-> o.builders[q]]
    BY <1>3, <2>1, <2>2, EmitFollows DEF ReshapeInv
  <2>4. /\ n \in Nat /\ m \in Nat /\ DOMAIN out = 1..n /\ DOMAIN out' = 1..(n + m)
        /\ \A p \in 1..n : out'[p] = out[p]
        /\ \A q \in 1..m : out'[n + q].at = at /\ out'[n + q].b = o.builders[q]
                           /\ o.builders[q].op # "eraseOp"
    <3>1. n \in Nat /\ m \in Nat /\ DOMAIN out = 1..n /\ DOMAIN out' = 1..(n + m)
      BY <2>3 DEF Follows
    <3>2. ASSUME NEW p \in 1..n PROVE out'[p] = out[p]
      BY <2>3, <3>1 DEF Follows
    <3>3. ASSUME NEW q \in 1..m
          PROVE  out'[n + q].at = at /\ out'[n + q].b = o.builders[q] /\ o.builders[q].op # "eraseOp"
      <4>1. n + q \in 1..(n + m) /\ ~(n + q <= n) /\ (n + q) - n = q
        BY <3>1
      <4>2. out'[n + q] = new[q]
        BY <2>3, <4>1 DEF Follows
      <4>3. new[q].b.op \in Kinds
        BY <2>3 DEF Follows
      <4>4. new[q] = [at |-> at, b |-> o.builders[q]]
        BY <2>3
      <4> QED
        BY <4>2, <4>3, <4>4 DEF Kinds
    <3> QED
      BY <3>1, <3>2, <3>3
  <2>5. IsSeq(out) /\ IsSeq(out') /\ Len(out') = n + m /\ IsSeq(o.builders)
    <3>1. out \in Seq(Range(out)) /\ out' \in Seq(Range(out'))
      BY DEF ReshapeInv, ProgressInv
    <3>2. IsSeq(out) /\ IsSeq(out')
      BY <3>1 DEF IsSeq, Range
    <3>3. Len(out') = n + m
      BY <2>4, <3>1, LenProperties
    <3>4. IsSeq(o.builders)
      <4>1. (\E b : o.builders = <<b>>) \/ \E b1, b2 : o.builders = <<b1, b2>>
        BY <1>3 DEF Outcome
      <4>2. CASE \E b : o.builders = <<b>>
        <5>1. PICK b : o.builders = <<b>>
          BY <4>2
        <5>2. IsSeq(<<b>>)
          BY Short, Zenon
        <5> QED
          BY <5>1, <5>2
      <4>3. CASE \E b1, b2 : o.builders = <<b1, b2>>
        <5>1. PICK b1, b2 : o.builders = <<b1, b2>>
          BY <4>3
        <5>2. IsSeq(<<b1, b2>>)
          BY Short, Zenon
        <5> QED
          BY <5>1, <5>2
      <4> QED
        BY <4>1, <4>2, <4>3
    <3> QED
      BY <3>2, <3>3, <3>4
  <2>6. Held(out', at) = o.builders
    <3>1. \A p \in 1..n : out'[p].at # at
      <4> SUFFICES ASSUME NEW p \in 1..n PROVE out'[p].at # at
        OBVIOUS
      <4>1. p \in DOMAIN out /\ out'[p] = out[p] /\ out[p].at < at
        BY <1>2, <2>4
      <4>2. out[p].at \in 1..(Len(tactic) + 1)
        BY <4>1 DEF ReshapeInv, ProgressInv, TypeOK
      <4> QED
        BY <1>2, <4>1, <4>2
    <3>2. /\ Len(out') = n + Len(o.builders)
          /\ \A p \in 1..Len(o.builders) :
               out'[n + p].at = at /\ out'[n + p].b = o.builders[p] /\ o.builders[p].op # "eraseOp"
      BY <2>2, <2>4, <2>5
    <3>3. n \in Nat /\ IsSeq(out') /\ IsSeq(o.builders)
      BY <2>4, <2>5
    <3> QED
      BY ONLY <3>1, <3>2, <3>3, HeldLast
  <2>7. ASSUME NEW s \in Lowered PROVE Held(out', s) = Held(out, s)
    <3>1. s # at
      BY <1>2 DEF Lowered
    <3>2. \A p \in 1..Len(out') : p > Len(out) => out'[p].at # s
      <4> SUFFICES ASSUME NEW p \in 1..(n + m), p > n PROVE out'[p].at = at
        BY <2>2, <2>5, <3>1
      <4>1. p - n \in 1..m /\ n + (p - n) = p
        BY <2>4
      <4> QED
        BY <2>4, <4>1
    <3>3. Len(out) <= Len(out')
      BY <2>2, <2>4, <2>5
    <3> QED
      <4>1. /\ IsSeq(out) /\ IsSeq(out') /\ \A p \in 1..Len(out) : out'[p] = out[p]
            /\ \A p \in 1..Len(out') : p > Len(out) => out'[p].at # s \/ out'[p].b.op = "eraseOp"
        BY <2>2, <2>4, <2>5, <3>2
      <4> QED
        BY <3>3, <4>1, HeldBefore, Zenon
  <2>8. ASSUME NEW s \in Lowered' PROVE ReshapeRight(tactic[s], BuildersOf(s)')
    <3>1. s \in Lowered \/ s = at
      BY <1>2, <2>1, <2>8 DEF Lowered
    <3>2. CASE s \in Lowered
      BY <2>7, <3>2, BuildersAre DEF ReshapeInv, ReshapeExact, ReshapeRight
    <3>3. CASE s = at
      <4>1. BuildersOf(s)' = o.builders
        BY <2>6, <3>3, BuildersAre
      <4> QED
        BY <1>3, <3>3, <4>1 DEF c
    <3> QED
      BY <3>1, <3>2, <3>3
  <2>9. ReshapeExact'
    BY <1>1, <2>1, <2>8 DEF ReshapeExact, ReshapeRight
  <2> QED
    BY <2>9 DEF ReshapeInv
<1>4. CASE o.verdict \in {"no", "throw", "abort"}
  <2>1. UNCHANGED <<tactic, at, out>> /\ phase' \in {next, "thrown", "aborted"}
        /\ (o.verdict = "no" => phase' = next)
    BY <1>4 DEF Try
  <2>2. c' = c /\ Lowered' = Lowered /\ \A s : BuildersOf(s)' = BuildersOf(s)
    BY <2>1 DEF c, Lowered, BuildersOf
  <2>3. phase' \in {"transpose", "conv", "unknown", "thrown", "aborted"}
          => ~(IsReshape(c) /\ Supported(c))
    <3>1. CASE this \in {"transpose", "conv"}
      BY <1>1, <1>2, <3>1 DEF ReshapeInv, ReshapeExact
    <3>2. CASE this \notin {"transpose", "conv"}
      BY <1>4, <2>1, <3>2 DEF Tries
    <3> QED
      BY <3>1, <3>2
  <2>4. ReshapeExact'
    BY <2>1, <2>2, <2>3 DEF ReshapeInv, ReshapeExact
  <2> QED
    BY <2>4 DEF ReshapeInv
<1> QED
  BY <1>3, <1>4 DEF Outcome

LEMMA ReshapeInit == Init => ReshapeInv
<1> SUFFICES ASSUME Init PROVE ReshapeInv
  OBVIOUS
<1>1. Lowered = {} /\ phase = "start"
  BY DEF Init, Lowered
<1> QED
  BY <1>1, ProgressInit DEF ReshapeInv, ReshapeExact

LEMMA ReshapeStep == ReshapeInv /\ [Next]_vars => ReshapeInv'
<1> SUFFICES ASSUME ReshapeInv, [Next]_vars PROVE ReshapeInv'
  OBVIOUS
<1>t. ProgressInv /\ ProgressInv'
  BY ProgressStep DEF ReshapeInv
<1>k. {"matmul", "matvec", "reshape", "transpose", "conv", "unknown"} \subseteq Tries
  BY DEF Tries
<1>s. PICK st : st = c
  OBVIOUS
<1>p. phase \in Tries => IsStatement(st) /\ at > 1
  <2>1. phase \in Tries => at \in 2..Len(tactic) /\ Len(tactic) \in Nat
    BY <1>t, TacticLength DEF ProgressInv
  <2> QED
    BY <1>t, <1>s, <2>1, Current
<1>v. IsReshape(st) => st.assign = "=" /\ st.where # <<>>
  <2>1. Len(<<>>) # 1
    OBVIOUS
  <2> QED
    BY <2>1 DEF IsReshape, IsView
<1>1. CASE Start
  <2>1. UNCHANGED <<tactic, at, out>> /\ phase' \in {"done", "what"}
    BY <1>1 DEF Start
  <2>2. \A s : BuildersOf(s)' = BuildersOf(s)
    BY <2>1 DEF BuildersOf
  <2> QED
    BY <1>t, <2>1, <2>2, ReshapeFrame
<1>2. CASE EmitWhat
  <2>1. at = 1
    BY <1>2, <1>t DEF EmitWhat, ProgressInv
  <2>2. (phase' = "matmul" /\ at' = 2) \/ (phase' = "thrown" /\ at' = 1)
    BY <1>2, <2>1 DEF EmitWhat
  <2>3. Lowered' = {}
    BY <2>2 DEF Lowered
  <2> QED
    BY <1>t, <2>2, <2>3 DEF ReshapeInv, ReshapeExact
<1>3. CASE MatchAndEmitMatMul
  <2>1. PICK o : o = MatchMatMul(st)
    OBVIOUS
  <2>2. Try("matmul", "matvec", o) /\ Outcome(o)
    BY <1>3, <1>s, <2>1, MatMulOutcome DEF MatchAndEmitMatMul
  <2>3. IsReshape(st) => o.verdict = "no"
    BY <1>v, <2>1, NotAProduct DEF No
  <2>4. o.verdict = "emit" => ReshapeRight(st, o.builders)
    BY <2>3 DEF ReshapeRight
  <2> QED
    BY <1>t, <1>k, <1>s, <2>2, <2>3, <2>4, ReshapeTry
<1>4. CASE MatchAndEmitMatVec
  <2>1. PICK o : o = MatchMatVec(st)
    OBVIOUS
  <2>2. Try("matvec", "reshape", o) /\ Outcome(o)
    BY <1>4, <1>s, <2>1, MatVecOutcome DEF MatchAndEmitMatVec
  <2>3. IsReshape(st) => o.verdict = "no"
    BY <1>v, <2>1, NotAProduct DEF No
  <2>4. o.verdict = "emit" => ReshapeRight(st, o.builders)
    BY <2>3 DEF ReshapeRight
  <2> QED
    BY <1>t, <1>k, <1>s, <2>2, <2>3, <2>4, ReshapeTry
<1>5. CASE MatchAndEmitReshape
  <2>1. PICK temp, o : temp = Tmp(nextId) /\ o = TryReshape(st, temp)
    OBVIOUS
  <2>2. Try("reshape", "transpose", o) /\ phase \in Tries /\ Outcome(o)
    BY <1>5, <1>k, <1>s, <2>1, ReshapeOutcome DEF MatchAndEmitReshape, Try
  <2>3. temp # <<>>
    <3>1. temp = <<"tmp", nextId>>
      BY <2>1 DEF Tmp
    <3> QED
      BY <3>1
  <2>4. IsReshape(st) => ReshapeAnswers(st, temp)
    BY <1>p, <2>2, <2>3, ReshapeLowered
  <2>5. o.verdict = "emit" => ReshapeRight(st, o.builders)
    BY <2>1, <2>4 DEF ReshapeAnswers, ReshapeRight
  <2>6. IsReshape(st) /\ Supported(st) => o.verdict = "emit"
    BY <2>1, <2>4 DEF ReshapeAnswers
  <2> QED
    BY <1>t, <1>k, <1>s, <2>2, <2>5, <2>6, ReshapeTry
<1>6. CASE MatchAndEmitTranspose
  <2>1. PICK o : o = TryTranspose(st)
    OBVIOUS
  <2>2. Try("transpose", "conv", o) /\ Outcome(o)
    BY <1>6, <1>s, <2>1, TransposeOutcome DEF MatchAndEmitTranspose
  <2>3. IsReshape(st) => o = No
    BY <1>v, <2>1 DEF TryTranspose
  <2>4. o.verdict = "emit" => ReshapeRight(st, o.builders)
    BY <2>3 DEF No, ReshapeRight
  <2> QED
    BY <1>t, <1>k, <1>s, <2>2, <2>4, ReshapeTry
<1>7. CASE MatchAndEmitConv
  <2>1. PICK o : o = MatchConv(st)
    OBVIOUS
  <2>2. Try("conv", "unknown", o) /\ Outcome(o)
    BY <1>7, <1>s, <2>1, ConvOutcome DEF MatchAndEmitConv
  <2>3. IsReshape(st) => o = No
    BY <1>v, <2>1 DEF MatchConv
  <2>4. o.verdict = "emit" => ReshapeRight(st, o.builders)
    BY <2>3 DEF No, ReshapeRight
  <2> QED
    BY <1>t, <1>k, <1>s, <2>2, <2>4, ReshapeTry
<1>8. CASE UnknownBuilder
  <2>1. UNCHANGED <<tactic, at, out>> /\ phase = "unknown" /\ phase' = "thrown"
    BY <1>8 DEF UnknownBuilder
  <2>2. ~(IsReshape(st) /\ Supported(st))
    BY <1>k, <1>p, <1>s, <2>1 DEF ReshapeInv, ReshapeExact
  <2>3. c' = c /\ Lowered' = Lowered /\ \A s : BuildersOf(s)' = BuildersOf(s)
    BY <2>1 DEF c, Lowered, BuildersOf
  <2> QED
    BY <1>t, <1>s, <2>1, <2>2, <2>3 DEF ReshapeInv, ReshapeExact
<1>9. CASE EmitFooter
  <2>1. out \in Seq(Range(out)) /\ tactic' = tactic /\ at' = at /\ phase' = "done"
    BY <1>t, <1>9 DEF ProgressInv, EmitFooter
  <2>2. PICK r : r = [at |-> at, b |-> [op |-> "eraseOp"]] /\ out' = Append(out, r)
    BY <1>9 DEF EmitFooter
  <2>3. out \in Seq(Range(out) \cup {r})
    BY <2>1, SeqMonotonic
  <2>4. PICK n \in Nat : n = Len(out)
    BY <2>1
  <2>5. Len(out') = n + 1 /\ (\A p \in 1..n : out'[p] = out[p]) /\ out'[n + 1] = r
    BY <2>2, <2>3, <2>4, AppendProperties
  <2>6. IsSeq(out) /\ IsSeq(out')
    BY <1>t DEF ProgressInv, IsSeq, Range
  <2>7. \A p \in 1..(n + 1) : p > n => out'[p].b.op = "eraseOp"
    <3>1. \A p \in 1..(n + 1) : p > n => p = n + 1
      OBVIOUS
    <3> QED
      BY <2>2, <2>5, <3>1
  <2>8. ASSUME NEW s PROVE BuildersOf(s)' = BuildersOf(s)
    <3>1. Len(out) <= Len(out')
      BY <2>4, <2>5
    <3>2. Held(out', s) = Held(out, s)
      BY <2>4, <2>5, <2>6, <2>7, <3>1, HeldBefore
    <3> QED
      BY <3>2, BuildersAre
  <2> QED
    BY <1>t, <2>1, <2>8, ReshapeFrame
<1>10. CASE Stop \/ UNCHANGED vars
  <2>1. UNCHANGED <<tactic, at, phase, nextId, out>>
    BY <1>10 DEF Stop, vars
  <2>2. c' = c /\ Lowered' = Lowered /\ \A s : BuildersOf(s)' = BuildersOf(s)
    BY <2>1 DEF c, Lowered, BuildersOf
  <2> QED
    BY <1>t, <2>1, <2>2 DEF ReshapeInv, ReshapeExact
<1> QED
  BY <1>1, <1>2, <1>3, <1>4, <1>5, <1>6, <1>7, <1>8, <1>9, <1>10 DEF Next

\* The builders printed for a reshape compute its left-hand side from its
\* right-hand side exactly if the reshape is a supported one, and no supported
\* reshape is declined or stops the tactic, whatever the tactics are
\* (matchReshape and emitReshape, emitter.cpp:436-768).
THEOREM EmitterReshapeExact == Spec => []ReshapeExact
<1>1. ReshapeInv => ReshapeExact
  BY DEF ReshapeInv
<1> QED
  BY ReshapeInit, ReshapeStep, <1>1, PTL DEF Spec
===============================================================================
