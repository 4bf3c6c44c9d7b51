-------------------------- MODULE AutomationProofs --------------------------
(***************************************************************************)
(* What the automation engine guarantees for any number of sensors and     *)
(* rules, any cooldown and any time that a write may take.                 *)
(***************************************************************************)
EXTENDS Automation, FiniteSetTheorems, TLAPS

LEMMA Constant ==
    /\ IsFiniteSet(Sensors) /\ Cardinality(Sensors) \in Nat
    /\ IsFiniteSet(Rules) /\ Cardinality(Rules) \in Nat
    /\ NoRule \notin Rules
    /\ Cooldown \in Nat \ {0}
    /\ MaxSpent \in Nat
BY RulesAssumption, TimesAssumption, FS_CardinalityType

-----------------------------------------------------------------------------
(* Positions, and the compacted dict.                                      *)

LEMMA Least ==
    ASSUME NEW T \in SUBSET Nat, T # {}
    PROVE  Min(T) \in T /\ \A x \in T : Min(T) <= x
<1>1. \E x \in T : \A y \in T : ~(<<y, x>> \in OpToRel(<, Nat))
  BY NatLessThanWellFounded, WFMin
<1>2. \A x, y \in T : y < x => <<y, x>> \in OpToRel(<, Nat)
  BY DEF OpToRel
<1>3. \E x \in T : \A y \in T : x <= y
  <2>1. \E x \in T : \A y \in T : ~(y < x)
    BY <1>1, <1>2
  <2> QED BY <2>1
<1> QED BY <1>3 DEF Min

LEMMA PartOfFinite ==
    ASSUME NEW S, IsFiniteSet(S), NEW T \in SUBSET S
    PROVE  /\ IsFiniteSet(T)
           /\ Cardinality(T) \in Nat
           /\ Cardinality(T) <= Cardinality(S)
BY FS_Subset, FS_CardinalityType

Kept == {i \in DOMAIN entries : entries[i] \in rules}
Rank(i) == Cardinality({j \in Kept : j <= i})

(* The entries that are kept are ranked in their order.                    *)
LEMMA Ranks ==
    ASSUME TypeOK
    PROVE  /\ IsFiniteSet(Kept) /\ Cardinality(Kept) \in Nat
           /\ \A i \in Kept : Rank(i) \in 1..Cardinality(Kept) /\ Rank(i) <= i
           /\ \A i, j \in Kept : i < j => Rank(i) < Rank(j)
<1>1. entries \in Seq(Rules) /\ Len(entries) \in Nat /\ DOMAIN entries = 1..Len(entries)
  BY DEF TypeOK
<1>2. Kept \subseteq 1..Len(entries) /\ IsFiniteSet(Kept) /\ Cardinality(Kept) \in Nat
  <2>1. Kept \subseteq 1..Len(entries)
    BY <1>1 DEF Kept
  <2>2. IsFiniteSet(1..Len(entries))
    BY <1>1, FS_Interval
  <2> QED BY <2>1, <2>2, PartOfFinite
<1> DEFINE Upto(i) == {j \in Kept : j <= i}
<1>3. \A i \in Kept : i \in Nat
  BY <1>1, <1>2
<1>4. ASSUME NEW i \in Kept
      PROVE  /\ IsFiniteSet(Upto(i)) /\ Cardinality(Upto(i)) \in Nat
             /\ Cardinality(Upto(i)) <= Cardinality(Kept)
  BY <1>2, PartOfFinite
<1>5. ASSUME NEW i \in Kept PROVE Rank(i) \in 1..Cardinality(Kept) /\ Rank(i) <= i
  <2>1. i \in Upto(i)
    BY <1>3
  <2>2. Cardinality(Upto(i)) # 0
    BY <1>4, <2>1, FS_EmptySet
  <2>3. Upto(i) \subseteq 1..i
    <3>1. \A j \in Upto(i) : j \in 1..Len(entries) /\ j <= i
      BY <1>2
    <3> QED BY <1>1, <1>3, <3>1
  <2>4. IsFiniteSet(1..i) /\ Cardinality(1..i) = i
    BY <1>2, <1>1, FS_Interval
  <2>5. Cardinality(Upto(i)) <= i
    BY <2>3, <2>4, PartOfFinite
  <2> QED BY <1>2, <1>4, <2>2, <2>5 DEF Rank
<1>6. ASSUME NEW i \in Kept, NEW j \in Kept, i < j PROVE Rank(i) < Rank(j)
  <2>1. Upto(i) \cup {j} \subseteq Upto(j) /\ j \notin Upto(i)
    BY <1>3, <1>6
  <2>2. Cardinality(Upto(i) \cup {j}) = Cardinality(Upto(i)) + 1
    BY <1>4, <2>1, FS_AddElement
  <2>3. Cardinality(Upto(i) \cup {j}) <= Cardinality(Upto(j))
    BY <1>4, <2>1, PartOfFinite
  <2> QED BY <1>4, <2>2, <2>3 DEF Rank
<1> QED BY <1>2, <1>5, <1>6

(* Every rank up to the number of the kept entries is taken.               *)
LEMMA EveryRank ==
    ASSUME TypeOK
    PROVE  \A k \in 1..Cardinality(Kept) : \E i \in Kept : Rank(i) = k
<1> DEFINE f == [i \in Kept |-> Rank(i)]
           C == Cardinality(Kept)
<1>1. IsFiniteSet(Kept) /\ C \in Nat /\ IsFiniteSet(1..C) /\ Cardinality(1..C) = C
  BY Ranks, FS_Interval
<1>2. \A i, j \in Kept : f[i] = f[j] => i = j
  <2>1. \A i \in Kept : i \in Nat
    BY DEF Kept, TypeOK
  <2>2. \A i, j \in Kept : i # j => i < j \/ j < i
    BY <2>1
  <2>3. \A i \in Kept : Rank(i) \in Nat
    BY Ranks
  <2>4. \A i, j \in Kept : i # j => Rank(i) # Rank(j)
    BY <2>2, <2>3, Ranks
  <2> QED BY <2>4
<1>3. f \in Injection(Kept, 1..C)
  <2>1. f \in [Kept -> 1..C]
    BY Ranks
  <2> QED BY <2>1, <1>2 DEF Injection, IsInjective
<1>4. f \in Surjection(Kept, 1..C)
  BY <1>1, <1>3, FS_Injection
<1> QED BY <1>4 DEF Surjection

(* What an insertion that makes room leaves: the rules, each at its old    *)
(* position or before it, none twice.                                      *)
LEMMA CompactedIs ==
    ASSUME TypeOK
    PROVE  /\ Compacted \in Seq(Rules)
           /\ \A k \in DOMAIN Compacted : \E i \in Kept :
                  k <= i /\ Rank(i) = k /\ Compacted[k] = entries[i]
<1> DEFINE C == Cardinality(Kept)
           at(k) == CHOOSE i \in Kept : Rank(i) = k
<1>1. Compacted = [k \in 1..C |-> entries[at(k)]]
  BY DEF Compacted, Kept, Rank
<1>2. C \in Nat
  BY Ranks
<1>3. ASSUME NEW k \in 1..C PROVE at(k) \in Kept /\ Rank(at(k)) = k
  BY EveryRank
<1>4. ASSUME NEW k \in 1..C PROVE entries[at(k)] \in Rules
  BY <1>3 DEF Kept, TypeOK
<1>5. Compacted \in [1..C -> Rules]
  BY <1>1, <1>4
<1>6. Compacted \in Seq(Rules) /\ DOMAIN Compacted = 1..C
  BY <1>2, <1>5
<1>7. ASSUME NEW k \in 1..C PROVE k <= at(k) /\ Compacted[k] = entries[at(k)]
  BY <1>1, <1>3, Ranks
<1> QED BY <1>3, <1>6, <1>7

(* A list without repetition is no longer than there are rules.            *)
LEMMA Short ==
    ASSUME NEW q \in Seq(Rules), \A i, j \in DOMAIN q : q[i] = q[j] => i = j
    PROVE  Len(q) <= Cardinality(Rules)
<1>1. Len(q) \in Nat /\ DOMAIN q = 1..Len(q) /\ q \in [1..Len(q) -> Rules]
  OBVIOUS
<1>2. q \in Injection(1..Len(q), Rules)
  BY <1>1 DEF Injection, IsInjective
<1>3. Cardinality(1..Len(q)) = Len(q)
  BY <1>1, FS_Interval
<1> QED BY <1>2, <1>3, Constant, FS_Injection

-----------------------------------------------------------------------------
(* One evaluation.                                                         *)

LEMMA EvaluationIs ==
    ASSUME NEW e \in Evaluation
    PROVE  /\ e.rule \in Rules \cup {NoRule}
           /\ e.pos \in Nat /\ e.pos <= Cardinality(Rules)
           /\ e.size \in Nat /\ e.size <= Cardinality(Rules)
           /\ e.left \in Nat /\ e.left <= Cardinality(Rules)
           /\ e.spent \in Nat /\ e.spent <= MaxSpent
BY Constant DEF Evaluation

LEMMA IdleType == Idle \in Evaluation
BY Constant DEF Idle, Evaluation

(* An evaluation at position pos that has spent that long comes to e2: it  *)
(* ends, or it is at a rule of the dict, further on, that is due.          *)
ComesTo(pos, spent, ages, e2) ==
    \/ e2 = Idle
    \/ \E i \in DOMAIN entries :
           /\ pos < i
           /\ entries[i] \in rules
           /\ e2.rule = entries[i] /\ e2.pos = i /\ e2.spent = spent
           /\ ages[entries[i]] >= Cooldown + spent

LEMMA Going ==
    ASSUME TypeOK, NEW e \in Evaluation, NEW ages, NEW holds
    PROVE  /\ GoesOn(e, ages, holds) \in Evaluation
           /\ ComesTo(e.pos, e.spent, ages, GoesOn(e, ages, holds))
<1> DEFINE F == Firing(e, ages, holds)
           i == Min(F)
           G == GoesOn(e, ages, holds)
<1>1. CASE SizeChanged(e) \/ F = {}
  <2>1. G = Idle
    BY <1>1 DEF GoesOn
  <2> QED BY <2>1, IdleType DEF ComesTo
<1>2. CASE ~(SizeChanged(e) \/ F = {})
  <2>1. G = [e EXCEPT !.rule = entries[i], !.pos = i, !.left = @ - Cardinality(Passed(e, i))]
    BY <1>2 DEF GoesOn
  <2>2. entries \in Seq(Rules) /\ Len(entries) \in Nat /\ DOMAIN entries = 1..Len(entries)
        /\ Len(entries) <= Cardinality(Rules)
    BY DEF TypeOK
  <2>3. F \subseteq DOMAIN entries
    BY DEF Firing, Reached, Passed
  <2>4. F \in SUBSET Nat
    BY <2>2, <2>3
  <2>5. i \in F
    BY <1>2, <2>4, Least
  <2>6. /\ i \in DOMAIN entries /\ e.pos < i /\ entries[i] \in rules
        /\ Cardinality(Passed(e, i)) <= e.left
        /\ ages[entries[i]] >= Cooldown + e.spent
    BY <2>5 DEF Firing, Reached, Passed, Due
  <2>7. IsFiniteSet(Passed(e, i)) /\ Cardinality(Passed(e, i)) \in Nat
    <3>1. Passed(e, i) \subseteq 1..Len(entries)
      BY <2>2 DEF Passed
    <3>2. IsFiniteSet(1..Len(entries))
      BY <2>2, FS_Interval
    <3> QED BY <3>1, <3>2, PartOfFinite
  <2>8. e.left - Cardinality(Passed(e, i)) \in 0..Cardinality(Rules)
    BY <2>6, <2>7, EvaluationIs, Constant
  <2>9. entries[i] \in Rules /\ i \in 0..Cardinality(Rules)
    BY <2>2, <2>6, Constant
  <2>10. G \in Evaluation
    BY <2>1, <2>8, <2>9 DEF Evaluation
  <2>11. G.rule = entries[i] /\ G.pos = i /\ G.spent = e.spent
    BY <2>1 DEF Evaluation
  <2> QED BY <2>6, <2>10, <2>11 DEF ComesTo
<1> QED BY <1>1, <1>2

(* Sensor s's evaluation goes on, and the window with it; w is the window  *)
(* without a write that failed.                                            *)
Moves(s, w) ==
    \E e2 \in Evaluation :
        /\ ComesTo(eval[s].pos, eval[s].spent, since', e2)
        /\ eval' = [eval EXCEPT ![s] = e2]
        /\ Watch(w, e2)

IdleIs == \A s \in Sensors : Busy(s) \/ eval[s] = Idle

LEMMA EvalType == ASSUME TypeOK, NEW s \in Sensors PROVE eval[s] \in Evaluation
BY DEF TypeOK

LEMMA UpdateMoves ==
    ASSUME TypeOK, IdleIs, NEW s \in Sensors, Update(s)
    PROVE  /\ ~Busy(s) /\ met' \subseteq Rules
           /\ Moves(s, window)
           /\ UNCHANGED <<entries, rules, since>>
<1> DEFINE n == Cardinality(rules)
           b == [Idle EXCEPT !.size = n, !.left = n]
<1>1. PICK holds \in SUBSET Rules :
          /\ met' = holds
          /\ eval' = [eval EXCEPT ![s] = GoesOn(b, since, holds)]
          /\ Watch(window, GoesOn(b, since, holds))
  BY DEF Update
<1>2. ~Busy(s) /\ UNCHANGED <<entries, rules, since>>
  BY DEF Update
<1>3. n \in 0..Cardinality(Rules)
  <2>1. rules \subseteq Rules
    BY DEF TypeOK
  <2> QED BY <2>1, Constant, PartOfFinite
<1>4. b \in Evaluation
  BY <1>3, IdleType DEF Idle, Evaluation
<1>5. b.pos = eval[s].pos /\ b.spent = eval[s].spent
  BY <1>2 DEF IdleIs, Idle
<1>6. /\ GoesOn(b, since, holds) \in Evaluation
      /\ ComesTo(b.pos, b.spent, since, GoesOn(b, since, holds))
  BY <1>4, Going
<1>7. ComesTo(eval[s].pos, eval[s].spent, since', GoesOn(b, since, holds))
  BY <1>2, <1>5, <1>6
<1>8. Moves(s, window)
  BY <1>1, <1>6, <1>7 DEF Moves
<1> QED BY <1>1, <1>2, <1>8

LEMMA ReturnMoves ==
    ASSUME TypeOK, NEW s \in Sensors, WriteReturns(s)
    PROVE  /\ Busy(s)
           /\ Moves(s, window)
           /\ since' = [since EXCEPT ![eval[s].rule] = eval[s].spent]
           /\ UNCHANGED <<entries, rules, met>>
<1>1. /\ GoesOn(eval[s], since', met) \in Evaluation
      /\ ComesTo(eval[s].pos, eval[s].spent, since', GoesOn(eval[s], since', met))
  BY EvalType, Going
<1>2. /\ eval' = [eval EXCEPT ![s] = GoesOn(eval[s], since', met)]
      /\ Watch(window, GoesOn(eval[s], since', met))
  BY DEF WriteReturns
<1>3. Moves(s, window)
  BY <1>1, <1>2 DEF Moves
<1> QED BY <1>3 DEF WriteReturns

LEMMA RaiseMoves ==
    ASSUME TypeOK, NEW s \in Sensors, WriteRaises(s)
    PROVE  /\ Busy(s)
           /\ Moves(s, Discounted(eval[s].rule))
           /\ UNCHANGED <<entries, rules, met, since>>
<1>1. /\ GoesOn(eval[s], since, met) \in Evaluation
      /\ ComesTo(eval[s].pos, eval[s].spent, since, GoesOn(eval[s], since, met))
  BY EvalType, Going
<1>2. /\ eval' = [eval EXCEPT ![s] = GoesOn(eval[s], since, met)]
      /\ Watch(Discounted(eval[s].rule), GoesOn(eval[s], since, met))
      /\ since' = since
  BY DEF WriteRaises
<1>3. Moves(s, Discounted(eval[s].rule))
  BY <1>1, <1>2 DEF Moves
<1> QED BY <1>3 DEF WriteRaises

-----------------------------------------------------------------------------
(* The entries, the positions and the window.                              *)

(* No rule is in two entries.                                              *)
OnceEach == \A i, j \in DOMAIN entries : entries[i] = entries[j] => i = j

(* The rule that an evaluation is at does not lie ahead of it.             *)
NotAhead ==
    \A s \in Sensors : Busy(s) =>
        \A i \in DOMAIN entries : entries[i] = eval[s].rule => i <= eval[s].pos

WindowSound == window.age < Cooldown /\ (window.rule = NoRule => window = NoWindow)

Shape == TypeOK /\ IdleIs /\ OnceEach /\ NotAhead /\ WindowSound

LEMMA NoWindowType ==
    /\ NoWindow \in [rule : Rules \cup {NoRule}, age : 0..Cooldown, writes : Nat]
    /\ NoWindow.age < Cooldown /\ NoWindow.rule = NoRule
BY Constant DEF NoWindow

LEMMA WindowIs ==
    ASSUME TypeOK
    PROVE  /\ window.rule \in Rules \cup {NoRule}
           /\ window.age \in Nat /\ window.age <= Cooldown
           /\ window.writes \in Nat
BY Constant DEF TypeOK

LEMMA DiscountedIs == \A r : Discounted(r) \in {window, NoWindow}
BY DEF Discounted

LEMMA Written ==
    ASSUME NEW w \in [rule : Rules \cup {NoRule}, age : 0..Cooldown, writes : Nat],
           NEW r \in Rules \cup {NoRule}, NEW n \in Nat
    PROVE  [w EXCEPT !.rule = r, !.writes = n]
               \in [rule : Rules \cup {NoRule}, age : 0..Cooldown, writes : Nat]
OBVIOUS

LEMMA Counted ==
    ASSUME NEW w \in [rule : Rules \cup {NoRule}, age : 0..Cooldown, writes : Nat],
           NEW r \in Rules \cup {NoRule}
    PROVE  [w EXCEPT !.rule = r, !.writes = @ + 1]
               \in [rule : Rules \cup {NoRule}, age : 0..Cooldown, writes : Nat]
<1>1. w.writes + 1 \in Nat
  OBVIOUS
<1> QED BY <1>1, Written

LEMMA MovesKeepShape ==
    ASSUME Shape, NEW s \in Sensors, NEW w \in {window, NoWindow}, Moves(s, w),
           UNCHANGED <<entries, rules>>, met' \subseteq Rules, since' \in [Rules -> Ages]
    PROVE  Shape'
<1>1. PICK e2 \in Evaluation :
          /\ ComesTo(eval[s].pos, eval[s].spent, since', e2)
          /\ eval' = [eval EXCEPT ![s] = e2]
          /\ Watch(w, e2)
  BY DEF Moves
<1>2. /\ w \in [rule : Rules \cup {NoRule}, age : 0..Cooldown, writes : Nat]
      /\ w.age < Cooldown /\ (w.rule = NoRule => w = NoWindow)
  BY NoWindowType DEF Shape, TypeOK, WindowSound
<1>3. eval \in [Sensors -> Evaluation]
  BY DEF Shape, TypeOK
<1>4. eval'[s] = e2 /\ \A q \in Sensors \ {s} : eval'[q] = eval[q]
  BY <1>1, <1>3
<1>5. window' = w \/ (e2.rule # NoRule /\ window' = [w EXCEPT !.rule = e2.rule, !.writes = @ + 1])
  BY <1>1 DEF Watch
<1>6. TypeOK'
  <2>1. eval' \in [Sensors -> Evaluation]
    BY <1>1, <1>3
  <2>2. e2.rule \in Rules \cup {NoRule}
    BY EvaluationIs
  <2>3. [w EXCEPT !.rule = e2.rule, !.writes = @ + 1]
            \in [rule : Rules \cup {NoRule}, age : 0..Cooldown, writes : Nat]
    BY <1>2, <2>2, Counted
  <2>4. window' \in [rule : Rules \cup {NoRule}, age : 0..Cooldown, writes : Nat]
    BY <1>2, <1>5, <2>3
  <2> QED BY <2>1, <2>4 DEF Shape, TypeOK
<1>7. IdleIs'
  <2>1. e2 = Idle \/ e2.rule # NoRule
    BY <1>1, Constant DEF ComesTo, Shape, TypeOK
  <2> QED BY <1>4, <2>1 DEF Shape, IdleIs, Busy
<1>8. OnceEach'
  BY DEF Shape, OnceEach
<1>9. NotAhead'
  <2>1. ASSUME e2.rule # NoRule, NEW j \in DOMAIN entries, entries[j] = e2.rule
        PROVE  j <= e2.pos
    <3>1. PICK i \in DOMAIN entries : e2.rule = entries[i] /\ e2.pos = i
      BY <1>1, <2>1 DEF ComesTo, Idle
    <3>2. j = i /\ j \in Nat
      BY <2>1, <3>1 DEF Shape, OnceEach, TypeOK
    <3> QED BY <3>1, <3>2
  <2> QED BY <1>4, <2>1 DEF Shape, NotAhead, Busy
<1>10. WindowSound'
  <2>1. CASE window' = w
    BY <2>1, <1>2 DEF WindowSound
  <2>2. CASE e2.rule # NoRule /\ window' = [w EXCEPT !.rule = e2.rule, !.writes = @ + 1]
    <3>1. window'.age = w.age /\ window'.rule = e2.rule
      BY <2>2, <1>2
    <3> QED BY <2>2, <3>1, <1>2 DEF WindowSound
  <2> QED BY <2>1, <2>2, <1>5
<1> QED BY <1>6, <1>7, <1>8, <1>9, <1>10 DEF Shape

LEMMA ReturnAges ==
    ASSUME TypeOK, NEW s \in Sensors, Busy(s)
    PROVE  [since EXCEPT ![eval[s].rule] = eval[s].spent] \in [Rules -> Ages]
<1>1. eval[s].spent \in Ages
  BY EvalType, EvaluationIs, Constant DEF Ages
<1> QED BY <1>1 DEF TypeOK

LEMMA AbandonedMoves ==
    ASSUME TypeOK, NEW s \in Sensors, Abandoned(s)
    PROVE  /\ Busy(s)
           /\ Moves(s, Discounted(eval[s].rule))
           /\ UNCHANGED <<entries, rules, met, since>>
<1>1. /\ eval' = [eval EXCEPT ![s] = Idle] /\ window' = Discounted(eval[s].rule)
      /\ Busy(s) /\ UNCHANGED <<entries, rules, met, since>>
  BY DEF Abandoned
<1>2. ComesTo(eval[s].pos, eval[s].spent, since', Idle)
  BY DEF ComesTo
<1>3. Watch(Discounted(eval[s].rule), Idle)
  BY <1>1 DEF Watch, Idle
<1> QED BY <1>1, <1>2, <1>3, IdleType DEF Moves

(* Where an insertion leaves the rules that were there: at their positions *)
(* or before.                                                              *)
LEMMA Inserted ==
    ASSUME Shape, NEW r \in Rules, CreateRule(r)
    PROVE  /\ entries' \in Seq(Rules)
           /\ OnceEach'
           /\ \A k \in DOMAIN entries' :
                  \/ entries'[k] = r
                  \/ \E i \in DOMAIN entries : k <= i /\ entries'[k] = entries[i]
<1> DEFINE Begun(q) == /\ q \in Seq(Rules)
                       /\ \A i, j \in DOMAIN q : q[i] = q[j] => i = j
                       /\ \A k \in DOMAIN q :
                              \E i \in DOMAIN entries : k <= i /\ q[k] = entries[i]
<1>1. TypeOK /\ OnceEach /\ entries \in Seq(Rules)
  BY DEF Shape, TypeOK
<1>2. Begun(entries)
  BY <1>1 DEF OnceEach
<1>3. Begun(Compacted)
  <2>1. Kept \subseteq DOMAIN entries
    BY DEF Kept
  <2>2. \A k \in DOMAIN Compacted :
            \E i \in DOMAIN entries : k <= i /\ Compacted[k] = entries[i]
    BY <1>1, <2>1, CompactedIs
  <2>3. ASSUME NEW k \in DOMAIN Compacted, NEW m \in DOMAIN Compacted,
               Compacted[k] = Compacted[m]
        PROVE  k = m
    <3>1. PICK i \in Kept : Rank(i) = k /\ Compacted[k] = entries[i]
      BY <1>1, CompactedIs
    <3>2. PICK j \in Kept : Rank(j) = m /\ Compacted[m] = entries[j]
      BY <1>1, CompactedIs
    <3>3. i = j
      BY <1>1, <2>1, <2>3, <3>1, <3>2 DEF OnceEach
    <3> QED BY <3>1, <3>2, <3>3
  <2> QED BY <1>1, <2>2, <2>3, CompactedIs
<1>4. PICK q : Begun(q) /\ entries' = Append(q, r)
  BY <1>2, <1>3 DEF CreateRule
<1>5. \A i \in DOMAIN entries : entries[i] # r
  BY DEF CreateRule, Unreferenced
<1>6. q \in Seq(Rules) /\ Len(q) \in Nat /\ DOMAIN q = 1..Len(q)
  BY <1>4
<1>7. /\ entries' \in Seq(Rules)
      /\ DOMAIN entries' = 1..Len(q) + 1
      /\ \A k \in 1..Len(q) : entries'[k] = q[k]
      /\ entries'[Len(q) + 1] = r
  BY <1>4, <1>6
<1>8. \A k \in 1..Len(q) : q[k] # r
  BY <1>4, <1>5, <1>6
<1>9. ASSUME NEW k \in 1..Len(q) + 1, NEW m \in 1..Len(q) + 1, entries'[k] = entries'[m]
      PROVE  k = m
  <2>1. CASE k \in 1..Len(q) /\ m \in 1..Len(q)
    BY <1>4, <1>6, <1>7, <1>9, <2>1
  <2>2. CASE k = Len(q) + 1 \/ m = Len(q) + 1
    BY <1>6, <1>7, <1>8, <1>9, <2>2
  <2> QED BY <1>6, <2>1, <2>2
<1>10. OnceEach'
  BY <1>7, <1>9 DEF OnceEach
<1>11. ASSUME NEW k \in 1..Len(q) + 1
       PROVE  \/ entries'[k] = r
              \/ \E i \in DOMAIN entries : k <= i /\ entries'[k] = entries[i]
  <2>1. CASE k \in 1..Len(q)
    BY <1>4, <1>6, <1>7, <2>1
  <2>2. CASE k = Len(q) + 1
    BY <1>7, <2>2
  <2> QED BY <1>6, <2>1, <2>2
<1> QED BY <1>7, <1>10, <1>11

LEMMA CreateKeepsShape ==
    ASSUME Shape, NEW r \in Rules, CreateRule(r)
    PROVE  Shape'
<1>1. /\ rules' = rules \cup {r} /\ since' = [since EXCEPT ![r] = Cooldown + MaxSpent]
      /\ window' = Discounted(r) /\ UNCHANGED <<met, eval>>
      /\ \A s \in Sensors : eval[s].rule # r
  BY DEF CreateRule, Unreferenced
<1>2. window' \in {window, NoWindow}
  BY <1>1, DiscountedIs
<1>3. entries' \in Seq(Rules) /\ OnceEach'
  BY Inserted
<1>4. Len(entries') <= Cardinality(Rules)
  BY <1>3, Short DEF OnceEach
<1>5. Cooldown + MaxSpent \in Ages
  BY Constant DEF Ages
<1>6. TypeOK'
  BY <1>1, <1>2, <1>3, <1>4, <1>5, NoWindowType DEF Shape, TypeOK
<1>7. IdleIs'
  BY <1>1 DEF Shape, IdleIs, Busy
<1>8. NotAhead'
  <2>1. ASSUME NEW s \in Sensors, Busy(s), NEW k \in DOMAIN entries', entries'[k] = eval[s].rule
        PROVE  k <= eval[s].pos
    <3>1. PICK i \in DOMAIN entries : k <= i /\ entries'[k] = entries[i]
      BY <1>1, <2>1, Inserted
    <3>2. i <= eval[s].pos
      BY <2>1, <3>1 DEF Shape, NotAhead
    <3>3. i \in Nat /\ k \in Nat /\ eval[s].pos \in Nat
      BY <1>3, EvalType, EvaluationIs DEF Shape, TypeOK
    <3> QED BY <3>1, <3>2, <3>3
  <2> QED BY <1>1, <2>1 DEF NotAhead, Busy
<1>9. WindowSound'
  BY <1>2, NoWindowType DEF Shape, WindowSound
<1> QED BY <1>3, <1>6, <1>7, <1>8, <1>9 DEF Shape

LEMMA TickEval ==
    ASSUME Shape, Tick
    PROVE  /\ eval' \in [Sensors -> Evaluation]
           /\ \A s \in Sensors :
                  /\ eval'[s].rule = eval[s].rule /\ eval'[s].pos = eval[s].pos
                  /\ ~Busy(s) => eval'[s] = eval[s]
                  /\ Busy(s) => eval'[s].spent = eval[s].spent + 1
<1>1. /\ \A s \in Sensors : eval[s].spent < MaxSpent
      /\ eval' = [s \in Sensors |->
                     IF Busy(s) THEN [eval[s] EXCEPT !.spent = @ + 1] ELSE eval[s]]
  BY DEF Tick
<1>2. ASSUME NEW s \in Sensors
      PROVE  [eval[s] EXCEPT !.spent = @ + 1] \in Evaluation
  <2>1. eval[s] \in Evaluation /\ eval[s].spent + 1 \in 0..MaxSpent
    BY <1>1, EvalType, EvaluationIs, Constant DEF Shape
  <2> QED BY <2>1 DEF Evaluation
<1>3. eval' \in [Sensors -> Evaluation]
  BY <1>1, <1>2, EvalType DEF Shape
<1>4. ASSUME NEW s \in Sensors
      PROVE  /\ eval'[s].rule = eval[s].rule /\ eval'[s].pos = eval[s].pos
             /\ ~Busy(s) => eval'[s] = eval[s]
             /\ Busy(s) => eval'[s].spent = eval[s].spent + 1
  <2>1. eval[s] \in Evaluation
    BY EvalType DEF Shape
  <2> QED BY <1>1, <2>1 DEF Evaluation
<1> QED BY <1>3, <1>4

LEMMA TickSince ==
    ASSUME TypeOK, Tick
    PROVE  /\ since' \in [Rules -> Ages]
           /\ \A r \in Rules : since'[r] = Older(since[r], Cooldown + MaxSpent)
<1>1. since' = [r \in Rules |-> Older(since[r], Cooldown + MaxSpent)]
  BY DEF Tick
<1>2. \A r \in Rules : Older(since[r], Cooldown + MaxSpent) \in Ages
  BY Constant DEF TypeOK, Ages, Older
<1> QED BY <1>1, <1>2

LEMMA TickKeepsShape == ASSUME Shape, Tick PROVE Shape'
<1>1. /\ window' = IF window.age + 1 < Cooldown /\ window # NoWindow
                   THEN [window EXCEPT !.age = @ + 1] ELSE NoWindow
      /\ UNCHANGED <<entries, rules, met>>
  BY DEF Tick
<1>2. WindowSound' /\ window' \in [rule : Rules \cup {NoRule}, age : 0..Cooldown, writes : Nat]
  <2>1. CASE window.age + 1 < Cooldown /\ window # NoWindow
    <3>1. window' = [window EXCEPT !.age = @ + 1] /\ window.age + 1 \in 0..Cooldown
      BY <1>1, <2>1, WindowIs, Constant DEF Shape
    <3>2. window' \in [rule : Rules \cup {NoRule}, age : 0..Cooldown, writes : Nat]
      BY <3>1 DEF Shape, TypeOK
    <3>3. window'.age = window.age + 1 /\ window'.rule = window.rule
      BY <3>1 DEF Shape, TypeOK
    <3>4. window.rule # NoRule
      BY <2>1 DEF Shape, WindowSound
    <3> QED BY <2>1, <3>2, <3>3, <3>4 DEF WindowSound
  <2>2. CASE ~(window.age + 1 < Cooldown /\ window # NoWindow)
    BY <1>1, <2>2, NoWindowType DEF WindowSound
  <2> QED BY <2>1, <2>2
<1>3. TypeOK'
  BY <1>1, <1>2, TickEval, TickSince DEF Shape, TypeOK
<1>4. IdleIs'
  BY TickEval DEF Shape, IdleIs, Busy
<1>5. NotAhead'
  BY <1>1, TickEval DEF Shape, NotAhead, Busy
<1> QED BY <1>1, <1>2, <1>3, <1>4, <1>5 DEF Shape, OnceEach

LEMMA ShapeInit == Init => Shape
<1> SUFFICES ASSUME Init PROVE Shape
  OBVIOUS
<1>1. TypeOK
  <2>1. Cooldown + MaxSpent \in Ages
    BY Constant DEF Ages
  <2>2. Len(entries) = 0 /\ entries \in Seq(Rules)
    BY DEF Init
  <2> QED BY <2>1, <2>2, IdleType, NoWindowType, Constant DEF Init, TypeOK
<1>2. IdleIs /\ OnceEach /\ NotAhead
  BY DEF Init, IdleIs, OnceEach, NotAhead
<1>3. WindowSound
  BY NoWindowType DEF Init, WindowSound
<1> QED BY <1>1, <1>2, <1>3 DEF Shape

LEMMA ShapeNext == Shape /\ [Next]_vars => Shape'
<1> SUFFICES ASSUME Shape, [Next]_vars PROVE Shape'
  OBVIOUS
<1> USE DEF Shape
<1>1. CASE \E s \in Sensors : Update(s)
  <2>1. PICK s \in Sensors : Update(s)
    BY <1>1
  <2>2. since' \in [Rules -> Ages]
    BY <2>1, UpdateMoves DEF TypeOK
  <2> QED BY <2>1, <2>2, UpdateMoves, MovesKeepShape
<1>2. CASE \E s \in Sensors : WriteReturns(s)
  <2>1. PICK s \in Sensors : WriteReturns(s)
    BY <1>2
  <2>2. since' \in [Rules -> Ages] /\ met' \subseteq Rules
    BY <2>1, ReturnMoves, ReturnAges DEF TypeOK
  <2> QED BY <2>1, <2>2, ReturnMoves, MovesKeepShape
<1>3. CASE \E s \in Sensors : WriteRaises(s)
  <2>1. PICK s \in Sensors : WriteRaises(s)
    BY <1>3
  <2>2. since' \in [Rules -> Ages] /\ met' \subseteq Rules
    BY <2>1, RaiseMoves DEF TypeOK
  <2> QED BY <2>1, <2>2, RaiseMoves, DiscountedIs, MovesKeepShape
<1>4. CASE \E s \in Sensors : Abandoned(s)
  <2>1. PICK s \in Sensors : Abandoned(s)
    BY <1>4
  <2>2. since' \in [Rules -> Ages] /\ met' \subseteq Rules
    BY <2>1, AbandonedMoves DEF TypeOK
  <2> QED BY <2>1, <2>2, AbandonedMoves, DiscountedIs, MovesKeepShape
<1>5. CASE \E r \in Rules : CreateRule(r)
  BY <1>5, CreateKeepsShape
<1>6. CASE \E r \in Rules : DeleteRule(r)
  BY <1>6 DEF DeleteRule, TypeOK, IdleIs, OnceEach, NotAhead, WindowSound, Busy
<1>7. CASE StatsChange
  BY <1>7 DEF StatsChange, TypeOK, IdleIs, OnceEach, NotAhead, WindowSound, Busy
<1>8. CASE Tick
  BY <1>8, TickKeepsShape
<1>9. CASE UNCHANGED vars
  BY <1>9 DEF vars, TypeOK, IdleIs, OnceEach, NotAhead, WindowSound, Busy
<1> QED BY <1>1, <1>2, <1>3, <1>4, <1>5, <1>6, <1>7, <1>8, <1>9 DEF Next, WriteEnds

LEMMA Shaped == Spec => []Shape
<1>1. Init => Shape
  BY ShapeInit
<1>2. Shape /\ [Next]_vars => Shape'
  BY ShapeNext
<1> QED BY <1>1, <1>2, PTL DEF Spec

(* The state is well-typed: an iterator never yields more rules than it    *)
(* has left, its position never leaves the dict, and the dict never has    *)
(* more entries than there are rule objects, because a rule object is in   *)
(* one entry at most.                                                      *)
THEOREM TypeCorrect == Spec => []TypeOK
<1>1. Shape => TypeOK
  BY DEF Shape
<1> QED BY <1>1, Shaped, PTL

-----------------------------------------------------------------------------
(* Deleted rules.                                                          *)

LEMMA MovesBegin ==
    ASSUME Shape, NEW s \in Sensors, NEW w, Moves(s, w), UNCHANGED <<entries, rules>>,
           NEW q \in Sensors, NEW r \in Rules, Begins(q, r)
    PROVE  r \in rules'
<1>1. PICK e2 \in Evaluation :
          /\ ComesTo(eval[s].pos, eval[s].spent, since', e2)
          /\ eval' = [eval EXCEPT ![s] = e2]
  BY DEF Moves
<1>2. q = s /\ e2.rule = r
  BY <1>1 DEF Begins, Shape, TypeOK
<1>3. e2 # Idle
  BY <1>2, Constant DEF Idle
<1>4. PICK i \in DOMAIN entries : entries[i] \in rules /\ e2.rule = entries[i]
  BY <1>1, <1>3 DEF ComesTo
<1> QED BY <1>2, <1>4

(* A write that begins is a write for a rule that has not been deleted,    *)
(* however long ago the evaluation that begins it was under way.           *)
THEOREM DeletedSilent == Spec => DeletedNeverFires
<1>1. Shape /\ [Next]_vars
          => [\A s \in Sensors, r \in Rules : Begins(s, r) => r \in rules']_vars
  <2> SUFFICES ASSUME Shape, Next, NEW q \in Sensors, NEW r \in Rules, Begins(q, r)
               PROVE  r \in rules'
    OBVIOUS
  <2> USE DEF Shape
  <2>1. CASE \E s \in Sensors : Update(s)
    BY <2>1, UpdateMoves, MovesBegin
  <2>2. CASE \E s \in Sensors : WriteReturns(s)
    BY <2>2, ReturnMoves, MovesBegin
  <2>3. CASE \E s \in Sensors : WriteRaises(s)
    BY <2>3, RaiseMoves, MovesBegin
  <2>4. CASE \E s \in Sensors : Abandoned(s)
    BY <2>4, AbandonedMoves, MovesBegin
  <2>5. CASE \E p \in Rules : CreateRule(p) \/ DeleteRule(p)
    BY <2>5 DEF CreateRule, DeleteRule, Begins
  <2>6. CASE StatsChange
    BY <2>6 DEF StatsChange, Begins
  <2>7. CASE Tick
    BY <2>7, TickEval DEF Begins
  <2> QED BY <2>1, <2>2, <2>3, <2>4, <2>5, <2>6, <2>7 DEF Next, WriteEnds
<1> QED BY <1>1, Shaped, PTL DEF Spec, DeletedNeverFires

-----------------------------------------------------------------------------
(* The writes of one rule in one cooldown.                                 *)
(*                                                                         *)
(* Let r be the rule that the window is about.  An evaluation is old when  *)
(* its "now" was taken before the window opened.  Only the return of a     *)
(* write of r by an old evaluation sets last_triggered back to before the  *)
(* window; while it is there, every evaluation can begin a write of r, and *)
(* while it is not, only an old one can that has yet to come to r.  Each   *)
(* old evaluation comes to r once.  So what can still be written without   *)
(* another setting back is counted by the set Owing, and every setting     *)
(* back, which makes one more evaluation free of r, adds at most the free  *)
(* ones to it: 1 + 2 + ... + n writes for n sensors.                       *)

(* Evaluation s took its "now" before the window opened.                   *)
Old(s) == Busy(s) /\ eval[s].spent > window.age

(* It has yet to come to r.                                                *)
ToCome(s) ==
    /\ Old(s)
    /\ eval[s].rule # window.rule
    /\ \E i \in DOMAIN entries : entries[i] = window.rule /\ eval[s].pos < i

Yet == {s \in Sensors : ToCome(s)}

(* It does not write r now.                                                *)
Others == {s \in Sensors : eval[s].rule # window.rule}

(* It can no longer set last_triggered back, unless it starts again.       *)
Free == {s \in Sensors : ~ToCome(s) /\ ~(Old(s) /\ eval[s].rule = window.rule)}

SetBack == since[window.rule] > window.age

Owing == IF SetBack THEN Others ELSE Yet

Budget ==
    window # NoWindow =>
        2 * (window.writes + Cardinality(Owing))
            <= 2 * Cardinality(Sensors) + Cardinality(Free) * (Cardinality(Free) + 1)

LEMMA Counts ==
    ASSUME NEW S \in SUBSET Sensors
    PROVE  IsFiniteSet(S) /\ Cardinality(S) \in Nat /\ Cardinality(S) <= Cardinality(Sensors)
BY Constant, PartOfFinite

LEMMA Within ==
    ASSUME NEW S \in SUBSET Sensors, NEW T \in SUBSET S
    PROVE  Cardinality(T) <= Cardinality(S)
BY Counts, PartOfFinite

LEMMA Parts == Yet \subseteq Others /\ Others \subseteq Sensors
               /\ Owing \subseteq Others /\ Free \subseteq Sensors
               /\ Others \ Yet \subseteq Free
BY DEF Yet, Others, Owing, Free, ToCome

LEMMA PartsNext == Yet' \subseteq Others' /\ Others' \subseteq Sensors
                   /\ Owing' \subseteq Others' /\ Free' \subseteq Sensors
                   /\ Others' \ Yet' \subseteq Free'
BY DEF Yet, Others, Owing, Free, ToCome

LEMMA Monotone ==
    ASSUME NEW f \in Nat, NEW g \in Nat, f <= g
    PROVE  f * (f + 1) <= g * (g + 1)
<1>1. PICK d \in Nat : g = f + d
  <2>1. g - f \in Nat /\ g = f + (g - f)
    OBVIOUS
  <2> QED BY <2>1
<1>2. g * (g + 1) = f * (f + 1) + (f * d + d * f + d * d + d)
  BY <1>1
<1>3. f * d \in Nat /\ d * f \in Nat /\ d * d \in Nat /\ f * (f + 1) \in Nat
  OBVIOUS
<1> QED BY <1>2, <1>3

LEMMA SameBudget ==
    ASSUME Shape, Budget, window # NoWindow, window'.writes = window.writes,
           Owing' \subseteq Owing, Free \subseteq Free'
    PROVE  Budget'
<1> DEFINE n == Cardinality(Sensors)
           o == Cardinality(Owing)
           p == Cardinality(Owing')
           f == Cardinality(Free)
           g == Cardinality(Free')
           w == window.writes
<1>1. n \in Nat /\ o \in Nat /\ p \in Nat /\ f \in Nat /\ g \in Nat /\ w \in Nat
  BY Constant, Parts, PartsNext, Counts, WindowIs DEF Shape
<1>2. p <= o /\ f <= g
  BY Parts, PartsNext, Within
<1>3. 2 * (w + o) <= 2 * n + f * (f + 1)
  BY DEF Budget
<1>4. f * (f + 1) <= g * (g + 1) /\ f * (f + 1) \in Nat /\ g * (g + 1) \in Nat
  BY <1>1, <1>2, Monotone
<1>5. 2 * (w + p) <= 2 * (w + o)
  BY <1>1, <1>2
<1>6. 2 * (w + p) <= 2 * n + g * (g + 1)
  <2> HIDE DEF n, o, p, f, g, w
  <2> QED BY <1>1, <1>3, <1>4, <1>5
<1> QED BY <1>6 DEF Budget

LEMMA SpentBudget ==
    ASSUME Shape, Budget, window # NoWindow, window'.writes = window.writes + 1,
           NEW s \in Owing, Owing' \subseteq Owing \ {s}, Free \subseteq Free'
    PROVE  Budget'
<1> DEFINE n == Cardinality(Sensors)
           o == Cardinality(Owing)
           p == Cardinality(Owing')
           f == Cardinality(Free)
           g == Cardinality(Free')
           w == window.writes
<1>1. n \in Nat /\ o \in Nat /\ p \in Nat /\ f \in Nat /\ g \in Nat /\ w \in Nat
  BY Constant, Parts, PartsNext, Counts, WindowIs DEF Shape
<1>2. f <= g
  BY Parts, PartsNext, Within
<1>3. p + 1 <= o
  <2>1. IsFiniteSet(Owing) /\ Owing \ {s} \subseteq Sensors
    BY Parts, Counts
  <2>2. Cardinality(Owing \ {s}) = o - 1
    BY <2>1, FS_RemoveElement
  <2>3. p <= Cardinality(Owing \ {s})
    BY <2>1, Within
  <2> QED BY <1>1, <2>2, <2>3
<1>4. 2 * (w + o) <= 2 * n + f * (f + 1)
  BY DEF Budget
<1>5. f * (f + 1) <= g * (g + 1) /\ f * (f + 1) \in Nat /\ g * (g + 1) \in Nat
  BY <1>1, <1>2, Monotone
<1>6. 2 * ((w + 1) + p) <= 2 * (w + o)
  BY <1>1, <1>3
<1>7. 2 * ((w + 1) + p) <= 2 * n + g * (g + 1)
  <2> HIDE DEF n, o, p, f, g, w
  <2> QED BY <1>1, <1>4, <1>5, <1>6
<1> QED BY <1>7 DEF Budget

LEMMA ReturnedBudget ==
    ASSUME Shape, Budget, window # NoWindow, window'.writes = window.writes,
           Owing' \subseteq Owing \cup Free',
           NEW s \in Sensors, s \notin Free, Free \cup {s} \subseteq Free'
    PROVE  Budget'
<1> DEFINE n == Cardinality(Sensors)
           o == Cardinality(Owing)
           p == Cardinality(Owing')
           f == Cardinality(Free)
           g == Cardinality(Free')
           w == window.writes
<1>1. n \in Nat /\ o \in Nat /\ p \in Nat /\ f \in Nat /\ g \in Nat /\ w \in Nat
  BY Constant, Parts, PartsNext, Counts, WindowIs DEF Shape
<1>2. p <= o + g
  <2>1. IsFiniteSet(Owing) /\ IsFiniteSet(Free') /\ Owing \cup Free' \subseteq Sensors
    BY Parts, PartsNext, Counts
  <2>2. Cardinality(Owing \cup Free') = o + g - Cardinality(Owing \cap Free')
    BY <2>1, FS_Union
  <2>3. Cardinality(Owing \cap Free') \in Nat
    BY <2>1, PartOfFinite
  <2>4. p <= Cardinality(Owing \cup Free')
    BY <2>1, Within
  <2> QED BY <1>1, <2>2, <2>3, <2>4
<1>3. f + 1 <= g
  <2>1. IsFiniteSet(Free) /\ Free \cup {s} \subseteq Sensors
    BY Parts, Counts
  <2>2. Cardinality(Free \cup {s}) = f + 1
    BY <2>1, FS_AddElement
  <2>3. Cardinality(Free \cup {s}) <= g
    BY PartsNext, Within
  <2> QED BY <2>2, <2>3
<1>4. 2 * (w + o) <= 2 * n + f * (f + 1)
  BY DEF Budget
<1>5. f * (f + 1) + 2 * g <= g * (g + 1) /\ f * (f + 1) \in Nat /\ g * (g + 1) \in Nat
  <2>1. g - 1 \in Nat /\ f <= g - 1
    BY <1>1, <1>3
  <2>2. f * (f + 1) <= (g - 1) * ((g - 1) + 1)
    BY <1>1, <2>1, Monotone
  <2>3. (g - 1) * ((g - 1) + 1) + 2 * g = g * (g + 1)
    BY <1>1
  <2>4. f * (f + 1) \in Nat /\ g * (g + 1) \in Nat /\ (g - 1) * ((g - 1) + 1) \in Int
    BY <1>1
  <2> HIDE DEF f, g
  <2> QED BY <1>1, <2>2, <2>3, <2>4
<1>6. 2 * (w + p) <= 2 * (w + o) + 2 * g
  BY <1>1, <1>2
<1>7. 2 * (w + p) <= 2 * n + g * (g + 1)
  <2> HIDE DEF n, o, p, f, g, w
  <2> QED BY <1>1, <1>4, <1>5, <1>6
<1> QED BY <1>7 DEF Budget

LEMMA OpenedBudget ==
    ASSUME window'.writes = 1, NEW s \in Sensors, Owing' \subseteq Sensors \ {s}
    PROVE  Budget'
<1> DEFINE n == Cardinality(Sensors)
           p == Cardinality(Owing')
           g == Cardinality(Free')
<1>1. n \in Nat /\ p \in Nat /\ g \in Nat
  BY Constant, PartsNext, Counts
<1>2. p + 1 <= n
  <2>1. Cardinality(Sensors \ {s}) = n - 1
    BY Constant, FS_RemoveElement
  <2>2. p <= Cardinality(Sensors \ {s})
    BY Within
  <2> QED BY <1>1, <2>1, <2>2
<1>3. g * (g + 1) \in Nat
  BY <1>1
<1>4. 2 * (1 + p) <= 2 * n + g * (g + 1)
  <2> HIDE DEF n, p, g
  <2> QED BY <1>1, <1>2, <1>3
<1> QED BY <1>4 DEF Budget

(* What one step of evaluation s leaves as it was.                         *)
LEMMA RestSame ==
    ASSUME NEW s \in Sensors, \A q \in Sensors \ {s} : eval'[q] = eval[q],
           window'.rule = window.rule, window'.age = window.age, UNCHANGED entries
    PROVE  \A q \in Sensors \ {s} :
               /\ (q \in Yet') <=> (q \in Yet)
               /\ (q \in Others') <=> (q \in Others)
               /\ (q \in Free') <=> (q \in Free)
<1> TAKE q \in Sensors \ {s}
<1>1. Old(q)' <=> Old(q)
  BY DEF Old, Busy
<1>2. ToCome(q)' <=> ToCome(q)
  BY <1>1 DEF ToCome
<1> QED BY <1>1, <1>2 DEF Yet, Others, Free

LEMMA MovedTo ==
    ASSUME Shape, NEW s \in Sensors, NEW w, Moves(s, w)
    PROVE  /\ eval'[s] \in Evaluation
           /\ ComesTo(eval[s].pos, eval[s].spent, since', eval'[s])
           /\ \A q \in Sensors \ {s} : eval'[q] = eval[q]
           /\ Watch(w, eval'[s])
BY DEF Moves, Shape, TypeOK

LEMMA WindowRule ==
    ASSUME Shape, window # NoWindow
    PROVE  /\ window.rule \in Rules /\ window.rule # NoRule
           /\ window.age \in Nat /\ window.age < Cooldown
           /\ since[window.rule] \in Nat
BY WindowIs, Constant DEF Shape, WindowSound, TypeOK, Ages

(* Nothing is old that is not busy.                                        *)
LEMMA OldIs ==
    ASSUME Shape, NEW s \in Sensors
    PROVE  /\ Old(s) <=> eval[s].spent > window.age
           /\ eval[s].spent \in Nat /\ window.age \in Nat
<1>1. eval[s].spent \in Nat /\ window.age \in Nat
  BY EvalType, EvaluationIs, WindowIs DEF Shape
<1>2. ~Busy(s) => eval[s].spent = 0
  BY DEF Shape, IdleIs, Idle
<1> QED BY <1>1, <1>2 DEF Old

(* An evaluation goes on, and it did not write the window's rule.          *)
LEMMA MovesBudget ==
    ASSUME Shape, Shape', Budget, NEW s \in Sensors, Moves(s, window),
           UNCHANGED <<entries, rules>>,
           window # NoWindow, eval[s].rule # window.rule,
           since'[window.rule] = since[window.rule]
    PROVE  Budget'
<1> DEFINE e2 == eval'[s]
           r == window.rule
<1>1. ComesTo(eval[s].pos, eval[s].spent, since', e2) /\ Watch(window, e2)
  BY MovedTo
<1>2. r \in Rules /\ r # NoRule
  BY WindowRule
<1>3. CASE e2.rule # r
  <2>1. window' = window
    BY <1>1, <1>3 DEF Watch
  <2>2. \A q \in Sensors \ {s} :
            /\ (q \in Yet') <=> (q \in Yet)
            /\ (q \in Others') <=> (q \in Others)
            /\ (q \in Free') <=> (q \in Free)
    BY <2>1, MovedTo, RestSame
  <2>3. ToCome(s)' => ToCome(s)
    <3>1. SUFFICES ASSUME ToCome(s)' PROVE ToCome(s)
      OBVIOUS
    <3>2. PICK j \in DOMAIN entries : entries[j] = r /\ e2.pos < j
      BY <2>1, <3>1 DEF ToCome
    <3>3. e2 # Idle
      BY <3>1 DEF ToCome, Old, Busy, Idle
    <3>4. PICK i \in DOMAIN entries : eval[s].pos < i /\ e2.pos = i /\ e2.spent = eval[s].spent
      BY <1>1, <3>3 DEF ComesTo
    <3>5. eval[s].pos < j
      BY <3>2, <3>4, EvalType, EvaluationIs DEF Shape, TypeOK
    <3>6. Old(s)
      BY <2>1, <3>1, <3>4, OldIs DEF ToCome, Old
    <3> QED BY <3>2, <3>5, <3>6 DEF ToCome
  <2>4. s \in Others /\ s \in Others' /\ (s \in Yet' => s \in Yet)
    BY <1>3, <2>1, <2>3 DEF Others, Yet
  <2>5. Others' = Others /\ Yet' \subseteq Yet
    BY <2>2, <2>4, Parts, PartsNext
  <2>6. SetBack' <=> SetBack
    BY <2>1 DEF SetBack
  <2>7. Owing' \subseteq Owing
    BY <2>5, <2>6 DEF Owing
  <2>8. s \in Free => s \in Free'
    BY <1>3, <2>1, <2>3 DEF Free
  <2>9. Free \subseteq Free'
    BY <2>2, <2>8, Parts
  <2> QED BY <2>1, <2>7, <2>9, SameBudget
<1>4. CASE e2.rule = r
  <2>1. window' = [window EXCEPT !.rule = r, !.writes = @ + 1]
    BY <1>1, <1>2, <1>4 DEF Watch
  <2>2. window'.rule = r /\ window'.age = window.age /\ window'.writes = window.writes + 1
    BY <2>1 DEF Shape, TypeOK
  <2>3. \A q \in Sensors \ {s} :
            /\ (q \in Yet') <=> (q \in Yet)
            /\ (q \in Others') <=> (q \in Others)
            /\ (q \in Free') <=> (q \in Free)
    BY <2>2, MovedTo, RestSame
  <2>4. s \notin Others' /\ s \notin Yet'
    BY <1>4, <2>2 DEF Others, Yet, ToCome
  <2>5. Others' \subseteq Others \ {s} /\ Yet' \subseteq Yet \ {s}
    BY <2>3, <2>4, Parts, PartsNext
  <2>6. SetBack' <=> SetBack
    BY <2>2 DEF SetBack
  <2>7. Owing' \subseteq Owing \ {s}
    BY <2>5, <2>6 DEF Owing
  <2>8. e2 # Idle
    BY <1>2, <1>4 DEF Idle
  <2>9. PICK i \in DOMAIN entries :
            /\ eval[s].pos < i /\ e2.rule = entries[i] /\ e2.spent = eval[s].spent
            /\ since'[entries[i]] >= Cooldown + eval[s].spent
    BY <1>1, <2>8 DEF ComesTo
  <2>10. s \in Others
    BY DEF Others
  <2>11. CASE Old(s)
    <3>1. s \in Yet
      BY <1>4, <2>9, <2>11 DEF Yet, ToCome
    <3>2. s \in Owing
      BY <2>10, <3>1 DEF Owing
    <3>3. s \notin Free
      BY <3>1 DEF Free, Yet
    <3>4. Free \subseteq Free'
      BY <2>3, <3>3, Parts
    <3> QED BY <2>2, <2>7, <3>2, <3>4, SpentBudget
  <2>12. CASE ~Old(s)
    <3>1. since[r] >= Cooldown + eval[s].spent
      BY <1>4, <2>9
    <3>2. SetBack
      BY <3>1, WindowRule, OldIs, Constant DEF SetBack
    <3>3. s \in Owing
      BY <2>10, <3>2 DEF Owing
    <3>4. ~Old(s)'
      BY <2>2, <2>9, <2>12, OldIs DEF Old
    <3>5. s \in Free'
      BY <3>4 DEF Free, ToCome
    <3>6. Free \subseteq Free'
      BY <2>3, <3>5, Parts
    <3> QED BY <2>2, <2>7, <3>3, <3>6, SpentBudget
  <2> QED BY <2>11, <2>12
<1> QED BY <1>3, <1>4

(* An evaluation goes on while no window is open.                          *)
LEMMA OpensBudget ==
    ASSUME Shape, Shape', NEW s \in Sensors, Moves(s, NoWindow)
    PROVE  Budget'
<1>1. Watch(NoWindow, eval'[s])
  BY MovedTo
<1>2. CASE eval'[s].rule = NoRule
  BY <1>1, <1>2 DEF Watch, Budget
<1>3. CASE eval'[s].rule # NoRule
  <2>1. window' = [NoWindow EXCEPT !.rule = eval'[s].rule, !.writes = @ + 1]
    BY <1>1, <1>3 DEF Watch
  <2>2. window'.rule = eval'[s].rule /\ window'.writes = 1
    BY <2>1 DEF NoWindow
  <2>3. s \notin Others'
    BY <2>2 DEF Others
  <2>4. Owing' \subseteq Sensors \ {s}
    BY <2>3, PartsNext
  <2> QED BY <2>2, <2>4, OpenedBudget
<1> QED BY <1>2, <1>3

(* A write of the window's rule returned.                                  *)
LEMMA ReturnBudget ==
    ASSUME Shape, Shape', Budget, NEW s \in Sensors, Moves(s, window), Busy(s),
           UNCHANGED <<entries, rules>>,
           window # NoWindow, eval[s].rule = window.rule,
           since' = [since EXCEPT ![window.rule] = eval[s].spent]
    PROVE  Budget'
<1> DEFINE e2 == eval'[s]
           r == window.rule
<1>1. ComesTo(eval[s].pos, eval[s].spent, since', e2) /\ Watch(window, e2)
  BY MovedTo
<1>2. r \in Rules /\ r # NoRule
  BY WindowRule
<1>3. ASSUME NEW j \in DOMAIN entries, entries[j] = r PROVE j <= eval[s].pos
  BY <1>3 DEF Shape, NotAhead
<1>4. \A j \in DOMAIN entries : j \in Nat
  BY DEF Shape, TypeOK
<1>5. eval[s].pos \in Nat
  BY EvalType, EvaluationIs DEF Shape
<1>6. e2 = Idle \/ \E i \in DOMAIN entries :
          eval[s].pos < i /\ e2.rule = entries[i] /\ e2.pos = i
  BY <1>1 DEF ComesTo
<1>7. e2.rule # r
  <2>1. Idle.rule # r
    BY <1>2 DEF Idle
  <2>2. \A i \in DOMAIN entries : eval[s].pos < i => entries[i] # r
    BY <1>3, <1>4, <1>5
  <2> QED BY <1>6, <2>1, <2>2
<1>8. window' = window
  BY <1>1, <1>7 DEF Watch
<1>9. \A q \in Sensors \ {s} :
          /\ (q \in Yet') <=> (q \in Yet)
          /\ (q \in Others') <=> (q \in Others)
          /\ (q \in Free') <=> (q \in Free)
  BY <1>8, MovedTo, RestSame
<1>10. ~ToCome(s)'
  <2>1. SUFFICES ASSUME ToCome(s)' PROVE FALSE
    OBVIOUS
  <2>2. PICK j \in DOMAIN entries : entries[j] = r /\ e2.pos < j
    BY <1>8, <2>1 DEF ToCome
  <2>3. e2 # Idle
    BY <2>1 DEF ToCome, Old, Busy, Idle
  <2>4. PICK i \in DOMAIN entries : eval[s].pos < i /\ e2.pos = i
    BY <1>6, <2>3
  <2> QED BY <1>3, <1>4, <1>5, <2>2, <2>4
<1>11. s \in Free' /\ s \notin Yet' /\ s \notin Yet
  BY <1>7, <1>8, <1>10 DEF Free, Yet, ToCome
<1>12. Free \cup {s} \subseteq Free' /\ Yet' \subseteq Yet
  BY <1>9, <1>11, Parts, PartsNext
<1>13. since'[r] = eval[s].spent
  BY <1>2 DEF Shape, TypeOK
<1>14. CASE Old(s)
  <2>1. s \notin Free
    BY <1>14 DEF Free
  <2>2. SetBack'
    BY <1>8, <1>13, <1>14 DEF SetBack, Old
  <2>3. Owing' = Others'
    BY <2>2 DEF Owing
  <2>4. Yet \subseteq Owing
    BY Parts DEF Owing
  <2>5. Others' \subseteq Owing \cup Free'
    BY <1>12, <2>4, PartsNext
  <2> QED BY <1>8, <1>12, <2>1, <2>3, <2>5, ReturnedBudget
<1>15. CASE ~Old(s)
  <2>1. ~(eval[s].spent > window.age)
    BY <1>15 DEF Old
  <2>2. ~SetBack'
    BY <1>8, <1>13, <2>1 DEF SetBack
  <2>3. Owing' = Yet'
    BY <2>2 DEF Owing
  <2>4. Yet \subseteq Owing
    BY Parts DEF Owing
  <2> QED BY <1>8, <1>12, <2>3, <2>4, SameBudget
<1> QED BY <1>14, <1>15

(* The evaluations stay where they are.                                    *)
LEMMA StayBudget ==
    ASSUME Shape, Budget, UNCHANGED <<eval, window>>,
           window # NoWindow => since'[window.rule] = since[window.rule],
           \A k \in DOMAIN entries' :
               entries'[k] = window.rule =>
                   \E i \in DOMAIN entries : k <= i /\ entries[i] = window.rule,
           \A k \in DOMAIN entries' : k \in Nat
    PROVE  Budget'
<1>1. SUFFICES ASSUME window # NoWindow PROVE Budget'
  BY DEF Budget
<1>2. ASSUME NEW q \in Sensors
      PROVE  (Old(q)' <=> Old(q)) /\ (ToCome(q)' => ToCome(q))
  <2>1. Old(q)' <=> Old(q)
    BY DEF Old, Busy
  <2>2. ASSUME ToCome(q)' PROVE ToCome(q)
    <3>1. PICK k \in DOMAIN entries' : entries'[k] = window.rule /\ eval[q].pos < k
      BY <2>2 DEF ToCome
    <3>2. PICK i \in DOMAIN entries : k <= i /\ entries[i] = window.rule
      BY <3>1
    <3>3. k \in Nat /\ i \in Nat /\ eval[q].pos \in Nat
      BY EvalType, EvaluationIs DEF Shape, TypeOK
    <3>4. eval[q].pos < i
      BY <3>1, <3>2, <3>3
    <3> QED BY <2>1, <2>2, <3>2, <3>4 DEF ToCome
  <2> QED BY <2>1, <2>2
<1>3. Yet' \subseteq Yet /\ Others' = Others /\ Free \subseteq Free'
  BY <1>2 DEF Yet, Others, Free
<1>4. SetBack' <=> SetBack
  BY <1>1 DEF SetBack
<1>5. Owing' \subseteq Owing
  BY <1>3, <1>4 DEF Owing
<1> QED BY <1>1, <1>3, <1>5, SameBudget

LEMMA CreateBudget ==
    ASSUME Shape, Budget, NEW r \in Rules, CreateRule(r)
    PROVE  Budget'
<1>1. /\ since' = [since EXCEPT ![r] = Cooldown + MaxSpent]
      /\ window' = Discounted(r) /\ UNCHANGED <<met, eval>>
  BY DEF CreateRule
<1>2. CASE window.rule = r
  BY <1>1, <1>2 DEF Discounted, Budget
<1>3. CASE window.rule # r
  <2>1. window' = window
    BY <1>1, <1>3 DEF Discounted
  <2>2. window # NoWindow => since'[window.rule] = since[window.rule]
    BY <1>1, <1>3, WindowRule DEF Shape, TypeOK
  <2>3. \A k \in DOMAIN entries' :
            entries'[k] = window.rule =>
                \E i \in DOMAIN entries : k <= i /\ entries[i] = window.rule
    BY <1>3, Inserted
  <2>4. entries' \in Seq(Rules)
    BY Inserted
  <2>5. \A k \in DOMAIN entries' : k \in Nat
    BY <2>4
  <2> QED BY <1>1, <2>1, <2>2, <2>3, <2>5, StayBudget
<1> QED BY <1>2, <1>3

LEMMA RestBudget ==
    ASSUME Shape, Budget, UNCHANGED <<entries, since, eval, window>>
    PROVE  Budget'
<1>1. \A k \in DOMAIN entries : k \in Nat
  BY DEF Shape, TypeOK
<1>2. \A k \in DOMAIN entries' :
          entries'[k] = window.rule =>
              \E i \in DOMAIN entries : k <= i /\ entries[i] = window.rule
  BY <1>1
<1> QED BY <1>1, <1>2, StayBudget

LEMMA TickBudget ==
    ASSUME Shape, Budget, Tick
    PROVE  Budget'
<1>1. SUFFICES ASSUME window' # NoWindow PROVE Budget'
  BY DEF Budget
<1>2. /\ window.age + 1 < Cooldown /\ window # NoWindow
      /\ window' = [window EXCEPT !.age = @ + 1] /\ UNCHANGED entries
  BY <1>1 DEF Tick
<1>3. /\ window'.rule = window.rule /\ window'.writes = window.writes
      /\ window'.age = window.age + 1
  BY <1>2 DEF Shape, TypeOK
<1>4. ASSUME NEW q \in Sensors
      PROVE  (Old(q)' <=> Old(q)) /\ (ToCome(q)' <=> ToCome(q))
  <2>1. Busy(q)' <=> Busy(q)
    BY TickEval DEF Busy
  <2>2. Old(q)' <=> Old(q)
    BY <1>3, <2>1, OldIs, TickEval DEF Old
  <2> QED BY <1>2, <1>3, <2>2, TickEval DEF ToCome
<1>5. Yet' = Yet /\ Others' = Others /\ Free' = Free
  BY <1>3, <1>4, TickEval DEF Yet, Others, Free
<1>6. SetBack' <=> SetBack
  <2>1. since'[window.rule] = Older(since[window.rule], Cooldown + MaxSpent)
    BY <1>2, WindowRule, TickSince DEF Shape
  <2>2. since[window.rule] \in Ages
    BY <1>2, WindowRule DEF Shape, TypeOK
  <2>3. window.age \in Nat /\ window.age + 1 < Cooldown + MaxSpent
    BY <1>2, WindowRule, Constant
  <2> QED BY <1>3, <2>1, <2>2, <2>3, Constant DEF SetBack, Older, Ages
<1>7. Owing' = Owing
  BY <1>5, <1>6 DEF Owing
<1> QED BY <1>2, <1>3, <1>5, <1>7, SameBudget

LEMMA BudgetNext == Shape /\ Budget /\ Shape' /\ [Next]_vars => Budget'
<1> SUFFICES ASSUME Shape, Budget, Shape', [Next]_vars PROVE Budget'
  OBVIOUS
<1>0. TypeOK /\ IdleIs
  BY DEF Shape
<1>1. CASE \E s \in Sensors : Update(s)
  <2>1. PICK s \in Sensors : Update(s)
    BY <1>1
  <2>2. ~Busy(s) /\ Moves(s, window) /\ UNCHANGED <<entries, rules, since>>
    BY <1>0, <2>1, UpdateMoves
  <2>3. CASE window = NoWindow
    BY <2>2, <2>3, OpensBudget
  <2>4. CASE window # NoWindow
    <3>1. eval[s].rule # window.rule
      BY <2>2, <2>4, WindowRule DEF Busy
    <3> QED BY <2>2, <2>4, <3>1, MovesBudget
  <2> QED BY <2>3, <2>4
<1>2. CASE \E s \in Sensors : WriteReturns(s)
  <2>1. PICK s \in Sensors : WriteReturns(s)
    BY <1>2
  <2>2. /\ Busy(s) /\ Moves(s, window) /\ UNCHANGED <<entries, rules>>
        /\ since' = [since EXCEPT ![eval[s].rule] = eval[s].spent]
    BY <1>0, <2>1, ReturnMoves
  <2>3. CASE window = NoWindow
    BY <2>2, <2>3, OpensBudget
  <2>4. CASE window # NoWindow /\ eval[s].rule = window.rule
    BY <2>2, <2>4, ReturnBudget
  <2>5. CASE window # NoWindow /\ eval[s].rule # window.rule
    <3>1. since'[window.rule] = since[window.rule]
      BY <2>2, <2>5, WindowRule DEF Shape, TypeOK
    <3> QED BY <2>2, <2>5, <3>1, MovesBudget
  <2> QED BY <2>3, <2>4, <2>5
<1>3. ASSUME NEW s \in Sensors, Moves(s, Discounted(eval[s].rule)), Busy(s),
             UNCHANGED <<entries, rules, since>>
      PROVE  Budget'
  <2>1. CASE Discounted(eval[s].rule) = NoWindow
    BY <1>3, <2>1, OpensBudget
  <2>2. CASE Discounted(eval[s].rule) # NoWindow
    <3>1. window # NoWindow /\ eval[s].rule # window.rule
          /\ Discounted(eval[s].rule) = window
      BY <2>2 DEF Discounted
    <3> QED BY <1>3, <3>1, MovesBudget
  <2> QED BY <2>1, <2>2
<1>4. CASE \E s \in Sensors : WriteRaises(s)
  BY <1>0, <1>3, <1>4, RaiseMoves
<1>5. CASE \E s \in Sensors : Abandoned(s)
  BY <1>0, <1>3, <1>5, AbandonedMoves
<1>6. CASE \E r \in Rules : CreateRule(r)
  BY <1>6, CreateBudget
<1>7. CASE \E r \in Rules : DeleteRule(r)
  BY <1>7, RestBudget DEF DeleteRule
<1>8. CASE StatsChange
  BY <1>8, RestBudget DEF StatsChange
<1>9. CASE Tick
  BY <1>9, TickBudget
<1>10. CASE UNCHANGED vars
  BY <1>10, RestBudget DEF vars
<1> QED BY <1>1, <1>2, <1>4, <1>5, <1>6, <1>7, <1>8, <1>9, <1>10 DEF Next, WriteEnds

LEMMA Budgeted == Spec => [](Shape /\ Budget)
<1>1. Init => Shape /\ Budget
  BY ShapeInit DEF Init, Budget
<1>2. Shape /\ Budget /\ [Next]_vars => (Shape /\ Budget)'
  BY ShapeNext, BudgetNext
<1> QED BY <1>1, <1>2, PTL DEF Spec

LEMMA HalfBound ==
    ASSUME NEW w \in Nat, NEW n \in Nat, 2 * w <= 2 * n + n * (n + 1)
    PROVE  w <= n + (n * (n + 1)) \div 2
<1> DEFINE m == n * (n + 1)
<1>1. m \in Nat
  OBVIOUS
<1>2. 2 * w <= 2 * n + m
  OBVIOUS
<1> HIDE DEF m
<1>3. w <= n + m \div 2
  BY <1>1, <1>2
<1> QED BY <1>3 DEF m

(* With n sensors, a rule is written n + n(n+1)/2 times at most in the     *)
(* time in which it asks to be written once, whatever the other rules do,  *)
(* however long the writes take and whatever is created, deleted, failing  *)
(* or stopped meanwhile.                                                   *)
THEOREM CooldownBounded == Spec => []CooldownBound
<1>1. Shape /\ Budget => CooldownBound
  <2> SUFFICES ASSUME Shape, Budget PROVE CooldownBound
    OBVIOUS
  <2> DEFINE n == Cardinality(Sensors)
             f == Cardinality(Free)
             o == Cardinality(Owing)
             w == window.writes
  <2>1. n \in Nat /\ f \in Nat /\ o \in Nat /\ w \in Nat /\ f <= n
    BY Constant, Parts, Counts, WindowIs DEF Shape
  <2>2. 2 * w <= 2 * n + n * (n + 1)
    <3>1. n * (n + 1) \in Nat /\ f * (f + 1) \in Nat /\ f * (f + 1) <= n * (n + 1)
      BY <2>1, Monotone
    <3>2. CASE window = NoWindow
      <4>1. w = 0
        BY <3>2 DEF NoWindow
      <4> HIDE DEF n, w
      <4> QED BY <2>1, <3>1, <4>1
    <3>3. CASE window # NoWindow
      <4>1. 2 * (w + o) <= 2 * n + f * (f + 1)
        BY <3>3 DEF Budget
      <4> HIDE DEF n, f, o, w
      <4> QED BY <2>1, <3>1, <4>1
    <3> QED BY <3>2, <3>3
  <2>3. w <= n + (n * (n + 1)) \div 2
    <3> HIDE DEF n, w
    <3> QED BY <2>1, <2>2, HalfBound
  <2> QED BY <2>3 DEF CooldownBound
<1> QED BY <1>1, Budgeted, PTL
=============================================================================
