----------------------------- MODULE Automation -----------------------------
(***************************************************************************)
(* AutomationEngine of backend/app/services/automation.py and the requests *)
(* that create and delete its rules (backend/app/api/routes/automation.py).*)
(*                                                                         *)
(* Every poll loop that has a new value evaluates all rules, one after the *)
(* other, and awaits the write of each rule that fires; between two writes *)
(* nothing else runs.  So evaluations of different sensors overlap, and    *)
(* rules come and go, only while a write is awaited.                       *)
(*                                                                         *)
(* The rules are a Python dict: its entries in the order of insertion, the *)
(* deleted ones left in place until an insertion has to make room.  An     *)
(* iterator holds a position, the number of rules it began with and how    *)
(* many of these it has yet to yield.                                      *)
(*                                                                         *)
(* Conditions are data: met is the set of rules whose condition holds on   *)
(* the values the engine has.  Times are ages: since[r] is how long ago    *)
(* last_triggered lies, spent how long ago an evaluation took its "now".   *)
(***************************************************************************)
EXTENDS Naturals, FiniteSets, Sequences, FiniteSetsExt

CONSTANTS
    Sensors,       \* sensors whose values reach the engine
    Rules,         \* AutomationRule objects
    NoRule,        \* no write under way
    Cooldown,      \* cooldown_s of every rule
    MaxSpent       \* bound: how long an evaluation waits for its writes

ASSUME RulesAssumption ==
    /\ IsFiniteSet(Sensors)
    /\ IsFiniteSet(Rules)
    /\ NoRule \notin Rules

ASSUME TimesAssumption ==
    /\ Cooldown \in Nat \ {0}
    /\ MaxSpent \in Nat

VARIABLES
    entries,       \* the entries of the dict _rules, deleted ones included
    rules,         \* the rules that are in it
    met,           \* the rules whose condition holds, deleted or not
    since,         \* the age of last_triggered, up to Cooldown + MaxSpent
    eval,          \* the evaluation in each sensor's poll loop
    window         \* history: the writes of one rule in one cooldown

vars == <<entries, rules, met, since, eval, window>>

Ages == 0..Cooldown + MaxSpent

Evaluation == [rule : Rules \cup {NoRule},        \* the one it has come to
               pos : 0..Cardinality(Rules),       \* di_pos
               size : 0..Cardinality(Rules),      \* di_used
               left : 0..Cardinality(Rules),      \* len
               spent : 0..MaxSpent]

Idle == [rule |-> NoRule, pos |-> 0, size |-> 0, left |-> 0, spent |-> 0]

NoWindow == [rule |-> NoRule, age |-> 0, writes |-> 0]

TypeOK ==
    /\ entries \in Seq(Rules) /\ Len(entries) <= Cardinality(Rules)
    /\ rules \subseteq Rules
    /\ met \subseteq Rules
    /\ since \in [Rules -> Ages]
    /\ eval \in [Sensors -> Evaluation]
    /\ window \in [rule : Rules \cup {NoRule}, age : 0..Cooldown, writes : Nat]

Init ==
    /\ entries = <<>>
    /\ rules = {}
    /\ met = {}
    /\ since = [r \in Rules |-> Cooldown + MaxSpent]
    /\ eval = [s \in Sensors |-> Idle]
    /\ window = NoWindow

Busy(s) == eval[s].rule # NoRule

-----------------------------------------------------------------------------
(* _evaluate_rules().                                                      *)

(* now - last_triggered >= cooldown_s                                      *)
Due(r, e, ages) == ages[r] >= Cooldown + e.spent

(* Mutant: the engine walks a copy, in which deleted rules remain.         *)
PassedCopy(e, i) == {j \in DOMAIN entries : e.pos < j /\ j <= i}

(* The rules an iterator comes to after its position, up to position i.    *)
Passed(e, i) == {j \in DOMAIN entries : e.pos < j /\ j <= i /\ entries[j] \in rules}

(* Mutant: rules that were added since it began are yielded as well.       *)
ReachedUnlimited(e) == Passed(e, Len(entries))

(* It yields no more of them than there were when it began.                *)
Reached(e) == {i \in Passed(e, Len(entries)) : Cardinality(Passed(e, i)) <= e.left}

(* Those whose rule would write: not in its cooldown, condition met.       *)
Firing(e, ages, holds) ==
    {i \in Reached(e) : Due(entries[i], e, ages) /\ entries[i] \in holds}

(* An iterator refuses to go on when the number of rules has changed; the  *)
(* caller logs the exception (orchestrator.py:275).                        *)
SizeChanged(e) == e.size # Cardinality(rules)

(* Evaluation e goes on to the next rule it has to write for, or ends.     *)
GoesOn(e, ages, holds) ==
    LET F == Firing(e, ages, holds)
        i == Min(F)
    IN  IF SizeChanged(e) \/ F = {}
        THEN Idle
        ELSE [e EXCEPT !.rule = entries[i], !.pos = i,
                       !.left = @ - Cardinality(Passed(e, i))]

(* Evaluation e has gone on: if it has begun a write of the rule that the  *)
(* window w is about, that is one more; if no window is open, it opens one.*)
Watch(w, e) ==
    window' = IF e.rule # NoRule /\ (w = NoWindow \/ w.rule = e.rule)
              THEN [w EXCEPT !.rule = e.rule, !.writes = @ + 1]
              ELSE w

(* A write that failed does not count: the window it is in is given up.    *)
Discounted(r) == IF window.rule = r THEN NoWindow ELSE window

(* A value arrives: the conditions it bears on change, and the rules are   *)
(* evaluated.                                                              *)
Update(s) ==
    /\ ~Busy(s)
    /\ \E holds \in SUBSET Rules :
           LET n == Cardinality(rules)
               e == GoesOn([Idle EXCEPT !.size = n, !.left = n], since, holds)
           IN
           /\ met' = holds
           /\ eval' = [eval EXCEPT ![s] = e]
           /\ Watch(window, e)
    /\ UNCHANGED <<entries, rules, since>>

(* Mutant: a write that returned does not start the cooldown.              *)
WriteReturnsUntimed(s) ==
    /\ Busy(s)
    /\ LET e == GoesOn(eval[s], since, met) IN
       /\ eval' = [eval EXCEPT ![s] = e]
       /\ Watch(window, e)
    /\ UNCHANGED <<entries, rules, met, since>>

(* Mutant: one rule a value: the evaluation ends with the first write.     *)
WriteReturnsLast(s) ==
    /\ Busy(s)
    /\ since' = [since EXCEPT ![eval[s].rule] = eval[s].spent]
    /\ eval' = [eval EXCEPT ![s] = Idle]
    /\ UNCHANGED <<entries, rules, met, window>>

(* write_sensor() returned, with True or False: last_triggered = now.      *)
WriteReturns(s) ==
    /\ Busy(s)
    /\ since' = [since EXCEPT ![eval[s].rule] = eval[s].spent]
    /\ LET e == GoesOn(eval[s], since', met) IN
       /\ eval' = [eval EXCEPT ![s] = e]
       /\ Watch(window, e)
    /\ UNCHANGED <<entries, rules, met>>

(* write_sensor() raised: the rule is not triggered, the others go on.     *)
WriteRaises(s) ==
    /\ Busy(s)
    /\ LET e == GoesOn(eval[s], since, met) IN
       /\ eval' = [eval EXCEPT ![s] = e]
       /\ Watch(Discounted(eval[s].rule), e)
    /\ UNCHANGED <<entries, rules, met, since>>

(* The evaluation ends without the write: the rule's target formula raises *)
(* (l.142-145), or the sensor is stopped while its poll loop awaits it.    *)
Abandoned(s) ==
    /\ Busy(s)
    /\ eval' = [eval EXCEPT ![s] = Idle]
    /\ window' = Discounted(eval[s].rule)
    /\ UNCHANGED <<entries, rules, met, since>>

(* _update_stats_loop(): the statistics that conditions use change, and    *)
(* nothing is evaluated.                                                   *)
StatsChange ==
    /\ met' \in SUBSET Rules
    /\ UNCHANGED <<entries, rules, since, eval, window>>

-----------------------------------------------------------------------------
(* The requests.                                                           *)

(* A rule object that is used for a new rule: nothing refers to it.        *)
Unreferenced(r) ==
    /\ \A i \in DOMAIN entries : entries[i] # r
    /\ \A s \in Sensors : eval[s].rule # r

(* An insertion that finds no room makes it: the deleted entries go, and   *)
(* the others keep their order.                                            *)
Compacted ==
    LET kept == {i \in DOMAIN entries : entries[i] \in rules}
        Rank(i) == Cardinality({j \in kept : j <= i})
    IN  [k \in 1..Cardinality(kept) |-> entries[CHOOSE i \in kept : Rank(i) = k]]

CreateRule(r) ==
    /\ Unreferenced(r)
    /\ \/ entries' = Append(entries, r)
       \/ entries' = Append(Compacted, r)
    /\ rules' = rules \cup {r}
    /\ since' = [since EXCEPT ![r] = Cooldown + MaxSpent]
    /\ window' = Discounted(r)
    /\ UNCHANGED <<met, eval>>

DeleteRule(r) ==
    /\ r \in rules
    /\ rules' = rules \ {r}
    /\ UNCHANGED <<entries, met, since, eval, window>>

-----------------------------------------------------------------------------
(* Time passes while writes are awaited and between values.                *)

(* One tick older; beyond the last age that a test can tell, the same.     *)
Older(age, most) == IF age < most THEN age + 1 ELSE most

Tick ==
    /\ \A s \in Sensors : eval[s].spent < MaxSpent
    /\ since' = [r \in Rules |-> Older(since[r], Cooldown + MaxSpent)]
    /\ eval' = [s \in Sensors |->
                   IF Busy(s) THEN [eval[s] EXCEPT !.spent = @ + 1] ELSE eval[s]]
    /\ window' = IF window.age + 1 < Cooldown /\ window # NoWindow
                 THEN [window EXCEPT !.age = @ + 1] ELSE NoWindow
    /\ UNCHANGED <<entries, rules, met>>

WriteEnds(s) == WriteReturns(s) \/ WriteRaises(s)

Next ==
    \/ \E s \in Sensors : Update(s) \/ WriteEnds(s) \/ Abandoned(s)
    \/ \E r \in Rules : CreateRule(r) \/ DeleteRule(r)
    \/ StatsChange
    \/ Tick

Spec == Init /\ [][Next]_vars

(* The sensors go on delivering values, a write ends (every driver has a   *)
(* time-out), and time passes.  Nothing is assumed of the operators.       *)
Fairness ==
    /\ \A s \in Sensors : WF_vars(Update(s)) /\ WF_vars(WriteEnds(s))
    /\ WF_vars(Tick)

LiveSpec == Spec /\ Fairness

-----------------------------------------------------------------------------
(* Properties.                                                             *)

(* Sensor s begins to write for rule r in this step.                       *)
Begins(s, r) == eval'[s].rule = r /\ eval[s].rule # r

(* Once the request that deletes a rule is answered, the rule begins no    *)
(* more writes, even in evaluations that were under way: the engine walks  *)
(* the dict itself (l.105), not a copy of it.                              *)
DeletedNeverFires ==
    [][\A s \in Sensors, r \in Rules : Begins(s, r) => r \in rules']_vars

(* A rule that says "not again for cooldown_s" is still written more than  *)
(* once in that time, but not without limit.  The cooldown is tested       *)
(* before the write is awaited and restarted after it (l.106, l.149), and  *)
(* an evaluation that waited long sets last_triggered back.  With n        *)
(* sensors, each of n old evaluations writes once; after the first of them *)
(* has set last_triggered back one new evaluation can write, after the     *)
(* second two, and so on.                                                  *)
CooldownBound ==
    LET n == Cardinality(Sensors) IN window.writes <= n + (n * (n + 1)) \div 2

(* A rule whose condition stays true fires again and again, whatever other *)
(* rules do and however their writes fail ("Rule evaluation error" is      *)
(* logged and the loop goes on, l.151-153), once nobody changes the rules, *)
(* no target formula fails (that ends the evaluation for all rules, l.145) *)
(* and no sensor is stopped during a write.                                *)
RuleFires ==
    \A R \in SUBSET Rules : \A r \in R :
        <>[](rules = R /\ r \in met) /\ <>[][\A s \in Sensors : ~Abandoned(s)]_vars
            => []<>(\E s \in Sensors : eval[s].rule = r)
=============================================================================
