------------------------------- MODULE RuleIndex -------------------------------
(***************************************************************************)
(* The rule index (rules.Index) and the evaluation of conditions that it   *)
(* short-cuts: AddRule files a rule under the device, key and type that    *)
(* the equality tests of its condition name, or under "*"; Match collects  *)
(* the candidates of a point from the buckets.                             *)
(*                                                                         *)
(* A *Rule is an index into "objects", so that the index and the manager   *)
(* share a rule that EnableRule or DisableRule changes in place.  Every    *)
(* method holds idx.mu.  Slices that only need their members' order for    *)
(* sorting by priority are sets.                                           *)
(***************************************************************************)
EXTENDS Naturals, Sequences, FiniteSets, SequencesExt

CONSTANTS Ids,        \* rule ids
          Conditions, \* conditions a rule may have
          Points,     \* data points
          MaxObjects  \* bound: rule objects created

Fields == {"device_id", "key", "type"}

VARIABLES objects,   \* the rule objects: id, cond and enabled
          current,   \* the manager's rule for an id, 0 if none
          buckets,   \* deviceIndex, keyIndex and typeIndex
          allRules, priorityIndex

vars == <<objects, current, buckets, allRules, priorityIndex>>

-----------------------------------------------------------------------------
(* Conditions.  "test" is a comparison of the value, that is of a field the  *)
(* index knows nothing about.                                               *)
RECURSIVE Evaluate(_, _)
Evaluate(c, p) ==
    CASE c.op = "eq"   -> p[c.field] = c.value
      [] c.op = "test" -> p.high
      [] c.op = "and"  -> \A i \in DOMAIN c.subs : Evaluate(c.subs[i], p)
      [] c.op = "or"   -> \E i \in DOMAIN c.subs : Evaluate(c.subs[i], p)
      [] c.op = "not"  -> ~Evaluate(c.sub, p)

\* extractFieldsRecursive: the values, in order, that the equality tests of c name
\* for field f, wherever in c they stand.
RECURSIVE ExtractField(_, _)
ExtractField(c, f) ==
    CASE c.op = "eq"   -> IF c.field = f THEN <<c.value>> ELSE <<>>
      [] c.op = "test" -> <<>>
      [] c.op = "not"  -> ExtractField(c.sub, f)
      [] OTHER -> FlattenSeq([i \in DOMAIN c.subs |-> ExtractField(c.subs[i], f)])

-----------------------------------------------------------------------------
(* The index as a value: removing and adding a rule.                         *)
Keys(f) == {"*"} \cup {p[f] : p \in Points}
Empty   == [f \in Fields |-> [k \in Keys(f) |-> <<>>]]

IdOf(o) == objects[o].id

\* The first entry of the bucket that has the id is removed.
Without(bucket, id) ==
    LET hits == {i \in DOMAIN bucket : IdOf(bucket[i]) = id}
    IN IF hits = {} THEN bucket
       ELSE RemoveAt(bucket, CHOOSE i \in hits : \A j \in hits : i <= j)

BadRemoved(id) ==
    [f \in Fields |-> [k \in Keys(f) |->
        IF f = "type" THEN buckets[f][k] ELSE Without(buckets[f][k], id)]]

\* removeRuleFromIndex
Removed(id) == [f \in Fields |-> [k \in Keys(f) |-> Without(buckets[f][k], id)]]

WideFiled(index, o, cond) ==
    [f \in Fields |-> [k \in Keys(f) |->
        index[f][k] \o (IF k = "*" \/ k \in ToSet(ExtractField(cond, f)) THEN <<o>> ELSE <<>>)]]

\* analyzeAndIndex: one entry per equality test; a rule without any for the field is
\* filed under "*"; a test against "*" itself is not filed.
Filed(index, o, cond) ==
    [f \in Fields |->
        LET named == ExtractField(cond, f)
        IN [k \in Keys(f) |->
              index[f][k] \o
              (IF named = <<>> THEN IF k = "*" THEN <<o>> ELSE <<>>
               ELSE [i \in 1..Len(SelectSeq(named, LAMBDA v : v = k /\ k # "*")) |-> o])]]

Init ==
    /\ objects = <<>> /\ current = [i \in Ids |-> 0]
    /\ buckets = Empty /\ allRules = {} /\ priorityIndex = {}

BadAddRule(o, rule) ==
    LET others == {r \in allRules : IdOf(r) # rule.id}
    IN /\ allRules' = IF rule.enabled THEN allRules \cup {o} ELSE others
       /\ priorityIndex' = IF rule.enabled THEN allRules' ELSE priorityIndex
       /\ buckets' = IF rule.enabled THEN Filed(Removed(rule.id), o, rule.cond) ELSE Removed(rule.id)

\* AddRule(o), o having just become the object [id, cond, enabled]: a disabled rule
\* is removed and the priority index is left as it is.
AddRule(o, rule) ==
    LET others == {r \in allRules : IdOf(r) # rule.id}
    IN IF rule.enabled
       THEN /\ allRules' = others \cup {o} /\ priorityIndex' = others \cup {o}
            /\ buckets' = Filed(Removed(rule.id), o, rule.cond)
       ELSE /\ allRules' = others /\ buckets' = Removed(rule.id)
            /\ UNCHANGED priorityIndex

\* SaveRule and handleFileUpdate install a new object.
SaveRule(id, cond, enabled) ==
    LET rule == [id |-> id, cond |-> cond, enabled |-> enabled] IN
    /\ Len(objects) < MaxObjects
    /\ objects' = Append(objects, rule)
    /\ current' = [current EXCEPT ![id] = Len(objects) + 1]
    /\ AddRule(Len(objects) + 1, rule)

\* EnableRule and DisableRule change the manager's object.
SwitchRule(id, enabled) ==
    LET o == current[id]
        rule == [objects[o] EXCEPT !.enabled = enabled] IN
    /\ o # 0 /\ objects[o].enabled # enabled
    /\ objects' = [objects EXCEPT ![o] = rule]
    /\ AddRule(o, rule)
    /\ UNCHANGED current

\* DeleteRule: RemoveRule rebuilds the priority index.
RemoveRule(id) ==
    /\ current[id] # 0
    /\ current' = [current EXCEPT ![id] = 0]
    /\ allRules' = {r \in allRules : IdOf(r) # id}
    /\ priorityIndex' = allRules'
    /\ buckets' = Removed(id)
    /\ UNCHANGED objects

\* rebuildRuleIndex: Clear, then AddRule for every enabled rule of the manager.
Rebuild ==
    LET rules == {current[i] : i \in {j \in Ids : current[j] # 0 /\ objects[current[j]].enabled}}
        ordered == SetToSeq(rules)
    IN /\ allRules' = rules /\ priorityIndex' = rules
       /\ buckets' = FoldLeft(LAMBDA index, o : Filed(index, o, objects[o].cond), Empty, ordered)
       /\ UNCHANGED <<objects, current>>

Next ==
    \/ \E id \in Ids, cond \in Conditions, enabled \in BOOLEAN : SaveRule(id, cond, enabled)
    \/ \E id \in Ids, enabled \in BOOLEAN : SwitchRule(id, enabled)
    \/ \E id \in Ids : RemoveRule(id)
    \/ Rebuild
Spec == Init /\ [][Next]_vars

-----------------------------------------------------------------------------
(* Match.                                                                   *)

BadRead(p) ==
    buckets["device_id"][p.device_id] \o buckets["key"][p.key] \o buckets["type"][p.type]

\* The buckets of the point in the order Match reads them; for one id the last
\* object read stays in candidateRules.
Read(p) ==
    FlattenSeq(<<buckets["device_id"][p.device_id], buckets["device_id"]["*"],
                 buckets["key"][p.key], buckets["key"]["*"],
                 buckets["type"][p.type], buckets["type"]["*"]>>)

Candidates(p) ==
    LET seen == Read(p)
    IN {seen[i] : i \in {j \in DOMAIN seen :
                            \A k \in DOMAIN seen : IdOf(seen[k]) = IdOf(seen[j]) => k <= j}}

\* Without a candidate every rule of the priority index is returned.
Match(p) == IF Candidates(p) = {} THEN priorityIndex ELSE Candidates(p)

-----------------------------------------------------------------------------
TypeOK ==
    /\ \A o \in DOMAIN objects : /\ objects[o].id \in Ids /\ objects[o].cond \in Conditions
                                 /\ objects[o].enabled \in BOOLEAN
    /\ current \in [Ids -> 0..Len(objects)]
    /\ \A f \in Fields, k \in Keys("device_id") \cup Keys("key") \cup Keys("type") :
          k \in Keys(f) => \A i \in DOMAIN buckets[f][k] : buckets[f][k][i] \in DOMAIN objects
    /\ allRules \cup priorityIndex \subseteq DOMAIN objects
    /\ \A o, q \in allRules : IdOf(o) = IdOf(q) => o = q

Active(o) == current[IdOf(o)] = o /\ objects[o].enabled

\* The short cut loses nothing: an enabled rule whose condition holds for a point is
\* among the rules Match returns for it.
MatchComplete ==
    \A p \in Points, o \in DOMAIN objects :
        Active(o) /\ Evaluate(objects[o].cond, p) => o \in Match(p)

\* A condition that tests one field against one value twice.
Repeats(cond) == \E f \in Fields : ~IsInjective(ExtractField(cond, f))

\* Match picks no rule that was removed, disabled or replaced out of the buckets,
\* unless some version of the rule repeats an equality test: a removal takes one
\* entry per bucket and leaves the second.
NoGhosts ==
    \A p \in Points : \A o \in Candidates(p) :
        Active(o) \/ \E v \in DOMAIN objects : IdOf(v) = IdOf(o) /\ Repeats(objects[v].cond)

\* The index that AddRule, RemoveRule and switching leave behind files the rules as
\* one rebuilt from the manager's rules would, as long as no condition repeats a test.
IncrementalIsRebuilt ==
    (\A o \in DOMAIN objects : ~Repeats(objects[o].cond)) =>
        /\ allRules = {o \in DOMAIN objects : Active(o)}
        /\ \A f \in Fields : \A k \in Keys(f) :
              ToSet(buckets[f][k]) =
                  {o \in allRules : LET named == ExtractField(objects[o].cond, f)
                                    IN IF named = <<>> THEN k = "*"
                                       ELSE k # "*" /\ k \in ToSet(named)}
=============================================================================
