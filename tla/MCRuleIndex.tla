----------------------------- MODULE MCRuleIndex -----------------------------
(* Rules over two devices, two keys and two types.                            *)
EXTENDS RuleIndex, TLC

Eq(f, v) == [op |-> "eq", field |-> f, value |-> v]
And(s)   == [op |-> "and", subs |-> s]
Or(s)    == [op |-> "or", subs |-> s]
Not(c)   == [op |-> "not", sub |-> c]
High     == [op |-> "test"]

MCPoints == [device_id : {"d1", "d2"}, key : {"k1", "k2"}, type : {"int", "bool"}, high : BOOLEAN]

One == And(<<Eq("device_id", "d1"), Eq("key", "k1"), Eq("type", "int")>>)

\* Positive conditions that name an unconstrained field or need one of their tests.
Positive == {High, One, And(<<Eq("device_id", "d2"), High>>),
             Or(<<Eq("device_id", "d1"), Eq("key", "k2")>>),
             Or(<<And(<<Eq("device_id", "d1"), Eq("key", "k1")>>),
                  And(<<Eq("device_id", "d1"), Eq("key", "k2")>>)>>)}

\* A condition that holds where none of the values it names occurs.
Negative == {Not(One), Or(<<One, High>>), And(<<Eq("device_id", "d2"), High>>)}

Symm == Permutations(Ids)
=============================================================================
