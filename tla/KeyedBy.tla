------------------------------- MODULE KeyedBy -------------------------------
(***************************************************************************)
(* Values of the configuration that depend on attributes ("by-<attribute>") *)
(* and how they are evaluated.                                              *)
(*   src/src/ciadmin/util/keyed_by.py                                       *)
(* A value is [lit |-> v], or [by |-> attribute, alts |-> [key -> value]];  *)
(* attributes are a function from names to strings.                         *)
(***************************************************************************)
EXTENDS FiniteSets, SequencesExt

CONSTANTS
  Matches,   \* the <<key, string>> pairs in which the key, as a regex, matches
  Depth      \* bound: how deep values nest

Object       == "<object>"           \* an attribute that is no string
Lit(v)       == [lit |-> v]
Raised       == [raised |-> TRUE]    \* the evaluation ended in an exception
NoValue      == [none |-> TRUE]      \* None: the key is absent, or is deleted
IsRaised(v)  == "raised" \in DOMAIN v
IsNone(v)    == "none" \in DOMAIN v

\* The keys of alternatives that stand for a string: the string itself, else
\* every pattern that matches it, else the default.
KeyMatch(alts, target) ==
  LET patterns == {k \in DOMAIN alts : <<k, target>> \in Matches}
      default  == {"default"} \cap DOMAIN alts
  IN CASE target \in DOMAIN alts -> {target}
       [] target \notin DOMAIN alts /\ patterns # {} -> patterns
       [] OTHER -> default

\* One turn of the loop. Alternatives that are only a default, no key or more
\* than one, and an attribute that cannot be looked up raise.
Turn(value, attributes) ==
  IF "by" \notin DOMAIN value THEN value
  ELSE LET keys == IF value.by \in DOMAIN attributes
                     THEN KeyMatch(value.alts, attributes[value.by])
                     ELSE {"default"} \cap DOMAIN value.alts
       IN IF \/ DOMAIN value.alts = {"default"} \/ Cardinality(keys) # 1
             \/ value.by \in DOMAIN attributes /\ attributes[value.by] = Object
            THEN Raised
            ELSE value.alts[CHOOSE k \in keys : TRUE]

EvaluateKeyedBy(value, attributes) ==
  FoldLeft(LAMBDA v, i : Turn(v, attributes), value, [i \in 1 .. Depth |-> i])
=============================================================================
