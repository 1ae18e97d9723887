------------------------------ MODULE AttrSpec ------------------------------
(***************************************************************************)
(* A pack's attribute specification for a node type and what the engine    *)
(* does with it: the validator (engraphy/core/attr_spec.py and its twin in *)
(* SQL, migration 0028) and the quarantine that keeps a write whose values *)
(* fail it.                                                                *)
(*                                                                         *)
(* A spec is [required, optional, requires, closed]; requires holds pairs  *)
(* <<when, key>>: key must be present when the attribute `when` has the    *)
(* pair's value.  Attributes are [value, dropped]: a value is "plain",     *)
(* "trigger" (the one the pairs name) or "bad" (it fails its type or enum);*)
(* dropped is the set of keys in the reserved `dropped` bucket.            *)
(***************************************************************************)
EXTENDS Integers, FiniteSets

Values == {"plain", "trigger", "bad"}

\* validate_attrs, phase by phase.
Known(spec) == spec.required \cup spec.optional

Absent(spec, attrs) ==
  {k \in spec.required : k \notin DOMAIN attrs.value /\ k \notin attrs.dropped}

Unmet(spec, attrs) ==
  {c[2] : c \in {c \in spec.requires : /\ c[1] \in DOMAIN attrs.value
                                       /\ attrs.value[c[1]] = "trigger"
                                       /\ c[2] \notin DOMAIN attrs.value}}

Unknown(spec, attrs) ==
  IF spec.closed THEN DOMAIN attrs.value \ Known(spec) ELSE {}

BadValues(spec, attrs) ==
  {k \in DOMAIN attrs.value \cap Known(spec) : attrs.value[k] = "bad"}

Valid(spec, attrs) ==
  /\ Absent(spec, attrs) = {} /\ Unmet(spec, attrs) = {}
  /\ Unknown(spec, attrs) = {} /\ BadValues(spec, attrs) = {}

\* Mutant: only the bad values of optional keys are moved.
SanitizeOptional(spec, attrs) ==
  LET bad == BadValues(spec, attrs) \cap spec.optional
  IN [value |-> [k \in DOMAIN attrs.value \ bad |-> attrs.value[k]],
      dropped |-> attrs.dropped \cup bad]

\* sanitize_attrs: a declared key whose value fails is moved to the bucket.
Sanitize(spec, attrs) ==
  LET bad == BadValues(spec, attrs)
  IN [value |-> [k \in DOMAIN attrs.value \ bad |-> attrs.value[k]],
      dropped |-> attrs.dropped \cup bad]

=============================================================================
