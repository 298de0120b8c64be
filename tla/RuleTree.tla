------------------------------ MODULE RuleTree ------------------------------
(***************************************************************************)
(* Rules: what rule_validator accepts from the editor and stores, and the  *)
(* two evaluators that must agree on it, condition_eval for one member and *)
(* the WHERE clause of rule_sql, in SQL's three-valued logic, for all.     *)
(* BirthdayRules saves rules and lets both judge a member by them.         *)
(*                                                                         *)
(* An Option is a set with at most one element.  The literal of a          *)
(* condition is the set of its values: one for a scalar operator.          *)
(***************************************************************************)
EXTENDS Birthday

CONSTANTS
    Lower,          \* Lower[s]: text s trimmed and lower-cased
    Fall,           \* the text "fall"
    Within,         \* <<s, a>>: text s is within a
    BadPatterns,    \* texts that are not a regex for Rust
    Matching,       \* <<s, a>>: regex s matches a, for Rust
    PgMatching,     \* <<s, a>>: regex s matches a, for Postgres
    PgBadPatterns,  \* texts that are not a regex for Postgres
    MaxInt4,        \* the largest value of a Postgres int
    MaxGroups,      \* MAX_GROUPS
    MaxConditions   \* MAX_CONDITIONS_PER_GROUP

ASSUME RuleTreeAssumption == MaxInt4 \in Nat /\ MaxGroups \in Nat /\ MaxConditions \in Nat

-----------------------------------------------------------------------------
(* models/condition.rs                                                     *)

BoolTargets == {"has_birthday_set", "has_birth_year", "is_birthday_today",
                "is_birthday_week", "is_birthday_month"}
IntTargets == {"days_until_birthday", "age_years", "age_turning_this_year",
               "birth_month", "birth_day", "birth_year"}
StringTargets == {"zodiac_sign", "chinese_zodiac", "birth_season", "birthstone",
                  "birth_weekday"}
Targets == BoolTargets \union IntTargets \union StringTargets

ListOps == {"in", "not_in"}

(* valid_for *)
ValidFor(target) ==
    IF target \in BoolTargets THEN {"eq"}
    ELSE IF target \in IntTargets
         THEN {"eq", "neq", "gt", "gte", "lt", "lte", "between"} \union ListOps
         ELSE {"eq", "neq", "contains", "regex"} \union ListOps

Unconfigured == [grant |-> FALSE, groups |-> <<>>]

-----------------------------------------------------------------------------
(* rule_validator.rs.  In a submitted condition `typed` says whether the
   values can be read as ones of the target's kind; no values is a blank.   *)

Fits(c, values) == c.operator \in ListOps \/ \A a, b \in values : a = b

(* string_choices *)
StringChoices(t) ==
    LET catalogue == CASE t = "zodiac_sign" -> ZODIAC_SIGNS
                       [] t = "chinese_zodiac" -> CHINESE_ZODIACS
                       [] t = "birth_season" -> SEASONS
                       [] t = "birthstone" -> BIRTHSTONES
                       [] t = "birth_weekday" -> WEEKDAYS
    IN  {catalogue[i] : i \in DOMAIN catalogue}

(* enum_value: the texts lower-cased, "fall" as "autumn", if target t can have
   all of them. *)
EnumValues(t, texts) ==
    LET stored == {IF t = "birth_season" /\ Lower[s] = Fall THEN SEASONS[4] ELSE Lower[s] :
                      s \in texts}
    IN  IF stored \subseteq StringChoices(t) THEN {stored} ELSE {}

(* Mistake: texts stored as typed. *)
NormalizeValueAsTyped(c, values) ==
    IF c.typed /\ values # {} /\ Fits(c, values) THEN {values} ELSE {}

(* normalize_value: the values as they are stored, or nothing if refused. *)
NormalizeValue(c, values) ==
    IF ~c.typed \/ values = {} \/ ~Fits(c, values) THEN {}
    ELSE IF c.target \notin StringTargets \/ c.operator = "regex" THEN {values}
    ELSE IF c.operator = "contains" THEN {{Lower[s] : s \in values}}
    ELSE EnumValues(c.target, values)

NormalizeEnd(c) == IF c.operator = "between" THEN NormalizeValue(c, c.end) ELSE {{}}

(* validate_condition *)
ValidateCondition(c) ==
    IF /\ c.target \in Targets
       /\ c.operator \in ValidFor(c.target)
       /\ c.operator = "regex" => c.values \intersect BadPatterns = {}
    THEN {[target |-> c.target, operator |-> c.operator, values |-> v, end |-> e] :
             v \in NormalizeValue(c, c.values), e \in NormalizeEnd(c)}
    ELSE {}

(* Mistake: a group without conditions let through. *)
AcceptedEmpty(group) ==
    /\ Len(group) <= MaxConditions
    /\ \A i \in DOMAIN group : ValidateCondition(group[i]) # {}

Accepted(group) ==
    /\ Len(group) \in 1..MaxConditions
    /\ \A i \in DOMAIN group : ValidateCondition(group[i]) # {}

Parsed(group) == [i \in DOMAIN group |-> CHOOSE c \in ValidateCondition(group[i]) : TRUE]

(* parse_rule_tree: an Option of the tree to store. *)
ParseRuleTree(body) ==
    IF body.grant THEN {[grant |-> TRUE, groups |-> <<>>]}
    ELSE IF /\ Len(body.groups) \in 1..MaxGroups
            /\ \A g \in DOMAIN body.groups : Accepted(body.groups[g])
         THEN {[grant |-> FALSE,
                groups |-> [g \in DOMAIN body.groups |-> Parsed(body.groups[g])]]}
         ELSE {}

-----------------------------------------------------------------------------
(* condition_eval.rs                                                       *)

BoolMatch(c, a) == c.operator = "eq" /\ a \in c.values

IntMatch(c, a) ==
    \/ c.operator \in {"eq", "in"} /\ a \in c.values
    \/ c.operator \in {"neq", "not_in"} /\ a \notin c.values
    \/ c.operator = "gt" /\ \E n \in c.values : a > n
    \/ c.operator = "gte" /\ \E n \in c.values : a >= n
    \/ c.operator = "lt" /\ \E n \in c.values : a < n
    \/ c.operator = "lte" /\ \E n \in c.values : a <= n
    \/ c.operator = "between" /\ \E lo \in c.values, hi \in c.end : lo <= a /\ a <= hi

StringMatch(c, a) ==
    \/ c.operator \in {"eq", "in"} /\ a \in c.values
    \/ c.operator \in {"neq", "not_in"} /\ a \notin c.values
    \/ c.operator = "contains" /\ \E s \in c.values : <<s, a>> \in Within
    \/ c.operator = "regex" /\ \E s \in c.values : <<s, a>> \in Matching

Matches(c, a) ==
    IF c.target \in BoolTargets THEN BoolMatch(c, a)
    ELSE IF c.target \in IntTargets THEN IntMatch(c, a)
    ELSE StringMatch(c, a)

(* Mistake: a missing number is not equal to any, either. *)
EvaluateSingleOpen(c, f) ==
    IF f[c.target] = {} THEN c.operator = "neq"
    ELSE \E a \in f[c.target] : Matches(c, a)

(* evaluate_single: a missing number matches nothing, a missing text "neq". *)
EvaluateSingle(c, f) ==
    IF f[c.target] = {} THEN c.target \in StringTargets /\ c.operator = "neq"
    ELSE \E a \in f[c.target] : Matches(c, a)

Evaluate(t, f) ==
    \/ t.grant
    \/ \E g \in DOMAIN t.groups :
          /\ t.groups[g] # <<>>
          /\ \A i \in DOMAIN t.groups[g] : EvaluateSingle(t.groups[g][i], f)

-----------------------------------------------------------------------------
(* rule_sql.rs: a predicate is "true", "false" or "null", or the statement
   fails with an "error".                                                  *)

Int4 == (-MaxInt4 - 1)..MaxInt4

Truth(p) == IF p THEN "true" ELSE "false"

(* A comparison with NULL is NULL. *)
Compare(fact, p) == IF fact = {} THEN "null" ELSE Truth(p)

InClause(c, fact) == Compare(fact, fact \subseteq c.values)

NotInClause(c, fact) == Truth(fact # {} /\ fact \intersect c.values = {})

(* Mistake: <> instead of IS DISTINCT FROM. *)
NeqClauseNull(c, fact) == Compare(fact, fact # c.values)

NeqClause(c, fact) ==
    IF c.target \in IntTargets THEN Compare(fact, fact # c.values) ELSE Truth(fact # c.values)

(* build_condition; an array of numbers is cast to int[].  Postgres plans the query
   for the values it is given: a number that does not fit or a pattern it cannot read
   fails the statement, whoever the members are. *)
BuildCondition(c, f) ==
    LET fact == f[c.target]
        op == c.operator
    IN  CASE op = "eq" -> Compare(fact, fact = c.values)
          [] op = "neq" -> NeqClause(c, fact)
          [] op = "gt" -> Compare(fact, \E a \in fact, n \in c.values : a > n)
          [] op = "gte" -> Compare(fact, \E a \in fact, n \in c.values : a >= n)
          [] op = "lt" -> Compare(fact, \E a \in fact, n \in c.values : a < n)
          [] op = "lte" -> Compare(fact, \E a \in fact, n \in c.values : a <= n)
          [] op = "between" ->
                Compare(fact, \E a \in fact, lo \in c.values, hi \in c.end : lo <= a /\ a <= hi)
          [] op = "contains" -> Compare(fact, \E a \in fact, s \in c.values : <<s, a>> \in Within)
          [] op = "regex" ->
                IF c.values \intersect PgBadPatterns # {} THEN "error"
                ELSE Compare(fact, \E a \in fact, s \in c.values : <<s, a>> \in PgMatching)
          [] op \in ListOps ->
                IF c.target \in IntTargets /\ ~(c.values \subseteq Int4) THEN "error"
                ELSE IF op = "in" THEN InClause(c, fact)
                ELSE NotInClause(c, fact)

And(S) == IF "error" \in S THEN "error" ELSE IF "false" \in S THEN "false"
          ELSE IF "null" \in S THEN "null" ELSE "true"
Or(S) == IF "error" \in S THEN "error" ELSE IF "true" \in S THEN "true"
         ELSE IF "null" \in S THEN "null" ELSE "false"

(* build_rule_where *)
RuleWhere(t, f) ==
    IF t.grant THEN "true"
    ELSE IF t.groups = <<>> THEN "false"
    ELSE Or({ IF t.groups[g] = <<>> THEN "false"
              ELSE And({BuildCondition(t.groups[g][i], f) : i \in DOMAIN t.groups[g]}) :
              g \in DOMAIN t.groups })
=============================================================================
