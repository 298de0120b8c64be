------------------------ MODULE BirthdayRulesProofs ------------------------
(***************************************************************************)
(* Proofs about BirthdayRules, for every birthday, date and rule: first    *)
(* that the two evaluators agree on a condition and on a tree, then what   *)
(* the facts of a day are, then the invariant.                             *)
(***************************************************************************)
EXTENDS BirthdayRules, BirthdayProofs

(* The operators that compare a whole text. *)
Exact == {"eq", "neq", "in", "not_in"}

(* What the validator makes of a condition. *)
Valid(c) ==
    /\ c.target \in Targets
    /\ c.operator \in ValidFor(c.target)
    /\ c.values # {}
    /\ Fits(c, c.values)
    /\ c.operator = "between" => c.end # {}
    /\ c.target \in StringTargets /\ c.operator \in Exact => c.values \subseteq StringChoices(c.target)

ValidTree(t) ==
    /\ t.grant \in BOOLEAN
    /\ t.grant => t.groups = <<>>
    /\ \A g \in DOMAIN t.groups : \A i \in DOMAIN t.groups[g] : Valid(t.groups[g][i])

(* Every fact is an Option. *)
Options(f) == \A t \in Targets : \A x, y \in f[t] : x = y

-----------------------------------------------------------------------------
(* The evaluators agree on a condition. *)
LEMMA ScalarIsSingle ==
  ASSUME NEW c, Valid(c), c.operator \notin ListOps
  PROVE  \E v : c.values = {v}
<1>1. \A x, y \in c.values : x = y  BY DEF Valid, Fits
<1> QED  BY <1>1 DEF Valid

(* A comparison of a member of `fact` is as true as its clause. *)
LEMMA CompareIsTrue ==
  ASSUME NEW fact, NEW p \in BOOLEAN, p => fact # {}
  PROVE  /\ Compare(fact, p) \in {"true", "false", "null"}
         /\ Compare(fact, p) = "true" <=> p
  BY DEF Compare, Truth

LEMMA ConditionsAgree ==
  ASSUME NEW c, Valid(c), NEW f, Options(f)
  PROVE  IF PgRefuses(c) THEN BuildCondition(c, f) = "error"
         ELSE /\ BuildCondition(c, f) \in {"true", "false", "null"}
              /\ SameRegex(c, f) => (BuildCondition(c, f) = "true" <=> EvaluateSingle(c, f))
<1> DEFINE fact == f[c.target]  op == c.operator
<1>1. c.target \in Targets /\ op \in ValidFor(c.target)  BY DEF Valid
<1>2. fact = {} \/ \E a : fact = {a}
  BY <1>1 DEF Options
<1>3. CASE op \in ListOps
  <2>1. c.target \notin BoolTargets  BY <1>1, <1>3 DEF ValidFor, ListOps
  <2>2. CASE PgRefuses(c)
    BY <1>3, <2>2 DEF BuildCondition, PgRefuses, ListOps
  <2>3. CASE ~PgRefuses(c)
    <3>1. BuildCondition(c, f) = IF op = "in" THEN InClause(c, fact) ELSE NotInClause(c, fact)
      BY <1>3, <2>3 DEF BuildCondition, PgRefuses, ListOps
    <3>2. EvaluateSingle(c, f) <=> fact # {} /\ \E a \in fact : Matches(c, a)
      BY <1>3 DEF EvaluateSingle, ListOps
    <3>3. ASSUME NEW a
          PROVE  Matches(c, a) <=> (IF op = "in" THEN a \in c.values ELSE a \notin c.values)
      BY <1>3, <2>1 DEF Matches, IntMatch, StringMatch, ListOps
    <3>4. CASE fact = {}
      <4>1. ~EvaluateSingle(c, f)  BY <3>2, <3>4
      <4>2. InClause(c, fact) = "null" /\ NotInClause(c, fact) = "false"
        BY <3>4 DEF InClause, NotInClause, Compare, Truth
      <4> QED  BY <2>3, <3>1, <4>1, <4>2
    <3>5. CASE \E a : fact = {a}
      <4>1. PICK a : fact = {a}  BY <3>5
      <4>2. EvaluateSingle(c, f) <=> (IF op = "in" THEN a \in c.values ELSE a \notin c.values)
        BY <3>2, <3>3, <4>1
      <4>3. /\ InClause(c, fact) = Truth(a \in c.values)
            /\ NotInClause(c, fact) = Truth(a \notin c.values)
        <5>1. fact # {} /\ (fact \subseteq c.values <=> a \in c.values)
              /\ (fact \intersect c.values = {} <=> a \notin c.values)
          BY <4>1
        <5> QED  BY <5>1 DEF InClause, NotInClause, Compare, Truth
      <4> QED  BY <2>3, <3>1, <4>2, <4>3 DEF Truth
    <3> QED  BY <1>2, <2>3, <3>4, <3>5
  <2> QED  BY <2>2, <2>3
<1>4. CASE op \notin ListOps
  <2>1. PICK v : c.values = {v}  BY <1>4, ScalarIsSingle
  <2>2. op # "regex" => ~PgRefuses(c)  BY <1>4 DEF PgRefuses
  <2>3. CASE op = "eq"
    <3>1. BuildCondition(c, f) = Compare(fact, fact = {v})
      <4>1. BuildCondition(c, f) = Compare(fact, fact = c.values)  BY <2>3 DEF BuildCondition, ListOps
      <4> QED  BY <2>1, <4>1
    <3>2. ASSUME NEW a PROVE Matches(c, a) <=> a = v
      BY <1>1, <2>1, <2>3 DEF Matches, BoolMatch, IntMatch, StringMatch
    <3>3. EvaluateSingle(c, f) <=> \E a \in fact : a = v
      BY <2>3, <3>2 DEF EvaluateSingle
    <3> QED  BY <1>2, <2>2, <2>3, <3>1, <3>3 DEF Compare, Truth
  <2>4. CASE op = "neq"
    <3>1. BuildCondition(c, f) = NeqClause(c, fact)
      BY <2>4 DEF BuildCondition, ListOps
    <3>2. c.target \in IntTargets \/ c.target \in StringTargets
      BY <1>1, <2>4 DEF ValidFor, Targets
    <3>3. ASSUME NEW a PROVE Matches(c, a) <=> a # v
      BY <1>1, <2>1, <2>4, <3>2 DEF Matches, IntMatch, StringMatch, ValidFor
    <3>4. ~(c.target \in IntTargets /\ c.target \in StringTargets)
      BY DEF IntTargets, StringTargets
    <3>5. CASE fact = {}
      <4>1. EvaluateSingle(c, f) <=> c.target \in StringTargets  BY <2>4, <3>5 DEF EvaluateSingle
      <4> QED  BY <2>1, <2>2, <2>4, <3>1, <3>2, <3>4, <3>5, <4>1 DEF NeqClause, Compare, Truth
    <3>6. CASE \E a : fact = {a}
      <4>1. PICK a : fact = {a}  BY <3>6
      <4>2. EvaluateSingle(c, f) <=> a # v  BY <3>3, <4>1 DEF EvaluateSingle
      <4> QED  BY <2>1, <2>2, <2>4, <3>1, <3>2, <4>1, <4>2 DEF NeqClause, Compare, Truth
    <3> QED  BY <1>2, <3>5, <3>6
  <2>5. CASE op \in {"gt", "gte", "lt", "lte", "between"}
    <3>1. c.target \in IntTargets /\ c.target \notin BoolTargets
      BY <1>1, <2>5 DEF ValidFor, IntTargets, BoolTargets, ListOps
    <3>2. EvaluateSingle(c, f) <=> \E a \in fact : IntMatch(c, a)
      <4>1. c.target \notin StringTargets  BY <3>1 DEF IntTargets, StringTargets
      <4> QED  BY <3>1, <4>1 DEF EvaluateSingle, Matches
    <3>3. CASE op = "gt"
      <4>1. BuildCondition(c, f) = Compare(fact, \E a \in fact, n \in c.values : a > n)
        BY <3>3 DEF BuildCondition, ListOps
      <4>2. EvaluateSingle(c, f) <=> \E a \in fact, n \in c.values : a > n
        BY <3>2, <3>3 DEF IntMatch
      <4> QED  BY <2>2, <3>3, <4>1, <4>2, CompareIsTrue
    <3>4. CASE op = "gte"
      <4>1. BuildCondition(c, f) = Compare(fact, \E a \in fact, n \in c.values : a >= n)
        BY <3>4 DEF BuildCondition, ListOps
      <4>2. EvaluateSingle(c, f) <=> \E a \in fact, n \in c.values : a >= n
        BY <3>2, <3>4 DEF IntMatch
      <4> QED  BY <2>2, <3>4, <4>1, <4>2, CompareIsTrue
    <3>5. CASE op = "lt"
      <4>1. BuildCondition(c, f) = Compare(fact, \E a \in fact, n \in c.values : a < n)
        BY <3>5 DEF BuildCondition, ListOps
      <4>2. EvaluateSingle(c, f) <=> \E a \in fact, n \in c.values : a < n
        BY <3>2, <3>5 DEF IntMatch
      <4> QED  BY <2>2, <3>5, <4>1, <4>2, CompareIsTrue
    <3>6. CASE op = "lte"
      <4>1. BuildCondition(c, f) = Compare(fact, \E a \in fact, n \in c.values : a <= n)
        BY <3>6 DEF BuildCondition, ListOps
      <4>2. EvaluateSingle(c, f) <=> \E a \in fact, n \in c.values : a <= n
        BY <3>2, <3>6 DEF IntMatch
      <4> QED  BY <2>2, <3>6, <4>1, <4>2, CompareIsTrue
    <3>7. CASE op = "between"
      <4>1. BuildCondition(c, f) = Compare(fact, \E a \in fact, lo \in c.values, hi \in c.end : lo <= a /\ a <= hi)
        BY <3>7 DEF BuildCondition, ListOps
      <4>2. EvaluateSingle(c, f) <=> \E a \in fact, lo \in c.values, hi \in c.end : lo <= a /\ a <= hi
        BY <3>2, <3>7 DEF IntMatch
      <4> QED  BY <2>2, <3>7, <4>1, <4>2, CompareIsTrue
    <3> QED  BY <2>5, <3>3, <3>4, <3>5, <3>6, <3>7
  <2>6. CASE op \in {"contains", "regex"}
    <3>1. c.target \in StringTargets /\ c.target \notin BoolTargets /\ c.target \notin IntTargets
      BY <1>1, <2>6 DEF ValidFor, Targets, IntTargets, BoolTargets, StringTargets, ListOps
    <3>2. EvaluateSingle(c, f) <=> \E a \in fact : StringMatch(c, a)
      BY <2>6, <3>1 DEF EvaluateSingle, Matches
    <3>3. CASE op = "contains"
      <4>1. BuildCondition(c, f) = Compare(fact, \E a \in fact, s \in c.values : <<s, a>> \in Within)
        BY <3>3 DEF BuildCondition, ListOps
      <4>2. EvaluateSingle(c, f) <=> \E a \in fact, s \in c.values : <<s, a>> \in Within
        BY <3>2, <3>3 DEF StringMatch
      <4> QED  BY <2>2, <3>3, <4>1, <4>2, CompareIsTrue
    <3>4. CASE op = "regex"
      <4>1. EvaluateSingle(c, f) <=> \E a \in fact, s \in c.values : <<s, a>> \in Matching
        BY <3>2, <3>4 DEF StringMatch
      <4>2. SameRegex(c, f) =>
               (EvaluateSingle(c, f) <=> \E a \in fact, s \in c.values : <<s, a>> \in PgMatching)
        BY <3>4, <4>1 DEF SameRegex
      <4>3. PgRefuses(c) <=> c.values \intersect PgBadPatterns # {}
        BY <3>1, <3>4 DEF PgRefuses, ListOps
      <4>4. CASE PgRefuses(c)
        BY <3>4, <4>3, <4>4 DEF BuildCondition, ListOps
      <4>5. CASE ~PgRefuses(c)
        <5>1. BuildCondition(c, f) = Compare(fact, \E a \in fact, s \in c.values : <<s, a>> \in PgMatching)
          BY <3>4, <4>3, <4>5 DEF BuildCondition, ListOps
        <5> QED  BY <4>2, <4>5, <5>1, CompareIsTrue
      <4> QED  BY <4>4, <4>5
    <3> QED  BY <2>6, <3>3, <3>4
  <2> QED  BY <1>1, <1>4, <2>3, <2>4, <2>5, <2>6 DEF ValidFor, ListOps
<1> QED  BY <1>3, <1>4

(* ... and on a tree. *)
LEMMA TreesAgree ==
  ASSUME NEW t, ValidTree(t), NEW f, Options(f)
  PROVE  IF \E g \in DOMAIN t.groups : \E i \in DOMAIN t.groups[g] : PgRefuses(t.groups[g][i])
         THEN RuleWhere(t, f) = "error"
         ELSE /\ RuleWhere(t, f) # "error"
              /\ (\A g \in DOMAIN t.groups : \A i \in DOMAIN t.groups[g] : SameRegex(t.groups[g][i], f))
                    => (RuleWhere(t, f) = "true" <=> Evaluate(t, f))
<1> DEFINE built(g) == {BuildCondition(t.groups[g][i], f) : i \in DOMAIN t.groups[g]}
           group(g) == IF t.groups[g] = <<>> THEN "false" ELSE And(built(g))
<1>1. ASSUME NEW g \in DOMAIN t.groups, NEW i \in DOMAIN t.groups[g]
      PROVE  IF PgRefuses(t.groups[g][i]) THEN BuildCondition(t.groups[g][i], f) = "error"
             ELSE /\ BuildCondition(t.groups[g][i], f) \in {"true", "false", "null"}
                  /\ SameRegex(t.groups[g][i], f) =>
                        (BuildCondition(t.groups[g][i], f) = "true" <=> EvaluateSingle(t.groups[g][i], f))
  BY <1>1, ConditionsAgree DEF ValidTree
<1>2. RuleWhere(t, f) = IF t.grant THEN "true" ELSE IF t.groups = <<>> THEN "false"
                        ELSE Or({group(g) : g \in DOMAIN t.groups})
  BY DEF RuleWhere
<1>3. CASE \E g \in DOMAIN t.groups : \E i \in DOMAIN t.groups[g] : PgRefuses(t.groups[g][i])
  <2>1. PICK g \in DOMAIN t.groups : \E i \in DOMAIN t.groups[g] : PgRefuses(t.groups[g][i])  BY <1>3
  <2>2. t.groups # <<>> /\ t.groups[g] # <<>> /\ ~t.grant  BY <2>1 DEF ValidTree
  <2>3. "error" \in built(g)  BY <1>1, <2>1
  <2>4. group(g) = "error"  BY <2>2, <2>3 DEF And
  <2>5. Or({group(h) : h \in DOMAIN t.groups}) = "error"  BY <2>1, <2>4 DEF Or
  <2> QED  BY <1>2, <1>3, <2>2, <2>5
<1>4. CASE ~\E g \in DOMAIN t.groups : \E i \in DOMAIN t.groups[g] : PgRefuses(t.groups[g][i])
  <2>1. ASSUME NEW g \in DOMAIN t.groups
        PROVE  group(g) \in {"true", "false", "null"} /\ (group(g) = "true" => And(built(g)) = "true")
    <3>1. \A r \in built(g) : r \in {"true", "false", "null"}  BY <1>1, <1>4
    <3>2. And(built(g)) \in {"true", "false", "null"}  BY <3>1 DEF And
    <3> QED  BY <3>2
  <2>2. ASSUME NEW g \in DOMAIN t.groups, \A i \in DOMAIN t.groups[g] : SameRegex(t.groups[g][i], f)
        PROVE  group(g) = "true" <=>
                  t.groups[g] # <<>> /\ \A i \in DOMAIN t.groups[g] : EvaluateSingle(t.groups[g][i], f)
    <3>1. \A r \in built(g) : r \in {"true", "false", "null"}  BY <1>1, <1>4
    <3>2. (\A r \in built(g) : r = "true") <=>
             \A i \in DOMAIN t.groups[g] : EvaluateSingle(t.groups[g][i], f)
      BY <1>1, <1>4, <2>2
    <3>3. And(built(g)) = "true" <=> \A r \in built(g) : r = "true"  BY <3>1 DEF And
    <3> QED  BY <3>2, <3>3
  <2>3. t.groups = <<>> => DOMAIN t.groups = {}  OBVIOUS
  <2>4. LET or == Or({group(g) : g \in DOMAIN t.groups})
        IN  or # "error" /\ (or = "true" <=> \E g \in DOMAIN t.groups : group(g) = "true")
    BY <2>1 DEF Or
  <2>5. RuleWhere(t, f) # "error"  BY <1>2, <2>4
  <2>6. ASSUME \A g \in DOMAIN t.groups : \A i \in DOMAIN t.groups[g] : SameRegex(t.groups[g][i], f)
        PROVE  RuleWhere(t, f) = "true" <=> Evaluate(t, f)
    <3>1. Evaluate(t, f) <=> t.grant \/ \E g \in DOMAIN t.groups : group(g) = "true"
      BY <2>2, <2>6 DEF Evaluate
    <3> HIDE DEF group, built
    <3>2. CASE t.grant  BY <1>2, <3>1, <3>2
    <3>3. CASE ~t.grant /\ t.groups = <<>>  BY <1>2, <2>3, <3>1, <3>3
    <3>4. CASE ~t.grant /\ t.groups # <<>>  BY <1>2, <2>4, <3>1, <3>4
    <3> QED  BY <3>2, <3>3, <3>4
  <2> QED  BY <1>4, <2>5, <2>6
<1> QED  BY <1>3, <1>4

-----------------------------------------------------------------------------
(* What the validator stores is a valid tree, and one that is configured. *)
LEMMA NormalizedValues ==
  ASSUME NEW c, NEW v \in NormalizeValue(c, c.values)
  PROVE  /\ v # {} /\ Fits(c, v)
         /\ c.target \in StringTargets /\ c.operator \in Exact => v \subseteq StringChoices(c.target)
<1>1. c.values # {} /\ Fits(c, c.values)  BY DEF NormalizeValue
<1>2. \/ v = c.values
      \/ v = {Lower[s] : s \in c.values}
      \/ v \in EnumValues(c.target, c.values)
  BY DEF NormalizeValue
<1>0. c.target \in StringTargets /\ c.operator \in Exact => v \in EnumValues(c.target, c.values)
  BY DEF NormalizeValue, Exact
<1>6. v \in EnumValues(c.target, c.values) => v \subseteq StringChoices(c.target)
  BY DEF EnumValues
<1>3. CASE v = c.values  BY <1>0, <1>1, <1>3, <1>6
<1>4. CASE v = {Lower[s] : s \in c.values}  BY <1>0, <1>1, <1>4, <1>6 DEF Fits
<1>5. CASE v \in EnumValues(c.target, c.values)
  <2>1. v = {IF c.target = "birth_season" /\ Lower[s] = Fall THEN SEASONS[4] ELSE Lower[s] :
                s \in c.values}
    BY <1>5 DEF EnumValues
  <2> QED  BY <1>1, <1>5, <1>6, <2>1 DEF Fits
<1> QED  BY <1>2, <1>3, <1>4, <1>5

LEMMA NormalizedEnd ==
  ASSUME NEW c, NEW e \in NormalizeEnd(c), c.operator = "between"
  PROVE  e # {}
<1>1. e \in NormalizeValue(c, c.end)  BY DEF NormalizeEnd
<1>2. c.end # {}  BY <1>1 DEF NormalizeValue
<1>3. \/ e = c.end
      \/ e = {Lower[s] : s \in c.end}
      \/ e \in EnumValues(c.target, c.end)
  BY <1>1 DEF NormalizeValue
<1>4. CASE e \in EnumValues(c.target, c.end)
  <2>1. e = {IF c.target = "birth_season" /\ Lower[s] = Fall THEN SEASONS[4] ELSE Lower[s] :
                s \in c.end}
    BY <1>4 DEF EnumValues
  <2> QED  BY <1>2, <2>1
<1> QED  BY <1>2, <1>3, <1>4

LEMMA ValidatedIsValid ==
  ASSUME NEW c, NEW d \in ValidateCondition(c)
  PROVE  Valid(d)
<1>1. /\ c.target \in Targets /\ c.operator \in ValidFor(c.target)
      /\ \E v \in NormalizeValue(c, c.values), e \in NormalizeEnd(c) :
            d = [target |-> c.target, operator |-> c.operator, values |-> v, end |-> e]
  BY DEF ValidateCondition
<1>2. PICK v \in NormalizeValue(c, c.values), e \in NormalizeEnd(c) :
            d = [target |-> c.target, operator |-> c.operator, values |-> v, end |-> e]
  BY <1>1
<1>3. d.target = c.target /\ d.operator = c.operator /\ d.values = v /\ d.end = e  BY <1>2
<1>4. /\ v # {} /\ Fits(c, v)
      /\ c.target \in StringTargets /\ c.operator \in Exact => v \subseteq StringChoices(c.target)
  BY <1>2, NormalizedValues
<1>5. c.operator = "between" => e # {}  BY <1>2, NormalizedEnd
<1> QED  BY <1>1, <1>3, <1>4, <1>5 DEF Valid, Fits

LEMMA ParsedIsValid ==
  ASSUME NEW body \in Bodies, NEW t \in ParseRuleTree(body)
  PROVE  /\ ValidTree(t)
         /\ t # Unconfigured
         /\ \A g \in DOMAIN t.groups : t.groups[g] # <<>>
<1>1. CASE body.grant
  <2>1. t = [grant |-> TRUE, groups |-> <<>>]  BY <1>1 DEF ParseRuleTree
  <2>2. t.grant = TRUE /\ t.groups = <<>> /\ DOMAIN t.groups = {}  BY <2>1
  <2>3. Unconfigured.grant = FALSE  BY DEF Unconfigured
  <2> QED  BY <2>2, <2>3 DEF ValidTree
<1>2. CASE ~body.grant
  <2>1. /\ Len(body.groups) \in 1..MaxGroups
        /\ \A g \in DOMAIN body.groups : Accepted(body.groups[g])
        /\ t = [grant |-> FALSE, groups |-> [g \in DOMAIN body.groups |-> Parsed(body.groups[g])]]
    BY <1>2 DEF ParseRuleTree
  <2>2. /\ t.grant = FALSE /\ DOMAIN t.groups = DOMAIN body.groups
        /\ \A g \in DOMAIN body.groups : t.groups[g] = Parsed(body.groups[g])
    BY <2>1
  <2>3. 1 \in DOMAIN body.groups
    BY <2>1, BodiesAssumption, RuleTreeAssumption
  <2>4. t.groups # <<>>  BY <2>2, <2>3
  <2>5. ASSUME NEW g \in DOMAIN t.groups
        PROVE  /\ t.groups[g] # <<>>
               /\ \A i \in DOMAIN t.groups[g] : Valid(t.groups[g][i])
    <3> DEFINE group == body.groups[g]
    <3>1. /\ Len(group) \in 1..MaxConditions /\ DOMAIN group = 1..Len(group)
          /\ \A i \in DOMAIN group : ValidateCondition(group[i]) # {}
      BY <2>1, <2>2, BodiesAssumption DEF Accepted
    <3>2. t.groups[g] = [i \in DOMAIN group |-> CHOOSE c \in ValidateCondition(group[i]) : TRUE]
      BY <2>2 DEF Parsed
    <3>3. 1 \in DOMAIN group  BY <3>1, RuleTreeAssumption
    <3>4. t.groups[g] # <<>>  BY <3>2, <3>3
    <3>5. ASSUME NEW i \in DOMAIN t.groups[g] PROVE Valid(t.groups[g][i])
      <4>1. i \in DOMAIN group /\ t.groups[g][i] \in ValidateCondition(group[i])  BY <3>1, <3>2
      <4> QED  BY <4>1, ValidatedIsValid
    <3> QED  BY <3>4, <3>5
  <2>6. t # Unconfigured  BY <2>4 DEF Unconfigured
  <2> QED  BY <2>2, <2>5, <2>6 DEF ValidTree
<1> QED  BY <1>1, <1>2

-----------------------------------------------------------------------------
(* What both sides tell of a birthday on a day. *)
LEMMA FactsOfTheDay ==
  ASSUME NEW b, IsBirthday(b), NEW t, IsDate(t)
  PROVE  LET here == Celebration(b, t.y)
             there == Celebration(b, t.y + 1)
             now == DayNumber(t)
             until == (IF here >= now THEN here ELSE there) - now
             f == ComputeFacts(b, t)
         IN  /\ here \in Int /\ there \in Int /\ now \in Int
             /\ here > YearStart(t.y) /\ here <= YearStart(t.y + 1)
             /\ now > YearStart(t.y) /\ now <= YearStart(t.y + 1) /\ there > YearStart(t.y + 1)
             /\ YearStart(t.y) \in Int /\ YearStart(t.y + 1) \in Int
             /\ there >= here + 365 /\ there <= here + 366
             /\ until >= 0 /\ until <= 365 /\ until \in Int
             /\ f.days_until_birthday = {until}
             /\ f.is_birthday_today = Bool(until = 0)
             /\ f.age_years = {t.y - y - (IF here > now THEN 1 ELSE 0) : y \in b.year}
             /\ f.age_turning_this_year =
                   {(IF here >= now THEN t.y ELSE t.y + 1) - y : y \in b.year}
<1> DEFINE here == Celebration(b, t.y)
           there == Celebration(b, t.y + 1)
           now == DayNumber(t)
           until == (IF here >= now THEN here ELSE there) - now
           next == NextBday(b, t)
<1>1. t.y \in Int /\ t.y + 1 \in Int  BY DateParts
<1>2. /\ here \in YearStart(t.y) + 1 .. YearStart(t.y + 1)
      /\ there \in here + 365 .. here + 366
      /\ here \in Int /\ YearStart(t.y) \in Int /\ YearStart(t.y + 1) \in Int
  BY <1>1, CelebrationIs
<1>3. there \in YearStart(t.y + 1) + 1 .. YearStart((t.y + 1) + 1) /\ there \in Int
      /\ YearStart((t.y + 1) + 1) \in Int
  BY <1>1, CelebrationIs
<1>4. now \in YearStart(t.y) + 1 .. YearStart(t.y + 1)  BY InYear
<1> HIDE DEF here, there, now
<1>5. /\ here \in Int /\ there \in Int /\ now \in Int
      /\ here > YearStart(t.y) /\ here <= YearStart(t.y + 1)
      /\ now > YearStart(t.y) /\ now <= YearStart(t.y + 1) /\ there > YearStart(t.y + 1)
      /\ there >= here + 365 /\ there <= here + 366
  BY <1>2, <1>3, <1>4
<1>6. until >= 0 /\ until <= 365 /\ until \in Int
  <2>1. CASE here >= now
    <3>1. until = here - now  BY <2>1
    <3>2. YearStart(t.y + 1) <= YearStart(t.y) + 366  BY <1>1, YearLength, LeapIs
    <3> QED  BY <1>2, <1>5, <2>1, <3>1, <3>2
  <2>2. CASE ~(here >= now)
    <3>1. until = there - now  BY <2>2
    <3> QED  BY <1>2, <1>5, <2>2, <3>1
  <2> QED  BY <2>1, <2>2
<1>7. /\ DayNumber(EffThis(b, t)) = here
      /\ DayNumber(next) = (IF here >= now THEN here ELSE there)
      /\ next.y = (IF here >= now THEN t.y ELSE t.y + 1)
  <2>1. DayNumber(EffThis(b, t)) = here  BY DEF EffThis, Celebration, here
  <2>2. /\ EffectiveBday(t.y, b.month, b.day).y = t.y
        /\ EffectiveBday(t.y + 1, b.month, b.day).y = t.y + 1
    <3>1. /\ EffectiveBday(t.y, b.month, b.day) = Date(t.y, b.month, EffDay(b, t.y))
          /\ EffectiveBday(t.y + 1, b.month, b.day) = Date(t.y + 1, b.month, EffDay(b, t.y + 1))
      BY <1>1, EffectiveIsDate
    <3> QED  BY <3>1 DEF Date
  <2>3. CASE here >= now
    <3>1. next = EffectiveBday(t.y, b.month, b.day)
      BY <2>1, <2>3 DEF NextBday, EffThis, now
    <3> QED  BY <2>1, <2>2, <2>3, <3>1 DEF EffThis
  <2>4. CASE ~(here >= now)
    <3>1. next = EffectiveBday(t.y + 1, b.month, b.day)
      BY <2>1, <2>4 DEF NextBday, EffThis, now
    <3> QED  BY <2>1, <2>2, <2>4, <3>1 DEF Celebration, there
  <2> QED  BY <2>3, <2>4
<1> HIDE DEF next
<1>8. /\ ComputeFacts(b, t).days_until_birthday = {DayNumber(next) - now}
      /\ ComputeFacts(b, t).is_birthday_today = Bool(DayNumber(next) - now = 0)
      /\ ComputeFacts(b, t).age_years = {t.y - y - (IF YetToAge(b, t) THEN 1 ELSE 0) : y \in b.year}
      /\ ComputeFacts(b, t).age_turning_this_year = {next.y - y : y \in b.year}
  BY DEF ComputeFacts, next, now
<1>9. YetToAge(b, t) <=> here > now  BY <1>7 DEF YetToAge, now
<1>10. /\ ComputeFacts(b, t).days_until_birthday = {until}
       /\ ComputeFacts(b, t).is_birthday_today = Bool(until = 0)
  BY <1>7, <1>8
<1>11. ComputeFacts(b, t).age_years = {t.y - y - (IF here > now THEN 1 ELSE 0) : y \in b.year}
  BY <1>8, <1>9
<1>12. ComputeFacts(b, t).age_turning_this_year =
          {(IF here >= now THEN t.y ELSE t.y + 1) - y : y \in b.year}
  BY <1>7, <1>8
<1> HIDE DEF until
<1>13. /\ here \in Int /\ there \in Int /\ now \in Int
       /\ here > YearStart(t.y) /\ here <= YearStart(t.y + 1)
       /\ now > YearStart(t.y) /\ now <= YearStart(t.y + 1) /\ there > YearStart(t.y + 1)
       /\ YearStart(t.y) \in Int /\ YearStart(t.y + 1) \in Int
       /\ there >= here + 365 /\ there <= here + 366
       /\ until >= 0 /\ until <= 365 /\ until \in Int
  BY <1>2, <1>5, <1>6
<1> QED  BY <1>10, <1>11, <1>12, <1>13 DEF here, there, now, until

-----------------------------------------------------------------------------
(* The stored columns are what compute_derived makes of the birthday. *)
Stored(r) ==
    LET derived == ComputeDerived(r)
    IN  /\ r.zodiac = derived.zodiac /\ r.chinese_zodiac = derived.chinese_zodiac
        /\ r.season = derived.season /\ r.birthstone = derived.birthstone
        /\ r.birth_weekday = derived.birth_weekday

(* The inductive invariant: today is a date, the row a birthday with its derived
   facts, and the tree one that the validator let through, or the initial one. *)
RulesInv ==
    /\ IsDate(today)
    /\ IsBirthday(row)
    /\ Stored(row)
    /\ outcome \in {"none", "saved", "refused"}
    /\ ValidTree(tree)
    /\ outcome # "saved" => tree = Unconfigured
    /\ outcome = "saved" => tree # Unconfigured /\ \A g \in DOMAIN tree.groups : tree.groups[g] # <<>>

LEMMA SameFacts ==
  ASSUME NEW r, IsBirthday(r), Stored(r), NEW t, IsDate(t)
  PROVE  ComputeFacts(r, t) = TargetExpr(r, t)
<1> DEFINE here == Celebration(r, t.y)
           there == Celebration(r, t.y + 1)
           now == DayNumber(t)
           until == (IF here >= now THEN here ELSE there) - now
           f == ComputeFacts(r, t)
<1>1. /\ until >= 0 /\ until \in Int
      /\ f.days_until_birthday = {until}
      /\ f.is_birthday_today = Bool(until = 0)
      /\ f.age_years = {t.y - y - (IF here > now THEN 1 ELSE 0) : y \in r.year}
      /\ f.age_turning_this_year = {(IF here >= now THEN t.y ELSE t.y + 1) - y : y \in r.year}
  BY FactsOfTheDay
<1>2. \A y : BdayEffective(y, r.month, r.day) = Celebration(r, y)
  BY DEF BdayEffective, BdayIsLeap, Celebration, EffectiveBday, IsLeap
<1>3. BdayDaysUntil(r.month, r.day, t) = until
  BY <1>2 DEF BdayDaysUntil, Coming
<1>4. BdayIsToday(r.month, r.day, t) <=> until = 0
  BY <1>3 DEF BdayIsToday
<1>5. BdayAge(r.year, r.month, r.day, t) = f.age_years
  BY <1>1, <1>2 DEF BdayAge
<1>6. BdayAgeTurning(r.year, r.month, r.day, t) = f.age_turning_this_year
  BY <1>1, <1>2 DEF BdayAgeTurning, Coming
<1> HIDE DEF until
<1>7. f.is_birthday_week = Bool(until <= 6)
  <2>1. f.days_until_birthday = {DayNumber(NextBday(r, t)) - DayNumber(t)}  BY DEF ComputeFacts
  <2>2. DayNumber(NextBday(r, t)) - DayNumber(t) = until  BY <1>1, <2>1
  <2>3. f.is_birthday_week = Bool(DayNumber(NextBday(r, t)) - DayNumber(t) \in 0..6)
    BY DEF ComputeFacts
  <2>4. until \in 0..6 <=> until <= 6  BY <1>1
  <2> QED  BY <2>2, <2>3, <2>4 DEF Bool
<1> DEFINE g == TargetExpr(r, t)
<1>8. /\ g.days_until_birthday = f.days_until_birthday
      /\ g.is_birthday_today = f.is_birthday_today
      /\ g.is_birthday_week = f.is_birthday_week
      /\ g.age_years = f.age_years
      /\ g.age_turning_this_year = f.age_turning_this_year
  <2>1. /\ g.days_until_birthday = {BdayDaysUntil(r.month, r.day, t)}
        /\ g.is_birthday_today = Bool(BdayIsToday(r.month, r.day, t))
        /\ g.is_birthday_week = Bool(BdayDaysUntil(r.month, r.day, t) <= 6)
        /\ g.age_years = BdayAge(r.year, r.month, r.day, t)
        /\ g.age_turning_this_year = BdayAgeTurning(r.year, r.month, r.day, t)
    BY DEF TargetExpr
  <2> QED  BY <1>1, <1>3, <1>4, <1>5, <1>6, <1>7, <2>1 DEF Bool
<1>9. /\ g.zodiac_sign = f.zodiac_sign /\ g.chinese_zodiac = f.chinese_zodiac
      /\ g.birth_season = f.birth_season /\ g.birthstone = f.birthstone
      /\ g.birth_weekday = f.birth_weekday
  BY DEF TargetExpr, ComputeFacts, Stored
<1>10. /\ g.has_birthday_set = f.has_birthday_set /\ g.has_birth_year = f.has_birth_year
       /\ g.is_birthday_month = f.is_birthday_month
       /\ g.birth_month = f.birth_month /\ g.birth_day = f.birth_day /\ g.birth_year = f.birth_year
  BY DEF TargetExpr, ComputeFacts
<1>11. /\ DOMAIN f = Targets /\ DOMAIN g = Targets
       /\ f = [x \in Targets |-> f[x]] /\ g = [x \in Targets |-> g[x]]
  BY DEF TargetExpr, ComputeFacts, Targets, BoolTargets, IntTargets, StringTargets
<1> HIDE DEF f, g
<1>12. \A x \in Targets : f[x] = g[x]
  BY <1>8, <1>9, <1>10 DEF Targets, BoolTargets, IntTargets, StringTargets
<1>13. f = g  BY <1>11, <1>12
<1> QED  BY <1>13 DEF f, g

LEMMA FactsAreOptions ==
  ASSUME NEW b, IsBirthday(b), NEW t
  PROVE  Options(ComputeFacts(b, t))
<1> DEFINE f == ComputeFacts(b, t)
<1>1. \A x, y \in b.year : x = y  BY DEF IsBirthday
<1>2. /\ \A x, y \in f["has_birthday_set"] : x = y
      /\ \A x, y \in f["has_birth_year"] : x = y
      /\ \A x, y \in f["is_birthday_month"] : x = y
      /\ \A x, y \in f["is_birthday_today"] : x = y
      /\ \A x, y \in f["is_birthday_week"] : x = y
  <2>1. /\ f["has_birthday_set"] = Bool(TRUE)
        /\ f["has_birth_year"] = Bool(b.year # {})
        /\ f["is_birthday_month"] = Bool(t.m = b.month)
        /\ f["is_birthday_today"] = Bool(DayNumber(NextBday(b, t)) - DayNumber(t) = 0)
        /\ f["is_birthday_week"] = Bool(DayNumber(NextBday(b, t)) - DayNumber(t) \in 0..6)
    BY DEF ComputeFacts
  <2> HIDE DEF f
  <2> QED  BY <2>1 DEF Bool
<1>3. ASSUME NEW k \in {"days_until_birthday", "birth_month", "birth_day", "zodiac_sign",
                        "birth_season", "birthstone"}
      PROVE  \A x, y \in f[k] : x = y
  BY DEF ComputeFacts
<1>4. \A x, y \in f["birth_year"] : x = y  BY <1>1 DEF ComputeFacts
<1>5. \A x, y \in f["age_years"] : x = y
  BY <1>1 DEF ComputeFacts
<1>6. \A x, y \in f["age_turning_this_year"] : x = y
  BY <1>1 DEF ComputeFacts
<1>7. (\A x, y \in f["chinese_zodiac"] : x = y) /\ (\A x, y \in f["birth_weekday"] : x = y)
  BY <1>1 DEF ComputeFacts, ComputeDerived
<1> HIDE DEF f
<1>8. Options(f)
  BY <1>2, <1>3, <1>4, <1>5, <1>6, <1>7
      DEF Options, Targets, BoolTargets, IntTargets, StringTargets
<1> QED  BY <1>8 DEF f

LEMMA AcceptedIsBirthday ==
  ASSUME NEW b \in Birthdays, NEW t, Accepts(b, t)
  PROVE  IsBirthday(Upsert(b)) /\ Stored(Upsert(b))
<1> DEFINE leap == \A y \in b.year : IsLeap(y)
<1>1. b.month \in 1..12 /\ b.day \in 1..DaysInMonth(b.month, leap)  BY DEF Accepts, ValidDate
<1>2. b.year \subseteq Int /\ (\A y, z \in b.year : y = z) /\ b.day \in Int  BY BirthdaysAssumption
<1>3. b.day \in 1..DaysInMonth(b.month, TRUE)
  <2>1. DaysInMonth(b.month, leap) \in Int /\ DaysInMonth(b.month, TRUE) \in Int
        /\ DaysInMonth(b.month, leap) <= DaysInMonth(b.month, TRUE)
    BY <1>1 DEF DaysInMonth
  <2> DEFINE last == DaysInMonth(b.month, leap)  longest == DaysInMonth(b.month, TRUE)
  <2>2. b.day \in 1..last  BY <1>1
  <2> HIDE DEF last, longest
  <2>3. last \in Int /\ longest \in Int /\ last <= longest  BY <2>1 DEF last, longest
  <2>4. b.day \in 1..longest  BY <1>2, <2>2, <2>3
  <2> QED  BY <2>4 DEF longest
<1>4. /\ Upsert(b).month = b.month /\ Upsert(b).day = b.day /\ Upsert(b).year = b.year
      /\ Upsert(b).zodiac = ComputeDerived(b).zodiac
      /\ Upsert(b).chinese_zodiac = ComputeDerived(b).chinese_zodiac
      /\ Upsert(b).season = ComputeDerived(b).season
      /\ Upsert(b).birthstone = ComputeDerived(b).birthstone
      /\ Upsert(b).birth_weekday = ComputeDerived(b).birth_weekday
  BY DEF Upsert
<1>5. ComputeDerived(Upsert(b)) = ComputeDerived(b)  BY <1>4 DEF ComputeDerived
<1> QED  BY <1>1, <1>2, <1>3, <1>4, <1>5 DEF IsBirthday, Stored

-----------------------------------------------------------------------------
LEMMA InitRules == Init => RulesInv
<1> SUFFICES ASSUME Init PROVE RulesInv  OBVIOUS
<1>1. IsDate(today)  BY BirthdaysAssumption DEF Init, IsDate
<1>2. IsBirthday(row) /\ Stored(row)  BY BirthdaysAssumption, AcceptedIsBirthday DEF Init
<1>3. ValidTree(tree)
  <2>1. tree.grant = FALSE /\ tree.groups = <<>> /\ DOMAIN tree.groups = {}
    BY DEF Init, Unconfigured
  <2> QED  BY <2>1 DEF ValidTree
<1> QED  BY <1>1, <1>2, <1>3 DEF Init, RulesInv

LEMMA NextRules == RulesInv /\ [Next]_vars => RulesInv'
<1> SUFFICES ASSUME RulesInv, [Next]_vars PROVE RulesInv'  OBVIOUS
<1>1. ASSUME NEW b \in Birthdays, VerifySave(b) PROVE RulesInv'
  <2>1. IsBirthday(row') /\ Stored(row')  BY <1>1, AcceptedIsBirthday DEF VerifySave
  <2> QED  BY <1>1, <2>1 DEF VerifySave, RulesInv
<1>2. ASSUME NEW body \in Bodies, RoleConfigSave(body) PROVE RulesInv'
  <2>1. CASE tree' \in ParseRuleTree(body) /\ outcome' = "saved"
    <3>1. ValidTree(tree') /\ tree' # Unconfigured /\ \A g \in DOMAIN tree'.groups : tree'.groups[g] # <<>>
      BY <2>1, ParsedIsValid
    <3> QED  BY <1>2, <2>1, <3>1 DEF RoleConfigSave, RulesInv
  <2>2. CASE outcome' = "refused" /\ UNCHANGED tree
    BY <1>2, <2>2 DEF RoleConfigSave, RulesInv
  <2> QED  BY <1>2, <2>1, <2>2 DEF RoleConfigSave
<1>3. CASE Midnight
  <2>1. IsDate(today')  BY <1>3, Tomorrow DEF Midnight, RulesInv
  <2> QED  BY <1>3, <2>1 DEF Midnight, RulesInv
<1>4. CASE UNCHANGED vars  BY <1>4 DEF vars, RulesInv
<1> QED  BY <1>1, <1>2, <1>3, <1>4 DEF Next

(* The invariant of BirthdayRules holds throughout. *)
THEOREM RulesKeepInv == Spec => []RulesInv
BY InitRules, NextRules, PTL DEF Spec

(* A stored condition is one that both evaluators can read, and the countdown is
   never above a year: TypeOK, for every birthday, day and rule. *)
THEOREM RulesTypeCorrect == Spec => []TypeOK
<1>1. RulesInv => TypeOK
  <2> SUFFICES ASSUME RulesInv PROVE TypeOK  OBVIOUS
  <2>1. today.m \in 1..12 /\ today.d \in 1..DaysInMonth(today.m, IsLeap(today.y))
    <3>1. /\ today.m \in 1..12 /\ today.d \in Int /\ today.d >= 1
          /\ today.d <= Length(today.m) + LeapDay(today.m, today.y)
      BY DateParts DEF RulesInv
    <3>2. DaysInMonth(today.m, IsLeap(today.y)) = Length(today.m) + LeapDay(today.m, today.y)
      BY <3>1, LeapLength
    <3>3. Length(today.m) \in Int /\ LeapDay(today.m, today.y) \in Int
      BY <3>1, MonthLength, LeapIs DEF LeapDay
    <3> QED  BY <3>1, <3>2, <3>3
  <2>2. Facts.days_until_birthday \subseteq 0..365
    <3>1. \E n \in Int : n >= 0 /\ n <= 365 /\ ComputeFacts(row, today).days_until_birthday = {n}
      BY FactsOfTheDay DEF RulesInv
    <3> QED  BY <3>1 DEF Facts
  <2>3. ASSUME NEW c \in Conditions PROVE Valid(c)  BY DEF Conditions, RulesInv, ValidTree
  <2> QED  BY <2>1, <2>2, <2>3 DEF TypeOK, RulesInv, Valid
<1> QED  BY <1>1, RulesKeepInv, PTL

(* FactsAgree for every birthday and date: the two sides are told the same. *)
THEOREM BothAreToldTheSame == Spec => []FactsAgree
<1>1. RulesInv => FactsAgree  BY SameFacts DEF RulesInv, FactsAgree, Facts, RowFacts
<1> QED  BY <1>1, RulesKeepInv, PTL

(* condition_eval.rs against rule_sql.rs: for every rule, birthday and date, and
   whatever patterns the two dialects read differently or not at all. *)
THEOREM BothJudgeTheSame == Spec => []QueryAgrees
<1>1. RulesInv => QueryAgrees
  <2> SUFFICES ASSUME RulesInv PROVE QueryAgrees  OBVIOUS
  <2>1. RowFacts = Facts  BY SameFacts DEF RulesInv, Facts, RowFacts
  <2>2. Options(Facts)  BY FactsAreOptions DEF RulesInv, Facts
  <2>3. ValidTree(tree)  BY DEF RulesInv
  <2> DEFINE refused == \E g \in DOMAIN tree.groups : \E i \in DOMAIN tree.groups[g] :
                           PgRefuses(tree.groups[g][i])
             same == \A g \in DOMAIN tree.groups : \A i \in DOMAIN tree.groups[g] :
                        SameRegex(tree.groups[g][i], Facts)
  <2>4. IF refused THEN RuleWhere(tree, Facts) = "error"
        ELSE /\ RuleWhere(tree, Facts) # "error"
             /\ same => (RuleWhere(tree, Facts) = "true" <=> Evaluate(tree, Facts))
    BY <2>2, <2>3, TreesAgree
  <2>5. (\E c \in Conditions : PgRefuses(c)) <=> refused  BY DEF Conditions
  <2>6. (\A c \in Conditions : SameRegex(c, Facts)) <=> same  BY DEF Conditions
  <2> HIDE DEF refused, same
  <2> QED  BY <2>1, <2>4, <2>5, <2>6 DEF QueryAgrees
<1> QED  BY <1>1, RulesKeepInv, PTL

Untrue == {"error", "false", "null"}

(* Neither evaluator takes a condition on a number that is missing for true. *)
LEMMA MissingNumber ==
  ASSUME NEW c, Valid(c), c.target \in IntTargets, NEW f,
         EvaluateSingle(c, f) \/ BuildCondition(c, f) \notin Untrue
  PROVE  f[c.target] # {}
<1> DEFINE fact == f[c.target]  op == c.operator
<1>1. c.target \notin StringTargets /\ c.target \notin BoolTargets
  BY DEF IntTargets, StringTargets, BoolTargets
<1>2. CASE EvaluateSingle(c, f)  BY <1>1, <1>2 DEF EvaluateSingle
<1>3. CASE BuildCondition(c, f) \notin Untrue
  <2>1. op \in {"eq", "neq", "gt", "gte", "lt", "lte", "between", "in", "not_in"}
    BY <1>1 DEF Valid, ValidFor, ListOps
  <2>2. \A p : Compare(fact, p) \notin Untrue => fact # {}  BY DEF Compare, Untrue
  <2>3. CASE op \in ListOps
    <3>1. \/ BuildCondition(c, f) = "error"
          \/ BuildCondition(c, f) = InClause(c, fact)
          \/ BuildCondition(c, f) = NotInClause(c, fact)
      BY <2>3 DEF BuildCondition, ListOps
    <3> QED  BY <1>3, <2>2, <3>1 DEF InClause, NotInClause, Truth, Untrue
  <2>4. CASE op = "neq"
    <3>1. BuildCondition(c, f) = Compare(fact, fact # c.values)
      BY <2>4 DEF BuildCondition, ListOps, NeqClause
    <3> QED  BY <1>3, <2>2, <3>1
  <2>5. CASE op \in {"eq", "gt", "gte", "lt", "lte", "between"}
    <3>1. \E p : BuildCondition(c, f) = Compare(fact, p)  BY <2>5 DEF BuildCondition, ListOps
    <3> QED  BY <1>3, <2>2, <3>1
  <2> QED  BY <2>1, <2>3, <2>4, <2>5 DEF ListOps
<1> QED  BY <1>2, <1>3

(* facts.rs, rule_sql.rs, "numeric comparisons fail closed", for every rule: whom
   either evaluator grants to has every number that some group asks for. *)
THEOREM MissingNumbersGrantNothing == Spec => []NumbersFailClosed
<1>1. RulesInv => NumbersFailClosed
  <2> SUFFICES ASSUME RulesInv, Evaluate(tree, Facts) \/ RuleWhere(tree, Facts) = "true", ~tree.grant
               PROVE  \E g \in DOMAIN tree.groups : \A i \in DOMAIN tree.groups[g] :
                         tree.groups[g][i].target \in IntTargets => Facts[tree.groups[g][i].target] # {}
    BY SameFacts DEF NumbersFailClosed, RulesInv, Facts, RowFacts
  <2>1. \E g \in DOMAIN tree.groups : \A i \in DOMAIN tree.groups[g] :
           \/ EvaluateSingle(tree.groups[g][i], Facts)
           \/ BuildCondition(tree.groups[g][i], Facts) \notin Untrue
    <3>1. CASE Evaluate(tree, Facts)  BY <3>1 DEF Evaluate
    <3>2. CASE RuleWhere(tree, Facts) = "true"
      <4> DEFINE built(g) == {BuildCondition(tree.groups[g][i], Facts) : i \in DOMAIN tree.groups[g]}
                 group(g) == IF tree.groups[g] = <<>> THEN "false" ELSE And(built(g))
      <4>1. Or({group(g) : g \in DOMAIN tree.groups}) = "true"
        BY <3>2 DEF RuleWhere
      <4>2. \E g \in DOMAIN tree.groups : group(g) = "true"
        <5> HIDE DEF group
        <5> QED  BY <4>1 DEF Or
      <4>3. PICK g \in DOMAIN tree.groups : And(built(g)) = "true"  BY <4>2
      <4>4. ASSUME NEW i \in DOMAIN tree.groups[g] PROVE BuildCondition(tree.groups[g][i], Facts) \notin Untrue
        <5>1. BuildCondition(tree.groups[g][i], Facts) \in built(g)  OBVIOUS
        <5> HIDE DEF built
        <5> QED  BY <4>3, <5>1 DEF And, Untrue
      <4> QED  BY <4>4
    <3> QED  BY <3>1, <3>2
  <2>2. PICK g \in DOMAIN tree.groups : \A i \in DOMAIN tree.groups[g] :
           \/ EvaluateSingle(tree.groups[g][i], Facts)
           \/ BuildCondition(tree.groups[g][i], Facts) \notin Untrue
    BY <2>1
  <2>3. \A i \in DOMAIN tree.groups[g] : Valid(tree.groups[g][i])  BY DEF RulesInv, ValidTree
  <2> QED  BY <2>2, <2>3, MissingNumber
<1> QED  BY <1>1, RulesKeepInv, PTL

(* birthday.rs: every text of a catalogue is what some birthday has: the month of
   a sign, the year of an animal, a day of the first week of 2001, and so on. *)
LEMMA ChoicesAreSomebodys ==
  ASSUME NEW t \in StringTargets
  PROVE  StringChoices(t) \subseteq SomebodysText[t]
<1> DEFINE of(m, d, y) == ComputeDerived([month |-> m, day |-> d, year |-> {y}])
<1>1. ASSUME NEW m \in 1..12, NEW d \in 1..28, NEW y \in 2000..2011 PROVE of(m, d, y) \in Derived
  <2>1. Derived = {of(j, k, l) : j \in 1..12, k \in 1..28, l \in 2000..2011}  BY DEF Derived
  <2> HIDE DEF of
  <2> QED  BY <2>1
<1>2. ASSUME NEW m, NEW d, NEW y
      PROVE  /\ of(m, d, y).zodiac = Zodiac(m, d)
             /\ of(m, d, y).chinese_zodiac = {ChineseZodiac(y)}
             /\ of(m, d, y).season = Season(m)
             /\ of(m, d, y).birthstone = Birthstone(m)
             /\ of(m, d, y).birth_weekday = {WeekdayName(Date(y, m, d))}
  BY DEF ComputeDerived
<1> HIDE DEF of
<1>3. CASE t = "zodiac_sign"
  <2>1. SomebodysText[t] = {x.zodiac : x \in Derived}  BY <1>3 DEF SomebodysText
  <2>2. ASSUME NEW i \in 1..12 PROVE ZODIAC_SIGNS[i] = of(i, 1, 2000).zodiac
    <3>1. 1 <= LastDays[i]  BY DEF LastDays
    <3> QED  BY <1>2, <3>1 DEF Zodiac
  <2>3. ASSUME NEW i \in 1..12 PROVE ZODIAC_SIGNS[i] \in SomebodysText[t]
    <3>1. of(i, 1, 2000) \in Derived  BY <1>1
    <3> QED  BY <2>1, <2>2, <3>1
  <2>4. DOMAIN ZODIAC_SIGNS = 1..12  BY CatalogueAssumption
  <2> QED  BY <1>3, <2>3, <2>4 DEF StringChoices
<1>4. CASE t = "chinese_zodiac"
  <2>1. SomebodysText[t] = UNION {x.chinese_zodiac : x \in Derived}  BY <1>4 DEF SomebodysText
  <2>2. ASSUME NEW i \in 1..12 PROVE \E y \in 2000..2011 : ChineseZodiac(y) = CHINESE_ZODIACS[i]
    <3> DEFINE y == IF i <= 4 THEN 2007 + i ELSE 1995 + i
    <3>1. y \in 2000..2011 /\ ((y - 4) % 12) + 1 = i  OBVIOUS
    <3> HIDE DEF y
    <3> QED  BY <3>1 DEF ChineseZodiac
  <2>3. ASSUME NEW i \in 1..12 PROVE CHINESE_ZODIACS[i] \in SomebodysText[t]
    <3>1. PICK y \in 2000..2011 : ChineseZodiac(y) = CHINESE_ZODIACS[i]  BY <2>2
    <3>2. of(1, 1, y) \in Derived  BY <1>1
    <3>3. CHINESE_ZODIACS[i] \in of(1, 1, y).chinese_zodiac  BY <1>2, <3>1
    <3> QED  BY <2>1, <3>2, <3>3
  <2>4. DOMAIN CHINESE_ZODIACS = 1..12  BY CatalogueAssumption
  <2> QED  BY <1>4, <2>3, <2>4 DEF StringChoices
<1>5. CASE t = "birth_season"
  <2>1. SomebodysText[t] = {x.season : x \in Derived}  BY <1>5 DEF SomebodysText
  <2>2. ASSUME NEW i \in 1..4 PROVE \E m \in 1..12 : Season(m) = SEASONS[i]
    <3> DEFINE m == IF i = 1 THEN 12 ELSE 3 * (i - 1)
    <3>1. m \in 1..12 /\ ((m % 12) \div 3) + 1 = i  OBVIOUS
    <3> HIDE DEF m
    <3> QED  BY <3>1 DEF Season
  <2>3. ASSUME NEW i \in 1..4 PROVE SEASONS[i] \in SomebodysText[t]
    <3>1. PICK m \in 1..12 : Season(m) = SEASONS[i]  BY <2>2
    <3>2. of(m, 1, 2000) \in Derived  BY <1>1
    <3>3. of(m, 1, 2000).season = SEASONS[i]  BY <1>2, <3>1
    <3> QED  BY <2>1, <3>2, <3>3
  <2>4. DOMAIN SEASONS = 1..4  BY CatalogueAssumption
  <2> QED  BY <1>5, <2>3, <2>4 DEF StringChoices
<1>6. CASE t = "birthstone"
  <2>1. SomebodysText[t] = {x.birthstone : x \in Derived}  BY <1>6 DEF SomebodysText
  <2>2. ASSUME NEW i \in 1..12 PROVE BIRTHSTONES[i] \in SomebodysText[t]
    <3>1. of(i, 1, 2000) \in Derived  BY <1>1
    <3>2. of(i, 1, 2000).birthstone = BIRTHSTONES[i]  BY <1>2 DEF Birthstone
    <3> QED  BY <2>1, <3>1, <3>2
  <2>3. DOMAIN BIRTHSTONES = 1..12  BY CatalogueAssumption
  <2> QED  BY <1>6, <2>2, <2>3 DEF StringChoices
<1>7. CASE t = "birth_weekday"
  <2>1. SomebodysText[t] = UNION {x.birth_weekday : x \in Derived}  BY <1>7 DEF SomebodysText
  <2>2. ASSUME NEW i \in 1..7 PROVE WeekdayName(Date(2001, 1, i)) = WEEKDAYS[i]
    <3>1. DayNumber(Date(2001, 1, i)) = 730485 + i  BY DEF DayNumber, Date, Before
    <3>2. ((730485 + i - 1) % 7) + 1 = i  OBVIOUS
    <3> QED  BY <3>1, <3>2 DEF WeekdayName
  <2>3. ASSUME NEW i \in 1..7 PROVE WEEKDAYS[i] \in SomebodysText[t]
    <3>1. of(1, i, 2001) \in Derived  BY <1>1
    <3>2. WEEKDAYS[i] \in of(1, i, 2001).birth_weekday  BY <1>2, <2>2
    <3> QED  BY <2>1, <3>1, <3>2
  <2>4. DOMAIN WEEKDAYS = 1..7  BY CatalogueAssumption
  <2> QED  BY <1>7, <2>3, <2>4 DEF StringChoices
<1> QED  BY <1>3, <1>4, <1>5, <1>6, <1>7 DEF StringTargets

(* rule_validator.rs, for every rule that it lets through: a text stored for an
   exact comparison, whatever was typed, is the fact of somebody. *)
THEOREM TextsCanMatch == Spec => []StoredTextsCanMatch
<1>1. RulesInv => StoredTextsCanMatch
  <2> SUFFICES ASSUME RulesInv, NEW c \in Conditions, c.target \in StringTargets, c.operator \in Exact
               PROVE  c.values \subseteq SomebodysText[c.target]
    BY DEF StoredTextsCanMatch, Exact
  <2>1. Valid(c)  BY DEF Conditions, RulesInv, ValidTree
  <2>2. c.values \subseteq StringChoices(c.target)  BY <2>1 DEF Valid
  <2> QED  BY <2>2, ChoicesAreSomebodys
<1> QED  BY <1>1, RulesKeepInv, PTL

(* Convention 42 for every rule: a link grants to nobody until it is configured. *)
THEOREM NobodyBefore == Spec => []NobodyUntilConfigured
<1>1. RulesInv => NobodyUntilConfigured
  <2> SUFFICES ASSUME RulesInv PROVE NobodyUntilConfigured  OBVIOUS
  <2>1. ~Evaluate(Unconfigured, Facts)
    <3>1. Unconfigured.grant = FALSE /\ DOMAIN Unconfigured.groups = {}  BY DEF Unconfigured
    <3> QED  BY <3>1 DEF Evaluate
  <2> QED  BY <2>1 DEF NobodyUntilConfigured, RulesInv
<1> QED  BY <1>1, RulesKeepInv, PTL

-----------------------------------------------------------------------------
(* The celebration is the day that is as many days away as the celebration of
   this year is. *)
LEMMA CelebratedIs ==
  ASSUME NEW b, IsBirthday(b), NEW t, IsDate(t)
  PROVE  Celebrated(ComputeFacts(b, t)) <=> Celebration(b, t.y) = DayNumber(t)
<1> DEFINE here == Celebration(b, t.y)
           there == Celebration(b, t.y + 1)
           now == DayNumber(t)
           until == (IF here >= now THEN here ELSE there) - now
<1>1. /\ here \in Int /\ there \in Int /\ now \in Int
      /\ now <= YearStart(t.y + 1) /\ there > YearStart(t.y + 1) /\ YearStart(t.y + 1) \in Int
      /\ ComputeFacts(b, t).is_birthday_today = Bool(until = 0)
  BY FactsOfTheDay
<1>2. Celebrated(ComputeFacts(b, t)) <=> until = 0
  BY <1>1, CatalogueAssumption DEF Celebrated, Bool
<1> HIDE DEF here, there, now
<1>3. until = 0 <=> here = now
  <2>1. CASE here >= now  BY <1>1, <2>1
  <2>2. CASE ~(here >= now)  BY <1>1, <2>2
  <2> QED  BY <2>1, <2>2
<1> QED  BY <1>2, <1>3 DEF here, now

(* CelebratedOnTheDay for every birthday and date. *)
THEOREM CelebrationsAreOnTheDay == Spec => []CelebratedOnTheDay
<1>1. RulesInv => CelebratedOnTheDay
  <2> SUFFICES ASSUME RulesInv PROVE CelebratedOnTheDay  OBVIOUS
  <2> DEFINE y == today.y  m == today.m  d == today.d  leap == LeapDay(m, y)
             month == row.month  day == row.day  eff == EffDay(row, y)
  <2>1. /\ m \in 1..12 /\ y \in Int /\ d \in Int /\ d >= 1
        /\ d <= Length(m) + leap /\ today = Date(y, m, d) /\ IsDate(today)
    BY DateParts DEF RulesInv
  <2>2. /\ month \in 1..12 /\ day \in Int /\ day >= 1
        /\ day <= Length(month) + (IF month = 2 THEN 1 ELSE 0)
        /\ Length(month) \in Int /\ (month = 2 => Length(month) = 28)
    BY BirthdayParts DEF RulesInv
  <2>3. /\ EffectiveBday(y, month, day) = Date(y, month, eff)
        /\ IsDate(Date(y, month, eff)) /\ eff \in Int
    BY <2>1, EffectiveIsDate DEF RulesInv
  <2>4. Celebrated(Facts) <=> Celebration(row, y) = DayNumber(today)
    BY CelebratedIs DEF RulesInv, Facts
  <2>5. Celebrated(Facts) <=> DayNumber(Date(y, month, eff)) = DayNumber(Date(y, m, d))
    BY <2>1, <2>3, <2>4 DEF Celebration
  <2>6. NextDay(today).m # m <=> d = Length(m) + leap
    BY Tomorrow DEF RulesInv
  <2>7. leap = (IF m = 2 /\ IsLeap(y) THEN 1 ELSE 0)  BY DEF LeapDay, Leap
  <2>8. eff = (IF month = 2 /\ day = 29 /\ ~IsLeap(y) THEN 28 ELSE day)  BY DEF EffDay
  <2>9. CelebratedOnTheDay <=>
          (Celebrated(Facts) <=> m = month /\ (d = day \/ (d < day /\ NextDay(today).m # m)))
    BY DEF CelebratedOnTheDay
  <2> HIDE DEF y, m, d, leap, month, day, eff
  <2>10. Celebrated(Facts) <=> m = month /\ d = eff
    <3>1. Celebrated(Facts) => m = month /\ d = eff
      BY <2>1, <2>2, <2>3, <2>5, NumberIsDate
    <3> QED  BY <2>5, <3>1
  <2>11. m = month => (d = eff <=> (d = day \/ (d < day /\ d = Length(m) + leap)))
    BY <2>1, <2>2, <2>7, <2>8
  <2> QED  BY <2>6, <2>9, <2>10, <2>11
<1> QED  BY <1>1, RulesKeepInv, PTL

-----------------------------------------------------------------------------
LEMMA OnlyMidnight ==
  ASSUME [Next]_vars, today' # today
  PROVE  today' = NextDay(today) /\ row' = row
BY DEF Next, VerifySave, RoleConfigSave, Midnight, vars

(* The celebrations around a midnight. *)
LEMMA AroundMidnight ==
  ASSUME NEW b, IsBirthday(b), NEW t, IsDate(t)
  PROVE  LET u == NextDay(t)
             here == Celebration(b, t.y)
             there == Celebration(b, t.y + 1)
             now == DayNumber(t)
         IN  /\ IsDate(u) /\ DayNumber(u) = now + 1
             /\ \/ u.y = t.y /\ now + 1 <= YearStart(t.y + 1)
                \/ u.y = t.y + 1 /\ now = YearStart(t.y + 1)
             /\ here \in Int /\ there \in Int /\ now \in Int /\ YearStart(t.y + 1) \in Int
             /\ here <= YearStart(t.y + 1) /\ there > YearStart(t.y + 1)
             /\ there >= here + 365 /\ there <= here + 366
<1>1. /\ IsDate(NextDay(t)) /\ DayNumber(NextDay(t)) = DayNumber(t) + 1
      /\ \/ NextDay(t).y = t.y
         \/ NextDay(t).y = t.y + 1 /\ DayNumber(t) = YearStart(t.y + 1)
  BY Tomorrow
<1>2. DayNumber(NextDay(t)) <= YearStart(NextDay(t).y + 1)
  BY <1>1, FactsOfTheDay
<1>3. /\ Celebration(b, t.y) \in Int /\ Celebration(b, t.y + 1) \in Int
      /\ DayNumber(t) \in Int /\ YearStart(t.y + 1) \in Int
      /\ Celebration(b, t.y) <= YearStart(t.y + 1) /\ Celebration(b, t.y + 1) > YearStart(t.y + 1)
      /\ Celebration(b, t.y + 1) >= Celebration(b, t.y) + 365
      /\ Celebration(b, t.y + 1) <= Celebration(b, t.y) + 366
  BY FactsOfTheDay
<1> QED  BY <1>1, <1>2, <1>3

(* CountdownExact for every birthday and date. *)
THEOREM CountdownIsExact == Spec => CountdownExact
<1>1. RulesInv /\ [Next]_vars => CountsDown
  <2> SUFFICES ASSUME RulesInv, [Next]_vars, today' # today,
                      NEW n \in ComputeFacts(row, today).days_until_birthday,
                      NEW m \in ComputeFacts(row', today').days_until_birthday
               PROVE  IF Celebrated(ComputeFacts(row, today)) THEN m \in {364, 365} ELSE m = n - 1
    BY DEF CountsDown
  <2> DEFINE t == today  u == NextDay(today)  b == row
             here == Celebration(b, t.y)  there == Celebration(b, t.y + 1)  now == DayNumber(t)
             end == YearStart(t.y + 1)
  <2>1. today' = u /\ row' = b  BY OnlyMidnight
  <2>2. IsBirthday(b) /\ IsDate(t)  BY DEF RulesInv
  <2>3. /\ IsDate(u) /\ DayNumber(u) = now + 1
        /\ \/ u.y = t.y /\ now + 1 <= end
           \/ u.y = t.y + 1 /\ now = end
        /\ here \in Int /\ there \in Int /\ now \in Int /\ end \in Int
        /\ here <= end /\ there > end /\ there >= here + 365 /\ there <= here + 366
    BY <2>2, AroundMidnight
  <2>4. n = (IF here >= now THEN here ELSE there) - now  BY <2>2, FactsOfTheDay
  <2>5. Celebrated(ComputeFacts(b, t)) <=> here = now  BY <2>2, CelebratedIs
  <2>6. m = (IF Celebration(b, u.y) >= now + 1 THEN Celebration(b, u.y)
             ELSE Celebration(b, u.y + 1)) - (now + 1)
    BY <2>1, <2>2, <2>3, FactsOfTheDay
  <2>7. CASE u.y = t.y /\ now + 1 <= end
    <3>1. m = (IF here >= now + 1 THEN here ELSE there) - (now + 1)  BY <2>6, <2>7
    <3> HIDE DEF here, there, now, end
    <3> QED  BY <2>3, <2>4, <2>5, <2>7, <3>1
  <2>8. CASE u.y = t.y + 1 /\ now = end
    <3>1. there >= now + 1  BY <2>3, <2>8
    <3>2. m = there - (now + 1)  BY <2>6, <2>8, <3>1
    <3> HIDE DEF here, there, now, end
    <3> QED  BY <2>3, <2>4, <2>5, <2>8, <3>2
  <2> QED  BY <2>3, <2>7, <2>8
<1> QED  BY <1>1, RulesKeepInv, PTL DEF Spec, CountdownExact

(* AgesOnTheDay for every birthday and date. *)
THEOREM AgesGoUpOnTheDay == Spec => AgesOnTheDay
<1>1. RulesInv /\ [Next]_vars => Ages
  <2> SUFFICES ASSUME RulesInv, [Next]_vars, today' # today PROVE Ages  BY DEF Ages
  <2> DEFINE t == today  u == NextDay(today)  b == row
             here == Celebration(b, t.y)  there == Celebration(b, t.y + 1)  now == DayNumber(t)
             end == YearStart(t.y + 1)  soon == Celebration(b, u.y)
             birthday == IF Celebrated(ComputeFacts(b, u)) THEN 1 ELSE 0
             late == IF here > now THEN 1 ELSE 0
             later == IF soon > now + 1 THEN 1 ELSE 0
             turns == IF soon >= now + 1 THEN u.y ELSE u.y + 1
  <2>1. today' = u /\ row' = b  BY OnlyMidnight
  <2>2. IsBirthday(b) /\ IsDate(t) /\ t.y \in Int /\ b.year \subseteq Int
    BY DateParts DEF RulesInv, IsBirthday
  <2>3. /\ IsDate(u) /\ DayNumber(u) = now + 1
        /\ \/ u.y = t.y /\ now + 1 <= end
           \/ u.y = t.y + 1 /\ now = end
        /\ here \in Int /\ there \in Int /\ now \in Int /\ end \in Int
        /\ here <= end /\ there > end /\ there >= here + 365 /\ there <= here + 366
    BY <2>2, AroundMidnight
  <2>4. /\ ComputeFacts(b, t).age_years = {t.y - y - late : y \in b.year}
        /\ ComputeFacts(b, u).age_years = {u.y - y - later : y \in b.year}
        /\ ComputeFacts(b, u).age_turning_this_year = {turns - y : y \in b.year}
    <3>1. ComputeFacts(b, t).age_years = {t.y - y - late : y \in b.year}  BY <2>2, FactsOfTheDay
    <3>2. /\ ComputeFacts(b, u).age_years = {u.y - y - later : y \in b.year}
          /\ ComputeFacts(b, u).age_turning_this_year = {turns - y : y \in b.year}
      BY <2>2, <2>3, FactsOfTheDay
    <3> QED  BY <3>1, <3>2
  <2>5. birthday = (IF soon = now + 1 THEN 1 ELSE 0)  BY <2>2, <2>3, CelebratedIs
  <2>6. /\ u.y - later = t.y - late + birthday
        /\ turns = u.y - later + 1 - birthday
        /\ u.y \in Int /\ later \in Int /\ late \in Int /\ birthday \in Int /\ turns \in Int
    <3>1. CASE u.y = t.y /\ now + 1 <= end
      <4>1. soon = here  BY <3>1
      <4> HIDE DEF here, there, now, end, soon, birthday
      <4> QED  BY <2>2, <2>3, <2>5, <3>1, <4>1
    <3>2. CASE u.y = t.y + 1 /\ now = end
      <4>1. soon = there  BY <3>2
      <4> HIDE DEF here, there, now, end, soon, birthday
      <4> QED  BY <2>2, <2>3, <2>5, <3>2, <4>1
    <3> QED  BY <2>3, <3>1, <3>2
  <2> HIDE DEF birthday, late, later, turns
  <2>7. ASSUME NEW y \in b.year
        PROVE  /\ u.y - y - later = t.y - y - late + birthday
               /\ turns - y = u.y - y - later + 1 - birthday
    BY <2>2, <2>6
  <2>8. {u.y - y - later : y \in b.year} = {a + birthday : a \in {t.y - y - late : y \in b.year}}
    BY <2>7
  <2>9. {turns - y : y \in b.year} = {a + 1 - birthday : a \in {u.y - y - later : y \in b.year}}
    BY <2>7
  <2> QED  BY <2>1, <2>4, <2>8, <2>9 DEF birthday, Ages
<1> QED  BY <1>1, RulesKeepInv, PTL DEF Spec, AgesOnTheDay
=============================================================================
