--------------------------- MODULE BirthdayRules ---------------------------
(***************************************************************************)
(* A member and a rule: verify.rs saves the member's birthday with what is *)
(* derived from it, admin.rs saves the rule that rule_validator accepts,   *)
(* and as the days go by in the member's timezone both evaluators judge    *)
(* the one by the other.  A per-member sync reads the birthday and lets    *)
(* condition_eval judge; a sync of the whole role lets Postgres judge the  *)
(* row.                                                                    *)
(***************************************************************************)
EXTENDS RuleTree

CONSTANTS
    Birthdays,   \* submitted birthdays: [month, day, year], year an Option
    First,       \* those of them that the member saves first
    FirstDays,   \* the local dates on which that happens
    Bodies,      \* bodies of the save requests for the rule: [grant, groups]
    SaveDays,    \* bound: saves happen on the first days only
    Judged,      \* bound: the days that are followed after a save of a rule
    Span         \* bound: the days that are followed without one

ASSUME BirthdaysAssumption ==
    /\ First \subseteq Birthdays
    /\ \A b \in Birthdays :
          /\ b.month \in Int /\ b.day \in Int /\ b.year \subseteq Int
          /\ \A y, z \in b.year : y = z
    /\ \A t \in FirstDays :
          /\ t \in [y : Int, m : 1..12, d : 1..31]
          /\ t.d <= DaysInMonth(t.m, IsLeap(t.y))

ASSUME BodiesAssumption ==
    \A body \in Bodies :
        /\ DOMAIN body.groups = 1..Len(body.groups)
        /\ \A g \in DOMAIN body.groups : DOMAIN body.groups[g] = 1..Len(body.groups[g])

ASSUME BoundsAssumption == SaveDays \in Nat /\ Judged \in Nat /\ Span \in Nat

VARIABLES
    row,       \* the member's row of the table birthdays
    tree,      \* role_links.rule_tree
    outcome,   \* of the save of the rule: none yet, saved or refused
    today,     \* the member's local date
    elapsed    \* since the first save

vars == <<row, tree, outcome, today, elapsed>>

-----------------------------------------------------------------------------
(* The upsert of verify_save writes every column. *)
Upsert(b) ==
    LET derived == ComputeDerived(b)
    IN  [month |-> b.month, day |-> b.day, year |-> b.year,
         zodiac |-> derived.zodiac, chinese_zodiac |-> derived.chinese_zodiac,
         season |-> derived.season, birthstone |-> derived.birthstone,
         birth_weekday |-> derived.birth_weekday]

(* validate_date on local day t goes by the year in UTC, which may be a day ahead. *)
Accepts(b, t) == ValidDate(b, NextDay(t).y)

(* A freshly registered link, and a member who has just saved a birthday. *)
Init ==
    /\ today \in FirstDays
    /\ row \in {Upsert(b) : b \in {x \in First : Accepts(x, today)}}
    /\ tree = Unconfigured
    /\ outcome = "none"
    /\ elapsed = 0

(* verify_save: the member corrects the birthday. *)
VerifySave(b) ==
    /\ elapsed < SaveDays
    /\ Accepts(b, today)
    /\ row' = Upsert(b)
    /\ UNCHANGED <<tree, outcome, today, elapsed>>

(* role_config_save: the rule is saved, once. *)
RoleConfigSave(body) ==
    /\ elapsed < SaveDays
    /\ outcome = "none"
    /\ \/ tree' \in ParseRuleTree(body) /\ outcome' = "saved"
       \/ ParseRuleTree(body) = {} /\ outcome' = "refused" /\ UNCHANGED tree
    /\ UNCHANGED <<row, today, elapsed>>

Midnight ==
    /\ elapsed < (IF outcome = "none" THEN Span ELSE Judged)
    /\ today' = NextDay(today)
    /\ elapsed' = elapsed + 1
    /\ UNCHANGED <<row, tree, outcome>>

Next ==
    \/ \E b \in Birthdays : VerifySave(b)
    \/ \E body \in Bodies : RoleConfigSave(body)
    \/ Midnight

Spec == Init /\ [][Next]_vars

-----------------------------------------------------------------------------
(* What condition_eval and the WHERE clause are told of the member. *)
Facts == ComputeFacts(row, today)
RowFacts == TargetExpr(row, today)

Celebrated(f) == Yes \in f.is_birthday_today

Conditions == UNION {{tree.groups[g][i] : i \in DOMAIN tree.groups[g]} : g \in DOMAIN tree.groups}

(* Type invariant: there is such a date, the countdown has the range that 005
   gives it ("Always in 0..=365"), and a stored condition is one that both
   evaluators can read, so rule_sql never falls back on its defaults. *)
TypeOK ==
    /\ today.m \in 1..12 /\ today.d \in 1..DaysInMonth(today.m, IsLeap(today.y))
    /\ Facts.days_until_birthday \subseteq 0..365
    /\ outcome \in {"none", "saved", "refused"}
    /\ \A c \in Conditions :
          /\ c.target \in Targets /\ c.operator \in ValidFor(c.target)
          /\ c.values # {} /\ Fits(c, c.values)
          /\ c.operator = "between" => c.end # {}

(* birthday.rs: "a per-member sync and a bulk role sync always agree": what Rust
   computes of a birthday is what Postgres computes of the row, through every
   correction of the birthday. *)
FactsAgree == Facts = RowFacts

(* condition_eval.rs: "Both must agree"; birthday.rs: they "always agree": for
   whatever the validator lets through, the bulk query selects the member exactly
   when the evaluator accepts. *)
EvaluatorsAgree == RuleWhere(tree, RowFacts) = "true" <=> Evaluate(tree, Facts)

(* What Postgres cannot take, though the validator could. *)
PgRefuses(c) ==
    \/ c.target \in IntTargets /\ c.operator \in ListOps /\ ~(c.values \subseteq Int4)
    \/ c.operator = "regex" /\ c.values \intersect PgBadPatterns # {}

(* The two dialects make the same of c's pattern and the facts it is tried on. *)
SameRegex(c, f) ==
    c.operator = "regex" => \A p \in c.values, a \in f[c.target] :
        <<p, a>> \in PgMatching <=> <<p, a>> \in Matching

(* What is left of that: for whatever the validator lets through, a missing fact, a
   list, a negation, an age by the calendar, the bulk query selects the member exactly
   when the evaluator accepts, unless it fails as a whole, for a number beyond int4 or
   a pattern that Postgres cannot read, and for nothing else; or a pattern means
   something else to Postgres for that very fact. *)
QueryAgrees ==
    LET where == RuleWhere(tree, RowFacts)
    IN  /\ where = "error" <=> \E c \in Conditions : PgRefuses(c)
        /\ where # "error" /\ (\A c \in Conditions : SameRegex(c, Facts))
              => (where = "true" <=> Evaluate(tree, Facts))

(* The celebration is on the very date where the year has it, and otherwise on
   the last day of that month: stated without the code's leap-year rule. *)
CelebratedOnTheDay ==
    Celebrated(Facts) <=>
        /\ today.m = row.month
        /\ \/ today.d = row.day
           \/ today.d < row.day /\ NextDay(today).m # today.m

(* From day to day the countdown goes down by one to the celebration, and starts
   again, a year long, on the day after. *)
CountsDown ==
    today' # today =>
        LET before == ComputeFacts(row, today)
            after == ComputeFacts(row', today')
        IN  \A n \in before.days_until_birthday, m \in after.days_until_birthday :
               IF Celebrated(before) THEN m \in {364, 365} ELSE m = n - 1
CountdownExact == [][CountsDown]_vars

(* An age goes up by one at the midnight that begins the celebration, and at no
   other; until then it is the one before the age the member is turning. *)
Ages ==
    today' # today =>
        LET before == ComputeFacts(row, today)
            after == ComputeFacts(row', today')
            birthday == IF Celebrated(after) THEN 1 ELSE 0
        IN  /\ after.age_years = {a + birthday : a \in before.age_years}
            /\ after.age_turning_this_year = {a + 1 - birthday : a \in after.age_years}
AgesOnTheDay == [][Ages]_vars

(* Convention 42: a link grants to nobody until it is configured, and no save
   stores a tree that is neither configured nor free of empty groups. *)
NobodyUntilConfigured ==
    /\ outcome # "saved" => ~Evaluate(tree, Facts)
    /\ outcome = "saved" => tree # Unconfigured /\ \A g \in DOMAIN tree.groups : tree.groups[g] # <<>>

(* facts.rs, rule_sql.rs: "numeric comparisons fail closed": a member whom a rule
   grants to, by either evaluator, has every number that some group of the rule asks
   for. *)
NumbersFailClosed ==
    Evaluate(tree, Facts) \/ RuleWhere(tree, RowFacts) = "true" => tree.grant \/ \E g \in DOMAIN tree.groups :
        \A i \in DOMAIN tree.groups[g] :
            LET t == tree.groups[g][i].target IN t \in IntTargets => Facts[t] # {}

(* The texts that the fact t of some birthday is. *)
Derived == {ComputeDerived([month |-> m, day |-> d, year |-> {y}]) :
               m \in 1..12, d \in 1..28, y \in 2000..2011}
SomebodysText ==
    [t \in StringTargets |->
        CASE t = "zodiac_sign" -> {x.zodiac : x \in Derived}
          [] t = "chinese_zodiac" -> UNION {x.chinese_zodiac : x \in Derived}
          [] t = "birth_season" -> {x.season : x \in Derived}
          [] t = "birthstone" -> {x.birthstone : x \in Derived}
          [] t = "birth_weekday" -> UNION {x.birth_weekday : x \in Derived}]

(* rule_validator.rs: "Comparisons are exact, so before this a capital or a typo
   saved a condition that silently matched nobody": every text that is stored for
   an exact comparison is the fact of somebody. *)
StoredTextsCanMatch ==
    \A c \in Conditions :
        c.target \in StringTargets /\ c.operator \in {"eq", "neq", "in", "not_in"}
            => c.values \subseteq SomebodysText[c.target]
=============================================================================
