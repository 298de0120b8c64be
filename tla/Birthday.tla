------------------------------ MODULE Birthday ------------------------------
(***************************************************************************)
(* The date rules: services/birthday.rs, which judges one member, and the  *)
(* bday_* functions of migrations/005 with the stored columns, which judge *)
(* all members in SQL.  BirthdayRules lets the days go by over them.       *)
(*                                                                         *)
(* An Option, or a nullable column, is a set with at most one element.     *)
(* A date is a record [y, m, d]; dates are compared and subtracted through *)
(* DayNumber, which stands for chrono's NaiveDate and Postgres' date.      *)
(* A birthday is a record [month, day, year]; a row of the table birthdays *)
(* has its derived facts as well.  Facts are given by the name of the      *)
(* target that reads them, each an Option.                                 *)
(***************************************************************************)
EXTENDS Integers, Sequences

CONSTANTS
    Yes, No,           \* truth values, which are compared with other literals
    ZODIAC_SIGNS, CHINESE_ZODIACS, SEASONS, BIRTHSTONES, WEEKDAYS   \* the catalogues

ASSUME CatalogueAssumption ==
    /\ Yes # No
    /\ Len(ZODIAC_SIGNS) = 12 /\ Len(CHINESE_ZODIACS) = 12 /\ Len(BIRTHSTONES) = 12
    /\ Len(SEASONS) = 4 /\ Len(WEEKDAYS) = 7

-----------------------------------------------------------------------------
(* services/birthday.rs                                                    *)

IsLeap(y) == y % 4 = 0 /\ (y % 100 # 0 \/ y % 400 = 0)

DaysInMonth(m, leap) ==
    IF m \in {1, 3, 5, 7, 8, 10, 12} THEN 31
    ELSE IF m \in {4, 6, 9, 11} THEN 30
    ELSE IF m = 2 THEN (IF leap THEN 29 ELSE 28)
    ELSE 0

Date(y, m, d) == [y |-> y, m |-> m, d |-> d]

(* chrono and Postgres: days since 31 December of the year 0. *)
Before == <<0, 31, 59, 90, 120, 151, 181, 212, 243, 273, 304, 334>>
DayNumber(t) ==
    LET z == t.y - 1
    IN  365 * z + z \div 4 - z \div 100 + z \div 400
        + Before[t.m] + (IF t.m > 2 /\ IsLeap(t.y) THEN 1 ELSE 0) + t.d

NextDay(t) ==
    IF t.d < DaysInMonth(t.m, IsLeap(t.y)) THEN [t EXCEPT !.d = @ + 1]
    ELSE IF t.m < 12 THEN Date(t.y, t.m + 1, 1)
    ELSE Date(t.y + 1, 1, 1)

(* Mistake: a leap day moved to March. *)
EffectiveBdayInMarch(y, m, d) ==
    IF m = 2 /\ d = 29 /\ ~IsLeap(y) THEN Date(y, 3, 1) ELSE Date(y, m, d)

(* February 29 is celebrated on February 28 when there is none. *)
EffectiveBday(y, m, d) ==
    IF m = 2 /\ d = 29 /\ ~IsLeap(y) THEN Date(y, 2, 28) ELSE Date(y, m, d)

ValidDate(b, thisYear) ==
    /\ b.month \in 1..12
    /\ \A y \in b.year : y \in 1900..thisYear
    /\ b.day \in 1..DaysInMonth(b.month, \A y \in b.year : IsLeap(y))

EffThis(b, t) == EffectiveBday(t.y, b.month, b.day)

(* Mistake: the celebration itself taken for past. *)
NextBdayAfter(b, t) ==
    IF DayNumber(EffThis(b, t)) > DayNumber(t)
    THEN EffThis(b, t) ELSE EffectiveBday(t.y + 1, b.month, b.day)

(* Mistake: next year's date without the rule for leap days. *)
NextBdayRaw(b, t) ==
    IF DayNumber(EffThis(b, t)) >= DayNumber(t)
    THEN EffThis(b, t) ELSE Date(t.y + 1, b.month, b.day)

(* The first celebration on or after day t. *)
NextBday(b, t) ==
    IF DayNumber(EffThis(b, t)) >= DayNumber(t)
    THEN EffThis(b, t) ELSE EffectiveBday(t.y + 1, b.month, b.day)

(* Mistake: an age that goes up only on the day after. *)
YetToAgeLate(b, t) == DayNumber(EffThis(b, t)) >= DayNumber(t)

(* This year's celebration is still ahead. *)
YetToAge(b, t) == DayNumber(EffThis(b, t)) > DayNumber(t)

(* zodiac: the last day of each month's first sign; the list begins in January. *)
LastDays == <<19, 18, 20, 19, 20, 20, 22, 22, 22, 22, 21, 21>>
Zodiac(m, d) == ZODIAC_SIGNS[IF d <= LastDays[m] THEN m ELSE (m % 12) + 1]

ChineseZodiac(y) == CHINESE_ZODIACS[((y - 4) % 12) + 1]

(* Three months each, from December on. *)
Season(m) == SEASONS[((m % 12) \div 3) + 1]

Birthstone(m) == BIRTHSTONES[m]

(* The first day of the year 1 was a Monday. *)
WeekdayName(t) == WEEKDAYS[((DayNumber(t) - 1) % 7) + 1]

(* compute_derived: what never changes, stored with the birthday. *)
ComputeDerived(b) ==
    [zodiac |-> Zodiac(b.month, b.day),
     chinese_zodiac |-> {ChineseZodiac(y) : y \in b.year},
     season |-> Season(b.month),
     birthstone |-> Birthstone(b.month),
     birth_weekday |-> {WeekdayName(Date(y, b.month, b.day)) : y \in b.year}]

Bool(p) == {IF p THEN Yes ELSE No}

(* compute_facts: what the evaluator is told of birthday b on day t. *)
ComputeFacts(b, t) ==
    LET next == NextBday(b, t)
        daysUntil == DayNumber(next) - DayNumber(t)
        late == IF YetToAge(b, t) THEN 1 ELSE 0
        derived == ComputeDerived(b)
    IN  [has_birthday_set |-> Bool(TRUE),
         has_birth_year |-> Bool(b.year # {}),
         is_birthday_today |-> Bool(daysUntil = 0),
         is_birthday_week |-> Bool(daysUntil \in 0..6),
         is_birthday_month |-> Bool(t.m = b.month),
         days_until_birthday |-> {daysUntil},
         age_years |-> {t.y - y - late : y \in b.year},
         age_turning_this_year |-> {next.y - y : y \in b.year},
         birth_month |-> {b.month},
         birth_day |-> {b.day},
         birth_year |-> b.year,
         zodiac_sign |-> {derived.zodiac},
         chinese_zodiac |-> derived.chinese_zodiac,
         birth_season |-> {derived.season},
         birthstone |-> {derived.birthstone},
         birth_weekday |-> derived.birth_weekday]

-----------------------------------------------------------------------------
(* migrations/005 and rule_sql.rs                                          *)

BdayIsLeap(y) == y % 4 = 0 /\ (y % 100 # 0 \/ y % 400 = 0)

(* Mistake: the rule for leap days left to the Rust side. *)
BdayEffectiveRaw(y, m, d) == DayNumber(Date(y, m, d))

BdayEffective(y, m, d) ==
    DayNumber(IF m = 2 /\ d = 29 /\ ~BdayIsLeap(y) THEN Date(y, 2, 28) ELSE Date(y, m, d))

Coming(m, d, t) == BdayEffective(t.y, m, d) >= DayNumber(t)

BdayDaysUntil(m, d, t) ==
    (IF Coming(m, d, t) THEN BdayEffective(t.y, m, d) ELSE BdayEffective(t.y + 1, m, d))
    - DayNumber(t)

BdayIsToday(m, d, t) == BdayDaysUntil(m, d, t) = 0

BdayAge(year, m, d, t) ==
    {t.y - y - (IF BdayEffective(t.y, m, d) > DayNumber(t) THEN 1 ELSE 0) : y \in year}

BdayAgeTurning(year, m, d, t) ==
    {(IF Coming(m, d, t) THEN t.y ELSE t.y + 1) - y : y \in year}

(* target_expr: the same facts of a stored row, as the WHERE clause has them. *)
TargetExpr(row, t) ==
    [has_birthday_set |-> Bool(TRUE),
     has_birth_year |-> Bool(row.year # {}),
     is_birthday_today |-> Bool(BdayIsToday(row.month, row.day, t)),
     is_birthday_week |-> Bool(BdayDaysUntil(row.month, row.day, t) <= 6),
     is_birthday_month |-> Bool(t.m = row.month),
     days_until_birthday |-> {BdayDaysUntil(row.month, row.day, t)},
     age_years |-> BdayAge(row.year, row.month, row.day, t),
     age_turning_this_year |-> BdayAgeTurning(row.year, row.month, row.day, t),
     birth_month |-> {row.month},
     birth_day |-> {row.day},
     birth_year |-> row.year,
     zodiac_sign |-> {row.zodiac},
     chinese_zodiac |-> row.chinese_zodiac,
     birth_season |-> {row.season},
     birthstone |-> {row.birthstone},
     birth_weekday |-> row.birth_weekday]
=============================================================================
