-------------------------- MODULE MCBirthdayRules --------------------------
(* Instances of BirthdayRules for TLC.  Birthdays: leap days and their neighbours
   and the ends of the year, followed through leap years and the centuries that
   are (2000) and are not (1900, 2100) leap years.  Rules: every target with every
   operator, with literals below, among and above the facts.  Texts and truth
   values are model values: literals of different kinds are compared. *)
EXTENDS BirthdayRules

CONSTANTS
    capricorn, aquarius, pisces, aries, taurus, gemini,
    cancer, leo, virgo, libra, scorpio, sagittarius,
    rat, ox, tiger, rabbit, dragon, snake, horse, goat, monkey, rooster, dog, pig,
    winter, spring, summer, autumn,
    garnet, amethyst, aquamarine, diamond, emerald, pearl,
    ruby, peridot, sapphire, opal, topaz, turquoise,
    monday, tuesday, wednesday, thursday, friday, saturday, sunday,
    Winter, Capricorn,              \* capitals
    typo, broken, ri, dot,          \* no text, no regex, a part, a pattern
    named, bounded                  \* patterns: (?P<n>ri) and \bfriday\b

ZodiacSigns == <<capricorn, aquarius, pisces, aries, taurus, gemini,
                 cancer, leo, virgo, libra, scorpio, sagittarius>>
ChineseZodiacs == <<rat, ox, tiger, rabbit, dragon, snake,
                    horse, goat, monkey, rooster, dog, pig>>
Seasons == <<winter, spring, summer, autumn>>
Birthstones == <<garnet, amethyst, aquamarine, diamond, emerald, pearl,
                 ruby, peridot, sapphire, opal, topaz, turquoise>>
Weekdays == <<monday, tuesday, wednesday, thursday, friday, saturday, sunday>>

Texts == UNION {StringChoices(t) : t \in StringTargets}
            \union {Winter, Capricorn, Fall, typo, broken, ri, dot, named, bounded}
SomeLower == [s \in Texts |-> CASE s = Winter -> winter [] s = Capricorn -> capricorn [] OTHER -> s]
SomeWithin == {<<s, s>> : s \in Texts} \union {<<ri, a>> : a \in {spring, capricorn, friday, tiger}}
SomeMatching ==
    SomeWithin \union {<<dot, a>> : a \in {winter, capricorn, dragon, rabbit}}
        \union {<<named, a>> : a \in {spring, capricorn, friday, tiger}}
        \union {<<bounded, a>> : a \in {friday}}
(* To Postgres the named group is no regex, and \b is a backspace. *)
SomePgMatching == {x \in SomeMatching : x[1] \notin {named, bounded}}

Days == {<<1, 1>>, <<2, 28>>, <<2, 29>>, <<3, 1>>, <<6, 30>>, <<12, 31>>, <<4, 31>>}
SomeBirthdays ==
    {[month |-> x[1], day |-> x[2], year |-> y] :
        x \in Days, y \in {{}, {1899}, {1904}, {1999}, {2000}, {2101}}}
Yearless == {b \in SomeBirthdays : b.year = {}}
SomeFirstDays == {Date(1904, 1, 1), Date(1999, 12, 31), Date(2023, 2, 27), Date(2099, 12, 31)}

Condition(target, op, typed, values, end) ==
    [target |-> target, operator |-> op, typed |-> typed, values |-> values, end |-> end]

(* Numbers that some member is told, of each target. *)
Told(t) == CASE t = "days_until_birthday" -> {0, 364} [] t = "age_years" -> {0, 24}
             [] t = "age_turning_this_year" -> {0, 24} [] t = "birth_month" -> {2, 12}
             [] t = "birth_day" -> {28, 29} [] t = "birth_year" -> {1904, 2000}
Text(t) == CASE t = "zodiac_sign" -> {capricorn, Capricorn} [] t = "chinese_zodiac" -> {rabbit, typo}
             [] t = "birth_season" -> {Winter, Fall} [] t = "birthstone" -> {garnet, winter}
             [] t = "birth_weekday" -> {friday, monday}
Scalars == {"eq", "neq", "gt", "gte", "lt", "lte"}

Bools == {Condition(t, op, TRUE, {b}, {}) : t \in BoolTargets, op \in {"eq", "neq"}, b \in {Yes, No}}
Ints == UNION {
    {Condition(t, op, TRUE, {n}, {}) : op \in Scalars, n \in Told(t)}
    \union {Condition(t, "between", TRUE, {n}, e) : n \in Told(t), e \in {{}, Told(t)} \union {{m} : m \in Told(t)}}
    \union {Condition(t, op, TRUE, v, {}) : op \in ListOps, v \in {{}, Told(t), Told(t) \union {9999}}}
    : t \in IntTargets}
Strings == UNION {
    {Condition(t, op, TRUE, {s}, {}) : op \in {"eq", "neq", "gt"}, s \in Text(t)}
    \union {Condition(t, op, TRUE, {s}, {}) : op \in {"contains", "regex"}, s \in {ri, dot, broken, named, bounded}}
    \union {Condition(t, op, TRUE, v, {}) : op \in ListOps, v \in {{}, Text(t)} \union {{s} : s \in Text(t)}}
    : t \in StringTargets}
Malformed == {Condition("shoe_size", "eq", TRUE, {2}, {}), Condition("birth_day", "eq", FALSE, {2}, {}),
              Condition("birth_day", "contains", TRUE, {2}, {}), Condition("birth_day", "eq", TRUE, {2, 3}, {})}
Some == Bools \union Ints \union Strings \union Malformed

(* Each condition alone, with another in its group, and with one in the next;
   and the shapes that are refused. *)
Younger == Condition("age_years", "lt", TRUE, {24}, {})
NoRabbit == Condition("chinese_zodiac", "neq", TRUE, {rabbit}, {})
Shapes(c) == {<< <<c>> >>, << <<c, Younger>> >>, << <<c>>, <<NoRabbit>> >>}
SomeBodies ==
    {[grant |-> g, groups |-> <<>>] : g \in BOOLEAN}
    \union {[grant |-> FALSE, groups |-> s] :
               s \in UNION {Shapes(c) : c \in Some}
                     \union {<< <<>>, <<Younger>> >>, << <<Younger>>, <<Younger>>, <<Younger>> >>,
                             << <<Younger, Younger, Younger>> >>}}

(* What the two do not agree on, each alone. *)
Disputed ==
    {Condition("birth_weekday", "regex", TRUE, {s}, {}) : s \in {named, bounded}}
    \union {Condition("birth_year", "in", TRUE, {2000, 9999}, {})}
DisputedBodies == {[grant |-> FALSE, groups |-> << <<c>> >>] : c \in Disputed}
=============================================================================
