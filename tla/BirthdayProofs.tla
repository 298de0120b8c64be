--------------------------- MODULE BirthdayProofs ---------------------------
(***************************************************************************)
(* The calendar behind the date rules of Birthday: years have 365 or 366   *)
(* days, a date is where its month begins, and a birthday is celebrated    *)
(* once in every year.                                                     *)
(***************************************************************************)
EXTENDS Birthday, TLAPS

Leap(y) == IF IsLeap(y) THEN 1 ELSE 0

(* The number of the day before a year begins. *)
YearStart(y) == LET z == y - 1 IN 365 * z + z \div 4 - z \div 100 + z \div 400

IsDate(t) ==
    /\ t \in [y : Int, m : 1..12, d : 1..31]
    /\ t.d <= DaysInMonth(t.m, IsLeap(t.y))

(* What validate_date lets through, whatever the year is. *)
IsBirthday(b) ==
    /\ b.month \in 1..12
    /\ b.day \in 1..DaysInMonth(b.month, TRUE)
    /\ b.year \subseteq Int
    /\ \A x, y \in b.year : x = y

(* The days of a month, the leap day apart. *)
Length(m) == DaysInMonth(m, FALSE)
LeapDay(m, y) == IF m = 2 THEN Leap(y) ELSE 0

(* Where the celebration is in the year y. *)
Celebration(b, y) == DayNumber(EffectiveBday(y, b.month, b.day))

-----------------------------------------------------------------------------
LEMMA Div4 == ASSUME NEW y \in Int PROVE y \div 4 = (y - 1) \div 4 + (IF y % 4 = 0 THEN 1 ELSE 0)
  BY SMT

LEMMA Div100 ==
  ASSUME NEW y \in Int PROVE y \div 100 = (y - 1) \div 100 + (IF y % 100 = 0 THEN 1 ELSE 0)
  BY SMT

LEMMA Div400 ==
  ASSUME NEW y \in Int PROVE y \div 400 = (y - 1) \div 400 + (IF y % 400 = 0 THEN 1 ELSE 0)
  BY SMT

LEMMA Mods ==
  ASSUME NEW y \in Int PROVE (y % 400 = 0 => y % 100 = 0) /\ (y % 100 = 0 => y % 4 = 0)
  BY SMT

LEMMA YearLength ==
  ASSUME NEW y \in Int
  PROVE  YearStart(y) \in Int /\ YearStart(y + 1) = YearStart(y) + 365 + Leap(y)
  BY Div4, Div100, Div400, Mods DEF YearStart, Leap, IsLeap

LEMMA LeapIs == ASSUME NEW y PROVE Leap(y) \in {0, 1} /\ (Leap(y) = 1 <=> IsLeap(y))
  BY DEF Leap

LEMMA MonthLength ==
  ASSUME NEW m \in 1..12
  PROVE  /\ Length(m) \in Int /\ Length(m) >= 28 /\ Length(m) <= 31 /\ (m = 2 => Length(m) = 28) /\ (m = 12 => Length(m) = 31)
         /\ DaysInMonth(m, TRUE) = Length(m) + (IF m = 2 THEN 1 ELSE 0)
  BY DEF Length, DaysInMonth

LEMMA LeapLength ==
  ASSUME NEW m \in 1..12, NEW y
  PROVE  DaysInMonth(m, IsLeap(y)) = Length(m) + LeapDay(m, y)
  BY DEF Length, DaysInMonth, LeapDay, Leap

(* Every month begins where the month before it ends. *)
LEMMA MonthStart ==
  ASSUME NEW m \in 1..12
  PROVE  /\ Before[m] \in Int /\ Before[m] >= 0 /\ Before[m] <= 334 /\ Before[m] + Length(m) <= 365
         /\ m = 1 => Before[m] = 0
         /\ m = 12 => Before[m] = 334
  BY DEF Before, DaysInMonth, Length

LEMMA NextMonth ==
  ASSUME NEW m \in 1..11
  PROVE  Before[m + 1] = Before[m] + Length(m)
<1>1. m \in {1, 2, 3, 4, 5, 6, 7, 8, 9, 10, 11}  BY SMT
<1> QED  BY <1>1 DEF Before, DaysInMonth, Length

LEMMA MonthOrder ==
  ASSUME NEW m \in 1..12, NEW n \in 1..12, m < n
  PROVE  Before[n] >= Before[m] + Length(m)
  BY DEF Before, DaysInMonth, Length

LEMMA DateParts ==
  ASSUME NEW t, IsDate(t)
  PROVE  /\ t.m \in 1..12 /\ t.y \in Int /\ t.d \in Int /\ t.d >= 1
         /\ t.d <= Length(t.m) + LeapDay(t.m, t.y)
         /\ t = Date(t.y, t.m, t.d)
<1>1. t \in [y : Int, m : 1..12, d : 1..31] /\ t.d <= DaysInMonth(t.m, IsLeap(t.y))  BY DEF IsDate
<1>2. t.m \in 1..12 /\ t.y \in Int /\ t.d \in 1..31 /\ t = Date(t.y, t.m, t.d)  BY <1>1 DEF Date
<1>3. DaysInMonth(t.m, IsLeap(t.y)) = Length(t.m) + LeapDay(t.m, t.y)  BY <1>2, LeapLength
<1> QED  BY <1>1, <1>2, <1>3

LEMMA DateFromParts ==
  ASSUME NEW y \in Int, NEW m \in 1..12, NEW d \in Int, d >= 1, d <= Length(m) + LeapDay(m, y)
  PROVE  IsDate(Date(y, m, d)) /\ Date(y, m, d).y = y /\ Date(y, m, d).m = m /\ Date(y, m, d).d = d
<1>1. DaysInMonth(m, IsLeap(y)) = Length(m) + LeapDay(m, y)  BY LeapLength
<1>2. Length(m) + LeapDay(m, y) <= 31
  BY MonthLength, LeapIs DEF LeapDay
<1>3. Length(m) \in Int /\ LeapDay(m, y) \in Int  BY MonthLength, LeapIs DEF LeapDay
<1>4. d \in 1..31  BY <1>2, <1>3
<1> QED  BY <1>1, <1>4 DEF IsDate, Date

LEMMA DateNumber ==
  ASSUME NEW y \in Int, NEW m \in 1..12, NEW d \in Int
  PROVE  DayNumber(Date(y, m, d)) = YearStart(y) + Before[m] + (IF m > 2 THEN Leap(y) ELSE 0) + d
<1>1. Before[m] \in Int  BY MonthStart
<1>2. YearStart(y) \in Int  BY YearLength
<1> QED  BY <1>1, <1>2 DEF DayNumber, YearStart, Leap, Date

(* A date is in its year. *)
LEMMA InYear ==
  ASSUME NEW t, IsDate(t)
  PROVE  DayNumber(t) \in YearStart(t.y) + 1 .. YearStart(t.y + 1)
<1> DEFINE y == t.y  m == t.m  d == t.d
<1>1. m \in 1..12 /\ y \in Int /\ d \in Int /\ d >= 1 /\ d <= Length(m) + LeapDay(m, y) /\ t = Date(y, m, d)
  BY DateParts
<1> HIDE DEF y, m, d
<1>2. DayNumber(t) = YearStart(y) + Before[m] + (IF m > 2 THEN Leap(y) ELSE 0) + d
  BY <1>1, DateNumber
<1>3. Before[m] \in Int /\ Before[m] >= 0 /\ Before[m] <= 334 /\ Before[m] + Length(m) <= 365 /\ Length(m) \in Int /\ Length(m) >= 28 /\ Length(m) <= 31
  BY <1>1, MonthStart, MonthLength
<1>4. Leap(y) \in {0, 1} /\ YearStart(y) \in Int /\ YearStart(y + 1) = YearStart(y) + 365 + Leap(y)
  BY <1>1, YearLength, LeapIs
<1>5. DayNumber(t) \in YearStart(y) + 1 .. YearStart(y + 1)
  BY <1>1, <1>2, <1>3, <1>4 DEF LeapDay
<1> QED  BY <1>5 DEF y

LEMMA NumberIsDate ==
  ASSUME NEW y \in Int, NEW m \in 1..12, NEW d \in Int, NEW n \in 1..12, NEW e \in Int,
         IsDate(Date(y, m, d)), IsDate(Date(y, n, e)),
         DayNumber(Date(y, m, d)) = DayNumber(Date(y, n, e))
  PROVE  m = n /\ d = e
<1>1. /\ d >= 1 /\ d <= Length(m) + LeapDay(m, y)
      /\ e >= 1 /\ e <= Length(n) + LeapDay(n, y)
  BY DateParts DEF Date
<1>2. Before[m] \in Int /\ Before[n] \in Int /\ Length(m) \in Int /\ Length(n) \in Int
  BY MonthStart, MonthLength
<1>3. Leap(y) \in {0, 1} /\ YearStart(y) \in Int  BY LeapIs, YearLength
<1>4. Before[m] + (IF m > 2 THEN Leap(y) ELSE 0) + d = Before[n] + (IF n > 2 THEN Leap(y) ELSE 0) + e
  <2>1. DayNumber(Date(y, m, d)) = YearStart(y) + Before[m] + (IF m > 2 THEN Leap(y) ELSE 0) + d
    BY DateNumber
  <2>2. DayNumber(Date(y, n, e)) = YearStart(y) + Before[n] + (IF n > 2 THEN Leap(y) ELSE 0) + e
    BY DateNumber
  <2> DEFINE L == IF m > 2 THEN Leap(y) ELSE 0
             K == IF n > 2 THEN Leap(y) ELSE 0
             S == YearStart(y)  p == Before[m]  q == Before[n]
  <2>3. L \in Int /\ K \in Int /\ S \in Int /\ p \in Int /\ q \in Int  BY <1>2, <1>3
  <2>4. S + p + L + d = S + q + K + e  BY <2>1, <2>2
  <2> HIDE DEF L, K, S, p, q
  <2>5. p + L + d = q + K + e  BY <2>3, <2>4
  <2> QED  BY <2>5 DEF L, K, p, q
<1>5. ~(m < n)
  <2>1. m < n => Before[n] >= Before[m] + Length(m)  BY MonthOrder
  <2> QED  BY <1>1, <1>2, <1>3, <1>4, <2>1 DEF LeapDay
<1>6. ~(n < m)
  <2>1. n < m => Before[m] >= Before[n] + Length(n)  BY MonthOrder
  <2> QED  BY <1>1, <1>2, <1>3, <1>4, <2>1 DEF LeapDay
<1>7. m = n  BY <1>5, <1>6
<1> QED  BY <1>2, <1>3, <1>4, <1>7

LEMMA Tomorrow ==
  ASSUME NEW t, IsDate(t)
  PROVE  /\ IsDate(NextDay(t))
         /\ DayNumber(NextDay(t)) = DayNumber(t) + 1
         /\ \/ NextDay(t).y = t.y
            \/ NextDay(t).y = t.y + 1 /\ DayNumber(t) = YearStart(t.y + 1)
         /\ NextDay(t).m # t.m <=> t.d = Length(t.m) + LeapDay(t.m, t.y)
<1> DEFINE y == t.y  m == t.m  d == t.d
<1>1. m \in 1..12 /\ y \in Int /\ d \in Int /\ d >= 1 /\ d <= Length(m) + LeapDay(m, y) /\ t = Date(y, m, d)
  BY DateParts
<1>2. NextDay(t) = IF d < Length(m) + LeapDay(m, y) THEN Date(y, m, d + 1)
                   ELSE IF m < 12 THEN Date(y, m + 1, 1) ELSE Date(y + 1, 1, 1)
  <2>1. [t EXCEPT !.d = @ + 1] = Date(y, m, d + 1)  BY <1>1 DEF Date
  <2>2. DaysInMonth(m, IsLeap(y)) = Length(m) + LeapDay(m, y)  BY <1>1, LeapLength
  <2> QED  BY <2>1, <2>2 DEF NextDay
<1> HIDE DEF y, m, d
<1>3. /\ Before[m] \in Int /\ Before[m] >= 0 /\ Before[m] <= 334 /\ Length(m) \in Int /\ Length(m) >= 28 /\ Length(m) <= 31 /\ LeapDay(m, y) \in {0, 1}
      /\ Leap(y) \in {0, 1} /\ YearStart(y) \in Int /\ YearStart(y + 1) = YearStart(y) + 365 + Leap(y)
  BY <1>1, MonthStart, MonthLength, YearLength, LeapIs DEF LeapDay
<1>4. DayNumber(t) = YearStart(y) + Before[m] + (IF m > 2 THEN Leap(y) ELSE 0) + d
  BY <1>1, DateNumber
<1>5. CASE d < Length(m) + LeapDay(m, y)
  <2>1. NextDay(t) = Date(y, m, d + 1)  BY <1>2, <1>5
  <2>2. IsDate(Date(y, m, d + 1)) /\ Date(y, m, d + 1).y = y /\ Date(y, m, d + 1).m = m
    <3>1. d + 1 \in Int /\ d + 1 >= 1 /\ d + 1 <= Length(m) + LeapDay(m, y)
      BY <1>1, <1>3, <1>5
    <3>2. m \in 1..12 /\ y \in Int  BY <1>1
    <3> QED  BY ONLY <3>1, <3>2, DateFromParts
  <2>3. DayNumber(Date(y, m, d + 1)) = YearStart(y) + Before[m] + (IF m > 2 THEN Leap(y) ELSE 0) + (d + 1)
    BY <1>1, DateNumber
  <2>4. DayNumber(Date(y, m, d + 1)) = DayNumber(t) + 1  BY <1>1, <1>3, <1>4, <2>3
  <2>5. d # Length(m) + LeapDay(m, y)  BY <1>1, <1>3, <1>5
  <2> QED  BY <2>1, <2>2, <2>4, <2>5 DEF y, m, d
<1>6. CASE d = Length(m) + LeapDay(m, y) /\ m < 12
  <2>1. NextDay(t) = Date(y, m + 1, 1) /\ m + 1 \in 1..12 /\ m \in 1..11  BY <1>1, <1>2, <1>3, <1>6
  <2>2. Length(m + 1) \in Int /\ Length(m + 1) >= 28 /\ Length(m + 1) <= 31 /\ LeapDay(m + 1, y) \in {0, 1}
    BY <2>1, <1>3, MonthLength DEF LeapDay
  <2>3. IsDate(Date(y, m + 1, 1)) /\ Date(y, m + 1, 1).y = y /\ Date(y, m + 1, 1).m = m + 1
    <3>1. 1 <= Length(m + 1) + LeapDay(m + 1, y)  BY <2>2
    <3> QED  BY <1>1, <2>1, <3>1, DateFromParts
  <2>4. DayNumber(Date(y, m + 1, 1))
            = YearStart(y) + Before[m + 1] + (IF m + 1 > 2 THEN Leap(y) ELSE 0) + 1
    BY <1>1, <2>1, DateNumber
  <2>5. Before[m + 1] = Before[m] + Length(m)  BY <2>1, NextMonth
  <2>6. DayNumber(Date(y, m + 1, 1)) = DayNumber(t) + 1
    BY <1>1, <1>3, <1>4, <1>6, <2>4, <2>5 DEF LeapDay
  <2>7. m + 1 # m  BY <1>1
  <2> QED  BY <1>6, <2>1, <2>3, <2>6, <2>7 DEF y, m, d
<1>7. CASE d = Length(m) + LeapDay(m, y) /\ m = 12
  <2>1. NextDay(t) = Date(y + 1, 1, 1) /\ y + 1 \in Int  BY <1>1, <1>2, <1>3, <1>7
  <2>2. Length(1) \in Int /\ Length(1) >= 28 /\ Length(1) <= 31 /\ LeapDay(1, y + 1) = 0 /\ Before[1] = 0
    BY MonthLength, MonthStart DEF LeapDay
  <2>3. IsDate(Date(y + 1, 1, 1)) /\ Date(y + 1, 1, 1).y = y + 1 /\ Date(y + 1, 1, 1).m = 1
    <3>1. 1 <= Length(1) + LeapDay(1, y + 1)  BY <2>2
    <3> QED  BY <2>1, <3>1, DateFromParts
  <2>4. DayNumber(Date(y + 1, 1, 1))
            = YearStart(y + 1) + Before[1] + (IF 1 > 2 THEN Leap(y + 1) ELSE 0) + 1
    BY <2>1, DateNumber
  <2>5. Before[m] = 334 /\ Length(m) = 31  BY <1>1, <1>7, MonthStart, MonthLength
  <2>6. DayNumber(t) = YearStart(y + 1)
    BY <1>1, <1>3, <1>4, <1>7, <2>5 DEF LeapDay
  <2>7. DayNumber(Date(y + 1, 1, 1)) = DayNumber(t) + 1  BY <1>3, <2>2, <2>4, <2>6
  <2> QED  BY <1>7, <2>1, <2>3, <2>6, <2>7 DEF y, m, d
<1> QED
  <2>1. d < Length(m) + LeapDay(m, y) \/ d = Length(m) + LeapDay(m, y)  BY <1>1, <1>3
  <2> QED  BY <1>1, <1>5, <1>6, <1>7, <2>1

LEMMA BirthdayParts ==
  ASSUME NEW b, IsBirthday(b)
  PROVE  /\ b.month \in 1..12 /\ b.day \in Int /\ b.day >= 1
         /\ b.day <= Length(b.month) + (IF b.month = 2 THEN 1 ELSE 0)
         /\ Length(b.month) \in Int /\ Length(b.month) >= 28 /\ Length(b.month) <= 31
         /\ b.month = 2 => Length(b.month) = 28
<1>1. b.month \in 1..12 /\ b.day \in 1..DaysInMonth(b.month, TRUE)  BY DEF IsBirthday
<1>2. /\ DaysInMonth(b.month, TRUE) = Length(b.month) + (IF b.month = 2 THEN 1 ELSE 0)
      /\ Length(b.month) \in Int /\ Length(b.month) >= 28 /\ Length(b.month) <= 31
      /\ b.month = 2 => Length(b.month) = 28
  BY <1>1, MonthLength
<1> DEFINE last == DaysInMonth(b.month, TRUE)  length == Length(b.month)
<1> HIDE DEF last, length
<1>3. CASE b.month = 2
  <2>1. last = length + 1 /\ length \in Int  BY <1>2, <1>3 DEF last, length
  <2>2. b.day \in 1..last  BY <1>1 DEF last
  <2>3. b.day \in Int /\ b.day >= 1 /\ b.day <= length + 1  BY <2>1, <2>2
  <2> QED  BY <1>1, <1>2, <1>3, <2>3 DEF length
<1>4. CASE b.month # 2
  <2>1. last = length + 0 /\ length \in Int  BY <1>2, <1>4 DEF last, length
  <2>2. b.day \in 1..last  BY <1>1 DEF last
  <2>3. b.day \in Int /\ b.day >= 1 /\ b.day <= length + 0  BY <2>1, <2>2
  <2> QED  BY <1>1, <1>2, <1>4, <2>3 DEF length
<1> QED  BY <1>3, <1>4

(* The day of the month on which the birthday is celebrated in the year y. *)
EffDay(b, y) == IF b.month = 2 /\ b.day = 29 /\ ~IsLeap(y) THEN 28 ELSE b.day

LEMMA EffectiveIsDate ==
  ASSUME NEW b, IsBirthday(b), NEW y \in Int
  PROVE  /\ EffectiveBday(y, b.month, b.day) = Date(y, b.month, EffDay(b, y))
         /\ IsDate(Date(y, b.month, EffDay(b, y))) /\ EffDay(b, y) \in Int
<1>1. EffectiveBday(y, b.month, b.day) = Date(y, b.month, EffDay(b, y))
  BY DEF EffectiveBday, EffDay
<1>2. EffDay(b, y) \in Int /\ EffDay(b, y) >= 1 /\ EffDay(b, y) <= Length(b.month) + LeapDay(b.month, y)
  BY BirthdayParts, LeapIs DEF EffDay, LeapDay
<1>3. IsDate(Date(y, b.month, EffDay(b, y)))  BY <1>2, BirthdayParts, DateFromParts
<1> QED  BY <1>1, <1>2, <1>3

(* The celebration of a year is in that year, 365 or 366 days before the next. *)
LEMMA CelebrationIs ==
  ASSUME NEW b, IsBirthday(b), NEW y \in Int
  PROVE  /\ Celebration(b, y) \in YearStart(y) + 1 .. YearStart(y + 1)
         /\ YearStart(y) \in Int /\ YearStart(y + 1) \in Int /\ Celebration(b, y) \in Int
         /\ Celebration(b, y + 1) \in Celebration(b, y) + 365 .. Celebration(b, y) + 366
<1>1. ASSUME NEW z \in Int
      PROVE  /\ Celebration(b, z) = YearStart(z) + Before[b.month]
                    + (IF b.month > 2 THEN Leap(z) ELSE 0) + EffDay(b, z)
             /\ Celebration(b, z) \in YearStart(z) + 1 .. YearStart(z + 1)
             /\ YearStart(z) \in Int /\ YearStart(z + 1) = YearStart(z) + 365 + Leap(z)
             /\ Leap(z) \in {0, 1} /\ (Leap(z) = 1 <=> IsLeap(z))
  <2>1. /\ Celebration(b, z) = DayNumber(Date(z, b.month, EffDay(b, z)))
        /\ IsDate(Date(z, b.month, EffDay(b, z))) /\ EffDay(b, z) \in Int
    BY EffectiveIsDate DEF Celebration
  <2>2. DayNumber(Date(z, b.month, EffDay(b, z))) \in YearStart(z) + 1 .. YearStart(z + 1)
    <3>1. Date(z, b.month, EffDay(b, z)).y = z  BY DEF Date
    <3> QED  BY <2>1, <3>1, InYear
  <2>3. Celebration(b, z) = YearStart(z) + Before[b.month]
            + (IF b.month > 2 THEN Leap(z) ELSE 0) + EffDay(b, z)
    BY <2>1, BirthdayParts, DateNumber
  <2> QED  BY <2>1, <2>2, <2>3, YearLength, LeapIs
<1>2. /\ Celebration(b, y) = YearStart(y) + Before[b.month]
            + (IF b.month > 2 THEN Leap(y) ELSE 0) + EffDay(b, y)
      /\ Celebration(b, y) \in YearStart(y) + 1 .. YearStart(y + 1)
      /\ YearStart(y) \in Int /\ YearStart(y + 1) = YearStart(y) + 365 + Leap(y)
      /\ Leap(y) \in {0, 1} /\ (Leap(y) = 1 <=> IsLeap(y))
  BY <1>1
<1>3. /\ Celebration(b, y + 1) = YearStart(y + 1) + Before[b.month]
            + (IF b.month > 2 THEN Leap(y + 1) ELSE 0) + EffDay(b, y + 1)
      /\ Leap(y + 1) \in {0, 1} /\ (Leap(y + 1) = 1 <=> IsLeap(y + 1))
  <2>1. y + 1 \in Int  OBVIOUS
  <2> QED  BY <1>1, <2>1
<1>4. Before[b.month] \in Int /\ b.day \in Int /\ b.month \in 1..12  BY BirthdayParts, MonthStart
<1>5. Leap(y) = 1 => Leap(y + 1) = 0
  <2>1. IsLeap(y) => ~IsLeap(y + 1)
    BY SMT DEF IsLeap
  <2> QED  BY <1>2, <1>3, <2>1
<1>6. EffDay(b, y + 1) - EffDay(b, y) =
          IF b.month = 2 /\ b.day = 29 THEN Leap(y + 1) - Leap(y) ELSE 0
  BY <1>2, <1>3, <1>4 DEF EffDay
<1>7. EffDay(b, y) \in Int /\ EffDay(b, y + 1) \in Int  BY <1>4 DEF EffDay
<1>8. Celebration(b, y + 1) - Celebration(b, y) =
          365 + Leap(y) + (IF b.month > 2 THEN Leap(y + 1) - Leap(y) ELSE 0)
              + (IF b.month = 2 /\ b.day = 29 THEN Leap(y + 1) - Leap(y) ELSE 0)
  BY <1>2, <1>3, <1>4, <1>6, <1>7
<1>9. Celebration(b, y) \in Int /\ Celebration(b, y + 1) \in Int
  BY <1>2, <1>3, <1>4, <1>7
<1> QED  BY <1>2, <1>3, <1>4, <1>8, <1>9
=============================================================================
