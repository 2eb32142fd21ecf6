--------------------------- MODULE CalendarProofs ---------------------------
(***************************************************************************)
(* Proofs about Calendar: on any day, for any request, every date in it    *)
(* resolves to its next occurrence, 29 February across a century included, *)
(* and the two patterns find exactly the dates the weekday contradicts.    *)
(***************************************************************************)
EXTENDS Calendar, WellFoundedInduction, TLAPS

\* Some numbers have a least one.
LEMMA LeastNumber ==
  ASSUME NEW T, T \subseteq Nat, T # {}
  PROVE  \E i \in T : \A j \in T : i <= j
<1> DEFINE R == OpToRel(<, Nat)
<1>1. IsWellFoundedOn(R, Nat)
  BY NatLessThanWellFounded
<1>2. \A x, y \in T : y < x => <<y, x>> \in R
  BY DEF OpToRel
<1> HIDE DEF R
<1>3. PICK i \in T : \A j \in T : <<j, i>> \notin R
  BY <1>1, WFMin
<1>4. \A j \in T : ~(j < i) /\ j \in Nat /\ i \in Nat
  BY <1>2, <1>3
<1>5. QED
  BY <1>4

\* Eight years in a row hold a leap year: two multiples of 4, of which one at
\* most is a multiple of 100.
LEMMA LeapWithinEight ==
    ASSUME NEW y \in Nat
    PROVE  \E z \in y..(y + 7) : IsLeap(z)
<1> DEFINE r == y % 4
           z == IF r = 0 THEN y ELSE y + (4 - r)
<1>1. r \in 0..3 /\ z \in y..(y + 3) /\ z % 4 = 0
  OBVIOUS
<1>2. CASE z % 100 # 0
  BY <1>1, <1>2 DEF IsLeap
<1>3. CASE z % 100 = 0
  <2>1. (z + 4) % 4 = 0 /\ (z + 4) % 100 # 0
    BY <1>1, <1>3
  <2>2. z + 4 \in y..(y + 7)
    BY <1>1
  <2> QED
    BY <2>1, <2>2 DEF IsLeap
<1> QED
  BY <1>2, <1>3

\* A date that exists in some year exists after today within the years tried.
LEMMA OccursWithinSpan ==
    ASSUME NEW today_ \in Nat \X (1..12) \X (1..31),
           NEW day \in Nat, NEW month \in 1..12,
           NEW y \in Nat, IsDate(y, month, day)
    PROVE  \E z \in YearsTried(today_) : Occurs(z, month, day, today_)
<1> DEFINE first == today_[1]
<1>1. first \in Nat
  OBVIOUS
<1>2. CASE month = 2 /\ day = 29
  <2>1. PICK z \in (first + 1)..(first + 1 + 7) : IsLeap(z)
    <3>1. \A n \in Nat : \E z \in n..(n + 7) : IsLeap(z)
      BY LeapWithinEight
    <3>2. first + 1 \in Nat
      BY <1>1
    <3> HIDE DEF first
    <3> QED
      BY <3>1, <3>2
  <2>2. z \in YearsTried(today_) /\ z > first
    BY <1>1, <2>1 DEF YearsTried, _YEAR_SEARCH_SPAN
  <2>3. IsDate(z, month, day)
    BY <1>2, <2>1 DEF IsDate, MonthLength
  <2> QED
    BY <2>2, <2>3 DEF Occurs, NotBefore
<1>3. CASE ~(month = 2 /\ day = 29)
  <2>1. IsDate(first + 1, month, day)
    BY <1>3 DEF IsDate, MonthLength
  <2>2. first + 1 \in YearsTried(today_)
    BY <1>1 DEF YearsTried, _YEAR_SEARCH_SPAN
  <2> QED
    BY <1>1, <2>1, <2>2 DEF Occurs, NotBefore
<1> QED
  BY <1>2, <1>3

\* A set of some of nine years in a row has a least one.
LEMMA LeastOfNine ==
    ASSUME NEW a \in Nat, NEW S \in SUBSET (a..(a + 8)), S # {}
    PROVE  \E y \in S : \A z \in S : y <= z
<1>1. CASE a \in S
  BY <1>1
<1>2. CASE a \notin S /\ a + 1 \in S
  BY <1>2
<1>3. CASE {a, a + 1} \cap S = {} /\ a + 2 \in S
  BY <1>3
<1>4. CASE {a, a + 1, a + 2} \cap S = {} /\ a + 3 \in S
  BY <1>4
<1>5. CASE {a, a + 1, a + 2, a + 3} \cap S = {} /\ a + 4 \in S
  BY <1>5
<1>6. CASE {a, a + 1, a + 2, a + 3, a + 4} \cap S = {} /\ a + 5 \in S
  BY <1>6
<1>7. CASE {a, a + 1, a + 2, a + 3, a + 4, a + 5} \cap S = {} /\ a + 6 \in S
  BY <1>7
<1>8. CASE {a, a + 1, a + 2, a + 3, a + 4, a + 5, a + 6} \cap S = {}
  <2>1. S \subseteq {a + 7, a + 8}
    BY <1>8
  <2>2. CASE a + 7 \in S
    BY <2>1, <2>2
  <2>3. CASE a + 7 \notin S
    <3>1. S = {a + 8}
      BY <2>1, <2>3
    <3> QED
      BY <3>1
  <2> QED
    BY <2>2, <2>3
<1> QED
  BY <1>1, <1>2, <1>3, <1>4, <1>5, <1>6, <1>7, <1>8

\* What _resolve_year returns: the least year tried that holds the date, and
\* NoDate only for a date of no year.
LEMMA ResolveYear ==
    ASSUME NEW today_ \in Nat \X (1..12) \X (1..31),
           NEW day \in Nat, NEW month \in 1..12
    PROVE  LET year == _resolve_year(day, month, today_)
           IN  \/ /\ year = NoDate
                  /\ \A y \in Nat : ~IsDate(y, month, day)
               \/ /\ year \in YearsTried(today_)
                  /\ Occurs(year, month, day, today_)
                  /\ \A z \in YearsTried(today_) :
                        Occurs(z, month, day, today_) => year <= z
<1> DEFINE years == {y \in YearsTried(today_) : Occurs(y, month, day, today_)}
           year == _resolve_year(day, month, today_)
<1>1. CASE years = {}
  <2>1. year = NoDate
    BY <1>1 DEF _resolve_year
  <2>2. \A y \in Nat : ~IsDate(y, month, day)
    BY <1>1, OccursWithinSpan
  <2> QED
    BY <2>1, <2>2
<1>2. CASE years # {}
  <2>1. today_[1] \in Nat /\ years \subseteq today_[1]..(today_[1] + 8)
    BY DEF YearsTried, _YEAR_SEARCH_SPAN
  <2>2. \E y \in years : \A z \in years : y <= z
    BY <1>2, <2>1, LeastOfNine
  <2>3. year = CHOOSE y \in years : \A z \in years : y <= z
    BY <1>2 DEF _resolve_year
  <2>4. year \in years /\ \A z \in years : year <= z
    <3> HIDE DEF years, year
    <3> QED BY <2>2, <2>3
  <2> QED
    BY <2>4
<1> QED
  BY <1>1, <1>2

-----------------------------------------------------------------------------
\* The request and the day are those of the call.
Given == text \in Texts /\ today \in Todays

LEMMA GivenInvariant == Spec => []Given
<1>1. Init => Given
  BY DEF Init, Given
<1>2. Given /\ [Next]_vars => Given'
  BY DEF Given, Next, NextMatch, NextPattern, Returned, vars
<1> QED
  BY <1>1, <1>2, PTL DEF Spec

\* _resolve_year: whatever the request and the day, a date of any year resolves to
\* its next occurrence, and one of no year to none.
THEOREM ResolvesToNext == Spec => []NearestOccurrence
<1>1. Given => NearestOccurrence
  <2> SUFFICES ASSUME Given, NEW d \in Dates
               PROVE  LET year == _resolve_year(d[1], d[2], today)
                          later == today[1]..(today[1] + 20)
                      IN  IF year = NoDate THEN \A y \in later : ~IsDate(y, d[2], d[1])
                          ELSE /\ Occurs(year, d[2], d[1], today)
                               /\ \A y \in later : Occurs(y, d[2], d[1], today) => year <= y
    BY DEF NearestOccurrence
  <2> DEFINE year == _resolve_year(d[1], d[2], today)
             later == today[1]..(today[1] + 20)
  <2>1. d[1] \in Nat /\ d[2] \in 1..12
    BY TextsAssumption DEF Dates, IsDateToken, Given
  <2>2. today \in Nat \X (1..12) \X (1..31) /\ today[1] \in Nat
    BY TodaysAssumption DEF Given
  <2>3. later \subseteq Nat
    BY <2>2
  <2>4. \/ year = NoDate /\ \A y \in Nat : ~IsDate(y, d[2], d[1])
        \/ /\ year \in YearsTried(today)
           /\ Occurs(year, d[2], d[1], today)
           /\ \A z \in YearsTried(today) : Occurs(z, d[2], d[1], today) => year <= z
    <3> HIDE DEF year
    <3> QED BY <2>1, <2>2, ResolveYear DEF year
  <2>5. CASE year = NoDate
    <3>1. YearsTried(today) \subseteq Nat
      BY <2>2 DEF YearsTried, _YEAR_SEARCH_SPAN
    <3>2. \A y \in Nat : ~IsDate(y, d[2], d[1])
      BY <2>4, <2>5, <3>1, NoDateAssumption
    <3> QED
      BY <2>3, <2>5, <3>2
  <2>6. CASE year # NoDate
    <3>1. year \in Nat /\ year <= today[1] + 8
      BY <2>2, <2>4, <2>6 DEF YearsTried, _YEAR_SEARCH_SPAN
    <3>2. ASSUME NEW y \in later, Occurs(y, d[2], d[1], today)
          PROVE  year <= y
      <4>1. CASE y \in YearsTried(today)
        BY <2>4, <2>6, <3>2, <4>1
      <4>2. CASE y \notin YearsTried(today)
        BY <2>2, <3>1, <4>2 DEF YearsTried, _YEAR_SEARCH_SPAN
      <4> QED
        BY <4>1, <4>2
    <3> QED
      BY <2>4, <2>6, <3>2
  <2> QED
    BY <2>5, <2>6
<1> QED
  BY <1>1, GivenInvariant, PTL

-----------------------------------------------------------------------------
\* What is in conflicts so far: dates already seen, one question each, on a weekday
\* of the request near them.
Weekdays == {text[i].weekday : i \in 1..Len(text)}

Scanned ==
    /\ Given
    /\ at \in Nat \ {0}
    /\ conflicts \in Seq([date : Dates, year : Nat, said : Weekdays])
    /\ \A c \in DOMAIN conflicts : conflicts[c].date \in seen
    /\ QuestionedOnce

\* The weekday and the date of a match are near each other.
LEMMA MatchIsNear ==
    ASSUME at \in Nat \ {0}, Len(text) \in Nat, NEW m \in Matches
    PROVE  LET i == IF pattern = 1 THEN m[1] ELSE m[2]
               j == IF pattern = 1 THEN m[2] ELSE m[1]
           IN  /\ i \in 1..Len(text) /\ j \in 1..Len(text)
               /\ IsDateToken(text[j]) /\ text[i].weekday \in Claims(j)
<1> DEFINE i == IF pattern = 1 THEN m[1] ELSE m[2]
           j == IF pattern = 1 THEN m[2] ELSE m[1]
<1>1. Match(m[1], m[2]) /\ m[1] \in 1..Len(text) /\ m[2] \in 1..Len(text)
  BY DEF Matches
<1>2. IsWeekday(text[i]) /\ IsDateToken(text[j])
  BY <1>1 DEF Match
<1>3. Near(i, j)
  BY <1>1 DEF Match, Near
<1>4. i \in 1..Len(text) /\ j \in 1..Len(text)
  BY <1>1
<1> HIDE DEF i, j
<1>5. text[i].weekday \in Claims(j)
  BY <1>2, <1>3, <1>4 DEF Claims
<1> QED
  BY <1>2, <1>4, <1>5 DEF i, j

\* A date questioned for the first time, on a weekday near it, keeps QuestionedOnce.
LEMMA AskingOnce ==
    ASSUME Scanned, NEW j \in 1..Len(text), IsDateToken(text[j]),
           NEW year \in Nat, NEW said \in Claims(j),
           text[j].date \notin seen,
           text' = text,
           conflicts' = Append(conflicts, [date |-> text[j].date, year |-> year, said |-> said])
    PROVE  /\ conflicts' \in Seq([date : Dates, year : Nat, said : Weekdays])
           /\ \A c \in DOMAIN conflicts' :
                conflicts'[c].date \in seen \cup {text[j].date}
           /\ QuestionedOnce'
<1> DEFINE new == [date |-> text[j].date, year |-> year, said |-> said]
           Asked == [date : Dates, year : Nat, said : Weekdays]
           n == Len(conflicts)
<1>1. text[j].date \in Dates /\ said \in Weekdays
  BY DEF Dates, Weekdays, Claims
<1>2. new \in Asked /\ conflicts \in Seq(Asked)
  BY <1>1 DEF Scanned
<1>3. new.date = text[j].date /\ new.said = said
  OBVIOUS
<1> HIDE DEF new, Asked
<1>4. conflicts' = Append(conflicts, new)
  BY DEF new
<1>5. /\ conflicts' \in Seq(Asked) /\ n \in Nat
      /\ DOMAIN conflicts = 1..n /\ DOMAIN conflicts' = 1..(n + 1)
      /\ \A c \in 1..n : conflicts'[c] = conflicts[c]
      /\ conflicts'[n + 1] = new
  BY <1>2, <1>4
<1>6. \A c \in 1..n : conflicts[c].date \in seen
  BY <1>5 DEF Scanned
<1>7. ASSUME NEW c \in DOMAIN conflicts', NEW d \in DOMAIN conflicts',
             conflicts'[c].date = conflicts'[d].date
      PROVE  c = d
  <2>1. CASE c \in 1..n /\ d \in 1..n
    BY <1>5, <1>7, <2>1 DEF Scanned, QuestionedOnce
  <2>2. CASE c = n + 1 /\ d \in 1..n
    BY <1>3, <1>5, <1>6, <1>7, <2>2
  <2>3. CASE c \in 1..n /\ d = n + 1
    BY <1>3, <1>5, <1>6, <1>7, <2>3
  <2> QED
    BY <1>5, <2>1, <2>2, <2>3
<1>8. ASSUME NEW c \in DOMAIN conflicts'
      PROVE  \E k \in 1..Len(text) :
                /\ IsDateToken(text[k]) /\ text[k].date = conflicts'[c].date
                /\ conflicts'[c].said \in Claims(k)
  <2>1. CASE c \in 1..n
    BY <1>5, <2>1 DEF Scanned, QuestionedOnce
  <2>2. CASE c = n + 1
    BY <1>3, <1>5, <2>2
  <2> QED
    BY <1>5, <2>1, <2>2
<1>9. QuestionedOnce'
  BY <1>7, <1>8 DEF QuestionedOnce, Claims, Near
<1> QED
  BY <1>3, <1>5, <1>6, <1>9 DEF Asked

LEMMA StaysScanned == ASSUME Scanned, [Next]_vars PROVE Scanned'
<1>1. Given'
  BY DEF Scanned, Given, Next, NextMatch, NextPattern, Returned, vars
<1>2. CASE NextMatch
  <2> DEFINE i(m) == IF pattern = 1 THEN m[1] ELSE m[2]
             j(m) == IF pattern = 1 THEN m[2] ELSE m[1]
  <2>1. PICK m \in Matches :
          LET weekday == text[i(m)].weekday
              date == text[j(m)].date
              year == _resolve_year(date[1], date[2], today)
          IN  /\ at' = Resume(m)
              /\ seen' = seen \cup {date}
              /\ conflicts' =
                  IF Fresh(date) /\ year # NoDate /\ Weekday(year, date[2], date[1]) # weekday
                  THEN Append(conflicts, [date |-> date, year |-> year, said |-> weekday])
                  ELSE conflicts
              /\ UNCHANGED <<text, today, pattern>>
    BY <1>2 DEF NextMatch
  <2>2. Len(text) \in Nat /\ at \in Nat \ {0}
    BY TextsAssumption DEF Scanned, Given
  <2>3. /\ i(m) \in 1..Len(text) /\ j(m) \in 1..Len(text)
        /\ IsDateToken(text[j(m)]) /\ text[i(m)].weekday \in Claims(j(m))
    BY <2>2, MatchIsNear
  <2>4. at' \in Nat \ {0}
    BY <2>1, <2>2 DEF Resume, Matches
  <2> DEFINE date == text[j(m)].date
             year == _resolve_year(date[1], date[2], today)
             said == text[i(m)].weekday
  <2>5. year = NoDate \/ year \in Nat
    <3>1. date \in Nat \X (1..12) /\ today \in Nat \X (1..12) \X (1..31)
      BY <2>3, TextsAssumption, TodaysAssumption DEF Scanned, Given, IsDateToken
    <3>2. YearsTried(today) \subseteq Nat
      BY <3>1 DEF YearsTried, _YEAR_SEARCH_SPAN
    <3> QED
      BY <3>1, <3>2, ResolveYear
  <2>6. CASE Fresh(date) /\ year # NoDate /\ Weekday(year, date[2], date[1]) # said
    <3>1. conflicts' = Append(conflicts, [date |-> date, year |-> year, said |-> said])
      BY <2>1, <2>6
    <3>2. text' = text /\ seen' = seen \cup {date} /\ date \notin seen
      BY <2>1, <2>6 DEF Fresh
    <3> HIDE DEF year, said
    <3>3. /\ conflicts' \in Seq([date : Dates, year : Nat, said : Weekdays])
          /\ \A c \in DOMAIN conflicts' : conflicts'[c].date \in seen \cup {date}
          /\ QuestionedOnce'
      BY <2>3, <2>5, <2>6, <3>1, <3>2, AskingOnce DEF said
    <3> QED
      BY <1>1, <2>4, <3>2, <3>3 DEF Scanned, Dates, Weekdays
  <2>7. CASE ~(Fresh(date) /\ year # NoDate /\ Weekday(year, date[2], date[1]) # said)
    <3>1. conflicts' = conflicts /\ text' = text /\ seen' = seen \cup {date}
      BY <2>1, <2>7
    <3> QED
      BY <1>1, <2>4, <3>1 DEF Scanned, Dates, Weekdays, QuestionedOnce, Claims, Near
  <2> QED
    BY <2>6, <2>7
<1>3. CASE NextPattern \/ Returned \/ UNCHANGED vars
  <2>1. /\ text' = text /\ seen' = seen /\ conflicts' = conflicts
        /\ at' \in {at, 1}
    BY <1>3 DEF NextPattern, Returned, vars
  <2> QED
    BY <1>1, <2>1 DEF Scanned, Dates, Weekdays, QuestionedOnce, Claims, Near
<1> QED
  BY <1>2, <1>3 DEF Next

\* check_calendar_consistency asks about a date at most once, and only over a weekday
\* that the user wrote near it.
THEOREM AsksOnce == Spec => []QuestionedOnce
<1>1. Init => Scanned
  BY DEF Init, Scanned, Given, QuestionedOnce
<1>2. Scanned /\ [Next]_vars => Scanned'
  BY StaysScanned
<1>3. Scanned => QuestionedOnce
  BY DEF Scanned
<1> QED
  BY <1>1, <1>2, <1>3, PTL DEF Spec

-----------------------------------------------------------------------------
\* The next occurrence of the date falls on another weekday.
Wrong(date, said) ==
    LET year == _resolve_year(date[1], date[2], today)
    IN  year # NoDate /\ Weekday(year, date[2], date[1]) # said

\* The date at j is plain, and the one weekday it stands with is not its own.
Contradicted(j) == Plain(j) /\ \E w \in 0..6 : Claims(j) = {w} /\ Wrong(text[j].date, w)

\* Every question is about such a date; and such a date, once seen, was questioned.
Judged ==
    /\ \A c \in DOMAIN conflicts : Wrong(conflicts[c].date, conflicts[c].said)
    /\ \A j \in 1..Len(text) : Contradicted(j) /\ text[j].date \in seen =>
        \E c \in DOMAIN conflicts : conflicts[c].date = text[j].date

\* A weekday near a plain date leads to it: the first pattern if it stands before
\* the date, the second if after.
Reached ==
    /\ pattern \in 1..3
    /\ \A i, j \in 1..Len(text) :
        IsWeekday(text[i]) /\ Plain(j) /\ Near(i, j) =>
            \/ text[j].date \in seen
            \/ i < j /\ pattern = 1 /\ at <= i
            \/ j < i /\ pattern = 1
            \/ j < i /\ pattern = 2 /\ at <= j

Found == Scanned /\ Judged /\ Reached

LEMMA LengthIsNat == ASSUME Scanned PROVE Len(text) \in Nat /\ at \in Nat \ {0}
  BY TextsAssumption DEF Scanned, Given

\* A weekday still ahead of the first pattern, before a plain date, matches with it;
\* and whatever matches first either is that date or ends before the weekday.
LEMMA FirstPatternReaches ==
    ASSUME Scanned, pattern = 1,
           NEW i \in 1..Len(text), NEW j \in 1..Len(text),
           IsWeekday(text[i]), Plain(j), Near(i, j), i < j, at <= i
    PROVE  /\ <<i, j>> \in Matches
           /\ \A m \in Matches : (\A n \in Matches : m[1] <= n[1]) => m[2] = j \/ m[2] < i
<1>1. Len(text) \in Nat /\ at \in Nat \ {0}
  BY LengthIsNat
<1>2. \A k \in i..j : IsDateToken(text[k]) => k = j
  BY <1>1 DEF Plain, Near
<1>3. Match(i, j)
  BY <1>1, <1>2 DEF Match, Plain
<1>4. <<i, j>> \in Matches
  BY <1>1, <1>3 DEF Matches
<1>5. ASSUME NEW m \in Matches, \A n \in Matches : m[1] <= n[1]
      PROVE  m[2] = j \/ m[2] < i
  <2>1. /\ m[1] \in 1..Len(text) /\ m[2] \in 1..Len(text) /\ m[1] <= i
        /\ IsDateToken(text[m[2]])
        /\ \A k \in m[1]..(m[2] - 1) : ~IsDateToken(text[k])
    BY <1>1, <1>4, <1>5 DEF Matches, Match
  <2>2. m[2] <= j
    BY <1>1, <2>1 DEF Plain
  <2> QED
    BY <1>1, <1>2, <2>1, <2>2
<1> QED
  BY <1>4, <1>5

\* So with the second pattern and a date before its weekday: the nearest weekday
\* after the date is the one it matches.
LEMMA SecondPatternReaches ==
    ASSUME Scanned, pattern = 2,
           NEW i \in 1..Len(text), NEW j \in 1..Len(text),
           IsWeekday(text[i]), Plain(j), Near(i, j), j < i, at <= j
    PROVE  /\ Matches # {}
           /\ \A m \in Matches : (\A n \in Matches : m[1] <= n[1]) => m[1] = j \/ m[2] < j
<1>1. Len(text) \in Nat /\ at \in Nat \ {0}
  BY LengthIsNat
<1> DEFINE After == {k \in j..i : IsWeekday(text[k])}
<1>2. After \subseteq Nat /\ i \in After
  BY <1>1
<1>3. PICK w \in After : \A k \in After : w <= k
  <2> HIDE DEF After
  <2> QED
    BY <1>2, LeastNumber
<1>4. w \in j..i /\ IsWeekday(text[w]) /\ w # j
  BY <1>1, <1>3 DEF Plain, IsWeekday, IsDateToken
<1>5. \A k \in j..(w - 1) : ~IsWeekday(text[k])
  BY <1>1, <1>3, <1>4
<1>6. Match(j, w)
  BY <1>1, <1>4, <1>5 DEF Match, Near, Plain
<1>7. <<j, w>> \in Matches
  BY <1>1, <1>4, <1>6 DEF Matches
<1>8. ASSUME NEW m \in Matches, \A n \in Matches : m[1] <= n[1]
      PROVE  m[1] = j \/ m[2] < j
  <2>1. /\ m[1] \in 1..Len(text) /\ m[2] \in 1..Len(text) /\ m[1] <= j
        /\ IsDateToken(text[m[1]]) /\ m[1] < m[2] /\ Near(m[1], m[2])
    BY <1>1, <1>7, <1>8 DEF Matches, Match
  <2>2. CASE m[1] # j /\ j <= m[2]
    <3>1. Near(m[1], j)
      BY <1>1, <2>1, <2>2 DEF Near
    <3> QED
      BY <2>1, <2>2, <3>1 DEF Plain
  <2> QED
    BY <1>1, <2>1, <2>2
<1> QED
  BY <1>7, <1>8

\* finditer skips no plain date that has a weekday near it.
LEMMA StaysReached == ASSUME Scanned, Reached, [Next]_vars PROVE Reached'
<1>1. Len(text) \in Nat /\ at \in Nat \ {0}
  BY LengthIsNat
<1>2. CASE NextMatch
  <2>1. /\ text' = text /\ pattern' = pattern
        /\ \E m \in Matches :
            /\ \A n \in Matches : m[1] <= n[1]
            /\ at' = m[2] + 1
            /\ seen' = seen \cup {IF pattern = 1 THEN text[m[2]].date ELSE text[m[1]].date}
    BY <1>2 DEF NextMatch, Resume
  <2>2. PICK m \in Matches :
            /\ \A n \in Matches : m[1] <= n[1]
            /\ at' = m[2] + 1
            /\ seen' = seen \cup {IF pattern = 1 THEN text[m[2]].date ELSE text[m[1]].date}
    BY <2>1
  <2>3. m[2] \in Nat
    BY <1>1 DEF Matches
  <2>4. ASSUME NEW i \in 1..Len(text), NEW j \in 1..Len(text),
               IsWeekday(text[i]), Plain(j), Near(i, j)
        PROVE  \/ text[j].date \in seen'
               \/ i < j /\ pattern = 1 /\ at' <= i
               \/ j < i /\ pattern = 1
               \/ j < i /\ pattern = 2 /\ at' <= j
    <3>1. CASE text[j].date \in seen
      BY <2>2, <3>1
    <3>2. CASE i < j /\ pattern = 1 /\ at <= i
      <4>1. m[2] = j \/ m[2] < i
        BY <2>2, <2>4, <3>2, FirstPatternReaches
      <4> QED
        BY <2>2, <2>3, <3>2, <4>1
    <3>3. CASE j < i /\ pattern = 2 /\ at <= j
      <4>1. m[1] = j \/ m[2] < j
        BY <2>2, <2>4, <3>3, SecondPatternReaches
      <4> QED
        BY <2>2, <2>3, <3>3, <4>1
    <3> QED
      BY <2>4, <3>1, <3>2, <3>3 DEF Reached
  <2> QED
    BY <2>1, <2>4 DEF Reached, Plain, Near
<1>3. CASE NextPattern
  <2>1. /\ pattern < 3 /\ Matches = {} /\ pattern' = pattern + 1 /\ at' = 1
        /\ text' = text /\ seen' = seen
    BY <1>3 DEF NextPattern
  <2>2. pattern' \in 1..3
    BY <2>1 DEF Reached
  <2>3. ASSUME NEW i \in 1..Len(text), NEW j \in 1..Len(text),
               IsWeekday(text[i]), Plain(j), Near(i, j)
        PROVE  \/ text[j].date \in seen
               \/ j < i /\ pattern' = 2 /\ at' <= j
    <3>1. ~(i < j /\ pattern = 1 /\ at <= i)
      BY <2>1, <2>3, FirstPatternReaches
    <3>2. ~(j < i /\ pattern = 2 /\ at <= j)
      BY <2>1, <2>3, SecondPatternReaches
    <3> QED
      BY <1>1, <2>1, <2>3, <3>1, <3>2 DEF Reached
  <2> QED
    BY <2>1, <2>2, <2>3 DEF Reached, Plain, Near
<1>4. CASE Returned \/ UNCHANGED vars
  BY <1>4 DEF Returned, vars, Reached, Plain, Near
<1> QED
  BY <1>2, <1>3, <1>4 DEF Next

LEMMA SameRequest ==
    ASSUME text' = text, today' = today
    PROVE  /\ \A date, said : Wrong(date, said)' <=> Wrong(date, said)
           /\ \A j : Contradicted(j)' <=> Contradicted(j)
<1>1. \A date, said : Wrong(date, said)' <=> Wrong(date, said)
  BY DEF Wrong
<1>2. ASSUME NEW j PROVE Contradicted(j)' <=> Contradicted(j)
  BY <1>1 DEF Contradicted, Plain, Claims, Near
<1> QED
  BY <1>1, <1>2

\* A date is judged when it is first seen, on the weekday it was matched with: for a
\* plain date, the only one there is.
LEMMA StaysJudged == ASSUME Scanned, Judged, [Next]_vars PROVE Judged'
<1>1. Len(text) \in Nat /\ at \in Nat \ {0}
  BY LengthIsNat
<1>2. CASE NextMatch
  <2> DEFINE i(m) == IF pattern = 1 THEN m[1] ELSE m[2]
             j(m) == IF pattern = 1 THEN m[2] ELSE m[1]
  <2>1. PICK m \in Matches :
          LET said == text[i(m)].weekday
              date == text[j(m)].date
              year == _resolve_year(date[1], date[2], today)
          IN  /\ seen' = seen \cup {date}
              /\ conflicts' =
                  IF Fresh(date) /\ Wrong(date, said)
                  THEN Append(conflicts, [date |-> date, year |-> year, said |-> said])
                  ELSE conflicts
              /\ UNCHANGED <<text, today, pattern>>
    BY <1>2 DEF NextMatch, Wrong
  <2>2. /\ i(m) \in 1..Len(text) /\ j(m) \in 1..Len(text)
        /\ IsDateToken(text[j(m)]) /\ text[i(m)].weekday \in Claims(j(m))
    BY <1>1, MatchIsNear
  <2> DEFINE date == text[j(m)].date
             said == text[i(m)].weekday
             new == [date |-> date, year |-> _resolve_year(date[1], date[2], today),
                     said |-> said]
             asks == Fresh(date) /\ Wrong(date, said)
             N == Len(conflicts)
  <2>3. /\ text' = text /\ today' = today /\ seen' = seen \cup {date}
        /\ conflicts' = IF asks THEN Append(conflicts, new) ELSE conflicts
    BY <2>1
  <2>4. new.date = date /\ new.said = said
    OBVIOUS
  <2>5. N \in Nat /\ DOMAIN conflicts = 1..N
    BY DEF Scanned
  <2>6. \A k \in 1..Len(text) : Plain(k) /\ text[k].date = date => j(m) = k
    BY <2>2 DEF Plain
  <2> HIDE DEF i, j, new, date, said, asks
  <2>7. /\ \A c \in 1..N : c \in DOMAIN conflicts' /\ conflicts'[c] = conflicts[c]
        /\ asks => DOMAIN conflicts' = 1..(N + 1) /\ conflicts'[N + 1] = new
        /\ ~asks => conflicts' = conflicts
    <3> DEFINE Asked == [date : Dates, year : Nat, said : Weekdays]
    <3>1. conflicts \in Seq(Asked \cup {new})
      <4>1. conflicts \in Seq(Asked)
        BY DEF Scanned
      <4> HIDE DEF Asked
      <4> QED
        BY <4>1
    <3> HIDE DEF Asked, N
    <3>2. /\ \A c \in 1..N : Append(conflicts, new)[c] = conflicts[c]
          /\ DOMAIN Append(conflicts, new) = 1..(N + 1)
          /\ Append(conflicts, new)[N + 1] = new
      BY <3>1 DEF N
    <3>3. \A c \in 1..N : c \in 1..(N + 1)
      BY <2>5
    <3> QED
      BY <2>3, <2>5, <3>2, <3>3
  <2>8. ASSUME NEW c \in DOMAIN conflicts'
        PROVE  Wrong(conflicts'[c].date, conflicts'[c].said)
    <3>1. CASE c \in 1..N
      BY <2>5, <2>7, <3>1 DEF Judged
    <3>2. CASE c \notin 1..N
      BY <2>4, <2>5, <2>7, <3>2 DEF asks
    <3> QED
      BY <3>1, <3>2
  <2>9. ASSUME NEW k \in 1..Len(text), Contradicted(k), text[k].date \in seen'
        PROVE  \E c \in DOMAIN conflicts' : conflicts'[c].date = text[k].date
    <3>1. CASE text[k].date \in seen
      BY <2>5, <2>7, <2>9, <3>1 DEF Judged
    <3>2. CASE text[k].date \notin seen
      <4>1. text[k].date = date
        BY <2>3, <2>9, <3>2
      <4>2. j(m) = k
        BY <2>6, <2>9, <4>1 DEF Contradicted
      <4>3. said \in Claims(k)
        BY <2>2, <4>2 DEF said
      <4>4. asks
        BY <2>9, <3>2, <4>1, <4>3 DEF asks, Fresh, Contradicted
      <4> QED
        BY <2>4, <2>5, <2>7, <4>1, <4>4
    <3> QED
      BY <3>1, <3>2
  <2> QED
    BY <2>3, <2>8, <2>9, SameRequest DEF Judged
<1>3. CASE NextPattern \/ Returned \/ UNCHANGED vars
  <2>1. text' = text /\ today' = today /\ seen' = seen /\ conflicts' = conflicts
    BY <1>3 DEF NextPattern, Returned, vars
  <2> QED
    BY <2>1, SameRequest DEF Judged
<1> QED
  BY <1>2, <1>3 DEF Next

\* check_calendar_consistency: when a date stands with one weekday, it is questioned
\* exactly if its next occurrence falls on another day of the week.
THEOREM TyposAreFound == Spec => []TyposFound
<1>1. Init => Found
  <2> SUFFICES ASSUME Init PROVE Found
    OBVIOUS
  <2>1. Scanned
    BY DEF Init, Scanned, Given, QuestionedOnce
  <2>2. Judged
    BY DEF Init, Judged
  <2>3. ASSUME NEW i \in 1..Len(text), NEW j \in 1..Len(text), IsWeekday(text[i]), Plain(j)
        PROVE  i < j \/ j < i
    BY <2>1, <2>3, LengthIsNat DEF Plain, IsWeekday, IsDateToken
  <2>4. Reached
    BY <2>1, <2>3, LengthIsNat DEF Init, Reached
  <2> QED
    BY <2>1, <2>2, <2>4 DEF Found
<1>2. Found /\ [Next]_vars => Found'
  BY StaysScanned, StaysJudged, StaysReached DEF Found
<1>3. Found => TyposFound
  <2> SUFFICES ASSUME Found, pattern = 3, NEW j \in 1..Len(text),
                      Plain(j), NEW w \in 0..6, Claims(j) = {w}
               PROVE  (\E c \in DOMAIN conflicts : conflicts[c].date = text[j].date)
                        <=> Wrong(text[j].date, w)
    BY DEF TyposFound, Found, Scanned, Wrong
  <2>1. text[j].date \in seen
    <3>1. PICK i \in 1..Len(text) : IsWeekday(text[i]) /\ Near(i, j)
      BY DEF Claims
    <3> QED
      BY <3>1 DEF Found, Reached
  <2>2. ASSUME NEW c \in DOMAIN conflicts, conflicts[c].date = text[j].date
        PROVE  Wrong(text[j].date, w)
    <3>1. PICK k \in 1..Len(text) :
            /\ IsDateToken(text[k]) /\ text[k].date = conflicts[c].date
            /\ conflicts[c].said \in Claims(k)
      BY DEF Found, Scanned, QuestionedOnce
    <3>2. k = j
      BY <2>2, <3>1 DEF Plain
    <3> QED
      BY <2>2, <3>1, <3>2 DEF Found, Judged
  <2>3. ASSUME Wrong(text[j].date, w)
        PROVE  \E c \in DOMAIN conflicts : conflicts[c].date = text[j].date
    BY <2>1, <2>3 DEF Found, Judged, Contradicted
  <2> QED
    BY <2>2, <2>3
<1> QED
  BY <1>1, <1>2, <1>3, PTL DEF Spec
=============================================================================
