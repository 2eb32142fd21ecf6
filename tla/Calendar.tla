------------------------------ MODULE Calendar ------------------------------
(***************************************************************************)
(* check_calendar_consistency of tutu_mcp/premises.py: the user's request  *)
(* is scanned for weekdays that stand near a date, and a weekday that is   *)
(* not the date's own is a conflict.                                       *)
(*                                                                         *)
(* A request is a sequence of tokens: a weekday, a date without a year, or *)
(* "far", a stretch longer than the 20 characters a pattern may skip.      *)
(* Tokens with no "far" between them are near each other.                  *)
(***************************************************************************)
EXTENDS Integers, Sequences

CONSTANTS
    Texts,   \* requests
    Todays,  \* days on which one may be checked, <<year, month, day>>
    NoDate   \* None

ASSUME TextsAssumption ==
    \A t \in Texts :
        /\ Len(t) \in Nat
        /\ \A i \in 1..Len(t) :
            t[i].kind = "date" => t[i].date \in Nat \X (1..12)
ASSUME TodaysAssumption == Todays \subseteq Nat \X (1..12) \X (1..31)
ASSUME NoDateAssumption == NoDate \notin Nat

-----------------------------------------------------------------------------
(* datetime.date: the proleptic Gregorian calendar.                        *)

IsLeap(year) == year % 4 = 0 /\ (year % 100 # 0 \/ year % 400 = 0)

MonthLength(year, month) ==
    CASE month \in {4, 6, 9, 11} -> 30
      [] month = 2 -> IF IsLeap(year) THEN 29 ELSE 28
      [] OTHER -> 31

IsDate(year, month, day) == month \in 1..12 /\ day \in 1..MonthLength(year, month)

\* date.weekday(), Monday 0: the days since 1 January of the year 1.
DaysBeforeMonth(year, month) ==
    <<0, 31, 59, 90, 120, 151, 181, 212, 243, 273, 304, 334>>[month]
        + IF month > 2 /\ IsLeap(year) THEN 1 ELSE 0

Weekday(year, month, day) ==
    LET y == year - 1
    IN  (y * 365 + y \div 4 - y \div 100 + y \div 400
            + DaysBeforeMonth(year, month) + day + 6) % 7

\* date(year, month, day) >= today
NotBefore(year, month, day, today) ==
    \/ year > today[1]
    \/ year = today[1] /\ month > today[2]
    \/ year = today[1] /\ month = today[2] /\ day >= today[3]

-----------------------------------------------------------------------------
_YEAR_SEARCH_SPAN == 9

Occurs(year, month, day, today) ==
    IsDate(year, month, day) /\ NotBefore(year, month, day, today)

\* Mutant: the span of a gap between leap years within a century.
YearsTriedShort(today) == today[1]..(today[1] + 4)

YearsTried(today) == today[1]..(today[1] + _YEAR_SEARCH_SPAN - 1)

\* The first year tried in which the date exists and has not passed.
_resolve_year(day, month, today) ==
    LET years == {y \in YearsTried(today) : Occurs(y, month, day, today)}
    IN  IF years = {} THEN NoDate
        ELSE CHOOSE y \in years : \A z \in years : y <= z

-----------------------------------------------------------------------------
VARIABLES
    text,      \* the request
    today,
    pattern,   \* 1 _WD_THEN_DATE, 2 _DATE_THEN_WD, 3 both done
    at,        \* where finditer looks for the next match
    seen,      \* the dates already matched
    conflicts

vars == <<text, today, pattern, at, seen, conflicts>>

IsWeekday(token) == token.kind = "weekday"
IsDateToken(token) == token.kind = "date"

\* At most 20 characters lie between the two, in either order.
Near(i, j) == \A k \in (i..j) \cup (j..i) : text[k].kind # "far"

\* Mutant: a weekday that follows its date is not looked for.
MatchFirstPattern(i, j) ==
    /\ pattern = 1 /\ i < j /\ Near(i, j)
    /\ IsWeekday(text[i]) /\ IsDateToken(text[j])
    /\ \A k \in i..(j - 1) : ~IsDateToken(text[k])

\* A match of the pattern: a token of its first kind at i, the nearest token of
\* its second kind at j.
Match(i, j) ==
    /\ i < j /\ Near(i, j)
    /\ \/ /\ pattern = 1 /\ IsWeekday(text[i]) /\ IsDateToken(text[j])
          /\ \A k \in i..(j - 1) : ~IsDateToken(text[k])
       \/ /\ pattern = 2 /\ IsDateToken(text[i]) /\ IsWeekday(text[j])
          /\ \A k \in i..(j - 1) : ~IsWeekday(text[k])

Matches == {m \in (at..Len(text)) \X (at..Len(text)) : Match(m[1], m[2])}

Init ==
    /\ text \in Texts /\ today \in Todays
    /\ pattern = 1 /\ at = 1 /\ seen = {} /\ conflicts = <<>>

Fresh(date) == date \notin seen

\* finditer's matches do not overlap.
Resume(m) == m[2] + 1

\* finditer yields its next match.
NextMatch ==
    \E m \in Matches :
        LET weekday == IF pattern = 1 THEN text[m[1]].weekday ELSE text[m[2]].weekday
            date == IF pattern = 1 THEN text[m[2]].date ELSE text[m[1]].date
            year == _resolve_year(date[1], date[2], today)
        IN  /\ \A n \in Matches : m[1] <= n[1]
            /\ at' = Resume(m)
            /\ seen' = seen \cup {date}
            /\ conflicts' =
                IF /\ Fresh(date)
                   /\ year # NoDate
                   /\ Weekday(year, date[2], date[1]) # weekday
                THEN Append(conflicts, [date |-> date, year |-> year, said |-> weekday])
                ELSE conflicts
            /\ UNCHANGED <<text, today, pattern>>

NextPattern ==
    /\ pattern < 3 /\ Matches = {}
    /\ pattern' = pattern + 1 /\ at' = 1
    /\ UNCHANGED <<text, today, seen, conflicts>>

Returned == pattern = 3 /\ UNCHANGED vars

Next == NextMatch \/ NextPattern \/ Returned

Spec == Init /\ [][Next]_vars

-----------------------------------------------------------------------------
(* Properties.                                                             *)

Dates == {text[i].date : i \in {k \in 1..Len(text) : IsDateToken(text[k])}}

\* Whatever the day, a date of any year resolves to its next occurrence, 29
\* February across a century without a leap year included; a date of no year does
\* not.  Far years are the reference: the calendar repeats every 400.
NearestOccurrence ==
    \A d \in Dates :
        LET year == _resolve_year(d[1], d[2], today)
            later == today[1]..(today[1] + 20)
        IN  IF year = NoDate THEN \A y \in later : ~IsDate(y, d[2], d[1])
            ELSE /\ Occurs(year, d[2], d[1], today)
                 /\ \A y \in later : Occurs(y, d[2], d[1], today) => year <= y

\* The weekdays near the date at j.
Claims(j) == {text[i].weekday : i \in {k \in 1..Len(text) :
                 IsWeekday(text[k]) /\ Near(k, j)}}

\* A date that is alone in its stretch and there with one weekday.
Plain(j) ==
    /\ IsDateToken(text[j])
    /\ \A k \in 1..Len(text) :
        IsDateToken(text[k]) /\ k # j =>
            text[k].date # text[j].date /\ ~Near(k, j)

\* A date is questioned at most once, and only on a weekday the user wrote near
\* it, however the two patterns overlap.
QuestionedOnce ==
    /\ \A c, d \in DOMAIN conflicts : conflicts[c].date = conflicts[d].date => c = d
    /\ \A c \in DOMAIN conflicts :
        \E j \in 1..Len(text) :
            /\ IsDateToken(text[j]) /\ text[j].date = conflicts[c].date
            /\ conflicts[c].said \in Claims(j)

\* When each date stands with one weekday, the check reports exactly the dates
\* whose next occurrence falls on another day of the week; and no question of it
\* is asked twice or rests on a weekday the user did not write there.
TyposFound ==
    /\ QuestionedOnce
    /\ pattern = 3 =>
        \A j \in 1..Len(text) :
            LET date == text[j].date
                year == _resolve_year(date[1], date[2], today)
            IN  Plain(j) /\ (\E w \in 0..6 : Claims(j) = {w}) =>
                    ((\E c \in DOMAIN conflicts : conflicts[c].date = date)
                        <=> year # NoDate /\ Weekday(year, date[2], date[1]) \notin Claims(j))
=============================================================================
