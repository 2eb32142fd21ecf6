------------------------------ MODULE MCCalendar ------------------------------
(* Requests of up to four tokens: Friday and Sunday, a date of every year, of   *)
(* leap years and of none.  11 October 2026 is a Sunday, 29 February 2104 a     *)
(* Friday; 2100 is not a leap year.                                            *)
EXTENDS Calendar

MCTokens ==
    {[kind |-> "weekday", weekday |-> w] : w \in {4, 6}}
        \cup {[kind |-> "date", date |-> d] : d \in {<<11, 10>>, <<29, 2>>, <<31, 2>>}}
        \cup {[kind |-> "far"]}

MCTexts == UNION {[1..n -> MCTokens] : n \in 2..4}

MCTodays ==
    {<<2026, 7, 29>>, <<2026, 10, 11>>, <<2026, 10, 12>>,
     <<2096, 2, 29>>, <<2096, 3, 1>>, <<1999, 12, 31>>}
=============================================================================
