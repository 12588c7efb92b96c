----------------------------- MODULE MCSchedule -----------------------------
(* Spellings of intervals for Schedule.                                     *)
EXTENDS Schedule

Tokens(count, unit) == <<[count |-> count, unit |-> unit]>>

HalfSecond == Tokens(500, "ms")
TwoSeconds == Tokens(1, "s") \o Tokens(1000, "ms")
NinetySeconds == Tokens(1, "m") \o Tokens(30, "s")
NoUnit == Tokens(90, "")
Unreadable == Tokens(1, "w")

AllSpellings == {HalfSecond, TwoSeconds, NinetySeconds, NoUnit, Unreadable}
=============================================================================
