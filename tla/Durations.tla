---- MODULE Durations ----
(***************************************************************************)
(* internal/annotations: durations. An annotation says a number of seconds *)
(* or a duration as Go writes it; the Gateway API takes hours, minutes,    *)
(* seconds and milliseconds, in this order, those that are zero left out.  *)
(*                                                                         *)
(* Time is counted in ticks, as a time.Duration counts nanoseconds: in the *)
(* code, a Millisecond is 1,000,000 ticks and the Word 2^64.               *)
(***************************************************************************)
EXTENDS Integers, Sequences

CONSTANTS
    Millisecond,    \* ticks in a millisecond
    Word            \* the number of values of a time.Duration

ASSUME DurationAssumption ==
    /\ Millisecond \in Nat \ {0}
    /\ Word \in Nat \ {0}

Second == 1000 * Millisecond
Minute == 60 * Second
Hour   == 60 * Minute

\* What a multiplication leaves in a signed word.
Wrap(n) == ((n + Word \div 2) % Word) - Word \div 2

\* Go rounds a quotient towards zero.
Quotient(d, unit) == IF d >= 0 THEN d \div unit ELSE -((-d) \div unit)

----
\* How often a unit goes into d, if it does, and what it leaves of d.
Count(d, unit) == IF Quotient(d, unit) > 0 THEN Quotient(d, unit) ELSE 0
Rest(d, unit)  == d - Count(d, unit) * unit

AfterHours(d)   == Rest(d, Hour)
AfterMinutes(d) == Rest(AfterHours(d), Minute)
AfterSeconds(d) == Rest(AfterMinutes(d), Second)

\* A mistake, for mutation: the minutes are not taken off what is left.
formatKeepingMinutes(d) ==
    [h  |-> Count(d, Hour),
     m  |-> Count(AfterHours(d), Minute),
     s  |-> Count(AfterHours(d), Second),
     ms |-> Count(AfterSeconds(d), Millisecond)]

\* The four numbers of the text; a number that is zero is left out.
formatDuration(d) ==
    [h  |-> Count(d, Hour),
     m  |-> Count(AfterHours(d), Minute),
     s  |-> Count(AfterMinutes(d), Second),
     ms |-> Count(AfterSeconds(d), Millisecond)]

\* The duration such a text stands for.
Meaning(t) == t.h * Hour + t.m * Minute + t.s * Second + t.ms * Millisecond

\* An annotation that is neither a number of seconds nor a duration gives none.
GetDuration(annotation) ==
    CASE annotation.form = "seconds"  -> {formatDuration(Wrap(annotation.n * Second))}
      [] annotation.form = "duration" -> {formatDuration(annotation.n)}
      [] OTHER -> {}

----
\* The text, as the codes of its characters: digits come before the letters of
\* the units, and these are in the order "h", "m", "s".
Digits[n \in Nat] == IF n < 10 THEN <<n>> ELSE Append(Digits[n \div 10], n % 10)

H == 10
M == 11
S == 12

Field(n, unit) == IF n = 0 THEN <<>> ELSE Digits[n] \o unit

Text(t) ==
    LET fields == Field(t.h, <<H>>) \o Field(t.m, <<M>>)
                  \o Field(t.s, <<S>>) \o Field(t.ms, <<M, S>>)
    IN  IF fields = <<>> THEN <<0, S>> ELSE fields

\* The order of strings in Go.
Before(a, b) ==
    \E k \in 1 .. Len(b) :
        /\ \A l \in 1 .. k - 1 : l <= Len(a) /\ a[l] = b[l]
        /\ k > Len(a) \/ a[k] < b[k]
====
