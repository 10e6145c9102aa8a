----------------------------- MODULE Timestamps -----------------------------
(***************************************************************************)
(* Timestamps as the database stores them: FormatTime and ParseTime of     *)
(* src/internal/common/encoding/encoding.go, and the order of text columns *)
(* (SQLite's BINARY collation).  An instant is a number of ticks, which    *)
(* are nanoseconds in the program.                                         *)
(*                                                                         *)
(* RFC3339Nano writes the date and time to the second at a fixed width,    *)
(* here one symbol, the second; then the fraction without trailing zeros,  *)
(* and none at all if it is zero; then "Z".  In ASCII "." < digits < "Z".  *)
(***************************************************************************)
EXTENDS Integers, Sequences, FiniteSetsExt

CONSTANTS
    Base,   \* digits are 0 to Base - 1 (10)
    Weight  \* how many ticks each digit of a fraction counts (10^8 down to 1)

Digits == Len(Weight)

ASSUME PrecisionAssumption ==
    /\ Base \in Nat \ {0, 1}
    /\ Weight \in Seq(Nat \ {0}) /\ Weight # <<>>
    /\ Weight[Digits] = 1
    /\ \A i \in 2..Digits : Weight[i - 1] = Base * Weight[i]

Dot == -1
Zulu == Base

TicksPerSecond == Base * Weight[1]

Second(t) == t \div TicksPerSecond
Nanosecond(t) == t % TicksPerSecond

(* The i-th digit of the fraction, from the left. *)
Digit(t, i) == (Nanosecond(t) \div Weight[i]) % Base

(* How many digits are written: up to the last one that is not zero. *)
Written(t) == Max({0} \cup { i \in 1..Digits : Digit(t, i) # 0 })

\* Faulty variant: RFC3339, which has no fraction.
FormatSeconds(t) == <<Second(t), Zulu>>

FormatTime(t) ==
    LET n == Written(t) IN
    IF n = 0 THEN <<Second(t), Zulu>>
    ELSE <<Second(t), Dot>> \o [i \in 1..n |-> Digit(t, i)] \o <<Zulu>>

(* The whole number that the first i digits of a text's fraction make. *)
Prefix(text) ==
    LET number[i \in 0..(Len(text) - 3)] ==
            IF i = 0 THEN 0 ELSE Base * number[i - 1] + text[i + 2]
    IN number

(* The value of a text written by FormatTime: the digits that are missing *)
(* are zeros.                                                             *)
ParseTime(text) ==
    LET n == Len(text) - 3 IN
    text[1] * TicksPerSecond + (IF Len(text) = 2 THEN 0 ELSE Prefix(text)[n] * Weight[n])

TextLess(a, b) ==
    \E i \in DOMAIN a \cap DOMAIN b :
        /\ \A j \in 1..(i - 1) : a[j] = b[j]
        /\ a[i] < b[i]
=============================================================================
