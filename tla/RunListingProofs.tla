-------------------------- MODULE RunListingProofs --------------------------
(***************************************************************************)
(* RunListing for any clock, any number of runs and any limit, with any    *)
(* base and any number of digits in a timestamp.                           *)
(*                                                                         *)
(* The provers have no induction.  What is proved here of all digits, or   *)
(* of a recursive function, is proved of the smallest counterexample       *)
(* instead, which a set of natural numbers has.                            *)
(***************************************************************************)
EXTENDS RunListing, FiniteSetTheorems, TLAPS

(* A set of natural numbers that is not empty has a smallest one. *)
LEMMA Smallest ==
    ASSUME NEW S \in SUBSET Nat, S # {}
    PROVE  \E n \in S : \A m \in S : n <= m
<1> DEFINE Less == OpToRel(<, Nat)
<1>1. IsWellFoundedOn(Less, Nat)
    BY NatLessThanWellFounded
<1>2. \E n \in S : \A m \in S : <<m, n>> \notin Less
    <2> HIDE DEF Less
    <2> QED BY <1>1, WFMin
<1>3. ASSUME NEW m \in Nat, NEW n \in Nat, <<m, n>> \notin Less PROVE n <= m
    BY <1>3 DEF OpToRel
<1> HIDE DEF Less
<1> QED BY <1>2, <1>3

(* And one that is bounded has a greatest. *)
LEMMA Greatest ==
    ASSUME NEW S \in SUBSET Nat, S # {}, NEW bound \in Nat, \A n \in S : n <= bound
    PROVE  Max(S) \in S /\ \A n \in S : n <= Max(S)
<1>1. PICK k \in { bound - n : n \in S } : \A l \in { bound - n : n \in S } : k <= l
    <2>1. { bound - n : n \in S } \subseteq Nat
        OBVIOUS
    <2>2. { bound - n : n \in S } # {}
        OBVIOUS
    <2> QED BY <2>1, <2>2, Smallest
<1>2. PICK m \in S : k = bound - m
    OBVIOUS
<1>3. \A n \in S : m >= n
    BY <1>1, <1>2
<1> QED BY <1>3 DEF Max

(* Quotient and remainder, and that there is only one such pair. *)
LEMMA Divided ==
    ASSUME NEW n \in Nat, NEW d \in Nat \ {0}
    PROVE  /\ n \div d \in Nat /\ n % d \in Nat /\ n % d < d
           /\ n = d * (n \div d) + (n % d)
OBVIOUS

LEMMA Quotient ==
    ASSUME NEW d \in Nat \ {0}, NEW q \in Nat, NEW r \in Nat, r < d
    PROVE  (d * q + r) \div d = q
<1> DEFINE n == d * q + r
           p == n \div d
<1>1. n \in Nat
    OBVIOUS
<1>2. p \in Nat /\ n % d \in Nat /\ n % d < d /\ n = d * p + (n % d)
    BY <1>1, Divided
<1>3. n = d * q + r
    OBVIOUS
<1> HIDE DEF n, p
<1>4. ASSUME NEW x \in Nat, NEW y \in Nat, x < y PROVE d * x + d <= d * y
    <2>1. d * (x + 1) <= d * y
        BY <1>4
    <2> QED BY <2>1
<1>5. ASSUME p < q PROVE FALSE
    BY <1>2, <1>3, <1>4, <1>5
<1>6. ASSUME q < p PROVE FALSE
    BY <1>2, <1>3, <1>4, <1>6
<1>7. p = q
    BY <1>2, <1>5, <1>6
<1> QED BY <1>7 DEF p, n

(* Dividing by a product is dividing twice. *)
LEMMA DividedTwice ==
    ASSUME NEW n \in Nat, NEW b \in Nat \ {0}, NEW w \in Nat \ {0}
    PROVE  n \div (b * w) = (n \div w) \div b
<1> DEFINE m == n \div w
           q == m \div b
           s == m % b
           r == n % w
<1>1. m \in Nat /\ r \in Nat /\ r < w /\ n = w * m + r
    BY Divided
<1>2. q \in Nat /\ s \in Nat /\ s < b /\ m = b * q + s
    BY <1>1, Divided
<1> HIDE DEF m, q, s, r
<1>3. n = (b * w) * q + (w * s + r)
    BY <1>1, <1>2
<1>4. w * s + r \in Nat /\ w * s + r < b * w
    <2>1. s <= b - 1
        BY <1>2
    <2>2. w * s <= w * (b - 1)
        BY <1>2, <2>1
    <2> QED BY <1>1, <1>2, <2>2
<1>5. b * w \in Nat \ {0}
    OBVIOUS
<1>6. n \div (b * w) = q
    <2> DEFINE d == b * w
               e == w * s + r
    <2>1. d \in Nat \ {0} /\ e \in Nat /\ e < d /\ n = d * q + e
        BY <1>3, <1>4, <1>5
    <2>2. n \div d = q
        <3> HIDE DEF d, e
        <3> QED BY <1>2, <2>1, Quotient
    <2> QED BY <2>2
<1> QED BY <1>6 DEF q, m

-----------------------------------------------------------------------------
(***************************************************************************)
(* Timestamps.                                                             *)
(***************************************************************************)
LEMMA Precision ==
    /\ Base \in Nat /\ Base > 1
    /\ Digits \in Nat \ {0}
    /\ \A i \in 1..Digits : Weight[i] \in Nat \ {0}
    /\ Weight[Digits] = 1
    /\ \A i \in 2..Digits : i - 1 \in 1..Digits /\ Weight[i - 1] = Base * Weight[i]
    /\ TicksPerSecond \in Nat \ {0}
    /\ TicksPerSecond = Base * Weight[1]
<1>1. Base \in Nat /\ Base > 1
    BY PrecisionAssumption
<1>2. Digits \in Nat \ {0}
    BY PrecisionAssumption DEF Digits
<1>3. \A i \in 1..Digits : Weight[i] \in Nat \ {0}
    BY PrecisionAssumption DEF Digits
<1>4. TicksPerSecond = Base * Weight[1] /\ Weight[1] \in Nat \ {0}
    BY <1>2, <1>3 DEF TicksPerSecond
<1>5. TicksPerSecond \in Nat \ {0}
    BY <1>1, <1>4
<1>6. \A i \in 2..Digits : i - 1 \in 1..Digits
    BY <1>2
<1> QED BY <1>1, <1>2, <1>3, <1>4, <1>5, <1>6, PrecisionAssumption

(* An instant is a second and a fraction of one. *)
LEMMA Instant ==
    ASSUME NEW t \in Nat
    PROVE  /\ Second(t) \in Nat
           /\ Nanosecond(t) \in Nat /\ Nanosecond(t) < TicksPerSecond
           /\ t = Second(t) * TicksPerSecond + Nanosecond(t)
BY Precision, Divided DEF Second, Nanosecond

(* Every digit adds a place to the number of those before it. *)
LEMMA NextDigit ==
    ASSUME NEW t \in Nat, NEW i \in 1..Digits
    PROVE  /\ Digit(t, i) \in Nat
           /\ Nanosecond(t) \div Weight[i] \in Nat
           /\ i = 1 => Nanosecond(t) \div Weight[i] = Digit(t, i)
           /\ i > 1 => /\ i - 1 \in 1..Digits
                      /\ Nanosecond(t) \div Weight[i]
                           = Base * (Nanosecond(t) \div Weight[i - 1]) + Digit(t, i)
<1> DEFINE x == Nanosecond(t)
           y == x \div Weight[i]
<1>1. x \in Nat /\ x < TicksPerSecond
    BY Instant
<1>2. Weight[i] \in Nat \ {0} /\ Base \in Nat \ {0}
    BY Precision
<1> HIDE DEF x
<1>3. y \in Nat /\ x = Weight[i] * y + (x % Weight[i]) /\ x % Weight[i] \in Nat
    BY <1>1, <1>2, Divided
<1>4. /\ y \div Base \in Nat /\ y % Base \in Nat
      /\ y = Base * (y \div Base) + (y % Base)
    BY <1>2, <1>3, Divided
<1>5. Digit(t, i) = y % Base
    BY DEF Digit, x
<1>6. ASSUME i = 1 PROVE y = Digit(t, i)
    <2>1. TicksPerSecond = Base * Weight[i]
        BY <1>6, Precision
    <2>2. x \div TicksPerSecond = y \div Base
        BY <1>1, <1>2, <2>1, DividedTwice
    <2>3. x \div TicksPerSecond = 0
        <3>1. TicksPerSecond \in Nat \ {0} /\ x = TicksPerSecond * 0 + x
            BY <1>1, Precision
        <3>2. (TicksPerSecond * 0 + x) \div TicksPerSecond = 0
            BY <1>1, <3>1, Quotient
        <3> QED BY <3>1, <3>2
    <2> HIDE DEF y
    <2> QED BY <1>2, <1>4, <1>5, <2>2, <2>3
<1>7. ASSUME i > 1
      PROVE  i - 1 \in 1..Digits /\ y = Base * (x \div Weight[i - 1]) + Digit(t, i)
    <2>1. i - 1 \in 1..Digits /\ Weight[i - 1] = Base * Weight[i]
        BY <1>7, Precision
    <2>2. x \div Weight[i - 1] = y \div Base
        BY <1>1, <1>2, <2>1, DividedTwice
    <2> HIDE DEF y
    <2> QED BY <1>4, <1>5, <2>1, <2>2
<1> HIDE DEF y
<1>8. /\ y \in Nat /\ Digit(t, i) \in Nat
      /\ i = 1 => y = Digit(t, i)
      /\ i > 1 => i - 1 \in 1..Digits /\ y = Base * (x \div Weight[i - 1]) + Digit(t, i)
    BY <1>3, <1>4, <1>5, <1>6, <1>7
<1> QED BY <1>8 DEF x, y

(* The digits that are not written are zeros. *)
LEMMA Unwritten ==
    ASSUME NEW t \in Nat
    PROVE  /\ Written(t) \in 0..Digits
           /\ \A i \in 1..Digits : i > Written(t) => Digit(t, i) = 0
<1> DEFINE S == {0} \cup { i \in 1..Digits : Digit(t, i) # 0 }
<1>1. Digits \in Nat
    BY Precision
<1>2. S \in SUBSET Nat /\ S # {} /\ \A n \in S : n <= Digits
    BY <1>1
<1>3. \A i \in 1..Digits : Digit(t, i) # 0 => i \in S
    OBVIOUS
<1>4. \A n \in S : n \in 0..Digits
    BY <1>1
<1>5. Written(t) = Max(S)
    BY DEF Written
<1> HIDE DEF S
<1>6. Max(S) \in S /\ \A n \in S : n <= Max(S)
    BY <1>1, <1>2, Greatest
<1> QED BY <1>1, <1>3, <1>4, <1>5, <1>6

(* So they can be left out: the written ones make the whole fraction. *)
LEMMA WrittenIsAll ==
    ASSUME NEW t \in Nat
    PROVE  /\ Written(t) = 0 => Nanosecond(t) = 0
           /\ Written(t) # 0 =>
                Nanosecond(t) = (Nanosecond(t) \div Weight[Written(t)]) * Weight[Written(t)]
<1> DEFINE x == Nanosecond(t)
           n == Written(t)
           Whole(i) == x = (x \div Weight[i]) * Weight[i]
<1>1. x \in Nat /\ n \in Nat /\ n <= Digits /\ Digits \in Nat \ {0}
    <2>1. x \in Nat /\ n \in 0..Digits /\ Digits \in Nat \ {0}
        BY Instant, Unwritten, Precision
    <2> HIDE DEF n
    <2> QED BY <2>1
<1>2. Whole(Digits)
    <2>1. x \div 1 = x
        <3>1. (1 * x + 0) \div 1 = x
            BY <1>1, Quotient
        <3> QED BY <1>1, <3>1
    <2> QED BY <1>1, <2>1, Precision
<1>3. ASSUME NEW i \in 2..Digits, i > n, Whole(i) PROVE Whole(i - 1)
    <2>1. /\ x \div Weight[i] = Base * (x \div Weight[i - 1]) + Digit(t, i)
          /\ i \in 1..Digits /\ i - 1 \in 1..Digits
        BY <1>1, NextDigit
    <2>2. Digit(t, i) = 0
        BY <1>3, <2>1, Unwritten
    <2>3. /\ Weight[i] \in Nat /\ Base \in Nat /\ Weight[i - 1] = Base * Weight[i]
          /\ x \div Weight[i - 1] \in Nat
        BY <2>1, Precision, NextDigit
    <2> HIDE DEF x
    <2> QED BY <1>1, <1>3, <2>1, <2>2, <2>3
<1>4. ASSUME NEW i \in 1..Digits, i >= n PROVE Whole(i)
    <2> DEFINE bad == { k \in 0..(Digits - 1) : Digits - k >= n /\ ~Whole(Digits - k) }
    <2>1. bad = {}
        <3> SUFFICES ASSUME bad # {} PROVE FALSE
            OBVIOUS
        <3>1. bad \in SUBSET Nat
            BY <1>1
        <3>2. PICK k \in bad : \A l \in bad : k <= l
            <4> HIDE DEF bad
            <4> QED BY <3>1, Smallest
        <3>3. k \in 0..(Digits - 1) /\ Digits - k >= n /\ ~Whole(Digits - k)
            OBVIOUS
        <3>4. k # 0
            <4>1. Digits - 0 = Digits
                BY <1>1
            <4> HIDE DEF Whole
            <4> QED BY <1>2, <3>3, <4>1
        <3>5. k - 1 \in 0..(Digits - 1) /\ k - 1 \notin bad
            BY <1>1, <3>2, <3>3, <3>4
        <3>6. /\ Digits - (k - 1) \in 2..Digits /\ Digits - (k - 1) > n
              /\ Digits - (k - 1) - 1 = Digits - k
            BY <1>1, <3>3, <3>4
        <3>7. Whole(Digits - (k - 1))
            <4> HIDE DEF Whole
            <4> QED BY <1>1, <3>5, <3>6
        <3>8. Whole(Digits - (k - 1) - 1)
            <4> HIDE DEF Whole
            <4> QED BY <1>3, <3>6, <3>7
        <3> HIDE DEF Whole
        <3> QED BY <3>3, <3>6, <3>8
    <2>2. Digits - i \in 0..(Digits - 1) /\ Digits - (Digits - i) = i
        BY <1>1
    <2> HIDE DEF Whole
    <2> QED BY <1>4, <2>1, <2>2
<1>5. ASSUME n = 0 PROVE x = 0
    <2>1. 1 \in 1..Digits
        BY <1>1
    <2>2. Whole(1)
        <3> HIDE DEF Whole
        <3> QED BY <1>4, <1>5, <2>1
    <2>3. x \div Weight[1] = 0
        <3> HIDE DEF x
        <3>1. Digit(t, 1) = 0
            BY <1>1, <1>5, <2>1, Unwritten
        <3> QED BY <2>1, <3>1, NextDigit DEF x
    <2> QED BY <2>1, <2>2, <2>3, Precision
<1>6. ASSUME n # 0 PROVE Whole(n)
    <2> HIDE DEF Whole, n
    <2> QED BY <1>1, <1>4, <1>6
<1> QED BY <1>5, <1>6

(* What a text consists of. *)
LEMMA TextOf ==
    ASSUME NEW t \in Nat
    PROVE  /\ FormatTime(t)[1] = Second(t)
           /\ Len(FormatTime(t)) = IF Written(t) = 0 THEN 2 ELSE Written(t) + 3
           /\ 1 \in DOMAIN FormatTime(t)
           /\ \A i \in 1..Written(t) : FormatTime(t)[i + 2] = Digit(t, i)
<1> DEFINE n == Written(t)
           fraction == [i \in 1..n |-> Digit(t, i)]
<1>1. n \in Nat
    BY Unwritten, Precision
<1>2. CASE n = 0
    <2>1. FormatTime(t) = <<Second(t), Zulu>>
        BY <1>2 DEF FormatTime
    <2> QED BY <1>2, <2>1
<1>3. CASE n # 0
    <2>1. FormatTime(t) = <<Second(t), Dot>> \o fraction \o <<Zulu>>
        BY <1>3 DEF FormatTime
    <2>2. fraction \in Seq(Nat) /\ Len(fraction) = n /\ \A i \in 1..n : fraction[i] = Digit(t, i)
        <3>1. n <= Digits /\ Digits \in Nat
            <4>1. n \in 0..Digits /\ Digits \in Nat
                BY Unwritten, Precision
            <4> HIDE DEF n
            <4> QED BY <4>1
        <3>2. \A i \in 1..n : Digit(t, i) \in Nat
            <4> HIDE DEF n
            <4> QED BY <1>1, <3>1, NextDigit
        <3> HIDE DEF n
        <3> QED BY <1>1, <3>2
    <2>3. Second(t) \in Int /\ Dot \in Int /\ Zulu \in Int
        BY Instant, Precision DEF Dot, Zulu
    <2> HIDE DEF n, fraction
    <2>4. /\ <<Second(t), Dot>> \o fraction \in Seq(Int)
          /\ Len(<<Second(t), Dot>> \o fraction) = n + 2
          /\ (<<Second(t), Dot>> \o fraction)[1] = Second(t)
          /\ \A i \in 1..n : (<<Second(t), Dot>> \o fraction)[i + 2] = fraction[i]
        BY <1>1, <2>2, <2>3
    <2> QED BY <1>1, <1>3, <2>1, <2>2, <2>3, <2>4 DEF n
<1> QED BY <1>2, <1>3

(* Reading the digits one after the other gives the number they make. *)
LEMMA PrefixOf ==
    ASSUME NEW t \in Nat, Written(t) # 0
    PROVE  Prefix(FormatTime(t))[Written(t)] = Nanosecond(t) \div Weight[Written(t)]
<1> DEFINE n == Written(t)
           text == FormatTime(t)
           Number(f) == f = [i \in 0..(Len(text) - 3) |->
                               IF i = 0 THEN 0 ELSE Base * f[i - 1] + text[i + 2]]
           value == [i \in 0..n |-> IF i = 0 THEN 0 ELSE Nanosecond(t) \div Weight[i]]
<1>1. n \in Nat \ {0} /\ n <= Digits /\ Digits \in Nat /\ Len(text) - 3 = n
    <2>1. n \in 0..Digits /\ Digits \in Nat /\ Len(text) = n + 3
        BY Unwritten, Precision, TextOf
    <2> HIDE DEF n, text
    <2> QED BY <2>1 DEF n
<1>2. \A i \in 1..n : text[i + 2] = Digit(t, i)
    BY TextOf
<1>3. Base \in Nat
    BY Precision
<1>4. ASSUME NEW i \in 1..n PROVE value[i] = Base * value[i - 1] + text[i + 2]
    <2>1. i \in 1..Digits
        <3> HIDE DEF n
        <3> QED BY <1>1
    <2>2. /\ Digit(t, i) \in Nat
          /\ i = 1 => Nanosecond(t) \div Weight[i] = Digit(t, i)
          /\ i > 1 => Nanosecond(t) \div Weight[i]
                      = Base * (Nanosecond(t) \div Weight[i - 1]) + Digit(t, i)
        BY <2>1, NextDigit
    <2> HIDE DEF n, text
    <2> QED BY <1>1, <1>2, <1>3, <2>2
<1>5. Number(value)
    <2>1. value = [i \in 0..n |-> IF i = 0 THEN 0 ELSE value[i]]
        OBVIOUS
    <2> HIDE DEF n, text, value
    <2>2. \A i \in 0..n : i = 0 \/ i \in 1..n
        BY <1>1
    <2>3. value = [i \in 0..n |-> IF i = 0 THEN 0 ELSE Base * value[i - 1] + text[i + 2]]
        BY <1>4, <2>1, <2>2
    <2> QED BY <1>1, <2>3
<1>6. ASSUME NEW f, Number(f) PROVE f[n] = value[n]
    <2> DEFINE bad == { i \in 0..n : f[i] # value[i] }
    <2>1. \A i \in 0..n : f[i] = IF i = 0 THEN 0 ELSE Base * f[i - 1] + text[i + 2]
        <3> HIDE DEF n, text
        <3> QED BY <1>1, <1>6
    <2>2. bad = {}
        <3> SUFFICES ASSUME bad # {} PROVE FALSE
            OBVIOUS
        <3>1. bad \in SUBSET Nat
            BY <1>1
        <3>2. PICK i \in bad : \A j \in bad : i <= j
            <4> HIDE DEF bad
            <4> QED BY <3>1, Smallest
        <3>3. i \in 0..n /\ f[i] # value[i]
            OBVIOUS
        <3> HIDE DEF n, text
        <3>4. i # 0
            BY <1>1, <2>1, <3>3
        <3>5. i \in 1..n /\ i - 1 \in 0..n /\ i - 1 \notin bad
            BY <1>1, <3>2, <3>3, <3>4
        <3>6. f[i - 1] = value[i - 1]
            BY <3>5
        <3> HIDE DEF value
        <3> QED BY <1>4, <2>1, <3>3, <3>4, <3>5, <3>6
    <2>3. \A i \in 0..n : f[i] = value[i]
        <3> HIDE DEF n, value
        <3> QED BY <2>2
    <2> HIDE DEF n, value
    <2> QED BY <1>1, <2>3
<1>7. Number(Prefix(text))
    <2>1. Prefix(text) = CHOOSE f : Number(f)
        BY DEF Prefix
    <2> HIDE DEF Number, value
    <2> QED BY <1>5, <2>1
<1>8. Prefix(text)[n] = value[n]
    <2> HIDE DEF Number
    <2> QED BY <1>6, <1>7
<1> QED BY <1>1, <1>8

(* ParseTime undoes FormatTime. *)
LEMMA ParseFormat ==
    ASSUME NEW t \in Nat
    PROVE  ParseTime(FormatTime(t)) = t
<1> DEFINE n == Written(t)
           text == FormatTime(t)
           x == Nanosecond(t)
<1>1. /\ n \in Nat /\ text[1] = Second(t)
      /\ Len(text) = IF n = 0 THEN 2 ELSE n + 3
      /\ t = Second(t) * TicksPerSecond + x
      /\ Second(t) \in Nat /\ TicksPerSecond \in Nat
    <2>1. n \in 0..Digits /\ Digits \in Nat
        BY Unwritten, Precision
    <2>2. n \in Nat
        <3> HIDE DEF n
        <3> QED BY <2>1
    <2> QED BY <2>2, Precision, TextOf, Instant
<1>2. ParseTime(text) = text[1] * TicksPerSecond
                        + (IF Len(text) = 2 THEN 0
                           ELSE Prefix(text)[Len(text) - 3] * Weight[Len(text) - 3])
    BY DEF ParseTime
<1>3. CASE n = 0
    <2>1. x = 0
        BY <1>3, WrittenIsAll
    <2> HIDE DEF n, text, x
    <2> QED BY <1>1, <1>2, <1>3, <2>1 DEF text
<1>4. CASE n # 0
    <2>1. Prefix(text)[n] = x \div Weight[n] /\ x = (x \div Weight[n]) * Weight[n]
        BY <1>4, PrefixOf, WrittenIsAll
    <2> HIDE DEF n, text, x
    <2>2. Len(text) - 3 = n /\ Len(text) # 2
        BY <1>1, <1>4
    <2> QED BY <1>1, <1>2, <2>1, <2>2 DEF text
<1> QED BY <1>3, <1>4

-----------------------------------------------------------------------------
(***************************************************************************)
(* Lists.                                                                  *)
(***************************************************************************)

(* The text of an earlier second is less. *)
LEMMA SecondsInOrder ==
    ASSUME NEW t \in Nat, NEW u \in Nat, Second(t) < Second(u)
    PROVE  TextLess(FormatTime(t), FormatTime(u))
<1>1. /\ FormatTime(t)[1] < FormatTime(u)[1]
      /\ 1 \in DOMAIN FormatTime(t) \cap DOMAIN FormatTime(u)
    BY TextOf
<1> QED BY <1>1 DEF TextLess

(* Rows in the order of their text are in the order of their seconds. *)
LEMMA InOrderOfSeconds ==
    ASSUME TypeOK, NEW rows, InOrder(rows), \A i \in DOMAIN rows : rows[i] \in runs,
           NEW i \in DOMAIN rows, NEW j \in DOMAIN rows, i < j
    PROVE  Second(stamp[rows[i].id]) >= Second(stamp[rows[j].id])
<1> DEFINE t == stamp[rows[i].id]
           u == stamp[rows[j].id]
<1>1. t \in Nat /\ u \in Nat
    BY BoundAssumption DEF TypeOK
<1>2. rows[i].created_at = FormatTime(t) /\ rows[j].created_at = FormatTime(u)
    BY DEF TypeOK
<1>3. ~TextLess(FormatTime(t), FormatTime(u))
    BY <1>2 DEF InOrder
<1> HIDE DEF t, u
<1>4. Second(t) >= Second(u)
    BY <1>1, <1>3, SecondsInOrder, Instant
<1> QED BY <1>4 DEF t, u

(* A sequence of all elements of a finite set, without repetition. *)
LEMMA AllElements ==
    ASSUME NEW S, IsFiniteSet(S), NEW q \in SetToSeqs(S)
    PROVE  /\ q \in Seq(S)
           /\ \A x \in S : \E i \in DOMAIN q : q[i] = x
<1> DEFINE c == Cardinality(S)
<1>1. c \in Nat
    BY FS_CardinalityType
<1>2. q \in [1..c -> S] /\ \A i, j \in 1..c : i # j => q[i] # q[j]
    BY DEF SetToSeqs
<1> HIDE DEF c
<1>3. q \in Injection(1..c, S)
    BY <1>2 DEF Injection, IsInjective
<1>4. Cardinality(1..c) = c
    BY <1>1, FS_Interval
<1>5. q \in Surjection(1..c, S)
    BY <1>3, <1>4, FS_Injection DEF c
<1> QED BY <1>1, <1>2, <1>5 DEF Surjection

(* What a query selects: rows of the table, the later seconds first, and  *)
(* nothing of a later second left out.                                    *)
LEMMA Selected ==
    ASSUME TypeOK, RowsInv, NEW p \in Project, NEW rows \in Select(p)
    PROVE  /\ \A i \in DOMAIN rows : rows[i] \in runs
           /\ DOMAIN rows \subseteq Int
           /\ \A i, j \in DOMAIN rows :
                i < j => Second(stamp[rows[i].id]) >= Second(stamp[rows[j].id])
           /\ \A row \in runs, i \in DOMAIN rows :
                row.project = p /\ Second(stamp[row.id]) > Second(stamp[rows[i].id])
                    => row \in ToSet(rows)
<1> DEFINE all == { row \in runs : row.project = p }
<1>1. PICK q \in SetToSeqs(all) : /\ InOrder(q)
                                  /\ rows = SubSeq(q, 1, Min({Limit, Len(q)}))
    BY DEF Select
<1>2. IsFiniteSet(all)
    BY FS_Subset DEF RowsInv
<1>3. q \in Seq(all) /\ \A row \in all : \E k \in DOMAIN q : q[k] = row
    BY <1>2, AllElements
<1>4. \A k \in DOMAIN q : q[k] \in runs
    BY <1>3
<1>5. PICK m \in Nat : m <= Len(q) /\ m = Min({Limit, Len(q)})
    <2>1. Limit \in Nat /\ Len(q) \in Nat
        BY <1>3, LimitAssumption
    <2>2. CASE Limit <= Len(q)
        <3>1. Min({Limit, Len(q)}) = Limit
            BY <2>1, <2>2 DEF Min
        <3> QED BY <2>1, <2>2, <3>1
    <2>3. CASE ~(Limit <= Len(q))
        <3>1. Min({Limit, Len(q)}) = Len(q)
            BY <2>1, <2>3 DEF Min
        <3> QED BY <2>1, <3>1
    <2> QED BY <2>2, <2>3
<1> HIDE DEF all
<1>6. /\ Len(q) \in Nat /\ DOMAIN q = 1..Len(q)
      /\ DOMAIN rows = 1..m /\ \A i \in 1..m : i \in DOMAIN q /\ rows[i] = q[i]
    <2>1. Len(q) \in Nat /\ DOMAIN q = 1..Len(q)
        BY <1>3
    <2>2. rows = SubSeq(q, 1, m)
        BY <1>1, <1>5
    <2>3. SubSeq(q, 1, m) = [i \in 1..m |-> q[i]]
        BY <1>3, <1>5, <2>1
    <2>4. \A i \in 1..m : i \in DOMAIN q
        BY <1>5, <2>1
    <2> QED BY <2>1, <2>2, <2>3, <2>4
<1>7. \A i, j \in DOMAIN q : i < j => Second(stamp[q[i].id]) >= Second(stamp[q[j].id])
    BY <1>1, <1>4, InOrderOfSeconds
<1>8. \A row \in runs : stamp[row.id] \in Nat
    BY BoundAssumption DEF TypeOK
<1>9. ASSUME NEW row \in runs, NEW i \in DOMAIN rows, row.project = p,
             Second(stamp[row.id]) > Second(stamp[rows[i].id])
      PROVE  row \in ToSet(rows)
    <2>1. PICK k \in 1..Len(q) : q[k] = row
        BY <1>3, <1>6, <1>9 DEF all
    <2>2. i \in 1..m /\ i \in 1..Len(q) /\ rows[i] = q[i]
        BY <1>5, <1>6
    <2>3. Second(stamp[q[k].id]) \in Nat /\ Second(stamp[q[i].id]) \in Nat
        BY <1>4, <1>6, <1>8, <2>1, <2>2, Instant
    <2>4. ~(i < k)
        BY <1>6, <1>7, <1>9, <2>1, <2>2, <2>3
    <2>5. k \in 1..m
        BY <1>5, <1>6, <2>1, <2>2, <2>4
    <2>6. rows[k] = row
        BY <1>6, <2>1, <2>5
    <2> QED BY <1>6, <2>5, <2>6 DEF ToSet
<1>10. \A i, j \in DOMAIN rows : i < j => Second(stamp[rows[i].id]) >= Second(stamp[rows[j].id])
    BY <1>5, <1>6, <1>7
<1>11. \A i \in DOMAIN rows : rows[i] \in runs
    BY <1>4, <1>5, <1>6
<1> QED BY <1>6, <1>9, <1>10, <1>11

(* What is listed of a row is the run as it was stamped. *)
LEMMA ListedRow ==
    ASSUME TypeOK, NEW row \in runs
    PROVE  /\ ToData(row) \in Run
           /\ ToData(row).id = row.id
           /\ ToData(row).createdAt = stamp[row.id]
<1>1. /\ row.id \in RunId /\ row.project \in Project
      /\ row.created_at = FormatTime(stamp[row.id]) /\ stamp[row.id] \in 0..LastTick
    BY DEF TypeOK
<1>2. ParseTime(row.created_at) = stamp[row.id]
    BY <1>1, BoundAssumption, ParseFormat
<1> QED BY <1>1, <1>2 DEF ToData, Run

LEMMA StepInv ==
    ASSUME IInv, [Next]_vars
    PROVE  IInv'
<1> USE DEF IInv, TypeOK, RowsInv, TimesSurvive, NewestSecondFirst
<1>1. CASE Tick
    BY <1>1, BoundAssumption DEF Tick
<1>2. ASSUME NEW w \in Worker, NEW r \in RunId, NEW p \in Project, NewWithSpec(w, r, p)
      PROVE  IInv'
    <2>1. [id |-> r, project |-> p, createdAt |-> now] \in Run
        BY DEF Run
    <2>2. \A row \in runs : row.id # r /\ stamp'[row.id] = stamp[row.id]
        BY <1>2 DEF NewWithSpec, Fresh
    <2>3. \A v \in Worker : stamped'[v] # None => stamp'[stamped'[v].id] = stamped'[v].createdAt
        BY <1>2 DEF NewWithSpec, Fresh, Run
    <2>4. listed # None => \A i \in DOMAIN listed : stamp'[listed[i].id] = stamp[listed[i].id]
        BY <2>2
    <2> QED BY <1>2, <2>1, <2>2, <2>3, <2>4 DEF NewWithSpec
<1>3. ASSUME NEW w \in Worker, CreateRun(w) PROVE IInv'
    <2> DEFINE new == [id         |-> stamped[w].id,
                       project    |-> stamped[w].project,
                       created_at |-> FormatTime(stamped[w].createdAt)]
    <2>1. stamped[w] \in Run /\ stamp[stamped[w].id] = stamped[w].createdAt
        BY <1>3 DEF CreateRun
    <2>2. /\ new.id \in RunId /\ new.project \in Project
          /\ new.created_at = FormatTime(stamp[new.id])
        BY <2>1 DEF Run
    <2>3. runs' = runs \cup {new}
        BY <1>3 DEF CreateRun
    <2> HIDE DEF new
    <2>4. IsFiniteSet(runs')
        BY <2>3, FS_AddElement
    <2> QED BY <1>3, <2>2, <2>3, <2>4 DEF CreateRun
<1>4. ASSUME NEW w \in Worker, CreateRunFails(w) PROVE IInv'
    BY <1>4 DEF CreateRunFails
<1>5. ASSUME NEW p \in Project, AddProject(p) \/ ListProjectRuns(p) \/ ListProjectMissing(p)
      PROVE  IInv'
    BY <1>5 DEF AddProject, ListProjectRuns, ListProjectMissing
<1>6. CASE ListSelected
    <2>1. PICK rows \in Select(asked) : listed' = [i \in DOMAIN rows |-> ToData(rows[i])]
        BY <1>6 DEF ListSelected
    <2>2. asked \in Project
        BY <1>6 DEF ListSelected
    <2>3. /\ \A i \in DOMAIN rows : rows[i] \in runs
          /\ \A i, j \in DOMAIN rows :
               i < j => Second(stamp[rows[i].id]) >= Second(stamp[rows[j].id])
        BY <2>1, <2>2, Selected
    <2>4. DOMAIN listed' = DOMAIN rows
        BY <2>1
    <2>5. \A i \in DOMAIN rows : /\ listed'[i] \in Run
                                 /\ listed'[i].id = rows[i].id
                                 /\ listed'[i].createdAt = stamp[rows[i].id]
        BY <2>1, <2>3, ListedRow
    <2> QED BY <1>6, <2>3, <2>4, <2>5 DEF ListSelected
<1>7. CASE ListFails
    BY <1>7 DEF ListFails
<1>8. CASE UNCHANGED vars
    BY <1>8 DEF vars
<1> QED BY <1>1, <1>2, <1>3, <1>4, <1>5, <1>6, <1>7, <1>8 DEF Next

(* The inductive invariant holds in every behaviour. *)
THEOREM Inductive == Spec => []IInv
<1>1. Init => IInv
    BY BoundAssumption, FS_EmptySet
    DEF Init, IInv, TypeOK, RowsInv, TimesSurvive, NewestSecondFirst
<1> QED BY <1>1, StepInv, PTL DEF Spec

(* Every variable keeps its type; in particular the text of every row is   *)
(* that of the instant its run was created at, whenever it was committed.  *)
THEOREM TypeCorrect == Spec => []TypeOK
BY Inductive, PTL DEF IInv

(* The creation time a list gives is the one the run was stamped with,     *)
(* though FormatTime drops trailing zeros (FormatTime, ParseTime).         *)
THEOREM TimesSurviveHolds == Spec => []TimesSurvive
BY Inductive, PTL DEF IInv

(* A list has the runs of later seconds first, though it is in the order   *)
(* of text of various lengths (ListProjectRuns).                           *)
THEOREM NewestSecondFirstHolds == Spec => []NewestSecondFirst
BY Inductive, PTL DEF IInv

(* The limit cuts off no run of a later second than one that is listed, in *)
(* whatever order the runs were committed (ListProjectRuns).               *)
THEOREM NothingNewerIsLeftOutHolds == Spec => []NothingNewerIsLeftOut
<1>1. IInv => NothingNewerIsLeftOut
    BY Selected DEF IInv, NothingNewerIsLeftOut
<1> QED BY <1>1, Inductive, PTL
=============================================================================
