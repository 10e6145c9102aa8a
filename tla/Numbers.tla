------------------------------ MODULE Numbers ------------------------------
(***************************************************************************)
(* Training parameters on their way through the manager: a JSON number in  *)
(* the request body, a Go value, and the text of a TEXT column, which goes *)
(* out again as a JSON number.  Only whole numbers are modelled, and a     *)
(* text is described by its value and by whether it has an exponent.       *)
(***************************************************************************)
EXTENDS Integers

CONSTANTS
    Exact,  \* every whole number up to this one is a float64 (2^53)
    Plain   \* strconv.FormatFloat(v, 'g', -1, 64) has an exponent from here (10^6)

ASSUME NumberAssumption == Exact \in Nat /\ Plain \in Nat

IsOther(v)  == v \in [type : {"other"}]
IsJSON(v)   == IsOther(v) \/ v \in [type : {"number"}, value : Nat]
IsNative(v) == IsOther(v) \/ v \in [type : {"int", "float64"}, value : Nat]
IsText(v)   == v \in [value : Nat, exponent : BOOLEAN]

(* The nearest float64, up to 2 * Exact, where every second number is one. *)
Float64(n) ==
    CASE n <= Exact \/ n % 2 = 0    -> n
      [] n > Exact /\ n % 4 = 1     -> n - 1
      [] n > Exact /\ n % 4 = 3     -> n + 1

(* encoding/json into an any: a number is a float64. *)
Decode(json) ==
    IF json.type = "number" THEN [type |-> "float64", value |-> Float64(json.value)] ELSE json

Numeric(value) == value.type # "other"

\* Faulty variant: six significant digits, the precision of %g in C.
FormatShort(value) ==
    [value    |-> IF value.value < Plain THEN value.value ELSE 2 * (value.value \div 2),
     exponent |-> value.type = "float64" /\ value.value >= Plain]

(* FormatInt of an int, the shortest text of a float64 that reads back as it. *)
FormatNumber(value) ==
    [value |-> value.value, exponent |-> value.type = "float64" /\ value.value >= Plain]
=============================================================================
