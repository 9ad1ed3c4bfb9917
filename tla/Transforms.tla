------------------------------- MODULE Transforms -------------------------------
(***************************************************************************)
(* How a record of a response becomes a row, and what the transforms of    *)
(* the configuration do to its columns. Numbers are counted in quarters,   *)
(* so that an integer n is 4 * n and a float one of a few small fractions; *)
(* the widths of integers and the digits of floats are small. What is left *)
(* of a text is how it is read as a number.                                *)
(***************************************************************************)
EXTENDS Integers

CONSTANTS
  Int64,        \* i64 is -Int64..(Int64 - 1)
  UInt64,       \* u64 is 0..(UInt64 - 1)
  Int128,       \* i128 is -Int128..(Int128 - 1)
  Floats,       \* the finite f64, in quarters
  ExactInteger, \* F64_EXACT_INTEGER
  Scale,        \* 10^d for each number d of decimals of a rounding
  MaxDecimals,  \* MAX_ROUND_DECIMALS
  Kelvin,       \* 273.15, in quarters
  Received,     \* bound: values at the path of a record
  Texts,        \* bound: texts, by how they read
  Transforms,   \* bound: transforms of a configuration
  MaxTransforms \* bound: how many there are

ASSUME FloatsAssumption == Floats \subseteq Int /\ 0 \in Floats /\ (\A f \in Floats : -f \in Floats)

ASSUME WidthsAssumption ==
  /\ Int64 \in Nat /\ UInt64 \in Nat /\ Int128 \in Nat
  /\ 0 < Int64 /\ Int64 <= UInt64 /\ UInt64 <= Int128
  /\ MaxDecimals \in Nat /\ Scale \in [0..MaxDecimals -> Nat \ {0}]
  /\ Kelvin \in Int /\ ExactInteger \in Nat
  /\ \A n \in -ExactInteger..ExactInteger : 4 * n \in Floats

VARIABLES
  row,       \* the columns of the record
  applied,   \* transforms so far
  rowState   \* "waiting" for the response, "mapped", "failed", "invalid"

transformVars == <<row, applied, rowState>>

-----------------------------------------------------------------------------
(* Values: null, a boolean, an object, a number, or a text, which may read *)
(* as an integer of at most 128 bits, a wider one, a float, an infinity or *)
(* no number.                                                              *)

Null == [t |-> "null", n |-> 0]
Integer(n) == [t |-> "int", n |-> n]
Float(q) == [t |-> "float", n |-> q]
Absent == [t |-> "absent", n |-> 0]     \* a setting that is not given
NewText == [t |-> "text", n |-> 0]      \* a text that may read as anything
Failed(why) == [t |-> "failed", n |-> why]

IsText(v) == v.t \in {"words", "textInt", "textWide", "textFloat", "textInf"}
is_text_scalar(v) == IsText(v) \/ v.t \in {"bool", "int", "float"}

\* numeric_operand: an integer, a float in quarters, or why there is none.
numeric_operand(v) ==
  CASE v.t \in {"int", "textInt"}     -> [t |-> "int", n |-> v.n]
    [] v.t \in {"float", "textFloat"} -> [t |-> "float", n |-> v.n]
    [] v.t \in {"textWide", "textInf"} -> Failed("Unrepresentable")
    [] OTHER                          -> Failed("NotNumeric")

IsNumber(v) == numeric_operand(v).t # "failed"
IsZero(x) == x.n = 0
Quarters(x) == IF x.t = "int" THEN 4 * x.n ELSE x.n

\* Faulty variant: an integer is converted whatever its size.
AnyFloat(x) == TRUE

\* exact_f64: may x be converted?
HasExactFloat(x) == x.t = "int" => x.n \in -ExactInteger..ExactInteger

\* The nearest float to num / den, or none when it is infinite.
Distance(f, num, den) == IF f * den >= num THEN f * den - num ELSE num - f * den
NearestOf(num, den) ==
  CHOOSE f \in Floats : \A g \in Floats : Distance(f, num, den) <= Distance(g, num, den)
LargestFloat == CHOOSE f \in Floats : \A g \in Floats : g <= f
float_value(num, den) ==
  IF den < 0 THEN IF num \in (LargestFloat * den)..(-LargestFloat * den)
                  THEN Float(NearestOf(-num, -den)) ELSE Failed("Unrepresentable")
  ELSE IF num \in (-LargestFloat * den)..(LargestFloat * den)
       THEN Float(NearestOf(num, den)) ELSE Failed("Unrepresentable")
AsFloat(x) == NearestOf(Quarters(x), 1)

integer_value(n) ==
  IF n \in -Int64..(Int64 - 1) \/ n \in 0..(UInt64 - 1) THEN Integer(n)
  ELSE Failed("Unrepresentable")

-----------------------------------------------------------------------------
(* Operations.                                                             *)

Arithmetic == {"add", "subtract", "multiply", "divide"}
InI128(n) == n \in -Int128..(Int128 - 1)

\* IntegerOutcome: exact, or a fraction, or too wide.
IntegerOutcome(op, a, b) ==
  LET checked(n) == IF InI128(n) THEN Integer(n) ELSE Failed("Unrepresentable")
  IN  CASE op = "add"      -> checked(a + b)
        [] op = "subtract" -> checked(a - b)
        [] op = "multiply" -> checked(a * b)
        [] op = "divide"   ->
             IF a = -Int128 /\ b = -1 THEN Failed("Unrepresentable")
             ELSE IF \E k \in -Int128..Int128 : k * b = a
                  THEN Integer(CHOOSE k \in -Int128..Int128 : k * b = a)
                  ELSE Failed("Fractional")

FloatOutcome(op, p, q) ==
  CASE op = "add"      -> float_value(p + q, 1)
    [] op = "subtract" -> float_value(p - q, 1)
    [] op = "multiply" -> float_value(p * q, 4)
    [] op = "divide"   -> float_value(4 * p, q)

numeric_arithmetic(op, left, right) ==
  LET whole == IntegerOutcome(op, left.n, right.n)
  IN  IF left.t = "failed" THEN left
      ELSE IF right.t = "failed" THEN right
      ELSE IF left.t = "int" /\ right.t = "int" /\ whole # Failed("Fractional")
           THEN IF whole.t = "int" THEN integer_value(whole.n) ELSE whole
      ELSE IF HasExactFloat(left) /\ HasExactFloat(right)
           THEN FloatOutcome(op, AsFloat(left), AsFloat(right))
      ELSE Failed("Unrepresentable")

\* Halves away from zero, in quarters.
RoundedUnit(q) == IF q >= 0 THEN 4 * ((q + 2) \div 4) ELSE -4 * ((2 - q) \div 4)

RoundedTo(x, decimals) ==
  LET scaled == float_value(x.n * Scale[decimals], 1)
  IN  IF x.t = "failed" THEN x
      ELSE IF x.t = "int" THEN integer_value(x.n)
      ELSE IF scaled.t = "failed" THEN scaled
      ELSE float_value(RoundedUnit(scaled.n), Scale[decimals])

Shifted(x, by) ==
  IF x.t = "failed" THEN x
  ELSE IF HasExactFloat(x) THEN float_value(AsFloat(x) + by, 1) ELSE Failed("Unrepresentable")

\* transform_value; "Unreached" stands for what validation has excluded.
transform_value(v, tr) ==
  IF tr.op = "default_if_null" THEN IF v.t = "null" THEN tr.value ELSE v
  ELSE IF v.t = "null" THEN Null
  ELSE CASE tr.op \in Arithmetic ->
              IF tr.op = "divide" /\ IsNumber(tr.value) /\ IsZero(numeric_operand(tr.value))
              THEN Failed("Unreached")
              ELSE numeric_arithmetic(tr.op, numeric_operand(v), numeric_operand(tr.value))
         [] tr.op = "round" -> RoundedTo(numeric_operand(v), tr.value.n)
         [] tr.op = "kelvin_to_celsius" -> Shifted(numeric_operand(v), -Kelvin)
         [] tr.op = "celsius_to_kelvin" -> Shifted(numeric_operand(v), Kelvin)
         [] tr.op \in {"uppercase", "lowercase"} ->
              IF IsText(v) THEN v ELSE Failed("NotString")
         [] tr.op \in {"prefix", "suffix", "replace"} ->
              IF is_text_scalar(v) THEN NewText ELSE Failed("NotText")
         [] OTHER -> Failed("Unreached")

\* value_as_text
TextOf(v) == CASE v.t = "int"   -> [t |-> "textInt", n |-> v.n]
               [] v.t = "float" -> [t |-> "textFloat", n |-> v.n]
               [] OTHER         -> v

\* transform_condition: "unparsed" is one that is no comparison at all.
Holds(columns, c) ==
  \/ c.is = "always"
  \/ /\ c.is \in {"equal", "different"}
     /\ columns[c.column].t # "null"
     /\ (TextOf(columns[c.column]) = c.literal) = (c.is = "equal")

ValidOperand(tr) ==
  /\ IsNumber(tr.value)
  /\ tr.op = "divide" => ~IsZero(numeric_operand(tr.value))

\* validate_transforms
ValidTransform(tr) ==
  /\ tr.condition.is # "unparsed"
  /\ CASE tr.op \in Arithmetic -> ValidOperand(tr)
       [] tr.op = "round" -> tr.value = Absent \/ (tr.value.t = "int" /\ tr.value.n \in 0..MaxDecimals)
       [] tr.op \in {"kelvin_to_celsius", "celsius_to_kelvin", "uppercase", "lowercase"} ->
            tr.value = Absent
       [] tr.op \in {"prefix", "suffix"} -> is_text_scalar(tr.value)
       [] tr.op = "replace" -> tr.value.t = "object"
       [] tr.op = "default_if_null" -> tr.value # Absent
       [] OTHER -> FALSE

-----------------------------------------------------------------------------
(* Rows.                                                                   *)

Columns == {"a", "b"}

\* What a record or a configuration may hold: JSON, whose integers have 64 bits,
\* and texts that read as one of 128, as a float, or as nothing kept of them.
Value ==
  [t: {"null"}, n: {0}] \cup [t: {"bool", "object", "words", "textWide", "textInf"}, n: Int]
  \cup [t: {"int"}, n: -Int64..(UInt64 - 1)] \cup [t: {"textInt"}, n: -Int128..(Int128 - 1)]
  \cup [t: {"float", "textFloat"}, n: Floats]

ASSUME ValuesAssumption ==
  /\ Received \subseteq Value /\ Texts \subseteq Value
  /\ \A tr \in Transforms :
       /\ tr.value \in Value \cup {Absent}
       /\ tr.source \in Columns /\ tr.column \in Columns

TransformInit ==
  /\ row = [c \in Columns |-> Null]
  /\ applied = 0
  /\ rowState = "waiting"

\* Every transform is validated before the first request.
RefuseTransforms ==
  /\ rowState = "waiting"
  /\ \E tr \in Transforms : ~ValidTransform(tr)
  /\ rowState' = "invalid"
  /\ UNCHANGED <<row, applied>>

\* map_value: the value at the path of a column, else its default, else null.
MapRow ==
  /\ rowState = "waiting"
  /\ \E v \in Received : row' = [row EXCEPT !["a"] = v]
  /\ rowState' = "mapped"
  /\ UNCHANGED applied

Applied(tr) ==
  IF Holds(row, tr.condition) THEN transform_value(row[tr.source], tr) ELSE row[tr.column]

ApplyTransform(tr) ==
  /\ rowState = "mapped" /\ applied < MaxTransforms /\ ValidTransform(tr)
  /\ applied' = applied + 1
  /\ IF Applied(tr).t = "failed"
     THEN rowState' = "failed" /\ UNCHANGED row
     ELSE /\ \E v \in IF Applied(tr) = NewText THEN Texts ELSE {Applied(tr)} :
               row' = [row EXCEPT ![tr.column] = v]
          /\ UNCHANGED rowState

TransformNext == RefuseTransforms \/ MapRow \/ \E tr \in Transforms : ApplyTransform(tr)

TransformSpec == TransformInit /\ [][TransformNext]_transformVars

-----------------------------------------------------------------------------

IsInteger(v) == numeric_operand(v).t = "int"

\* What the arithmetic defines, in quarters: num / den.
ExactResult(op, v, w) ==
  LET p == Quarters(numeric_operand(v))
      q == Quarters(numeric_operand(w))
  IN  CASE op = "add"      -> [num |-> p + q, den |-> 1]
        [] op = "subtract" -> [num |-> p - q, den |-> 1]
        [] op = "multiply" -> [num |-> p * q, den |-> 4]
        [] op = "divide"   -> [num |-> 4 * p, den |-> q]

\* The integer not above it.
WholePart(exact) ==
  LET sign == IF exact.den < 0 THEN -1 ELSE 1
  IN  (sign * exact.num) \div (4 * sign * exact.den)

\* An integer result of integers is that integer, or the row fails because it
\* fits no JSON integer; any other result is rounded once, from the operands
\* that were received.
IsExact(v, tr) ==
  LET exact == ExactResult(tr.op, v, tr.value)
      whole == WholePart(exact)
      result == transform_value(v, tr)
  IN  IF IsInteger(v) /\ IsInteger(tr.value) /\ 4 * whole * exact.den = exact.num
      THEN IF whole \in -Int64..(UInt64 - 1) THEN result = Integer(whole)
                                            ELSE result.t = "failed"
      ELSE result.t = "failed" \/ result = float_value(exact.num, exact.den)

\* For every row that is reached: no transform alters a number without saying
\* so, loses a null or a text that holds one, or meets what validation was to
\* exclude (engine.rs: transform_value).
TransformsAreExact ==
  rowState = "mapped" =>
    \A tr \in {x \in Transforms : ValidTransform(x)} :
      LET v == row[tr.source]
          result == transform_value(v, tr)
      IN  /\ result # Failed("Unreached")
          /\ v = Null /\ tr.op # "default_if_null" => result = Null
          /\ tr.op \in Arithmetic /\ v # Null =>
               IF IsNumber(v) THEN IsExact(v, tr) ELSE result.t = "failed"
          /\ tr.op = "round" /\ IsInteger(v) => result \in {integer_value(numeric_operand(v).n)}
=============================================================================
