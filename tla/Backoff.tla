-------------------------------- MODULE Backoff --------------------------------
(***************************************************************************)
(* The waits the engine derives from settings given in floating point: the *)
(* interval of the rate limiter, and the delays between retries and        *)
(* between polls. A double is m * 2^e exactly, and everything after that   *)
(* is integer arithmetic on words of a fixed width: 2 * HalfWord bits here *)
(* for the 128 of the code, so that its 64-bit limits are HalfWord bits.   *)
(***************************************************************************)
EXTENDS Integers

CONSTANTS
  HalfWord,      \* 64
  FractionBits,  \* 52
  TopField,      \* 0x7ff, the exponent field of infinities and NaN
  MinExponent,   \* -1074
  Nanos,         \* NANOS_PER_SECOND
  NanoBits,      \* 30: Nanos < 2^NanoBits
  Settings,      \* bound: base, factor, cap and Retry-After of the waits
  RetryAfters,   \* bound: waits that a service names
  MaxWaits,      \* bound: waits of one loop
  NoValue        \* None

\* Powers of two.
Two[n \in Nat] == IF n = 0 THEN 1 ELSE 2 * Two[n - 1]

ASSUME WidthAssumption == HalfWord \in Nat \ {0} /\ FractionBits \in 0..(HalfWord - 1)
ASSUME NanosAssumption ==
  /\ NanoBits \in Nat /\ NanoBits < HalfWord + FractionBits
  /\ Nanos \in 1..(Two[NanoBits] - 1)

ASSUME ExponentAssumption == TopField \in Nat /\ MinExponent \in Int
ASSUME NoValueAssumption ==
  NoValue \notin Nat \cup [m: Nat, e: Int]
             \cup [whole: Nat, fraction: Nat, mantissa: Nat, exponent: Int, cap: Nat]

VARIABLES
  setting,   \* the policy of a loop that waits, or a rate
  backoff,   \* Backoff: whole, fraction, mantissa, exponent
  waits,     \* how many waits there have been
  wait,      \* the last of them, in milliseconds
  stopped    \* a response is returned instead of retried

backoffVars == <<setting, backoff, waits, wait, stopped>>

Word == 2 * HalfWord
MaxU64 == Two[HalfWord] - 1

\* A slow rate that rate_interval refuses unseen has an interval above MaxU64.
ASSUME ShiftAssumption == Nanos * Two[Word - NanoBits] > MaxU64 * Two[FractionBits + 1]

Wrap(v) == v % Two[Word]
LeastOf(a, b) == IF a <= b THEN a ELSE b
BitsOf(v) == CHOOSE n \in 0..Word : v < Two[n] /\ (n = 0 \/ v >= Two[n - 1])

-----------------------------------------------------------------------------
(* Doubles.                                                                *)

Doubles == [negative: BOOLEAN, field: 0..TopField, fraction: 0..(Two[FractionBits] - 1)]

ASSUME SettingsAssumption ==
  /\ Settings \subseteq [loop: {"poll", "retry"}, base: 0..MaxU64, factor: Doubles,
                         cap: 0..MaxU64, respect: BOOLEAN, maxAfter: Nat]
  /\ RetryAfters \subseteq Nat /\ MaxWaits \in Nat

dyadic(x) ==
  IF x.field = TopField \/ x.negative \/ (x.field = 0 /\ x.fraction = 0) THEN NoValue
  ELSE IF x.field = 0 THEN [m |-> x.fraction, e |-> MinExponent]
  ELSE [m |-> x.fraction + Two[FractionBits], e |-> x.field - 1 + MinExponent]

\* m * 2^e against n, in integers.
Up(d)   == Two[IF d.e > 0 THEN d.e ELSE 0]
Down(d) == Two[IF d.e < 0 THEN -d.e ELSE 0]
AtLeast(d, n) == d.m * Up(d) >= n * Down(d)
Above(d, n)   == d.m * Up(d) > n * Down(d)

Divided(n, d) == (n + d - 1) \div d      \* div_ceil

\* The interval between two requests, in nanoseconds.
rate_interval(x) ==
  LET d == dyadic(x)
      over(n, m) == IF n < m \/ Divided(n, m) > MaxU64 THEN NoValue ELSE Divided(n, m)
  IN  IF d = NoValue THEN NoValue
      ELSE IF d.e >= 0
           THEN IF d.e > NanoBits THEN NoValue ELSE over(Nanos, d.m * Two[d.e])
           ELSE IF -d.e > Word - 1 - NanoBits THEN NoValue ELSE over(Nanos * Two[-d.e], d.m)

\* validate_numeric_settings: what is refused before any request.
ValidFactor(x) == x.field # TopField /\ dyadic(x) # NoValue /\ AtLeast(dyadic(x), 1)

-----------------------------------------------------------------------------
(* The delays.                                                             *)

NewBackoff(base, x, cap) ==
  IF ~ValidFactor(x) THEN NoValue
  ELSE [whole |-> LeastOf(base, cap), fraction |-> 0,
        mantissa |-> dyadic(x).m, exponent |-> dyadic(x).e, cap |-> cap]

Saturated(b) == [b EXCEPT !.whole = b.cap, !.fraction = 0]

\* Two words, shifted; what leaves a word at the top is lost.
shift_left(high, low, by) ==
  IF by = 0 THEN <<high, low>>
  ELSE IF by < Word THEN <<Wrap(high * Two[by]) + low \div Two[Word - by], Wrap(low * Two[by])>>
  ELSE <<IF by - Word < Word THEN Wrap(low * Two[by - Word]) ELSE 0, 0>>
shift_right(high, low, by) ==
  IF by = 0 THEN <<high, low>>
  ELSE IF by < Word THEN <<high \div Two[by], low \div Two[by] + Wrap(high * Two[Word - by])>>
  ELSE <<0, IF by - Word < Word THEN high \div Two[by - Word] ELSE 0>>

\* Faulty variant: the carry of the low word is dropped.
ProductWithoutCarry(b) ==
  LET lowLow  == (b.fraction % Two[HalfWord]) * b.mantissa
      lowHigh == (b.fraction \div Two[HalfWord]) * b.mantissa
  IN  <<b.whole * b.mantissa + lowHigh \div Two[HalfWord],
        Wrap(lowLow + Wrap(lowHigh * Two[HalfWord]))>>

\* (whole, fraction) * mantissa: the high and the low word.
Product(b) ==
  LET lowLow  == (b.fraction % Two[HalfWord]) * b.mantissa
      lowHigh == (b.fraction \div Two[HalfWord]) * b.mantissa
      sum     == lowLow + Wrap(lowHigh * Two[HalfWord])
  IN  <<b.whole * b.mantissa + lowHigh \div Two[HalfWord] + sum \div Two[Word], Wrap(sum)>>

Advanced(b) ==
  LET high == Product(b)[1]
      low  == Product(b)[2]
      free == IF high = 0 THEN 2 * Word - BitsOf(low) ELSE Word - BitsOf(high)
      next == IF b.exponent >= 0 THEN shift_left(high, low, b.exponent)
                                 ELSE shift_right(high, low, -b.exponent)
  IN  IF high = 0 /\ low = 0 THEN b
      ELSE IF b.exponent >= 0 /\ b.exponent > free THEN Saturated(b)
      ELSE IF next[1] >= b.cap THEN Saturated(b)
      ELSE [b EXCEPT !.whole = next[1], !.fraction = next[2]]

-----------------------------------------------------------------------------
(* The loops that wait: retries of a request, polls of a job.              *)

BackoffStart ==
  /\ backoff = NewBackoff(setting.base, setting.factor, setting.cap)
  /\ waits = 0 /\ wait = NoValue /\ stopped = FALSE
BackoffInit == setting \in Settings /\ BackoffStart

MayWait == ValidFactor(setting.factor) /\ ~stopped /\ waits < MaxWaits

\* await_poll_url draws the first delay before the loop, and waits interval_ms
\* itself; the later waits are the later delays.
FirstPollWait ==
  /\ setting.loop = "poll" /\ MayWait /\ waits = 0
  /\ wait' = setting.base
  /\ waits' = 1
  /\ backoff' = Advanced(backoff)
  /\ UNCHANGED <<setting, stopped>>
PollWait ==
  /\ setting.loop = "poll" /\ MayWait /\ waits > 0
  /\ wait' = backoff.whole
  /\ waits' = waits + 1
  /\ backoff' = Advanced(backoff)
  /\ UNCHANGED <<setting, stopped>>

\* retry_wait of a response: without a Retry-After, or with one that is
\* ignored, the delay; else the time the service named.
RetryWait(after) ==
  /\ setting.loop = "retry" /\ MayWait
  /\ IF after # NoValue /\ setting.respect THEN after <= setting.maxAfter ELSE TRUE
  /\ wait' = IF after # NoValue /\ setting.respect
             THEN LeastOf(after, setting.maxAfter) ELSE backoff.whole
  /\ waits' = waits + 1
  /\ backoff' = Advanced(backoff)
  /\ UNCHANGED <<setting, stopped>>
RetryStops(after) ==
  /\ setting.loop = "retry" /\ MayWait
  /\ after # NoValue /\ setting.respect /\ after > setting.maxAfter
  /\ stopped' = TRUE
  /\ UNCHANGED <<setting, backoff, waits, wait>>

BackoffNext ==
  \/ FirstPollWait
  \/ PollWait
  \/ \E after \in RetryAfters \cup {NoValue} : RetryWait(after) \/ RetryStops(after)
BackoffSpec == BackoffInit /\ [][BackoffNext]_backoffVars

-----------------------------------------------------------------------------
(* What the delays and the interval are held against.                      *)

FactorOf(s)   == dyadic(s.factor)
FirstDelay(s) == LeastOf(s.base, s.cap)

\* D_n of RetryPolicy.backoff_factor, in units of 2^-Word ms.
Delay(s) ==
  LET f == FactorOf(s)
      D[n \in Nat] ==
        IF n = 0 THEN FirstDelay(s) * Two[Word]
        ELSE LeastOf(s.cap * Two[Word], (D[n - 1] * f.m * Up(f)) \div Down(f))
  IN  D

\* min(cap, base * factor^n), as a fraction.
Ideal(s) ==
  LET f == FactorOf(s)
      I[n \in Nat] ==
        IF n = 0 THEN [value |-> FirstDelay(s), over |-> 1]
        ELSE LET over == I[n - 1].over * Down(f)
             IN  [over |-> over, value |-> LeastOf(I[n - 1].value * f.m * Up(f), s.cap * over)]
  IN  I
IdealDelay(s, n) == Ideal(s)[n].value \div Ideal(s)[n].over

\* The two words and their shifts hold D_n, truncated once per step.
WordsAreExact == backoff.whole * Two[Word] + backoff.fraction = Delay(setting)[waits]

\* A delay is never longer than the ideal, at most a millisecond shorter, and
\* equal to it for an integer factor.
IsNear(ms, n) ==
  /\ ms \in {IdealDelay(setting, n) - 1, IdealDelay(setting, n)}
  /\ FactorOf(setting).e >= 0 => ms = IdealDelay(setting, n)

\* With a factor above one a delay of at least a millisecond grows at every
\* step until it is the cap.
DelayGrows ==
  backoff.whole >= 1 /\ backoff.whole < setting.cap /\ Above(FactorOf(setting), 1) =>
    Delay(setting)[waits + 1] > Delay(setting)[waits]

\* The n-th wait of a loop is the n-th delay; the first of a poll loop is the
\* interval itself, and a Retry-After takes the place of a delay.
WaitIsDue ==
  waits > 0 => \/ setting.loop = "poll" /\ waits = 1 /\ wait = setting.base
               \/ (setting.loop = "poll" => waits > 1) /\ IsNear(wait, waits - 1)
               \/ setting.loop = "retry" /\ setting.respect /\ wait <= setting.maxAfter

\* The interval is the least number of whole nanoseconds that is not faster
\* than the rate, whenever it is one at least and fits 64 bits.
IntervalIsExact(x) ==
  LET d == dyadic(x)
      slow(n) == d.m * n * Up(d) >= Nanos * Down(d)
  IN  IF d # NoValue /\ ~Above(d, Nanos) /\ slow(MaxU64)
      THEN rate_interval(x) # NoValue /\ slow(rate_interval(x)) /\ ~slow(rate_interval(x) - 1)
      ELSE rate_interval(x) = NoValue

\* Rates and waits are what the exact definitions say, for every double: a
\* factor that validation lets through has a backoff (exact.rs).
ArithmeticIsExact ==
  /\ IntervalIsExact(setting.factor)
  /\ ValidFactor(setting.factor) =>
       /\ backoff # NoValue
       /\ WordsAreExact /\ IsNear(backoff.whole, waits) /\ DelayGrows /\ WaitIsDue
=============================================================================
