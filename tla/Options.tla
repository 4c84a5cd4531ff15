-------------------------------- MODULE Options -------------------------------
(***************************************************************************)
(* The options of Process (options.go).  A time.Duration is an int64; here *)
(* it has Width bits, and wraps around as Go's << does.                    *)
(***************************************************************************)
EXTENDS Integers

CONSTANT Width

ASSUME WidthAssumption == Width \in Nat /\ Width > 1

\* The options that are not positive are ignored; the default is 1.
Positive(n) == IF n > 0 THEN n ELSE 1

WithWorkers(n) == Positive(n)

WithRetry(n) == Positive(n)

MaxDuration == 2 ^ (Width - 1) - 1

\* The low Width bits of x, as a signed integer.
Wrapped(x) ==
  LET low == x % 2 ^ Width IN IF low > MaxDuration THEN low - 2 ^ Width ELSE low

\* base << uint(attempt-1)
Shifted(base, attempt) == Wrapped(base * 2 ^ (attempt - 1))

\* Mutant: a shift that has overflowed is taken for a delay.
ExpBackoffUnchecked(base, max, attempt) ==
  LET d == Shifted(base, attempt) IN IF d > max THEN max ELSE d

ExpBackoff(base, max, attempt) ==
  LET d == Shifted(base, attempt) IN IF d <= 0 \/ d > max THEN max ELSE d

\* The delay before a retry is base doubled attempt - 1 times, or max.
DelayIsExact(attempt) ==
  \A base \in 1..MaxDuration, max \in 0..MaxDuration :
    base * max <= MaxDuration =>
      LET exact == base * 2 ^ (attempt - 1) IN
      ExpBackoff(base, max, attempt) = IF exact > max THEN max ELSE exact
=============================================================================
