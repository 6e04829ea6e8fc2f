------------------------------ MODULE Timespec ------------------------------
(***************************************************************************)
(* The struct timespec arithmetic of utils.c.  A timespec is a record      *)
(* [sec, nsec]; Billion stands for BILLION, scaled down for TLC (the       *)
(* functions only ever use it as the carry and borrow unit).  C's integer  *)
(* division truncates toward zero, which \div does not for negatives.      *)
(***************************************************************************)
EXTENDS Integers

CONSTANT Billion   \* BILLION: nanoseconds in a second

Timespec(s, n) == [sec |-> s, nsec |-> n]

\* Division and remainder of C on long and int operands.
CDiv(a, b) == IF a >= 0 THEN a \div b ELSE -((-a) \div b)
CRem(a, b) == a - b * CDiv(a, b)

\* 0 <= nsec < BILLION, what every function asserts of its operands.
Normalized(t) == 0 <= t.nsec /\ t.nsec < Billion

\* The time a timespec stands for, in nanoseconds.
Units(t) == t.sec * Billion + t.nsec

\* timespec_init.
TimespecZero == Timespec(0, 0)

\* timespec_sub(t1, t2): t1 - t2 with one borrow; asserts both normalized.
SubAsserts(t1, t2) == Normalized(t1) /\ Normalized(t2)

\* Mutant: the borrow taken only when nsec goes below -1.
TimespecSubLateBorrow(t1, t2) ==
  LET n == t1.nsec - t2.nsec
  IN IF n < -1 THEN Timespec(t1.sec - t2.sec - 1, n + Billion)
               ELSE Timespec(t1.sec - t2.sec, n)

TimespecSub(t1, t2) ==
  LET n == t1.nsec - t2.nsec
  IN IF n < 0 THEN Timespec(t1.sec - t2.sec - 1, n + Billion)
              ELSE Timespec(t1.sec - t2.sec, n)

\* timespec_add(t1, t2): t1 + t2 with one carry; asserts both normalized.
AddAsserts(t1, t2) == Normalized(t1) /\ Normalized(t2)

\* Mutant: the carry taken only past BILLION, not at it.
TimespecAddLateCarry(t1, t2) ==
  LET n == t1.nsec + t2.nsec
  IN IF n > Billion THEN Timespec(t1.sec + t2.sec + 1, n - Billion)
                    ELSE Timespec(t1.sec + t2.sec, n)

TimespecAdd(t1, t2) ==
  LET n == t1.nsec + t2.nsec
  IN IF n >= Billion THEN Timespec(t1.sec + t2.sec + 1, n - Billion)
                     ELSE Timespec(t1.sec + t2.sec, n)

\* timespec_div(ts, num): asserts ts normalized and num > 0.
DivAsserts(ts, num) == Normalized(ts) /\ num > 0

\* Mutant: the fractional seconds (below_zero) dropped.
TimespecDivNoFraction(ts, num) == Timespec(CDiv(ts.sec, num), CDiv(ts.nsec, num))

\* Mutant: tv_nsec not divided before the fraction is added.
TimespecDivNsecUndivided(ts, num) ==
  Timespec(CDiv(ts.sec, num), CDiv(ts.nsec * num + CRem(ts.sec, num) * Billion, num))

\* below_zero = sec/(double)num - sec/num is CRem(sec, num)/num; the
\* double sum tv_nsec/num + below_zero*BILLION is truncated back into the
\* long tv_nsec.  (At these magnitudes the double is exact enough that the
\* truncation gives the rational value's.)
TimespecDiv(ts, num) ==
  Timespec(CDiv(ts.sec, num),
           CDiv(CDiv(ts.nsec, num) * num + CRem(ts.sec, num) * Billion, num))

=============================================================================
