------------------------------ MODULE RetryDelay ------------------------------
(***************************************************************************)
(* How long a job that failed for a passing reason stays invisible:        *)
(* next_visibility_sec (input/queue/mod.rs), over the receive counts that  *)
(* one job sees.  The code computes in 32 bits; Bits is the width here.    *)
(***************************************************************************)
EXTENDS Integers

CONSTANTS
  Base, Cap,
  Bits,
  MaxReceives  \* bound: the receive counts that are tried

Pow2[n \in 0..Bits] == IF n = 0 THEN 1 ELSE 2 * Pow2[n - 1]

MaxUint == Pow2[Bits] - 1

\* BASE is more than one second, and CAP, which fits the type, is no less.
ASSUME DelayAssumption ==
  /\ {Base, Cap, Bits, MaxReceives} \subseteq Nat
  /\ 1 < Base /\ Base <= Cap
  /\ 0 < Bits /\ Cap <= MaxUint

VARIABLES receives, delay

dvars == <<receives, delay>>

Least(a, b) == IF a < b THEN a ELSE b

\* A receive count of zero, which no backend reports, counts as one.
Shift(n) == Least(IF n = 0 THEN 0 ELSE n - 1, Bits - 1)

\* Mutant of SaturatingMul: the product wraps.
WrappingMul(a, b) == (a * b) % Pow2[Bits]

SaturatingMul(a, b) == Least(a * b, MaxUint)

NextVisibility(n) == Least(SaturatingMul(Base, Pow2[Shift(n)]), Cap)

DInit == receives = 0 /\ delay = NextVisibility(0)

Receive ==
  /\ receives < MaxReceives
  /\ receives' = receives + 1
  /\ delay' = NextVisibility(receives')

DNext == Receive

DSpec == DInit /\ [][DNext]_dvars

-----------------------------------------------------------------------------
\* The delay of the n-th retry without a word size.
Exact[n \in 0..MaxReceives] == IF n <= 1 THEN Base ELSE Least(2 * Exact[n - 1], Cap)

\* However often a job comes back, its delay is Base doubled with every receive
\* up to Cap: it never wraps to a short one (mod.rs:507).
DelayDoubles == delay = Exact[receives]
=============================================================================
