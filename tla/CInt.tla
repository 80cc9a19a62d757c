---------------------------------- MODULE CInt ----------------------------------
(***************************************************************************)
(* The type int, as the readers and writers of images calculate with it.   *)
(* An int that overflows wraps around, as in the code the compilers of the *)
(* build make of it; the language leaves it undefined.                     *)
(***************************************************************************)
EXTENDS Integers

CONSTANT INT_MAX   \* the largest int; a model makes it small

ASSUME IntMaxAssumption == INT_MAX \in Nat /\ INT_MAX >= 31

Ints == (-INT_MAX - 1)..INT_MAX

\* The value of an int expression of which n is the exact value.  Sums and
\* products of wrapped values are wrapped again, so only the last step counts.
Wrap(n) ==
  LET m == n % (2 * (INT_MAX + 1)) IN
  IF m <= INT_MAX THEN m ELSE m - 2 * (INT_MAX + 1)

\* Division of C: towards zero.
CDiv(a, b) == IF a >= 0 THEN a \div b ELSE -((-a) \div b)

=============================================================================
