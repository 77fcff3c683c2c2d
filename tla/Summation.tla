----------------------------- MODULE Summation -----------------------------
(***************************************************************************)
(* The sum of an integer function over 1..N.  Written as a recursive       *)
(* function so that SummationProofs can reason about it.                   *)
(***************************************************************************)
EXTENDS Integers

\* f[1] + ... + f[N]
Sum(f, N) ==
  LET s[i \in 0..N] == IF i = 0 THEN 0 ELSE s[i - 1] + f[i]
  IN  s[N]
============================================================================
