------------------------------- MODULE Tally --------------------------------
(***************************************************************************)
(* Sums of integers over 1..n, written with a recursive function (never a  *)
(* RECURSIVE operator) so that TLC evaluates them and the provers can      *)
(* unfold them: TallyLemmas proves the facts the other modules need.       *)
(***************************************************************************)
EXTENDS Integers

\* The running sums of f: entry i is f[1] + ... + f[i].
Running(f, n) ==
  LET acc[i \in 0..n] == IF i = 0 THEN 0 ELSE acc[i - 1] + f[i]
  IN  acc

Total(f, n) == Running(f, n)[n]

=============================================================================
