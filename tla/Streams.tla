------------------------------ MODULE Streams ------------------------------
(***************************************************************************)
(* What a connection carries to its peer: the answers to its requests, one *)
(* after the other.  Unit <<n, p>> is the p-th of the n-th answer, and     *)
(* lens is the sequence of the lengths of the answers.                     *)
(***************************************************************************)
EXTENDS Integers, Sequences

Units == Nat \X Nat

\* k units of answer n, after its first pos.
Run(n, pos, k) == [i \in 1..k |-> <<n, pos + i>>]

\* The length of an answer; answer 0 stands before the first one.
Length(lens, n) == IF n = 0 THEN 0 ELSE lens[n]
Before(out, i) == IF i = 1 THEN <<0, 0>> ELSE out[i - 1]

\* Unit v comes right after unit u: in the same answer, or at the start of a
\* later one when u was the last of its own and those between are empty.
Follows(lens, u, v) ==
  /\ v[1] \in 1..Len(lens) /\ v[2] \in 1..lens[v[1]]
  /\ \/ v[1] = u[1] /\ v[2] = u[2] + 1
     \/ /\ u[1] < v[1] /\ v[2] = 1 /\ u[2] = Length(lens, u[1])
        /\ \A m \in (u[1] + 1)..(v[1] - 1) : lens[m] = 0

\* out is made of the answers in order, without gaps or repetitions.
Unbroken(out, lens) ==
  \A i \in 1..Len(out) : Follows(lens, Before(out, i), out[i])

\* Nothing of them is missing at its end.
Finished(out, lens) ==
  LET u == Before(out, Len(out) + 1)
  IN u[2] = Length(lens, u[1]) /\ \A m \in (u[1] + 1)..Len(lens) : lens[m] = 0

=============================================================================
