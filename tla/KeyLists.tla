------------------------------ MODULE KeyLists ------------------------------
(* Lists of distinct keys, the first one in front. *)
EXTENDS Naturals, Sequences

Elems(s) == {s[i] : i \in 1..Len(s)}

Place(s, k) == CHOOSE i \in 1..Len(s) : s[i] = k

Without(s, k) ==
  IF k \notin Elems(s) THEN s
  ELSE [i \in 1..(Len(s) - 1) |-> IF i < Place(s, k) THEN s[i] ELSE s[i + 1]]

Push(s, k) == [i \in 1..(Len(s) + 1) |-> IF i = 1 THEN k ELSE s[i - 1]]

\* k moved, or put, in front.
Front(s, k) == Push(Without(s, k), k)

Take(s, n) == [i \in 1..(IF n <= Len(s) THEN n ELSE Len(s)) |-> s[i]]

Distinct(s) == \A i, j \in 1..Len(s) : s[i] = s[j] => i = j
=============================================================================
