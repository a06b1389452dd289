---------------------------- MODULE Subsequences ----------------------------
(***************************************************************************)
(* Parts of sequences, in order.  They are written with sets of places     *)
(* instead of a predicate, and with a recursive function instead of a      *)
(* fold, so that SubsequencesProofs can reason about them.                 *)
(***************************************************************************)
EXTENDS Naturals, Sequences

\* The elements of s at the places given, in the order of s.
ElementsAt(s, places) ==
  LET upTo[n \in 0..Len(s)] ==
        IF n = 0 THEN <<>>
        ELSE IF n \in places THEN Append(upTo[n - 1], s[n]) ELSE upTo[n - 1]
  IN  upTo[Len(s)]

\* s without the elements of some.
Without(s, some) == ElementsAt(s, {n \in DOMAIN s : s[n] \notin some})

\* s without repetitions: the first of equal elements stays.
Distinct(s) == ElementsAt(s, {n \in DOMAIN s : \A m \in 1..(n - 1) : s[m] # s[n]})

=============================================================================
