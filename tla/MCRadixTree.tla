---------------------------- MODULE MCRadixTree ----------------------------
(* Small instances of RadixTree.  Requests are numbers; pages are alike to   *)
(* every property, so the lowest free ones are taken.                        *)
EXTENDS RadixTree

MCAllocs(S, n) ==
  IF n > Cardinality(S) THEN {}
  ELSE {[i \in 1 .. n |-> CHOOSE p \in S : Cardinality({q \in S : q <= p}) = i]}

Padded(s) == [r \in Req |-> [i \in 1 .. NumPages * PageSize |->
                IF i <= Len(s[r]) THEN s[r][i] ELSE 0]]

\* 1 and 2 share a page and a half.
Texts == Padded(<<<<1, 2, 3, 4, 5, 6>>, <<1, 2, 3, 9, 5, 6>>, <<1, 2, 3, 4, 7, 8>>>>)
=============================================================================
