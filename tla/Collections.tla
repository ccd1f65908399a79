---------------------------- MODULE Collections ----------------------------
(***************************************************************************)
(* Queues, loops and sums, defined so that they can be proved about as well *)
(* as evaluated: filters by the positions they have passed, loops by the    *)
(* turns they have made, sums by functions.                                 *)
(***************************************************************************)
EXTENDS Integers, Sequences, Functions

\* The elements of a queue.
Set(s) == {s[i] : i \in DOMAIN s}

\* [x for x in s if x in S], with what is kept of the first i elements.
Only(s, S) ==
  LET kept[i \in 0 .. Len(s)] ==
        IF i = 0 THEN <<>>
        ELSE IF s[i] \in S THEN Append(kept[i - 1], s[i]) ELSE kept[i - 1]
  IN  kept[Len(s)]

\* [x for x in s if x not in S].
Without(s, S) == Only(s, Set(s) \ S)

\* A loop whose turns map the state by g: its states after 0, 1, ..., n turns.
Iterated(g, a, n) ==
  LET at[i \in 0 .. n] == IF i = 0 THEN a ELSE g[at[i - 1]]
  IN  at

\* The sum of f[x] for x in S.
Total(f, S) == FoldFunctionOnSet(+, 0, f, S)
=============================================================================
