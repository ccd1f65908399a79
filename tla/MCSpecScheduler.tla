-------------------------- MODULE MCSpecScheduler --------------------------
(* Small instances of SpecScheduler.  Requests are numbers; pages are alike  *)
(* to every property, so the lowest free ones are taken, in request order.   *)
EXTENDS SpecScheduler, FiniteSetsExt

MCPageAssignments(S, need) ==
  LET sorted == [i \in 1 .. Cardinality(S) |->
                   CHOOSE p \in S : Cardinality({q \in S : q <= p}) = i]
      before(q) == MapThenSumSet(LAMBDA r : need[r], {r \in Req : r < q})
  IN  IF MapThenSumSet(LAMBDA r : need[r], Req) > Cardinality(S) THEN {}
      ELSE {[q \in Req |-> SubSeq(sorted, before(q) + 1, before(q) + need[q])]}

\* Request 2 asks what 1 asked and 1's first answers (a second turn); request 3
\* shares the first page only.
Asked == <<<<1, 2, 3, 4, 5, 6, 7, 8>>, <<1, 2, 3, 4, 5, 9, 8, 7>>, <<1, 2, 6, 5, 4, 3, 2, 1, 9>>>>
Of(s) == [r \in Req |-> s[r]]
Texts == [r \in Req |-> [i \in 1 .. NumPages * PageSize |->
            IF i <= Len(Asked[r]) THEN Asked[r][i] ELSE 0]]
Prompts == Of(<<3, 5, 3>>)
News == Of(<<4, 3, 4>>)
FullNews == Of(<<5, 3, 3>>)
Stops == Of(<<4, 3, 3>>)
UnevenPrompts == Of(<<3, 5, 9>>)
Short == Of(<<2, 2, 2>>)
=============================================================================
