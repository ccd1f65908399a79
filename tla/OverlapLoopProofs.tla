-------------------------- MODULE OverlapLoopProofs --------------------------
(***************************************************************************)
(* Proofs about OverlapLoop: for any requests, page size, pool, draft       *)
(* length, aborts and pauses, the lengths the scheduler works with lag      *)
(* behind the device's by exactly the results in the queue, every result is *)
(* applied once, steps write inside what was allocated, and no page is      *)
(* lost or handed out twice.                                               *)
(***************************************************************************)
EXTENDS OverlapLoop, CollectionProofs

-----------------------------------------------------------------------------
(* The inductive invariant.                                                *)

Types ==
  /\ out \in [Req -> Nat] /\ fill \in [Req -> Nat] /\ seq \in [Req -> Nat]
  /\ committed \in [Req -> Nat] /\ alloc \in [Req -> Nat] /\ chunks \in [Req -> Nat]
  /\ row \in [Req -> 0 .. MaxRunning]
  /\ arrived \subseteq Req /\ finished \subseteq arrived /\ to_finish \subseteq arrived
  /\ retracted \subseteq arrived /\ gone \subseteq arrived
  /\ waiting \in Seq(Req) /\ running \in Seq(Req) /\ rows \in Seq(1 .. MaxRunning)
  /\ IsInjective(waiting) /\ IsInjective(running) /\ IsInjective(rows)
  /\ chunked \in Req \cup {NoReq}
  /\ pool \in Nat
  /\ phase \in {"recv", "sched", "early", "run", "run_synced", "late", "pause_pop", "pause"}

\* A batch: no request twice, each with the row it had.
Batch(b) ==
  \/ b = NoBatch
  \/ /\ b.mode \in {"extend", "decode"}
     /\ b.reqs \in Seq(Req) /\ IsInjective(b.reqs)
     /\ b.rows \in Seq(1 .. MaxRunning) /\ Len(b.rows) = Len(b.reqs)

\* e is a result of the batch b.
ResultOf(e, b) ==
  /\ e.mode = b.mode /\ e.reqs = b.reqs /\ e.rows = b.rows
  /\ e.acc \in [Set(b.reqs) -> IF b.mode = "decode" THEN 1 .. Draft ELSE {0}]

Between == {"recv", "sched", "pause", "pause_pop"}

\* Places of the loop at which only the result of last_batch is pending.
OneResult == {"recv", "sched", "early", "run", "pause_pop"}

OnlyLast == results = <<results[1]>> /\ ResultOf(results[1], last)

LastAndCur ==
  /\ results = <<results[1], results[2]>>
  /\ ResultOf(results[1], last) /\ ResultOf(results[2], cur)

\* The result queue holds the results of last_batch and, late in the loop body,
\* of the batch launched after it.
Queue ==
  /\ Batch(cur) /\ Batch(last)
  /\ phase \in Between => cur = last
  /\ phase \in {"early", "late", "pause_pop"} => last # NoBatch
  /\ phase = "early" => cur # NoBatch
  /\ \/ phase \in {"run_synced", "pause"} /\ results = <<>>
     \/ phase \in OneResult /\ last = NoBatch /\ results = <<>>
     \/ phase \in OneResult /\ last # NoBatch /\ OnlyLast
     \/ phase = "late" /\ cur = NoBatch /\ OnlyLast
     \/ phase = "late" /\ cur # NoBatch /\ LastAndCur

\* Requests of a prefill batch that has not joined the running batch.
Joining ==
  IF phase = "sched" THEN {chunked} \ {NoReq}
  ELSE IF cur.mode = "extend" THEN Set(cur.reqs) ELSE {}

\* Where requests are, and who holds memory.
Places ==
  /\ Set(waiting) \cup Set(running) \cup Joining \subseteq arrived
  /\ Set(cur.reqs) \cup Set(last.reqs) \subseteq arrived
  /\ Set(waiting) \cap (Set(running) \cup Joining \cup Set(cur.reqs) \cup finished) = {}
  /\ Set(running) \cap Joining = {}
  /\ Holding = (Set(running) \cup Joining) \ finished
  /\ phase # "pause" => Joining \cap finished = {}
  /\ chunked # NoReq => chunked \in Joining \ finished
  /\ Holding \cap retracted = {}
  /\ Set(cur.reqs) \subseteq Holding \cup finished
  /\ Set(last.reqs) \subseteq Holding \cup finished \cup retracted
  /\ cur.mode = "decode" => cur.reqs = running /\ chunked = NoReq
  /\ cur.mode = "extend" /\ phase = "sched" => Set(cur.reqs) \cap finished = {}

\* What was never admitted or was retracted holds nothing.
Fresh ==
  \A r \in Req : r \in Set(waiting) \/ r \notin arrived =>
    alloc[r] = 0 /\ fill[r] = 0 /\ chunks[r] = 0 /\ row[r] = 0

\* The i-th pending result of r: is it a decode step, how many tokens did it
\* accept, is it a prefill.
IsDecode(i, r) == i \in Pending(r) /\ results[i].mode = "decode"
Steps(i, r) == IF IsDecode(i, r) THEN 1 ELSE 0
Tokens(i, r) == IF IsDecode(i, r) THEN results[i].acc[r] ELSE 0
Fills(i, r) == IF i \in Pending(r) /\ results[i].mode = "extend" THEN 1 ELSE 0
ToFill(r) == IF Prepared(r, "extend") THEN 1 ELSE 0
ToStep(r) == IF Prepared(r, "decode") THEN 1 ELSE 0
AllSteps(r) == Steps(1, r) + Steps(2, r)
AllTokens(r) == Tokens(1, r) + Tokens(2, r)
AllFills(r) == Fills(1, r) + Fills(2, r)
First(r) == IF AllFills(r) > 0 THEN 1 ELSE 0

\* The lengths of a request that holds memory.
Tally(r) ==
  /\ r \in Joining => AllSteps(r) = 0
  /\ ToFill(r) = 1 =>
       /\ committed[r] = fill[r] /\ alloc[r] = fill[r] /\ fill[r] <= PromptLen[r] + out[r]
       /\ r # chunked => fill[r] = PromptLen[r] + out[r]
  /\ ToFill(r) = 0 =>
       /\ committed[r] + AllTokens(r) = seq[r] + ToStep(r) + AllSteps(r)
       /\ seq[r] + ToStep(r) * Draft <= alloc[r]
  /\ ToFill(r) = 0 /\ r # chunked =>
       PromptLen[r] + out[r] + AllTokens(r) + First(r) = seq[r] + 1
  /\ ToFill(r) = 0 /\ r = chunked =>
       fill[r] = committed[r] /\ alloc[r] = fill[r] /\ fill[r] <= PromptLen[r] + out[r]
  /\ alloc[r] <= committed[r] + 2 * Draft
  /\ chunks[r] + (IF r # chunked /\ AllFills(r) + ToFill(r) > 0 THEN 1 ELSE 0)
       = AllFills(r) + ToFill(r)

Tallies == \A r \in Holding : Tally(r)

\* The pages of each request.
PagesOf == [r \in Req |-> IF row[r] = 0 THEN 0 ELSE CeilDiv(alloc[r])]

Pool == pool + Total(PagesOf, Req) = NumPages

\* Every row is free or one request's.
RowsExact ==
  /\ \A r, q \in Holding : row[r] = row[q] => r = q
  /\ Set(rows) = (1 .. MaxRunning) \ {row[r] : r \in Holding}

\* No launched batch uses the row of another request.
RowsOwn ==
  \A b \in {cur, last} : \A j \in DOMAIN b.reqs :
    /\ row[b.reqs[j]] \in {0, b.rows[j]}
    /\ \A r \in Req : row[r] = b.rows[j] => r = b.reqs[j]

\* Rows that cur still uses although they were given back.
Stale == {cur.rows[j] : j \in {i \in DOMAIN cur.reqs : row[cur.reqs[i]] = 0}}

\* They are the last ones of free_slots; before a result is processed there are none.
RowsLast ==
  /\ phase # "pause" => \A i, j \in DOMAIN rows : i < j /\ rows[i] \in Stale => rows[j] \in Stale
  /\ phase \in {"early", "run", "late"} => Set(cur.reqs) \subseteq Holding

OverlapInv ==
  /\ Types /\ Queue /\ Places /\ Fresh /\ Tallies
  /\ Pool /\ RowsExact /\ RowsOwn /\ RowsLast

-----------------------------------------------------------------------------
(* Constants and pages.                                                    *)

LEMMA ConstantTypes ==
  /\ IsFiniteSet(Req) /\ NoReq \notin Req
  /\ Draft \in Nat /\ Draft >= 1 /\ PageSize \in Nat \ {0} /\ NumPages \in Nat /\ MaxRunning \in Nat
  /\ \A r \in Req : PromptLen[r] \in Nat /\ PromptLen[r] >= 1 /\ MaxNew[r] \in Nat
BY OverlapAssumption

LEMMA CeilDivFacts ==
  ASSUME NEW n \in Nat
  PROVE  /\ CeilDiv(n) \in Nat /\ (n = 0 => CeilDiv(n) = 0)
         /\ \A m \in Nat : n <= m => CeilDiv(n) <= CeilDiv(m)
<1>1. PageSize \in Nat \ {0}
  BY ConstantTypes
<1>2. \A m \in Nat : CeilDiv(m) = RoundUp(m, PageSize)
  BY DEF CeilDiv, RoundUp
<1>3. \A m \in Nat : n <= m => RoundUp(n, PageSize) <= RoundUp(m, PageSize)
  BY <1>1, RoundUpMonotone
<1> QED
  BY <1>1, <1>2, <1>3, RoundUpBounds

\* A request whose tokens are known releases all its pages.
LEMMA ReleaseAll ==
  ASSUME NEW c \in Nat, NEW n \in Nat, NEW a \in Nat, c <= n, c <= a
  PROVE  ReleasedPages(c, n, a) = CeilDiv(a)
<1>1. Min({c, n}) = c
  BY MinMaxPair
<1>2. CeilDiv(c) \in Nat /\ CeilDiv(a) \in Nat /\ CeilDiv(c) <= CeilDiv(a)
  BY CeilDivFacts
<1> DEFINE x == CeilDiv(c)
           y == CeilDiv(a)
<1> HIDE DEF x, y
<1>3. x \in Nat /\ y \in Nat /\ x <= y /\ 0 \in Int /\ y - x \in Int
  BY <1>2 DEF x, y
<1>4. Max({0, y - x}) = y - x
  <2>1. Max({0, y - x}) = IF 0 <= y - x THEN y - x ELSE 0
    BY <1>3, MinMaxPair
  <2> QED
    BY <1>3, <2>1
<1>5. ReleasedPages(c, n, a) = x + Max({0, y - x})
  BY <1>1 DEF ReleasedPages, x, y
<1>6. ReleasedPages(c, n, a) = y
  BY <1>3, <1>4, <1>5
<1> QED
  BY <1>6 DEF y

LEMMA PagesType ==
  ASSUME Types
  PROVE  PagesOf \in [Req -> Nat]
<1>1. \A r \in Req : CeilDiv(alloc[r]) \in Nat
  BY CeilDivFacts DEF Types
<1> QED
  BY <1>1 DEF PagesOf

\* What the pool gives the requests T it gets from nowhere else.
LEMMA PoolChange ==
  ASSUME Types, Pool, NEW T, T \subseteq Req, NEW g \in [Req -> Nat], g = PagesOf',
         \A r \in Req \ T : g[r] = PagesOf[r],
         pool' = pool + (Total(PagesOf, T) - Total(g, T))
  PROVE  Pool'
<1>1. PagesOf \in [Req -> Nat] /\ IsFiniteSet(Req) /\ NumPages \in Nat /\ pool \in Nat
  BY PagesType, ConstantTypes DEF Types
<1> DEFINE f == PagesOf
<1> HIDE DEF f
<1>2. /\ Total(f, Req) \in Int /\ Total(f, T) \in Int /\ Total(g, T) \in Int
      /\ Total(g, Req) = Total(f, Req) - Total(f, T) + Total(g, T)
  <2>1. \A r \in Req : f[r] \in Int /\ g[r] \in Int
    BY <1>1 DEF f
  <2>2. \A r \in Req \ T : g[r] = f[r]
    BY DEF f
  <2> QED
    BY ConstantTypes, <2>1, <2>2, SumChange
<1>3. pool + Total(f, Req) = NumPages /\ pool' = pool + (Total(f, T) - Total(g, T))
  BY DEF Pool, f
<1>4. pool' + Total(g, Req) = NumPages
  BY <1>1, <1>2, <1>3
<1> QED
  BY <1>4 DEF Pool

-----------------------------------------------------------------------------
(* The result queue.                                                       *)

LEMMA Shape ==
  ASSUME Queue
  PROVE  /\ DOMAIN results = {} \/ DOMAIN results = {1} \/ DOMAIN results = {1, 2}
         /\ 1 \in DOMAIN results => last # NoBatch /\ ResultOf(results[1], last)
         /\ 2 \in DOMAIN results => phase = "late" /\ cur # NoBatch /\ ResultOf(results[2], cur)
         /\ phase \in {"run_synced", "pause"} => results = <<>>
         /\ phase \in OneResult => (1 \in DOMAIN results <=> last # NoBatch)
         /\ phase \in OneResult => 2 \notin DOMAIN results
         /\ phase = "late" => 1 \in DOMAIN results /\ (2 \in DOMAIN results <=> cur # NoBatch)
<1> DEFINE only == (phase \in OneResult /\ last # NoBatch) \/ (phase = "late" /\ cur = NoBatch)
           both == phase = "late" /\ cur # NoBatch
           none == phase \in {"run_synced", "pause"} \/ (phase \in OneResult /\ last = NoBatch)
<1>0. (none /\ results = <<>>) \/ (only /\ OnlyLast) \/ (both /\ LastAndCur)
  <2>1. \/ phase \in {"run_synced", "pause"} /\ results = <<>>
        \/ phase \in OneResult /\ last = NoBatch /\ results = <<>>
        \/ phase \in OneResult /\ last # NoBatch /\ OnlyLast
        \/ phase = "late" /\ cur = NoBatch /\ OnlyLast
        \/ phase = "late" /\ cur # NoBatch /\ LastAndCur
    BY DEF Queue
  <2> QED
    BY <2>1
<1>1. CASE none /\ results = <<>>
  <2>1. DOMAIN results = {}
    BY <1>1
  <2> QED
    BY <1>1, <2>1 DEF OneResult
<1>2. CASE only /\ OnlyLast
  <2>1. DOMAIN results = {1} /\ ResultOf(results[1], last)
    BY <1>2 DEF OnlyLast
  <2>2. last # NoBatch
    BY <1>2 DEF Queue
  <2> QED
    BY <1>2, <2>1, <2>2 DEF OneResult
<1>3. CASE both /\ LastAndCur
  <2>1. DOMAIN results = {1, 2} /\ ResultOf(results[1], last) /\ ResultOf(results[2], cur)
    BY <1>3 DEF LastAndCur
  <2>2. last # NoBatch
    BY <1>3 DEF Queue
  <2> QED
    BY <1>3, <2>1, <2>2 DEF OneResult
<1> QED
  BY <1>0, <1>1, <1>2, <1>3

LEMMA BatchFacts ==
  ASSUME NEW b, Batch(b)
  PROVE  /\ b.mode \in {"none", "extend", "decode"} /\ (b.mode = "none" <=> b = NoBatch)
         /\ b.reqs \in Seq(Req) /\ IsInjective(b.reqs) /\ b.rows \in Seq(1 .. MaxRunning)
         /\ Len(b.rows) = Len(b.reqs) /\ Set(b.reqs) \subseteq Req
         /\ DOMAIN b.reqs = DOMAIN b.rows /\ IsFiniteSet(Set(b.reqs))
<1>1. /\ b.mode \in {"none", "extend", "decode"} /\ (b.mode = "none" <=> b = NoBatch)
      /\ b.reqs \in Seq(Req) /\ IsInjective(b.reqs) /\ b.rows \in Seq(1 .. MaxRunning)
      /\ Len(b.rows) = Len(b.reqs)
  <2>1. CASE b = NoBatch
    <3>1. b.mode = "none" /\ b.reqs = <<>> /\ b.rows = <<>>
      BY <2>1 DEF NoBatch
    <3>2. IsInjective(<<>>) /\ <<>> \in Seq(Req) /\ <<>> \in Seq(1 .. MaxRunning)
      BY DEF IsInjective
    <3> QED
      BY <2>1, <3>1, <3>2
  <2>2. CASE b # NoBatch
    BY <2>2 DEF Batch
  <2> QED
    BY <2>1, <2>2
<1> QED
  BY <1>1, SetType

\* Which batch the pending results of a request are of.
LEMMA PendingFacts ==
  ASSUME Queue, NEW r
  PROVE  /\ Pending(r) \subseteq {1, 2}
         /\ 1 \in Pending(r) <=> 1 \in DOMAIN results /\ r \in Set(last.reqs)
         /\ 2 \in Pending(r) <=> 2 \in DOMAIN results /\ r \in Set(cur.reqs)
         /\ 1 \in Pending(r) => /\ results[1].mode = last.mode
                                /\ last.mode = "decode" => results[1].acc[r] \in 1 .. Draft
         /\ 2 \in Pending(r) => /\ results[2].mode = cur.mode
                                /\ cur.mode = "decode" => results[2].acc[r] \in 1 .. Draft
BY Shape DEF Pending, ResultOf

\* How the counters of a request are related.
LEMMA CounterFacts ==
  ASSUME Queue, NEW r
  PROVE  /\ Steps(1, r) \in 0 .. 1 /\ Steps(2, r) \in 0 .. 1 /\ Fills(1, r) \in 0 .. 1
         /\ Fills(2, r) \in 0 .. 1 /\ ToFill(r) \in 0 .. 1 /\ ToStep(r) \in 0 .. 1 /\ First(r) \in 0 .. 1
         /\ Tokens(1, r) \in Nat /\ Tokens(2, r) \in Nat
         /\ Steps(1, r) <= Tokens(1, r) /\ Tokens(1, r) <= Draft
         /\ Steps(2, r) <= Tokens(2, r) /\ Tokens(2, r) <= Draft
         /\ (Steps(1, r) = 0 => Tokens(1, r) = 0) /\ (Steps(2, r) = 0 => Tokens(2, r) = 0)
         /\ Fills(1, r) + Steps(1, r) <= 1
         /\ Steps(2, r) + Fills(2, r) + ToStep(r) + ToFill(r) <= 1
         /\ AllSteps(r) = Steps(1, r) + Steps(2, r) /\ AllSteps(r) \in Nat
         /\ AllTokens(r) = Tokens(1, r) + Tokens(2, r) /\ AllTokens(r) \in Nat
         /\ AllFills(r) = Fills(1, r) + Fills(2, r) /\ AllFills(r) \in Nat
         /\ AllSteps(r) = 0 => AllTokens(r) = 0
         /\ First(r) = IF AllFills(r) > 0 THEN 1 ELSE 0
         /\ phase \in Between => Steps(2, r) = 0 /\ Fills(2, r) = 0 /\ ToStep(r) = 0 /\ ToFill(r) = 0
         /\ phase = "pause" => Steps(1, r) = 0 /\ Fills(1, r) = 0
<1>0. Draft \in Nat /\ Draft >= 1
  BY ConstantTypes
<1>1. /\ Steps(1, r) \in 0 .. 1 /\ Fills(1, r) \in 0 .. 1 /\ Fills(1, r) + Steps(1, r) <= 1
      /\ Tokens(1, r) \in Nat /\ Steps(1, r) <= Tokens(1, r) /\ Tokens(1, r) <= Draft
      /\ Steps(1, r) = 0 => Tokens(1, r) = 0
  BY <1>0, PendingFacts DEF Steps, Fills, Tokens, IsDecode
<1>2. /\ Steps(2, r) \in 0 .. 1 /\ Fills(2, r) \in 0 .. 1 /\ Fills(2, r) + Steps(2, r) <= 1
      /\ Tokens(2, r) \in Nat /\ Steps(2, r) <= Tokens(2, r) /\ Tokens(2, r) <= Draft
      /\ Steps(2, r) = 0 => Tokens(2, r) = 0
  BY <1>0, PendingFacts DEF Steps, Fills, Tokens, IsDecode
<1>3. /\ ToFill(r) \in 0 .. 1 /\ ToStep(r) \in 0 .. 1 /\ ToFill(r) + ToStep(r) <= 1
      /\ phase \notin {"early", "run", "run_synced"} => ToFill(r) = 0 /\ ToStep(r) = 0
  BY DEF ToFill, ToStep, Prepared
<1>4. phase # "late" => Steps(2, r) = 0 /\ Fills(2, r) = 0
  BY PendingFacts, Shape DEF Steps, Fills, IsDecode
<1>5. phase = "pause" => Steps(1, r) = 0 /\ Fills(1, r) = 0
  BY PendingFacts, Shape DEF Steps, Fills, IsDecode
<1>6. /\ AllSteps(r) = Steps(1, r) + Steps(2, r) /\ AllSteps(r) \in Nat
      /\ AllTokens(r) = Tokens(1, r) + Tokens(2, r) /\ AllTokens(r) \in Nat
      /\ AllFills(r) = Fills(1, r) + Fills(2, r) /\ AllFills(r) \in Nat
      /\ AllSteps(r) = 0 => AllTokens(r) = 0
      /\ First(r) = IF AllFills(r) > 0 THEN 1 ELSE 0
      /\ First(r) \in 0 .. 1
  BY <1>1, <1>2 DEF First, AllSteps, AllTokens, AllFills
<1>7. Steps(2, r) + Fills(2, r) + ToStep(r) + ToFill(r) <= 1
  BY <1>2, <1>3, <1>4
<1>8. phase \in Between => Steps(2, r) = 0 /\ Fills(2, r) = 0 /\ ToStep(r) = 0 /\ ToFill(r) = 0
  BY <1>3, <1>4 DEF Between
<1> QED
  BY <1>1, <1>2, <1>3, <1>5, <1>6, <1>7, <1>8

LEMMA CounterRanges ==
  Queue => \A r : /\ Steps(1, r) \in 0 .. 1 /\ Steps(2, r) \in 0 .. 1 /\ Fills(1, r) \in 0 .. 1
                  /\ Fills(2, r) \in 0 .. 1 /\ Tokens(1, r) \in Nat /\ Tokens(2, r) \in Nat
                  /\ AllSteps(r) \in Nat /\ AllTokens(r) \in Nat /\ AllFills(r) \in Nat
                  /\ First(r) = IF AllFills(r) > 0 THEN 1 ELSE 0
BY CounterFacts

LEMMA CounterRangesNext ==
  Queue' => (\A r : /\ Steps(1, r) \in 0 .. 1 /\ Steps(2, r) \in 0 .. 1 /\ Fills(1, r) \in 0 .. 1
                    /\ Fills(2, r) \in 0 .. 1 /\ Tokens(1, r) \in Nat /\ Tokens(2, r) \in Nat
                    /\ AllSteps(r) \in Nat /\ AllTokens(r) \in Nat /\ AllFills(r) \in Nat
                    /\ First(r) = IF AllFills(r) > 0 THEN 1 ELSE 0)'
BY CounterRanges, PTL

-----------------------------------------------------------------------------
(* What a step leaves alone.                                               *)

Prepares == {"early", "run", "run_synced"}

\* The counters of a request when the queue and the batch stay.
LEMMA CountersSame ==
  ASSUME UNCHANGED <<cur, results>>, NEW r,
         phase' = phase \/ (phase \notin Prepares /\ phase' \notin Prepares)
  PROVE  /\ Steps(1, r)' = Steps(1, r) /\ Steps(2, r)' = Steps(2, r)
         /\ Tokens(1, r)' = Tokens(1, r) /\ Tokens(2, r)' = Tokens(2, r)
         /\ Fills(1, r)' = Fills(1, r) /\ Fills(2, r)' = Fills(2, r)
         /\ ToFill(r)' = ToFill(r) /\ ToStep(r)' = ToStep(r) /\ First(r)' = First(r)
         /\ AllSteps(r)' = AllSteps(r) /\ AllTokens(r)' = AllTokens(r) /\ AllFills(r)' = AllFills(r)
<1>1. results' = results /\ cur' = cur
  OBVIOUS
<1>2. Pending(r)' = Pending(r)
  BY <1>1 DEF Pending
<1>3. IsDecode(1, r)' = IsDecode(1, r) /\ IsDecode(2, r)' = IsDecode(2, r)
  BY <1>1, <1>2 DEF IsDecode
<1>4. /\ Steps(1, r)' = Steps(1, r) /\ Steps(2, r)' = Steps(2, r)
      /\ Tokens(1, r)' = Tokens(1, r) /\ Tokens(2, r)' = Tokens(2, r)
  BY <1>1, <1>3 DEF Steps, Tokens
<1>5. Fills(1, r)' = Fills(1, r) /\ Fills(2, r)' = Fills(2, r)
  BY <1>1, <1>2 DEF Fills
<1>6. ToFill(r)' = ToFill(r) /\ ToStep(r)' = ToStep(r)
  BY <1>1 DEF ToFill, ToStep, Prepared, Prepares
<1> QED
  BY <1>4, <1>5, <1>6 DEF First, AllSteps, AllTokens, AllFills

LEMMA TalliesSame ==
  ASSUME Tallies, UNCHANGED <<out, fill, committed, alloc, row, chunks, seq, chunked, cur, results>>,
         phase' = phase \/ (phase \notin Prepares /\ phase' \notin Prepares),
         Joining' \subseteq Joining
  PROVE  Tallies'
<1> SUFFICES ASSUME NEW r \in Holding' PROVE Tally(r)'
  BY DEF Tallies
<1>1. r \in Holding
  BY DEF Holding
<1>2. Tally(r)
  BY <1>1 DEF Tallies
<1>3. /\ AllSteps(r)' = AllSteps(r) /\ AllTokens(r)' = AllTokens(r) /\ AllFills(r)' = AllFills(r)
      /\ ToFill(r)' = ToFill(r) /\ ToStep(r)' = ToStep(r) /\ First(r)' = First(r)
  BY CountersSame
<1>4. r \in Joining' => r \in Joining
  OBVIOUS
<1>5. /\ out' = out /\ fill' = fill /\ committed' = committed /\ alloc' = alloc
      /\ chunks' = chunks /\ seq' = seq /\ chunked' = chunked
  OBVIOUS
<1> QED
  BY <1>2, <1>3, <1>4, <1>5, Zenon DEF Tally

LEMMA PoolSame ==
  ASSUME Pool, UNCHANGED <<pool, row, alloc>>
  PROVE  Pool'
<1>1. PagesOf' = PagesOf
  BY DEF PagesOf
<1> QED
  BY <1>1 DEF Pool

LEMMA RowsSame ==
  ASSUME RowsExact, RowsOwn, UNCHANGED <<row, rows, cur, last>>
  PROVE  RowsExact' /\ RowsOwn' /\ Stale' = Stale
<1>1. row' = row /\ rows' = rows /\ cur' = cur /\ last' = last
  OBVIOUS
<1>2. Holding' = Holding
  BY <1>1 DEF Holding
<1>3. RowsExact'
  BY <1>1, <1>2 DEF RowsExact
<1>4. RowsOwn'
  BY <1>1 DEF RowsOwn
<1>5. Stale' = Stale
  BY <1>1 DEF Stale
<1> QED
  BY <1>3, <1>4, <1>5

LEMMA RowsLastSame ==
  ASSUME RowsLast, UNCHANGED <<row, rows, cur>>, phase # "pause" \/ phase' = "pause",
         phase' \in {"early", "run", "late"} => phase \in {"early", "run", "late"}
  PROVE  RowsLast'
<1>1. Holding' = Holding /\ Stale' = Stale
  BY DEF Holding, Stale
<1> QED
  BY <1>1 DEF RowsLast

LEMMA QueueSame ==
  ASSUME Queue, UNCHANGED <<cur, last, results>>,
         \/ phase' = phase
         \/ phase = "recv" /\ phase' = "sched"
         \/ phase = "recv" /\ phase' = "pause" /\ last = NoBatch
         \/ phase = "recv" /\ phase' = "pause_pop" /\ last # NoBatch
  PROVE  Queue'
<1>1. results' = results /\ cur' = cur /\ last' = last
  OBVIOUS
<1>2. (OnlyLast' <=> OnlyLast) /\ (LastAndCur' <=> LastAndCur)
  BY <1>1 DEF OnlyLast, LastAndCur, ResultOf
<1>3. Batch(cur') /\ Batch(last')
  BY <1>1 DEF Queue
<1>4. CASE phase' = phase
  BY <1>1, <1>2, <1>3, <1>4 DEF Queue, Batch
<1>5. CASE phase = "recv" /\ phase' # "recv"
  <2>1. cur = last
    BY <1>5 DEF Queue, Between
  <2>2. (last = NoBatch /\ results = <<>>) \/ (last # NoBatch /\ OnlyLast)
    BY <1>5 DEF Queue, OneResult
  <2> QED
    BY <1>1, <1>2, <1>3, <1>5, <2>1, <2>2 DEF Queue, OneResult, Between, Batch
<1> QED
  BY <1>4, <1>5

-----------------------------------------------------------------------------
(* The initial state and stuttering.                                       *)

LEMMA InitInv == Init => OverlapInv
<1> SUFFICES ASSUME Init PROVE OverlapInv
  OBVIOUS
<1>0. MaxRunning \in Nat /\ NumPages \in Nat /\ IsFiniteSet(Req)
  BY ConstantTypes
<1>1. /\ rows \in Seq(1 .. MaxRunning) /\ IsInjective(rows) /\ Set(rows) = 1 .. MaxRunning
  BY <1>0 DEF Init, IsInjective, Set
<1>2. Types
  <2>1. <<>> \in Seq(Req) /\ IsInjective(<<>>)
    BY DEF IsInjective
  <2> QED
    BY <1>0, <1>1, <2>1 DEF Init, Types
<1>3. Holding = {} /\ Joining = {} /\ Stale = {}
  BY DEF Init, Holding, Joining, Stale, NoBatch
<1>4. /\ Set(waiting) = {} /\ Set(running) = {} /\ Set(cur.reqs) = {} /\ Set(last.reqs) = {}
      /\ cur.mode = "none" /\ DOMAIN cur.reqs = {} /\ DOMAIN last.reqs = {}
  BY DEF Init, NoBatch, Set
<1>5. Queue
  BY DEF Init, Queue, Batch, Between, OneResult
<1>6. Places
  BY <1>3, <1>4 DEF Init, Places
<1>7. Fresh
  BY DEF Init, Fresh
<1>8. Tallies
  BY <1>3 DEF Tallies
<1>9. Pool
  <2>1. \A r \in Req : PagesOf[r] = 0
    BY DEF PagesOf, Init
  <2>2. Total(PagesOf, Req) = 0
    BY <1>0, <2>1, SumZero
  <2> QED
    BY <1>0, <2>2 DEF Pool, Init
<1>10. RowsExact
  BY <1>1, <1>3 DEF RowsExact
<1>11. RowsOwn
  BY <1>4 DEF RowsOwn
<1>12. RowsLast
  BY <1>3, <1>4 DEF RowsLast, Init
<1> QED
  BY <1>2, <1>5, <1>6, <1>7, <1>8, <1>9, <1>10, <1>11, <1>12 DEF OverlapInv

LEMMA StutterStep ==
  ASSUME OverlapInv, UNCHANGED vars
  PROVE  OverlapInv'
<1>1. /\ UNCHANGED <<out, fill, committed, alloc, row, chunks>>
      /\ UNCHANGED <<finished, to_finish, retracted, gone>>
      /\ UNCHANGED <<seq, arrived, waiting, running, chunked>>
      /\ UNCHANGED <<cur, last, results, rows, pool, phase>>
  BY DEF vars, reqs
<1>2. Types'
  BY <1>1 DEF OverlapInv, Types
<1>3. Queue'
  BY <1>1, QueueSame DEF OverlapInv
<1>4. Joining' = Joining /\ Holding' = Holding
  BY <1>1 DEF Joining, Holding
<1>5. Places'
  BY <1>1, <1>4 DEF OverlapInv, Places
<1>6. Fresh'
  BY <1>1 DEF OverlapInv, Fresh
<1>7. Tallies'
  BY <1>1, <1>4, TalliesSame DEF OverlapInv
<1>8. Pool' /\ RowsExact' /\ RowsOwn' /\ RowsLast'
  BY <1>1, PoolSame, RowsSame, RowsLastSame DEF OverlapInv
<1> QED
  BY <1>2, <1>3, <1>5, <1>6, <1>7, <1>8 DEF OverlapInv

-----------------------------------------------------------------------------
(* Requests that arrive, are aborted, or wait for a pause to end.          *)

LEMMA ArrivalStep ==
  ASSUME OverlapInv, NEW r \in Req, HandleGenerateRequest(r)
  PROVE  OverlapInv'
<1>1. /\ UNCHANGED <<out, fill, committed, alloc, row, chunks>>
      /\ UNCHANGED <<finished, to_finish, retracted, gone>>
      /\ UNCHANGED <<seq, running, chunked>>
      /\ UNCHANGED <<cur, last, results, rows, pool, phase>>
      /\ phase = "recv" /\ r \notin arrived /\ arrived' = arrived \cup {r} /\ waiting' = Append(waiting, r)
  BY DEF HandleGenerateRequest, reqs
<1>0. Types /\ Places /\ Fresh
  BY DEF OverlapInv
<1>2. r \notin Set(waiting)
  BY <1>0, <1>1 DEF Places
<1>3. waiting' \in Seq(Req) /\ Set(waiting') = Set(waiting) \cup {r} /\ IsInjective(waiting')
  <2>1. waiting \in Seq(Req) /\ IsInjective(waiting)
    BY <1>0 DEF Types
  <2> QED
    BY <1>1, <1>2, <2>1, SetAppend
<1>4. Types'
  BY <1>0, <1>1, <1>3 DEF Types
<1>5. Queue'
  BY <1>1, QueueSame DEF OverlapInv
<1>6. Joining' = Joining /\ Holding' = Holding
  BY <1>1 DEF Joining, Holding
<1>7. Places'
  <2>1. r \notin Set(running) \cup Joining \cup Set(cur.reqs) \cup finished
    BY <1>0, <1>1 DEF Types, Places
  <2> QED
    BY <1>0, <1>1, <1>3, <1>6, <2>1 DEF Places
<1>8. Fresh'
  BY <1>0, <1>1, <1>3 DEF Fresh
<1>9. Tallies'
  BY <1>1, <1>6, TalliesSame DEF OverlapInv
<1>10. Pool' /\ RowsExact' /\ RowsOwn' /\ RowsLast'
  BY <1>1, PoolSame, RowsSame, RowsLastSame DEF OverlapInv
<1> QED
  BY <1>4, <1>5, <1>7, <1>8, <1>9, <1>10 DEF OverlapInv

LEMMA AbortStep ==
  ASSUME OverlapInv, NEW r \in Req, AbortRequest(r)
  PROVE  OverlapInv'
<1>1. /\ UNCHANGED <<out, fill, committed, alloc, row, chunks>>
      /\ UNCHANGED <<finished, retracted, seq, arrived, running, chunked>>
      /\ UNCHANGED <<cur, last, results, rows, pool, phase>>
      /\ phase = "recv" /\ r \in arrived /\ waiting' = Without(waiting, {r})
      /\ gone' \subseteq gone \cup {r} /\ to_finish' \subseteq to_finish \cup {r}
  BY DEF AbortRequest
<1>0. Types /\ Places /\ Fresh
  BY DEF OverlapInv
<1>3. waiting' \in Seq(Req) /\ Set(waiting') \subseteq Set(waiting) /\ IsInjective(waiting')
  <2>1. waiting \in Seq(Req) /\ IsInjective(waiting)
    BY <1>0 DEF Types
  <2> QED
    BY <1>1, <2>1, WithoutFacts
<1>4. Types'
  BY <1>0, <1>1, <1>3 DEF Types
<1>5. Queue'
  BY <1>1, QueueSame DEF OverlapInv
<1>6. Joining' = Joining /\ Holding' = Holding
  BY <1>1 DEF Joining, Holding
<1>7. Places'
  BY <1>0, <1>1, <1>3, <1>6 DEF Places
<1>8. Fresh'
  BY <1>0, <1>1, <1>3 DEF Fresh
<1>9. Tallies'
  BY <1>1, <1>6, TalliesSame DEF OverlapInv
<1>10. Pool' /\ RowsExact' /\ RowsOwn' /\ RowsLast'
  BY <1>1, PoolSame, RowsSame, RowsLastSame DEF OverlapInv
<1> QED
  BY <1>4, <1>5, <1>7, <1>8, <1>9, <1>10 DEF OverlapInv

LEMMA PauseStep ==
  ASSUME OverlapInv, PauseInPlace \/ PauseRetract \/ ContinueGeneration
  PROVE  OverlapInv'
<1>1. /\ UNCHANGED <<out, fill, committed, alloc, row, chunks>>
      /\ UNCHANGED <<finished, to_finish, retracted, gone>>
      /\ UNCHANGED <<seq, arrived, waiting, running, chunked>>
      /\ UNCHANGED <<cur, last, results, rows, pool>>
      /\ phase = "recv"
      /\ phase' = phase \/ phase' = IF last = NoBatch THEN "pause" ELSE "pause_pop"
  BY DEF PauseInPlace, PauseRetract, ContinueGeneration, reqs
<1>0. Types /\ Places /\ Fresh
  BY DEF OverlapInv
<1>2. Types'
  BY <1>0, <1>1 DEF Types
<1>3. Queue'
  BY <1>1, QueueSame DEF OverlapInv
<1>4. Joining' = Joining /\ Holding' = Holding
  BY <1>1 DEF Joining, Holding
<1>5. Places'
  BY <1>0, <1>1, <1>4 DEF Places
<1>6. Fresh'
  BY <1>0, <1>1 DEF Fresh
<1>7. Tallies'
  BY <1>1, <1>4, TalliesSame DEF OverlapInv, Prepares
<1>8. Pool' /\ RowsExact' /\ RowsOwn'
  BY <1>1, PoolSame, RowsSame DEF OverlapInv
<1>9. RowsLast'
  BY <1>1, RowsLastSame DEF OverlapInv
<1> QED
  BY <1>2, <1>3, <1>5, <1>6, <1>7, <1>8, <1>9 DEF OverlapInv

-----------------------------------------------------------------------------
(* The last prefill batch joins the running batch.                         *)

LEMMA MergeStep ==
  ASSUME OverlapInv, MergeLastBatch
  PROVE  OverlapInv'
<1>1. /\ UNCHANGED <<out, fill, committed, alloc, row, chunks>>
      /\ UNCHANGED <<finished, to_finish, retracted, gone>>
      /\ UNCHANGED <<seq, arrived, waiting, chunked>>
      /\ UNCHANGED <<cur, last, results, rows, pool>>
      /\ phase = "recv" /\ phase' = "sched"
      /\ running' = IF last.mode = "extend"
                    THEN running \o Without(last.reqs, finished \cup {chunked}) ELSE running
  BY DEF MergeLastBatch, reqs
<1>0. Types /\ Places /\ Fresh /\ Queue
  BY DEF OverlapInv
<1>2. cur = last /\ Batch(last)
  BY <1>0, <1>1 DEF Queue, Between
<1>3. last.reqs \in Seq(Req) /\ IsInjective(last.reqs)
  BY <1>2, BatchFacts
<1>4. running \in Seq(Req) /\ IsInjective(running)
  BY <1>0 DEF Types
<1> DEFINE more == Without(last.reqs, finished \cup {chunked})
<1>5. /\ more \in Seq(Req) /\ IsInjective(more) /\ Set(more) = Set(last.reqs) \ (finished \cup {chunked})
  BY <1>3, WithoutFacts
<1> HIDE DEF more
<1>8. /\ running' \in Seq(Req) /\ IsInjective(running') /\ Set(running) \subseteq Set(running')
      /\ Joining' \subseteq Joining /\ Set(running) \cup Joining = Set(running') \cup Joining'
      /\ Set(running') \cap Joining' = {}
      /\ cur.mode = "decode" => running' = running
      /\ cur.mode = "extend" => Set(cur.reqs) \cap finished = {}
      /\ chunked # NoReq => chunked \in Joining'
  <2>1. CASE last.mode = "extend"
    <3>1. Joining = Set(last.reqs) /\ Joining' = {chunked} \ {NoReq}
      BY <1>1, <1>2, <2>1 DEF Joining
    <3>2. running' = running \o more
      BY <1>1, <2>1 DEF more
    <3>3. Set(running) \cap Set(more) = {}
      BY <1>0, <1>5, <3>1 DEF Places
    <3>4. running' \in Seq(Req) /\ IsInjective(running') /\ Set(running') = Set(running) \cup Set(more)
      BY <1>4, <1>5, <3>2, <3>3, SetConcat
    <3>5. Joining' \subseteq Joining
      BY <1>0, <3>1 DEF Places
    <3>6. Set(running) \cup Joining = Set(running') \cup Joining'
      <4>1. Joining \cap finished = {} /\ chunked \notin finished /\ NoReq \notin Joining
        BY <1>0, <1>1, <1>3, <3>1, SetType, ConstantTypes DEF Places, Types
      <4>2. Joining = Set(more) \cup Joining'
        BY <1>0, <1>5, <3>1, <3>5, <4>1
      <4> QED
        BY <3>4, <4>2
    <3>7. Set(running') \cap Joining' = {}
      BY <1>0, <1>5, <3>1, <3>4, <3>5 DEF Places
    <3>8. Set(cur.reqs) \cap finished = {} /\ cur.mode # "decode"
      BY <1>0, <1>1, <1>2, <2>1, <3>1 DEF Places
    <3> QED
      BY <3>1, <3>4, <3>5, <3>6, <3>7, <3>8
  <2>2. CASE last.mode # "extend"
    <3>1. Joining = {} /\ chunked = NoReq
      BY <1>0, <1>1, <1>2, <2>2 DEF Joining, Places
    <3>2. Joining' = {} /\ running' = running
      BY <1>1, <2>2, <3>1 DEF Joining
    <3> QED
      BY <1>0, <1>2, <1>4, <2>2, <3>1, <3>2 DEF Places
  <2> QED
    BY <2>1, <2>2
<1>9. Types'
  BY <1>0, <1>1, <1>8 DEF Types
<1>10. Queue'
  BY <1>1, QueueSame DEF OverlapInv
<1>11. Holding' = Holding
  BY <1>1 DEF Holding
<1>12. Places'
  BY <1>0, <1>1, <1>8, <1>11 DEF Places
<1>13. Fresh'
  BY <1>0, <1>1 DEF Fresh
<1>14. Tallies'
  BY <1>1, <1>8, TalliesSame DEF OverlapInv, Prepares
<1>15. Pool' /\ RowsExact' /\ RowsOwn'
  BY <1>1, PoolSame, RowsSame DEF OverlapInv
<1>16. RowsLast'
  BY <1>1, RowsLastSame DEF OverlapInv
<1> QED
  BY <1>9, <1>10, <1>12, <1>13, <1>14, <1>15, <1>16 DEF OverlapInv

-----------------------------------------------------------------------------
(* A batch is launched.                                                    *)

\* What RunBatch does when there is a batch: e is its result.
Launched(e) ==
  /\ ResultOf(e, cur) /\ results' = Append(results, e)
  /\ seq' = [r \in Req |-> IF r \notin Set(cur.reqs) THEN seq[r]
                           ELSE IF cur.mode = "decode" THEN seq[r] + e.acc[r] ELSE fill[r]]

LEMMA LaunchFacts ==
  ASSUME Queue, RunBatch
  PROVE  /\ UNCHANGED <<out, fill, committed, alloc, row, chunks, chunked>>
         /\ UNCHANGED <<finished, to_finish, retracted, gone, arrived, waiting, running>>
         /\ UNCHANGED <<cur, rows, pool>>
         /\ phase \in {"run", "run_synced"}
         /\ cur = NoBatch => UNCHANGED <<seq, results>>
         /\ cur # NoBatch => \E e : Launched(e)
         /\ \/ /\ phase = "run" /\ last # NoBatch /\ OnlyLast
               /\ phase' = "late" /\ last' = last
            \/ results = <<>> /\ phase' = "recv" /\ last' = cur
<1>1. /\ UNCHANGED <<out, fill, committed, alloc, row, chunks, chunked>>
      /\ UNCHANGED <<finished, to_finish, retracted, gone, arrived, waiting, running>>
      /\ UNCHANGED <<cur, rows, pool>>
      /\ phase \in {"run", "run_synced"}
      /\ cur = NoBatch => UNCHANGED <<seq, results>>
  BY DEF RunBatch, reqs
<1>2. ASSUME cur # NoBatch PROVE \E e : Launched(e)
  <2>1. PICK acc \in [Set(cur.reqs) -> IF cur.mode = "decode" THEN 1 .. Draft ELSE {0}] :
            /\ seq' = [r \in Req |-> IF r \notin Set(cur.reqs) THEN seq[r]
                                     ELSE IF cur.mode = "decode" THEN seq[r] + acc[r] ELSE fill[r]]
            /\ results' = Append(results, [mode |-> cur.mode, reqs |-> cur.reqs,
                                           rows |-> cur.rows, acc |-> acc])
    BY <1>2 DEF RunBatch
  <2> DEFINE e == [mode |-> cur.mode, reqs |-> cur.reqs, rows |-> cur.rows, acc |-> acc]
  <2>2. e.mode = cur.mode /\ e.reqs = cur.reqs /\ e.rows = cur.rows /\ e.acc = acc
    OBVIOUS
  <2>3. results' = Append(results, e)
    BY <2>1
  <2> HIDE DEF e
  <2>4. Launched(e)
    BY <2>1, <2>2, <2>3 DEF Launched, ResultOf
  <2> QED
    BY <2>4
<1>3. \/ phase = "run" /\ last # NoBatch /\ phase' = "late" /\ last' = last
      \/ (phase = "run_synced" \/ last = NoBatch) /\ phase' = "recv" /\ last' = cur
  BY <1>1 DEF RunBatch, EndIteration
<1>4. phase = "run" /\ last # NoBatch => OnlyLast
  BY DEF Queue, OneResult
<1>5. phase = "run_synced" \/ last = NoBatch => results = <<>>
  BY <1>1 DEF Queue, OneResult
<1> QED
  BY <1>1, <1>2, <1>3, <1>4, <1>5

LEMMA LaunchQueue ==
  ASSUME Queue, RunBatch
  PROVE  Queue'
<1>1. /\ cur' = cur /\ phase \in {"run", "run_synced"}
      /\ cur = NoBatch => UNCHANGED <<seq, results>>
      /\ cur # NoBatch => \E e : Launched(e)
      /\ \/ /\ phase = "run" /\ last # NoBatch /\ OnlyLast
            /\ phase' = "late" /\ last' = last
         \/ results = <<>> /\ phase' = "recv" /\ last' = cur
  BY LaunchFacts
<1>2. Batch(cur') /\ Batch(last')
  BY <1>1 DEF Queue
<1>3. CASE phase' = "late"
  <2>0. last # NoBatch /\ OnlyLast /\ last' = last
    BY <1>1, <1>3
  <2>1. CASE cur = NoBatch
    <3>1. OnlyLast'
      BY <1>1, <2>0, <2>1 DEF OnlyLast, ResultOf
    <3> QED
      BY <1>1, <1>2, <1>3, <2>0, <2>1, <3>1 DEF Queue, Between, Batch
  <2>2. CASE cur # NoBatch
    <3>1. PICK e : Launched(e)
      BY <1>1, <2>2
    <3>2. PICK x : results = <<x>> /\ ResultOf(x, last)
      BY <2>0 DEF OnlyLast
    <3>3. results' = <<x, e>>
      <4>1. results' = Append(results, e)
        BY <3>1 DEF Launched
      <4>2. results = <<x>>
        BY <3>2
      <4>3. Append(<<x>>, e) = <<x, e>>
        <5> DEFINE u == Append(<<x>>, e)
                   v == <<x, e>>
        <5>1. <<x>> \in Seq({x, e}) /\ v \in Seq({x, e}) /\ Len(v) = 2 /\ v[1] = x /\ v[2] = e
          OBVIOUS
        <5>2. u \in Seq({x, e}) /\ Len(u) = 2 /\ u[1] = x /\ u[2] = e
          BY <5>1
        <5>3. \A i \in 1 .. 2 : i = 1 \/ i = 2
          OBVIOUS
        <5> HIDE DEF u, v
        <5>4. u = v
          BY <5>1, <5>2, <5>3, SeqEqual
        <5> QED
          BY <5>4 DEF u, v
      <4> QED
        BY <4>1, <4>2, <4>3, Zenon
    <3>4. ResultOf(e, cur)
      BY <3>1 DEF Launched
    <3>5. LastAndCur'
      BY <1>1, <2>0, <3>2, <3>3, <3>4 DEF LastAndCur, ResultOf
    <3> QED
      BY <1>1, <1>2, <1>3, <2>0, <2>2, <3>5 DEF Queue, Between, Batch
  <2> QED
    BY <2>1, <2>2
<1>4. CASE phase' = "recv" /\ results = <<>> /\ last' = cur
  <2>1. CASE cur = NoBatch
    BY <1>1, <1>2, <1>4, <2>1 DEF Queue, Between, Batch, OneResult
  <2>2. CASE cur # NoBatch
    <3>1. PICK e : Launched(e)
      BY <1>1, <2>2
    <3>3. results' = <<e>>
      BY <1>4, <3>1 DEF Launched
    <3>4. ResultOf(e, cur)
      BY <3>1 DEF Launched
    <3>5. OnlyLast'
      BY <1>1, <1>4, <3>3, <3>4 DEF OnlyLast, ResultOf
    <3> QED
      BY <1>1, <1>2, <1>4, <2>2, <3>5 DEF Queue, Between, Batch, OneResult
  <2> QED
    BY <2>1, <2>2
<1> QED
  BY <1>1, <1>3, <1>4

\* The launched batch moves from the prepared to the pending.
LEMMA LaunchCounters ==
  ASSUME Types, Queue, RunBatch, NEW r \in Req
  PROVE  \E a \in Nat :
           /\ ToStep(r) = 1 => a >= 1 /\ a <= Draft
           /\ ToStep(r) = 0 => a = 0
           /\ seq'[r] = IF ToFill(r) = 1 THEN fill[r] ELSE seq[r] + a
           /\ AllTokens(r)' = AllTokens(r) + a /\ AllSteps(r)' = AllSteps(r) + ToStep(r)
           /\ AllFills(r)' = AllFills(r) + ToFill(r)
           /\ ToFill(r)' = 0 /\ ToStep(r)' = 0
<1>0. Draft \in Nat /\ seq[r] \in Nat
  BY ConstantTypes DEF Types
<1>1. /\ cur' = cur /\ phase \in {"run", "run_synced"}
      /\ cur = NoBatch => UNCHANGED <<seq, results>>
      /\ cur # NoBatch => \E e : Launched(e)
      /\ \/ /\ phase = "run" /\ last # NoBatch /\ OnlyLast
            /\ phase' = "late" /\ last' = last
         \/ results = <<>> /\ phase' = "recv" /\ last' = cur
  BY LaunchFacts
<1>2. ToFill(r)' = 0 /\ ToStep(r)' = 0
  BY <1>1 DEF ToFill, ToStep, Prepared
<1>3. Batch(cur) /\ cur.mode \in {"none", "extend", "decode"} /\ (cur.mode = "none" <=> cur = NoBatch)
  BY BatchFacts DEF Queue
<1>4. /\ ToStep(r) = IF cur.mode = "decode" /\ r \in Set(cur.reqs) THEN 1 ELSE 0
      /\ ToFill(r) = IF cur.mode = "extend" /\ r \in Set(cur.reqs) THEN 1 ELSE 0
  BY <1>1 DEF ToStep, ToFill, Prepared
<1>5. Tokens(1, r) \in Nat /\ Tokens(2, r) \in Nat /\ Steps(1, r) \in 0 .. 1 /\ Steps(2, r) \in 0 .. 1
      /\ Fills(1, r) \in 0 .. 1 /\ Fills(2, r) \in 0 .. 1
  BY CounterFacts
<1>6. CASE cur = NoBatch
  <2>1. ToStep(r) = 0 /\ ToFill(r) = 0
    BY <1>3, <1>4, <1>6
  <2>2. results' = results /\ seq' = seq
    BY <1>1, <1>6
  <2>3. Pending(r)' = Pending(r)
    BY <2>2 DEF Pending
  <2>4. /\ Steps(1, r)' = Steps(1, r) /\ Steps(2, r)' = Steps(2, r)
        /\ Tokens(1, r)' = Tokens(1, r) /\ Tokens(2, r)' = Tokens(2, r)
        /\ Fills(1, r)' = Fills(1, r) /\ Fills(2, r)' = Fills(2, r)
    BY <2>2, <2>3 DEF Steps, Tokens, Fills, IsDecode
  <2>5. seq'[r] = seq[r]
    BY <2>2
  <2> QED
    BY <1>0, <1>2, <1>5, <2>1, <2>4, <2>5 DEF AllTokens, AllSteps, AllFills
<1>7. CASE cur # NoBatch
  <2>1. PICK e : Launched(e)
    BY <1>1, <1>7
  <2>2. /\ e.mode = cur.mode /\ e.reqs = cur.reqs
        /\ e.acc \in [Set(cur.reqs) -> IF cur.mode = "decode" THEN 1 .. Draft ELSE {0}]
        /\ results' = Append(results, e)
        /\ seq'[r] = IF r \notin Set(cur.reqs) THEN seq[r]
                     ELSE IF cur.mode = "decode" THEN seq[r] + e.acc[r] ELSE fill[r]
    BY <2>1 DEF Launched, ResultOf
  <2> DEFINE a == IF ToStep(r) = 1 THEN e.acc[r] ELSE 0
  <2>3. /\ a \in Nat /\ (ToStep(r) = 1 => a >= 1 /\ a <= Draft) /\ (ToStep(r) = 0 => a = 0)
        /\ seq'[r] = IF ToFill(r) = 1 THEN fill[r] ELSE seq[r] + a
    BY <1>0, <1>3, <1>4, <1>7, <2>2
  <2>4. /\ AllTokens(r)' = AllTokens(r) + a /\ AllSteps(r)' = AllSteps(r) + ToStep(r)
        /\ AllFills(r)' = AllFills(r) + ToFill(r)
    <3>1. CASE OnlyLast
      <4>1. PICK x : results = <<x>>
        BY <3>1 DEF OnlyLast
      <4>2. DOMAIN results = {1} /\ results[1] = x
        BY <4>1
      <4>3. DOMAIN results' = {1, 2} /\ results'[1] = x /\ results'[2] = e
        BY <2>2, <4>1
      <4>4. /\ 1 \in Pending(r)' <=> 1 \in Pending(r)
            /\ 2 \in Pending(r)' <=> r \in Set(cur.reqs)
            /\ 2 \notin Pending(r)
        BY <2>2, <4>2, <4>3 DEF Pending
      <4>5. /\ Steps(1, r)' = Steps(1, r) /\ Tokens(1, r)' = Tokens(1, r) /\ Fills(1, r)' = Fills(1, r)
            /\ Steps(2, r) = 0 /\ Tokens(2, r) = 0 /\ Fills(2, r) = 0
        BY <4>2, <4>3, <4>4 DEF Steps, Tokens, Fills, IsDecode
      <4>6. Steps(2, r)' = ToStep(r) /\ Tokens(2, r)' = a /\ Fills(2, r)' = ToFill(r)
        BY <1>4, <2>2, <4>3, <4>4 DEF Steps, Tokens, Fills, IsDecode
      <4> QED
        BY <1>4, <1>5, <2>3, <4>5, <4>6 DEF AllTokens, AllSteps, AllFills
    <3>2. CASE results = <<>>
      <4>1. DOMAIN results = {}
        BY <3>2
      <4>2. DOMAIN results' = {1} /\ results'[1] = e
        BY <2>2, <3>2
      <4>3. /\ 1 \in Pending(r)' <=> r \in Set(cur.reqs)
            /\ 2 \notin Pending(r)' /\ 1 \notin Pending(r) /\ 2 \notin Pending(r)
        BY <2>2, <4>1, <4>2 DEF Pending
      <4>4. /\ Steps(2, r)' = 0 /\ Tokens(2, r)' = 0 /\ Fills(2, r)' = 0
            /\ Steps(1, r) = 0 /\ Tokens(1, r) = 0 /\ Fills(1, r) = 0
            /\ Steps(2, r) = 0 /\ Tokens(2, r) = 0 /\ Fills(2, r) = 0
        BY <4>3 DEF Steps, Tokens, Fills, IsDecode
      <4>5. Steps(1, r)' = ToStep(r) /\ Tokens(1, r)' = a /\ Fills(1, r)' = ToFill(r)
        BY <1>4, <2>2, <4>2, <4>3 DEF Steps, Tokens, Fills, IsDecode
      <4> QED
        BY <1>4, <2>3, <4>4, <4>5 DEF AllTokens, AllSteps, AllFills
    <3> QED
      BY <1>1, <3>1, <3>2
  <2> HIDE DEF a
  <2> QED
    BY <1>2, <2>3, <2>4
<1> QED
  BY <1>6, <1>7

LEMMA LaunchStep ==
  ASSUME OverlapInv, RunBatch
  PROVE  OverlapInv'
<1>0. Types /\ Queue /\ Places /\ Fresh /\ Tallies
  BY DEF OverlapInv
<1>1. /\ UNCHANGED <<out, fill, committed, alloc, row, chunks, chunked>>
      /\ UNCHANGED <<finished, to_finish, retracted, gone, arrived, waiting, running>>
      /\ UNCHANGED <<cur, rows, pool>>
      /\ phase \in {"run", "run_synced"}
      /\ \/ phase' = "late" /\ phase = "run" /\ last' = last
         \/ phase' = "recv" /\ last' = cur
  BY <1>0, LaunchFacts
<1>2. Types'
  <2>1. seq' \in [Req -> Nat]
    <3>1. CASE cur = NoBatch
      BY <1>0, <3>1, LaunchFacts DEF Types
    <3>2. CASE cur # NoBatch
      <4>1. PICK e : Launched(e)
        BY <1>0, <3>2, LaunchFacts
      <4>2. seq' = [r \in Req |-> IF r \notin Set(cur.reqs) THEN seq[r]
                           ELSE IF cur.mode = "decode" THEN seq[r] + e.acc[r] ELSE fill[r]]
        BY <4>1 DEF Launched
      <4>3. \A r \in Set(cur.reqs) : cur.mode = "decode" => e.acc[r] \in Nat
        BY <4>1, ConstantTypes DEF Launched, ResultOf
      <4>4. \A r \in Req : seq[r] \in Nat /\ fill[r] \in Nat
        BY <1>0 DEF Types
      <4>5. \A r \in Set(cur.reqs) : cur.mode = "decode" => seq[r] + e.acc[r] \in Nat
        <5>1. Set(cur.reqs) \subseteq Req
          BY <1>0, BatchFacts DEF Queue
        <5> QED
          BY <4>3, <4>4, <5>1
      <4> QED
        BY <4>2, <4>4, <4>5
    <3> QED
      BY <3>1, <3>2
  <2> QED
    BY <1>0, <1>1, <2>1 DEF Types
<1>3. Queue'
  BY <1>0, LaunchQueue
<1>4. Joining' = Joining /\ Holding' = Holding
  BY <1>1 DEF Joining, Holding
<1>5. Places'
  BY <1>0, <1>1, <1>4 DEF Places
<1>6. Fresh'
  BY <1>0, <1>1 DEF Fresh
<1>7. Tallies'
  <2> SUFFICES ASSUME NEW r \in Holding' PROVE Tally(r)'
    BY DEF Tallies
  <2>1. r \in Req /\ Tally(r)
    BY <1>0, <1>4 DEF Tallies, Holding
  <2>2. PICK a \in Nat :
           /\ ToStep(r) = 1 => a >= 1 /\ a <= Draft
           /\ ToStep(r) = 0 => a = 0
           /\ seq'[r] = IF ToFill(r) = 1 THEN fill[r] ELSE seq[r] + a
           /\ AllTokens(r)' = AllTokens(r) + a /\ AllSteps(r)' = AllSteps(r) + ToStep(r)
           /\ AllFills(r)' = AllFills(r) + ToFill(r)
           /\ ToFill(r)' = 0 /\ ToStep(r)' = 0
    BY <1>0, <2>1, LaunchCounters
  <2>3. /\ ToFill(r) \in 0 .. 1 /\ ToStep(r) \in 0 .. 1 /\ First(r) \in 0 .. 1
        /\ AllSteps(r) \in Nat /\ AllTokens(r) \in Nat /\ AllFills(r) \in Nat
        /\ AllSteps(r) = 0 => AllTokens(r) = 0
        /\ First(r) = IF AllFills(r) > 0 THEN 1 ELSE 0
        /\ ToFill(r) + ToStep(r) <= 1
    BY <1>0, CounterFacts
  <2>4. /\ AllSteps(r)' \in Nat /\ AllTokens(r)' \in Nat /\ AllFills(r)' \in Nat
        /\ First(r)' = IF AllFills(r)' > 0 THEN 1 ELSE 0
    BY <1>3, CounterRangesNext
  <2>5. /\ PromptLen[r] \in Nat /\ out[r] \in Nat /\ fill[r] \in Nat /\ seq[r] \in Nat
        /\ committed[r] \in Nat /\ alloc[r] \in Nat /\ chunks[r] \in Nat /\ Draft \in Nat
    BY <1>0, <2>1, ConstantTypes DEF Types
  <2>6. /\ ToFill(r) = 1 => r \in Joining
        /\ ToStep(r) = 1 => r # chunked /\ r \notin Joining
    BY <1>0, <1>1, <2>1, ConstantTypes DEF Places, ToFill, ToStep, Prepared, Joining
  <2>7. /\ out'[r] = out[r] /\ fill'[r] = fill[r] /\ committed'[r] = committed[r]
        /\ alloc'[r] = alloc[r] /\ chunks'[r] = chunks[r] /\ chunked' = chunked
    BY <1>1
  <2>8. r \in Joining => AllSteps(r)' = 0
    <3>1. r \in Joining => AllSteps(r) = 0
      BY <2>1 DEF Tally
    <3> QED
      BY <2>2, <2>3, <2>6, <3>1
  <2>9. /\ committed[r] + AllTokens(r)' = seq'[r] + AllSteps(r)'
        /\ seq'[r] <= alloc[r]
    <3>1. CASE ToFill(r) = 1
      <4>1. AllSteps(r) = 0 /\ committed[r] = fill[r] /\ alloc[r] = fill[r]
        BY <2>1, <2>6, <3>1 DEF Tally
      <4>2. AllTokens(r)' = 0 /\ AllSteps(r)' = 0 /\ seq'[r] = fill[r]
        BY <2>2, <2>3, <3>1, <4>1
      <4> QED
        BY <2>5, <4>1, <4>2
    <3>2. CASE ToFill(r) = 0
      <4>1. committed[r] + AllTokens(r) = seq[r] + ToStep(r) + AllSteps(r)
        BY <2>1, <3>2 DEF Tally
      <4>2. /\ a \in Nat /\ seq'[r] = seq[r] + a /\ AllTokens(r)' = AllTokens(r) + a
            /\ AllSteps(r)' = AllSteps(r) + ToStep(r)
        BY <2>2, <3>2
      <4>3. seq[r] + a <= alloc[r]
        <5>1. seq[r] + ToStep(r) * Draft <= alloc[r]
          BY <2>1, <3>2 DEF Tally
        <5>2. CASE ToStep(r) = 0
          BY <2>2, <2>5, <5>1, <5>2
        <5>3. CASE ToStep(r) = 1
          BY <2>2, <2>5, <5>1, <5>3
        <5> QED
          BY <2>3, <5>2, <5>3
      <4> QED
        BY <2>3, <2>5, <4>1, <4>2, <4>3
    <3> QED
      BY <2>3, <3>1, <3>2
  <2>10. r # chunked => PromptLen[r] + out[r] + AllTokens(r)' + First(r)' = seq'[r] + 1
    <3> SUFFICES ASSUME r # chunked
                 PROVE  PromptLen[r] + out[r] + AllTokens(r)' + First(r)' = seq'[r] + 1
      OBVIOUS
    <3>1. CASE ToFill(r) = 1
      <4>1. AllSteps(r) = 0 /\ fill[r] = PromptLen[r] + out[r]
        BY <2>1, <2>6, <3>1 DEF Tally
      <4>2. AllTokens(r)' = 0 /\ First(r)' = 1 /\ seq'[r] = fill[r]
        BY <2>2, <2>3, <2>4, <3>1, <4>1
      <4> QED
        BY <2>5, <4>1, <4>2
    <3>2. CASE ToFill(r) = 0
      <4>1. PromptLen[r] + out[r] + AllTokens(r) + First(r) = seq[r] + 1
        BY <2>1, <3>2 DEF Tally
      <4>2. a \in Nat /\ seq'[r] = seq[r] + a /\ First(r)' = First(r) /\ AllTokens(r)' = AllTokens(r) + a
        BY <2>2, <2>3, <2>4, <3>2
      <4> QED
        BY <2>3, <2>5, <4>1, <4>2
    <3> QED
      BY <2>3, <3>1, <3>2
  <2>11. r = chunked => fill[r] = committed[r] /\ alloc[r] = fill[r] /\ fill[r] <= PromptLen[r] + out[r]
    BY <2>1, <2>3 DEF Tally
  <2>12. /\ alloc[r] <= committed[r] + 2 * Draft
         /\ chunks[r] + (IF r # chunked /\ AllFills(r)' > 0 THEN 1 ELSE 0) = AllFills(r)'
    BY <2>1, <2>2, <2>3, <2>4, <2>5 DEF Tally
  <2> QED
    BY <1>4, <2>2, <2>4, <2>5, <2>7, <2>8, <2>9, <2>10, <2>11, <2>12 DEF Tally
<1>8. Pool' /\ RowsExact'
  <2>1. Pool /\ RowsExact
    BY DEF OverlapInv
  <2> QED
    BY <1>1, <1>4, <2>1, PoolSame DEF RowsExact
<1>9. RowsOwn'
  BY <1>1 DEF OverlapInv, RowsOwn
<1>10. RowsLast'
  BY <1>1, RowsLastSame DEF OverlapInv
<1> QED
  BY <1>2, <1>3, <1>5, <1>6, <1>7, <1>8, <1>9, <1>10 DEF OverlapInv

-----------------------------------------------------------------------------
(* Memory and rows that are given back.                                    *)

\* Between two batches a request that holds memory releases all its pages: what it
\* has committed is allocated and its tokens are known.
LEMMA ReleasedExact ==
  ASSUME Types, Queue, Tallies, phase \in Between, NEW S \in SUBSET Holding
  PROVE  Total(Released, S) = Total(PagesOf, S)
<1>1. ASSUME NEW r \in S PROVE Released[r] = PagesOf[r]
  <2>1. r \in Req /\ row[r] # 0 /\ Tally(r)
    BY DEF Holding, Tallies
  <2>2. /\ PromptLen[r] \in Nat /\ out[r] \in Nat /\ fill[r] \in Nat /\ seq[r] \in Nat
        /\ committed[r] \in Nat /\ alloc[r] \in Nat
    BY <2>1, ConstantTypes DEF Types
  <2>3. /\ ToFill(r) = 0 /\ ToStep(r) = 0 /\ AllSteps(r) = Steps(1, r) /\ AllTokens(r) = Tokens(1, r)
        /\ AllFills(r) = Fills(1, r) /\ First(r) = Fills(1, r)
        /\ Steps(1, r) \in Nat /\ Tokens(1, r) \in Nat /\ Fills(1, r) \in Nat
        /\ Steps(1, r) + Fills(1, r) <= 1 /\ Steps(1, r) <= Tokens(1, r)
    <3>1. /\ Steps(1, r) \in 0 .. 1 /\ Fills(1, r) \in 0 .. 1 /\ Tokens(1, r) \in Nat /\ Tokens(2, r) \in Nat
          /\ Steps(1, r) <= Tokens(1, r) /\ Fills(1, r) + Steps(1, r) <= 1
          /\ AllSteps(r) = Steps(1, r) + Steps(2, r) /\ AllTokens(r) = Tokens(1, r) + Tokens(2, r)
          /\ AllFills(r) = Fills(1, r) + Fills(2, r) /\ (Steps(2, r) = 0 => Tokens(2, r) = 0)
          /\ First(r) = IF AllFills(r) > 0 THEN 1 ELSE 0
          /\ Steps(2, r) = 0 /\ Fills(2, r) = 0 /\ ToStep(r) = 0 /\ ToFill(r) = 0
      BY CounterFacts
    <3> QED
      BY <3>1
  <2>4. committed[r] <= alloc[r] /\ committed[r] <= PromptLen[r] + out[r]
    <3>1. CASE r = chunked
      <4>1. fill[r] = committed[r] /\ alloc[r] = fill[r] /\ fill[r] <= PromptLen[r] + out[r]
        BY <2>1, <2>3, <3>1 DEF Tally
      <4> QED
        BY <2>2, <4>1
    <3>2. CASE r # chunked
      <4>1. /\ committed[r] + Tokens(1, r) = seq[r] + Steps(1, r) /\ seq[r] <= alloc[r]
            /\ PromptLen[r] + out[r] + Tokens(1, r) + Fills(1, r) = seq[r] + 1
        <5>0. /\ committed[r] + Tokens(1, r) = seq[r] + 0 + Steps(1, r) /\ seq[r] + 0 * Draft <= alloc[r]
              /\ PromptLen[r] + out[r] + Tokens(1, r) + Fills(1, r) = seq[r] + 1
          BY <2>1, <2>3, <3>2 DEF Tally
        <5> QED
          BY <2>2, <2>3, <5>0, ConstantTypes
      <4> QED
        BY <2>2, <2>3, <4>1
    <3> QED
      BY <3>1, <3>2
  <2>5. ReleasedPages(committed[r], PromptLen[r] + out[r], alloc[r]) = CeilDiv(alloc[r])
    BY <2>2, <2>4, ReleaseAll
  <2> QED
    BY <2>1, <2>5 DEF Released, PagesOf
<1>2. IsFiniteSet(S)
  BY ConstantTypes, FS_Subset DEF Holding
<1> QED
  BY <1>1, <1>2, SumAgree

\* The rows of the requests s become free.
LEMMA RowsGiven ==
  ASSUME Types, RowsExact, NEW s \in Seq(Req), IsInjective(s), Set(s) \subseteq Holding,
         row' = [r \in Req |-> IF r \in Set(s) THEN 0 ELSE row[r]],
         rows' = rows \o RowsOf(s)
  PROVE  /\ RowsOf(s) \in Seq(1 .. MaxRunning) /\ Set(RowsOf(s)) = {row[r] : r \in Set(s)}
         /\ Len(RowsOf(s)) = Len(s)
         /\ rows' \in Seq(1 .. MaxRunning) /\ IsInjective(rows') /\ RowsExact'
         /\ row' \in [Req -> 0 .. MaxRunning]
<1> DEFINE t == RowsOf(s)
<1>0. /\ MaxRunning \in Nat /\ row \in [Req -> 0 .. MaxRunning]
      /\ rows \in Seq(1 .. MaxRunning) /\ IsInjective(rows)
  BY ConstantTypes DEF Types
<1>1. /\ DOMAIN s = 1 .. Len(s) /\ Len(s) \in Nat /\ \A i \in DOMAIN s : s[i] \in Set(s)
      /\ \A i, j \in DOMAIN s : s[i] = s[j] => i = j
  BY SetType DEF Set, IsInjective
<1>2. \A r \in Set(s) : r \in Req /\ r \in Holding /\ row[r] \in 1 .. MaxRunning
  BY <1>0 DEF Holding
<1>3. t = [i \in 1 .. Len(s) |-> row[s[i]]]
  BY <1>1 DEF RowsOf
<1>4. t \in Seq(1 .. MaxRunning) /\ Len(t) = Len(s) /\ DOMAIN t = DOMAIN s
  <2>1. \A i \in 1 .. Len(s) : row[s[i]] \in 1 .. MaxRunning
    BY <1>1, <1>2
  <2> DEFINE n == Len(s)
             u == [i \in 1 .. n |-> row[s[i]]]
  <2> HIDE DEF n
  <2>2. n \in Nat /\ \A i \in 1 .. n : row[s[i]] \in 1 .. MaxRunning
    BY <1>1, <2>1 DEF n
  <2>a. u \in [1 .. n -> 1 .. MaxRunning]
    BY <2>2
  <2> HIDE DEF u
  <2>b. u \in Seq(1 .. MaxRunning) /\ DOMAIN u = 1 .. n /\ Len(u) = n
    BY <2>2, <2>a, SeqOfMap
  <2>3. u \in Seq(1 .. MaxRunning) /\ Len(u) = n /\ DOMAIN u = 1 .. n /\ u = [i \in 1 .. n |-> row[s[i]]]
    BY <2>b DEF u
  <2> QED
    BY <1>1, <1>3, <2>3 DEF n
<1>5. Set(t) = {row[r] : r \in Set(s)}
  BY <1>1, <1>3, <1>4 DEF Set
<1>6. IsInjective(t)
  <2>1. ASSUME NEW i \in DOMAIN t, NEW j \in DOMAIN t, t[i] = t[j] PROVE i = j
    <3>1. row[s[i]] = row[s[j]] /\ s[i] \in Holding /\ s[j] \in Holding
      BY <1>1, <1>2, <1>3, <1>4, <2>1
    <3>2. s[i] = s[j]
      BY <3>1 DEF RowsExact
    <3> QED
      BY <1>1, <1>4, <3>2
  <2> QED
    BY <2>1 DEF IsInjective
<1>7. Set(rows) \cap Set(t) = {}
  BY <1>2, <1>5 DEF RowsExact
<1>8. /\ rows' \in Seq(1 .. MaxRunning) /\ IsInjective(rows') /\ Set(rows') = Set(rows) \cup Set(t)
  <2> HIDE DEF t
  <2>1. rows' = rows \o t
    BY DEF t
  <2> QED
    BY <1>0, <1>4, <1>6, <1>7, <2>1, SetConcat
<1>9. Holding' = Holding \ Set(s) /\ \A r \in Holding' : row'[r] = row[r]
  <2>1. \A r \in Req : row'[r] # 0 <=> row[r] # 0 /\ r \notin Set(s)
    OBVIOUS
  <2> QED
    BY <2>1 DEF Holding
<1>10. RowsExact'
  <2>1. \A r, q \in Holding' : row'[r] = row'[q] => r = q
    BY <1>9 DEF RowsExact
  <2>2. Set(rows') = (1 .. MaxRunning) \ {row'[r] : r \in Holding'}
    <3>1. ASSUME NEW w \in Set(rows') PROVE w \in 1 .. MaxRunning /\ \A r \in Holding' : row'[r] # w
      <4>1. CASE w \in Set(rows)
        BY <1>9, <4>1 DEF RowsExact
      <4>2. CASE w \in Set(t)
        <5>1. PICK q \in Set(s) : w = row[q]
          BY <1>5, <4>2
        <5>2. \A r \in Holding' : row[r] # w
          BY <1>2, <1>9, <5>1 DEF RowsExact
        <5> QED
          BY <1>2, <1>9, <5>1, <5>2
      <4> QED
        BY <1>8, <3>1, <4>1, <4>2
    <3>2. ASSUME NEW w \in 1 .. MaxRunning, \A r \in Holding' : row'[r] # w PROVE w \in Set(rows')
      <4>1. CASE w \in Set(rows)
        BY <1>8, <4>1
      <4>2. CASE w \notin Set(rows)
        <5>1. PICK r \in Holding : row[r] = w
          BY <4>2 DEF RowsExact
        <5>2. r \in Set(s)
          BY <1>9, <3>2, <5>1
        <5> QED
          BY <1>5, <1>8, <5>1, <5>2
      <4> QED
        BY <4>1, <4>2
    <3>3. Set(rows') \subseteq (1 .. MaxRunning) \ {row'[r] : r \in Holding'}
      BY <3>1
    <3>4. (1 .. MaxRunning) \ {row'[r] : r \in Holding'} \subseteq Set(rows')
      BY <3>2
    <3> QED
      BY <3>3, <3>4
  <2> QED
    BY <2>1, <2>2 DEF RowsExact
<1>11. row' \in [Req -> 0 .. MaxRunning]
  BY <1>0
<1> QED
  BY <1>4, <1>5, <1>8, <1>10, <1>11

-----------------------------------------------------------------------------
(* A pause retracts everything that runs.                                  *)

LEMMA PauseMergeStep ==
  ASSUME OverlapInv, PauseMerge
  PROVE  OverlapInv'
<1>0. Types /\ Queue /\ Places /\ Fresh /\ Tallies /\ Pool /\ RowsExact
  BY DEF OverlapInv
<1>1. PICK more \in {IF last.mode = "extend" THEN Without(last.reqs, finished) ELSE <<>>} :
     \E batch \in {Without(running \o more, finished)} :
         /\ Reset(Set(batch))
         /\ rows' = rows \o RowsOf(batch)
         /\ pool' = pool + Total(Released, Set(batch))
         /\ waiting' = waiting \o batch
         /\ running' = <<>>
         /\ chunked' = IF running \o more = <<>> THEN chunked ELSE NoReq
  BY Zenon DEF PauseMerge
<1>2. PICK batch \in {Without(running \o more, finished)} :
         /\ Reset(Set(batch))
         /\ rows' = rows \o RowsOf(batch)
         /\ pool' = pool + Total(Released, Set(batch))
         /\ waiting' = waiting \o batch
         /\ running' = <<>>
         /\ chunked' = IF running \o more = <<>> THEN chunked ELSE NoReq
  BY <1>1, Zenon
<1>3. /\ phase = "pause" /\ phase' = "recv" /\ last' = NoBatch /\ cur' = NoBatch
      /\ UNCHANGED <<out, finished, to_finish, gone, seq, arrived, results>>
  BY DEF PauseMerge
<1>4. /\ cur = last /\ Batch(last) /\ results = <<>>
  BY <1>0, <1>3 DEF Queue, Between, OneResult
<1>5. /\ last.reqs \in Seq(Req) /\ IsInjective(last.reqs) /\ running \in Seq(Req) /\ IsInjective(running)
      /\ waiting \in Seq(Req) /\ IsInjective(waiting)
  BY <1>0, <1>4, BatchFacts DEF Types
<1>6. /\ more \in Seq(Req) /\ IsInjective(more)
      /\ Set(more) = Joining \ finished
  <2>1. CASE last.mode = "extend"
    <3>1. more = Without(last.reqs, finished) /\ Joining = Set(last.reqs)
      BY <1>1, <1>3, <1>4, <2>1 DEF Joining
    <3> QED
      BY <1>5, <3>1, WithoutFacts
  <2>2. CASE last.mode # "extend"
    <3>1. more = <<>> /\ Joining = {}
      BY <1>1, <1>3, <1>4, <2>2 DEF Joining
    <3> QED
      BY <3>1 DEF Set, IsInjective
  <2> QED
    BY <2>1, <2>2
<1>7. running \o more \in Seq(Req) /\ IsInjective(running \o more)
      /\ Set(running \o more) = Set(running) \cup Set(more)
  <2>1. Set(running) \cap Set(more) = {}
    BY <1>0, <1>6 DEF Places
  <2> QED
    BY <1>5, <1>6, <2>1, SetConcat
<1>8. batch \in Seq(Req) /\ IsInjective(batch) /\ Set(batch) = Holding
  <2> DEFINE u == running \o more
  <2>0. u \in Seq(Req) /\ IsInjective(u) /\ batch = Without(u, finished)
    BY <1>2, <1>7
  <2> HIDE DEF u
  <2>a. batch \in Seq(Req) /\ IsInjective(batch) /\ Set(batch) = Set(u) \ finished
    BY <2>0, WithoutFacts
  <2>1. batch \in Seq(Req) /\ IsInjective(batch) /\ Set(batch) = Set(running \o more) \ finished
    BY <2>a DEF u
  <2> QED
    BY <1>0, <1>6, <1>7, <2>1 DEF Places
<1>9. chunked' = NoReq
  <2>1. CASE running \o more = <<>>
    <3>1. Set(running \o more) = {}
      BY <2>1 DEF Set
    <3>2. Set(more) = {} /\ chunked' = chunked
      BY <1>2, <1>7, <2>1, <3>1
    <3> QED
      BY <1>0, <1>6, <3>2 DEF Places
  <2>2. CASE running \o more # <<>>
    BY <1>2, <2>2
  <2> QED
    BY <2>1, <2>2
<1>10. /\ committed' = [r \in Req |-> IF r \in Set(batch) THEN 0 ELSE committed[r]]
       /\ alloc' = [r \in Req |-> IF r \in Set(batch) THEN 0 ELSE alloc[r]]
       /\ fill' = [r \in Req |-> IF r \in Set(batch) THEN 0 ELSE fill[r]]
       /\ chunks' = [r \in Req |-> IF r \in Set(batch) THEN 0 ELSE chunks[r]]
       /\ row' = [r \in Req |-> IF r \in Set(batch) THEN 0 ELSE row[r]]
       /\ retracted' = retracted \cup Set(batch)
  BY <1>2 DEF Reset
<1>11. /\ rows' \in Seq(1 .. MaxRunning) /\ IsInjective(rows') /\ RowsExact'
       /\ row' \in [Req -> 0 .. MaxRunning]
  BY <1>0, <1>2, <1>8, <1>10, RowsGiven
<1>12. Holding' = {}
  BY <1>8, <1>10 DEF Holding
<1>13. waiting' \in Seq(Req) /\ IsInjective(waiting') /\ Set(waiting') = Set(waiting) \cup Holding
  <2>1. Set(waiting) \cap Set(batch) = {}
    BY <1>0, <1>8 DEF Places
  <2> QED
    BY <1>2, <1>5, <1>8, <2>1, SetConcat
<1>14. Holding \subseteq arrived
  BY <1>0 DEF Places
<1>15. Pool' /\ pool' \in Nat
  <2>1. Total(Released, Holding) = Total(PagesOf, Holding)
    BY <1>0, <1>3, ReleasedExact DEF Between
  <2>2. PagesOf \in [Req -> Nat] /\ IsFiniteSet(Req) /\ Holding \subseteq Req /\ pool \in Nat
    BY <1>0, PagesType, ConstantTypes DEF Holding, Types
  <2>3. IsFiniteSet(Holding) /\ \A r \in Holding : PagesOf[r] \in Nat
    BY <2>2, FS_Subset
  <2>4. Total(PagesOf, Holding) \in Nat
    BY <2>3, SumNat
  <2> DEFINE g == PagesOf'
  <2>5. g = [r \in Req |-> 0]
    BY <1>8, <1>10, <1>12 DEF PagesOf, Holding
  <2>6. g \in [Req -> Nat] /\ (\A r \in Req \ Holding : g[r] = PagesOf[r]) /\ \A r \in Holding : g[r] = 0
    BY <2>2, <2>5 DEF PagesOf, Holding
  <2> HIDE DEF g
  <2>7. Total(g, Holding) = 0
    BY <2>3, <2>6, SumZero
  <2>8. pool' = pool + Total(PagesOf, Holding)
    BY <1>2, <1>8, <2>1
  <2>9. pool' = pool + (Total(PagesOf, Holding) - Total(g, Holding))
    BY <2>4, <2>7, <2>8
  <2>10. g = PagesOf'
    BY DEF g
  <2>11. Pool'
    BY <1>0, <2>2, <2>6, <2>9, <2>10, PoolChange
  <2> QED
    BY <2>2, <2>4, <2>8, <2>11
<1>16. Types'
  <2>1. /\ committed' \in [Req -> Nat] /\ alloc' \in [Req -> Nat] /\ fill' \in [Req -> Nat]
        /\ chunks' \in [Req -> Nat]
    BY <1>0, <1>10 DEF Types
  <2>2. running' \in Seq(Req) /\ IsInjective(running')
    BY <1>2 DEF IsInjective
  <2>3. retracted' \subseteq arrived
    BY <1>0, <1>8, <1>10, <1>14 DEF Types
  <2> QED
    BY <1>0, <1>3, <1>9, <1>11, <1>13, <1>15, <2>1, <2>2, <2>3 DEF Types
<1>17. Queue'
  BY <1>3, <1>4 DEF Queue, Batch, Between, OneResult
<1>18. /\ Set(running') = {} /\ Set(cur'.reqs) = {} /\ Set(last'.reqs) = {} /\ cur'.mode = "none"
       /\ DOMAIN cur'.reqs = {} /\ DOMAIN last'.reqs = {} /\ Joining' = {}
  BY <1>2, <1>3 DEF NoBatch, Set, Joining
<1>19. Places'
  <2>1. Set(waiting') \cap finished = {} /\ Set(waiting') \subseteq arrived
    BY <1>0, <1>13, <1>14 DEF Places
  <2> QED
    BY <1>3, <1>9, <1>12, <1>18, <2>1 DEF Places
<1>20. Fresh'
  <2> SUFFICES ASSUME NEW r \in Req, r \in Set(waiting') \/ r \notin arrived'
               PROVE  alloc'[r] = 0 /\ fill'[r] = 0 /\ chunks'[r] = 0 /\ row'[r] = 0
    BY DEF Fresh
  <2>1. CASE r \in Set(batch)
    BY <1>10, <2>1
  <2>2. CASE r \notin Set(batch)
    BY <1>0, <1>3, <1>8, <1>10, <1>13, <2>2 DEF Fresh
  <2> QED
    BY <2>1, <2>2
<1>21. Tallies'
  BY <1>12 DEF Tallies
<1>22. RowsOwn' /\ RowsLast'
  BY <1>3, <1>18 DEF RowsOwn, RowsLast, Stale
<1> QED
  BY <1>11, <1>15, <1>16, <1>17, <1>19, <1>20, <1>21, <1>22 DEF OverlapInv

-----------------------------------------------------------------------------
(* The oldest result is processed.                                         *)

\* What ProcessBatchResult does to a request, in terms of its oldest result.
LEMMA PopValues ==
  ASSUME Types, Queue, Places, ProcessBatchResult
  PROVE  /\ UNCHANGED <<fill, alloc, retracted, gone, seq, arrived, waiting, running, chunked, cur>>
         /\ phase \in {"early", "late", "pause_pop"} /\ results' = Tail(results)
         /\ \A r \in Req :
              /\ committed'[r] + Steps(1, r) = committed[r] + Tokens(1, r)
              /\ r \notin Holding => out'[r] = out[r] /\ chunks'[r] = chunks[r]
              /\ r \in Holding =>
                   /\ out'[r] = out[r] + Tokens(1, r) + (IF Fills(1, r) = 1 /\ chunks[r] = 0 THEN 1 ELSE 0)
                   /\ chunks'[r] = chunks[r] - (IF Fills(1, r) = 1 /\ chunks[r] > 0 THEN 1 ELSE 0)
         /\ out' \in [Req -> Nat] /\ committed' \in [Req -> Nat] /\ chunks' \in [Req -> Nat]
<1>0. /\ UNCHANGED <<fill, alloc, retracted, gone, seq, arrived, waiting, running, chunked, paused, cur>>
      /\ results' = Tail(results)
  BY Zenon DEF ProcessBatchResult
<1>a. phase \in {"early", "late", "pause_pop"}
  BY DEF ProcessBatchResult
<1>1. /\ UNCHANGED <<fill, alloc, retracted, gone, seq, arrived, waiting, running, chunked, cur>>
      /\ phase \in {"early", "late", "pause_pop"} /\ results' = Tail(results)
  BY <1>0, <1>a
<1>2. 1 \in DOMAIN results /\ last # NoBatch /\ ResultOf(results[1], last)
  <2>1. phase \in OneResult \/ phase = "late"
    BY <1>1 DEF OneResult
  <2>2. last # NoBatch
    BY <1>1 DEF Queue
  <2> QED
    BY <2>1, <2>2, Shape
<1> DEFINE b == Head(results)
           live == Set(b.reqs) \ Ignored
           more(r) == IF r \notin live THEN 0
                      ELSE IF b.mode = "decode" THEN b.acc[r]
                      ELSE IF PrefillDone(r) THEN 1 ELSE 0
           o == [r \in Req |-> out[r] + more(r)]
           c == [r \in Req |-> IF r \in Set(b.reqs) THEN Resolved(b, r) ELSE committed[r]]
<1>b. /\ out' = o /\ committed' = c
      /\ chunks' = [r \in Req |-> IF r \in live /\ b.mode = "extend" /\ ~PrefillDone(r)
                                  THEN chunks[r] - 1 ELSE chunks[r]]
  BY DEF ProcessBatchResult
<1>3. /\ out' = [r \in Req |-> out[r] + more(r)]
      /\ committed' = [r \in Req |-> IF r \in Set(b.reqs) THEN Resolved(b, r) ELSE committed[r]]
      /\ chunks' = [r \in Req |-> IF r \in live /\ b.mode = "extend" /\ ~PrefillDone(r)
                                  THEN chunks[r] - 1 ELSE chunks[r]]
  BY <1>b
<1>4. b = results[1]
  OBVIOUS
<1> HIDE DEF b
<1>5. b.reqs = last.reqs /\ b.mode = last.mode
      /\ b.acc \in [Set(last.reqs) -> IF last.mode = "decode" THEN 1 .. Draft ELSE {0}]
  BY <1>2, <1>4 DEF ResultOf
<1>6. Batch(last) /\ last.mode \in {"extend", "decode"}
  BY <1>2, BatchFacts DEF Queue
<1>7. live = Set(last.reqs) \cap Holding
  BY <1>5 DEF Ignored, Places
<1>8. ASSUME NEW r \in Req
      PROVE  /\ committed'[r] + Steps(1, r) = committed[r] + Tokens(1, r)
             /\ r \notin Holding => out'[r] = out[r] /\ chunks'[r] = chunks[r]
             /\ r \in Holding =>
                  /\ out'[r] = out[r] + Tokens(1, r) + (IF Fills(1, r) = 1 /\ chunks[r] = 0 THEN 1 ELSE 0)
                  /\ chunks'[r] = chunks[r] - (IF Fills(1, r) = 1 /\ chunks[r] > 0 THEN 1 ELSE 0)
             /\ out'[r] \in Nat /\ committed'[r] \in Nat /\ chunks'[r] \in Nat
  <2>0. out[r] \in Nat /\ committed[r] \in Nat /\ chunks[r] \in Nat /\ Draft \in Nat
    BY ConstantTypes DEF Types
  <2>a. PrefillDone(r) <=> chunks[r] = 0
    BY <2>0 DEF PrefillDone
  <2>1. 1 \in Pending(r) <=> r \in Set(last.reqs)
    BY <1>2, PendingFacts
  <2>2. CASE r \notin Set(last.reqs)
    <3>1. Steps(1, r) = 0 /\ Tokens(1, r) = 0 /\ Fills(1, r) = 0
      BY <2>1, <2>2 DEF Steps, Tokens, Fills, IsDecode
    <3>2. out'[r] = out[r] + 0 /\ committed'[r] = committed[r] /\ chunks'[r] = chunks[r]
      BY <1>3, <1>5, <1>7, <2>2
    <3> QED
      BY <2>0, <3>1, <3>2
  <2>3. CASE r \in Set(last.reqs) /\ last.mode = "decode"
    <3>1. b.acc[r] \in 1 .. Draft
      BY <1>5, <2>3
    <3>2. Steps(1, r) = 1 /\ Tokens(1, r) = b.acc[r] /\ Fills(1, r) = 0
      BY <1>4, <1>5, <2>1, <2>3 DEF Steps, Tokens, Fills, IsDecode
    <3>3. committed'[r] = committed[r] + (b.acc[r] - 1) /\ chunks'[r] = chunks[r]
      BY <1>3, <1>5, <2>3 DEF Resolved
    <3>4. out'[r] = out[r] + (IF r \in Holding THEN b.acc[r] ELSE 0)
      BY <1>3, <1>5, <1>7, <2>3
    <3> QED
      BY <2>0, <3>1, <3>2, <3>3, <3>4
  <2>4. CASE r \in Set(last.reqs) /\ last.mode = "extend"
    <3>2. Steps(1, r) = 0 /\ Tokens(1, r) = 0 /\ Fills(1, r) = 1
      BY <1>4, <1>5, <2>1, <2>4 DEF Steps, Tokens, Fills, IsDecode
    <3>3. committed'[r] = committed[r] + 0
      BY <1>3, <1>5, <2>4 DEF Resolved
    <3>4. out'[r] = out[r] + (IF r \in Holding /\ chunks[r] = 0 THEN 1 ELSE 0)
      BY <1>3, <1>5, <1>7, <2>a, <2>4
    <3>5. chunks'[r] = IF r \in Holding /\ chunks[r] # 0 THEN chunks[r] - 1 ELSE chunks[r]
      BY <1>3, <1>5, <1>7, <2>a, <2>4
    <3> QED
      BY <2>0, <3>2, <3>3, <3>4, <3>5
  <2> QED
    BY <1>6, <2>2, <2>3, <2>4
<1>9. out' \in [Req -> Nat] /\ committed' \in [Req -> Nat] /\ chunks' \in [Req -> Nat]
  BY <1>3, <1>8
<1> QED
  BY <1>1, <1>8, <1>9

\* What it does to those that are finished by the result.
LEMMA PopDone ==
  ASSUME Types, Queue, Places, ProcessBatchResult
  PROVE  \E done \in SUBSET Holding :
           /\ done \subseteq Set(last.reqs)
           /\ finished' = finished \cup done /\ to_finish' = to_finish \ done
           /\ pool' = pool + Total([r \in Req |->
                        ReleasedPages(committed'[r], PromptLen[r] + out'[r], alloc[r])], done)
           /\ rows' = rows \o RowsOf(Only(last.reqs, done))
           /\ row' = [r \in Req |-> IF r \in done THEN 0 ELSE row[r]]
           /\ \A r \in done : out'[r] # out[r]
<1>1. phase \in {"early", "late", "pause_pop"}
  BY DEF ProcessBatchResult
<1>2. 1 \in DOMAIN results /\ last # NoBatch /\ ResultOf(results[1], last)
  <2>1. phase \in OneResult \/ phase = "late"
    BY <1>1 DEF OneResult
  <2>2. last # NoBatch
    BY <1>1 DEF Queue
  <2> QED
    BY <2>1, <2>2, Shape
<1> DEFINE b == Head(results)
           live == Set(b.reqs) \ Ignored
           more(r) == IF r \notin live THEN 0
                      ELSE IF b.mode = "decode" THEN b.acc[r]
                      ELSE IF PrefillDone(r) THEN 1 ELSE 0
           o == [r \in Req |-> out[r] + more(r)]
           c == [r \in Req |-> IF r \in Set(b.reqs) THEN Resolved(b, r) ELSE committed[r]]
           done == {r \in live : more(r) > 0 /\ (r \in to_finish \/ o[r] >= MaxNew[r])}
<1>3. /\ out' = o /\ committed' = c
      /\ finished' = finished \cup done /\ to_finish' = to_finish \ done
      /\ pool' = pool + Total([r \in Req |-> ReleasedPages(c[r], PromptLen[r] + o[r], alloc[r])], done)
      /\ rows' = rows \o RowsOf(Only(b.reqs, done))
      /\ row' = [r \in Req |-> IF r \in done THEN 0 ELSE row[r]]
  BY DEF ProcessBatchResult
<1>4. b = results[1]
  OBVIOUS
<1> HIDE DEF b
<1>5. b.reqs = last.reqs /\ b.mode = last.mode
      /\ b.acc \in [Set(last.reqs) -> IF last.mode = "decode" THEN 1 .. Draft ELSE {0}]
  BY <1>2, <1>4 DEF ResultOf
<1>7. live = Set(last.reqs) \cap Holding
  BY <1>5 DEF Ignored, Places
<1>8. done \subseteq live
  OBVIOUS
<1>9. \A r \in done : out'[r] # out[r]
  <2> SUFFICES ASSUME NEW r \in done PROVE out'[r] # out[r]
    OBVIOUS
  <2>1. r \in Req /\ r \in live /\ more(r) > 0
    BY <1>7 DEF Holding
  <2>2. out'[r] = out[r] + more(r)
    BY <1>3, <2>1
  <2>3. more(r) \in Nat /\ out[r] \in Nat
    <3>1. b.mode = "decode" => b.acc[r] \in Nat
      BY <1>5, <1>7, <2>1, ConstantTypes
    <3> QED
      BY <2>1, <3>1 DEF Types
  <2> HIDE DEF more
  <2> QED
    BY <2>1, <2>2, <2>3
<1> HIDE DEF o, c, done, live, more
<1>10. pool' = pool + Total([r \in Req |->
                        ReleasedPages(committed'[r], PromptLen[r] + out'[r], alloc[r])], done)
  BY <1>3
<1>11. rows' = rows \o RowsOf(Only(last.reqs, done))
  BY <1>3, <1>5
<1> QED
  BY <1>3, <1>7, <1>8, <1>9, <1>10, <1>11

LEMMA PopQueue ==
  ASSUME Queue, ProcessBatchResult
  PROVE  /\ Queue'
         /\ \/ phase = "late" /\ phase' = "recv" /\ last' = cur
            \/ phase = "early" /\ phase' = "run_synced" /\ last' = last
            \/ phase = "pause_pop" /\ phase' = "pause" /\ last' = last
<1>0. results' = Tail(results) /\ cur' = cur
  BY Zenon DEF ProcessBatchResult
<1>1. phase \in {"early", "late", "pause_pop"}
  BY Zenon DEF ProcessBatchResult
<1>a. IF phase = "late" THEN EndIteration
      ELSE /\ phase' = IF phase = "early" THEN "run_synced" ELSE "pause"
           /\ UNCHANGED last
  BY Zenon DEF ProcessBatchResult
<1>2. /\ phase = "late" => phase' = "recv" /\ last' = cur
      /\ phase = "early" => phase' = "run_synced" /\ last' = last
      /\ phase = "pause_pop" => phase' = "pause" /\ last' = last
  BY <1>1, <1>a DEF EndIteration
<1>3. Batch(cur) /\ Batch(last) /\ last # NoBatch
  BY <1>1 DEF Queue
<1>4. OnlyLast => results' = <<>>
  <2>1. ASSUME OnlyLast PROVE results' = <<>>
    <3>1. PICK x : results = <<x>>
      BY <2>1 DEF OnlyLast
    <3>2. Tail(<<x>>) = <<>>
      OBVIOUS
    <3> QED
      BY <1>0, <3>1, <3>2
  <2> QED
    BY <2>1
<1>5. CASE phase = "early"
  <2>1. OnlyLast /\ cur # NoBatch
    BY <1>3, <1>5 DEF Queue, OneResult
  <2> QED
    BY <1>0, <1>2, <1>3, <1>4, <1>5, <2>1 DEF Queue, Batch, Between
<1>6. CASE phase = "pause_pop"
  <2>1. OnlyLast /\ cur = last
    BY <1>3, <1>6 DEF Queue, OneResult, Between
  <2> QED
    BY <1>0, <1>2, <1>3, <1>4, <1>6, <2>1 DEF Queue, Batch, Between
<1>7. CASE phase = "late"
  <2>1. (cur = NoBatch /\ OnlyLast) \/ (cur # NoBatch /\ LastAndCur)
    BY <1>3, <1>7 DEF Queue, OneResult
  <2>2. CASE cur = NoBatch /\ OnlyLast
    BY <1>0, <1>2, <1>3, <1>4, <1>7, <2>2 DEF Queue, Batch, Between, OneResult
  <2>3. CASE cur # NoBatch /\ LastAndCur
    <3>1. PICK x, y : results = <<x, y>> /\ ResultOf(y, cur)
      BY <2>3 DEF LastAndCur
    <3>2. Tail(<<x, y>>) = <<y>>
      OBVIOUS
    <3>3. results' = <<y>>
      BY <1>0, <3>1, <3>2
    <3>4. OnlyLast'
      BY <1>0, <1>2, <1>7, <3>1, <3>3 DEF OnlyLast, ResultOf
    <3> QED
      BY <1>0, <1>2, <1>3, <1>7, <2>3, <3>4 DEF Queue, Batch, Between, OneResult
  <2> QED
    BY <2>1, <2>2, <2>3
<1> QED
  BY <1>1, <1>2, <1>5, <1>6, <1>7

LEMMA PopCounters ==
  ASSUME Queue, ProcessBatchResult, NEW r
  PROVE  /\ AllSteps(r) = Steps(1, r) + AllSteps(r)' /\ AllTokens(r) = Tokens(1, r) + AllTokens(r)'
         /\ AllFills(r) = Fills(1, r) + AllFills(r)'
         /\ AllSteps(r)' = Steps(2, r) /\ AllTokens(r)' = Tokens(2, r) /\ AllFills(r)' = Fills(2, r)
         /\ ToFill(r)' = ToFill(r) /\ ToStep(r)' = ToStep(r)
<1>0. results' = Tail(results) /\ cur' = cur
  BY Zenon DEF ProcessBatchResult
<1>1. \/ phase = "late" /\ phase' = "recv"
      \/ phase = "early" /\ phase' = "run_synced"
      \/ phase = "pause_pop" /\ phase' = "pause"
  BY PopQueue
<1>2. ToFill(r)' = ToFill(r) /\ ToStep(r)' = ToStep(r)
  BY <1>0, <1>1 DEF ToFill, ToStep, Prepared
<1>3. (last # NoBatch /\ OnlyLast) \/ (last # NoBatch /\ LastAndCur)
  BY <1>1 DEF Queue, OneResult
<1>4. /\ Steps(1, r)' = Steps(2, r) /\ Tokens(1, r)' = Tokens(2, r) /\ Fills(1, r)' = Fills(2, r)
      /\ Steps(2, r)' = 0 /\ Tokens(2, r)' = 0 /\ Fills(2, r)' = 0
  <2>1. CASE OnlyLast
    <3>1. PICK x : results = <<x>>
      BY <2>1 DEF OnlyLast
    <3>2. DOMAIN results = {1}
      BY <3>1
    <3>3. DOMAIN results' = {}
      BY <1>0, <3>1
    <3>4. 2 \notin Pending(r) /\ 1 \notin Pending(r)' /\ 2 \notin Pending(r)'
      BY <3>2, <3>3 DEF Pending
    <3> QED
      BY <3>4 DEF Steps, Tokens, Fills, IsDecode
  <2>2. CASE LastAndCur
    <3>1. PICK x, y : results = <<x, y>>
      BY <2>2 DEF LastAndCur
    <3>2. DOMAIN results = {1, 2} /\ results[2] = y
      BY <3>1
    <3>3. DOMAIN results' = {1} /\ results'[1] = y
      BY <1>0, <3>1
    <3>4. (1 \in Pending(r)' <=> 2 \in Pending(r)) /\ 2 \notin Pending(r)'
      BY <3>2, <3>3 DEF Pending
    <3> QED
      BY <3>2, <3>3, <3>4 DEF Steps, Tokens, Fills, IsDecode
  <2> QED
    BY <1>3, <2>1, <2>2
<1>5. /\ AllSteps(r)' = Steps(2, r) + 0 /\ AllTokens(r)' = Tokens(2, r) + 0
      /\ AllFills(r)' = Fills(2, r) + 0
  BY <1>4 DEF AllSteps, AllTokens, AllFills
<1>6. /\ AllSteps(r) = Steps(1, r) + Steps(2, r) /\ AllTokens(r) = Tokens(1, r) + Tokens(2, r)
      /\ AllFills(r) = Fills(1, r) + Fills(2, r)
      /\ Steps(2, r) \in 0 .. 1 /\ Tokens(2, r) \in Nat /\ Fills(2, r) \in 0 .. 1
  BY CounterFacts
<1> QED
  BY <1>2, <1>5, <1>6

\* The lengths after the oldest result was applied; a request that got tokens by
\* it has no prefill left.
LEMMA PopTally ==
  ASSUME Types, Queue, Places, Tallies, ProcessBatchResult, NEW r \in Holding
  PROVE  /\ Tally(r)'
         /\ out'[r] # out[r] => /\ r # chunked /\ ToFill(r) = 0
                                /\ phase \in {"early", "late"} => r \notin Joining
<1>0. r \in Req /\ Tally(r)
  BY DEF Holding, Tallies
<1>1. /\ fill' = fill /\ alloc' = alloc /\ seq' = seq /\ chunked' = chunked /\ cur' = cur
      /\ phase \in {"early", "late", "pause_pop"}
      /\ committed'[r] + Steps(1, r) = committed[r] + Tokens(1, r)
      /\ out'[r] = out[r] + Tokens(1, r) + (IF Fills(1, r) = 1 /\ chunks[r] = 0 THEN 1 ELSE 0)
      /\ chunks'[r] = chunks[r] - (IF Fills(1, r) = 1 /\ chunks[r] > 0 THEN 1 ELSE 0)
      /\ committed'[r] \in Nat /\ out'[r] \in Nat /\ chunks'[r] \in Nat
  <2>1. /\ UNCHANGED <<fill, alloc, retracted, gone, seq, arrived, waiting, running, chunked, cur>>
        /\ phase \in {"early", "late", "pause_pop"}
        /\ \A q \in Req :
              /\ committed'[q] + Steps(1, q) = committed[q] + Tokens(1, q)
              /\ q \in Holding =>
                   /\ out'[q] = out[q] + Tokens(1, q) + (IF Fills(1, q) = 1 /\ chunks[q] = 0 THEN 1 ELSE 0)
                   /\ chunks'[q] = chunks[q] - (IF Fills(1, q) = 1 /\ chunks[q] > 0 THEN 1 ELSE 0)
        /\ out' \in [Req -> Nat] /\ committed' \in [Req -> Nat] /\ chunks' \in [Req -> Nat]
    BY PopValues
  <2> QED
    BY <1>0, <2>1
<1>2. /\ AllSteps(r) = Steps(1, r) + AllSteps(r)' /\ AllTokens(r) = Tokens(1, r) + AllTokens(r)'
      /\ AllFills(r) = Fills(1, r) + AllFills(r)'
      /\ AllSteps(r)' = Steps(2, r) /\ AllTokens(r)' = Tokens(2, r) /\ AllFills(r)' = Fills(2, r)
      /\ ToFill(r)' = ToFill(r) /\ ToStep(r)' = ToStep(r)
  BY PopCounters
<1>3. /\ Steps(1, r) \in 0 .. 1 /\ Steps(2, r) \in 0 .. 1 /\ Fills(1, r) \in 0 .. 1
      /\ Fills(2, r) \in 0 .. 1 /\ ToFill(r) \in 0 .. 1 /\ ToStep(r) \in 0 .. 1
      /\ Tokens(1, r) \in Nat /\ Tokens(2, r) \in Nat
      /\ Steps(1, r) <= Tokens(1, r) /\ (Steps(1, r) = 0 => Tokens(1, r) = 0)
      /\ Fills(1, r) + Steps(1, r) <= 1
      /\ First(r) = IF AllFills(r) > 0 THEN 1 ELSE 0
  BY CounterFacts
<1>4. First(r)' = IF AllFills(r)' > 0 THEN 1 ELSE 0
  BY PopQueue, CounterRangesNext
<1>5. /\ PromptLen[r] \in Nat /\ out[r] \in Nat /\ fill[r] \in Nat /\ seq[r] \in Nat
      /\ committed[r] \in Nat /\ alloc[r] \in Nat /\ chunks[r] \in Nat /\ Draft \in Nat
  BY <1>0, ConstantTypes DEF Types
<1>6. Joining' = Joining
  <2>1. phase # "sched" /\ phase' # "sched" /\ cur' = cur
    BY PopQueue, <1>1
  <2> QED
    BY <2>1 DEF Joining
<1>7. /\ r \in Joining => AllSteps(r) = 0
      /\ r = chunked => r \in Joining
      /\ ToFill(r) = 1 => r \in Joining
      /\ r \in Joining /\ phase = "early" => ToFill(r) = 1
      /\ r \in Joining /\ phase = "late" => Fills(2, r) = 1
  <2>1. r \in Joining => AllSteps(r) = 0
    BY <1>0 DEF Tally
  <2>2. r = chunked => r \in Joining
    BY <1>0, ConstantTypes DEF Places
  <2>3. ToFill(r) = 1 => r \in Joining
    BY <1>1 DEF ToFill, Prepared, Joining
  <2>4. ASSUME r \in Joining, phase = "early" PROVE ToFill(r) = 1
    BY <2>4 DEF ToFill, Prepared, Joining
  <2>5. ASSUME r \in Joining, phase = "late" PROVE Fills(2, r) = 1
    <3>1. cur.mode = "extend" /\ r \in Set(cur.reqs)
      BY <2>5 DEF Joining
    <3>2. cur # NoBatch
      BY <3>1, BatchFacts DEF Queue
    <3>3. 2 \in Pending(r) /\ results[2].mode = cur.mode
      BY <2>5, <3>1, <3>2, Shape, PendingFacts
    <3> QED
      BY <3>1, <3>3 DEF Fills
  <2> QED
    BY <2>1, <2>2, <2>3, <2>4, <2>5
<1>8. chunks[r] + (IF r # chunked /\ AllFills(r) + ToFill(r) > 0 THEN 1 ELSE 0) = AllFills(r) + ToFill(r)
  BY <1>0 DEF Tally
\* A result of a step, a result of a prefill, or none.
<1>9. \/ Steps(1, r) = 1 /\ Fills(1, r) = 0
      \/ Steps(1, r) = 0 /\ Tokens(1, r) = 0 /\ Fills(1, r) = 1
      \/ Steps(1, r) = 0 /\ Tokens(1, r) = 0 /\ Fills(1, r) = 0
  BY <1>3
<1>10. Steps(1, r) = 1 => r \notin Joining
  BY <1>2, <1>3, <1>7
<1>11. Fills(1, r) = 1 /\ chunks[r] = 0 => r # chunked /\ ToFill(r) = 0 /\ Fills(2, r) = 0
  BY <1>2, <1>3, <1>8
<1>12. out'[r] # out[r] => /\ r # chunked /\ ToFill(r) = 0
                           /\ phase \in {"early", "late"} => r \notin Joining
  <2>1. out'[r] # out[r] => Steps(1, r) = 1 \/ (Fills(1, r) = 1 /\ chunks[r] = 0)
    BY <1>1, <1>3, <1>5
  <2> QED
    BY <1>3, <1>7, <1>10, <1>11, <2>1
<1>13. /\ chunks'[r] + (IF r # chunked /\ AllFills(r)' + ToFill(r) > 0 THEN 1 ELSE 0)
            = AllFills(r)' + ToFill(r)
  <2>1. CASE Fills(1, r) = 0
    <3>1. chunks'[r] = chunks[r] /\ AllFills(r)' = AllFills(r)
      BY <1>1, <1>2, <1>3, <1>5, <2>1
    <3> QED
      BY <1>8, <3>1
  <2>2. CASE Fills(1, r) = 1 /\ chunks[r] = 0
    <3>1. chunks'[r] = 0 /\ AllFills(r)' = 0 /\ ToFill(r) = 0
      BY <1>1, <1>2, <1>11, <2>2
    <3> QED
      BY <3>1
  <2>3. CASE Fills(1, r) = 1 /\ chunks[r] > 0
    <3> DEFINE f == Fills(2, r) + ToFill(r)
    <3>1. f \in Nat /\ AllFills(r) + ToFill(r) = f + 1 /\ AllFills(r)' + ToFill(r) = f
      BY <1>2, <1>3, <2>3
    <3> HIDE DEF f
    <3>2. chunks'[r] = chunks[r] - 1
      BY <1>1, <2>3
    <3> QED
      BY <1>5, <1>8, <2>3, <3>1, <3>2
  <2> QED
    BY <1>3, <1>5, <2>1, <2>2, <2>3
<1>14. ToFill(r) = 1 => committed'[r] = committed[r] /\ out'[r] = out[r]
  <2>1. ToFill(r) = 1 => Steps(1, r) = 0 /\ Tokens(1, r) = 0 /\ ~(Fills(1, r) = 1 /\ chunks[r] = 0)
    BY <1>3, <1>7, <1>10, <1>11
  <2> QED
    BY <1>1, <1>5, <2>1
<1>15. r = chunked => committed'[r] = committed[r] /\ out'[r] = out[r]
  <2>1. r = chunked => Steps(1, r) = 0 /\ Tokens(1, r) = 0 /\ ~(Fills(1, r) = 1 /\ chunks[r] = 0)
    BY <1>3, <1>7, <1>10, <1>11
  <2> QED
    BY <1>1, <1>5, <2>1
<1>16. ASSUME ToFill(r) = 0
       PROVE  /\ committed'[r] + AllTokens(r)' = seq[r] + ToStep(r) + AllSteps(r)'
              /\ seq[r] + ToStep(r) * Draft <= alloc[r]
  <2>1. committed[r] + AllTokens(r) = seq[r] + ToStep(r) + AllSteps(r)
    BY <1>0, <1>16 DEF Tally
  <2>2. committed'[r] + AllTokens(r)' = seq[r] + ToStep(r) + AllSteps(r)'
    BY <1>1, <1>2, <1>3, <1>5, <2>1
  <2> QED
    BY <1>0, <1>16, <2>2 DEF Tally
<1>17. ASSUME ToFill(r) = 0, r # chunked
       PROVE  PromptLen[r] + out'[r] + AllTokens(r)' + First(r)' = seq[r] + 1
  <2>1. PromptLen[r] + out[r] + AllTokens(r) + First(r) = seq[r] + 1
    BY <1>0, <1>17 DEF Tally
  <2>2. CASE Fills(1, r) = 1 /\ chunks[r] = 0
    <3>1. /\ out'[r] = out[r] + 1 /\ AllTokens(r)' = AllTokens(r) /\ First(r) = 1 /\ First(r)' = 0
          /\ AllTokens(r) \in Nat
      BY <1>1, <1>2, <1>3, <1>4, <1>5, <1>9, <1>11, <2>2
    <3> QED
      BY <1>5, <2>1, <3>1
  <2>3. CASE Fills(1, r) = 1 /\ chunks[r] > 0
    <3>1. Fills(2, r) = 1
      BY <1>2, <1>3, <1>5, <1>8, <1>17, <2>3
    <3>2. /\ out'[r] = out[r] /\ AllTokens(r)' = AllTokens(r) /\ First(r) = 1 /\ First(r)' = 1
      BY <1>1, <1>2, <1>3, <1>4, <1>5, <1>9, <2>3, <3>1
    <3> QED
      BY <2>1, <3>2
  <2>4. CASE Fills(1, r) = 0
    <3>1. /\ out'[r] = out[r] + Tokens(1, r) /\ AllTokens(r) = Tokens(1, r) + AllTokens(r)'
          /\ First(r)' = First(r) /\ First(r) \in Nat /\ AllTokens(r)' \in Nat
      BY <1>1, <1>2, <1>3, <1>4, <1>5, <2>4
    <3> QED
      BY <1>3, <1>5, <2>1, <3>1
  <2> QED
    BY <1>3, <1>5, <2>2, <2>3, <2>4
<1>18. alloc[r] <= committed'[r] + 2 * Draft
  <2>1. alloc[r] <= committed[r] + 2 * Draft
    BY <1>0 DEF Tally
  <2>2. committed[r] <= committed'[r]
    BY <1>1, <1>3, <1>5
  <2> QED
    BY <1>1, <1>5, <2>1, <2>2
<1>19. r \in Joining' => AllSteps(r)' = 0
  BY <1>2, <1>3, <1>6, <1>7
<1>20. ASSUME ToFill(r) = 1
       PROVE  /\ committed'[r] = fill[r] /\ alloc[r] = fill[r] /\ fill[r] <= PromptLen[r] + out'[r]
              /\ r # chunked => fill[r] = PromptLen[r] + out'[r]
  <2>1. /\ committed[r] = fill[r] /\ alloc[r] = fill[r] /\ fill[r] <= PromptLen[r] + out[r]
        /\ r # chunked => fill[r] = PromptLen[r] + out[r]
    BY <1>0, <1>20 DEF Tally
  <2> QED
    BY <1>14, <1>20, <2>1
<1>21. ASSUME ToFill(r) = 0, r = chunked
       PROVE  fill[r] = committed'[r] /\ alloc[r] = fill[r] /\ fill[r] <= PromptLen[r] + out'[r]
  <2>1. fill[r] = committed[r] /\ alloc[r] = fill[r] /\ fill[r] <= PromptLen[r] + out[r]
    BY <1>0, <1>21 DEF Tally
  <2> QED
    BY <1>15, <1>21, <2>1
<1>22. Tally(r)'
  BY <1>1, <1>2, <1>13, <1>16, <1>17, <1>18, <1>19, <1>20, <1>21 DEF Tally
<1> QED
  BY <1>12, <1>22

LEMMA PopStep ==
  ASSUME OverlapInv, ProcessBatchResult
  PROVE  OverlapInv'
<1>0. Types /\ Queue /\ Places /\ Fresh /\ Tallies /\ Pool /\ RowsExact /\ RowsOwn /\ RowsLast
  BY DEF OverlapInv
<1>1. /\ UNCHANGED <<fill, alloc, retracted, gone, seq, arrived, waiting, running, chunked, cur>>
      /\ phase \in {"early", "late", "pause_pop"}
      /\ \A r \in Req : r \notin Holding => out'[r] = out[r] /\ chunks'[r] = chunks[r]
      /\ out' \in [Req -> Nat] /\ committed' \in [Req -> Nat] /\ chunks' \in [Req -> Nat]
  BY <1>0, PopValues
<1>2. /\ Queue'
      /\ \/ phase = "late" /\ phase' = "recv" /\ last' = cur
         \/ phase = "early" /\ phase' = "run_synced" /\ last' = last
         \/ phase = "pause_pop" /\ phase' = "pause" /\ last' = last
  BY <1>0, PopQueue
<1>3. PICK done \in SUBSET Holding :
           /\ done \subseteq Set(last.reqs)
           /\ finished' = finished \cup done /\ to_finish' = to_finish \ done
           /\ pool' = pool + Total([r \in Req |->
                        ReleasedPages(committed'[r], PromptLen[r] + out'[r], alloc[r])], done)
           /\ rows' = rows \o RowsOf(Only(last.reqs, done))
           /\ row' = [r \in Req |-> IF r \in done THEN 0 ELSE row[r]]
           /\ \A r \in done : out'[r] # out[r]
  BY <1>0, PopDone
<1>4. \A r \in Holding : Tally(r)'
  BY <1>0, PopTally
<1>5. \A r \in done : /\ r # chunked /\ ToFill(r) = 0
                      /\ phase \in {"early", "late"} => r \notin Joining
  BY <1>0, <1>3, PopTally
<1>6. Joining' = Joining
  <2>1. phase # "sched" /\ phase' # "sched" /\ cur' = cur
    BY <1>1, <1>2
  <2> QED
    BY <2>1 DEF Joining
<1> DEFINE ended == Only(last.reqs, done)
<1>7. ended \in Seq(Req) /\ IsInjective(ended) /\ Set(ended) = done
  <2>1. last.reqs \in Seq(Req) /\ IsInjective(last.reqs)
    BY <1>0, BatchFacts DEF Queue
  <2>2. ended \in Seq(Req) /\ IsInjective(ended) /\ Set(ended) = Set(last.reqs) \cap done
    BY <2>1, OnlyFacts
  <2> QED
    BY <1>3, <2>2
<1>8. rows' = rows \o RowsOf(ended)
  BY <1>3
<1> HIDE DEF ended
<1>9. /\ RowsOf(ended) \in Seq(1 .. MaxRunning) /\ Set(RowsOf(ended)) = {row[r] : r \in done}
      /\ rows' \in Seq(1 .. MaxRunning) /\ IsInjective(rows') /\ RowsExact'
      /\ row' \in [Req -> 0 .. MaxRunning]
  <2>1. row' = [r \in Req |-> IF r \in Set(ended) THEN 0 ELSE row[r]]
    BY <1>3, <1>7
  <2>2. Set(ended) \subseteq Holding
    BY <1>3, <1>7
  <2>3. /\ RowsOf(ended) \in Seq(1 .. MaxRunning) /\ Set(RowsOf(ended)) = {row[r] : r \in Set(ended)}
        /\ rows' \in Seq(1 .. MaxRunning) /\ IsInjective(rows') /\ RowsExact'
        /\ row' \in [Req -> 0 .. MaxRunning]
    BY <1>0, <1>7, <1>8, <2>1, <2>2, RowsGiven
  <2> QED
    BY <1>7, <2>3
<1>10. Holding' = Holding \ done
  <2>1. \A r \in Req : row'[r] # 0 <=> row[r] # 0 /\ r \notin done
    BY <1>3
  <2> QED
    BY <2>1 DEF Holding
<1>11. Pool' /\ pool' \in Nat
  <2>0. /\ IsFiniteSet(Req) /\ done \subseteq Req /\ PagesOf \in [Req -> Nat] /\ pool \in Nat
    BY <1>0, <1>3, ConstantTypes, PagesType DEF Holding, Types
  <2>1. IsFiniteSet(done)
    BY <2>0, FS_Subset
  <2> DEFINE h == [r \in Req |-> ReleasedPages(committed'[r], PromptLen[r] + out'[r], alloc[r])]
             g == PagesOf'
  <2>2. \A r \in done : h[r] = PagesOf[r]
    <3> SUFFICES ASSUME NEW r \in done PROVE h[r] = PagesOf[r]
      OBVIOUS
    <3>0. r \in Req /\ r \in Holding /\ row[r] # 0 /\ Tally(r)' /\ r # chunked /\ ToFill(r) = 0
      BY <1>3, <1>4, <1>5 DEF Holding
    <3>1. /\ PromptLen[r] \in Nat /\ out'[r] \in Nat /\ seq[r] \in Nat /\ seq'[r] = seq[r]
          /\ committed'[r] \in Nat /\ alloc[r] \in Nat /\ alloc'[r] = alloc[r] /\ Draft \in Nat /\ Draft >= 1
      BY <1>0, <1>1, <3>0, ConstantTypes DEF Types
    <3>2. /\ AllSteps(r)' = Steps(2, r) /\ AllTokens(r)' = Tokens(2, r) /\ AllFills(r)' = Fills(2, r)
          /\ ToFill(r)' = 0 /\ ToStep(r)' = ToStep(r)
      BY <1>0, <3>0, PopCounters
    <3>3. /\ Steps(2, r) \in 0 .. 1 /\ Fills(2, r) \in 0 .. 1 /\ ToStep(r) \in 0 .. 1
          /\ Tokens(2, r) \in Nat /\ Steps(2, r) <= Tokens(2, r)
          /\ Steps(2, r) + Fills(2, r) + ToStep(r) + ToFill(r) <= 1
      BY <1>0, CounterFacts
    <3>4. First(r)' = Fills(2, r)
      <4>1. First(r)' = IF AllFills(r)' > 0 THEN 1 ELSE 0
        BY <1>2, CounterRangesNext
      <4> QED
        BY <3>2, <3>3, <4>1
    <3>5. /\ committed'[r] + AllTokens(r)' = seq'[r] + ToStep(r)' + AllSteps(r)'
          /\ seq'[r] + ToStep(r)' * Draft <= alloc'[r]
          /\ PromptLen[r] + out'[r] + AllTokens(r)' + First(r)' = seq'[r] + 1
      <4>1. chunked' = chunked
        BY <1>1
      <4> QED
        BY <3>0, <3>2, <4>1 DEF Tally
    <3>6. /\ committed'[r] + Tokens(2, r) = seq[r] + ToStep(r) + Steps(2, r)
          /\ PromptLen[r] + out'[r] + Tokens(2, r) + Fills(2, r) = seq[r] + 1
      BY <3>1, <3>2, <3>4, <3>5
    <3>7. seq[r] + ToStep(r) <= alloc[r]
      <4>1. seq[r] + ToStep(r) * Draft <= alloc[r]
        BY <3>1, <3>2, <3>5
      <4>2. CASE ToStep(r) = 0
        BY <3>1, <4>1, <4>2
      <4>3. CASE ToStep(r) = 1
        BY <3>1, <4>1, <4>3
      <4> QED
        BY <3>3, <4>2, <4>3
    <3>8. committed'[r] <= alloc[r] /\ committed'[r] <= PromptLen[r] + out'[r]
      <4>1. Steps(2, r) + Fills(2, r) + ToStep(r) <= 1
        BY <3>0, <3>3
      <4> QED
        BY <3>1, <3>3, <3>6, <3>7, <4>1
    <3>9. ReleasedPages(committed'[r], PromptLen[r] + out'[r], alloc[r]) = CeilDiv(alloc[r])
      BY <3>1, <3>8, ReleaseAll
    <3> QED
      BY <3>0, <3>9 DEF PagesOf
  <2>3. g = [r \in Req |-> IF r \in done THEN 0 ELSE PagesOf[r]]
    BY <1>1, <1>3 DEF PagesOf
  <2>4. g \in [Req -> Nat] /\ (\A r \in Req \ done : g[r] = PagesOf[r]) /\ \A r \in done : g[r] = 0
    BY <2>0, <2>3
  <2>5. g = PagesOf' /\ pool' = pool + Total(h, done)
    BY <1>3
  <2> HIDE DEF g, h
  <2>6. Total(g, done) = 0 /\ Total(h, done) = Total(PagesOf, done)
    BY <2>1, <2>2, <2>4, SumZero, SumAgree
  <2>7. Total(PagesOf, done) \in Nat
    <3>1. \A r \in done : PagesOf[r] \in Nat
      BY <2>0
    <3> QED
      BY <2>1, <3>1, SumNat
  <2>8. pool' = pool + (Total(PagesOf, done) - Total(g, done))
    BY <2>5, <2>6, <2>7
  <2>9. Pool'
    BY <1>0, <2>0, <2>4, <2>5, <2>8, PoolChange
  <2> QED
    BY <2>0, <2>5, <2>6, <2>7, <2>9
<1>12. Holding \subseteq arrived /\ Holding \cap Set(waiting) = {} /\ Holding \subseteq Set(running) \cup Joining
  BY <1>0 DEF Places
<1>13. Types'
  <2>1. finished' \subseteq arrived /\ to_finish' \subseteq arrived
    BY <1>0, <1>3, <1>12 DEF Types
  <2>2. phase' \in {"recv", "run_synced", "pause"}
    BY <1>2
  <2> QED
    BY <1>0, <1>1, <1>9, <1>11, <2>1, <2>2 DEF Types
<1>14. Places'
  <2>1. /\ waiting' = waiting /\ running' = running /\ chunked' = chunked /\ cur' = cur
        /\ arrived' = arrived /\ retracted' = retracted /\ phase' \in {"recv", "run_synced", "pause"}
        /\ last' \in {cur, last} /\ finished' = finished \cup done
    BY <1>1, <1>2, <1>3
  <2>2. phase' # "pause" => phase \in {"early", "late"} /\ phase # "pause"
    BY <1>2
  <2>3. Holding' = (Set(running') \cup Joining') \ finished'
    BY <1>0, <1>6, <1>10, <2>1 DEF Places
  <2>4. phase' # "pause" => Joining' \cap finished' = {}
    BY <1>0, <1>5, <1>6, <2>1, <2>2 DEF Places
  <2>5. chunked' # NoReq => chunked' \in Joining' \ finished'
    BY <1>0, <1>5, <1>6, <2>1 DEF Places
  <2>6. Set(waiting') \cap (Set(running') \cup Joining' \cup Set(cur'.reqs) \cup finished') = {}
    BY <1>0, <1>3, <1>6, <1>12, <2>1 DEF Places
  <2>7. /\ Set(cur'.reqs) \subseteq Holding' \cup finished'
        /\ Set(last'.reqs) \subseteq Holding' \cup finished' \cup retracted'
    <3>1. /\ Set(cur.reqs) \subseteq Holding \cup finished
          /\ Set(last.reqs) \subseteq Holding \cup finished \cup retracted
      BY <1>0 DEF Places
    <3> QED
      BY <1>10, <2>1, <3>1
  <2>8. /\ Set(waiting') \cup Set(running') \cup Joining' \subseteq arrived'
        /\ Set(cur'.reqs) \cup Set(last'.reqs) \subseteq arrived'
        /\ Set(running') \cap Joining' = {}
        /\ Holding' \cap retracted' = {}
        /\ cur'.mode = "decode" => cur'.reqs = running' /\ chunked' = NoReq
    BY <1>0, <1>6, <1>10, <2>1 DEF Places
  <2> QED
    BY <2>1, <2>3, <2>4, <2>5, <2>6, <2>7, <2>8 DEF Places
<1>15. Fresh'
  <2> SUFFICES ASSUME NEW r \in Req, r \in Set(waiting') \/ r \notin arrived'
               PROVE  alloc'[r] = 0 /\ fill'[r] = 0 /\ chunks'[r] = 0 /\ row'[r] = 0
    BY DEF Fresh
  <2>1. r \notin Holding /\ r \notin done /\ (r \in Set(waiting) \/ r \notin arrived)
    BY <1>1, <1>3, <1>12
  <2> QED
    BY <1>0, <1>1, <1>3, <2>1 DEF Fresh
<1>16. Tallies'
  BY <1>4, <1>10 DEF Tallies
<1>17. RowsOwn'
  <2> SUFFICES ASSUME NEW b \in {cur', last'}, NEW j \in DOMAIN b.reqs
               PROVE  /\ row'[b.reqs[j]] \in {0, b.rows[j]}
                      /\ \A r \in Req : row'[r] = b.rows[j] => r = b.reqs[j]
    BY DEF RowsOwn
  <2>1. b \in {cur, last}
    BY <1>1, <1>2
  <2>2. b.reqs[j] \in Req /\ b.rows[j] # 0
    <3>1. Batch(b)
      BY <1>0, <2>1 DEF Queue
    <3>2. b.reqs \in Seq(Req) /\ b.rows \in Seq(1 .. MaxRunning) /\ DOMAIN b.reqs = DOMAIN b.rows
      BY <3>1, BatchFacts
    <3>3. b.reqs[j] \in Req /\ b.rows[j] \in 1 .. MaxRunning
      <4> DEFINE s == b.reqs
                 t == b.rows
      <4>1. s \in Seq(Req) /\ t \in Seq(1 .. MaxRunning) /\ j \in DOMAIN s /\ j \in DOMAIN t
        BY <3>2
      <4> HIDE DEF s, t
      <4>a. j \in 1 .. Len(s) /\ j \in 1 .. Len(t)
        BY <4>1, LenProperties
      <4>2. s[j] \in Req /\ t[j] \in 1 .. MaxRunning
        BY <4>1, <4>a, ElementOfSeq
      <4> QED
        BY <4>2 DEF s, t
    <3> QED
      BY <3>3, ConstantTypes
  <2>3. /\ row[b.reqs[j]] \in {0, b.rows[j]}
        /\ \A r \in Req : row[r] = b.rows[j] => r = b.reqs[j]
    BY <1>0, <2>1 DEF RowsOwn
  <2>4. \A r \in Req : row'[r] = 0 \/ row'[r] = row[r]
    BY <1>3
  <2> QED
    BY <2>2, <2>3, <2>4
<1>18. RowsLast'
  <2>1. phase' \notin {"early", "run", "late"}
    BY <1>2
  <2>2. CASE phase' # "pause"
    <3>1. Set(cur.reqs) \subseteq Holding /\ phase \in {"early", "late"}
      BY <1>0, <1>2, <2>2 DEF RowsLast
    <3>2. cur.reqs \in Seq(Req) /\ Batch(cur) /\ cur' = cur
      BY <1>0, <1>1, BatchFacts DEF Queue
    <3>3. ASSUME NEW w \in Stale' PROVE \E r \in done : w = row[r] /\ r \in Set(cur.reqs)
      <4>1. PICK j \in DOMAIN cur.reqs : w = cur.rows[j] /\ row'[cur.reqs[j]] = 0
        BY <3>2 DEF Stale
      <4>2. cur.reqs[j] \in Set(cur.reqs) /\ cur.reqs[j] \in Req /\ row[cur.reqs[j]] # 0
        BY <3>1, <4>1 DEF Set, Holding
      <4>3. row[cur.reqs[j]] = cur.rows[j]
        BY <1>0, <4>1, <4>2 DEF RowsOwn
      <4>4. cur.reqs[j] \in done
        BY <1>3, <4>1, <4>2
      <4> QED
        BY <4>1, <4>2, <4>3, <4>4
    <3>4. CASE cur.mode = "decode"
      <4>1. Set(cur.reqs) = Set(running) /\ Joining = {}
        BY <1>0, <3>1, <3>4 DEF Places, Joining
      <4>2. done \subseteq Set(cur.reqs)
        BY <1>12, <4>1
      <4>3. ASSUME NEW r \in done PROVE row[r] \in Stale'
        <5>1. PICK j \in DOMAIN cur.reqs : cur.reqs[j] = r
          BY <4>2 DEF Set
        <5>2. r \in Req /\ row[r] # 0 /\ row'[r] = 0
          BY <1>3 DEF Holding
        <5>3. cur.rows[j] = row[r]
          BY <1>0, <5>1, <5>2 DEF RowsOwn
        <5> QED
          BY <3>2, <5>1, <5>2, <5>3 DEF Stale
      <4>4. ASSUME NEW i \in DOMAIN rows', NEW j \in DOMAIN rows', i < j, rows'[i] \in Stale'
            PROVE  rows'[j] \in Stale'
        <5> DEFINE t == RowsOf(ended)
        <5>1. rows \in Seq(1 .. MaxRunning) /\ t \in Seq(1 .. MaxRunning) /\ rows' = rows \o t
          BY <1>0, <1>8, <1>9 DEF Types
        <5>2. Set(t) = {row[r] : r \in done}
          BY <1>9
        <5> HIDE DEF t
        <5>3. /\ i \in Nat /\ j \in Nat /\ Len(rows) \in Nat /\ DOMAIN rows = 1 .. Len(rows)
              /\ i <= Len(rows) => i \in DOMAIN rows /\ rows'[i] = rows[i]
              /\ j > Len(rows) => j - Len(rows) \in DOMAIN t /\ rows'[j] = t[j - Len(rows)]
          BY <4>4, <5>1
        <5>4. ~ (i <= Len(rows))
          <6> SUFFICES ASSUME i <= Len(rows) PROVE FALSE
            OBVIOUS
          <6>1. rows'[i] \in Set(rows)
            BY <5>3 DEF Set
          <6>2. PICK r \in done : rows'[i] = row[r]
            BY <3>3, <4>4
          <6> QED
            BY <1>0, <1>3, <6>1, <6>2 DEF RowsExact
        <5>5. rows'[j] \in Set(t)
          BY <4>4, <5>3, <5>4 DEF Set
        <5> QED
          BY <4>3, <5>2, <5>5
      <4> QED
        BY <2>1, <4>4 DEF RowsLast
    <3>5. CASE cur.mode # "decode"
      <4>1. Set(cur.reqs) \subseteq Joining
        <5>1. CASE cur.mode = "extend"
          BY <3>1, <5>1 DEF Joining
        <5>2. CASE cur.mode = "none"
          <6>1. cur = NoBatch
            BY <3>2, <5>2, BatchFacts
          <6>2. cur.reqs = <<>>
            BY <6>1 DEF NoBatch
          <6> QED
            BY <6>2 DEF Set
        <5> QED
          BY <3>2, <3>5, <5>1, <5>2, BatchFacts
      <4>2. Stale' = {}
        BY <1>5, <3>1, <3>3, <4>1
      <4> QED
        BY <2>1, <4>2 DEF RowsLast
    <3> QED
      BY <3>4, <3>5
  <2>3. CASE phase' = "pause"
    BY <2>1, <2>3 DEF RowsLast
  <2> QED
    BY <2>2, <2>3
<1> QED
  BY <1>2, <1>9, <1>11, <1>13, <1>14, <1>15, <1>16, <1>17, <1>18 DEF OverlapInv

-----------------------------------------------------------------------------
(* A prefill batch is chosen.                                              *)

LEMMA UnionCard ==
  ASSUME NEW S, IsFiniteSet(S), NEW T, IsFiniteSet(T), S \cap T = {}
  PROVE  /\ Cardinality(S \cup T) = Cardinality(S) + Cardinality(T)
         /\ Cardinality(S) \in Nat /\ Cardinality(T) \in Nat
<1>1. Cardinality(S \cap T) = 0
  BY FS_EmptySet
<1>2. Cardinality(S \cup T) = Cardinality(S) + Cardinality(T) - Cardinality(S \cap T)
  BY FS_Union
<1>3. Cardinality(S) \in Nat /\ Cardinality(T) \in Nat
  BY FS_CardinalityType
<1> QED
  BY <1>1, <1>2, <1>3

\* The first rows of free_slots are not used by the step launched last: those that
\* are were given back by finished requests, which still count as running, and are
\* at the end.
LEMMA FrontNotStale ==
  ASSUME Types, Queue, Places, RowsExact, RowsLast, phase = "sched", cur.mode = "decode",
         NEW n \in Nat, n <= MaxRunning - Len(running), NEW i \in 1 .. n, i \in DOMAIN rows
  PROVE  rows[i] \notin Stale
<1> SUFFICES ASSUME rows[i] \in Stale PROVE FALSE
  OBVIOUS
<1>0. /\ MaxRunning \in Nat /\ IsFiniteSet(Req) /\ row \in [Req -> 0 .. MaxRunning]
      /\ rows \in Seq(1 .. MaxRunning) /\ IsInjective(rows)
      /\ running \in Seq(Req) /\ IsInjective(running)
  BY ConstantTypes DEF Types
<1>1. cur.reqs = running /\ Holding = Set(running) \ finished /\ Holding \subseteq Set(running)
  BY DEF Places, Joining
<1>2. /\ DOMAIN rows = 1 .. Len(rows) /\ Len(rows) \in Nat /\ Len(running) \in Nat
      /\ i \in Nat /\ i >= 1 /\ i <= Len(rows) /\ i <= n
      /\ IsFiniteSet(Set(running)) /\ IsFiniteSet(Set(rows))
  BY <1>0, SetType
<1> DEFINE D == i .. Len(rows)
           F == Set(running) \ Holding
           W == {row[r] : r \in Holding}
<1>3. \A d \in D : d \in DOMAIN rows /\ rows[d] \in Stale
  <2>1. \A d \in D : d \in DOMAIN rows /\ (d = i \/ i < d)
    BY <1>2
  <2>2. \A d \in DOMAIN rows : i < d => rows[d] \in Stale
    BY DEF RowsLast
  <2> QED
    BY <2>1, <2>2
<1>4. DOMAIN cur.reqs = DOMAIN cur.rows /\ IsInjective(cur.reqs)
  BY BatchFacts DEF Queue
<1>5. \A d \in D : \E r \in F : \E j \in DOMAIN cur.reqs : cur.reqs[j] = r /\ cur.rows[j] = rows[d]
  <2> SUFFICES ASSUME NEW d \in D
               PROVE  \E r \in F : \E j \in DOMAIN cur.reqs : cur.reqs[j] = r /\ cur.rows[j] = rows[d]
    OBVIOUS
  <2>1. PICK j \in DOMAIN cur.reqs : cur.rows[j] = rows[d] /\ row[cur.reqs[j]] = 0
    BY <1>3 DEF Stale
  <2>2. cur.reqs[j] \in Set(running) /\ cur.reqs[j] \notin Holding
    BY <1>1, <2>1 DEF Set, Holding
  <2> QED
    BY <2>1, <2>2
<1> DEFINE f == [d \in D |-> CHOOSE r \in F :
                    \E j \in DOMAIN cur.reqs : cur.reqs[j] = r /\ cur.rows[j] = rows[d]]
<1>6. \A d \in D : f[d] \in F /\ \E j \in DOMAIN cur.reqs : cur.reqs[j] = f[d] /\ cur.rows[j] = rows[d]
  BY <1>5
<1>7. f \in Injection(D, F)
  <2>1. f \in [D -> F]
    BY <1>6
  <2>2. ASSUME NEW d \in D, NEW e \in D, f[d] = f[e] PROVE d = e
    <3>1. PICK j \in DOMAIN cur.reqs : cur.reqs[j] = f[d] /\ cur.rows[j] = rows[d]
      BY <1>6
    <3>2. PICK k \in DOMAIN cur.reqs : cur.reqs[k] = f[e] /\ cur.rows[k] = rows[e]
      BY <1>6
    <3>3. j = k
      BY <1>4, <2>2, <3>1, <3>2 DEF IsInjective
    <3>4. rows[d] = rows[e] /\ d \in DOMAIN rows /\ e \in DOMAIN rows
      BY <1>3, <3>1, <3>2, <3>3
    <3> QED
      BY <1>0, <3>4 DEF IsInjective
  <2> HIDE DEF f
  <2>3. DOMAIN f = D
    BY <2>1
  <2> QED
    BY <2>1, <2>2, <2>3 DEF Injection, IsInjective
<1>8. IsFiniteSet(F) /\ IsFiniteSet(Holding) /\ IsFiniteSet(1 .. MaxRunning)
  BY <1>0, <1>1, <1>2, FS_Subset, CardUpto
<1>9. Cardinality(D) <= Cardinality(F)
  <2> HIDE DEF f, D, F
  <2> QED
    BY <1>7, <1>8, FS_Injection
<1>10. Cardinality(D) = Len(rows) + 1 - i
  <2>1. Cardinality(D) = IF i > Len(rows) THEN 0 ELSE Len(rows) - i + 1
    BY <1>2, FS_Interval
  <2> QED
    BY <1>2, <2>1
<1>11. /\ Len(running) = Cardinality(F) + Cardinality(Holding)
       /\ Cardinality(F) \in Nat /\ Cardinality(Holding) \in Nat
  <2>1. Set(running) = F \cup Holding /\ F \cap Holding = {}
    BY <1>1
  <2>2. Cardinality(Set(running)) = Len(running)
    BY <1>0, InjectiveCard
  <2> HIDE DEF F
  <2>3. /\ Cardinality(F \cup Holding) = Cardinality(F) + Cardinality(Holding)
        /\ Cardinality(F) \in Nat /\ Cardinality(Holding) \in Nat
    BY <1>8, <2>1, UnionCard
  <2> QED
    BY <2>1, <2>2, <2>3
<1>12. /\ IsFiniteSet(W) /\ Cardinality(W) <= Cardinality(Holding) /\ Cardinality(W) \in Nat
  <2> DEFINE g == [r \in Holding |-> row[r]]
  <2>1. g \in Surjection(Holding, W)
    BY DEF Surjection
  <2> HIDE DEF g, W
  <2> QED
    BY <1>8, <2>1, FS_Surjection, FS_CardinalityType
<1>13. MaxRunning = Len(rows) + Cardinality(W)
  <2>1. 1 .. MaxRunning = Set(rows) \cup W /\ Set(rows) \cap W = {}
    <3>1. Set(rows) = (1 .. MaxRunning) \ W
      BY DEF RowsExact
    <3>2. W \subseteq 1 .. MaxRunning
      BY <1>0 DEF Holding
    <3> QED
      BY <3>1, <3>2
  <2>2. Cardinality(Set(rows)) = Len(rows)
    BY <1>0, InjectiveCard
  <2>3. Cardinality(1 .. MaxRunning) = MaxRunning
    BY <1>0, CardUpto
  <2> HIDE DEF W
  <2>4. Cardinality(Set(rows) \cup W) = Cardinality(Set(rows)) + Cardinality(W)
    BY <1>2, <1>12, <2>1, UnionCard
  <2> QED
    BY <2>1, <2>2, <2>3, <2>4
<1> HIDE DEF D, F, W
<1>14. n <= MaxRunning - (Cardinality(F) + Cardinality(Holding)) /\ n \in Nat
  BY <1>11
<1> DEFINE l == Len(rows)
           cf == Cardinality(F)
           ch == Cardinality(Holding)
           cw == Cardinality(W)
<1>15. /\ l \in Nat /\ cf \in Nat /\ ch \in Nat /\ cw \in Nat /\ MaxRunning \in Nat /\ i \in Nat
       /\ i <= n /\ l + 1 - i <= cf /\ cw <= ch /\ MaxRunning = l + cw /\ n <= MaxRunning - (cf + ch)
  BY <1>0, <1>2, <1>9, <1>10, <1>11, <1>12, <1>13, <1>14
<1> HIDE DEF l, cf, ch, cw
<1> QED
  BY <1>14, <1>15

LEMMA FloorFacts ==
  ASSUME NEW b \in Int, NEW p \in Nat \ {0}
  PROVE  (b \div p) * p \in Int /\ (b \div p) * p <= b
<1> DEFINE q == b \div p
<1>1. q \in Int /\ p * q <= b /\ p \in Int
  OBVIOUS
<1> HIDE DEF q
<1>2. q * p = p * q /\ q * p \in Int
  BY <1>1
<1> QED
  BY <1>1, <1>2 DEF q

LEMMA AdmitAction ==
  ASSUME GetNewBatchPrefill
  PROVE  /\ phase = "sched"
         /\ UNCHANGED <<out, finished, to_finish, gone, seq, arrived, running, paused, last, results>>
         /\ \E n \in 0 .. Len(waiting) : \E list, goal :
              /\ list = Candidates(n) /\ goal = Goal(list)
              /\ Admissible(list) /\ PrepareForExtend(n, list, goal)
<1>1. phase = "sched"
  BY DEF GetNewBatchPrefill
<1>2. UNCHANGED <<out, finished, to_finish, gone, seq, arrived, running, paused, last, results>>
  BY Zenon DEF GetNewBatchPrefill
<1>3. \E n \in 0 .. Len(waiting) : \E list \in {Candidates(n)} :
         Admissible(list) /\ PrepareForExtend(n, list, Goal(list))
  BY Zenon DEF GetNewBatchPrefill
<1>4. \E n \in 0 .. Len(waiting) : \E list, goal :
         /\ list = Candidates(n) /\ goal = Goal(list)
         /\ Admissible(list) /\ PrepareForExtend(n, list, goal)
  <2>1. PICK n \in 0 .. Len(waiting) : \E list \in {Candidates(n)} :
               Admissible(list) /\ PrepareForExtend(n, list, Goal(list))
    BY <1>3
  <2>2. PICK list \in {Candidates(n)} : Admissible(list) /\ PrepareForExtend(n, list, Goal(list))
    BY <2>1
  <2>3. list = Candidates(n)
    OBVIOUS
  <2> QED
    BY <2>2, <2>3, Zenon
<1> QED
  BY <1>1, <1>2, <1>4, Zenon

\* The requests of the batch: the chunked one and the first n of the queue.
LEMMA AdmitList ==
  ASSUME Types, Places, phase = "sched", NEW n \in 0 .. Len(waiting)
  PROVE  LET list == Candidates(n)
             new == SubSeq(waiting, 1, n)
         IN  /\ list \in Seq(Req) /\ IsInjective(list) /\ Set(list) = Set(new) \cup Joining
             /\ Joining = {chunked} \ {NoReq} /\ Joining \subseteq Holding
             /\ new \in Seq(Req) /\ IsInjective(new) /\ Len(new) = n
             /\ Set(new) \subseteq Set(waiting) /\ Set(new) \cap Joining = {}
             /\ SubSeq(waiting, n + 1, Len(waiting)) \in Seq(Req)
             /\ IsInjective(SubSeq(waiting, n + 1, Len(waiting)))
             /\ Set(SubSeq(waiting, n + 1, Len(waiting))) = Set(waiting) \ Set(new)
             /\ chunked = NoReq => Len(list) = n
<1> DEFINE new == SubSeq(waiting, 1, n)
           rest == SubSeq(waiting, n + 1, Len(waiting))
           front == IF chunked = NoReq THEN <<>> ELSE <<chunked>>
<1>1. waiting \in Seq(Req) /\ IsInjective(waiting) /\ chunked \in Req \cup {NoReq} /\ NoReq \notin Req
  BY ConstantTypes DEF Types
<1>2. /\ new \in Seq(Req) /\ Len(new) = n /\ rest \in Seq(Req)
      /\ Set(waiting) = Set(new) \cup Set(rest)
      /\ IsInjective(new) /\ IsInjective(rest) /\ Set(new) \cap Set(rest) = {}
  BY <1>1, SetSplit
<1>3. Joining = {chunked} \ {NoReq}
  BY DEF Joining
<1>4. Joining \subseteq Holding /\ Set(waiting) \cap Joining = {}
  BY <1>3 DEF Places
<1>5. front \in Seq(Req) /\ IsInjective(front) /\ Set(front) = Joining
  <2>1. CASE chunked = NoReq
    BY <1>3, <2>1 DEF Set, IsInjective
  <2>2. CASE chunked # NoReq
    <3>1. front = <<chunked>> /\ chunked \in Req
      BY <1>1, <2>2
    <3>2. DOMAIN <<chunked>> = {1} /\ <<chunked>>[1] = chunked
      OBVIOUS
    <3>3. Set(<<chunked>>) = {chunked} /\ IsInjective(<<chunked>>)
      BY <3>2 DEF Set, IsInjective
    <3> QED
      BY <1>3, <2>2, <3>1, <3>3
  <2> QED
    BY <2>1, <2>2
<1>6. Candidates(n) = front \o new
  BY DEF Candidates
<1>7. chunked = NoReq => front = <<>>
  OBVIOUS
<1> HIDE DEF new, rest, front
<1>8. /\ front \o new \in Seq(Req) /\ Set(front \o new) = Set(new) \cup Joining
      /\ IsInjective(front \o new)
  BY <1>1, <1>2, <1>4, <1>5, SetConcat
<1>9. chunked = NoReq => Len(front \o new) = n
  BY <1>2, <1>7
<1>10. Set(rest) = Set(waiting) \ Set(new)
  BY <1>2
<1>11. /\ Candidates(n) \in Seq(Req) /\ IsInjective(Candidates(n))
       /\ Set(Candidates(n)) = Set(new) \cup Joining
       /\ chunked = NoReq => Len(Candidates(n)) = n
  BY <1>6, <1>8, <1>9
<1>12. Set(new) \subseteq Set(waiting) /\ Set(new) \cap Joining = {}
  BY <1>2, <1>4
<1> QED
  BY <1>2, <1>3, <1>4, <1>10, <1>11, <1>12 DEF new, rest

\* How far each request of the batch gets, and that only the last one may be cut.
LEMMA AdmitGoal ==
  ASSUME Types, NEW list \in Seq(Req), IsInjective(list), Admissible(list)
  PROVE  /\ Goal(list) \in [Req -> Nat]
         /\ \A r \in Req \ Set(list) : Goal(list)[r] = fill[r]
         /\ \A r \in Set(list) : /\ fill[r] < Goal(list)[r]
                                 /\ Goal(list)[r] <= PromptLen[r] + out[r]
                                 /\ Goal(list)[r] < PromptLen[r] + out[r] => r = list[Len(list)]
         /\ Len(list) \in DOMAIN list /\ list # <<>>
<1>1. /\ IsFiniteSet(Req) /\ PageSize \in Nat \ {0} /\ ChunkSize \in Nat
      /\ fill \in [Req -> Nat] /\ out \in [Req -> Nat] /\ \A r \in Req : PromptLen[r] \in Nat
      /\ DOMAIN list = 1 .. Len(list) /\ Len(list) \in Nat
  BY ConstantTypes, OverlapAssumption, SetType DEF Types
<1>2. \A r \in Req : Rest[r] \in Int /\ Rest[r] = PromptLen[r] + out[r] - fill[r]
  BY <1>1 DEF Rest
<1>3. list # <<>> /\ \A i \in DOMAIN list : Take(list, i) > 0
  BY DEF Admissible
<1>4. \A i \in DOMAIN list : i < Len(list) => Take(list, i) = Rest[list[i]]
  BY DEF Admissible
<1>5. ASSUME NEW i \in DOMAIN list
      PROVE  Take(list, i) \in Int /\ Take(list, i) <= Rest[list[i]] /\ list[i] \in Req
  <2>1. list[i] \in Req /\ Rest[list[i]] \in Int
    BY <1>1, <1>2, <1>5, ElementOfSeq
  <2>2. Budget(list, i) \in Int
    <3> DEFINE S == Set(SubSeq(list, 1, i - 1))
    <3>1. i - 1 \in 0 .. Len(list)
      BY <1>1, <1>5
    <3>2. SubSeq(list, 1, i - 1) \in Seq(Req)
      BY <3>1, SetSplit
    <3>3. S \subseteq Req /\ IsFiniteSet(S)
      BY <3>2, SetType
    <3> HIDE DEF S
    <3>4. Total(Rest, S) \in Int
      BY <1>2, <3>3, SumInt
    <3> QED
      BY <1>1, <3>4 DEF Budget, S
  <2> DEFINE b == Budget(list, i)
             x == Rest[list[i]]
  <2>3. Take(list, i) = IF x <= b THEN x ELSE (b \div PageSize) * PageSize
    BY DEF Take
  <2>4. b \in Int /\ x \in Int
    BY <2>1, <2>2
  <2> HIDE DEF b, x
  <2> DEFINE y == (b \div PageSize) * PageSize
  <2>5. y \in Int /\ y <= b
    BY <1>1, <2>4, FloorFacts
  <2>6. Take(list, i) = IF x <= b THEN x ELSE y
    BY <2>3
  <2> HIDE DEF y
  <2>7. Take(list, i) \in Int /\ Take(list, i) <= x
    BY <2>4, <2>5, <2>6
  <2> QED
    BY <2>1, <2>7 DEF x
<1>6. ASSUME NEW r \in Set(list)
      PROVE  /\ r \in Req /\ fill[r] < Goal(list)[r] /\ Goal(list)[r] <= PromptLen[r] + out[r]
             /\ Goal(list)[r] < PromptLen[r] + out[r] => r = list[Len(list)]
             /\ Goal(list)[r] \in Nat
  <2> DEFINE i == CHOOSE j \in DOMAIN list : list[j] = r
  <2>1. i \in DOMAIN list /\ list[i] = r
    BY <1>6 DEF Set
  <2>2. r \in Req
    BY <1>5, <2>1
  <2>3. Goal(list)[r] = fill[r] + Take(list, i)
    BY <1>6, <2>2 DEF Goal
  <2> HIDE DEF i
  <2>4. Take(list, i) \in Int /\ Take(list, i) > 0 /\ Take(list, i) <= Rest[r]
    BY <1>3, <1>5, <2>1
  <2>5. i < Len(list) => Take(list, i) = Rest[r]
    BY <1>4, <2>1
  <2>6. fill[r] \in Nat /\ Rest[r] = PromptLen[r] + out[r] - fill[r] /\ PromptLen[r] \in Nat /\ out[r] \in Nat
    BY <1>1, <1>2, <2>2
  <2>7. ~ (i < Len(list)) => i = Len(list)
    BY <1>1, <2>1
  <2> DEFINE t == Take(list, i)
             g == Goal(list)[r]
  <2> HIDE DEF t, g
  <2>8. /\ g = fill[r] + t /\ t \in Int /\ t > 0 /\ t <= Rest[r] /\ (i < Len(list) => t = Rest[r])
    BY <2>3, <2>4, <2>5 DEF t, g
  <2>a. fill[r] < g /\ g <= PromptLen[r] + out[r] /\ g \in Nat
    BY <2>6, <2>8
  <2>b. i < Len(list) => ~ (g < PromptLen[r] + out[r])
    BY <2>6, <2>8
  <2>9. /\ fill[r] < g /\ g <= PromptLen[r] + out[r] /\ g \in Nat
        /\ g < PromptLen[r] + out[r] => ~ (i < Len(list))
    BY <2>a, <2>b
  <2> QED
    BY <2>1, <2>2, <2>7, <2>9 DEF g
<1>7. \A r \in Req \ Set(list) : Goal(list)[r] = fill[r]
  BY DEF Goal
<1>8. Goal(list) \in [Req -> Nat]
  <2>1. \A r \in Req : Goal(list)[r] \in Nat
    BY <1>1, <1>6, <1>7
  <2>2. DOMAIN Goal(list) = Req /\ Goal(list) = [r \in Req |-> Goal(list)[r]]
    BY DEF Goal
  <2> QED
    BY <2>1, <2>2
<1>9. Len(list) \in DOMAIN list
  BY <1>1, <1>3
<1> QED
  BY <1>3, <1>6, <1>7, <1>8, <1>9

\* prepare_for_extend: the queue, the rows and the batch.
LEMMA AdmitEffect ==
  ASSUME NEW n, NEW list, NEW goal, PrepareForExtend(n, list, goal)
  PROVE  LET new == SubSeq(waiting, 1, n)
         IN  /\ n > 0 => Len(list) <= Allocatable
             /\ row' = [r \in Req |-> IF r \in Set(new)
                          THEN SubSeq(rows, 1, n)[CHOOSE i \in 1 .. n : new[i] = r] ELSE row[r]]
             /\ rows' = Without(rows, Set(SubSeq(rows, 1, n)))
             /\ retracted' = retracted \ Set(list)
             /\ waiting' = SubSeq(waiting, n + 1, Len(waiting))
             /\ cur' = [mode |-> "extend", reqs |-> list, rows |-> [i \in DOMAIN list |-> row'[list[i]]]]
             /\ phase' \in {"early", "run"}
             /\ phase' = "early" => last.mode = "extend"
<1> DEFINE new == SubSeq(waiting, 1, n)
           batch == [mode |-> "extend", reqs |-> list, rows |-> [i \in DOMAIN list |-> row'[list[i]]]]
<1>1. /\ n > 0 => Len(list) <= Allocatable
      /\ row' = [r \in Req |-> IF r \in Set(new)
                   THEN TakeRows(n)[CHOOSE i \in 1 .. n : new[i] = r] ELSE row[r]]
      /\ rows' = Without(rows, Set(TakeRows(n)))
      /\ retracted' = retracted \ Set(list)
      /\ waiting' = SubSeq(waiting, n + 1, Len(waiting))
      /\ Chosen(batch)
  BY Zenon DEF PrepareForExtend
<1>2. TakeRows(n) = SubSeq(rows, 1, n)
  BY DEF TakeRows
<1>3. cur' = batch /\ batch.mode = "extend"
  <2>1. cur' = batch
    BY <1>1, Zenon DEF Chosen
  <2> QED
    BY <2>1
<1>4. phase' \in {"early", "run"} /\ (phase' = "early" => last.mode = "extend")
  <2>1. phase' = IF DisableOverlap(batch) THEN "early" ELSE "run"
    BY <1>1, Zenon DEF Chosen
  <2>2. DisableOverlap(batch) => last.mode = "extend"
    BY <1>3 DEF DisableOverlap
  <2> HIDE DEF batch
  <2> QED
    BY <2>1, <2>2
<1>5. row' = [r \in Req |-> IF r \in Set(new)
                THEN SubSeq(rows, 1, n)[CHOOSE i \in 1 .. n : new[i] = r] ELSE row[r]]
  BY <1>1, Zenon DEF TakeRows
<1>6. rows' = Without(rows, Set(SubSeq(rows, 1, n)))
  BY <1>1, <1>2, Zenon
<1> QED
  BY <1>1, <1>3, <1>4, <1>5, <1>6, Zenon

\* prepare_for_extend: the pages.
LEMMA AdmitNeed ==
  ASSUME NEW n, NEW list, NEW goal, PrepareForExtend(n, list, goal)
  PROVE  LET need == Total([r \in Req |-> CeilDiv(goal[r]) - CeilDiv(alloc[r])], Set(list))
         IN  need <= pool /\ pool' = pool - need
BY Zenon DEF PrepareForExtend

\* prepare_for_extend: the lengths.
LEMMA AdmitLengths ==
  ASSUME NEW n, NEW list, NEW goal, PrepareForExtend(n, list, goal)
  PROVE  /\ fill' = goal
         /\ committed' = [r \in Req |-> IF r \in Set(list) THEN goal[r] ELSE committed[r]]
         /\ alloc' = [r \in Req |-> IF r \in Set(list) THEN goal[r] ELSE alloc[r]]
BY Zenon DEF PrepareForExtend

\* prepare_for_extend: the request whose prompt is not done.
LEMMA AdmitChunk ==
  ASSUME NEW n, NEW list, NEW goal, PrepareForExtend(n, list, goal)
  PROVE  LET cut == {r \in Set(list) : goal[r] < PromptLen[r] + out[r]}
         IN  /\ cut = {} => chunked' = NoReq
             /\ cut # {} => chunked' \in cut
             /\ chunks' = [r \in Req |-> IF r \in cut THEN chunks[r] + 1 ELSE chunks[r]]
<1> DEFINE cut == {r \in Set(list) : goal[r] < PromptLen[r] + out[r]}
<1>1. /\ chunked' = IF cut = {} THEN NoReq ELSE CHOOSE r \in cut : TRUE
      /\ chunks' = [r \in Req |-> IF r \in cut THEN chunks[r] + 1 ELSE chunks[r]]
  BY Zenon DEF PrepareForExtend
<1>2. (cut = {} => chunked' = NoReq) /\ (cut # {} => chunked' \in cut)
  <2> HIDE DEF cut
  <2> QED
    BY <1>1
<1> QED
  BY <1>1, <1>2, Zenon

\* The rows of the requests from the queue.
LEMMA AdmitRows ==
  ASSUME Types, Queue, Places, RowsExact, RowsLast, phase = "sched", NEW n \in 0 .. Len(waiting),
         NEW list, NEW goal, PrepareForExtend(n, list, goal),
         list = Candidates(n)
  PROVE  /\ row' \in [Req -> 0 .. MaxRunning]
         /\ \A r \in Req \ Set(SubSeq(waiting, 1, n)) : row'[r] = row[r]
         /\ \A r \in Set(SubSeq(waiting, 1, n)) :
              \E i \in 1 .. n : i \in DOMAIN rows /\ row'[r] = rows[i] /\ rows[i] \notin Stale
         /\ \A r, q \in Set(SubSeq(waiting, 1, n)) : row'[r] = row'[q] => r = q
         /\ Set(rows') = Set(rows) \ {row'[r] : r \in Set(SubSeq(waiting, 1, n))}
         /\ rows' \in Seq(1 .. MaxRunning) /\ IsInjective(rows')
<1> DEFINE new == SubSeq(waiting, 1, n)
           t == SubSeq(rows, 1, n)
           at(r) == CHOOSE i \in 1 .. n : new[i] = r
<1>1. /\ rows \in Seq(1 .. MaxRunning) /\ IsInjective(rows) /\ row \in [Req -> 0 .. MaxRunning]
      /\ running \in Seq(Req) /\ MaxRunning \in Nat /\ waiting \in Seq(Req) /\ n \in Nat
      /\ Len(rows) \in Nat /\ Len(running) \in Nat
  BY ConstantTypes DEF Types
<1>2. /\ new \in Seq(Req) /\ IsInjective(new) /\ Len(new) = n /\ list \in Seq(Req)
      /\ (chunked = NoReq => Len(list) = n) /\ Len(list) \in Nat
  BY AdmitList
<1>3. /\ n > 0 => Len(list) <= Allocatable
      /\ row' = [r \in Req |-> IF r \in Set(new) THEN t[at(r)] ELSE row[r]]
      /\ rows' = Without(rows, Set(t))
  BY AdmitEffect, Zenon
<1>4. n > 0 => Len(list) <= MaxRunning - Len(running) /\ Len(list) <= Len(rows)
  <2> DEFINE a == MaxRunning - Len(running)
             b == Len(rows)
  <2>1. Allocatable = Min({a, b}) /\ a \in Int /\ b \in Int
    BY <1>1 DEF Allocatable
  <2> HIDE DEF a, b
  <2>2. Allocatable = IF a <= b THEN a ELSE b
    BY <2>1, MinMaxPair
  <2>3. n > 0 => Len(list) <= a /\ Len(list) <= b
    BY <1>2, <1>3, <2>1, <2>2
  <2> QED
    BY <2>3 DEF a, b
<1>5. n <= Len(list)
  <2>1. Cardinality(Set(new)) = n /\ Cardinality(Set(list)) = Len(list)
    BY <1>2, AdmitList, InjectiveCard
  <2>2. Set(new) \subseteq Set(list) /\ IsFiniteSet(Set(list))
    BY <1>2, AdmitList, SetType
  <2> HIDE DEF new
  <2>3. Cardinality(Set(new)) <= Cardinality(Set(list))
    BY <2>2, FS_Subset
  <2> QED
    BY <2>1, <2>3
<1>6. n <= Len(rows)
  <2>1. CASE n = 0
    BY <1>1, <2>1
  <2>2. CASE n > 0
    BY <1>1, <1>2, <1>4, <1>5, <2>2
  <2> QED
    BY <1>1, <2>1, <2>2
<1>7. /\ t \in Seq(1 .. MaxRunning) /\ Len(t) = n /\ IsInjective(t) /\ DOMAIN t = 1 .. n
      /\ \A i \in 1 .. n : t[i] = rows[i] /\ i \in DOMAIN rows
  <2>1. n \in 0 .. Len(rows)
    BY <1>1, <1>6
  <2>2. t \in Seq(1 .. MaxRunning) /\ Len(t) = n /\ IsInjective(t)
    BY <1>1, <2>1, SetSplit
  <2>3. \A i \in 1 .. n : t[i] = rows[i] /\ i \in DOMAIN rows
    BY <1>1, <1>6
  <2>4. DOMAIN t = 1 .. n
    BY <2>2, LenProperties
  <2> QED
    BY <2>2, <2>3, <2>4
<1>8. ASSUME NEW r \in Set(new)
      PROVE  at(r) \in 1 .. n /\ new[at(r)] = r /\ r \in Req
  <2>1. DOMAIN new = 1 .. n
    BY <1>2, LenProperties
  <2>2. \E i \in 1 .. n : new[i] = r
    BY <1>8, <2>1 DEF Set
  <2>3. r \in Req
    BY <1>2, <1>8, SetType
  <2> HIDE DEF new
  <2> QED
    BY <2>2, <2>3
<1>9. \A r \in Set(new) : row'[r] = t[at(r)]
  BY <1>3, <1>8, Zenon
<1>10. \A r \in Req \ Set(new) : row'[r] = row[r]
  <2> HIDE DEF new, t, at
  <2> QED
    BY <1>3
<1> HIDE DEF at
<1>11. \A r \in Set(new) : row'[r] = rows[at(r)] /\ at(r) \in DOMAIN rows /\ row'[r] \in 1 .. MaxRunning
  <2> SUFFICES ASSUME NEW r \in Set(new)
               PROVE  row'[r] = rows[at(r)] /\ at(r) \in DOMAIN rows /\ row'[r] \in 1 .. MaxRunning
    OBVIOUS
  <2>1. at(r) \in 1 .. n /\ row'[r] = t[at(r)]
    BY <1>8, <1>9
  <2> HIDE DEF t
  <2>2. t[at(r)] \in 1 .. MaxRunning
    BY <1>7, <2>1, ElementOfSeq
  <2> QED
    BY <1>7, <2>1, <2>2
<1>12. row' \in [Req -> 0 .. MaxRunning]
  <2>1. \A r \in Req : row'[r] \in 0 .. MaxRunning
    BY <1>1, <1>10, <1>11
  <2>2. DOMAIN row' = Req /\ row' = [r \in Req |-> row'[r]]
    <3> HIDE DEF new, t
    <3> QED
      BY <1>3
  <2> QED
    BY <2>1, <2>2
<1>13. \A r, q \in Set(new) : row'[r] = row'[q] => r = q
  <2> SUFFICES ASSUME NEW r \in Set(new), NEW q \in Set(new), row'[r] = row'[q] PROVE r = q
    OBVIOUS
  <2>1. at(r) \in DOMAIN t /\ at(q) \in DOMAIN t /\ t[at(r)] = t[at(q)]
    BY <1>7, <1>8, <1>9
  <2> HIDE DEF t
  <2>2. at(r) = at(q)
    BY <1>7, <2>1 DEF IsInjective
  <2> QED
    BY <1>8, <2>2
<1>14. Set(t) = {row'[r] : r \in Set(new)}
  <2>1. ASSUME NEW w \in Set(t) PROVE w \in {row'[r] : r \in Set(new)}
    <3>1. PICK i \in 1 .. n : w = t[i]
      BY <1>7, <2>1 DEF Set
    <3>2. i \in DOMAIN new /\ new[i] \in Set(new)
      BY <1>2, <3>1, LenProperties DEF Set
    <3>3. at(new[i]) \in DOMAIN new /\ new[at(new[i])] = new[i]
      BY <1>2, <1>8, <3>2, LenProperties
    <3> HIDE DEF new
    <3>4. at(new[i]) = i
      BY <1>2, <3>2, <3>3 DEF IsInjective
    <3>5. row'[new[i]] = t[i]
      BY <1>9, <3>2, <3>4
    <3> QED
      BY <3>1, <3>2, <3>5
  <2>2. ASSUME NEW r \in Set(new) PROVE row'[r] \in Set(t)
    BY <1>7, <1>8, <1>9, <2>2 DEF Set
  <2> HIDE DEF new, t
  <2> QED
    BY <2>1, <2>2
<1>15. ASSUME NEW r \in Set(new) PROVE rows[at(r)] \notin Stale
  <2>1. at(r) \in 1 .. n /\ at(r) \in DOMAIN rows /\ n > 0
    BY <1>1, <1>8, <1>11, <1>15
  <2>2. Batch(cur)
    BY DEF Queue
  <2>3. CASE cur.mode = "decode"
    <3>1. chunked = NoReq
      BY <2>3 DEF Places
    <3>2. n <= MaxRunning - Len(running)
      BY <1>2, <1>4, <2>1, <3>1
    <3> QED
      BY <1>1, <2>1, <2>3, <3>2, FrontNotStale
  <2>4. CASE cur.mode = "extend"
    <3>1. Set(cur.reqs) \cap finished = {} /\ Set(cur.reqs) \subseteq Holding \cup finished
      BY <2>4 DEF Places
    <3>2. Stale = {}
      BY <3>1 DEF Stale, Set, Holding
    <3> QED
      BY <3>2
  <2>5. CASE cur.mode = "none"
    <3>1. cur.reqs = <<>>
      BY <2>2, <2>5, BatchFacts DEF NoBatch
    <3>2. Stale = {}
      BY <3>1 DEF Stale
    <3> QED
      BY <3>2
  <2> QED
    BY <2>2, <2>3, <2>4, <2>5, BatchFacts
<1>16. /\ rows' \in Seq(1 .. MaxRunning) /\ IsInjective(rows') /\ Set(rows') = Set(rows) \ Set(t)
  <2> HIDE DEF t
  <2> QED
    BY <1>1, <1>3, WithoutFacts
<1>17. \A r \in Set(new) : \E i \in 1 .. n : i \in DOMAIN rows /\ row'[r] = rows[i] /\ rows[i] \notin Stale
  BY <1>8, <1>11, <1>15
<1> QED
  BY <1>10, <1>12, <1>13, <1>14, <1>16, <1>17

\* The pool pays for the pages the batch needs on top of those it holds.
LEMMA AdmitPool ==
  ASSUME Types, Queue, Places, Fresh, Pool, RowsExact, RowsLast, phase = "sched", NEW n \in 0 .. Len(waiting),
         NEW list, list = Candidates(n), Admissible(list),
         NEW goal, goal = Goal(list), PrepareForExtend(n, list, goal)
  PROVE  Pool' /\ pool' \in Nat /\ \A r \in Set(list) : row'[r] # 0
<1> DEFINE new == SubSeq(waiting, 1, n)
           T == Set(list)
           h == [r \in Req |-> CeilDiv(goal[r]) - CeilDiv(alloc[r])]
           g == PagesOf'
<1>0. /\ list \in Seq(Req) /\ IsInjective(list) /\ T = Set(new) \cup Joining
      /\ Joining \subseteq Holding /\ Set(new) \subseteq Set(waiting) /\ Set(new) \cap Joining = {}
  BY AdmitList
<1>1. T \subseteq Req /\ IsFiniteSet(T) /\ IsFiniteSet(Req)
  BY <1>0, SetType, ConstantTypes
<1>2. goal \in [Req -> Nat]
  BY <1>0, AdmitGoal
<1>3. /\ Total(h, T) <= pool /\ pool' = pool - Total(h, T)
      /\ alloc' = [r \in Req |-> IF r \in T THEN goal[r] ELSE alloc[r]]
  <2>1. Total(h, T) <= pool /\ pool' = pool - Total(h, T)
    BY AdmitNeed, Zenon
  <2>2. alloc' = [r \in Req |-> IF r \in T THEN goal[r] ELSE alloc[r]]
    BY AdmitLengths
  <2> QED
    BY <2>1, <2>2, Zenon
<1>4. /\ row' \in [Req -> 0 .. MaxRunning] /\ \A r \in Req \ Set(new) : row'[r] = row[r]
      /\ \A r \in Set(new) : row'[r] # 0
  <2>1. /\ row' \in [Req -> 0 .. MaxRunning] /\ \A r \in Req \ Set(new) : row'[r] = row[r]
        /\ \A r \in Set(new) : \E i \in 1 .. n : i \in DOMAIN rows /\ row'[r] = rows[i]
    BY AdmitRows
  <2>2. \A i \in DOMAIN rows : rows[i] # 0
    BY ConstantTypes DEF Types
  <2> QED
    BY <2>1, <2>2
<1>5. PagesOf \in [Req -> Nat] /\ pool \in Nat /\ alloc \in [Req -> Nat]
  BY PagesType DEF Types
<1>6. \A r \in T : row'[r] # 0
  <2>1. \A r \in Joining : r \in Req /\ r \notin Set(new) /\ row[r] # 0
    BY <1>0 DEF Holding
  <2> HIDE DEF new
  <2> QED
    BY <1>0, <1>4, <2>1
<1>7. \A r \in T : PagesOf[r] = CeilDiv(alloc[r])
  <2>1. ASSUME NEW r \in Set(new) PROVE PagesOf[r] = CeilDiv(alloc[r])
    <3>1. r \in Req /\ alloc[r] = 0 /\ row[r] = 0
      BY <1>0, <1>1, <2>1 DEF Fresh
    <3>2. CeilDiv(0) = 0
      BY CeilDivFacts
    <3> QED
      BY <3>1, <3>2 DEF PagesOf
  <2>2. ASSUME NEW r \in Joining PROVE PagesOf[r] = CeilDiv(alloc[r])
    BY <1>0, <2>2 DEF PagesOf, Holding
  <2> HIDE DEF new
  <2> QED
    BY <1>0, <2>1, <2>2
<1>8. g = [r \in Req |-> IF row'[r] = 0 THEN 0 ELSE CeilDiv(alloc'[r])]
  <2>1. \A z : CeilDiv(z)' = CeilDiv(z)
    BY DEF CeilDiv
  <2> QED
    BY <2>1 DEF PagesOf
<1>9. \A r \in T : g[r] = CeilDiv(goal[r]) /\ CeilDiv(goal[r]) \in Nat
  <2>1. \A r \in T : alloc'[r] = goal[r] /\ goal[r] \in Nat
    BY <1>1, <1>2, <1>3
  <2> HIDE DEF g, T
  <2> QED
    BY <1>1, <1>6, <1>8, <2>1, CeilDivFacts
<1>10. \A r \in Req \ T : g[r] = PagesOf[r]
  <2>1. \A r \in Req \ T : row'[r] = row[r] /\ alloc'[r] = alloc[r]
    BY <1>0, <1>3, <1>4
  <2> HIDE DEF g, T
  <2> QED
    BY <1>8, <2>1 DEF PagesOf
<1>11. g \in [Req -> Nat]
  <2>1. \A r \in Req : g[r] \in Nat
    <3> HIDE DEF g, T
    <3> QED
      BY <1>5, <1>9, <1>10
  <2> HIDE DEF T
  <2> QED
    BY <1>8, <2>1
<1>12. Total(h, T) = Total(g, T) - Total(PagesOf, T)
  <2>1. \A r \in T : h[r] = g[r] - PagesOf[r] /\ g[r] \in Int /\ PagesOf[r] \in Int
    <3>1. \A r \in T : h[r] = CeilDiv(goal[r]) - CeilDiv(alloc[r])
      BY <1>1
    <3> HIDE DEF h, g, T
    <3> QED
      BY <1>1, <1>5, <1>7, <1>9, <1>11, <3>1
  <2> HIDE DEF h, g, T
  <2> QED
    BY <1>1, <2>1, SumMinus
<1>13. Total(g, T) \in Int /\ Total(PagesOf, T) \in Int
  <2>1. \A r \in T : g[r] \in Int /\ PagesOf[r] \in Int
    <3> HIDE DEF g
    <3> QED
      BY <1>1, <1>5, <1>11
  <2> HIDE DEF g, T
  <2> QED
    BY <1>1, <2>1, SumInt
<1> HIDE DEF h
<1>14. pool' = pool + (Total(PagesOf, T) - Total(g, T)) /\ pool' \in Nat
  BY <1>3, <1>5, <1>12, <1>13
<1>15. g = PagesOf'
  OBVIOUS
<1> HIDE DEF g, T
<1>16. Pool'
  BY <1>1, <1>10, <1>11, <1>14, <1>15, PoolChange
<1> QED
  BY <1>6, <1>14, <1>16 DEF T

\* A request of the batch will have one more prefill result; nothing else changes.
LEMMA AdmitCounters ==
  ASSUME Queue, phase = "sched", results' = results, phase' \in {"early", "run"},
         cur'.mode = "extend", NEW r
  PROVE  /\ AllSteps(r)' = AllSteps(r) /\ AllTokens(r)' = AllTokens(r) /\ AllFills(r)' = AllFills(r)
         /\ First(r)' = First(r)
         /\ ToStep(r)' = 0 /\ ToFill(r)' = IF r \in Set(cur'.reqs) THEN 1 ELSE 0
         /\ ToStep(r) = 0 /\ ToFill(r) = 0
         /\ r \notin Set(cur.reqs) => AllSteps(r) = 0 /\ AllFills(r) = 0
<1>2. Pending(r)' = Pending(r)
  BY DEF Pending
<1>3. IsDecode(1, r)' = IsDecode(1, r) /\ IsDecode(2, r)' = IsDecode(2, r)
  BY <1>2 DEF IsDecode
<1>4. /\ Steps(1, r)' = Steps(1, r) /\ Steps(2, r)' = Steps(2, r)
      /\ Tokens(1, r)' = Tokens(1, r) /\ Tokens(2, r)' = Tokens(2, r)
  BY <1>3 DEF Steps, Tokens
<1>5. Fills(1, r)' = Fills(1, r) /\ Fills(2, r)' = Fills(2, r)
  BY <1>2 DEF Fills
<1>6. ToStep(r)' = 0 /\ ToFill(r)' = IF r \in Set(cur'.reqs) THEN 1 ELSE 0
  BY DEF ToFill, ToStep, Prepared
<1>7. ToStep(r) = 0 /\ ToFill(r) = 0 /\ Steps(2, r) = 0 /\ Fills(2, r) = 0
  BY CounterFacts DEF Between
<1>8. r \notin Set(cur.reqs) => Steps(1, r) = 0 /\ Fills(1, r) = 0
  <2>1. cur = last
    BY DEF Queue, Between
  <2> QED
    BY <2>1, PendingFacts DEF Steps, Fills, IsDecode
<1>9. r \notin Set(cur.reqs) => AllSteps(r) = 0 /\ AllFills(r) = 0
  BY <1>7, <1>8 DEF AllSteps, AllFills
<1>10. AllSteps(r)' = AllSteps(r) /\ AllTokens(r)' = AllTokens(r) /\ AllFills(r)' = AllFills(r)
  BY <1>4, <1>5 DEF AllSteps, AllTokens, AllFills
<1>11. First(r)' = First(r)
  BY <1>10 DEF First
<1> QED
  BY <1>6, <1>7, <1>9, <1>10, <1>11

LEMMA AdmitTally ==
  ASSUME Types, Queue, Places, Fresh, Tallies, phase = "sched", UNCHANGED <<out, seq, results>>,
         NEW n \in 0 .. Len(waiting),
         NEW list, list = Candidates(n), Admissible(list),
         NEW goal, goal = Goal(list), PrepareForExtend(n, list, goal),
         NEW r \in Set(list)
  PROVE  Tally(r)' /\ (chunked' # NoReq => chunked' \in Set(list)) /\ Joining' = Set(list)
<1> DEFINE cut == {q \in Set(list) : goal[q] < PromptLen[q] + out[q]}
           new == SubSeq(waiting, 1, n)
<1>0. /\ list \in Seq(Req) /\ IsInjective(list) /\ Set(list) = Set(new) \cup Joining
      /\ Joining \subseteq Holding /\ Joining = {chunked} \ {NoReq}
      /\ Set(new) \subseteq Set(waiting) /\ Set(new) \cap Joining = {}
  BY AdmitList
<1>1. /\ fill' = goal
      /\ committed' = [q \in Req |-> IF q \in Set(list) THEN goal[q] ELSE committed[q]]
      /\ alloc' = [q \in Req |-> IF q \in Set(list) THEN goal[q] ELSE alloc[q]]
  BY AdmitLengths
<1>2. /\ cut = {} => chunked' = NoReq
      /\ cut # {} => chunked' \in cut
      /\ chunks' = [q \in Req |-> IF q \in cut THEN chunks[q] + 1 ELSE chunks[q]]
  BY AdmitChunk
<1>3. /\ goal \in [Req -> Nat]
      /\ \A q \in Set(list) : /\ goal[q] <= PromptLen[q] + out[q]
                              /\ goal[q] < PromptLen[q] + out[q] => q = list[Len(list)]
  BY <1>0, AdmitGoal
<1>4. cur'.mode = "extend" /\ cur'.reqs = list /\ phase' \in {"early", "run"}
  <2>1. /\ cur' = [mode |-> "extend", reqs |-> list, rows |-> [i \in DOMAIN list |-> row'[list[i]]]]
        /\ phase' \in {"early", "run"}
    BY AdmitEffect, Zenon
  <2> QED
    BY <2>1
<1>5. r \in Req /\ r # NoReq /\ PromptLen[r] \in Nat /\ out[r] \in Nat /\ chunks[r] \in Nat /\ Draft \in Nat
  BY <1>0, SetType, ConstantTypes DEF Types
<1>6. /\ ToStep(r)' = 0 /\ ToFill(r)' = 1 /\ AllSteps(r)' = AllSteps(r) /\ AllFills(r)' = AllFills(r)
      /\ ToFill(r) = 0 /\ ToStep(r) = 0
      /\ r \notin Set(cur.reqs) => AllSteps(r) = 0 /\ AllFills(r) = 0
  <2>1. r \in Set(cur'.reqs)
    BY <1>4
  <2> QED
    BY <1>4, <2>1, AdmitCounters
<1>7. AllFills(r) \in Nat /\ AllSteps(r) \in Nat
  BY CounterFacts
<1>8. AllSteps(r) = 0 /\ chunks[r] = AllFills(r)
  <2>1. CASE r \in Set(new)
    <3>1. r \notin Set(cur.reqs) /\ r \in Set(waiting)
      BY <1>0, <2>1 DEF Places
    <3>2. chunks[r] = 0
      BY <1>5, <3>1 DEF Fresh
    <3> QED
      BY <1>6, <3>1, <3>2
  <2>2. CASE r \in Joining
    <3>1. r = chunked /\ Tally(r)
      BY <1>0, <2>2 DEF Tallies
    <3>2. AllSteps(r) = 0 /\ chunks[r] + 0 = AllFills(r) + ToFill(r)
      BY <2>2, <3>1 DEF Tally
    <3> QED
      BY <1>5, <1>6, <1>7, <3>2
  <2> QED
    BY <1>0, <2>1, <2>2
<1>9. /\ fill'[r] = goal[r] /\ committed'[r] = goal[r] /\ alloc'[r] = goal[r]
      /\ goal[r] \in Nat /\ goal[r] <= PromptLen[r] + out[r]
  BY <1>1, <1>3, <1>5
<1>10. /\ r \in cut => chunked' = r /\ chunks'[r] = chunks[r] + 1
       /\ r \notin cut => chunked' # r /\ chunks'[r] = chunks[r]
  <2>1. \A q \in cut : q = list[Len(list)]
    BY <1>3
  <2>2. chunks'[r] = IF r \in cut THEN chunks[r] + 1 ELSE chunks[r]
    BY <1>2, <1>5
  <2> HIDE DEF cut
  <2> QED
    BY <1>2, <1>5, <2>1, <2>2
<1>11. r \in cut <=> goal[r] < PromptLen[r] + out[r]
  OBVIOUS
<1>12. chunked' # NoReq => chunked' \in Set(list)
  <2>1. cut \subseteq Set(list)
    OBVIOUS
  <2> HIDE DEF cut
  <2> QED
    BY <1>2, <2>1
<1>13. Joining' = Set(list)
  BY <1>4 DEF Joining
<1> HIDE DEF cut
<1>14. r # chunked' => fill'[r] = PromptLen[r] + out[r]
  BY <1>5, <1>9, <1>10, <1>11
<1>15. chunks'[r] + (IF r # chunked' /\ AllFills(r)' + ToFill(r)' > 0 THEN 1 ELSE 0)
         = AllFills(r)' + ToFill(r)'
  BY <1>5, <1>6, <1>7, <1>8, <1>10
<1>16. alloc'[r] <= committed'[r] + 2 * Draft
  BY <1>5, <1>9
<1>17. /\ AllSteps(r)' = 0 /\ out'[r] = out[r]
       /\ committed'[r] = fill'[r] /\ alloc'[r] = fill'[r] /\ fill'[r] <= PromptLen[r] + out[r]
  BY <1>6, <1>8, <1>9
<1>18. ToFill(r)' = 1
  BY <1>6
<1>19. Tally(r)'
  BY <1>14, <1>15, <1>16, <1>17, <1>18 DEF Tally
<1> QED
  BY <1>12, <1>13, <1>19

LEMMA AdmitStep ==
  ASSUME OverlapInv, GetNewBatchPrefill
  PROVE  OverlapInv'
<1>0. Types /\ Queue /\ Places /\ Fresh /\ Tallies /\ Pool /\ RowsExact /\ RowsOwn /\ RowsLast
  BY DEF OverlapInv
<1>1. /\ phase = "sched"
      /\ UNCHANGED <<out, finished, to_finish, gone, seq, arrived, running, paused, last, results>>
  BY AdmitAction
<1>2. PICK n \in 0 .. Len(waiting) : \E list, goal :
         /\ list = Candidates(n) /\ goal = Goal(list)
         /\ Admissible(list) /\ PrepareForExtend(n, list, goal)
  BY AdmitAction, Zenon
<1>3. PICK list, goal : /\ list = Candidates(n) /\ goal = Goal(list)
                        /\ Admissible(list) /\ PrepareForExtend(n, list, goal)
  BY <1>2, Zenon
<1>4. list = Candidates(n) /\ goal = Goal(list) /\ Admissible(list) /\ PrepareForExtend(n, list, goal)
  BY <1>3, Zenon
<1> DEFINE new == SubSeq(waiting, 1, n)
<1>5. /\ list \in Seq(Req) /\ IsInjective(list) /\ Set(list) = Set(new) \cup Joining
      /\ Joining \subseteq Holding /\ Joining = {chunked} \ {NoReq}
      /\ Set(new) \subseteq Set(waiting) /\ Set(new) \cap Joining = {}
      /\ SubSeq(waiting, n + 1, Len(waiting)) \in Seq(Req)
      /\ IsInjective(SubSeq(waiting, n + 1, Len(waiting)))
      /\ Set(SubSeq(waiting, n + 1, Len(waiting))) = Set(waiting) \ Set(new)
  BY <1>0, <1>1, <1>4, AdmitList
<1>6. /\ fill' = goal
      /\ committed' = [r \in Req |-> IF r \in Set(list) THEN goal[r] ELSE committed[r]]
      /\ alloc' = [r \in Req |-> IF r \in Set(list) THEN goal[r] ELSE alloc[r]]
  BY <1>4, AdmitLengths
<1>7. /\ waiting' = SubSeq(waiting, n + 1, Len(waiting))
      /\ retracted' = retracted \ Set(list)
      /\ cur' = [mode |-> "extend", reqs |-> list, rows |-> [i \in DOMAIN list |-> row'[list[i]]]]
      /\ phase' \in {"early", "run"}
      /\ phase' = "early" => last.mode = "extend"
  <2>1. PrepareForExtend(n, list, goal)
    BY <1>4, Zenon
  <2> QED
    BY ONLY <2>1, AdmitEffect
<1>8. /\ row' \in [Req -> 0 .. MaxRunning]
      /\ \A r \in Req \ Set(new) : row'[r] = row[r]
      /\ \A r \in Set(new) :
           \E i \in 1 .. n : i \in DOMAIN rows /\ row'[r] = rows[i] /\ rows[i] \notin Stale
      /\ \A r, q \in Set(new) : row'[r] = row'[q] => r = q
      /\ Set(rows') = Set(rows) \ {row'[r] : r \in Set(new)}
      /\ rows' \in Seq(1 .. MaxRunning) /\ IsInjective(rows')
  BY <1>0, <1>1, <1>4, AdmitRows
<1>9. Pool' /\ pool' \in Nat /\ \A r \in Set(list) : row'[r] # 0
  BY <1>0, <1>1, <1>4, AdmitPool
<1>10. /\ \A r \in Set(list) : Tally(r)'
       /\ chunked' # NoReq => chunked' \in Set(list)
       /\ Joining' = Set(list)
  <2>1. \A r \in Set(list) : Tally(r)' /\ (chunked' # NoReq => chunked' \in Set(list)) /\ Joining' = Set(list)
    BY <1>0, <1>1, <1>4, AdmitTally
  <2>2. \E r : r \in Set(list)
    <3>1. Len(list) \in DOMAIN list
      <4>1. Admissible(list)
        BY <1>4
      <4> QED
        BY <1>0, <1>5, <4>1, AdmitGoal
    <3> QED
      BY <3>1 DEF Set
  <2> QED
    BY <2>1, <2>2
<1>11. goal \in [Req -> Nat] /\ \A r \in Req \ Set(list) : goal[r] = fill[r]
  <2>1. Admissible(list) /\ goal = Goal(list)
    BY <1>4
  <2> QED
    BY <1>0, <1>5, <2>1, AdmitGoal
<1>12. chunks' \in [Req -> Nat] /\ \A r \in Req \ Set(list) : chunks'[r] = chunks[r]
  <2> DEFINE cut == {r \in Set(list) : goal[r] < PromptLen[r] + out[r]}
  <2>0. PrepareForExtend(n, list, goal)
    BY <1>4, Zenon
  <2>1. chunks' = [r \in Req |-> IF r \in cut THEN chunks[r] + 1 ELSE chunks[r]]
    BY ONLY <2>0, AdmitChunk
  <2>2. cut \subseteq Set(list)
    OBVIOUS
  <2>3. chunks \in [Req -> Nat]
    BY <1>0 DEF Types
  <2> HIDE DEF cut
  <2> QED
    BY <2>1, <2>2, <2>3
<1> HIDE DEF new
<1>13. /\ Set(list) \subseteq Req /\ Set(new) \subseteq Req /\ Holding \subseteq Req
       /\ Set(new) \cap Holding = {} /\ Set(list) \cap finished = {}
  <2>1. Set(list) \subseteq Req
    BY <1>5, SetType
  <2>2. Set(new) \cap Holding = {}
    BY <1>0, <1>5 DEF Places
  <2>3. Set(list) \cap finished = {}
    BY <1>0, <1>1, <1>5 DEF Places
  <2> QED
    BY <1>5, <2>1, <2>2, <2>3 DEF Holding
<1>14. Holding' = Holding \cup Set(new) /\ Set(list) \subseteq Holding'
  <2>1. \A r \in Req \ Set(new) : row'[r] = row[r]
    BY <1>8
  <2>2. \A r \in Set(new) : row'[r] # 0
    BY <1>5, <1>9
  <2> QED
    BY <1>5, <1>13, <2>1, <2>2 DEF Holding
<1>15. Types'
  <2>1. committed' \in [Req -> Nat] /\ alloc' \in [Req -> Nat]
    BY <1>0, <1>6, <1>11 DEF Types
  <2>2. chunked' \in Req \cup {NoReq}
    BY <1>10, <1>13
  <2>3. retracted' \subseteq arrived' /\ phase' \in {"early", "run"}
    BY <1>0, <1>1, <1>7 DEF Types
  <2>4. waiting' \in Seq(Req) /\ IsInjective(waiting')
    BY <1>5, <1>7
  <2>5. fill' \in [Req -> Nat]
    BY <1>6, <1>11
  <2> QED
    BY <1>0, <1>1, <1>8, <1>9, <1>12, <2>1, <2>2, <2>3, <2>4, <2>5 DEF Types
<1>16. DOMAIN list = 1 .. Len(list) /\ Len(list) \in Nat /\ \A i \in DOMAIN list : list[i] \in Set(list)
  BY <1>5, SetType DEF Set
<1>17. Queue'
  <2> DEFINE u == [i \in DOMAIN list |-> row'[list[i]]]
  <2>1. u \in Seq(1 .. MaxRunning) /\ Len(u) = Len(list)
    <3>1. \A i \in DOMAIN list : row'[list[i]] \in 1 .. MaxRunning
      <4>1. \A r \in Set(list) : row'[r] \in 0 .. MaxRunning /\ row'[r] # 0
        BY <1>8, <1>9, <1>13
      <4> QED
        BY <1>16, <4>1, ConstantTypes
    <3>2. u \in [1 .. Len(list) -> 1 .. MaxRunning]
      BY <1>16, <3>1
    <3> HIDE DEF u
    <3> QED
      BY <1>16, <3>2, SeqOfMap
  <2>2. cur'.mode = "extend" /\ cur'.reqs = list /\ cur'.rows = u
    BY <1>7
  <2> HIDE DEF u
  <2>3. Batch(cur')
    BY <1>5, <2>1, <2>2 DEF Batch
  <2>4. cur' # NoBatch
    BY <2>2 DEF NoBatch
  <2>5. last' = last /\ results' = results /\ Batch(last)
    BY <1>0, <1>1 DEF Queue
  <2>6. OnlyLast' <=> OnlyLast
    BY <2>5 DEF OnlyLast, ResultOf
  <2>7. (last = NoBatch /\ results = <<>>) \/ (last # NoBatch /\ OnlyLast)
    BY <1>0, <1>1 DEF Queue, OneResult
  <2>8. phase' = "early" => last # NoBatch
    BY <1>7 DEF NoBatch
  <2>9. phase' \in {"early", "run"}
    BY <1>7
  <2>10. Batch(last') /\ Batch(cur)'
    BY <2>3, <2>5 DEF Batch
  <2> QED
    BY <2>3, <2>4, <2>5, <2>6, <2>7, <2>8, <2>9, <2>10 DEF Queue, Between, OneResult
<1>18. cur'.mode = "extend" /\ cur'.reqs = list /\ \A i \in DOMAIN list : cur'.rows[i] = row'[list[i]]
  BY <1>7
<1>19. Places'
  <2>0. /\ running' = running /\ arrived' = arrived /\ finished' = finished /\ last' = last
        /\ Set(waiting') = Set(waiting) \ Set(new) /\ phase' \in {"early", "run"}
        /\ retracted' = retracted \ Set(list)
    BY <1>1, <1>5, <1>7
  <2>1. /\ Set(waiting') \cup Set(running') \cup Joining' \subseteq arrived'
        /\ Set(cur'.reqs) \cup Set(last'.reqs) \subseteq arrived'
    BY <1>0, <1>5, <1>10, <1>18, <2>0 DEF Places
  <2>2. Set(waiting') \cap (Set(running') \cup Joining' \cup Set(cur'.reqs) \cup finished') = {}
    BY <1>0, <1>5, <1>10, <1>18, <2>0 DEF Places
  <2>3. Set(running') \cap Joining' = {}
    BY <1>0, <1>5, <1>10, <2>0 DEF Places
  <2>4. Holding' = (Set(running') \cup Joining') \ finished'
    <3>1. Holding = (Set(running) \cup Joining) \ finished
      BY <1>0 DEF Places
    <3> QED
      BY <1>5, <1>10, <1>13, <1>14, <2>0, <3>1
  <2>5. Joining' \cap finished' = {} /\ (chunked' # NoReq => chunked' \in Joining' \ finished')
    BY <1>10, <1>13, <2>0
  <2>6. Holding' \cap retracted' = {}
    <3>1. Holding \cap retracted = {}
      BY <1>0 DEF Places
    <3> QED
      BY <1>5, <1>14, <2>0, <3>1
  <2>7. /\ Set(cur'.reqs) \subseteq Holding' \cup finished'
        /\ Set(last'.reqs) \subseteq Holding' \cup finished' \cup retracted'
    <3>1. Set(last.reqs) \subseteq Holding \cup finished \cup retracted
      BY <1>0 DEF Places
    <3> QED
      BY <1>14, <1>18, <2>0, <3>1
  <2>8. cur'.mode # "decode" /\ phase' # "sched"
    BY <1>18, <2>0
  <2> QED
    BY <2>1, <2>2, <2>3, <2>4, <2>5, <2>6, <2>7, <2>8 DEF Places
<1>20. Fresh'
  <2> SUFFICES ASSUME NEW r \in Req, r \in Set(waiting') \/ r \notin arrived'
               PROVE  alloc'[r] = 0 /\ fill'[r] = 0 /\ chunks'[r] = 0 /\ row'[r] = 0
    BY DEF Fresh
  <2>1. r \notin Set(list) /\ r \notin Set(new) /\ (r \in Set(waiting) \/ r \notin arrived)
    BY <1>0, <1>1, <1>5, <1>7 DEF Places
  <2>2. alloc'[r] = alloc[r] /\ fill'[r] = fill[r] /\ chunks'[r] = chunks[r] /\ row'[r] = row[r]
    BY <1>6, <1>8, <1>11, <1>12, <2>1
  <2> QED
    BY <1>0, <2>1, <2>2 DEF Fresh
<1>21. Tallies'
  <2> SUFFICES ASSUME NEW r \in Holding' PROVE Tally(r)'
    BY DEF Tallies
  <2>1. CASE r \in Set(list)
    BY <1>10, <2>1
  <2>2. CASE r \notin Set(list)
    <3>1. r \in Holding /\ Tally(r) /\ r \in Req
      BY <1>0, <1>5, <1>13, <1>14, <2>2 DEF Tallies
    <3>2. r # chunked /\ r # chunked' /\ r \notin Joining' /\ r \notin Joining
      BY <1>5, <1>10, <2>2, <3>1, ConstantTypes
    <3>3. /\ AllSteps(r)' = AllSteps(r) /\ AllTokens(r)' = AllTokens(r) /\ AllFills(r)' = AllFills(r)
          /\ First(r)' = First(r) /\ ToStep(r)' = 0 /\ ToFill(r)' = 0 /\ ToStep(r) = 0 /\ ToFill(r) = 0
      BY <1>0, <1>1, <1>7, <1>18, <2>2, AdmitCounters
    <3>4. /\ out'[r] = out[r] /\ seq'[r] = seq[r] /\ fill'[r] = fill[r] /\ chunks'[r] = chunks[r]
          /\ committed'[r] = committed[r] /\ alloc'[r] = alloc[r]
      BY <1>1, <1>6, <1>11, <1>12, <2>2, <3>1
    <3> QED
      BY <3>1, <3>2, <3>3, <3>4 DEF Tally
  <2> QED
    BY <2>1, <2>2
<1>22. \A r \in Set(new) : row'[r] \in Set(rows) /\ row'[r] \notin Stale
  <2>1. \A i \in DOMAIN rows : rows[i] \in Set(rows)
    BY DEF Set
  <2> QED
    BY <1>8, <2>1
<1>23. RowsExact'
  <2> DEFINE old == {row[r] : r \in Holding}
             got == {row'[r] : r \in Set(new)}
  <2>1. Set(rows) = (1 .. MaxRunning) \ old /\ \A r, q \in Holding : row[r] = row[q] => r = q
    BY <1>0 DEF RowsExact
  <2>2. \A r \in Holding : row'[r] = row[r] /\ row'[r] \in old
    BY <1>8, <1>13
  <2>3. \A r \in Set(new) : row'[r] \notin old
    BY <1>22, <2>1
  <2>4. {row'[r] : r \in Holding'} = old \cup got
    BY <1>14, <2>2
  <2> HIDE DEF old
  <2>5. \A r, q \in Holding' : row'[r] = row'[q] => r = q
    BY <1>8, <1>14, <2>1, <2>2, <2>3
  <2>6. Set(rows') = Set(rows) \ got
    BY <1>8
  <2> HIDE DEF got
  <2>7. Set(rows') = (1 .. MaxRunning) \ {row'[r] : r \in Holding'}
    BY <2>1, <2>4, <2>6
  <2> QED
    BY <2>5, <2>7 DEF RowsExact
<1>24. RowsOwn'
  <2>1. ASSUME NEW j \in DOMAIN list
        PROVE  /\ row'[list[j]] \in {0, cur'.rows[j]}
               /\ \A r \in Req : row'[r] = cur'.rows[j] => r = list[j]
    <3>1. cur'.rows[j] = row'[list[j]] /\ list[j] \in Set(list)
      BY <1>16, <1>18
    <3>2. row'[list[j]] # 0 /\ list[j] \in Holding'
      BY <1>9, <1>14, <3>1
    <3>3. \A r \in Req : row'[r] # 0 => r \in Holding'
      BY DEF Holding
    <3> QED
      BY <1>23, <3>1, <3>2, <3>3 DEF RowsExact
  <2>2. ASSUME NEW j \in DOMAIN last.reqs
        PROVE  /\ row'[last.reqs[j]] \in {0, last.rows[j]}
               /\ \A r \in Req : row'[r] = last.rows[j] => r = last.reqs[j]
    <3>1. cur = last
      BY <1>0, <1>1 DEF Queue, Between
    <3>2. last.reqs[j] \in Set(cur.reqs)
      BY <3>1 DEF Set
    <3>3. last.reqs[j] \in Req /\ last.reqs[j] \notin Set(new)
      BY <1>0, <1>5, <3>2 DEF Places, Types
    <3>4. /\ row[last.reqs[j]] \in {0, last.rows[j]}
          /\ \A r \in Req : row[r] = last.rows[j] => r = last.reqs[j]
      BY <1>0 DEF RowsOwn
    <3>5. row'[last.reqs[j]] = row[last.reqs[j]]
      BY <1>8, <3>3
    <3>6. ASSUME NEW r \in Set(new), row'[r] = last.rows[j] PROVE FALSE
      <4>1. last.rows[j] \in Set(rows) /\ last.rows[j] \notin Stale
        BY <1>22, <3>6
      <4>2. row[last.reqs[j]] # 0
        BY <3>1, <4>1 DEF Stale
      <4>3. row[last.reqs[j]] = last.rows[j] /\ last.reqs[j] \in Holding
        BY <3>3, <3>4, <4>2 DEF Holding
      <4> QED
        BY <1>0, <4>1, <4>3 DEF RowsExact
    <3> QED
      BY <1>8, <3>4, <3>5, <3>6
  <2>3. last' = last /\ cur'.reqs = list
    BY <1>1, <1>18
  <2> QED
    BY <2>1, <2>2, <2>3 DEF RowsOwn
<1>25. RowsLast'
  <2>1. Stale' = {}
    BY <1>9, <1>16, <1>18 DEF Stale
  <2>2. Set(cur'.reqs) \subseteq Holding'
    BY <1>14, <1>18
  <2> QED
    BY <2>1, <2>2 DEF RowsLast
<1> QED
  BY <1>9, <1>15, <1>17, <1>19, <1>20, <1>21, <1>23, <1>24, <1>25 DEF OverlapInv

-----------------------------------------------------------------------------
(* The running batch takes a step.                                         *)

LEMMA DecodeAction ==
  ASSUME UpdateRunningBatch
  PROVE  /\ phase = "sched" /\ chunked = NoReq
         /\ UNCHANGED <<out, finished, seq, arrived, chunked, paused, last, results>>
         /\ \E batch, k :
              /\ batch = Without(running, finished)
              /\ k = IF DecodePages(Set(batch)) <= pool THEN Len(batch) ELSE Kept(batch, pool)
              /\ PrepareForDecode(batch, k)
<1>1. phase = "sched" /\ chunked = NoReq
  BY DEF UpdateRunningBatch, NoPrefill
<1>2. UNCHANGED <<out, finished, seq, arrived, chunked, paused, last, results>>
  BY Zenon DEF UpdateRunningBatch
<1>3. PICK batch \in {Without(running, finished)} :
         \E k \in {IF DecodePages(Set(batch)) <= pool THEN Len(batch) ELSE Kept(batch, pool)} :
            PrepareForDecode(batch, k)
  BY Zenon DEF UpdateRunningBatch
<1>4. PICK k \in {IF DecodePages(Set(batch)) <= pool THEN Len(batch) ELSE Kept(batch, pool)} :
            PrepareForDecode(batch, k)
  BY <1>3
<1>5. /\ batch = Without(running, finished)
      /\ k = IF DecodePages(Set(batch)) <= pool THEN Len(batch) ELSE Kept(batch, pool)
  OBVIOUS
<1> QED
  BY <1>1, <1>2, <1>4, <1>5, Zenon

\* The batch is what holds memory.
LEMMA DecodeBatch ==
  ASSUME Types, Places, phase = "sched", chunked = NoReq,
         NEW batch, batch = Without(running, finished)
  PROVE  /\ batch \in Seq(Req) /\ IsInjective(batch) /\ Set(batch) = Holding /\ Joining = {}
<1>1. running \in Seq(Req) /\ IsInjective(running)
  BY DEF Types
<1>2. batch \in Seq(Req) /\ IsInjective(batch) /\ Set(batch) = Set(running) \ finished
  BY <1>1, WithoutFacts
<1>3. Joining = {}
  BY DEF Joining
<1> QED
  BY <1>2, <1>3 DEF Places

Growth == [r \in Req |-> CeilDiv(NextAlloc(r)) - CeilDiv(alloc[r])]

\* What a step is estimated to need is what it takes: nothing is allocated further
\* than two steps ahead.
LEMMA DecodeNeed ==
  ASSUME Types, Tallies, NEW S \in SUBSET Holding
  PROVE  /\ DecodePages(S) = Total(Growth, S)
         /\ \A r \in S : NextAlloc(r) \in Nat /\ alloc[r] <= NextAlloc(r)
<1>1. ASSUME NEW r \in S
      PROVE  NextAlloc(r) \in Nat /\ alloc[r] <= NextAlloc(r) /\ Max({alloc[r], NextAlloc(r)}) = NextAlloc(r)
  <2>1. r \in Req /\ r \in Holding
    BY DEF Holding
  <2>2. alloc[r] <= committed[r] + 2 * Draft
    BY <2>1 DEF Tallies, Tally
  <2>3. alloc[r] \in Nat /\ committed[r] \in Nat /\ Draft \in Nat
    BY <2>1, ConstantTypes DEF Types
  <2> DEFINE a == alloc[r]
             b == NextAlloc(r)
  <2>4. a \in Nat /\ b \in Nat /\ a <= b
    BY <2>2, <2>3 DEF NextAlloc
  <2> HIDE DEF a, b
  <2>5. Max({a, b}) = b
    BY <2>4, MinMaxPair
  <2> QED
    BY <2>4, <2>5 DEF a, b
<1> DEFINE f == [r \in Req |-> CeilDiv(Max({alloc[r], NextAlloc(r)})) - CeilDiv(alloc[r])]
<1>2. S \subseteq Req /\ IsFiniteSet(S)
  BY ConstantTypes, FS_Subset DEF Holding
<1>3. \A r \in S : f[r] = Growth[r]
  BY <1>1, <1>2 DEF Growth
<1>4. DecodePages(S) = Total(f, S)
  BY Zenon DEF DecodePages
<1> HIDE DEF f
<1>5. Total(f, S) = Total(Growth, S)
  BY <1>2, <1>3, SumAgree
<1> QED
  BY <1>1, <1>4, <1>5

\* retract_decode keeps a part of the batch that fits what the rest gives back.
LEMMA KeptFits ==
  ASSUME Types, Queue, Tallies, phase = "sched",
         NEW batch \in Seq(Req), Set(batch) = Holding,
         NEW k, k = IF DecodePages(Set(batch)) <= pool THEN Len(batch) ELSE Kept(batch, pool)
  PROVE  /\ k \in 0 .. Len(batch)
         /\ DecodePages(Set(SubSeq(batch, 1, k)))
              <= pool + Total(Released, Set(SubSeq(batch, k + 1, Len(batch))))
<1> DEFINE given(j) == Total(Released, Set(SubSeq(batch, j + 1, Len(batch))))
           fits(j) == DecodePages(Set(SubSeq(batch, 1, j))) <= pool + given(j)
           most == IF Len(batch) = 1 THEN 1
                   ELSE Max({j \in 1 .. Len(batch) - 1 : fits(j)} \cup {1})
<1>0. pool \in Nat /\ Len(batch) \in Nat /\ DOMAIN batch = 1 .. Len(batch)
  BY SetType DEF Types
<1>1. Kept(batch, pool) = IF most = 1 /\ ~fits(1) THEN 0 ELSE most
  BY Zenon DEF Kept
<1>2. DecodePages({}) = 0
  BY SumEmpty DEF DecodePages
<1>3. given(0) \in Nat
  <2>1. SubSeq(batch, 0 + 1, Len(batch)) = batch
    BY <1>0
  <2>2. Total(Released, Holding) = Total(PagesOf, Holding)
    BY ReleasedExact DEF Between
  <2>3. PagesOf \in [Req -> Nat] /\ IsFiniteSet(Holding) /\ Holding \subseteq Req
    BY PagesType, ConstantTypes, FS_Subset DEF Holding
  <2>4. \A r \in Holding : PagesOf[r] \in Nat
    BY <2>3
  <2>5. Total(PagesOf, Holding) \in Nat
    BY <2>3, <2>4, SumNat
  <2>6. given(0) = Total(Released, Holding)
    BY <2>1, Zenon
  <2> QED
    BY <2>2, <2>5, <2>6
<1>4. fits(0)
  <2>1. SubSeq(batch, 1, 0) = <<>>
    BY <1>0
  <2>2. Set(<<>>) = {}
    BY DEF Set
  <2>3. DecodePages(Set(SubSeq(batch, 1, 0))) = 0
    BY <1>2, <2>1, <2>2
  <2> HIDE DEF given
  <2> QED
    BY <1>0, <1>3, <2>3
<1>5. CASE DecodePages(Set(batch)) <= pool
  <2>1. k = Len(batch) /\ SubSeq(batch, 1, k) = batch /\ SubSeq(batch, k + 1, Len(batch)) = <<>>
    BY <1>0, <1>5
  <2>2. Set(<<>>) = {}
    BY DEF Set
  <2>3. Total(Released, Set(SubSeq(batch, k + 1, Len(batch)))) = 0
    BY <2>1, <2>2, SumEmpty
  <2>4. DecodePages(Set(SubSeq(batch, 1, k))) <= pool
    BY <1>5, <2>1
  <2> QED
    BY <1>0, <2>1, <2>3, <2>4
<1>6. CASE ~ (DecodePages(Set(batch)) <= pool)
  <2>1. Len(batch) >= 1
    <3>1. CASE Len(batch) = 0
      <4>1. Set(batch) = {}
        BY <1>0, <3>1 DEF Set
      <4> QED
        BY <1>0, <1>2, <1>6, <4>1
    <3> QED
      BY <1>0, <3>1
  <2>2. k = IF most = 1 /\ ~fits(1) THEN 0 ELSE most
    BY <1>1, <1>6
  <2> DEFINE R == {j \in 1 .. Len(batch) - 1 : fits(j)} \cup {1}
  <2>3. R # {} /\ R \subseteq 0 .. Len(batch) /\ \A j \in R : j = 1 \/ fits(j)
    <3> HIDE DEF fits
    <3> QED
      BY <1>0, <2>1
  <2>4. most \in 0 .. Len(batch) /\ (most = 1 \/ fits(most))
    <3>1. CASE Len(batch) = 1
      <4>1. most = 1
        BY <3>1
      <4> HIDE DEF most, fits
      <4> QED
        BY <1>0, <2>1, <4>1
    <3>2. CASE Len(batch) # 1
      <4>1. most = Max(R)
        BY <3>2
      <4> HIDE DEF R, most
      <4>2. Max(R) \in R
        BY <1>0, <2>3, MaxExists
      <4> HIDE DEF fits
      <4> QED
        BY <2>3, <4>1, <4>2
    <3> QED
      BY <3>1, <3>2
  <2> HIDE DEF most
  <2>5. k \in 0 .. Len(batch) /\ fits(k)
    <3>1. CASE most = 1 /\ ~fits(1)
      <4>1. k = 0
        BY <2>2, <3>1
      <4>2. k \in 0 .. Len(batch)
        BY <1>0, <4>1
      <4> HIDE DEF fits
      <4>3. fits(k)
        BY <1>4, <4>1, Zenon
      <4> QED
        BY <4>2, <4>3
    <3>2. CASE ~ (most = 1 /\ ~fits(1))
      <4>1. k = most
        BY <2>2, <3>2
      <4> HIDE DEF fits
      <4> QED
        BY <2>4, <3>2, <4>1
    <3> QED
      BY <3>1, <3>2
  <2> QED
    BY <2>5
<1> QED
  BY <1>5, <1>6

\* prepare_for_decode: the lengths.
LEMMA DecodeLengths ==
  ASSUME NEW batch, NEW k, PrepareForDecode(batch, k)
  PROVE  LET keep == SubSeq(batch, 1, k)
             drop == SubSeq(batch, k + 1, Len(batch))
         IN  /\ committed' = [r \in Req |-> IF r \in Set(keep) THEN committed[r] + 1
                                            ELSE IF r \in Set(drop) THEN 0 ELSE committed[r]]
             /\ alloc' = [r \in Req |-> IF r \in Set(keep) THEN NextAlloc(r)
                                        ELSE IF r \in Set(drop) THEN 0 ELSE alloc[r]]
BY Zenon DEF PrepareForDecode

\* prepare_for_decode: what a retracted request loses.
LEMMA DecodeResets ==
  ASSUME NEW batch, NEW k, PrepareForDecode(batch, k)
  PROVE  LET drop == SubSeq(batch, k + 1, Len(batch))
         IN  /\ fill' = [r \in Req |-> IF r \in Set(drop) THEN 0 ELSE fill[r]]
             /\ chunks' = [r \in Req |-> IF r \in Set(drop) THEN 0 ELSE chunks[r]]
             /\ row' = [r \in Req |-> IF r \in Set(drop) THEN 0 ELSE row[r]]
             /\ retracted' = retracted \cup Set(drop)
             /\ rows' = rows \o RowsOf(Reverse(drop))
BY Zenon DEF PrepareForDecode

\* prepare_for_decode: the pool.
LEMMA DecodePool ==
  ASSUME NEW batch, NEW k, PrepareForDecode(batch, k)
  PROVE  pool' = pool + Total(Released, Set(SubSeq(batch, k + 1, Len(batch))))
                      - Total(Growth, Set(SubSeq(batch, 1, k)))
BY Zenon DEF PrepareForDecode, Growth

\* prepare_for_decode: the batch and the queue.
LEMMA DecodeEffect ==
  ASSUME NEW batch, NEW k, PrepareForDecode(batch, k)
  PROVE  LET keep == SubSeq(batch, 1, k)
             drop == SubSeq(batch, k + 1, Len(batch))
         IN  /\ running' = keep
             /\ \E lost : /\ batch = <<>> \/ lost \subseteq {batch[1]}
                          /\ batch = <<>> => lost = {}
                          /\ to_finish' = to_finish \cup lost /\ gone' = gone \cup lost
                          /\ waiting' = waiting \o Without(Reverse(drop), lost)
             /\ keep = <<>> => cur' = NoBatch
             /\ keep # <<>> => cur' = [mode |-> "decode", reqs |-> keep, rows |-> RowsOf(keep)]
             /\ phase' \in {"early", "run"}
             /\ phase' = "early" => results # <<>> /\ keep # <<>>
<1> DEFINE keep == SubSeq(batch, 1, k)
           drop == SubSeq(batch, k + 1, Len(batch))
           lost == IF k = 0 /\ batch # <<>> THEN {batch[1]} ELSE {}
           next == IF keep = <<>> THEN NoBatch
                   ELSE [mode |-> "decode", reqs |-> keep, rows |-> RowsOf(keep)]
<1>1. /\ running' = keep
      /\ to_finish' = to_finish \cup lost /\ gone' = gone \cup lost
      /\ waiting' = waiting \o Requeued(Reverse(drop), lost)
      /\ Chosen(next)
  BY Zenon DEF PrepareForDecode
<1>2. /\ cur' = next
      /\ phase' = IF DisableOverlap(next) THEN "early" ELSE "run"
  BY <1>1, Zenon DEF Chosen
<1>3. waiting' = waiting \o Without(Reverse(drop), lost)
  BY <1>1, Zenon DEF Requeued
<1>4. (batch = <<>> \/ lost \subseteq {batch[1]}) /\ (batch = <<>> => lost = {})
  OBVIOUS
<1>5. /\ keep = <<>> => next = NoBatch
      /\ keep # <<>> => next = [mode |-> "decode", reqs |-> keep, rows |-> RowsOf(keep)]
  BY Zenon
<1>6. DisableOverlap(next) => results # <<>> /\ keep # <<>>
  <2>1. keep = <<>> => next.mode = "none"
    BY <1>5 DEF NoBatch
  <2>2. keep # <<>> => next.mode = "decode"
    BY <1>5
  <2> HIDE DEF next, keep
  <2> QED
    BY <2>1, <2>2 DEF DisableOverlap
<1>7. \E l : /\ batch = <<>> \/ l \subseteq {batch[1]}
             /\ batch = <<>> => l = {}
             /\ to_finish' = to_finish \cup l /\ gone' = gone \cup l
             /\ waiting' = waiting \o Without(Reverse(drop), l)
  <2> HIDE DEF lost, drop
  <2> QED
    BY <1>1, <1>3, <1>4
<1>8. phase' \in {"early", "run"} /\ (phase' = "early" => results # <<>> /\ keep # <<>>)
  <2> HIDE DEF next, keep
  <2> QED
    BY <1>2, <1>6
<1>9. /\ keep = <<>> => cur' = NoBatch
      /\ keep # <<>> => cur' = [mode |-> "decode", reqs |-> keep, rows |-> RowsOf(keep)]
  <2> HIDE DEF next, keep
  <2> QED
    BY <1>2, <1>5
<1> QED
  BY <1>1, <1>7, <1>8, <1>9, Zenon

LEMMA ReverseFacts ==
  ASSUME NEW A, NEW s \in Seq(A), IsInjective(s)
  PROVE  Reverse(s) \in Seq(A) /\ IsInjective(Reverse(s)) /\ Set(Reverse(s)) = Set(s)
<1> DEFINE t == Reverse(s)
<1>1. Len(s) \in Nat /\ DOMAIN s = 1 .. Len(s)
  BY SetType
<1>2. t = [i \in 1 .. Len(s) |-> s[(Len(s) - i) + 1]]
  BY DEF Reverse
<1>3. \A i \in 1 .. Len(s) : (Len(s) - i) + 1 \in 1 .. Len(s) /\ (Len(s) - ((Len(s) - i) + 1)) + 1 = i
  BY <1>1
<1> HIDE DEF t
<1>4. DOMAIN t = 1 .. Len(s) /\ \A i \in 1 .. Len(s) : t[i] = s[(Len(s) - i) + 1]
  BY <1>2
<1>5. \A i \in 1 .. Len(s) : s[i] \in A
  BY <1>1, ElementOfSeq
<1>6. t \in [1 .. Len(s) -> A]
  BY <1>2, <1>3, <1>5
<1>7. t \in Seq(A)
  BY <1>1, <1>6, SeqOfMap
<1>8. IsInjective(t)
  <2> SUFFICES ASSUME NEW i \in DOMAIN t, NEW j \in DOMAIN t, t[i] = t[j] PROVE i = j
    BY DEF IsInjective
  <2>1. s[(Len(s) - i) + 1] = s[(Len(s) - j) + 1]
    BY <1>4
  <2>2. (Len(s) - i) + 1 = (Len(s) - j) + 1
    BY <1>1, <1>3, <1>4, <2>1 DEF IsInjective
  <2> QED
    BY <1>1, <1>4, <2>2
<1>9. Set(t) \subseteq Set(s)
  BY <1>1, <1>3, <1>4 DEF Set
<1>10. Set(s) \subseteq Set(t)
  <2> SUFFICES ASSUME NEW i \in 1 .. Len(s) PROVE s[i] \in Set(t)
    BY <1>1 DEF Set
  <2>1. (Len(s) - i) + 1 \in DOMAIN t /\ t[(Len(s) - i) + 1] = s[i]
    BY <1>3, <1>4
  <2> QED
    BY <2>1 DEF Set
<1> QED
  BY <1>7, <1>8, <1>9, <1>10 DEF t

\* The counters once the step is prepared.
LEMMA DecodeCounters ==
  ASSUME Queue, phase = "sched", results' = results, phase' \in {"early", "run"},
         cur'.mode \in {"none", "decode"}, NEW r
  PROVE  /\ AllSteps(r)' = AllSteps(r) /\ AllTokens(r)' = AllTokens(r) /\ AllFills(r)' = AllFills(r)
         /\ First(r)' = First(r) /\ ToFill(r)' = 0
         /\ cur'.mode = "decode" /\ r \in Set(cur'.reqs) => ToStep(r)' = 1
         /\ ToStep(r) = 0 /\ ToFill(r) = 0
         /\ AllSteps(r) \in Nat /\ AllTokens(r) \in Nat /\ AllTokens(r) <= Draft
<1>1. Pending(r)' = Pending(r)
  BY DEF Pending
<1>2. IsDecode(1, r)' = IsDecode(1, r) /\ IsDecode(2, r)' = IsDecode(2, r)
  BY <1>1 DEF IsDecode
<1>3. /\ Steps(1, r)' = Steps(1, r) /\ Steps(2, r)' = Steps(2, r)
      /\ Tokens(1, r)' = Tokens(1, r) /\ Tokens(2, r)' = Tokens(2, r)
  BY <1>2 DEF Steps, Tokens
<1>4. Fills(1, r)' = Fills(1, r) /\ Fills(2, r)' = Fills(2, r)
  BY <1>1 DEF Fills
<1>5. ToFill(r)' = 0 /\ (cur'.mode = "decode" /\ r \in Set(cur'.reqs) => ToStep(r)' = 1)
  BY DEF ToFill, ToStep, Prepared
<1>6. AllSteps(r)' = AllSteps(r) /\ AllTokens(r)' = AllTokens(r) /\ AllFills(r)' = AllFills(r)
  BY <1>3, <1>4 DEF AllSteps, AllTokens, AllFills
<1>7. First(r)' = First(r)
  BY <1>6 DEF First
<1>8. ToStep(r) = 0 /\ ToFill(r) = 0 /\ AllSteps(r) \in Nat /\ AllTokens(r) \in Nat /\ AllTokens(r) <= Draft
  <2>1. /\ ToStep(r) = 0 /\ ToFill(r) = 0 /\ Steps(2, r) = 0 /\ AllSteps(r) \in Nat
        /\ (Steps(2, r) = 0 => Tokens(2, r) = 0) /\ Tokens(1, r) \in Nat /\ Tokens(1, r) <= Draft
        /\ AllTokens(r) = Tokens(1, r) + Tokens(2, r)
    BY CounterFacts DEF Between
  <2> QED
    BY <2>1
<1> QED
  BY <1>5, <1>6, <1>7, <1>8

\* A request that takes a step: two steps are allocated ahead of what is known, so
\* one is ahead of what the device has computed.
LEMMA DecodeTally ==
  ASSUME Types, Queue, phase = "sched", UNCHANGED <<out, seq, results, chunked>>,
         phase' \in {"early", "run"}, cur'.mode = "decode", NEW r \in Req, r \in Set(cur'.reqs),
         Tally(r), r # chunked, r \notin Joining',
         committed'[r] = committed[r] + 1, alloc'[r] = NextAlloc(r),
         fill'[r] = fill[r], chunks'[r] = chunks[r]
  PROVE  Tally(r)'
<1>1. /\ AllSteps(r)' = AllSteps(r) /\ AllTokens(r)' = AllTokens(r) /\ AllFills(r)' = AllFills(r)
      /\ First(r)' = First(r) /\ ToFill(r)' = 0 /\ ToStep(r)' = 1 /\ ToStep(r) = 0 /\ ToFill(r) = 0
      /\ AllSteps(r) \in Nat /\ AllTokens(r) \in Nat /\ AllTokens(r) <= Draft
  BY DecodeCounters
<1>2. /\ out'[r] = out[r] /\ seq'[r] = seq[r] /\ chunked' = chunked
  OBVIOUS
<1>3. /\ committed[r] \in Nat /\ seq[r] \in Nat /\ Draft \in Nat /\ alloc[r] \in Nat
  BY ConstantTypes DEF Types
<1>4. committed[r] + AllTokens(r) = seq[r] + AllSteps(r)
  <2>1. committed[r] + AllTokens(r) = seq[r] + ToStep(r) + AllSteps(r)
    BY <1>1 DEF Tally
  <2> QED
    BY <1>1, <1>3, <2>1
<1>5. committed'[r] + AllTokens(r)' = seq'[r] + ToStep(r)' + AllSteps(r)'
  BY <1>1, <1>2, <1>3, <1>4
<1>6. alloc'[r] = committed[r] + 2 * Draft
  BY DEF NextAlloc
<1>7. seq'[r] + Draft <= alloc'[r]
  BY <1>1, <1>2, <1>3, <1>4, <1>6
<1>8. seq'[r] + ToStep(r)' * Draft <= alloc'[r]
  <2>1. ToStep(r)' * Draft = Draft
    <3>1. 1 * Draft = Draft
      BY <1>3
    <3> QED
      BY <1>1, <3>1
  <2> QED
    BY <1>7, <2>1
<1>9. alloc'[r] <= committed'[r] + 2 * Draft
  BY <1>3, <1>6
<1>10. /\ PromptLen[r] + out'[r] + AllTokens(r)' + First(r)' = seq'[r] + 1
       /\ chunks'[r] + (IF r # chunked' /\ AllFills(r)' + ToFill(r)' > 0 THEN 1 ELSE 0)
            = AllFills(r)' + ToFill(r)'
  BY <1>1, <1>2 DEF Tally
<1> QED
  BY <1>1, <1>2, <1>5, <1>8, <1>9, <1>10 DEF Tally

LEMMA DecodeStep ==
  ASSUME OverlapInv, UpdateRunningBatch
  PROVE  OverlapInv'
<1>0. Types /\ Queue /\ Places /\ Fresh /\ Tallies /\ Pool /\ RowsExact /\ RowsOwn /\ RowsLast
  BY DEF OverlapInv
<1>1. /\ phase = "sched" /\ chunked = NoReq
      /\ UNCHANGED <<out, finished, seq, arrived, chunked, paused, last, results>>
  BY DecodeAction
<1>2. PICK batch, k :
         /\ batch = Without(running, finished)
         /\ k = IF DecodePages(Set(batch)) <= pool THEN Len(batch) ELSE Kept(batch, pool)
         /\ PrepareForDecode(batch, k)
  BY DecodeAction, Zenon
<1> DEFINE keep == SubSeq(batch, 1, k)
           drop == SubSeq(batch, k + 1, Len(batch))
<1>3. batch \in Seq(Req) /\ IsInjective(batch) /\ Set(batch) = Holding /\ Joining = {}
  BY <1>0, <1>1, <1>2, DecodeBatch
<1>4. /\ k \in 0 .. Len(batch)
      /\ DecodePages(Set(keep)) <= pool + Total(Released, Set(drop))
  BY <1>0, <1>1, <1>2, <1>3, KeptFits
<1>5. /\ keep \in Seq(Req) /\ IsInjective(keep) /\ drop \in Seq(Req) /\ IsInjective(drop)
      /\ Holding = Set(keep) \cup Set(drop) /\ Set(keep) \cap Set(drop) = {}
  BY <1>3, <1>4, SetSplit
<1>6. PrepareForDecode(batch, k)
  BY <1>2, Zenon
<1>7. /\ committed' = [r \in Req |-> IF r \in Set(keep) THEN committed[r] + 1
                                     ELSE IF r \in Set(drop) THEN 0 ELSE committed[r]]
      /\ alloc' = [r \in Req |-> IF r \in Set(keep) THEN NextAlloc(r)
                                 ELSE IF r \in Set(drop) THEN 0 ELSE alloc[r]]
  BY ONLY <1>6, DecodeLengths
<1>8. /\ fill' = [r \in Req |-> IF r \in Set(drop) THEN 0 ELSE fill[r]]
      /\ chunks' = [r \in Req |-> IF r \in Set(drop) THEN 0 ELSE chunks[r]]
      /\ row' = [r \in Req |-> IF r \in Set(drop) THEN 0 ELSE row[r]]
      /\ retracted' = retracted \cup Set(drop)
      /\ rows' = rows \o RowsOf(Reverse(drop))
  BY ONLY <1>6, DecodeResets
<1>9. pool' = pool + Total(Released, Set(drop)) - Total(Growth, Set(keep))
  BY ONLY <1>6, DecodePool
<1>10. /\ running' = keep
       /\ \E lost : /\ batch = <<>> \/ lost \subseteq {batch[1]}
                    /\ batch = <<>> => lost = {}
                    /\ to_finish' = to_finish \cup lost /\ gone' = gone \cup lost
                    /\ waiting' = waiting \o Without(Reverse(drop), lost)
       /\ keep = <<>> => cur' = NoBatch
       /\ keep # <<>> => cur' = [mode |-> "decode", reqs |-> keep, rows |-> RowsOf(keep)]
       /\ phase' \in {"early", "run"}
       /\ phase' = "early" => results # <<>> /\ keep # <<>>
  BY ONLY <1>6, DecodeEffect
<1> HIDE DEF keep, drop
<1>11. /\ Reverse(drop) \in Seq(Req) /\ IsInjective(Reverse(drop)) /\ Set(Reverse(drop)) = Set(drop)
  BY <1>5, ReverseFacts
<1>12. /\ Holding \subseteq arrived /\ Holding \cap Set(waiting) = {} /\ Holding \subseteq Set(running)
       /\ Holding \cap finished = {} /\ Holding \subseteq Req /\ arrived \subseteq Req
       /\ Set(waiting) \cap finished = {} /\ Set(waiting) \subseteq arrived
       /\ Holding \cap retracted = {}
  BY <1>0, <1>3 DEF Places, Holding, Types
<1>13. PICK lost : /\ lost \subseteq Holding
                   /\ to_finish' = to_finish \cup lost /\ gone' = gone \cup lost
                   /\ waiting' = waiting \o Without(Reverse(drop), lost)
  <2>1. PICK lost : /\ batch = <<>> \/ lost \subseteq {batch[1]}
                    /\ batch = <<>> => lost = {}
                    /\ to_finish' = to_finish \cup lost /\ gone' = gone \cup lost
                    /\ waiting' = waiting \o Without(Reverse(drop), lost)
    BY <1>10
  <2>2. batch # <<>> => batch[1] \in Holding
    <3>1. batch # <<>> => 1 \in DOMAIN batch
      BY <1>3
    <3> QED
      BY <1>3, <3>1 DEF Set
  <2> QED
    BY <2>1, <2>2
<1>14. /\ waiting' \in Seq(Req) /\ IsInjective(waiting')
       /\ Set(waiting') = Set(waiting) \cup (Set(drop) \ lost)
  <2> DEFINE back == Without(Reverse(drop), lost)
  <2>1. back \in Seq(Req) /\ IsInjective(back) /\ Set(back) = Set(drop) \ lost
    BY <1>11, WithoutFacts
  <2>2. waiting \in Seq(Req) /\ IsInjective(waiting) /\ waiting' = waiting \o back
    BY <1>0, <1>13 DEF Types
  <2> HIDE DEF back
  <2>3. Set(waiting) \cap Set(back) = {}
    BY <1>5, <1>12, <2>1
  <2> QED
    BY <2>1, <2>2, <2>3, SetConcat
<1>15. /\ rows' \in Seq(1 .. MaxRunning) /\ IsInjective(rows') /\ RowsExact'
       /\ row' \in [Req -> 0 .. MaxRunning]
  <2>1. row' = [r \in Req |-> IF r \in Set(Reverse(drop)) THEN 0 ELSE row[r]]
    BY <1>8, <1>11
  <2>2. Set(Reverse(drop)) \subseteq Holding
    BY <1>5, <1>11
  <2> DEFINE s == Reverse(drop)
  <2>3. /\ s \in Seq(Req) /\ IsInjective(s) /\ Set(s) \subseteq Holding
        /\ row' = [r \in Req |-> IF r \in Set(s) THEN 0 ELSE row[r]]
        /\ rows' = rows \o RowsOf(s)
    BY <1>8, <1>11, <2>1, <2>2
  <2> HIDE DEF s
  <2> QED
    BY <1>0, <2>3, RowsGiven
<1>16. Holding' = Set(keep)
  <2>1. \A r \in Req : row'[r] # 0 <=> row[r] # 0 /\ r \notin Set(drop)
    BY <1>8
  <2>2. Holding' = Holding \ Set(drop)
    BY <2>1 DEF Holding
  <2> QED
    BY <1>5, <2>2
<1>17. \A r \in Holding : NextAlloc(r) \in Nat /\ alloc[r] <= NextAlloc(r)
  BY <1>0, DecodeNeed
<1>18. Set(keep) \subseteq Holding /\ Set(drop) \subseteq Holding
  BY <1>5
<1>19. Pool' /\ pool' \in Nat
  <2>0. /\ IsFiniteSet(Req) /\ PagesOf \in [Req -> Nat] /\ pool \in Nat /\ alloc \in [Req -> Nat]
    BY <1>0, ConstantTypes, PagesType DEF Types
  <2>1. IsFiniteSet(Set(keep)) /\ IsFiniteSet(Set(drop)) /\ IsFiniteSet(Holding)
    BY <1>12, <1>18, <2>0, FS_Subset
  <2>2. Total(Released, Set(drop)) = Total(PagesOf, Set(drop))
    BY <1>0, <1>1, <1>18, ReleasedExact DEF Between
  <2>3. DecodePages(Set(keep)) = Total(Growth, Set(keep))
    BY <1>0, <1>18, DecodeNeed
  <2> DEFINE g == PagesOf'
  <2>4. g = [r \in Req |-> IF row'[r] = 0 THEN 0 ELSE CeilDiv(alloc'[r])]
    <3>1. \A z : CeilDiv(z)' = CeilDiv(z)
      BY DEF CeilDiv
    <3> QED
      BY <3>1 DEF PagesOf
  <2>5. \A r \in Set(keep) : r \in Req /\ row'[r] # 0 /\ row[r] # 0 /\ alloc'[r] = NextAlloc(r)
    BY <1>7, <1>12, <1>16, <1>18 DEF Holding
  <2>6. \A r \in Set(drop) : r \in Req /\ row'[r] = 0
    BY <1>8, <1>12, <1>18
  <2>7. \A r \in Req \ Holding : row'[r] = 0 /\ row[r] = 0
    BY <1>5, <1>8 DEF Holding
  <2> HIDE DEF g
  <2>8. \A r \in Set(keep) : /\ g[r] = CeilDiv(NextAlloc(r)) /\ g[r] \in Nat
                             /\ PagesOf[r] = CeilDiv(alloc[r])
                             /\ Growth[r] = g[r] - PagesOf[r]
    <3> SUFFICES ASSUME NEW r \in Set(keep)
                 PROVE  /\ g[r] = CeilDiv(NextAlloc(r)) /\ g[r] \in Nat
                        /\ PagesOf[r] = CeilDiv(alloc[r]) /\ Growth[r] = g[r] - PagesOf[r]
      OBVIOUS
    <3>1. NextAlloc(r) \in Nat /\ r \in Req
      BY <1>17, <1>18, <2>5
    <3>2. CeilDiv(NextAlloc(r)) \in Nat
      BY <3>1, CeilDivFacts
    <3>3. g[r] = CeilDiv(NextAlloc(r))
      BY <2>4, <2>5
    <3>4. PagesOf[r] = CeilDiv(alloc[r])
      BY <2>5 DEF PagesOf
    <3>5. Growth[r] = CeilDiv(NextAlloc(r)) - CeilDiv(alloc[r])
      BY <3>1 DEF Growth
    <3> QED
      BY <3>2, <3>3, <3>4, <3>5
  <2>9. \A r \in Set(drop) : g[r] = 0
    BY <2>4, <2>6
  <2>10. \A r \in Req \ Holding : g[r] = PagesOf[r] /\ g[r] = 0
    BY <2>4, <2>7 DEF PagesOf
  <2>11. \A r \in Req : g[r] \in Nat
    BY <1>5, <2>8, <2>9, <2>10
  <2>12. g \in [Req -> Nat]
    BY <2>4, <2>11
  <2>13. Total(Growth, Set(keep)) = Total(g, Set(keep)) - Total(PagesOf, Set(keep))
    <3>1. \A r \in Set(keep) : g[r] \in Int /\ PagesOf[r] \in Int /\ Growth[r] = g[r] - PagesOf[r]
      BY <2>0, <2>5, <2>8
    <3> QED
      BY <2>1, <3>1, SumMinus
  <2>14. Total(PagesOf, Holding) = Total(PagesOf, Set(keep)) + Total(PagesOf, Set(drop))
    <3>1. \A r \in Set(keep) \cup Set(drop) : PagesOf[r] \in Int
      BY <1>12, <1>18, <2>0
    <3> QED
      BY <1>5, <2>1, <3>1, SumUnion
  <2>15. Total(g, Holding) = Total(g, Set(keep)) + Total(g, Set(drop)) /\ Total(g, Set(drop)) = 0
    <3>1. \A r \in Set(keep) \cup Set(drop) : g[r] \in Int
      BY <1>12, <1>18, <2>11
    <3> QED
      BY <1>5, <2>1, <2>9, <3>1, SumUnion, SumZero
  <2>16. /\ Total(PagesOf, Set(keep)) \in Nat /\ Total(PagesOf, Set(drop)) \in Nat
         /\ Total(g, Set(keep)) \in Nat
    <3>1. \A r \in Set(keep) : PagesOf[r] \in Nat /\ g[r] \in Nat
      BY <2>0, <2>5, <2>11
    <3>2. \A r \in Set(drop) : PagesOf[r] \in Nat
      BY <2>0, <2>6
    <3> QED
      BY <2>1, <3>1, <3>2, SumNat
  <2> DEFINE pk == Total(PagesOf, Set(keep))
             pd == Total(PagesOf, Set(drop))
             gk == Total(g, Set(keep))
  <2>17. /\ pool' = pool + pd - (gk - pk) /\ gk - pk <= pool + pd
         /\ pk \in Nat /\ pd \in Nat /\ gk \in Nat
         /\ Total(PagesOf, Holding) = pk + pd /\ Total(g, Holding) = gk + 0
    BY <1>4, <1>9, <2>2, <2>3, <2>13, <2>14, <2>15, <2>16
  <2> HIDE DEF pk, pd, gk
  <2>18. pool' \in Nat /\ pool' = pool + (Total(PagesOf, Holding) - Total(g, Holding))
    BY <2>0, <2>17
  <2>19. g = PagesOf' /\ \A r \in Req \ Holding : g[r] = PagesOf[r]
    BY <2>10 DEF g
  <2>20. Pool'
    BY <1>0, <1>12, <2>12, <2>18, <2>19, PoolChange
  <2> QED
    BY <2>18, <2>20
<1>20. Types'
  <2>1. /\ fill' \in [Req -> Nat] /\ chunks' \in [Req -> Nat]
    BY <1>0, <1>8 DEF Types
  <2>2. committed' \in [Req -> Nat] /\ alloc' \in [Req -> Nat]
    <3>1. committed \in [Req -> Nat] /\ alloc \in [Req -> Nat]
      BY <1>0 DEF Types
    <3>2. \A r \in Set(keep) : NextAlloc(r) \in Nat
      BY <1>17, <1>18
    <3> QED
      BY <1>7, <3>1, <3>2
  <2>3. running' \in Seq(Req) /\ IsInjective(running')
    BY <1>5, <1>10
  <2>4. /\ retracted' \subseteq arrived /\ to_finish' \subseteq arrived /\ gone' \subseteq arrived
        /\ phase' \in {"early", "run"}
    BY <1>0, <1>8, <1>10, <1>12, <1>13, <1>18 DEF Types
  <2> QED
    BY <1>0, <1>1, <1>14, <1>15, <1>19, <2>1, <2>2, <2>3, <2>4 DEF Types
<1>21. \A i \in DOMAIN keep : keep[i] \in Set(keep)
  BY DEF Set
<1>22. /\ DOMAIN keep = 1 .. Len(keep) /\ Len(keep) \in Nat
       /\ RowsOf(keep) \in Seq(1 .. MaxRunning) /\ Len(RowsOf(keep)) = Len(keep)
       /\ \A i \in DOMAIN keep : RowsOf(keep)[i] = row[keep[i]]
  <2>1. DOMAIN keep = 1 .. Len(keep) /\ Len(keep) \in Nat
    BY <1>5, SetType
  <2>2. \A i \in DOMAIN keep : row[keep[i]] \in 1 .. MaxRunning
    <3>1. \A r \in Set(keep) : row[r] \in 0 .. MaxRunning /\ row[r] # 0
      BY <1>0, <1>18 DEF Types, Holding
    <3> QED
      BY <1>21, <3>1, ConstantTypes
  <2> DEFINE u == RowsOf(keep)
  <2>3. u = [i \in DOMAIN keep |-> row[keep[i]]]
    BY DEF RowsOf
  <2> HIDE DEF u
  <2>4. u \in [1 .. Len(keep) -> 1 .. MaxRunning] /\ \A i \in DOMAIN keep : u[i] = row[keep[i]]
    BY <2>1, <2>2, <2>3
  <2>5. u \in Seq(1 .. MaxRunning) /\ Len(u) = Len(keep)
    BY <2>1, <2>4, SeqOfMap
  <2> QED
    BY <2>1, <2>4, <2>5 DEF u
<1>23. /\ cur'.reqs = keep /\ cur'.mode \in {"none", "decode"}
       /\ keep # <<>> => cur'.mode = "decode"
       /\ \A i \in DOMAIN keep : cur'.rows[i] = row[keep[i]]
       /\ Batch(cur') /\ (keep # <<>> => cur' # NoBatch)
  <2>1. CASE keep = <<>>
    BY <1>10, <2>1 DEF NoBatch, Batch
  <2>2. CASE keep # <<>>
    <3>1. cur'.mode = "decode" /\ cur'.reqs = keep /\ cur'.rows = RowsOf(keep)
      BY <1>10, <2>2
    <3>2. Batch(cur')
      BY <1>5, <1>22, <3>1 DEF Batch
    <3>3. cur' # NoBatch
      BY <3>1 DEF NoBatch
    <3> QED
      BY <1>22, <2>2, <3>1, <3>2, <3>3
  <2> QED
    BY <2>1, <2>2
<1>24. Queue'
  <2>1. last' = last /\ results' = results /\ Batch(last)
    BY <1>0, <1>1 DEF Queue
  <2>2. OnlyLast' <=> OnlyLast
    BY <2>1 DEF OnlyLast, ResultOf
  <2>3. (last = NoBatch /\ results = <<>>) \/ (last # NoBatch /\ OnlyLast)
    BY <1>0, <1>1 DEF Queue, OneResult
  <2>4. phase' = "early" => last # NoBatch /\ cur' # NoBatch
    BY <1>10, <1>23, <2>3
  <2>5. Batch(last') /\ Batch(cur)'
    BY <1>23, <2>1 DEF Batch
  <2>6. phase' \in {"early", "run"}
    BY <1>10
  <2> QED
    BY <1>23, <2>1, <2>2, <2>3, <2>4, <2>5, <2>6 DEF Queue, Between, OneResult
<1>25. Joining' = {}
  <2>1. phase' # "sched" /\ cur'.mode # "extend"
    BY <1>10, <1>23
  <2> QED
    BY <2>1 DEF Joining
<1>26. Places'
  <2>0. /\ running' = keep /\ arrived' = arrived /\ finished' = finished /\ last' = last
        /\ chunked' = NoReq /\ phase' \in {"early", "run"} /\ retracted' = retracted \cup Set(drop)
    BY <1>1, <1>8, <1>10
  <2>1. /\ Set(waiting') \cup Set(running') \cup Joining' \subseteq arrived'
        /\ Set(cur'.reqs) \cup Set(last'.reqs) \subseteq arrived'
    BY <1>0, <1>12, <1>14, <1>18, <1>23, <1>25, <2>0 DEF Places
  <2>2. Set(waiting') \cap (Set(running') \cup Joining' \cup Set(cur'.reqs) \cup finished') = {}
    BY <1>5, <1>12, <1>14, <1>18, <1>23, <1>25, <2>0
  <2>3. Holding' = (Set(running') \cup Joining') \ finished'
    BY <1>12, <1>16, <1>18, <1>25, <2>0
  <2>4. Holding' \cap retracted' = {}
    BY <1>5, <1>12, <1>16, <1>18, <2>0
  <2>5. /\ Set(cur'.reqs) \subseteq Holding' \cup finished'
        /\ Set(last'.reqs) \subseteq Holding' \cup finished' \cup retracted'
    <3>1. Set(last.reqs) \subseteq Holding \cup finished \cup retracted
      BY <1>0 DEF Places
    <3> QED
      BY <1>5, <1>16, <1>23, <2>0, <3>1
  <2>6. /\ cur'.mode = "decode" => cur'.reqs = running' /\ chunked' = NoReq
        /\ cur'.mode # "extend"
    BY <1>23, <2>0
  <2> QED
    BY <1>25, <2>0, <2>1, <2>2, <2>3, <2>4, <2>5, <2>6 DEF Places
<1>27. Fresh'
  <2> SUFFICES ASSUME NEW r \in Req, r \in Set(waiting') \/ r \notin arrived'
               PROVE  alloc'[r] = 0 /\ fill'[r] = 0 /\ chunks'[r] = 0 /\ row'[r] = 0
    BY DEF Fresh
  <2>1. CASE r \in Set(drop)
    BY <1>5, <1>7, <1>8, <2>1
  <2>2. CASE r \notin Set(drop)
    <3>1. r \notin Set(keep) /\ (r \in Set(waiting) \/ r \notin arrived)
      BY <1>1, <1>12, <1>14, <1>18, <2>2
    <3>2. alloc'[r] = alloc[r] /\ fill'[r] = fill[r] /\ chunks'[r] = chunks[r] /\ row'[r] = row[r]
      BY <1>7, <1>8, <2>2, <3>1
    <3> QED
      BY <1>0, <3>1, <3>2 DEF Fresh
  <2> QED
    BY <2>1, <2>2
<1>28. Tallies'
  <2> SUFFICES ASSUME NEW r \in Holding' PROVE Tally(r)'
    BY DEF Tallies
  <2>1. r \in Set(keep) /\ r \in Holding /\ r \in Req /\ r \notin Set(drop) /\ Tally(r)
    BY <1>0, <1>5, <1>12, <1>16 DEF Tallies
  <2>2. keep # <<>>
    BY <2>1 DEF Set
  <2>3. cur'.mode = "decode" /\ r \in Set(cur'.reqs)
    BY <1>23, <2>1, <2>2
  <2>4. /\ committed'[r] = committed[r] + 1 /\ alloc'[r] = NextAlloc(r)
        /\ fill'[r] = fill[r] /\ chunks'[r] = chunks[r]
    BY <1>7, <1>8, <2>1
  <2>5. r # chunked /\ r \notin Joining' /\ phase' \in {"early", "run"}
    BY <1>1, <1>10, <1>25, <2>1, ConstantTypes
  <2> QED
    BY <1>0, <1>1, <2>1, <2>3, <2>4, <2>5, DecodeTally
<1>29. \A r \in Req : row'[r] = 0 \/ row'[r] = row[r]
  BY <1>8
<1>30. \A r \in Set(keep) : row'[r] = row[r] /\ row[r] # 0 /\ r \in Req
  BY <1>5, <1>8, <1>12 DEF Holding
<1>31. RowsOwn'
  <2>1. ASSUME NEW j \in DOMAIN keep
        PROVE  /\ row'[keep[j]] \in {0, cur'.rows[j]}
               /\ \A r \in Req : row'[r] = cur'.rows[j] => r = keep[j]
    <3>1. cur'.rows[j] = row'[keep[j]] /\ row'[keep[j]] # 0 /\ keep[j] \in Holding'
      BY <1>16, <1>21, <1>23, <1>30
    <3>2. \A r \in Req : row'[r] # 0 => r \in Holding'
      BY DEF Holding
    <3> QED
      BY <1>15, <3>1, <3>2 DEF RowsExact
  <2>2. ASSUME NEW j \in DOMAIN last.reqs
        PROVE  /\ row'[last.reqs[j]] \in {0, last.rows[j]}
               /\ \A r \in Req : row'[r] = last.rows[j] => r = last.reqs[j]
    <3>1. Batch(last)
      BY <1>0 DEF Queue
    <3> DEFINE s == last.reqs
               t == last.rows
    <3>2. s \in Seq(Req) /\ t \in Seq(1 .. MaxRunning) /\ DOMAIN s = DOMAIN t /\ j \in DOMAIN s
      BY <3>1, <2>2, BatchFacts
    <3>3. /\ row[s[j]] \in {0, t[j]} /\ \A r \in Req : row[r] = t[j] => r = s[j]
      BY <1>0, <2>2 DEF RowsOwn
    <3> HIDE DEF s, t
    <3>4. j \in 1 .. Len(s) /\ j \in 1 .. Len(t)
      BY <3>2, LenProperties
    <3>5. s[j] \in Req /\ t[j] \in 1 .. MaxRunning
      BY <3>2, <3>4, ElementOfSeq
    <3>6. t[j] # 0
      BY <3>5, ConstantTypes
    <3>7. row'[s[j]] \in {0, t[j]} /\ \A r \in Req : row'[r] = t[j] => r = s[j]
      BY <1>29, <3>3, <3>5, <3>6
    <3> QED
      BY <3>7 DEF s, t
  <2>3. last' = last /\ cur'.reqs = keep
    BY <1>1, <1>23
  <2> QED
    BY <2>1, <2>2, <2>3 DEF RowsOwn
<1>32. RowsLast'
  <2>1. Stale' = {}
    BY <1>21, <1>23, <1>30 DEF Stale
  <2>2. Set(cur'.reqs) \subseteq Holding'
    BY <1>16, <1>23
  <2> QED
    BY <2>1, <2>2 DEF RowsLast
<1> QED
  BY <1>15, <1>19, <1>20, <1>24, <1>26, <1>27, <1>28, <1>31, <1>32 DEF OverlapInv

-----------------------------------------------------------------------------
(* The theorems.                                                           *)

\* The places of requests, rows, pages and lengths above are kept by every step of
\* the event loop, every arrival, abort and pause (event_loop_overlap).
THEOREM OverlapInvariant == Spec => []OverlapInv
<1>1. Init => OverlapInv
  BY InitInv
<1>2. OverlapInv /\ [Next]_vars => OverlapInv'
  <2> SUFFICES ASSUME OverlapInv, [Next]_vars PROVE OverlapInv'
    OBVIOUS
  <2>1. CASE MergeLastBatch
    BY <2>1, MergeStep
  <2>2. CASE GetNewBatchPrefill
    BY <2>2, AdmitStep
  <2>3. CASE UpdateRunningBatch
    BY <2>3, DecodeStep
  <2>4. CASE RunBatch
    BY <2>4, LaunchStep
  <2>5. CASE ProcessBatchResult
    BY <2>5, PopStep
  <2>6. CASE PauseMerge
    BY <2>6, PauseMergeStep
  <2>7. ASSUME NEW r \in Req, HandleGenerateRequest(r) PROVE OverlapInv'
    BY <2>7, ArrivalStep
  <2>8. ASSUME NEW r \in Req, AbortRequest(r) PROVE OverlapInv'
    BY <2>8, AbortStep
  <2>9. CASE PauseInPlace \/ PauseRetract \/ ContinueGeneration
    BY <2>9, PauseStep
  <2>10. CASE UNCHANGED vars
    BY <2>10, StutterStep
  <2> QED
    BY <2>1, <2>2, <2>3, <2>4, <2>5, <2>6, <2>7, <2>8, <2>9, <2>10 DEF Next, LoopStep
<1> QED
  BY <1>1, <1>2, PTL DEF Spec

LEMMA PairSum ==
  ASSUME NEW D, D \subseteq {1, 2}, NEW f, \A i \in D : f[i] \in Int
  PROVE  Total(f, D) = (IF 1 \in D THEN f[1] ELSE 0) + (IF 2 \in D THEN f[2] ELSE 0)
<1>1. IsFiniteSet({1, 2})
  <2>1. {1, 2} = 1 .. 2
    OBVIOUS
  <2>2. IsFiniteSet(1 .. 2)
    BY CardUpto
  <2> QED
    BY <2>1, <2>2
<1>2. IsFiniteSet(D) /\ IsFiniteSet(D \ {1})
  BY <1>1, FS_Subset
<1> DEFINE E == D \ {1}
<1>3. E = {} \/ E = {2}
  OBVIOUS
<1>4. Total(f, E) = IF 2 \in D THEN f[2] ELSE 0
  <2>1. CASE E = {}
    <3>1. 2 \notin D
      BY <2>1
    <3> QED
      BY <2>1, <3>1, SumEmpty
  <2>2. CASE E = {2}
    <3>1. 2 \in E /\ 2 \in D /\ f[2] \in Int /\ E \ {2} = {} /\ \A i \in E : f[i] \in Int
      BY <2>2
    <3>2. IsFiniteSet(E)
      BY <1>2
    <3> HIDE DEF E
    <3>3. Total(f, E) = f[2] + Total(f, E \ {2})
      BY <3>1, <3>2, SumRemove
    <3>4. Total(f, E \ {2}) = 0
      BY <3>1, SumEmpty
    <3> QED
      BY <3>1, <3>3, <3>4
  <2> QED
    BY <1>3, <2>1, <2>2
<1>5. Total(f, E) \in Int
  <2>1. 2 \in D => f[2] \in Int
    OBVIOUS
  <2> HIDE DEF E
  <2> QED
    BY <1>4, <2>1
<1>6. CASE 1 \in D
  <2>1. Total(f, D) = f[1] + Total(f, E)
    BY <1>2, <1>6, SumRemove
  <2> HIDE DEF E
  <2> QED
    BY <1>4, <1>6, <2>1
<1>7. CASE 1 \notin D
  <2>1. E = D
    BY <1>7
  <2> HIDE DEF E
  <2>2. Total(f, D) = Total(f, E)
    BY <2>1
  <2>3. Total(f, D) = 0 + Total(f, E)
    BY <1>5, <2>2
  <2> QED
    BY <1>4, <1>7, <2>3
<1> QED
  BY <1>6, <1>7

\* What the results in the queue hold for a request.
LEMMA PendingSums ==
  ASSUME Queue, NEW r
  PROVE  LET decodes == {i \in Pending(r) : results[i].mode = "decode"}
         IN  /\ Total([i \in decodes |-> results[i].acc[r]], decodes) = AllTokens(r)
             /\ Total([i \in decodes |-> results[i].acc[r] - 1], decodes) = AllTokens(r) - AllSteps(r)
             /\ (\E i \in Pending(r) : results[i].mode = "extend") <=> AllFills(r) > 0
<1> DEFINE D == {i \in Pending(r) : results[i].mode = "decode"}
           f == [i \in D |-> results[i].acc[r]]
           g == [i \in D |-> results[i].acc[r] - 1]
<1>1. D \subseteq {1, 2}
  BY PendingFacts
<1>2. (1 \in D <=> IsDecode(1, r)) /\ (2 \in D <=> IsDecode(2, r))
  BY DEF IsDecode
<1>3. /\ 1 \in D => results[1].acc[r] \in Int
      /\ 2 \in D => results[2].acc[r] \in Int
  BY PendingFacts, ConstantTypes
<1>4. /\ 1 \in D => f[1] \in Int /\ f[1] = results[1].acc[r] /\ g[1] = f[1] - 1
      /\ 2 \in D => f[2] \in Int /\ f[2] = results[2].acc[r] /\ g[2] = f[2] - 1
  BY <1>3
<1>5. \A i \in D : f[i] \in Int /\ g[i] \in Int
  <2> HIDE DEF D, f, g
  <2> QED
    BY <1>1, <1>4
<1>6. /\ Tokens(1, r) = (IF 1 \in D THEN f[1] ELSE 0) /\ Steps(1, r) = (IF 1 \in D THEN 1 ELSE 0)
      /\ Tokens(2, r) = (IF 2 \in D THEN f[2] ELSE 0) /\ Steps(2, r) = (IF 2 \in D THEN 1 ELSE 0)
  <2> HIDE DEF D, f, g
  <2> QED
    BY <1>2, <1>4 DEF Tokens, Steps
<1>7. /\ (\E i \in Pending(r) : results[i].mode = "extend") <=> AllFills(r) > 0
  <2>1. Pending(r) \subseteq {1, 2}
    BY PendingFacts
  <2>2. AllFills(r) > 0 <=> Fills(1, r) = 1 \/ Fills(2, r) = 1
    <3>1. Fills(1, r) \in 0 .. 1 /\ Fills(2, r) \in 0 .. 1
      BY CounterFacts
    <3> QED
      BY <3>1 DEF AllFills
  <2> QED
    BY <2>1, <2>2 DEF Fills
<1> HIDE DEF D, f, g
<1>8. Total(f, D) = (IF 1 \in D THEN f[1] ELSE 0) + (IF 2 \in D THEN f[2] ELSE 0)
  BY <1>1, <1>5, PairSum
<1>9. Total(g, D) = (IF 1 \in D THEN g[1] ELSE 0) + (IF 2 \in D THEN g[2] ELSE 0)
  BY <1>1, <1>5, PairSum
<1>10. Total(f, D) = AllTokens(r)
  BY <1>6, <1>8 DEF AllTokens
<1>11. Total(g, D) = AllTokens(r) - AllSteps(r)
  <2>1. AllTokens(r) = Tokens(1, r) + Tokens(2, r) /\ AllSteps(r) = Steps(1, r) + Steps(2, r)
    BY DEF AllTokens, AllSteps
  <2> QED
    BY <1>4, <1>6, <1>9, <2>1
<1> QED
  BY <1>7, <1>10, <1>11 DEF D, f, g

\* kv_committed_len lags behind the device by exactly the accepted drafts of the
\* results still queued, whatever is retracted, aborted, paused or prefilled again
\* in between (_resolve_spec_overlap_token_ids, prepare_for_decode).
THEOREM CommittedLagsTheorem == Spec => []CommittedLags
<1>1. OverlapInv => CommittedLags
  <2> SUFFICES ASSUME OverlapInv, NEW r \in Holding
               PROVE  LET decodes == {i \in Pending(r) : results[i].mode = "decode"}
                          behind == Total([i \in decodes |-> results[i].acc[r] - 1], decodes)
                      IN  IF Prepared(r, "extend") THEN committed[r] = fill[r]
                          ELSE committed[r] + behind = seq[r] + (IF Prepared(r, "decode") THEN 1 ELSE 0)
    BY DEF CommittedLags
  <2> DEFINE decodes == {i \in Pending(r) : results[i].mode = "decode"}
             behind == Total([i \in decodes |-> results[i].acc[r] - 1], decodes)
  <2>1. Tally(r) /\ Queue /\ Types /\ r \in Req
    BY DEF OverlapInv, Tallies, Holding
  <2>2. behind = AllTokens(r) - AllSteps(r)
    BY <2>1, PendingSums
  <2> HIDE DEF behind
  <2>3. CASE Prepared(r, "extend")
    BY <2>1, <2>3 DEF Tally, ToFill
  <2>4. CASE ~Prepared(r, "extend")
    <3>1. ToFill(r) = 0 /\ ToStep(r) = IF Prepared(r, "decode") THEN 1 ELSE 0
      BY <2>4 DEF ToFill, ToStep
    <3>2. committed[r] + AllTokens(r) = seq[r] + ToStep(r) + AllSteps(r)
      BY <2>1, <3>1 DEF Tally
    <3>3. /\ committed[r] \in Nat /\ seq[r] \in Nat /\ AllTokens(r) \in Nat /\ AllSteps(r) \in Nat
          /\ ToStep(r) \in 0 .. 1
      BY <2>1, CounterFacts DEF Types
    <3>4. committed[r] + behind = seq[r] + ToStep(r)
      BY <2>2, <3>2, <3>3
    <3>5. committed[r] + behind = seq[r] + (IF Prepared(r, "decode") THEN 1 ELSE 0)
      <4>1. CASE Prepared(r, "decode")
        BY <3>1, <3>4, <4>1
      <4>2. CASE ~Prepared(r, "decode")
        BY <3>1, <3>4, <4>2
      <4> QED
        BY <4>1, <4>2
    <3> QED
      BY <2>4, <3>5 DEF behind
  <2> QED
    BY <2>3, <2>4 DEF behind
<1> QED
  BY <1>1, OverlapInvariant, PTL

\* Every result is applied once and to the run of the request it belongs to
\* (process_batch_result, the skips of finished and retracted requests, the pops
\* before a batch that may not overlap and before a pause).
THEOREM ResultsAppliedTheorem == Spec => []ResultsApplied
<1>1. OverlapInv => QueueInStep
  <2> SUFFICES ASSUME OverlapInv PROVE QueueInStep
    OBVIOUS
  <2>1. Queue
    BY DEF OverlapInv
  <2>2. ASSUME phase \in {"recv", "sched", "early", "run", "pause_pop"}
        PROVE  Len(results) = IF last = NoBatch THEN 0 ELSE 1
    <3>1. (last = NoBatch /\ results = <<>>) \/ (last # NoBatch /\ OnlyLast)
      BY <2>1, <2>2 DEF Queue, OneResult
    <3>2. OnlyLast => Len(results) = 1
      <4> SUFFICES ASSUME OnlyLast PROVE Len(results) = 1
        OBVIOUS
      <4>1. results = <<results[1]>>
        BY DEF OnlyLast
      <4>2. Len(<<results[1]>>) = 1
        OBVIOUS
      <4> QED
        BY <4>1, <4>2, Zenon
    <3> QED
      BY <3>1, <3>2
  <2>3. ASSUME phase \in {"early", "late", "pause_pop"}
        PROVE  results # <<>> /\ Head(results).reqs = last.reqs
    <3>1. OnlyLast \/ LastAndCur
      BY <2>1, <2>3 DEF Queue, OneResult
    <3>2. CASE OnlyLast
      <4>1. results = <<results[1]>> /\ results[1].reqs = last.reqs
        BY <3>2 DEF OnlyLast, ResultOf
      <4>2. Head(<<results[1]>>) = results[1] /\ <<results[1]>> # <<>>
        OBVIOUS
      <4> QED
        BY <4>1, <4>2, Zenon
    <3>3. CASE LastAndCur
      <4>1. results = <<results[1], results[2]>> /\ results[1].reqs = last.reqs
        BY <3>3 DEF LastAndCur, ResultOf
      <4>2. Head(<<results[1], results[2]>>) = results[1] /\ <<results[1], results[2]>> # <<>>
        OBVIOUS
      <4> QED
        BY <4>1, <4>2, Zenon
    <3> QED
      BY <3>1, <3>2, <3>3
  <2> QED
    BY <2>2, <2>3 DEF QueueInStep
<1>2. OverlapInv => ResultsApplied
  <2> SUFFICES ASSUME OverlapInv, NEW r \in Holding
               PROVE  LET decodes == {i \in Pending(r) : results[i].mode = "decode"}
                          tokens == Total([i \in decodes |-> results[i].acc[r]], decodes)
                          first == IF \E i \in Pending(r) : results[i].mode = "extend" THEN 1 ELSE 0
                      IN  r # chunked /\ ~Prepared(r, "extend") =>
                            PromptLen[r] + out[r] + tokens + first = seq[r] + 1
    BY <1>1 DEF ResultsApplied
  <2> DEFINE decodes == {i \in Pending(r) : results[i].mode = "decode"}
             tokens == Total([i \in decodes |-> results[i].acc[r]], decodes)
             first == IF \E i \in Pending(r) : results[i].mode = "extend" THEN 1 ELSE 0
  <2>1. Tally(r) /\ Queue
    BY DEF OverlapInv, Tallies
  <2>2. tokens = AllTokens(r) /\ first = First(r)
    BY <2>1, PendingSums DEF First
  <2> HIDE DEF tokens, first
  <2>3. ASSUME r # chunked, ~Prepared(r, "extend")
        PROVE  PromptLen[r] + out[r] + tokens + first = seq[r] + 1
    <3>1. ToFill(r) = 0
      BY <2>3 DEF ToFill
    <3> QED
      BY <2>1, <2>2, <2>3, <3>1 DEF Tally
  <2> QED
    BY <2>3 DEF tokens, first
<1> QED
  BY <1>2, OverlapInvariant, PTL

\* A decode step writes inside what was allocated when the scheduler knew less, and
\* in a row that is still its own (prepare_for_decode, ReqToTokenPool.free).
THEOREM WritesAllocatedTheorem == Spec => []WritesAllocated
<1>1. OverlapInv => RowNotReused
  <2> SUFFICES ASSUME OverlapInv, NEW i \in DOMAIN results, NEW j \in DOMAIN results[i].rows,
                      NEW r \in Req, row[r] = results[i].rows[j]
               PROVE  r = results[i].reqs[j]
    BY DEF RowNotReused
  <2>1. Queue /\ RowsOwn
    BY DEF OverlapInv
  <2>2. ResultOf(results[i], last) \/ ResultOf(results[i], cur)
    BY <2>1, Shape
  <2>3. PICK b \in {cur, last} : ResultOf(results[i], b)
    BY <2>2
  <2>4. Batch(b)
    BY <2>1 DEF Queue
  <2>5. j \in DOMAIN b.reqs /\ row[r] = b.rows[j] /\ results[i].reqs = b.reqs
    BY <2>3, <2>4, BatchFacts DEF ResultOf
  <2> QED
    BY <2>1, <2>5 DEF RowsOwn
<1>2. OverlapInv => WritesAllocated
  <2> SUFFICES ASSUME OverlapInv, NEW r \in Holding, Prepared(r, "decode")
               PROVE  seq[r] + Draft <= alloc[r]
    BY <1>1 DEF WritesAllocated
  <2>1. Tally(r) /\ Queue
    BY DEF OverlapInv, Tallies
  <2>2. ToStep(r) = 1 /\ ToFill(r) = 0
    BY <2>1, CounterFacts DEF ToStep, ToFill, Prepared
  <2>3. 1 * Draft = Draft
    BY ConstantTypes
  <2> QED
    BY <2>1, <2>2, <2>3 DEF Tally
<1> QED
  BY <1>2, OverlapInvariant, PTL

\* Every page is available or belongs to one row, however early or late requests are
\* released (release_kv_cache, retract_decode, prepare_for_decode).
THEOREM PoolExactTheorem == Spec => []PoolExact
<1>1. OverlapInv => PoolExact
  <2> SUFFICES ASSUME OverlapInv PROVE PoolExact
    OBVIOUS
  <2>1. Types /\ Queue /\ Pool
    BY DEF OverlapInv
  <2> DEFINE f == [r \in Req |-> CeilDiv(alloc[r])]
  <2>2. /\ PagesOf \in [Req -> Nat] /\ IsFiniteSet(Req) /\ Holding \subseteq Req
        /\ pool \in Nat /\ NumPages \in Nat
    BY <2>1, PagesType, ConstantTypes DEF Holding, Types
  <2>3. IsFiniteSet(Holding) /\ IsFiniteSet(Req \ Holding)
    BY <2>2, FS_Subset
  <2>4. \A r \in Holding : f[r] = PagesOf[r]
    BY DEF PagesOf, Holding
  <2>5. \A r \in Req \ Holding : PagesOf[r] = 0
    BY DEF PagesOf, Holding
  <2> HIDE DEF f
  <2>6. Total(f, Holding) = Total(PagesOf, Holding)
    BY <2>3, <2>4, SumAgree
  <2>7. Total(PagesOf, Req) = Total(PagesOf, Holding) + Total(PagesOf, Req \ Holding)
    <3>1. Req = Holding \cup (Req \ Holding) /\ Holding \cap (Req \ Holding) = {}
      BY <2>2
    <3>2. \A r \in Holding \cup (Req \ Holding) : PagesOf[r] \in Int
      BY <2>2
    <3> QED
      BY <2>3, <3>1, <3>2, SumUnion
  <2>8. Total(PagesOf, Req \ Holding) = 0
    BY <2>3, <2>5, SumZero
  <2>9. Total(PagesOf, Holding) \in Nat
    <3>1. \A r \in Holding : PagesOf[r] \in Nat
      BY <2>2
    <3> QED
      BY <2>3, <3>1, SumNat
  <2>10. pool + Total(f, Holding) = NumPages /\ pool \in 0 .. NumPages
    <3>1. pool + Total(PagesOf, Req) = NumPages
      BY <2>1 DEF Pool
    <3> QED
      BY <2>2, <2>6, <2>7, <2>8, <2>9, <3>1
  <2>11. IsBatch(cur) /\ IsBatch(last)
    BY <2>1, BatchFacts DEF Queue, IsBatch, Modes
  <2>12. ASSUME NEW i \in DOMAIN results PROVE IsBatch(results[i])
    <3>1. ResultOf(results[i], last) \/ ResultOf(results[i], cur)
      BY <2>1, Shape
    <3> QED
      BY <2>11, <3>1 DEF ResultOf, IsBatch
  <2>13. TypeOK
    BY <2>1, <2>10, <2>11, <2>12 DEF Types, TypeOK
  <2> QED
    BY <2>10, <2>13 DEF PoolExact, f
<1> QED
  BY <1>1, OverlapInvariant, PTL
=============================================================================
