------------------------- MODULE DecodeQueuesProofs -------------------------
(***************************************************************************)
(* Proofs about DecodeQueues: the pool of the decode server is exact and no *)
(* admission or resumption takes more pages than there are, for every pool, *)
(* page size, reservation and workload the assumptions allow.              *)
(***************************************************************************)
EXTENDS DecodeQueues, CollectionProofs

-----------------------------------------------------------------------------
(* The inductive invariant.                                                *)

\* Requests of the running batch that have not finished.
Live == Set(running) \ finished

Types ==
  /\ load \in Loads
  /\ pc \in {"input", "prealloc", "transfer", "batch", "decode"}
  /\ prealloc \in Seq(Req) /\ transfer \in Seq(Req) /\ waiting \in Seq(Req)
  /\ running \in Seq(Req) /\ retracted \in Seq(Req)
  /\ ready \subseteq Req /\ to_finish \subseteq Req /\ finished \subseteq Req
  /\ poll \in [Req -> {"wait", "input", "ok", "failed"}]
  /\ out \in [Req -> Nat] /\ kv \in [Req -> Nat] /\ free \in Nat
  /\ answered \in [Req -> 0 .. 1]

\* No queue holds a request twice and no two hold the same one.
Apart ==
  /\ IsInjective(prealloc) /\ IsInjective(transfer) /\ IsInjective(waiting)
  /\ IsInjective(running) /\ IsInjective(retracted)
  /\ Set(prealloc) \cap (Set(transfer) \cup Set(waiting) \cup Set(running) \cup Set(retracted)) = {}
  /\ Set(transfer) \cap (Set(waiting) \cup Set(running) \cup Set(retracted)) = {}
  /\ Set(waiting) \cap (Set(running) \cup Set(retracted)) = {}
  /\ Set(running) \cap Set(retracted) = {}

\* Queued requests are unanswered, finished ones are not.
Unanswered ==
  /\ \A r \in Set(prealloc) \cup Set(transfer) \cup Set(waiting) \cup Live \cup Set(retracted) :
       answered[r] = 0
  /\ \A r \in finished : answered[r] = 1

\* What a request has of outputs and KV in each queue.
Lengths ==
  /\ \A r \in Req : out[r] <= MaxNew(r)
  /\ \A r \in Req : r \notin Placed /\ answered[r] = 0 => out[r] = 0
  /\ \A r \in Set(prealloc) : out[r] = 0
  /\ \A r \in Set(transfer) : out[r] = 0 /\ kv[r] = Prompt(r)
  /\ \A r \in Set(waiting) : out[r] >= 1 /\ kv[r] = Prompt(r) + out[r] - 1
  /\ \A r \in Live : out[r] >= 1 /\ out[r] < MaxNew(r) /\ kv[r] = Prompt(r) + out[r] - 1
  /\ \A r \in Set(retracted) : out[r] >= 1 /\ out[r] < MaxNew(r)
  /\ \A r \in Req : r \notin Set(transfer) \cup Set(waiting) \cup Live => kv[r] = 0

\* Every page is free or a request's.
Pool == free + Total(PagesOf, Req) = NPages

QueuesInv == Types /\ Apart /\ Unanswered /\ Lengths /\ Pool

-----------------------------------------------------------------------------
(* Pages.                                                                  *)

LEMMA ConstantTypes ==
  /\ PageSize \in Nat /\ PageSize > 0 /\ NPages \in Nat /\ MaxRunning \in Nat
  /\ Reserved \in Nat /\ PreAlloc \in Nat /\ Clip \in Nat /\ Reserved >= PageSize - 1
  /\ IsFiniteSet(Req)
BY QueuesAssumption

LEMMA LoadTypes ==
  ASSUME load \in Loads, NEW r \in Req
  PROVE  Prompt(r) \in Nat /\ Prompt(r) >= 1 /\ MaxNew(r) \in Nat /\ MaxNew(r) >= 1
<1>1. load.prompt \in [Req -> Nat \ {0}] /\ load.new \in [Req -> Nat \ {0}]
  BY QueuesAssumption
<1> QED
  BY <1>1 DEF Prompt, MaxNew

\* Whole pages: enough for the tokens, not a page more.
LEMMA CeilDivBounds ==
  ASSUME NEW n \in Nat
  PROVE  /\ CeilDiv(n) \in Nat
         /\ n <= PageSize * CeilDiv(n) /\ PageSize * CeilDiv(n) <= n + PageSize - 1
         /\ n = 0 => CeilDiv(n) = 0
         /\ CeilDiv(n + 1) = CeilDiv(n) + (IF n % PageSize = 0 THEN 1 ELSE 0)
<1>1. PageSize \in Nat \ {0}
  BY ConstantTypes
<1>2. CeilDiv(n) = RoundUp(n, PageSize) /\ CeilDiv(n + 1) = RoundUp(n + 1, PageSize)
  BY DEF CeilDiv, RoundUp
<1> QED
  BY <1>1, <1>2, RoundUpBounds

\* The pages of requests with the KV lengths k.
PagesFor(k) == [r \in Req |-> CeilDiv(k[r])]

LEMMA PagesForType ==
  ASSUME NEW k \in [Req -> Nat]
  PROVE  PagesFor(k) \in [Req -> Nat]
<1>1. \A r \in Req : CeilDiv(k[r]) \in Nat
  BY CeilDivBounds
<1> QED
  BY <1>1 DEF PagesFor

\* Releasing the requests S gives their pages back.
LEMMA ReleasePool ==
  ASSUME Types, Pool, NEW S, S \subseteq Req, kv' = Zero(kv, S), free' = FreeOf(S)
  PROVE  kv' \in [Req -> Nat] /\ free' \in Nat /\ Pool'
<1> DEFINE f == PagesFor(kv)
           g == PagesFor(kv')
<1>1. kv \in [Req -> Nat] /\ kv' \in [Req -> Nat] /\ free \in Nat
  BY DEF Types, Zero
<1>2. f \in [Req -> Nat] /\ g \in [Req -> Nat]
  BY <1>1, PagesForType
<1>3. \A r \in Req \ S : g[r] = f[r]
  BY DEF Zero, PagesFor
<1>4. \A r \in S : g[r] = 0
  BY CeilDivBounds DEF Zero, PagesFor
<1>5. f = PagesOf /\ g = PagesOf'
  BY DEF PagesFor, PagesOf
<1>6. IsFiniteSet(Req) /\ IsFiniteSet(S) /\ NPages \in Nat
  BY ConstantTypes, FS_Subset
<1> HIDE DEF f, g
<1>7. /\ Total(f, Req) \in Int /\ Total(f, S) \in Int /\ Total(g, S) \in Int
      /\ Total(g, Req) = Total(f, Req) - Total(f, S) + Total(g, S)
  BY <1>2, <1>3, <1>6, SumChange
<1>10. Total(g, S) = 0
  BY <1>4, <1>6, SumZero
<1>11. Total(f, S) \in Nat
  BY <1>2, <1>6, SumNat
<1>12. free' = free + Total(f, S)
  BY <1>5 DEF FreeOf
<1>13. free + Total(f, Req) = NPages
  BY <1>5 DEF Pool
<1>14. free' + Total(g, Req) = NPages
  BY <1>1, <1>6, <1>7, <1>10, <1>12, <1>13
<1>15. free' \in Nat
  BY <1>1, <1>11, <1>12
<1> QED
  BY <1>1, <1>5, <1>14, <1>15 DEF Pool

\* Giving the requests S, which hold nothing, the lengths g takes their pages.
LEMMA TakePool ==
  ASSUME Types, Pool, NEW S, S \subseteq Req, \A r \in S : kv[r] = 0,
         NEW len, \A r \in S : len[r] \in Nat,
         kv' = [r \in Req |-> IF r \in S THEN len[r] ELSE kv[r]],
         NEW c, \A r \in S : c[r] = CeilDiv(len[r]),
         free' = free - Total(c, S), Total(c, S) <= free
  PROVE  kv' \in [Req -> Nat] /\ free' \in Nat /\ Pool'
<1> DEFINE f == PagesFor(kv)
           g == PagesFor(kv')
<1>1. kv \in [Req -> Nat] /\ kv' \in [Req -> Nat] /\ free \in Nat
  BY DEF Types
<1>2. f \in [Req -> Nat] /\ g \in [Req -> Nat]
  BY <1>1, PagesForType
<1>3. \A r \in Req \ S : g[r] = f[r]
  BY DEF PagesFor
<1>4. \A r \in S : f[r] = 0 /\ g[r] = c[r]
  BY CeilDivBounds DEF PagesFor
<1>5. f = PagesOf /\ g = PagesOf'
  BY DEF PagesFor, PagesOf
<1>6. IsFiniteSet(Req) /\ IsFiniteSet(S) /\ NPages \in Nat
  BY ConstantTypes, FS_Subset
<1> HIDE DEF f, g
<1>7. /\ Total(f, Req) \in Int /\ Total(f, S) \in Int /\ Total(g, S) \in Int
      /\ Total(g, Req) = Total(f, Req) - Total(f, S) + Total(g, S)
  BY <1>2, <1>3, <1>6, SumChange
<1>10. Total(f, S) = 0
  BY <1>4, <1>6, SumZero
<1>11. Total(g, S) = Total(c, S)
  BY <1>4, <1>6, SumAgree
<1>13. free + Total(f, Req) = NPages
  BY <1>5 DEF Pool
<1>14. free' + Total(g, Req) = NPages
  BY <1>1, <1>6, <1>7, <1>10, <1>11, <1>13
<1>15. free' \in Nat
  BY <1>1, <1>7, <1>11
<1> QED
  BY <1>1, <1>5, <1>14, <1>15 DEF Pool

-----------------------------------------------------------------------------
(* retract_decode's order.                                                 *)

\* The order is strict and total on the positions of a batch.
LEMMA BeforeOrder ==
  ASSUME Types, NEW s \in Seq(Req)
  PROVE  /\ \A i \in DOMAIN s : ~ Before(s, i, i)
         /\ \A i, j, k \in DOMAIN s : Before(s, i, j) /\ Before(s, j, k) => Before(s, i, k)
         /\ \A i, j \in DOMAIN s : i # j => Before(s, i, j) \/ Before(s, j, i)
<1>1. \A i \in DOMAIN s : s[i] \in Req /\ i \in Nat
  OBVIOUS
<1>2. \A r \in Req : out[r] \in Nat /\ Prompt(r) \in Nat
  BY LoadTypes DEF Types
<1>3. \A i \in DOMAIN s : out[s[i]] \in Nat /\ Prompt(s[i]) \in Nat /\ i \in Nat
  BY <1>1, <1>2
<1>4. ASSUME NEW i \in DOMAIN s PROVE ~ Before(s, i, i)
  BY <1>3 DEF Before
<1>5. ASSUME NEW i \in DOMAIN s, NEW j \in DOMAIN s, NEW k \in DOMAIN s,
             Before(s, i, j), Before(s, j, k)
      PROVE  Before(s, i, k)
  <2> DEFINE oi == out[s[i]]
             oj == out[s[j]]
             ok == out[s[k]]
             p == Prompt(s[i])
             q == Prompt(s[j])
             t == Prompt(s[k])
  <2>1. oi \in Nat /\ oj \in Nat /\ ok \in Nat /\ p \in Nat /\ q \in Nat /\ t \in Nat
        /\ i \in Nat /\ j \in Nat /\ k \in Nat
    BY <1>3
  <2>2. /\ oi > oj \/ (oi = oj /\ p < q) \/ (oi = oj /\ p = q /\ i < j)
        /\ oj > ok \/ (oj = ok /\ q < t) \/ (oj = ok /\ q = t /\ j < k)
    BY <1>5 DEF Before
  <2> HIDE DEF oi, oj, ok, p, q, t
  <2>3. oi > ok \/ (oi = ok /\ p < t) \/ (oi = ok /\ p = t /\ i < k)
    BY <2>1, <2>2
  <2> QED
    BY <2>3 DEF Before, oi, oj, ok, p, q, t
<1>6. ASSUME NEW i \in DOMAIN s, NEW j \in DOMAIN s, i # j
      PROVE  Before(s, i, j) \/ Before(s, j, i)
  <2> DEFINE oi == out[s[i]]
             oj == out[s[j]]
             p == Prompt(s[i])
             q == Prompt(s[j])
  <2>1. oi \in Nat /\ oj \in Nat /\ p \in Nat /\ q \in Nat /\ i \in Nat /\ j \in Nat
    BY <1>3
  <2> HIDE DEF oi, oj, p, q
  <2>2. \/ oi > oj \/ (oi = oj /\ p < q) \/ (oi = oj /\ p = q /\ i < j)
        \/ oj > oi \/ (oj = oi /\ q < p) \/ (oj = oi /\ q = p /\ j < i)
    BY <1>6, <2>1
  <2> QED
    BY <2>2 DEF Before, oi, oj, p, q
<1> QED
  BY <1>4, <1>5, <1>6

\* Sorting rearranges a batch.
LEMMA SortedFacts ==
  ASSUME Types, NEW s \in Seq(Req)
  PROVE  /\ Sorted(s) \in Seq(Req) /\ Len(Sorted(s)) = Len(s)
         /\ Set(Sorted(s)) = Set(s)
         /\ IsInjective(s) => IsInjective(Sorted(s))
<1> DEFINE N == Len(s)
           D == DOMAIN s
           Pre(i) == {j \in D : Before(s, j, i)}
           p == [i \in D |-> Place(s, i)]
           q == [n \in D |-> CHOOSE i \in D : Place(s, i) = n]
<1>0. D = 1 .. N /\ N \in Nat /\ IsFiniteSet(D) /\ Cardinality(D) = N /\ \A i \in D : s[i] \in Req
  <2>1. D = 1 .. N /\ N \in Nat
    OBVIOUS
  <2>2. IsFiniteSet(1 .. N) /\ Cardinality(1 .. N) = N
    BY <2>1, CardUpto
  <2> QED
    BY <2>1, <2>2
<1> HIDE DEF N, D
<1>1. \A i \in D : IsFiniteSet(Pre(i)) /\ Cardinality(Pre(i)) \in Nat /\ Place(s, i) = 1 + Cardinality(Pre(i))
  <2> SUFFICES ASSUME NEW i \in D
               PROVE  IsFiniteSet(Pre(i)) /\ Cardinality(Pre(i)) \in Nat
                      /\ Place(s, i) = 1 + Cardinality(Pre(i))
    OBVIOUS
  <2>1. Pre(i) \in SUBSET D
    OBVIOUS
  <2>2. IsFiniteSet(Pre(i))
    BY <1>0, <2>1, FS_Subset
  <2> QED
    BY <2>2, FS_CardinalityType DEF Place, D
<1>2. ASSUME NEW i \in D, NEW k \in D, Before(s, i, k) PROVE Place(s, i) < Place(s, k)
  <2>1. Pre(i) \subseteq Pre(k) /\ i \in Pre(k) /\ i \notin Pre(i)
    BY <1>2, BeforeOrder DEF D
  <2>2. Cardinality(Pre(i)) <= Cardinality(Pre(k)) /\ Cardinality(Pre(k)) # Cardinality(Pre(i))
    BY <1>1, <2>1, FS_Subset
  <2> HIDE DEF Pre
  <2> QED
    BY <1>1, <2>2
<1>3. \A i \in D : Place(s, i) \in D
  <2> SUFFICES ASSUME NEW i \in D PROVE Place(s, i) \in D
    OBVIOUS
  <2>1. Pre(i) \subseteq D /\ i \in D /\ i \notin Pre(i)
    BY BeforeOrder DEF D
  <2>2. Cardinality(Pre(i)) <= Cardinality(D) /\ Cardinality(D) # Cardinality(Pre(i))
    BY <1>0, <2>1, FS_Subset
  <2> HIDE DEF Pre
  <2> QED
    BY <1>0, <1>1, <2>2
<1>4. \A i, k \in D : Place(s, i) = Place(s, k) => i = k
  <2> SUFFICES ASSUME NEW i \in D, NEW k \in D, i # k PROVE Place(s, i) # Place(s, k)
    OBVIOUS
  <2>1. Before(s, i, k) \/ Before(s, k, i)
    BY BeforeOrder DEF D
  <2>2. Place(s, i) \in Nat /\ Place(s, k) \in Nat
    BY <1>0, <1>3
  <2> QED
    BY <1>2, <2>1, <2>2
<1>5. p \in Injection(D, D)
  BY <1>3, <1>4 DEF Injection, IsInjective
<1>6. p \in Surjection(D, D)
  BY <1>0, <1>5, FS_Injection
<1>7. \A n \in D : q[n] \in D /\ Place(s, q[n]) = n
  BY <1>6 DEF Surjection
<1>8. \A i \in D : q[Place(s, i)] = i
  BY <1>3, <1>4, <1>7
<1>9. Sorted(s) = [n \in D |-> s[q[n]]]
  BY DEF Sorted, D
<1> HIDE DEF p, q
<1>10. Sorted(s) \in Seq(Req) /\ Len(Sorted(s)) = N /\ DOMAIN Sorted(s) = D
  BY <1>0, <1>7, <1>9
<1>11. Set(Sorted(s)) = Set(s)
  <2>1. ASSUME NEW n \in D PROVE Sorted(s)[n] \in Set(s)
    BY <1>7, <1>9 DEF Set, D
  <2>2. ASSUME NEW i \in D PROVE s[i] \in Set(Sorted(s))
    <3>1. Place(s, i) \in D /\ Sorted(s)[Place(s, i)] = s[i]
      BY <1>3, <1>8, <1>9
    <3> QED
      BY <1>10, <3>1 DEF Set
  <2> QED
    BY <1>10, <2>1, <2>2 DEF Set, D
<1>12. ASSUME IsInjective(s), NEW m \in D, NEW n \in D, Sorted(s)[m] = Sorted(s)[n] PROVE m = n
  <2>1. s[q[m]] = s[q[n]]
    BY <1>9, <1>12
  <2>2. q[m] = q[n]
    BY <1>7, <1>12, <2>1 DEF IsInjective, D
  <2> QED
    BY <1>7, <2>2
<1> QED
  BY <1>10, <1>11, <1>12 DEF IsInjective, N

-----------------------------------------------------------------------------
(* Initial states and inputs.                                              *)

LEMMA EmptyQueue ==
  <<>> \in Seq(Req) /\ Set(<<>>) = {} /\ IsInjective(<<>>)
BY DEF Set, IsInjective

LEMMA QueuesInit == Init => QueuesInv
<1> SUFFICES ASSUME Init PROVE QueuesInv
  OBVIOUS
<1> USE DEF Init
<1>0. NPages \in Nat
  BY ConstantTypes
<1>1. Types
  BY <1>0, EmptyQueue DEF Types
<1>2. Apart
  BY EmptyQueue DEF Apart
<1>3. Unanswered
  BY EmptyQueue DEF Unanswered, Live
<1>4. Lengths
  <2>1. \A r \in Req : MaxNew(r) \in Nat
    BY LoadTypes
  <2> QED
    BY <2>1, EmptyQueue DEF Lengths, Live, Placed
<1>5. Pool
  <2>1. \A r \in Req : PagesOf[r] = 0
    BY CeilDivBounds DEF PagesOf
  <2>2. Total(PagesOf, Req) = 0
    BY <2>1, ConstantTypes, SumZero
  <2> QED
    BY <1>0, <2>2 DEF Pool
<1> QED
  BY <1>1, <1>2, <1>3, <1>4, <1>5 DEF QueuesInv

\* Answering requests that were not answered.
LEMMA AnswerFacts ==
  ASSUME Types, NEW S, S \subseteq Req, \A r \in S : answered[r] = 0, Answer(S)
  PROVE  /\ answered' \in [Req -> 0 .. 1]
         /\ \A r \in Req : answered'[r] = IF r \in S THEN 1 ELSE answered[r]
<1>1. Min({2, 0 + 1}) = 1
  BY MinMaxPair
<1>2. \A r \in S : Min({2, answered[r] + 1}) = 1
  BY <1>1
<1>3. answered \in [Req -> 0 .. 1]
  BY DEF Types
<1>4. answered' = [r \in Req |-> IF r \in S THEN Min({2, answered[r] + 1}) ELSE answered[r]]
  BY DEF Answer
<1>5. \A r \in Req : answered'[r] = IF r \in S THEN 1 ELSE answered[r]
  BY <1>2, <1>4
<1> QED
  BY <1>3, <1>4, <1>5

LEMMA ReceiveStep ==
  ASSUME QueuesInv, UNCHANGED load, NEW r \in Req, Receive(r)
  PROVE  QueuesInv'
<1> USE DEF Receive
<1>0. Types /\ Apart /\ Unanswered /\ Lengths /\ Pool
  BY DEF QueuesInv
<1>1. prealloc \in Seq(Req) /\ IsInjective(prealloc) /\ r \notin Set(prealloc)
  BY <1>0 DEF Types, Apart, Placed
<1>2. /\ prealloc' \in Seq(Req) /\ Set(prealloc') = Set(prealloc) \cup {r} /\ IsInjective(prealloc')
  BY <1>1, SetAppend
<1>3. Types'
  BY <1>0, <1>2 DEF Types
<1>4. Apart'
  BY <1>0, <1>2 DEF Apart, Placed
<1>5. Unanswered'
  BY <1>0, <1>2 DEF Unanswered, Live
<1>6. Lengths'
  BY <1>0, <1>2 DEF Lengths, Live, Placed, Prompt, MaxNew
<1>7. Pool'
  BY <1>0 DEF Pool, PagesOf
<1> QED
  BY <1>3, <1>4, <1>5, <1>6, <1>7 DEF QueuesInv

\* Progress of a handshake or a transfer changes no queue.
LEMMA ProgressStep ==
  ASSUME QueuesInv, UNCHANGED load, NEW r \in Req, Handshake(r) \/ TransferEnds(r)
  PROVE  QueuesInv'
<1>0. Types /\ Apart /\ Unanswered /\ Lengths /\ Pool
  BY DEF QueuesInv
<1>1. UNCHANGED <<pc, prealloc, transfer, waiting, running, retracted, out, kv, free,
                  to_finish, finished, answered>>
  BY DEF Handshake, TransferEnds
<1>2. ready' \subseteq Req /\ poll' \in [Req -> {"wait", "input", "ok", "failed"}]
  BY <1>0 DEF Handshake, TransferEnds, Types
<1>3. Types'
  BY <1>0, <1>1, <1>2 DEF Types
<1>4. Apart'
  BY <1>0, <1>1 DEF Apart
<1>5. Unanswered'
  BY <1>0, <1>1 DEF Unanswered, Live
<1>6. Lengths'
  BY <1>0, <1>1 DEF Lengths, Live, Placed, Prompt, MaxNew
<1>7. Pool'
  BY <1>0, <1>1 DEF Pool, PagesOf
<1> QED
  BY <1>3, <1>4, <1>5, <1>6, <1>7 DEF QueuesInv

LEMMA AbortStep ==
  ASSUME QueuesInv, UNCHANGED load, NEW r \in Req, AbortRequest(r)
  PROVE  QueuesInv'
<1> DEFINE gone == {r} \cap (Set(waiting) \cup Set(retracted))
<1>0. Types /\ Apart /\ Unanswered /\ Lengths /\ Pool
  BY DEF QueuesInv
<1>g. gone \subseteq Req /\ gone \subseteq Set(waiting) \cup Set(retracted)
  OBVIOUS
<1>1. /\ waiting' = Without(waiting, gone) /\ retracted' = Without(retracted, gone)
      /\ free' = FreeOf(gone) /\ kv' = Zero(kv, gone) /\ Answer(gone)
      /\ UNCHANGED <<pc, prealloc, ready, transfer, running, out, finished>>
  BY DEF AbortRequest
<1>t. /\ waiting \in Seq(Req) /\ IsInjective(waiting)
      /\ retracted \in Seq(Req) /\ IsInjective(retracted)
  BY <1>0 DEF Types, Apart
<1> HIDE DEF gone
<1>2. waiting' \in Seq(Req) /\ Set(waiting') = Set(waiting) \ gone /\ IsInjective(waiting')
  BY <1>1, <1>t, WithoutFacts
<1>3. retracted' \in Seq(Req) /\ Set(retracted') = Set(retracted) \ gone /\ IsInjective(retracted')
  BY <1>1, <1>t, WithoutFacts
<1>4. kv' \in [Req -> Nat] /\ free' \in Nat /\ Pool'
  BY <1>0, <1>1, <1>g, ReleasePool
<1>5. \A q \in gone : answered[q] = 0
  BY <1>0, <1>g DEF Unanswered
<1>6. /\ answered' \in [Req -> 0 .. 1]
      /\ \A q \in Req : answered'[q] = IF q \in gone THEN 1 ELSE answered[q]
  BY <1>0, <1>1, <1>g, <1>5, AnswerFacts
<1>7. Types'
  <2>1. poll' \in [Req -> {"wait", "input", "ok", "failed"}] /\ to_finish' \subseteq Req
    BY <1>0 DEF Types, AbortRequest
  <2> QED
    BY <1>0, <1>1, <1>2, <1>3, <1>4, <1>6, <2>1 DEF Types
<1>8. Apart'
  BY <1>0, <1>1, <1>2, <1>3 DEF Apart
<1>u. /\ UNCHANGED <<prealloc, transfer, running, finished, out>>
      /\ Set(prealloc) \subseteq Req /\ Set(transfer) \subseteq Req /\ Set(waiting) \subseteq Req
      /\ Set(running) \subseteq Req /\ Set(retracted) \subseteq Req /\ finished \subseteq Req
  BY <1>0, <1>1, SetType DEF Types
<1>n. gone \cap (Set(prealloc) \cup Set(transfer) \cup Set(running)) = {}
  BY <1>0, <1>g DEF Apart
<1>9. Unanswered'
  <2>1. gone \cap finished = {}
    BY <1>0, <1>5 DEF Unanswered
  <2>2. \A q \in finished' : answered'[q] = 1
    BY <1>0, <1>6, <1>u, <2>1 DEF Unanswered
  <2>3. Live' = Live /\ Live \subseteq Set(running)
    BY <1>u DEF Live
  <2>4. ASSUME NEW q \in (Set(prealloc) \cup Set(transfer) \cup Set(waiting) \cup Live \cup Set(retracted))'
        PROVE  answered'[q] = 0
    <3>1. q \in Set(prealloc) \cup Set(transfer) \cup Set(waiting) \cup Live \cup Set(retracted)
      BY <1>2, <1>3, <1>u, <2>3
    <3>2. q \notin gone /\ q \in Req
      BY <1>2, <1>3, <1>u, <1>n, <2>3
    <3> QED
      BY <1>0, <1>6, <3>1, <3>2 DEF Unanswered
  <2> QED
    BY <2>2, <2>4 DEF Unanswered
<1>10. Lengths'
  <2>1. \A q \in Req : kv'[q] = IF q \in gone THEN 0 ELSE kv[q]
    BY <1>1 DEF Zero
  <2>2. \A q \in Req : Prompt(q)' = Prompt(q) /\ MaxNew(q)' = MaxNew(q)
    BY DEF Prompt, MaxNew
  <2>a. Placed' = Placed \ gone
    BY <1>2, <1>3, <1>u, <1>n DEF Placed
  <2>3. \A q \in Req : q \notin Placed' /\ answered'[q] = 0 => out[q] = 0
    BY <1>0, <1>6, <2>a DEF Lengths
  <2>4. Live' = Live
    BY <1>u DEF Live
  <2>5. Live \subseteq Set(running)
    BY DEF Live
  <2>6. \A q \in Set(transfer)' : out'[q] = 0 /\ kv'[q] = Prompt(q)'
    BY <1>0, <1>u, <1>n, <2>1, <2>2 DEF Lengths
  <2>7. \A q \in Set(waiting)' : out'[q] >= 1 /\ kv'[q] = Prompt(q)' + out'[q] - 1
    BY <1>0, <1>2, <1>u, <2>1, <2>2 DEF Lengths
  <2>8. \A q \in Live' : out'[q] >= 1 /\ out'[q] < MaxNew(q)' /\ kv'[q] = Prompt(q)' + out'[q] - 1
    BY <1>0, <1>u, <1>n, <2>1, <2>2, <2>4, <2>5 DEF Lengths
  <2>9. \A q \in Req : q \notin Set(transfer)' \cup Set(waiting)' \cup Live' => kv'[q] = 0
    BY <1>0, <1>2, <1>u, <2>1, <2>4 DEF Lengths
  <2> QED
    BY <1>0, <1>3, <1>u, <2>2, <2>3, <2>6, <2>7, <2>8, <2>9 DEF Lengths
<1> QED
  BY <1>4, <1>7, <1>8, <1>9, <1>10 DEF QueuesInv

-----------------------------------------------------------------------------
(* The budget of process_decode_queue.                                     *)

\* What is reserved only lowers the budget.
LEMMA BudgetBound ==
  ASSUME Types, NEW avail \in Int, NEW extra \in Nat, NEW single \in Int
  PROVE  /\ Allocatable(avail, extra, single) \in Int
         /\ Allocatable(avail, extra, single) <= avail
<1> DEFINE n == Len(running) + Len(transfer) + Len(waiting) + extra
           m == Reserved * n
<1>1. n \in Nat
  BY DEF Types
<1> HIDE DEF n
<1>2. m \in Nat
  BY <1>1, ConstantTypes
<1> HIDE DEF m
<1>3. Max({m, single}) \in Int /\ Max({m, single}) >= m
  <2>1. m \in Int
    BY <1>2
  <2>2. Max({m, single}) = IF m <= single THEN single ELSE m
    BY <2>1, MinMaxPair
  <2> QED
    BY <2>1, <2>2
<1>4. Allocatable(avail, extra, single) = avail - Max({m, single})
  BY DEF Allocatable, n, m
<1> QED
  BY <1>2, <1>3, <1>4

\* Requests whose needs, with the rounding to pages, sum to no more than the
\* free tokens get their pages.
LEMMA BudgetCovers ==
  ASSUME Types, NEW S, S \subseteq Req, NEW c, NEW need, NEW len,
         \A r \in S : /\ len[r] \in Nat /\ need[r] \in Int /\ c[r] = CeilDiv(len[r])
                      /\ len[r] + PageSize - 1 <= need[r],
         Total(need, S) <= free * PageSize
  PROVE  Total(c, S) <= free
<1> DEFINE d == [r \in S |-> PageSize * c[r]]
<1>0. IsFiniteSet(S) /\ PageSize \in Nat /\ PageSize > 0 /\ free \in Nat
  BY ConstantTypes, FS_Subset DEF Types
<1>1. \A r \in S : c[r] \in Nat /\ PageSize * c[r] <= len[r] + PageSize - 1
  BY CeilDivBounds
<1>2. \A r \in S : d[r] = PageSize * c[r]
  OBVIOUS
<1> HIDE DEF d
<1>3. ASSUME NEW r \in S PROVE d[r] \in Int /\ need[r] \in Int /\ d[r] <= need[r]
  BY <1>0, <1>1, <1>2
<1>4. Total(d, S) <= Total(need, S)
  BY <1>0, <1>3, SumMonotone
<1>5. Total(d, S) = PageSize * Total(c, S)
  <2>1. PageSize \in Int /\ \A r \in S : c[r] \in Int /\ d[r] = PageSize * c[r]
    BY <1>0, <1>1, <1>2
  <2> QED
    BY <1>0, <2>1, SumScale
<1>6. Total(c, S) \in Nat /\ Total(need, S) \in Int
  BY <1>0, <1>1, <1>3, SumNat, SumInt
<1> DEFINE t == Total(c, S)
           u == Total(need, S)
<1> HIDE DEF t, u
<1>7. t \in Nat /\ u \in Int /\ PageSize * t <= u /\ u <= free * PageSize
  BY <1>4, <1>5, <1>6 DEF t, u
<1>8. t <= free
  <2> SUFFICES ASSUME t >= free + 1 PROVE FALSE
    BY <1>0, <1>7
  <2>1. PageSize * t >= PageSize * (free + 1)
    BY <1>0, <1>7
  <2> QED
    BY <1>0, <1>7, <2>1
<1> QED
  BY <1>8 DEF t

\* The resumed requests get their pages: none is resumed beyond the budget.
LEMMA ResumeStep ==
  ASSUME QueuesInv, UNCHANGED load, ResumeRetracted
  PROVE  QueuesInv'
<1> DEFINE budget == Allocatable(Left(0), 0, 0)
           fits(j) == /\ Cardinality(Holding) + j <= Rows
                      /\ SumTo(retracted, j, Resumption) <= budget
           K == {n \in 0 .. Len(retracted) : \A j \in 1 .. n : fits(j)}
           k == Max(K)
           resumed == SubSeq(retracted, 1, k)
           rest == SubSeq(retracted, k + 1, Len(retracted))
           R == Set(resumed)
           cost == [r \in Req |-> CeilDiv(FillLen(r))]
           len == [r \in Req |-> FillLen(r)]
<1>0. Types /\ Apart /\ Unanswered /\ Lengths /\ Pool
  BY DEF QueuesInv
<1>t. retracted \in Seq(Req) /\ IsInjective(retracted) /\ Len(retracted) \in Nat
      /\ waiting \in Seq(Req) /\ IsInjective(waiting)
      /\ Set(waiting) \cap Set(retracted) = {}
  BY <1>0 DEF Types, Apart
<1>k. k \in 0 .. Len(retracted) /\ \A j \in 1 .. k : fits(j)
  <2>1. 0 \in K /\ K \subseteq 0 .. Len(retracted)
    BY <1>t
  <2>2. Max(K) \in K
    BY <1>t, <2>1, MaxExists
  <2> QED
    BY <2>2
<1> HIDE DEF K
<1>s. /\ resumed \in Seq(Req) /\ Len(resumed) = k /\ rest \in Seq(Req)
      /\ Set(retracted) = R \cup Set(rest) /\ R \cap Set(rest) = {}
      /\ IsInjective(resumed) /\ IsInjective(rest)
  BY <1>t, <1>k, SetSplit
<1>R. R \subseteq Req /\ IsFiniteSet(R)
  BY <1>s, SetType
<1>l. \A r \in R : /\ out[r] \in Nat /\ out[r] >= 1 /\ out[r] < MaxNew(r) /\ answered[r] = 0
                   /\ Prompt(r) \in Nat /\ kv[r] = 0 /\ FillLen(r) = Prompt(r) + out[r] - 1
  <2> SUFFICES ASSUME NEW r \in R
               PROVE  /\ out[r] \in Nat /\ out[r] >= 1 /\ out[r] < MaxNew(r) /\ answered[r] = 0
                      /\ Prompt(r) \in Nat /\ kv[r] = 0 /\ FillLen(r) = Prompt(r) + out[r] - 1
    OBVIOUS
  <2>1. r \in Req /\ r \in Set(retracted)
    BY <1>s, <1>R
  <2>2. out[r] \in Nat /\ out[r] >= 1 /\ out[r] < MaxNew(r) /\ answered[r] = 0 /\ Prompt(r) \in Nat
    BY <1>0, <2>1, LoadTypes DEF Types, Lengths, Unanswered
  <2>3. r \notin Set(transfer) \cup Set(waiting) \cup Live
    BY <1>0, <2>1 DEF Apart, Live
  <2>4. kv[r] = 0
    BY <1>0, <2>1, <2>3 DEF Lengths
  <2>5. Max({out[r] - 1, 0}) = out[r] - 1
    <3>1. out[r] - 1 \in Int /\ 0 \in Int
      BY <2>2
    <3>2. Max({out[r] - 1, 0}) = IF out[r] - 1 <= 0 THEN 0 ELSE out[r] - 1
      BY <3>1, MinMaxPair
    <3> QED
      BY <2>2, <3>2
  <2> QED
    BY <2>2, <2>4, <2>5 DEF FillLen
<1>p. SumTo(retracted, k, cost) = Total(cost, R) /\ Total(cost, R) <= free /\ Total(cost, R) \in Nat
  <2>1. SumTo(retracted, k, cost) = Total(cost, R)
    BY DEF SumTo
  <2>2. \A r \in R : /\ len[r] = Prompt(r) + out[r] - 1 /\ len[r] \in Nat
                     /\ cost[r] = CeilDiv(len[r]) /\ cost[r] \in Nat
                     /\ Resumption[r] = Prompt(r) + out[r] + Reserved
                     /\ Resumption[r] \in Int /\ len[r] + PageSize - 1 <= Resumption[r]
    <3> SUFFICES ASSUME NEW r \in R
                 PROVE  /\ len[r] = Prompt(r) + out[r] - 1 /\ len[r] \in Nat
                        /\ cost[r] = CeilDiv(len[r]) /\ cost[r] \in Nat
                        /\ Resumption[r] = Prompt(r) + out[r] + Reserved
                        /\ Resumption[r] \in Int /\ len[r] + PageSize - 1 <= Resumption[r]
      OBVIOUS
    <3>1. len[r] = Prompt(r) + out[r] - 1 /\ cost[r] = CeilDiv(len[r])
          /\ Resumption[r] = Prompt(r) + out[r] + Reserved
      BY <1>l, <1>R DEF Resumption
    <3>2. len[r] \in Nat /\ Resumption[r] \in Int /\ len[r] + PageSize - 1 <= Resumption[r]
      BY <1>l, <3>1, ConstantTypes
    <3>3. CeilDiv(len[r]) \in Nat
      BY <3>2, CeilDivBounds
    <3> QED
      BY <3>1, <3>2, <3>3
  <2>3. Total(Resumption, R) <= free * PageSize
    <3>1. free \in Nat /\ PageSize \in Nat
      BY <1>0, ConstantTypes DEF Types
    <3>2. CASE k = 0
      <4>1. R = {}
        BY <1>s, <3>2 DEF Set
      <4>2. Total(Resumption, R) = 0
        BY <4>1, SumEmpty
      <4> QED
        BY <3>1, <4>2
    <3>3. CASE k # 0
      <4>1. fits(k)
        BY <1>k, <1>t, <3>3
      <4>2. Total(Resumption, R) <= budget
        BY <4>1 DEF SumTo
      <4>3. Left(0) = free * PageSize /\ Left(0) \in Int
        BY <3>1 DEF Left
      <4>4. budget \in Int /\ budget <= Left(0)
        BY <1>0, <4>3, BudgetBound
      <4>5. Total(Resumption, R) \in Int
        BY <1>R, <2>2, SumInt
      <4> QED
        BY <4>2, <4>3, <4>4, <4>5
    <3> QED
      BY <3>2, <3>3
  <2> HIDE DEF cost, len
  <2>4. Total(cost, R) <= free
    BY <1>0, <1>R, <2>2, <2>3, BudgetCovers
  <2>5. Total(cost, R) \in Nat
    BY <1>R, <2>2, SumNat
  <2> QED
    BY <2>1, <2>4, <2>5
<1>1. /\ waiting' = waiting \o resumed /\ retracted' = rest
      /\ kv' = [r \in Req |-> IF r \in R THEN FillLen(r) ELSE kv[r]]
      /\ free' = free - Total(cost, R)
      /\ pc' \in {"batch", "prealloc"}
      /\ UNCHANGED <<prealloc, ready, transfer, poll, running, out, to_finish, finished, answered>>
  <2>1. free \in Nat
    BY <1>0 DEF Types
  <2>2. ~ (SumTo(retracted, k, cost) > free)
    BY <1>p, <2>1
  <2> QED
    BY <1>p, <2>2 DEF ResumeRetracted, K
<1>2. kv' \in [Req -> Nat] /\ free' \in Nat /\ Pool'
  <2>1. \A r \in R : len[r] \in Nat /\ cost[r] = CeilDiv(len[r]) /\ len[r] = FillLen(r)
    BY <1>l, <1>R
  <2>2. kv' = [r \in Req |-> IF r \in R THEN len[r] ELSE kv[r]]
    BY <1>1
  <2>3. \A r \in R : kv[r] = 0 /\ len[r] \in Nat /\ cost[r] = CeilDiv(len[r])
    BY <1>l, <2>1
  <2>4. free' = free - Total(cost, R) /\ Total(cost, R) <= free
    BY <1>1, <1>p
  <2> HIDE DEF len, cost, R
  <2> QED
    BY <1>0, <1>R, <2>2, <2>3, <2>4, TakePool
<1> HIDE DEF k, resumed, rest, R, cost, len
<1>3. waiting' \in Seq(Req) /\ Set(waiting') = Set(waiting) \cup R /\ IsInjective(waiting')
  <2>1. Set(waiting) \cap Set(resumed) = {}
    BY <1>t, <1>s DEF R
  <2> QED
    BY <1>1, <1>t, <1>s, <2>1, SetConcat DEF R
<1>4. retracted' \in Seq(Req) /\ Set(retracted') = Set(retracted) \ R /\ IsInjective(retracted')
  BY <1>1, <1>s
<1>5. Types'
  BY <1>0, <1>1, <1>2, <1>3, <1>4 DEF Types
<1>6. Apart'
  BY <1>0, <1>1, <1>3, <1>4, <1>s DEF Apart
<1>7. Live' = Live /\ Placed' = Placed
  BY <1>1, <1>3, <1>4, <1>s DEF Live, Placed
<1>8. Unanswered'
  BY <1>0, <1>1, <1>3, <1>4, <1>l, <1>7 DEF Unanswered
<1>9. Lengths'
  <2>1. \A q \in Req : kv'[q] = IF q \in R THEN FillLen(q) ELSE kv[q]
    BY <1>1
  <2>2. \A q \in Req : Prompt(q)' = Prompt(q) /\ MaxNew(q)' = MaxNew(q)
    BY DEF Prompt, MaxNew
  <2>3. R \cap (Set(transfer) \cup Set(waiting) \cup Live) = {} /\ Set(transfer) \subseteq Req
        /\ Set(waiting) \subseteq Req /\ Live \subseteq Req
    BY <1>0, <1>s, SetType DEF Apart, Live, Types
  <2>4. \A q \in Set(transfer)' : out'[q] = 0 /\ kv'[q] = Prompt(q)'
    BY <1>0, <1>1, <2>1, <2>2, <2>3 DEF Lengths
  <2>5. \A q \in Set(waiting)' : out'[q] >= 1 /\ kv'[q] = Prompt(q)' + out'[q] - 1
    BY <1>0, <1>1, <1>3, <1>l, <1>R, <2>1, <2>2, <2>3 DEF Lengths
  <2>6. \A q \in Live' : out'[q] >= 1 /\ out'[q] < MaxNew(q)' /\ kv'[q] = Prompt(q)' + out'[q] - 1
    BY <1>0, <1>1, <1>7, <2>1, <2>2, <2>3 DEF Lengths
  <2>7. \A q \in Req : q \notin Set(transfer)' \cup Set(waiting)' \cup Live' => kv'[q] = 0
    BY <1>0, <1>1, <1>3, <1>7, <2>1 DEF Lengths
  <2>8. \A q \in Req : q \notin Placed' /\ answered'[q] = 0 => out'[q] = 0
    BY <1>0, <1>1, <1>7 DEF Lengths
  <2>9. \A q \in Set(retracted)' : q \in Set(retracted) /\ q \in Req
    BY <1>4, <1>t, SetType
  <2>10. Set(prealloc)' = Set(prealloc) /\ Set(prealloc) \subseteq Req
    BY <1>0, <1>1, SetType DEF Types
  <2> QED
    BY <1>0, <1>1, <2>2, <2>4, <2>5, <2>6, <2>7, <2>8, <2>9, <2>10 DEF Lengths
<1> QED
  BY <1>2, <1>5, <1>6, <1>8, <1>9 DEF QueuesInv

\* The longest output counted for a request that runs alone is a number.
LEMMA SingleType ==
  ASSUME Types, NEW t \in Int
  PROVE  /\ \A r \in Req : Clipped(r) \in Int
         /\ running # <<>> => Max({Clipped(r) + Prompt(r) - t : r \in Set(running)}) \in Int
<1> DEFINE M == {Clipped(r) + Prompt(r) - t : r \in Set(running)}
           g == [r \in Set(running) |-> Clipped(r) + Prompt(r) - t]
<1>1. \A r \in Req : Clipped(r) \in Int /\ Prompt(r) \in Int
  <2> SUFFICES ASSUME NEW r \in Req PROVE Clipped(r) \in Int /\ Prompt(r) \in Int
    OBVIOUS
  <2>1. Prompt(r) \in Int /\ MaxNew(r) \in Int /\ Clip \in Int
    BY LoadTypes, ConstantTypes DEF Types
  <2>2. Min({MaxNew(r), Clip}) = IF MaxNew(r) <= Clip THEN MaxNew(r) ELSE Clip
    BY <2>1, MinMaxPair
  <2> QED
    BY <2>1, <2>2 DEF Clipped
<1>2. ASSUME running # <<>> PROVE Max(M) \in Int
  <2>1. running \in Seq(Req)
    BY DEF Types
  <2>2. Set(running) \subseteq Req /\ IsFiniteSet(Set(running))
    BY <2>1, SetType
  <2>3. Set(running) # {}
    <3>1. 1 \in DOMAIN running
      BY <1>2, <2>1
    <3> QED
      BY <3>1 DEF Set
  <2>4. M \subseteq Int /\ M # {}
    BY <1>1, <2>2, <2>3
  <2>5. M = {g[r] : r \in Set(running)}
    OBVIOUS
  <2> HIDE DEF g
  <2>6. IsFiniteSet({g[r] : r \in Set(running)})
    <3>1. IsFiniteSet(Set(running))
      BY <2>2
    <3>2. g \in Surjection(Set(running), {g[r] : r \in Set(running)})
      BY DEF g, Surjection
    <3> QED
      BY <3>1, <3>2, FS_Surjection
  <2>7. IsFiniteSet(M)
    BY <2>5, <2>6
  <2> HIDE DEF M
  <2> QED
    BY <2>4, <2>7, FiniteMax
<1> QED
  BY <1>1, <1>2

\* The admitted requests get their pages: each is admitted within what the
\* ones admitted before it left.
LEMMA PopPreallocatedStep ==
  ASSUME QueuesInv, UNCHANGED load, PopPreallocated
  PROVE  QueuesInv'
<1> DEFINE failed == Polled("failed")
           queue == Only(prealloc, ready' \ failed)
           retractable == Total([r \in Req |-> Prompt(r) + out[r]], Set(running))
           single == IF running = <<>> THEN 0
                     ELSE Max({Clipped(r) + Prompt(r) - retractable : r \in Set(running)})
           cost == [r \in Req |-> CeilDiv(Prompt(r))]
           pagesTo(j) == SumTo(queue, j, cost)
           fits(j) ==
             LET r == queue[j] IN
             /\ Cardinality(Holding) + j <= Rows
             /\ Len(transfer) + j <= Slots
             /\ Max({Prompt(r) + Reserved, Prompt(r) + Clipped(r) - retractable})
                  <= Allocatable(Left(pagesTo(j - 1)), j - 1, single)
           K == {n \in 0 .. Len(queue) : \A j \in 1 .. n : fits(j)}
           k == Max(K)
           taken == SubSeq(queue, 1, k)
           T == Set(taken)
           len == [r \in Req |-> Prompt(r)]
<1>0. Types /\ Apart /\ Unanswered /\ Lengths /\ Pool
  BY DEF QueuesInv
<1>t. /\ prealloc \in Seq(Req) /\ IsInjective(prealloc)
      /\ transfer \in Seq(Req) /\ IsInjective(transfer) /\ running \in Seq(Req)
      /\ free \in Nat
  BY <1>0 DEF Types, Apart
<1>q. /\ queue \in Seq(Req) /\ IsInjective(queue) /\ Len(queue) \in Nat
      /\ Set(queue) = Set(prealloc) \cap (ready' \ failed)
  BY <1>t, OnlyFacts
<1>k. k \in 0 .. Len(queue) /\ \A j \in 1 .. k : fits(j)
  <2> HIDE DEF fits, queue
  <2>1. 0 \in K /\ K \subseteq 0 .. Len(queue)
    BY <1>q
  <2>2. Max(K) \in K
    BY <1>q, <2>1, MaxExists
  <2> QED
    BY <2>2
<1> HIDE DEF K
<1>s. /\ taken \in Seq(Req) /\ Len(taken) = k /\ IsInjective(taken)
      /\ T \subseteq Set(queue) /\ T \subseteq Req /\ IsFiniteSet(T)
  <2> HIDE DEF k, queue
  <2>1. taken \in Seq(Req) /\ Len(taken) = k /\ IsInjective(taken) /\ T \subseteq Set(queue)
    BY <1>q, <1>k, SetSplit
  <2> HIDE DEF taken
  <2> QED
    BY <2>1, SetType
<1>c. \A r \in Req : cost[r] = CeilDiv(Prompt(r)) /\ cost[r] \in Nat /\ Prompt(r) \in Nat
  BY <1>0, LoadTypes, CeilDivBounds DEF Types
<1>y. retractable \in Int /\ single \in Int
  <2>1. \A r \in Set(running) : [q \in Req |-> Prompt(q) + out[q]][r] \in Int
    BY <1>0, <1>t, <1>c, SetType DEF Types
  <2>2. retractable \in Int
    BY <1>t, <2>1, SetType, SumInt
  <2> HIDE DEF retractable
  <2>3. single \in Int
    <3> DEFINE M == Max({Clipped(r) + Prompt(r) - retractable : r \in Set(running)})
    <3>1. running # <<>> => M \in Int
      BY <1>0, <2>2, SingleType
    <3>2. single = IF running = <<>> THEN 0 ELSE M
      OBVIOUS
    <3> HIDE DEF M, single
    <3> QED
      BY <3>1, <3>2
  <2> QED
    BY <2>2, <2>3 DEF retractable
<1> HIDE DEF retractable, single, queue, cost
<1>p. pagesTo(k) = Total(cost, T) /\ Total(cost, T) <= free /\ Total(cost, T) \in Nat
  <2>1. pagesTo(k) = Total(cost, T) /\ Total(cost, T) \in Nat
    BY <1>s, <1>c, SumNat DEF SumTo
  <2>2. CASE k = 0
    <3>1. T = {}
      BY <1>s, <2>2 DEF Set
    <3>2. Total(cost, T) = 0
      BY <3>1, SumEmpty
    <3> QED
      BY <1>t, <2>1, <3>2
  <2>3. CASE k # 0
    <3> DEFINE r == queue[k]
               P == Set(SubSeq(queue, 1, k - 1))
               u == Total(cost, P)
    <3>1. k \in 1 .. Len(queue) /\ k - 1 \in 0 .. Len(queue) /\ k - 1 \in Nat /\ r \in Req
      BY <1>k, <1>q, <2>3
    <3>2. T = P \cup {r} /\ r \notin P
      BY <1>q, <3>1, PrefixStep
    <3>3. P \subseteq Req /\ IsFiniteSet(P)
      BY <1>s, <3>2, FS_Subset
    <3>4. u \in Nat
      BY <1>c, <3>3, SumNat
    <3>5. Total(cost, T) = cost[r] + u
      <4> HIDE DEF P, r
      <4>1. \A x \in P \cup {r} : cost[x] \in Int
        BY <1>c, <3>1, <3>3
      <4> QED
        BY <3>2, <3>3, <4>1, SumAdd
    <3>6. pagesTo(k - 1) = u
      BY DEF SumTo
    <3>7. /\ Max({Prompt(r) + Reserved, Prompt(r) + Clipped(r) - retractable})
               <= Allocatable(Left(u), k - 1, single)
      BY <1>k, <3>1, <3>6
    <3> HIDE DEF r, P, u, T, k
    <3>8. Prompt(r) + Reserved \in Int /\ Prompt(r) + Clipped(r) - retractable \in Int
      <4>1. Clipped(r) \in Int
        BY <1>0, <1>y, <3>1, SingleType
      <4> QED
        BY <1>c, <1>y, <3>1, <4>1, ConstantTypes
    <3>9. /\ Max({Prompt(r) + Reserved, Prompt(r) + Clipped(r) - retractable}) \in Int
          /\ Prompt(r) + Reserved <= Max({Prompt(r) + Reserved, Prompt(r) + Clipped(r) - retractable})
      <4> DEFINE a == Prompt(r) + Reserved
                 b == Prompt(r) + Clipped(r) - retractable
      <4> HIDE DEF a, b
      <4>1. a \in Int /\ b \in Int
        BY <3>8 DEF a, b
      <4>2. Max({a, b}) = IF a <= b THEN b ELSE a
        BY <4>1, MinMaxPair
      <4>3. Max({a, b}) \in Int /\ a <= Max({a, b})
        BY <4>1, <4>2
      <4> QED
        BY <4>3 DEF a, b
    <3>10. Left(u) = (free - u) * PageSize /\ Left(u) \in Int
      BY <1>t, <3>4, ConstantTypes DEF Left
    <3>11. Allocatable(Left(u), k - 1, single) \in Int /\ Allocatable(Left(u), k - 1, single) <= Left(u)
      BY <1>0, <1>y, <3>1, <3>10, BudgetBound
    <3>12. Prompt(r) + Reserved <= (free - u) * PageSize
      BY <3>7, <3>8, <3>9, <3>10, <3>11
    <3>13. PageSize * cost[r] <= Prompt(r) + PageSize - 1
      BY <1>c, <3>1, CeilDivBounds
    <3> DEFINE c == cost[r]
               p == PageSize
               a == Prompt(r)
    <3>14. c \in Nat /\ p \in Nat /\ p > 0 /\ a \in Nat /\ Reserved \in Nat /\ Reserved >= p - 1
      BY <1>c, <3>1, ConstantTypes
    <3>15. p * c <= a + p - 1 /\ a + Reserved <= (free - u) * p
      BY <3>12, <3>13
    <3> HIDE DEF c, p, a
    <3>16. c + u <= free
      <4> SUFFICES ASSUME c >= free - u + 1 PROVE FALSE
        BY <1>t, <3>4, <3>14
      <4>1. PICK z \in Int : z = free - u
        BY <1>t, <3>4
      <4>2. p * c >= p * (z + 1) /\ p * (z + 1) = p * z + p /\ p * z = z * p
        BY <3>14, <4>1
      <4> QED
        BY <3>14, <3>15, <4>1, <4>2
    <3> QED
      BY <2>1, <3>5, <3>16 DEF c
  <2> QED
    BY <2>2, <2>3
<1>1. /\ prealloc' = Without(prealloc, failed \cup T) /\ transfer' = transfer \o taken
      /\ kv' = [r \in Req |-> IF r \in T THEN Prompt(r) ELSE kv[r]]
      /\ free' = free - Total(cost, T) /\ Answer(failed)
      /\ pc' = "transfer"
      /\ ready' = ready \cup Polled("input")
      /\ UNCHANGED <<poll, waiting, running, retracted, out, to_finish, finished>>
  <2>1. ~ (pagesTo(k) > free)
    BY <1>p, <1>t
  <2> QED
    BY <1>p, <2>1 DEF PopPreallocated, K, retractable, single, queue, cost
<1>f. /\ failed \subseteq Set(prealloc) /\ T \subseteq Set(prealloc) \ failed
      /\ Set(prealloc) \subseteq Req /\ Polled("input") \subseteq Req
  BY <1>q, <1>s, <1>t, SetType DEF Polled
<1>h. \A r \in T \cup failed : answered[r] = 0 /\ out[r] = 0 /\ kv[r] = 0
  <2>1. \A r \in Set(prealloc) : r \notin Set(transfer) \cup Set(waiting) \cup Live
    BY <1>0 DEF Apart, Live
  <2> QED
    BY <1>0, <1>f, <2>1 DEF Unanswered, Lengths
<1>2. kv' \in [Req -> Nat] /\ free' \in Nat /\ Pool'
  <2>1. \A r \in T : kv[r] = 0 /\ len[r] \in Nat /\ cost[r] = CeilDiv(len[r])
    BY <1>c, <1>s, <1>h
  <2>2. kv' = [r \in Req |-> IF r \in T THEN len[r] ELSE kv[r]]
    BY <1>1, <1>s
  <2>4. free' = free - Total(cost, T) /\ Total(cost, T) <= free
    BY <1>1, <1>p
  <2> HIDE DEF len, T
  <2> QED
    BY <1>0, <1>s, <2>1, <2>2, <2>4, TakePool
<1> HIDE DEF k, taken, T, len, failed
<1>3. transfer' \in Seq(Req) /\ Set(transfer') = Set(transfer) \cup T /\ IsInjective(transfer')
  <2>1. Set(transfer) \cap Set(taken) = {}
    BY <1>0, <1>f DEF Apart, T
  <2> QED
    BY <1>1, <1>t, <1>s, <2>1, SetConcat DEF T
<1>4. prealloc' \in Seq(Req) /\ Set(prealloc') = Set(prealloc) \ (failed \cup T) /\ IsInjective(prealloc')
  BY <1>1, <1>t, WithoutFacts
<1>a. /\ answered' \in [Req -> 0 .. 1]
      /\ \A q \in Req : answered'[q] = IF q \in failed THEN 1 ELSE answered[q]
  BY <1>0, <1>1, <1>f, <1>h, AnswerFacts
<1>5. Types'
  BY <1>0, <1>1, <1>f, <1>2, <1>3, <1>4, <1>a DEF Types
<1>6. Apart'
  BY <1>0, <1>1, <1>3, <1>4, <1>f DEF Apart
<1>7. Live' = Live /\ Live \subseteq Set(running) /\ Placed' = Placed \ failed
  <2>1. Placed' = Placed \ failed
    BY <1>0, <1>1, <1>3, <1>4, <1>f DEF Apart, Placed
  <2> QED
    BY <1>1, <2>1 DEF Live
<1>u. /\ Set(transfer) \subseteq Req /\ Set(waiting) \subseteq Req /\ Set(running) \subseteq Req
      /\ Set(retracted) \subseteq Req /\ finished \subseteq Req
  BY <1>0, SetType DEF Types
<1>n. Set(prealloc) \cap (Set(transfer) \cup Set(waiting) \cup Set(running) \cup Set(retracted)) = {}
  BY <1>0 DEF Apart
<1>8. Unanswered'
  <2>1. failed \cap finished = {}
    BY <1>0, <1>h DEF Unanswered
  <2>2. \A q \in finished' : answered'[q] = 1
    BY <1>0, <1>1, <1>a, <1>u, <2>1 DEF Unanswered
  <2>4. ASSUME NEW q \in (Set(prealloc) \cup Set(transfer) \cup Set(waiting) \cup Live \cup Set(retracted))'
        PROVE  answered'[q] = 0
    <3>1. q \in Set(prealloc) \cup Set(transfer) \cup Set(waiting) \cup Live \cup Set(retracted)
      BY <1>1, <1>3, <1>4, <1>7, <1>f
    <3>2. q \notin failed /\ q \in Req
      BY <1>1, <1>3, <1>4, <1>7, <1>f, <1>u, <1>n
    <3> QED
      BY <1>0, <1>a, <3>1, <3>2 DEF Unanswered
  <2> QED
    BY <2>2, <2>4 DEF Unanswered
<1>9. Lengths'
  <2>1. \A q \in Req : kv'[q] = IF q \in T THEN Prompt(q) ELSE kv[q]
    BY <1>1
  <2>2. \A q \in Req : Prompt(q)' = Prompt(q) /\ MaxNew(q)' = MaxNew(q)
    BY DEF Prompt, MaxNew
  <2>3. T \cap (Set(transfer) \cup Set(waiting) \cup Live) = {}
    BY <1>n, <1>f, <1>7
  <2>4. \A q \in Set(transfer)' : out'[q] = 0 /\ kv'[q] = Prompt(q)'
    BY <1>0, <1>1, <1>3, <1>h, <1>u, <1>f, <2>1, <2>2, <2>3 DEF Lengths
  <2>5. \A q \in Set(waiting)' : out'[q] >= 1 /\ kv'[q] = Prompt(q)' + out'[q] - 1
    BY <1>0, <1>1, <1>u, <2>1, <2>2, <2>3 DEF Lengths
  <2>6. \A q \in Live' : out'[q] >= 1 /\ out'[q] < MaxNew(q)' /\ kv'[q] = Prompt(q)' + out'[q] - 1
    BY <1>0, <1>1, <1>7, <1>u, <2>1, <2>2, <2>3 DEF Lengths
  <2>7. \A q \in Req : q \notin Set(transfer)' \cup Set(waiting)' \cup Live' => kv'[q] = 0
    BY <1>0, <1>1, <1>3, <1>7, <2>1 DEF Lengths
  <2>8. \A q \in Req : q \notin Placed' /\ answered'[q] = 0 => out'[q] = 0
    BY <1>0, <1>1, <1>7, <1>a DEF Lengths
  <2>9. \A q \in Set(prealloc)' : q \in Set(prealloc) /\ q \in Req
    BY <1>4, <1>f
  <2> QED
    BY <1>0, <1>1, <1>u, <2>2, <2>4, <2>5, <2>6, <2>7, <2>8, <2>9 DEF Lengths
<1> QED
  BY <1>2, <1>5, <1>6, <1>8, <1>9 DEF QueuesInv

-----------------------------------------------------------------------------
(* The transfers that ended, the prebuilt batch and the decode step.        *)

LEMMA PopTransferredStep ==
  ASSUME QueuesInv, UNCHANGED load, PopTransferred
  PROVE  QueuesInv'
<1> DEFINE failed == {r \in Set(transfer) : poll[r] = "failed"}
           landed == {r \in Set(transfer) : poll[r] = "ok"}
<1>0. Types /\ Apart /\ Unanswered /\ Lengths /\ Pool
  BY DEF QueuesInv
<1>t. /\ transfer \in Seq(Req) /\ IsInjective(transfer)
      /\ waiting \in Seq(Req) /\ IsInjective(waiting)
      /\ Set(transfer) \cap Set(waiting) = {} /\ Set(transfer) \subseteq Req
  BY <1>0, SetType DEF Types, Apart
<1>1. /\ transfer' = Without(transfer, failed \cup landed)
      /\ waiting' = waiting \o Only(transfer, landed)
      /\ out' = [r \in Req |-> IF r \in landed THEN 1 ELSE out[r]]
      /\ free' = FreeOf(failed) /\ kv' = Zero(kv, failed) /\ Answer(failed)
      /\ pc' = "batch"
      /\ UNCHANGED <<prealloc, ready, poll, running, retracted, to_finish, finished>>
  BY DEF PopTransferred
<1>f. /\ failed \subseteq Set(transfer) /\ landed \subseteq Set(transfer) /\ failed \cap landed = {}
      /\ failed \subseteq Req /\ landed \subseteq Req
  BY <1>t
<1> HIDE DEF failed, landed
<1>2. transfer' \in Seq(Req) /\ Set(transfer') = Set(transfer) \ (failed \cup landed) /\ IsInjective(transfer')
  BY <1>1, <1>t, WithoutFacts
<1>3. waiting' \in Seq(Req) /\ Set(waiting') = Set(waiting) \cup landed /\ IsInjective(waiting')
  <2> DEFINE new == Only(transfer, landed)
  <2>1. new \in Seq(Req) /\ Set(new) = landed /\ IsInjective(new)
    <3>1. new \in Seq(Req) /\ Set(new) = Set(transfer) \cap landed /\ IsInjective(new)
      BY <1>t, OnlyFacts
    <3> QED
      BY <1>f, <3>1
  <2> HIDE DEF new
  <2>2. Set(waiting) \cap Set(new) = {}
    BY <1>t, <1>f, <2>1
  <2>3. waiting' = waiting \o new
    BY <1>1 DEF new
  <2> QED
    BY <1>t, <2>1, <2>2, <2>3, SetConcat
<1>4. kv' \in [Req -> Nat] /\ free' \in Nat /\ Pool'
  BY <1>0, <1>1, <1>f, ReleasePool
<1>5. \A q \in failed \cup landed : answered[q] = 0 /\ out[q] = 0 /\ kv[q] = Prompt(q)
  BY <1>0, <1>f DEF Unanswered, Lengths
<1>6. /\ answered' \in [Req -> 0 .. 1]
      /\ \A q \in Req : answered'[q] = IF q \in failed THEN 1 ELSE answered[q]
  BY <1>0, <1>1, <1>f, <1>5, AnswerFacts
<1>7. Types'
  <2>1. out' \in [Req -> Nat]
    BY <1>0, <1>1 DEF Types
  <2> QED
    BY <1>0, <1>1, <1>2, <1>3, <1>4, <1>6, <2>1 DEF Types
<1>8. Apart'
  BY <1>0, <1>1, <1>2, <1>3, <1>f DEF Apart
<1>u. /\ Set(prealloc) \subseteq Req /\ Set(waiting) \subseteq Req /\ Set(running) \subseteq Req
      /\ Set(retracted) \subseteq Req /\ finished \subseteq Req
  BY <1>0, SetType DEF Types
<1>n. Set(transfer) \cap (Set(prealloc) \cup Set(waiting) \cup Set(running) \cup Set(retracted)) = {}
  BY <1>0 DEF Apart
<1>v. Live' = Live /\ Live \subseteq Set(running) /\ Placed' = Placed \ failed
  <2>1. Placed' = Placed \ failed
    BY <1>1, <1>2, <1>3, <1>f, <1>n DEF Placed
  <2> QED
    BY <1>1, <2>1 DEF Live
<1>9. Unanswered'
  <2>1. failed \cap finished = {}
    BY <1>0, <1>5 DEF Unanswered
  <2>2. \A q \in finished' : answered'[q] = 1
    BY <1>0, <1>1, <1>6, <1>u, <2>1 DEF Unanswered
  <2>4. ASSUME NEW q \in (Set(prealloc) \cup Set(transfer) \cup Set(waiting) \cup Live \cup Set(retracted))'
        PROVE  answered'[q] = 0
    <3>1. q \in Set(prealloc) \cup Set(transfer) \cup Set(waiting) \cup Live \cup Set(retracted)
      BY <1>1, <1>2, <1>3, <1>v, <1>f
    <3>2. q \notin failed /\ q \in Req
      BY <1>1, <1>2, <1>3, <1>v, <1>f, <1>u, <1>n, <1>t
    <3> QED
      BY <1>0, <1>6, <3>1, <3>2 DEF Unanswered
  <2> QED
    BY <2>2, <2>4 DEF Unanswered
<1>10. Lengths'
  <2>1. \A q \in Req : /\ kv'[q] = IF q \in failed THEN 0 ELSE kv[q]
                       /\ out'[q] = IF q \in landed THEN 1 ELSE out[q]
    BY <1>1 DEF Zero
  <2>2. \A q \in Req : Prompt(q)' = Prompt(q) /\ MaxNew(q)' = MaxNew(q)
    BY DEF Prompt, MaxNew
  <2>x. \A q \in Req : Prompt(q) \in Nat /\ MaxNew(q) \in Nat /\ MaxNew(q) >= 1
    BY <1>0, LoadTypes DEF Types
  <2>3. \A q \in Req : out'[q] <= MaxNew(q)'
    BY <1>0, <2>1, <2>2, <2>x DEF Lengths
  <2>4. \A q \in Set(transfer)' : out'[q] = 0 /\ kv'[q] = Prompt(q)'
    BY <1>0, <1>2, <1>t, <2>1, <2>2 DEF Lengths
  <2>5. \A q \in Set(waiting)' : out'[q] >= 1 /\ kv'[q] = Prompt(q)' + out'[q] - 1
    <3> SUFFICES ASSUME NEW q \in Set(waiting)' PROVE out'[q] >= 1 /\ kv'[q] = Prompt(q)' + out'[q] - 1
      OBVIOUS
    <3>1. CASE q \in landed
      BY <1>5, <1>f, <2>1, <2>2, <2>x, <3>1
    <3>2. CASE q \notin landed
      <4>1. q \in Set(waiting) /\ q \in Req /\ q \notin failed
        BY <1>3, <1>f, <1>n, <1>u, <3>2
      <4> QED
        BY <1>0, <2>1, <2>2, <3>2, <4>1 DEF Lengths
    <3> QED
      BY <3>1, <3>2
  <2>6. \A q \in Live' : out'[q] >= 1 /\ out'[q] < MaxNew(q)' /\ kv'[q] = Prompt(q)' + out'[q] - 1
    BY <1>0, <1>f, <1>n, <1>v, <1>u, <2>1, <2>2 DEF Lengths
  <2>7. \A q \in Req : q \notin Set(transfer)' \cup Set(waiting)' \cup Live' => kv'[q] = 0
    BY <1>0, <1>2, <1>3, <1>v, <2>1 DEF Lengths
  <2>8. \A q \in Req : q \notin Placed' /\ answered'[q] = 0 => out'[q] = 0
    <3>1. landed \subseteq Placed
      BY <1>f DEF Placed
    <3> QED
      BY <1>0, <1>6, <1>f, <1>v, <2>1, <3>1 DEF Lengths
  <2>9. \A q \in Set(prealloc)' : out'[q] = 0
    BY <1>0, <1>1, <1>f, <1>n, <1>u, <2>1 DEF Lengths
  <2>10. \A q \in Set(retracted)' : out'[q] >= 1 /\ out'[q] < MaxNew(q)'
    BY <1>0, <1>1, <1>f, <1>n, <1>u, <2>1, <2>2 DEF Lengths
  <2> QED
    BY <2>3, <2>4, <2>5, <2>6, <2>7, <2>8, <2>9, <2>10 DEF Lengths
<1> QED
  BY <1>4, <1>7, <1>8, <1>9, <1>10 DEF QueuesInv

\* A request that does not finish has output left to produce.
LEMMA StopsFacts ==
  ASSUME NEW S, NEW o, NEW F \in Stops(S, o)
  PROVE  F \subseteq S /\ \A r \in S \ F : ~ (o[r] >= MaxNew(r))
BY DEF Stops

LEMMA PrebuiltStep ==
  ASSUME QueuesInv, UNCHANGED load, Prebuilt
  PROVE  QueuesInv'
<1> DEFINE n == Min({Len(waiting), FreePlaces})
           batch == SubSeq(waiting, 1, n)
           rest == SubSeq(waiting, n + 1, Len(waiting))
           B == Set(batch)
<1>0. Types /\ Apart /\ Unanswered /\ Lengths /\ Pool
  BY DEF QueuesInv
<1>t. /\ waiting \in Seq(Req) /\ IsInjective(waiting) /\ Len(waiting) \in Nat
      /\ running \in Seq(Req) /\ IsInjective(running) /\ Len(running) \in Nat
      /\ Set(waiting) \cap Set(running) = {} /\ Set(waiting) \subseteq Req
  BY <1>0, SetType DEF Types, Apart
<1>1. PICK F \in Stops(B, out) :
        /\ waiting' = rest /\ running' = running \o Without(batch, F)
        /\ finished' = finished \cup F /\ free' = FreeOf(F) /\ kv' = Zero(kv, F) /\ Answer(F)
  BY DEF Prebuilt
<1>2. pc' = "decode" /\ UNCHANGED <<prealloc, ready, transfer, poll, retracted, out, to_finish>>
  BY DEF Prebuilt
<1>3. n \in 0 .. Len(waiting)
  <2>1. MaxRunning - Len(running) \in Int
    BY <1>t, ConstantTypes
  <2>2. FreePlaces \in Nat
    <3> DEFINE d == MaxRunning - Len(running)
    <3>0. d \in Int /\ 0 \in Int
      BY <2>1
    <3> HIDE DEF d
    <3>1. Max({0, d}) = IF 0 <= d THEN d ELSE 0
      BY <3>0, MinMaxPair
    <3>2. Max({0, d}) \in Nat
      BY <3>0, <3>1
    <3> QED
      BY <3>2 DEF FreePlaces, d
  <2>3. Min({Len(waiting), FreePlaces}) = IF Len(waiting) <= FreePlaces THEN Len(waiting) ELSE FreePlaces
    <3>1. Len(waiting) \in Int /\ FreePlaces \in Int
      BY <1>t, <2>2
    <3> QED
      BY <3>1, MinMaxPair
  <2> QED
    BY <1>t, <2>2, <2>3
<1> HIDE DEF n
<1>s. /\ batch \in Seq(Req) /\ rest \in Seq(Req) /\ Set(waiting) = B \cup Set(rest)
      /\ IsInjective(batch) /\ IsInjective(rest) /\ B \cap Set(rest) = {}
  BY <1>t, <1>3, SetSplit
<1> HIDE DEF batch, rest, B
<1>F. F \subseteq B /\ B \subseteq Set(waiting) /\ F \subseteq Req /\ \A r \in B \ F : ~ (out[r] >= MaxNew(r))
  BY <1>t, <1>s, StopsFacts
<1>4. kv' \in [Req -> Nat] /\ free' \in Nat /\ Pool'
  BY <1>0, <1>1, <1>F, ReleasePool
<1>5. \A q \in B : answered[q] = 0 /\ q \notin finished
  <2>1. \A q \in B : answered[q] = 0
    BY <1>0, <1>F DEF Unanswered
  <2> QED
    BY <1>0, <2>1 DEF Unanswered
<1>6. /\ answered' \in [Req -> 0 .. 1]
      /\ \A q \in Req : answered'[q] = IF q \in F THEN 1 ELSE answered[q]
  <2>1. \A q \in F : answered[q] = 0
    BY <1>5, <1>F
  <2> QED
    BY <1>0, <1>1, <1>F, <2>1, AnswerFacts
<1>7. waiting' \in Seq(Req) /\ Set(waiting') = Set(waiting) \ B /\ IsInjective(waiting')
  BY <1>1, <1>s
<1>8. running' \in Seq(Req) /\ Set(running') = Set(running) \cup (B \ F) /\ IsInjective(running')
  <2> DEFINE new == Without(batch, F)
  <2>1. new \in Seq(Req) /\ Set(new) = B \ F /\ IsInjective(new)
    BY <1>s, WithoutFacts DEF B
  <2> HIDE DEF new
  <2>2. Set(running) \cap Set(new) = {}
    BY <1>t, <1>F, <2>1
  <2>3. running' = running \o new
    BY <1>1 DEF new
  <2> QED
    BY <1>t, <2>1, <2>2, <2>3, SetConcat
<1>9. Types'
  BY <1>0, <1>1, <1>2, <1>4, <1>6, <1>7, <1>8, <1>F DEF Types
<1>10. Apart'
  BY <1>0, <1>2, <1>7, <1>8, <1>F DEF Apart
<1>u. /\ Set(prealloc) \subseteq Req /\ Set(transfer) \subseteq Req /\ Set(running) \subseteq Req
      /\ Set(retracted) \subseteq Req /\ finished \subseteq Req
  BY <1>0, SetType DEF Types
<1>n. Set(waiting) \cap (Set(prealloc) \cup Set(transfer) \cup Set(running) \cup Set(retracted)) = {}
  BY <1>0 DEF Apart
<1>v. Live' = Live \cup (B \ F) /\ Live \subseteq Set(running) /\ Placed' = Placed \ F
  <2>1. Live' = Live \cup (B \ F)
    BY <1>1, <1>8, <1>5, <1>F, <1>n DEF Live
  <2>2. Placed' = Placed \ F
    BY <1>2, <1>7, <1>8, <1>F, <1>n DEF Placed
  <2> QED
    BY <2>1, <2>2 DEF Live
<1>11. Unanswered'
  <2>2. \A q \in finished' : answered'[q] = 1
    BY <1>0, <1>1, <1>6, <1>u, <1>F DEF Unanswered
  <2>4. ASSUME NEW q \in (Set(prealloc) \cup Set(transfer) \cup Set(waiting) \cup Live \cup Set(retracted))'
        PROVE  answered'[q] = 0
    <3>1. q \in Set(prealloc) \cup Set(transfer) \cup Set(waiting) \cup Live \cup Set(retracted)
      BY <1>2, <1>7, <1>v, <1>F
    <3>2. q \notin F /\ q \in Req
      BY <1>2, <1>7, <1>v, <1>F, <1>u, <1>n, <1>t
    <3> QED
      BY <1>0, <1>6, <3>1, <3>2 DEF Unanswered
  <2> QED
    BY <2>2, <2>4 DEF Unanswered
<1>12. Lengths'
  <2>1. \A q \in Req : kv'[q] = IF q \in F THEN 0 ELSE kv[q]
    BY <1>1 DEF Zero
  <2>2. \A q \in Req : Prompt(q)' = Prompt(q) /\ MaxNew(q)' = MaxNew(q)
    BY DEF Prompt, MaxNew
  <2>x. \A q \in Req : out[q] \in Nat /\ MaxNew(q) \in Nat /\ out'[q] = out[q]
    BY <1>0, <1>2, LoadTypes DEF Types
  <2>4. \A q \in Set(transfer)' : out'[q] = 0 /\ kv'[q] = Prompt(q)'
    BY <1>0, <1>2, <1>F, <1>n, <1>u, <2>1, <2>2 DEF Lengths
  <2>5. \A q \in Set(waiting)' : out'[q] >= 1 /\ kv'[q] = Prompt(q)' + out'[q] - 1
    BY <1>0, <1>2, <1>7, <1>F, <1>t, <2>1, <2>2 DEF Lengths
  <2>6. \A q \in Live' : out'[q] >= 1 /\ out'[q] < MaxNew(q)' /\ kv'[q] = Prompt(q)' + out'[q] - 1
    <3> SUFFICES ASSUME NEW q \in Live'
                 PROVE  out'[q] >= 1 /\ out'[q] < MaxNew(q)' /\ kv'[q] = Prompt(q)' + out'[q] - 1
      OBVIOUS
    <3>1. CASE q \in B \ F
      <4>1. q \in Set(waiting) /\ q \in Req /\ ~ (out[q] >= MaxNew(q))
        BY <1>F, <1>t, <3>1
      <4>2. out[q] >= 1 /\ kv[q] = Prompt(q) + out[q] - 1 /\ out[q] < MaxNew(q)
        BY <1>0, <2>x, <4>1 DEF Lengths
      <4> QED
        BY <1>2, <2>1, <2>2, <3>1, <4>1, <4>2
    <3>2. CASE q \in Live
      <4>1. q \in Req /\ q \notin F
        BY <1>F, <1>n, <1>u, <1>v, <3>2
      <4> QED
        BY <1>0, <1>2, <2>1, <2>2, <3>2, <4>1 DEF Lengths
    <3> QED
      BY <1>v, <3>1, <3>2
  <2>7. \A q \in Req : q \notin Set(transfer)' \cup Set(waiting)' \cup Live' => kv'[q] = 0
    BY <1>0, <1>2, <1>7, <1>v, <2>1 DEF Lengths
  <2>8. \A q \in Req : q \notin Placed' /\ answered'[q] = 0 => out'[q] = 0
    BY <1>0, <1>2, <1>6, <1>F, <1>v DEF Lengths
  <2>9. /\ \A q \in Set(prealloc)' : out'[q] = 0
        /\ \A q \in Set(retracted)' : out'[q] >= 1 /\ out'[q] < MaxNew(q)'
        /\ \A q \in Req : out'[q] <= MaxNew(q)'
    BY <1>0, <1>2, <1>u, <2>2 DEF Lengths
  <2> QED
    BY <2>4, <2>5, <2>6, <2>7, <2>8, <2>9 DEF Lengths
<1> QED
  BY <1>4, <1>9, <1>10, <1>11, <1>12 DEF QueuesInv

\* A queue and its reverse hold the same requests.
LEMMA ReverseFacts ==
  ASSUME NEW s \in Seq(Req)
  PROVE  /\ Reverse(s) \in Seq(Req) /\ Set(Reverse(s)) = Set(s)
         /\ IsInjective(s) => IsInjective(Reverse(s))
<1> DEFINE N == Len(s)
           t == Reverse(s)
<1>1. N \in Nat /\ DOMAIN s = 1 .. N
  OBVIOUS
<1>2. t = [i \in 1 .. N |-> s[(N - i) + 1]]
  BY DEF Reverse
<1>3. \A i \in 1 .. N : (N - i) + 1 \in 1 .. N
  BY <1>1
<1>4. t \in Seq(Req) /\ DOMAIN t = 1 .. N /\ \A i \in 1 .. N : t[i] = s[(N - i) + 1]
  BY <1>1, <1>2, <1>3
<1> HIDE DEF t, N
<1>5. Set(t) = Set(s)
  <2>1. ASSUME NEW i \in DOMAIN t PROVE t[i] \in Set(s)
    BY <1>1, <1>3, <1>4 DEF Set
  <2>2. ASSUME NEW i \in DOMAIN s PROVE s[i] \in Set(t)
    <3>1. (N - i) + 1 \in 1 .. N /\ (N - ((N - i) + 1)) + 1 = i
      BY <1>1, <1>3
    <3>2. t[(N - i) + 1] = s[i]
      BY <1>4, <3>1
    <3> QED
      BY <1>4, <3>1, <3>2 DEF Set
  <2> QED
    BY <2>1, <2>2 DEF Set
<1>6. ASSUME IsInjective(s), NEW i \in DOMAIN t, NEW j \in DOMAIN t, t[i] = t[j] PROVE i = j
  <2>1. (N - i) + 1 = (N - j) + 1
    BY <1>1, <1>3, <1>4, <1>6 DEF IsInjective
  <2> QED
    BY <1>1, <1>4, <2>1
<1> QED
  BY <1>4, <1>5, <1>6 DEF IsInjective, t

\* The pages of a decode step: the requests G are released, those of C get a
\* token each and those of F among them are released afterwards.
LEMMA DecodePool ==
  ASSUME Types, Pool, NEW G, G \subseteq Req, NEW C, C \subseteq Req, G \cap C = {},
         NEW F, F \subseteq C,
         kv' = [r \in Req |-> IF r \in G \cup F THEN 0
                              ELSE IF r \in C THEN kv[r] + 1 ELSE kv[r]],
         free' = FreeOf(G) - DecodePages(C) + Total([r \in Req |-> CeilDiv(kv[r] + 1)], F),
         DecodePages(C) <= FreeOf(G)
  PROVE  kv' \in [Req -> Nat] /\ free' \in Nat /\ Pool'
<1> DEFINE f == PagesFor(kv)
           g == PagesFor(kv')
           h == [r \in Req |-> CeilDiv(kv[r] + 1)]
           full == {r \in Req : kv[r] % PageSize = 0}
           L == G \cup C
<1>1. kv \in [Req -> Nat] /\ kv' \in [Req -> Nat] /\ free \in Nat
  BY DEF Types
<1>2. f \in [Req -> Nat] /\ g \in [Req -> Nat]
  BY <1>1, PagesForType
<1>3. \A r \in Req : h[r] \in Nat /\ h[r] = f[r] + (IF r \in full THEN 1 ELSE 0)
  BY <1>1, CeilDivBounds DEF PagesFor
<1>4. \A r \in Req \ L : g[r] = f[r]
  BY DEF PagesFor
<1>5. \A r \in G \cup F : g[r] = 0
  BY CeilDivBounds DEF PagesFor
<1>6. \A r \in C \ F : g[r] = h[r]
  BY DEF PagesFor
<1>7. f = PagesOf /\ g = PagesOf'
  BY DEF PagesFor, PagesOf
<1>8. /\ IsFiniteSet(Req) /\ IsFiniteSet(G) /\ IsFiniteSet(C) /\ IsFiniteSet(F)
      /\ IsFiniteSet(C \ F) /\ IsFiniteSet(L) /\ L \subseteq Req /\ NPages \in Nat
  <2>1. G \in SUBSET Req /\ C \in SUBSET Req /\ F \in SUBSET Req /\ C \ F \in SUBSET Req /\ L \in SUBSET Req
    OBVIOUS
  <2> HIDE DEF L
  <2> QED
    BY <2>1, ConstantTypes, FS_Subset
<1>9. DecodePages(C) = Cardinality(C \cap full)
  <2>1. {r \in C : kv[r] % PageSize = 0} = C \cap full
    OBVIOUS
  <2> QED
    BY <2>1 DEF DecodePages
<1> HIDE DEF f, g, h, full
<1>10. /\ Total(f, Req) \in Int /\ Total(f, L) \in Int /\ Total(g, L) \in Int
       /\ Total(g, Req) = Total(f, Req) - Total(f, L) + Total(g, L)
  <2> HIDE DEF L
  <2>1. \A r \in Req : f[r] \in Int /\ g[r] \in Int
    BY <1>2
  <2> QED
    BY <1>4, <1>8, <2>1, SumChange
<1>11. Total(f, L) = Total(f, G) + Total(f, C) /\ Total(f, G) \in Nat /\ Total(f, C) \in Nat
  BY <1>2, <1>8, SumUnion, SumNat
<1>12. Total(g, L) = Total(g, G) + Total(g, C) /\ Total(g, G) = 0
  <2>1. Total(g, G) = 0
    BY <1>5, <1>8, SumZero
  <2> QED
    BY <1>2, <1>8, <2>1, SumUnion
<1>13. Total(g, C) = Total(h, C) - Total(h, F) /\ Total(h, C) \in Int /\ Total(h, F) \in Nat
  <2>0. C = (C \ F) \cup F /\ (C \ F) \cap F = {}
    OBVIOUS
  <2> DEFINE D == C \ F
  <2> HIDE DEF D
  <2>a. C = D \cup F /\ D \cap F = {} /\ IsFiniteSet(D) /\ \A r \in D : g[r] = h[r]
    BY <2>0, <1>6, <1>8 DEF D
  <2>1. Total(g, D \cup F) = Total(g, D) + Total(g, F)
    BY <1>2, <1>8, <2>a, SumUnion
  <2>2. Total(h, D \cup F) = Total(h, D) + Total(h, F)
    BY <1>3, <1>8, <2>a, SumUnion
  <2>3. Total(g, F) = 0
    BY <1>5, <1>8, SumZero
  <2>4. Total(g, D) = Total(h, D)
    BY <2>a, SumAgree
  <2>5. Total(h, D) \in Nat /\ Total(h, F) \in Nat
    BY <1>3, <1>8, <2>a, SumNat
  <2> QED
    BY <2>a, <2>1, <2>2, <2>3, <2>4, <2>5
<1>14. Total(h, C) = Total(f, C) + Cardinality(C \cap full)
  <2>1. \A r \in C : f[r] \in Int /\ h[r] = f[r] + (IF r \in full THEN 1 ELSE 0)
    BY <1>2, <1>3
  <2> QED
    BY <1>8, <2>1, SumCount
<1>15. Cardinality(C \cap full) \in Nat
  <2>1. C \cap full \in SUBSET C
    OBVIOUS
  <2> QED
    BY <1>8, <2>1, FS_Subset, FS_CardinalityType
<1>16. free' = (free + Total(f, G)) - Cardinality(C \cap full) + Total(h, F)
       /\ Cardinality(C \cap full) <= free + Total(f, G)
  <2>1. free' = FreeOf(G) - DecodePages(C) + Total(h, F)
    BY DEF h
  <2>2. FreeOf(G) = free + Total(f, G)
    BY <1>7 DEF FreeOf
  <2>3. free' = (free + Total(f, G)) - Cardinality(C \cap full) + Total(h, F)
    BY <1>9, <2>1, <2>2
  <2>4. Cardinality(C \cap full) <= free + Total(f, G)
    BY <1>9, <2>2
  <2> QED
    BY <2>3, <2>4
<1>17. free + Total(f, Req) = NPages
  BY <1>7 DEF Pool
<1> DEFINE d == Cardinality(C \cap full)
           fr == Total(f, Req)
           fl == Total(f, L)
           gl == Total(g, L)
           fg == Total(f, G)
           fc == Total(f, C)
           gc == Total(g, C)
           hc == Total(h, C)
           hf == Total(h, F)
           gr == Total(g, Req)
<1>18. /\ d \in Nat /\ fr \in Int /\ fl \in Int /\ gl \in Int /\ fg \in Nat /\ fc \in Nat
       /\ hc \in Int /\ hf \in Nat /\ free \in Nat /\ NPages \in Nat
       /\ gr = fr - fl + gl /\ fl = fg + fc /\ gl = 0 + gc /\ gc = hc - hf /\ hc = fc + d
       /\ free' = (free + fg) - d + hf /\ d <= free + fg /\ free + fr = NPages
  BY <1>1, <1>8, <1>10, <1>11, <1>12, <1>13, <1>14, <1>15, <1>16, <1>17
<1> HIDE DEF d, fr, fl, gl, fg, fc, gc, hc, hf, gr
<1>19. free' \in Nat /\ free' + gr = NPages
  <2>1. gc = fc + d - hf /\ gc \in Int
    BY <1>18
  <2>2. gr = fr - (fg + fc) + (fc + d - hf)
    BY <1>18, <2>1
  <2>3. gr = fr - fg + d - hf
    BY <1>18, <2>2
  <2>4. free' \in Nat
    BY <1>18
  <2> QED
    BY <1>18, <2>3, <2>4
<1> QED
  BY <1>1, <1>7, <1>19 DEF Pool, gr

LEMMA PageCounts ==
  ASSUME Types, NEW S, S \subseteq Req
  PROVE  DecodePages(S) \in Nat /\ FreeOf(S) \in Nat /\ DecodePages({}) = 0 /\ FreeOf({}) = free
<1> DEFINE full == {r \in S : kv[r] % PageSize = 0}
<1>1. IsFiniteSet(S) /\ free \in Nat
  BY ConstantTypes, FS_Subset DEF Types
<1>2. full \in SUBSET S
  OBVIOUS
<1>3. Cardinality(full) \in Nat
  BY <1>1, <1>2, FS_Subset, FS_CardinalityType
<1>4. {r \in {} : kv[r] % PageSize = 0} = {}
  OBVIOUS
<1>5. DecodePages({}) = 0
  BY <1>4, FS_EmptySet DEF DecodePages
<1>6. PagesFor(kv) \in [Req -> Nat] /\ PagesOf = PagesFor(kv)
  BY PagesForType DEF Types, PagesFor, PagesOf
<1>7. \A r \in S : PagesOf[r] \in Nat
  BY <1>6
<1>8. Total(PagesOf, S) \in Nat
  BY <1>1, <1>7, SumNat
<1> QED
  BY <1>1, <1>3, <1>5, <1>8, SumEmpty DEF DecodePages, FreeOf

\* What update_running_batch decodes: the first n of a rearrangement s of the
\* unfinished requests; when they do not fit, only one is left.
LEMMA DecodeChoice ==
  ASSUME QueuesInv, NEW batch, batch = Without(running, finished),
         NEW s, s = IF Enough(batch) THEN batch ELSE Sorted(batch),
         NEW n, n = IF Enough(batch) THEN Len(s) ELSE Keep(s)
  PROVE  /\ s \in Seq(Req) /\ IsInjective(s) /\ Set(s) = Live
         /\ n \in 0 .. Len(s)
         /\ n > 0 /\ DecodePages(Set(SubSeq(s, 1, n))) > FreeOf(Set(SubSeq(s, n + 1, Len(s))))
              => n = 1
<1>0. Types
  BY DEF QueuesInv
<1>1. running \in Seq(Req) /\ IsInjective(running) /\ free \in Nat
  BY DEF QueuesInv, Types, Apart
<1>2. batch \in Seq(Req) /\ IsInjective(batch) /\ Set(batch) = Live
  BY <1>1, WithoutFacts DEF Live
<1>3. s \in Seq(Req) /\ IsInjective(s) /\ Set(s) = Live
  <2>1. CASE Enough(batch)
    BY <1>2, <2>1
  <2>2. CASE ~ Enough(batch)
    BY <1>0, <1>2, <2>2, SortedFacts
  <2> QED
    BY <2>1, <2>2
<1>4. CASE Enough(batch)
  <2>1. s = batch /\ n = Len(s) /\ Len(s) \in Nat
    BY <1>3, <1>4
  <2>2. SubSeq(s, 1, n) = s
    BY <1>3, <2>1
  <2>3. Set(SubSeq(s, n + 1, Len(s))) = {}
    <3>1. DOMAIN SubSeq(s, n + 1, Len(s)) = {}
      BY <1>3, <2>1
    <3> QED
      BY <3>1 DEF Set
  <2>4. FreeOf({}) = free
    BY <1>0, PageCounts
  <2>5. DecodePages(Set(s)) <= free /\ DecodePages(Set(s)) \in Nat
    <3>1. Set(s) \subseteq Req
      BY <1>3, SetType
    <3> QED
      BY <1>0, <1>4, <2>1, <3>1, PageCounts DEF Enough
  <2>6. ~ (DecodePages(Set(SubSeq(s, 1, n))) > FreeOf(Set(SubSeq(s, n + 1, Len(s)))))
    <3>1. DecodePages(Set(SubSeq(s, 1, n))) = DecodePages(Set(s))
      BY <2>2, Zenon
    <3>2. FreeOf(Set(SubSeq(s, n + 1, Len(s)))) = free
      BY <2>3, <2>4, Zenon
    <3>3. ~ (DecodePages(Set(s)) > free)
      BY <1>1, <2>5
    <3> QED
      BY <3>1, <3>2, <3>3, Zenon
  <2> QED
    BY <1>3, <2>1, <2>6
<1>5. CASE ~ Enough(batch)
  <2> DEFINE fits(m) == DecodePages(Set(SubSeq(s, 1, m))) <= FreeOf(Set(SubSeq(s, m + 1, Len(s))))
             M == {1} \cup {m \in 1 .. Len(s) - 1 : fits(m)}
  <2>1. n = Keep(s) /\ Len(s) \in Nat
    BY <1>3, <1>5
  <2>2. Len(s) # 0
    <3> SUFFICES ASSUME Len(s) = 0 PROVE FALSE
      OBVIOUS
    <3>1. Set(batch) = {}
      <4>1. DOMAIN s = {}
        BY <1>3
      <4> QED
        BY <1>2, <1>3, <4>1 DEF Set
    <3>2. DecodePages({}) = 0
      BY <1>0, PageCounts
    <3> QED
      BY <1>1, <1>5, <3>1, <3>2 DEF Enough
  <2>3. CASE Len(s) = 1
    BY <1>3, <2>1, <2>3 DEF Keep
  <2>4. CASE Len(s) # 1
    <3>1. n = Max(M)
      BY <2>1, <2>4 DEF Keep
    <3>2. M \subseteq 0 .. Len(s) /\ 1 \in M
      BY <2>1, <2>2
    <3>3. Max(M) \in M
      <4> HIDE DEF M
      <4> QED
        BY <2>1, <3>2, MaxExists
    <3>4. n \in 0 .. Len(s) /\ (n = 1 \/ fits(n))
      BY <3>1, <3>2, <3>3
    <3>5. DecodePages(Set(SubSeq(s, 1, n))) \in Int /\ FreeOf(Set(SubSeq(s, n + 1, Len(s)))) \in Int
      <4> DEFINE A == Set(SubSeq(s, 1, n))
                 B == Set(SubSeq(s, n + 1, Len(s)))
      <4>1. A \subseteq Req /\ B \subseteq Req /\ IsFiniteSet(A) /\ IsFiniteSet(B)
        <5>1. SubSeq(s, 1, n) \in Seq(Req) /\ SubSeq(s, n + 1, Len(s)) \in Seq(Req)
          BY <1>3, <3>4, SetSplit
        <5> QED
          BY <5>1, SetType
      <4> HIDE DEF A, B
      <4>2. DecodePages(A) \in Nat /\ FreeOf(B) \in Nat
        BY <1>0, <4>1, PageCounts
      <4> QED
        BY <4>2 DEF A, B
    <3> QED
      BY <1>3, <3>4, <3>5
  <2> QED
    BY <2>3, <2>4
<1> QED
  BY <1>4, <1>5

LEMMA DecodeStep ==
  ASSUME QueuesInv, UNCHANGED load, Decode
  PROVE  QueuesInv'
<1>0. Types /\ Apart /\ Unanswered /\ Lengths /\ Pool
  BY DEF QueuesInv
<1> DEFINE lost(s, n) == IF n > 0 /\ DecodePages(Set(SubSeq(s, 1, n))) > FreeOf(Set(Victims(s, n)))
                         THEN {s[1]} ELSE {}
           kept(s, n) == Without(SubSeq(s, 1, n), lost(s, n))
           gone(s, n) == Set(Victims(s, n)) \cup lost(s, n)
           grown(s, n) == [r \in Req |-> IF r \in Set(kept(s, n)) THEN out[r] + 1 ELSE out[r]]
<1>1. PICK batch \in {Without(running, finished)} :
      \E s \in {IF Enough(batch) THEN batch ELSE Sorted(batch)} :
      \E n \in {IF Enough(batch) THEN Len(s) ELSE Keep(s)} :
      \E F \in Stops(Set(kept(s, n)), grown(s, n)) :
        /\ running' = kept(s, n)
        /\ retracted' = retracted \o Victims(s, n)
        /\ out' = grown(s, n)
        /\ kv' = [r \in Req |-> IF r \in gone(s, n) \cup F THEN 0
                                ELSE IF r \in Set(kept(s, n)) THEN kv[r] + 1 ELSE kv[r]]
        /\ free' = FreeOf(gone(s, n)) - DecodePages(Set(kept(s, n)))
                     + Total([r \in Req |-> CeilDiv(kv[r] + 1)], F)
        /\ finished' = finished \cup F
        /\ Answer(F \cup lost(s, n))
  BY DEF Decode
<1>2. pc' = "input" /\ UNCHANGED <<prealloc, ready, transfer, poll, waiting, to_finish>>
  BY DEF Decode
<1>3. PICK s \in {IF Enough(batch) THEN batch ELSE Sorted(batch)} :
      \E n \in {IF Enough(batch) THEN Len(s) ELSE Keep(s)} :
      \E F \in Stops(Set(kept(s, n)), grown(s, n)) :
        /\ running' = kept(s, n)
        /\ retracted' = retracted \o Victims(s, n)
        /\ out' = grown(s, n)
        /\ kv' = [r \in Req |-> IF r \in gone(s, n) \cup F THEN 0
                                ELSE IF r \in Set(kept(s, n)) THEN kv[r] + 1 ELSE kv[r]]
        /\ free' = FreeOf(gone(s, n)) - DecodePages(Set(kept(s, n)))
                     + Total([r \in Req |-> CeilDiv(kv[r] + 1)], F)
        /\ finished' = finished \cup F
        /\ Answer(F \cup lost(s, n))
  BY <1>1, Zenon
<1>4. PICK n \in {IF Enough(batch) THEN Len(s) ELSE Keep(s)} :
      \E F \in Stops(Set(kept(s, n)), grown(s, n)) :
        /\ running' = kept(s, n)
        /\ retracted' = retracted \o Victims(s, n)
        /\ out' = grown(s, n)
        /\ kv' = [r \in Req |-> IF r \in gone(s, n) \cup F THEN 0
                                ELSE IF r \in Set(kept(s, n)) THEN kv[r] + 1 ELSE kv[r]]
        /\ free' = FreeOf(gone(s, n)) - DecodePages(Set(kept(s, n)))
                     + Total([r \in Req |-> CeilDiv(kv[r] + 1)], F)
        /\ finished' = finished \cup F
        /\ Answer(F \cup lost(s, n))
  BY <1>3, Zenon
<1> DEFINE P == Set(SubSeq(s, 1, n))
           V == Set(SubSeq(s, n + 1, Len(s)))
           W == Victims(s, n)
           X == lost(s, n)
           G == gone(s, n)
           C == Set(kept(s, n))
<1>5. PICK F \in Stops(C, out') :
        /\ running' = kept(s, n)
        /\ retracted' = retracted \o W
        /\ out' = [r \in Req |-> IF r \in C THEN out[r] + 1 ELSE out[r]]
        /\ kv' = [r \in Req |-> IF r \in G \cup F THEN 0
                                ELSE IF r \in C THEN kv[r] + 1 ELSE kv[r]]
        /\ free' = FreeOf(G) - DecodePages(C) + Total([r \in Req |-> CeilDiv(kv[r] + 1)], F)
        /\ finished' = finished \cup F
        /\ Answer(F \cup X)
  BY <1>4, Zenon
<1>6. /\ s \in Seq(Req) /\ IsInjective(s) /\ Set(s) = Live /\ n \in 0 .. Len(s)
      /\ n > 0 /\ DecodePages(P) > FreeOf(V) => n = 1
  BY DecodeChoice
<1>7. /\ SubSeq(s, 1, n) \in Seq(Req) /\ IsInjective(SubSeq(s, 1, n))
      /\ Len(SubSeq(s, 1, n)) = n
      /\ SubSeq(s, n + 1, Len(s)) \in Seq(Req) /\ IsInjective(SubSeq(s, n + 1, Len(s)))
      /\ P \cup V = Live /\ P \cap V = {}
  BY <1>6, SetSplit
<1>a. P \subseteq Req /\ V \subseteq Req
  BY <1>7, SetType
<1>8. W \in Seq(Req) /\ Set(W) = V /\ IsInjective(W)
  BY <1>7, ReverseFacts DEF Victims
<1>9. X \subseteq P
  <2>1. n > 0 => s[1] \in P
    <3> SUFFICES ASSUME n > 0 PROVE s[1] \in P
      OBVIOUS
    <3>1. 1 \in DOMAIN SubSeq(s, 1, n) /\ SubSeq(s, 1, n)[1] = s[1]
      BY <1>6, <1>7
    <3> QED
      BY <3>1 DEF Set
  <2> QED
    BY <2>1
<1>10. kept(s, n) \in Seq(Req) /\ IsInjective(kept(s, n)) /\ C = P \ X /\ G = V \cup X
  <2>1. kept(s, n) = Without(SubSeq(s, 1, n), X)
    OBVIOUS
  <2>2. G = V \cup X
    BY <1>8
  <2>3. /\ Without(SubSeq(s, 1, n), X) \in Seq(Req) /\ IsInjective(Without(SubSeq(s, 1, n), X))
        /\ Set(Without(SubSeq(s, 1, n), X)) = P \ X
    <3> HIDE DEF X
    <3> QED
      BY <1>7, WithoutFacts
  <2> QED
    BY <2>1, <2>2, <2>3
<1>11. X # {} => C = {}
  <2> SUFFICES ASSUME X # {} PROVE C = {}
    OBVIOUS
  <2>1. n > 0 /\ DecodePages(P) > FreeOf(V) /\ X = {s[1]}
    BY <1>8
  <2>2. n = 1
    BY <1>6, <2>1
  <2>3. P = {s[1]}
    <3>1. DOMAIN SubSeq(s, 1, n) = {1} /\ SubSeq(s, 1, n)[1] = s[1]
      BY <1>6, <1>7, <2>2
    <3> QED
      BY <3>1 DEF Set
  <2> QED
    BY <1>10, <2>1, <2>3
<1>12. X = {} => n = 0 \/ DecodePages(P) <= FreeOf(V)
  <2>1. X = {} => ~ (n > 0) \/ ~ (DecodePages(P) > FreeOf(V))
    BY <1>8
  <2>2. DecodePages(P) \in Nat /\ FreeOf(V) \in Nat
    BY <1>0, <1>a, PageCounts
  <2> QED
    BY <1>6, <2>1, <2>2
<1>b. DecodePages(C) <= FreeOf(G)
  <2>1. CASE X = {}
    <3>1. C = P /\ G = V
      BY <1>10, <2>1
    <3>2. CASE n = 0
      <4>1. P = {}
        BY <1>7, <3>2 DEF Set
      <4>2. DecodePages(C) = 0 /\ FreeOf(G) \in Nat
        BY <1>0, <1>a, <3>1, <4>1, PageCounts
      <4> QED
        BY <4>2
    <3>3. CASE DecodePages(P) <= FreeOf(V)
      BY <3>1, <3>3
    <3> QED
      BY <1>12, <2>1, <3>2, <3>3
  <2>2. CASE X # {}
    <3>1. C = {} /\ G \subseteq Req
      BY <1>9, <1>10, <1>11, <1>a, <2>2
    <3>2. DecodePages(C) = 0 /\ FreeOf(G) \in Nat
      BY <1>0, <3>1, PageCounts
    <3> QED
      BY <3>2
  <2> QED
    BY <2>1, <2>2
<1>F. /\ F \subseteq C /\ C \subseteq Live /\ G \subseteq Live /\ G \cap C = {} /\ X \subseteq G
      /\ C \subseteq Req /\ G \subseteq Req /\ Live \subseteq Set(running) \ finished
      /\ \A r \in C \ F : ~ (out'[r] >= MaxNew(r))
  <2> HIDE DEF P, V, C, G, X
  <2>1. F \subseteq C /\ \A r \in C \ F : ~ (out'[r] >= MaxNew(r))
    BY <1>5, StopsFacts
  <2> QED
    BY <1>7, <1>9, <1>10, <1>a, <2>1 DEF Live
<1> HIDE DEF P, V, W, X, G, C
<1>13. kv' \in [Req -> Nat] /\ free' \in Nat /\ Pool'
  BY <1>0, <1>5, <1>b, <1>F, DecodePool
<1>l. \A r \in Live : /\ answered[r] = 0 /\ r \in Req /\ out[r] \in Nat /\ out[r] >= 1
                      /\ out[r] < MaxNew(r) /\ kv[r] = Prompt(r) + out[r] - 1
                      /\ Prompt(r) \in Nat /\ MaxNew(r) \in Nat
  <2>1. Live \subseteq Req
    BY <1>0, SetType DEF Live, Types
  <2>2. \A r \in Req : out[r] \in Nat /\ Prompt(r) \in Nat /\ MaxNew(r) \in Nat
    BY <1>0, LoadTypes DEF Types
  <2> QED
    BY <1>0, <2>1, <2>2 DEF Unanswered, Lengths
<1>14. /\ answered' \in [Req -> 0 .. 1]
       /\ \A q \in Req : answered'[q] = IF q \in F \cup X THEN 1 ELSE answered[q]
  <2>1. F \cup X \subseteq Req /\ \A q \in F \cup X : answered[q] = 0
    BY <1>F, <1>l
  <2> QED
    BY <1>0, <1>5, <2>1, AnswerFacts
<1>15. running' \in Seq(Req) /\ Set(running') = C /\ IsInjective(running')
  BY <1>5, <1>10 DEF C
<1>r. retracted \in Seq(Req) /\ IsInjective(retracted) /\ Set(retracted) \cap Set(running) = {}
  BY <1>0 DEF Types, Apart
<1>V. Set(W) = G \ X /\ G = V \cup X /\ V \subseteq Set(running) /\ Set(W) = V
  BY <1>8, <1>7, <1>9, <1>10, <1>F DEF Live
<1>16. retracted' \in Seq(Req) /\ Set(retracted') = Set(retracted) \cup (G \ X) /\ IsInjective(retracted')
  <2>1. Set(retracted) \cap Set(W) = {}
    BY <1>r, <1>V
  <2>2. W \in Seq(Req) /\ IsInjective(W) /\ retracted' = retracted \o W
    BY <1>5, <1>8
  <2>3. retracted' \in Seq(Req) /\ Set(retracted') = Set(retracted) \cup Set(W) /\ IsInjective(retracted')
    BY <1>r, <2>1, <2>2, SetConcat
  <2> QED
    BY <2>3, <1>V
<1>17. Types'
  <2>1. out' \in [Req -> Nat]
    BY <1>0, <1>5 DEF Types
  <2> QED
    BY <1>0, <1>2, <1>5, <1>13, <1>14, <1>15, <1>16, <1>F, <2>1 DEF Types
<1>18. Apart'
  BY <1>0, <1>2, <1>15, <1>16, <1>F DEF Apart
<1>u. /\ Set(prealloc) \subseteq Req /\ Set(transfer) \subseteq Req /\ Set(waiting) \subseteq Req
      /\ Set(retracted) \subseteq Req /\ finished \subseteq Req
  BY <1>0, SetType DEF Types
<1>n. Set(running) \cap (Set(prealloc) \cup Set(transfer) \cup Set(waiting) \cup Set(retracted)) = {}
  BY <1>0 DEF Apart
<1>v. Live' = C \ F
  BY <1>5, <1>15, <1>F DEF Live
<1>19. Unanswered'
  <2>2. \A q \in finished' : answered'[q] = 1
    BY <1>0, <1>5, <1>14, <1>u, <1>F DEF Unanswered
  <2>4. ASSUME NEW q \in (Set(prealloc) \cup Set(transfer) \cup Set(waiting) \cup Live \cup Set(retracted))'
        PROVE  answered'[q] = 0
    <3>1. q \in Set(prealloc) \cup Set(transfer) \cup Set(waiting) \cup Live \cup Set(retracted)
      BY <1>2, <1>16, <1>v, <1>F
    <3>2. q \notin F \cup X /\ q \in Req
      BY <1>2, <1>16, <1>v, <1>F, <1>u, <1>n
    <3> QED
      BY <1>0, <1>14, <3>1, <3>2 DEF Unanswered
  <2> QED
    BY <2>2, <2>4 DEF Unanswered
<1>20. Lengths'
  <2>1. \A q \in Req : /\ kv'[q] = IF q \in G \cup F THEN 0 ELSE IF q \in C THEN kv[q] + 1 ELSE kv[q]
                       /\ out'[q] = IF q \in C THEN out[q] + 1 ELSE out[q]
    BY <1>5
  <2>2. \A q \in Req : Prompt(q)' = Prompt(q) /\ MaxNew(q)' = MaxNew(q)
    BY DEF Prompt, MaxNew
  <2>3. \A q \in Req : out'[q] <= MaxNew(q)'
    <3> SUFFICES ASSUME NEW q \in Req PROVE out'[q] <= MaxNew(q)'
      OBVIOUS
    <3>1. CASE q \in C
      BY <1>F, <1>l, <2>1, <2>2, <3>1
    <3>2. CASE q \notin C
      BY <1>0, <2>1, <2>2, <3>2 DEF Lengths
    <3> QED
      BY <3>1, <3>2
  <2>4. \A q \in Set(transfer)' : out'[q] = 0 /\ kv'[q] = Prompt(q)'
    BY <1>0, <1>2, <1>F, <1>n, <1>u, <2>1, <2>2 DEF Lengths
  <2>5. \A q \in Set(waiting)' : out'[q] >= 1 /\ kv'[q] = Prompt(q)' + out'[q] - 1
    BY <1>0, <1>2, <1>F, <1>n, <1>u, <2>1, <2>2 DEF Lengths
  <2>6. \A q \in Live' : out'[q] >= 1 /\ out'[q] < MaxNew(q)' /\ kv'[q] = Prompt(q)' + out'[q] - 1
    <3> SUFFICES ASSUME NEW q \in C \ F
                 PROVE  out'[q] >= 1 /\ out'[q] < MaxNew(q) /\ kv'[q] = Prompt(q) + out'[q] - 1
      BY <1>F, <1>v, <2>2
    <3>1. out'[q] = out[q] + 1 /\ kv'[q] = kv[q] + 1 /\ ~ (out'[q] >= MaxNew(q))
      BY <1>F, <2>1
    <3>2. /\ out[q] \in Nat /\ MaxNew(q) \in Nat /\ Prompt(q) \in Nat
          /\ kv[q] = Prompt(q) + out[q] - 1
      BY <1>F, <1>l
    <3> QED
      BY <3>1, <3>2
  <2>7. \A q \in Req : q \notin Set(transfer)' \cup Set(waiting)' \cup Live' => kv'[q] = 0
    <3> SUFFICES ASSUME NEW q \in Req, q \notin Set(transfer) \cup Set(waiting) \cup (C \ F)
                 PROVE  kv'[q] = 0
      BY <1>2, <1>v
    <3>1. CASE q \in G \cup F
      BY <2>1, <3>1
    <3>2. CASE q \notin G \cup F
      <4>1. q \notin C /\ q \notin Live
        <5> HIDE DEF Live
        <5>1. Live = G \cup C
          BY <1>7, <1>9, <1>10
        <5> QED
          BY <3>2, <5>1
      <4> QED
        BY <1>0, <2>1, <3>2, <4>1 DEF Lengths
    <3> QED
      BY <3>1, <3>2
  <2>8. \A q \in Req : q \notin Placed' /\ answered'[q] = 0 => out'[q] = 0
    <3> SUFFICES ASSUME NEW q \in Req, q \notin Placed', answered'[q] = 0 PROVE out'[q] = 0
      OBVIOUS
    <3>1. q \notin F \cup X /\ answered[q] = 0
      BY <1>14
    <3>2. q \notin finished
      BY <1>0, <3>1 DEF Unanswered
    <3>3. /\ q \notin C /\ q \notin Set(retracted) \cup (G \ X)
          /\ q \notin Set(prealloc) \cup Set(transfer) \cup Set(waiting)
      BY <1>2, <1>15, <1>16 DEF Placed
    <3>4. q \notin Live
      BY <1>7, <1>9, <1>10, <3>1, <3>3
    <3>5. q \notin Placed
      BY <3>2, <3>3, <3>4 DEF Placed, Live
    <3> QED
      BY <1>0, <2>1, <3>1, <3>3, <3>5 DEF Lengths
  <2>9. \A q \in Set(prealloc)' : out'[q] = 0
    BY <1>0, <1>2, <1>F, <1>n, <1>u, <2>1 DEF Lengths
  <2>10. \A q \in Set(retracted)' : out'[q] >= 1 /\ out'[q] < MaxNew(q)'
    <3> SUFFICES ASSUME NEW q \in Set(retracted)' PROVE out'[q] >= 1 /\ out'[q] < MaxNew(q)'
      OBVIOUS
    <3>1. q \in Req /\ q \notin C /\ (q \in Set(retracted) \/ q \in Live)
      BY <1>16, <1>F, <1>n, <1>u
    <3> QED
      BY <1>0, <1>l, <2>1, <2>2, <3>1 DEF Lengths
  <2> QED
    BY <2>3, <2>4, <2>5, <2>6, <2>7, <2>8, <2>9, <2>10 DEF Lengths
<1> QED
  BY <1>13, <1>17, <1>18, <1>19, <1>20 DEF QueuesInv

-----------------------------------------------------------------------------
(* The theorems.                                                           *)

LEMMA QueuesNext == QueuesInv /\ [Next]_vars => QueuesInv'
<1> SUFFICES ASSUME QueuesInv, [Next]_vars PROVE QueuesInv'
  OBVIOUS
<1>1. CASE Next
  <2>1. UNCHANGED load /\ Step
    BY <1>1 DEF Next
  <2>2. CASE ResumeRetracted
    BY <2>1, <2>2, ResumeStep
  <2>3. CASE PopPreallocated
    BY <2>1, <2>3, PopPreallocatedStep
  <2>4. CASE PopTransferred
    BY <2>1, <2>4, PopTransferredStep
  <2>5. CASE Prebuilt
    BY <2>1, <2>5, PrebuiltStep
  <2>6. CASE Decode
    BY <2>1, <2>6, DecodeStep
  <2>7. ASSUME NEW r \in Req, Receive(r) \/ Handshake(r) \/ TransferEnds(r) \/ AbortRequest(r)
        PROVE  QueuesInv'
    BY <2>1, <2>7, ReceiveStep, ProgressStep, AbortStep
  <2> QED
    BY <2>1, <2>2, <2>3, <2>4, <2>5, <2>6, <2>7 DEF Step, LoopStep
<1>2. CASE UNCHANGED vars
  <2> USE <1>2 DEF vars
  <2>0. Types /\ Apart /\ Unanswered /\ Lengths /\ Pool
    BY DEF QueuesInv
  <2>1. Types'
    BY <2>0 DEF Types
  <2>2. Apart'
    BY <2>0 DEF Apart
  <2>3. Unanswered'
    BY <2>0 DEF Unanswered, Live
  <2>4. Lengths'
    BY <2>0 DEF Lengths, Live, Placed, Prompt, MaxNew
  <2>5. Pool'
    BY <2>0 DEF Pool, PagesOf
  <2> QED
    BY <2>1, <2>2, <2>3, <2>4, <2>5 DEF QueuesInv
<1> QED
  BY <1>1, <1>2

\* The inductive invariant holds in every reachable state: the loop of the decode
\* server keeps every request in one queue, its lengths in step with the queue it
\* is in, and every page accounted for.
THEOREM QueuesInvariant == Spec => []QueuesInv
<1>1. Init => QueuesInv
  BY QueuesInit
<1>2. QueuesInv /\ [Next]_vars => QueuesInv'
  BY QueuesNext
<1> QED
  BY <1>1, <1>2, PTL DEF Spec

\* The requests with KV are the ones in transfer, waiting and running.
LEMMA HoldingQueues ==
  ASSUME QueuesInv
  PROVE  Holding = Set(transfer) \cup Set(waiting) \cup Live
<1>1. Types /\ Lengths
  BY DEF QueuesInv
<1>2. Set(transfer) \subseteq Req /\ Set(waiting) \subseteq Req /\ Live \subseteq Req
  BY <1>1, SetType DEF Types, Live
<1>3. \A r \in Req : Prompt(r) \in Nat /\ Prompt(r) >= 1 /\ out[r] \in Nat /\ kv[r] \in Nat
  BY <1>1, LoadTypes DEF Types
<1>4. ASSUME NEW r \in Set(transfer) \cup Set(waiting) \cup Live PROVE r \in Holding
  <2>1. r \in Req
    BY <1>2
  <2>2. kv[r] = Prompt(r) \/ (out[r] >= 1 /\ kv[r] = Prompt(r) + out[r] - 1)
    BY <1>1, <1>4 DEF Lengths
  <2>3. kv[r] > 0
    BY <1>3, <2>1, <2>2
  <2> QED
    BY <2>1, <2>3 DEF Holding
<1>5. ASSUME NEW r \in Holding PROVE r \in Set(transfer) \cup Set(waiting) \cup Live
  <2>1. r \in Req /\ kv[r] # 0
    BY <1>3 DEF Holding
  <2> QED
    BY <1>1, <2>1 DEF Lengths
<1> QED
  BY <1>4, <1>5

LEMMA QueuesExact == QueuesInv => PoolExact
<1> SUFFICES ASSUME QueuesInv PROVE PoolExact
  OBVIOUS
<1>0. Types /\ Apart /\ Unanswered /\ Lengths /\ Pool
  BY DEF QueuesInv
<1>1. Holding = Set(transfer) \cup Set(waiting) \cup (Set(running) \ finished)
  BY HoldingQueues DEF Live
<1>f. PagesFor(kv) \in [Req -> Nat] /\ PagesOf = PagesFor(kv) /\ NPages \in Nat /\ IsFiniteSet(Req)
      /\ free \in Nat
  BY <1>0, PagesForType, ConstantTypes DEF Types, PagesFor, PagesOf
<1>2. Total(PagesOf, Req) = Total(PagesOf, Holding) /\ Total(PagesOf, Req) \in Nat
  <2> DEFINE O == Req \ Holding
  <2>1. Req = Holding \cup O /\ Holding \cap O = {} /\ Holding \in SUBSET Req /\ O \in SUBSET Req
    BY DEF Holding
  <2>2. \A r \in O : PagesOf[r] = 0
    <3> SUFFICES ASSUME NEW r \in O PROVE PagesOf[r] = 0
      OBVIOUS
    <3>1. kv[r] = 0
      BY <1>0, <2>1 DEF Holding, Types
    <3> QED
      BY <2>1, <3>1, CeilDivBounds DEF PagesOf
  <2> HIDE DEF O
  <2>3. IsFiniteSet(Holding) /\ IsFiniteSet(O)
    BY <1>f, <2>1, FS_Subset
  <2>4. Total(PagesOf, O) = 0
    BY <2>2, <2>3, SumZero
  <2>5. \A r \in Req : PagesOf[r] \in Nat
    BY <1>f
  <2>6. Total(PagesOf, Holding \cup O) = Total(PagesOf, Holding) + Total(PagesOf, O)
    BY <2>1, <2>3, <2>5, SumUnion
  <2>7. Total(PagesOf, Holding) \in Nat
    BY <2>1, <2>3, <2>5, SumNat
  <2> QED
    BY <2>1, <2>4, <2>6, <2>7
<1>3. free >= 0 /\ free + Total(PagesOf, Holding) = NPages
  BY <1>0, <1>2, <1>f DEF Pool
<1>4. TypeOK
  <2>1. free \in 0 .. NPages
    <3>1. free + Total(PagesOf, Req) = NPages
      BY <1>0 DEF Pool
    <3> QED
      BY <1>2, <1>f, <3>1
  <2>2. \A s \in {prealloc, transfer, waiting, running, retracted} : s \in Seq(Req)
    BY <1>0 DEF Types
  <2>3. ASSUME NEW r \in Req
        PROVE  out[r] \in 0 .. MaxNew(r) /\ kv[r] \in 0 .. Prompt(r) + MaxNew(r)
    <3>1. /\ out[r] \in Nat /\ kv[r] \in Nat /\ Prompt(r) \in Nat /\ MaxNew(r) \in Nat
          /\ out[r] <= MaxNew(r)
      BY <1>0, LoadTypes DEF Types, Lengths
    <3>2. kv[r] = 0 \/ kv[r] = Prompt(r) \/ kv[r] = Prompt(r) + out[r] - 1
      BY <1>0 DEF Lengths
    <3> QED
      BY <3>1, <3>2
  <2> QED
    BY <1>0, <2>1, <2>2, <2>3 DEF TypeOK, Types
<1>5. OnePlace
  <2> DEFINE b == Without(running, finished)
             queues == <<prealloc, transfer, waiting, b, retracted>>
  <2>1. running \in Seq(Req) /\ IsInjective(running)
    BY <1>0 DEF Types, Apart
  <2>2. b \in Seq(Req) /\ IsInjective(b) /\ Set(b) = Live
    BY <2>1, WithoutFacts DEF Live
  <2>3. Live \subseteq Set(running)
    BY DEF Live
  <2> HIDE DEF b
  <2>4. \A i \in 1 .. 5 : IsInjective(queues[i]) /\ \A r \in Set(queues[i]) : answered[r] = 0
    <3>1. \A s \in {prealloc, transfer, waiting, b, retracted} :
            IsInjective(s) /\ \A r \in Set(s) : answered[r] = 0
      BY <1>0, <2>2 DEF Apart, Unanswered
    <3>2. \A i \in 1 .. 5 : queues[i] \in {prealloc, transfer, waiting, b, retracted}
      OBVIOUS
    <3> QED
      BY <3>1, <3>2
  <2>5. ASSUME NEW i \in 1 .. 5, NEW j \in 1 .. 5, i # j
        PROVE  Set(queues[i]) \cap Set(queues[j]) = {}
    <3> DEFINE A == <<Set(prealloc), Set(transfer), Set(waiting), Live, Set(retracted)>>
    <3>1. \A m \in 1 .. 5 : Set(queues[m]) = A[m]
      BY <2>2
    <3>2. /\ A[1] \cap A[2] = {} /\ A[1] \cap A[3] = {} /\ A[1] \cap A[4] = {} /\ A[1] \cap A[5] = {}
          /\ A[2] \cap A[3] = {} /\ A[2] \cap A[4] = {} /\ A[2] \cap A[5] = {}
          /\ A[3] \cap A[4] = {} /\ A[3] \cap A[5] = {} /\ A[4] \cap A[5] = {}
      BY <1>0, <2>3 DEF Apart
    <3> HIDE DEF A
    <3>3. \A m \in 1 .. 5 : m = 1 \/ m = 2 \/ m = 3 \/ m = 4 \/ m = 5
      OBVIOUS
    <3>4. A[i] \cap A[j] = {}
      BY <2>5, <3>2, <3>3
    <3> QED
      BY <3>1, <3>4
  <2>6. DOMAIN queues = 1 .. 5
    OBVIOUS
  <2> HIDE DEF queues
  <2>7. \A i \in DOMAIN queues :
          /\ IsInjective(queues[i])
          /\ \A r \in Set(queues[i]) : answered[r] = 0
          /\ \A j \in DOMAIN queues : i # j => Set(queues[i]) \cap Set(queues[j]) = {}
    BY <2>4, <2>5, <2>6
  <2> QED
    BY <2>7 DEF OnePlace, queues, b
<1> QED
  BY <1>1, <1>3, <1>4, <1>5 DEF PoolExact

\* Every page of the decode server's pool is free or belongs to the one request that
\* is in transfer, waits for its place in the batch or runs, whatever is admitted,
\* aborted, retracted, resumed and finished in whatever order.
THEOREM PoolExactTheorem == Spec => []PoolExact
BY QueuesInvariant, QueuesExact, PTL

\* _pre_alloc never finds the pool too small: the budgets of pop_preallocated and of
\* resume_retracted_reqs, in tokens, cover the pages taken, whatever was admitted
\* before in the same call.
THEOREM NeverFullTheorem == Spec => []NeverFull
<1>1. QueuesInv => NeverFull
  BY DEF QueuesInv, Types, NeverFull
<1> QED
  BY <1>1, QueuesInvariant, PTL
=============================================================================
