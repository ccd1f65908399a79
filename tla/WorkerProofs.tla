---------------------------- MODULE WorkerProofs ----------------------------
(***************************************************************************)
(* Proofs about what a worker keeps from one batch to the next: the ring of *)
(* future tokens (FutureMap) and the tier of speculation (AdaptiveSpec).    *)
(*                                                                         *)
(* For any requests, number of running requests and number of chunks, every *)
(* running request finds its own latest token in its slot.  For any tiers,  *)
(* thresholds, context length and batch, every round runs with one tier;    *)
(* two facts about the configuration are needed for it that the code does   *)
(* not check: see RowsWide and HystOrdered.  The default configuration has  *)
(* them.                                                                   *)
(***************************************************************************)
EXTENDS FutureMap, AdaptiveSpec, CollectionProofs


-----------------------------------------------------------------------------
(* The inductive invariant.                                                *)

Slot == 0 .. BufferLen - 1

\* How many slots were handed out after slot s, when fewer than FutureLimit.
AgeAt(ct, s) == IF s <= ct THEN ct - s ELSE ct + FutureLimit - s

\* The chunked request is the one of last that does not run yet.
Cut == IF chunked = NoReq THEN 0 ELSE 1

\* At most this many slots were handed out since the first of the slots still in
\* use: MaxParts for each request, as many as it has parts for the chunked one.
Window == Len(running) * MaxParts + (Len(last.reqs) - Cut) * MaxParts + parts

Batch(b) ==
  /\ b \in [reqs : Seq(Req), fut : Seq(Slot)]
  /\ Len(b.fut) = Len(b.reqs)

Types ==
  /\ future_ct \in 0 .. FutureLimit - 1
  /\ buf \in [Slot -> Req \cup {NoReq}]
  /\ running \in Seq(Req) /\ fut \in Seq(Slot)
  /\ running # <<>> => Len(fut) = Len(running)
  /\ Batch(last) /\ Batch(launched)
  /\ chunked \in Req \cup {NoReq} /\ finished \subseteq Req

\* Who is where: no request twice, and the last prefill batch has only requests
\* that are not finished, among them the chunked one.
Places ==
  /\ IsInjective(running) /\ IsInjective(last.reqs)
  /\ Set(running) \cap Set(last.reqs) = {}
  /\ finished \cap Set(last.reqs) = {}
  /\ chunked # NoReq => chunked \in Set(last.reqs)
  /\ parts \in 0 .. MaxParts - 1 /\ (chunked = NoReq => parts = 0)
  /\ Len(running) + Len(last.reqs) <= MaxRunning
  /\ \/ launched = Empty
     \/ launched = last /\ last.reqs # <<>>
     \/ last = Empty /\ running # <<>> /\ launched = [reqs |-> running, fut |-> fut]

\* A slot of the buffer that the ring has not come round to.
RecentAt(ct, w, s) == s \in 1 .. FutureLimit + MaxRunning - 1 /\ AgeAt(ct, s) \in 0 .. w - 1
Recent(s) == RecentAt(future_ct, Window, s)

Ring ==
  /\ \A i \in DOMAIN running : Recent(fut[i])
  /\ \A i \in DOMAIN last.reqs : Recent(last.fut[i])
  /\ \A i, j \in DOMAIN running : fut[i] = fut[j] => i = j
  /\ \A i, j \in DOMAIN last.reqs : last.fut[i] = last.fut[j] => i = j
  /\ \A i \in DOMAIN running, j \in DOMAIN last.reqs : fut[i] # last.fut[j]

\* The token of a request is in its slot, or not yet stored, or of no use.
Tokens ==
  /\ \A i \in DOMAIN running :
       running[i] \in finished \cup Set(launched.reqs) \/ buf[fut[i]] = running[i]
  /\ \A i \in DOMAIN last.reqs :
       last.reqs[i] \in Set(launched.reqs) \/ buf[last.fut[i]] = last.reqs[i]

FutureInv == Types /\ Places /\ Ring /\ Tokens

-----------------------------------------------------------------------------
(* Constants and slots.                                                    *)

LEMMA ConstantTypes ==
  /\ IsFiniteSet(Req) /\ NoReq \notin Req
  /\ MaxRunning \in Nat /\ MaxRunning >= 1 /\ NumChunks \in Nat
  /\ MaxParts \in Nat /\ MaxParts >= 2
  /\ MaxRunning * MaxParts \in Nat
  /\ FutureLimit = MaxRunning * MaxParts + MaxRunning
  /\ FutureLimit \in Nat /\ FutureLimit > MaxRunning
  /\ BufferLen = FutureLimit + 2 * MaxRunning /\ BufferLen \in Nat
<1>1. /\ IsFiniteSet(Req) /\ NoReq \notin Req
      /\ MaxRunning \in Nat /\ MaxRunning >= 1 /\ NumChunks \in Nat
      /\ MaxParts \in Nat /\ MaxParts >= 2 /\ 3 + NumChunks = MaxParts + 1
  BY FutureAssumption DEF MaxParts
<1>2. \A m, k \in Nat : m >= 1 /\ k >= 2 => m * k \in Nat /\ m * k >= 1 /\ m * (k + 1) = m * k + m
  OBVIOUS
<1>3. /\ MaxRunning * MaxParts \in Nat /\ MaxRunning * MaxParts >= 1
      /\ MaxRunning * (MaxParts + 1) = MaxRunning * MaxParts + MaxRunning
  BY <1>1, <1>2
<1>4. FutureLimit = MaxRunning * MaxParts + MaxRunning
  BY <1>1, <1>3 DEF FutureLimit
<1>5. FutureLimit \in Nat /\ FutureLimit > MaxRunning
  BY <1>1, <1>3, <1>4
<1> QED
  BY <1>1, <1>3, <1>4, <1>5 DEF BufferLen

\* x more parts weigh x times MaxParts.
LEMMA Weights ==
  /\ \A x \in Int : x * MaxParts \in Int
  /\ \A x, y \in Int : (x + y) * MaxParts = x * MaxParts + y * MaxParts
  /\ \A x, y \in Int : x <= y => x * MaxParts <= y * MaxParts
  /\ \A x \in Nat : x <= x * MaxParts
  /\ \A x \in Nat \ {0} : x + MaxParts - 1 <= x * MaxParts
  /\ 0 * MaxParts = 0 /\ 1 * MaxParts = MaxParts
<1>1. MaxParts \in Nat /\ MaxParts >= 2
  BY ConstantTypes
<1> DEFINE k == MaxParts
<1> HIDE DEF k
<1>2. k \in Nat /\ k >= 2
  BY <1>1 DEF k
<1>3. \A x \in Int : x * k \in Int
  BY <1>2
<1>4. \A x, y \in Int : (x + y) * k = x * k + y * k
  BY <1>2
<1>5. \A x, y \in Int : x <= y => x * k <= y * k
  <2> SUFFICES ASSUME NEW x \in Int, NEW y \in Int, x <= y PROVE x * k <= y * k
    OBVIOUS
  <2>1. (y - x) * k >= 0
    BY <1>2
  <2>2. y * k = x * k + (y - x) * k
    BY <1>2
  <2> QED
    BY <1>3, <2>1, <2>2
<1>6. \A x \in Nat : x <= x * k
  BY <1>2
<1>7. \A x \in Nat \ {0} : x + k - 1 <= x * k
  <2> SUFFICES ASSUME NEW x \in Nat \ {0} PROVE x + k - 1 <= x * k
    OBVIOUS
  <2>1. (x - 1) * (k - 1) >= 0 /\ (x - 1) * (k - 1) = x * k - x - k + 1
    BY <1>2
  <2> QED
    BY <1>2, <1>3, <2>1
<1>8. 0 * k = 0 /\ 1 * k = k
  BY <1>2
<1> QED
  BY <1>3, <1>4, <1>5, <1>6, <1>7, <1>8 DEF k

LEMMA ModOnce ==
  ASSUME NEW x \in Nat, NEW n \in Nat \ {0}, x < 2 * n
  PROVE  x % n = IF x < n THEN x ELSE x - n
<1> DEFINE d == x \div n
           m == x % n
<1>1. d \in Int /\ m \in 0 .. n - 1 /\ x = n * d + m
  OBVIOUS
<1> HIDE DEF d, m
<1>2. ASSUME d >= 2 PROVE FALSE
  <2>1. n * d >= n * 2
    BY <1>1, <1>2
  <2> QED
    BY <1>1, <2>1
<1>3. ASSUME d <= -1 PROVE FALSE
  <2>1. n * d <= n * (-1)
    BY <1>1, <1>3
  <2> QED
    BY <1>1, <2>1
<1>4. d = 0 \/ d = 1
  BY <1>1, <1>2, <1>3
<1>5. m = IF x < n THEN x ELSE x - n
  <2>1. CASE d = 0
    BY <1>1, <2>1
  <2>2. CASE d = 1
    BY <1>1, <2>2
  <2> QED
    BY <1>4, <2>1, <2>2
<1> QED
  BY <1>5 DEF m

\* The pointer after a batch.
LEMMA Pointer ==
  ASSUME NEW ct \in 0 .. FutureLimit - 1, NEW bs \in 0 .. MaxRunning
  PROVE  /\ (ct + bs) % FutureLimit \in 0 .. FutureLimit - 1
         /\ (ct + bs) % FutureLimit = IF ct + bs < FutureLimit THEN ct + bs ELSE (ct + bs) - FutureLimit
<1>1. FutureLimit \in Nat /\ FutureLimit > MaxRunning /\ MaxRunning \in Nat
  BY ConstantTypes
<1>2. ct + bs \in Nat /\ ct + bs < 2 * FutureLimit /\ FutureLimit \in Nat \ {0}
  BY <1>1
<1>3. (ct + bs) % FutureLimit = IF ct + bs < FutureLimit THEN ct + bs ELSE (ct + bs) - FutureLimit
  <2> DEFINE x == ct + bs
             n == FutureLimit
  <2>1. x \in Nat /\ n \in Nat \ {0} /\ x < 2 * n
    BY <1>2
  <2> HIDE DEF x, n
  <2>2. x % n = IF x < n THEN x ELSE x - n
    BY <2>1, ModOnce
  <2> QED
    BY ONLY <2>2, Zenon DEF x, n
<1> QED
  BY <1>1, <1>2, <1>3

\* A slot ages by the slots handed out, as long as the ring does not come round.
LEMMA Ages ==
  ASSUME NEW ct \in 0 .. FutureLimit - 1, NEW bs \in 0 .. MaxRunning,
         NEW s \in 1 .. FutureLimit + MaxRunning - 1,
         AgeAt(ct, s) >= 0, AgeAt(ct, s) + bs < FutureLimit - MaxRunning
  PROVE  AgeAt((ct + bs) % FutureLimit, s) = AgeAt(ct, s) + bs
<1>1. FutureLimit \in Nat /\ FutureLimit > MaxRunning /\ MaxRunning \in Nat
  BY ConstantTypes
<1> DEFINE c == (ct + bs) % FutureLimit
<1>2. c = IF ct + bs < FutureLimit THEN ct + bs ELSE (ct + bs) - FutureLimit
  BY Pointer
<1> HIDE DEF c
<1>3. AgeAt(c, s) = AgeAt(ct, s) + bs
  BY <1>1, <1>2 DEF AgeAt
<1> QED
  BY <1>3 DEF c

\* The slots of a new batch are the youngest.
LEMMA NewAges ==
  ASSUME NEW ct \in 0 .. FutureLimit - 1, NEW bs \in 0 .. MaxRunning, NEW j \in 1 .. bs
  PROVE  /\ ct + j \in 1 .. FutureLimit + MaxRunning - 1
         /\ ct + j \in Slot
         /\ AgeAt((ct + bs) % FutureLimit, ct + j) = bs - j
<1>1. FutureLimit \in Nat /\ FutureLimit > MaxRunning /\ MaxRunning \in Nat
      /\ BufferLen = FutureLimit + 2 * MaxRunning
  BY ConstantTypes
<1> DEFINE c == (ct + bs) % FutureLimit
<1>2. c = IF ct + bs < FutureLimit THEN ct + bs ELSE (ct + bs) - FutureLimit
  BY Pointer
<1> HIDE DEF c
<1>3. AgeAt(c, ct + j) = bs - j
  BY <1>1, <1>2 DEF AgeAt
<1> QED
  BY <1>1, <1>3 DEF c, Slot

-----------------------------------------------------------------------------
(* Filter and merge.                                                       *)

Carrier == [reqs : Seq(Req), fut : Seq(Slot)]

\* A batch that may have lost all its requests but not their futures.
Paired(b) ==
  /\ b \in Carrier /\ IsInjective(b.reqs)
  /\ b.reqs # <<>> => Len(b.fut) = Len(b.reqs)

LEMMA PairedTypes ==
  ASSUME NEW b, Paired(b)
  PROVE  /\ b.reqs \in Seq(Req) /\ DOMAIN b.reqs = 1 .. Len(b.reqs) /\ Len(b.reqs) \in Nat
         /\ b.fut \in Seq(Slot) /\ DOMAIN b.fut = 1 .. Len(b.fut)
         /\ \A i \in DOMAIN b.reqs : /\ b.reqs[i] \in Req /\ b.reqs # <<>>
                                     /\ i \in DOMAIN b.fut /\ b.fut[i] \in Slot
         /\ b = [reqs |-> b.reqs, fut |-> b.fut]
<1>1. b \in Carrier
  BY DEF Paired
<1>2. b.reqs \in Seq(Req) /\ b.fut \in Seq(Slot) /\ b = [reqs |-> b.reqs, fut |-> b.fut]
  BY <1>1 DEF Carrier
<1>3. DOMAIN b.reqs = 1 .. Len(b.reqs) /\ Len(b.reqs) \in Nat /\ DOMAIN b.fut = 1 .. Len(b.fut)
  BY <1>2
<1>4. ASSUME NEW i \in DOMAIN b.reqs
      PROVE  b.reqs[i] \in Req /\ b.reqs # <<>> /\ i \in DOMAIN b.fut /\ b.fut[i] \in Slot
  <2>1. b.reqs # <<>> /\ b.reqs[i] \in Req
    BY <1>2, <1>3, <1>4
  <2>2. Len(b.fut) = Len(b.reqs)
    BY <2>1 DEF Paired
  <2>3. i \in DOMAIN b.fut
    BY <1>3, <1>4, <2>2
  <2> QED
    BY <1>2, <1>3, <2>1, <2>3
<1> QED
  BY <1>2, <1>3, <1>4

\* keep_indices: the positions of the requests that stay.
LEMMA KeepFacts ==
  ASSUME NEW b, Paired(b), NEW S
  PROVE  /\ KeepIndices(b, S) \in Seq(DOMAIN b.reqs)
         /\ Set(KeepIndices(b, S)) = {i \in DOMAIN b.reqs : b.reqs[i] \notin S}
         /\ IsInjective(KeepIndices(b, S))
         /\ Len(KeepIndices(b, S)) <= Len(b.reqs)
<1> DEFINE n == Len(b.reqs)
           u == [i \in DOMAIN b.reqs |-> i]
           T == {i \in DOMAIN b.reqs : b.reqs[i] \notin S}
<1>1. n \in Nat /\ DOMAIN b.reqs = 1 .. n
  BY PairedTypes
<1>2. u \in [1 .. n -> DOMAIN b.reqs]
  BY <1>1
<1>3. u \in Seq(DOMAIN b.reqs) /\ DOMAIN u = 1 .. n /\ Len(u) = n
  BY <1>1, <1>2, SeqOfMap
<1>4. Set(u) = DOMAIN b.reqs
  BY DEF Set
<1>5. IsInjective(u)
  BY DEF IsInjective
<1>6. KeepIndices(b, S) = Only(u, T)
  BY DEF KeepIndices
<1> HIDE DEF u, T
<1>7. /\ Only(u, T) \in Seq(DOMAIN b.reqs) /\ Set(Only(u, T)) = Set(u) \cap T
      /\ Len(Only(u, T)) <= Len(u) /\ IsInjective(Only(u, T))
  BY <1>3, <1>5, OnlyFacts
<1>8. DOMAIN b.reqs \cap T = T
  BY DEF T
<1> QED
  BY <1>3, <1>4, <1>6, <1>7, <1>8 DEF T

\* Each request of f is one of b, with its future.
Within(f, b) == \A i \in DOMAIN f.reqs : \E j \in DOMAIN b.reqs :
                  f.reqs[i] = b.reqs[j] /\ f.fut[i] = b.fut[j]

\* filter_batch keeps requests and futures paired.
LEMMA FilterFacts ==
  ASSUME NEW b, Paired(b), NEW S
  PROVE  LET f == FilterBatch(b, KeepIndices(b, S))
         IN  /\ Paired(f)
             /\ Set(f.reqs) = Set(b.reqs) \ S
             /\ Len(f.reqs) <= Len(b.reqs)
             /\ Len(f.reqs) = Len(KeepIndices(b, S))
             /\ Within(f, b)
<1> DEFINE k == KeepIndices(b, S)
           f == FilterBatch(b, k)
<1>1. /\ k \in Seq(DOMAIN b.reqs) /\ Set(k) = {i \in DOMAIN b.reqs : b.reqs[i] \notin S}
      /\ IsInjective(k) /\ Len(k) <= Len(b.reqs)
  BY KeepFacts
<1>2. /\ b.reqs \in Seq(Req) /\ DOMAIN b.reqs = 1 .. Len(b.reqs) /\ Len(b.reqs) \in Nat
      /\ b.fut \in Seq(Slot)
      /\ \A i \in DOMAIN b.reqs : b.reqs[i] \in Req /\ b.fut[i] \in Slot
      /\ b = [reqs |-> b.reqs, fut |-> b.fut]
  BY PairedTypes
<1> HIDE DEF k
<1>3. DOMAIN k = 1 .. Len(k) /\ Len(k) \in Nat /\ \A i \in DOMAIN k : k[i] \in DOMAIN b.reqs
  BY <1>1
<1>4. CASE k = <<>>
  <2>1. f.reqs = <<>> /\ f.fut = b.fut /\ f \in Carrier
    <3>1. f = [b EXCEPT !.reqs = <<>>]
      BY <1>4 DEF FilterBatch
    <3>2. f = [reqs |-> <<>>, fut |-> b.fut]
      BY <3>1, <1>2
    <3> QED
      BY <3>2, <1>2 DEF Carrier
  <2>2. Len(f.reqs) = 0 /\ DOMAIN f.reqs = {} /\ Set(f.reqs) = {} /\ Len(k) = 0
    BY <2>1, <1>4 DEF Set
  <2>3. Set(k) = {}
    BY <1>4 DEF Set
  <2>4. Set(b.reqs) \ S = {}
    BY <1>1, <2>3 DEF Set
  <2>5. Paired(f) /\ Within(f, b)
    BY <2>1, <2>2 DEF Paired, Within, IsInjective
  <2> QED
    BY <2>2, <2>4, <2>5, <1>2 DEF f, k
<1>5. CASE k # <<>>
  <2> DEFINE rs == [i \in DOMAIN k |-> b.reqs[k[i]]]
             fs == [i \in DOMAIN k |-> b.fut[k[i]]]
  <2>1. f = [reqs |-> rs, fut |-> fs]
    BY <1>5 DEF FilterBatch, FilterFut
  <2>2. rs \in [1 .. Len(k) -> Req] /\ fs \in [1 .. Len(k) -> Slot]
    BY <1>2, <1>3
  <2>3. /\ rs \in Seq(Req) /\ Len(rs) = Len(k) /\ DOMAIN rs = DOMAIN k
        /\ fs \in Seq(Slot) /\ Len(fs) = Len(k)
    BY <2>2, <1>3, SeqOfMap
  <2>4. f.reqs = rs /\ f.fut = fs
    BY <2>1
  <2>5. f \in Carrier
    BY <2>1, <2>3 DEF Carrier
  <2>6. IsInjective(rs)
    <3> SUFFICES ASSUME NEW i \in DOMAIN k, NEW j \in DOMAIN k, rs[i] = rs[j] PROVE i = j
      BY <2>3 DEF IsInjective
    <3>1. b.reqs[k[i]] = b.reqs[k[j]] /\ IsInjective(b.reqs)
      BY DEF Paired
    <3>2. k[i] = k[j]
      BY <3>1, <1>3 DEF IsInjective
    <3> QED
      BY <3>2, <1>1 DEF IsInjective
  <2>7. Set(rs) = Set(b.reqs) \ S
    <3>1. ASSUME NEW x \in Set(rs) PROVE x \in Set(b.reqs) \ S
      <4>1. PICK i \in DOMAIN k : x = b.reqs[k[i]]
        BY <3>1, <2>3 DEF Set
      <4>2. k[i] \in Set(k)
        BY DEF Set
      <4> QED
        BY <4>1, <4>2, <1>1 DEF Set
    <3>2. ASSUME NEW x \in Set(b.reqs) \ S PROVE x \in Set(rs)
      <4>1. PICK j \in DOMAIN b.reqs : x = b.reqs[j]
        BY <3>2 DEF Set
      <4>2. j \in Set(k)
        BY <4>1, <3>2, <1>1
      <4>3. PICK i \in DOMAIN k : j = k[i]
        BY <4>2 DEF Set
      <4> QED
        BY <4>1, <4>3, <2>3 DEF Set
    <3> QED
      BY <3>1, <3>2
  <2>8. Paired(f)
    BY <2>3, <2>4, <2>5, <2>6 DEF Paired
  <2>9. Within(f, b)
    BY <2>3, <2>4, <1>3 DEF Within
  <2> QED
    BY <2>3, <2>4, <2>7, <2>8, <2>9, <1>1 DEF f, k
<1> QED
  BY <1>4, <1>5

LEMMA ConcatAt ==
  ASSUME NEW A, NEW s \in Seq(A), NEW t \in Seq(A)
  PROVE  /\ s \o t \in Seq(A) /\ Len(s \o t) = Len(s) + Len(t)
         /\ \A i \in 1 .. Len(s) + Len(t) :
              (s \o t)[i] = IF i <= Len(s) THEN s[i] ELSE t[i - Len(s)]
  OBVIOUS

\* Requests and futures, side by side, of two batches that share none.
LEMMA MergeFacts ==
  ASSUME NEW a, Paired(a), NEW b, Paired(b), b.reqs # <<>>,
         Set(a.reqs) \cap Set(b.reqs) = {}
  PROVE  LET m == MergeBatch(a, b)
         IN  /\ Paired(m)
             /\ Set(m.reqs) = Set(a.reqs) \cup Set(b.reqs)
             /\ Len(m.reqs) = Len(a.reqs) + Len(b.reqs)
             /\ \A i \in DOMAIN m.reqs :
                  \/ i \in DOMAIN a.reqs /\ m.reqs[i] = a.reqs[i] /\ m.fut[i] = a.fut[i]
                  \/ /\ i - Len(a.reqs) \in DOMAIN b.reqs
                     /\ m.reqs[i] = b.reqs[i - Len(a.reqs)] /\ m.fut[i] = b.fut[i - Len(a.reqs)]
<1> DEFINE m == MergeBatch(a, b)
<1>1. /\ a.reqs \in Seq(Req) /\ DOMAIN a.reqs = 1 .. Len(a.reqs) /\ Len(a.reqs) \in Nat
      /\ a.fut \in Seq(Slot)
      /\ b.reqs \in Seq(Req) /\ DOMAIN b.reqs = 1 .. Len(b.reqs) /\ Len(b.reqs) \in Nat
      /\ b.fut \in Seq(Slot)
  BY PairedTypes
<1>2. CASE a.reqs = <<>>
  <2>1. m = b
    BY <1>2 DEF MergeBatch
  <2>2. Set(a.reqs) = {} /\ Len(a.reqs) = 0
    BY <1>2 DEF Set
  <2>3. \A i \in DOMAIN b.reqs : i - 0 = i
    BY <1>1
  <2> QED
    BY <2>1, <2>2, <2>3, <1>1
<1>3. CASE a.reqs # <<>>
  <2>1. m = [reqs |-> a.reqs \o b.reqs, fut |-> a.fut \o b.fut]
    BY <1>3 DEF MergeBatch
  <2> HIDE DEF m
  <2>2. m.reqs = a.reqs \o b.reqs /\ m.fut = a.fut \o b.fut
    BY ONLY <2>1
  <2>3. Len(a.fut) = Len(a.reqs) /\ Len(b.fut) = Len(b.reqs)
    BY <1>3 DEF Paired
  <2>r0. /\ m.reqs \in Seq(Req) /\ Len(m.reqs) = Len(a.reqs) + Len(b.reqs)
        /\ \A i \in 1 .. Len(a.reqs) + Len(b.reqs) :
             m.reqs[i] = IF i <= Len(a.reqs) THEN a.reqs[i] ELSE b.reqs[i - Len(a.reqs)]
    <3>1. /\ a.reqs \o b.reqs \in Seq(Req)
          /\ Len(a.reqs \o b.reqs) = Len(a.reqs) + Len(b.reqs)
          /\ \A i \in 1 .. Len(a.reqs) + Len(b.reqs) :
               (a.reqs \o b.reqs)[i] = IF i <= Len(a.reqs) THEN a.reqs[i] ELSE b.reqs[i - Len(a.reqs)]
      BY <1>1, ConcatAt, Zenon
    <3> QED
      BY ONLY <3>1, <2>2, Zenon
  <2>r. /\ m.reqs \in Seq(Req) /\ Len(m.reqs) = Len(a.reqs) + Len(b.reqs)
        /\ DOMAIN m.reqs = 1 .. Len(a.reqs) + Len(b.reqs)
        /\ \A i \in 1 .. Len(a.reqs) + Len(b.reqs) :
             m.reqs[i] = IF i <= Len(a.reqs) THEN a.reqs[i] ELSE b.reqs[i - Len(a.reqs)]
    <3>1. DOMAIN m.reqs = 1 .. Len(m.reqs)
      BY <2>r0, SetType, Zenon
    <3> QED
      BY ONLY <3>1, <2>r0, Zenon
  <2>f. /\ m.fut \in Seq(Slot) /\ Len(m.fut) = Len(a.reqs) + Len(b.reqs)
        /\ \A i \in 1 .. Len(a.reqs) + Len(b.reqs) :
             m.fut[i] = IF i <= Len(a.reqs) THEN a.fut[i] ELSE b.fut[i - Len(a.reqs)]
    <3>1. /\ a.fut \o b.fut \in Seq(Slot)
          /\ Len(a.fut \o b.fut) = Len(a.fut) + Len(b.fut)
          /\ \A i \in 1 .. Len(a.fut) + Len(b.fut) :
               (a.fut \o b.fut)[i] = IF i <= Len(a.fut) THEN a.fut[i] ELSE b.fut[i - Len(a.fut)]
      BY <1>1, ConcatAt, Zenon
    <3> QED
      BY ONLY <3>1, <2>2, <2>3, Zenon
  <2>5. /\ Set(m.reqs) = Set(a.reqs) \cup Set(b.reqs) /\ IsInjective(m.reqs)
    BY <1>1, <2>2, SetConcat DEF Paired
  <2>c. m \in Carrier
    BY ONLY <2>1, <2>2, <2>r, <2>f DEF Carrier
  <2> HIDE DEF m
  <2>6. Paired(m)
    BY <2>r, <2>f, <2>5, <2>c DEF Paired
  <2>7. ASSUME NEW i \in DOMAIN m.reqs
        PROVE  \/ i \in DOMAIN a.reqs /\ m.reqs[i] = a.reqs[i] /\ m.fut[i] = a.fut[i]
               \/ /\ i - Len(a.reqs) \in DOMAIN b.reqs
                  /\ m.reqs[i] = b.reqs[i - Len(a.reqs)] /\ m.fut[i] = b.fut[i - Len(a.reqs)]
    <3> DEFINE p == Len(a.reqs)
               q == Len(b.reqs)
    <3>0. p \in Nat /\ q \in Nat /\ DOMAIN a.reqs = 1 .. p /\ DOMAIN b.reqs = 1 .. q
      BY <1>1
    <3>1. i \in 1 .. p + q
      BY <2>r, <2>7
    <3>2. /\ m.reqs[i] = IF i <= p THEN a.reqs[i] ELSE b.reqs[i - p]
          /\ m.fut[i] = IF i <= p THEN a.fut[i] ELSE b.fut[i - p]
      BY <2>r, <2>f, <3>1
    <3> HIDE DEF p, q
    <3>3. CASE i <= p
      <4>1. i \in 1 .. p
        BY <3>0, <3>1, <3>3
      <4> QED
        BY <3>0, <3>2, <3>3, <4>1 DEF p
    <3>4. CASE ~(i <= p)
      <4>1. i - p \in 1 .. q
        BY <3>0, <3>1, <3>4
      <4> QED
        BY <3>0, <3>2, <3>4, <4>1 DEF p
    <3> QED
      BY <3>3, <3>4
  <2> QED
    BY <2>r, <2>5, <2>6, <2>7 DEF m
<1> QED
  BY <1>2, <1>3

-----------------------------------------------------------------------------
(* The merged batch.                                                       *)

\* Position i of b is the running request or the uncut request of last at some
\* position, with its future.
FromRunning(b, i) == \E j \in DOMAIN running : b.reqs[i] = running[j] /\ b.fut[i] = fut[j]
FromLast(b, i) == \E j \in DOMAIN last.reqs :
                    last.reqs[j] # chunked /\ b.reqs[i] = last.reqs[j] /\ b.fut[i] = last.fut[j]

\* Removing one element of a list that repeats none.
LEMMA LenWithout ==
  ASSUME NEW b, Paired(b), NEW c, NEW S, Set(b.reqs) \cap S = Set(b.reqs) \cap {c}
  PROVE  Len(KeepIndices(b, S)) = Len(b.reqs) - (IF c \in Set(b.reqs) THEN 1 ELSE 0)
<1> DEFINE k == KeepIndices(b, S)
           T == {i \in DOMAIN b.reqs : b.reqs[i] \notin S}
           n == Len(b.reqs)
<1>1. k \in Seq(DOMAIN b.reqs) /\ Set(k) = T /\ IsInjective(k)
  BY KeepFacts
<1>2. n \in Nat /\ DOMAIN b.reqs = 1 .. n /\ IsInjective(b.reqs)
  BY PairedTypes DEF Paired
<1>3. IsFiniteSet(1 .. n) /\ Cardinality(1 .. n) = n
  BY <1>2, CardUpto
<1>4. Cardinality(T) = Len(k)
  BY <1>1, InjectiveCard
<1> HIDE DEF k
<1>5. CASE c \in Set(b.reqs)
  <2>1. PICK j \in DOMAIN b.reqs : b.reqs[j] = c
    BY <1>5 DEF Set
  <2>2. T = (1 .. n) \ {j}
    <3>1. ASSUME NEW i \in DOMAIN b.reqs PROVE b.reqs[i] \in S <=> i = j
      <4>1. b.reqs[i] \in Set(b.reqs)
        BY DEF Set
      <4>2. b.reqs[i] \in S <=> b.reqs[i] = c
        BY <4>1
      <4> QED
        BY <4>2, <2>1, <1>2 DEF IsInjective
    <3> QED
      BY <3>1, <1>2
  <2>3. Cardinality((1 .. n) \ {j}) = n - 1
    <3>1. j \in 1 .. n
      BY <2>1, <1>2
    <3> HIDE DEF n
    <3>2. Cardinality((1 .. n) \ {j}) = Cardinality(1 .. n) - 1
      BY <3>1, <1>3, FS_RemoveElement
    <3> QED
      BY <3>2, <1>3
  <2> HIDE DEF n, T
  <2> QED
    BY <2>2, <2>3, <1>4, <1>5 DEF k, n
<1>6. CASE c \notin Set(b.reqs)
  <2>1. T = 1 .. n
    <3>1. ASSUME NEW i \in DOMAIN b.reqs PROVE b.reqs[i] \notin S
      <4>1. b.reqs[i] \in Set(b.reqs)
        BY DEF Set
      <4> QED
        BY <4>1, <1>6
    <3> QED
      BY <3>1, <1>2
  <2>2. Len(k) = n
    BY <2>1, <1>3, <1>4
  <2> QED
    BY <2>2, <1>2, <1>6 DEF k
<1> QED
  BY <1>5, <1>6

\* get_next_batch_to_run: what runs and what the last prefill batch adds.
LEMMA MergedFacts ==
  ASSUME Types, Places
  PROVE  /\ Paired(Merged)
         /\ Set(Merged.reqs) = Set(running) \cup (Set(last.reqs) \ {chunked})
         /\ Len(Merged.reqs) = Len(running) + Len(last.reqs) - Cut
         /\ \A i \in DOMAIN Merged.reqs : FromRunning(Merged, i) \/ FromLast(Merged, i)
<1> DEFINE run == [reqs |-> running, fut |-> fut]
           S == finished \cup {chunked}
           more == FilterBatch(last, KeepIndices(last, S))
<1>1. run \in Carrier /\ run.reqs = running /\ run.fut = fut
  BY DEF Types, Carrier
<1>2. Paired(run) /\ Paired(last)
  BY <1>1 DEF Types, Places, Paired, Batch, Carrier
<1>3. Set(last.reqs) \cap S = Set(last.reqs) \cap {chunked} /\ Set(last.reqs) \ S = Set(last.reqs) \ {chunked}
  BY DEF Places
<1>4. Len(last.reqs) \in Nat /\ DOMAIN last.reqs = 1 .. Len(last.reqs)
      /\ Len(running) \in Nat /\ DOMAIN running = 1 .. Len(running)
      /\ Set(last.reqs) \subseteq Req
  <2>1. last.reqs \in Seq(Req)
    BY DEF Types, Batch
  <2> QED
    BY <2>1, SetType DEF Types
<1>5. chunked \in Set(last.reqs) <=> chunked # NoReq
  <2>1. NoReq \notin Req
    BY ConstantTypes
  <2> QED
    BY <2>1, <1>4 DEF Places
<1> HIDE DEF S
<1>6. Len(KeepIndices(last, S)) = Len(last.reqs) - Cut
  <2>1. Len(KeepIndices(last, S)) = Len(last.reqs) - (IF chunked \in Set(last.reqs) THEN 1 ELSE 0)
    BY <1>2, <1>3, LenWithout
  <2> QED
    BY <2>1, <1>5 DEF Cut
<1>7. /\ Paired(more) /\ Set(more.reqs) = Set(last.reqs) \ S
      /\ Len(more.reqs) = Len(KeepIndices(last, S)) /\ Within(more, last)
  BY <1>2, FilterFacts
<1> HIDE DEF more
<1>8. /\ more.reqs \in Seq(Req) /\ DOMAIN more.reqs = 1 .. Len(more.reqs)
  BY <1>7, PairedTypes
<1>9. ASSUME NEW i \in DOMAIN more.reqs
      PROVE \E j \in DOMAIN last.reqs : /\ last.reqs[j] # chunked
                                        /\ more.reqs[i] = last.reqs[j] /\ more.fut[i] = last.fut[j]
  <2>1. PICK j \in DOMAIN last.reqs : more.reqs[i] = last.reqs[j] /\ more.fut[i] = last.fut[j]
    BY <1>7, <1>9 DEF Within
  <2>2. more.reqs[i] \in Set(last.reqs) \ {chunked}
    BY <1>7, <1>9, <1>3 DEF Set
  <2> QED
    BY <2>1, <2>2
<1>10. Merged = IF more.reqs = <<>> THEN run ELSE MergeBatch(run, more)
  BY DEF Merged, more, S
<1>11. CASE more.reqs = <<>>
  <2>1. Merged = run
    BY <1>10, <1>11
  <2>2. Set(more.reqs) = {} /\ Len(more.reqs) = 0
    BY <1>11 DEF Set
  <2>3. Set(Merged.reqs) = Set(running) \cup (Set(last.reqs) \ {chunked})
    BY <2>1, <2>2, <1>1, <1>3, <1>7
  <2>4. \A i \in DOMAIN Merged.reqs : FromRunning(Merged, i)
    BY <2>1, <1>1 DEF FromRunning
  <2> QED
    BY <2>1, <2>2, <2>3, <2>4, <1>1, <1>2, <1>4, <1>6, <1>7
<1>12. CASE more.reqs # <<>>
  <2> DEFINE m == MergeBatch(run, more)
  <2>1. Merged = m
    BY <1>10, <1>12
  <2>2. Set(run.reqs) \cap Set(more.reqs) = {}
    BY <1>1, <1>7 DEF Places
  <2> HIDE DEF run
  <2>3. /\ Paired(m) /\ Set(m.reqs) = Set(run.reqs) \cup Set(more.reqs)
        /\ Len(m.reqs) = Len(run.reqs) + Len(more.reqs)
        /\ \A i \in DOMAIN m.reqs :
             \/ i \in DOMAIN run.reqs /\ m.reqs[i] = run.reqs[i] /\ m.fut[i] = run.fut[i]
             \/ /\ i - Len(run.reqs) \in DOMAIN more.reqs
                /\ m.reqs[i] = more.reqs[i - Len(run.reqs)] /\ m.fut[i] = more.fut[i - Len(run.reqs)]
    BY <1>2, <1>7, <1>12, <2>2, MergeFacts
  <2> HIDE DEF m
  <2>4. ASSUME NEW i \in DOMAIN m.reqs PROVE FromRunning(m, i) \/ FromLast(m, i)
    <3>1. CASE i \in DOMAIN run.reqs /\ m.reqs[i] = run.reqs[i] /\ m.fut[i] = run.fut[i]
      BY <3>1, <1>1 DEF FromRunning
    <3>2. CASE /\ i - Len(run.reqs) \in DOMAIN more.reqs
               /\ m.reqs[i] = more.reqs[i - Len(run.reqs)] /\ m.fut[i] = more.fut[i - Len(run.reqs)]
      BY <3>2, <1>9 DEF FromLast
    <3> QED
      BY <2>3, <2>4, <3>1, <3>2
  <2>5. Set(m.reqs) = Set(running) \cup (Set(last.reqs) \ {chunked})
    BY <2>3, <1>1, <1>3, <1>7
  <2>6. Len(m.reqs) = Len(running) + Len(last.reqs) - Cut
    <3>1. Cut \in {0, 1}
      BY DEF Cut
    <3> QED
      BY <3>1, <2>3, <1>1, <1>4, <1>6, <1>7
  <2> QED
    BY <2>1, <2>3, <2>4, <2>5, <2>6
<1> QED
  BY <1>11, <1>12

-----------------------------------------------------------------------------
(* The start.                                                              *)

LEMMA InitInv == Init => FutureInv
<1> SUFFICES ASSUME Init PROVE FutureInv
  OBVIOUS
<1>1. /\ FutureLimit \in Nat /\ FutureLimit > MaxRunning /\ MaxRunning \in Nat
      /\ MaxParts \in Nat /\ MaxParts >= 2
  BY ConstantTypes
<1>2. Empty.reqs = <<>> /\ Empty.fut = <<>> /\ Empty \in [reqs : Seq(Req), fut : Seq(Slot)]
  BY DEF Empty
<1>3. Batch(Empty) /\ IsInjective(<<>>) /\ Set(<<>>) = {} /\ DOMAIN <<>> = {} /\ Len(<<>>) = 0
  BY <1>2 DEF Batch, IsInjective, Set
<1>4. Types
  <2>1. buf \in [Slot -> Req \cup {NoReq}]
    BY DEF Init, Slot
  <2>2. future_ct \in 0 .. FutureLimit - 1
    BY <1>1 DEF Init
  <2> QED
    BY <2>1, <2>2, <1>3 DEF Init, Types
<1>5. Places
  BY <1>1, <1>2, <1>3 DEF Init, Places
<1>6. Ring /\ Tokens
  BY <1>2, <1>3 DEF Init, Ring, Tokens
<1> QED
  BY <1>4, <1>5, <1>6 DEF FutureInv

-----------------------------------------------------------------------------
(* Steps that launch nothing.                                              *)

\* Which slots are in use, and how old they are, is decided by launches alone.
LEMMA RingSame ==
  ASSUME Ring, UNCHANGED <<future_ct, running, fut, last, chunked, parts>>
  PROVE  Ring'
BY DEF Ring, Recent, RecentAt, AgeAt, Window, Cut

\* What is launched is the last prefill batch or the running batch.
LEMMA LaunchedOne ==
  ASSUME Types, Places, launched # Empty
  PROVE  \/ launched = last /\ last.reqs # <<>>
         \/ /\ last = Empty /\ running # <<>> /\ launched = [reqs |-> running, fut |-> fut]
            /\ launched.reqs = running /\ launched.fut = fut
BY DEF Places

\* store_to_map puts each launched token into the slot of its request and touches
\* no other.
LEMMA StoreStep ==
  ASSUME FutureInv, StoreToMap
  PROVE  FutureInv'
<1> USE DEF FutureInv
<1>1. /\ launched # Empty /\ launched' = Empty
      /\ UNCHANGED <<future_ct, running, fut, last, chunked, parts, finished>>
  BY DEF StoreToMap
<1> DEFINE At(i) == CHOOSE j \in DOMAIN launched.fut : launched.fut[j] = i
<1>2. buf' = [i \in DOMAIN buf |->
               IF \E j \in DOMAIN launched.fut : launched.fut[j] = i
               THEN launched.reqs[At(i)] ELSE Forget(Set(launched.reqs))[i]]
  BY DEF StoreToMap
<1>3. /\ DOMAIN buf = Slot /\ buf \in [Slot -> Req \cup {NoReq}]
      /\ launched.reqs \in Seq(Req) /\ launched.fut \in Seq(Slot)
      /\ Len(launched.fut) = Len(launched.reqs)
      /\ last.reqs \in Seq(Req) /\ last.fut \in Seq(Slot) /\ Len(last.fut) = Len(last.reqs)
      /\ running \in Seq(Req) /\ fut \in Seq(Slot) /\ (running # <<>> => Len(fut) = Len(running))
  BY DEF Types, Batch
<1>4. DOMAIN launched.fut = DOMAIN launched.reqs
      /\ \A j \in DOMAIN launched.reqs : launched.reqs[j] \in Req
  BY <1>3
<1>5. \A i \in Slot : Forget(Set(launched.reqs))[i] = IF buf[i] \in Set(launched.reqs) THEN NoReq ELSE buf[i]
  BY <1>3 DEF Forget
<1>6. Empty.reqs = <<>> /\ Empty.fut = <<>> /\ Empty \in [reqs : Seq(Req), fut : Seq(Slot)]
      /\ Set(<<>>) = {} /\ DOMAIN <<>> = {}
  BY DEF Empty, Set
<1> HIDE DEF At
<1>7. \A i \in Slot : buf'[i] \in Req \cup {NoReq}
  <2> SUFFICES ASSUME NEW i \in Slot PROVE buf'[i] \in Req \cup {NoReq}
    OBVIOUS
  <2>1. CASE \E j \in DOMAIN launched.fut : launched.fut[j] = i
    <3>1. At(i) \in DOMAIN launched.fut
      BY <2>1 DEF At
    <3> QED
      BY <1>2, <1>3, <1>4, <2>1, <3>1
  <2>2. CASE ~\E j \in DOMAIN launched.fut : launched.fut[j] = i
    BY <1>2, <1>3, <1>5, <2>2
  <2> QED
    BY <2>1, <2>2
<1>8. Types'
  <2>1. buf' \in [Slot -> Req \cup {NoReq}] /\ Slot' = Slot
    BY <1>2, <1>3, <1>7 DEF Slot
  <2>2. Batch(Empty)
    BY <1>6 DEF Batch
  <2> QED
    BY <1>1, <2>1, <2>2 DEF Types, Batch, Slot
<1>9. Places'
  BY <1>1 DEF Places
<1>10. Ring'
  BY <1>1, RingSame
<1>11. Set(launched'.reqs) = {}
  BY <1>1, <1>6
<1>12. \A i \in DOMAIN running : i \in DOMAIN fut /\ fut[i] \in Slot
  <2>1. \A i \in DOMAIN running : running # <<>>
    BY <1>6
  <2> QED
    BY <1>3, <2>1
<1>13. \A i \in DOMAIN last.reqs : i \in DOMAIN last.fut /\ last.fut[i] \in Slot
  BY <1>3
<1>14. ASSUME NEW j \in DOMAIN launched.fut,
              \A k \in DOMAIN launched.fut : launched.fut[k] = launched.fut[j] => k = j
       PROVE  buf'[launched.fut[j]] = launched.reqs[j]
  <2>1. launched.fut[j] \in Slot
    BY <1>3
  <2>2. At(launched.fut[j]) = j
    BY <1>14 DEF At
  <2> QED
    BY <1>2, <1>3, <2>1, <2>2
<1>15. ASSUME NEW s \in Slot, NEW r, \A j \in DOMAIN launched.fut : launched.fut[j] # s,
              buf[s] = r, r \notin Set(launched.reqs)
       PROVE  buf'[s] = r
  BY <1>2, <1>3, <1>5, <1>15
<1>16. CASE launched = last /\ last.reqs # <<>>
  <2>1. ASSUME NEW i \in DOMAIN running
        PROVE  running[i] \in finished \/ buf'[fut[i]] = running[i]
    <3>1. running[i] \in Set(running) /\ running[i] \notin Set(launched.reqs)
      BY <1>16 DEF Set, Places
    <3>2. running[i] \in finished \/ buf[fut[i]] = running[i]
      BY <3>1 DEF Tokens
    <3>3. \A j \in DOMAIN launched.fut : launched.fut[j] # fut[i]
      BY <1>4, <1>16 DEF Ring
    <3> QED
      BY <3>1, <3>2, <3>3, <1>12, <1>15
  <2>2. ASSUME NEW i \in DOMAIN last.reqs PROVE buf'[last.fut[i]] = last.reqs[i]
    BY <1>4, <1>14, <1>16 DEF Ring
  <2>3. Tokens'
    BY <1>1, <1>11, <2>1, <2>2 DEF Tokens
  <2> QED
    BY <1>8, <1>9, <1>10, <2>3
<1>17. CASE /\ last = Empty /\ running # <<>> /\ launched = [reqs |-> running, fut |-> fut]
            /\ launched.reqs = running /\ launched.fut = fut
  <2>1. ASSUME NEW i \in DOMAIN running PROVE buf'[fut[i]] = running[i]
    BY <1>4, <1>14, <1>17 DEF Ring
  <2>2. DOMAIN last.reqs = {}
    BY <1>6, <1>17
  <2>3. Tokens'
    BY <1>1, <1>11, <2>1, <2>2 DEF Tokens
  <2> QED
    BY <1>8, <1>9, <1>10, <2>3
<1> QED
  BY <1>1, <1>16, <1>17, LaunchedOne

\* _handle_finished_req: the token of a finished request is of no use.
LEMMA FinishStep ==
  ASSUME FutureInv, NEW r \in Req, Finish(r)
  PROVE  FutureInv'
<1> USE DEF FutureInv
<1>1. /\ r \in Set(running) \ finished /\ finished' = finished \cup {r} /\ buf' = Forget({r})
      /\ UNCHANGED <<future_ct, running, fut, last, chunked, parts, launched>>
  BY DEF Finish
<1>2. /\ DOMAIN buf = Slot /\ buf \in [Slot -> Req \cup {NoReq}]
      /\ last.reqs \in Seq(Req) /\ last.fut \in Seq(Slot) /\ Len(last.fut) = Len(last.reqs)
      /\ running \in Seq(Req) /\ fut \in Seq(Slot) /\ (running # <<>> => Len(fut) = Len(running))
  BY DEF Types, Batch
<1>3. \A i \in Slot : buf'[i] = IF buf[i] = r THEN NoReq ELSE buf[i]
  BY <1>1, <1>2 DEF Forget
<1>4. Types'
  <2>1. buf' \in [Slot -> Req \cup {NoReq}] /\ Slot' = Slot
    BY <1>1, <1>2 DEF Forget, Slot
  <2> QED
    BY <1>1, <2>1 DEF Types, Batch, Slot
<1>5. Places'
  BY <1>1 DEF Places
<1>6. Ring'
  BY <1>1, RingSame
<1>7. Tokens'
  <2>1. ASSUME NEW i \in DOMAIN running
        PROVE  running[i] \in finished' \cup Set(launched.reqs) \/ buf'[fut[i]] = running[i]
    <3>1. running # <<>>
      BY <2>1
    <3>2. fut[i] \in Slot
      BY <1>2, <3>1
    <3> QED
      BY <1>1, <1>3, <3>2 DEF Tokens
  <2>2. ASSUME NEW i \in DOMAIN last.reqs
        PROVE  last.reqs[i] \in Set(launched.reqs) \/ buf'[last.fut[i]] = last.reqs[i]
    <3>1. last.fut[i] \in Slot
      BY <1>2
    <3>2. last.reqs[i] # r
      BY <1>1 DEF Places, Set
    <3> QED
      BY <1>3, <3>1, <3>2 DEF Tokens
  <2> QED
    BY <1>1, <2>1, <2>2 DEF Tokens
<1> QED
  BY <1>4, <1>5, <1>6, <1>7

-----------------------------------------------------------------------------
(* Launches.                                                               *)

\* The futures of a new batch are different slots of the buffer.
LEMMA IndicesFacts ==
  ASSUME Types, NEW bs \in 0 .. MaxRunning
  PROVE  /\ Indices(bs) \in Seq(Slot) /\ Len(Indices(bs)) = bs /\ DOMAIN Indices(bs) = 1 .. bs
         /\ \A i \in 1 .. bs : Indices(bs)[i] = future_ct + i
<1>1. MaxRunning \in Nat /\ bs \in Nat /\ future_ct \in 0 .. FutureLimit - 1
  BY ConstantTypes DEF Types
<1>2. \A i \in 1 .. bs : future_ct + i \in Slot
  BY <1>1, NewAges
<1>3. Indices(bs) \in [1 .. bs -> Slot]
  BY <1>2 DEF Indices
<1>4. Indices(bs) \in Seq(Slot) /\ Len(Indices(bs)) = bs /\ DOMAIN Indices(bs) = 1 .. bs
  BY <1>1, <1>3, SeqOfMap
<1> QED
  BY <1>4 DEF Indices

\* A decode step: what runs has the youngest slots, nothing else counts.
LEMMA DecodeStep ==
  ASSUME FutureInv, RunDecode
  PROVE  FutureInv'
<1> USE DEF FutureInv
<1> DEFINE live == FilterBatch(Merged, KeepIndices(Merged, finished))
<1>1. PICK drop \in SUBSET Set(live.reqs) :
        LET b == FilterBatch(live, KeepIndices(live, drop))
        IN  /\ running' = b.reqs
            /\ fut' = IF b.reqs = <<>> THEN b.fut ELSE Indices(Len(b.reqs))
            /\ launched' = IF b.reqs = <<>> THEN Empty ELSE [reqs |-> b.reqs, fut |-> fut']
            /\ future_ct' = NextCt(Len(b.reqs))
            /\ buf' = Forget(drop)
  BY DEF RunDecode
<1> DEFINE b == FilterBatch(live, KeepIndices(live, drop))
           n == Len(b.reqs)
<1>2. /\ last' = Empty /\ chunked = NoReq
      /\ UNCHANGED <<chunked, parts, finished>>
  BY DEF RunDecode
<1>3. Paired(Merged) /\ Len(Merged.reqs) = Len(running) + Len(last.reqs) - Cut
  BY MergedFacts
<1>4. Paired(live) /\ Len(live.reqs) <= Len(Merged.reqs)
  BY <1>3, FilterFacts
<1> HIDE DEF live
<1>5. Paired(b) /\ Len(b.reqs) <= Len(live.reqs)
  BY <1>4, FilterFacts
<1>6. /\ running' = b.reqs
      /\ fut' = IF b.reqs = <<>> THEN b.fut ELSE Indices(n)
      /\ launched' = IF b.reqs = <<>> THEN Empty ELSE [reqs |-> b.reqs, fut |-> fut']
      /\ future_ct' = NextCt(n) /\ buf' = Forget(drop)
  BY <1>1
<1> HIDE DEF b
<1>7. b.reqs \in Seq(Req) /\ n \in Nat /\ DOMAIN b.reqs = 1 .. n /\ b.fut \in Seq(Slot) /\ IsInjective(b.reqs)
  BY <1>5, PairedTypes DEF Paired
<1>c. /\ FutureLimit \in Nat /\ FutureLimit > MaxRunning /\ MaxRunning \in Nat
      /\ MaxParts \in Nat /\ MaxParts >= 2
  BY ConstantTypes
<1>8. n \in 0 .. MaxRunning
  <2>1. Len(Merged.reqs) \in Nat /\ Len(live.reqs) \in Nat
    BY <1>3, <1>4, PairedTypes
  <2>2. Len(running) \in Nat /\ Len(last.reqs) \in Nat
    BY DEF Types, Batch
  <2>3. Len(Merged.reqs) <= MaxRunning
    BY <1>3, <2>2, <1>c DEF Places, Cut
  <2> QED
    BY <1>4, <1>5, <1>7, <1>c, <2>1, <2>3
<1> HIDE DEF n
<1>9. /\ Indices(n) \in Seq(Slot) /\ Len(Indices(n)) = n
      /\ \A i \in 1 .. n : Indices(n)[i] = future_ct + i
  BY <1>8, IndicesFacts
<1>10. b.reqs # <<>> <=> n # 0
  BY <1>7 DEF n
<1>11. /\ fut' \in Seq(Slot) /\ (b.reqs # <<>> => fut' = Indices(n))
  BY <1>6, <1>7, <1>9
<1>12. Empty.reqs = <<>> /\ Empty.fut = <<>> /\ Empty \in [reqs : Seq(Req), fut : Seq(Slot)]
       /\ DOMAIN <<>> = {} /\ Len(<<>>) = 0 /\ Set(<<>>) = {} /\ IsInjective(<<>>)
  BY DEF Empty, Set, IsInjective
<1>13. Types'
  <2>1. future_ct' \in 0 .. FutureLimit - 1
    BY <1>6, <1>8, Pointer DEF NextCt, Types
  <2>2. buf' \in [Slot -> Req \cup {NoReq}]
    BY <1>6 DEF Forget, Types
  <2>3. running' \in Seq(Req) /\ (running' # <<>> => Len(fut') = Len(running'))
    BY <1>6, <1>7, <1>9, <1>11 DEF n
  <2>4. Batch(Empty)
    BY <1>12 DEF Batch
  <2>5. Batch(launched')
    <3>1. CASE b.reqs = <<>>
      BY <3>1, <1>6, <2>4
    <3>2. CASE b.reqs # <<>>
      <4>1. launched' = [reqs |-> b.reqs, fut |-> Indices(n)]
        BY <3>2, <1>6, <1>11
      <4>2. launched'.reqs = b.reqs /\ launched'.fut = Indices(n)
        BY <4>1
      <4>3. launched' \in [reqs : Seq(Req), fut : Seq(Slot)]
        BY <4>1, <1>7, <1>9
      <4> QED
        BY <4>2, <4>3, <1>9 DEF Batch, n
    <3> QED
      BY <3>1, <3>2
  <2>6. chunked' \in Req \cup {NoReq} /\ finished' \subseteq Req
    BY <1>2 DEF Types
  <2>7. Slot' = Slot /\ Batch(last') /\ Batch(last)' = Batch(last') /\ Batch(launched)' = Batch(launched')
    BY <1>2, <2>4 DEF Slot, Batch
  <2> QED
    BY <1>11, <2>1, <2>2, <2>3, <2>5, <2>6, <2>7 DEF Types
<1>14. Places'
  <2>1. launched' = Empty \/ (last' = Empty /\ running' # <<>> /\ launched' = [reqs |-> running', fut |-> fut'])
    BY <1>2, <1>6
  <2>2. Len(running') + Len(last'.reqs) <= MaxRunning
    BY <1>2, <1>6, <1>8, <1>12 DEF n
  <2>3. Set(last'.reqs) = {}
    BY <1>2, <1>12
  <2> QED
    BY <1>2, <1>6, <1>7, <1>12, <2>1, <2>2, <2>3 DEF Places
<1>15. Ring'
  <2>1. Window' = n * MaxParts
    <3>1. Len(running') = n /\ Len(last'.reqs) = 0 /\ Cut' = 0 /\ parts' = 0
      BY <1>2, <1>6, <1>12 DEF n, Cut, Places
    <3>2. 0 - 0 = 0 /\ 0 * MaxParts = 0 /\ n * MaxParts \in Int
      <4>1. n \in Int
        BY <1>8, <1>c
      <4> QED
        BY <4>1, Weights
    <3> QED
      BY <3>1, <3>2 DEF Window
  <2>2. n <= Window' /\ Window' \in Int
    <3>1. n \in Nat /\ n \in Int
      BY <1>8, <1>c
    <3> QED
      BY <2>1, <3>1, Weights
  <2>3. ASSUME NEW i \in DOMAIN running'
        PROVE  fut'[i] = future_ct + i /\ Recent(fut[i])'
    <3>1. i \in 1 .. n /\ b.reqs # <<>>
      BY <1>6, <1>7, <1>10 DEF n
    <3>2. fut'[i] = future_ct + i
      BY <3>1, <1>9, <1>11
    <3>3. /\ future_ct + i \in 1 .. FutureLimit + MaxRunning - 1
          /\ AgeAt(future_ct', future_ct + i) = n - i
      BY <3>1, <1>6, <1>8, NewAges DEF Types, NextCt
    <3>4. n - i \in 0 .. Window' - 1
      BY <3>1, <2>2, <1>8, <1>c
    <3> QED
      BY <3>2, <3>3, <3>4 DEF Recent, RecentAt, AgeAt
  <2>4. DOMAIN last'.reqs = {}
    BY <1>2, <1>12
  <2>5. \A i, j \in DOMAIN running' : fut'[i] = fut'[j] => i = j
    <3>1. DOMAIN running' = 1 .. n /\ future_ct \in Int
      BY <1>6, <1>7 DEF n, Types
    <3>2. ASSUME NEW i \in DOMAIN running', NEW j \in DOMAIN running', fut'[i] = fut'[j] PROVE i = j
      <4>1. future_ct + i = future_ct + j
        BY <2>3, <3>2
      <4>2. i \in Int /\ j \in Int
        BY <3>1, <3>2
      <4> QED
        BY <3>1, <4>1, <4>2
    <3> QED
      BY <3>2
  <2> QED
    BY <2>3, <2>4, <2>5 DEF Ring
<1>16. Tokens'
  <2>1. ASSUME NEW i \in DOMAIN running' PROVE running'[i] \in Set(launched'.reqs)
    <3>1. b.reqs # <<>>
      BY <1>6, <1>7, <1>10 DEF n
    <3>2. launched'.reqs = running'
      BY <3>1, <1>6
    <3> QED
      BY <3>2 DEF Set
  <2>2. DOMAIN last'.reqs = {}
    BY <1>2, <1>12
  <2> QED
    BY <2>1, <2>2 DEF Tokens
<1> QED
  BY <1>13, <1>14, <1>15, <1>16

\* Some order of a finite set.
LEMMA SomeOrder ==
  ASSUME NEW A, NEW S \in SUBSET A, IsFiniteSet(S)
  PROVE  /\ SetToSeq(S) \in Seq(A) /\ IsInjective(SetToSeq(S)) /\ Set(SetToSeq(S)) \subseteq S
         /\ Len(SetToSeq(S)) \in Nat
<1> DEFINE n == Cardinality(S)
           q == SetToSeq(S)
<1>1. n \in Nat /\ ExistsBijection(1 .. n, S)
  BY FS_CardinalityType
<1>2. PICK f : f \in Bijection(1 .. n, S)
  BY <1>1 DEF ExistsBijection
<1>3. f \in [1 .. n -> S] /\ IsInjective(f)
  BY <1>2 DEF Bijection, Injection, IsInjective
<1>4. q \in [1 .. n -> S] /\ IsInjective(q)
  BY <1>3 DEF SetToSeq
<1> HIDE DEF q, n
<1>5. q \in Seq(S) /\ DOMAIN q = 1 .. n /\ Len(q) = n
  BY <1>1, <1>4, SeqOfMap
<1>6. q \in [1 .. n -> A]
  BY <1>4
<1>7. q \in Seq(A)
  BY <1>1, <1>6, SeqOfMap
<1>8. Set(q) \subseteq S
  BY <1>4, <1>5 DEF Set
<1> QED
  BY <1>1, <1>4, <1>5, <1>7, <1>8 DEF q

\* The requests of a new prefill batch: the chunked request and new ones.
CutFirst == IF chunked = NoReq THEN <<>> ELSE <<chunked>>
ListOf(new, cut) ==
  CutFirst \o SetToSeq(new \ {cut}) \o (IF cut \in new THEN <<cut>> ELSE <<>>)

LEMMA ListFacts ==
  ASSUME FutureInv, NEW new \in SUBSET (Req \ (Set(Merged.reqs) \cup Set(CutFirst))), NEW cut
  PROVE  LET list == ListOf(new, cut)
         IN  /\ list \in Seq(Req) /\ IsInjective(list)
             /\ Set(list) \subseteq new \cup Set(CutFirst)
             /\ chunked # NoReq => chunked \in Set(list)
             /\ cut \in new => cut \in Set(list)
             /\ new = {} => list = CutFirst
             /\ Len(list) \in Nat
<1> USE DEF FutureInv
<1> DEFINE mid == SetToSeq(new \ {cut})
           end == IF cut \in new THEN <<cut>> ELSE <<>>
<1>1. new \in SUBSET Req /\ IsFiniteSet(new \ {cut}) /\ new \ {cut} \in SUBSET Req
  BY ConstantTypes, FS_Subset
<1>2. /\ mid \in Seq(Req) /\ IsInjective(mid) /\ Set(mid) \subseteq new \ {cut}
  BY <1>1, SomeOrder
<1>3. /\ end \in Seq(Req) /\ IsInjective(end) /\ Set(end) = (IF cut \in new THEN {cut} ELSE {})
  <2>1. CASE cut \in new
    BY <1>1, <2>1 DEF Set, IsInjective
  <2>2. CASE cut \notin new
    BY <2>2 DEF Set, IsInjective
  <2> QED
    BY <2>1, <2>2
<1>4. /\ CutFirst \in Seq(Req) /\ IsInjective(CutFirst)
      /\ Set(CutFirst) = (IF chunked = NoReq THEN {} ELSE {chunked})
  <2>1. CASE chunked = NoReq
    BY <2>1 DEF CutFirst, Set, IsInjective
  <2>2. CASE chunked # NoReq
    BY <2>2 DEF CutFirst, Set, IsInjective, Types
  <2> QED
    BY <2>1, <2>2
<1>5. CASE new = {}
  <2>1. mid = <<>>
    <3>1. Len(mid) = 0
      <4>1. Set(mid) = {} /\ DOMAIN mid = 1 .. Len(mid) /\ Len(mid) \in Nat
        BY <1>2, <1>5, SetType
      <4>2. DOMAIN mid = {}
        BY <4>1 DEF Set
      <4> QED
        BY <4>1, <4>2
    <3> QED
      BY <3>1, <1>2
  <2>2. end = <<>>
    BY <1>5
  <2>3. ListOf(new, cut) = CutFirst
    <3>1. ListOf(new, cut) = CutFirst \o <<>> \o <<>>
      BY <2>1, <2>2 DEF ListOf
    <3> QED
      BY <3>1, <1>4
  <2> QED
    BY <2>3, <1>4, <1>5
<1>6. CASE new # {}
  <2> HIDE DEF mid, end
  <2>1. ListOf(new, cut) = (CutFirst \o mid) \o end
    BY DEF ListOf, mid, end
  <2>2. /\ CutFirst \o mid \in Seq(Req) /\ Set(CutFirst \o mid) = Set(CutFirst) \cup Set(mid)
        /\ IsInjective(CutFirst \o mid)
    <3>1. Set(CutFirst) \cap Set(mid) = {}
      BY <1>2
    <3> QED
      BY <3>1, <1>2, <1>4, SetConcat
  <2>3. Set(CutFirst \o mid) \cap Set(end) = {}
    BY <1>2, <1>3, <2>2
  <2> DEFINE hm == CutFirst \o mid
             list == hm \o end
  <2> HIDE DEF hm
  <2>a. hm \in Seq(Req) /\ IsInjective(hm) /\ Set(hm) \cap Set(end) = {}
    BY <2>2, <2>3 DEF hm
  <2>4. list \in Seq(Req) /\ Set(list) = Set(hm) \cup Set(end) /\ IsInjective(list)
    BY <2>a, <1>3, SetConcat
  <2>5. ListOf(new, cut) = list
    BY <2>1 DEF hm
  <2> HIDE DEF list
  <2>6. Set(list) \subseteq new \cup Set(CutFirst)
    BY <1>2, <1>3, <2>2, <2>4 DEF hm
  <2>7. (chunked # NoReq => chunked \in Set(list)) /\ (cut \in new => cut \in Set(list))
    BY <1>3, <1>4, <2>2, <2>4 DEF hm
  <2> QED
    BY <2>4, <2>5, <2>6, <2>7, <1>6
<1> QED
  BY <1>5, <1>6

\* What a prefill batch changes.
PrefillOf(list, cut, new) ==
  /\ new \in SUBSET (Req \ (Set(Merged.reqs) \cup Set(CutFirst)))
  /\ cut \in {NoReq} \cup (IF new = {} THEN Set(CutFirst) ELSE new)
  /\ list = ListOf(new, cut) /\ list # <<>>
  /\ new # {} => Len(Merged.reqs) + Len(list) <= MaxRunning
  /\ parts' = (IF cut = NoReq THEN 0 ELSE IF cut = chunked THEN parts + 1 ELSE 1)
  /\ parts' < MaxParts
  /\ chunked' = cut /\ finished' = finished \ new
  /\ running' = Merged.reqs /\ fut' = Merged.fut
  /\ last' = [reqs |-> list, fut |-> Indices(Len(list))]
  /\ launched' = last' /\ future_ct' = NextCt(Len(list))

LEMMA PrefillParts ==
  ASSUME RunPrefill
  PROVE  /\ launched = Empty /\ buf' = buf
         /\ \E new, cut, list : PrefillOf(list, cut, new)
BY DEF RunPrefill, PrefillOf, ListOf, CutFirst

\* The chunked request needs a slot per batch, a new one a slot more than what a
\* chunked one may still need.
LEMMA WindowGrows ==
  ASSUME FutureInv, NEW new, NEW cut, NEW list, PrefillOf(list, cut, new)
  PROVE  /\ Len(list) \in 1 .. MaxRunning
         /\ Window \in Nat /\ Window' \in Nat
         /\ Window + Len(list) <= Window'
         /\ Window' <= MaxRunning * MaxParts
         /\ Len(Merged.reqs) + Len(list) <= MaxRunning
         /\ parts' \in 0 .. MaxParts - 1 /\ (chunked' = NoReq => parts' = 0)
         /\ chunked' # NoReq => chunked' \in Set(list)
<1> USE DEF FutureInv
<1> DEFINE m == Len(Merged.reqs)
           n == Len(list)
           k == MaxParts
           u == Len(running)
           v == Len(last.reqs)
<1>c. k \in Nat /\ k >= 2 /\ MaxRunning \in Nat /\ NoReq \notin Req
  BY ConstantTypes
<1>1. /\ list \in Seq(Req) /\ Set(list) \subseteq new \cup Set(CutFirst)
      /\ chunked # NoReq => chunked \in Set(list)
      /\ cut \in new => cut \in Set(list)
      /\ new = {} => list = CutFirst
      /\ n \in Nat /\ IsInjective(list)
  BY ListFacts DEF PrefillOf
<1>2. /\ Set(CutFirst) = (IF chunked = NoReq THEN {} ELSE {chunked})
      /\ Len(CutFirst) = (IF chunked = NoReq THEN 0 ELSE 1)
  BY DEF CutFirst, Set
<1>3. m = u + v - Cut /\ u \in Nat /\ v \in Nat /\ u + v <= MaxRunning
  BY MergedFacts DEF Types, Batch, Places
<1>4. Cut = (IF chunked = NoReq THEN 0 ELSE 1) /\ Cut' = (IF cut = NoReq THEN 0 ELSE 1)
  BY DEF Cut, PrefillOf
<1>5. /\ parts \in 0 .. k - 1 /\ (chunked = NoReq => parts = 0) /\ Cut <= v
  <2>1. chunked # NoReq => v # 0
    <3> SUFFICES ASSUME chunked # NoReq, v = 0 PROVE FALSE
      OBVIOUS
    <3>1. chunked \in Set(last.reqs)
      BY DEF Places
    <3>2. DOMAIN last.reqs = 1 .. v
      BY DEF Types, Batch
    <3> QED
      BY <3>1, <3>2 DEF Set
  <2> QED
    BY <1>3, <1>4, <2>1 DEF Places
<1>6. n >= 1
  BY <1>1 DEF PrefillOf
<1>7. m + n <= MaxRunning
  <2>1. CASE new # {}
    BY <2>1 DEF PrefillOf
  <2>2. CASE new = {}
    <3>1. n = 1 /\ Cut = 1
      BY <2>2, <1>1, <1>2, <1>4, <1>6
    <3> QED
      BY <3>1, <1>3
  <2> QED
    BY <2>1, <2>2
<1>8. n \in 1 .. MaxRunning
  <2>1. m \in Nat
    BY <1>3, <1>4, <1>5
  <2> QED
    BY <1>1, <1>6, <1>7, <1>c, <2>1
<1>9. Window = u * k + (v - Cut) * k + parts /\ Window' = m * k + (n - Cut') * k + parts'
  <2>1. running' = Merged.reqs /\ last'.reqs = list
    BY DEF PrefillOf
  <2> QED
    BY <2>1 DEF Window
<1>w. \A x \in Int : x * k \in Int
  BY Weights
<1>10. m * k = u * k + (v - Cut) * k
  <2>1. m = u + (v - Cut) /\ u \in Int /\ v - Cut \in Int
    BY <1>3, <1>4
  <2>2. (u + (v - Cut)) * k = u * k + (v - Cut) * k
    BY <2>1, Weights
  <2> QED
    BY <2>1, <2>2
<1>11. /\ parts' \in 0 .. k - 1 /\ (cut = NoReq => parts' = 0)
       /\ parts + n <= (n - Cut') * k + parts'
       /\ cut # NoReq => cut \in Set(list)
  <2>0. parts' < k /\ parts' = (IF cut = NoReq THEN 0 ELSE IF cut = chunked THEN parts + 1 ELSE 1)
    BY DEF PrefillOf
  <2>1. CASE cut = NoReq
    <3>1. n - Cut' = n /\ parts' = 0
      BY <2>0, <2>1, <1>4, <1>8
    <3>2. n + k - 1 <= n * k
      <4>1. n \in Nat \ {0}
        BY <1>1, <1>6
      <4> QED
        BY <4>1, Weights
    <3>3. n * k \in Int
      BY <1>w, <1>1
    <3> QED
      BY <3>1, <3>2, <3>3, <2>1, <1>1, <1>5, <1>c
  <2>2. CASE cut # NoReq /\ cut = chunked
    <3>1. new = {}
      <4>1. cut \in Set(CutFirst) /\ cut \notin new
        BY <1>2, <2>2 DEF PrefillOf
      <4> QED
        BY <4>1, <2>2 DEF PrefillOf
    <3>2. n = 1 /\ Cut' = 1 /\ parts' = parts + 1
      BY <3>1, <2>0, <2>2, <1>1, <1>2, <1>4
    <3>3. (n - Cut') * k = 0
      <4>1. n - Cut' = 0
        BY <3>2
      <4> QED
        BY <4>1, Weights
    <3> QED
      BY <2>0, <2>2, <3>2, <3>3, <1>1, <1>5, <1>c
  <2>3. CASE cut # NoReq /\ cut # chunked
    <3>1. cut \in new
      BY <2>3, <1>2 DEF PrefillOf
    <3>2. Cut' = 1 /\ parts' = 1 /\ cut \in Set(list)
      BY <2>0, <2>3, <3>1, <1>1, <1>4
    <3>3. chunked # NoReq => n >= 2
      <4>1. ASSUME chunked # NoReq, n = 1 PROVE FALSE
        <5>1. DOMAIN list = 1 .. 1
          BY <1>1, <4>1, SetType
        <5>2. Set(list) = {list[1]}
          BY <5>1 DEF Set
        <5> QED
          BY <5>2, <1>1, <2>3, <3>1, <4>1
      <4>2. n \in Nat /\ n >= 1
        BY <1>1, <1>6
      <4> HIDE DEF n
      <4> QED
        BY <4>1, <4>2
    <3>4. parts + n <= (n - 1) * k + 1
      <4>1. CASE chunked = NoReq
        <5>1. n - 1 \in Nat /\ n - 1 \in Int
          BY <1>1, <1>6
        <5>2. n - 1 <= (n - 1) * k /\ (n - 1) * k \in Int
          BY <5>1, Weights
        <5> QED
          BY <5>2, <4>1, <1>5, <1>1
      <4>2. CASE chunked # NoReq
        <5>1. n - 1 \in Nat \ {0} /\ n - 1 \in Int
          <6>1. n \in Nat /\ n >= 2
            BY <1>1, <3>3, <4>2
          <6> HIDE DEF n
          <6> QED
            BY <6>1
        <5>2. n - 1 + k - 1 <= (n - 1) * k /\ (n - 1) * k \in Int
          BY <5>1, Weights
        <5> QED
          BY <5>2, <1>5, <1>1, <1>c
      <4> QED
        BY <4>1, <4>2
    <3> QED
      BY <2>0, <2>3, <3>2, <3>4, <1>1, <1>c
  <2> QED
    BY <2>1, <2>2, <2>3
<1>12. /\ u * k \in Int /\ (v - Cut) * k \in Int /\ m * k \in Int /\ (n - Cut') * k \in Int
       /\ u * k >= 0 /\ (v - Cut) * k >= 0
  <2>1. u \in Nat /\ v - Cut \in Nat /\ m \in Int /\ n - Cut' \in Int
    BY <1>1, <1>3, <1>4, <1>5
  <2>2. \A x \in Nat : x <= x * k
    BY Weights
  <2> HIDE DEF k, u, v, m, n
  <2>3. u * k \in Int /\ (v - Cut) * k \in Int /\ m * k \in Int /\ (n - Cut') * k \in Int
    BY <2>1, <1>w
  <2>4. u <= u * k /\ v - Cut <= (v - Cut) * k
    BY <2>1, <2>2
  <2> QED
    BY <2>1, <2>3, <2>4
<1>13. Window \in Nat /\ Window' \in Nat /\ Window + n <= Window'
  <2>1. parts \in Nat /\ parts' \in Nat /\ n \in Nat
    BY <1>5, <1>11, <1>1, <1>c
  <2> HIDE DEF k, u, v, m, n
  <2>2. Window \in Nat
    BY <2>1, <1>9, <1>12
  <2>3. Window + n <= Window' /\ Window' \in Int
    BY <2>1, <1>9, <1>10, <1>11, <1>12
  <2> QED
    BY <2>1, <2>2, <2>3
<1>14. Window' <= MaxRunning * k
  <2>1. (m + (n - Cut')) * k = m * k + (n - Cut') * k
    <3>1. m \in Int /\ n - Cut' \in Int
      BY <1>1, <1>3, <1>4
    <3> QED
      BY <3>1, Weights
  <2>2. CASE cut = NoReq
    <3>1. m + (n - Cut') <= MaxRunning /\ m + (n - Cut') \in Int /\ parts' = 0
      <4>1. n - Cut' = n /\ parts' = 0
        BY <2>2, <1>1, <1>4, <1>11
      <4>2. m \in Int
        BY <1>3, <1>4
      <4> QED
        BY <4>1, <4>2, <1>1, <1>7
    <3>2. (m + (n - Cut')) * k <= MaxRunning * k
      BY <3>1, <1>c, Weights
    <3> QED
      BY <3>1, <3>2, <2>1, <1>9, <1>12
  <2>3. CASE cut # NoReq
    <3>1. m + (n - Cut') <= MaxRunning - 1 /\ m + (n - Cut') \in Int
      BY <2>3, <1>1, <1>3, <1>4, <1>7, <1>c
    <3>2. (m + (n - Cut')) * k <= (MaxRunning - 1) * k
      BY <3>1, <1>c, Weights
    <3>3. ((MaxRunning - 1) + 1) * k = (MaxRunning - 1) * k + 1 * k /\ 1 * k = k
      BY <1>c, Weights
    <3>4. (MaxRunning - 1) + 1 = MaxRunning
      BY <1>c
    <3>5. MaxRunning * k = (MaxRunning - 1) * k + k
      BY <3>3, <3>4
    <3>6. (MaxRunning - 1) * k \in Int /\ parts' <= k - 1 /\ parts' \in Int
      BY <1>w, <1>c, <1>11
    <3> QED
      BY <3>2, <3>5, <3>6, <2>1, <1>9, <1>12, <1>c
  <2> QED
    BY <2>2, <2>3
<1>15. chunked' = cut
  BY DEF PrefillOf
<1> QED
  BY <1>7, <1>8, <1>11, <1>13, <1>14, <1>15

\* What is in use after a prefill launch ages by the length of the batch.
LEMMA StillRecent ==
  ASSUME FutureInv, NEW new, NEW cut, NEW list, PrefillOf(list, cut, new)
  PROVE  \A s : Recent(s) => /\ RecentAt(future_ct', Window', s)
                            /\ AgeAt(future_ct', s) >= Len(list)
<1> DEFINE n == Len(list)
<1>1. /\ n \in 1 .. MaxRunning /\ Window \in Nat /\ Window' \in Nat /\ Window + n <= Window'
      /\ Window' <= MaxRunning * MaxParts
  BY WindowGrows
<1>2. /\ FutureLimit = MaxRunning * MaxParts + MaxRunning /\ MaxRunning * MaxParts \in Nat
      /\ MaxRunning \in Nat /\ FutureLimit \in Nat
  BY ConstantTypes
<1>3. future_ct \in 0 .. FutureLimit - 1 /\ future_ct' = (future_ct + n) % FutureLimit
  BY DEF FutureInv, Types, PrefillOf, NextCt
<1> SUFFICES ASSUME NEW s, Recent(s)
             PROVE  RecentAt(future_ct', Window', s) /\ AgeAt(future_ct', s) >= n
  OBVIOUS
<1>4. s \in 1 .. FutureLimit + MaxRunning - 1 /\ AgeAt(future_ct, s) \in 0 .. Window - 1
  BY DEF Recent, RecentAt
<1> HIDE DEF n
<1> DEFINE a == AgeAt(future_ct, s)
           w == Window'
<1>5. a >= 0 /\ a \in Nat /\ a + n < FutureLimit - MaxRunning /\ a + n \in 0 .. w - 1 /\ a + n >= n
  <2> HIDE DEF a, w
  <2>1. a \in 0 .. Window - 1
    BY <1>4 DEF a
  <2>2. /\ n \in 1 .. MaxRunning /\ Window \in Nat /\ w \in Nat /\ Window + n <= w
        /\ w <= MaxRunning * MaxParts
    BY <1>1 DEF w
  <2> QED
    BY ONLY <1>2, <2>1, <2>2
<1>6. AgeAt((future_ct + n) % FutureLimit, s) = a + n
  <2>1. n \in 0 .. MaxRunning
    BY <1>1, <1>2
  <2> QED
    BY <2>1, <1>3, <1>4, <1>5, Ages
<1>7. AgeAt(future_ct', s) = a + n
  BY <1>3, <1>6
<1> QED
  BY <1>4, <1>5, <1>7 DEF RecentAt

\* A prefill batch, whole or cut.
LEMMA PrefillStep ==
  ASSUME FutureInv, RunPrefill
  PROVE  FutureInv'
<1>1. PICK new, cut, list : PrefillOf(list, cut, new)
  BY PrefillParts
<1>2. launched = Empty /\ buf' = buf
  BY PrefillParts
<1> DEFINE n == Len(list)
           M == Merged
<1>3. /\ n \in 1 .. MaxRunning /\ Window' \in Nat /\ n <= Window'
      /\ Len(M.reqs) + n <= MaxRunning
      /\ parts' \in 0 .. MaxParts - 1 /\ (chunked' = NoReq => parts' = 0)
      /\ chunked' # NoReq => chunked' \in Set(list)
  <2>1. /\ n \in 1 .. MaxRunning /\ Window \in Nat /\ Window' \in Nat /\ Window + n <= Window'
    BY <1>1, WindowGrows
  <2>2. /\ Len(M.reqs) + n <= MaxRunning
        /\ parts' \in 0 .. MaxParts - 1 /\ (chunked' = NoReq => parts' = 0)
        /\ chunked' # NoReq => chunked' \in Set(list)
    BY <1>1, WindowGrows
  <2> HIDE DEF n
  <2> QED
    BY <2>1, <2>2
<1>4. /\ new \in SUBSET (Req \ (Set(M.reqs) \cup Set(CutFirst)))
      /\ list = ListOf(new, cut) /\ list # <<>>
      /\ finished' = finished \ new
      /\ running' = M.reqs /\ fut' = M.fut
      /\ last' = [reqs |-> list, fut |-> Indices(n)]
      /\ launched' = last' /\ future_ct' = NextCt(n)
  BY <1>1 DEF PrefillOf
<1>5. /\ list \in Seq(Req) /\ IsInjective(list) /\ Set(list) \subseteq new \cup Set(CutFirst)
  BY <1>4, ListFacts
<1>6. /\ Paired(M) /\ Set(M.reqs) = Set(running) \cup (Set(last.reqs) \ {chunked})
      /\ \A i \in DOMAIN M.reqs : FromRunning(M, i) \/ FromLast(M, i)
  BY MergedFacts DEF FutureInv
<1>c. MaxRunning \in Nat /\ NoReq \notin Req /\ FutureLimit \in Nat
  BY ConstantTypes
<1>h. Set(CutFirst) = (IF chunked = NoReq THEN {} ELSE {chunked})
  BY DEF CutFirst, Set
<1> HIDE DEF n, M
<1>7. /\ Indices(n) \in Seq(Slot) /\ Len(Indices(n)) = n
      /\ \A i \in 1 .. n : Indices(n)[i] = future_ct + i
  <2>1. n \in 0 .. MaxRunning
    BY <1>3, <1>c
  <2> QED
    BY <2>1, IndicesFacts DEF FutureInv
<1>8. last'.reqs = list /\ last'.fut = Indices(n) /\ DOMAIN list = 1 .. n /\ Len(list) = n
  BY <1>4, <1>5 DEF n
<1>9. /\ M.reqs \in Seq(Req) /\ M.fut \in Seq(Slot) /\ IsInjective(M.reqs)
      /\ M.reqs # <<>> => Len(M.fut) = Len(M.reqs)
  BY <1>6, PairedTypes DEF Paired
<1>10. Types'
  <2>1. future_ct' \in 0 .. FutureLimit - 1
    <3>1. n \in 0 .. MaxRunning
      BY <1>3, <1>c
    <3> QED
      BY <3>1, <1>4, Pointer DEF NextCt, FutureInv, Types
  <2>2. Batch(last')
    <3>1. last' \in [reqs : Seq(Req), fut : Seq(Slot)]
      BY <1>4, <1>5, <1>7
    <3> QED
      BY <3>1, <1>7, <1>8 DEF Batch
  <2>3. chunked' \in Req \cup {NoReq}
    BY <1>3, <1>5, SetType
  <2>4. finished' \subseteq Req /\ buf' \in [Slot -> Req \cup {NoReq}]
    BY <1>2, <1>4 DEF FutureInv, Types
  <2>5. Slot' = Slot /\ Batch(last)' = Batch(last') /\ Batch(launched)' = Batch(launched')
    BY DEF Slot, Batch
  <2> QED
    BY <1>4, <1>9, <2>1, <2>2, <2>3, <2>4, <2>5 DEF Types
<1>11. Set(M.reqs) \cap Set(list) = {} /\ finished' \cap Set(list) = {}
  <2>1. Set(M.reqs) \cap Set(CutFirst) = {}
    BY <1>6, <1>h DEF FutureInv, Places
  <2>2. finished \cap Set(CutFirst) = {}
    BY <1>h DEF FutureInv, Places
  <2> QED
    BY <1>4, <1>5, <2>1, <2>2
<1>12. Places'
  <2>1. launched' = last' /\ last'.reqs # <<>>
    BY <1>4, <1>8
  <2> QED
    BY <1>3, <1>4, <1>5, <1>8, <1>9, <1>11, <2>1 DEF Places
<1>13. ASSUME NEW i \in DOMAIN M.reqs
       PROVE  Recent(M.fut[i]) /\ (M.reqs[i] \in finished \/ buf[M.fut[i]] = M.reqs[i])
  <2>0. Set(launched.reqs) = {}
    BY <1>2 DEF Empty, Set
  <2>1. CASE FromRunning(M, i)
    BY <2>0, <2>1 DEF FromRunning, FutureInv, Ring, Tokens
  <2>2. CASE FromLast(M, i)
    BY <2>0, <2>2 DEF FromLast, FutureInv, Ring, Tokens
  <2> QED
    BY <1>6, <2>1, <2>2
<1>14. \A s : Recent(s) => RecentAt(future_ct', Window', s) /\ AgeAt(future_ct', s) >= n
  BY <1>1, StillRecent DEF n
<1>15. ASSUME NEW j \in DOMAIN list
       PROVE  /\ last'.fut[j] = future_ct + j /\ RecentAt(future_ct', Window', last'.fut[j])
              /\ AgeAt(future_ct', last'.fut[j]) < n
  <2>1. j \in 1 .. n /\ last'.fut[j] = future_ct + j
    BY <1>7, <1>8, <1>15
  <2>2. /\ future_ct + j \in 1 .. FutureLimit + MaxRunning - 1
        /\ AgeAt(future_ct', future_ct + j) = n - j
    <3>1. n \in 0 .. MaxRunning /\ future_ct \in 0 .. FutureLimit - 1
      BY <1>3, <1>c DEF FutureInv, Types
    <3> QED
      BY <3>1, <2>1, <1>4, NewAges DEF NextCt
  <2>3. n - j \in 0 .. Window' - 1 /\ n - j < n
    BY <2>1, <1>3, <1>c
  <2> QED
    BY <2>1, <2>2, <2>3 DEF RecentAt
<1>16. Ring'
  <2>1. \A i \in DOMAIN running' : Recent(fut[i])'
    BY <1>4, <1>13, <1>14 DEF Recent
  <2>2. \A j \in DOMAIN last'.reqs : Recent(last.fut[j])'
    BY <1>8, <1>15 DEF Recent
  <2>3. ASSUME NEW i \in DOMAIN M.reqs, NEW j \in DOMAIN M.reqs, M.fut[i] = M.fut[j] PROVE i = j
    <3>1. M.reqs[i] = M.reqs[j]
      BY <1>6, <2>3 DEF FromRunning, FromLast, FutureInv, Ring
    <3> QED
      BY <3>1, <1>9 DEF IsInjective
  <2>4. ASSUME NEW i \in DOMAIN list, NEW j \in DOMAIN list, last'.fut[i] = last'.fut[j] PROVE i = j
    <3>1. future_ct + i = future_ct + j
      BY <1>15, <2>4
    <3>2. i \in Int /\ j \in Int /\ future_ct \in Int
      BY <1>8, <2>4, <1>c DEF FutureInv, Types
    <3> QED
      BY <3>1, <3>2
  <2>5. ASSUME NEW i \in DOMAIN M.reqs, NEW j \in DOMAIN list PROVE M.fut[i] # last'.fut[j]
    <3> SUFFICES ASSUME M.fut[i] = last'.fut[j] PROVE FALSE
      OBVIOUS
    <3> DEFINE a == AgeAt(future_ct', last'.fut[j])
    <3>1. a >= n
      BY <1>13, <1>14
    <3>2. a < n /\ last'.fut[j] \in Int
      BY <1>15, <1>8, <1>c DEF FutureInv, Types
    <3>3. a \in Int /\ n \in Int
      BY <1>3, <1>15, <1>c DEF RecentAt
    <3> HIDE DEF a
    <3> QED
      BY <3>1, <3>2, <3>3
  <2> QED
    BY <1>4, <1>8, <2>1, <2>2, <2>3, <2>4, <2>5 DEF Ring
<1>17. Tokens'
  <2>1. ASSUME NEW i \in DOMAIN M.reqs PROVE M.reqs[i] \in finished' \/ buf'[M.fut[i]] = M.reqs[i]
    <3>1. M.reqs[i] \in Set(M.reqs)
      BY DEF Set
    <3> QED
      BY <3>1, <1>2, <1>4, <1>13
  <2>2. Set(launched'.reqs) = Set(last'.reqs)
    BY <1>4
  <2> QED
    BY <1>4, <2>1, <2>2 DEF Tokens, Set
<1> QED
  BY <1>10, <1>12, <1>16, <1>17 DEF FutureInv

-----------------------------------------------------------------------------
(* The theorems.                                                           *)

\* The inductive invariant of the ring, the batches and the tokens, kept by every
\* launch, store and finished request (alloc_future_indices, store_to_map,
\* filter_batch, merge_batch).
THEOREM FutureInvariant == Spec => []FutureInv
<1>1. Init => FutureInv
  BY InitInv
<1>2. FutureInv /\ [Next]_vars => FutureInv'
  <2> SUFFICES ASSUME FutureInv, [Next]_vars PROVE FutureInv'
    OBVIOUS
  <2>1. CASE StoreToMap
    BY <2>1, StoreStep
  <2>2. CASE RunPrefill
    BY <2>2, PrefillStep
  <2>3. CASE RunDecode
    BY <2>3, DecodeStep
  <2>4. ASSUME NEW r \in Req, Finish(r) PROVE FutureInv'
    BY <2>4, FinishStep
  <2>5. CASE UNCHANGED vars
    <3>1. Types' /\ Places'
      BY <2>5 DEF vars, FutureInv, Types, Batch, Slot, Places
    <3>2. Ring'
      BY <2>5, RingSame DEF vars, FutureInv
    <3>3. Tokens'
      BY <2>5 DEF vars, FutureInv, Tokens
    <3> QED
      BY <3>1, <3>2, <3>3 DEF FutureInv
  <2> QED
    BY <2>1, <2>2, <2>3, <2>4, <2>5 DEF Next
<1> QED
  BY <1>1, <1>2, PTL DEF Spec

\* future_limit is large enough: whatever is filtered, retracted and merged and
\* however many chunks are launched in between, each unfinished request of the
\* running batch finds its own latest token in its slot (resolve_future).
THEOREM ResolvesOwnTokenTheorem == Spec => []ResolvesOwnToken
<1>1. FutureInv => ResolvesOwnToken
  <2> SUFFICES ASSUME FutureInv PROVE ResolvesOwnToken
    OBVIOUS
  <2> USE DEF FutureInv
  <2>1. TypeOK
    <3>1. DOMAIN buf = Slot
      BY DEF Types
    <3>2. IsBatch(last) /\ IsBatch(launched)
      BY <3>1 DEF Types, Batch, IsBatch
    <3> QED
      BY <3>1, <3>2 DEF TypeOK, Types, Places, Slot
  <2>2. ASSUME NEW i \in DOMAIN Merged.reqs PROVE Own(Merged, i)
    <3>1. FromRunning(Merged, i) \/ FromLast(Merged, i)
      BY <2>2, MergedFacts
    <3>2. CASE FromRunning(Merged, i)
      BY <3>2 DEF FromRunning, Tokens, Own
    <3>3. CASE FromLast(Merged, i)
      BY <3>3 DEF FromLast, Tokens, Own
    <3> QED
      BY <3>1, <3>2, <3>3
  <2> QED
    BY <2>1, <2>2 DEF ResolvesOwnToken
<1> QED
  BY <1>1, FutureInvariant, PTL

-----------------------------------------------------------------------------
(* AdaptiveSpec: the configuration.                                        *)

\* The rows, sized for the configured steps n, have room for the highest tier:
\* max_req_len keeps four tokens and _init_pools adds four and the n + 1 drafts.
RowsWide == \A n \in Initials : MaxSteps <= n + 8

\* A batch average that drops a tier does not raise it again.
HystOrdered == DownHyst <= UpHyst

-----------------------------------------------------------------------------
(* The tiers.                                                              *)

LEMMA TierTypes ==
  /\ DOMAIN Tiers = 1 .. Len(Tiers) /\ Len(Tiers) \in Nat /\ Len(Tiers) >= 2
  /\ \A i \in DOMAIN Tiers : Tiers[i] \in Nat \ {0}
  /\ Range(Tiers) \subseteq Nat \ {0}
  /\ MaxSteps \in Nat \ {0}
BY AdaptiveAssumption DEF Range, MaxSteps

\* candidate_steps is sorted: the last tier is the highest.
LEMMA TiersBelowMax ==
  \A i \in DOMAIN Tiers : Tiers[i] <= MaxSteps
<1> DEFINE N == Len(Tiers)
           T == {k \in Nat : k < N => Tiers[N - k] <= Tiers[N]}
<1>0. N \in Nat /\ DOMAIN Tiers = 1 .. N /\ \A i \in 1 .. N : Tiers[i] \in Nat
  BY TierTypes
<1>s. \A i \in 1 .. N - 1 : Tiers[i] < Tiers[i + 1]
  BY AdaptiveAssumption
<1> HIDE DEF N
<1>1. 0 \in T
  BY <1>0
<1>2. ASSUME NEW k \in Nat, k \in T PROVE k + 1 \in T
  <2> SUFFICES ASSUME k + 1 < N PROVE Tiers[N - (k + 1)] <= Tiers[N]
    OBVIOUS
  <2>1. Tiers[N - k] <= Tiers[N]
    BY <1>0, <1>2
  <2> DEFINE j == N - (k + 1)
  <2>2. j \in 1 .. N - 1 /\ j + 1 = N - k
    BY <1>0
  <2> HIDE DEF j
  <2>3. Tiers[j] < Tiers[N - k]
    BY <1>s, <2>2
  <2>4. Tiers[j] \in Nat /\ Tiers[N - k] \in Nat /\ Tiers[N] \in Nat
    BY <1>0, <2>2
  <2>5. Tiers[j] <= Tiers[N]
    BY <2>1, <2>3, <2>4
  <2> QED
    BY <2>5 DEF j
<1> HIDE DEF T
<1>3. \A k \in Nat : k \in T
  BY <1>1, <1>2, NatSetInduction
<1> SUFFICES ASSUME NEW i \in DOMAIN Tiers PROVE Tiers[i] <= MaxSteps
  OBVIOUS
<1>4. N - i \in Nat /\ N - i < N /\ N - (N - i) = i
  BY <1>0
<1>5. N - i \in T
  BY <1>3, <1>4
<1> QED
  BY <1>4, <1>5 DEF T, MaxSteps, N

\* The snap of __init__ lands on a tier: some tier is at the least distance, and
\* among those the last one.
LEMMA SnapType ==
  ASSUME NEW n \in Nat
  PROVE  Snap(n) \in DOMAIN Tiers
<1> DEFINE D == {Distance(Tiers[i], n) : i \in DOMAIN Tiers}
           d == Min(D)
           L == {i \in DOMAIN Tiers : Distance(Tiers[i], n) = d}
           s == Max(L)
<1>0. \A i \in DOMAIN Tiers : Distance(Tiers[i], n) \in Nat
  BY TierTypes DEF Distance
<1>1. D \subseteq Nat /\ D # {}
  BY <1>0, TierTypes
<1>2. d \in D /\ \A y \in D : d <= y
  BY <1>1, MinExists
<1>a. \E i \in DOMAIN Tiers : Distance(Tiers[i], n) = d
  BY <1>2
<1>b. \A i \in DOMAIN Tiers : i \in 0 .. Len(Tiers)
  BY TierTypes
<1>3. L # {} /\ L \subseteq 0 .. Len(Tiers)
  BY <1>a, <1>b
<1>4. s \in L /\ \A y \in L : s >= y
  BY <1>3, TierTypes, MaxExists
<1> HIDE DEF s
<1>5. ASSUME NEW j \in DOMAIN Tiers
      PROVE  \/ Distance(Tiers[s], n) < Distance(Tiers[j], n)
             \/ Distance(Tiers[s], n) = Distance(Tiers[j], n) /\ s >= j
  <2>1. Distance(Tiers[s], n) = d /\ s \in DOMAIN Tiers
    BY <1>4
  <2>2. d <= Distance(Tiers[j], n)
    BY <1>2
  <2>3. Distance(Tiers[j], n) = d => s >= j
    BY <1>4
  <2>4. d \in Nat /\ Distance(Tiers[j], n) \in Nat
    BY <1>0, <1>1, <1>2
  <2> HIDE DEF d
  <2> QED
    BY <2>1, <2>2, <2>3, <2>4
<1>6. s \in DOMAIN Tiers
  BY <1>4
<1>7. \E i \in DOMAIN Tiers : \A j \in DOMAIN Tiers :
         \/ Distance(Tiers[i], n) < Distance(Tiers[j], n)
         \/ Distance(Tiers[i], n) = Distance(Tiers[j], n) /\ i >= j
  BY <1>5, <1>6
<1> QED
  BY <1>7 DEF Snap

-----------------------------------------------------------------------------
(* The decision.                                                           *)

LEMMA ThresholdTypes ==
  \A k \in DOMAIN Tiers : DropThreshold(k) \in Int /\ RiseThreshold(k) \in Int
BY TierTypes, AdaptiveAssumption DEF DropThreshold, RiseThreshold

\* The first loop of _recompute_params goes down as far as it can and no further.
LEMMA DroppedFacts ==
  ASSUME NEW i \in DOMAIN Tiers, NEW e \in Int
  PROVE  /\ Dropped(i, e) \in 1 .. i
         /\ \A k \in Dropped(i, e) .. i - 1 : e <= DropThreshold(k)
         /\ Dropped(i, e) > 1 => e > DropThreshold(Dropped(i, e) - 1)
<1> DEFINE S == {j \in 1 .. i : \A k \in j .. i - 1 : e <= DropThreshold(k)}
           d == Min(S)
<1>0. i \in Nat /\ i \in 1 .. i /\ 1 .. i \subseteq DOMAIN Tiers
  BY TierTypes
<1>1. S \subseteq Nat
  BY <1>0
<1>2. i \in S
  BY <1>0
<1>3. d \in S /\ \A y \in S : d <= y
  BY <1>1, <1>2, MinExists
<1>4. Dropped(i, e) = d
  BY DEF Dropped
<1> HIDE DEF d
<1>5. d \in 1 .. i /\ \A k \in d .. i - 1 : e <= DropThreshold(k)
  BY <1>3
<1>6. ASSUME d > 1 PROVE e > DropThreshold(d - 1)
  <2>1. d - 1 \in 1 .. i /\ d - 1 \in DOMAIN Tiers /\ ~ (d <= d - 1)
    BY <1>0, <1>5, <1>6
  <2>2. d - 1 \notin S
    BY <1>3, <2>1
  <2>3. PICK k \in d - 1 .. i - 1 : ~ (e <= DropThreshold(k))
    BY <2>1, <2>2
  <2>4. k = d - 1
    BY <1>0, <1>5, <2>3
  <2>5. DropThreshold(d - 1) \in Int
    BY <2>1, ThresholdTypes
  <2> QED
    BY <2>3, <2>4, <2>5
<1> QED
  BY <1>4, <1>5, <1>6

\* The second loop goes up as far as it can and no further.
LEMMA RaisedFacts ==
  ASSUME NEW i \in DOMAIN Tiers, NEW e \in Int
  PROVE  /\ Raised(i, e) \in i .. Len(Tiers)
         /\ \A k \in i .. Raised(i, e) - 1 : e > RiseThreshold(k)
         /\ Raised(i, e) < Len(Tiers) => ~ (e > RiseThreshold(Raised(i, e)))
<1> DEFINE S == {j \in i .. Len(Tiers) : \A k \in i .. j - 1 : e > RiseThreshold(k)}
           d == Max(S)
<1>0. i \in Nat /\ Len(Tiers) \in Nat /\ i \in i .. Len(Tiers) /\ i .. Len(Tiers) \subseteq DOMAIN Tiers
  BY TierTypes
<1>1. S \subseteq 0 .. Len(Tiers)
  BY <1>0
<1>2. i \in S
  BY <1>0
<1>3. d \in S /\ \A y \in S : d >= y
  BY <1>0, <1>1, <1>2, MaxExists
<1>4. Raised(i, e) = d
  BY DEF Raised
<1> HIDE DEF d
<1>5. d \in i .. Len(Tiers) /\ \A k \in i .. d - 1 : e > RiseThreshold(k)
  BY <1>3
<1>6. ASSUME d < Len(Tiers), e > RiseThreshold(d) PROVE FALSE
  <2>1. d + 1 \in i .. Len(Tiers) /\ ~ (d >= d + 1)
    BY <1>0, <1>5, <1>6
  <2>2. \A k \in i .. (d + 1) - 1 : k \in i .. d - 1 \/ k = d
    BY <1>0, <1>5
  <2>3. d + 1 \in S
    BY <1>5, <1>6, <2>1, <2>2
  <2> QED
    BY <1>3, <2>1, <2>3
<1> QED
  BY <1>4, <1>5, <1>6

\* What the two loops leave alone.
LEMMA Stays ==
  ASSUME NEW i \in DOMAIN Tiers, NEW e \in Int,
         i > 1 => e > DropThreshold(i - 1),
         i < Len(Tiers) => ~ (e > RiseThreshold(i))
  PROVE  Recomputed(i, e) = i
<1>0. i \in Nat /\ Len(Tiers) \in Nat /\ i <= Len(Tiers)
  BY TierTypes
<1>1. Dropped(i, e) = i
  <2> DEFINE d == Dropped(i, e)
  <2>1. d \in 1 .. i /\ \A k \in d .. i - 1 : e <= DropThreshold(k)
    BY DroppedFacts
  <2> HIDE DEF d
  <2>2. ASSUME d # i PROVE FALSE
    <3>1. i - 1 \in d .. i - 1 /\ i > 1 /\ i - 1 \in DOMAIN Tiers
      BY <1>0, <2>1, <2>2, TierTypes
    <3>2. e <= DropThreshold(i - 1) /\ e > DropThreshold(i - 1)
      BY <2>1, <3>1
    <3> QED
      BY <3>1, <3>2, ThresholdTypes
  <2> QED
    BY <2>2 DEF d
<1>2. Raised(i, e) = i
  <2> DEFINE d == Raised(i, e)
  <2>1. d \in i .. Len(Tiers) /\ \A k \in i .. d - 1 : e > RiseThreshold(k)
    BY RaisedFacts
  <2> HIDE DEF d
  <2>2. ASSUME d # i PROVE FALSE
    <3>1. i \in i .. d - 1 /\ i < Len(Tiers)
      BY <1>0, <2>1, <2>2
    <3> QED
      BY <2>1, <3>1
  <2> QED
    BY <2>2 DEF d
<1> QED
  BY <1>1, <1>2 DEF Recomputed

\* _recompute_params chooses a tier, and with ordered thresholds it is settled:
\* the same average would choose it again.
LEMMA RecomputedSettled ==
  ASSUME NEW i \in DOMAIN Tiers, NEW e \in Int
  PROVE  /\ Recomputed(i, e) \in DOMAIN Tiers
         /\ HystOrdered => Recomputed(Recomputed(i, e), e) = Recomputed(i, e)
<1> DEFINE d == Dropped(i, e)
           t == Raised(d, e)
<1>0. i \in Nat /\ Len(Tiers) \in Nat /\ i <= Len(Tiers) /\ DOMAIN Tiers = 1 .. Len(Tiers)
  BY TierTypes
<1>1. d \in 1 .. i /\ (d > 1 => e > DropThreshold(d - 1))
  BY DroppedFacts
<1>2. d \in DOMAIN Tiers
  BY <1>0, <1>1
<1>3. /\ t \in d .. Len(Tiers)
      /\ \A k \in d .. t - 1 : e > RiseThreshold(k)
      /\ t < Len(Tiers) => ~ (e > RiseThreshold(t))
  BY <1>2, RaisedFacts
<1>4. Recomputed(i, e) = t
  BY DEF Recomputed
<1> HIDE DEF d, t
<1>5. t \in DOMAIN Tiers
  BY <1>0, <1>1, <1>3
<1>6. ASSUME HystOrdered PROVE Recomputed(t, e) = t
  <2>1. ASSUME t > 1 PROVE e > DropThreshold(t - 1)
    <3>1. CASE t = d
      BY <1>1, <2>1, <3>1
    <3>2. CASE t # d
      <4>1. t - 1 \in d .. t - 1 /\ t - 1 \in DOMAIN Tiers
        BY <1>0, <1>1, <1>3, <3>2
      <4>2. e > RiseThreshold(t - 1)
        BY <1>3, <4>1
      <4>3. DropThreshold(t - 1) <= RiseThreshold(t - 1)
        <5>1. Tiers[t - 1] \in Int
          BY <4>1, TierTypes
        <5> QED
          BY <1>6, <5>1, AdaptiveAssumption DEF HystOrdered, DropThreshold, RiseThreshold
      <4> QED
        BY <4>1, <4>2, <4>3, ThresholdTypes
    <3> QED
      BY <3>1, <3>2
  <2> QED
    BY <1>3, <1>5, <2>1, Stays
<1> QED
  BY <1>4, <1>5, <1>6

-----------------------------------------------------------------------------
(* The inductive invariant.                                                *)

\* The controller's own state.
Controller ==
  /\ idx \in DOMAIN Tiers /\ ema \in 0 .. 4 * MaxSteps /\ count \in 0 .. Warmup + Interval
  /\ states \subseteq Initials \cup Range(Tiers)
  /\ phase \in {"build", "idle", "verify", "complete"}
  /\ phase = "build" => count = 0
  /\ HystOrdered => DecisionStands

\* The worker is wholly of one registered tier and server_args say the same one;
\* once it serves, it is the controller's and every tier is registered.
OneTier ==
  /\ \E n \in states : worker = Resources(n) /\ args = [steps |-> n, tokens |-> n + 1]
  /\ phase # "build" => Range(Tiers) \subseteq states /\ worker = Resources(Tiers[idx])

\* Requests stay below their limit outside of the step that finishes them, and a
\* round has requests.
Lengths ==
  /\ seq \in [Reqs -> 0 .. SeqLimit] /\ acc \in [Reqs -> 0 .. MaxSteps]
  /\ phase # "complete" => \A r \in Reqs : seq[r] < SeqLimit
  /\ phase \in {"verify", "complete"} => Running # {}

\* The rows have the width of the configured steps, and the memory check was made
\* for the tier that runs.
Room ==
  /\ \E n \in Initials : row_len = ContextLen + 4 + (n + 1)
  /\ phase \in {"verify", "complete"} => secured >= worker.tokens

AdaptInv == Controller /\ OneTier /\ Lengths /\ Room

\* EAGLEWorker.__init__ establishes the invariant.
LEMMA AdaptInit == AdaptiveInit => AdaptInv
<1> SUFFICES ASSUME AdaptiveInit PROVE AdaptInv
  OBVIOUS
<1>1. PICK n \in Initials :
        /\ worker = Resources(n)
        /\ args = [steps |-> n, tokens |-> n + 1]
        /\ row_len = ContextLen + 4 + (n + 1)
        /\ states = {n}
        /\ idx = Snap(n) /\ ema = 4 * (Tiers[Snap(n)] - 1) /\ count = 0
        /\ seq = [r \in Reqs |-> 0] /\ acc = [r \in Reqs |-> 0]
        /\ phase = "build"
  BY DEF AdaptiveInit
<1>2. n \in Nat
  BY AdaptiveAssumption
<1>3. Snap(n) \in DOMAIN Tiers
  BY <1>2, SnapType
<1>4. Controller
  <2> DEFINE t == Tiers[Snap(n)]
  <2>1. t \in Nat \ {0} /\ t <= MaxSteps /\ MaxSteps \in Nat
    BY <1>3, TierTypes, TiersBelowMax
  <2> HIDE DEF t
  <2>2. 4 * (t - 1) \in 0 .. 4 * MaxSteps
    BY <2>1
  <2>3. ema \in 0 .. 4 * MaxSteps
    BY <1>1, <2>2 DEF t
  <2>4. 0 \in 0 .. Warmup + Interval
    BY AdaptiveAssumption
  <2> QED
    BY <1>1, <1>3, <2>3, <2>4 DEF Controller, DecisionStands
<1>5. OneTier
  BY <1>1 DEF OneTier
<1>6. Lengths
  <2>1. SeqLimit \in Nat /\ 0 < SeqLimit /\ MaxSteps \in Nat
    BY AdaptiveAssumption, TierTypes DEF SeqLimit
  <2> QED
    BY <1>1, <2>1 DEF Lengths
<1>7. Room
  BY <1>1 DEF Room
<1> QED
  BY <1>4, <1>5, <1>6, <1>7 DEF AdaptInv

\* What a step of apply_runtime_state leaves: the worker and server_args of tier n.
LEMMA AppliedFacts ==
  ASSUME OneTier, NEW n, Applied(n)
  PROVE  worker' = Resources(n) /\ args' = [steps |-> n, tokens |-> n + 1]
<1>1. PICK m \in states : worker = Resources(m) /\ args = [steps |-> m, tokens |-> m + 1]
  BY DEF OneTier
<1>2. worker.steps = m
  BY <1>1 DEF Resources
<1> QED
  BY <1>1, <1>2 DEF Applied

\* A quotient of a sum of c numbers is at most their bound.
LEMMA AverageBound ==
  ASSUME NEW m \in Nat, NEW c \in Nat, c > 0, NEW a \in 0 .. m * c
  PROVE  (4 * a) \div c \in 0 .. 4 * m
<1> DEFINE q == (4 * a) \div c
<1>1. q \in Int /\ c * q <= 4 * a /\ 4 * a < c * q + c
  OBVIOUS
<1>2. 4 * a <= (4 * m) * c /\ 0 <= 4 * a
  OBVIOUS
<1> HIDE DEF q
<1>3. q >= 0
  <2> SUFFICES ASSUME q <= -1 PROVE FALSE
    BY <1>1
  <2>1. c * q <= c * (-1)
    BY <1>1
  <2> QED
    BY <1>1, <1>2, <2>1
<1>4. q <= 4 * m
  <2> SUFFICES ASSUME q >= 4 * m + 1 PROVE FALSE
    BY <1>1
  <2>1. c * q >= c * (4 * m + 1)
    BY <1>1
  <2>2. c * (4 * m + 1) = (4 * m) * c + c
    OBVIOUS
  <2> QED
    BY <1>1, <1>2, <2>1, <2>2
<1> QED
  BY <1>1, <1>3, <1>4 DEF q

\* The average of a batch is in the range of its terms, and so is a mix of it with
\* the moving average.
LEMMA SmoothedRange ==
  ASSUME AdaptInv, phase = "complete", NEW e \in Smoothed(BatchAvg)
  PROVE  e \in 0 .. 4 * MaxSteps
<1>0. MaxSteps \in Nat /\ ema \in 0 .. 4 * MaxSteps
  BY TierTypes DEF AdaptInv, Controller
<1>1. Running \subseteq Reqs /\ Running # {} /\ \A r \in Running : acc[r] \in 0 .. MaxSteps
  BY DEF AdaptInv, Lengths, Running
<1>2. IsFiniteSet(Running)
  BY <1>1, AdaptiveAssumption, FS_Subset
<1>3. Cardinality(Running) \in Nat /\ Cardinality(Running) # 0
  BY <1>1, <1>2, FS_CardinalityType, FS_EmptySet
<1>4. Total(acc, Running) \in 0 .. MaxSteps * Cardinality(Running)
  BY <1>0, <1>1, <1>2, SumBound
<1>5. (4 * Total(acc, Running)) \div Cardinality(Running) \in 0 .. 4 * MaxSteps
  BY <1>0, <1>3, <1>4, AverageBound
<1>6. BatchAvg \in 0 .. 4 * MaxSteps
  BY <1>5 DEF BatchAvg
<1>7. e = BatchAvg \/ e \in Min({ema, BatchAvg}) .. Max({ema, BatchAvg})
  BY DEF Smoothed
<1> DEFINE b == BatchAvg
           m == 4 * MaxSteps
<1>8. m \in Nat /\ b \in 0 .. m /\ ema \in 0 .. m
  BY <1>0, <1>6
<1>9. e = b \/ e \in Min({ema, b}) .. Max({ema, b})
  BY <1>7
<1> HIDE DEF b, m
<1>10. /\ Min({ema, b}) = (IF ema <= b THEN ema ELSE b)
       /\ Max({ema, b}) = (IF ema <= b THEN b ELSE ema)
  BY <1>8, MinMaxPair
<1>11. e \in 0 .. m
  BY <1>8, <1>9, <1>10
<1> QED
  BY <1>11 DEF m

-----------------------------------------------------------------------------
(* The steps.                                                              *)

LEMMA BuildStep ==
  ASSUME AdaptInv, NEW n \in Range(Tiers), BuildState(n)
  PROVE  AdaptInv'
<1> USE DEF BuildState
<1>1. Controller'
  BY DEF AdaptInv, Controller, DecisionStands
<1>2. OneTier'
  BY DEF AdaptInv, OneTier, Restored
<1>3. Lengths'
  BY DEF AdaptInv, Lengths, Running
<1>4. Room'
  BY DEF AdaptInv, Room, Restored
<1> QED
  BY <1>1, <1>2, <1>3, <1>4 DEF AdaptInv

LEMMA ActivateStep ==
  ASSUME AdaptInv, ActivateFirst
  PROVE  AdaptInv'
<1>0. idx \in DOMAIN Tiers /\ Range(Tiers) \subseteq states /\ Tiers[idx] \in Range(Tiers)
  BY DEF AdaptInv, Controller, ActivateFirst, Range
<1>1. worker' = Resources(Tiers[idx]) /\ args' = [steps |-> Tiers[idx], tokens |-> Tiers[idx] + 1]
  BY AppliedFacts DEF AdaptInv, ActivateFirst
<1> USE DEF ActivateFirst
<1>2. Controller'
  <2>1. count = count' /\ ema = ema' /\ idx = idx' /\ states' = states /\ phase' = "idle"
    OBVIOUS
  <2>2. ~ Due(count')
    BY <2>1, AdaptiveAssumption DEF AdaptInv, Controller, Due
  <2> QED
    BY <2>1, <2>2 DEF AdaptInv, Controller, DecisionStands
<1>3. OneTier'
  BY <1>0, <1>1 DEF OneTier
<1>4. Lengths'
  BY DEF AdaptInv, Lengths, Running
<1>5. Room'
  BY DEF AdaptInv, Room
<1> QED
  BY <1>2, <1>3, <1>4, <1>5 DEF AdaptInv

LEMMA ArriveStep ==
  ASSUME AdaptInv, NEW r \in Reqs, Arrive(r)
  PROVE  AdaptInv'
<1> USE DEF Arrive
<1>1. Controller'
  BY DEF AdaptInv, Controller, DecisionStands
<1>2. OneTier'
  BY DEF AdaptInv, OneTier
<1>3. Lengths'
  <2>1. PICK p \in 1 .. ContextLen - 7 : seq' = [seq EXCEPT ![r] = p]
    OBVIOUS
  <2>2. p \in 0 .. SeqLimit /\ p < SeqLimit
    BY AdaptiveAssumption DEF SeqLimit
  <2> QED
    BY <2>1, <2>2 DEF AdaptInv, Lengths
<1>4. Room'
  BY DEF AdaptInv, Room
<1> QED
  BY <1>1, <1>2, <1>3, <1>4 DEF AdaptInv

LEMMA CheckStep ==
  ASSUME AdaptInv, CheckDecodeMem
  PROVE  AdaptInv'
<1> USE DEF CheckDecodeMem
<1>1. Controller'
  BY DEF AdaptInv, Controller, DecisionStands
<1>2. OneTier'
  BY DEF AdaptInv, OneTier
<1>3. Lengths'
  BY DEF AdaptInv, Lengths, Running
<1>4. Room'
  <2>1. PICK n \in states : worker = Resources(n) /\ args = [steps |-> n, tokens |-> n + 1]
    BY DEF AdaptInv, OneTier
  <2>2. n \in Nat
    BY <2>1, TierTypes, AdaptiveAssumption DEF AdaptInv, Controller
  <2>3. Max({n, n + 1}) = n + 1
    <3>1. n \in Int /\ n + 1 \in Int /\ n <= n + 1
      BY <2>2
    <3> HIDE DEF Max
    <3>2. Max({n, n + 1}) = IF n <= n + 1 THEN n + 1 ELSE n
      BY <3>1, MinMaxPair
    <3> QED
      BY <3>1, <3>2
  <2>4. secured' = n + 1 /\ worker'.tokens = n + 1
    BY <2>1, <2>3 DEF Resources
  <2> QED
    BY <2>2, <2>4 DEF AdaptInv, Room
<1> QED
  BY <1>1, <1>2, <1>3, <1>4 DEF AdaptInv

LEMMA VerifyStep ==
  ASSUME AdaptInv, Verify
  PROVE  AdaptInv'
<1> USE DEF Verify
<1>1. Controller'
  BY DEF AdaptInv, Controller, DecisionStands
<1>2. OneTier'
  BY DEF AdaptInv, OneTier
<1>3. Lengths'
  <2>0. /\ SeqLimit \in Nat /\ MaxSteps \in Nat
        /\ seq \in [Reqs -> 0 .. SeqLimit] /\ \A r \in Reqs : seq[r] < SeqLimit
        /\ Running # {}
    BY AdaptiveAssumption, TierTypes DEF SeqLimit, AdaptInv, Lengths
  <2>1. worker.steps \in Nat /\ worker.steps <= MaxSteps
    <3>1. idx \in DOMAIN Tiers /\ worker.steps = Tiers[idx]
      BY DEF AdaptInv, Controller, OneTier, Resources
    <3> QED
      BY <3>1, TierTypes, TiersBelowMax
  <2> DEFINE kept(a) == [r \in Running |-> Min({a[r], SeqLimit - seq[r] - 1})]
  <2>2. PICK a \in [Running -> 0 .. worker.steps] :
          /\ acc' = [r \in Reqs |-> IF r \in Running THEN kept(a)[r] ELSE 0]
          /\ seq' = [r \in Reqs |-> IF r \in Running THEN seq[r] + kept(a)[r] + 1 ELSE 0]
    OBVIOUS
  <2>3. ASSUME NEW r \in Running
        PROVE  /\ r \in Reqs
               /\ acc'[r] \in 0 .. MaxSteps
               /\ seq'[r] \in 1 .. SeqLimit
    <3>0. r \in Reqs
      BY DEF Running
    <3>1. a[r] \in Nat /\ a[r] <= MaxSteps /\ seq[r] \in Nat /\ SeqLimit - seq[r] - 1 \in Nat
      BY <2>0, <2>1, <2>2, <3>0
    <3> DEFINE k == Min({a[r], SeqLimit - seq[r] - 1})
    <3>2. k = (IF a[r] <= SeqLimit - seq[r] - 1 THEN a[r] ELSE SeqLimit - seq[r] - 1)
      BY <3>1, MinMaxPair
    <3>3. acc'[r] = k /\ seq'[r] = seq[r] + k + 1
      BY <2>2, <3>0
    <3> HIDE DEF k
    <3> QED
      BY <2>0, <3>0, <3>1, <3>2, <3>3
  <2>4. \A r \in Reqs \ Running : acc'[r] = 0 /\ seq'[r] = 0
    BY <2>2
  <2>5. /\ acc' = [r \in Reqs |-> acc'[r]] /\ seq' = [r \in Reqs |-> seq'[r]]
    BY <2>2
  <2>6. acc' \in [Reqs -> 0 .. MaxSteps] /\ seq' \in [Reqs -> 0 .. SeqLimit]
    <3>1. \A r \in Reqs : acc'[r] \in 0 .. MaxSteps /\ seq'[r] \in 0 .. SeqLimit
      <4> SUFFICES ASSUME NEW r \in Reqs
                   PROVE  acc'[r] \in 0 .. MaxSteps /\ seq'[r] \in 0 .. SeqLimit
        OBVIOUS
      <4>1. CASE r \in Running
        <5>1. acc'[r] \in 0 .. MaxSteps /\ seq'[r] \in 1 .. SeqLimit
          BY <2>3, <4>1
        <5> QED
          BY <2>0, <5>1
      <4>2. CASE r \notin Running
        <5>1. acc'[r] = 0 /\ seq'[r] = 0
          BY <2>4, <4>2
        <5> QED
          BY <2>0, <5>1
      <4> QED
        BY <4>1, <4>2
    <3> QED
      BY <2>5, <3>1
  <2>7. Running' # {}
    <3>1. PICK r \in Running : TRUE
      BY <2>0
    <3>a. r \in Reqs /\ seq'[r] \in 1 .. SeqLimit
      BY <2>3
    <3>2. r \in Reqs /\ seq'[r] > 0
      BY <2>0, <3>a
    <3> QED
      BY <3>2 DEF Running
  <2> QED
    BY <2>0, <2>6, <2>7 DEF Lengths
<1>4. Room'
  BY DEF AdaptInv, Room
<1> QED
  BY <1>1, <1>2, <1>3, <1>4 DEF AdaptInv

LEMMA CompleteStep ==
  ASSUME AdaptInv, OnVerifyComplete
  PROVE  AdaptInv'
<1> USE DEF OnVerifyComplete
<1>1. PICK e \in Smoothed(BatchAvg) :
        /\ ema' = e
        /\ count' = Counted
        /\ idx' = IF Due(Counted) THEN Recomputed(idx, e) ELSE idx
        /\ IF idx' = idx THEN UNCHANGED <<worker, args>> ELSE Applied(Tiers[idx'])
  OBVIOUS
<1>2. e \in 0 .. 4 * MaxSteps /\ e \in Int
  <2>1. e \in 0 .. 4 * MaxSteps
    BY <1>1, SmoothedRange
  <2> QED
    BY <2>1, TierTypes
<1>3. idx \in DOMAIN Tiers
  BY DEF AdaptInv, Controller
<1>4. idx' \in DOMAIN Tiers
  BY <1>1, <1>2, <1>3, RecomputedSettled
<1>5. Controller'
  <2>1. count' \in 0 .. Warmup + Interval
    BY <1>1, AdaptiveAssumption DEF AdaptInv, Controller, Counted
  <2>2. ASSUME HystOrdered PROVE DecisionStands'
    <3> SUFFICES ASSUME Due(count') PROVE Recomputed(idx', ema') = idx'
      BY DEF DecisionStands
    <3>1. idx' = Recomputed(idx, e) /\ ema' = e
      BY <1>1
    <3> QED
      BY <1>2, <1>3, <2>2, <3>1, RecomputedSettled
  <2> QED
    BY <1>1, <1>2, <1>4, <2>1, <2>2 DEF AdaptInv, Controller
<1>6. OneTier'
  <2>0. Range(Tiers) \subseteq states /\ states' = states /\ Tiers[idx'] \in Range(Tiers)
    BY <1>4 DEF AdaptInv, OneTier, Range
  <2>1. worker' = Resources(Tiers[idx']) /\ args' = [steps |-> Tiers[idx'], tokens |-> Tiers[idx'] + 1]
    <3>1. CASE idx' = idx
      <4>1. PICK n \in states : worker = Resources(n) /\ args = [steps |-> n, tokens |-> n + 1]
        BY DEF AdaptInv, OneTier
      <4>2. worker = Resources(Tiers[idx])
        BY DEF AdaptInv, OneTier
      <4>3. n = Tiers[idx]
        BY <4>1, <4>2 DEF Resources
      <4> QED
        BY <1>1, <3>1, <4>1, <4>3
    <3>2. CASE idx' # idx
      BY <1>1, <3>2, AppliedFacts DEF AdaptInv
    <3> QED
      BY <3>1, <3>2
  <2> QED
    BY <2>0, <2>1 DEF OneTier
<1>7. Lengths'
  <2>1. PICK stop \in SUBSET Running :
          seq' = [r \in Reqs |-> IF r \in stop \/ seq[r] >= SeqLimit THEN 0 ELSE seq[r]]
    OBVIOUS
  <2>2. SeqLimit \in Nat /\ 0 < SeqLimit /\ seq \in [Reqs -> 0 .. SeqLimit]
    BY AdaptiveAssumption DEF SeqLimit, AdaptInv, Lengths
  <2>3. seq' \in [Reqs -> 0 .. SeqLimit] /\ \A r \in Reqs : seq'[r] < SeqLimit
    BY <2>1, <2>2
  <2> QED
    BY <2>3 DEF AdaptInv, Lengths
<1>8. Room'
  BY DEF AdaptInv, Room
<1> QED
  BY <1>5, <1>6, <1>7, <1>8 DEF AdaptInv

LEMMA AdaptStep == AdaptInv /\ [AdaptiveNext]_adaptiveVars => AdaptInv'
<1> SUFFICES ASSUME AdaptInv, [AdaptiveNext]_adaptiveVars PROVE AdaptInv'
  OBVIOUS
<1>1. CASE \E n \in Range(Tiers) : BuildState(n)
  BY <1>1, BuildStep
<1>2. CASE ActivateFirst
  BY <1>2, ActivateStep
<1>3. CASE Traffic
  BY <1>3, ArriveStep DEF Traffic
<1>4. CASE CheckDecodeMem
  BY <1>4, CheckStep
<1>5. CASE Verify
  BY <1>5, VerifyStep
<1>6. CASE OnVerifyComplete
  BY <1>6, CompleteStep
<1>7. CASE UNCHANGED adaptiveVars
  <2> USE <1>7 DEF adaptiveVars
  <2>1. Controller'
    BY DEF AdaptInv, Controller, DecisionStands
  <2>2. OneTier'
    BY DEF AdaptInv, OneTier
  <2>3. Lengths'
    BY DEF AdaptInv, Lengths, Running
  <2>4. Room'
    BY DEF AdaptInv, Room
  <2> QED
    BY <2>1, <2>2, <2>3, <2>4 DEF AdaptInv
<1> QED
  BY <1>1, <1>2, <1>3, <1>4, <1>5, <1>6, <1>7 DEF AdaptiveNext, Step, Round

-----------------------------------------------------------------------------
(* Theorems.                                                               *)

\* Whatever the configuration, the controller's tier, the worker with all its
\* backends and graphs and server_args agree whenever a round runs.
THEOREM AdaptInvariant == AdaptiveSystem => []AdaptInv
<1>1. AdaptiveInit => AdaptInv
  BY AdaptInit
<1>2. AdaptInv /\ [AdaptiveNext]_adaptiveVars => AdaptInv'
  BY AdaptStep
<1> QED
  BY <1>1, <1>2, PTL DEF AdaptiveSystem

\* When the highest tier is at most eight steps above the configured ones and the
\* thresholds are ordered, every round runs with one tier whose tokens fit the
\* rows, and a decision stands until the next batch.
THEOREM StagesAgreeTheorem ==
  ASSUME RowsWide, HystOrdered
  PROVE  AdaptiveSystem => []StagesAgree
<1>1. AdaptInv => StagesAgree
  <2> SUFFICES ASSUME AdaptInv PROVE StagesAgree
    OBVIOUS
  <2>0. SeqLimit \in Nat /\ ContextLen \in Nat /\ SeqLimit + 3 = ContextLen /\ MaxSteps \in Nat
    BY AdaptiveAssumption, TierTypes DEF SeqLimit
  <2>1. PICK n \in states : worker = Resources(n) /\ args = [steps |-> n, tokens |-> n + 1]
    BY DEF AdaptInv, OneTier
  <2>2. AdaptiveTypeOK
    <3>1. args.steps = n
      BY <2>1
    <3>2. seq \in [Reqs -> 0 .. ContextLen]
      <4>1. 0 .. SeqLimit \subseteq 0 .. ContextLen
        BY <2>0
      <4> QED
        BY <4>1 DEF AdaptInv, Lengths
    <3> QED
      BY <3>1, <3>2 DEF AdaptiveTypeOK, AdaptInv, Controller, Lengths
  <2>3. RowFits
    <3> SUFFICES ASSUME phase = "verify", NEW r \in Running PROVE seq[r] + worker.tokens <= row_len
      BY DEF RowFits
    <3>1. PICK m \in Initials : row_len = ContextLen + 4 + (m + 1)
      BY DEF AdaptInv, Room
    <3>2. m \in Nat /\ MaxSteps <= m + 8
      BY <3>1, AdaptiveAssumption DEF RowsWide
    <3>3. r \in Reqs /\ seq[r] \in Nat /\ seq[r] < SeqLimit
      BY <2>0 DEF Running, AdaptInv, Lengths
    <3>4. idx \in DOMAIN Tiers /\ worker.tokens = Tiers[idx] + 1
      BY DEF AdaptInv, Controller, OneTier, Resources
    <3>5. Tiers[idx] \in Nat /\ Tiers[idx] <= MaxSteps
      BY <3>4, TierTypes, TiersBelowMax
    <3> QED
      BY <2>0, <3>1, <3>2, <3>3, <3>4, <3>5
  <2>4. phase \in {"verify", "complete"} => worker = Resources(Tiers[idx]) /\ secured >= worker.tokens
    BY DEF AdaptInv, OneTier, Room
  <2>5. DecisionStands
    BY DEF AdaptInv, Controller
  <2> QED
    BY <2>2, <2>3, <2>4, <2>5 DEF StagesAgree
<1> QED
  BY <1>1, AdaptInvariant, PTL
=============================================================================
